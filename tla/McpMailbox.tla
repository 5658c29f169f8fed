------------------------------ MODULE McpMailbox ------------------------------
(* What Server.SendRequest promises its callers, whatever happens to streams, *)
(* buffers and replies: a call is answered or abandoned once; a reply is      *)
(* accepted at most once, only while its call is open, and an answered call    *)
(* returns the reply that was accepted.                                        *)
EXTENDS Naturals

CONSTANTS Calls, Replies, NoReply

VARIABLES
  call,      \* per call: idle, open, answered, abandoned
  accepted   \* per call: the reply the transport said it took

vars == <<call, accepted>>

Init ==
  /\ call = [c \in Calls |-> "idle"]
  /\ accepted = [c \in Calls |-> NoReply]

Open(c) ==
  /\ call[c] = "idle"
  /\ call' = [call EXCEPT ![c] = "open"]
  /\ UNCHANGED accepted

Accept(c) ==
  /\ call[c] = "open"
  /\ accepted[c] = NoReply
  /\ \E r \in Replies : accepted' = [accepted EXCEPT ![c] = r]
  /\ UNCHANGED call

Answer(c) ==
  /\ call[c] = "open"
  /\ accepted[c] # NoReply
  /\ call' = [call EXCEPT ![c] = "answered"]
  /\ UNCHANGED accepted

\* The caller's context ends; a reply may have been accepted just before.
Abandon(c) ==
  /\ call[c] = "open"
  /\ call' = [call EXCEPT ![c] = "abandoned"]
  /\ UNCHANGED accepted

Next == \E c \in Calls : Open(c) \/ Accept(c) \/ Answer(c) \/ Abandon(c)

Spec == Init /\ [][Next]_vars
=============================================================================
