--------------------------- MODULE McpBidirectional ---------------------------
(* The MCP server's two ways to reach its client.  Server-initiated requests  *)
(* and notifications queue in `bidirectional` and travel over one SSE stream   *)
(* that a newer stream may steal; replies come back by POST and are routed to   *)
(* the caller blocked in SendRequest.  Notifications also queue in             *)
(* Server.pending, which the plain POST transport drains with each response.   *)
(* A request is named by its caller: the ids come from an atomic counter.       *)
EXTENDS Naturals, FiniteSets, Sequences, Functions

CONSTANTS
  Callers,    \* SendRequest calls, one request each
  NNotes,     \* bound: notifications emitted, numbered in order
  NEventStreams,   \* bound: GET /mcp/events connections, numbered in order
  Posts,      \* plain POST /mcp requests, each drains Server.pending
  Buffer,     \* capacity of a subscriber channel
  MaxReplies, \* bound: how often a client posts its reply to one request
  NoStream,
  NoReply

Notes == 1..NNotes
EventStreams == 1..NEventStreams
Replies == {"result", "error"}   \* what DispatchRequest posts

\* Requests and notifications are different messages; NoStream and NoReply are nil.
ASSUME BidiAssumption ==
  /\ NNotes \in Nat /\ NEventStreams \in Nat /\ Buffer \in Nat \ {0} /\ MaxReplies \in Nat
  /\ Callers \cap Notes = {}
  /\ NoStream \notin EventStreams
  /\ NoReply \notin Replies /\ NoReply \notin Seq(Notes)

VARIABLES
  outbound,   \* bidirectional.outbound
  pending,    \* bidirectional.pending: calls a reply may still claim
  sub,        \* bidirectional.sub: the stream attached, or NoStream
  subChan,    \* per stream: its channel's buffer
  subShut,    \* streams whose channel is closed
  spc,        \* per call: idle, registered, waiting, leaving, answered, gaveUp, failed
  claimed,    \* per call: the reply that removed its entry, not sent yet
  inbox,      \* per call: its one-slot response channel
  epc,        \* per stream: absent, open, leaving, done
  heard,      \* per stream: what its client received
  replied,    \* per call: replies posted so far
  notes,      \* Server.pending
  npc,        \* per notification: idle, queued, emitted
  polled,     \* per POST: what its response carried; NoReply before it
  enqueued,   \* history: messages in the order enqueue took them
  cutoff,     \* history: messages whose frame could not be written
  stolen,     \* history: a stream was replaced while its channel held messages
  spilled     \* history: a message waited in outbound with a stream attached

queueVars == <<outbound, sub, subChan, subShut>>
callVars  == <<pending, spc, claimed, inbox, replied>>
noteVars  == <<notes, npc, polled>>
histVars  == <<enqueued, cutoff, stolen, spilled>>
bidiVars  == <<queueVars, callVars, noteVars, epc, heard, histVars>>

BidiInit ==
  /\ outbound = <<>> /\ pending = {} /\ sub = NoStream
  /\ subChan = [s \in EventStreams |-> <<>>] /\ subShut = {}
  /\ spc = [c \in Callers |-> "idle"]
  /\ claimed = [c \in Callers |-> NoReply] /\ inbox = [c \in Callers |-> NoReply]
  /\ epc = [s \in EventStreams |-> "absent"] /\ heard = [s \in EventStreams |-> <<>>]
  /\ replied = [c \in Callers |-> 0]
  /\ notes = <<>> /\ npc = [n \in Notes |-> "idle"]
  /\ polled = [p \in Posts |-> NoReply]
  /\ enqueued = <<>> /\ cutoff = {} /\ stolen = FALSE /\ spilled = FALSE

-----------------------------------------------------------------------------
(* The queue.                                                               *)

Enqueue(m) ==
  /\ IF sub # NoStream /\ Len(subChan[sub]) < Buffer
     THEN subChan' = [subChan EXCEPT ![sub] = Append(@, m)] /\ UNCHANGED outbound
     ELSE outbound' = Append(outbound, m) /\ UNCHANGED subChan
  /\ enqueued' = Append(enqueued, m)
  /\ spilled' = (spilled \/ (sub # NoStream /\ outbound' # outbound))
  /\ UNCHANGED <<sub, subShut, cutoff, stolen>>

Connects(s) ==
  /\ s = Cardinality({t \in EventStreams : epc[t] # "absent"}) + 1
  /\ epc' = [epc EXCEPT ![s] = "open"]

\* A new stream steals the subscription and is sent the backlog up to Buffer.
BidiSubscribe(s) ==
  LET k == IF Len(outbound) < Buffer THEN Len(outbound) ELSE Buffer
  IN /\ Connects(s)
     /\ sub' = s
     /\ subShut' = IF sub = NoStream THEN subShut ELSE subShut \cup {sub}
     /\ subChan' = [subChan EXCEPT ![s] = SubSeq(outbound, 1, k)]
     /\ outbound' = SubSeq(outbound, k + 1, Len(outbound))
     /\ stolen' = (stolen \/ (sub # NoStream /\ subChan[sub] # <<>>))
     /\ spilled' = (spilled \/ outbound' # <<>>)
     /\ UNCHANGED <<callVars, noteVars, heard, enqueued, cutoff>>

BidiCancelDropsUnread(s) ==   \* mutant: the unread messages are not put back
  /\ epc[s] = "leaving"
  /\ epc' = [epc EXCEPT ![s] = "done"]
  /\ subChan' = [subChan EXCEPT ![s] = <<>>]
  /\ sub' = IF sub = s THEN NoStream ELSE sub
  /\ subShut' = subShut \cup {s}
  /\ UNCHANGED <<outbound, callVars, noteVars, heard, histVars>>

\* The deferred cancel: unread messages go back to the head of the queue,
\* unless another stream has taken over.
BidiCancel(s) ==
  /\ epc[s] = "leaving"
  /\ epc' = [epc EXCEPT ![s] = "done"]
  /\ subChan' = [subChan EXCEPT ![s] = <<>>]
  /\ IF sub = s
     THEN /\ outbound' = subChan[s] \o outbound
          /\ sub' = NoStream
          /\ subShut' = subShut \cup {s}
     ELSE UNCHANGED <<outbound, sub, subShut>>
  /\ UNCHANGED <<callVars, noteVars, heard, histVars>>

-----------------------------------------------------------------------------
(* EventStreamHandler.ServeHTTP: a frame reaches the client, or its write    *)
(* fails and the handler returns.                                            *)

StreamWrite(s) ==
  /\ epc[s] = "open" /\ subChan[s] # <<>>
  /\ subChan' = [subChan EXCEPT ![s] = Tail(@)]
  /\ heard' = [heard EXCEPT ![s] = Append(@, Head(subChan[s]))]
  /\ UNCHANGED <<outbound, sub, subShut, epc, callVars, noteVars, histVars>>

StreamWriteFails(s) ==
  /\ epc[s] = "open" /\ subChan[s] # <<>>
  /\ subChan' = [subChan EXCEPT ![s] = Tail(@)]
  /\ cutoff' = cutoff \cup {Head(subChan[s])}
  /\ epc' = [epc EXCEPT ![s] = "leaving"]
  /\ UNCHANGED <<outbound, sub, subShut, heard, callVars, noteVars, enqueued, stolen, spilled>>

\* The channel is closed, the client left, or a heartbeat could not be written.
StreamEnds(s) ==
  /\ epc[s] = "open"
  /\ epc' = [epc EXCEPT ![s] = "leaving"]
  /\ UNCHANGED <<queueVars, heard, callVars, noteVars, histVars>>

-----------------------------------------------------------------------------
(* SendRequest and the admin endpoint around it.                             *)

CallGoto(c, from, to) == spc[c] = from /\ spc' = [spc EXCEPT ![c] = to]

\* Method, body or params are refused before anything is registered.
SendRefused(c) ==
  /\ CallGoto(c, "idle", "failed")
  /\ UNCHANGED <<queueVars, pending, claimed, inbox, replied, noteVars, epc, heard, histVars>>

Register(c) ==
  /\ CallGoto(c, "idle", "registered")
  /\ pending' = pending \cup {c}
  /\ UNCHANGED <<queueVars, claimed, inbox, replied, noteVars, epc, heard, histVars>>

SendEnqueue(c) ==
  /\ CallGoto(c, "registered", "waiting")
  /\ Enqueue(c)
  /\ UNCHANGED <<pending, claimed, inbox, replied, noteVars, epc, heard>>

\* The entry is gone already: DeliverResponse removed it.
SendAnswered(c) ==
  /\ CallGoto(c, "waiting", "answered")
  /\ inbox[c] # NoReply
  /\ UNCHANGED <<queueVars, pending, claimed, inbox, replied, noteVars, epc, heard, histVars>>

\* ctx.Done wins the select; the entry is removed by the deferred cleanup.
SendTimeout(c) ==
  /\ CallGoto(c, "waiting", "leaving")
  /\ UNCHANGED <<queueVars, pending, claimed, inbox, replied, noteVars, epc, heard, histVars>>

Cleanup(c) ==
  /\ CallGoto(c, "leaving", "gaveUp")
  /\ pending' = pending \ {c}
  /\ UNCHANGED <<queueVars, claimed, inbox, replied, noteVars, epc, heard, histVars>>

-----------------------------------------------------------------------------
(* The client: it posts a reply to a request it received, and may post it    *)
(* again.  DeliverResponse claims the entry under the lock, then sends.       *)

Received(m) == \E s \in EventStreams : m \in Range(heard[s])

\* SendResponse does not retry by itself; its caller may post again.
SendResponse(c) ==
  /\ Received(c)
  /\ replied[c] < MaxReplies
  /\ replied' = [replied EXCEPT ![c] = @ + 1]

DeliverKeepsEntry(c, r) ==   \* mutant: the entry is looked up, not removed
  /\ SendResponse(c)
  /\ c \in pending
  /\ claimed' = [claimed EXCEPT ![c] = r]
  /\ UNCHANGED <<pending, queueVars, spc, inbox, noteVars, epc, heard, histVars>>

Deliver(c, r) ==
  /\ SendResponse(c)
  /\ IF c \in pending
     THEN pending' = pending \ {c} /\ claimed' = [claimed EXCEPT ![c] = r]
     ELSE UNCHANGED <<pending, claimed>>                       \* 404
  /\ UNCHANGED <<queueVars, spc, inbox, noteVars, epc, heard, histVars>>

DeliverSend(c) ==
  /\ claimed[c] # NoReply /\ inbox[c] = NoReply
  /\ inbox' = [inbox EXCEPT ![c] = claimed[c]]
  /\ UNCHANGED <<queueVars, pending, spc, claimed, replied, noteVars, epc, heard, histVars>>

-----------------------------------------------------------------------------
(* Notifications: EmitNotification and the POST transport that drains them.   *)

EmitPending(n) ==
  /\ n = Cardinality({k \in Notes : npc[k] # "idle"}) + 1
  /\ npc' = [npc EXCEPT ![n] = "queued"]
  /\ notes' = Append(notes, n)
  /\ UNCHANGED <<queueVars, callVars, polled, epc, heard, histVars>>

EmitPush(n) ==
  /\ npc[n] = "queued"
  /\ npc' = [npc EXCEPT ![n] = "emitted"]
  /\ Enqueue(n)
  /\ UNCHANGED <<callVars, notes, polled, epc, heard>>

DrainKeeps(p) ==   \* mutant: the queue is read and not cleared
  /\ polled[p] = NoReply
  /\ polled' = [polled EXCEPT ![p] = notes]
  /\ UNCHANGED <<notes, queueVars, callVars, npc, epc, heard, histVars>>

DrainNotifications(p) ==
  /\ polled[p] = NoReply
  /\ polled' = [polled EXCEPT ![p] = notes]
  /\ notes' = <<>>
  /\ UNCHANGED <<queueVars, callVars, npc, epc, heard, histVars>>

-----------------------------------------------------------------------------
EventStreamNext(s) == BidiSubscribe(s) \/ StreamWrite(s) \/ StreamWriteFails(s) \/ StreamEnds(s) \/ BidiCancel(s)
CallNext(c) ==
  \/ SendRefused(c) \/ Register(c) \/ SendEnqueue(c) \/ SendAnswered(c)
  \/ SendTimeout(c) \/ Cleanup(c) \/ DeliverSend(c)
  \/ \E r \in Replies : Deliver(c, r)

BidiNext ==
  \/ \E s \in EventStreams : EventStreamNext(s)
  \/ \E c \in Callers : CallNext(c)
  \/ \E n \in Notes : EmitPending(n) \/ EmitPush(n)
  \/ \E p \in Posts : DrainNotifications(p)

BidiSpec == BidiInit /\ [][BidiNext]_bidiVars

-----------------------------------------------------------------------------
(* SendRequest and its reply routing implement the mailbox: a call is open    *)
(* from registration to its last lock section, and a reply is accepted when   *)
(* DeliverResponse claims the entry (bidirectional.go:171-184).               *)
Mailbox == INSTANCE McpMailbox WITH
  Calls <- Callers,
  call <- [c \in Callers |->
             CASE spc[c] \in {"idle", "failed"} -> "idle"
               [] spc[c] \in {"registered", "waiting", "leaving"} -> "open"
               [] spc[c] = "answered" -> "answered"
               [] spc[c] = "gaveUp" -> "abandoned"],
  accepted <- claimed

\* Property: the bidirectional transport implements the mailbox: at most one
\* reply is accepted per call, never after the call returned, and an answer is
\* the accepted reply, whatever the client posts twice or late.
ImplementsMailbox == Mailbox!Spec

Occurs(m, q) == Cardinality({i \in DOMAIN q : q[i] = m})

\* Where a message is: its places in the buffer, in channels and with clients.
Places(m) ==
  LET At(q) == {i \in DOMAIN q : q[i] = m}
  IN {<<"outbound", 0, i>> : i \in At(outbound)}
     \cup (UNION {{<<"channel", s, i>> : i \in At(subChan[s])} : s \in EventStreams})
     \cup (UNION {{<<"client", s, i>> : i \in At(heard[s])} : s \in EventStreams})

\* Invariant: a message the queue took is in one place: buffered, in a channel
\* or with a client.  It may be missing only when its own frame could not be
\* written, or a stream was stolen with messages in its channel ("messages are
\* never dropped", bidirectional.go:118-121, up to those two).
NeverDropped ==
  \A m \in Range(enqueued) :
    /\ \A x, y \in Places(m) : x = y
    /\ Places(m) # {} \/ m \in cutoff \/ stolen

Before(a, b) ==
  \E i, j \in DOMAIN enqueued : i < j /\ enqueued[i] = a /\ enqueued[j] = b

\* Invariant: a client receives messages in the order they were queued, across
\* reconnects, as long as no message had to wait in the buffer while a stream
\* was attached.
OneOrderedStream ==
  spilled \/ \A s \in EventStreams : \A i, j \in DOMAIN heard[s] :
               i < j => Before(heard[s][i], heard[s][j])

\* Invariant: a notification reaches the plain POST transport once: it is in
\* Server.pending or in exactly one response (server.go:56-82).
PolledOnce ==
  \A n \in Notes :
    LET inPosts == {p \in Posts : polled[p] # NoReply /\ n \in Range(polled[p])}
    IN Occurs(n, notes) + Cardinality(inPosts) = IF npc[n] = "idle" THEN 0 ELSE 1

\* Invariant: a queued message is in one place until a client has it, unless its
\* frame could not be written or its stream was stolen; a client gets them in
\* order, across reconnects, unless one had to wait in the buffer; and a
\* notification is in one polled response at most (bidirectional.go, server.go).
DeliversOnceInOrder == NeverDropped /\ OneOrderedStream /\ PolledOnce
=============================================================================
