---------------------------- MODULE ResponseChain ----------------------------
(***************************************************************************)
(* The OpenAI Responses surface (internal/adapter/responses.go): the store *)
(* of conversations a later request continues with previous_response_id.   *)
(* The store is read before the engine runs and written after it, so the   *)
(* turns of several requests, of one thread or of several, overlap.        *)
(***************************************************************************)
EXTENDS Integers, FiniteSets, Sequences, SequencesExt

CONSTANTS Requests,            \* POST /v1/responses requests
          maxStoredResponses,
          MaxResponses         \* bound on responses ever given

VARIABLES store,    \* response id -> the conversation up to it
          order,    \* the ids in the store, oldest first
          given,    \* the responses given: what each was asked and in which session (history)
          req       \* the requests
vars == <<store, order, given, req>>

NoRequest == [pc |-> "idle", prev |-> 0, instructions |-> FALSE, input |-> FALSE,
              messages |-> <<>>, session |-> <<"none", 0>>]
Init == /\ store = <<>> /\ order = <<>> /\ given = <<>>
        /\ req = [r \in Requests |-> NoRequest]

\* responseStore.put
put(id, msgs) ==
    LET o == Append(order, id)
        over == Len(o) > maxStoredResponses
        keep == IF over THEN DOMAIN store \ {Head(o)} ELSE DOMAIN store
    IN /\ order' = IF over THEN Tail(o) ELSE o
       /\ store' = [k \in keep \cup {id} |-> IF k = id THEN msgs ELSE store[k]]

\* responsesSessionID: the X-Session-Id header, else a key made from the
\* response that is continued, else a fresh id
responsesSessionID(r, prev, header) ==
    IF header THEN <<"header", 1>>
    ELSE IF prev # 0 THEN <<"resp-thread", prev>> ELSE <<"sess", r>>

\* HandleResponses up to the engine.  A message is <<kind, request>>.  An id
\* the store does not have (prev of a response that was evicted) is a 404 and
\* a request without any message a 400; instructions count only on a fresh
\* conversation.
HandleResponses(r, prev, instructions, input, header) ==
    /\ req[r].pc = "idle"
    /\ LET prior == IF prev # 0 THEN (IF prev \in DOMAIN store THEN store[prev] ELSE <<>>)
                    ELSE IF instructions THEN <<<<"system", r>>>> ELSE <<>>
           messages == prior \o (IF input THEN <<<<"user", r>>>> ELSE <<>>)
           refused == (prev # 0 /\ prev \notin DOMAIN store) \/ messages = <<>>
       IN req' = [req EXCEPT ![r] = IF refused THEN [NoRequest EXCEPT !.pc = "refused"]
             ELSE [pc |-> "engine", prev |-> prev, instructions |-> instructions, input |-> input,
                   messages |-> messages, session |-> responsesSessionID(r, prev, header)]]
    /\ UNCHANGED <<store, order, given>>
\* The rest of it: the engine has failed (nothing is stored), or has answered
\* with a text or with tool calls alone, and the turn is stored under a new id
Turn(r, reply) == req[r].messages \o (IF reply THEN <<<<"assistant", r>>>> ELSE <<>>)
Fail(r) ==
    /\ req[r].pc = "engine"
    /\ req' = [req EXCEPT ![r].pc = "refused"]
    /\ UNCHANGED <<store, order, given>>
Answer(r, reply, messages) ==
    /\ req[r].pc = "engine"
    /\ Len(given) < MaxResponses
    /\ put(Len(given) + 1, messages)
    /\ given' = Append(given, [prev |-> req[r].prev, session |-> req[r].session, own |->
           SelectSeq(<<IF req[r].prev = 0 /\ req[r].instructions THEN <<"system", r>> ELSE <<>>,
                       IF req[r].input THEN <<"user", r>> ELSE <<>>,
                       IF reply THEN <<"assistant", r>> ELSE <<>> >>, LAMBDA m : m # <<>>)])
    /\ req' = [req EXCEPT ![r] = [NoRequest EXCEPT !.pc = "answered"]]
\* mutant: stores this request's own turn, without the prior ones
RespondNewOnly(r, reply) == Answer(r, reply, SelectSeq(Turn(r, reply), LAMBDA m : m[2] = r))
Respond(r, reply) == Answer(r, reply, Turn(r, reply))

Next ==
    \E r \in Requests :
       \/ /\ \A q \in Requests : q < r => req[q].pc # "idle"   \* requests are alike
          /\ \E prev \in 0..Len(given), i, j, h \in BOOLEAN : HandleResponses(r, prev, i, j, h)
       \/ Fail(r)
       \/ \E reply \in BOOLEAN : Respond(r, reply)
Spec == Init /\ [][Next]_vars

-----------------------------------------------------------------------------
(***************************************************************************)
(* Properties                                                              *)
(***************************************************************************)
\* The turns that led to a response, first to last: each response continues
\* the one it names.
Threads == {s \in SeqOf(1..Len(given), Len(given)) :
    /\ s # <<>> /\ given[s[1]].prev = 0
    /\ \A i \in 2..Len(s) : given[s[i]].prev = s[i - 1]}
\* A stored conversation is the whole thread up to its response: what every
\* turn of it was asked and answered, in order and once, whatever other threads
\* (or branches of this one) did meanwhile and even where the earlier turns have
\* been evicted from the store themselves.
ThreadComplete ==
    /\ ToSet(order) = DOMAIN store /\ Len(order) <= maxStoredResponses
    /\ \A s \in Threads : Last(s) \in DOMAIN store =>
          store[Last(s)] = FlattenSeq([i \in DOMAIN s |-> given[s[i]].own])

\* All turns of a thread run in one engine session, unless a client names
\* sessions itself (the comment on responsesSessionID).
ThreadSharesSession ==
    \A i \in DOMAIN given : given[i].prev # 0 /\ given[i].session[1] # "header"
        /\ given[given[i].prev].session[1] # "header" => given[i].session = given[given[i].prev].session
=============================================================================
