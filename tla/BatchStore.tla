----------------------------- MODULE BatchStore ------------------------------
(***************************************************************************)
(* The OpenAI Files and Batches surfaces (internal/adapter/files.go,       *)
(* batches.go), for one tenant: the stores share nothing between tenants.  *)
(*                                                                         *)
(* A batch is created in steps, since its input, its output and error      *)
(* files and the batch itself go through the stores' mutexes one at a time *)
(* and uploads, deletions and other batches come in between.  Polls and    *)
(* cancellations read the clock before they take the batch's mutex.        *)
(***************************************************************************)
EXTENDS Integers, FiniteSets, Sequences, SequencesExt

CONSTANTS Inputs,       \* the input files clients upload, sequences of lines
          Creators,     \* POST /v1/batches requests
          Watchers,     \* GET /v1/batches/{id} and .../cancel requests
          Delays,       \* values of the X-Mockagents-Batch-Delay-Ms header
          maxFilesPerTenant, maxBatchesPerTenant,
          maxBatchRequests,   \* lines an input may have
          MaxFiles,     \* bound on files ever stored
          MaxTime       \* bound on the clock
BatchBounds == maxFilesPerTenant > 0 /\ maxBatchesPerTenant > 0 /\ maxBatchRequests > 0

VARIABLES files,        \* the file store of a tenant: its entries and their order
          made,         \* file ids generated
          batches,      \* the batch store: its entries and their order
          clock,
          creator, watcher,   \* the requests
          told          \* batch -> the statuses its clients have been told (history)
vars == <<files, made, batches, clock, creator, watcher, told>>

(***************************************************************************)
(* The bounded stores                                                      *)
(***************************************************************************)
Empty == [m |-> <<>>, order |-> <<>>]   \* id -> entry, and the insertion order
Without(m, id) == [k \in DOMAIN m \ {id} |-> m[k]]
\* fileStore.put and batchStore.put: past the cap the oldest goes
putEarly(st, id, entry, cap) ==   \* mutant: evicts when the store becomes full
    LET order == Append(st.order, id)
        over == Len(order) >= cap
        m == IF over THEN Without(st.m, Head(order)) ELSE st.m
    IN [m |-> [k \in DOMAIN m \cup {id} |-> IF k = id THEN entry ELSE m[k]],
        order |-> IF over THEN Tail(order) ELSE order]
put(st, id, entry, cap) ==
    LET order == Append(st.order, id)
        over == Len(order) > cap
        m == IF over THEN Without(st.m, Head(order)) ELSE st.m
    IN [m |-> [k \in DOMAIN m \cup {id} |-> IF k = id THEN entry ELSE m[k]],
        order |-> IF over THEN Tail(order) ELSE order]
\* fileStore.delete
deleteKeepsOrder(st, id) == [m |-> Without(st.m, id), order |-> st.order]   \* mutant
delete(st, id) == [m |-> Without(st.m, id), order |-> SelectSeq(st.order, LAMBDA k : k # id)]

(***************************************************************************)
(* Processing an input file: one line after the other                      *)
(***************************************************************************)
\* A line is [json, id, method, url, body, status]: whether it decodes, its
\* custom_id (0 when missing), whether method, url and body pass, and the
\* status the endpoint answers with.
dispatch(l) == l.status
validateInputLine(l, seen) == l.id # 0 /\ l.id \notin seen /\ l.method /\ l.url /\ l.body
Start == [seen |-> {}, out |-> <<>>, err |-> <<>>, total |-> 0, completed |-> 0, failed |-> 0]
processLineReserveValid(acc, l) ==   \* mutant: only a valid line reserves its custom_id
    LET ok == l.json /\ validateInputLine(l, acc.seen)
        good == ok /\ dispatch(l) \div 100 = 2
    IN [seen |-> IF ok THEN acc.seen \cup {l.id} ELSE acc.seen,
        out |-> IF ok THEN Append(acc.out, l.id) ELSE acc.out,
        err |-> IF ok THEN acc.err ELSE Append(acc.err, l.id),
        total |-> acc.total + 1,
        completed |-> acc.completed + (IF good THEN 1 ELSE 0),
        failed |-> acc.failed + (IF good THEN 0 ELSE 1)]
processLine(acc, l) ==
    LET ok == l.json /\ validateInputLine(l, acc.seen)
        good == ok /\ dispatch(l) \div 100 = 2
    IN [seen |-> IF l.json /\ l.id # 0 THEN acc.seen \cup {l.id} ELSE acc.seen,
        out |-> IF ok THEN Append(acc.out, l.id) ELSE acc.out,
        err |-> IF ok THEN acc.err ELSE Append(acc.err, l.id),
        total |-> acc.total + 1,
        completed |-> acc.completed + (IF good THEN 1 ELSE 0),
        failed |-> acc.failed + (IF good THEN 0 ELSE 1)]
process(lines) == FoldLeft(processLine, Start, lines)

(***************************************************************************)
(* Batches                                                                 *)
(***************************************************************************)
\* render: the status of a batch at a time, derived and not stored
status(b, now) == IF b.cancelled THEN "cancelled"
                  ELSE IF now - b.createdAt < b.delay THEN "in_progress" ELSE "completed"

NoJob == [pc |-> "idle", input |-> <<>>, result |-> Start, now |-> 0, outFile |-> 0, errFile |-> 0, batch |-> 0]
\* (before: what clients had been told of the batch when this request began)
NoWatch == [pc |-> "idle", batch |-> 0, now |-> 0, before |-> {}, answer |-> "none"]
Init ==
    /\ files = Empty /\ made = 0 /\ batches = Empty /\ clock = 0
    /\ creator = [c \in Creators |-> NoJob]
    /\ watcher = [w \in Watchers |-> NoWatch]
    /\ told = <<>>

\* HandleUpload, once the form has been read
HandleUpload(lines) ==
    /\ made < MaxFiles
    /\ made' = made + 1
    /\ files' = put(files, made + 1, lines, maxFilesPerTenant)
    /\ UNCHANGED <<batches, clock, creator, watcher, told>>
\* HandleDelete (of an id the store has; another is a 404)
HandleDelete(id) ==
    /\ id \in DOMAIN files.m
    /\ files' = delete(files, id)
    /\ UNCHANGED <<made, batches, clock, creator, watcher, told>>

\* HandleCreate: the lookup of the input, the processing of its lines and the
\* reading of the clock; an empty input and one too long are refused
HandleCreate(c, id) ==
    /\ creator[c].pc = "idle"
    /\ id \in DOMAIN files.m
    /\ Len(files.m[id]) \in 1..maxBatchRequests
    /\ creator' = [creator EXCEPT ![c] = [NoJob EXCEPT !.pc = "output", !.input = files.m[id],
                                              !.result = process(files.m[id]), !.now = clock]]
    /\ UNCHANGED <<files, made, batches, clock, watcher, told>>
\* putGeneratedFile, only for a file that has lines
putGeneratedFile(c, which, lines, next) ==
    IF lines = <<>>
    THEN creator' = [creator EXCEPT ![c].pc = next] /\ UNCHANGED <<files, made>>
    ELSE /\ made < MaxFiles
         /\ made' = made + 1
         /\ files' = put(files, made + 1, <<>>, maxFilesPerTenant)
         /\ creator' = [creator EXCEPT ![c] = [[@ EXCEPT !.pc = next] EXCEPT ![which] = made + 1]]
PutOutput(c) ==
    /\ creator[c].pc = "output"
    /\ putGeneratedFile(c, "outFile", creator[c].result.out, "errors")
    /\ UNCHANGED <<batches, clock, watcher, told>>
PutErrors(c) ==
    /\ creator[c].pc = "errors"
    /\ putGeneratedFile(c, "errFile", creator[c].result.err, "store")
    /\ UNCHANGED <<batches, clock, watcher, told>>
putBatch(id, b) == put(batches, id, b, maxBatchesPerTenant)
\* The end of HandleCreate: the batch is stored under an id of its own, and then
\* answered with the clock read when the lines had been processed
StoreBatch(c, delay) ==
    /\ creator[c].pc = "store"
    /\ LET b == [createdAt |-> creator[c].now, delay |-> delay, cancelled |-> FALSE,
                 cancelledAt |-> 0, job |-> [creator[c] EXCEPT !.pc = "done"]]
       IN /\ batches' = putBatch(Len(told) + 1, b)
          /\ told' = Append(told, {})
    /\ creator' = [creator EXCEPT ![c] = [NoJob EXCEPT !.pc = "answer", !.now = creator[c].now, !.batch = Len(told) + 1]]
    /\ UNCHANGED <<files, made, clock, watcher>>
AnswerCreate(c) ==
    /\ creator[c].pc = "answer"
    /\ LET id == creator[c].batch
       IN told' = IF id \in DOMAIN batches.m
                  THEN [told EXCEPT ![id] = @ \cup {status(batches.m[id], creator[c].now)}] ELSE told
    /\ creator' = [creator EXCEPT ![c] = [NoJob EXCEPT !.pc = "done"]]
    /\ UNCHANGED <<files, made, batches, clock, watcher>>

\* HandleRetrieve, HandleList (for one of its entries) and HandleCancel: the
\* lookup and the reading of the clock
Look(w, id, pc) ==
    /\ watcher[w].pc \in {"idle", "done"}
    /\ id \in DOMAIN batches.m
    /\ watcher' = [watcher EXCEPT ![w] =
           [NoWatch EXCEPT !.pc = pc, !.batch = id, !.now = clock, !.before = told[id]]]
    /\ UNCHANGED <<files, made, batches, clock, creator, told>>
HandleRetrieve(w, id) == Look(w, id, "render")
HandleList(w, id) == Look(w, id, "render")
HandleCancel(w, id) == Look(w, id, "cancel")
\* cancel: refused once cancelled or, by this request's clock, completed; a
\* batch evicted since the lookup is out of everyone else's sight
CancelAnyway(w) ==   \* mutant: without the comparison with the delay
    /\ watcher[w].pc = "cancel"
    /\ watcher[w].batch \in DOMAIN batches.m
    /\ batches' = [batches EXCEPT !.m[watcher[w].batch] =
           IF @.cancelled THEN @ ELSE [@ EXCEPT !.cancelled = TRUE, !.cancelledAt = watcher[w].now]]
    /\ watcher' = [watcher EXCEPT ![w].pc = "render"]
    /\ UNCHANGED <<files, made, clock, creator, told>>
Cancel(w) ==
    /\ watcher[w].pc = "cancel"
    /\ watcher[w].batch \in DOMAIN batches.m
    /\ batches' = [batches EXCEPT !.m[watcher[w].batch] =
           IF status(@, watcher[w].now) # "in_progress" THEN @
           ELSE [@ EXCEPT !.cancelled = TRUE, !.cancelledAt = watcher[w].now]]
    /\ watcher' = [watcher EXCEPT ![w].pc = "render"]
    /\ UNCHANGED <<files, made, clock, creator, told>>
\* The answer, rendered with the clock this request has read
Render(w) ==
    /\ watcher[w].pc = "render"
    /\ watcher[w].batch \in DOMAIN batches.m
    /\ LET id == watcher[w].batch
           s == status(batches.m[id], watcher[w].now)
       IN /\ told' = [told EXCEPT ![id] = @ \cup {s}]
          /\ watcher' = [watcher EXCEPT ![w].pc = "done", ![w].answer = s]
    /\ UNCHANGED <<files, made, batches, clock, creator>>
Tick ==
    /\ clock < MaxTime
    /\ clock' = clock + 1
    /\ UNCHANGED <<files, made, batches, creator, watcher, told>>

Next ==
    \/ \E lines \in Inputs : HandleUpload(lines)
    \/ \E id \in DOMAIN files.m : HandleDelete(id)
    \/ \E c \in Creators : \/ /\ \A d \in Creators : d < c => creator[d].pc # "idle"   \* creators are alike
                              /\ \E id \in DOMAIN files.m : HandleCreate(c, id)
                           \/ PutOutput(c) \/ PutErrors(c) \/ AnswerCreate(c)
                           \/ \E d \in Delays : StoreBatch(c, d)
    \/ \E w \in Watchers : \/ \E id \in DOMAIN batches.m : HandleRetrieve(w, id) \/ HandleList(w, id) \/ HandleCancel(w, id)
                           \/ Cancel(w) \/ Render(w)
    \/ Tick
Spec == Init /\ [][Next]_vars

-----------------------------------------------------------------------------
(***************************************************************************)
(* Properties                                                              *)
(***************************************************************************)
\* The stored files and batches are exactly what the insertion order lists,
\* each once: an id that stayed in the order after a deletion would make the
\* store evict a live file before it is full.
OrderExact(st, cap) ==
    /\ ToSet(st.order) = DOMAIN st.m /\ Len(st.order) <= cap
    /\ Len(st.order) = Cardinality(DOMAIN st.m)
StoresExact == OrderExact(files, maxFilesPerTenant) /\ OrderExact(batches, maxBatchesPerTenant)

\* A file leaves the store only by its own deletion, or as the oldest of a full
\* store: neither an upload nor a batch's generated files push out a file while
\* there is room, and no newer file goes before an older one.
OnlyOldestEvicted ==
    [][\A f \in DOMAIN files.m \ DOMAIN files'.m :
          \/ made' = made
          \/ Cardinality(DOMAIN files.m) = maxFilesPerTenant /\ \A g \in DOMAIN files.m : f <= g]_vars

\* What a batch reports about its input, whatever the lines are: there are as many
\* as a batch may have, at least one and at most the limit; every line is counted
\* once, as completed or as failed; the output has exactly the lines
\* that are well formed and whose custom_id no earlier decodable line has used,
\* in their order, so each custom_id at most once; every other line is in the
\* error file; and there is a file exactly if it has a line.
Dispatched(lines) == {i \in DOMAIN lines :
    LET l == lines[i] IN
    /\ l.json /\ l.id # 0 /\ l.method /\ l.url /\ l.body
    /\ ~ \E j \in 1..(i - 1) : lines[j].json /\ lines[j].id = l.id}
BatchesFaithful ==
    \A k \in DOMAIN batches.m :
       LET j == batches.m[k].job
           sent == Dispatched(j.input)
       IN /\ j.result.total = Len(j.input) /\ Len(j.input) \in 1..maxBatchRequests
          /\ j.result.completed = Cardinality({i \in sent : j.input[i].status \in 200..299})
          /\ j.result.completed + j.result.failed = j.result.total
          /\ j.result.out = [n \in 1..Cardinality(sent) |->
                 j.input[CHOOSE i \in sent : Cardinality({h \in sent : h <= i}) = n].id]
          /\ Len(j.result.err) = Len(j.input) - Cardinality(sent)
          /\ (j.outFile # 0) = (sent # {}) /\ (j.errFile # 0) = (Cardinality(sent) < Len(j.input))

\* What a client is told is final: a request that begins after someone was told
\* that the batch is over is not told that it is in progress, nor "completed"
\* after "cancelled"; and it is told "cancelled" after "completed" only if the
\* cancellation had read its clock before the batch was complete.
StatusFinal ==
    \A w \in Watchers : LET r == watcher[w] IN
       r.pc = "done" =>
          /\ "cancelled" \in r.before => r.answer = "cancelled"
          /\ "completed" \in r.before =>
                \/ r.answer = "completed"
                \/ /\ r.answer = "cancelled"
                   /\ r.batch \in DOMAIN batches.m =>
                        LET b == batches.m[r.batch] IN b.cancelledAt < b.createdAt + b.delay
=============================================================================
