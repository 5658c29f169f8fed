------------------------------- MODULE MCLimits -------------------------------
(***************************************************************************)
(* What one tenant may use: its quotas, and the bounded stores that keep   *)
(* its files, batches and responses; `part` says what runs.                *)
(*                                                                         *)
(* "shared": three requests, two of them on one replica, and a ledger.  A  *)
(* TTL and a timeout of one tick: a call may start in one tick and answer  *)
(* in the next, and a month of three ticks ends while calls are under way. *)
(* "local": no ledger, two calls and a reader of Usage on one replica, and *)
(* an administrator.  "rate": half and whole tokens, rates of 1/2, 1 1/2   *)
(* and 0 tokens a tick, bursts of 2 tokens, of 1, and one derived from the *)
(* rate.                                                                   *)
(*                                                                         *)
(* "batches" interleaves uploads, deletions and the creation of two        *)
(* batches, one evicting the other, with one client that polls or cancels; *)
(* "polls" has one input, one batch and two such clients; "lines" runs one *)
(* batch on every input of up to three lines, the limit, and on one longer *)
(* than that; "responses" chains three requests through a store of two     *)
(* responses.                                                              *)
(***************************************************************************)
EXTENDS SpendQuota, TLC

CONSTANTS r1, r2, r3, r4, p1, p2, w1, w2, nil

CONSTANT Parts

VARIABLES part, cfg, bucket, calls, grants, promise,
          files, made, batches, creator, watcher, told,
          stored, order, given, req

Spread == (r1 :> p1 @@ r2 :> p1 @@ r3 :> p2 @@ r4 :> p1)

MCConfigs == {[rate |-> 1, burst |-> 2], [rate |-> 3, burst |-> 0], [rate |-> 1, burst |-> 1],
              [rate |-> 0, burst |-> 0]}

R == INSTANCE RateQuota WITH
       Unit <- 2, Configs <- MCConfigs, MaxTime <- 5, MaxCalls <- 6, Nil <- nil

ASSUME R!RateAssumption

Ok == [json |-> TRUE, id |-> 1, method |-> TRUE, url |-> TRUE, body |-> TRUE, status |-> 200]
Lines == {Ok, [Ok EXCEPT !.json = FALSE], [Ok EXCEPT !.url = FALSE], [Ok EXCEPT !.status = 429],
          [Ok EXCEPT !.id = 0], [Ok EXCEPT !.id = 2]}
AllFiles == UNION {[1..n -> Lines] : n \in 0..3} \cup {<<Ok, Ok, Ok, Ok>>}
SomeFiles == {<<Ok>>, <<Ok, [Ok EXCEPT !.json = FALSE]>>}

B == INSTANCE BatchStore WITH
       Inputs <- SomeFiles, Creators <- {1, 2}, Watchers <- {w1, w2}, Delays <- {0, 1},
       maxFilesPerTenant <- 2, maxBatchesPerTenant <- 1, maxBatchRequests <- 3, MaxFiles <- 4, MaxTime <- 2
C == INSTANCE ResponseChain WITH
       Requests <- 1..3, maxStoredResponses <- 2, MaxResponses <- 3, store <- stored

ASSUME B!BatchBounds

spend == <<cap, overrides, backend, failures, ledger, cache, past, pc, month, total,
           since, seen>>
rate  == <<cfg, bucket, calls, grants, promise>>
batch == <<files, made, batches, creator, watcher, told>>
chain == <<stored, order, given, req>>

Batching == part \in {"batches", "polls", "lines"}

MCInit == /\ part \in Parts
          /\ Init /\ backend = (part # "local") /\ (backend => cap = 1)
          /\ R!Init /\ B!Init /\ C!Init
          /\ part # "rate" => cfg = [rate |-> 0, burst |-> 0]

BatchNext == \/ /\ part = "batches" /\ B!Next
                /\ Cardinality({w \in {w1, w2} : watcher'[w].pc # "idle"}) <= 1 /\ clock' < 2
             \/ /\ part = "polls" /\ B!Next
                /\ creator'[2].pc = "idle" /\ (files' # files /\ creator' = creator => made = 0)
             \/ /\ part = "lines"
                /\ \/ made = 0 /\ \E lines \in AllFiles : B!HandleUpload(lines)
                   \/ B!HandleCreate(1, 1) \/ B!PutOutput(1) \/ B!PutErrors(1) \/ B!StoreBatch(1, 0)
                   \/ B!AnswerCreate(1)
MCNext == /\ \/ /\ part \in {"shared", "local"} /\ Next /\ UNCHANGED <<rate, batch, chain>>
                /\ part = "shared" => pc'[r4] = "start" /\ overrides' = 0
                /\ part = "local" => pc'[r3] = "start"
             \/ part = "rate" /\ R!Next /\ UNCHANGED <<spend, batch, chain>>
             \/ BatchNext /\ UNCHANGED <<spend, rate, chain>>
             \/ part = "responses" /\ C!Next /\ UNCHANGED <<clock, spend, rate, batch>>
          /\ UNCHANGED part
MCSpec == MCInit /\ [][MCNext]_<<clock, spend, rate, batch, chain, part>>

\* In every window the burst and the refill pay for the granted requests, and
\* the retry time of a refusal is exact up to its truncation (RateQuota,
\* quota.go:176).
RateHonest == [](part = "rate" => R!WindowBound) /\ R!RetryAfterExact

\* Both stores hold exactly the entries of their order and stay within their
\* caps, and a cap evicts only the oldest entry (BatchStore, files.go).
StoresBounded == [](Batching => B!StoresExact) /\ B!OnlyOldestEvicted

\* A finished batch answers every line of its input once, in output or error
\* file, its counts agree with them, and a final status told to a client stays
\* (BatchStore, batches.go).
BatchesFaithful == Batching => B!BatchesFaithful /\ B!StatusFinal

\* Every stored conversation is the whole thread up to its response, whatever
\* other threads did and wherever earlier turns have been evicted (ResponseChain).
ThreadComplete == part = "responses" => C!ThreadComplete

\* responses.go:442-445: "multi-turn conversations keyed by previous_response_id
\* share engine session state" (ResponseChain).
ThreadSharesSession == C!ThreadSharesSession

\* The two requests of one replica are interchangeable, and so are the watchers.
Symmetry == Permutations({r1, r2}) \cup Permutations({w1, w2})
=============================================================================
