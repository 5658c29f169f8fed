------------------------------- MODULE Sessions -------------------------------
(***************************************************************************)
(* Conversation state: MemoryStore (internal/engine/state/store.go), the   *)
(* session turn (session.go) and the part of Engine.ProcessRequestContext  *)
(* (internal/engine/engine.go) that runs one turn through them.            *)
(*                                                                         *)
(* A session is a heap object with its own lock; the store maps a scoped   *)
(* key (tenant, agent, client session id) to a pointer under a store lock. *)
(* GetOrCreate asks a session whether it expired while it holds the store  *)
(* lock; a turn holds the session lock and never asks for the store lock.  *)
(* Each Request runs one turn.                                             *)
(***************************************************************************)
EXTENDS Integers, Sequences, FiniteSets

CONSTANTS Requests,    \* requests, each one conversation turn
          Getters,     \* callers of Store.Get and Store.Delete
          Keys,        \* scoped session keys
          TTL,         \* session time to live, in clock ticks
          MaxTime,     \* bound: clock ticks explored
          Nil, Cleaner \* no pointer / no owner; the cleanup goroutine

ASSUME SessionsAssumption ==
  /\ IsFiniteSet(Requests)
  /\ TTL \in Nat \ {0}
  /\ MaxTime \in Nat
  /\ Nil \notin Requests \cup Getters \cup Keys

VARIABLES
  clock,        \* time.Now()
  sessions,     \* the store's map
  heap,         \* session objects ever created
  storeLock,    \* holder of MemoryStore.mu in write mode
  owner,        \* holder of each session's mu
  rpc, key, ptr, turnNo,   \* request: control point, key, session, turn number
  gpc, gkey, gptr,         \* Get: control point, id, pointer
  cpc, snapshot, expired   \* Cleanup: control point and its two slices

store   == <<sessions, heap, storeLock, owner>>
request == <<rpc, key, ptr, turnNo>>
getter  == <<gpc, gkey, gptr>>
cleaner == <<cpc, snapshot, expired>>
vars    == <<clock, store, request, getter, cleaner>>

Ptrs == 1..Len(heap)

IsExpired(p) == clock - heap[p].lastAccess > TTL

Init ==
  /\ clock = 0
  /\ sessions = [k \in Keys |-> Nil]
  /\ heap = << >>
  /\ storeLock = Nil
  /\ owner = << >>
  /\ rpc = [r \in Requests |-> "start"]
  /\ key = [r \in Requests |-> Nil]
  /\ ptr = [r \in Requests |-> Nil]
  /\ turnNo = [r \in Requests |-> 0]
  /\ gpc = [g \in Getters |-> "start"]
  /\ gkey = [g \in Getters |-> Nil]
  /\ gptr = [g \in Getters |-> Nil]
  /\ cpc = "idle"
  /\ snapshot = {}
  /\ expired = {}

Tick ==
  /\ clock < MaxTime
  /\ clock' = clock + 1
  /\ UNCHANGED <<store, request, getter, cleaner>>

-----------------------------------------------------------------------------
(* GetOrCreate.                                                             *)

NewSession(k) == [key |-> k, messages |-> << >>, turns |-> 0, lastAccess |-> clock]

GetOrCreateLock(r, k) ==
  /\ rpc[r] = "start"
  /\ storeLock = Nil
  /\ storeLock' = r
  /\ rpc' = [rpc EXCEPT ![r] = "lookup"]
  /\ key' = [key EXCEPT ![r] = k]
  /\ UNCHANGED <<clock, sessions, heap, owner, ptr, turnNo, getter, cleaner>>

GetOrCreateReturn(r, p) ==
  /\ ptr' = [ptr EXCEPT ![r] = p]
  /\ rpc' = [rpc EXCEPT ![r] = "turn"]
  /\ storeLock' = Nil
  /\ UNCHANGED <<clock, key, turnNo, getter, cleaner>>

\* The stored session is live: IsExpired waits for the session's lock.
GetOrCreateHit(r) ==
  LET p == sessions[key[r]]
  IN  /\ rpc[r] = "lookup"
      /\ p # Nil
      /\ owner[p] = Nil
      /\ ~IsExpired(p)
      /\ GetOrCreateReturn(r, p)
      /\ UNCHANGED <<sessions, heap, owner>>

\* There is none, or it expired and is replaced.
GetOrCreateMiss(r) ==
  LET p == sessions[key[r]]
      new == Len(heap) + 1
  IN  /\ rpc[r] = "lookup"
      /\ p # Nil => owner[p] = Nil /\ IsExpired(p)
      /\ heap' = Append(heap, NewSession(key[r]))
      /\ owner' = Append(owner, Nil)
      /\ sessions' = [sessions EXCEPT ![key[r]] = new]
      /\ GetOrCreateReturn(r, new)

-----------------------------------------------------------------------------
(* ApplyTurn: user message, build, assistant message, under the session lock *)

appendUserMessage(s, r) ==
  [s EXCEPT !.messages = Append(@, <<"user", r>>), !.turns = @ + 1, !.lastAccess = clock]

appendAssistantMessage(s, r) ==
  [s EXCEPT !.messages = Append(@, <<"assistant", r>>), !.lastAccess = clock]

ApplyTurnUnlocked(r) ==   \* mutant: the turn does not take the session lock
  /\ rpc[r] = "turn"
  /\ heap' = [heap EXCEPT ![ptr[r]] = appendUserMessage(@, r)]
  /\ turnNo' = [turnNo EXCEPT ![r] = heap[ptr[r]].turns + 1]
  /\ rpc' = [rpc EXCEPT ![r] = "build"]
  /\ UNCHANGED <<clock, sessions, storeLock, owner, key, ptr, getter, cleaner>>

ApplyTurnBegin(r) ==
  /\ rpc[r] = "turn"
  /\ owner[ptr[r]] = Nil
  /\ owner' = [owner EXCEPT ![ptr[r]] = r]
  /\ heap' = [heap EXCEPT ![ptr[r]] = appendUserMessage(@, r)]
  /\ turnNo' = [turnNo EXCEPT ![r] = heap[ptr[r]].turns + 1]
  /\ rpc' = [rpc EXCEPT ![r] = "build"]
  /\ UNCHANGED <<clock, sessions, storeLock, key, ptr, getter, cleaner>>

ApplyTurnEndCounts(r) ==   \* mutant: the assistant message counts as a turn
  /\ rpc[r] = "build"
  /\ heap' = [heap EXCEPT ![ptr[r]].messages = Append(@, <<"assistant", r>>),
                          ![ptr[r]].turns = @ + 1,
                          ![ptr[r]].lastAccess = clock]
  /\ owner' = [owner EXCEPT ![ptr[r]] = Nil]
  /\ rpc' = [rpc EXCEPT ![r] = "done"]
  /\ UNCHANGED <<clock, sessions, storeLock, key, ptr, turnNo, getter, cleaner>>

\* Matching and generation succeeded.
ApplyTurnEnd(r) ==
  /\ rpc[r] = "build"
  /\ heap' = [heap EXCEPT ![ptr[r]] = appendAssistantMessage(@, r)]
  /\ owner' = [owner EXCEPT ![ptr[r]] = Nil]
  /\ rpc' = [rpc EXCEPT ![r] = "done"]
  /\ UNCHANGED <<clock, sessions, storeLock, key, ptr, turnNo, getter, cleaner>>

ApplyTurnErrorKeepsLock(r) ==   \* mutant: no deferred unlock on the error path
  /\ rpc[r] = "build"
  /\ rpc' = [rpc EXCEPT ![r] = "failed"]
  /\ UNCHANGED <<clock, store, key, ptr, turnNo, getter, cleaner>>

\* Generation failed: the user message and the turn count stay.
ApplyTurnError(r) ==
  /\ rpc[r] = "build"
  /\ owner' = [owner EXCEPT ![ptr[r]] = Nil]
  /\ rpc' = [rpc EXCEPT ![r] = "failed"]
  /\ UNCHANGED <<clock, sessions, heap, storeLock, key, ptr, turnNo, getter,
                 cleaner>>

-----------------------------------------------------------------------------
(* Get: the pointer is read, then judged, then evicted in a second section. *)

GetRead(g, k) ==
  /\ gpc[g] = "start"
  /\ storeLock = Nil
  /\ gkey' = [gkey EXCEPT ![g] = k]
  /\ gptr' = [gptr EXCEPT ![g] = sessions[k]]
  /\ gpc' = [gpc EXCEPT ![g] = IF sessions[k] = Nil THEN "done" ELSE "judge"]
  /\ UNCHANGED <<clock, store, request, cleaner>>

GetJudge(g) ==
  /\ gpc[g] = "judge"
  /\ owner[gptr[g]] = Nil
  /\ gpc' = [gpc EXCEPT ![g] = IF IsExpired(gptr[g]) THEN "evict" ELSE "done"]
  /\ UNCHANGED <<clock, store, request, gkey, gptr, cleaner>>

GetEvictById(g) ==   \* mutant: unconditional Delete(id), finding F-ST-003
  /\ gpc[g] = "evict"
  /\ storeLock = Nil
  /\ sessions' = [sessions EXCEPT ![gkey[g]] = Nil]
  /\ gpc' = [gpc EXCEPT ![g] = "done"]
  /\ UNCHANGED <<clock, heap, storeLock, owner, request, gkey, gptr, cleaner>>

\* deleteIfSame
GetEvict(g) ==
  /\ gpc[g] = "evict"
  /\ storeLock = Nil
  /\ sessions' = [sessions EXCEPT ![gkey[g]] = IF @ = gptr[g] THEN Nil ELSE @]
  /\ gpc' = [gpc EXCEPT ![g] = "done"]
  /\ UNCHANGED <<clock, heap, storeLock, owner, request, gkey, gptr, cleaner>>

Delete(g, k) ==
  /\ gpc[g] = "start"
  /\ storeLock = Nil
  /\ sessions' = [sessions EXCEPT ![k] = Nil]
  /\ gpc' = [gpc EXCEPT ![g] = "done"]
  /\ UNCHANGED <<clock, heap, storeLock, owner, request, gkey, gptr, cleaner>>

-----------------------------------------------------------------------------
(* Cleanup: snapshot, scan without the store lock, delete under it.         *)

CleanupSnapshot ==
  /\ cpc = "idle"
  /\ storeLock = Nil
  /\ snapshot' = {p \in Ptrs : \E k \in Keys : sessions[k] = p}
  /\ expired' = {}
  /\ cpc' = "scan"
  /\ UNCHANGED <<clock, store, request, getter>>

CleanupScan(p) ==
  /\ cpc = "scan"
  /\ p \in snapshot
  /\ owner[p] = Nil
  /\ snapshot' = snapshot \ {p}
  /\ expired' = IF IsExpired(p) THEN expired \cup {p} ELSE expired
  /\ UNCHANGED <<clock, store, request, getter, cpc>>

CleanupLock ==
  /\ cpc = "scan"
  /\ snapshot = {}
  /\ IF expired = {}
     THEN cpc' = "idle" /\ UNCHANGED storeLock
     ELSE cpc' = "delete" /\ storeLock = Nil /\ storeLock' = Cleaner
  /\ UNCHANGED <<clock, sessions, heap, owner, request, getter, snapshot, expired>>

CleanupDeleteUnchecked(p) ==   \* mutant: no second IsExpired
  /\ cpc = "delete"
  /\ p \in expired
  /\ sessions' = [k \in Keys |-> IF sessions[k] = p THEN Nil ELSE sessions[k]]
  /\ expired' = expired \ {p}
  /\ UNCHANGED <<clock, heap, storeLock, owner, request, getter, cpc, snapshot>>

CleanupDelete(p) ==
  /\ cpc = "delete"
  /\ p \in expired
  /\ \/ sessions[heap[p].key] # p
     \/ owner[p] = Nil
  /\ sessions' = [sessions EXCEPT ![heap[p].key] =
                    IF @ = p /\ IsExpired(p) THEN Nil ELSE @]
  /\ expired' = expired \ {p}
  /\ UNCHANGED <<clock, heap, storeLock, owner, request, getter, cpc, snapshot>>

CleanupUnlock ==
  /\ cpc = "delete"
  /\ expired = {}
  /\ storeLock' = Nil
  /\ cpc' = "idle"
  /\ UNCHANGED <<clock, sessions, heap, owner, request, getter, snapshot, expired>>

-----------------------------------------------------------------------------
RequestStep(r) ==
  \/ GetOrCreateHit(r) \/ GetOrCreateMiss(r) \/ ApplyTurnBegin(r)
  \/ ApplyTurnEnd(r) \/ ApplyTurnError(r)
CleanupStep ==
  CleanupLock \/ CleanupUnlock \/ \E p \in Ptrs : CleanupScan(p) \/ CleanupDelete(p)

Next ==
  \/ Tick
  \/ \E r \in Requests : RequestStep(r) \/ \E k \in Keys : GetOrCreateLock(r, k)
  \/ \E g \in Getters : GetJudge(g) \/ GetEvict(g) \/ \E k \in Keys : GetRead(g, k) \/ Delete(g, k)
  \/ CleanupSnapshot
  \/ CleanupStep

Spec == Init /\ [][Next]_vars

(***************************************************************************)
(* Goroutines run, and Go's mutexes do not starve a waiter: a request      *)
(* waiting for a lock that is free again and again gets it.  The ticker    *)
(* need not start another sweep, and the clock need not advance.           *)
(***************************************************************************)
Fairness ==
  /\ \A r \in Requests : SF_vars(RequestStep(r))
  /\ SF_vars(CleanupStep)

FairSpec == Spec /\ Fairness

-----------------------------------------------------------------------------
(* Properties.                                                              *)

\* "concurrent requests for the same session cannot interleave history
\* updates" (session.go:53-54): an assistant message directly follows the
\* user message of its own request.
TurnsDoNotInterleave ==
  \A p \in Ptrs : \A i \in 1..Len(heap[p].messages) :
    heap[p].messages[i][1] = "assistant" =>
      i > 1 /\ heap[p].messages[i-1] = <<"user", heap[p].messages[i][2]>>

\* The requests of one session are given the turn numbers 1, 2, ... without
\* gap or repetition, failed turns included, so turn-numbered scenarios fire
\* once.
TurnNumbersDistinct ==
  \A p \in Ptrs :
    LET mine == {r \in Requests : ptr[r] = p /\ rpc[r] \in {"build", "done", "failed"}}
    IN  /\ heap[p].turns = Cardinality(mine)
        /\ {turnNo[r] : r \in mine} = 1..heap[p].turns

\* Neither Cleanup nor GetOrCreate ever evicts a session that is not expired
\* at that very moment, be it refreshed since the scan or replaced
\* (store.go:132-136).  Get and Delete, the steps of a getter, do not judge
\* again.
OnlyExpiredEvicted ==
  [][UNCHANGED getter => \A k \in Keys :
       sessions[k] # Nil /\ sessions'[k] # sessions[k] => IsExpired(sessions[k])]_vars

\* Store.Get evicts only the session it judged expired, never a replacement
\* filed under the same id meanwhile (store.go:59-62, F-ST-003).
GetSparesReplacement ==
  [][\A g \in Getters : GetEvict(g) =>
       \A k \in Keys : sessions'[k] # sessions[k] => sessions[k] = gptr[g]]_vars

\* Turns put together: they do not interleave and are numbered once.
TurnsSerial == TurnsDoNotInterleave /\ TurnNumbersDistinct
\* Evictions put together: only what is expired, only what was judged.
EvictionsExact == OnlyExpiredEvicted /\ GetSparesReplacement

\* Every request that reached the store finishes its turn: the two locks are
\* always taken in the same order and released on the error path too.
TurnsFinish ==
  \A r \in Requests : rpc[r] = "lookup" ~> rpc[r] \in {"done", "failed"}
=============================================================================
