------------------------------ MODULE SpendQuota ------------------------------
(***************************************************************************)
(* The monthly spend cap of one tenant (internal/quota/quota.go, the spend *)
(* half of QuotaEnforce in internal/server/quota_middleware.go): replicas  *)
(* that each cache the month's total for a TTL, and a shared ledger that   *)
(* adds atomically.  Without a backend a replica's cache is the counter.   *)
(*                                                                         *)
(* Each step is one critical section of Enforcer.mu, one read of the clock *)
(* or one backend call.  Assumed: a backend call ends, and its caller has   *)
(* taken the lock again, within the call's context timeout.                *)
(* Every answered request costs 1.                                         *)
(***************************************************************************)
EXTENDS Integers, FiniteSets

CONSTANTS Requests, Replicas,
          Readers,       \* the requests that read Usage; the others are LLM calls
          ReplicaOf,     \* request -> the replica that serves it
          Backends,      \* installed ledgers explored: TRUE shared, FALSE none
          Caps,          \* caps an administrator may set; 0 means unlimited
          TTL, Timeout,  \* spendCacheTTL, the backend calls' timeout
          MonthLen,      \* ticks per month
          MaxTime,       \* bound: ticks explored
          MaxOverrides,  \* bound: SetOverride calls explored
          MaxFailures    \* bound: failed backend calls explored

ASSUME SpendAssumption ==
  /\ IsFiniteSet(Requests) /\ Readers \subseteq Requests
  /\ ReplicaOf \in [Requests -> Replicas]
  /\ Backends \subseteq BOOLEAN
  /\ Caps \subseteq Nat
  /\ {TTL, Timeout, MonthLen} \subseteq Nat \ {0}
  /\ {MaxTime, MaxOverrides, MaxFailures} \subseteq Nat

VARIABLES
  clock, cap, overrides,
  backend,     \* spendBackend: is a shared ledger installed?
  failures,    \* backend calls that failed so far
  ledger,      \* month -> total in the shared store
  cache,       \* replica -> counter: month, usd, expiry
  past,        \* history: tick -> the ledger when it ended
  pc,          \* request -> control point
  month, total, since, seen   \* its month key, total, call start, last section

vars == <<clock, cap, overrides, backend, failures, ledger, cache, past, pc,
          month, total, since, seen>>

Months == 0..(MaxTime \div MonthLen)
monthKey == clock \div MonthLen

Init ==
  /\ clock = 0
  /\ cap \in Caps
  /\ backend \in Backends
  /\ overrides = 0 /\ failures = 0
  /\ ledger = [m \in Months |-> 0]
  /\ cache = [p \in Replicas |-> [month |-> 0, usd |-> 0, expiry |-> 0]]
  /\ past = [t \in 0..MaxTime |-> [m \in Months |-> 0]]
  /\ pc = [r \in Requests |-> "start"]
  /\ month = [r \in Requests |-> 0]
  /\ total = [r \in Requests |-> 0]
  /\ since = [r \in Requests |-> 0]
  /\ seen = [r \in Requests |-> 0]

Calling(r) == pc[r] \in {"get", "got", "add", "added", "get failed", "add failed"}

\* Time passes, but no backend call outlives its timeout.
Tick ==
  /\ clock < MaxTime
  /\ \A r \in Requests : Calling(r) => clock < since[r] + Timeout
  /\ clock' = clock + 1
  /\ past' = [past EXCEPT ![clock] = ledger]
  /\ UNCHANGED <<cap, overrides, backend, failures, ledger, cache, pc, month,
                 total, since, seen>>

SetOverride(c) ==
  /\ overrides < MaxOverrides
  /\ cap' = c
  /\ overrides' = overrides + 1
  /\ UNCHANGED <<clock, backend, failures, ledger, cache, past, pc, month,
                 total, since, seen>>

Goto(r, l) == pc' = [pc EXCEPT ![r] = l]
Config == <<clock, cap, overrides, backend, past>>
Limits == <<Config, failures>>

\* A backend call returns an error: the store is down, or the call timed out.
Fails == failures < MaxFailures /\ failures' = failures + 1

\* The replica's counter for month m, reset when it holds another month.
counterForMonth(p, m) ==
  IF cache[p].month = m THEN cache[p] ELSE [month |-> m, usd |-> 0, expiry |-> 0]

-----------------------------------------------------------------------------
(* CheckSpend                                                               *)

CheckBegin(r) ==
  /\ r \notin Readers /\ pc[r] = "start"
  /\ IF cap = 0 THEN Goto(r, "serving") ELSE Goto(r, "check")
  /\ month' = [month EXCEPT ![r] = monthKey]
  /\ UNCHANGED <<Limits, ledger, cache, total, since, seen>>

FreshAlways(c) == TRUE   \* mutant: the cache never goes stale

Fresh(c) == ~backend \/ clock < c.expiry

\* currentSpend, first section: serve the cache or go to the ledger.
CheckCache(r) ==
  LET c == counterForMonth(ReplicaOf[r], month[r])
  IN  /\ pc[r] = "check"
      /\ cache' = [cache EXCEPT ![ReplicaOf[r]] = c]
      /\ IF Fresh(c)
         THEN /\ Goto(r, "decide")
              /\ total' = [total EXCEPT ![r] = c.usd]
              /\ seen' = [seen EXCEPT ![r] = clock]
              /\ UNCHANGED since
         ELSE /\ Goto(r, "get")
              /\ since' = [since EXCEPT ![r] = clock]
              /\ UNCHANGED <<total, seen>>
      /\ UNCHANGED <<Limits, ledger, month>>

GetSpend(r) ==
  /\ pc[r] = "get"
  /\ \/ /\ Goto(r, "got")
        /\ total' = [total EXCEPT ![r] = ledger[month[r]]]
        /\ UNCHANGED failures
     \/ Fails /\ Goto(r, "get failed") /\ UNCHANGED total
  /\ UNCHANGED <<Config, ledger, cache, month, since, seen>>

\* currentSpend, second section; after an error the stale value is served.
CheckStore(r) ==
  LET c == counterForMonth(ReplicaOf[r], month[r])
      new == IF pc[r] = "got" THEN [c EXCEPT !.usd = total[r], !.expiry = clock + TTL]
             ELSE c
  IN  /\ pc[r] \in {"got", "get failed"}
      /\ cache' = [cache EXCEPT ![ReplicaOf[r]] = new]
      /\ total' = [total EXCEPT ![r] = new.usd]
      /\ seen' = [seen EXCEPT ![r] = clock]
      /\ Goto(r, "decide")
      /\ UNCHANGED <<Limits, ledger, month, since>>

\* The cap is read a second time.
Decide(r) ==
  /\ r \notin Readers /\ pc[r] = "decide"
  /\ Goto(r, IF total[r] < cap THEN "serving" ELSE "rejected")
  /\ UNCHANGED <<Limits, ledger, cache, month, total, since, seen>>

\* Usage goes through currentSpend too, and refreshes the cache like a check.
UsageBegin(r) ==
  /\ r \in Readers /\ pc[r] = "start"
  /\ Goto(r, "check")
  /\ month' = [month EXCEPT ![r] = monthKey]
  /\ UNCHANGED <<Limits, ledger, cache, total, since, seen>>

UsageEnd(r) ==
  /\ r \in Readers /\ pc[r] = "decide"
  /\ Goto(r, "reported")
  /\ UNCHANGED <<Limits, ledger, cache, month, total, since, seen>>

-----------------------------------------------------------------------------
(* AddSpend, once the response's cost is known                              *)

AddBegin(r) ==
  /\ pc[r] = "serving"
  /\ Goto(r, IF backend THEN "add" ELSE "bump")
  /\ month' = [month EXCEPT ![r] = monthKey]
  /\ since' = [since EXCEPT ![r] = clock]
  /\ UNCHANGED <<Limits, ledger, cache, total, seen>>

LedgerAddRetries(r) ==   \* mutant: a failed call is made again
  LET new == [ledger EXCEPT ![month[r]] = @ + 1]
  IN  /\ pc[r] = "add"
      /\ ledger[month[r]] <= Cardinality(Requests)
      /\ \/ /\ ledger' = new
            /\ total' = [total EXCEPT ![r] = new[month[r]]]
            /\ Goto(r, "added")
            /\ UNCHANGED failures
         \/ /\ Fails /\ ledger' \in {ledger, new}
            /\ UNCHANGED <<total, pc>>
      /\ UNCHANGED <<Config, cache, month, since, seen>>

\* One statement of the store: increment and read back.  A failed call may
\* or may not have been applied.
LedgerAdd(r) ==
  LET new == [ledger EXCEPT ![month[r]] = @ + 1]
  IN  /\ pc[r] = "add"
      /\ \/ /\ ledger' = new
            /\ total' = [total EXCEPT ![r] = new[month[r]]]
            /\ Goto(r, "added")
            /\ UNCHANGED failures
         \/ /\ Fails /\ Goto(r, "add failed")
            /\ ledger' \in {ledger, new}
            /\ UNCHANGED total
      /\ UNCHANGED <<Config, cache, month, since, seen>>

AddStoreWith(r, new) ==
  /\ pc[r] \in {"added", "add failed"}
  /\ cache' = [cache EXCEPT ![ReplicaOf[r]] = new]
  /\ seen' = [seen EXCEPT ![r] = clock]
  /\ Goto(r, "done")
  /\ UNCHANGED <<Limits, ledger, month, total, since>>

AddStore(r) ==
  LET c == counterForMonth(ReplicaOf[r], month[r])
  IN  AddStoreWith(r, IF pc[r] = "added"
                      THEN [c EXCEPT !.usd = total[r], !.expiry = clock + TTL]
                      ELSE [c EXCEPT !.usd = @ + 1])

LocalAddStale(r) ==   \* mutant: adds to the total read by CheckSpend
  LET c == counterForMonth(ReplicaOf[r], month[r])
  IN  /\ pc[r] = "bump"
      /\ cache' = [cache EXCEPT ![ReplicaOf[r]] = [c EXCEPT !.usd = total[r] + 1]]
      /\ Goto(r, "done")
      /\ UNCHANGED <<Limits, ledger, month, total, since, seen>>

LocalAdd(r) ==
  LET c == counterForMonth(ReplicaOf[r], month[r])
  IN  /\ pc[r] = "bump"
      /\ cache' = [cache EXCEPT ![ReplicaOf[r]] = [c EXCEPT !.usd = @ + 1]]
      /\ Goto(r, "done")
      /\ UNCHANGED <<Limits, ledger, month, total, since, seen>>

Next ==
  \/ Tick
  \/ \E c \in Caps : SetOverride(c)
  \/ \E r \in Requests :
       \/ CheckBegin(r) \/ CheckCache(r) \/ GetSpend(r) \/ CheckStore(r) \/ Decide(r)
       \/ UsageBegin(r) \/ UsageEnd(r)
       \/ AddBegin(r) \/ LedgerAdd(r) \/ AddStore(r) \/ LocalAdd(r)

Spec == Init /\ [][Next]_vars

-----------------------------------------------------------------------------
(* Properties.                                                              *)

Old(t) == t - TTL - Timeout

\* The cap is enforced across replicas with a bounded delay ("within a few
\* seconds", quota.go:36-38): while the store answers, a request is admitted
\* only if one TTL and one call timeout before its check the month's shared
\* total was below the cap, although totals come back out of order and the
\* cache is rewritten by late answers.
CapEnforcedWithinWindow ==
  failures = 0 => \A r \in Requests :
    pc[r] = "decide" /\ total[r] < cap /\ Old(seen[r]) >= 0
      => past[Old(seen[r])][month[r]] < cap

\* While the store answers, a replica never counts more than was spent: no
\* tenant is refused before its cap is reached.
NeverRefusedEarly ==
  backend /\ failures = 0 =>
    /\ \A p \in Replicas : cache[p].usd <= ledger[cache[p].month]
    /\ \A r \in Requests : pc[r] \in {"decide", "rejected"} => total[r] <= ledger[month[r]]

\* The cap of the shared ledger is enforced with a bounded delay and never
\* before it is reached (CheckSpend, currentSpend).
CapHonest == CapEnforcedWithinWindow /\ NeverRefusedEarly

\* The charges made against a month, and the ones a replica has booked.
Charged(m) ==
  {r \in Requests : pc[r] \in {"add", "added", "add failed", "bump", "done"} /\ month[r] = m}
Booked(p, m) ==
  {q \in Requests : pc[q] = "done" /\ month[q] = m /\ ReplicaOf[q] = p}

\* Whatever calls fail, and failed calls may have been applied, the ledger
\* never holds more than the requests cost: no charge is booked twice.
NeverOvercharged == \A m \in Months : ledger[m] <= Cardinality(Charged(m))

\* A refresh covers every charge its replica booked before the refresh began,
\* while the store answers; a charge booked locally after a failed call is
\* overwritten by the next refresh (quota.go:219).
ChargeNotLost ==
  failures = 0 => \A r \in Requests : pc[r] = "decide" =>
    total[r] >= Cardinality({q \in Booked(ReplicaOf[r], month[r]) : seen[q] < since[r]})

\* No charge is booked twice, and none that a replica booked is missing from
\* a later refresh of it (AddSpend, currentSpend).
ChargesExact == ChargeNotLost /\ NeverOvercharged

\* Without a ledger, until the first month ends, a process's counter is what
\* its finished requests cost, however they interleave (AddSpend, Usage).
LocalSpendExact ==
  ~backend /\ monthKey = 0 => \A p \in Replicas : cache[p].usd = Cardinality(Booked(p, 0))
=============================================================================
