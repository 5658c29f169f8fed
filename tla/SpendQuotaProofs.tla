--------------------------- MODULE SpendQuotaProofs ---------------------------
(***************************************************************************)
(* What the monthly spend cap promises, for any number of requests and     *)
(* replicas, any caps, any TTL, call timeout and length of a month, with   *)
(* a shared ledger whose calls may fail or without one.                    *)
(***************************************************************************)
EXTENDS SpendQuota, FiniteSetTheorems, TLAPS

\* A leaf goes to Zenon unless it names another prover.
USE ZenonT(120)

Points == {"start", "check", "get", "got", "get failed", "decide", "serving", "rejected",
           "reported", "add", "added", "add failed", "bump", "done"}
Ticks == 0..MaxTime
Counters == [month : Months, usd : Nat, expiry : Nat]

SpendTypeOK ==
  /\ clock \in Ticks /\ cap \in Caps /\ overrides \in Nat
  /\ backend \in BOOLEAN /\ failures \in Nat
  /\ ledger \in [Months -> Nat]
  /\ cache \in [Replicas -> Counters]
  /\ past \in [Ticks -> [Months -> Nat]]
  /\ pc \in [Requests -> Points]
  /\ month \in [Requests -> Months]
  /\ total \in [Requests -> Nat] /\ since \in [Requests -> Nat] /\ seen \in [Requests -> Nat]

\* The ledger is called only where one is installed, and the points after a
\* failed call are reached only by one.
CallsInv ==
  \A r \in Requests :
    /\ Calling(r) => backend
    /\ pc[r] = "bump" => ~backend
    /\ pc[r] \in {"get failed", "add failed"} => failures > 0

\* No time lies ahead, and no call is older than its timeout.
TimesInv ==
  /\ \A p \in Replicas : cache[p].expiry <= clock + TTL
  /\ \A r \in Requests :
       /\ since[r] <= clock /\ seen[r] <= clock
       /\ Calling(r) => clock <= since[r] + Timeout
       /\ pc[r] \in {"start", "check"} \/ (pc[r] = "decide" /\ ~backend) => since[r] = 0

\* The charges of a month that the ledger may hold.
Applied(m) ==
  {r \in Requests : pc[r] \in {"added", "add failed", "done"} /\ month[r] = m}

\* The ledger holds no charge twice, and every one while its calls succeed; it
\* only grows, so it has never held more.
LedgerInv ==
  \A m \in Months :
    /\ ledger[m] <= Cardinality(Applied(m))
    /\ backend /\ failures = 0 => ledger[m] = Cardinality(Applied(m))
    /\ ~backend => ledger[m] = 0
    /\ \A x \in Ticks : past[x][m] <= ledger[m]

\* v is a total of month m that was in the ledger at tick t or later.
Recent(v, m, t) ==
  /\ v <= ledger[m]
  /\ \A x \in Ticks : x < t => past[x][m] <= v

\* What the replica of r had booked when the call of r began.
Early(r) == {q \in Booked(ReplicaOf[r], month[r]) : seen[q] < since[r]}

\* An answer is at most as old as its call, the cache at most a timeout older
\* than the write of its expiry, and a decision at most a TTL older than that.
AnswersInv ==
  failures = 0 =>
    /\ \A r \in Requests :
         /\ pc[r] \in {"got", "added"} => Recent(total[r], month[r], since[r])
         /\ pc[r] \in {"got", "decide"} => Cardinality(Early(r)) <= total[r]
         /\ pc[r] = "decide" =>
              \A x \in Ticks : x + TTL + Timeout <= seen[r] => past[x][month[r]] <= total[r]
         /\ backend /\ pc[r] \in {"decide", "rejected"} => total[r] <= ledger[month[r]]
    /\ backend => \A p \in Replicas :
         Recent(cache[p].usd, cache[p].month, cache[p].expiry - TTL - Timeout)

\* Within the first month the counter of a process is what it has booked.
LocalInv ==
  ~backend /\ clock < MonthLen =>
    /\ \A r \in Requests : month[r] = 0
    /\ \A p \in Replicas : cache[p].month = 0 /\ cache[p].usd = Cardinality(Booked(p, 0))

SpendInv ==
  SpendTypeOK /\ CallsInv /\ TimesInv /\ LedgerInv /\ AnswersInv /\ LocalInv

-----------------------------------------------------------------------------

\* The month a clock reads is one of the months, and the first one until it ends.
LEMMA MonthOfClock ==
  ASSUME clock \in Ticks
  PROVE  monthKey \in Months /\ (clock < MonthLen <=> monthKey = 0)
<1>1. MonthLen \in Nat \ {0} /\ MaxTime \in Nat
  BY SpendAssumption
<1>2. ASSUME NEW a \in Nat, NEW n \in Nat \ {0}
      PROVE  /\ a \div n \in Nat /\ (a < n <=> a \div n = 0)
             /\ n * (a \div n) <= a /\ a < n * (a \div n) + n
  BY SMTT(60), <1>2
<1>3. ASSUME NEW a \in Nat, NEW b \in Nat, NEW n \in Nat \ {0}, a <= b
      PROVE  a \div n <= b \div n
  <2> DEFINE x == a \div n
             y == b \div n
  <2>1. x \in Nat /\ y \in Nat /\ n * x <= a /\ b < n * y + n
    BY <1>2, <1>3
  <2> HIDE DEF x, y
  <2>2. n * x < n * (y + 1)
    BY SMTT(60), <1>3, <2>1
  <2>3. x < y + 1
    BY SMTT(60), <1>3, <2>1, <2>2
  <2> QED  BY SMTT(60), <2>1, <2>3 DEF x, y
<1> QED  BY SMTT(60), <1>1, <1>2, <1>3 DEF Ticks, Months, monthKey

-----------------------------------------------------------------------------
(* What the steps of a request do.                                          *)

Serves(r) ==
  \/ CheckBegin(r) \/ CheckCache(r) \/ GetSpend(r) \/ CheckStore(r) \/ Decide(r)
  \/ UsageBegin(r) \/ UsageEnd(r)
  \/ AddBegin(r) \/ LedgerAdd(r) \/ AddStore(r) \/ LocalAdd(r)

\* The total and the expiry that r finds in the counter of its month.
Usd(r) == counterForMonth(ReplicaOf[r], month[r]).usd
Expiry(r) == counterForMonth(ReplicaOf[r], month[r]).expiry

\* r leaves the total u and the expiry e in the counter of its month.
Writes(r, u, e) ==
  \E c \in Counters : /\ c.month = month[r] /\ c.usd = u /\ c.expiry = e
                      /\ cache' = [cache EXCEPT ![ReplicaOf[r]] = c]

\* The counter of another month is replaced by an empty one.
LEMMA CounterFor ==
  ASSUME SpendTypeOK, NEW r \in Requests
  PROVE  LET p == ReplicaOf[r]
             c == counterForMonth(p, month[r])
         IN  /\ p \in Replicas
             /\ c \in Counters /\ c.month = month[r] /\ Usd(r) \in Nat /\ Expiry(r) \in Nat
             /\ cache[p].month = month[r] => c = cache[p]
             /\ cache[p].month # month[r] => Usd(r) = 0 /\ Expiry(r) = 0
<1>1. ReplicaOf[r] \in Replicas /\ month[r] \in Months
  BY SpendAssumption DEF SpendTypeOK
<1>2. cache[ReplicaOf[r]] \in Counters
  BY <1>1 DEF SpendTypeOK
<1> QED  BY <1>1, <1>2 DEF counterForMonth, Counters, Usd, Expiry

\* Writing the fields of a counter.
LEMMA CounterFields ==
  ASSUME NEW c \in Counters, NEW u \in Nat
  PROVE  /\ [c EXCEPT !.usd = u] \in Counters
         /\ [c EXCEPT !.usd = u].month = c.month /\ [c EXCEPT !.usd = u].usd = u
         /\ [c EXCEPT !.usd = u].expiry = c.expiry
BY DEF Counters

\* currentSpend, first section: the counter of the month is kept or emptied.
LEMMA CheckCacheWrites ==
  ASSUME SpendTypeOK, NEW r \in Requests, CheckCache(r)
  PROVE  Writes(r, Usd(r), Expiry(r))
BY CounterFor DEF CheckCache, Writes, Usd, Expiry

\* currentSpend, second section: an answer is stored, a failure keeps the counter.
LEMMA CheckStoreWrites ==
  ASSUME SpendTypeOK, NEW r \in Requests, CheckStore(r)
  PROVE  /\ pc[r] = "got" => Writes(r, total[r], clock + TTL) /\ total'[r] = total[r]
         /\ pc[r] # "got" => Writes(r, Usd(r), Expiry(r)) /\ total'[r] = Usd(r)
<1>0. PICK u \in Nat, e \in Nat : u = total[r] /\ e = clock + TTL
  BY SMTT(60), SpendAssumption DEF SpendTypeOK, Ticks
<1> DEFINE c == counterForMonth(ReplicaOf[r], month[r])
           n == [c EXCEPT !.usd = u, !.expiry = e]
<1>1. total \in [Requests -> Nat]
  BY DEF SpendTypeOK
<1>2. c \in Counters /\ c.month = month[r] /\ c.usd = Usd(r) /\ c.expiry = Expiry(r)
  BY CounterFor DEF Usd, Expiry
<1>3. /\ pc[r] = "got" => /\ cache' = [cache EXCEPT ![ReplicaOf[r]] = n]
                          /\ total' = [total EXCEPT ![r] = n.usd]
      /\ pc[r] # "got" => /\ cache' = [cache EXCEPT ![ReplicaOf[r]] = c]
                          /\ total' = [total EXCEPT ![r] = c.usd]
  BY <1>0 DEF CheckStore
<1> HIDE DEF c
<1>4. n \in Counters /\ n.month = c.month /\ n.usd = u /\ n.expiry = e
  <2>1. c \in Counters
    BY <1>2
  <2>2. n \in Counters
    BY <2>1 DEF Counters
  <2>3. n.month = c.month /\ n.usd = u
    BY <2>1 DEF Counters
  <2>4. n.expiry = e
    BY <2>1 DEF Counters
  <2> QED  BY <2>2, <2>3, <2>4
<1> HIDE DEF n
<1> QED  BY <1>0, <1>1, <1>2, <1>3, <1>4 DEF Writes

\* AddSpend with a ledger: its total is stored, a failure adds to the counter.
LEMMA AddStoreWrites ==
  ASSUME SpendTypeOK, NEW r \in Requests, AddStore(r)
  PROVE  /\ pc[r] = "added" => Writes(r, total[r], clock + TTL)
         /\ pc[r] # "added" => Writes(r, Usd(r) + 1, Expiry(r))
<1>1. PICK u \in Nat, e \in Nat : u = total[r] /\ e = clock + TTL
  BY SMTT(60), SpendAssumption DEF SpendTypeOK, Ticks
<1> DEFINE c == counterForMonth(ReplicaOf[r], month[r])
           n == [c EXCEPT !.usd = u, !.expiry = e]
           b == [c EXCEPT !.usd = @ + 1]
<1>2. /\ c \in Counters /\ c.month = month[r] /\ c.usd = Usd(r) /\ c.expiry = Expiry(r)
      /\ c.usd + 1 \in Nat
  BY SMTT(60), CounterFor DEF Usd, Expiry
<1>3. /\ pc[r] = "added" => cache' = [cache EXCEPT ![ReplicaOf[r]] = n]
      /\ pc[r] # "added" => cache' = [cache EXCEPT ![ReplicaOf[r]] = b]
  BY <1>1 DEF AddStore, AddStoreWith
<1> HIDE DEF c
<1>4. n \in Counters /\ n.month = c.month /\ n.usd = u /\ n.expiry = e
  <2>1. c \in Counters
    BY <1>2
  <2>2. n \in Counters
    BY <2>1 DEF Counters
  <2>3. n.month = c.month /\ n.usd = u
    BY <2>1 DEF Counters
  <2>4. n.expiry = e
    BY <2>1 DEF Counters
  <2> QED  BY <2>2, <2>3, <2>4
<1>5. b \in Counters /\ b.month = c.month /\ b.usd = c.usd + 1 /\ b.expiry = c.expiry
  BY <1>2, CounterFields
<1> HIDE DEF n, b
<1> QED  BY <1>1, <1>2, <1>3, <1>4, <1>5 DEF Writes

\* AddSpend without a ledger.
LEMMA LocalAddWrites ==
  ASSUME SpendTypeOK, NEW r \in Requests, LocalAdd(r)
  PROVE  Writes(r, Usd(r) + 1, Expiry(r))
<1> DEFINE c == counterForMonth(ReplicaOf[r], month[r])
           b == [c EXCEPT !.usd = @ + 1]
<1>1. /\ c \in Counters /\ c.month = month[r] /\ c.usd = Usd(r) /\ c.expiry = Expiry(r)
      /\ c.usd + 1 \in Nat
  BY SMTT(60), CounterFor DEF Usd, Expiry
<1>2. b \in Counters /\ b.month = c.month /\ b.usd = c.usd + 1 /\ b.expiry = c.expiry
  BY <1>1, CounterFields
<1>3. cache' = [cache EXCEPT ![ReplicaOf[r]] = b]
  BY DEF LocalAdd
<1> HIDE DEF c, b
<1> QED  BY <1>1, <1>2, <1>3 DEF Writes

\* What a write leaves behind.
LEMMA WriteEffect ==
  ASSUME SpendTypeOK, NEW r \in Requests, NEW u, NEW e, Writes(r, u, e)
  PROVE  /\ cache' \in [Replicas -> Counters]
         /\ LET p == ReplicaOf[r]
            IN cache'[p].month = month[r] /\ cache'[p].usd = u /\ cache'[p].expiry = e
         /\ \A p \in Replicas \ {ReplicaOf[r]} : cache'[p] = cache[p]
<1>1. ReplicaOf[r] \in Replicas /\ cache \in [Replicas -> Counters]
  BY SpendAssumption DEF SpendTypeOK
<1> QED  BY <1>1 DEF Writes

\* A step of one request leaves the others, the clock and the configuration alone.
LEMMA Frame ==
  ASSUME SpendTypeOK, NEW r \in Requests, Serves(r)
  PROVE  /\ UNCHANGED <<clock, cap, overrides, backend, past>>
         /\ \A q \in Requests \ {r} :
              /\ pc'[q] = pc[q] /\ month'[q] = month[q] /\ total'[q] = total[q]
              /\ since'[q] = since[q] /\ seen'[q] = seen[q]
<1> USE DEF Goto, Limits, Config
<1>1. CASE CheckBegin(r)
  BY <1>1 DEF CheckBegin, SpendTypeOK
<1>2. CASE CheckCache(r)
  BY <1>2 DEF CheckCache, SpendTypeOK
<1>3. CASE GetSpend(r)
  BY <1>3 DEF GetSpend, SpendTypeOK
<1>4. CASE CheckStore(r)
  BY <1>4 DEF CheckStore, SpendTypeOK
<1>5. CASE Decide(r)
  BY <1>5 DEF Decide, SpendTypeOK
<1>6. CASE UsageBegin(r)
  BY <1>6 DEF UsageBegin, SpendTypeOK
<1>7. CASE UsageEnd(r)
  BY <1>7 DEF UsageEnd, SpendTypeOK
<1>8. CASE AddBegin(r)
  BY <1>8 DEF AddBegin, SpendTypeOK
<1>9. CASE LedgerAdd(r)
  BY <1>9 DEF LedgerAdd, SpendTypeOK
<1>10. CASE AddStore(r)
  BY <1>10 DEF AddStore, AddStoreWith, SpendTypeOK
<1>11. CASE LocalAdd(r)
  BY <1>11 DEF LocalAdd, SpendTypeOK
<1> QED  BY <1>1, <1>2, <1>3, <1>4, <1>5, <1>6, <1>7, <1>8, <1>9, <1>10, <1>11 DEF Serves

\* The types are kept.
LEMMA TypeStep == ASSUME SpendTypeOK, Next PROVE SpendTypeOK'
<1> USE DEF SpendTypeOK, Goto, Limits, Config
<1>0. MaxTime \in Nat /\ monthKey \in Months /\ clock \in Nat
  BY SMTT(60), SpendAssumption, MonthOfClock DEF Ticks
<1>1. CASE Tick
  BY SMTT(60), <1>0, <1>1 DEF Tick, Ticks
<1>2. ASSUME NEW c \in Caps, SetOverride(c) PROVE SpendTypeOK'
  BY SMTT(60), <1>2 DEF SetOverride
<1>3. ASSUME NEW r \in Requests, CheckBegin(r) PROVE SpendTypeOK'
  BY <1>0, <1>3 DEF CheckBegin, Points
<1>4. ASSUME NEW r \in Requests, CheckCache(r) PROVE SpendTypeOK'
  <2>1. cache' \in [Replicas -> Counters]
    BY <1>4, CheckCacheWrites, WriteEffect
  <2>2. Usd(r) \in Nat
    BY CounterFor
  <2>3. pc' \in [Requests -> Points]
    BY <1>4 DEF CheckCache, Points
  <2>4. total' \in [Requests -> Nat] /\ seen' \in [Requests -> Nat] /\ since' \in [Requests -> Nat]
    BY <1>0, <1>4, <2>2 DEF CheckCache, Usd
  <2> QED  BY <1>4, <2>1, <2>3, <2>4 DEF CheckCache
<1>5. ASSUME NEW r \in Requests, GetSpend(r) PROVE SpendTypeOK'
  <2>1. pc' \in [Requests -> Points]
    BY <1>5 DEF GetSpend, Points
  <2>2. total' \in [Requests -> Nat]
    BY <1>5 DEF GetSpend
  <2>3. failures' \in Nat
    <3>1. failures' = failures \/ failures' = failures + 1
      BY <1>5 DEF GetSpend, Fails
    <3> QED  BY SMTT(60), <3>1
  <2> QED  BY <1>5, <2>1, <2>2, <2>3 DEF GetSpend
<1>6. ASSUME NEW r \in Requests, CheckStore(r) PROVE SpendTypeOK'
  <2>1. cache' \in [Replicas -> Counters]
    BY <1>6, CheckStoreWrites, WriteEffect
  <2>2. total' \in [Requests -> Nat]
    <3>1. Usd(r) \in Nat /\ total[r] \in Nat
      BY CounterFor
    <3>2. total'[r] \in Nat
      BY <1>6, <3>1, CheckStoreWrites
    <3>3. \E v : total' = [total EXCEPT ![r] = v]
      BY <1>6 DEF CheckStore
    <3> QED  BY <3>2, <3>3
  <2> QED  BY <1>0, <1>6, <2>1, <2>2 DEF CheckStore, Points
<1>7. ASSUME NEW r \in Requests, Decide(r) PROVE SpendTypeOK'
  BY <1>7 DEF Decide, Points
<1>8. ASSUME NEW r \in Requests, UsageBegin(r) PROVE SpendTypeOK'
  BY <1>0, <1>8 DEF UsageBegin, Points
<1>9. ASSUME NEW r \in Requests, UsageEnd(r) PROVE SpendTypeOK'
  BY <1>9 DEF UsageEnd, Points
<1>10. ASSUME NEW r \in Requests, AddBegin(r) PROVE SpendTypeOK'
  BY <1>0, <1>10 DEF AddBegin, Points
<1>11. ASSUME NEW r \in Requests, LedgerAdd(r) PROVE SpendTypeOK'
  <2>1. [ledger EXCEPT ![month[r]] = @ + 1] \in [Months -> Nat]
    BY SMTT(60)
  <2>2. pc' \in [Requests -> Points]
    BY <1>11 DEF LedgerAdd, Points
  <2>3. ledger' \in [Months -> Nat]
    BY <1>11, <2>1 DEF LedgerAdd
  <2>4. total' \in [Requests -> Nat]
    BY <1>11, <2>1 DEF LedgerAdd
  <2>5. failures' \in Nat
    <3>1. failures' = failures \/ failures' = failures + 1
      BY <1>11 DEF LedgerAdd, Fails
    <3> QED  BY SMTT(60), <3>1
  <2> QED  BY <1>11, <2>2, <2>3, <2>4, <2>5 DEF LedgerAdd
<1>12. ASSUME NEW r \in Requests, AddStore(r) PROVE SpendTypeOK'
  <2>1. cache' \in [Replicas -> Counters]
    BY <1>12, AddStoreWrites, WriteEffect
  <2> QED  BY <1>0, <1>12, <2>1 DEF AddStore, AddStoreWith, Points
<1>13. ASSUME NEW r \in Requests, LocalAdd(r) PROVE SpendTypeOK'
  <2>1. cache' \in [Replicas -> Counters]
    BY <1>13, LocalAddWrites, WriteEffect
  <2> QED  BY <1>13, <2>1 DEF LocalAdd, Points
<1> QED  BY <1>1, <1>2, <1>3, <1>4, <1>5, <1>6, <1>7, <1>8, <1>9, <1>10, <1>11, <1>12, <1>13
         DEF Next

\* What one step of r does to the ledger, the failures and the cache.
LEMMA SharedFrame ==
  ASSUME SpendTypeOK, NEW r \in Requests, Serves(r)
  PROVE  /\ failures' = failures \/ failures' = failures + 1
         /\ ~LedgerAdd(r) => ledger' = ledger
         /\ LedgerAdd(r) =>
              ledger' = ledger \/ ledger' = [ledger EXCEPT ![month[r]] = @ + 1]
<1> USE DEF Goto, Limits, Config
<1>1. CASE LedgerAdd(r)
  BY <1>1 DEF LedgerAdd, Fails
<1>2. CASE GetSpend(r)
  BY <1>2 DEF GetSpend, Fails
<1>3. CASE ~LedgerAdd(r) /\ ~GetSpend(r)
  BY <1>3 DEF Serves, CheckBegin, CheckCache, CheckStore, Decide, UsageBegin, UsageEnd,
              AddBegin, AddStore, AddStoreWith, LocalAdd
<1> QED  BY <1>1, <1>2, <1>3 DEF GetSpend, LedgerAdd

\* The ledger only grows.
LEMMA LedgerGrows ==
  ASSUME SpendTypeOK, NEW r \in Requests, Serves(r), NEW m \in Months
  PROVE  ledger[m] <= ledger'[m]
<1>1. ledger \in [Months -> Nat] /\ ledger[m] \in Nat /\ month[r] \in Months
  BY DEF SpendTypeOK
<1>2. ledger' = ledger \/ ledger' = [ledger EXCEPT ![month[r]] = @ + 1]
  BY SharedFrame
<1>3. ledger'[m] = ledger[m] \/ ledger'[m] = ledger[m] + 1
  BY <1>1, <1>2
<1> QED  BY SMTT(60), <1>1, <1>3

\* The counters a step may write.
LEMMA CacheFrame ==
  ASSUME SpendTypeOK, NEW r \in Requests, Serves(r)
  PROVE  \/ cache' = cache
         \/ Writes(r, Usd(r), Expiry(r)) /\ pc[r] \in {"check", "get failed"}
         \/ Writes(r, total[r], clock + TTL) /\ pc[r] \in {"got", "added"}
         \/ Writes(r, Usd(r) + 1, Expiry(r)) /\ pc[r] \in {"add failed", "bump"}
<1> USE DEF Goto, Limits, Config
<1>1. CASE CheckCache(r)
  <2>1. pc[r] = "check"
    BY <1>1 DEF CheckCache
  <2> QED  BY <1>1, <2>1, CheckCacheWrites
<1>2. CASE CheckStore(r)
  <2>1. pc[r] \in {"got", "get failed"}
    BY <1>2 DEF CheckStore
  <2> QED  BY <1>2, <2>1, CheckStoreWrites
<1>3. CASE AddStore(r)
  <2>1. pc[r] \in {"added", "add failed"}
    BY <1>3 DEF AddStore, AddStoreWith
  <2> QED  BY <1>3, <2>1, AddStoreWrites
<1>4. CASE LocalAdd(r)
  <2>1. pc[r] = "bump"
    BY <1>4 DEF LocalAdd
  <2> QED  BY <1>4, <2>1, LocalAddWrites
<1>5. CASE ~CheckCache(r) /\ ~CheckStore(r) /\ ~AddStore(r) /\ ~LocalAdd(r)
  BY <1>5 DEF Serves, CheckBegin, GetSpend, Decide, UsageBegin, UsageEnd, AddBegin, LedgerAdd
<1> QED  BY <1>1, <1>2, <1>3, <1>4, <1>5

\* The control points of r before and after its step.
LEMMA Moves ==
  ASSUME SpendTypeOK, NEW r \in Requests, Serves(r)
  PROVE  /\ CheckBegin(r) \/ UsageBegin(r) =>
              pc[r] = "start" /\ pc'[r] \in {"check", "serving"}
         /\ CheckCache(r) => pc[r] = "check" /\ pc'[r] \in {"decide", "get"}
         /\ GetSpend(r) => pc[r] = "get" /\ \/ pc'[r] = "got" /\ failures' = failures
                                            \/ pc'[r] = "get failed" /\ failures' = failures + 1
         /\ CheckStore(r) => pc[r] \in {"got", "get failed"} /\ pc'[r] = "decide"
         /\ Decide(r) \/ UsageEnd(r) =>
              pc[r] = "decide" /\ pc'[r] \in {"serving", "rejected", "reported"}
         /\ AddBegin(r) => pc[r] = "serving" /\ pc'[r] = IF backend THEN "add" ELSE "bump"
         /\ LedgerAdd(r) => pc[r] = "add" /\ \/ pc'[r] = "added" /\ failures' = failures
                                             \/ pc'[r] = "add failed" /\ failures' = failures + 1
         /\ AddStore(r) => pc[r] \in {"added", "add failed"} /\ pc'[r] = "done"
         /\ LocalAdd(r) => pc[r] = "bump" /\ pc'[r] = "done"
<1> USE DEF Goto, SpendTypeOK
<1>1. CheckBegin(r) \/ UsageBegin(r) => pc[r] = "start" /\ pc'[r] \in {"check", "serving"}
  BY DEF CheckBegin, UsageBegin
<1>2. CheckCache(r) => pc[r] = "check" /\ pc'[r] \in {"decide", "get"}
  BY DEF CheckCache
<1>3. GetSpend(r) => pc[r] = "get" /\ \/ pc'[r] = "got" /\ failures' = failures
                                      \/ pc'[r] = "get failed" /\ failures' = failures + 1
  BY DEF GetSpend, Fails
<1>4. CheckStore(r) => pc[r] \in {"got", "get failed"} /\ pc'[r] = "decide"
  BY DEF CheckStore
<1>5. Decide(r) \/ UsageEnd(r) =>
        pc[r] = "decide" /\ pc'[r] \in {"serving", "rejected", "reported"}
  BY DEF Decide, UsageEnd
<1>6. AddBegin(r) => pc[r] = "serving" /\ pc'[r] = IF backend THEN "add" ELSE "bump"
  BY DEF AddBegin
<1>7. LedgerAdd(r) => pc[r] = "add" /\ \/ pc'[r] = "added" /\ failures' = failures
                                       \/ pc'[r] = "add failed" /\ failures' = failures + 1
  BY DEF LedgerAdd, Fails
<1>8. AddStore(r) => pc[r] \in {"added", "add failed"} /\ pc'[r] = "done"
  BY DEF AddStore, AddStoreWith
<1>9. LocalAdd(r) => pc[r] = "bump" /\ pc'[r] = "done"
  BY DEF LocalAdd
<1> QED  BY <1>1, <1>2, <1>3, <1>4, <1>5, <1>6, <1>7, <1>8, <1>9

\* The ledger is called only where one is installed.
LEMMA CallsStep == ASSUME SpendInv, Next PROVE CallsInv'
<1> USE DEF SpendInv
<1>1. CASE Tick
  BY <1>1 DEF Tick, CallsInv, Calling
<1>2. ASSUME NEW c \in Caps, SetOverride(c) PROVE CallsInv'
  BY <1>2 DEF SetOverride, CallsInv, Calling
<1>3. ASSUME NEW r \in Requests, Serves(r) PROVE CallsInv'
  <2>0. failures \in Nat /\ backend' = backend
    BY <1>3, Frame DEF SpendTypeOK
  <2>1. failures > 0 => failures' > 0
    BY SMTT(60), <1>3, <2>0, SharedFrame
  <2>2. ASSUME NEW q \in Requests \ {r}
        PROVE  /\ Calling(q)' => backend'
               /\ pc'[q] = "bump" => ~backend'
               /\ pc'[q] \in {"get failed", "add failed"} => failures' > 0
    BY <1>3, <2>0, <2>1, Frame DEF CallsInv, Calling
  <2>3. /\ Calling(r)' => backend'
        /\ pc'[r] = "bump" => ~backend'
        /\ pc'[r] \in {"get failed", "add failed"} => failures' > 0
    <3>1. CASE CheckCache(r)
      BY <2>0, <3>1, <1>3, Moves DEF Calling, CheckCache, Fresh, Goto, SpendTypeOK
    <3>2. CASE GetSpend(r) \/ LedgerAdd(r)
      <4>1. pc[r] \in {"get", "add"} /\ pc'[r] # "bump"
        BY <3>2, <1>3, Moves
      <4>2. backend
        BY <4>1 DEF Calling, CallsInv
      <4>3. pc'[r] \in {"get failed", "add failed"} => failures' = failures + 1
        BY <3>2, <1>3, Moves
      <4>4. failures + 1 > 0
        BY SMTT(60), <2>0
      <4> QED  BY <2>0, <4>1, <4>2, <4>3, <4>4
    <3>3. CASE AddBegin(r)
      BY <2>0, <3>3, <1>3, Moves DEF Calling
    <3>4. CASE ~CheckCache(r) /\ ~GetSpend(r) /\ ~LedgerAdd(r) /\ ~AddBegin(r)
      BY <3>4, <1>3, Moves DEF Calling, Serves
    <3> QED  BY <3>1, <3>2, <3>3, <3>4
  <2> QED  BY <2>2, <2>3 DEF CallsInv
<1> QED  BY <1>1, <1>2, <1>3 DEF Next, Serves

\* No time lies ahead, and no call outlives its timeout.
LEMMA TimesStep == ASSUME SpendInv, Next PROVE TimesInv'
<1> USE DEF SpendInv
<1>0. clock \in Nat /\ TTL \in Nat \ {0} /\ Timeout \in Nat \ {0}
  BY SMTT(60), SpendAssumption DEF SpendTypeOK, Ticks
<1>1. CASE Tick
  <2>1. clock' = clock + 1 /\ UNCHANGED <<cache, pc, since, seen, backend>>
    BY <1>1 DEF Tick
  <2>2. ASSUME NEW p \in Replicas PROVE cache'[p].expiry <= clock' + TTL
    BY SMTT(60), <1>0, <2>1 DEF TimesInv, SpendTypeOK, Counters
  <2>3. ASSUME NEW r \in Requests
        PROVE  /\ since'[r] <= clock' /\ seen'[r] <= clock'
               /\ Calling(r)' => clock' <= since'[r] + Timeout
    <3>1. since[r] \in Nat /\ seen[r] \in Nat
      BY DEF SpendTypeOK
    <3>2. Calling(r) => clock < since[r] + Timeout
      BY <1>1 DEF Tick
    <3>3. since[r] <= clock /\ seen[r] <= clock
      BY DEF TimesInv
    <3>4. since'[r] <= clock' /\ seen'[r] <= clock'
      BY SMTT(60), <1>0, <2>1, <3>1, <3>3
    <3>5. Calling(r)' => Calling(r)
      BY <2>1 DEF Calling
    <3> QED  BY SMTT(60), <1>0, <2>1, <3>1, <3>2, <3>4, <3>5
  <2> QED  BY <2>1, <2>2, <2>3 DEF TimesInv, Calling
<1>2. ASSUME NEW c \in Caps, SetOverride(c) PROVE TimesInv'
  BY <1>2 DEF SetOverride, TimesInv, Calling
<1>3. ASSUME NEW r \in Requests, Serves(r) PROVE TimesInv'
  <2>0. clock' = clock /\ backend' = backend
    BY <1>3, Frame
  <2>1. ASSUME NEW p \in Replicas PROVE cache'[p].expiry <= clock' + TTL
    <3>1. CASE p = ReplicaOf[r] /\ cache' # cache
      <4>1. Expiry(r) <= clock + TTL
        BY SMTT(60), <1>0, CounterFor, <3>1 DEF TimesInv, Expiry
      <4>2. cache'[p].expiry = Expiry(r) \/ cache'[p].expiry = clock + TTL
        <5>1. CASE Writes(r, Usd(r), Expiry(r))
          BY <3>1, <5>1, WriteEffect
        <5>2. CASE Writes(r, total[r], clock + TTL)
          BY SMTT(60), <3>1, <5>2, WriteEffect
        <5>3. CASE Writes(r, Usd(r) + 1, Expiry(r))
          BY <3>1, <5>3, WriteEffect
        <5> QED  BY <1>3, <3>1, <5>1, <5>2, <5>3, CacheFrame
      <4> QED  BY SMTT(60), <1>0, <2>0, <4>1, <4>2
    <3>2. CASE ~(p = ReplicaOf[r] /\ cache' # cache)
      <4>1. cache'[p] = cache[p]
        BY <1>3, <3>2, CacheFrame, WriteEffect
      <4> QED  BY <2>0, <4>1 DEF TimesInv
    <3> QED  BY <3>1, <3>2
  <2>2. ASSUME NEW q \in Requests \ {r}
        PROVE  /\ since'[q] <= clock' /\ seen'[q] <= clock'
               /\ Calling(q)' => clock' <= since'[q] + Timeout
               /\ pc'[q] \in {"start", "check"} \/ (pc'[q] = "decide" /\ ~backend')
                    => since'[q] = 0
    BY <1>3, <2>0, Frame DEF TimesInv, Calling
  <2>3. since[r] \in Nat /\ seen[r] \in Nat /\ since \in [Requests -> Nat] /\ seen \in [Requests -> Nat]
    BY DEF SpendTypeOK
  <2>4. /\ since'[r] = since[r] \/ since'[r] = clock
        /\ seen'[r] = seen[r] \/ seen'[r] = clock
    BY <1>3, <2>3 DEF Serves, CheckBegin, CheckCache, GetSpend, CheckStore, Decide, UsageBegin,
       UsageEnd, AddBegin, LedgerAdd, AddStore, AddStoreWith, LocalAdd
  <2>5. since'[r] <= clock' /\ seen'[r] <= clock'
    BY SMTT(60), <1>0, <2>0, <2>3, <2>4 DEF TimesInv
  <2>6. Calling(r)' => clock' <= since'[r] + Timeout
    <3>1. CASE since'[r] = clock
      BY SMTT(60), <1>0, <2>0, <3>1
    <3>2. CASE since'[r] # clock
      <4>1. since'[r] = since[r]
        BY <2>4, <3>2
      <4>2. Calling(r)' => Calling(r)
        <5>1. ~AddBegin(r)
          BY <2>3, <3>2 DEF AddBegin
        <5>2. CheckCache(r) => pc'[r] = "decide"
          BY <2>3, <3>2 DEF CheckCache, Goto, SpendTypeOK
        <5> QED  BY <1>3, <5>1, <5>2, Moves DEF Serves, Calling
      <4> QED  BY <2>0, <4>1, <4>2 DEF TimesInv
    <3> QED  BY <3>1, <3>2
  <2>7. pc'[r] \in {"start", "check"} \/ (pc'[r] = "decide" /\ ~backend') => since'[r] = 0
    <3>1. pc'[r] # "start"
      BY <1>3, Moves DEF Serves
    <3>2. ASSUME pc'[r] = "check" PROVE since'[r] = 0
      <4>1. CheckBegin(r) \/ UsageBegin(r)
        BY <1>3, <3>2, Moves DEF Serves
      <4>2. since' = since /\ pc[r] = "start"
        BY <4>1 DEF CheckBegin, UsageBegin
      <4> QED  BY <4>2 DEF TimesInv
    <3>3. ASSUME pc'[r] = "decide", ~backend PROVE since'[r] = 0
      <4>1. CheckCache(r) \/ CheckStore(r)
        BY <1>3, <3>3, Moves DEF Serves
      <4>2. ~CheckStore(r)
        BY <3>3, <1>3, Moves DEF CallsInv, Calling
      <4>3. since' = since /\ pc[r] = "check"
        BY <3>3, <4>1, <4>2 DEF CheckCache, Fresh
      <4> QED  BY <4>3 DEF TimesInv
    <3> QED  BY <2>0, <3>1, <3>2, <3>3
  <2> QED  BY <2>1, <2>2, <2>5, <2>6, <2>7 DEF TimesInv
<1> QED  BY <1>1, <1>2, <1>3 DEF Next, Serves

\* Sets of requests are finite, and one more request makes them one larger.
LEMMA RequestSets ==
  ASSUME NEW A \in SUBSET Requests, NEW B \in SUBSET Requests
  PROVE  /\ Cardinality(A) \in Nat
         /\ A \subseteq B => Cardinality(A) <= Cardinality(B)
         /\ \A r \in Requests \ A : Cardinality(A \union {r}) = Cardinality(A) + 1
<1>1. IsFiniteSet(A) /\ IsFiniteSet(B)
  BY SpendAssumption, FS_Subset
<1>2. Cardinality(A) \in Nat
  BY <1>1, FS_CardinalityType
<1>3. A \subseteq B => Cardinality(A) <= Cardinality(B)
  BY <1>1, FS_Subset
<1>4. ASSUME NEW r \in Requests \ A PROVE Cardinality(A \union {r}) = Cardinality(A) + 1
  BY <1>1, FS_AddElement
<1> QED  BY <1>2, <1>3, <1>4

\* Only the addition of r itself changes the charges the ledger may hold.
LEMMA AppliedStep ==
  ASSUME SpendInv, NEW r \in Requests, Serves(r), NEW m \in Months
  PROVE  /\ Applied(m) \subseteq Applied(m)'
         /\ ~LedgerAdd(r) /\ ~LocalAdd(r) => Applied(m)' = Applied(m)
         /\ LedgerAdd(r) /\ m # month[r] => Applied(m)' = Applied(m)
         /\ LedgerAdd(r) /\ m = month[r] => /\ r \notin Applied(m)
                                            /\ Applied(m)' = Applied(m) \union {r}
<1> DEFINE A(q) == pc[q] \in {"added", "add failed", "done"} /\ month[q] = m
           B(q) == pc'[q] \in {"added", "add failed", "done"} /\ month'[q] = m
<1>1. ASSUME NEW q \in Requests \ {r} PROVE A(q) <=> B(q)
  BY Frame DEF SpendInv
<1>2. Applied(m) = {q \in Requests : A(q)} /\ Applied(m)' = {q \in Requests : B(q)}
  BY DEF Applied
<1>3. CASE LedgerAdd(r)
  <2>1. ~A(r) /\ pc'[r] \in {"added", "add failed"} /\ month' = month
    BY <1>3, Moves DEF LedgerAdd, SpendInv
  <2> HIDE DEF A
  <2>2. B(r) <=> m = month[r]
    BY <2>1
  <2> HIDE DEF B
  <2>3. ~LedgerAdd(r) => FALSE
    BY <1>3
  <2> QED  BY <1>1, <1>2, <2>1, <2>2, <2>3
<1>4. CASE LocalAdd(r)
  <2>1. ~A(r)
    BY <1>4, Moves DEF SpendInv
  <2>2. ~LedgerAdd(r)
    BY <1>4 DEF LedgerAdd, LocalAdd
  <2> HIDE DEF A, B
  <2> QED  BY <1>1, <1>2, <1>4, <2>1, <2>2
<1>5. CASE ~LedgerAdd(r) /\ ~LocalAdd(r)
  <2>1. CASE AddStore(r)
    <3>1. month' = month
      BY <2>1 DEF AddStore, AddStoreWith
    <3> QED  BY <1>1, <1>2, <1>5, <2>1, <3>1, Moves DEF SpendInv
  <2>2. CASE ~AddStore(r)
    <3>1. ~A(r) /\ ~B(r)
      BY <1>5, <2>2, Moves DEF Serves, SpendInv
    <3> HIDE DEF A, B
    <3> QED  BY <1>1, <1>2, <1>5, <3>1
  <2> QED  BY <2>1, <2>2
<1> QED  BY <1>3, <1>4, <1>5

\* The ledger holds no charge twice, and every one while its calls succeed.
LEMMA LedgerStep == ASSUME SpendInv, Next PROVE LedgerInv'
<1>0. SpendTypeOK /\ LedgerInv /\ CallsInv
  BY DEF SpendInv
<1>1. CASE Tick
  <2>1. UNCHANGED <<ledger, pc, month, backend, failures>> /\ past' = [past EXCEPT ![clock] = ledger]
    BY <1>1 DEF Tick
  <2>2. ASSUME NEW m \in Months, NEW x \in Ticks PROVE past'[x][m] <= ledger[m]
    <3>1. ledger[m] \in Nat
      BY <1>0 DEF SpendTypeOK
    <3>2. past'[x] = past[x] \/ past'[x] = ledger
      BY <1>0, <2>1 DEF SpendTypeOK
    <3> QED  BY SMTT(60), <1>0, <3>1, <3>2 DEF LedgerInv
  <2>3. \A m \in Months : Applied(m)' = Applied(m)
    BY <2>1 DEF Applied
  <2> QED  BY <1>0, <2>1, <2>2, <2>3 DEF LedgerInv
<1>2. ASSUME NEW c \in Caps, SetOverride(c) PROVE LedgerInv'
  <2>1. UNCHANGED <<ledger, pc, month, backend, failures, past>>
    BY <1>2 DEF SetOverride
  <2>2. \A m \in Months : Applied(m)' = Applied(m)
    BY <2>1 DEF Applied
  <2> QED  BY <1>0, <2>1, <2>2 DEF LedgerInv
<1>3. ASSUME NEW r \in Requests, Serves(r) PROVE LedgerInv'
  <2> SUFFICES ASSUME NEW m \in Months
               PROVE  /\ ledger'[m] <= Cardinality(Applied(m)')
                      /\ backend' /\ failures' = 0 => ledger'[m] = Cardinality(Applied(m)')
                      /\ ~backend' => ledger'[m] = 0
                      /\ \A x \in Ticks : past'[x][m] <= ledger'[m]
    BY DEF LedgerInv
  <2>1. /\ ledger \in [Months -> Nat] /\ ledger[m] \in Nat /\ ledger'[m] \in Nat
        /\ month[r] \in Months /\ failures \in Nat /\ UNCHANGED <<past, backend>>
        /\ past \in [Ticks -> [Months -> Nat]]
    BY <1>0, <1>3, Frame, TypeStep DEF SpendTypeOK, Next, Serves
  <2>2. failures' = 0 => failures = 0
    BY SMTT(60), <1>0, <1>3, <2>1, SharedFrame
  <2>3. \A x \in Ticks : past'[x][m] <= ledger'[m]
    <3>1. ledger[m] <= ledger'[m]
      BY <1>0, <1>3, LedgerGrows
    <3> SUFFICES ASSUME NEW x \in Ticks PROVE past[x][m] <= ledger'[m]
      BY <2>1
    <3>2. past[x][m] \in Nat /\ past[x][m] <= ledger[m]
      BY <1>0, <2>1 DEF LedgerInv
    <3> QED  BY SMTT(60), <2>1, <3>1, <3>2
  <2>4. /\ Applied(m) \in SUBSET Requests /\ Applied(m)' \in SUBSET Requests
        /\ ledger[m] <= Cardinality(Applied(m))
        /\ backend /\ failures = 0 => ledger[m] = Cardinality(Applied(m))
        /\ ~backend => ledger[m] = 0
    BY <1>0 DEF Applied, LedgerInv
  <2> DEFINE k == Cardinality(Applied(m))
             l == Cardinality(Applied(m)')
  <2>5. k \in Nat /\ l \in Nat /\ k <= l
    BY <2>4, <1>3, RequestSets, AppliedStep
  <2>6. CASE LedgerAdd(r) /\ m = month[r]
    <3>1. l = k + 1
      BY SMTT(60), <1>3, <2>4, <2>6, RequestSets, AppliedStep
    <3>2. backend
      BY <1>0, <2>6 DEF LedgerAdd, CallsInv, Calling
    <3>3. ledger'[m] = ledger[m] \/ ledger'[m] = ledger[m] + 1
      BY <1>0, <1>3, <2>1, SharedFrame
    <3>4. failures' = 0 => ledger'[m] = ledger[m] + 1
      <4>1. failures' = failures + 1 \/ ledger' = [ledger EXCEPT ![month[r]] = @ + 1]
        BY <2>6 DEF LedgerAdd, Fails
      <4>2. failures + 1 # 0
        BY SMTT(60), <2>1
      <4> QED  BY <2>1, <2>6, <4>1, <4>2
    <3> HIDE DEF k, l
    <3>5. ledger[m] <= k /\ (failures = 0 => ledger[m] = k)
      BY <2>4, <3>2 DEF k
    <3>6. ledger'[m] <= l /\ (failures' = 0 => ledger'[m] = l)
      BY SMTT(60), <2>1, <2>2, <2>5, <3>1, <3>3, <3>4, <3>5
    <3> QED  BY <2>1, <2>3, <3>2, <3>6 DEF l
  <2>7. CASE ~(LedgerAdd(r) /\ m = month[r])
    <3>1. ledger'[m] = ledger[m]
      BY <1>0, <1>3, <2>1, <2>7, SharedFrame
    <3>2. backend => l = k
      <4>1. backend => ~LocalAdd(r)
        BY <1>0 DEF CallsInv, LocalAdd
      <4> QED  BY <1>3, <2>7, <4>1, AppliedStep
    <3> HIDE DEF k, l
    <3>3. ledger[m] <= k /\ (backend /\ failures = 0 => ledger[m] = k) /\ (~backend => ledger[m] = 0)
      BY <2>4 DEF k
    <3>4. ledger'[m] <= l
      BY SMTT(60), <2>1, <2>5, <3>1, <3>3
    <3>5. backend' /\ failures' = 0 => ledger'[m] = l
      BY <2>1, <2>2, <3>1, <3>2, <3>3
    <3> QED  BY <2>1, <2>3, <3>1, <3>3, <3>4, <3>5 DEF l
  <2> QED  BY <2>6, <2>7
<1> QED  BY <1>1, <1>2, <1>3 DEF Next, Serves

\* Within the first month the counter of a process is what it has booked.
LEMMA LocalStep == ASSUME SpendInv, Next PROVE LocalInv'
<1>0. SpendTypeOK /\ LocalInv /\ CallsInv /\ clock \in Nat /\ MonthLen \in Nat
  BY SMTT(60), SpendAssumption DEF SpendInv, SpendTypeOK, Ticks
<1>1. CASE Tick
  <2>1. UNCHANGED <<pc, month, backend, cache>> /\ clock' = clock + 1
    BY <1>1 DEF Tick
  <2>2. \A p \in Replicas : Booked(p, 0)' = Booked(p, 0)
    BY <2>1 DEF Booked
  <2>3. clock' < MonthLen => clock < MonthLen
    BY SMTT(60), <1>0, <2>1
  <2> QED  BY <1>0, <2>1, <2>2, <2>3 DEF LocalInv
<1>2. ASSUME NEW c \in Caps, SetOverride(c) PROVE LocalInv'
  <2>1. UNCHANGED <<pc, month, backend, cache, clock>>
    BY <1>2 DEF SetOverride
  <2>2. \A p \in Replicas : Booked(p, 0)' = Booked(p, 0)
    BY <2>1 DEF Booked
  <2> QED  BY <1>0, <2>1, <2>2 DEF LocalInv
<1>3. ASSUME NEW r \in Requests, Serves(r) PROVE LocalInv'
  <2>1. UNCHANGED <<clock, backend>>
    BY <1>0, <1>3, Frame
  <2> SUFFICES ASSUME ~backend, clock < MonthLen
               PROVE  /\ \A q \in Requests : month'[q] = 0
                      /\ \A p \in Replicas :
                           cache'[p].month = 0 /\ cache'[p].usd = Cardinality(Booked(p, 0)')
    BY <2>1 DEF LocalInv
  <2>2. /\ \A q \in Requests : month[q] = 0
        /\ \A p \in Replicas : cache[p].month = 0 /\ cache[p].usd = Cardinality(Booked(p, 0))
    BY <1>0 DEF LocalInv
  <2>3. \A q \in Requests : month'[q] = 0
    <3>1. monthKey = 0
      BY <1>0, MonthOfClock DEF SpendTypeOK
    <3>2. month'[r] = month[r] \/ month'[r] = monthKey
      BY <1>0, <1>3 DEF Serves, CheckBegin, CheckCache, GetSpend, CheckStore, Decide, UsageBegin,
         UsageEnd, AddBegin, LedgerAdd, AddStore, AddStoreWith, LocalAdd, SpendTypeOK
    <3> QED  BY <1>0, <1>3, <2>2, <3>1, <3>2, Frame
  <2>4. ~Calling(r)
    BY <1>0 DEF CallsInv
  <2>5. ReplicaOf[r] \in Replicas
    BY SpendAssumption
  <2>6. Usd(r) = cache[ReplicaOf[r]].usd
    BY <1>0, <2>2, <2>5, CounterFor DEF Usd
  <2>7. ASSUME LocalAdd(r), NEW p \in Replicas
        PROVE  cache'[p].month = 0 /\ cache'[p].usd = Cardinality(Booked(p, 0)')
    <3>1. Writes(r, Usd(r) + 1, Expiry(r)) /\ pc[r] # "done" /\ pc'[r] = "done"
      BY <1>0, <1>3, <2>7, LocalAddWrites, Moves
    <3>2. CASE p = ReplicaOf[r]
      <4>1. r \notin Booked(p, 0) /\ Booked(p, 0) \in SUBSET Requests
        BY <3>1 DEF Booked
      <4>2. Booked(p, 0)' = Booked(p, 0) \union {r}
        BY <1>0, <1>3, <2>2, <2>3, <3>1, <3>2, Frame DEF Booked
      <4>3. Cardinality(Booked(p, 0)') = Cardinality(Booked(p, 0)) + 1
        BY <4>1, <4>2, RequestSets
      <4>4. cache'[p].month = 0 /\ cache'[p].usd = Usd(r) + 1
        BY <1>0, <2>2, <3>1, <3>2, WriteEffect
      <4> QED  BY <2>2, <2>6, <3>2, <4>3, <4>4
    <3>3. CASE p # ReplicaOf[r]
      <4>1. Booked(p, 0)' = Booked(p, 0)
        BY <1>0, <1>3, <3>3, Frame DEF Booked
      <4>2. cache'[p] = cache[p]
        BY <1>0, <3>1, <3>3, WriteEffect
      <4> QED  BY <2>2, <4>1, <4>2
    <3> QED  BY <3>2, <3>3
  <2>8. ASSUME ~LocalAdd(r), NEW p \in Replicas
        PROVE  cache'[p].month = 0 /\ cache'[p].usd = Cardinality(Booked(p, 0)')
    <3>1. pc[r] # "done" /\ pc'[r] # "done"
      BY <1>0, <1>3, <2>4, <2>8, Moves DEF Serves, Calling
    <3>2. cache' = cache \/ Writes(r, Usd(r), Expiry(r))
      BY <1>0, <1>3, <2>4, <2>8, CacheFrame, Moves DEF Serves, Calling
    <3>3. Booked(p, 0)' = Booked(p, 0)
      BY SMTT(60), <1>0, <1>3, <3>1, Frame DEF Booked
    <3>4. cache'[p].month = 0 /\ cache'[p].usd = cache[p].usd
      <4>1. CASE cache' = cache
        BY <2>2, <4>1
      <4>2. CASE Writes(r, Usd(r), Expiry(r))
        BY SMTT(60), <1>0, <2>2, <2>5, <2>6, <4>2, WriteEffect
      <4> QED  BY <3>2, <4>1, <4>2
    <3> QED  BY <2>2, <3>3, <3>4
  <2> QED  BY <2>3, <2>7, <2>8
<1> QED  BY <1>1, <1>2, <1>3 DEF Next, Serves

\* What a replica booked before the call of q began does not change while q waits.
LEMMA EarlyStep ==
  ASSUME SpendInv, NEW r \in Requests, Serves(r), NEW q \in Requests,
         pc[q] \in {"get", "got", "decide"},
         month'[q] = month[q], since'[q] = since[q]
  PROVE  Early(q)' \subseteq Early(q)
<1>0. SpendTypeOK /\ TimesInv /\ CallsInv /\ clock \in Nat
  BY SMTT(60) DEF SpendInv, SpendTypeOK, Ticks
<1> SUFFICES ASSUME NEW z \in Requests,
                    pc'[z] = "done", month'[z] = month'[q], ReplicaOf[z] = ReplicaOf[q],
                    seen'[z] < since'[q]
             PROVE  z \in Early(q)
  BY DEF Early, Booked
<1>1. CASE z # r
  BY <1>0, <1>1, Frame DEF Early, Booked
<1>2. CASE z = r
  <2>1. since[q] \in Nat /\ since[q] <= clock
    BY <1>0 DEF SpendTypeOK, TimesInv
  <2>2. AddStore(r) \/ LocalAdd(r)
    BY <1>0, <1>2, Moves DEF Serves
  <2>3. CASE AddStore(r)
    <3>1. seen'[r] = clock
      BY <1>0, <2>3 DEF AddStore, AddStoreWith, SpendTypeOK
    <3>2. ~(clock < since[q])
      BY SMTT(60), <1>0, <2>1
    <3>3. seen'[z] = clock
      BY <1>2, <3>1
    <3> QED  BY <3>2, <3>3
  <2>4. CASE LocalAdd(r)
    <3>1. ~backend /\ seen'[r] = seen[r] /\ seen[r] \in Nat
      BY <1>0, <2>4 DEF LocalAdd, CallsInv, SpendTypeOK
    <3>2. pc[q] = "decide"
      BY <1>0, <3>1 DEF CallsInv, Calling
    <3>3. since[q] = 0
      BY <1>0, <3>1, <3>2 DEF TimesInv
    <3>4. ~(seen[r] < 0)
      BY SMTT(60), <3>1
    <3>5. seen'[z] = seen[r] /\ since'[q] = 0
      BY <1>2, <3>1, <3>3
    <3> QED  BY <3>4, <3>5
  <2> QED  BY <2>2, <2>3, <2>4
<1> QED  BY <1>1, <1>2

\* The charges a replica booked are in the ledger while its calls succeed.
LEMMA EarlySize ==
  ASSUME SpendInv, NEW r \in Requests
  PROVE  /\ Early(r) \in SUBSET Requests /\ Cardinality(Early(r)) \in Nat
         /\ backend /\ failures = 0 => Cardinality(Early(r)) <= ledger[month[r]]
         /\ since[r] = 0 => Cardinality(Early(r)) = 0
<1>1. SpendTypeOK /\ LedgerInv /\ month[r] \in Months
  BY DEF SpendInv, SpendTypeOK
<1>2. /\ Early(r) \in SUBSET Requests /\ Applied(month[r]) \in SUBSET Requests
      /\ Early(r) \subseteq Applied(month[r])
  BY DEF Early, Booked, Applied
<1>3. /\ Cardinality(Early(r)) \in Nat
      /\ Cardinality(Early(r)) <= Cardinality(Applied(month[r]))
  BY <1>2, RequestSets
<1>4. since[r] = 0 => Early(r) = {}
  BY SMTT(60), <1>1 DEF Early, Booked, SpendTypeOK
<1> QED  BY <1>1, <1>2, <1>3, <1>4, FS_EmptySet DEF LedgerInv

\* An answer that is recent enough stays so while the ledger grows.
LEMMA RecentStep ==
  ASSUME SpendInv, NEW r \in Requests, Serves(r),
         NEW v \in Nat, NEW m \in Months, NEW t, Recent(v, m, t)
  PROVE  v <= ledger'[m] /\ \A x \in Ticks : x < t => past'[x][m] <= v
<1>1. SpendTypeOK /\ SpendTypeOK'
  BY TypeStep DEF SpendInv, Next, Serves
<1>2. ledger[m] \in Nat /\ ledger'[m] \in Nat /\ past' = past
  BY <1>1, Frame DEF SpendTypeOK
<1>3. ledger[m] <= ledger'[m]
  BY <1>1, LedgerGrows
<1> QED  BY SMTT(60), <1>2, <1>3 DEF Recent

\* The requests that do not move keep their answers.
LEMMA OthersStep ==
  ASSUME SpendInv, NEW r \in Requests, Serves(r), failures = 0, NEW q \in Requests \ {r}
  PROVE  /\ pc'[q] \in {"got", "added"} => Recent(total[q], month[q], since[q])'
         /\ pc'[q] \in {"got", "decide"} => Cardinality(Early(q)') <= total'[q]
         /\ pc'[q] = "decide" =>
              \A x \in Ticks : x + TTL + Timeout <= seen'[q] => past'[x][month'[q]] <= total'[q]
         /\ backend' /\ pc'[q] \in {"decide", "rejected"} => total'[q] <= ledger'[month'[q]]
<1>0. SpendTypeOK /\ AnswersInv /\ SpendTypeOK'
  BY TypeStep DEF SpendInv, Next, Serves
<1>1. /\ pc'[q] = pc[q] /\ month'[q] = month[q] /\ total'[q] = total[q]
      /\ since'[q] = since[q] /\ seen'[q] = seen[q] /\ past' = past /\ backend' = backend
  BY <1>0, Frame
<1>2. /\ month[q] \in Months /\ total[q] \in Nat
      /\ ledger[month[q]] \in Nat /\ ledger'[month[q]] \in Nat
  BY <1>0 DEF SpendTypeOK
<1>3. ledger[month[q]] <= ledger'[month[q]]
  BY <1>0, <1>2, LedgerGrows
<1>4. pc'[q] \in {"got", "added"} => Recent(total[q], month[q], since[q])'
  BY <1>0, <1>1, <1>2, RecentStep DEF AnswersInv, Recent
<1>5. pc'[q] \in {"got", "decide"} => Cardinality(Early(q)') <= total'[q]
  <2> SUFFICES ASSUME pc[q] \in {"got", "decide"} PROVE Cardinality(Early(q)') <= total[q]
    BY <1>1
  <2>1. Early(q)' \subseteq Early(q) /\ Early(q)' \in SUBSET Requests /\ Early(q) \in SUBSET Requests
    BY <1>1, EarlyStep DEF Early, Booked
  <2> DEFINE a == Cardinality(Early(q)')
             b == Cardinality(Early(q))
  <2>2. a \in Nat /\ b \in Nat /\ a <= b
    BY <2>1, RequestSets
  <2>3. b <= total[q]
    BY <1>0 DEF AnswersInv
  <2> HIDE DEF a, b
  <2>4. a <= total[q]
    BY SMTT(60), <1>2, <2>2, <2>3
  <2> QED  BY <2>4 DEF a
<1>6. pc'[q] = "decide" =>
        \A x \in Ticks : x + TTL + Timeout <= seen'[q] => past'[x][month'[q]] <= total'[q]
  BY <1>0, <1>1 DEF AnswersInv
<1>7. backend' /\ pc'[q] \in {"decide", "rejected"} => total'[q] <= ledger'[month'[q]]
  <2> SUFFICES ASSUME backend, pc[q] \in {"decide", "rejected"}
               PROVE  total[q] <= ledger'[month[q]]
    BY <1>1
  <2>1. total[q] <= ledger[month[q]]
    BY <1>0 DEF AnswersInv
  <2> QED  BY SMTT(60), <1>2, <1>3, <2>1
<1> QED  BY <1>4, <1>5, <1>6, <1>7

\* The answer of GetSpend covers what its replica had booked.
LEMMA GetStep ==
  ASSUME SpendInv, NEW r \in Requests, GetSpend(r), failures = 0, failures' = 0
  PROVE  pc'[r] = "got" /\ Recent(total[r], month[r], since[r])'
         /\ Cardinality(Early(r)') <= total'[r]
<1>0. SpendTypeOK /\ LedgerInv /\ CallsInv /\ Serves(r) /\ SpendTypeOK'
  BY TypeStep DEF SpendInv, Serves, Next
<1>1. pc'[r] = "got" /\ pc[r] = "get"
  <2>1. failures + 1 # 0
    BY SMTT(60)
  <2> QED  BY <1>0, <2>1, Moves
<1>2. /\ month' = month /\ since' = since /\ ledger' = ledger /\ past' = past /\ backend
      /\ total'[r] = ledger[month[r]]
  BY <1>0, <1>1 DEF GetSpend, Goto, Config, SpendTypeOK, CallsInv, Calling
<1>3. month[r] \in Months /\ ledger[month[r]] \in Nat
  BY <1>0 DEF SpendTypeOK
<1>4. Recent(total[r], month[r], since[r])'
  BY <1>0, <1>2, <1>3 DEF Recent, LedgerInv
<1>5. Cardinality(Early(r)') <= total'[r]
  <2>1. Early(r)' \subseteq Early(r) /\ Early(r)' \in SUBSET Requests /\ Early(r) \in SUBSET Requests
    BY <1>0, <1>1, <1>2, EarlyStep DEF Early, Booked
  <2> DEFINE a == Cardinality(Early(r)')
             b == Cardinality(Early(r))
  <2>2. a \in Nat /\ b \in Nat /\ a <= b
    BY <2>1, RequestSets
  <2>3. b <= ledger[month[r]]
    BY <1>2, EarlySize
  <2> HIDE DEF a, b
  <2>4. a <= ledger[month[r]]
    BY SMTT(60), <1>3, <2>2, <2>3
  <2> QED  BY <1>2, <2>4 DEF a
<1> QED  BY <1>1, <1>4, <1>5

\* The total returned by the ledger's own addition is the ledger's.
LEMMA LedgerAddStep ==
  ASSUME SpendInv, NEW r \in Requests, LedgerAdd(r), failures = 0, failures' = 0
  PROVE  pc'[r] = "added" /\ Recent(total[r], month[r], since[r])'
<1>0. SpendTypeOK /\ LedgerInv /\ Serves(r) /\ SpendTypeOK'
  BY TypeStep DEF SpendInv, Serves, Next
<1>1. pc'[r] = "added"
  <2>1. failures + 1 # 0
    BY SMTT(60)
  <2> QED  BY <1>0, <2>1, Moves
<1>2. month' = month /\ past' = past /\ total'[r] = ledger'[month[r]]
  BY <1>0, <1>1 DEF LedgerAdd, Goto, Config, SpendTypeOK
<1>3. month[r] \in Months /\ ledger[month[r]] \in Nat /\ ledger'[month[r]] \in Nat
  BY <1>0 DEF SpendTypeOK
<1>4. ledger[month[r]] <= ledger'[month[r]]
  BY <1>0, <1>3, LedgerGrows
<1>5. \A x \in Ticks : past[x][month[r]] \in Nat /\ past[x][month[r]] <= ledger[month[r]]
  BY <1>0, <1>3 DEF LedgerInv, SpendTypeOK
<1>6. \A x \in Ticks : past[x][month[r]] <= ledger'[month[r]]
  BY SMTT(60), <1>3, <1>4, <1>5
<1> QED  BY SMTT(60), <1>1, <1>2, <1>3, <1>6 DEF Recent

\* What a request is told when it decides: a refreshed total, a cached one that
\* has not expired, or the counter of a process without a ledger.
LEMMA DecideStep ==
  ASSUME SpendInv, NEW r \in Requests, CheckCache(r) \/ CheckStore(r), pc'[r] = "decide",
         failures = 0
  PROVE  /\ Cardinality(Early(r)') <= total'[r]
         /\ \A x \in Ticks : x + TTL + Timeout <= seen'[r] => past'[x][month'[r]] <= total'[r]
         /\ backend' => total'[r] <= ledger'[month'[r]]
<1>0. /\ SpendTypeOK /\ LedgerInv /\ CallsInv /\ TimesInv /\ AnswersInv /\ Serves(r) /\ SpendTypeOK'
      /\ TTL \in Nat \ {0} /\ Timeout \in Nat \ {0} /\ clock \in Nat /\ Ticks \subseteq Nat
  <2>1. SpendTypeOK /\ LedgerInv /\ CallsInv /\ TimesInv /\ AnswersInv /\ Serves(r) /\ SpendTypeOK'
    BY TypeStep DEF SpendInv, Serves, Next
  <2>2. TTL \in Nat \ {0} /\ Timeout \in Nat \ {0} /\ clock \in Nat /\ Ticks \subseteq Nat
    BY SMTT(60), SpendAssumption DEF SpendInv, SpendTypeOK, Ticks
  <2> QED  BY <2>1, <2>2
<1>1. /\ month' = month /\ ledger' = ledger /\ past' = past /\ backend' = backend
      /\ seen'[r] = clock /\ since' = since
  BY <1>0 DEF CheckCache, CheckStore, Goto, Limits, Config, SpendTypeOK
<1>2. /\ month[r] \in Months /\ ledger[month[r]] \in Nat /\ total'[r] \in Nat
      /\ since[r] \in Nat /\ ReplicaOf[r] \in Replicas
      /\ \A x \in Ticks : past[x][month[r]] \in Nat
  BY SMTT(60), <1>0, SpendAssumption DEF SpendTypeOK
<1>3. CASE CheckStore(r)
  <2>1. pc[r] = "got"
    <3>1. ~(failures > 0)
      BY SMTT(60)
    <3>2. pc[r] # "get failed"
      BY <1>0, <3>1 DEF CallsInv
    <3> QED  BY <1>0, <1>3, <3>2, Moves
  <2>2. total'[r] = total[r]
    BY <1>0, <1>3, <2>1, CheckStoreWrites
  <2>3. Recent(total[r], month[r], since[r]) /\ Cardinality(Early(r)) <= total[r]
    BY <1>0, <2>1 DEF AnswersInv
  <2>4. clock <= since[r] + Timeout
    BY <1>0, <2>1 DEF TimesInv, Calling
  <2>5. ASSUME NEW x \in Ticks, x + TTL + Timeout <= clock PROVE past[x][month[r]] <= total[r]
    <3>1. x < since[r]
      <4>1. x \in Nat /\ TTL \in Nat \ {0} /\ Timeout \in Nat /\ clock \in Nat /\ since[r] \in Nat
        BY <1>0, <1>2
      <4> QED  BY SMTT(60), <2>4, <2>5, <4>1
    <3> QED  BY <2>3, <3>1 DEF Recent
  <2>6. Cardinality(Early(r)') <= total[r]
    <3>1. Early(r)' \subseteq Early(r) /\ Early(r)' \in SUBSET Requests /\ Early(r) \in SUBSET Requests
      BY <1>0, <1>1, <2>1, EarlyStep DEF Early, Booked
    <3> DEFINE a == Cardinality(Early(r)')
               b == Cardinality(Early(r))
    <3>2. a \in Nat /\ b \in Nat /\ a <= b /\ b <= total[r] /\ total[r] \in Nat
      BY <1>2, <2>2, <2>3, <3>1, RequestSets
    <3> HIDE DEF a, b
    <3>3. a <= total[r]
      BY SMTT(60), <3>2
    <3> QED  BY <3>3 DEF a
  <2> QED  BY <1>1, <2>2, <2>3, <2>5, <2>6 DEF Recent
<1>4. CASE CheckCache(r)
  <2>1. /\ pc[r] = "check" /\ total'[r] = Usd(r)
        /\ ~backend \/ clock < Expiry(r)
    BY <1>0, <1>4, Moves DEF CheckCache, Fresh, Goto, SpendTypeOK, Usd, Expiry
  <2>2. Cardinality(Early(r)') = 0
    <3>1. since'[r] = 0 /\ seen' \in [Requests -> Nat]
      BY <1>0, <1>1, <2>1 DEF TimesInv, SpendTypeOK
    <3>2. \A q \in Requests : ~(seen'[q] < since'[r])
      <4>1. \A v \in Nat : ~(v < 0)
        BY SMTT(60)
      <4>2. \A q \in Requests : seen'[q] \in Nat
        BY <3>1
      <4> QED  BY <3>1, <4>1, <4>2
    <3>3. Early(r)' = {}
      BY <3>2 DEF Early, Booked
    <3> QED  BY <3>3, FS_EmptySet
  <2>3. CASE ~backend
    <3>1. \A x \in Ticks : past[x][month[r]] <= 0
      BY <1>0, <1>2, <2>3 DEF LedgerInv
    <3>2. \A x \in Ticks : past[x][month[r]] <= total'[r]
      BY SMTT(60), <1>2, <3>1
    <3>3. Cardinality(Early(r)') <= total'[r]
      BY SMTT(60), <1>2, <2>2
    <3>4. \A x \in Ticks : past'[x][month'[r]] <= total'[r]
      BY <1>1, <3>2
    <3> QED  BY <1>1, <2>3, <3>3, <3>4
  <2>4. CASE backend
    <3>1. Expiry(r) \in Nat /\ Expiry(r) # 0
      BY SMTT(60), <1>0, <2>1, <2>4, CounterFor
    <3>2. LET c == cache[ReplicaOf[r]]
          IN  c.month = month[r] /\ c.usd = Usd(r) /\ c.expiry = Expiry(r)
      BY <1>0, <3>1, CounterFor DEF Usd, Expiry
    <3>3. Recent(Usd(r), month[r], Expiry(r) - TTL - Timeout)
      BY <1>0, <1>2, <2>4, <3>2 DEF AnswersInv
    <3>4. ASSUME NEW x \in Ticks, x + TTL + Timeout <= clock PROVE past[x][month[r]] <= Usd(r)
      <4>1. x < Expiry(r) - TTL - Timeout
        BY SMTT(60), <1>0, <2>1, <2>4, <3>1, <3>4
      <4> QED  BY <3>3, <4>1 DEF Recent
    <3>5. Cardinality(Early(r)') <= total'[r]
      BY SMTT(60), <1>2, <2>2
    <3>6. \A x \in Ticks : x + TTL + Timeout <= seen'[r] => past'[x][month'[r]] <= total'[r]
      BY <1>1, <2>1, <3>4
    <3>7. total'[r] <= ledger'[month'[r]]
      BY <1>1, <2>1, <3>3 DEF Recent
    <3> QED  BY <3>5, <3>6, <3>7
  <2> QED  BY <2>3, <2>4
<1> QED  BY <1>3, <1>4

\* The counter of the ledger's month is at most a timeout older than its expiry says.
LEMMA CacheStep ==
  ASSUME SpendInv, NEW r \in Requests, Serves(r), failures = 0, backend, NEW p \in Replicas
  PROVE  Recent(cache[p].usd, cache[p].month, cache[p].expiry - TTL - Timeout)'
<1>0. /\ SpendTypeOK /\ LedgerInv /\ CallsInv /\ TimesInv /\ AnswersInv /\ SpendTypeOK'
      /\ TTL \in Nat \ {0} /\ Timeout \in Nat \ {0} /\ clock \in Nat /\ Ticks \subseteq Nat
  <2>1. SpendTypeOK /\ LedgerInv /\ CallsInv /\ TimesInv /\ AnswersInv /\ SpendTypeOK'
    BY TypeStep DEF SpendInv, Serves, Next
  <2>2. TTL \in Nat \ {0} /\ Timeout \in Nat \ {0} /\ clock \in Nat /\ Ticks \subseteq Nat
    BY SMTT(60), SpendAssumption DEF SpendInv, SpendTypeOK, Ticks
  <2> QED  BY <2>1, <2>2
<1>1. cache[p].usd \in Nat /\ cache[p].month \in Months /\ cache[p].expiry \in Nat
  BY <1>0 DEF SpendTypeOK, Counters
<1>2. Recent(cache[p].usd, cache[p].month, cache[p].expiry - TTL - Timeout)
  BY <1>0 DEF AnswersInv
<1>3. CASE cache'[p] = cache[p]
  BY <1>1, <1>2, <1>3, RecentStep DEF Recent
<1>4. CASE cache'[p] # cache[p]
  <2>1. p = ReplicaOf[r]
    BY <1>0, <1>4, CacheFrame, WriteEffect
  <2>2. pc[r] \notin {"get failed", "add failed", "bump"}
    <3>1. ~(failures > 0)
      BY SMTT(60)
    <3> QED  BY <1>0, <3>1 DEF CallsInv
  <2>3. CASE Writes(r, Usd(r), Expiry(r))
    <3>1. CASE cache[p].month = month[r]
      <4>1. /\ cache'[p].usd = cache[p].usd /\ cache'[p].expiry = cache[p].expiry
            /\ cache'[p].month = cache[p].month
        <5>1. Usd(r) = cache[p].usd /\ Expiry(r) = cache[p].expiry
          BY <1>0, <2>1, <3>1, CounterFor DEF Usd, Expiry
        <5>2. /\ cache'[p].usd = Usd(r) /\ cache'[p].expiry = Expiry(r)
              /\ cache'[p].month = month[r]
          BY <1>0, <2>1, <2>3, WriteEffect
        <5> QED  BY <3>1, <5>1, <5>2
      <4> QED  BY <1>1, <1>2, <4>1, RecentStep DEF Recent
    <3>2. CASE cache[p].month # month[r]
      <4>1. cache'[p].usd = 0 /\ cache'[p].expiry = 0 /\ cache'[p].month = month[r]
        <5>1. Usd(r) = 0 /\ Expiry(r) = 0
          BY <1>0, <2>1, <3>2, CounterFor
        <5>2. /\ cache'[p].usd = Usd(r) /\ cache'[p].expiry = Expiry(r)
              /\ cache'[p].month = month[r]
          BY <1>0, <2>1, <2>3, WriteEffect
        <5> QED  BY <5>1, <5>2
      <4>2. 0 <= ledger'[month[r]]
        BY SMTT(60), <1>0 DEF SpendTypeOK
      <4>3. \A x \in Ticks : ~(x < 0 - TTL - Timeout)
        BY SMTT(60), <1>0
      <4> QED  BY <4>1, <4>2, <4>3 DEF Recent
    <3> QED  BY <3>1, <3>2
  <2>4. CASE Writes(r, total[r], clock + TTL) /\ pc[r] \in {"got", "added"}
    <3>1. cache'[p].usd = total[r] /\ cache'[p].expiry = clock + TTL /\ cache'[p].month = month[r]
      BY SMTT(60), <1>0, <2>1, <2>4, WriteEffect
    <3>2. /\ Recent(total[r], month[r], since[r]) /\ clock <= since[r] + Timeout
          /\ since[r] \in Nat /\ total[r] \in Nat /\ month[r] \in Months
      BY <1>0, <2>4 DEF AnswersInv, TimesInv, Calling, SpendTypeOK
    <3>3. \A x \in Ticks : x < cache'[p].expiry - TTL - Timeout => x < since[r]
      <4>1. PICK e \in Nat : e = clock + TTL /\ e = cache'[p].expiry
        BY SMTT(60), <1>0, <3>1
      <4>2. ASSUME NEW x \in Ticks, x < e - TTL - Timeout PROVE x < since[r]
        <5>1. x \in Nat /\ since[r] \in Nat /\ clock <= since[r] + Timeout
          BY <1>0, <3>2
        <5> QED  BY SMTT(60), <1>0, <4>1, <4>2, <5>1
      <4> QED  BY <4>1, <4>2
    <3>4. /\ total[r] <= ledger'[month[r]]
          /\ \A x \in Ticks : x < since[r] => past'[x][month[r]] <= total[r]
      BY <3>2, RecentStep
    <3> QED  BY <3>1, <3>3, <3>4 DEF Recent
  <2> QED  BY <1>0, <1>4, <2>2, <2>3, <2>4, CacheFrame
<1> QED  BY <1>3, <1>4

\* Answers stay as old as their calls, their expiry and their decisions say.
LEMMA AnswersStep == ASSUME SpendInv, Next PROVE AnswersInv'
<1>0. /\ SpendTypeOK /\ LedgerInv /\ CallsInv /\ TimesInv /\ AnswersInv
      /\ TTL \in Nat \ {0} /\ Timeout \in Nat \ {0} /\ clock \in Nat /\ Ticks \subseteq Nat
  BY SMTT(60), SpendAssumption DEF SpendInv, SpendTypeOK, Ticks
<1>1. CASE Tick
  <2>1. /\ UNCHANGED <<failures, pc, month, total, since, seen, cache, ledger, backend>>
        /\ past' = [past EXCEPT ![clock] = ledger]
    BY <1>1 DEF Tick
  <2>2. \A x \in Ticks : x # clock => past'[x] = past[x]
    BY <1>0, <2>1 DEF SpendTypeOK
  <2>3. \A r \in Requests : Early(r)' = Early(r)
    BY <2>1 DEF Early, Booked
  <2>4. ASSUME NEW v, NEW m, NEW t \in Int, t <= clock, Recent(v, m, t)
        PROVE  v <= ledger'[m] /\ \A x \in Ticks : x < t => past'[x][m] <= v
    <3>1. \A x \in Ticks : x < t => x # clock
      BY SMTT(60), <1>0, <2>4
    <3> QED  BY <2>1, <2>2, <2>4, <3>1 DEF Recent
  <2> SUFFICES ASSUME failures = 0
               PROVE  /\ \A r \in Requests :
                           /\ pc'[r] \in {"got", "added"} => Recent(total[r], month[r], since[r])'
                           /\ pc'[r] = "decide" =>
                                \A x \in Ticks : x + TTL + Timeout <= seen'[r]
                                  => past'[x][month'[r]] <= total'[r]
                      /\ backend => \A p \in Replicas :
                           Recent(cache[p].usd, cache[p].month, cache[p].expiry - TTL - Timeout)'
    BY <1>0, <2>1, <2>3 DEF AnswersInv
  <2>5. ASSUME NEW r \in Requests, pc[r] \in {"got", "added"}
        PROVE  Recent(total[r], month[r], since[r])'
    <3>1. since[r] \in Int /\ since[r] <= clock /\ Recent(total[r], month[r], since[r])
      BY SMTT(60), <1>0, <2>5 DEF AnswersInv, TimesInv, SpendTypeOK
    <3> QED  BY <2>1, <2>4, <3>1 DEF Recent
  <2>6. ASSUME NEW r \in Requests, pc[r] = "decide", NEW x \in Ticks, x + TTL + Timeout <= seen[r]
        PROVE  past'[x][month[r]] <= total[r]
    <3>1. seen[r] \in Nat /\ seen[r] <= clock
      BY <1>0 DEF SpendTypeOK, TimesInv
    <3>2. x # clock
      BY SMTT(60), <1>0, <2>6, <3>1
    <3> QED  BY <1>0, <2>2, <2>6, <3>2 DEF AnswersInv
  <2>7. ASSUME backend, NEW p \in Replicas
        PROVE  Recent(cache[p].usd, cache[p].month, cache[p].expiry - TTL - Timeout)'
    <3>1. cache[p].expiry \in Nat /\ cache[p].expiry <= clock + TTL
      BY <1>0 DEF SpendTypeOK, Counters, TimesInv
    <3>2. PICK t \in Int : t = cache[p].expiry - TTL - Timeout
      BY SMTT(60), <1>0, <3>1
    <3>3. t <= clock
      BY SMTT(60), <1>0, <3>1, <3>2
    <3>4. Recent(cache[p].usd, cache[p].month, t)
      BY <1>0, <2>7, <3>2 DEF AnswersInv
    <3> QED  BY <2>1, <2>4, <3>2, <3>3, <3>4 DEF Recent
  <2> QED  BY <2>1, <2>5, <2>6, <2>7
<1>2. ASSUME NEW c \in Caps, SetOverride(c) PROVE AnswersInv'
  <2>1. UNCHANGED <<failures, pc, month, total, since, seen, cache, ledger, past, backend>>
    BY <1>2 DEF SetOverride
  <2>2. \A r \in Requests : Early(r)' = Early(r)
    BY <2>1 DEF Early, Booked
  <2> QED  BY <1>0, <2>1, <2>2 DEF AnswersInv, Recent
<1>3. ASSUME NEW r \in Requests, Serves(r) PROVE AnswersInv'
  <2> SUFFICES ASSUME failures' = 0
               PROVE  /\ \A q \in Requests :
                           /\ pc'[q] \in {"got", "added"} => Recent(total[q], month[q], since[q])'
                           /\ pc'[q] \in {"got", "decide"} => Cardinality(Early(q)') <= total'[q]
                           /\ pc'[q] = "decide" =>
                                \A x \in Ticks : x + TTL + Timeout <= seen'[q]
                                  => past'[x][month'[q]] <= total'[q]
                           /\ backend' /\ pc'[q] \in {"decide", "rejected"}
                                => total'[q] <= ledger'[month'[q]]
                      /\ backend' => \A p \in Replicas :
                           Recent(cache[p].usd, cache[p].month, cache[p].expiry - TTL - Timeout)'
    BY DEF AnswersInv
  <2>1. failures = 0 /\ backend' = backend
    <3>1. failures \in Nat /\ (failures' = failures \/ failures' = failures + 1)
      BY <1>0, <1>3, SharedFrame DEF SpendTypeOK
    <3>2. failures = 0
      BY SMTT(60), <3>1
    <3> QED  BY <1>0, <1>3, <3>2, Frame
  <2>2. pc'[r] \in {"got", "added"} => Recent(total[r], month[r], since[r])'
    <3>1. pc'[r] = "got" => GetSpend(r)
      BY <1>0, <1>3, Moves DEF Serves
    <3>2. pc'[r] = "added" => LedgerAdd(r)
      BY <1>0, <1>3, Moves DEF Serves
    <3> QED  BY <2>1, <3>1, <3>2, GetStep, LedgerAddStep
  <2>3. ASSUME pc'[r] = "decide"
        PROVE  /\ Cardinality(Early(r)') <= total'[r]
               /\ \A x \in Ticks : x + TTL + Timeout <= seen'[r] => past'[x][month'[r]] <= total'[r]
               /\ backend' => total'[r] <= ledger'[month'[r]]
    <3>1. CheckCache(r) \/ CheckStore(r)
      BY <1>0, <1>3, <2>3, Moves DEF Serves
    <3> QED  BY <2>1, <2>3, <3>1, DecideStep
  <2>4. pc'[r] = "got" => Cardinality(Early(r)') <= total'[r]
    <3>1. pc'[r] = "got" => GetSpend(r)
      BY <1>0, <1>3, Moves DEF Serves
    <3> QED  BY <2>1, <3>1, GetStep
  <2>5. backend' /\ pc'[r] = "rejected" => total'[r] <= ledger'[month'[r]]
    <3>1. pc'[r] = "rejected" => Decide(r)
      <4>1. UsageEnd(r) => pc'[r] = "reported"
        BY <1>0 DEF UsageEnd, Goto, SpendTypeOK
      <4> QED  BY <1>0, <1>3, <4>1, Moves DEF Serves
    <3>2. Decide(r) => pc[r] = "decide" /\ UNCHANGED <<total, ledger, month>>
      BY DEF Decide, Limits
    <3> QED  BY <1>0, <2>1, <3>1, <3>2 DEF AnswersInv
  <2>6. backend' => \A p \in Replicas :
           Recent(cache[p].usd, cache[p].month, cache[p].expiry - TTL - Timeout)'
    BY <1>3, <2>1, CacheStep
  <2> SUFFICES ASSUME NEW q \in Requests
               PROVE  /\ pc'[q] \in {"got", "added"} => Recent(total[q], month[q], since[q])'
                      /\ pc'[q] \in {"got", "decide"} => Cardinality(Early(q)') <= total'[q]
                      /\ pc'[q] = "decide" =>
                           \A x \in Ticks : x + TTL + Timeout <= seen'[q]
                             => past'[x][month'[q]] <= total'[q]
                      /\ backend' /\ pc'[q] \in {"decide", "rejected"}
                           => total'[q] <= ledger'[month'[q]]
    BY <2>6
  <2>7. CASE q = r
    BY <2>2, <2>3, <2>4, <2>5, <2>7
  <2>8. CASE q # r
    BY <1>3, <2>1, <2>8, OthersStep
  <2> QED  BY <2>7, <2>8
<1> QED  BY <1>1, <1>2, <1>3 DEF Next, Serves

-----------------------------------------------------------------------------
(* The theorems.                                                            *)

\* The invariant holds when the replicas start.
LEMMA SpendInit == ASSUME Init PROVE SpendInv
<1>0. /\ MaxTime \in Nat /\ TTL \in Nat \ {0} /\ Timeout \in Nat \ {0} /\ MonthLen \in Nat \ {0}
      /\ Backends \subseteq BOOLEAN
  BY SpendAssumption
<1>1. clock \in Ticks /\ clock = 0
  BY SMTT(60), <1>0 DEF Init, Ticks
<1>2. 0 \in Months
  BY SMTT(60), <1>1, MonthOfClock, <1>0 DEF Months, monthKey
<1>3. SpendTypeOK
  <2>1. cache \in [Replicas -> Counters]
    BY <1>2 DEF Init, Counters
  <2>2. pc \in [Requests -> Points]
    BY DEF Init, Points
  <2>3. past \in [Ticks -> [Months -> Nat]]
    BY DEF Init, Ticks
  <2> QED  BY <1>0, <1>1, <1>2, <2>1, <2>2, <2>3 DEF SpendTypeOK, Init
<1>4. CallsInv
  BY DEF Init, CallsInv, Calling
<1>5. TimesInv
  <2>1. 0 <= clock + TTL /\ 0 <= clock
    BY SMTT(60), <1>0, <1>1
  <2>2. \A p \in Replicas : cache[p].expiry = 0
    BY DEF Init
  <2>3. \A r \in Requests : since[r] = 0 /\ seen[r] = 0 /\ ~Calling(r)
    BY DEF Init, Calling
  <2> QED  BY <2>1, <2>2, <2>3 DEF TimesInv
<1>6. LedgerInv
  <2> SUFFICES ASSUME NEW m \in Months
               PROVE  /\ ledger[m] = 0 /\ Cardinality(Applied(m)) = 0
                      /\ \A x \in Ticks : past[x][m] = 0
    BY SMTT(60) DEF LedgerInv
  <2>1. Applied(m) = {}
    BY DEF Init, Applied
  <2>2. ledger[m] = 0 /\ \A x \in Ticks : past[x][m] = 0
    BY DEF Init, Ticks
  <2> QED  BY <2>1, <2>2, FS_EmptySet
<1>7. AnswersInv
  <2>1. \A r \in Requests : pc[r] = "start"
    BY DEF Init
  <2> SUFFICES ASSUME NEW p \in Replicas
               PROVE  Recent(cache[p].usd, cache[p].month, cache[p].expiry - TTL - Timeout)
    BY <2>1 DEF AnswersInv
  <2>2. cache[p].usd = 0 /\ cache[p].month = 0 /\ cache[p].expiry = 0 /\ ledger[0] = 0
    BY <1>2 DEF Init
  <2>3. \A x \in Ticks : ~(x < 0 - TTL - Timeout)
    BY SMTT(60), <1>0 DEF Ticks
  <2> QED  BY SMTT(60), <2>2, <2>3 DEF Recent
<1>8. LocalInv
  <2>1. \A p \in Replicas : Booked(p, 0) = {}
    BY DEF Init, Booked
  <2> QED  BY <2>1, FS_EmptySet DEF LocalInv, Init
<1> QED  BY <1>3, <1>4, <1>5, <1>6, <1>7, <1>8 DEF SpendInv

\* SpendInv is inductive.
LEMMA SpendInvariant == Spec => []SpendInv
<1>1. Init => SpendInv
  BY SpendInit
<1>2. SpendInv /\ [Next]_vars => SpendInv'
  <2>1. ASSUME SpendInv, Next PROVE SpendInv'
    <3>1. SpendTypeOK'
      BY <2>1, TypeStep DEF SpendInv
    <3> QED  BY <2>1, <3>1, CallsStep, TimesStep, LedgerStep, AnswersStep, LocalStep DEF SpendInv
  <2>2. ASSUME SpendInv, UNCHANGED vars PROVE SpendInv'
    BY <2>2 DEF vars, SpendInv, SpendTypeOK, CallsInv, Calling, TimesInv, LedgerInv, Applied,
                AnswersInv, Recent, Early, Booked, LocalInv
  <2> QED  BY <2>1, <2>2
<1> QED  BY <1>1, <1>2, PTL DEF Spec

\* The cap of the shared ledger is enforced within one TTL and one call timeout,
\* and never before it is reached (CheckSpend, currentSpend), however many
\* replicas cache the total and in whatever order answers come back.
THEOREM CapAlwaysHonest == Spec => []CapHonest
<1>1. SpendInv => CapHonest
  <2> SUFFICES ASSUME SpendInv PROVE CapHonest
    OBVIOUS
  <2>0. /\ SpendTypeOK /\ AnswersInv /\ TTL \in Nat /\ Timeout \in Nat /\ MaxTime \in Nat
        /\ clock \in Nat /\ clock <= MaxTime /\ TimesInv /\ Caps \subseteq Nat
    BY SMTT(60), SpendAssumption DEF SpendInv, SpendTypeOK, Ticks
  <2>1. CapEnforcedWithinWindow
    <3> SUFFICES ASSUME failures = 0, NEW r \in Requests,
                        pc[r] = "decide", total[r] < cap, Old(seen[r]) >= 0
                 PROVE  past[Old(seen[r])][month[r]] < cap
      BY DEF CapEnforcedWithinWindow
    <3>1. seen[r] \in Nat /\ seen[r] <= clock /\ total[r] \in Nat /\ cap \in Nat
      BY <2>0 DEF SpendTypeOK, TimesInv
    <3>2. PICK x \in Ticks : x = Old(seen[r]) /\ x + TTL + Timeout <= seen[r]
      BY SMTT(60), <2>0, <3>1 DEF Old, Ticks
    <3>3. past[x][month[r]] \in Nat /\ past[x][month[r]] <= total[r]
      BY <2>0, <3>2 DEF SpendTypeOK, AnswersInv
    <3>4. past[x][month[r]] < cap
      BY SMTT(60), <3>1, <3>3
    <3> QED  BY <3>2, <3>4
  <2>2. NeverRefusedEarly
    BY <2>0 DEF NeverRefusedEarly, AnswersInv, Recent
  <2> QED  BY <2>1, <2>2 DEF CapHonest
<1> QED  BY <1>1, SpendInvariant, PTL

\* No charge is booked twice, whatever calls fail and whether or not a failed one
\* was applied; and a refresh covers what its replica booked before it began
\* (AddSpend, currentSpend).
THEOREM ChargesAlwaysExact == Spec => []ChargesExact
<1>1. SpendInv => ChargesExact
  <2> SUFFICES ASSUME SpendInv PROVE ChargesExact
    OBVIOUS
  <2>1. ChargeNotLost
    <3> SUFFICES ASSUME failures = 0, NEW r \in Requests, pc[r] = "decide"
                 PROVE  total[r] >= Cardinality(Early(r))
      BY DEF ChargeNotLost, Early
    <3>1. Cardinality(Early(r)) <= total[r] /\ total[r] \in Nat
      BY DEF SpendInv, AnswersInv, SpendTypeOK
    <3>2. Cardinality(Early(r)) \in Nat
      BY EarlySize
    <3> DEFINE k == Cardinality(Early(r))
    <3> HIDE DEF k
    <3>3. total[r] >= k
      BY <3>1, <3>2 DEF k
    <3> QED  BY <3>3 DEF k
  <2>2. NeverOvercharged
    <3> SUFFICES ASSUME NEW m \in Months PROVE ledger[m] <= Cardinality(Charged(m))
      BY DEF NeverOvercharged
    <3>1. /\ Applied(m) \in SUBSET Requests /\ Charged(m) \in SUBSET Requests
          /\ Applied(m) \subseteq Charged(m)
      BY DEF Applied, Charged
    <3> DEFINE a == Cardinality(Applied(m))
               b == Cardinality(Charged(m))
    <3>2. a \in Nat /\ b \in Nat /\ a <= b
      BY <3>1, RequestSets
    <3>3. ledger[m] <= a /\ ledger[m] \in Nat
      BY DEF SpendInv, LedgerInv, SpendTypeOK
    <3> HIDE DEF a, b
    <3>4. ledger[m] <= b
      BY SMTT(60), <3>2, <3>3
    <3> QED  BY <3>4 DEF b
  <2> QED  BY <2>1, <2>2 DEF ChargesExact
<1> QED  BY <1>1, SpendInvariant, PTL

\* Without a ledger the counter of a process is what its finished requests cost,
\* until the first month ends (AddSpend, Usage).
THEOREM LocalSpendAlwaysExact == Spec => []LocalSpendExact
<1>1. SpendInv => LocalSpendExact
  <2>1. SpendInv => (clock < MonthLen <=> monthKey = 0)
    BY MonthOfClock DEF SpendInv, SpendTypeOK
  <2> QED  BY <2>1 DEF LocalSpendExact, SpendInv, LocalInv
<1> QED  BY <1>1, SpendInvariant, PTL
=============================================================================
