------------------------------ MODULE TenantsProofs ------------------------------
(***************************************************************************)
(* The API keys with their authentication cache, for any number of         *)
(* tenants, keys, requests served at once and cache entries on either      *)
(* backend, and single sign-on, for any number of browsers, emails and     *)
(* logins.                                                                 *)
(***************************************************************************)
EXTENDS TenancyStore, SsoLogin, FiniteSetTheorems, TLAPS

\* A leaf goes to Zenon unless it names another prover.
USE ZenonT(120)

-----------------------------------------------------------------------------
(* The keys: CacheCurrent is an invariant, TransitionExactUnlessRaced holds   *)
(* of every step.                                                            *)

Fields == {"pc", "cred", "who", "key", "role", "prev", "fresh", "events", "late"}

\* The shape of the state; the values of the fields do not matter.
StoreTypeOK ==
  /\ rows = [k \in Keys |-> rows[k]]
  /\ req = [p \in Procs |-> req[p]]
  /\ \A p \in Procs : DOMAIN req[p] = Fields /\ req[p].late \in BOOLEAN
  /\ \A e \in cache : e.late \in BOOLEAN /\ (e.late \/ e.who.key \in Keys)

\* A resolution about to be cached agrees with the table, or is marked late.
SetCurrent(p) ==
  req[p].pc = "set" =>
    \/ req[p].late
    \/ /\ req[p].who.key \in Keys /\ Live(req[p].who.key)
       /\ rows[req[p].who.key].secret = req[p].cred
       /\ PrincipalOf(req[p].who.key) = req[p].who

\* The id a CreateAPIKey has drawn is not used before its INSERT.
InsertReserved(p) ==
  req[p].pc = "insert" =>
    /\ req[p].key \in Keys /\ rows[req[p].key] = NoRow
    /\ \A q \in Procs \ {p} : req[q].pc = "insert" => req[q].key # req[p].key

\* Only on SQLite is a request between a SELECT and an UPDATE, and a bulk rotation
\* has only rotations to report.
NoGap(p) ==
  /\ req[p].pc = "update" => backend = "sqlite"
  /\ req[p].pc = "tx" => \A e \in req[p].events : "kind" \in DOMAIN e /\ e.kind = "rotated"

\* The role a role change has read is that of its key, or the change is late.
ReadCurrent(p) ==
  req[p].pc = "update" =>
    \/ req[p].late
    \/ /\ req[p].key \in Keys /\ Live(req[p].key)
       /\ rows[req[p].key].role = req[p].prev

\* The inductive invariant.
StoreInv ==
  /\ StoreTypeOK
  /\ CacheCurrent
  /\ \A p \in Procs : SetCurrent(p) /\ ReadCurrent(p) /\ InsertReserved(p) /\ NoGap(p)

\* The record of a request that is not being served.
LEMMA IdleShape == /\ DOMAIN Idle = Fields /\ Idle.late = FALSE /\ Idle.pc = "idle"
                   /\ Idle.events = {}
  BY DEF Idle, Fields

\* A server that has just started satisfies the invariant.
LEMMA InitStoreInv == StoreInit => StoreInv
<1> SUFFICES ASSUME StoreInit PROVE StoreInv
  OBVIOUS
<1>1. rows = [k \in Keys |-> rows[k]]
  BY StoreAssumption DEF StoreInit
<1>2. \A p \in Procs : req[p] = Idle
  BY DEF StoreInit
<1>3. StoreTypeOK
  BY <1>1, <1>2, IdleShape DEF StoreInit, StoreTypeOK
<1>4. CacheCurrent
  BY DEF StoreInit, CacheCurrent
<1> QED  BY <1>2, <1>3, <1>4, IdleShape DEF StoreInv, SetCurrent, ReadCurrent, InsertReserved, NoGap

\* What a step must report: the role it replaces, unless it is late.
Exact == \A q \in Procs : \A e \in Reported(q) :
           e.from = rows[e.key].role \/ (backend = "sqlite" /\ req[q].late)

\* The steps that commit nothing report nothing.
LEMMA NoneReported ==
  ASSUME StoreInv, \A q \in Procs : req'[q].pc = "flush" => req[q].pc = "flush"
  PROVE  Exact
  BY DEF Exact, Reported

\* A step of one request that changes no row and no cache entry: it keeps the
\* invariant when the request's new record does and was not about to flush.
LEMMA OneRequest ==
  ASSUME StoreInv, NEW p \in Procs, NEW x, req' = [req EXCEPT ![p] = x],
         UNCHANGED <<backend, rows, cache>>, req[p].pc # "flush",
         DOMAIN x = Fields, x.late \in BOOLEAN, x.pc # "flush",
         SetCurrent(p)', ReadCurrent(p)', NoGap(p)',
         x.pc = "insert" => /\ x.key \in Keys /\ rows[x.key] = NoRow
                            /\ \A q \in Procs \ {p} : req[q].pc = "insert" => req[q].key # x.key
  PROVE  StoreInv' /\ Exact
<1>0. StoreTypeOK
  BY DEF StoreInv
<1>1. req'[p] = x /\ \A q \in Procs \ {p} : req'[q] = req[q]
  BY <1>0 DEF StoreTypeOK
<1>2. StoreTypeOK'
  BY <1>0, <1>1 DEF StoreTypeOK
<1>3. Flushing => Flushing'
  BY <1>1 DEF Flushing
<1>4. CacheCurrent'
  BY <1>3 DEF StoreInv, CacheCurrent, Agrees, Live, PrincipalOf
<1>5. ASSUME NEW q \in Procs \ {p} PROVE SetCurrent(q)' /\ ReadCurrent(q)' /\ InsertReserved(q)' /\ NoGap(q)'
  <2>1. SetCurrent(q) /\ ReadCurrent(q) /\ InsertReserved(q) /\ NoGap(q)
    BY DEF StoreInv
  <2>2. SetCurrent(q)' /\ ReadCurrent(q)' /\ NoGap(q)'
    BY <1>1, <2>1 DEF SetCurrent, ReadCurrent, NoGap, Live, PrincipalOf
  <2>3. InsertReserved(q)'
    BY <1>1, <2>1 DEF InsertReserved
  <2> QED  BY <2>2, <2>3
<1>6. InsertReserved(p)'
  BY <1>1 DEF InsertReserved
<1>7. Exact
  BY <1>1, NoneReported
<1> QED  BY <1>2, <1>4, <1>5, <1>6, <1>7 DEF StoreInv

\* A committed mutation: only live rows among those marked changed differ, every
\* resolution that read one of them is late, and the flush comes next.
LEMMA CommitStoreInv ==
  ASSUME StoreInv, NEW p \in Procs, NEW newRows, NEW changed, NEW events,
         Commit(p, newRows, changed, events), UNCHANGED <<backend, cache>>,
         newRows = [k \in Keys |-> newRows[k]],
         \A k \in Keys : newRows[k] # rows[k] => Live(k) /\ k \in changed
  PROVE  StoreInv' /\ req'[p].pc = "flush" /\ req'[p].events = events
<1>0. StoreTypeOK /\ rows' = newRows
  BY DEF StoreInv, Commit
<1>1. /\ req' = [q \in Procs |-> req'[q]]
      /\ req'[p] = [Idle EXCEPT !.pc = "flush", !.who = req[p].who, !.events = events]
      /\ \A q \in Procs \ {p} : req'[q] = IF Outdates(newRows, changed, q)
                                          THEN [req[q] EXCEPT !.late = TRUE] ELSE req[q]
  BY DEF Commit, Late
<1>2. /\ DOMAIN req'[p] = Fields /\ req'[p].late = FALSE /\ req'[p].pc = "flush"
      /\ req'[p].events = events
  BY <1>1 DEF Idle, Fields
<1>3. ASSUME NEW q \in Procs \ {p}
      PROVE  /\ DOMAIN req'[q] = Fields /\ req'[q].late \in BOOLEAN
             /\ req'[q].pc = req[q].pc /\ req'[q].who = req[q].who /\ req'[q].key = req[q].key
             /\ req'[q].cred = req[q].cred /\ req'[q].events = req[q].events
             /\ req'[q].late \/ req'[q].late = req[q].late
             /\ req'[q].prev = req[q].prev
             /\ Outdates(newRows, changed, q) => req'[q].late
  <2>1. DOMAIN req[q] = Fields /\ req[q].late \in BOOLEAN
    BY <1>0 DEF StoreTypeOK
  <2>2. CASE Outdates(newRows, changed, q)
    <3>1. req'[q] = [req[q] EXCEPT !.late = TRUE]
      BY <1>1, <2>2
    <3> QED  BY <2>1, <3>1 DEF Fields
  <2>3. CASE ~Outdates(newRows, changed, q)
    <3>1. req'[q] = req[q]
      BY <1>1, <2>3
    <3> QED  BY <2>1, <2>3, <3>1
  <2> QED  BY <2>2, <2>3
<1>4. StoreTypeOK'
  <2>1. \A q \in Procs : DOMAIN req'[q] = Fields /\ req'[q].late \in BOOLEAN
    BY <1>2, <1>3
  <2> QED  BY <1>0, <1>1, <2>1 DEF StoreTypeOK
<1>5. CacheCurrent'
  BY <1>2 DEF CacheCurrent, Flushing
<1>6. ASSUME NEW q \in Procs \ {p} PROVE SetCurrent(q)' /\ ReadCurrent(q)' /\ InsertReserved(q)' /\ NoGap(q)'
  <2>1. SetCurrent(q) /\ ReadCurrent(q) /\ InsertReserved(q) /\ NoGap(q)
    BY DEF StoreInv
  <2>2. SetCurrent(q)'
    <3> SUFFICES ASSUME req[q].pc = "set", ~req'[q].late
                 PROVE  /\ req[q].who.key \in Keys /\ rows'[req[q].who.key].secret # 0
                        /\ rows'[req[q].who.key].secret = req[q].cred
                        /\ [tenant |-> rows'[req[q].who.key].tenant, key |-> req[q].who.key,
                            role |-> rows'[req[q].who.key].role] = req[q].who
      BY <1>3 DEF SetCurrent, Live, PrincipalOf
    <3>1. req[q].who.key \notin changed /\ ~req[q].late
      BY <1>3 DEF Outdates
    <3>2. /\ req[q].who.key \in Keys /\ rows'[req[q].who.key] = rows[req[q].who.key]
      BY <1>0, <2>1, <3>1 DEF SetCurrent
    <3> QED  BY <2>1, <3>1, <3>2 DEF SetCurrent, Live, PrincipalOf
  <2>3. InsertReserved(q)'
    <3>1. \A k \in Keys : rows[k] = NoRow => rows'[k] = NoRow
      BY SMTT(60), <1>0 DEF Live, NoRow
    <3> QED  BY SMTT(60), <1>2, <1>3, <2>1, <3>1 DEF InsertReserved
  <2>4. NoGap(q)'
    BY <1>3, <2>1 DEF NoGap
  <2>5. ReadCurrent(q)'
    <3> SUFFICES ASSUME req[q].pc = "update", ~req'[q].late
                 PROVE  /\ req[q].key \in Keys /\ rows'[req[q].key].secret # 0
                        /\ rows'[req[q].key].role = req[q].prev
      BY <1>3 DEF ReadCurrent, Live
    <3>1. ~req[q].late /\ ~Outdates(newRows, changed, q)
      BY <1>3
    <3>2. req[q].key \in Keys /\ Live(req[q].key) /\ rows[req[q].key].role = req[q].prev
      BY <2>1, <3>1 DEF ReadCurrent
    <3>3. CASE req[q].key \in changed
      BY <1>0, <3>1, <3>2, <3>3 DEF Outdates
    <3>4. CASE req[q].key \notin changed
      BY <1>0, <3>2, <3>4 DEF Live
    <3> QED  BY <3>3, <3>4
  <2> QED  BY <2>2, <2>3, <2>4, <2>5
<1>7. SetCurrent(p)' /\ ReadCurrent(p)' /\ InsertReserved(p)' /\ NoGap(p)'
  BY <1>2 DEF SetCurrent, ReadCurrent, InsertReserved, NoGap
<1> QED  BY <1>2, <1>4, <1>5, <1>6, <1>7 DEF StoreInv

\* A request comes back to idle, or goes to its audit record.
LEMMA EndsStoreInv ==
  ASSUME StoreInv, NEW p \in Procs, req[p].pc # "flush",
         UNCHANGED <<backend, rows, cache>>,
         NEW x, req' = [req EXCEPT ![p] = x],
         DOMAIN x = Fields, x.late \in BOOLEAN,
         x.pc \notin {"set", "insert", "update", "tx", "flush"}
  PROVE  StoreInv' /\ Exact
<1>1. req'[p] = x
  BY DEF StoreInv, StoreTypeOK
<1>2. SetCurrent(p)' /\ ReadCurrent(p)' /\ NoGap(p)'
  BY <1>1 DEF SetCurrent, ReadCurrent, NoGap
<1> QED  BY <1>2, OneRequest

\* Resolving a key, up to the Set.
LEMMA ResolveStoreInv ==
  ASSUME StoreInv, NEW p \in Procs, (\E s \in 1..issued : Present(p, s)) \/ SelectCandidates(p)
  PROVE  StoreInv' /\ Exact
<1>0. StoreTypeOK /\ UNCHANGED <<backend, rows, cache>> /\ req[p].pc # "flush"
  BY DEF StoreInv, Present, SelectCandidates
<1>1. ASSUME NEW s \in 1..issued, Present(p, s) PROVE StoreInv' /\ Exact
  <2> PICK x : x = IF CacheGet(s) = {} THEN [Idle EXCEPT !.pc = "select", !.cred = s]
                   ELSE [Idle EXCEPT !.pc = "handler",
                                     !.who = (CHOOSE e \in CacheGet(s) : TRUE).who]
    OBVIOUS
  <2>1. req' = [req EXCEPT ![p] = x]
    BY <1>1 DEF Present
  <2>2. DOMAIN x = Fields /\ x.late = FALSE /\ x.pc \in {"select", "handler"}
    BY DEF Idle, Fields
  <2> QED  BY <1>0, <2>1, <2>2, EndsStoreInv
<1>2. CASE SelectCandidates(p)
  <2>1. CASE Matching(req[p].cred) = {}
    <3>1. req' = [req EXCEPT ![p] = Idle]
      BY <1>2, <2>1 DEF SelectCandidates
    <3> QED  BY <1>0, <3>1, IdleShape, EndsStoreInv
  <2>2. CASE Matching(req[p].cred) # {}
    <3> PICK k \in Matching(req[p].cred) : k = CHOOSE j \in Matching(req[p].cred) : TRUE
      BY <2>2
    <3> PICK x : x = [req[p] EXCEPT !.pc = "set", !.who = PrincipalOf(k)]
      OBVIOUS
    <3>1. req' = [req EXCEPT ![p] = x] /\ DOMAIN req[p] = Fields /\ req[p].late \in BOOLEAN
      BY <1>0, <1>2, <2>2 DEF SelectCandidates, StoreTypeOK
    <3>2. /\ DOMAIN x = Fields /\ x.late \in BOOLEAN /\ x.pc = "set" /\ x.who = PrincipalOf(k)
          /\ x.cred = req[p].cred /\ x.who.key = k
      BY <3>1 DEF Fields, PrincipalOf
    <3>3. k \in Keys /\ Live(k) /\ rows[k].secret = x.cred
      BY <3>2 DEF Matching
    <3>4. req'[p] = x
      BY <1>0, <3>1 DEF StoreTypeOK
    <3>5. SetCurrent(p)' /\ ReadCurrent(p)' /\ NoGap(p)'
      BY <1>0, <3>2, <3>3, <3>4 DEF SetCurrent, ReadCurrent, NoGap, Live, PrincipalOf
    <3> QED  BY <1>0, <3>1, <3>2, <3>5, OneRequest
  <2> QED  BY <2>1, <2>2
<1> QED  BY <1>1, <1>2

\* The handler's steps that change no row: reads and refusals, the records of
\* the audit, a new tenant, and a bulk rotation that is rolled back.
LEMMA QuietStoreInv ==
  ASSUME StoreInv, NEW p \in Procs,
         \/ Finish(p) \/ Record(p) \/ BulkRollback(p)
         \/ \E t \in Tenants : CreateTenant(p, t)
  PROVE  StoreInv' /\ Exact
<1>0. UNCHANGED <<backend, rows, cache>> /\ req[p].pc # "flush"
  BY DEF Finish, Record, BulkRollback, CreateTenant, Authorized
<1>1. CASE Finish(p) \/ Record(p) \/ BulkRollback(p)
  BY <1>0, <1>1, IdleShape, EndsStoreInv DEF Finish, Record, BulkRollback
<1>2. ASSUME NEW t \in Tenants, CreateTenant(p, t) PROVE StoreInv' /\ Exact
  <2> PICK x : x = [Idle EXCEPT !.pc = "audit", !.events =
                               {Event("tenant_created", 0, "none", "none", 0)}]
    OBVIOUS
  <2>1. req' = [req EXCEPT ![p] = x]
    BY <1>2 DEF CreateTenant
  <2>2. DOMAIN x = Fields /\ x.late = FALSE /\ x.pc = "audit"
    BY DEF Idle, Fields
  <2> QED  BY <1>0, <2>1, <2>2, EndsStoreInv
<1> QED  BY <1>1, <1>2

\* The first halves: a key id is drawn, a role is read, a bulk rotation reads.
LEMMA FirstHalfStoreInv ==
  ASSUME StoreInv, NEW p \in Procs,
         \/ \E t \in Tenants, r \in AskedRoles : CreateAPIKey(p, t, r)
         \/ \E k \in Keys, r \in AskedRoles : ReadRole(p, k, r)
         \/ \E t \in Tenants, self \in BOOLEAN : BulkRead(p, t, self)
  PROVE  StoreInv' /\ Exact
<1>0. /\ StoreTypeOK /\ UNCHANGED <<backend, rows, cache>> /\ req[p].pc = "handler"
      /\ DOMAIN req[p] = Fields /\ req[p].late \in BOOLEAN
  BY DEF StoreInv, StoreTypeOK, CreateAPIKey, ReadRole, BulkRead, RoleRequest, BulkRequest, Authorized
<1>1. ASSUME NEW t \in Tenants, NEW r \in AskedRoles, CreateAPIKey(p, t, r) PROVE StoreInv' /\ Exact
  <2> PICK k \in Keys : /\ rows[k] = NoRow /\ \A q \in Procs : req[q].key # k
                        /\ req' = [req EXCEPT ![p].pc = "insert", ![p].key = k, ![p].role = r,
                                              ![p].fresh[k] = issued + 1]
    BY <1>1 DEF CreateAPIKey
  <2> PICK x : x = req'[p]
    OBVIOUS
  <2>1. req' = [req EXCEPT ![p] = x]
    <3>1. req' = [req EXCEPT ![p].pc = "insert", ![p].key = k, ![p].role = r,
                             ![p].fresh = [req[p].fresh EXCEPT ![k] = issued + 1]]
      BY <1>0 DEF StoreTypeOK, Fields
    <3> QED  BY <1>0, <3>1 DEF StoreTypeOK
  <2>2. DOMAIN x = Fields /\ x.late \in BOOLEAN /\ x.pc = "insert" /\ x.key = k
    BY <1>0 DEF StoreTypeOK, Fields
  <2>3. SetCurrent(p)' /\ ReadCurrent(p)' /\ NoGap(p)'
    BY <2>2 DEF SetCurrent, ReadCurrent, NoGap
  <2>4. /\ x.key \in Keys /\ rows[x.key] = NoRow /\ req[p].pc # "flush"
        /\ \A q \in Procs \ {p} : req[q].pc = "insert" => req[q].key # x.key
    BY <1>0, <2>2
  <2>5. UNCHANGED <<backend, rows, cache>>
    BY <1>0
  <2> QED  BY ONLY StoreInv, p \in Procs, <2>1, <2>2, <2>3, <2>4, <2>5, OneRequest
<1>2. ASSUME NEW k \in Keys, NEW r \in AskedRoles, ReadRole(p, k, r) PROVE StoreInv' /\ Exact
  <2> PICK x : x = req'[p]
    OBVIOUS
  <2>1. /\ backend = "sqlite" /\ req' = [req EXCEPT ![p] = x]
        /\ DOMAIN x = Fields /\ x.late \in BOOLEAN /\ x.pc = "update"
        /\ x.key = k /\ x.prev = rows[k].role /\ Live(k)
    BY <1>0, <1>2 DEF ReadRole, RoleRequest, Owned, StoreTypeOK, Fields
  <2>2. SetCurrent(p)' /\ ReadCurrent(p)' /\ NoGap(p)'
    <3>1. req'[p] = x
      BY <1>0, <2>1 DEF StoreTypeOK
    <3> QED  BY <1>0, <2>1, <3>1 DEF SetCurrent, ReadCurrent, NoGap, Live
  <2> QED  BY <1>0, <2>1, <2>2, OneRequest
<1>3. ASSUME NEW t \in Tenants, NEW self \in BOOLEAN, BulkRead(p, t, self) PROVE StoreInv' /\ Exact
  <2> PICK x : x = req'[p]
    OBVIOUS
  <2> PICK keys : req' = [req EXCEPT ![p].pc = "tx", ![p].fresh = NumberedFrom(keys, issued),
                       ![p].events = {Event("rotated", k, "none", "none", 0) : k \in keys}]
    BY <1>3 DEF BulkRead
  <2>1. /\ req' = [req EXCEPT ![p] = x] /\ DOMAIN x = Fields /\ x.late \in BOOLEAN /\ x.pc = "tx"
        /\ x.events = {Event("rotated", k, "none", "none", 0) : k \in keys}
    BY <1>0 DEF StoreTypeOK, Fields
  <2>2. \A e \in x.events : "kind" \in DOMAIN e /\ e.kind = "rotated"
    BY SMTT(60), <2>1 DEF Event
  <2>3. SetCurrent(p)' /\ ReadCurrent(p)' /\ NoGap(p)'
    BY <2>1, <2>2 DEF SetCurrent, ReadCurrent, NoGap
  <2> QED  BY <1>0, <2>1, <2>3, OneRequest
<1> QED  BY <1>1, <1>2, <1>3

\* An entry is stored: what the resolution read, marked late when it is.
LEMMA CacheSetStoreInv == ASSUME StoreInv, NEW p \in Procs, CacheSet(p) PROVE StoreInv' /\ Exact
<1>0. /\ StoreTypeOK /\ UNCHANGED <<backend, rows>> /\ req[p].pc = "set" /\ SetCurrent(p)
      /\ DOMAIN req[p] = Fields /\ req[p].late \in BOOLEAN
  BY DEF StoreInv, StoreTypeOK, CacheSet
<1> PICK new : new = [secret |-> req[p].cred, who |-> req[p].who, late |-> req[p].late]
  OBVIOUS
<1>1. \A e \in cache' : e \in cache \/ e = new
  BY SMTT(60) DEF CacheSet, Evicted
<1>2. /\ req' = [q \in Procs |-> req'[q]] /\ \A q \in Procs \ {p} : req'[q] = req[q]
      /\ DOMAIN req'[p] = Fields /\ req'[p].late = FALSE /\ req'[p].pc = "handler"
  BY <1>0 DEF CacheSet, StoreTypeOK, Fields
<1>3. StoreTypeOK'
  <2>1. \A e \in cache' : e.late \in BOOLEAN /\ (e.late \/ e.who.key \in Keys)
    BY SMTT(60), <1>0, <1>1 DEF StoreTypeOK, SetCurrent
  <2> QED  BY <1>0, <1>2, <2>1 DEF StoreTypeOK
<1>4. Flushing => Flushing'
  BY <1>0, <1>2 DEF Flushing
<1>5. Agrees(new) \/ new.late
  BY <1>0 DEF SetCurrent, Agrees, Live, PrincipalOf
<1>6. \A e \in cache' : Agrees(e) \/ e.late \/ Flushing
  BY <1>1, <1>5 DEF StoreInv, CacheCurrent
<1>7. CacheCurrent'
  BY <1>0, <1>4, <1>6 DEF CacheCurrent, Agrees, Live, PrincipalOf
<1>8. ASSUME NEW q \in Procs PROVE SetCurrent(q)' /\ ReadCurrent(q)' /\ InsertReserved(q)' /\ NoGap(q)'
  <2>1. SetCurrent(q) /\ ReadCurrent(q) /\ InsertReserved(q) /\ NoGap(q)
    BY DEF StoreInv
  <2>2. SetCurrent(q)' /\ ReadCurrent(q)' /\ NoGap(q)'
    BY <1>0, <1>2, <2>1 DEF SetCurrent, ReadCurrent, NoGap, Live, PrincipalOf
  <2>3. InsertReserved(q)'
    BY <1>0, <1>2, <2>1 DEF InsertReserved
  <2> QED  BY <2>2, <2>3
<1>9. Exact
  BY <1>2, NoneReported
<1> QED  BY <1>3, <1>7, <1>8, <1>9 DEF StoreInv

\* An entry's TTL passes.
LEMMA ExpireStoreInv == ASSUME StoreInv, CacheExpire PROVE StoreInv' /\ Exact
<1>1. UNCHANGED <<backend, rows, req>> /\ cache' \subseteq cache
  BY DEF CacheExpire
<1>2. StoreTypeOK' /\ CacheCurrent'
  BY <1>1 DEF StoreInv, StoreTypeOK, CacheCurrent, Agrees, Flushing, Live, PrincipalOf
<1>3. ASSUME NEW q \in Procs PROVE SetCurrent(q)' /\ ReadCurrent(q)' /\ InsertReserved(q)' /\ NoGap(q)'
  BY <1>1 DEF StoreInv, SetCurrent, ReadCurrent, InsertReserved, NoGap, Live, PrincipalOf
<1>4. Exact
  BY <1>1, NoneReported
<1> QED  BY <1>2, <1>3, <1>4 DEF StoreInv

\* The flush empties the cache.
LEMMA InvalidateStoreInv == ASSUME StoreInv, NEW p \in Procs, Invalidate(p) PROVE StoreInv' /\ Exact
<1>0. /\ StoreTypeOK /\ UNCHANGED <<backend, rows>> /\ cache' = {}
      /\ DOMAIN req[p] = Fields /\ req[p].late \in BOOLEAN
  BY DEF StoreInv, StoreTypeOK, Invalidate
<1>1. /\ req' = [q \in Procs |-> req'[q]] /\ \A q \in Procs \ {p} : req'[q] = req[q]
      /\ DOMAIN req'[p] = Fields /\ req'[p].late = req[p].late /\ req'[p].pc = "audit"
  BY <1>0 DEF Invalidate, StoreTypeOK, Fields
<1>2. StoreTypeOK' /\ CacheCurrent'
  BY <1>0, <1>1 DEF StoreTypeOK, CacheCurrent
<1>3. ASSUME NEW q \in Procs PROVE SetCurrent(q)' /\ ReadCurrent(q)' /\ InsertReserved(q)' /\ NoGap(q)'
  <2>1. SetCurrent(q) /\ ReadCurrent(q) /\ InsertReserved(q) /\ NoGap(q)
    BY DEF StoreInv
  <2>2. SetCurrent(q)' /\ ReadCurrent(q)' /\ NoGap(q)'
    BY <1>0, <1>1, <2>1 DEF SetCurrent, ReadCurrent, NoGap, Live, PrincipalOf
  <2>3. InsertReserved(q)'
    BY <1>0, <1>1, <2>1 DEF InsertReserved
  <2> QED  BY <2>2, <2>3
<1>4. Exact
  BY <1>1, NoneReported
<1> QED  BY <1>2, <1>3, <1>4 DEF StoreInv

\* The INSERT fills a row that nobody has read.
LEMMA InsertStoreInv == ASSUME StoreInv, NEW p \in Procs, InsertAPIKey(p) PROVE StoreInv' /\ Exact
<1> PICK k : k = req[p].key
  OBVIOUS
<1>0. /\ StoreTypeOK /\ UNCHANGED <<backend, cache>> /\ req[p].pc = "insert"
      /\ k \in Keys /\ rows[k] = NoRow /\ ~Live(k)
      /\ \A q \in Procs \ {p} : req[q].pc = "insert" => req[q].key # k
  BY SMTT(60) DEF StoreInv, InsertAPIKey, InsertReserved, Live, NoRow
<1>1. \/ rows' = rows /\ req' = [req EXCEPT ![p] = Idle]
      \/ \E row, events :
           /\ rows' = [rows EXCEPT ![k] = row]
           /\ req' = [req EXCEPT ![p] = [Idle EXCEPT !.pc = "audit", !.events = events]]
  BY DEF InsertAPIKey
<1>2. CASE rows' = rows /\ req' = [req EXCEPT ![p] = Idle]
  BY <1>0, <1>2, IdleShape, EndsStoreInv
<1>3. ASSUME NEW row, NEW events, rows' = [rows EXCEPT ![k] = row],
             req' = [req EXCEPT ![p] = [Idle EXCEPT !.pc = "audit", !.events = events]]
      PROVE  StoreInv' /\ Exact
  <2>1. /\ req' = [q \in Procs |-> req'[q]] /\ \A q \in Procs \ {p} : req'[q] = req[q]
        /\ DOMAIN req'[p] = Fields /\ req'[p].late = FALSE /\ req'[p].pc = "audit"
    BY <1>0, <1>3 DEF StoreTypeOK, Idle, Fields
  <2>2. /\ rows' = [j \in Keys |-> rows'[j]]
        /\ \A j \in Keys \ {k} : rows'[j] = rows[j]
    BY <1>0, <1>3 DEF StoreTypeOK
  <2>3. StoreTypeOK'
    BY <1>0, <2>1, <2>2 DEF StoreTypeOK
  <2>4. Flushing => Flushing'
    BY <1>0, <2>1 DEF Flushing
  <2>5. CacheCurrent'
    <3> SUFFICES ASSUME NEW e \in cache PROVE (Agrees(e) \/ e.late \/ Flushing)'
      BY <1>0 DEF CacheCurrent
    <3>1. CASE Agrees(e) /\ ~e.late
      <4>1. e.who.key \in Keys /\ e.who.key # k
        BY <1>0, <3>1 DEF StoreTypeOK, Agrees
      <4> QED  BY <2>2, <3>1, <4>1 DEF Agrees, Live, PrincipalOf
    <3> QED  BY <2>4, <3>1 DEF StoreInv, CacheCurrent
  <2>6. ASSUME NEW q \in Procs PROVE SetCurrent(q)' /\ ReadCurrent(q)' /\ InsertReserved(q)' /\ NoGap(q)'
    <3>1. SetCurrent(q) /\ ReadCurrent(q) /\ InsertReserved(q) /\ NoGap(q)
      BY DEF StoreInv
    <3>2. SetCurrent(q)' /\ ReadCurrent(q)' /\ NoGap(q)'
      BY SMTT(60), <1>0, <2>1, <2>2, <3>1 DEF SetCurrent, ReadCurrent, NoGap, Live, PrincipalOf
    <3>3. InsertReserved(q)'
      BY SMTT(60), <1>0, <2>1, <2>2, <3>1 DEF InsertReserved
    <3> QED  BY <3>2, <3>3
  <2>7. Exact
    BY <2>1, NoneReported
  <2> QED  BY <2>3, <2>5, <2>6, <2>7 DEF StoreInv
<1> QED  BY <1>1, <1>2, <1>3

\* A commit reports its own events and nobody else's.
LEMMA CommitReports ==
  ASSUME StoreInv, NEW p \in Procs, NEW newRows, NEW changed, NEW events,
         Commit(p, newRows, changed, events), NEW q \in Procs, NEW e \in Reported(q)
  PROVE  q = p /\ e \in events /\ e.kind = "role_changed"
<1>0. StoreTypeOK /\ e \in req'[q].events /\ req'[q].pc = "flush" /\ req[q].pc # "flush"
      /\ e.kind = "role_changed"
  BY DEF StoreInv, Reported
<1>1. CASE q # p
  <2>1. req'[q] = IF Outdates(newRows, changed, q)
                  THEN [req[q] EXCEPT !.late = TRUE] ELSE req[q]
    BY <1>1 DEF Commit, Late
  <2>2. req'[q].pc = req[q].pc
    BY <1>0, <2>1 DEF StoreTypeOK, Fields
  <2> QED  BY <1>0, <2>2
<1>2. CASE q = p
  <2>1. req'[p] = [Idle EXCEPT !.pc = "flush", !.who = req[p].who, !.events = events]
    BY DEF Commit, Late
  <2>2. req'[p].events = events
    BY <2>1 DEF Idle
  <2> QED  BY <1>0, <1>2, <2>2
<1> QED  BY <1>1, <1>2

\* A role change, on either backend.
LEMMA RoleStoreInv ==
  ASSUME StoreInv, NEW p \in Procs,
         WriteRole(p) \/ \E k \in Keys, r \in AskedRoles : UpdateAPIKeyRole(p, k, r)
  PROVE  StoreInv' /\ Exact
<1>0. StoreTypeOK /\ UNCHANGED <<backend, cache>>
  BY DEF StoreInv, WriteRole, UpdateAPIKeyRole
<1>1. ASSUME NEW k, NEW r
      PROVE  /\ WithRole(k, r) = [j \in Keys |-> WithRole(k, r)[j]]
             /\ \A j \in Keys : WithRole(k, r)[j] # rows[j] => Live(j) /\ j \in {k}
  BY <1>0 DEF StoreTypeOK, WithRole
<1>2. CASE WriteRole(p)
  <2> PICK k : k = req[p].key
    OBVIOUS
  <2>0. /\ Commit(p, WithRole(k, req[p].role), {k}, RoleChanged(k, req[p].prev, req[p].role))
        /\ req[p].pc = "update"
    BY <1>2 DEF WriteRole
  <2>1. StoreInv'
    BY SMTT(60), <1>0, <1>1, <2>0, CommitStoreInv
  <2>2. /\ backend = "sqlite"
        /\ req[p].late \/ rows[k].role = req[p].prev
    BY <2>0 DEF StoreInv, NoGap, ReadCurrent
  <2>3. ASSUME NEW q \in Procs, NEW e \in Reported(q)
        PROVE  e.from = rows[e.key].role \/ (backend = "sqlite" /\ req[q].late)
    <3>1. q = p /\ e \in RoleChanged(k, req[p].prev, req[p].role)
      BY <2>0, <2>3, CommitReports
    <3>2. e.from = req[p].prev /\ e.key = k
      BY SMTT(60), <3>1 DEF RoleChanged, Event
    <3> QED  BY <2>2, <3>1, <3>2
  <2> QED  BY <2>1, <2>3 DEF Exact
<1>3. ASSUME NEW k \in Keys, NEW r \in AskedRoles, UpdateAPIKeyRole(p, k, r) PROVE StoreInv' /\ Exact
  <2>0. Commit(p, WithRole(k, r), {k}, RoleChanged(k, rows[k].role, r))
    BY <1>3 DEF UpdateAPIKeyRole
  <2>1. StoreInv'
    BY SMTT(60), <1>0, <1>1, <2>0, CommitStoreInv
  <2>2. ASSUME NEW q \in Procs, NEW e \in Reported(q) PROVE e.from = rows[e.key].role
    <3>1. e \in RoleChanged(k, rows[k].role, r)
      BY <2>0, <2>2, CommitReports
    <3> QED  BY SMTT(60), <3>1 DEF RoleChanged, Event
  <2> QED  BY <2>1, <2>2 DEF Exact
<1> QED  BY <1>2, <1>3

\* The other mutations report no role change.
LEMMA CommitExact ==
  ASSUME StoreInv, NEW p \in Procs, NEW newRows, NEW changed, NEW events,
         Commit(p, newRows, changed, events), \A e \in events : e.kind # "role_changed"
  PROVE  Exact
  BY CommitReports DEF Exact

\* A rotation, the caller's own or another of the tenant's, and a deletion.
LEMMA OneKeyStoreInv ==
  ASSUME StoreInv, NEW p \in Procs, NEW k, RotateAPIKey(p, k) \/ DeleteAPIKey(p, k)
  PROVE  StoreInv' /\ Exact
<1>0. StoreTypeOK /\ k \in Keys /\ Live(k) /\ UNCHANGED <<backend, cache>>
  BY DEF StoreInv, RotateAPIKey, DeleteAPIKey, RemoveAPIKey, Owned
<1>1. CASE RotateAPIKey(p, k)
  <2> PICK new : new = Rotated(k, issued + 1)
    OBVIOUS
  <2> PICK events : events = {Event("rotated", k, "none", "none", issued + 1)}
    OBVIOUS
  <2>1. Commit(p, new, {k}, events)
    BY <1>1 DEF RotateAPIKey
  <2>2. new = [j \in Keys |-> new[j]] /\ \A j \in Keys : new[j] # rows[j] => Live(j) /\ j \in {k}
    BY <1>0 DEF StoreTypeOK, Rotated
  <2>3. \A e \in events : e.kind # "role_changed"
    BY SMTT(60) DEF Event
  <2>4. StoreInv'
    BY <1>0, <2>1, <2>2, CommitStoreInv
  <2> QED  BY <2>1, <2>3, <2>4, CommitExact
<1>2. CASE DeleteAPIKey(p, k)
  <2> PICK new : new = [rows EXCEPT ![k] = Deleted]
    OBVIOUS
  <2>1. Commit(p, new, {k}, {Event("deleted", k, "none", "none", 0)})
    BY <1>2 DEF DeleteAPIKey, RemoveAPIKey
  <2>2. new = [j \in Keys |-> new[j]] /\ \A j \in Keys : new[j] # rows[j] => Live(j) /\ j \in {k}
    BY <1>0 DEF StoreTypeOK
  <2>3. \A e \in {Event("deleted", k, "none", "none", 0)} : e.kind # "role_changed"
    BY SMTT(60) DEF Event
  <2>4. StoreInv'
    BY <1>0, <2>1, <2>2, CommitStoreInv
  <2> QED  BY <2>1, <2>3, <2>4, CommitExact
<1> QED  BY <1>1, <1>2

\* The cascade of a tenant's deletion.
LEMMA TenantStoreInv ==
  ASSUME StoreInv, NEW p \in Procs, NEW t \in Tenants, DeleteTenant(p, t) PROVE StoreInv' /\ Exact
<1> PICK gone : gone = {k \in Keys : Live(k) /\ rows[k].tenant = t}
  OBVIOUS
<1> PICK new : new = [k \in Keys |-> IF k \in gone THEN Deleted ELSE rows[k]]
  OBVIOUS
<1>1. /\ Commit(p, new, gone, {Event("tenant_deleted", 0, "none", "none", 0)})
      /\ UNCHANGED <<backend, cache>>
  BY DEF DeleteTenant, RemoveTenant
<1>2. new = [j \in Keys |-> new[j]] /\ \A j \in Keys : new[j] # rows[j] => Live(j) /\ j \in gone
  OBVIOUS
<1>3. \A e \in {Event("tenant_deleted", 0, "none", "none", 0)} : e.kind # "role_changed"
  BY SMTT(60) DEF Event
<1> QED  BY SMTT(60), <1>1, <1>2, <1>3, CommitStoreInv, CommitExact

\* The transaction of a bulk rotation.
LEMMA BulkStoreInv == ASSUME StoreInv, NEW p \in Procs, BulkCommit(p) PROVE StoreInv' /\ Exact
<1> PICK found : found = {k \in Keys : req[p].fresh[k] # 0 /\ Live(k)}
  OBVIOUS
<1> PICK events : events = {[e EXCEPT !.secret = req[p].fresh[e.key]] :
                              e \in {e \in req[p].events : e.key \in found}}
  OBVIOUS
<1>1. Commit(p, BulkRows(p, found), found, events) /\ UNCHANGED <<backend, cache>>
  BY DEF BulkCommit
<1>2. /\ BulkRows(p, found) = [j \in Keys |-> BulkRows(p, found)[j]]
      /\ \A j \in Keys : BulkRows(p, found)[j] # rows[j] => Live(j) /\ j \in found
  BY DEF BulkRows
<1>3. \A e \in req[p].events : "kind" \in DOMAIN e /\ e.kind = "rotated"
  BY DEF StoreInv, NoGap, BulkCommit
<1>4. \A e \in events : e.kind # "role_changed"
  BY <1>3
<1> QED  BY <1>1, <1>2, <1>4, CommitStoreInv, CommitExact

\* Every step preserves the invariant and reports what it replaced, unless it is late.
LEMMA NextStoreInv == ASSUME StoreInv, [StoreNext]_storeVars PROVE StoreInv' /\ Exact
<1>1. CASE UNCHANGED storeVars
  <2>1. StoreInv'
    BY SMTT(60), <1>1 DEF storeVars, StoreInv, StoreTypeOK, CacheCurrent, Agrees, Flushing, SetCurrent, ReadCurrent, InsertReserved,
                NoGap, Live, PrincipalOf
  <2> QED  BY <1>1, <2>1, NoneReported DEF storeVars
<1>2. CASE CacheExpire
  BY <1>2, ExpireStoreInv
<1>3. ASSUME NEW p \in Procs,
             \/ \E s \in 1..issued : Present(p, s)
             \/ SelectCandidates(p) \/ CacheSet(p)
             \/ Finish(p) \/ Invalidate(p) \/ Record(p)
             \/ \E t \in Tenants : CreateTenant(p, t)
             \/ \E t \in Tenants, r \in AskedRoles : CreateAPIKey(p, t, r)
             \/ InsertAPIKey(p)
             \/ \E k \in Keys, r \in AskedRoles : ReadRole(p, k, r)
             \/ \E t \in Tenants, self \in BOOLEAN : BulkRead(p, t, self)
             \/ BulkRollback(p)
      PROVE  StoreInv' /\ Exact
  BY <1>3, ResolveStoreInv, QuietStoreInv, FirstHalfStoreInv, CacheSetStoreInv, InvalidateStoreInv,
     InsertStoreInv
<1>4. ASSUME NEW p \in Procs,
             \/ \E t \in Tenants : DeleteTenant(p, t)
             \/ WriteRole(p) \/ \E k \in Keys, r \in AskedRoles : UpdateAPIKeyRole(p, k, r)
             \/ \E k \in Keys : Rotate(p, k) \/ DeleteAPIKey(p, k)
             \/ RotateMyAPIKey(p) \/ BurnMyAPIKey(p) \/ BulkCommit(p)
      PROVE  StoreInv' /\ Exact
  BY <1>4, TenantStoreInv, RoleStoreInv, OneKeyStoreInv, BulkStoreInv
     DEF Rotate, RotateMyAPIKey, BurnMyAPIKey
<1> QED  BY <1>1, <1>2, <1>3, <1>4 DEF StoreNext

-----------------------------------------------------------------------------
\* The invariant holds in every reachable state.
LEMMA StoreInvariant == StoreSpec => []StoreInv
<1>1. StoreInit => StoreInv
  BY InitStoreInv
<1>2. StoreInv /\ [StoreNext]_storeVars => StoreInv'
  BY NextStoreInv
<1> QED  BY <1>1, <1>2, PTL DEF StoreSpec

\* Outside the gap between a commit and its Invalidate the cache answers what
\* the table holds, except for an entry of a resolution that read its row before
\* the change (auth_cache.go, store.go).
THEOREM CacheAlwaysCurrent == StoreSpec => []CacheCurrent
<1>1. StoreInv => CacheCurrent
  BY DEF StoreInv
<1> QED  BY <1>1, StoreInvariant, PTL

\* The role an audited role change reports as previous is the one it replaces, on
\* SQLite unless another change of that role, or the removal of the key, came
\* between its SELECT and its UPDATE (UpdateAPIKeyRole of store.go and
\* postgres_store.go).
THEOREM TransitionsExactUnlessRaced == StoreSpec => TransitionExactUnlessRaced
<1>1. StoreInv /\ [StoreNext]_storeVars =>
        [\A p \in Procs : \A e \in Reported(p) :
           e.from = rows[e.key].role \/ (backend = "sqlite" /\ req[p].late)]_storeVars
  BY NextStoreInv DEF Exact
<1> QED  BY <1>1, StoreInvariant, PTL DEF StoreSpec, TransitionExactUnlessRaced

-----------------------------------------------------------------------------
(* Accountability.  What a request does in two steps it may still do at the  *)
(* second: the row it read has kept its tenant or is gone for good.          *)

\* Key k was a live row of tenant t, and is one unless it has been removed.
Past(k, t) == rows[k] = Deleted \/ (Live(k) /\ rows[k].tenant = t)

\* What a request between its two steps has established.
Cleared(p) ==
  /\ req[p].pc \in {"insert", "update", "tx"} => AtLeast(req[p].who.role, "admin")
  /\ req[p].pc \in {"insert", "update"} => IsAssignableViaAPI(req[p].role)
  /\ req[p].pc = "update" => req[p].key \in Keys /\ Past(req[p].key, req[p].who.tenant)
  /\ req[p].pc = "tx" =>
       /\ \A k \in Keys : req[p].fresh[k] # 0 =>
            /\ Past(k, req[p].who.tenant)
            /\ Event("rotated", k, "none", "none", 0) \in req[p].events

AccountInv == issued \in Nat /\ \A p \in Procs : Cleared(p)

\* What no step undoes, and what every step does.
RowsKept == \A k \in Keys : \A t : Past(k, t) => Past(k, t)'
Accountable == \A k \in Keys : ScopedChange(k) /\ AuditedChange(k)
SameRequest(q) ==
  /\ req'[q].pc = req[q].pc /\ req'[q].who = req[q].who /\ req'[q].key = req[q].key
  /\ req'[q].role = req[q].role /\ req'[q].fresh = req[q].fresh
  /\ req'[q].events = req[q].events

\* A request that a step leaves alone stays cleared.
LEMMA ClearedKept ==
  ASSUME NEW q \in Procs, Cleared(q), SameRequest(q), RowsKept PROVE Cleared(q)'
  BY SMTT(60) DEF Cleared, SameRequest, RowsKept, Past, Live

\* A step that changes no row is accountable, and undoes nothing.
LEMMA QuietAccountable == ASSUME UNCHANGED rows PROVE RowsKept /\ Accountable
<1>1. RowsKept
  BY DEF RowsKept, Past, Live
<1>2. PICK p \in Procs : TRUE
  BY StoreAssumption
<1>3. ASSUME NEW k \in Keys PROVE AuditedChange(k)
  <2>1. /\ Event("none", k, "none", "none", 0).key = k
        /\ Event("none", k, "none", "none", 0) \in
             req'[p].events \cup {Event("none", k, "none", "none", 0)}
    BY DEF Event
  <2> QED  BY <1>2, <2>1 DEF AuditedChange
<1>4. \A k \in Keys : ScopedChange(k)
  BY DEF ScopedChange
<1> QED  BY <1>1, <1>3, <1>4 DEF Accountable

\* One request changes: the others stay as they are.
LEMMA OthersCleared ==
  ASSUME StoreInv, AccountInv, issued' \in Nat, RowsKept, NEW p \in Procs,
         \A q \in Procs \ {p} : SameRequest(q), Cleared(p)'
  PROVE  AccountInv'
  BY ClearedKept DEF AccountInv

\* A step that is neither an INSERT nor a commit, of a request that is not then
\* between two steps.
LEMMA QuietStep ==
  ASSUME StoreInv, AccountInv, NEW p \in Procs, UNCHANGED rows, issued' \in Nat,
         NEW x, req' = [req EXCEPT ![p] = x], x.pc \notin {"insert", "update", "tx"}
  PROVE  AccountInv' /\ Accountable
<1>1. req'[p] = x /\ \A q \in Procs \ {p} : req'[q] = req[q]
  BY DEF StoreInv, StoreTypeOK
<1>2. Cleared(p)'
  BY <1>1 DEF Cleared
<1>3. \A q \in Procs \ {p} : SameRequest(q)
  BY <1>1 DEF SameRequest
<1> QED  BY <1>2, <1>3, QuietAccountable, OthersCleared

\* What a commit does to the requests.
LEMMA CommitRequests ==
  ASSUME StoreInv, NEW p \in Procs, NEW newRows, NEW changed, NEW events,
         Commit(p, newRows, changed, events)
  PROVE  /\ req'[p].pc = "flush" /\ req'[p].events = events /\ rows' = newRows
         /\ \A q \in Procs \ {p} : SameRequest(q)
         /\ Cleared(p)'
<1>1. req'[p] = [Idle EXCEPT !.pc = "flush", !.who = req[p].who, !.events = events]
  BY DEF Commit, Late
<1>2. req'[p].pc = "flush" /\ req'[p].events = events
  BY <1>1 DEF Idle
<1>3. ASSUME NEW q \in Procs \ {p} PROVE SameRequest(q)
  <2>1. req'[q] = IF Outdates(newRows, changed, q)
                  THEN [req[q] EXCEPT !.late = TRUE] ELSE req[q]
    BY DEF Commit, Late
  <2>2. DOMAIN req[q] = Fields
    BY DEF StoreInv, StoreTypeOK
  <2>3. CASE req'[q] = [req[q] EXCEPT !.late = TRUE]
    BY <2>2, <2>3 DEF SameRequest, Fields
  <2> QED  BY <2>1, <2>3 DEF SameRequest
<1>4. Cleared(p)'
  BY <1>2 DEF Cleared
<1> QED  BY <1>2, <1>3, <1>4 DEF Commit

\* The INSERT: an admin of the tenant gives it a key, whose role is assignable.
LEMMA InsertAccountable ==
  ASSUME StoreInv, AccountInv, NEW p \in Procs, InsertAPIKey(p)
  PROVE  AccountInv' /\ Accountable
<1> PICK k : k = req[p].key
  OBVIOUS
<1> PICK row : row = [tenant |-> req[p].who.tenant, role |-> req[p].role,
                      secret |-> req[p].fresh[k]]
  OBVIOUS
<1> PICK e : e = Event("created", k, "none", row.role, row.secret)
  OBVIOUS
<1>0. /\ k \in Keys /\ rows[k] = NoRow /\ req[p].pc = "insert" /\ issued' \in Nat
      /\ AtLeast(req[p].who.role, "admin") /\ IsAssignableViaAPI(req[p].role)
  BY DEF StoreInv, InsertReserved, AccountInv, Cleared, InsertAPIKey
<1>1. CASE tenants[req[p].who.tenant] # "live"
  BY <1>0, <1>1, IdleShape, QuietStep DEF InsertAPIKey
<1>2. CASE tenants[req[p].who.tenant] = "live"
  <2>1. /\ rows' = [rows EXCEPT ![k] = row]
        /\ req' = [req EXCEPT ![p] = [Idle EXCEPT !.pc = "audit", !.events = {e}]]
    BY <1>2 DEF InsertAPIKey
  <2>2. /\ req'[p].pc = "audit" /\ req'[p].events = {e}
        /\ \A q \in Procs \ {p} : req'[q] = req[q]
    BY <2>1 DEF StoreInv, StoreTypeOK, Idle
  <2>3. rows'[k] = row /\ \A j \in Keys \ {k} : rows'[j] = rows[j]
    BY <1>0, <2>1 DEF StoreInv, StoreTypeOK
  <2>4. Cleared(p)' /\ \A q \in Procs \ {p} : SameRequest(q)
    BY <2>2 DEF Cleared, SameRequest
  <2>5. ~Live(k) /\ rows[k] # Deleted
    BY SMTT(60), <1>0 DEF Live, NoRow, Deleted
  <2>6. RowsKept
    BY <2>3, <2>5 DEF RowsKept, Past, Live
  <2>7. ASSUME NEW j \in Keys PROVE ScopedChange(j) /\ AuditedChange(j)
    <3>1. CASE j # k
      <4>1. rows'[j] = rows[j]
        BY <2>3, <3>1
      <4>2. Event("none", j, "none", "none", 0).key = j
        BY DEF Event
      <4> QED  BY <4>1, <4>2 DEF ScopedChange, AuditedChange
    <3>2. CASE j = k
      <4>1. row.role # "platform" /\ row.tenant = req[p].who.tenant
        BY <1>0 DEF IsAssignableViaAPI
      <4>2. ScopedChange(k)
        BY <1>0, <2>2, <2>3, <4>1 DEF ScopedChange
      <4>3. e.key = k /\ e.to = row.role /\ e.secret = row.secret
        BY DEF Event
      <4>4. AuditedChange(k)
        BY SMTT(60), <2>2, <2>3, <4>3 DEF AuditedChange
      <4> QED  BY <3>2, <4>2, <4>4
    <3> QED  BY <3>1, <3>2
  <2> QED  BY <1>0, <2>4, <2>6, <2>7, OthersCleared DEF Accountable
<1> QED  BY <1>1, <1>2

\* A commit keeps the invariant when the rows it changes stay in their tenants
\* or are removed.
LEMMA CommitAccountInv ==
  ASSUME StoreInv, AccountInv, NEW p \in Procs, NEW newRows, NEW changed, NEW events,
         Commit(p, newRows, changed, events), issued' \in Nat,
         \A k \in Keys : \/ newRows[k] = rows[k]
                         \/ newRows[k] = Deleted
                         \/ newRows[k].secret # 0 /\ newRows[k].tenant = rows[k].tenant /\ Live(k)
  PROVE  AccountInv'
<1>1. RowsKept
  BY DEF RowsKept, Past, Live, Commit, Deleted, NoRow
<1> QED  BY <1>1, CommitRequests, OthersCleared

\* A commit is accountable when its caller may change the rows it changes, and
\* its events name the new values.
LEMMA CommitAccountable ==
  ASSUME StoreInv, NEW p \in Procs, NEW newRows, NEW changed, NEW events,
         Commit(p, newRows, changed, events), req[p].pc # "flush",
         NEW k \in Keys,
         newRows[k] # rows[k] =>
           /\ \/ /\ req[p].who.tenant = rows[k].tenant
                 /\ AtLeast(req[p].who.role, "admin") \/ req[p].who.key = k
              \/ AtLeast(req[p].who.role, "platform") /\ newRows[k] = Deleted
           /\ newRows[k].role = "platform" => rows[k].role = "platform"
           /\ newRows[k].secret # 0 =>
                \E e \in events : /\ e.key = k
                                  /\ e.to = newRows[k].role \/ newRows[k].role = rows[k].role
                                  /\ \/ e.secret = newRows[k].secret
                                     \/ newRows[k].secret = rows[k].secret
  PROVE  ScopedChange(k) /\ AuditedChange(k)
<1>1. req'[p].pc = "flush" /\ req'[p].events = events /\ rows' = newRows
  BY CommitRequests
<1>2. ScopedChange(k)
  BY <1>1 DEF ScopedChange
<1>3. CASE newRows[k] = rows[k]
  <2>1. Event("none", k, "none", "none", 0).key = k
    BY DEF Event
  <2> QED  BY <1>1, <1>2, <1>3, <2>1 DEF AuditedChange
<1>4. CASE newRows[k] # rows[k]
  BY <1>1, <1>2, <1>4 DEF AuditedChange
<1> QED  BY <1>3, <1>4

\* A role change, by an admin of the key's tenant.
LEMMA RoleAccountable ==
  ASSUME StoreInv, AccountInv, NEW p \in Procs,
         WriteRole(p) \/ \E k \in Keys, r \in AskedRoles : UpdateAPIKeyRole(p, k, r)
  PROVE  AccountInv' /\ Accountable
<1>0. issued' \in Nat /\ req[p].pc # "flush"
  BY DEF AccountInv, WriteRole, UpdateAPIKeyRole, RoleRequest, Authorized
<1>1. ASSUME NEW k \in Keys, NEW r, NEW prev,
             Commit(p, WithRole(k, r), {k}, RoleChanged(k, prev, r)),
             AtLeast(req[p].who.role, "admin"), IsAssignableViaAPI(r), Past(k, req[p].who.tenant)
      PROVE  AccountInv' /\ Accountable
  <2> PICK new : new = WithRole(k, r)
    OBVIOUS
  <2>1. CASE ~Live(k)
    <3>1. new = rows
      BY <2>1 DEF WithRole
    <3>2. AccountInv'
      BY <1>0, <1>1, <3>1, CommitAccountInv
    <3>3. ASSUME NEW j \in Keys PROVE ScopedChange(j) /\ AuditedChange(j)
      BY <1>0, <1>1, <3>1, CommitAccountable
    <3> QED  BY <3>2, <3>3 DEF Accountable
  <2>2. CASE Live(k)
    <3>1. new = [rows EXCEPT ![k].role = r] /\ rows[k].tenant = req[p].who.tenant
      BY <1>1, <2>2 DEF WithRole, Past, Live, Deleted, NoRow
    <3>2. \A j \in Keys \ {k} : new[j] = rows[j]
      BY <3>1 DEF StoreInv, StoreTypeOK
    <3>3. new[k] = [rows[k] EXCEPT !.role = r]
      BY <3>1 DEF StoreInv, StoreTypeOK
    <3>4. new[k].secret = rows[k].secret /\ new[k].tenant = rows[k].tenant
      BY SMTT(60), <3>3
    <3>5. new[k].role = r \/ new[k] = rows[k]
      BY SMTT(60), <3>3
    <3>6. AccountInv'
      BY SMTT(60), <1>0, <1>1, <2>2, <3>2, <3>4, CommitAccountInv DEF Live
    <3>7. ASSUME NEW j \in Keys PROVE ScopedChange(j) /\ AuditedChange(j)
      <4>1. Event("role_changed", k, prev, r, 0) \in RoleChanged(k, prev, r)
        BY DEF RoleChanged
      <4>2. /\ Event("role_changed", k, prev, r, 0).key = k
            /\ Event("role_changed", k, prev, r, 0).to = r
        BY DEF Event
      <4>3. r # "platform"
        BY <1>1 DEF IsAssignableViaAPI
      <4>4. new[j] # rows[j] => j = k /\ new[k].role = r
        BY <3>2, <3>5
      <4>5. Commit(p, new, {k}, RoleChanged(k, prev, r))
        BY <1>1
      <4>6. new[j] # rows[j] =>
              /\ req[p].who.tenant = rows[j].tenant /\ AtLeast(req[p].who.role, "admin")
              /\ new[j].role # "platform"
              /\ \E e \in RoleChanged(k, prev, r) : /\ e.key = j /\ e.to = new[j].role
                                                   /\ new[j].secret = rows[j].secret
        BY <1>1, <3>1, <3>4, <4>1, <4>2, <4>3, <4>4
      <4> QED  BY <1>0, <4>5, <4>6, CommitAccountable
    <3> QED  BY <3>6, <3>7 DEF Accountable
  <2> QED  BY <2>1, <2>2
<1>2. CASE WriteRole(p)
  <2>1. /\ AtLeast(req[p].who.role, "admin") /\ IsAssignableViaAPI(req[p].role)
        /\ req[p].key \in Keys /\ Past(req[p].key, req[p].who.tenant)
    BY <1>2 DEF AccountInv, Cleared, WriteRole
  <2>2. Commit(p, WithRole(req[p].key, req[p].role), {req[p].key},
               RoleChanged(req[p].key, req[p].prev, req[p].role))
    BY <1>2 DEF WriteRole
  <2> QED  BY <1>1, <2>1, <2>2
<1>3. ASSUME NEW k \in Keys, NEW r \in AskedRoles, UpdateAPIKeyRole(p, k, r)
      PROVE  AccountInv' /\ Accountable
  <2>1. AtLeast(req[p].who.role, "admin") /\ IsAssignableViaAPI(r) /\ Past(k, req[p].who.tenant)
    BY <1>3 DEF UpdateAPIKeyRole, RoleRequest, Authorized, Floor, Owned, Past
  <2>2. Commit(p, WithRole(k, r), {k}, RoleChanged(k, rows[k].role, r))
    BY <1>3 DEF UpdateAPIKeyRole
  <2> QED  BY <1>1, <2>1, <2>2
<1> QED  BY <1>2, <1>3

\* A rotation, by an admin of the key's tenant or with the key itself.
LEMMA RotateAccountable ==
  ASSUME StoreInv, AccountInv, NEW p \in Procs, NEW k, RotateAPIKey(p, k),
         req[p].pc = "handler", AtLeast(req[p].who.role, "admin") \/ req[p].who.key = k
  PROVE  AccountInv' /\ Accountable
<1> PICK new : new = Rotated(k, issued + 1)
  OBVIOUS
<1> PICK e : e = Event("rotated", k, "none", "none", issued + 1)
  OBVIOUS
<1>0. /\ k \in Keys /\ Live(k) /\ rows[k].tenant = req[p].who.tenant
      /\ issued + 1 # 0 /\ issued' \in Nat
      /\ Commit(p, new, {k}, {e})
  BY SMTT(60) DEF RotateAPIKey, Owned, AccountInv
<1>1. \A j \in Keys \ {k} : new[j] = rows[j]
  BY DEF StoreInv, StoreTypeOK, Rotated
<1>2. new[k] = [rows[k] EXCEPT !.secret = issued + 1]
  BY <1>0 DEF StoreInv, StoreTypeOK, Rotated
<1>3. /\ new[k].tenant = rows[k].tenant /\ new[k].role = rows[k].role
      /\ new[k].secret = issued + 1 \/ new[k] = rows[k]
  <2>1. new[k].tenant = rows[k].tenant
    BY ONLY <1>2
  <2>3. new[k].role = rows[k].role
    BY ONLY <1>2
  <2>2. new[k].secret = issued + 1 \/ new[k] = rows[k]
    BY ONLY <1>2
  <2> QED  BY <2>1, <2>2, <2>3
<1>4. AccountInv'
  BY <1>0, <1>1, <1>3, CommitAccountInv
<1>5. e.key = k /\ e.secret = issued + 1
  BY DEF Event
<1>6. ASSUME NEW j \in Keys PROVE ScopedChange(j) /\ AuditedChange(j)
  BY SMTT(60), <1>0, <1>1, <1>3, <1>5, CommitAccountable
<1> QED  BY <1>4, <1>6 DEF Accountable

\* A deletion, by an admin of the key's tenant.
LEMMA DeleteAccountable ==
  ASSUME StoreInv, AccountInv, NEW p \in Procs, NEW k \in Keys, DeleteAPIKey(p, k)
  PROVE  AccountInv' /\ Accountable
<1> PICK new : new = [rows EXCEPT ![k] = Deleted]
  OBVIOUS
<1>0. /\ rows[k].tenant = req[p].who.tenant /\ AtLeast(req[p].who.role, "admin")
      /\ req[p].pc = "handler" /\ issued' \in Nat
      /\ Commit(p, new, {k}, {Event("deleted", k, "none", "none", 0)})
  BY DEF DeleteAPIKey, RemoveAPIKey, Owned, Authorized, Floor, AccountInv
<1>1. new[k] = Deleted /\ \A j \in Keys \ {k} : new[j] = rows[j]
  BY DEF StoreInv, StoreTypeOK
<1>2. Deleted.role # "platform" /\ Deleted.secret = 0
  BY DEF Deleted, NoRow
<1>3. AccountInv'
  BY <1>0, <1>1, CommitAccountInv
<1>4. ASSUME NEW j \in Keys PROVE ScopedChange(j) /\ AuditedChange(j)
  <2>1. new[j] # rows[j] => /\ req[p].who.tenant = rows[j].tenant
                            /\ new[j].role # "platform" /\ new[j].secret = 0
    BY <1>0, <1>1, <1>2
  <2> QED  BY <1>0, <2>1, CommitAccountable
<1> QED  BY <1>3, <1>4 DEF Accountable

\* The removal of a tenant, by the platform role.
LEMMA TenantAccountable ==
  ASSUME StoreInv, AccountInv, NEW p \in Procs, NEW t \in Tenants, DeleteTenant(p, t)
  PROVE  AccountInv' /\ Accountable
<1> PICK gone : gone = {k \in Keys : Live(k) /\ rows[k].tenant = t}
  OBVIOUS
<1> PICK new : new = [k \in Keys |-> IF k \in gone THEN Deleted ELSE rows[k]]
  OBVIOUS
<1>0. /\ AtLeast(req[p].who.role, "platform") /\ req[p].pc = "handler" /\ issued' \in Nat
      /\ Commit(p, new, gone, {Event("tenant_deleted", 0, "none", "none", 0)})
  BY DEF DeleteTenant, RemoveTenant, Authorized, Floor, AccountInv
<1>1. \A j \in Keys : new[j] = rows[j] \/ new[j] = Deleted
  OBVIOUS
<1>2. Deleted.role # "platform" /\ Deleted.secret = 0
  BY DEF Deleted, NoRow
<1>3. AccountInv'
  BY <1>0, <1>1, CommitAccountInv
<1>4. ASSUME NEW j \in Keys PROVE ScopedChange(j) /\ AuditedChange(j)
  BY <1>0, <1>1, <1>2, CommitAccountable
<1> QED  BY <1>3, <1>4 DEF Accountable

\* The transaction of a bulk rotation: every row it finds was one of the tenant's
\* and has an event, which gets the new secret.
LEMMA BulkAccountable ==
  ASSUME StoreInv, AccountInv, NEW p \in Procs, BulkCommit(p)
  PROVE  AccountInv' /\ Accountable
<1> PICK found : found = {k \in Keys : req[p].fresh[k] # 0 /\ Live(k)}
  OBVIOUS
<1> PICK events : events = {[e EXCEPT !.secret = req[p].fresh[e.key]] :
                              e \in {e \in req[p].events : e.key \in found}}
  OBVIOUS
<1> PICK new : new = BulkRows(p, found)
  OBVIOUS
<1>0. /\ req[p].pc = "tx" /\ issued' \in Nat /\ Commit(p, new, found, events)
      /\ AtLeast(req[p].who.role, "admin")
  BY DEF BulkCommit, AccountInv, Cleared
<1>1. \A k \in Keys \ found : new[k] = rows[k]
  BY DEF BulkRows
<1>2. ASSUME NEW k \in found
      PROVE  /\ k \in Keys /\ Live(k) /\ rows[k].tenant = req[p].who.tenant
             /\ new[k].tenant = rows[k].tenant /\ new[k].role = rows[k].role
             /\ new[k].secret # 0
             /\ \/ new[k] = rows[k]
                \/ \E e \in events : e.key = k /\ e.secret = new[k].secret
  <2> PICK e : e = Event("rotated", k, "none", "none", 0)
    OBVIOUS
  <2> PICK s : s = req[p].fresh[k]
    OBVIOUS
  <2>1. k \in Keys /\ s # 0 /\ Live(k)
    OBVIOUS
  <2>2. Past(k, req[p].who.tenant) /\ e \in req[p].events
    BY <1>0, <2>1 DEF AccountInv, Cleared
  <2>3. rows[k].tenant = req[p].who.tenant
    BY <2>1, <2>2 DEF Past, Live, Deleted, NoRow
  <2>4. new[k] = [rows[k] EXCEPT !.secret = s]
    BY <2>1 DEF BulkRows
  <2>5. new[k].tenant = rows[k].tenant
    BY ONLY <2>4
  <2>6. new[k].role = rows[k].role
    BY ONLY <2>4
  <2>7. new[k].secret = s \/ new[k] = rows[k]
    BY ONLY <2>4
  <2>8. e.key = k /\ [e EXCEPT !.secret = s].key = k /\ [e EXCEPT !.secret = s].secret = s
    BY DEF Event
  <2>9. [e EXCEPT !.secret = s] \in events
    <3>1. e \in {x \in req[p].events : x.key \in found}
      BY <2>2, <2>8
    <3> QED  BY <2>8, <3>1
  <2>10. \E x \in events : x.key = k /\ x.secret = s
    BY <2>8, <2>9
  <2>11. new[k].secret # 0
    BY <2>1, <2>7 DEF Live
  <2> QED  BY <2>1, <2>3, <2>5, <2>6, <2>7, <2>10, <2>11
<1>3. AccountInv'
  BY SMTT(60), <1>0, <1>1, <1>2, CommitAccountInv
<1>4. ASSUME NEW j \in Keys PROVE ScopedChange(j) /\ AuditedChange(j)
  <2>1. new[j] # rows[j] =>
          /\ req[p].who.tenant = rows[j].tenant /\ new[j].role = rows[j].role
          /\ \E e \in events : e.key = j /\ e.secret = new[j].secret
    BY <1>1, <1>2
  <2> QED  BY SMTT(60), <1>0, <2>1, CommitAccountable
<1> QED  BY <1>3, <1>4 DEF Accountable

\* The first halves clear the request for the second.
LEMMA FirstHalfAccountable ==
  ASSUME StoreInv, AccountInv, NEW p \in Procs,
         \/ \E t \in Tenants, r \in AskedRoles : CreateAPIKey(p, t, r)
         \/ \E k \in Keys, r \in AskedRoles : ReadRole(p, k, r)
         \/ \E t \in Tenants, self \in BOOLEAN : BulkRead(p, t, self)
  PROVE  AccountInv' /\ Accountable
<1>0. /\ req = [q \in Procs |-> req[q]] /\ DOMAIN req[p] = Fields /\ UNCHANGED rows
      /\ issued \in Nat
  BY DEF StoreInv, StoreTypeOK, AccountInv, CreateAPIKey, ReadRole, BulkRead
<1>1. ASSUME issued' \in Nat, Cleared(p)', \A q \in Procs \ {p} : req'[q] = req[q]
      PROVE  AccountInv' /\ Accountable
  <2>1. \A q \in Procs \ {p} : SameRequest(q)
    BY <1>1 DEF SameRequest
  <2> QED  BY <1>0, <1>1, <2>1, QuietAccountable, OthersCleared
<1>2. ASSUME NEW t \in Tenants, NEW r \in AskedRoles, CreateAPIKey(p, t, r)
      PROVE  AccountInv' /\ Accountable
  <2>1. PICK k \in Keys : req' = [req EXCEPT ![p].pc = "insert", ![p].key = k, ![p].role = r,
                                             ![p].fresh[k] = issued + 1]
    BY <1>2 DEF CreateAPIKey
  <2>2. /\ \A q \in Procs \ {p} : req'[q] = req[q]
        /\ req'[p].pc = "insert" /\ req'[p].role = r /\ req'[p].who = req[p].who
    BY <1>0, <2>1 DEF Fields
  <2>3. AtLeast(req[p].who.role, "admin") /\ IsAssignableViaAPI(r) /\ issued' \in Nat
    <3>1. AtLeast(req[p].who.role, "admin") /\ IsAssignableViaAPI(r)
      BY <1>2 DEF CreateAPIKey, Authorized, Floor
    <3>2. issued' = issued + 1
      BY <1>2 DEF CreateAPIKey
    <3> QED  BY SMTT(60), <1>0, <3>1, <3>2
  <2>4. Cleared(p)'
    BY <2>2, <2>3 DEF Cleared
  <2> QED  BY <1>1, <2>2, <2>3, <2>4
<1>3. ASSUME NEW k \in Keys, NEW r \in AskedRoles, ReadRole(p, k, r)
      PROVE  AccountInv' /\ Accountable
  <2>1. /\ \A q \in Procs \ {p} : req'[q] = req[q]
        /\ req'[p].pc = "update" /\ req'[p].role = r /\ req'[p].who = req[p].who
        /\ req'[p].key = k
    BY <1>0, <1>3 DEF ReadRole, Fields
  <2>2. /\ AtLeast(req[p].who.role, "admin") /\ IsAssignableViaAPI(r) /\ issued' \in Nat
        /\ Live(k) /\ rows[k].tenant = req[p].who.tenant
    BY <1>0, <1>3 DEF ReadRole, RoleRequest, Owned, Authorized, Floor
  <2>3. Cleared(p)'
    BY <1>0, <2>1, <2>2 DEF Cleared, Past, Live
  <2> QED  BY <1>1, <2>1, <2>2, <2>3
<1>4. ASSUME NEW t \in Tenants, NEW self \in BOOLEAN, BulkRead(p, t, self)
      PROVE  AccountInv' /\ Accountable
  <2> PICK keys : keys = BulkKeys(t, IF self THEN {req[p].who.key} ELSE {})
    OBVIOUS
  <2> PICK events : events = {Event("rotated", k, "none", "none", 0) : k \in keys}
    OBVIOUS
  <2>1. /\ req' = [req EXCEPT ![p].pc = "tx", ![p].fresh = NumberedFrom(keys, issued),
                              ![p].events = events]
        /\ issued' = issued + Cardinality(keys)
        /\ AtLeast(req[p].who.role, "admin") /\ t = req[p].who.tenant
    BY <1>4 DEF BulkRead, BulkRequest, EnsureOwnTenant, Authorized, Floor
  <2>2. /\ \A q \in Procs \ {p} : req'[q] = req[q]
        /\ req'[p].pc = "tx" /\ req'[p].who = req[p].who
        /\ req'[p].fresh = NumberedFrom(keys, issued) /\ req'[p].events = events
    BY <1>0, <2>1 DEF Fields
  <2>3. \A k \in keys : k \in Keys /\ Live(k) /\ rows[k].tenant = t
    BY DEF BulkKeys
  <2>4. \A k \in Keys : req'[p].fresh[k] # 0 => k \in keys
    BY <2>2 DEF NumberedFrom
  <2>5. issued' \in Nat
    <3>1. IsFiniteSet(keys)
      BY <2>3, StoreAssumption, FS_Subset
    <3> QED  BY SMTT(60), <1>0, <2>1, <3>1, FS_CardinalityType
  <2>6. \A k \in Keys : req'[p].fresh[k] # 0 =>
          /\ Live(k) /\ rows[k].tenant = req[p].who.tenant
          /\ Event("rotated", k, "none", "none", 0) \in events
    BY <2>1, <2>3, <2>4
  <2>7. Cleared(p)'
    BY SMTT(60), <1>0, <2>1, <2>2, <2>6 DEF Cleared, Past, Live
  <2> QED  BY <1>1, <2>2, <2>5, <2>7
<1> QED  BY <1>2, <1>3, <1>4

\* Every step keeps the invariant and is accountable.
LEMMA NextAccountable ==
  ASSUME StoreInv, AccountInv, [StoreNext]_storeVars PROVE AccountInv' /\ Accountable
<1>1. CASE UNCHANGED storeVars
  <2>1. \A q \in Procs : SameRequest(q)
    BY <1>1 DEF storeVars, SameRequest
  <2> QED  BY <1>1, <2>1, QuietAccountable, ClearedKept DEF storeVars, AccountInv
<1>2. CASE CacheExpire
  <2>1. UNCHANGED <<rows, issued>> /\ \A q \in Procs : SameRequest(q)
    BY <1>2 DEF CacheExpire, SameRequest
  <2> QED  BY <2>1, QuietAccountable, ClearedKept DEF AccountInv
<1>3. ASSUME NEW p \in Procs, NEW s \in 1..issued, Present(p, s) PROVE AccountInv' /\ Accountable
  <2> PICK x : x = IF CacheGet(s) = {} THEN [Idle EXCEPT !.pc = "select", !.cred = s]
                   ELSE [Idle EXCEPT !.pc = "handler",
                                     !.who = (CHOOSE e \in CacheGet(s) : TRUE).who]
    OBVIOUS
  <2>1. req' = [req EXCEPT ![p] = x] /\ UNCHANGED <<rows, issued>>
    BY <1>3 DEF Present
  <2>2. x.pc \in {"select", "handler"}
    BY DEF Idle
  <2> QED  BY <2>1, <2>2, QuietStep DEF AccountInv
<1>4. ASSUME NEW p \in Procs,
             SelectCandidates(p) \/ CacheSet(p) \/ Finish(p) \/ Invalidate(p) \/ Record(p)
               \/ (\E t \in Tenants : CreateTenant(p, t)) \/ BulkRollback(p)
      PROVE  AccountInv' /\ Accountable
  <2>0. DOMAIN req[p] = Fields /\ req = [q \in Procs |-> req[q]]
    BY DEF StoreInv, StoreTypeOK
  <2> PICK x : x = req'[p]
    OBVIOUS
  <2>1. UNCHANGED <<rows, issued>>
    BY <1>4 DEF SelectCandidates, CacheSet, Finish, Invalidate, Record, CreateTenant, BulkRollback
  <2>2. req' = [req EXCEPT ![p] = x] /\ x.pc \notin {"insert", "update", "tx"}
    <3>1. CASE SelectCandidates(p)
      BY <2>0, <3>1, IdleShape DEF SelectCandidates, Fields
    <3>2. CASE CacheSet(p)
      BY <2>0, <3>2 DEF CacheSet, Fields
    <3>3. CASE Invalidate(p)
      BY <2>0, <3>3 DEF Invalidate, Fields
    <3>4. CASE Finish(p) \/ Record(p) \/ BulkRollback(p)
      BY <2>0, <3>4, IdleShape DEF Finish, Record, BulkRollback
    <3>5. ASSUME NEW t \in Tenants, CreateTenant(p, t)
          PROVE  req' = [req EXCEPT ![p] = x] /\ x.pc \notin {"insert", "update", "tx"}
      <4>1. req' = [req EXCEPT ![p] = [Idle EXCEPT !.pc = "audit", !.events =
                               {Event("tenant_created", 0, "none", "none", 0)}]]
        BY <3>5 DEF CreateTenant
      <4> QED  BY <2>0, <4>1 DEF Idle
    <3> QED  BY <1>4, <3>1, <3>2, <3>3, <3>4, <3>5
  <2> QED  BY <2>1, <2>2, QuietStep DEF AccountInv
<1>5. ASSUME NEW p \in Procs,
             \/ \E t \in Tenants, r \in AskedRoles : CreateAPIKey(p, t, r)
             \/ InsertAPIKey(p)
             \/ \E k \in Keys, r \in AskedRoles : ReadRole(p, k, r)
             \/ \E t \in Tenants, self \in BOOLEAN : BulkRead(p, t, self)
      PROVE  AccountInv' /\ Accountable
  BY <1>5, FirstHalfAccountable, InsertAccountable
<1>6. ASSUME NEW p \in Procs, \E k \in Keys : Rotate(p, k)
      PROVE  AccountInv' /\ Accountable
  BY <1>6, RotateAccountable DEF Rotate, Authorized, Floor
<1>7. ASSUME NEW p \in Procs, RotateMyAPIKey(p) \/ BurnMyAPIKey(p)
      PROVE  AccountInv' /\ Accountable
  BY <1>7, RotateAccountable DEF RotateMyAPIKey, BurnMyAPIKey, Authorized
<1>8. ASSUME NEW p \in Procs,
             \/ \E t \in Tenants : DeleteTenant(p, t)
             \/ WriteRole(p) \/ \E k \in Keys, r \in AskedRoles : UpdateAPIKeyRole(p, k, r)
             \/ \E k \in Keys : DeleteAPIKey(p, k)
             \/ BulkCommit(p)
      PROVE  AccountInv' /\ Accountable
  BY <1>8, TenantAccountable, RoleAccountable, DeleteAccountable, BulkAccountable
<1> QED  BY <1>1, <1>2, <1>3, <1>4, <1>5, <1>6, <1>7, <1>8 DEF StoreNext

\* Every change of a key is made on behalf of an admin of its tenant, of the key
\* itself or of the platform role, creates no platform key, and leaves an audit
\* event with the new value, however requests interleave (tenancy_handlers.go,
\* store.go).
THEOREM MutationsAlwaysAccountable == StoreSpec => MutationsAccountable
<1>1. StoreInit => AccountInv
  <2>1. StoreInit => issued \in Nat
    BY StoreAssumption DEF StoreInit
  <2>2. StoreInit => \A p \in Procs : Cleared(p)
    BY IdleShape DEF StoreInit, Cleared
  <2> QED  BY <2>1, <2>2 DEF AccountInv
<1>2. StoreInv /\ AccountInv /\ [StoreNext]_storeVars =>
        AccountInv' /\ [\A k \in Keys : ScopedChange(k) /\ AuditedChange(k)]_storeVars
  BY NextAccountable DEF Accountable
<1> QED  BY <1>1, <1>2, StoreInvariant, PTL DEF StoreSpec, MutationsAccountable

-----------------------------------------------------------------------------
(* Single sign-on.                                                           *)

\* The type of the state.
SsoTypeOK ==
  /\ tenantLive \subseteq MappedTenants
  /\ users \subseteq [email : DOMAIN DomainMap, tenant : MappedTenants]
  /\ sessions \subseteq [token : Nat, email : DOMAIN DomainMap, tenant : MappedTenants,
                         expired : BOOLEAN]
  /\ flows \in Nat
  /\ tokens \in Nat
  /\ jar \in [Browsers -> [state : Nat, session : Nat]]
  /\ cb \in [Browsers -> [pc : {"none", "lookup", "provision", "session"},
                          email : DOMAIN DomainMap \cup {NoMail}]]
  /\ ended \subseteq Nat

\* A callback past the mapping of its domain has a mapped email.
CallbacksMapped == \A b \in Browsers : cb[b].pc # "none" => cb[b].email \in DOMAIN DomainMap

\* A user is in the tenant of the email's domain, which exists; emails are unique.
UsersMapped ==
  /\ \A u \in users : u.tenant = DomainMap[u.email] /\ u.tenant \in tenantLive
  /\ \A u, v \in users : u.email = v.email => u = v

\* A session is that of a user, in the user's tenant.
SessionsOwned ==
  \A s \in sessions : /\ s.tenant = DomainMap[s.email]
                      /\ \E u \in users : u.email = s.email

\* Tokens are not handed out twice, and an expired session counts as ended.
TokensFresh ==
  /\ \A s \in sessions : s.token <= tokens /\ (s.expired => s.token \in ended)
  /\ \A s, u \in sessions : s.token = u.token => s = u
  /\ \A b \in Browsers : jar[b].session <= tokens

\* What a browser's cookie is good for.
CookieGood(b) ==
  jar[b].session # 0 => /\ \A c \in Browsers \ {b} : jar[c].session # jar[b].session
                        /\ Resolves(jar[b].session) \/ jar[b].session \in ended

\* The inductive invariant.
SsoInv ==
  /\ SsoTypeOK
  /\ CallbacksMapped
  /\ UsersMapped
  /\ SessionsOwned
  /\ TokensFresh
  /\ \A b \in Browsers : CookieGood(b)

\* Before the first login the invariant holds.
LEMMA InitSsoInv == SsoInit => SsoInv
<1> SUFFICES ASSUME SsoInit PROVE SsoInv
  OBVIOUS
<1>1. SsoTypeOK
  BY DEF SsoInit, SsoTypeOK, NoCallback
<1>2. CallbacksMapped /\ UsersMapped /\ SessionsOwned
  BY DEF SsoInit, NoCallback, CallbacksMapped, UsersMapped, SessionsOwned
<1>3. TokensFresh /\ \A b \in Browsers : CookieGood(b)
  BY SMTT(60) DEF SsoInit, TokensFresh, CookieGood
<1> QED  BY <1>1, <1>2, <1>3 DEF SsoInv

\* The steps that touch neither users nor sessions nor session cookies.
LEMMA FlowSsoInv ==
  ASSUME SsoInv, NEW b \in Browsers,
         Login(b) \/ GetUserByEmail(b) \/ \E state \in 0..MaxFlows : Callback(b, state)
  PROVE  SsoInv'
<1>0. SsoTypeOK /\ CallbacksMapped
  BY DEF SsoInv
<1>1. UNCHANGED <<tenantLive, users, sessions, tokens, ended>>
  BY DEF Login, GetUserByEmail, Callback
<1>2. /\ flows' \in Nat
      /\ jar' \in [Browsers -> [state : Nat, session : Nat]]
      /\ \A c \in Browsers : jar'[c].session = jar[c].session
  BY SMTT(60), <1>0 DEF SsoTypeOK, Login, GetUserByEmail, Callback
<1>3. /\ cb' \in [Browsers -> [pc : {"none", "lookup", "provision", "session"},
                               email : DOMAIN DomainMap \cup {NoMail}]]
      /\ CallbacksMapped'
  <2>1. CASE Login(b)
    BY <1>0, <2>1 DEF SsoTypeOK, CallbacksMapped, Login
  <2>2. CASE GetUserByEmail(b)
    BY <1>0, <2>2 DEF SsoTypeOK, CallbacksMapped, GetUserByEmail
  <2>3. ASSUME NEW state \in 0..MaxFlows, Callback(b, state)
        PROVE  \/ cb' = cb
               \/ \E email \in DOMAIN DomainMap :
                    cb' = [cb EXCEPT ![b] = [pc |-> "lookup", email |-> email]]
               \/ cb' = [cb EXCEPT ![b] = NoCallback]
    BY <2>3 DEF Callback
  <2> QED  BY SMTT(60), <1>0, <2>1, <2>2, <2>3 DEF SsoTypeOK, CallbacksMapped, NoCallback
<1>4. SsoTypeOK'
  BY <1>0, <1>1, <1>2, <1>3 DEF SsoTypeOK
<1>5. UsersMapped' /\ SessionsOwned' /\ TokensFresh'
  BY <1>1, <1>2 DEF SsoInv, UsersMapped, SessionsOwned, TokensFresh
<1>6. ASSUME NEW c \in Browsers PROVE CookieGood(c)'
  BY <1>1, <1>2 DEF SsoInv, CookieGood, Resolves
<1> QED  BY <1>3, <1>4, <1>5, <1>6 DEF SsoInv

\* The first login of an email provisions its user, or fails on the conflict.
LEMMA CreateUserSsoInv == ASSUME SsoInv, NEW b \in Browsers, CreateUser(b) PROVE SsoInv'
<1> DEFINE email == cb[b].email
<1>0. SsoTypeOK /\ email \in DOMAIN DomainMap
  BY DEF SsoInv, CallbacksMapped, CreateUser
<1>1. UNCHANGED <<tenantLive, sessions, flows, tokens, jar, ended>>
  BY DEF CreateUser
<1>2. CASE Provisionable(email)
  <2>1. /\ users' = users \cup {[email |-> email, tenant |-> DomainMap[email]]}
        /\ cb' = [cb EXCEPT ![b] = [cb[b] EXCEPT !.pc = "session"]]
    BY <1>2 DEF CreateUser
  <2>2. DomainMap[email] \in tenantLive /\ \A u \in users : u.email # email
    BY <1>2 DEF Provisionable, UserOf
  <2>3. SsoTypeOK' /\ CallbacksMapped'
    BY SMTT(60), <1>0, <1>1, <2>1, <2>2 DEF SsoInv, SsoTypeOK, CallbacksMapped
  <2>4. UsersMapped' /\ SessionsOwned'
    BY SMTT(60), <1>1, <2>1, <2>2 DEF SsoInv, UsersMapped, SessionsOwned
  <2>5. TokensFresh' /\ \A c \in Browsers : CookieGood(c)'
    BY <1>1 DEF SsoInv, TokensFresh, CookieGood, Resolves
  <2> QED  BY <2>3, <2>4, <2>5 DEF SsoInv
<1>3. CASE ~Provisionable(email)
  <2>1. users' = users /\ cb' = [cb EXCEPT ![b] = NoCallback]
    BY <1>3 DEF CreateUser
  <2>2. SsoTypeOK' /\ CallbacksMapped'
    BY <1>0, <1>1, <2>1 DEF SsoInv, SsoTypeOK, CallbacksMapped, NoCallback
  <2>3. UsersMapped' /\ SessionsOwned' /\ TokensFresh' /\ \A c \in Browsers : CookieGood(c)'
    BY <1>1, <2>1 DEF SsoInv, UsersMapped, SessionsOwned, TokensFresh, CookieGood, Resolves
  <2> QED  BY <2>2, <2>3 DEF SsoInv
<1> QED  BY <1>2, <1>3

\* The session is stored under a fresh token, unless the user is gone.
LEMMA CreateSessionSsoInv == ASSUME SsoInv, NEW b \in Browsers, CreateSession(b) PROVE SsoInv'
<1> DEFINE email == cb[b].email
           s == [token |-> tokens + 1, email |-> email, tenant |-> DomainMap[email],
                 expired |-> FALSE]
<1>0. SsoTypeOK /\ email \in DOMAIN DomainMap /\ DomainMap[email] \in MappedTenants
  BY DEF SsoInv, CallbacksMapped, CreateSession, MappedTenants
<1>1. UNCHANGED <<tenantLive, users, flows, ended>> /\ cb' = [cb EXCEPT ![b] = NoCallback]
  BY DEF CreateSession
<1>2. CASE UserOf(email) # {}
  <2>1. /\ tokens' = tokens + 1
        /\ sessions' = sessions \cup {s}
        /\ jar' = [jar EXCEPT ![b].session = tokens + 1]
    BY <1>2 DEF CreateSession
  <2>2. /\ s \in [token : Nat, email : DOMAIN DomainMap, tenant : MappedTenants,
                  expired : BOOLEAN]
        /\ s.token = tokens + 1 /\ s.email = email /\ s.tenant = DomainMap[email] /\ ~s.expired
    BY SMTT(60), <1>0 DEF SsoTypeOK
  <2>3. /\ jar' \in [Browsers -> [state : Nat, session : Nat]]
        /\ \A c \in Browsers : jar'[c].session = IF c = b THEN tokens + 1 ELSE jar[c].session
    BY SMTT(60), <1>0, <2>1 DEF SsoTypeOK
  <2> HIDE DEF s
  <2>4. SsoTypeOK'
    <3>1. cb' \in [Browsers -> [pc : {"none", "lookup", "provision", "session"},
                                email : DOMAIN DomainMap \cup {NoMail}]]
      BY <1>0, <1>1 DEF SsoTypeOK, NoCallback
    <3> QED  BY <1>0, <1>1, <2>1, <2>2, <2>3, <3>1 DEF SsoTypeOK
  <2>5. CallbacksMapped'
    BY <1>0, <1>1 DEF SsoInv, SsoTypeOK, CallbacksMapped, NoCallback
  <2>6. UsersMapped' /\ SessionsOwned'
    BY SMTT(60), <1>1, <1>2, <2>1, <2>2 DEF SsoInv, UsersMapped, SessionsOwned, UserOf
  <2>7. TokensFresh'
    <3>1. tokens \in Nat /\ \A u \in sessions : u.token \in Nat /\ u.token <= tokens
      BY <1>0 DEF SsoInv, SsoTypeOK, TokensFresh
    <3>2. \A u \in sessions' : u.token <= tokens' /\ (u.expired => u.token \in ended')
      BY SMTT(60), <1>1, <2>1, <2>2, <3>1 DEF SsoInv, TokensFresh
    <3>3. \A u, v \in sessions' : u.token = v.token => u = v
      BY SMTT(60), <2>1, <2>2, <3>1 DEF SsoInv, TokensFresh
    <3>4. \A c \in Browsers : jar'[c].session <= tokens'
      BY SMTT(60), <1>0, <2>1, <2>3 DEF SsoInv, SsoTypeOK, TokensFresh
    <3> QED  BY <3>2, <3>3, <3>4 DEF TokensFresh
  <2>8. ASSUME NEW c \in Browsers PROVE CookieGood(c)'
    <3>1. tokens \in Nat /\ \A a \in Browsers : jar[a].session \in Nat /\ jar[a].session <= tokens
      BY <1>0 DEF SsoInv, SsoTypeOK, TokensFresh
    <3>2. \A a \in Browsers \ {b} : jar'[a].session # tokens + 1 /\ jar'[a].session = jar[a].session
      BY SMTT(60), <2>3, <3>1
    <3>3. \A n : Resolves(n) => Resolves(n)'
      BY <2>1 DEF Resolves
    <3>4. \E u \in sessions' : u.token = tokens + 1 /\ ~u.expired
      BY <2>1, <2>2
    <3>5. CASE c = b
      BY <2>3, <3>2, <3>4, <3>5 DEF CookieGood, Resolves
    <3>6. CASE c # b
      BY <1>1, <2>3, <3>2, <3>3, <3>6 DEF SsoInv, CookieGood
    <3> QED  BY <3>5, <3>6
  <2> QED  BY <2>4, <2>5, <2>6, <2>7, <2>8 DEF SsoInv
<1>3. CASE UserOf(email) = {}
  <2>1. UNCHANGED <<tokens, sessions, jar>>
    BY <1>3 DEF CreateSession
  <2>2. SsoTypeOK' /\ CallbacksMapped'
    BY <1>0, <1>1, <2>1 DEF SsoInv, SsoTypeOK, CallbacksMapped, NoCallback
  <2>3. UsersMapped' /\ SessionsOwned' /\ TokensFresh' /\ \A c \in Browsers : CookieGood(c)'
    BY <1>1, <2>1 DEF SsoInv, UsersMapped, SessionsOwned, TokensFresh, CookieGood, Resolves
  <2> QED  BY <2>2, <2>3 DEF SsoInv
<1> QED  BY <1>2, <1>3

\* Logging out removes the session of the browser's own cookie and no other's.
LEMMA LogoutSsoInv == ASSUME SsoInv, NEW b \in Browsers, Logout(b) PROVE SsoInv'
<1>0. SsoTypeOK /\ UNCHANGED <<tenantLive, users, flows, tokens, cb, ended>>
  BY DEF SsoInv, Logout
<1>1. /\ jar[b].session # 0
      /\ sessions' = {s \in sessions : s.token # jar[b].session}
      /\ jar' = [jar EXCEPT ![b].session = 0]
  BY DEF Logout
<1>2. SsoTypeOK' /\ CallbacksMapped'
  BY <1>0, <1>1 DEF SsoInv, SsoTypeOK, CallbacksMapped
<1>3. UsersMapped' /\ SessionsOwned' /\ TokensFresh'
  BY SMTT(60), <1>0, <1>1 DEF SsoInv, SsoTypeOK, UsersMapped, SessionsOwned, TokensFresh
<1>4. ASSUME NEW c \in Browsers PROVE CookieGood(c)'
  BY SMTT(60), <1>0, <1>1 DEF SsoInv, SsoTypeOK, CookieGood, Resolves
<1> QED  BY <1>2, <1>3, <1>4 DEF SsoInv

\* A session expires.
LEMMA ExpireSsoInv == ASSUME SsoInv, Expire PROVE SsoInv'
<1>0. SsoTypeOK /\ UNCHANGED <<tenantLive, users, flows, tokens, jar, cb>>
  BY DEF SsoInv, Expire
<1>1. PICK s \in sessions : /\ sessions' = (sessions \ {s}) \cup {[s EXCEPT !.expired = TRUE]}
                            /\ ended' = ended \cup {s.token}
  BY DEF Expire
<1> DEFINE x == [s EXCEPT !.expired = TRUE]
<1>2. /\ x \in [token : Nat, email : DOMAIN DomainMap, tenant : MappedTenants, expired : BOOLEAN]
      /\ x.token = s.token /\ x.email = s.email /\ x.tenant = s.tenant /\ x.expired
      /\ s.token \in Nat
  BY <1>0 DEF SsoTypeOK
<1> HIDE DEF x
<1>3. sessions' = (sessions \ {s}) \cup {x}
  BY <1>1 DEF x
<1>4. SsoTypeOK' /\ CallbacksMapped'
  BY <1>0, <1>1, <1>2, <1>3 DEF SsoInv, SsoTypeOK, CallbacksMapped
<1>5. UsersMapped' /\ SessionsOwned' /\ TokensFresh'
  BY SMTT(60), <1>0, <1>1, <1>2, <1>3 DEF SsoInv, UsersMapped, SessionsOwned, TokensFresh
<1>6. ASSUME NEW c \in Browsers PROVE CookieGood(c)'
  BY <1>0, <1>1, <1>2, <1>3 DEF SsoInv, TokensFresh, CookieGood, Resolves
<1> QED  BY <1>4, <1>5, <1>6 DEF SsoInv

\* The lazy removal of an expired session.
LEMMA ResolveExpiredSsoInv ==
  ASSUME SsoInv, NEW token \in 1..MaxTokens, ResolveExpired(token) PROVE SsoInv'
<1>0. SsoTypeOK /\ UNCHANGED <<tenantLive, users, flows, tokens, jar, cb, ended>>
  BY DEF SsoInv, ResolveExpired
<1>1. /\ \E s \in sessions : s.token = token /\ s.expired
      /\ sessions' = {s \in sessions : s.token # token}
  BY DEF ResolveExpired
<1>2. SsoTypeOK' /\ CallbacksMapped'
  BY <1>0, <1>1 DEF SsoInv, SsoTypeOK, CallbacksMapped
<1>3. UsersMapped' /\ SessionsOwned' /\ TokensFresh'
  BY <1>0, <1>1 DEF SsoInv, UsersMapped, SessionsOwned, TokensFresh
<1>4. ASSUME NEW c \in Browsers PROVE CookieGood(c)'
  BY <1>0, <1>1 DEF SsoInv, TokensFresh, CookieGood, Resolves
<1> QED  BY <1>2, <1>3, <1>4 DEF SsoInv

\* The cascade of a tenant's deletion takes its users and their sessions.
LEMMA CascadeTenantSsoInv ==
  ASSUME SsoInv, NEW t \in MappedTenants, CascadeTenant(t) PROVE SsoInv'
<1>0. SsoTypeOK /\ UNCHANGED <<flows, tokens, jar, cb>>
  BY DEF SsoInv, CascadeTenant
<1>1. /\ tenantLive' = tenantLive \ {t}
      /\ users' = {u \in users : u.tenant # t}
      /\ sessions' = {s \in sessions : s.tenant # t}
  BY DEF CascadeTenant
<1>2. ended' = ended \cup {s.token : s \in sessions \ sessions'}
  BY DEF CascadeTenant
<1>3. SsoTypeOK' /\ CallbacksMapped'
  BY <1>0, <1>1, <1>2 DEF SsoInv, SsoTypeOK, CallbacksMapped
<1>4. UsersMapped' /\ SessionsOwned' /\ TokensFresh'
  BY SMTT(60), <1>0, <1>1, <1>2 DEF SsoInv, UsersMapped, SessionsOwned, TokensFresh
<1>5. ASSUME NEW c \in Browsers PROVE CookieGood(c)'
  BY <1>0, <1>1, <1>2 DEF SsoInv, TokensFresh, CookieGood, Resolves
<1> QED  BY <1>3, <1>4, <1>5 DEF SsoInv

\* Every step preserves the invariant.
LEMMA NextSsoInv == SsoInv /\ [SsoNext]_ssoVars => SsoInv'
<1> SUFFICES ASSUME SsoInv, [SsoNext]_ssoVars PROVE SsoInv'
  OBVIOUS
<1>1. CASE UNCHANGED ssoVars
  BY <1>1 DEF ssoVars, SsoInv, SsoTypeOK, CallbacksMapped, UsersMapped, SessionsOwned, TokensFresh,
              CookieGood, Resolves
<1>2. CASE SsoNext
  BY <1>2, FlowSsoInv, CreateUserSsoInv, CreateSessionSsoInv, LogoutSsoInv, ExpireSsoInv,
     ResolveExpiredSsoInv, CascadeTenantSsoInv DEF SsoNext
<1> QED  BY <1>1, <1>2

\* Whatever logins race, an email has one user, a session is that of a user of
\* an existing tenant, and the cookie a login left resolves until its session
\* expires or its tenant goes (oidc_handlers.go, identity_sqlite.go).
THEOREM SessionsAlwaysSound == SsoSpec => []SessionsSound
<1>1. SsoInit => SsoInv
  BY InitSsoInv
<1>2. SsoInv /\ [SsoNext]_ssoVars => SsoInv'
  BY NextSsoInv
<1>3. SsoInv => SessionsSound
  <2> SUFFICES ASSUME SsoInv PROVE SessionsSound
    OBVIOUS
  <2>1. \A s \in sessions : \E u \in users : /\ u.email = s.email /\ u.tenant = s.tenant
                                             /\ u.tenant \in tenantLive
    BY SMTT(60) DEF SsoInv, UsersMapped, SessionsOwned
  <2> QED  BY <2>1 DEF SsoInv, UsersMapped, CookieGood, SessionsSound
<1> QED  BY <1>1, <1>2, <1>3, PTL DEF SsoSpec
=============================================================================
