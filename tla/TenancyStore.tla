---------------------------- MODULE TenancyStore ----------------------------
(***************************************************************************)
(* Tenants, API keys, the authentication cache and the management handlers *)
(* (internal/tenancy/store.go, postgres_store.go, auth_cache.go,           *)
(* middleware.go, internal/server/tenancy_handlers.go, audit/recorder.go). *)
(*                                                                         *)
(* A request (a member of Procs) presents a plaintext, is resolved through *)
(* the cache or the api_keys table, and then runs one handler.  A step is  *)
(* one SQL statement or transaction, or one critical section of the cache: *)
(* everything else may come in between.  A plaintext is the number under   *)
(* which it was generated; its hash matches no other.                      *)
(***************************************************************************)
EXTENDS Integers, FiniteSets

CONSTANTS Tenants,      \* tenant ids, those of tenants yet to be created included
          Keys,         \* API key ids 1..n, handed out in order
          Procs,        \* requests served at the same time
          AskedRoles,   \* the roles a client asks for
          MaxSecret,    \* bound on generated plaintexts
          CacheSize,    \* capacity of the authentication cache
          Databases,    \* what the database may hold when the server starts
          NoTenant

\* The database has a row for every key id, NoRow for those yet to be created;
\* there are finitely many, and somebody may call.
ASSUME StoreAssumption ==
    /\ \A db \in Databases : db.rows = [k \in Keys |-> db.rows[k]] /\ db.issued \in Nat
    /\ IsFiniteSet(Keys)
    /\ Procs # {}

VARIABLES backend,      \* "sqlite" (one connection) or "postgres" (a pool)
          tenants,      \* tenant id -> "absent", "live" or "deleted"
          rows,         \* key id -> its api_keys row
          issued,       \* number of plaintexts generated
          cache,        \* the cache entries, at most one for a plaintext
          req           \* the requests being served
storeVars == <<backend, tenants, rows, issued, cache, req>>

\* Role, rank, AtLeast, IsValid, IsAssignableViaAPI
Rank == [viewer |-> 1, editor |-> 2, admin |-> 3, platform |-> 4]
rank(r) == IF r \in DOMAIN Rank THEN Rank[r] ELSE -1
AtLeast(r, required) == rank(r) >= rank(required) /\ rank(required) > 0
IsValid(r) == rank(r) > 0
IsAssignableViaAPI(r) == IsValid(r) /\ r # "platform"

\* The role floor of each management route (managementRouteFloors)
Floor == [createTenant |-> "platform", deleteTenant |-> "platform",
          createKey |-> "admin", bulkRotate |-> "admin", updateRole |-> "admin",
          rotate |-> "admin", rotateMine |-> "viewer", burnMine |-> "viewer",
          delete |-> "admin"]

NoRow == [tenant |-> NoTenant, role |-> "none", secret |-> 0]
NoOne == [tenant |-> NoTenant, key |-> 0, role |-> "none"]
Deleted == [NoRow EXCEPT !.role = "deleted"]
PrincipalOf(k) == [tenant |-> rows[k].tenant, key |-> k, role |-> rows[k].role]
Live(k) == rows[k].secret # 0
Idle == [pc |-> "idle", cred |-> 0, who |-> NoOne, key |-> 0, role |-> "none",
         prev |-> "none", fresh |-> [k \in Keys |-> 0], events |-> {}, late |-> FALSE]

\* bootstrapTenancy has run: some tenant is there and has a platform key
StoreInit ==
    /\ backend \in {"sqlite", "postgres"}
    /\ \E db \in Databases : rows = db.rows /\ tenants = db.tenants /\ issued = db.issued
    /\ cache = {}
    /\ req = [p \in Procs |-> Idle]

(***************************************************************************)
(* Resolving a key                                                         *)
(***************************************************************************)
\* authCache.Get
CacheGet(s) == {e \in cache : e.secret = s}
\* The rows with the plaintext's prefix whose hash matches it
Matching(s) == {k \in Keys : Live(k) /\ rows[k].secret = s}
\* Resolve, up to the SELECT: a cache hit yields the cached principal
Present(p, s) ==
    /\ req[p].pc = "idle"
    /\ LET hit == CacheGet(s) IN
       req' = [req EXCEPT ![p] =
                 IF hit = {} THEN [Idle EXCEPT !.pc = "select", !.cred = s]
                 ELSE [Idle EXCEPT !.pc = "handler",
                                   !.who = (CHOOSE e \in hit : TRUE).who]]
    /\ UNCHANGED <<backend, tenants, rows, issued, cache>>

\* The SELECT by prefix and the comparison of hashes; a miss is a 401
SelectCandidates(p) ==
    /\ req[p].pc = "select"
    /\ LET match == Matching(req[p].cred) IN
       req' = [req EXCEPT ![p] =
                 IF match = {} THEN Idle
                 ELSE [@ EXCEPT !.pc = "set",
                                !.who = PrincipalOf(CHOOSE k \in match : TRUE)]]
    /\ UNCHANGED <<backend, tenants, rows, issued, cache>>

\* evictOneLocked: some entry goes when a new one comes to a full cache
Evicted(s) ==
    IF (\E e \in cache : e.secret = s) \/ Cardinality(cache) < CacheSize
    THEN {cache} ELSE {cache \ {e} : e \in cache}
\* authCache.Set, the end of Resolve.  The last_used column, which Resolve also
\* writes and nothing but the key listing reads, is left out of the rows.
CacheSet(p) ==
    /\ req[p].pc = "set"
    /\ \E kept \in Evicted(req[p].cred) :
         cache' = {e \in kept : e.secret # req[p].cred}
                    \cup {[secret |-> req[p].cred, who |-> req[p].who, late |-> req[p].late]}
    /\ req' = [req EXCEPT ![p].pc = "handler", ![p].cred = 0, ![p].late = FALSE]
    /\ UNCHANGED <<backend, tenants, rows, issued>>

\* The TTL of an entry has passed (authCache.Get, evictOneLocked drop it)
CacheExpire ==
    /\ \E e \in cache : cache' = cache \ {e}
    /\ UNCHANGED <<backend, tenants, rows, issued, req>>

(***************************************************************************)
(* The handlers.  A request whose role is below the floor of its route, a  *)
(* refused role, another tenant's id and an unknown key all end without a  *)
(* change (Finish).                                                        *)
(***************************************************************************)
Authorized(p, op) == req[p].pc = "handler" /\ AtLeast(req[p].who.role, Floor[op])
\* ensureOwnTenant: the tenant in the path is the caller's own
EnsureOwnTenant(p, t) == t = req[p].who.tenant
\* What the store sees of a caller's key id: only rows of the caller's tenant
OwnedAnywhere(p, k) == k \in Keys /\ Live(k) \* mutant: the WHERE clause lost tenant_id
Owned(p, k) == k \in Keys /\ Live(k) /\ rows[k].tenant = req[p].who.tenant

\* A committed mutation outdates what another request has read: the row of a
\* resolution that is about to be cached, or, between the two statements of a role
\* change, the role about to be reported as the previous one
Outdates(newRows, changed, q) ==
    \/ req[q].pc = "set" /\ req[q].who.key \in changed
    \/ /\ req[q].pc = "update" /\ req[q].key \in changed
       /\ newRows[req[q].key].secret = 0 \/ newRows[req[q].key].role # rows[req[q].key].role
Late(newRows, changed) ==
    [q \in Procs |-> IF Outdates(newRows, changed, q) THEN [req[q] EXCEPT !.late = TRUE] ELSE req[q]]
\* A committed mutation of the rows `changed': the cache is flushed next,
\* then the audit events are appended
Commit(p, newRows, changed, events) ==
    /\ rows' = newRows
    /\ req' = [Late(newRows, changed) EXCEPT ![p] = [Idle EXCEPT !.pc = "flush", !.who = req[p].who,
                                                        !.events = events]]
Event(kind, k, from, to, secret) ==
    [kind |-> kind, key |-> k, from |-> from, to |-> to, secret |-> secret]

\* authCache.Invalidate, the end of every mutation of a key
Invalidate(p) ==
    /\ req[p].pc = "flush"
    /\ cache' = {}
    /\ req' = [req EXCEPT ![p].pc = "audit"]
    /\ UNCHANGED <<backend, tenants, rows, issued>>
\* RecordHTTP for every event.  The audit table is only written here, and a
\* failed Append is swallowed, so the step leaves nothing behind.
Record(p) ==
    /\ req[p].pc = "audit"
    /\ req' = [req EXCEPT ![p] = Idle]
    /\ UNCHANGED <<backend, tenants, rows, issued, cache>>

\* A read (ListTenants, ListAPIKeys), or a request one of the guards refuses
Finish(p) ==
    /\ req[p].pc = "handler"
    /\ req' = [req EXCEPT ![p] = Idle]
    /\ UNCHANGED <<backend, tenants, rows, issued, cache>>

\* The store's CreateTenant: a fresh id (a name already taken is a conflict)
InsertTenant(t) == tenants[t] = "absent" /\ tenants' = [tenants EXCEPT ![t] = "live"]
CreateTenant(p, t) ==
    /\ Authorized(p, "createTenant")
    /\ InsertTenant(t)
    /\ req' = [req EXCEPT ![p] = [Idle EXCEPT !.pc = "audit", !.events =
                               {Event("tenant_created", 0, "none", "none", 0)}]]
    /\ UNCHANGED <<backend, rows, issued, cache>>

\* The store's DeleteTenant: the foreign key removes the tenant's keys with it
RemoveTenant(p, t) ==
    /\ tenants[t] = "live"
    /\ tenants' = [tenants EXCEPT ![t] = "deleted"]
    /\ LET gone == {k \in Keys : Live(k) /\ rows[k].tenant = t} IN
       Commit(p, [k \in Keys |-> IF k \in gone THEN Deleted ELSE rows[k]], gone,
              {Event("tenant_deleted", 0, "none", "none", 0)})
DeleteTenantUnflushed(p, t) ==   \* mutant: the cascade without Invalidate
    /\ Authorized(p, "deleteTenant")
    /\ tenants[t] = "live"
    /\ tenants' = [tenants EXCEPT ![t] = "deleted"]
    /\ rows' = [k \in Keys |-> IF rows[k].tenant = t THEN Deleted ELSE rows[k]]
    /\ req' = [req EXCEPT ![p] = [Idle EXCEPT !.pc = "audit"]]
    /\ UNCHANGED <<backend, issued, cache>>
DeleteTenant(p, t) ==
    /\ Authorized(p, "deleteTenant") /\ RemoveTenant(p, t)
    /\ UNCHANGED <<backend, issued, cache>>

\* CreateAPIKey, first the lookup of the tenant and the generation of the key...
CreateAPIKey(p, t, r) ==
    /\ Authorized(p, "createKey") /\ EnsureOwnTenant(p, t)
    /\ IsAssignableViaAPI(r)
    /\ tenants[t] = "live"
    /\ issued < MaxSecret
    /\ issued' = issued + 1
    /\ \E k \in Keys :
         /\ rows[k] = NoRow /\ \A q \in Procs : req[q].key # k
         /\ \A j \in 1..(k - 1) : rows[j] # NoRow \/ \E q \in Procs : req[q].key = j
         /\ req' = [req EXCEPT ![p].pc = "insert", ![p].key = k, ![p].role = r,
                               ![p].fresh[k] = issued + 1]
    /\ UNCHANGED <<backend, tenants, rows, cache>>
\* ...then the INSERT, which the foreign key refuses once the tenant is gone
InsertAPIKey(p) ==
    /\ req[p].pc = "insert"
    /\ LET k == req[p].key
           t == req[p].who.tenant
           row == [tenant |-> t, role |-> req[p].role, secret |-> req[p].fresh[k]]
       IN IF tenants[t] = "live"
          THEN /\ rows' = [rows EXCEPT ![k] = row]
               /\ req' = [req EXCEPT ![p] = [Idle EXCEPT !.pc = "audit", !.events =
                            {Event("created", k, "none", row.role, row.secret)}]]
          ELSE rows' = rows /\ req' = [req EXCEPT ![p] = Idle]
    /\ UNCHANGED <<backend, tenants, issued, cache>>

\* The handler UpdateAPIKeyRole lets a request for a role through
RoleRequest(p, k, r) == Authorized(p, "updateRole") /\ IsAssignableViaAPI(r) /\ Owned(p, k)
\* SQLiteStore.UpdateAPIKeyRole: the SELECT of the previous role...
ReadRole(p, k, r) ==
    /\ backend = "sqlite"
    /\ RoleRequest(p, k, r)
    /\ req' = [req EXCEPT ![p].pc = "update", ![p].key = k, ![p].role = r,
                          ![p].prev = rows[k].role]
    /\ UNCHANGED <<backend, tenants, rows, issued, cache>>
\* The event a role change is recorded with: the role found, the role given
RoleChanged(k, from, to) ==
    {Event("role_changed", k, from, to, 0)}
WithRole(k, r) == IF Live(k) THEN [rows EXCEPT ![k].role = r] ELSE rows
\* ...and the UPDATE; whether it found a row is not looked at
WriteRole(p) ==
    /\ req[p].pc = "update"
    /\ LET k == req[p].key IN
       Commit(p, WithRole(k, req[p].role), {k}, RoleChanged(k, req[p].prev, req[p].role))
    /\ UNCHANGED <<backend, tenants, issued, cache>>
\* PostgresStore.UpdateAPIKeyRole: SELECT ... FOR UPDATE and UPDATE, one transaction
UpdateRoleUnlocked(p, k, r) ==   \* mutant: the SELECT without FOR UPDATE
    /\ backend = "postgres"
    /\ RoleRequest(p, k, r)
    /\ req' = [req EXCEPT ![p].pc = "update", ![p].key = k, ![p].role = r,
                          ![p].prev = rows[k].role]
    /\ UNCHANGED <<backend, tenants, rows, issued, cache>>
UpdateAPIKeyRole(p, k, r) ==
    /\ backend = "postgres"
    /\ RoleRequest(p, k, r)
    /\ Commit(p, WithRole(k, r), {k}, RoleChanged(k, rows[k].role, r))
    /\ UNCHANGED <<backend, tenants, issued, cache>>

\* RotateAPIKey: one transaction reads the row and replaces its secret
Rotated(k, s) == [rows EXCEPT ![k].secret = s]
RotateAPIKey(p, k) ==
    /\ Owned(p, k)
    /\ issued < MaxSecret
    /\ issued' = issued + 1
    /\ Commit(p, Rotated(k, issued + 1), {k}, {Event("rotated", k, "none", "none", issued + 1)})
    /\ UNCHANGED <<backend, tenants, cache>>
Rotate(p, k) == Authorized(p, "rotate") /\ RotateAPIKey(p, k)
\* RotateMyAPIKey: whatever the role, the caller's own key
RotateMyAPIKey(p) == Authorized(p, "rotateMine") /\ RotateAPIKey(p, req[p].who.key)
\* BurnMyAPIKey: the same, and nobody is told the new plaintext
BurnUnrecorded(p) ==   \* mutant: a discarded plaintext is not recorded either
    /\ Authorized(p, "burnMine") /\ Owned(p, req[p].who.key) /\ issued < MaxSecret
    /\ issued' = issued + 1
    /\ Commit(p, Rotated(req[p].who.key, issued + 1), {req[p].who.key}, {})
    /\ UNCHANGED <<backend, tenants, cache>>
BurnMyAPIKey(p) == Authorized(p, "burnMine") /\ RotateAPIKey(p, req[p].who.key)

\* BulkRotateTenantKeys reads the tenant's keys (but the excluded one) and
\* hashes a fresh secret for each, outside the transaction...
BulkRequest(p, t) == Authorized(p, "bulkRotate") /\ EnsureOwnTenant(p, t)
BulkKeys(t, excluded) == {k \in Keys : Live(k) /\ rows[k].tenant = t} \ excluded
NumberedFrom(keys, n) ==
    [k \in Keys |-> IF k \in keys THEN n + Cardinality({j \in keys : j <= k}) ELSE 0]
BulkRead(p, t, exceptSelf) ==
    /\ BulkRequest(p, t)
    /\ tenants[t] = "live"
    /\ LET keys == BulkKeys(t, IF exceptSelf THEN {req[p].who.key} ELSE {})
       IN /\ keys # {}
          /\ issued + Cardinality(keys) <= MaxSecret
          /\ issued' = issued + Cardinality(keys)
          /\ req' = [req EXCEPT ![p].pc = "tx", ![p].fresh = NumberedFrom(keys, issued),
                       ![p].events = {Event("rotated", k, "none", "none", 0) : k \in keys}]
    /\ UNCHANGED <<backend, tenants, rows, cache>>
\* ...and one transaction updates the rows that are still there.  An error
\* rolls it back.
BulkRows(p, found) == [k \in Keys |-> IF k \in found
    THEN [rows[k] EXCEPT !.secret = req[p].fresh[k]] ELSE rows[k]]
BulkCommit(p) ==
    /\ req[p].pc = "tx"
    /\ LET found == {k \in Keys : req[p].fresh[k] # 0 /\ Live(k)} IN
       Commit(p, BulkRows(p, found), found,
              {[e EXCEPT !.secret = req[p].fresh[e.key]] :
                 e \in {e \in req[p].events : e.key \in found}})
    /\ UNCHANGED <<backend, tenants, issued, cache>>
BulkRollback(p) ==
    /\ req[p].pc = "tx"
    /\ req' = [req EXCEPT ![p] = Idle]
    /\ UNCHANGED <<backend, tenants, rows, issued, cache>>

\* DeleteAPIKey: the handler, and the store's DELETE
RemoveAPIKey(p, k) ==
    /\ Owned(p, k)
    /\ Commit(p, [rows EXCEPT ![k] = Deleted], {k}, {Event("deleted", k, "none", "none", 0)})
DeleteAPIKey(p, k) ==
    /\ Authorized(p, "delete") /\ RemoveAPIKey(p, k)
    /\ UNCHANGED <<backend, tenants, issued, cache>>

StoreNext ==
    \/ CacheExpire
    \/ \E p \in Procs :
        \/ \E s \in 1..issued : Present(p, s)
        \/ SelectCandidates(p) \/ CacheSet(p)
        \/ Finish(p) \/ Invalidate(p) \/ Record(p)
        \/ \E t \in Tenants : CreateTenant(p, t) \/ DeleteTenant(p, t)
        \/ \E t \in Tenants, r \in AskedRoles : CreateAPIKey(p, t, r)
        \/ InsertAPIKey(p)
        \/ \E k \in Keys, r \in AskedRoles : ReadRole(p, k, r) \/ UpdateAPIKeyRole(p, k, r)
        \/ WriteRole(p)
        \/ \E k \in Keys : Rotate(p, k) \/ DeleteAPIKey(p, k)
        \/ RotateMyAPIKey(p) \/ BurnMyAPIKey(p)
        \/ \E t \in Tenants, self \in BOOLEAN : BulkRead(p, t, self)
        \/ BulkCommit(p) \/ BulkRollback(p)
StoreSpec == StoreInit /\ [][StoreNext]_storeVars

(***************************************************************************)
(* Properties                                                              *)
(***************************************************************************)
\* A cached principal is what the table says
Agrees(e) == /\ Live(e.who.key) /\ rows[e.who.key].secret = e.secret
             /\ PrincipalOf(e.who.key) = e.who
Flushing == \E p \in Procs : req[p].pc = "flush"
\* Every mutation of a key (delete, role change, rotations, the cascade of a
\* tenant) reaches the cache: outside the gap between a commit and its
\* Invalidate, what the cache answers is what the database holds, except for
\* an entry stored by a resolution that had read its row before the change.
CacheCurrent == \A e \in cache : Agrees(e) \/ e.late \/ Flushing
\* auth_cache.go, Invalidate: "so stale privileges can never outlive the change
\* even by the TTL".  Once the flush is done no entry disagrees with the table.
NoStalePrivilege == \A e \in cache : Agrees(e) \/ Flushing

\* A role changes, a secret is replaced and a row is removed only on behalf of
\* an admin of the same tenant, of the key itself (rotation) or of the platform
\* role (removal of the tenant); and no request creates a platform key.
ScopedChange(k) ==
    LET before == rows[k]
        after == rows'[k]
    IN before # after =>
         \E p \in Procs :
            /\ req'[p].pc \in {"flush", "audit"} /\ req[p].pc # req'[p].pc
            /\ \/ /\ req[p].who.tenant \in {before.tenant, after.tenant}
                  /\ AtLeast(req[p].who.role, "admin") \/ req[p].who.key = k
               \/ AtLeast(req[p].who.role, "platform") /\ after = Deleted
            /\ after.role = "platform" => before.role = "platform"

\* The audit trail misses nothing: the step that gives a key a role or a secret
\* leaves its request with an event that names the key and the new value.
AuditedChange(k) ==
    rows'[k].secret # 0 =>
      \E p \in Procs : \E e \in req'[p].events \cup {Event("none", k, "none", "none", 0)} :
         /\ e.key = k
         /\ e.to = rows'[k].role \/ rows'[k].role = rows[k].role
         /\ e.secret = rows'[k].secret \/ rows'[k].secret = rows[k].secret

\* Every change of a key is made on behalf of someone who may make it, and is
\* recorded with what it changed.
MutationsAccountable == [][\A k \in Keys : ScopedChange(k) /\ AuditedChange(k)]_storeVars

\* The transition a role change reports
Reported(p) == {e \in req'[p].events : req'[p].pc = "flush" /\ req[p].pc # "flush"
                                        /\ e.kind = "role_changed"}
\* The audited transition is the one that happened: the role reported as previous
\* is the one the change replaces, whatever rotations, deletions and other role
\* changes run beside it.  The one exception is on SQLite, where nothing is locked
\* between the SELECT and the UPDATE (store.go:428-430 says otherwise): another
\* change of this key's role, or its removal, committed there.
TransitionExactUnlessRaced ==
    [][\A p \in Procs : \A e \in Reported(p) :
         e.from = rows[e.key].role \/ (backend = "sqlite" /\ req[p].late)]_storeVars
=============================================================================
