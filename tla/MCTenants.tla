------------------------------ MODULE MCTenants ------------------------------
(* Who a tenant's callers are and which agents they get.  The parts share only the
   tenants table, so `part` picks the one that runs; each deletes tenants itself.
     keys: two requests at once, a cache of one entry, and two databases: on SQLite two
       keys in one tenant, so that a bulk rotation has something to leave half done; on
       Postgres a free key and tenant id to create;
     sso: two browsers, an email of a mapped domain and one of another;
     agents: the agent registry with two owners, two names, two models and two versions:
       an owner can hold two agents of one model (the tie-break), move an agent between
       models, and share a name with the other owner.                                *)
EXTENDS AgentRegistry, TenancyStore, SsoLogin, Sequences, TLC

CONSTANTS t1, t2, t3, p1, p2, b1, b2, e1, e2, m1, m2, f1, none, nil
CONSTANT Parts

VARIABLE part

Row(t, r, s) == [tenant |-> t, role |-> r, secret |-> s]
Database(third, n, state3) ==
  [rows |-> <<Row(t1, "platform", 1), Row(t2, "admin", 2), third>>,
   tenants |-> (t1 :> "live" @@ t2 :> "live" @@ t3 :> state3), issued |-> n]

MCDatabases == {Database(Row(t2, "viewer", 3), 3, "deleted"),
                Database(Row(none, "none", 0), 4, "absent")}
MCDomainMap == e1 :> t1

mcvars == <<part, storeVars, ssoVars, registryVars>>

MCInit ==
  /\ part \in Parts
  /\ StoreInit /\ SsoInit /\ RegistryInit
  /\ (backend = "sqlite") = (issued = 3)
  /\ part # "keys" => backend = "sqlite"

MCNext ==
  /\ \/ part = "keys" /\ StoreNext /\ UNCHANGED <<ssoVars, registryVars>>
     \/ part = "sso" /\ SsoNext /\ UNCHANGED <<storeVars, registryVars>>
     \/ part = "agents" /\ RegistryNext /\ UNCHANGED <<storeVars, ssoVars>>
  /\ UNCHANGED part

MCSpec == MCInit /\ [][MCNext]_mcvars

\* Requests served at the same time are interchangeable, and so are models.
Symmetry == Permutations({p1, p2}) \cup Permutations({m1, m2})
=============================================================================
