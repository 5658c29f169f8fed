----------------------------- MODULE AgentRegistry -----------------------------
(***************************************************************************)
(* The agent registry (internal/engine/agent_registry.go) and the lookups  *)
(* requests make in it, including Engine.resolveAgentForTenant.            *)
(*                                                                         *)
(* Every method runs under the registry's lock, so each is one step.  A    *)
(* definition is a pointer: two definitions that agree on owner, name and  *)
(* model are told apart by `ver`, as the code tells them apart by          *)
(* comparing pointers.  Names are numbers, ordered as the code orders      *)
(* strings.                                                                *)
(***************************************************************************)
EXTENDS Integers, FiniteSets

CONSTANTS Owners,    \* tenant ids, Global included
          Global,    \* the empty tenant id
          Names,     \* agent names
          Models,    \* model names other than the empty one
          NoModel,   \* the empty model name
          Versions,  \* distinguishes definitions with equal fields
          Files,     \* source paths
          Nil        \* nil pointer, empty path

Defs == [owner : Owners, name : Names, model : Models \cup {NoModel}, ver : Versions]

ASSUME RegistryAssumption ==
  /\ Global \in Owners
  /\ Names \subseteq Int
  /\ \A S \in SUBSET Names : S # {} => \E n \in S : \A m \in S : n <= m
  /\ NoModel \notin Models
  /\ Nil \notin Files
  /\ Nil \notin Defs

VARIABLES agents,         \* owner, name -> definition
          byModel,        \* model -> most recently registered definition
          byModelTenant,  \* model, owner -> definition with the least name
          sources         \* owner, name -> backing file

registryVars == <<agents, byModel, byModelTenant, sources>>

RegistryInit ==
  /\ agents = [o \in Owners |-> [n \in Names |-> Nil]]
  /\ byModel = [m \in Models |-> Nil]
  /\ byModelTenant = [m \in Models |-> [o \in Owners |-> Nil]]
  /\ sources = [o \in Owners |-> [n \in Names |-> Nil]]

-----------------------------------------------------------------------------
(* Index maintenance.                                                       *)

Declares(ag, o, m) == {n \in Names : ag[o][n] # Nil /\ ag[o][n].model = m}

LeastName(S) == CHOOSE n \in S : \A x \in S : n <= x

\* rebuildModelBucket
ModelBucket(ag, m) ==
  [o \in Owners |->
    LET S == Declares(ag, o, m)
    IN  IF S = {} THEN Nil ELSE ag[o][LeastName(S)]]

Rebuilt(ag, ms) ==
  [m \in Models |-> IF m \in ms THEN ModelBucket(ag, m) ELSE byModelTenant[m]]

\* Forget the byModel entries that still point at one of `gone`.
ByModelWithout(gone) ==
  [m \in Models |-> IF byModel[m] \in gone THEN Nil ELSE byModel[m]]

ModelsOf(defs) == {d.model : d \in defs} \cap Models

-----------------------------------------------------------------------------
(* Writers.                                                                 *)

Prev(d) == {agents[d.owner][d.name]} \ {Nil}

registerLockedStale(d) ==   \* mutant: the previous model's bucket is not rebuilt
  LET ag == [agents EXCEPT ![d.owner][d.name] = d]
      base == ByModelWithout(Prev(d))
  IN  /\ agents' = ag
      /\ byModel' = [m \in Models |-> IF m = d.model THEN d ELSE base[m]]
      /\ byModelTenant' = Rebuilt(ag, ModelsOf({d}))

registerLockedKeepsIndex(d) ==   \* mutant: the previous byModel entry stays
  LET ag == [agents EXCEPT ![d.owner][d.name] = d]
  IN  /\ agents' = ag
      /\ byModel' = [m \in Models |-> IF m = d.model THEN d ELSE byModel[m]]
      /\ byModelTenant' = Rebuilt(ag, ModelsOf({d} \cup Prev(d)))

registerLockedGlobal(d) ==   \* mutant: filed in the global bucket
  LET ag == [agents EXCEPT ![Global][d.name] = d]
      base == ByModelWithout(Prev(d))
  IN  /\ agents' = ag
      /\ byModel' = [m \in Models |-> IF m = d.model THEN d ELSE base[m]]
      /\ byModelTenant' = Rebuilt(ag, ModelsOf({d} \cup Prev(d)))

registerLocked(d) ==
  LET ag == [agents EXCEPT ![d.owner][d.name] = d]
      base == ByModelWithout(Prev(d))
  IN  /\ agents' = ag
      /\ byModel' = [m \in Models |-> IF m = d.model THEN d ELSE base[m]]
      /\ byModelTenant' = Rebuilt(ag, ModelsOf({d} \cup Prev(d)))

Register(d) == registerLocked(d) /\ UNCHANGED sources

RegisterWithSource(d, f) ==
  /\ registerLocked(d)
  /\ sources' = [sources EXCEPT ![d.owner][d.name] = f]

RemoveFrom(owners, name) ==
  LET gone == {agents[o][name] : o \in owners} \ {Nil}
      ag == [o \in Owners |-> [n \in Names |->
               IF o \in owners /\ n = name THEN Nil ELSE agents[o][n]]]
  IN  /\ gone # {}
      /\ agents' = ag
      /\ byModel' = ByModelWithout(gone)
      /\ byModelTenant' = Rebuilt(ag, ModelsOf(gone))

RemoveSources(owners, name) ==
  sources' = [o \in Owners |-> [n \in Names |->
                IF o \in owners /\ n = name THEN Nil ELSE sources[o][n]]]

\* Remove(name) sweeps every owner's bucket.
Remove(name) == RemoveFrom(Owners, name) /\ RemoveSources(Owners, name)

RemoveForTenantKeepsSource(name, o) ==   \* mutant: the source entry survives
  RemoveFrom({o}, name) /\ UNCHANGED sources

RemoveForTenant(name, o) == RemoveFrom({o}, name) /\ RemoveSources({o}, name)

RegistryNext ==
  \/ \E d \in Defs : Register(d) \/ \E f \in Files : RegisterWithSource(d, f)
  \/ \E n \in Names : Remove(n) \/ \E o \in Owners : RemoveForTenant(n, o)

RegistrySpec == RegistryInit /\ [][RegistryNext]_registryVars

-----------------------------------------------------------------------------
(* Readers.                                                                 *)

GetOwnedForTenant(name, t) == agents[t][name]

GetForTenant(name, t) ==
  IF agents[t][name] # Nil THEN agents[t][name] ELSE agents[Global][name]

GetByModel(m) == byModel[m]

GetByModelForTenantAny(m, t) ==   \* mutant: the tenant-agnostic index is read
  byModel[m]

GetByModelForTenant(m, t) ==
  IF byModelTenant[m][t] # Nil THEN byModelTenant[m][t] ELSE byModelTenant[m][Global]

\* ListForTenant, through mergedForTenantLocked
ListForTenant(t) == {GetForTenant(n, t) : n \in Names} \ {Nil}

\* List: every definition of every owner
List == {agents[o][n] : o \in Owners, n \in Names} \ {Nil}

\* Engine.resolveAgentForTenant; an absent agent name or model is Nil.
resolveAgentForTenant(name, model, t) ==
  LET named == IF name = Nil THEN Nil ELSE GetForTenant(name, t)
      byMod == IF model = Nil THEN Nil ELSE GetByModelForTenant(model, t)
      all   == ListForTenant(Global)
  IN  IF named # Nil THEN named
      ELSE IF byMod # Nil THEN byMod
      ELSE IF t = Global /\ Cardinality(all) = 1 THEN CHOOSE d \in all : TRUE
      ELSE Nil

-----------------------------------------------------------------------------
(* Properties.                                                              *)

\* Type invariant; a definition is filed under its own owner and name.
RegistryTypeOK ==
  /\ agents \in [Owners -> [Names -> Defs \cup {Nil}]]
  /\ \A o \in Owners, n \in Names :
       agents[o][n] # Nil => agents[o][n].owner = o /\ agents[o][n].name = n
  /\ byModel \in [Models -> Defs \cup {Nil}]
  /\ byModelTenant \in [Models -> [Owners -> Defs \cup {Nil}]]
  /\ sources \in [Owners -> [Names -> Files \cup {Nil}]]

\* What a scan of all agents says the index should hold: per model and owner
\* the registered definition with the least name, or none.
IsIndexOf(index, ag) ==
  \A m \in Models, o \in Owners :
    LET S == Declares(ag, o, m)
    IN  IF S = {} THEN index[m][o] = Nil
        ELSE \E n \in S : index[m][o] = ag[o][n] /\ \A x \in S : n <= x

\* The incrementally maintained byModelTenant index always says what a scan
\* of all agents would say (PERF-01, F-AR-002), whatever was replaced, moved
\* to another model or removed.
IndexExact == IsIndexOf(byModelTenant, agents)

\* A byModel entry always points at a definition that is still registered
\* and still declares that model ("stale model mappings never leak").
NoStaleModelMapping ==
  \A m \in Models : byModel[m] # Nil =>
    byModel[m].model = m /\ agents[byModel[m].owner][byModel[m].name] = byModel[m]

\* A source path is remembered only for a registered agent, so a later
\* write or delete never targets the file of an agent that is gone
\* (FB04-01/02).
SourcesAreLive ==
  \A o \in Owners, n \in Names : sources[o][n] # Nil => agents[o][n] # Nil

\* Whatever is asked for, a request is given its own tenant's agent or a
\* global one, and one that is registered at that moment.
ResolvesWithinTenant ==
  \A t \in Owners, n \in Names \cup {Nil}, m \in Models \cup {Nil} :
    LET d == resolveAgentForTenant(n, m, t)
    IN  d # Nil => d.owner \in {t, Global} /\ d \in List

\* The registry as its readers see it: the two model indexes agree with the
\* agents, no source path survives its agent, and a request resolves to a
\* registered agent of its own tenant or a global one.
RegistryConsistent ==
  IndexExact /\ NoStaleModelMapping /\ SourcesAreLive /\ ResolvesWithinTenant

\* "when a tenant owns a name that also exists globally, the tenant's agent
\* shadows the global one for that tenant" (agent_registry.go:335-337): a
\* lookup by model returns an agent of the tenant's own listing.
ModelLookupRespectsShadowing ==
  \A t \in Owners, m \in Models :
    GetByModelForTenant(m, t) \in ListForTenant(t) \cup {Nil}
=============================================================================
