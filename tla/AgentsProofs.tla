------------------------------ MODULE AgentsProofs ------------------------------
(***************************************************************************)
(* The agent registry, the directory above it and the pipeline editor, for *)
(* every set of owners, names, models and files, any number of callbacks   *)
(* and API calls at once, and any number of editors and edits on disk.     *)
(***************************************************************************)
EXTENDS AgentFiles, PipelineEditor, FiniteSetTheorems, TLAPS

\* A leaf goes to Zenon unless it names another prover.
USE ZenonT(120)

-----------------------------------------------------------------------------
(* The registry.  The conjunction RegistryInv is inductive: the index needs *)
(* RegistryTypeOK (a definition is filed under its own name), the byModel   *)
(* entries need it too.  The one real argument is RebuildExact: rebuilding  *)
(* only the buckets of the models the changed definitions declare is        *)
(* enough.                                                                  *)

RegistryInv == RegistryTypeOK /\ IndexExact /\ NoStaleModelMapping /\ SourcesAreLive

Registry == [Owners -> [Names -> Defs \cup {Nil}]]

\* The scan of rebuildModelBucket finds the least name of a class.
LEMMA LeastNameLeast ==
  ASSUME NEW S \in SUBSET Names, S # {}
  PROVE  LeastName(S) \in S /\ \A x \in S : LeastName(S) <= x
BY RegistryAssumption DEF LeastName

\* A rebuilt bucket agrees with a scan of the agents.
LEMMA BucketExact ==
  ASSUME NEW ag \in Registry, NEW m \in Models, NEW o \in Owners
  PROVE  LET S == Declares(ag, o, m)
         IN  IF S = {} THEN ModelBucket(ag, m)[o] = Nil
             ELSE \E n \in S : ModelBucket(ag, m)[o] = ag[o][n] /\ \A x \in S : n <= x
<1> DEFINE S == Declares(ag, o, m)
<1>1. S \in SUBSET Names
  BY DEF Declares
<1>2. ModelBucket(ag, m)[o] = IF S = {} THEN Nil ELSE ag[o][LeastName(S)]
  BY DEF ModelBucket
<1>3. CASE S = {}
  BY <1>2, <1>3
<1>4. CASE S # {}
  <2>1. LeastName(S) \in S /\ \A x \in S : LeastName(S) <= x
    BY <1>1, <1>4, LeastNameLeast
  <2>2. ModelBucket(ag, m)[o] = ag[o][LeastName(S)]
    BY <1>2, <1>4
  <2> HIDE DEF S
  <2>3. \E n \in S : ModelBucket(ag, m)[o] = ag[o][n] /\ \A x \in S : n <= x
    BY <2>1, <2>2
  <2> QED BY <1>4, <2>3 DEF S
<1> QED BY <1>3, <1>4

\* The rebuilt buckets and the others have the index's type.
LEMMA RebuiltType ==
  ASSUME RegistryTypeOK, NEW ag \in Registry, NEW ms \in SUBSET Models
  PROVE  Rebuilt(ag, ms) \in [Models -> [Owners -> Defs \cup {Nil}]]
<1>1. ASSUME NEW m \in Models PROVE ModelBucket(ag, m) \in [Owners -> Defs \cup {Nil}]
  <2>1. ASSUME NEW o \in Owners PROVE ModelBucket(ag, m)[o] \in Defs \cup {Nil}
    <3> DEFINE S == Declares(ag, o, m)
    <3>1. S \in SUBSET Names BY DEF Declares
    <3>2. S # {} => LeastName(S) \in Names BY <3>1, LeastNameLeast
    <3>3. ModelBucket(ag, m)[o] = IF S = {} THEN Nil ELSE ag[o][LeastName(S)]
      BY DEF ModelBucket
    <3> QED BY <3>2, <3>3 DEF Registry
  <2> QED BY <2>1 DEF ModelBucket
<1> QED BY <1>1 DEF Rebuilt, RegistryTypeOK

\* If the agents that declare a model outside ms are untouched, rebuilding
\* the models of ms restores the whole index.
LEMMA RebuildExact ==
  ASSUME RegistryTypeOK, IndexExact, NEW ag \in Registry, NEW ms \in SUBSET Models,
         \A m \in Models \ ms, o \in Owners : 
            /\ Declares(ag, o, m) = Declares(agents, o, m)
            /\ \A n \in Declares(ag, o, m) : ag[o][n] = agents[o][n]
  PROVE  IsIndexOf(Rebuilt(ag, ms), ag)
<1> SUFFICES ASSUME NEW m \in Models, NEW o \in Owners
             PROVE  LET S == Declares(ag, o, m)
                    IN  IF S = {} THEN Rebuilt(ag, ms)[m][o] = Nil
                        ELSE \E n \in S : Rebuilt(ag, ms)[m][o] = ag[o][n]
                                          /\ \A x \in S : n <= x
  BY DEF IsIndexOf
<1>1. CASE m \in ms
  <2>1. Rebuilt(ag, ms)[m] = ModelBucket(ag, m)
    BY <1>1 DEF Rebuilt
  <2> QED BY <2>1, BucketExact
<1>2. CASE m \notin ms
  <2>1. Rebuilt(ag, ms)[m] = byModelTenant[m]
    BY <1>2 DEF Rebuilt
  <2>2. LET S == Declares(agents, o, m)
        IN  IF S = {} THEN byModelTenant[m][o] = Nil
            ELSE \E n \in S : byModelTenant[m][o] = agents[o][n] /\ \A x \in S : n <= x
    BY DEF IndexExact, IsIndexOf
  <2>3. /\ Declares(ag, o, m) = Declares(agents, o, m)
        /\ \A n \in Declares(ag, o, m) : ag[o][n] = agents[o][n]
    BY <1>2
  <2> QED BY <2>1, <2>2, <2>3
<1> QED BY <1>1, <1>2

\* An empty registry satisfies the invariant.
LEMMA InitRegistryInv == RegistryInit => RegistryInv
<1> SUFFICES ASSUME RegistryInit PROVE RegistryInv
  OBVIOUS
<1>1. RegistryTypeOK
  BY RegistryAssumption DEF RegistryInit, RegistryTypeOK
<1>2. IndexExact
  BY DEF RegistryInit, IndexExact, IsIndexOf, Declares
<1>3. NoStaleModelMapping /\ SourcesAreLive
  BY DEF RegistryInit, NoStaleModelMapping, SourcesAreLive
<1> QED BY <1>1, <1>2, <1>3 DEF RegistryInv

\* registerLocked keeps the agents, the two indexes and the sources' range.
LEMMA RegisterPreserves ==
  ASSUME RegistryInv, NEW d \in Defs, registerLocked(d),
         sources' \in [Owners -> [Names -> Files \cup {Nil}]]
  PROVE  RegistryTypeOK' /\ IndexExact' /\ NoStaleModelMapping'
<1>0. RegistryTypeOK /\ IndexExact /\ NoStaleModelMapping
  BY DEF RegistryInv
<1> DEFINE ag == [agents EXCEPT ![d.owner][d.name] = d]
           ms == ModelsOf({d} \cup Prev(d))
<1>d. d.owner \in Owners /\ d.name \in Names /\ d.model \in Models \cup {NoModel} /\ d # Nil
  BY RegistryAssumption DEF Defs
<1>1. ag \in Registry
  BY <1>0, <1>d DEF RegistryTypeOK, Registry
<1>2. ms \in SUBSET Models
  BY DEF ModelsOf
<1>3. agents' = ag /\ byModelTenant' = Rebuilt(ag, ms)
  BY DEF registerLocked
<1>4. byModel' = [m \in Models |-> IF m = d.model THEN d ELSE ByModelWithout(Prev(d))[m]]
  BY DEF registerLocked
<1>a. ag[d.owner][d.name] = d
  BY <1>0, <1>d DEF RegistryTypeOK
<1>b. \A o \in Owners, n \in Names : <<o, n>> # <<d.owner, d.name>> => ag[o][n] = agents[o][n]
  BY <1>0, <1>d DEF RegistryTypeOK
<1>5. \A o \in Owners, n \in Names : ag[o][n] # Nil => ag[o][n].owner = o /\ ag[o][n].name = n
  <2> SUFFICES ASSUME NEW o \in Owners, NEW n \in Names, ag[o][n] # Nil
               PROVE  ag[o][n].owner = o /\ ag[o][n].name = n
    OBVIOUS
  <2> HIDE DEF ag
  <2>1. CASE o = d.owner /\ n = d.name
    BY <1>a, <2>1
  <2>2. CASE <<o, n>> # <<d.owner, d.name>>
    BY SMTT(60), <1>0, <1>b, <2>2 DEF RegistryTypeOK
  <2> QED BY <2>1, <2>2
<1>6. byModel' \in [Models -> Defs \cup {Nil}]
  BY <1>0, <1>4 DEF RegistryTypeOK, ByModelWithout
<1>7. byModelTenant' \in [Models -> [Owners -> Defs \cup {Nil}]]
  <2> HIDE DEF ag, ms
  <2> QED BY <1>0, <1>1, <1>2, <1>3, RebuiltType
<1>8. RegistryTypeOK'
  <2> HIDE DEF ag, ms
  <2> QED BY <1>1, <1>3, <1>5, <1>6, <1>7 DEF RegistryTypeOK, Registry
<1>9. ASSUME NEW m \in Models \ ms, NEW o \in Owners
      PROVE  /\ Declares(ag, o, m) = Declares(agents, o, m)
             /\ \A n \in Declares(ag, o, m) : ag[o][n] = agents[o][n]
  <2>1. d.model # m
    BY <1>9 DEF ModelsOf
  <2>2. agents[d.owner][d.name] # Nil => agents[d.owner][d.name].model # m
    BY <1>9 DEF ModelsOf, Prev
  <2> HIDE DEF ag, ms
  <2>3. ASSUME NEW n \in Names
        PROVE  (ag[o][n] # Nil /\ ag[o][n].model = m)
                  <=> (agents[o][n] # Nil /\ agents[o][n].model = m)
    <3>1. CASE o = d.owner /\ n = d.name
      BY <1>a, <2>1, <2>2, <3>1
    <3>2. CASE <<o, n>> # <<d.owner, d.name>>
      BY <1>b, <3>2
    <3> QED BY <3>1, <3>2
  <2>4. Declares(ag, o, m) = Declares(agents, o, m)
    BY <2>3 DEF Declares
  <2>5. ASSUME NEW n \in Declares(ag, o, m) PROVE ag[o][n] = agents[o][n]
    <3>1. n \in Names /\ ag[o][n].model = m
      BY DEF Declares
    <3>2. <<o, n>> # <<d.owner, d.name>>
      BY <1>a, <2>1, <3>1
    <3> QED BY <1>b, <3>1, <3>2
  <2> QED BY <2>4, <2>5
<1>10. IndexExact'
  <2> HIDE DEF ag, ms
  <2>1. IsIndexOf(Rebuilt(ag, ms), ag)
    BY <1>0, <1>1, <1>2, <1>9, RebuildExact
  <2> QED BY SMTT(60), <1>3, <2>1 DEF IndexExact, IsIndexOf, Declares
<1>11. NoStaleModelMapping'
  <2> SUFFICES ASSUME NEW m \in Models, byModel'[m] # Nil
               PROVE  /\ byModel'[m].model = m
                      /\ ag[byModel'[m].owner][byModel'[m].name] = byModel'[m]
    BY <1>3 DEF NoStaleModelMapping
  <2> HIDE DEF ag, ms
  <2>1. CASE m = d.model
    BY <1>4, <1>a, <2>1
  <2>2. CASE m # d.model
    <3>1. byModel'[m] = byModel[m] /\ byModel[m] \notin Prev(d)
      BY <1>4, <2>2 DEF ByModelWithout
    <3>2. byModel[m].model = m /\ agents[byModel[m].owner][byModel[m].name] = byModel[m]
      BY <1>0, <3>1 DEF NoStaleModelMapping
    <3>3. byModel[m].owner \in Owners /\ byModel[m].name \in Names
      BY SMTT(60), <1>0, <3>1 DEF RegistryTypeOK, Defs
    <3>4. <<byModel[m].owner, byModel[m].name>> # <<d.owner, d.name>>
      BY <3>1, <3>2 DEF Prev
    <3> QED BY <1>b, <3>1, <3>2, <3>3, <3>4
  <2> QED BY <2>1, <2>2
<1> QED BY <1>8, <1>10, <1>11

\* Removing a name from some owners' buckets keeps the agents and the indexes.
LEMMA RemovePreserves ==
  ASSUME RegistryInv, NEW owners \in SUBSET Owners, NEW name \in Names,
         RemoveFrom(owners, name), RemoveSources(owners, name)
  PROVE  RegistryInv'
<1>0. RegistryTypeOK /\ IndexExact /\ NoStaleModelMapping /\ SourcesAreLive
  BY DEF RegistryInv
<1> DEFINE gone == {agents[o][name] : o \in owners} \ {Nil}
           ag == [o \in Owners |-> [n \in Names |->
                    IF o \in owners /\ n = name THEN Nil ELSE agents[o][n]]]
           ms == ModelsOf(gone)
<1>1. ag \in Registry
  BY SMTT(60), <1>0 DEF RegistryTypeOK, Registry
<1>2. ms \in SUBSET Models
  BY DEF ModelsOf
<1>3. agents' = ag /\ byModelTenant' = Rebuilt(ag, ms) /\ byModel' = ByModelWithout(gone)
  BY DEF RemoveFrom
<1>a. \A o \in Owners, n \in Names :
        ag[o][n] = IF o \in owners /\ n = name THEN Nil ELSE agents[o][n]
  OBVIOUS
<1>g. \A o \in owners : agents[o][name] # Nil => agents[o][name] \in gone
  OBVIOUS
<1>m. \A x \in gone, m \in Models : x.model = m => m \in ms
  BY DEF ModelsOf
<1> HIDE DEF ag, ms, gone
<1>4. sources' \in [Owners -> [Names -> Files \cup {Nil}]]
  BY SMTT(60), <1>0 DEF RemoveSources, RegistryTypeOK
<1>5. \A o \in Owners, n \in Names : ag[o][n] # Nil => ag[o][n].owner = o /\ ag[o][n].name = n
  BY SMTT(60), <1>0, <1>a DEF RegistryTypeOK
<1>6. byModel' \in [Models -> Defs \cup {Nil}]
  BY <1>0, <1>3 DEF RegistryTypeOK, ByModelWithout
<1>7. byModelTenant' \in [Models -> [Owners -> Defs \cup {Nil}]]
  BY <1>0, <1>1, <1>2, <1>3, RebuiltType
<1>8. RegistryTypeOK'
  BY <1>1, <1>3, <1>4, <1>5, <1>6, <1>7 DEF RegistryTypeOK, Registry
<1>9. ASSUME NEW m \in Models \ ms, NEW o \in Owners
      PROVE  /\ Declares(ag, o, m) = Declares(agents, o, m)
             /\ \A n \in Declares(ag, o, m) : ag[o][n] = agents[o][n]
  <2>1. o \in owners /\ agents[o][name] # Nil => agents[o][name].model # m
    BY <1>g, <1>m
  <2>2. ASSUME NEW n \in Names
        PROVE  (ag[o][n] # Nil /\ ag[o][n].model = m)
                  <=> (agents[o][n] # Nil /\ agents[o][n].model = m)
    BY <1>a, <2>1
  <2>3. Declares(ag, o, m) = Declares(agents, o, m)
    BY <2>2 DEF Declares
  <2>4. \A n \in Declares(ag, o, m) : ag[o][n] = agents[o][n]
    BY <1>a DEF Declares
  <2> QED BY <2>3, <2>4
<1>10. IndexExact'
  <2>1. IsIndexOf(Rebuilt(ag, ms), ag)
    BY <1>0, <1>1, <1>2, <1>9, RebuildExact
  <2> QED BY SMTT(60), <1>3, <2>1 DEF IndexExact, IsIndexOf, Declares
<1>11. NoStaleModelMapping'
  <2> SUFFICES ASSUME NEW m \in Models, byModel'[m] # Nil
               PROVE  /\ byModel'[m].model = m
                      /\ ag[byModel'[m].owner][byModel'[m].name] = byModel'[m]
    BY <1>3 DEF NoStaleModelMapping
  <2>1. byModel'[m] = byModel[m] /\ byModel[m] \notin gone
    BY <1>3 DEF ByModelWithout
  <2>2. byModel[m].model = m /\ agents[byModel[m].owner][byModel[m].name] = byModel[m]
    BY <1>0, <2>1 DEF NoStaleModelMapping
  <2>3. byModel[m].owner \in Owners /\ byModel[m].name \in Names
    BY SMTT(60), <1>0, <2>1 DEF RegistryTypeOK, Defs
  <2>4. ~(byModel[m].owner \in owners /\ byModel[m].name = name)
    BY <1>g, <2>1, <2>2
  <2> QED BY <1>a, <2>1, <2>2, <2>3, <2>4
<1>12. SourcesAreLive'
  <2> SUFFICES ASSUME NEW o \in Owners, NEW n \in Names, sources'[o][n] # Nil
               PROVE  ag[o][n] # Nil
    BY <1>3 DEF SourcesAreLive
  <2>1. ~(o \in owners /\ n = name) /\ sources[o][n] # Nil
    BY DEF RemoveSources
  <2> QED BY <1>0, <1>a, <2>1 DEF SourcesAreLive
<1> QED BY <1>8, <1>10, <1>11, <1>12 DEF RegistryInv

\* A registration keeps the remembered sources live.
LEMMA RegisterSources ==
  ASSUME RegistryInv, NEW d \in Defs, registerLocked(d),
         \/ sources' = sources
         \/ \E f \in Files : sources' = [sources EXCEPT ![d.owner][d.name] = f]
  PROVE  RegistryInv'
<1>0. RegistryTypeOK /\ SourcesAreLive
  BY DEF RegistryInv
<1>d. d.owner \in Owners /\ d.name \in Names /\ d # Nil
  BY RegistryAssumption DEF Defs
<1>s. PICK f \in Files \cup {Nil} :
        \/ sources' = sources
        \/ sources' = [sources EXCEPT ![d.owner] = [sources[d.owner] EXCEPT ![d.name] = f]]
  OBVIOUS
<1>t. sources \in [Owners -> [Names -> Files \cup {Nil}]]
  BY <1>0 DEF RegistryTypeOK
<1>1. sources' \in [Owners -> [Names -> Files \cup {Nil}]]
  <2>1. [sources[d.owner] EXCEPT ![d.name] = f] \in [Names -> Files \cup {Nil}]
    BY <1>t, <1>d
  <2> QED BY <1>s, <1>t, <1>d, <2>1
<1>2. RegistryTypeOK' /\ IndexExact' /\ NoStaleModelMapping'
  BY <1>1, RegisterPreserves
<1>3. ASSUME NEW o \in Owners, NEW n \in Names, sources'[o][n] # Nil
      PROVE  agents'[o][n] # Nil
  <2>1. agents' = [agents EXCEPT ![d.owner][d.name] = d]
    BY DEF registerLocked
  <2>2. CASE o = d.owner /\ n = d.name
    BY <1>0, <1>d, <2>1, <2>2 DEF RegistryTypeOK
  <2>3. CASE ~(o = d.owner /\ n = d.name)
    <3>1. sources'[o][n] = sources[o][n]
      BY SMTT(60), <1>s, <1>t, <1>d, <2>3
    <3>2. agents'[o][n] = agents[o][n]
      BY SMTT(60), <1>0, <1>d, <2>1, <2>3 DEF RegistryTypeOK
    <3> QED BY <1>0, <1>3, <3>1, <3>2 DEF SourcesAreLive
  <2> QED BY <2>2, <2>3
<1> QED BY <1>2, <1>3 DEF RegistryInv, SourcesAreLive

\* Every operation of the registry keeps the invariant.
LEMMA RegistryStep == RegistryInv /\ [RegistryNext]_registryVars => RegistryInv'
<1> SUFFICES ASSUME RegistryInv, [RegistryNext]_registryVars PROVE RegistryInv'
  OBVIOUS
<1>1. CASE \E d \in Defs : Register(d)
  <2>1. PICK d \in Defs : Register(d)
    BY <1>1
  <2> QED BY <2>1, RegisterSources DEF Register
<1>2. CASE \E d \in Defs, f \in Files : RegisterWithSource(d, f)
  <2>1. PICK d \in Defs, f \in Files : RegisterWithSource(d, f)
    BY <1>2
  <2> QED BY <2>1, RegisterSources DEF RegisterWithSource
<1>3. CASE \E n \in Names : Remove(n)
  <2>1. PICK n \in Names : Remove(n)
    BY <1>3
  <2> QED BY <2>1, RemovePreserves DEF Remove
<1>4. CASE \E n \in Names, o \in Owners : RemoveForTenant(n, o)
  <2>1. PICK n \in Names, o \in Owners : RemoveForTenant(n, o)
    BY <1>4
  <2>2. {o} \in SUBSET Owners
    OBVIOUS
  <2> QED BY <2>1, <2>2, RemovePreserves DEF RemoveForTenant
<1>5. CASE UNCHANGED registryVars
  BY SMTT(60), <1>5 DEF RegistryInv, RegistryTypeOK, IndexExact, IsIndexOf, Declares,
              NoStaleModelMapping, SourcesAreLive, registryVars
<1> QED BY <1>1, <1>2, <1>3, <1>4, <1>5 DEF RegistryNext

\* RegistryInv is an invariant of the registry.
THEOREM RegistryInvariance == RegistrySpec => []RegistryInv
  BY InitRegistryInv, RegistryStep, PTL DEF RegistrySpec

\* The registry's maps keep their types, and every definition is filed under
\* its own owner and name.
THEOREM RegistryTypeCorrect == RegistrySpec => []RegistryTypeOK
<1>1. RegistryInv => RegistryTypeOK
  BY DEF RegistryInv
<1> QED BY <1>1, RegistryInvariance, PTL

\* The model index of the request hot path always agrees with a scan.
THEOREM IndexAlwaysExact == RegistrySpec => []IndexExact
<1>1. RegistryInv => IndexExact
  BY DEF RegistryInv
<1> QED BY <1>1, RegistryInvariance, PTL

\* A byModel entry never outlives its definition.
THEOREM ModelMappingsNeverStale == RegistrySpec => []NoStaleModelMapping
<1>1. RegistryInv => NoStaleModelMapping
  BY DEF RegistryInv
<1> QED BY <1>1, RegistryInvariance, PTL

\* A remembered file always belongs to a registered agent.
THEOREM SourcesAlwaysLive == RegistrySpec => []SourcesAreLive
<1>1. RegistryInv => SourcesAreLive
  BY DEF RegistryInv
<1> QED BY <1>1, RegistryInvariance, PTL

\* What a model lookup returns is registered and visible to the tenant.
LEMMA ModelLookupVisible ==
  ASSUME RegistryInv, NEW m \in Models, NEW t \in Owners, GetByModelForTenant(m, t) # Nil
  PROVE  LET d == GetByModelForTenant(m, t)
         IN  d.owner \in {t, Global} /\ d \in List
<1>0. RegistryTypeOK /\ IndexExact /\ Global \in Owners
  BY RegistryAssumption DEF RegistryInv
<1>1. ASSUME NEW o \in Owners, byModelTenant[m][o] # Nil
      PROVE  byModelTenant[m][o].owner = o /\ byModelTenant[m][o] \in List
  <2>1. PICK n \in Declares(agents, o, m) : byModelTenant[m][o] = agents[o][n]
    BY SMTT(60), <1>0, <1>1 DEF IndexExact, IsIndexOf
  <2>2. n \in Names /\ agents[o][n] # Nil
    BY DEF Declares
  <2> QED BY SMTT(60), <1>0, <2>1, <2>2 DEF RegistryTypeOK, List
<1> QED BY <1>0, <1>1 DEF GetByModelForTenant

\* What a lookup by name returns is registered and visible to the tenant.
LEMMA NameLookupVisible ==
  ASSUME RegistryInv, NEW n \in Names, NEW t \in Owners, GetForTenant(n, t) # Nil
  PROVE  LET d == GetForTenant(n, t)
         IN  d.owner \in {t, Global} /\ d \in List
<1>0. RegistryTypeOK /\ Global \in Owners
  BY RegistryAssumption DEF RegistryInv
<1>1. CASE agents[t][n] # Nil
  BY SMTT(60), <1>0, <1>1 DEF GetForTenant, RegistryTypeOK, List
<1>2. CASE agents[t][n] = Nil
  BY SMTT(60), <1>0, <1>2 DEF GetForTenant, RegistryTypeOK, List
<1> QED BY <1>1, <1>2

\* Whatever a request asks for, what it is given is registered and visible.
LEMMA ResolutionVisible == ASSUME RegistryInv PROVE ResolvesWithinTenant
<1> SUFFICES ASSUME NEW t \in Owners, NEW n \in Names \cup {Nil},
                    NEW m \in Models \cup {Nil}, resolveAgentForTenant(n, m, t) # Nil
             PROVE  LET d == resolveAgentForTenant(n, m, t)
                    IN  d.owner \in {t, Global} /\ d \in List
  BY DEF ResolvesWithinTenant
<1> DEFINE named == IF n = Nil THEN Nil ELSE GetForTenant(n, t)
           byMod == IF m = Nil THEN Nil ELSE GetByModelForTenant(m, t)
           all == ListForTenant(Global)
<1>1. CASE named # Nil
  <2>1. resolveAgentForTenant(n, m, t) = GetForTenant(n, t) /\ n \in Names
    BY <1>1 DEF resolveAgentForTenant
  <2> QED BY <2>1, NameLookupVisible
<1>2. CASE named = Nil /\ byMod # Nil
  <2>1. resolveAgentForTenant(n, m, t) = GetByModelForTenant(m, t) /\ m \in Models
    BY <1>2 DEF resolveAgentForTenant
  <2> QED BY <2>1, ModelLookupVisible
<1>3. CASE named = Nil /\ byMod = Nil
  <2>1. /\ t = Global /\ Cardinality(all) = 1
        /\ resolveAgentForTenant(n, m, t) = CHOOSE d \in all : TRUE
    BY <1>3 DEF resolveAgentForTenant
  <2>2. all # {}
    BY SMTT(60), <2>1, FS_EmptySet
  <2>3. resolveAgentForTenant(n, m, t) \in all
    BY <2>1, <2>2
  <2>4. PICK x \in Names : resolveAgentForTenant(n, m, t) = GetForTenant(x, Global)
    BY <2>3 DEF ListForTenant
  <2>5. GetForTenant(x, Global) # Nil /\ Global \in Owners
    BY <2>4, RegistryAssumption
  <2>6. GetForTenant(x, Global).owner \in {Global} /\ GetForTenant(x, Global) \in List
    BY <2>5, NameLookupVisible
  <2> QED BY <2>1, <2>4, <2>6
<1> QED BY <1>1, <1>2, <1>3

\* Agent resolution never leaves the caller's tenant and the global agents,
\* and never returns an agent that is no longer registered.
THEOREM ResolutionStaysVisible == RegistrySpec => []ResolvesWithinTenant
<1>1. RegistryInv => ResolvesWithinTenant
  BY ResolutionVisible
<1> QED BY <1>1, RegistryInvariance, PTL

\* The registry as its readers see it: indexes, sources and resolution agree with
\* the registered agents.
THEOREM RegistryAlwaysConsistent == RegistrySpec => []RegistryConsistent
<1>1. IndexExact /\ NoStaleModelMapping /\ SourcesAreLive /\ ResolvesWithinTenant
      => RegistryConsistent
  BY DEF RegistryConsistent
<1> QED
  BY <1>1, IndexAlwaysExact, ModelMappingsNeverStale, SourcesAlwaysLive,
     ResolutionStaysVisible, PTL

-----------------------------------------------------------------------------
(* The directory.  Whatever the watcher, the write API and the reload        *)
(* endpoint do to the registry, in whatever interleaving, is an operation of *)
(* the registry, and its invariants carry over; and once Stop has returned   *)
(* no callback is left that could touch it.                                  *)

\* The type of the directory's state.
FilesTypeOK ==
  /\ disk \in [Files -> Defs \cup {Missing, Invalid}]
  /\ fileAgents \in [Files -> Names \cup {Nil}]
  /\ wpc \in [Reloaders -> {"idle", "fired", "load", "register", "remember", "unregister",
                            "claim", "remove"}]
  /\ wpath \in [Reloaders -> Files \cup {Nil}]
  /\ wdef \in [Reloaders -> Defs \cup {Nil}]
  /\ wname \in [Reloaders -> Names \cup {Nil}]
  /\ apc \in [Clients -> {"start", "persisted", "unlinked", "scanned", "done"}]
  /\ adef \in [Clients -> Defs \cup {Nil}]
  /\ afile \in [Clients -> Files \cup {Nil}]

\* What a callback or a call carries at its control point.
Carries ==
  /\ \A w \in Reloaders :
       /\ wpc[w] # "idle" => wpath[w] \in Files
       /\ wpc[w] \in {"register", "remember"} => wdef[w] \in Defs
       /\ wpc[w] \in {"claim", "remove"} => wname[w] \in Names
  /\ \A c \in Clients :
       apc[c] \in {"persisted", "unlinked", "scanned"} => adef[c] \in Defs /\ afile[c] \in Files

FilesInv == RegistryInv /\ FilesTypeOK /\ Carries

\* The registry as runStart fills it.
LEMMA BootRegistry == FInit => RegistryInv
<1> SUFFICES ASSUME FInit PROVE RegistryInv
  OBVIOUS
<1>1. ASSUME NEW f \in Files, IsDoc(Boot[f]) PROVE Boot[f] \in Defs
  BY <1>1, FilesAssumption DEF IsDoc
<1>2. ASSUME NEW o \in Owners, NEW n \in Names, agents[o][n] # Nil
      PROVE  \E f \in Files : /\ agents[o][n] = Boot[f] /\ IsDoc(Boot[f])
                              /\ Boot[f].owner = o /\ Boot[f].name = n
  <2> DEFINE fs == {f \in Files : IsDoc(Boot[f]) /\ Boot[f].owner = o /\ Boot[f].name = n}
  <2>1. agents[o][n] = IF fs = {} THEN Nil ELSE Boot[CHOOSE f \in fs : TRUE]
    BY DEF FInit, BootAgents
  <2> HIDE DEF fs
  <2>2. fs # {} /\ agents[o][n] = Boot[CHOOSE f \in fs : TRUE]
    BY <1>2, <2>1
  <2>3. (CHOOSE f \in fs : TRUE) \in fs
    BY <2>2
  <2> QED  BY <2>2, <2>3 DEF fs
<1>3. /\ agents \in [Owners -> [Names -> Defs \cup {Nil}]]
      /\ \A o \in Owners, n \in Names :
           agents[o][n] # Nil => agents[o][n].owner = o /\ agents[o][n].name = n
  <2>1. \A o \in Owners, n \in Names : agents[o][n] \in Defs \cup {Nil}
    BY SMTT(60), <1>1, <1>2
  <2>2. agents = [o \in Owners |-> [n \in Names |-> agents[o][n]]]
    BY SMTT(60) DEF FInit, BootAgents
  <2> QED  BY SMTT(60), <1>2, <2>1, <2>2
<1>4. ASSUME NEW m \in Models
      PROVE  byModel[m] = Nil \/ (byModel[m] \in List /\ byModel[m].model = m)
  BY DEF FInit
<1>5. \A d \in List : d \in Defs /\ agents[d.owner][d.name] = d
  BY SMTT(60), <1>3, RegistryAssumption DEF List
<1>6. byModel \in [Models -> Defs \cup {Nil}] /\ NoStaleModelMapping
  <2>1. byModel = [m \in Models |-> byModel[m]]
    BY DEF FInit
  <2>2. \A m \in Models : byModel[m] \in Defs \cup {Nil}
    BY <1>4, <1>5
  <2> QED  BY <1>4, <1>5, <2>1, <2>2 DEF NoStaleModelMapping
<1>7. agents \in Registry
  BY <1>3 DEF Registry
<1>8. byModelTenant \in [Models -> [Owners -> Defs \cup {Nil}]] /\ IndexExact
  <2>1. byModelTenant = [m \in Models |-> ModelBucket(agents, m)]
    BY DEF FInit
  <2>2. ASSUME NEW m \in Models, NEW o \in Owners
        PROVE  LET S == Declares(agents, o, m)
               IN  IF S = {} THEN byModelTenant[m][o] = Nil
                   ELSE \E n \in S : byModelTenant[m][o] = agents[o][n] /\ \A x \in S : n <= x
    <3>1. byModelTenant[m] = ModelBucket(agents, m)
      BY <2>1
    <3> QED  BY <1>7, <3>1, BucketExact
  <2>3. \A m \in Models, o \in Owners : byModelTenant[m][o] \in Defs \cup {Nil}
    BY SMTT(60), <1>3, <2>2 DEF Declares
  <2>4. \A m \in Models : byModelTenant[m] = [o \in Owners |-> byModelTenant[m][o]]
    BY <2>1 DEF ModelBucket
  <2>5. byModelTenant \in [Models -> [Owners -> Defs \cup {Nil}]]
    BY <2>1, <2>3, <2>4
  <2> QED  BY <2>2, <2>5 DEF IndexExact, IsIndexOf
<1>9. sources \in [Owners -> [Names -> Files \cup {Nil}]] /\ SourcesAreLive
  <2>1. sources = [o \in Owners |-> [n \in Names |->
          IF agents[o][n] = Nil THEN Nil ELSE CHOOSE f \in Files : Boot[f] = agents[o][n]]]
    BY DEF FInit
  <2>2. ASSUME NEW o \in Owners, NEW n \in Names, agents[o][n] # Nil
        PROVE  (CHOOSE f \in Files : Boot[f] = agents[o][n]) \in Files
    BY SMTT(60), <1>2, <2>2
  <2> QED  BY <2>1, <2>2 DEF SourcesAreLive
<1> QED  BY <1>3, <1>6, <1>8, <1>9 DEF RegistryInv, RegistryTypeOK

\* The server as it starts.
LEMMA FilesInit == FInit => FilesInv
<1> SUFFICES ASSUME FInit PROVE FilesInv
  OBVIOUS
<1>1. FilesTypeOK
  BY FilesAssumption DEF FInit, FilesTypeOK
<1>2. Carries
  BY DEF FInit, Carries
<1> QED  BY <1>1, <1>2, BootRegistry DEF FilesInv

\* The variables FilesTypeOK and Carries speak of.
carried == <<disk, fileAgents, wpc, wpath, wdef, wname, apc, adef, afile>>

\* A callback's steps, and those around it.
LEMMA CallbackTyped ==
  ASSUME FilesInv, NEW w \in Reloaders,
         Callback(w) \/ \E f \in Files : TimerFires(w, f)
  PROVE  FilesTypeOK' /\ Carries'
<1> USE DEF FilesInv, FilesTypeOK, Carries, Returns, Goto
<1>1. ASSUME NEW f \in Files, TimerFires(w, f) PROVE FilesTypeOK' /\ Carries'
  BY <1>1 DEF TimerFires, api
<1>2. CASE CallbackBegin(w)
  <2>1. CASE closed
    BY SMTT(60), <1>2, <2>1 DEF CallbackBegin, api
  <2>2. CASE ~closed
    BY <1>2, <2>2 DEF CallbackBegin, api
  <2> QED  BY <2>1, <2>2
<1>3. CASE LoadDoc(w)
  <2>1. disk[wpath[w]] \in Defs
    BY <1>3 DEF LoadDoc, IsDoc
  <2> QED  BY <1>3, <2>1 DEF LoadDoc, api
<1>4. CASE LoadMissing(w)
  BY <1>4 DEF LoadMissing, api
<1>5. CASE LoadInvalid(w)
  BY <1>5 DEF LoadInvalid, api
<1>6. CASE ReloadRegister(w)
  BY <1>6 DEF ReloadRegister, api
<1>7. CASE RememberFile(w)
  <2>1. wdef[w].name \in Names
    BY <1>7 DEF RememberFile, Defs
  <2>2. CASE fileAgents[wpath[w]] \notin {Nil, wdef[w].name}
    BY SMTT(60), <1>7, <2>1, <2>2 DEF RememberFile, api
  <2>3. CASE fileAgents[wpath[w]] \in {Nil, wdef[w].name}
    BY SMTT(60), <1>7, <2>1, <2>3 DEF RememberFile, api
  <2> QED  BY <2>2, <2>3
<1>8. CASE UnregisterFile(w)
  <2>1. CASE fileAgents[wpath[w]] # Nil
    BY SMTT(60), <1>8, <2>1 DEF UnregisterFile, api
  <2>2. CASE fileAgents[wpath[w]] = Nil
    BY SMTT(60), <1>8, <2>2 DEF UnregisterFile, api
  <2> QED  BY <2>1, <2>2
<1>9. CASE CheckClaimed(w)
  <2>1. CASE \E f \in Files : fileAgents[f] = wname[w]
    BY SMTT(60), <1>9, <2>1 DEF CheckClaimed, api
  <2>2. CASE ~\E f \in Files : fileAgents[f] = wname[w]
    BY <1>9, <2>2 DEF CheckClaimed, api
  <2> QED  BY <2>1, <2>2
<1>10. CASE RemoveUnclaimed(w)
  BY <1>10 DEF RemoveUnclaimed, api
<1> QED
  BY <1>1, <1>2, <1>3, <1>4, <1>5, <1>6, <1>7, <1>8, <1>9, <1>10 DEF Callback

\* The steps of an API call.
LEMMA ClientTyped ==
  ASSUME FilesInv, NEW c \in Clients, Client(c) PROVE FilesTypeOK' /\ Carries'
<1> USE DEF FilesInv, FilesTypeOK, Carries, Responds, Calls, callback
<1>1. CASE Refused(c)
  BY <1>1 DEF Refused
<1>2. CASE PutRegister(c)
  BY <1>2 DEF PutRegister
<1>3. CASE DeleteUnregister(c)
  BY <1>3 DEF DeleteUnregister
<1>4. CASE ReloadRegisters(c)
  BY <1>4 DEF ReloadRegisters
<1>5. ASSUME NEW o \in Owners, NEW n \in Names PROVE Target(o, n) \in Files
  BY SMTT(60), FilesAssumption DEF Target, RegistryInv, RegistryTypeOK
<1>6. ASSUME NEW d \in Docs, PutPersist(c, d) PROVE FilesTypeOK' /\ Carries'
  <2>1. d \in Defs /\ d.owner \in Owners /\ d.name \in Names
    BY FilesAssumption DEF Defs
  <2>2. Target(d.owner, d.name) \in Files
    BY <1>5, <2>1
  <2> QED  BY <1>6, <2>1, <2>2 DEF PutPersist
<1>7. ASSUME NEW o \in Owners, NEW n \in Names, DeleteUnlink(c, o, n)
      PROVE  FilesTypeOK' /\ Carries'
  <2>1. agents[o][n] \in Defs
    BY SMTT(60), <1>7 DEF DeleteUnlink, RegistryInv, RegistryTypeOK
  <2> QED  BY <1>5, <1>7, <2>1 DEF DeleteUnlink
<1>8. ASSUME NEW f \in Files, ReloadScan(c, f) PROVE FilesTypeOK' /\ Carries'
  <2>1. disk[f] \in Defs
    BY <1>8 DEF ReloadScan, IsDoc
  <2> QED  BY <1>8, <2>1 DEF ReloadScan
<1> QED  BY <1>1, <1>2, <1>3, <1>4, <1>6, <1>7, <1>8 DEF Client

\* Whatever a step does to the registry is one of its operations.
LEMMA StepIsRegistryStep ==
  ASSUME FilesInv, [FNext]_fvars PROVE [RegistryNext]_registryVars
<1>1. ASSUME UNCHANGED registry PROVE [RegistryNext]_registryVars
  BY <1>1 DEF registry, registryVars
<1>2. CASE UNCHANGED fvars
  BY <1>1, <1>2 DEF fvars
<1>3. ASSUME NEW f \in Files,
             \/ Dispatch(f) \/ \E x \in Docs \cup {Missing, Invalid} : Edit(f, x)
             \/ \E g \in Files : Rename(f, g) \/ \E w \in Reloaders : TimerFires(w, f)
      PROVE  [RegistryNext]_registryVars
  BY <1>1, <1>3 DEF Dispatch, Edit, Rename, TimerFires
<1>4. ASSUME NEW w \in Reloaders, Callback(w) PROVE [RegistryNext]_registryVars
  <2>1. CASE ReloadRegister(w)
    <3>1. wdef[w] \in Defs /\ wpath[w] \in Files /\ RegisterWithSource(wdef[w], wpath[w])
      BY <2>1 DEF ReloadRegister, FilesInv, Carries
    <3> QED  BY <3>1 DEF RegistryNext
  <2>2. CASE RemoveUnclaimed(w)
    <3>1. wname[w] \in Names
      BY <2>2 DEF RemoveUnclaimed, FilesInv, Carries
    <3> QED  BY <1>1, <2>2, <3>1 DEF RemoveUnclaimed, RegistryNext
  <2>3. CASE \/ CallbackBegin(w) \/ LoadDoc(w) \/ LoadMissing(w) \/ LoadInvalid(w)
             \/ RememberFile(w) \/ UnregisterFile(w) \/ CheckClaimed(w)
    BY <1>1, <2>3 DEF CallbackBegin, LoadDoc, LoadMissing, LoadInvalid, RememberFile,
                      UnregisterFile, CheckClaimed
  <2> QED  BY <1>4, <2>1, <2>2, <2>3 DEF Callback
<1>5. CASE Stop
  BY <1>1, <1>5 DEF Stop, StopBegin, LoopExits, StopReturns
<1>6. ASSUME NEW c \in Clients, Client(c) PROVE [RegistryNext]_registryVars
  <2>1. CASE PutRegister(c) \/ ReloadRegisters(c)
    <3>1. adef[c] \in Defs /\ afile[c] \in Files /\ RegisterWithSource(adef[c], afile[c])
      BY <2>1 DEF PutRegister, ReloadRegisters, FilesInv, Carries
    <3> QED  BY <3>1 DEF RegistryNext
  <2>2. CASE DeleteUnregister(c)
    <3>1. adef[c].name \in Names /\ adef[c].owner \in Owners
      BY <2>2 DEF DeleteUnregister, FilesInv, Carries, Defs
    <3> QED  BY <1>1, <2>2, <3>1 DEF DeleteUnregister, RegistryNext
  <2>3. CASE \/ Refused(c) \/ \E d \in Docs : PutPersist(c, d)
             \/ \E o \in Owners, n \in Names : DeleteUnlink(c, o, n)
             \/ \E f \in Files : ReloadScan(c, f)
    BY <1>1, <2>3 DEF Refused, PutPersist, DeleteUnlink, ReloadScan
  <2> QED  BY <1>6, <2>1, <2>2, <2>3 DEF Client
<1> QED  BY <1>2, <1>3, <1>4, <1>5, <1>6 DEF FNext

\* Every step keeps the invariant.
LEMMA FilesStep == ASSUME FilesInv, [FNext]_fvars PROVE FilesInv'
<1>1. RegistryInv'
  BY StepIsRegistryStep, RegistryStep DEF FilesInv
<1>2. FilesTypeOK' /\ Carries'
  <2>1. ASSUME UNCHANGED carried PROVE FilesTypeOK' /\ Carries'
    BY <2>1 DEF carried, FilesInv, FilesTypeOK, Carries
  <2>2. CASE UNCHANGED fvars
    BY <2>1, <2>2 DEF fvars, carried, callback, api
  <2>3. ASSUME NEW f \in Files, Dispatch(f) PROVE FilesTypeOK' /\ Carries'
    BY <2>1, <2>3 DEF Dispatch, carried, callback, api
  <2>4. ASSUME NEW f \in Files, NEW x \in Docs \cup {Missing, Invalid}, Edit(f, x)
        PROVE  FilesTypeOK' /\ Carries'
    BY <2>4, FilesAssumption DEF Edit, FilesInv, FilesTypeOK, Carries, callback, api
  <2>5. ASSUME NEW f \in Files, NEW g \in Files, Rename(f, g) PROVE FilesTypeOK' /\ Carries'
    BY <2>5 DEF Rename, FilesInv, FilesTypeOK, Carries, callback, api
  <2>6. CASE Stop
    BY <2>1, <2>6 DEF Stop, StopBegin, LoopExits, StopReturns, carried, callback, api
  <2> QED  BY <2>2, <2>3, <2>4, <2>5, <2>6, CallbackTyped, ClientTyped DEF FNext
<1> QED  BY <1>1, <1>2 DEF FilesInv

\* The registry stays consistent under the directory: however the watcher's
\* callbacks, the write API and the reload endpoint interleave, its indexes, its
\* sources and what a request resolves to agree with the registered agents
\* (watcher.go, agent_write_handlers.go, handlers.go).
THEOREM RegistryConsistentUnderFiles == FSpec => []RegistryConsistent
<1>1. FInit => FilesInv
  BY FilesInit
<1>2. FilesInv /\ [FNext]_fvars => FilesInv'
  BY FilesStep
<1>3. FilesInv => RegistryConsistent
  BY ResolutionVisible DEF FilesInv, RegistryInv, RegistryConsistent
<1> QED  BY <1>1, <1>2, <1>3, PTL DEF FSpec

\* Stop has set closed before it returns, and returns with no callback past the
\* check of closed.
StopInv ==
  /\ FilesTypeOK
  /\ stopPC # "running" => closed
  /\ stopPC = "stopped" => Running = {}

\* Every step keeps it: a timer that fires late finds closed set.
LEMMA StopStep == ASSUME FilesInv, StopInv, [FNext]_fvars PROVE StopInv'
<1>0. FilesTypeOK'
  BY FilesStep DEF FilesInv
<1> USE DEF StopInv
<1>1. ASSUME UNCHANGED <<closed, stopPC, wpc>> PROVE StopInv'
  BY <1>0, <1>1 DEF Running
<1>2. CASE UNCHANGED fvars
  BY <1>1, <1>2 DEF fvars, stopping, callback
<1>3. ASSUME NEW f \in Files,
             \/ Dispatch(f) \/ \E x \in Docs \cup {Missing, Invalid} : Edit(f, x)
             \/ \E g \in Files : Rename(f, g)
      PROVE  StopInv'
  BY <1>1, <1>3 DEF Dispatch, Edit, Rename, stopping, callback
<1>4. ASSUME NEW w \in Reloaders, Callback(w) \/ \E f \in Files : TimerFires(w, f)
      PROVE  StopInv'
  <2>1. UNCHANGED <<closed, stopPC>> /\ \A v \in Reloaders \ {w} : wpc'[v] = wpc[v]
    BY <1>4 DEF Callback, TimerFires, CallbackBegin, LoadDoc, LoadMissing, LoadInvalid,
                ReloadRegister, RememberFile, UnregisterFile, CheckClaimed, RemoveUnclaimed,
                Returns, Goto, stopping, FilesTypeOK
  <2>2. wpc'[w] \in {"idle", "fired"} \/ w \in Running \/ ~closed
    <3>1. CASE \E f \in Files : TimerFires(w, f)
      BY <3>1 DEF TimerFires, FilesTypeOK
    <3>2. CASE CallbackBegin(w)
      BY <3>2 DEF CallbackBegin, Returns, FilesTypeOK
    <3>3. CASE wpc[w] \notin {"idle", "fired"}
      BY <3>3 DEF Running
    <3> QED  BY <1>4, <3>1, <3>2, <3>3 DEF Callback, LoadDoc, LoadMissing, LoadInvalid,
               ReloadRegister, RememberFile, UnregisterFile, CheckClaimed, RemoveUnclaimed
  <2> QED  BY <1>0, <2>1, <2>2 DEF Running
<1>5. CASE Stop
  BY <1>0, <1>5 DEF Stop, StopBegin, LoopExits, StopReturns, Running, callback
<1>6. ASSUME NEW c \in Clients, Client(c) PROVE StopInv'
  BY <1>1, <1>6 DEF Client, Refused, PutRegister, DeleteUnregister, ReloadRegisters, PutPersist,
                    DeleteUnlink, ReloadScan, stopping, callback
<1> QED  BY <1>2, <1>3, <1>4, <1>5, <1>6 DEF FNext

\* After Stop only an API call changes the registry.
LEMMA QuietAfterStop ==
  ASSUME FilesInv, StopInv, [FNext]_fvars, stopPC = "stopped", UNCHANGED api
  PROVE  UNCHANGED registry
<1>1. \A w \in Reloaders : wpc[w] \in {"idle", "fired"}
  BY DEF StopInv, Running
<1>2. ASSUME NEW w \in Reloaders, Callback(w) PROVE UNCHANGED registry
  <2>1. CallbackBegin(w)
    BY <1>1, <1>2 DEF Callback, LoadDoc, LoadMissing, LoadInvalid, ReloadRegister,
                      RememberFile, UnregisterFile, CheckClaimed, RemoveUnclaimed
  <2> QED  BY <2>1 DEF CallbackBegin
<1>3. ASSUME NEW c \in Clients, Client(c) PROVE FALSE
  <2>1. apc'[c] # apc[c]
    BY <1>3 DEF Client, Refused, PutRegister, DeleteUnregister, ReloadRegisters, PutPersist,
                DeleteUnlink, ReloadScan, Responds, Calls, StopInv, FilesTypeOK
  <2> QED  BY <2>1 DEF api
<1>4. ASSUME NEW f \in Files,
             \/ Dispatch(f) \/ \E x \in Docs \cup {Missing, Invalid} : Edit(f, x)
             \/ \E g \in Files : Rename(f, g) \/ \E w \in Reloaders : TimerFires(w, f)
      PROVE  UNCHANGED registry
  BY <1>4 DEF Dispatch, Edit, Rename, TimerFires
<1>5. CASE Stop \/ UNCHANGED fvars
  BY <1>5 DEF Stop, StopBegin, LoopExits, StopReturns, fvars
<1> QED  BY <1>2, <1>3, <1>4, <1>5 DEF FNext

\* "nothing touches the registry after Stop returns" (watcher.go:114), whichever
\* timers are still armed and callbacks still to run.
THEOREM StopAlwaysQuiesces == FSpec => StopQuiesces
<1>1. FInit => FilesInv /\ StopInv
  <2>1. FInit => stopPC = "running"
    BY DEF FInit
  <2> QED  BY <2>1, FilesInit DEF FilesInv, StopInv
<1>2. FilesInv /\ StopInv /\ [FNext]_fvars =>
        /\ FilesInv' /\ StopInv'
        /\ [stopPC = "stopped" /\ UNCHANGED api => UNCHANGED registry]_fvars
  BY FilesStep, StopStep, QuietAfterStop
<1> QED  BY <1>1, <1>2, PTL DEF FSpec, StopQuiesces

-----------------------------------------------------------------------------
(* Editing a pipeline: saves are serialized.                                 *)

Version == [def : Nat, form : {"canon", "hand"}]

\* The type of the state; an editor's record grows with its control point.
EditorTypeOK ==
  /\ live \in Nat
  /\ file \in Version \cup {NoFile}
  /\ writeMu \in Editors \cup {0}
  /\ touches \in Nat
  /\ audit \subseteq Editors
  /\ ed \in [Editors ->
               [pc : {"idle", "refused"}] \cup [pc : {"got"}, loaded : Nat]
               \cup [pc : {"editing"}, loaded : Nat, etag : Version]
               \cup [pc : {"checked"}, loaded : Nat, etag : Version, seen : Nat]
               \cup [pc : {"written", "saved"}, loaded : Nat, etag : Version,
                     replaced : Version, meddled : BOOLEAN]]

\* Between its check and its registration an editor holds writeMu.
Locked == \A e \in Editors : ed[e].pc \in {"checked", "written"} => writeMu = e
Written == {e \in Editors : ed[e].pc = "written"}

\* Where a version that is, or was, current comes from: a save, the definition
\* the server started with, or an edit on disk that has happened.
Known(v) ==
  \/ v.form = "canon" /\ v.def \in Saved \cup {Shipped}
  \/ v.form = "hand" /\ v.def \in Shipped..(Shipped + touches)

Provenance ==
  /\ file = NoFile \/ Known(file)
  /\ live \in {e \in Editors : ed[e].pc = "saved"} \cup {Shipped}
  /\ live # Shipped => live \in audit
  /\ \A e \in Saved : Known(ed[e].replaced)

\* A version that a save has replaced does not come back: it is not in the file,
\* not what a written save will register, and, once that is done, not live.
NeverBack ==
  \A e \in Saved :
    /\ ed[e].replaced # file
    /\ \A w \in Written : ed[e].replaced # Canon(w)
    /\ Written = {} => ed[e].replaced # Canon(live)

\* An accepted If-Match stays true up to the write unless the disk is edited.
CheckHolds ==
  \A e \in Editors : ed[e].pc = "checked" =>
    ed[e].seen <= touches /\ (ed[e].seen = touches => pipelineVersion = ed[e].etag)
ReplacedChecked == \A e \in Saved : ed[e].replaced = ed[e].etag \/ ed[e].meddled

\* No two saves replace the same version.
NoneTwice == \A e, f \in Saved : e # f => ed[e].replaced # ed[f].replaced

\* With nothing edited on disk the file has the definition that runs, or the one
\* about to be registered.
FileRuns ==
  touches = 0 => /\ Written = {} => file.def = live
                 /\ \A w \in Written : file.def = w

\* The inductive invariant.
EditorInv == /\ EditorTypeOK /\ Locked /\ Provenance /\ NeverBack /\ CheckHolds
          /\ ReplacedChecked /\ NoneTwice /\ FileRuns

\* The pipeline as shipped satisfies the invariant.
LEMMA InitEditorInv == EditorInit => EditorInv
<1> SUFFICES ASSUME EditorInit PROVE EditorInv
  OBVIOUS
<1>1. Saved = {} /\ Written = {}
  BY DEF EditorInit, Saved, Written
<1>2. EditorTypeOK
  BY DEF EditorInit, EditorTypeOK, Version, Shipped
<1>3. Locked /\ CheckHolds
  BY DEF EditorInit, Locked, CheckHolds
<1>4. Provenance
  <2>1. Known(file)
    BY SMTT(60) DEF EditorInit, Known, Shipped
  <2> QED  BY <1>1, <2>1 DEF EditorInit, Provenance
<1>5. NeverBack /\ ReplacedChecked /\ NoneTwice /\ FileRuns
  BY <1>1 DEF EditorInit, NeverBack, ReplacedChecked, NoneTwice, FileRuns
<1> QED  BY <1>2, <1>3, <1>4, <1>5 DEF EditorInv

\* A version is always one of the known kind, never the missing file.
LEMMA VersionKnown ==
  ASSUME EditorInv PROVE pipelineVersion \in Version /\ Known(pipelineVersion)
<1>1. live \in Saved \cup {Shipped} /\ live \in Nat
  BY DEF EditorInv, EditorTypeOK, Provenance, Saved
<1>2. CASE file # NoFile
  BY <1>2 DEF EditorInv, EditorTypeOK, Provenance, pipelineVersion
<1>3. CASE file = NoFile
  BY <1>1, <1>3 DEF pipelineVersion, Canon, Version, Known
<1> QED  BY <1>2, <1>3

\* The steps of an editor that neither check nor write: reading the definition,
\* reading the version, and a refused body.
LEMMA ReadEditorInv ==
  ASSUME EditorInv, NEW e \in Editors,
         GetDefinition(e) \/ GetVersion(e) \/ PutRefused(e)
  PROVE  EditorInv'
<1>0. /\ EditorTypeOK /\ UNCHANGED <<live, file, writeMu, touches, audit>>
      /\ pipelineVersion' = pipelineVersion
  BY DEF EditorInv, GetDefinition, GetVersion, PutRefused, pipelineVersion
<1>1. pipelineVersion \in Version
  BY VersionKnown
<1>2. EditorTypeOK'
  <2>1. CASE GetDefinition(e)
    BY <1>0, <2>1 DEF EditorTypeOK, GetDefinition
  <2>2. CASE GetVersion(e)
    <3>1. ed[e].loaded \in Nat
      BY <1>0, <2>2 DEF EditorTypeOK, GetVersion
    <3> QED  BY <1>0, <1>1, <2>2, <3>1 DEF EditorTypeOK, GetVersion
  <2>3. CASE PutRefused(e)
    BY <1>0, <2>3 DEF EditorTypeOK, PutRefused
  <2> QED  BY <2>1, <2>2, <2>3
<1>3. /\ ed[e].pc \in {"idle", "got", "editing"} /\ ed'[e].pc \in {"got", "editing", "refused"}
      /\ \A f \in Editors \ {e} : ed'[f] = ed[f]
  BY SMTT(60), <1>0 DEF EditorTypeOK, GetDefinition, GetVersion, PutRefused
<1>4. Saved' = Saved /\ Written' = Written /\ e \notin Saved
  BY <1>3 DEF Saved, Written
<1>5. Locked' /\ CheckHolds' /\ ReplacedChecked' /\ NoneTwice'
  <2>1. Locked'
    BY <1>0, <1>3 DEF EditorInv, Locked
  <2>2. CheckHolds'
    BY <1>0, <1>3 DEF EditorInv, CheckHolds
  <2>3. ReplacedChecked'
    BY <1>3, <1>4 DEF EditorInv, ReplacedChecked, Saved
  <2>4. NoneTwice'
    BY SMTT(60), <1>3, <1>4 DEF EditorInv, NoneTwice, Saved
  <2> QED  BY <2>1, <2>2, <2>3, <2>4
<1>6. Provenance'
  <2>1. {f \in Editors : ed'[f].pc = "saved"} = {f \in Editors : ed[f].pc = "saved"}
    BY <1>3
  <2>2. \A f \in Saved : ed'[f] = ed[f]
    BY <1>3, <1>4 DEF Saved
  <2>3. \A v : Known(v) => (v.form = "canon" /\ v.def \in Saved' \cup {Shipped})
                           \/ (v.form = "hand" /\ v.def \in Shipped..(Shipped + touches'))
    BY <1>0, <1>4 DEF Known
  <2> QED  BY <1>0, <1>4, <2>1, <2>2, <2>3 DEF EditorInv, Provenance, Known
<1>7. NeverBack'
  BY SMTT(60), <1>0, <1>3, <1>4 DEF EditorInv, NeverBack, Saved
<1>8. FileRuns'
  BY <1>0, <1>3, <1>4 DEF EditorInv, FileRuns
<1> QED  BY <1>2, <1>5, <1>6, <1>7, <1>8 DEF EditorInv

\* The check takes the lock or refuses.
LEMMA CheckEditorInv ==
  ASSUME EditorInv, NEW e \in Editors, NEW sent \in BOOLEAN, PutCheck(e, sent)
  PROVE  EditorInv'
<1>0. /\ EditorTypeOK /\ UNCHANGED <<live, file, touches, audit>> /\ pipelineVersion' = pipelineVersion
      /\ ed[e].pc = "editing" /\ writeMu = 0 /\ 0 \notin Editors
  BY SMTT(60), EditorsAssumption DEF EditorInv, PutCheck, pipelineVersion, Shipped
<1>1. ed[e] \in [pc : {"editing"}, loaded : Nat, etag : Version]
  BY <1>0 DEF EditorTypeOK
<1>2. \A f \in Editors : ed[f].pc \notin {"checked", "written"}
  BY <1>0 DEF EditorInv, Locked
<1>3. \/ /\ ed[e].etag = pipelineVersion /\ writeMu' = e
         /\ ed' = [ed EXCEPT ![e] = [pc |-> "checked", loaded |-> ed[e].loaded,
                                     etag |-> ed[e].etag, seen |-> touches]]
      \/ /\ writeMu' = writeMu
         /\ ed' = [ed EXCEPT ![e] = [pc |-> "refused"]]
  BY DEF PutCheck
<1>4. EditorTypeOK'
  BY SMTT(60), <1>0, <1>1, <1>3 DEF EditorTypeOK
<1>5. /\ ed'[e].pc \in {"checked", "refused"}
      /\ ed'[e].pc = "checked" => /\ writeMu' = e /\ ed'[e].seen = touches
                                  /\ ed'[e].etag = pipelineVersion
      /\ \A f \in Editors \ {e} : ed'[f] = ed[f]
  BY SMTT(60), <1>0, <1>3 DEF EditorTypeOK
<1>6. Saved' = Saved /\ Written' = Written /\ e \notin Saved
  BY <1>0, <1>5 DEF Saved, Written
<1>7. Locked'
  BY <1>2, <1>5 DEF Locked
<1>8. CheckHolds'
  BY SMTT(60), <1>0, <1>2, <1>5 DEF EditorTypeOK, CheckHolds
<1>9. ReplacedChecked' /\ NoneTwice'
  BY SMTT(60), <1>5, <1>6 DEF EditorInv, ReplacedChecked, NoneTwice, Saved
<1>10. Provenance' /\ NeverBack' /\ FileRuns'
  BY SMTT(60), <1>0, <1>5, <1>6 DEF EditorInv, Provenance, Known, NeverBack, FileRuns, Saved
<1> QED  BY <1>4, <1>7, <1>8, <1>9, <1>10 DEF EditorInv

\* The write fails: nothing but the lock and the editor change.
LEMMA WriteFailedEditorInv ==
  ASSUME EditorInv, NEW e \in Editors, ed[e].pc = "checked",
         ed' = [ed EXCEPT ![e] = [pc |-> "refused"]], writeMu' = IF writeMu = e THEN 0 ELSE writeMu,
         UNCHANGED <<live, file, touches, audit>>
  PROVE  EditorInv'
<1>0. EditorTypeOK /\ writeMu = e /\ writeMu' = 0 /\ pipelineVersion' = pipelineVersion
  BY DEF EditorInv, Locked, pipelineVersion
<1>1. EditorTypeOK'
  BY <1>0 DEF EditorTypeOK
<1>2. ed'[e].pc = "refused" /\ \A f \in Editors \ {e} : ed'[f] = ed[f]
  BY <1>0 DEF EditorTypeOK
<1>3. \A f \in Editors \ {e} : ed[f].pc \notin {"checked", "written"}
  BY <1>0 DEF EditorInv, Locked
<1>4. Saved' = Saved /\ Written' = Written /\ e \notin Saved
  BY <1>2 DEF Saved, Written
<1>5. Locked' /\ CheckHolds'
  BY SMTT(60), <1>2, <1>3 DEF Locked, CheckHolds
<1>6. ReplacedChecked' /\ NoneTwice'
  BY SMTT(60), <1>2, <1>4 DEF EditorInv, ReplacedChecked, NoneTwice, Saved
<1>7. Provenance' /\ NeverBack' /\ FileRuns'
  BY SMTT(60), <1>2, <1>4 DEF EditorInv, Provenance, Known, NeverBack, FileRuns, Saved
<1> QED  BY <1>1, <1>5, <1>6, <1>7 DEF EditorInv

\* The write succeeds.  The version it replaces is current and the lock is held,
\* so no earlier save replaced it and, the disk untouched, it is the one checked.
LEMMA WriteEditorInv ==
  ASSUME EditorInv, NEW e \in Editors, ed[e].pc = "checked",
         file' = Canon(e),
         ed' = [ed EXCEPT ![e] = [pc |-> "written", loaded |-> ed[e].loaded, etag |-> ed[e].etag,
                                  replaced |-> pipelineVersion, meddled |-> touches # ed[e].seen]],
         UNCHANGED <<live, writeMu, touches, audit>>
  PROVE  EditorInv'
<1>0. /\ EditorTypeOK /\ writeMu = e /\ e \in Nat /\ e # Shipped /\ touches \in Nat
      /\ pipelineVersion \in Version /\ Known(pipelineVersion)
  BY SMTT(60), VersionKnown, EditorsAssumption DEF EditorInv, Locked, Shipped, EditorTypeOK
<1>1. ed[e] \in [pc : {"checked"}, loaded : Nat, etag : Version, seen : Nat]
  BY <1>0 DEF EditorTypeOK
<1>2. EditorTypeOK'
  <2>1. file' \in Version
    BY <1>0 DEF Canon, Version
  <2>2. (touches # ed[e].seen) \in BOOLEAN
    OBVIOUS
  <2> QED  BY <1>0, <1>1, <2>1, <2>2 DEF EditorTypeOK
<1>3. /\ ed'[e].pc = "written" /\ ed'[e].replaced = pipelineVersion /\ ed'[e].etag = ed[e].etag
      /\ ed'[e].meddled = (touches # ed[e].seen)
      /\ \A f \in Editors \ {e} : ed'[f] = ed[f]
  BY <1>0 DEF EditorTypeOK
<1>4. \A f \in Editors \ {e} : ed[f].pc \notin {"checked", "written"}
  BY <1>0 DEF EditorInv, Locked
<1>5. Saved' = Saved \cup {e} /\ Written = {} /\ Written' = {e} /\ e \notin Saved
  BY SMTT(60), <1>3, <1>4 DEF Saved, Written
<1>6. Locked' /\ CheckHolds'
  BY SMTT(60), <1>0, <1>3, <1>4 DEF Locked, CheckHolds
<1>7. ReplacedChecked'
  <2>1. touches = ed[e].seen => pipelineVersion = ed[e].etag
    BY DEF EditorInv, CheckHolds
  <2> QED  BY <1>3, <1>5, <2>1 DEF EditorInv, ReplacedChecked, Saved
<1>8. Provenance'
  <2>1. \A v : Known(v) => Known(v)'
    BY <1>5 DEF Known
  <2>2. Known(file)'
    BY <1>5 DEF Known, Canon
  <2>3. \A f \in Saved' : Known(ed[f].replaced)'
    BY SMTT(60), <1>0, <1>3, <1>5, <2>1 DEF EditorInv, Provenance, Saved
  <2>4. live \in {f \in Editors : ed'[f].pc = "saved"} \cup {Shipped}
    BY <1>3 DEF EditorInv, Provenance
  <2> QED  BY <2>2, <2>3, <2>4 DEF EditorInv, Provenance
<1>9. NeverBack'
  <2>1. \A v : Known(v) => v # Canon(e)
    BY SMTT(60), <1>0, <1>5 DEF Known, Canon
  <2>2. \A f \in Saved' : ed'[f].replaced # Canon(e)
    BY SMTT(60), <1>0, <1>3, <1>5, <2>1 DEF EditorInv, Provenance, Saved
  <2> QED  BY <1>5, <2>2 DEF NeverBack
<1>10. FileRuns'
  BY <1>5 DEF FileRuns, Canon
<1>11. NoneTwice'
  <2>1. \A f \in Saved : ed[f].replaced # pipelineVersion /\ ed'[f].replaced = ed[f].replaced
    BY <1>3, <1>5 DEF EditorInv, NeverBack, pipelineVersion, Saved
  <2> QED  BY SMTT(60), <1>3, <1>5, <2>1 DEF EditorInv, NoneTwice
<1> QED  BY <1>2, <1>6, <1>7, <1>8, <1>9, <1>10, <1>11 DEF EditorInv

\* The written definition is registered and recorded, and the lock released.
LEMMA RegisterEditorInv ==
  ASSUME EditorInv, NEW e \in Editors, SaveRegister(e) PROVE EditorInv'
<1>0. /\ EditorTypeOK /\ writeMu = e /\ writeMu' = 0 /\ ed[e].pc = "written" /\ e \in Nat /\ e # Shipped
      /\ UNCHANGED <<file, touches>> /\ live' = e /\ audit' = audit \cup {e}
      /\ ed' = [ed EXCEPT ![e].pc = "saved"]
  BY SMTT(60), EditorsAssumption DEF EditorInv, Locked, SaveRegister, RegisterPipeline, Shipped
<1>1. ed[e] \in [pc : {"written", "saved"}, loaded : Nat, etag : Version,
                 replaced : Version, meddled : BOOLEAN]
  BY <1>0 DEF EditorTypeOK
<1>2. EditorTypeOK'
  BY <1>0, <1>1 DEF EditorTypeOK
<1>3. /\ ed'[e].pc = "saved" /\ ed'[e].replaced = ed[e].replaced /\ ed'[e].etag = ed[e].etag
      /\ ed'[e].meddled = ed[e].meddled
      /\ \A f \in Editors \ {e} : ed'[f] = ed[f]
  BY <1>0, <1>1 DEF EditorTypeOK
<1>4. \A f \in Editors \ {e} : ed[f].pc \notin {"checked", "written"}
  BY <1>0 DEF EditorInv, Locked
<1>5. /\ Saved' = Saved /\ Written = {e} /\ Written' = {} /\ e \in Saved
      /\ \A f \in Saved : f \in Editors /\ ed'[f].replaced = ed[f].replaced
  BY SMTT(60), <1>0, <1>3, <1>4 DEF Saved, Written
<1>6. Locked' /\ CheckHolds'
  BY <1>3, <1>4 DEF Locked, CheckHolds
<1>7. ReplacedChecked' /\ NoneTwice'
  BY SMTT(60), <1>3, <1>5 DEF EditorInv, ReplacedChecked, NoneTwice
<1>8. Provenance'
  <2>1. \A v : Known(v) => Known(v)'
    BY <1>0, <1>5 DEF Known
  <2> QED  BY <1>0, <1>3, <1>5, <2>1 DEF EditorInv, Provenance
<1>9. NeverBack'
  BY <1>0, <1>5 DEF EditorInv, NeverBack
<1>10. FileRuns'
  BY <1>0, <1>5 DEF EditorInv, FileRuns
<1> QED  BY <1>2, <1>6, <1>7, <1>8, <1>9, <1>10 DEF EditorInv

\* The file is edited or deleted on disk.
LEMMA TouchEditorInv == ASSUME EditorInv, TouchFile PROVE EditorInv'
<1>0. /\ EditorTypeOK /\ UNCHANGED <<live, writeMu, ed, audit>> /\ touches \in Nat
      /\ touches' = touches + 1
      /\ file' \in {[def |-> Shipped + touches + 1, form |-> "hand"], NoFile}
      /\ Saved' = Saved /\ Written' = Written
  BY DEF EditorInv, EditorTypeOK, TouchFile, Saved, Written
<1>1. EditorTypeOK'
  BY SMTT(60), <1>0 DEF EditorTypeOK, Version, Shipped
<1>2. \A v \in Version : Known(v) => Known(v)' /\ v # file'
  BY SMTT(60), <1>0 DEF Version, Known, NoFile, Shipped
<1>3. \A f \in Saved : ed[f].replaced \in Version /\ Known(ed[f].replaced)
  BY <1>0 DEF EditorInv, EditorTypeOK, Provenance, Saved
<1>4. Locked' /\ ReplacedChecked' /\ NoneTwice' /\ FileRuns'
  BY SMTT(60), <1>0 DEF EditorInv, Locked, ReplacedChecked, NoneTwice, FileRuns
<1>5. CheckHolds'
  <2> SUFFICES ASSUME NEW f \in Editors, ed[f].pc = "checked"
               PROVE  ed[f].seen <= touches + 1 /\ ed[f].seen # touches + 1
    BY <1>0 DEF CheckHolds
  <2>1. ed[f].seen \in Nat /\ ed[f].seen <= touches
    BY <1>0 DEF EditorInv, EditorTypeOK, CheckHolds
  <2> QED  BY SMTT(60), <1>0, <2>1
<1>6. Provenance'
  <2>1. file' = NoFile \/ Known(file)'
    BY SMTT(60), <1>0 DEF Known, Shipped
  <2> QED  BY <1>0, <1>2, <1>3, <2>1 DEF EditorInv, Provenance
<1>7. NeverBack'
  BY <1>0, <1>2, <1>3 DEF EditorInv, NeverBack
<1> QED  BY <1>1, <1>4, <1>5, <1>6, <1>7 DEF EditorInv

\* Every step preserves the invariant.
LEMMA NextEditorInv == ASSUME EditorInv, [EditorNext]_editorVars PROVE EditorInv'
<1>1. CASE UNCHANGED editorVars
  <2>1. EditorTypeOK' /\ Locked' /\ CheckHolds'
    BY <1>1 DEF editorVars, EditorInv, EditorTypeOK, Locked, CheckHolds, pipelineVersion
  <2>2. Provenance' /\ NeverBack'
    BY <1>1 DEF editorVars, EditorInv, Provenance, NeverBack, Saved, Written, Known
  <2>3. ReplacedChecked' /\ NoneTwice'
    BY <1>1 DEF editorVars, EditorInv, ReplacedChecked, NoneTwice, Saved
  <2>4. FileRuns'
    BY <1>1 DEF editorVars, EditorInv, FileRuns, Saved, Written, pipelineVersion
  <2> QED  BY <2>1, <2>2, <2>3, <2>4 DEF EditorInv
<1>2. ASSUME NEW e \in Editors, PutWrite(e) PROVE EditorInv'
  BY <1>2, WriteEditorInv, WriteFailedEditorInv DEF PutWrite, atomicWriteFile
<1> QED  BY <1>1, <1>2, ReadEditorInv, CheckEditorInv, RegisterEditorInv, TouchEditorInv DEF EditorNext

\* writeMu serializes the saves: no two replace the same version, one replaces
\* the version its If-Match named unless the disk was edited meanwhile, and at
\* rest the definition that runs is the one in the file and in the audit log.
THEOREM SavesAlwaysSerialized == EditorSpec => []SavesSerialized
<1>1. EditorInit => EditorInv
  BY InitEditorInv
<1>2. EditorInv /\ [EditorNext]_editorVars => EditorInv'
  BY NextEditorInv
<1>3. EditorInv => SavesSerialized
  <2> SUFFICES ASSUME EditorInv PROVE SavesSerialized
    OBVIOUS
  <2>1. ASSUME touches = 0, writeMu = 0 PROVE file.def = live
    <3>1. 0 \notin Editors
      BY SMTT(60), EditorsAssumption DEF Shipped
    <3>2. Written = {}
      BY <2>1, <3>1 DEF EditorInv, Locked, Written
    <3> QED  BY <2>1, <3>2 DEF EditorInv, FileRuns
  <2> QED  BY <2>1 DEF EditorInv, NoneTwice, ReplacedChecked, Provenance, SavesSerialized
<1> QED  BY <1>1, <1>2, <1>3, PTL DEF EditorSpec
=================================================================================
