------------------------- MODULE RequestPathProofs -------------------------
(***************************************************************************)
(* For any set of agents and tenants, any requests the wire carries and    *)
(* any interleaving of their handlers: injected faults start and stop when *)
(* configured, conversations are counted once, and prompt-cache usage is   *)
(* billed once.                                                            *)
(***************************************************************************)
EXTENDS RequestPath, FiniteSetTheorems, TLAPS

\* A leaf goes to Zenon unless it names another prover.
USE ZenonT(120)

Pcs == {"idle", "clock", "limit", "errors", "sleep", "connection", "turn", "respond", "done"}
Record == [pc : Pcs, in : Wire \cup {NoInput}, agent : Agents \cup {None}, now : Nat, window : Nat,
           decided : Int, fault : {"none", "limit", "error", "connection"}, status : Int, retry : Nat,
           turn : Nat, scenario : Nat, billed : {"none", "read", "creation"}]
CacheKeys == Tenants \X SUBSET STRING

\* The type of the state.  A handler's clock reading is never ahead of the clock.
PathTypeOK ==
  /\ clock \in Nat
  /\ buckets \in [Names -> [windowStart : Nat, count : Nat]]
  /\ errorCounts \in [Names -> Nat] /\ connCounts \in [Names -> Nat]
  /\ turns = [k \in DOMAIN turns |-> turns[k]] /\ \A k \in DOMAIN turns : turns[k] \in Nat
  /\ cache \in Seq(CacheKeys)
  /\ req \in [Requests -> Record]
  /\ \A r \in Requests : req[r].now <= clock

\* A scenario that answered a turn may answer it.
Fits(sc, turn) == sc.default \/ sc.match.turn \in {0, turn}

\* FaultsOnTheWire for the record x of one request.
OnTheWire(x) ==
  /\ x.status = 0 <=> (x.fault = "connection" /\ ~x.in.h2)
  /\ (x.fault # "none" /\ x.status = 200) => (x.fault = "error" /\ 200 \in chaosFor(x.agent).errors[1].statuses)
  /\ x.status = 429 <=> x.retry >= 1
  /\ LET type == ErrorType(x.in, x.fault, x.status)
     IN /\ (x.fault # "none" /\ x.status >= 500) => type \notin {"invalid_request_error", "INVALID_ARGUMENT"}
        /\ x.status = 429 => type \in {"requests", "rate_limit_error", "RESOURCE_EXHAUSTED"}
  /\ (x.fault = "none" /\ x.turn > 0 /\ Generate(x.agent.scenarios, x.scenario)) => x.status = 200

\* What a request's control point says of the rest of its record.
AtRest(x) ==
  /\ x.pc = "idle" => x = Idle
  /\ x.pc = "done" => OnTheWire(x) /\ ((x.status = 200 /\ x.fault = "none") => x.turn > 0)
  /\ x.agent \notin Agents => x.fault = "none" /\ x.turn = 0 /\ x.decided = 0 - 1 /\ x.billed = "none"
Underway(x) ==
  /\ x.pc \notin {"idle", "done"} => x.agent \in Agents /\ x.in \in Wire /\ x.status = 0 /\ x.retry = 0 /\ x.billed = "none"
  /\ x.pc \in {"clock", "limit"} => Limited(chaosFor(x.agent)) /\ x.decided = 0 - 1
  /\ x.pc = "errors" => Armed(chaosFor(x.agent).errors)
  /\ x.pc = "connection" => Armed(chaosFor(x.agent).connection)
  /\ x.pc = "respond" => x.turn > 0 /\ Generate(x.agent.scenarios, x.scenario)
  /\ x.pc \notin {"respond", "done"} => x.turn = 0 /\ x.scenario = 0
  /\ x.pc \notin {"sleep", "done"} => x.fault = "none"
  /\ x.pc = "sleep" => x.fault = "error"
Decided(x) ==
  /\ x.decided >= 0 => Limited(chaosFor(x.agent))
  /\ x.fault = "limit" => x.decided >= 0
  /\ x.fault # "none" => x.turn = 0
  /\ x.scenario # 0 => x.turn > 0 /\ Fits(x.agent.scenarios[x.scenario], x.turn)
Sound(x) == AtRest(x) /\ Underway(x) /\ Decided(x)

\* fail_first: the counter is the number of requests that were counted, those it
\* failed first and those it let through.
Tally(count, n, failed, passed) ==
  /\ count = Cardinality(failed) + Cardinality(passed)
  /\ Outage(Cardinality(failed), n, passed)
ErrorsTally(a) ==
  FailsFirst(a.chaos.errors) > 0 =>
    Tally(errorCounts[a.name], FailsFirst(a.chaos.errors), Faulted(a.name, "error"), PastErrors(a.name))
ConnectionTally(a) ==
  FailsFirst(a.chaos.connection) > 0 =>
    Tally(connCounts[a.name], FailsFirst(a.chaos.connection), Faulted(a.name, "connection"), PastFaults(a.name))

\* The rate limit: the bucket counts the requests decided in the latest window,
\* and the windows before it are over.
Peers(n) == {q \in Of(n) : req[q].decided >= 0}
InWindow(n, w) == {q \in Peers(n) : req[q].window = w}
Admitted(n, w) == {q \in InWindow(n, w) : req[q].fault # "limit"}
BucketCounts(n) ==
  /\ \A w \in Nat : w = buckets[n].windowStart => buckets[n].count = Cardinality(InWindow(n, w))
  /\ buckets[n].count = 0 => Peers(n) = {}
WindowsApart(n, limit) ==
  /\ \A q \in Peers(n) : \/ req[q].window = buckets[n].windowStart
                         \/ buckets[n].windowStart - req[q].window >= limit.window
  /\ \A p, q \in Peers(n) : \/ req[p].window = req[q].window
                            \/ req[p].window - req[q].window >= limit.window
                            \/ req[q].window - req[p].window >= limit.window
WithinLimit(n, limit) ==
  /\ \A w \in Nat : Admitted(n, w) # {} => Cardinality(Admitted(n, w)) <= limit.requests
  /\ \A q \in Peers(n) :
       req[q].fault = "limit" => req[q].decided + req[q].retry * Second >= req[q].window + limit.window
LimitKept(a) ==
  /\ BucketCounts(a.name)
  /\ WindowsApart(a.name, a.chaos.limit[1])
  /\ WithinLimit(a.name, a.chaos.limit[1])

\* The turns of a conversation, numbered from one without gap or repetition.
TurnsIn(k) == {r \in Requests : req[r].turn > 0 /\ scopedSessionKey(r) = k}
TurnsNumbered ==
  /\ \A k \in DOMAIN turns : {req[r].turn : r \in TurnsIn(k)} = 1..turns[k] /\ Cardinality(TurnsIn(k)) = turns[k]
  /\ \A r \in Requests : req[r].turn > 0 => scopedSessionKey(r) \in DOMAIN turns
  /\ \A r, q \in Requests : (r # q /\ req[r].turn > 0 /\ scopedSessionKey(r) = scopedSessionKey(q)) => req[r].turn # req[q].turn

\* The tracker holds, without repetition, contents that were billed, and all of
\* them while they fit.
CacheKey(r) == <<req[r].in.tenant, req[r].in.marked>>
BilledAs(how) == {r \in Requests : req[r].billed = how}
Created == {CacheKey(r) : r \in BilledAs("creation")}
CacheTracks ==
  /\ Len(cache) <= MaxCache
  /\ \A i, j \in 1..Len(cache) : cache[i] = cache[j] => i = j
  /\ Range(cache) \subseteq Created
  /\ Cardinality(Created) <= MaxCache => Range(cache) = Created /\ Cardinality(BilledAs("creation")) = Cardinality(Created)
  /\ \A r \in BilledAs("read") : CacheKey(r) \in Created

\* The inductive invariant.
PathInv ==
  /\ PathTypeOK
  /\ \A r \in Requests : Sound(req[r])
  /\ \A a \in Agents : Alike(a) => ErrorsTally(a) /\ ConnectionTally(a) /\ LimitKept(a)
  /\ TurnsNumbered
  /\ CacheTracks

-----------------------------------------------------------------------------
(* Facts about the operators.                                              *)

\* The sections of a disabled block with no section are empty either way.
LEMMA SectionsOfAgent ==
  ASSUME NEW a \in Agents
  PROVE  /\ chaosFor(a).limit = a.chaos.limit
         /\ chaosFor(a).errors = a.chaos.errors
         /\ chaosFor(a).connection = a.chaos.connection
  BY DEF chaosFor, hasAnyChaosSection, None

\* The agent of no request is not registered.
LEMMA NoneUnregistered == None \notin Agents /\ NoAgent \notin Agents /\ None.name \notin Names
  BY PathAssumption DEF None, NoAgent, Names

\* Agents of one name whose faults are the same.
LEMMA AlikeSections ==
  ASSUME NEW a \in Agents, NEW b \in Agents, Alike(a), b.name = a.name
  PROVE  b.chaos = a.chaos
  BY DEF Alike

\* Rounded up to whole seconds, a wait is not shortened and is at least one.
LEMMA CeilSecondsEnough ==
  ASSUME NEW t \in Nat, t > 0
  PROVE  CeilSeconds(t) \in Nat /\ CeilSeconds(t) >= 1 /\ CeilSeconds(t) * Second >= t
<1>1. Second \in Nat \ {0}
  BY PathAssumption
<1>2. ASSUME NEW a \in Nat, NEW n \in Nat \ {0}
      PROVE  /\ a \div n \in Nat
             /\ n * (a \div n) <= a /\ a < n * (a \div n) + n
  BY SMTT(60), <1>2
<1> DEFINE x == t + Second - 1
           c == x \div Second
<1>3. x \in Nat /\ x >= Second
  BY SMTT(60), <1>1
<1>4. c \in Nat /\ x < Second * c + Second
  BY <1>1, <1>2, <1>3
<1>5. CeilSeconds(t) = c
  BY DEF CeilSeconds
<1> HIDE DEF c
<1>6. Second * c = c * Second
  BY SMTT(60), <1>1, <1>4
<1>7. c * Second \in Nat /\ c * Second >= t
  BY SMTT(60), <1>1, <1>4, <1>6
<1>8. c # 0
  <2>1. SUFFICES ASSUME c = 0 PROVE FALSE
    OBVIOUS
  <2>2. c * Second = 0
    BY SMTT(60), <1>1, <2>1
  <2> QED  BY SMTT(60), <1>7, <2>2
<1> QED  BY SMTT(60), <1>4, <1>5, <1>7, <1>8

\* A non-empty set of positive numbers has a least one.
LEMMA LeastExists ==
  ASSUME NEW S, S \subseteq Nat, S # {}
  PROVE  \E i \in S : \A j \in S : i <= j
<1>1. \E i \in S : \A j \in S : ~(<<j, i>> \in OpToRel(<, Nat))
  BY NatLessThanWellFounded, WFMin
<1>2. PICK i \in S : \A j \in S : ~(<<j, i>> \in OpToRel(<, Nat))
  BY <1>1
<1>3. ASSUME NEW j \in S PROVE i <= j
  <2>1. i \in Nat /\ j \in Nat
    OBVIOUS
  <2>2. ~(j < i)
    BY <1>2, <2>1 DEF OpToRel
  <2> QED  BY SMTT(60), <2>1, <2>2
<1> QED  BY <1>3

\* The scenario served is the fallback or one whose turn fits.
LEMMA MatchFits ==
  ASSUME NEW scenarios, DOMAIN scenarios \subseteq Nat \ {0}, NEW words, NEW turn, NEW images
  PROVE  LET i == MatchWithCaptures(scenarios, words, turn, images)
         IN  i \in Nat /\ (i # 0 => i \in DOMAIN scenarios /\ Fits(scenarios[i], turn))
<1> DEFINE hits == {i \in DOMAIN scenarios : ~scenarios[i].default /\ evaluate(scenarios[i].match, words, turn, images)}
           defs == {i \in DOMAIN scenarios : scenarios[i].default}
           First(S) == CHOOSE i \in S : \A j \in S : i <= j
           m == MatchWithCaptures(scenarios, words, turn, images)
<1>1. hits \subseteq Nat /\ defs \subseteq Nat
  OBVIOUS
<1>2. hits # {} => First(hits) \in hits
  BY <1>1, LeastExists
<1>3. defs # {} => First(defs) \in defs
  BY <1>1, LeastExists
<1>4. m = CASE hits # {} -> First(hits) [] hits = {} /\ defs # {} -> First(defs) [] OTHER -> 0
  BY DEF MatchWithCaptures
<1>5. CASE hits # {}
  <2>1. m = First(hits) /\ m \in hits
    BY <1>2, <1>4, <1>5
  <2> QED  BY <2>1 DEF Fits, evaluate
<1>6. CASE hits = {} /\ defs # {}
  <2>1. m = First(defs) /\ m \in defs
    BY <1>3, <1>4, <1>6
  <2> QED  BY <2>1 DEF Fits
<1>7. CASE hits = {} /\ defs = {}
  BY SMTT(60), <1>4, <1>7
<1> QED  BY <1>5, <1>6, <1>7

\* What the handlers' checks answer.
LEMMA RefusedAnswers ==
  ASSUME NEW input \in Wire
  PROVE  Refused(input) \in {200, 400, 401, 413}
<1> DEFINE Answers == {200, 400, 401, 413}
<1>1. /\ decodeJSONBody(input.body) \in Answers
      /\ required(input.model # "") \in Answers /\ required(input.msgs # << >>) \in Answers
      /\ checkAnthropicAuth(input) \in Answers
  BY SMTT(60) DEF decodeJSONBody, required, checkAnthropicAuth
<1>2. ASSUME NEW a \in Answers, NEW b \in Answers
      PROVE  FirstRefusal(<<a, b>>) \in Answers
  BY SMTT(60) DEF FirstRefusal
<1>3. ASSUME NEW a \in Answers, NEW b \in Answers, NEW c \in Answers
      PROVE  FirstRefusal(<<a, b, c>>) \in Answers
  BY SMTT(60) DEF FirstRefusal
<1>4. ASSUME NEW a \in Answers, NEW b \in Answers, NEW c \in Answers, NEW d \in Answers
      PROVE  FirstRefusal(<<a, b, c, d>>) \in Answers
  BY SMTT(60) DEF FirstRefusal
<1> HIDE DEF Answers
<1>5. HandleChatCompletions(input) \in Answers /\ handleDeploymentChat(input) \in Answers
      /\ HandleMessages(input) \in Answers /\ HandleGenerate(input) \in Answers
  BY <1>1, <1>2, <1>3, <1>4 DEF HandleChatCompletions, handleDeploymentChat, HandleMessages, HandleGenerate
<1>6. input.proto \in {"openai", "azure", "anthropic", "gemini"}
  BY DEF Wire
<1> QED  BY SMTT(60), <1>5, <1>6 DEF Refused, Answers

\* A lookup finds a registered agent or none.
LEMMA ResolvedAgent ==
  ASSUME NEW input
  PROVE  resolveAgentForTenant(input) \in Agents \/ resolveAgentForTenant(input) = NoAgent
<1> DEFINE list  == VisibleTo(input.tenant)
           model == {a \in list : a.name = input.model}
           own   == {a \in model : a.tenant = input.tenant}
<1>1. list \subseteq Agents /\ model \subseteq Agents /\ own \subseteq Agents
  BY DEF VisibleTo
<1>2. resolveAgentForTenant(input) =
        CASE own # {} -> CHOOSE a \in own : TRUE
          [] own = {} /\ model # {} -> CHOOSE a \in model : TRUE
          [] model = {} /\ input.tenant = "" /\ Cardinality(list) = 1 -> CHOOSE a \in list : TRUE
          [] OTHER -> NoAgent
  BY DEF resolveAgentForTenant
<1>3. model = {} => own = {}
  OBVIOUS
<1>4. Cardinality(list) = 1 => list # {}
  BY SMTT(60), FS_EmptySet
<1> HIDE DEF list, model, own
<1>5. /\ own # {} => (CHOOSE a \in own : TRUE) \in Agents
      /\ model # {} => (CHOOSE a \in model : TRUE) \in Agents
      /\ list # {} => (CHOOSE a \in list : TRUE) \in Agents
  BY <1>1
<1>6. CASE own # {}
  BY <1>2, <1>3, <1>5, <1>6
<1>7. CASE own = {} /\ model # {}
  BY <1>2, <1>5, <1>7
<1>8. CASE own = {} /\ model = {}
  BY <1>2, <1>4, <1>5, <1>8
<1> QED  BY <1>6, <1>7, <1>8

\* The first of a sequence that is not empty.
LEMMA FirstOf == ASSUME NEW S, NEW s \in Seq(S), s # << >> PROVE s[1] \in S
  BY SMTT(60)

\* fail_first is a number, zero without a section.
LEMMA FailsFirstNumber ==
  ASSUME NEW a \in Agents
  PROVE  FailsFirst(a.chaos.errors) \in Int /\ FailsFirst(a.chaos.connection) \in Int
<1> DEFINE R == [failFirst : Int, rate : Int, statuses : SUBSET Int, timeout : BOOLEAN]
<1>1. a.chaos.errors \in Seq(R) /\ a.chaos.connection \in Seq(R)
  BY PathAssumption
<1>2. ASSUME NEW s \in Seq(R) PROVE FailsFirst(s) \in Int
  <2>1. CASE s = << >>
    BY SMTT(60), <2>1 DEF FailsFirst
  <2>2. CASE s # << >>
    <3>1. s[1] \in R
      BY <2>2, FirstOf
    <3>2. s[1].failFirst \in Int
      BY <3>1
    <3> QED  BY <2>2, <3>2 DEF FailsFirst
  <2> QED  BY <2>1, <2>2
<1> QED  BY <1>1, <1>2

\* One more request that fails while the count is within the first n.
LEMMA TallyFails ==
  ASSUME NEW count \in Nat, NEW n \in Nat, NEW F, NEW P, NEW r, IsFiniteSet(F), IsFiniteSet(P),
         Tally(count, n, F, P), r \notin F, count + 1 <= n
  PROVE  Tally(count + 1, n, F \cup {r}, P)
<1>1. Cardinality(F) \in Nat /\ Cardinality(P) \in Nat /\ (P # {} => Cardinality(P) # 0)
      /\ Cardinality(F \cup {r}) = Cardinality(F) + 1
  BY FS_CardinalityType, FS_EmptySet, FS_AddElement
<1> QED  BY SMTT(60), <1>1 DEF Tally, Outage

\* One more request that is let through once the first n were counted.
LEMMA TallyPasses ==
  ASSUME NEW count \in Nat, NEW n \in Nat, NEW F, NEW P, NEW r, IsFiniteSet(F), IsFiniteSet(P),
         Tally(count, n, F, P), r \notin P, ~(count + 1 <= n)
  PROVE  Tally(count + 1, n, F, P \cup {r})
<1>1. Cardinality(F) \in Nat /\ Cardinality(P) \in Nat /\ (P = {} => Cardinality(P) = 0)
      /\ Cardinality(P \cup {r}) = Cardinality(P) + 1
  BY FS_CardinalityType, FS_EmptySet, FS_AddElement
<1> QED  BY SMTT(60), <1>1 DEF Tally, Outage

-----------------------------------------------------------------------------
(* A step of one request: what it may leave as it was.                     *)

Moves(r) == req' \in [Requests -> Record] /\ \A q \in Requests : q # r => req'[q] = req[q]

FailedIn(x, n, fault) == x.agent.name = n /\ x.fault = fault
PastErrorsIn(x, n) ==
  x.agent.name = n /\ x.fault \in {"none", "connection"} /\ x.pc \in {"connection", "turn", "respond", "done"}
PastFaultsIn(x, n) == x.agent.name = n /\ x.fault = "none" /\ x.pc \in {"turn", "respond", "done"}

\* A step from record x to record y that the fail_first counters of the agents
\* named n take no notice of.
ErrorsSame(x, y, n) ==
  /\ FailedIn(y, n, "error") <=> FailedIn(x, n, "error")
  /\ PastErrorsIn(y, n) <=> PastErrorsIn(x, n)
ConnectionSame(x, y, n) ==
  /\ FailedIn(y, n, "connection") <=> FailedIn(x, n, "connection")
  /\ PastFaultsIn(y, n) <=> PastFaultsIn(x, n)
\* The same for their rate limit, for the turns and for the bills.
PeerIn(x, n) == x.agent.name = n /\ x.decided >= 0
LimitSame(x, y, n) ==
  /\ PeerIn(y, n) <=> PeerIn(x, n)
  /\ PeerIn(x, n) => /\ y.decided = x.decided /\ y.window = x.window
                     /\ y.fault = "limit" <=> x.fault = "limit"
                     /\ x.fault = "limit" => y.retry = x.retry
TurnSame(x, y) == y.turn = x.turn /\ (x.turn > 0 => y.in = x.in /\ y.agent = x.agent)
BilledSame(x, y) == y.billed = x.billed /\ (x.billed # "none" => y.in = x.in)

\* The requests a counter counts are finitely many.
LEMMA CountedFinite ==
  ASSUME NEW n
  PROVE  /\ \A f : IsFiniteSet(Faulted(n, f))
         /\ IsFiniteSet(PastErrors(n)) /\ IsFiniteSet(PastFaults(n)) /\ IsFiniteSet(Peers(n))
         /\ \A w : IsFiniteSet(InWindow(n, w)) /\ IsFiniteSet(Admitted(n, w))
<1>1. ASSUME NEW S \in SUBSET Requests PROVE IsFiniteSet(S)
  BY PathAssumption, FS_Subset
<1>2. /\ \A f : Faulted(n, f) \in SUBSET Requests
      /\ PastErrors(n) \in SUBSET Requests /\ PastFaults(n) \in SUBSET Requests /\ Peers(n) \in SUBSET Requests
      /\ \A w : InWindow(n, w) \in SUBSET Requests /\ Admitted(n, w) \in SUBSET Requests
  BY DEF Faulted, PastErrors, PastFaults, Peers, InWindow, Admitted, Of
<1> QED  BY <1>1, <1>2

\* A step the error counter takes no notice of.
LEMMA ErrorsSameTally ==
  ASSUME NEW r \in Requests, Moves(r), NEW a \in Agents, ErrorsTally(a), errorCounts'[a.name] = errorCounts[a.name],
         FailsFirst(a.chaos.errors) > 0 => ErrorsSame(req[r], req'[r], a.name)
  PROVE  ErrorsTally(a)'
<1> SUFFICES ASSUME FailsFirst(a.chaos.errors) > 0
             PROVE  /\ Faulted(a.name, "error")' = Faulted(a.name, "error")
                    /\ PastErrors(a.name)' = PastErrors(a.name)
  BY DEF ErrorsTally
<1>1. ASSUME NEW q \in Requests
      PROVE  /\ FailedIn(req'[q], a.name, "error") <=> FailedIn(req[q], a.name, "error")
             /\ PastErrorsIn(req'[q], a.name) <=> PastErrorsIn(req[q], a.name)
  <2>1. CASE q = r
    BY <2>1 DEF ErrorsSame
  <2>2. CASE q # r
    BY <2>2 DEF Moves
  <2> QED  BY <2>1, <2>2
<1>2. Faulted(a.name, "error") = {q \in Requests : FailedIn(req[q], a.name, "error")}
      /\ PastErrors(a.name) = {q \in Requests : PastErrorsIn(req[q], a.name)}
  BY DEF Faulted, PastErrors, Of, FailedIn, PastErrorsIn
<1>3. Faulted(a.name, "error")' = {q \in Requests : FailedIn(req'[q], a.name, "error")}
      /\ PastErrors(a.name)' = {q \in Requests : PastErrorsIn(req'[q], a.name)}
  BY DEF Faulted, PastErrors, Of, FailedIn, PastErrorsIn
<1> QED  BY <1>1, <1>2, <1>3

\* A step the connection-fault counter takes no notice of.
LEMMA ConnectionSameTally ==
  ASSUME NEW r \in Requests, Moves(r), NEW a \in Agents, ConnectionTally(a), connCounts'[a.name] = connCounts[a.name],
         FailsFirst(a.chaos.connection) > 0 => ConnectionSame(req[r], req'[r], a.name)
  PROVE  ConnectionTally(a)'
<1> SUFFICES ASSUME FailsFirst(a.chaos.connection) > 0
             PROVE  /\ Faulted(a.name, "connection")' = Faulted(a.name, "connection")
                    /\ PastFaults(a.name)' = PastFaults(a.name)
  BY DEF ConnectionTally
<1>1. ASSUME NEW q \in Requests
      PROVE  /\ FailedIn(req'[q], a.name, "connection") <=> FailedIn(req[q], a.name, "connection")
             /\ PastFaultsIn(req'[q], a.name) <=> PastFaultsIn(req[q], a.name)
  <2>1. CASE q = r
    BY <2>1 DEF ConnectionSame
  <2>2. CASE q # r
    BY <2>2 DEF Moves
  <2> QED  BY <2>1, <2>2
<1>2. Faulted(a.name, "connection") = {q \in Requests : FailedIn(req[q], a.name, "connection")}
      /\ PastFaults(a.name) = {q \in Requests : PastFaultsIn(req[q], a.name)}
  BY DEF Faulted, PastFaults, Of, FailedIn, PastFaultsIn
<1>3. Faulted(a.name, "connection")' = {q \in Requests : FailedIn(req'[q], a.name, "connection")}
      /\ PastFaults(a.name)' = {q \in Requests : PastFaultsIn(req'[q], a.name)}
  BY DEF Faulted, PastFaults, Of, FailedIn, PastFaultsIn
<1> QED  BY <1>1, <1>2, <1>3

\* A step the rate limit takes no notice of.
LEMMA LimitSameKept ==
  ASSUME NEW r \in Requests, Moves(r), NEW a \in Agents, LimitKept(a), buckets'[a.name] = buckets[a.name],
         LimitSame(req[r], req'[r], a.name)
  PROVE  LimitKept(a)'
<1> DEFINE n == a.name
<1>1. ASSUME NEW q \in Requests PROVE LimitSame(req[q], req'[q], n)
  <2>1. CASE q = r
    BY <2>1
  <2>2. CASE q # r
    BY <2>2 DEF Moves, LimitSame
  <2> QED  BY <2>1, <2>2
<1>2. Peers(n)' = Peers(n)
  BY <1>1 DEF Peers, Of, LimitSame, PeerIn
<1>3. ASSUME NEW q \in Peers(n)
      PROVE  /\ req'[q].decided = req[q].decided /\ req'[q].window = req[q].window
             /\ req'[q].fault = "limit" <=> req[q].fault = "limit"
             /\ req[q].fault = "limit" => req'[q].retry = req[q].retry
  BY <1>1 DEF Peers, Of, LimitSame, PeerIn
<1>4. ASSUME NEW w PROVE InWindow(n, w)' = InWindow(n, w)
  BY <1>2, <1>3 DEF InWindow
<1>6. ASSUME NEW w PROVE Admitted(n, w)' = Admitted(n, w)
  <2>1. InWindow(n, w) \subseteq Peers(n)
    BY DEF InWindow
  <2> QED  BY SMTT(60), <1>3, <1>4, <2>1 DEF Admitted
<1> HIDE DEF n
<1>7. BucketCounts(n)'
  <2>1. BucketCounts(n)
    BY DEF LimitKept, n
  <2> QED  BY <1>2, <1>4, <2>1 DEF BucketCounts, n
<1>8. WindowsApart(n, a.chaos.limit[1])'
  <2>1. WindowsApart(n, a.chaos.limit[1])
    BY DEF LimitKept, n
  <2> QED  BY SMTT(60), <1>2, <1>3, <2>1 DEF WindowsApart, n
<1>9. WithinLimit(n, a.chaos.limit[1])'
  <2>1. WithinLimit(n, a.chaos.limit[1])
    BY DEF LimitKept, n
  <2>2. \A w \in Nat : Admitted(n, w)' # {} => Cardinality(Admitted(n, w)') <= a.chaos.limit[1].requests
    BY <1>6, <2>1 DEF WithinLimit
  <2>3. ASSUME NEW q \in Peers(n), req'[q].fault = "limit"
        PROVE  req'[q].decided + req'[q].retry * Second >= req'[q].window + a.chaos.limit[1].window
    <3>1. req'[q].window = req[q].window /\ req'[q].decided = req[q].decided /\ req'[q].retry = req[q].retry
          /\ req[q].fault = "limit"
      BY <1>3, <2>3
    <3> QED  BY <2>1, <3>1 DEF WithinLimit
  <2> QED  BY <1>2, <2>2, <2>3 DEF WithinLimit
<1> QED  BY <1>7, <1>8, <1>9 DEF LimitKept, n

\* A step that is nobody's turn.
LEMMA TurnSameNumbered ==
  ASSUME NEW r \in Requests, Moves(r), TurnSame(req[r], req'[r]), turns' = turns, TurnsNumbered
  PROVE  TurnsNumbered'
<1>1. ASSUME NEW q \in Requests
      PROVE  req'[q].turn = req[q].turn /\ (req[q].turn > 0 => scopedSessionKey(q)' = scopedSessionKey(q))
  <2>1. CASE q = r
    BY <2>1 DEF TurnSame, scopedSessionKey
  <2>2. CASE q # r
    BY <2>2 DEF Moves, scopedSessionKey
  <2> QED  BY <2>1, <2>2
<1>2. ASSUME NEW k PROVE TurnsIn(k)' = TurnsIn(k)
  BY <1>1 DEF TurnsIn
<1>3. ASSUME NEW k PROVE {req'[q].turn : q \in TurnsIn(k)} = {req[q].turn : q \in TurnsIn(k)}
  BY <1>1 DEF TurnsIn
<1>4. ASSUME NEW p \in Requests, NEW q \in Requests, p # q, req'[p].turn > 0, scopedSessionKey(p)' = scopedSessionKey(q)'
      PROVE  req'[p].turn # req'[q].turn
  <2>1. CASE req[q].turn > 0
    BY SMTT(60), <1>1, <1>4, <2>1 DEF TurnsNumbered
  <2>2. CASE ~(req[q].turn > 0)
    BY <1>1, <1>4, <2>2
  <2> QED  BY <2>1, <2>2
<1>5. \A k \in DOMAIN turns' : {req'[q].turn : q \in TurnsIn(k)'} = 1..turns'[k] /\ Cardinality(TurnsIn(k)') = turns'[k]
  BY <1>2, <1>3 DEF TurnsNumbered
<1>6. \A q \in Requests : req'[q].turn > 0 => scopedSessionKey(q)' \in DOMAIN turns'
  BY <1>1 DEF TurnsNumbered
<1> QED  BY <1>4, <1>5, <1>6 DEF TurnsNumbered

\* A step that bills nothing.
LEMMA BilledSameTracks ==
  ASSUME NEW r \in Requests, Moves(r), BilledSame(req[r], req'[r]), cache' = cache, CacheTracks
  PROVE  CacheTracks'
<1>1. ASSUME NEW q \in Requests
      PROVE  req'[q].billed = req[q].billed /\ (req[q].billed # "none" => CacheKey(q)' = CacheKey(q))
  <2>1. CASE q = r
    BY <2>1 DEF BilledSame, CacheKey
  <2>2. CASE q # r
    BY <2>2 DEF Moves, CacheKey
  <2> QED  BY <2>1, <2>2
<1>2. BilledAs("creation")' = BilledAs("creation") /\ BilledAs("read")' = BilledAs("read")
  BY <1>1 DEF BilledAs
<1>3. ASSUME NEW q \in BilledAs("creation") \cup BilledAs("read") PROVE CacheKey(q)' = CacheKey(q)
  BY <1>1 DEF BilledAs
<1>4. Created' = Created
  BY <1>2, <1>3 DEF Created
<1> QED  BY <1>2, <1>3, <1>4 DEF CacheTracks

\* One more request fails: the counter of its agent's name goes up.
LEMMA ErrorsFail ==
  ASSUME PathTypeOK, NEW r \in Requests, Moves(r), NEW a \in Agents, ErrorsTally(a), FailsFirst(a.chaos.errors) > 0,
         errorCounts'[a.name] = errorCounts[a.name] + 1, errorCounts[a.name] + 1 <= FailsFirst(a.chaos.errors),
         ~FailedIn(req[r], a.name, "error"), FailedIn(req'[r], a.name, "error"),
         ~PastErrorsIn(req[r], a.name), ~PastErrorsIn(req'[r], a.name)
  PROVE  ErrorsTally(a)'
<1> DEFINE F == Faulted(a.name, "error")
           P == PastErrors(a.name)
           N == FailsFirst(a.chaos.errors)
<1>1. F = {q \in Requests : FailedIn(req[q], a.name, "error")} /\ P = {q \in Requests : PastErrorsIn(req[q], a.name)}
  BY DEF Faulted, PastErrors, Of, FailedIn, PastErrorsIn
<1>2. F' = {q \in Requests : FailedIn(req'[q], a.name, "error")} /\ P' = {q \in Requests : PastErrorsIn(req'[q], a.name)}
  BY DEF Faulted, PastErrors, Of, FailedIn, PastErrorsIn
<1>3. F' = F \cup {r} /\ P' = P /\ r \notin F
  BY <1>1, <1>2 DEF Moves
<1>4. IsFiniteSet(F) /\ IsFiniteSet(P) /\ errorCounts[a.name] \in Nat /\ N \in Nat
  <2>1. IsFiniteSet(F) /\ IsFiniteSet(P)
    BY CountedFinite
  <2>2. errorCounts[a.name] \in Nat
    BY DEF Names, PathTypeOK
  <2>3. N \in Int /\ N > 0
    BY FailsFirstNumber
  <2> HIDE DEF N
  <2>4. N \in Nat
    BY SMTT(60), <2>3
  <2> QED  BY <2>1, <2>2, <2>4
<1>5. Tally(errorCounts[a.name], N, F, P)
  BY DEF ErrorsTally
<1> HIDE DEF F, P, N
<1>6. Tally(errorCounts[a.name] + 1, N, F \cup {r}, P)
  BY <1>3, <1>4, <1>5, TallyFails DEF N
<1>7. Tally(errorCounts'[a.name], N, F', P')
  BY <1>3, <1>6
<1> QED  BY <1>7 DEF ErrorsTally, Tally, F, P, N

\* One more request is let through once the first were counted.
LEMMA ErrorsPass ==
  ASSUME PathTypeOK, NEW r \in Requests, Moves(r), NEW a \in Agents, ErrorsTally(a), FailsFirst(a.chaos.errors) > 0,
         errorCounts'[a.name] = errorCounts[a.name] + 1, ~(errorCounts[a.name] + 1 <= FailsFirst(a.chaos.errors)),
         ~FailedIn(req[r], a.name, "error"), ~FailedIn(req'[r], a.name, "error"),
         ~PastErrorsIn(req[r], a.name), PastErrorsIn(req'[r], a.name)
  PROVE  ErrorsTally(a)'
<1> DEFINE F == Faulted(a.name, "error")
           P == PastErrors(a.name)
           N == FailsFirst(a.chaos.errors)
<1>1. F = {q \in Requests : FailedIn(req[q], a.name, "error")} /\ P = {q \in Requests : PastErrorsIn(req[q], a.name)}
  BY DEF Faulted, PastErrors, Of, FailedIn, PastErrorsIn
<1>2. F' = {q \in Requests : FailedIn(req'[q], a.name, "error")} /\ P' = {q \in Requests : PastErrorsIn(req'[q], a.name)}
  BY DEF Faulted, PastErrors, Of, FailedIn, PastErrorsIn
<1>3. F' = F /\ P' = P \cup {r} /\ r \notin P
  BY <1>1, <1>2 DEF Moves
<1>4. IsFiniteSet(F) /\ IsFiniteSet(P) /\ errorCounts[a.name] \in Nat /\ N \in Nat
  <2>1. IsFiniteSet(F) /\ IsFiniteSet(P)
    BY CountedFinite
  <2>2. errorCounts[a.name] \in Nat
    BY DEF Names, PathTypeOK
  <2>3. N \in Int /\ N > 0
    BY FailsFirstNumber
  <2> HIDE DEF N
  <2>4. N \in Nat
    BY SMTT(60), <2>3
  <2> QED  BY <2>1, <2>2, <2>4
<1>5. Tally(errorCounts[a.name], N, F, P)
  BY DEF ErrorsTally
<1> HIDE DEF F, P, N
<1>6. Tally(errorCounts[a.name] + 1, N, F, P \cup {r})
  BY <1>3, <1>4, <1>5, TallyPasses DEF N
<1>7. Tally(errorCounts'[a.name], N, F', P')
  BY <1>3, <1>6
<1> QED  BY <1>7 DEF ErrorsTally, Tally, F, P, N

\* One more connection is cut: the counter of its agent's name goes up.
LEMMA ConnectionFail ==
  ASSUME PathTypeOK, NEW r \in Requests, Moves(r), NEW a \in Agents, ConnectionTally(a), FailsFirst(a.chaos.connection) > 0,
         connCounts'[a.name] = connCounts[a.name] + 1, connCounts[a.name] + 1 <= FailsFirst(a.chaos.connection),
         ~FailedIn(req[r], a.name, "connection"), FailedIn(req'[r], a.name, "connection"),
         ~PastFaultsIn(req[r], a.name), ~PastFaultsIn(req'[r], a.name)
  PROVE  ConnectionTally(a)'
<1> DEFINE F == Faulted(a.name, "connection")
           P == PastFaults(a.name)
           N == FailsFirst(a.chaos.connection)
<1>1. F = {q \in Requests : FailedIn(req[q], a.name, "connection")} /\ P = {q \in Requests : PastFaultsIn(req[q], a.name)}
  BY DEF Faulted, PastFaults, Of, FailedIn, PastFaultsIn
<1>2. F' = {q \in Requests : FailedIn(req'[q], a.name, "connection")} /\ P' = {q \in Requests : PastFaultsIn(req'[q], a.name)}
  BY DEF Faulted, PastFaults, Of, FailedIn, PastFaultsIn
<1>3. F' = F \cup {r} /\ P' = P /\ r \notin F
  BY SMTT(60), <1>1, <1>2 DEF Moves
<1>4. IsFiniteSet(F) /\ IsFiniteSet(P) /\ connCounts[a.name] \in Nat /\ N \in Nat
  <2>1. IsFiniteSet(F) /\ IsFiniteSet(P)
    BY CountedFinite
  <2>2. connCounts[a.name] \in Nat
    BY DEF Names, PathTypeOK
  <2>3. N \in Int /\ N > 0
    BY FailsFirstNumber
  <2> HIDE DEF N
  <2>4. N \in Nat
    BY SMTT(60), <2>3
  <2> QED  BY <2>1, <2>2, <2>4
<1>5. Tally(connCounts[a.name], N, F, P)
  BY DEF ConnectionTally
<1> HIDE DEF F, P, N
<1>6. Tally(connCounts[a.name] + 1, N, F \cup {r}, P)
  BY <1>3, <1>4, <1>5, TallyFails DEF N
<1>7. Tally(connCounts'[a.name], N, F', P')
  BY <1>3, <1>6
<1> QED  BY <1>7 DEF ConnectionTally, Tally, F, P, N

\* One more connection is kept once the first were counted.
LEMMA ConnectionPass ==
  ASSUME PathTypeOK, NEW r \in Requests, Moves(r), NEW a \in Agents, ConnectionTally(a), FailsFirst(a.chaos.connection) > 0,
         connCounts'[a.name] = connCounts[a.name] + 1, ~(connCounts[a.name] + 1 <= FailsFirst(a.chaos.connection)),
         ~FailedIn(req[r], a.name, "connection"), ~FailedIn(req'[r], a.name, "connection"),
         ~PastFaultsIn(req[r], a.name), PastFaultsIn(req'[r], a.name)
  PROVE  ConnectionTally(a)'
<1> DEFINE F == Faulted(a.name, "connection")
           P == PastFaults(a.name)
           N == FailsFirst(a.chaos.connection)
<1>1. F = {q \in Requests : FailedIn(req[q], a.name, "connection")} /\ P = {q \in Requests : PastFaultsIn(req[q], a.name)}
  BY DEF Faulted, PastFaults, Of, FailedIn, PastFaultsIn
<1>2. F' = {q \in Requests : FailedIn(req'[q], a.name, "connection")} /\ P' = {q \in Requests : PastFaultsIn(req'[q], a.name)}
  BY DEF Faulted, PastFaults, Of, FailedIn, PastFaultsIn
<1>3. F' = F /\ P' = P \cup {r} /\ r \notin P
  BY <1>1, <1>2 DEF Moves
<1>4. IsFiniteSet(F) /\ IsFiniteSet(P) /\ connCounts[a.name] \in Nat /\ N \in Nat
  <2>1. IsFiniteSet(F) /\ IsFiniteSet(P)
    BY CountedFinite
  <2>2. connCounts[a.name] \in Nat
    BY DEF Names, PathTypeOK
  <2>3. N \in Int /\ N > 0
    BY FailsFirstNumber
  <2> HIDE DEF N
  <2>4. N \in Nat
    BY SMTT(60), <2>3
  <2> QED  BY <2>1, <2>2, <2>4
<1>5. Tally(connCounts[a.name], N, F, P)
  BY DEF ConnectionTally
<1> HIDE DEF F, P, N
<1>6. Tally(connCounts[a.name] + 1, N, F, P \cup {r})
  BY <1>3, <1>4, <1>5, TallyPasses DEF N
<1>7. Tally(connCounts'[a.name], N, F', P')
  BY <1>3, <1>6
<1> QED  BY <1>7 DEF ConnectionTally, Tally, F, P, N

-----------------------------------------------------------------------------
(* The steps.                                                              *)

\* The next check after the rate limit, and after the error check.
LEMMA NextCheck ==
  ASSUME NEW a \in Agents
  PROVE  LET c == chaosFor(a)
         IN  /\ AfterLimit(c) \in {"errors", "connection", "turn"}
             /\ AfterErrors(c) \in {"connection", "turn"}
             /\ AfterLimit(c) = "errors" => Armed(c.errors)
             /\ AfterLimit(c) = "connection" => Armed(c.connection)
             /\ AfterErrors(c) = "connection" => Armed(c.connection)
             /\ FailsFirst(a.chaos.errors) > 0 => AfterLimit(c) = "errors"
             /\ FailsFirst(a.chaos.connection) > 0 => AfterLimit(c) # "turn" /\ AfterErrors(c) = "connection"
<1>1. /\ FailsFirst(a.chaos.errors) > 0 => Armed(chaosFor(a).errors)
      /\ FailsFirst(a.chaos.connection) > 0 => Armed(chaosFor(a).connection)
  BY SMTT(60), SectionsOfAgent DEF FailsFirst, Armed
<1> QED  BY <1>1 DEF AfterLimit, AfterErrors

\* The parts of the invariant of one step of one request.
LEMMA StepInv ==
  ASSUME PathInv, NEW r \in Requests, Moves(r), PathTypeOK', Sound(req'[r]),
         \A a \in Agents : Alike(a) => ErrorsTally(a)' /\ ConnectionTally(a)' /\ LimitKept(a)',
         TurnsNumbered', CacheTracks'
  PROVE  PathInv'
<1>1. ASSUME NEW q \in Requests PROVE Sound(req'[q])
  <2>1. CASE q = r
    BY <2>1
  <2>2. CASE q # r
    BY <2>2 DEF Moves, PathInv
  <2> QED  BY <2>1, <2>2
<1> QED  BY <1>1 DEF PathInv, Alike

\* A step that no counter, bucket, conversation or bill takes notice of.
LEMMA QuietStep ==
  ASSUME PathInv, NEW r \in Requests, Moves(r), Sound(req'[r]), req'[r].now <= clock,
         UNCHANGED <<clock, buckets, errorCounts, connCounts, turns, cache>>,
         \A a \in Agents : Alike(a) =>
           /\ FailsFirst(a.chaos.errors) > 0 => ErrorsSame(req[r], req'[r], a.name)
           /\ FailsFirst(a.chaos.connection) > 0 => ConnectionSame(req[r], req'[r], a.name)
           /\ LimitSame(req[r], req'[r], a.name),
         TurnSame(req[r], req'[r]), BilledSame(req[r], req'[r])
  PROVE  PathInv'
<1>1. PathTypeOK /\ TurnsNumbered /\ CacheTracks
  BY DEF PathInv
<1>2. PathTypeOK'
  BY <1>1 DEF PathTypeOK, Moves
<1>3. ASSUME NEW a \in Agents, Alike(a) PROVE ErrorsTally(a)' /\ ConnectionTally(a)' /\ LimitKept(a)'
  <2>1. ErrorsTally(a) /\ ConnectionTally(a) /\ LimitKept(a)
    BY <1>3 DEF PathInv
  <2>2. ErrorsTally(a)'
    BY <1>3, <2>1, ErrorsSameTally
  <2>3. ConnectionTally(a)'
    BY <1>3, <2>1, ConnectionSameTally
  <2>4. LimitKept(a)'
    BY <1>3, <2>1, LimitSameKept
  <2> QED  BY <2>2, <2>3, <2>4
<1>4. TurnsNumbered'
  BY <1>1, TurnSameNumbered
<1>5. CacheTracks'
  BY <1>1, BilledSameTracks
<1> QED  BY <1>2, <1>3, <1>4, <1>5, StepInv

\* The clock ticks.
LEMMA TickInv == ASSUME PathInv, Tick PROVE PathInv'
<1>1. UNCHANGED <<buckets, errorCounts, connCounts, turns, cache, req>> /\ clock' = clock + 1
  BY DEF Tick
<1>2. PathTypeOK'
  <2>1. PathTypeOK /\ \A r \in Requests : req[r].now \in Nat
    BY DEF PathInv, PathTypeOK, Record
  <2>2. clock' \in Nat /\ \A r \in Requests : req'[r].now <= clock'
    BY SMTT(60), <1>1, <2>1 DEF PathTypeOK
  <2> QED  BY <1>1, <2>1, <2>2 DEF PathTypeOK
<1>3. ASSUME NEW a \in Agents, Alike(a) PROVE ErrorsTally(a)' /\ ConnectionTally(a)' /\ LimitKept(a)'
  <2>1. ErrorsTally(a) /\ ConnectionTally(a) /\ LimitKept(a)
    BY <1>3 DEF PathInv
  <2>2. ErrorsTally(a)'
    BY <1>1, <2>1 DEF ErrorsTally, Faulted, PastErrors, Of
  <2>3. ConnectionTally(a)'
    BY <1>1, <2>1 DEF ConnectionTally, Faulted, PastFaults, Of
  <2>4. BucketCounts(a.name)' /\ WindowsApart(a.name, a.chaos.limit[1])' /\ WithinLimit(a.name, a.chaos.limit[1])'
    BY <1>1, <2>1 DEF LimitKept, BucketCounts, WindowsApart, WithinLimit, Peers, Of, InWindow, Admitted
  <2> QED  BY <2>2, <2>3, <2>4 DEF LimitKept
<1>4. TurnsNumbered'
  BY <1>1 DEF PathInv, TurnsNumbered, TurnsIn, scopedSessionKey
<1>5. CacheTracks'
  BY SMTT(60), <1>1 DEF PathInv, CacheTracks, Created, BilledAs, CacheKey
<1> QED  BY <1>1, <1>2, <1>3, <1>4, <1>5 DEF PathInv, Alike

\* The record of a request that arrives and is answered at once.
RefusedWith(y, input, status) ==
  /\ y.pc = "done" /\ y.in = input /\ y.agent = None /\ y.now = 0 /\ y.window = 0 /\ y.decided = 0 - 1 /\ y.fault = "none"
  /\ y.status = status /\ y.retry = 0 /\ y.turn = 0 /\ y.scenario = 0 /\ y.billed = "none"
\* The record of a request that arrives and goes on to an agent's checks.
AdmittedTo(y, input, agent) ==
  /\ y.pc = IF Limited(chaosFor(agent)) THEN "clock" ELSE AfterLimit(chaosFor(agent))
  /\ y.in = input /\ y.agent = agent /\ y.now = 0 /\ y.window = 0 /\ y.decided = 0 - 1 /\ y.fault = "none"
  /\ y.status = 0 /\ y.retry = 0 /\ y.turn = 0 /\ y.scenario = 0 /\ y.billed = "none"

\* What Arrive makes of an idle request.
LEMMA ArriveEffect ==
  ASSUME PathInv, NEW r \in Requests, NEW input \in Wire, Arrive(r, input)
  PROVE  /\ Moves(r) /\ req[r] = Idle
         /\ \/ \E status \in {400, 401, 404, 413, 500} : RefusedWith(req'[r], input, status)
            \/ \E agent \in Agents : AdmittedTo(req'[r], input, agent)
<1> DEFINE agent == resolveAgentForTenant(input)
           rec == [req[r] EXCEPT !.in = input]
           c == chaosFor(agent)
           y == CASE Refused(input) # 200 -> [rec EXCEPT !.pc = "done", !.status = Refused(input)]
                  [] Refused(input) = 200 /\ agent = NoAgent -> [rec EXCEPT !.pc = "done", !.status = errorStatus({"not found"})]
                  [] Refused(input) = 200 /\ agent # NoAgent /\ input.gone -> [rec EXCEPT !.pc = "done", !.status = errorStatus({})]
                  [] OTHER -> [rec EXCEPT !.agent = agent, !.pc = IF Limited(c) THEN "clock" ELSE AfterLimit(c)]
<1>1. req \in [Requests -> Record] /\ req[r] = Idle
  BY DEF PathInv, PathTypeOK, Sound, AtRest, Arrive
<1>2. req' = [req EXCEPT ![r] = y]
  BY DEF Arrive, Answer
<1>3. /\ rec \in Record /\ rec.in = input /\ rec.agent = None /\ rec.now = 0 /\ rec.window = 0 /\ rec.decided = 0 - 1
      /\ rec.fault = "none" /\ rec.status = 0 /\ rec.retry = 0 /\ rec.turn = 0 /\ rec.scenario = 0 /\ rec.billed = "none"
  <2>1. Idle \in Record
    BY <1>1
  <2>2. rec = [Idle EXCEPT !.in = input]
    BY <1>1
  <2>3. rec \in Record
    BY <2>1, <2>2 DEF Record
  <2> QED  BY <2>2, <2>3 DEF Idle
<1> HIDE DEF rec
<1>4. ASSUME NEW s \in Int, NEW z, z = [rec EXCEPT !.pc = "done", !.status = s]
      PROVE  z \in Record /\ RefusedWith(z, input, s)
  <2>1. z \in Record
    BY <1>3, <1>4 DEF Record, Pcs
  <2>2. /\ z.pc = "done" /\ z.in = rec.in /\ z.agent = rec.agent /\ z.now = rec.now /\ z.window = rec.window
        /\ z.decided = rec.decided /\ z.fault = rec.fault /\ z.status = s /\ z.retry = rec.retry /\ z.turn = rec.turn
        /\ z.scenario = rec.scenario /\ z.billed = rec.billed
    BY <1>3, <1>4 DEF Record
  <2> QED  BY <1>3, <2>1, <2>2 DEF RefusedWith
<1>5. ASSUME NEW b \in Agents, NEW pc \in Pcs, NEW z, z = [rec EXCEPT !.agent = b, !.pc = pc],
             pc = IF Limited(chaosFor(b)) THEN "clock" ELSE AfterLimit(chaosFor(b))
      PROVE  z \in Record /\ AdmittedTo(z, input, b)
  <2>1. z \in Record
    BY <1>3, <1>5 DEF Record
  <2>2. /\ z.pc = pc /\ z.in = rec.in /\ z.agent = b /\ z.now = rec.now /\ z.window = rec.window
        /\ z.decided = rec.decided /\ z.fault = rec.fault /\ z.status = rec.status /\ z.retry = rec.retry /\ z.turn = rec.turn
        /\ z.scenario = rec.scenario /\ z.billed = rec.billed
    BY <1>3, <1>5 DEF Record
  <2> QED  BY <1>3, <1>5, <2>1, <2>2 DEF AdmittedTo
<1>6. errorStatus({"not found"}) = 404 /\ errorStatus({}) = 500
  BY SMTT(60) DEF errorStatus
<1>7. Refused(input) \in {200, 400, 401, 413} /\ (agent \in Agents \/ agent = NoAgent)
  BY SMTT(60), RefusedAnswers, ResolvedAgent
<1> HIDE DEF agent
<1>8. /\ y \in Record
      /\ \/ \E status \in {400, 401, 404, 413, 500} : RefusedWith(y, input, status)
         \/ \E b \in Agents : AdmittedTo(y, input, b)
  <2>1. CASE Refused(input) # 200
    <3>1. y = [rec EXCEPT !.pc = "done", !.status = Refused(input)]
      BY <2>1
    <3>2. Refused(input) \in Int /\ Refused(input) \in {400, 401, 404, 413, 500}
      BY SMTT(60), <1>7, <2>1
    <3> HIDE DEF y
    <3>3. y \in Record /\ RefusedWith(y, input, Refused(input))
      BY <1>4, <3>1, <3>2
    <3> QED  BY SMTT(60), <3>2, <3>3
  <2>2. CASE Refused(input) = 200 /\ agent = NoAgent
    <3>1. PICK s \in {400, 401, 404, 413, 500} : s = 404 /\ s \in Int
      BY SMTT(60)
    <3>2. y = [rec EXCEPT !.pc = "done", !.status = s]
      BY <1>6, <2>2, <3>1
    <3> HIDE DEF y
    <3>3. y \in Record /\ RefusedWith(y, input, s)
      BY <1>4, <3>1, <3>2
    <3> QED  BY SMTT(60), <3>3
  <2>3. CASE Refused(input) = 200 /\ agent # NoAgent /\ input.gone
    <3>1. PICK s \in {400, 401, 404, 413, 500} : s = 500 /\ s \in Int
      BY SMTT(60)
    <3>2. y = [rec EXCEPT !.pc = "done", !.status = s]
      BY <1>6, <2>3, <3>1
    <3> HIDE DEF y
    <3>3. y \in Record /\ RefusedWith(y, input, s)
      BY <1>4, <3>1, <3>2
    <3> QED  BY SMTT(60), <3>3
  <2>4. CASE Refused(input) = 200 /\ agent # NoAgent /\ ~input.gone
    <3>1. PICK pc : pc = IF Limited(chaosFor(agent)) THEN "clock" ELSE AfterLimit(chaosFor(agent))
      OBVIOUS
    <3>2. pc \in Pcs /\ agent \in Agents
      BY SMTT(60), <1>7, <2>4, <3>1, NextCheck DEF Pcs
    <3>3. y = [rec EXCEPT !.agent = agent, !.pc = pc]
      BY <2>4, <3>1
    <3> HIDE DEF y
    <3> QED  BY <1>5, <3>1, <3>2, <3>3
  <2> QED  BY <2>1, <2>2, <2>3, <2>4
<1> HIDE DEF y
<1>9. req'[r] = y /\ Moves(r)
  BY <1>1, <1>2, <1>8 DEF Moves
<1> QED  BY SMTT(60), <1>1, <1>8, <1>9

\* A request arrives.
LEMMA ArriveInv ==
  ASSUME PathInv, NEW r \in Requests, NEW input \in Wire, Arrive(r, input)
  PROVE  PathInv'
<1>1. Moves(r) /\ req[r] = Idle /\ clock \in Nat
  BY ArriveEffect DEF PathInv, PathTypeOK
<1>2. UNCHANGED <<clock, buckets, errorCounts, connCounts, turns, cache>>
  BY DEF Arrive
<1>3. /\ req[r].agent = None /\ req[r].fault = "none" /\ req[r].decided = 0 - 1 /\ req[r].turn = 0 /\ req[r].billed = "none"
  BY SMTT(60), <1>1 DEF Idle
<1>4. \A a \in Agents : a.name # None.name
  BY PathAssumption
<1>5. ASSUME NEW status \in {400, 401, 404, 413, 500}, RefusedWith(req'[r], input, status)
      PROVE  PathInv'
  <2> DEFINE y == req'[r]
  <2>1. y.pc = "done" /\ y.in = input /\ y.agent = None /\ y.now = 0 /\ y.decided = 0 - 1 /\ y.fault = "none"
        /\ y.status = status /\ y.retry = 0 /\ y.turn = 0 /\ y.scenario = 0 /\ y.billed = "none"
    BY <1>5 DEF RefusedWith
  <2> HIDE DEF y
  <2>2. OnTheWire(y)
    BY SMTT(60), <2>1 DEF OnTheWire
  <2>3. Sound(y)
    BY SMTT(60), <2>1, <2>2 DEF Sound, AtRest, Underway, Decided
  <2>4. \A a \in Agents : ErrorsSame(req[r], y, a.name) /\ ConnectionSame(req[r], y, a.name) /\ LimitSame(req[r], y, a.name)
    BY SMTT(60), <1>3, <1>4, <2>1 DEF ErrorsSame, ConnectionSame, LimitSame, PeerIn, FailedIn, PastErrorsIn, PastFaultsIn
  <2>5. TurnSame(req[r], y) /\ BilledSame(req[r], y)
    BY SMTT(60), <1>3, <2>1 DEF TurnSame, BilledSame
  <2>6. y.now <= clock
    BY SMTT(60), <1>1, <2>1
  <2> QED  BY SMTT(60), <1>1, <1>2, <2>3, <2>4, <2>5, <2>6, QuietStep DEF y
<1>6. ASSUME NEW agent \in Agents, AdmittedTo(req'[r], input, agent)
      PROVE  PathInv'
  <2> DEFINE y == req'[r]
             c == chaosFor(agent)
  <2>1. y.in = input /\ y.agent = agent /\ y.now = 0 /\ y.decided = 0 - 1 /\ y.fault = "none"
        /\ y.status = 0 /\ y.retry = 0 /\ y.turn = 0 /\ y.scenario = 0 /\ y.billed = "none"
        /\ y.pc = IF Limited(c) THEN "clock" ELSE AfterLimit(c)
    BY <1>6 DEF AdmittedTo
  <2> HIDE DEF y
  <2>2. /\ y.pc \in {"clock", "errors", "connection", "turn"}
        /\ y.pc = "clock" => Limited(c)
        /\ y.pc = "errors" => Armed(c.errors)
        /\ y.pc = "connection" => Armed(c.connection)
        /\ FailsFirst(agent.chaos.errors) > 0 => y.pc \in {"clock", "errors"}
        /\ FailsFirst(agent.chaos.connection) > 0 => y.pc \in {"clock", "errors", "connection"}
    BY <2>1, NextCheck
  <2>3. Sound(y)
    BY SMTT(60), <2>1, <2>2 DEF Sound, AtRest, Underway, Decided
  <2>4. ASSUME NEW a \in Agents, Alike(a)
        PROVE  /\ FailsFirst(a.chaos.errors) > 0 => ErrorsSame(req[r], y, a.name)
               /\ FailsFirst(a.chaos.connection) > 0 => ConnectionSame(req[r], y, a.name)
               /\ LimitSame(req[r], y, a.name)
    <3>1. agent.name = a.name => agent.chaos = a.chaos
      BY <2>4, AlikeSections
    <3> QED  BY SMTT(60), <1>3, <1>4, <2>1, <2>2, <3>1
             DEF ErrorsSame, ConnectionSame, LimitSame, PeerIn, FailedIn, PastErrorsIn, PastFaultsIn
  <2>5. TurnSame(req[r], y) /\ BilledSame(req[r], y)
    BY SMTT(60), <1>3, <2>1 DEF TurnSame, BilledSame
  <2>6. y.now <= clock
    BY SMTT(60), <1>1, <2>1
  <2> QED  BY <1>1, <1>2, <2>3, <2>4, <2>5, <2>6, QuietStep DEF y
<1> QED  BY SMTT(60), <1>5, <1>6, ArriveEffect

\* A handler reads the clock.
LEMMA ReadClockInv == ASSUME PathInv, NEW r \in Requests, ReadClock(r) PROVE PathInv'
<1> DEFINE x == req[r]
           y == req'[r]
<1>1. x \in Record /\ req \in [Requests -> Record] /\ clock \in Nat /\ Sound(x) /\ x.pc = "clock"
  BY DEF PathInv, PathTypeOK, ReadClock
<1>2. req' = [req EXCEPT ![r] = [x EXCEPT !.pc = "limit", !.now = clock]]
      /\ UNCHANGED <<clock, buckets, errorCounts, connCounts, turns, cache>>
  BY DEF ReadClock, Answer
<1>3. y = [x EXCEPT !.pc = "limit", !.now = clock]
  BY <1>1, <1>2
<1> HIDE DEF x, y
<1>4. /\ y \in Record /\ y.pc = "limit" /\ y.now = clock
      /\ y.in = x.in /\ y.agent = x.agent /\ y.window = x.window /\ y.decided = x.decided /\ y.fault = x.fault
      /\ y.status = x.status /\ y.retry = x.retry /\ y.turn = x.turn /\ y.scenario = x.scenario /\ y.billed = x.billed
  BY <1>1, <1>3 DEF Record, Pcs
<1>5. Moves(r)
  BY <1>1, <1>2, <1>3, <1>4 DEF Moves, x, y
<1>6. Sound(y)
  BY <1>1, <1>4 DEF Sound, AtRest, Underway, Decided
<1>7. \A n : ErrorsSame(x, y, n) /\ ConnectionSame(x, y, n) /\ LimitSame(x, y, n)
  BY <1>1, <1>4 DEF ErrorsSame, ConnectionSame, LimitSame, PeerIn, FailedIn, PastErrorsIn, PastFaultsIn
<1>8. TurnSame(x, y) /\ BilledSame(x, y) /\ y.now <= clock
  BY SMTT(60), <1>1, <1>4 DEF TurnSame, BilledSame
<1> QED  BY <1>2, <1>5, <1>6, <1>7, <1>8, QuietStep DEF x, y

\* A timeout fault has slept.
LEMMA TimedOutInv == ASSUME PathInv, NEW r \in Requests, TimedOut(r) PROVE PathInv'
<1> DEFINE x == req[r]
           y == req'[r]
<1>1. x \in Record /\ req \in [Requests -> Record] /\ clock \in Nat /\ Sound(x) /\ x.pc = "sleep" /\ x.now <= clock
  BY DEF PathInv, PathTypeOK, TimedOut
<1>2. req' = [req EXCEPT ![r] = [x EXCEPT !.pc = "done", !.status = 504]]
      /\ UNCHANGED <<clock, buckets, errorCounts, connCounts, turns, cache>>
  BY DEF TimedOut, Answer, Done
<1>3. y = [x EXCEPT !.pc = "done", !.status = 504]
  BY <1>1, <1>2
<1> HIDE DEF x, y
<1>4. /\ y \in Record /\ y.pc = "done" /\ y.status = 504 /\ y.now = x.now
      /\ y.in = x.in /\ y.agent = x.agent /\ y.window = x.window /\ y.decided = x.decided /\ y.fault = x.fault
      /\ y.retry = x.retry /\ y.turn = x.turn /\ y.scenario = x.scenario /\ y.billed = x.billed
  <2>1. PICK s \in Int : s = 504
    BY SMTT(60)
  <2>2. y = [x EXCEPT !.pc = "done", !.status = s]
    BY <1>3, <2>1
  <2>3. y \in Record
    BY <1>1, <2>2 DEF Record, Pcs
  <2> QED  BY SMTT(60), <1>1, <2>1, <2>2, <2>3 DEF Record
<1>5. Moves(r)
  BY SMTT(60), <1>1, <1>2, <1>3, <1>4 DEF Moves, x, y
<1>6. x.fault = "error" /\ x.retry = 0 /\ x.turn = 0 /\ x.scenario = 0 /\ x.agent \in Agents /\ x.in \in Wire
  BY <1>1 DEF Sound, Underway
<1>7. OnTheWire(y)
  <2>1. x.in.proto \in {"openai", "azure", "anthropic", "gemini"}
    BY <1>6 DEF Wire
  <2> QED  BY SMTT(60), <1>4, <1>6, <2>1 DEF OnTheWire, ErrorType, anthropicError, anthropicChaosErrorType, geminiError, geminiStatusFor,
                                  openAIError, openAIChaosError
<1>8. Sound(y)
  BY SMTT(60), <1>1, <1>4, <1>6, <1>7 DEF Sound, AtRest, Underway, Decided
<1>9. \A n : ErrorsSame(x, y, n) /\ ConnectionSame(x, y, n) /\ LimitSame(x, y, n)
  BY SMTT(60), <1>1, <1>4, <1>6 DEF ErrorsSame, ConnectionSame, LimitSame, PeerIn, FailedIn, PastErrorsIn, PastFaultsIn
<1>10. TurnSame(x, y) /\ BilledSame(x, y) /\ y.now <= clock
  BY <1>1, <1>4 DEF TurnSame, BilledSame
<1> QED  BY <1>2, <1>5, <1>8, <1>9, <1>10, QuietStep DEF x, y

\* The rate limit opens a window, or counts the request in the latest one.
LEMMA WindowOpens ==
  ASSUME PathTypeOK, NEW r \in Requests, Moves(r), NEW n \in Names, NEW limit \in [requests : Int, window : Int],
         limit.requests > 0, limit.window > 0,
         BucketCounts(n), WindowsApart(n, limit), WithinLimit(n, limit),
         NEW now \in Nat, buckets[n].count = 0 \/ now - buckets[n].windowStart >= limit.window,
         buckets'[n] = [windowStart |-> now, count |-> 1],
         ~PeerIn(req[r], n), PeerIn(req'[r], n), req'[r].window = now, req'[r].fault = "none"
  PROVE  BucketCounts(n)' /\ WindowsApart(n, limit)' /\ WithinLimit(n, limit)'
<1>1. r \notin Peers(n) /\ Peers(n)' = Peers(n) \cup {r} /\ Peers(n) \subseteq Requests
  BY DEF Peers, Of, PeerIn, Moves
<1>2. ASSUME NEW q \in Peers(n) PROVE req'[q] = req[q] /\ req[q] \in Record /\ req[q].window \in Nat
  BY <1>1 DEF Moves, PathTypeOK, Record
<1>3. buckets[n].windowStart \in Nat /\ buckets[n].count \in Nat /\ limit.window \in Int /\ limit.requests \in Int
      /\ buckets'[n].windowStart = now /\ buckets'[n].count = 1
  BY SMTT(60) DEF PathTypeOK
<1>4. ASSUME NEW q \in Peers(n) PROVE now - req[q].window >= limit.window /\ req[q].window # now
  <2>1. buckets[n].count # 0
    BY DEF BucketCounts
  <2>2. req[q].window = buckets[n].windowStart \/ buckets[n].windowStart - req[q].window >= limit.window
    BY DEF WindowsApart
  <2> QED  BY SMTT(60), <1>2, <1>3, <2>1, <2>2
<1>5. InWindow(n, now)' = {r}
  BY <1>1, <1>2, <1>4 DEF InWindow
<1>6. Cardinality({r}) = 1
  BY FS_Singleton
<1>7. BucketCounts(n)'
  BY SMTT(60), <1>3, <1>5, <1>6 DEF BucketCounts
<1>8. WindowsApart(n, limit)'
  <2>1. ASSUME NEW q \in Peers(n)'
        PROVE  req'[q].window = now \/ now - req'[q].window >= limit.window
    BY <1>1, <1>2, <1>4
  <2>2. ASSUME NEW p \in Peers(n)', NEW q \in Peers(n)'
        PROVE  \/ req'[p].window = req'[q].window
               \/ req'[p].window - req'[q].window >= limit.window
               \/ req'[q].window - req'[p].window >= limit.window
    <3>1. CASE p = r \/ q = r
      BY <1>1, <1>2, <1>4, <3>1
    <3>2. CASE p # r /\ q # r
      BY <1>1, <1>2, <3>2 DEF WindowsApart
    <3> QED  BY <3>1, <3>2
  <2> QED  BY <1>3, <2>1, <2>2 DEF WindowsApart
<1>9. WithinLimit(n, limit)'
  <2>1. ASSUME NEW w \in Nat, Admitted(n, w)' # {} PROVE Cardinality(Admitted(n, w)') <= limit.requests
    <3>1. CASE w = now
      <4>1. Admitted(n, now)' = {r}
        BY <1>5 DEF Admitted
      <4> QED  BY SMTT(60), <1>3, <1>6, <3>1, <4>1
    <3>2. CASE w # now
      <4>1. Admitted(n, w)' = Admitted(n, w)
        BY <1>1, <1>2, <3>2 DEF Admitted, InWindow
      <4> QED  BY <2>1, <4>1 DEF WithinLimit
    <3> QED  BY <3>1, <3>2
  <2>2. ASSUME NEW q \in Peers(n)', req'[q].fault = "limit"
        PROVE  req'[q].decided + req'[q].retry * Second >= req'[q].window + limit.window
    <3>1. q \in Peers(n)
      BY <1>1, <2>2
    <3> QED  BY <1>2, <2>2, <3>1 DEF WithinLimit
  <2> QED  BY <2>1, <2>2 DEF WithinLimit
<1> QED  BY <1>7, <1>8, <1>9

\* A request counted in the latest window is admitted within the allotment, or
\* told to wait at least until the window is over.
LEMMA WindowFills ==
  ASSUME PathTypeOK, NEW r \in Requests, Moves(r), NEW n \in Names, NEW limit \in [requests : Int, window : Int],
         BucketCounts(n), WindowsApart(n, limit), WithinLimit(n, limit),
         buckets'[n] = [buckets[n] EXCEPT !.count = @ + 1],
         ~PeerIn(req[r], n), PeerIn(req'[r], n), req'[r].window = buckets[n].windowStart,
         \/ req'[r].fault # "limit" /\ buckets[n].count + 1 <= limit.requests
         \/ /\ req'[r].fault = "limit"
            /\ req'[r].decided + req'[r].retry * Second >= buckets[n].windowStart + limit.window
  PROVE  BucketCounts(n)' /\ WindowsApart(n, limit)' /\ WithinLimit(n, limit)'
<1>1. r \notin Peers(n) /\ Peers(n)' = Peers(n) \cup {r} /\ Peers(n) \subseteq Requests
  BY SMTT(60) DEF Peers, Of, PeerIn, Moves
<1>2. ASSUME NEW q \in Peers(n) PROVE req'[q] = req[q] /\ req[q] \in Record /\ req[q].window \in Nat
  BY <1>1 DEF Moves, PathTypeOK, Record
<1>3. PICK ws \in Nat : ws = buckets[n].windowStart
  BY DEF PathTypeOK
<1>4. buckets[n].count \in Nat /\ limit.window \in Int /\ limit.requests \in Int
      /\ buckets'[n].windowStart = ws /\ buckets'[n].count = buckets[n].count + 1
  BY SMTT(60), <1>3 DEF PathTypeOK
<1>5. InWindow(n, ws)' = InWindow(n, ws) \cup {r} /\ r \notin InWindow(n, ws)
  BY <1>1, <1>2, <1>3 DEF InWindow
<1>6. Cardinality(InWindow(n, ws)') = buckets[n].count + 1 /\ IsFiniteSet(InWindow(n, ws)')
  <2>1. IsFiniteSet(InWindow(n, ws)) /\ Cardinality(InWindow(n, ws)) = buckets[n].count
    BY <1>3, CountedFinite DEF BucketCounts
  <2> QED  BY SMTT(60), <1>5, <2>1, FS_AddElement
<1>7. BucketCounts(n)'
  BY SMTT(60), <1>4, <1>6 DEF BucketCounts
<1>8. WindowsApart(n, limit)'
  <2>1. ASSUME NEW q \in Peers(n)'
        PROVE  req'[q].window = ws \/ ws - req'[q].window >= limit.window
    BY <1>1, <1>2, <1>3 DEF WindowsApart
  <2>2. ASSUME NEW p \in Peers(n)', NEW q \in Peers(n)'
        PROVE  \/ req'[p].window = req'[q].window
               \/ req'[p].window - req'[q].window >= limit.window
               \/ req'[q].window - req'[p].window >= limit.window
    <3>1. CASE p = r \/ q = r
      BY <1>1, <1>2, <1>3, <2>1, <3>1
    <3>2. CASE p # r /\ q # r
      BY SMTT(60), <1>1, <1>2, <3>2 DEF WindowsApart
    <3> QED  BY <3>1, <3>2
  <2> QED  BY <1>4, <2>1, <2>2 DEF WindowsApart
<1>9. WithinLimit(n, limit)'
  <2>1. ASSUME NEW w \in Nat, Admitted(n, w)' # {} PROVE Cardinality(Admitted(n, w)') <= limit.requests
    <3>1. CASE w = ws /\ req'[r].fault # "limit"
      <4>1. Admitted(n, ws)' \in SUBSET InWindow(n, ws)'
        BY DEF Admitted
      <4>2. Cardinality(Admitted(n, ws)') <= buckets[n].count + 1 /\ Cardinality(Admitted(n, ws)') \in Nat
        BY SMTT(60), <1>6, <4>1, FS_Subset, FS_CardinalityType
      <4>3. buckets[n].count + 1 <= limit.requests
        BY <3>1
      <4> QED  BY SMTT(60), <1>4, <3>1, <4>2, <4>3
    <3>2. CASE w # ws \/ req'[r].fault = "limit"
      <4>1. Admitted(n, w)' = Admitted(n, w)
        BY <1>1, <1>2, <1>3, <3>2 DEF Admitted, InWindow
      <4> QED  BY <2>1, <4>1 DEF WithinLimit
    <3> QED  BY <3>1, <3>2
  <2>2. ASSUME NEW q \in Peers(n)', req'[q].fault = "limit"
        PROVE  req'[q].decided + req'[q].retry * Second >= req'[q].window + limit.window
    <3>1. CASE q = r
      BY <2>2, <3>1
    <3>2. CASE q # r
      BY <1>1, <1>2, <2>2, <3>2 DEF WithinLimit
    <3> QED  BY <3>1, <3>2
  <2> QED  BY <2>1, <2>2 DEF WithinLimit
<1> QED  BY <1>7, <1>8, <1>9

\* The record of a request the rate limit decided in the window ws.
DecidedIn(x, y, ws, now) ==
  /\ y \in Record /\ y.in = x.in /\ y.agent = x.agent /\ y.now = 0 /\ y.window = ws /\ y.decided = now
  /\ y.turn = x.turn /\ y.scenario = x.scenario /\ y.billed = x.billed
Passed(x, y) == y.pc = AfterLimit(chaosFor(x.agent)) /\ y.fault = x.fault /\ y.status = x.status /\ y.retry = x.retry
Rejected(y, retry) == y.pc = "done" /\ y.fault = "limit" /\ y.status = 429 /\ y.retry = retry

\* What checkRateLimit does to the bucket and to the request.
LEMMA CheckRateLimitEffect ==
  ASSUME PathInv, NEW r \in Requests, checkRateLimit(r),
         NEW n, n = req[r].agent.name, NEW limit, limit = chaosFor(req[r].agent).limit[1]
  PROVE  /\ Moves(r)
         /\ \A m \in Names : m # n => buckets'[m] = buckets[m]
         /\ buckets' \in [Names -> [windowStart : Nat, count : Nat]]
         /\ \/ /\ buckets[n].count = 0 \/ req[r].now - buckets[n].windowStart >= limit.window
               /\ buckets'[n] = [windowStart |-> req[r].now, count |-> 1]
               /\ DecidedIn(req[r], req'[r], req[r].now, clock) /\ Passed(req[r], req'[r])
            \/ /\ buckets'[n] = [buckets[n] EXCEPT !.count = @ + 1]
               /\ DecidedIn(req[r], req'[r], buckets[n].windowStart, clock)
               /\ \/ buckets[n].count + 1 <= limit.requests /\ Passed(req[r], req'[r])
                  \/ \E t \in Nat : /\ t > 0 /\ t = limit.window - (req[r].now - buckets[n].windowStart)
                                    /\ Rejected(req'[r], CeilSeconds(t))
<1> DEFINE x == req[r]
           b == buckets[n]
           fresh == b.count = 0 \/ x.now - b.windowStart >= limit.window
           nb == IF fresh THEN [windowStart |-> x.now, count |-> 1] ELSE [b EXCEPT !.count = @ + 1]
           rec == [x EXCEPT !.now = 0, !.window = nb.windowStart, !.decided = clock]
           retry == chaosRetryAfter(429, Remaining(limit, x.now, b))
<1>1. /\ x \in Record /\ req \in [Requests -> Record] /\ clock \in Nat /\ x.agent \in Agents /\ x.now \in Nat /\ Sound(x)
      /\ x.pc = "limit" /\ Limited(chaosFor(x.agent))
  <2>1. x \in Record /\ req \in [Requests -> Record] /\ clock \in Nat /\ Sound(x) /\ x.pc = "limit"
    BY DEF PathInv, PathTypeOK, checkRateLimit
  <2> QED  BY <2>1 DEF Record, Sound, Underway
<1>2. n \in Names /\ b.count \in Nat /\ b.windowStart \in Nat /\ b \in [windowStart : Nat, count : Nat]
      /\ buckets \in [Names -> [windowStart : Nat, count : Nat]]
  <2>1. n \in Names /\ buckets \in [Names -> [windowStart : Nat, count : Nat]]
    BY <1>1 DEF Names, PathInv, PathTypeOK
  <2> QED  BY <2>1
<1>3. limit.window \in Int /\ limit.requests \in Int
  <2>1. chaosFor(x.agent).limit \in Seq([requests : Int, window : Int]) /\ chaosFor(x.agent).limit # << >>
    BY <1>1, PathAssumption, SectionsOfAgent DEF Limited
  <2>2. limit \in [requests : Int, window : Int]
    BY <2>1, FirstOf
  <2> QED  BY <2>2
<1>4. /\ buckets' = [buckets EXCEPT ![n] = nb]
      /\ IF ~fresh /\ nb.count > limit.requests
         THEN req' = [req EXCEPT ![r] = [rec EXCEPT !.pc = "done", !.status = 429, !.fault = "limit", !.retry = retry]]
         ELSE req' = [req EXCEPT ![r] = [rec EXCEPT !.pc = AfterLimit(chaosFor(x.agent))]]
  BY DEF checkRateLimit, Answer, Chaos
<1>5. nb \in [windowStart : Nat, count : Nat] /\ nb.windowStart \in Nat
      /\ (fresh => nb.windowStart = x.now)
      /\ (~fresh => nb.windowStart = b.windowStart /\ nb.count = b.count + 1)
  BY SMTT(60), <1>1, <1>2
<1>6. buckets'[n] = nb /\ buckets' \in [Names -> [windowStart : Nat, count : Nat]]
      /\ \A m \in Names : m # n => buckets'[m] = buckets[m]
  BY <1>2, <1>4, <1>5
<1> HIDE DEF nb
<1>7. rec \in Record /\ rec.pc = x.pc /\ rec.in = x.in /\ rec.agent = x.agent /\ rec.now = 0 /\ rec.window = nb.windowStart
      /\ rec.decided = clock /\ rec.fault = x.fault /\ rec.status = x.status /\ rec.retry = x.retry /\ rec.turn = x.turn
      /\ rec.scenario = x.scenario /\ rec.billed = x.billed
  <2>1. nb.windowStart \in Nat /\ 0 \in Nat /\ clock \in Int
    BY SMTT(60), <1>1, <1>5
  <2>2. rec \in Record
    BY <1>1, <2>1 DEF Record
  <2> QED  BY <1>1, <2>2 DEF Record
<1> HIDE DEF rec
<1>8. AfterLimit(chaosFor(x.agent)) \in Pcs
  BY <1>1, NextCheck DEF Pcs
<1>9. ASSUME ~(~fresh /\ nb.count > limit.requests)
      PROVE  Moves(r) /\ DecidedIn(x, req'[r], nb.windowStart, clock) /\ Passed(x, req'[r])
  <2> DEFINE y == req'[r]
  <2>1. y = [rec EXCEPT !.pc = AfterLimit(chaosFor(x.agent))] /\ \A q \in Requests : q # r => req'[q] = req[q]
    BY <1>1, <1>4, <1>9
  <2>2. /\ y \in Record /\ y.pc = AfterLimit(chaosFor(x.agent)) /\ y.in = rec.in /\ y.agent = rec.agent /\ y.now = rec.now
        /\ y.window = rec.window /\ y.decided = rec.decided /\ y.fault = rec.fault /\ y.status = rec.status
        /\ y.retry = rec.retry /\ y.turn = rec.turn /\ y.scenario = rec.scenario /\ y.billed = rec.billed
    BY SMTT(60), <1>7, <1>8, <2>1 DEF Record
  <2>3. Moves(r)
    BY <1>1, <1>4, <1>9, <2>1, <2>2 DEF Moves
  <2> HIDE DEF y
  <2>4. DecidedIn(x, y, nb.windowStart, clock) /\ Passed(x, y)
    BY <1>7, <2>2 DEF DecidedIn, Passed
  <2> QED  BY <2>3, <2>4 DEF y
<1>10. ASSUME ~fresh, nb.count > limit.requests
       PROVE  /\ Moves(r) /\ DecidedIn(x, req'[r], nb.windowStart, clock)
              /\ \E t \in Nat : /\ t > 0 /\ t = limit.window - (x.now - b.windowStart)
                                /\ Rejected(req'[r], CeilSeconds(t))
  <2> DEFINE y == req'[r]
             t == limit.window - (x.now - b.windowStart)
  <2>1. t \in Nat /\ t > 0
    BY SMTT(60), <1>1, <1>2, <1>3, <1>10
  <2>2. retry = CeilSeconds(t)
    BY SMTT(60), <2>1 DEF chaosRetryAfter, Remaining
  <2>3. CeilSeconds(t) \in Nat
    BY <2>1, CeilSecondsEnough
  <2> HIDE DEF t, retry
  <2>4. y = [rec EXCEPT !.pc = "done", !.status = 429, !.fault = "limit", !.retry = retry]
        /\ \A q \in Requests : q # r => req'[q] = req[q]
    BY SMTT(60), <1>1, <1>4, <1>10
  <2>5. /\ y \in Record /\ y.pc = "done" /\ y.in = rec.in /\ y.agent = rec.agent /\ y.now = rec.now
        /\ y.window = rec.window /\ y.decided = rec.decided /\ y.fault = "limit" /\ y.status = 429
        /\ y.retry = retry /\ y.turn = rec.turn /\ y.scenario = rec.scenario /\ y.billed = rec.billed
    <3>1. PICK s \in Int : s = 429
      BY SMTT(60)
    <3>2. y = [rec EXCEPT !.pc = "done", !.status = s, !.fault = "limit", !.retry = retry]
      BY <2>4, <3>1
    <3> HIDE DEF y
    <3>3. "done" \in Pcs /\ retry \in Nat
      BY <2>2, <2>3 DEF Pcs
    <3>4. y \in Record
      BY <1>7, <3>2, <3>3 DEF Record
    <3> QED  BY SMTT(60), <1>7, <3>1, <3>2, <3>4 DEF Record
  <2>6. Moves(r)
    BY SMTT(60), <1>1, <1>4, <1>10, <2>4, <2>5 DEF Moves
  <2> HIDE DEF y
  <2>7. DecidedIn(x, y, nb.windowStart, clock) /\ Rejected(y, CeilSeconds(t))
    BY SMTT(60), <1>7, <2>2, <2>5 DEF DecidedIn, Rejected
  <2> QED  BY <2>1, <2>6, <2>7 DEF y, t
<1>11. CASE fresh
  <2>1. nb = [windowStart |-> x.now, count |-> 1]
    BY <1>11 DEF nb
  <2> QED  BY <1>5, <1>6, <1>9, <1>11, <2>1
<1>12. CASE ~fresh
  <2>1. nb = [b EXCEPT !.count = @ + 1]
    BY <1>12 DEF nb
  <2>2. CASE nb.count > limit.requests
    BY <1>5, <1>6, <1>10, <1>12, <2>1, <2>2
  <2>3. CASE ~(nb.count > limit.requests)
    <3>1. b.count + 1 <= limit.requests
      BY SMTT(60), <1>2, <1>3, <1>5, <1>12, <2>3
    <3> QED  BY <1>5, <1>6, <1>9, <1>12, <2>1, <2>3, <3>1
  <2> QED  BY <2>2, <2>3
<1> QED  BY <1>11, <1>12

\* The rate limit decides.
LEMMA CheckRateLimitInv == ASSUME PathInv, NEW r \in Requests, checkRateLimit(r) PROVE PathInv'
<1> DEFINE x == req[r]
           y == req'[r]
<1>1. /\ PathTypeOK /\ TurnsNumbered /\ CacheTracks /\ x \in Record /\ clock \in Nat /\ Sound(x) /\ x.pc = "limit"
      /\ x.now \in Nat /\ x.now <= clock
  BY DEF PathInv, PathTypeOK, checkRateLimit, Record
<1>2. UNCHANGED <<clock, errorCounts, connCounts, turns, cache>>
  BY DEF checkRateLimit
<1> HIDE DEF x, y
<1>3. /\ x.agent \in Agents /\ x.in \in Wire /\ x.status = 0 /\ x.retry = 0 /\ x.billed = "none" /\ x.decided = 0 - 1 /\ x.fault = "none"
      /\ x.turn = 0 /\ x.scenario = 0 /\ Limited(chaosFor(x.agent))
  BY <1>1 DEF Sound, Underway
<1>4. PICK n, limit : n = x.agent.name /\ limit = chaosFor(x.agent).limit[1]
  OBVIOUS
<1>5. n \in Names /\ limit \in [requests : Int, window : Int] /\ limit.requests > 0 /\ limit.window > 0
      /\ limit.requests \in Int /\ limit.window \in Int
  <2>1. chaosFor(x.agent).limit \in Seq([requests : Int, window : Int]) /\ chaosFor(x.agent).limit # << >>
    BY <1>3, PathAssumption, SectionsOfAgent DEF Limited
  <2>2. limit \in [requests : Int, window : Int]
    BY <1>4, <2>1, FirstOf
  <2> QED  BY <1>3, <1>4, <2>2 DEF Names, Limited
<1> DEFINE b == buckets[n]
           Opened == /\ b.count = 0 \/ x.now - b.windowStart >= limit.window
                     /\ buckets'[n] = [windowStart |-> x.now, count |-> 1]
                     /\ DecidedIn(x, y, x.now, clock) /\ Passed(x, y)
           Admits == b.count + 1 <= limit.requests /\ Passed(x, y)
           Rejects == \E t \in Nat : /\ t > 0 /\ t = limit.window - (x.now - b.windowStart)
                                     /\ Rejected(y, CeilSeconds(t))
           Filled == /\ buckets'[n] = [b EXCEPT !.count = @ + 1]
                     /\ DecidedIn(x, y, b.windowStart, clock)
                     /\ Admits \/ Rejects
<1>6. /\ Moves(r)
      /\ \A m \in Names : m # n => buckets'[m] = buckets[m]
      /\ buckets' \in [Names -> [windowStart : Nat, count : Nat]]
      /\ Opened \/ Filled
  BY SMTT(60), <1>4, CheckRateLimitEffect DEF x, y
<1>7. /\ \E ws : DecidedIn(x, y, ws, clock)
      /\ Passed(x, y) \/ \E t \in Nat : t > 0 /\ Rejected(y, CeilSeconds(t))
  BY <1>6
<1>8. b.count \in Nat /\ b.windowStart \in Nat
  BY <1>1, <1>5 DEF PathTypeOK
<1> HIDE DEF Opened, Filled, Admits, Rejects, b
<1>9. y.in = x.in /\ y.agent = x.agent /\ y.now = 0 /\ y.decided = clock /\ y.turn = 0 /\ y.scenario = 0 /\ y.billed = "none" /\ y \in Record
  BY <1>3, <1>7 DEF DecidedIn
<1>10. \/ y.pc = AfterLimit(chaosFor(x.agent)) /\ y.fault = "none" /\ y.status = 0 /\ y.retry = 0
       \/ y.pc = "done" /\ y.fault = "limit" /\ y.status = 429 /\ y.retry >= 1
  BY SMTT(60), <1>3, <1>7, CeilSecondsEnough DEF Passed, Rejected
<1>11. Sound(y)
  <2>1. CASE y.pc = "done" /\ y.fault = "limit" /\ y.status = 429 /\ y.retry >= 1
    <3>1. OnTheWire(y)
      <4>1. x.in.proto \in {"openai", "azure", "anthropic", "gemini"}
        BY <1>3 DEF Wire
      <4> QED  BY SMTT(60), <1>9, <2>1, <4>1 DEF OnTheWire, ErrorType, anthropicError, anthropicChaosErrorType, geminiError,
                                        geminiStatusFor, openAIError, openAIChaosError
    <3> QED  BY SMTT(60), <1>1, <1>3, <1>9, <2>1, <3>1 DEF Sound, AtRest, Underway, Decided
  <2>2. CASE y.pc = AfterLimit(chaosFor(x.agent)) /\ y.fault = "none" /\ y.status = 0 /\ y.retry = 0
    <3>1. /\ y.pc \in {"errors", "connection", "turn"}
          /\ y.pc = "errors" => Armed(chaosFor(x.agent).errors)
          /\ y.pc = "connection" => Armed(chaosFor(x.agent).connection)
      BY <1>3, <2>2, NextCheck
    <3> QED  BY <1>1, <1>3, <1>9, <2>2, <3>1 DEF Sound, AtRest, Underway, Decided
  <2> QED  BY <1>10, <2>1, <2>2
<1>12. ASSUME NEW a \in Agents, Alike(a)
       PROVE  /\ FailsFirst(a.chaos.errors) > 0 => ErrorsSame(x, y, a.name)
              /\ FailsFirst(a.chaos.connection) > 0 => ConnectionSame(x, y, a.name)
  <2>1. x.agent.name = a.name => x.agent.chaos = a.chaos
    BY <1>3, <1>12, AlikeSections
  <2>2. /\ (x.agent.name = a.name /\ FailsFirst(a.chaos.errors) > 0) => y.pc \in {"errors", "done"}
        /\ (x.agent.name = a.name /\ FailsFirst(a.chaos.connection) > 0) => y.pc \in {"errors", "connection", "done"}
        /\ y.pc = "done" => y.fault = "limit"
    BY <1>3, <1>10, <2>1, NextCheck
  <2>3. y.fault \in {"none", "limit"}
    BY <1>10
  <2> QED  BY <1>1, <1>3, <1>9, <2>2, <2>3 DEF ErrorsSame, ConnectionSame, FailedIn, PastErrorsIn, PastFaultsIn
<1>13. TurnSame(x, y) /\ BilledSame(x, y)
  BY <1>3, <1>9 DEF TurnSame, BilledSame
<1>14. PathTypeOK'
  <2>1. ASSUME NEW q \in Requests PROVE req'[q].now <= clock
    <3>1. CASE q = r
      BY SMTT(60), <1>1, <1>9, <3>1 DEF y
    <3>2. CASE q # r
      BY <1>1, <1>6, <3>2 DEF PathTypeOK, Moves
    <3> QED  BY <3>1, <3>2
  <2> QED  BY <1>1, <1>2, <1>6, <2>1 DEF PathTypeOK, Moves
<1>15. ASSUME NEW a \in Agents, Alike(a), a.name = n PROVE LimitKept(a)'
  <2>1. a.chaos.limit[1] = limit
    BY <1>3, <1>4, <1>15, AlikeSections, SectionsOfAgent
  <2>2. BucketCounts(n) /\ WindowsApart(n, limit) /\ WithinLimit(n, limit)
    BY <1>15, <2>1 DEF PathInv, LimitKept
  <2>3. ~PeerIn(x, n) /\ PeerIn(y, n)
    BY SMTT(60), <1>1, <1>3, <1>4, <1>9 DEF PeerIn
  <2>4. BucketCounts(n)' /\ WindowsApart(n, limit)' /\ WithinLimit(n, limit)'
    <3>1. CASE Opened
      <4>1. y.window = x.now /\ y.fault = "none"
        BY <1>3, <3>1 DEF Opened, DecidedIn, Passed
      <4>2. PICK now \in Nat : now = x.now
        BY <1>1
      <4> QED  BY <1>1, <1>5, <1>6, <2>2, <2>3, <3>1, <4>1, <4>2, WindowOpens DEF Opened, b, x, y
    <3>2. CASE Filled
      <4>1. y.window = b.windowStart
        BY <3>2 DEF Filled, DecidedIn
      <4>2. \/ y.fault # "limit" /\ b.count + 1 <= limit.requests
            \/ y.fault = "limit" /\ y.decided + y.retry * Second >= b.windowStart + limit.window
        <5>1. CASE Admits
          BY <1>3, <5>1 DEF Admits, Passed
        <5>2. CASE Rejects
          <6>1. PICK t \in Nat : t > 0 /\ t = limit.window - (x.now - b.windowStart) /\ Rejected(y, CeilSeconds(t))
            BY <5>2 DEF Rejects
          <6>2. PICK wait \in Nat : wait = CeilSeconds(t) * Second
            <7>1. PICK c, s \in Nat : c = CeilSeconds(t) /\ s = Second
              BY <6>1, CeilSecondsEnough, PathAssumption
            <7>2. c * s \in Nat
              BY SMTT(60), <6>1, <7>1, CeilSecondsEnough
            <7> QED  BY <7>1, <7>2
          <6>3. wait >= t
            BY <6>1, <6>2, CeilSecondsEnough
          <6>4. y.fault = "limit" /\ y.retry * Second = wait
            BY <6>1, <6>2 DEF Rejected
          <6> QED  BY SMTT(60), <1>1, <1>5, <1>8, <1>9, <6>1, <6>3, <6>4
        <5> QED  BY <3>2, <5>1, <5>2 DEF Filled
      <4> QED  BY <1>1, <1>5, <1>6, <2>2, <2>3, <3>2, <4>1, <4>2, WindowFills DEF Filled, b, x, y
    <3> QED  BY <1>6, <3>1, <3>2
  <2> QED  BY <1>15, <2>1, <2>4 DEF LimitKept
<1>16. ASSUME NEW a \in Agents, Alike(a), a.name # n PROVE LimitKept(a)'
  <2>1. LimitSame(x, y, a.name)
    BY <1>4, <1>9, <1>16 DEF LimitSame, PeerIn
  <2>2. LimitKept(a) /\ buckets'[a.name] = buckets[a.name]
    BY <1>6, <1>16 DEF PathInv, Names
  <2> QED  BY <1>6, <2>1, <2>2, LimitSameKept DEF x, y
<1>17. ASSUME NEW a \in Agents, Alike(a) PROVE ErrorsTally(a)' /\ ConnectionTally(a)' /\ LimitKept(a)'
  <2>1. ErrorsTally(a) /\ ConnectionTally(a)
    BY <1>17 DEF PathInv
  <2>2. ErrorsTally(a)'
    BY <1>2, <1>6, <1>12, <1>17, <2>1, ErrorsSameTally DEF x, y
  <2>3. ConnectionTally(a)'
    BY <1>2, <1>6, <1>12, <1>17, <2>1, ConnectionSameTally DEF x, y
  <2> QED  BY <1>15, <1>16, <1>17, <2>2, <2>3
<1>18. TurnsNumbered' /\ CacheTracks'
  BY <1>1, <1>2, <1>6, <1>13, TurnSameNumbered, BilledSameTracks DEF x, y
<1> QED  BY <1>6, <1>11, <1>14, <1>17, <1>18, StepInv DEF y

\* The record of a request that keeps all but its control point and its answer.
KeepsRest(x, y) ==
  /\ y \in Record /\ y.in = x.in /\ y.agent = x.agent /\ y.now = x.now /\ y.window = x.window /\ y.decided = x.decided
  /\ y.turn = x.turn /\ y.scenario = x.scenario /\ y.billed = x.billed
\* The record after an injected error.
ErrorInjected(x, y) ==
  /\ y.fault = "error"
  /\ \/ y.pc = "sleep" /\ y.status = x.status /\ y.retry = x.retry
     \/ /\ y.pc = "done" /\ y.status # 0 /\ y.retry = IF y.status = 429 THEN 1 ELSE 0
        /\ y.status = 200 => 200 \in chaosFor(x.agent).errors[1].statuses
ErrorPassed(x, y) == y.pc = AfterErrors(chaosFor(x.agent)) /\ y.fault = x.fault /\ y.status = x.status /\ y.retry = x.retry

\* What maybeInjectError does to the counter and to the request.
LEMMA MaybeInjectErrorEffect ==
  ASSUME PathInv, NEW r \in Requests, maybeInjectError(r), NEW n, n = req[r].agent.name,
         NEW first, first = chaosFor(req[r].agent).errors[1].failFirst
  PROVE  /\ Moves(r) /\ KeepsRest(req[r], req'[r])
         /\ errorCounts' \in [Names -> Nat] /\ \A m \in Names : m # n => errorCounts'[m] = errorCounts[m]
         /\ first > 0 => errorCounts'[n] = errorCounts[n] + 1
         /\ \/ (first > 0 => errorCounts[n] + 1 <= first) /\ ErrorInjected(req[r], req'[r])
            \/ (first > 0 => ~(errorCounts[n] + 1 <= first)) /\ ErrorPassed(req[r], req'[r])
<1> DEFINE x == req[r]
           y == req'[r]
           cfg == chaosFor(x.agent).errors[1]
           k == errorCounts[n] + 1
<1>1. x \in Record /\ req \in [Requests -> Record] /\ x.agent \in Agents /\ Armed(chaosFor(x.agent).errors)
      /\ errorCounts \in [Names -> Nat]
  <2>1. x \in Record /\ req \in [Requests -> Record] /\ Sound(x) /\ x.pc = "errors" /\ errorCounts \in [Names -> Nat]
    BY DEF PathInv, PathTypeOK, maybeInjectError
  <2> QED  BY <2>1 DEF Sound, Underway
<1>2. cfg \in [failFirst : Int, rate : Int, statuses : SUBSET Int, timeout : BOOLEAN]
  <2>1. /\ chaosFor(x.agent).errors \in Seq([failFirst : Int, rate : Int, statuses : SUBSET Int, timeout : BOOLEAN])
        /\ chaosFor(x.agent).errors # << >>
    BY <1>1, PathAssumption, SectionsOfAgent DEF Armed
  <2> QED  BY <2>1, FirstOf
<1>3. n \in Names /\ errorCounts[n] \in Nat
  BY <1>1 DEF Names
<1>4. PICK draw \in Draws, status \in cfg.statuses :
        req' = [req EXCEPT ![r] =
                 CASE ~shouldTrigger(cfg, k, draw) -> [x EXCEPT !.pc = AfterErrors(chaosFor(x.agent))]
                   [] shouldTrigger(cfg, k, draw) /\ cfg.timeout -> [x EXCEPT !.pc = "sleep", !.fault = "error"]
                   [] OTHER -> LET code == IF status = 0 THEN 500 ELSE status
                               IN [[x EXCEPT !.pc = "done", !.status = code] EXCEPT !.fault = "error", !.retry = chaosRetryAfter(code, 0)]]
  BY DEF maybeInjectError, Answer, Chaos, Done
<1>4a. req' = [req EXCEPT ![r] = y]
  BY <1>1, <1>4 DEF y
<1>5. errorCounts' = IF cfg.failFirst > 0 THEN [errorCounts EXCEPT ![n] = @ + 1] ELSE errorCounts
  BY DEF maybeInjectError, Counted, Chaos
<1>6. /\ errorCounts' \in [Names -> Nat] /\ \A m \in Names : m # n => errorCounts'[m] = errorCounts[m]
      /\ cfg.failFirst > 0 => errorCounts'[n] = errorCounts[n] + 1
  BY SMTT(60), <1>1, <1>3, <1>5
<1>7. cfg.failFirst > 0 => (shouldTrigger(cfg, k, draw) <=> k <= cfg.failFirst)
  BY DEF shouldTrigger
<1>8. PICK code \in Int : code = IF status = 0 THEN 500 ELSE status
  BY SMTT(60), <1>2
<1>9. PICK retry \in Nat : retry = chaosRetryAfter(code, 0) /\ retry = IF code = 429 THEN 1 ELSE 0
  BY SMTT(60) DEF chaosRetryAfter
<1> HIDE DEF y, x
<1>10. CASE ~shouldTrigger(cfg, k, draw)
  <2>1. y = [x EXCEPT !.pc = AfterErrors(chaosFor(x.agent))] /\ \A q \in Requests : q # r => req'[q] = req[q]
    BY <1>1, <1>4, <1>10 DEF y
  <2>2. AfterErrors(chaosFor(x.agent)) \in Pcs
    BY <1>1, NextCheck DEF Pcs
  <2>3. y \in Record /\ y.pc = AfterErrors(chaosFor(x.agent)) /\ y.in = x.in /\ y.agent = x.agent /\ y.now = x.now
        /\ y.window = x.window /\ y.decided = x.decided /\ y.fault = x.fault /\ y.status = x.status /\ y.retry = x.retry
        /\ y.turn = x.turn /\ y.scenario = x.scenario /\ y.billed = x.billed
    BY <1>1, <2>1, <2>2 DEF Record
  <2>4. KeepsRest(x, y) /\ ErrorPassed(x, y)
    BY <2>3 DEF KeepsRest, ErrorPassed
  <2>5. Moves(r)
    BY <1>1, <1>4a, <2>3 DEF Moves
  <2> QED  BY <1>6, <1>7, <1>10, <2>4, <2>5 DEF x, y
<1>11. CASE shouldTrigger(cfg, k, draw) /\ cfg.timeout
  <2>1. y = [x EXCEPT !.pc = "sleep", !.fault = "error"] /\ \A q \in Requests : q # r => req'[q] = req[q]
    BY <1>1, <1>4, <1>11 DEF y
  <2>2. y \in Record /\ y.pc = "sleep" /\ y.in = x.in /\ y.agent = x.agent /\ y.now = x.now
        /\ y.window = x.window /\ y.decided = x.decided /\ y.fault = "error" /\ y.status = x.status /\ y.retry = x.retry
        /\ y.turn = x.turn /\ y.scenario = x.scenario /\ y.billed = x.billed
    BY <1>1, <2>1 DEF Record, Pcs
  <2>3. KeepsRest(x, y) /\ ErrorInjected(x, y)
    BY <2>2 DEF KeepsRest, ErrorInjected
  <2>4. Moves(r)
    BY <1>1, <1>4a, <2>2 DEF Moves
  <2> QED  BY <1>6, <1>7, <1>11, <2>3, <2>4 DEF x, y
<1>12. CASE shouldTrigger(cfg, k, draw) /\ ~cfg.timeout
  <2>1. y = [[x EXCEPT !.pc = "done", !.status = code] EXCEPT !.fault = "error", !.retry = retry]
        /\ \A q \in Requests : q # r => req'[q] = req[q]
    BY SMTT(60), <1>1, <1>4, <1>8, <1>9, <1>12 DEF y
  <2>2. y \in Record /\ y.pc = "done" /\ y.in = x.in /\ y.agent = x.agent /\ y.now = x.now
        /\ y.window = x.window /\ y.decided = x.decided /\ y.fault = "error" /\ y.status = code /\ y.retry = retry
        /\ y.turn = x.turn /\ y.scenario = x.scenario /\ y.billed = x.billed
    BY <1>1, <2>1 DEF Record, Pcs
  <2>3. code # 0 /\ (code = 200 => 200 \in cfg.statuses)
    BY SMTT(60), <1>8
  <2>4. KeepsRest(x, y) /\ ErrorInjected(x, y)
    BY <1>9, <2>2, <2>3 DEF KeepsRest, ErrorInjected
  <2>5. Moves(r)
    BY <1>1, <1>4a, <2>2 DEF Moves
  <2> QED  BY <1>6, <1>7, <1>12, <2>4, <2>5 DEF x, y
<1> QED  BY <1>10, <1>11, <1>12

\* The error check.
LEMMA MaybeInjectErrorInv == ASSUME PathInv, NEW r \in Requests, maybeInjectError(r) PROVE PathInv'
<1> DEFINE x == req[r]
           y == req'[r]
<1>1. PathTypeOK /\ TurnsNumbered /\ CacheTracks /\ x \in Record /\ clock \in Nat /\ Sound(x) /\ x.pc = "errors" /\ x.now <= clock
  BY DEF PathInv, PathTypeOK, maybeInjectError
<1>2. UNCHANGED <<clock, buckets, connCounts, turns, cache>>
  BY DEF maybeInjectError
<1> HIDE DEF x, y
<1>3. /\ x.agent \in Agents /\ x.in \in Wire /\ x.status = 0 /\ x.retry = 0 /\ x.billed = "none" /\ x.fault = "none"
      /\ x.turn = 0 /\ x.scenario = 0 /\ Armed(chaosFor(x.agent).errors)
  BY <1>1 DEF Sound, Underway
<1>4. PICK n, first : n = x.agent.name /\ first = chaosFor(x.agent).errors[1].failFirst
  OBVIOUS
<1>5. /\ Moves(r) /\ KeepsRest(x, y)
      /\ errorCounts' \in [Names -> Nat] /\ \A m \in Names : m # n => errorCounts'[m] = errorCounts[m]
      /\ first > 0 => errorCounts'[n] = errorCounts[n] + 1
      /\ \/ (first > 0 => errorCounts[n] + 1 <= first) /\ ErrorInjected(x, y)
         \/ (first > 0 => ~(errorCounts[n] + 1 <= first)) /\ ErrorPassed(x, y)
  BY SMTT(60), <1>4, MaybeInjectErrorEffect DEF x, y
<1>6. /\ y \in Record /\ y.in = x.in /\ y.agent = x.agent /\ y.now = x.now /\ y.window = x.window /\ y.decided = x.decided
      /\ y.turn = 0 /\ y.scenario = 0 /\ y.billed = "none"
  BY <1>3, <1>5 DEF KeepsRest
<1>7. Sound(y)
  <2>1. CASE ErrorInjected(x, y) /\ y.pc = "sleep"
    <3>1. y.fault = "error" /\ y.status = 0 /\ y.retry = 0
      BY <1>3, <2>1 DEF ErrorInjected
    <3> QED  BY <1>1, <1>3, <1>6, <2>1, <3>1 DEF Sound, AtRest, Underway, Decided
  <2>2. CASE ErrorInjected(x, y) /\ y.pc # "sleep"
    <3>1. /\ y.fault = "error" /\ y.pc = "done" /\ y.status # 0 /\ y.retry = IF y.status = 429 THEN 1 ELSE 0
          /\ y.status = 200 => 200 \in chaosFor(x.agent).errors[1].statuses
          /\ y.status \in Int
      BY <1>6, <2>2 DEF ErrorInjected, Record
    <3>2. x.in.proto \in {"openai", "azure", "anthropic", "gemini"}
      BY <1>3 DEF Wire
    <3>3. LET type == ErrorType(y.in, y.fault, y.status)
          IN /\ y.status >= 500 => type \notin {"invalid_request_error", "INVALID_ARGUMENT"}
             /\ y.status = 429 => type \in {"requests", "rate_limit_error", "RESOURCE_EXHAUSTED"}
      BY SMTT(60), <1>6, <3>1, <3>2 DEF ErrorType, anthropicError, anthropicChaosErrorType, geminiError,
                              geminiStatusFor, openAIError, openAIChaosError
    <3>4. OnTheWire(y)
      BY SMTT(60), <1>6, <3>1, <3>3 DEF OnTheWire
    <3> QED  BY <1>1, <1>3, <1>6, <3>1, <3>4 DEF Sound, AtRest, Underway, Decided
  <2>3. CASE ErrorPassed(x, y)
    <3>1. /\ y.pc \in {"connection", "turn"} /\ y.fault = "none" /\ y.status = 0 /\ y.retry = 0
          /\ y.pc = "connection" => Armed(chaosFor(x.agent).connection)
      BY <1>3, <2>3, NextCheck DEF ErrorPassed
    <3> QED  BY <1>1, <1>3, <1>6, <3>1 DEF Sound, AtRest, Underway, Decided
  <2> QED  BY <1>5, <2>1, <2>2, <2>3
<1>8. PathTypeOK'
  <2>1. ASSUME NEW q \in Requests PROVE req'[q].now <= clock
    <3>1. CASE q = r
      BY <1>1, <1>6, <3>1 DEF y
    <3>2. CASE q # r
      BY <1>1, <1>5, <3>2 DEF PathTypeOK, Moves
    <3> QED  BY <3>1, <3>2
  <2> QED  BY <1>1, <1>2, <1>5, <2>1 DEF PathTypeOK, Moves
<1>9. TurnSame(x, y) /\ BilledSame(x, y) /\ \A m : LimitSame(x, y, m)
  <2>1. y.fault # "limit"
    BY <1>3, <1>5 DEF ErrorInjected, ErrorPassed
  <2> QED  BY <1>3, <1>6, <2>1 DEF TurnSame, BilledSame, LimitSame, PeerIn
<1>10. y.fault = "error" \/ (y.fault = "none" /\ y.pc = AfterErrors(chaosFor(x.agent)))
  BY <1>3, <1>5 DEF ErrorInjected, ErrorPassed
<1>11. ASSUME NEW a \in Agents, Alike(a), FailsFirst(a.chaos.connection) > 0 PROVE ConnectionSame(x, y, a.name)
  <2>1. x.agent.name = a.name => x.agent.chaos = a.chaos
    BY <1>3, <1>11, AlikeSections
  <2>2. x.agent.name = a.name => AfterErrors(chaosFor(x.agent)) = "connection"
    BY <1>3, <1>11, <2>1, NextCheck
  <2> QED  BY <1>1, <1>3, <1>6, <1>10, <2>2 DEF ConnectionSame, FailedIn, PastFaultsIn
<1>12. ASSUME NEW a \in Agents, Alike(a) PROVE ErrorsTally(a)'
  <2>1. ErrorsTally(a)
    BY <1>12 DEF PathInv
  <2>2. CASE ~(FailsFirst(a.chaos.errors) > 0)
    BY <2>2 DEF ErrorsTally
  <2>3. CASE FailsFirst(a.chaos.errors) > 0 /\ a.name # n
    <3>1. ErrorsSame(x, y, a.name)
      BY <1>4, <1>6, <2>3 DEF ErrorsSame, FailedIn, PastErrorsIn
    <3>2. errorCounts'[a.name] = errorCounts[a.name]
      BY <1>5, <2>3 DEF Names
    <3> QED  BY <1>5, <2>1, <3>1, <3>2, ErrorsSameTally DEF x, y
  <2>4. CASE FailsFirst(a.chaos.errors) > 0 /\ a.name = n
    <3>1. x.agent.chaos = a.chaos
      BY <1>3, <1>4, <1>12, <2>4, AlikeSections
    <3>2. first = FailsFirst(a.chaos.errors)
      BY SMTT(60), <1>3, <1>4, <2>4, <3>1, SectionsOfAgent DEF FailsFirst
    <3>3. ~FailedIn(x, a.name, "error") /\ ~PastErrorsIn(x, a.name)
      BY <1>1, <1>3 DEF FailedIn, PastErrorsIn
    <3>4. CASE (first > 0 => errorCounts[n] + 1 <= first) /\ ErrorInjected(x, y)
      <4>1. FailedIn(y, a.name, "error") /\ ~PastErrorsIn(y, a.name)
        BY <1>4, <1>6, <2>4, <3>4 DEF FailedIn, PastErrorsIn, ErrorInjected
      <4> QED  BY <1>1, <1>5, <2>1, <2>4, <3>2, <3>3, <3>4, <4>1, ErrorsFail DEF x, y
    <3>5. CASE (first > 0 => ~(errorCounts[n] + 1 <= first)) /\ ErrorPassed(x, y)
      <4>1. ~FailedIn(y, a.name, "error") /\ PastErrorsIn(y, a.name)
        BY <1>3, <1>4, <1>6, <2>4, <3>5, NextCheck DEF FailedIn, PastErrorsIn, ErrorPassed
      <4> QED  BY <1>1, <1>5, <2>1, <2>4, <3>2, <3>3, <3>5, <4>1, ErrorsPass DEF x, y
    <3> QED  BY <1>5, <3>4, <3>5
  <2> QED  BY <2>2, <2>3, <2>4
<1>13. ASSUME NEW a \in Agents, Alike(a) PROVE ConnectionTally(a)' /\ LimitKept(a)'
  <2>1. ConnectionTally(a) /\ LimitKept(a)
    BY <1>13 DEF PathInv
  <2>2. ConnectionTally(a)'
    BY <1>2, <1>5, <1>11, <1>13, <2>1, ConnectionSameTally DEF x, y
  <2>3. LimitKept(a)'
    BY <1>2, <1>5, <1>9, <2>1, LimitSameKept DEF x, y
  <2> QED  BY <2>2, <2>3
<1>14. TurnsNumbered' /\ CacheTracks'
  BY <1>1, <1>2, <1>5, <1>9, TurnSameNumbered, BilledSameTracks DEF x, y
<1> QED  BY <1>5, <1>7, <1>8, <1>12, <1>13, <1>14, StepInv DEF y

\* The record after a connection fault, and after none.
ConnectionCut(x, y) ==
  y.fault = "connection" /\ y.pc = "done" /\ y.status = connectionFault(x.in) /\ y.retry = x.retry
ConnectionPassed(x, y) == y.pc = "turn" /\ y.fault = x.fault /\ y.status = x.status /\ y.retry = x.retry

\* What maybeInjectConnectionFault does to the counter and to the request.
LEMMA ConnectionFaultEffect ==
  ASSUME PathInv, NEW r \in Requests, maybeInjectConnectionFault(r), NEW n, n = req[r].agent.name,
         NEW first, first = chaosFor(req[r].agent).connection[1].failFirst
  PROVE  /\ Moves(r) /\ KeepsRest(req[r], req'[r])
         /\ connCounts' \in [Names -> Nat] /\ \A m \in Names : m # n => connCounts'[m] = connCounts[m]
         /\ first > 0 => connCounts'[n] = connCounts[n] + 1
         /\ \/ (first > 0 => connCounts[n] + 1 <= first) /\ ConnectionCut(req[r], req'[r])
            \/ (first > 0 => ~(connCounts[n] + 1 <= first)) /\ ConnectionPassed(req[r], req'[r])
<1> DEFINE x == req[r]
           y == req'[r]
           cfg == chaosFor(x.agent).connection[1]
           k == connCounts[n] + 1
<1>1. x \in Record /\ req \in [Requests -> Record] /\ x.agent \in Agents /\ connCounts \in [Names -> Nat]
  <2>1. x \in Record /\ req \in [Requests -> Record] /\ Sound(x) /\ x.pc = "connection" /\ connCounts \in [Names -> Nat]
    BY DEF PathInv, PathTypeOK, maybeInjectConnectionFault
  <2> QED  BY <2>1 DEF Sound, Underway
<1>2. n \in Names /\ connCounts[n] \in Nat
  BY <1>1 DEF Names
<1>3. PICK draw \in Draws :
        req' = [req EXCEPT ![r] =
                 IF shouldTrigger(cfg, k, draw)
                 THEN [[x EXCEPT !.pc = "done", !.status = connectionFault(x.in)] EXCEPT !.fault = "connection"]
                 ELSE [x EXCEPT !.pc = "turn"]]
  BY DEF maybeInjectConnectionFault, Answer, Chaos, Done
<1>4. connCounts' = IF cfg.failFirst > 0 THEN [connCounts EXCEPT ![n] = @ + 1] ELSE connCounts
  BY DEF maybeInjectConnectionFault, Counted, Chaos
<1>5. /\ connCounts' \in [Names -> Nat] /\ \A m \in Names : m # n => connCounts'[m] = connCounts[m]
      /\ cfg.failFirst > 0 => connCounts'[n] = connCounts[n] + 1
  BY SMTT(60), <1>1, <1>2, <1>4
<1>6. cfg.failFirst > 0 => (shouldTrigger(cfg, k, draw) <=> k <= cfg.failFirst)
  BY DEF shouldTrigger
<1>7. PICK s \in Int : s = connectionFault(x.in)
  BY SMTT(60) DEF connectionFault
<1> HIDE DEF y, x
<1>8. CASE ~shouldTrigger(cfg, k, draw)
  <2>1. y = [x EXCEPT !.pc = "turn"] /\ \A q \in Requests : q # r => req'[q] = req[q]
    BY <1>1, <1>3, <1>8 DEF y
  <2>2. y \in Record /\ y.pc = "turn" /\ y.in = x.in /\ y.agent = x.agent /\ y.now = x.now
        /\ y.window = x.window /\ y.decided = x.decided /\ y.fault = x.fault /\ y.status = x.status /\ y.retry = x.retry
        /\ y.turn = x.turn /\ y.scenario = x.scenario /\ y.billed = x.billed
    BY <1>1, <2>1 DEF Record, Pcs
  <2>3. KeepsRest(x, y) /\ ConnectionPassed(x, y)
    BY <2>2 DEF KeepsRest, ConnectionPassed
  <2>4. Moves(r)
    BY <1>1, <1>3, <2>1, <2>2 DEF Moves, y
  <2> QED  BY <1>5, <1>6, <1>8, <2>3, <2>4 DEF x, y
<1>9. CASE shouldTrigger(cfg, k, draw)
  <2>1. y = [[x EXCEPT !.pc = "done", !.status = s] EXCEPT !.fault = "connection"]
        /\ \A q \in Requests : q # r => req'[q] = req[q]
    BY <1>1, <1>3, <1>7, <1>9 DEF y
  <2>2. y \in Record /\ y.pc = "done" /\ y.in = x.in /\ y.agent = x.agent /\ y.now = x.now
        /\ y.window = x.window /\ y.decided = x.decided /\ y.fault = "connection" /\ y.status = s /\ y.retry = x.retry
        /\ y.turn = x.turn /\ y.scenario = x.scenario /\ y.billed = x.billed
    BY <1>1, <2>1 DEF Record, Pcs
  <2>3. KeepsRest(x, y) /\ ConnectionCut(x, y)
    BY <1>7, <2>2 DEF KeepsRest, ConnectionCut
  <2>4. Moves(r)
    BY <1>1, <1>3, <2>1, <2>2 DEF Moves, y
  <2> QED  BY <1>5, <1>6, <1>9, <2>3, <2>4 DEF x, y
<1> QED  BY <1>8, <1>9

\* The connection-fault check.
LEMMA ConnectionFaultInv == ASSUME PathInv, NEW r \in Requests, maybeInjectConnectionFault(r) PROVE PathInv'
<1> DEFINE x == req[r]
           y == req'[r]
<1>1. PathTypeOK /\ TurnsNumbered /\ CacheTracks /\ x \in Record /\ clock \in Nat /\ Sound(x) /\ x.pc = "connection" /\ x.now <= clock
  BY DEF PathInv, PathTypeOK, maybeInjectConnectionFault
<1>2. UNCHANGED <<clock, buckets, errorCounts, turns, cache>>
  BY DEF maybeInjectConnectionFault
<1> HIDE DEF x, y
<1>3. /\ x.agent \in Agents /\ x.in \in Wire /\ x.status = 0 /\ x.retry = 0 /\ x.billed = "none" /\ x.fault = "none"
      /\ x.turn = 0 /\ x.scenario = 0 /\ Armed(chaosFor(x.agent).connection)
  BY <1>1 DEF Sound, Underway
<1>4. PICK n, first : n = x.agent.name /\ first = chaosFor(x.agent).connection[1].failFirst
  OBVIOUS
<1>5. /\ Moves(r) /\ KeepsRest(x, y)
      /\ connCounts' \in [Names -> Nat] /\ \A m \in Names : m # n => connCounts'[m] = connCounts[m]
      /\ first > 0 => connCounts'[n] = connCounts[n] + 1
      /\ \/ (first > 0 => connCounts[n] + 1 <= first) /\ ConnectionCut(x, y)
         \/ (first > 0 => ~(connCounts[n] + 1 <= first)) /\ ConnectionPassed(x, y)
  BY SMTT(60), <1>4, ConnectionFaultEffect DEF x, y
<1>6. /\ y \in Record /\ y.in = x.in /\ y.agent = x.agent /\ y.now = x.now /\ y.window = x.window /\ y.decided = x.decided
      /\ y.turn = 0 /\ y.scenario = 0 /\ y.billed = "none" /\ y.retry = 0
  BY <1>3, <1>5 DEF KeepsRest, ConnectionCut, ConnectionPassed
<1>7. Sound(y)
  <2>1. CASE ConnectionCut(x, y)
    <3>1. y.fault = "connection" /\ y.pc = "done" /\ y.status = IF x.in.h2 THEN 502 ELSE 0
      BY <2>1 DEF ConnectionCut, connectionFault
    <3>2. x.in.proto \in {"openai", "azure", "anthropic", "gemini"} /\ x.in.h2 \in BOOLEAN
      BY <1>3 DEF Wire
    <3>3. ErrorType(y.in, y.fault, y.status) \notin {"invalid_request_error", "INVALID_ARGUMENT"}
      BY SMTT(60), <1>6, <3>1, <3>2 DEF ErrorType, anthropicError, geminiError, openAIError
    <3>4. OnTheWire(y)
      BY SMTT(60), <1>6, <3>1, <3>2, <3>3 DEF OnTheWire
    <3> QED  BY <1>1, <1>3, <1>6, <3>1, <3>4 DEF Sound, AtRest, Underway, Decided
  <2>2. CASE ConnectionPassed(x, y)
    <3>1. y.pc = "turn" /\ y.fault = "none" /\ y.status = 0
      BY <1>3, <2>2 DEF ConnectionPassed
    <3> QED  BY <1>1, <1>3, <1>6, <3>1 DEF Sound, AtRest, Underway, Decided
  <2> QED  BY <1>5, <2>1, <2>2
<1>8. PathTypeOK'
  <2>1. ASSUME NEW q \in Requests PROVE req'[q].now <= clock
    <3>1. CASE q = r
      BY <1>1, <1>6, <3>1 DEF y
    <3>2. CASE q # r
      BY <1>1, <1>5, <3>2 DEF PathTypeOK, Moves
    <3> QED  BY <3>1, <3>2
  <2> QED  BY <1>1, <1>2, <1>5, <2>1 DEF PathTypeOK, Moves
<1>9. \/ y.fault = "connection" /\ y.pc = "done"
      \/ y.fault = "none" /\ y.pc = "turn"
  BY <1>3, <1>5 DEF ConnectionCut, ConnectionPassed
<1>10. TurnSame(x, y) /\ BilledSame(x, y) /\ \A m : LimitSame(x, y, m) /\ ErrorsSame(x, y, m)
  BY <1>1, <1>3, <1>6, <1>9 DEF TurnSame, BilledSame, LimitSame, PeerIn, ErrorsSame, FailedIn, PastErrorsIn
<1>11. ASSUME NEW a \in Agents, Alike(a) PROVE ConnectionTally(a)'
  <2>1. ConnectionTally(a)
    BY <1>11 DEF PathInv
  <2>2. CASE ~(FailsFirst(a.chaos.connection) > 0)
    BY <2>2 DEF ConnectionTally
  <2>3. CASE FailsFirst(a.chaos.connection) > 0 /\ a.name # n
    <3>1. ConnectionSame(x, y, a.name)
      BY <1>4, <1>6, <2>3 DEF ConnectionSame, FailedIn, PastFaultsIn
    <3>2. connCounts'[a.name] = connCounts[a.name]
      BY <1>5, <2>3 DEF Names
    <3> QED  BY <1>5, <2>1, <3>1, <3>2, ConnectionSameTally DEF x, y
  <2>4. CASE FailsFirst(a.chaos.connection) > 0 /\ a.name = n
    <3>1. x.agent.chaos = a.chaos
      BY <1>3, <1>4, <1>11, <2>4, AlikeSections
    <3>2. first = FailsFirst(a.chaos.connection)
      BY SMTT(60), <1>3, <1>4, <2>4, <3>1, SectionsOfAgent DEF FailsFirst
    <3>3. ~FailedIn(x, a.name, "connection") /\ ~PastFaultsIn(x, a.name)
      BY <1>1, <1>3 DEF FailedIn, PastFaultsIn
    <3>4. CASE (first > 0 => connCounts[n] + 1 <= first) /\ ConnectionCut(x, y)
      <4>1. FailedIn(y, a.name, "connection") /\ ~PastFaultsIn(y, a.name)
        BY <1>4, <1>6, <2>4, <3>4 DEF FailedIn, PastFaultsIn, ConnectionCut
      <4> QED  BY <1>1, <1>5, <2>1, <2>4, <3>2, <3>3, <3>4, <4>1, ConnectionFail DEF x, y
    <3>5. CASE (first > 0 => ~(connCounts[n] + 1 <= first)) /\ ConnectionPassed(x, y)
      <4>1. ~FailedIn(y, a.name, "connection") /\ PastFaultsIn(y, a.name)
        BY <1>3, <1>4, <1>6, <2>4, <3>5 DEF FailedIn, PastFaultsIn, ConnectionPassed
      <4> QED  BY <1>1, <1>5, <2>1, <2>4, <3>2, <3>3, <3>5, <4>1, ConnectionPass DEF x, y
    <3> QED  BY <1>5, <3>4, <3>5
  <2> QED  BY <2>2, <2>3, <2>4
<1>12. ASSUME NEW a \in Agents, Alike(a) PROVE ErrorsTally(a)' /\ LimitKept(a)'
  <2>1. ErrorsTally(a) /\ LimitKept(a)
    BY <1>12 DEF PathInv
  <2>2. ErrorsTally(a)'
    BY <1>2, <1>5, <1>10, <2>1, ErrorsSameTally DEF x, y
  <2>3. LimitKept(a)'
    BY <1>2, <1>5, <1>10, <2>1, LimitSameKept DEF x, y
  <2> QED  BY <2>2, <2>3
<1>13. TurnsNumbered' /\ CacheTracks'
  BY <1>1, <1>2, <1>5, <1>10, TurnSameNumbered, BilledSameTracks DEF x, y
<1> QED  BY <1>5, <1>7, <1>8, <1>11, <1>12, <1>13, StepInv DEF y

\* One more turn of a conversation.
LEMMA TurnTaken ==
  ASSUME PathTypeOK, TurnsNumbered, NEW r \in Requests, Moves(r), NEW k, k = scopedSessionKey(r), scopedSessionKey(r)' = k,
         req[r].turn = 0, NEW n, n = TurnsOf(k), req'[r].turn = n + 1,
         turns' = [j \in DOMAIN turns \cup {k} |-> IF j = k THEN n + 1 ELSE turns[j]]
  PROVE  TurnsNumbered'
<1> DEFINE T == TurnsIn(k)
<1>1. n \in Nat /\ {req[q].turn : q \in T} = 1..n /\ Cardinality(T) = n
  <2>1. CASE k \in DOMAIN turns
    BY <2>1 DEF TurnsOf, TurnsNumbered, PathTypeOK
  <2>2. CASE k \notin DOMAIN turns
    <3>1. T = {} /\ n = 0
      BY <2>2 DEF TurnsOf, TurnsNumbered, TurnsIn
    <3>2. {req[q].turn : q \in T} = {} /\ Cardinality(T) = 0
      BY <3>1, FS_EmptySet
    <3>3. 1..0 = {}
      BY SMTT(60)
    <3> QED  BY SMTT(60), <3>1, <3>2, <3>3
  <2> QED  BY <2>1, <2>2
<1>2. ASSUME NEW q \in Requests, q # r PROVE req'[q] = req[q] /\ scopedSessionKey(q)' = scopedSessionKey(q)
  BY <1>2 DEF Moves, scopedSessionKey
<1>3. \A q \in Requests : scopedSessionKey(q)' = scopedSessionKey(q)
  BY <1>2
<1>4. TurnsIn(k)' = T \cup {r} /\ r \notin T
  <2>1. \A q \in Requests : q \in TurnsIn(k)' <=> q \in T \/ q = r
    BY SMTT(60), <1>1, <1>2, <1>3 DEF TurnsIn
  <2> QED  BY SMTT(60), <2>1 DEF TurnsIn
<1>5. ASSUME NEW j, j # k PROVE TurnsIn(j)' = TurnsIn(j) /\ {req'[q].turn : q \in TurnsIn(j)} = {req[q].turn : q \in TurnsIn(j)}
  <2>1. \A q \in Requests : q \in TurnsIn(j)' <=> q \in TurnsIn(j)
    BY <1>2, <1>3, <1>5 DEF TurnsIn
  <2>2. r \notin TurnsIn(j) /\ TurnsIn(j) \subseteq Requests
    BY <1>5 DEF TurnsIn
  <2>3. \A q \in TurnsIn(j) : req'[q] = req[q]
    BY <1>2, <2>2
  <2>4. TurnsIn(j)' = TurnsIn(j)
    BY <2>1 DEF TurnsIn
  <2> QED  BY <2>3, <2>4
<1>6. {req'[q].turn : q \in T \cup {r}} = 1..(n + 1)
  <2>1. \A q \in T : req'[q] = req[q]
    BY <1>2, <1>4 DEF TurnsIn
  <2>2. {req'[q].turn : q \in T \cup {r}} = {req[q].turn : q \in T} \cup {n + 1}
    BY <2>1
  <2>3. 1..(n + 1) = (1..n) \cup {n + 1}
    BY SMTT(60), <1>1
  <2> QED  BY <1>1, <2>2, <2>3
<1>7. Cardinality(T \cup {r}) = n + 1
  <2>1. IsFiniteSet(T)
    BY PathAssumption, FS_Subset DEF TurnsIn
  <2> QED  BY <1>1, <1>4, <2>1, FS_AddElement
<1>8. DOMAIN turns' = DOMAIN turns \cup {k} /\ turns'[k] = n + 1 /\ \A j \in DOMAIN turns : j # k => turns'[j] = turns[j]
  OBVIOUS
<1>9. ASSUME NEW j \in DOMAIN turns'
      PROVE  {req'[q].turn : q \in TurnsIn(j)'} = 1..turns'[j] /\ Cardinality(TurnsIn(j)') = turns'[j]
  <2>1. CASE j = k
    BY <1>4, <1>6, <1>7, <1>8, <2>1
  <2>2. CASE j # k
    <3>1. j \in DOMAIN turns /\ turns'[j] = turns[j]
      BY <1>8, <2>2
    <3>2. {req[q].turn : q \in TurnsIn(j)} = 1..turns[j] /\ Cardinality(TurnsIn(j)) = turns[j]
      BY <3>1 DEF TurnsNumbered
    <3> QED  BY <1>5, <2>2, <3>1, <3>2
  <2> QED  BY <2>1, <2>2
<1>10. ASSUME NEW q \in Requests, req'[q].turn > 0 PROVE scopedSessionKey(q)' \in DOMAIN turns'
  <2>1. CASE q = r
    BY <1>8, <2>1
  <2>2. CASE q # r
    BY <1>2, <1>8, <1>10, <2>2 DEF TurnsNumbered
  <2> QED  BY <2>1, <2>2
<1>11. ASSUME NEW q \in Requests, q # r, scopedSessionKey(q)' = k PROVE req'[q].turn # n + 1
  <2>1. req'[q].turn = req[q].turn /\ scopedSessionKey(q) = k
    BY <1>2, <1>11
  <2>2. CASE req[q].turn > 0
    <3>1. q \in T
      BY <2>1, <2>2 DEF TurnsIn
    <3>2. req[q].turn \in 1..n
      BY <1>1, <3>1
    <3> QED  BY SMTT(60), <1>1, <2>1, <3>2
  <2>3. CASE ~(req[q].turn > 0)
    BY SMTT(60), <1>1, <2>1, <2>3
  <2> QED  BY <2>2, <2>3
<1>12. ASSUME NEW p \in Requests, NEW q \in Requests, p # q, req'[p].turn > 0, scopedSessionKey(p)' = scopedSessionKey(q)'
       PROVE  req'[p].turn # req'[q].turn
  <2>1. CASE p = r
    BY <1>11, <1>12, <2>1
  <2>2. CASE q = r
    BY <1>11, <1>12, <2>2
  <2>3. CASE p # r /\ q # r
    BY SMTT(60), <1>2, <1>12, <2>3 DEF TurnsNumbered
  <2> QED  BY <2>1, <2>2, <2>3
<1> QED  BY <1>9, <1>10, <1>12 DEF TurnsNumbered

\* What the engine's turn does to the request: an empty message is refused, any
\* other takes the next turn and a scenario that may answer it.
EmptyRefused(x, y) == y.pc = "done" /\ y.status = 400 /\ y.turn = 0 /\ y.scenario = 0
TurnRun(x, y, turn) ==
  /\ y.turn = turn
  /\ y.scenario # 0 => Fits(x.agent.scenarios[y.scenario], turn)
  /\ \/ y.pc = "respond" /\ Generate(x.agent.scenarios, y.scenario) /\ y.status = x.status
     \/ y.pc = "done" /\ ~Generate(x.agent.scenarios, y.scenario) /\ y.status \in {400, 404, 500}
KeepsFate(x, y) ==
  /\ y \in Record /\ y.in = x.in /\ y.agent = x.agent /\ y.now = x.now /\ y.window = x.window /\ y.decided = x.decided
  /\ y.fault = x.fault /\ y.retry = x.retry

LEMMA TurnEffect ==
  ASSUME PathInv, NEW r \in Requests, Turn(r), NEW k, k = scopedSessionKey(r), NEW n, n = TurnsOf(k)
  PROVE  /\ Moves(r) /\ KeepsFate(req[r], req'[r]) /\ req'[r].billed = req[r].billed /\ n \in Nat
         /\ \/ turns' = turns /\ EmptyRefused(req[r], req'[r])
            \/ /\ turns' = [j \in DOMAIN turns \cup {k} |-> IF j = k THEN n + 1 ELSE turns[j]]
               /\ TurnRun(req[r], req'[r], n + 1)
<1> DEFINE x == req[r]
           y == req'[r]
           user == latestUser(Converted(req[r].in))
           sc == req[r].agent.scenarios
           i == MatchWithCaptures(sc, user.words, n + 1, user.images)
<1>1. x \in Record /\ req \in [Requests -> Record] /\ x.agent \in Agents /\ x.turn = 0 /\ x.scenario = 0
  <2>1. x \in Record /\ req \in [Requests -> Record] /\ Sound(x) /\ x.pc = "turn"
    BY DEF PathInv, PathTypeOK, Turn
  <2> QED  BY <2>1 DEF Sound, Underway
<1>2. n \in Nat
  BY DEF PathInv, PathTypeOK, TurnsOf
<1>3. i \in Nat /\ (i # 0 => Fits(sc[i], n + 1))
  BY <1>1, PathAssumption, MatchFits
<1>4. \/ /\ turns' = turns /\ req' = [req EXCEPT ![r] = Done(r, errorStatus({"empty"}))]
      \/ /\ turns' = [j \in DOMAIN turns \cup {k} |-> IF j = k THEN n + 1 ELSE turns[j]]
         /\ req' = [req EXCEPT ![r] = [(IF Generate(sc, i) THEN [req[r] EXCEPT !.pc = "respond"]
                                        ELSE Done(r, errorStatus(sc[i].nameWords))) EXCEPT !.turn = n + 1, !.scenario = i]]
  BY DEF Turn, Answer
<1>5. PICK t \in Nat : t = n + 1
  BY SMTT(60), <1>2
<1>6. PICK m \in Nat : m = i
  BY <1>3
<1> HIDE DEF x, y, i, sc
<1>7. CASE turns' = turns /\ req' = [req EXCEPT ![r] = Done(r, errorStatus({"empty"}))]
  <2>1. PICK s \in Int : s = errorStatus({"empty"}) /\ s = 400
    <3>1. "not found" \notin {"empty"} /\ "empty" \in {"empty"}
      OBVIOUS
    <3>2. errorStatus({"empty"}) = 400
      BY <3>1 DEF errorStatus
    <3> QED  BY SMTT(60), <3>2
  <2>2. y = [x EXCEPT !.pc = "done", !.status = s] /\ \A q \in Requests : q # r => req'[q] = req[q]
    BY SMTT(60), <1>1, <1>7, <2>1 DEF x, y, Done
  <2>3. y \in Record
    BY <1>1, <2>2 DEF Record, Pcs
  <2>4. y.pc = "done" /\ y.status = s /\ y.in = x.in /\ y.agent = x.agent /\ y.now = x.now /\ y.window = x.window
        /\ y.decided = x.decided /\ y.fault = x.fault /\ y.retry = x.retry
        /\ y.turn = x.turn /\ y.scenario = x.scenario /\ y.billed = x.billed
    BY <1>1, <2>2 DEF Record
  <2>5. EmptyRefused(x, y)
    BY <1>1, <2>1, <2>4 DEF EmptyRefused
  <2>6. KeepsFate(x, y) /\ y.billed = x.billed
    BY <2>3, <2>4 DEF KeepsFate
  <2>7. Moves(r)
    BY <1>1, <1>7, <2>2, <2>3 DEF Moves, y
  <2> QED  BY <1>2, <1>7, <2>5, <2>6, <2>7 DEF x, y
<1>8. CASE /\ turns' = [j \in DOMAIN turns \cup {k} |-> IF j = k THEN n + 1 ELSE turns[j]]
           /\ req' = [req EXCEPT ![r] = [(IF Generate(sc, i) THEN [req[r] EXCEPT !.pc = "respond"]
                                          ELSE Done(r, errorStatus(sc[i].nameWords))) EXCEPT !.turn = n + 1, !.scenario = i]]
  <2>1. PICK s \in Int : s = errorStatus(sc[i].nameWords) /\ s \in {400, 404, 500}
    <3>1. ASSUME NEW words PROVE errorStatus(words) \in {400, 404, 500}
      BY SMTT(60) DEF errorStatus
    <3> QED  BY SMTT(60), <3>1
  <2>2. \A q \in Requests : q # r => req'[q] = req[q]
    BY <1>1, <1>8
  <2>3. y = [(IF Generate(sc, m) THEN [x EXCEPT !.pc = "respond"] ELSE [x EXCEPT !.pc = "done", !.status = s])
               EXCEPT !.turn = t, !.scenario = m]
    BY SMTT(60), <1>1, <1>5, <1>6, <1>8, <2>1 DEF x, y, Done
  <2>4. m # 0 => Fits(sc[m], n + 1)
    BY <1>3, <1>6
  <2>5. y \in Record
    BY <1>1, <2>3 DEF Record, Pcs
  <2>6. y.in = x.in /\ y.agent = x.agent /\ y.now = x.now /\ y.window = x.window
        /\ y.decided = x.decided /\ y.fault = x.fault /\ y.retry = x.retry
        /\ y.turn = t /\ y.scenario = m /\ y.billed = x.billed
    BY <1>1, <2>3 DEF Record
  <2>7. \/ y.pc = "respond" /\ Generate(sc, m) /\ y.status = x.status
        \/ y.pc = "done" /\ ~Generate(sc, m) /\ y.status = s
    BY <1>1, <2>3 DEF Record
  <2>8. TurnRun(x, y, n + 1)
    BY SMTT(60), <1>5, <2>1, <2>4, <2>6, <2>7 DEF TurnRun, sc, x
  <2>9. KeepsFate(x, y) /\ y.billed = x.billed
    BY <2>5, <2>6 DEF KeepsFate
  <2>10. Moves(r)
    BY <1>1, <1>8, <2>2, <2>5 DEF Moves, y
  <2> QED  BY <1>2, <1>8, <2>8, <2>9, <2>10 DEF x, y
<1> QED  BY <1>4, <1>7, <1>8

\* A step past the fault checks that injects nothing leaves the counters and the
\* buckets as they were.
LEMMA PastChecksInv ==
  ASSUME PathInv, NEW r \in Requests, Moves(r), KeepsFate(req[r], req'[r]), Sound(req'[r]),
         req[r].pc \in {"turn", "respond"}, req'[r].pc \in {"turn", "respond", "done"},
         UNCHANGED <<clock, buckets, errorCounts, connCounts>>,
         PathTypeOK', TurnsNumbered', CacheTracks'
  PROVE  PathInv'
<1>1. \A m : /\ ErrorsSame(req[r], req'[r], m) /\ ConnectionSame(req[r], req'[r], m) /\ LimitSame(req[r], req'[r], m)
  <2>1. req[r].pc \notin {"sleep", "done"} /\ Sound(req[r])
    BY DEF PathInv
  <2>2. req[r].fault = "none"
    BY <2>1 DEF Sound, Underway
  <2> QED  BY <2>2 DEF KeepsFate, LimitSame, PeerIn, ErrorsSame, ConnectionSame, FailedIn, PastErrorsIn, PastFaultsIn
<1>2. ASSUME NEW a \in Agents, Alike(a) PROVE ErrorsTally(a)' /\ ConnectionTally(a)' /\ LimitKept(a)'
  <2>1. ErrorsTally(a) /\ ConnectionTally(a) /\ LimitKept(a)
    BY <1>2 DEF PathInv
  <2>2. ErrorsTally(a)'
    BY <1>1, <2>1, ErrorsSameTally
  <2>3. ConnectionTally(a)'
    BY <1>1, <2>1, ConnectionSameTally
  <2>4. LimitKept(a)'
    BY <1>1, <2>1, LimitSameKept
  <2> QED  BY <2>2, <2>3, <2>4
<1> QED  BY <1>2, StepInv

\* The engine's turn.
LEMMA TurnInv == ASSUME PathInv, NEW r \in Requests, Turn(r) PROVE PathInv'
<1> DEFINE x == req[r]
           y == req'[r]
<1>1. PathTypeOK /\ TurnsNumbered /\ CacheTracks /\ x \in Record /\ clock \in Nat /\ Sound(x) /\ x.pc = "turn" /\ x.now <= clock
  BY DEF PathInv, PathTypeOK, Turn
<1>2. UNCHANGED <<clock, buckets, errorCounts, connCounts, cache>>
  BY DEF Turn
<1>3. PICK k, n : k = scopedSessionKey(r) /\ n = TurnsOf(k)
  OBVIOUS
<1> HIDE DEF x, y
<1>4. /\ Moves(r) /\ KeepsFate(x, y) /\ y.billed = x.billed /\ n \in Nat
      /\ \/ turns' = turns /\ EmptyRefused(x, y)
         \/ /\ turns' = [j \in DOMAIN turns \cup {k} |-> IF j = k THEN n + 1 ELSE turns[j]]
            /\ TurnRun(x, y, n + 1)
  BY SMTT(60), <1>3, TurnEffect DEF x, y
<1>5. /\ x.agent \in Agents /\ x.in \in Wire /\ x.status = 0 /\ x.retry = 0 /\ x.billed = "none" /\ x.fault = "none"
      /\ x.turn = 0 /\ x.scenario = 0
  BY <1>1 DEF Sound, Underway
<1>6. y.pc \in {"respond", "done"}
  BY <1>4 DEF EmptyRefused, TurnRun
<1>7. Sound(y)
  <2>1. /\ y.agent = x.agent /\ y.in = x.in /\ y.fault = "none" /\ y.retry = 0 /\ y.billed = "none" /\ y.decided = x.decided
    BY <1>4, <1>5 DEF KeepsFate
  <2>2. CASE EmptyRefused(x, y)
    <3>1. y.pc = "done" /\ y.status = 400 /\ y.turn = 0 /\ y.scenario = 0
      BY <2>2 DEF EmptyRefused
    <3>2. OnTheWire(y)
      BY SMTT(60), <2>1, <3>1 DEF OnTheWire
    <3> QED  BY SMTT(60), <1>1, <1>5, <2>1, <3>1, <3>2 DEF Sound, AtRest, Underway, Decided
  <2>3. CASE TurnRun(x, y, n + 1)
    <3>1. y.turn > 0 /\ (y.scenario # 0 => Fits(y.agent.scenarios[y.scenario], y.turn))
      BY SMTT(60), <1>4, <2>1, <2>3 DEF TurnRun
    <3>2. CASE y.pc = "respond" /\ Generate(y.agent.scenarios, y.scenario) /\ y.status = 0
      BY <1>1, <1>5, <2>1, <3>1, <3>2 DEF Sound, AtRest, Underway, Decided
    <3>3. CASE y.pc = "done" /\ ~Generate(y.agent.scenarios, y.scenario) /\ y.status \in {400, 404, 500}
      <4>1. OnTheWire(y)
        BY SMTT(60), <2>1, <3>3 DEF OnTheWire
      <4> QED  BY <1>1, <1>5, <2>1, <3>1, <3>3, <4>1 DEF Sound, AtRest, Underway, Decided
    <3> QED  BY <1>5, <2>1, <2>3, <3>2, <3>3 DEF TurnRun
  <2> QED  BY <1>4, <2>2, <2>3
<1>8. PathTypeOK'
  <2>1. ASSUME NEW q \in Requests PROVE req'[q].now <= clock
    <3>1. CASE q = r
      BY <1>1, <1>4, <3>1 DEF y, KeepsFate
    <3>2. CASE q # r
      BY <1>1, <1>4, <3>2 DEF PathTypeOK, Moves
    <3> QED  BY <3>1, <3>2
  <2>2. turns' = [j \in DOMAIN turns' |-> turns'[j]] /\ \A j \in DOMAIN turns' : turns'[j] \in Nat
    <3>1. CASE turns' = turns
      BY <1>1, <3>1 DEF PathTypeOK
    <3>2. CASE turns' = [j \in DOMAIN turns \cup {k} |-> IF j = k THEN n + 1 ELSE turns[j]]
      BY SMTT(60), <1>1, <1>4, <3>2 DEF PathTypeOK
    <3> QED  BY <1>4, <3>1, <3>2
  <2> QED  BY <1>1, <1>2, <1>4, <2>1, <2>2 DEF PathTypeOK, Moves
<1>9. TurnsNumbered'
  <2>1. CASE turns' = turns /\ EmptyRefused(x, y)
    <3>1. TurnSame(x, y)
      BY SMTT(60), <1>5, <2>1 DEF TurnSame, EmptyRefused
    <3> QED  BY SMTT(60), <1>1, <1>4, <2>1, <3>1, TurnSameNumbered DEF x, y
  <2>2. CASE turns' = [j \in DOMAIN turns \cup {k} |-> IF j = k THEN n + 1 ELSE turns[j]] /\ TurnRun(x, y, n + 1)
    <3>1. scopedSessionKey(r)' = k
      BY <1>3, <1>4 DEF scopedSessionKey, KeepsFate, x, y
    <3>2. req[r].turn = 0 /\ req'[r].turn = n + 1
      BY <1>5, <2>2 DEF TurnRun, x, y
    <3> QED  BY SMTT(60), <1>1, <1>3, <1>4, <2>2, <3>1, <3>2, TurnTaken
  <2> QED  BY <1>4, <2>1, <2>2
<1>10. CacheTracks'
  <2>1. BilledSame(x, y)
    BY <1>4, <1>5 DEF BilledSame
  <2> QED  BY <1>1, <1>2, <1>4, <2>1, BilledSameTracks DEF x, y
<1> QED  BY <1>1, <1>2, <1>4, <1>6, <1>7, <1>8, <1>9, <1>10, PastChecksInv DEF x, y

\* A sequence without repetition has as many members as places.
LEMMA RangeCounts ==
  ASSUME NEW S, NEW s \in Seq(S), \A i, j \in 1..Len(s) : s[i] = s[j] => i = j
  PROVE  IsFiniteSet(Range(s)) /\ Cardinality(Range(s)) = Len(s)
<1>1. s \in [1..Len(s) -> Range(s)] /\ DOMAIN s = 1..Len(s) /\ Len(s) \in Nat
  BY SMTT(60) DEF Range
<1>2. s \in Bijection(1..Len(s), Range(s))
  BY <1>1 DEF Bijection, Injection, IsInjective, Surjection, Range
<1>3. ExistsBijection(1..Len(s), Range(s))
  BY <1>2 DEF ExistsBijection
<1>4. IsFiniteSet(1..Len(s)) /\ Cardinality(1..Len(s)) = Len(s)
  <2>1. ASSUME NEW n \in Nat PROVE IsFiniteSet(1..n) /\ Cardinality(1..n) = n
    <3>1. IsFiniteSet(1..n) /\ Cardinality(1..n) = IF 1 > n THEN 0 ELSE n - 1 + 1
      BY SMTT(60), FS_Interval
    <3> QED  BY SMTT(60), <3>1
  <2> QED  BY <1>1, <2>1
<1> QED  BY <1>3, <1>4, FS_Bijection

\* The contents created are finitely many.
LEMMA CreatedFinite == IsFiniteSet(BilledAs("creation")) /\ IsFiniteSet(Created)
<1> DEFINE B == BilledAs("creation")
           f == [q \in B |-> CacheKey(q)]
<1>1. IsFiniteSet(B)
  BY PathAssumption, FS_Subset DEF BilledAs
<1>2. f \in Surjection(B, Created)
  BY DEF Surjection, Created
<1> QED  BY <1>1, <1>2, FS_Surjection

\* The keys of the other requests stay as they were.
LEMMA KeysKept ==
  ASSUME NEW r \in Requests, Moves(r), req'[r].in = req[r].in
  PROVE  \A q \in Requests : CacheKey(q)' = CacheKey(q) /\ (q # r => req'[q].billed = req[q].billed)
  BY DEF CacheKey, Moves

\* A content already tracked is billed as read.
LEMMA ReadBilled ==
  ASSUME CacheTracks, NEW r \in Requests, Moves(r), req'[r].in = req[r].in, req[r].billed = "none",
         req'[r].billed = "read", CacheKey(r) \in Range(cache), cache' = cache
  PROVE  CacheTracks'
<1>1. \A q \in Requests : CacheKey(q)' = CacheKey(q) /\ (q # r => req'[q].billed = req[q].billed)
  BY KeysKept
<1>2. BilledAs("creation")' = BilledAs("creation") /\ BilledAs("read")' = BilledAs("read") \cup {r}
  <2>1. \A q \in Requests : /\ req'[q].billed = "creation" <=> req[q].billed = "creation"
                            /\ req'[q].billed = "read" <=> req[q].billed = "read" \/ q = r
    BY <1>1
  <2> QED  BY <2>1 DEF BilledAs
<1>3. \A q \in BilledAs("creation") \cup BilledAs("read") \cup {r} : CacheKey(q)' = CacheKey(q)
  BY <1>1 DEF BilledAs
<1>4. Created' = Created
  BY <1>2, <1>3 DEF Created
<1>5. CacheKey(r) \in Created
  BY DEF CacheTracks
<1> QED  BY <1>2, <1>3, <1>4, <1>5 DEF CacheTracks

\* The tracker with one more key: the oldest leaves past the cap.
Tracked(order, key) ==
  LET longer == Append(order, key) IN SubSeq(longer, IF Len(longer) > MaxCache THEN 2 ELSE 1, Len(longer))

\* The tracker keeps within its cap and without repetition; below the cap nothing leaves it.
LEMMA TrackedKeeps ==
  ASSUME NEW s \in Seq(CacheKeys), NEW key \in CacheKeys, key \notin Range(s), Len(s) <= MaxCache,
         \A i, j \in 1..Len(s) : s[i] = s[j] => i = j, NEW t, t = Tracked(s, key)
  PROVE  /\ t \in Seq(CacheKeys) /\ Len(t) <= MaxCache
         /\ \A i, j \in 1..Len(t) : t[i] = t[j] => i = j
         /\ Range(t) \subseteq Range(s) \cup {key}
         /\ Len(s) < MaxCache => Range(t) = Range(s) \cup {key}
<1> DEFINE n == Len(s)
           u == Append(s, key)
<1>1. n \in Nat /\ MaxCache \in Nat \ {0} /\ n <= MaxCache
  BY SMTT(60), PathAssumption
<1>2. u \in Seq(CacheKeys) /\ Len(u) = n + 1 /\ u[n + 1] = key /\ \A i \in 1..n : u[i] = s[i]
  BY SMTT(60)
<1>3. \A i \in 1..n : s[i] # key /\ s[i] \in Range(s)
  BY SMTT(60) DEF Range
<1>4. \A i, j \in 1..(n + 1) : u[i] = u[j] => i = j
  <2> SUFFICES ASSUME NEW i \in 1..(n + 1), NEW j \in 1..(n + 1), u[i] = u[j] PROVE i = j
    OBVIOUS
  <2>1. (i \in 1..n \/ i = n + 1) /\ (j \in 1..n \/ j = n + 1)
    BY SMTT(60), <1>1
  <2> QED  BY <1>2, <1>3, <2>1
<1>5. \A i \in 1..(n + 1) : u[i] \in Range(s) \cup {key}
  <2> SUFFICES ASSUME NEW i \in 1..(n + 1) PROVE u[i] \in Range(s) \cup {key}
    OBVIOUS
  <2>1. i \in 1..n \/ i = n + 1
    BY SMTT(60), <1>1
  <2> QED  BY <1>2, <1>3, <2>1
<1>6. PICK lo \in {1, 2} : lo = IF Len(u) > MaxCache THEN 2 ELSE 1
  OBVIOUS
<1>7. t = SubSeq(u, lo, n + 1)
  BY <1>2, <1>6 DEF Tracked
<1>8. n < MaxCache => lo = 1
  BY SMTT(60), <1>1, <1>2, <1>6
<1>9. ~(n < MaxCache) => lo = 2 /\ n = MaxCache
  BY SMTT(60), <1>1, <1>2, <1>6
<1> HIDE DEF u, n
<1>10. /\ t \in Seq(CacheKeys) /\ Len(t) = n + 2 - lo
       /\ \A i \in 1..(n + 2 - lo) : t[i] = u[i + lo - 1] /\ i + lo - 1 \in 1..(n + 1)
  <2>1. CASE lo = 1
    BY SMTT(60), <1>1, <1>2, <1>7, <2>1
  <2>2. CASE lo = 2
    BY SMTT(60), <1>1, <1>2, <1>7, <2>2
  <2> QED  BY <2>1, <2>2
<1>11. Len(t) <= MaxCache
  BY SMTT(60), <1>1, <1>8, <1>9, <1>10
<1>12. ASSUME NEW i \in 1..Len(t), NEW j \in 1..Len(t), t[i] = t[j] PROVE i = j
  <2>1. /\ t[i] = u[i + lo - 1] /\ i + lo - 1 \in 1..(n + 1)
        /\ t[j] = u[j + lo - 1] /\ j + lo - 1 \in 1..(n + 1)
    BY <1>10, <1>12
  <2>2. i + lo - 1 = j + lo - 1
    BY <1>4, <1>12, <2>1
  <2> QED  BY SMTT(60), <1>10, <2>2
<1>13. DOMAIN t = 1..Len(t) /\ DOMAIN s = 1..n
  BY SMTT(60), <1>10 DEF n
<1>14. Range(t) \subseteq Range(s) \cup {key}
  <2> SUFFICES ASSUME NEW i \in 1..Len(t) PROVE t[i] \in Range(s) \cup {key}
    BY SMTT(60), <1>13 DEF Range
  <2> QED  BY <1>5, <1>10
<1>15. ASSUME n < MaxCache PROVE Range(s) \cup {key} \subseteq Range(t)
  <2>1. Len(t) = n + 1 /\ \A i \in 1..(n + 1) : t[i] = u[i]
    BY SMTT(60), <1>1, <1>8, <1>10, <1>15
  <2>2. \A i \in 1..(n + 1) : u[i] \in Range(t)
    BY <1>13, <2>1 DEF Range
  <2>3. key \in Range(t)
    BY SMTT(60), <1>1, <1>2, <2>2
  <2>4. \A i \in 1..n : s[i] \in Range(t)
    BY SMTT(60), <1>1, <1>2, <2>2
  <2> QED  BY <1>13, <2>3, <2>4 DEF Range
<1> QED  BY <1>10, <1>11, <1>12, <1>14, <1>15 DEF n

\* A content not tracked is billed as created.
LEMMA CreationBilled ==
  ASSUME PathTypeOK, CacheTracks, NEW r \in Requests, Moves(r), req'[r].in = req[r].in, req[r].billed = "none",
         req'[r].billed = "creation", NEW key \in CacheKeys, key = CacheKey(r), key \notin Range(cache),
         cache' = Tracked(cache, key)
  PROVE  CacheTracks' /\ cache' \in Seq(CacheKeys)
<1> DEFINE B == BilledAs("creation")
<1>1. \A q \in Requests : CacheKey(q)' = CacheKey(q) /\ (q # r => req'[q].billed = req[q].billed)
  BY KeysKept
<1>2. B' = B \cup {r} /\ r \notin B /\ BilledAs("read")' = BilledAs("read")
  <2>1. \A q \in Requests : /\ req'[q].billed = "creation" <=> req[q].billed = "creation" \/ q = r
                            /\ req'[q].billed = "read" <=> req[q].billed = "read"
    BY <1>1
  <2> QED  BY <2>1 DEF BilledAs
<1>3. \A q \in B \cup BilledAs("read") \cup {r} : CacheKey(q)' = CacheKey(q)
  BY <1>1 DEF BilledAs
<1>4. Created' = Created \cup {key}
  <2>1. Created' = {CacheKey(q)' : q \in B'}
    BY DEF Created
  <2>2. {CacheKey(q)' : q \in B'} = {CacheKey(q) : q \in B} \cup {key}
    BY <1>2, <1>3
  <2> QED  BY <2>1, <2>2 DEF Created
<1>5. /\ cache \in Seq(CacheKeys) /\ Len(cache) <= MaxCache /\ Range(cache) \subseteq Created
      /\ \A i, j \in 1..Len(cache) : cache[i] = cache[j] => i = j
  BY DEF PathTypeOK, CacheTracks
<1>6. /\ cache' \in Seq(CacheKeys) /\ Len(cache') <= MaxCache
      /\ \A i, j \in 1..Len(cache') : cache'[i] = cache'[j] => i = j
      /\ Range(cache') \subseteq Range(cache) \cup {key}
      /\ Len(cache) < MaxCache => Range(cache') = Range(cache) \cup {key}
  BY SMTT(60), <1>5, TrackedKeeps
<1>7. ASSUME Cardinality(Created \cup {key}) <= MaxCache
      PROVE  Range(cache') = Created \cup {key} /\ Cardinality(B \cup {r}) = Cardinality(Created \cup {key})
  <2>1. IsFiniteSet(B) /\ IsFiniteSet(Created) /\ MaxCache \in Nat
    BY CreatedFinite, PathAssumption
  <2>2. PICK c \in Nat, d \in Nat, b \in Nat : c = Cardinality(Created) /\ d = Cardinality(Created \cup {key}) /\ b = Cardinality(B)
    <3>1. IsFiniteSet(Created \cup {key})
      BY <2>1, FS_AddElement
    <3> QED  BY <2>1, <3>1, FS_CardinalityType
  <2>3. c <= d
    BY <2>1, <2>2, FS_AddElement, FS_Subset
  <2>4. c <= MaxCache
    BY SMTT(60), <1>7, <2>1, <2>2, <2>3
  <2>5. Range(cache) = Created /\ b = c
    BY <2>2, <2>4 DEF CacheTracks
  <2>6. d = c + 1 /\ Cardinality(B \cup {r}) = b + 1
    BY <1>2, <2>1, <2>2, <2>5, FS_AddElement
  <2>7. Len(cache) = c
    BY <1>5, <2>2, <2>5, RangeCounts
  <2>8. Len(cache) < MaxCache
    BY SMTT(60), <1>7, <2>1, <2>2, <2>6, <2>7
  <2> QED  BY <1>6, <2>2, <2>5, <2>6, <2>8
<1>8. \A q \in BilledAs("read")' : CacheKey(q)' \in Created'
  BY <1>2, <1>3, <1>4 DEF CacheTracks
<1>9. Range(cache') \subseteq Created'
  BY <1>4, <1>5, <1>6
<1> QED  BY <1>2, <1>4, <1>6, <1>7, <1>8, <1>9 DEF CacheTracks

\* What answering does: the bill, if any, is a creation or a read as the tracker has it.
LEMMA RespondEffect ==
  ASSUME PathInv, NEW r \in Requests, Respond(r), NEW key, key = CacheKey(r)
  PROVE  /\ Moves(r) /\ KeepsFate(req[r], req'[r]) /\ req'[r].pc = "done" /\ req'[r].status = 200
         /\ req'[r].turn = req[r].turn /\ req'[r].scenario = req[r].scenario
         /\ \/ req'[r].billed = req[r].billed /\ cache' = cache
            \/ req'[r].billed = "read" /\ key \in Range(cache) /\ cache' = cache
            \/ req'[r].billed = "creation" /\ key \notin Range(cache) /\ cache' = Tracked(cache, key)
<1> DEFINE x == req[r]
           y == req'[r]
<1>1. x \in Record /\ req \in [Requests -> Record]
  BY DEF PathInv, PathTypeOK
<1>2. PICK s \in Int : s = 200
  BY SMTT(60)
<1>3. \/ req' = [req EXCEPT ![r] = [x EXCEPT !.pc = "done", !.status = s]] /\ cache' = cache
      \/ \E b \in {"read", "creation"} :
           /\ req' = [req EXCEPT ![r] = [[x EXCEPT !.pc = "done", !.status = s] EXCEPT !.billed = b]]
           /\ \/ b = "read" /\ key \in Range(cache) /\ cache' = cache
              \/ b = "creation" /\ key \notin Range(cache) /\ cache' = Tracked(cache, key)
  <2>1. CASE respondPlain(r)
    BY <1>2, <2>1 DEF respondPlain, Answer, Done
  <2>2. CASE cacheUsageFields(r)
    <3>0. /\ cache' = seenOrStore(key).order
          /\ req' = [req EXCEPT ![r] = [[x EXCEPT !.pc = "done", !.status = 200]
                                         EXCEPT !.billed = IF seenOrStore(key).hit THEN "read" ELSE "creation"]]
      BY <2>2 DEF cacheUsageFields, cacheMarkedTokens, CacheKey, Answer, Done
    <3>1. CASE key \in Range(cache)
      <4>1. seenOrStore(key) = [hit |-> TRUE, order |-> cache]
        BY <3>1 DEF seenOrStore
      <4>3. seenOrStore(key).order = cache /\ (IF seenOrStore(key).hit THEN "read" ELSE "creation") = "read"
        BY SMTT(60), <4>1
      <4>2. cache' = cache /\ req' = [req EXCEPT ![r] = [[x EXCEPT !.pc = "done", !.status = 200] EXCEPT !.billed = "read"]]
        BY <3>0, <4>3
      <4> QED  BY <1>2, <3>1, <4>2
    <3>2. CASE key \notin Range(cache)
      <4>1. seenOrStore(key) = [hit |-> FALSE, order |-> Tracked(cache, key)]
        BY <3>2 DEF seenOrStore, Tracked
      <4>3. seenOrStore(key).order = Tracked(cache, key) /\ (IF seenOrStore(key).hit THEN "read" ELSE "creation") = "creation"
        BY SMTT(60), <4>1
      <4>2. /\ cache' = Tracked(cache, key)
            /\ req' = [req EXCEPT ![r] = [[x EXCEPT !.pc = "done", !.status = 200] EXCEPT !.billed = "creation"]]
        BY <3>0, <4>3
      <4> QED  BY <1>2, <3>2, <4>2
    <3> QED  BY <3>1, <3>2
  <2> QED  BY <2>1, <2>2 DEF Respond, respondAnthropic
<1>4. CASE req' = [req EXCEPT ![r] = [x EXCEPT !.pc = "done", !.status = s]] /\ cache' = cache
  <2>1. y = [x EXCEPT !.pc = "done", !.status = s] /\ \A q \in Requests : q # r => req'[q] = req[q]
    BY <1>1, <1>4
  <2> HIDE DEF x, y
  <2>2. y \in Record
    BY <1>1, <2>1 DEF Record, Pcs
  <2>3. y.pc = "done" /\ y.status = s /\ y.in = x.in /\ y.agent = x.agent /\ y.now = x.now /\ y.window = x.window
        /\ y.decided = x.decided /\ y.fault = x.fault /\ y.retry = x.retry
        /\ y.turn = x.turn /\ y.scenario = x.scenario /\ y.billed = x.billed
    BY <1>1, <2>1 DEF Record
  <2>4. KeepsFate(x, y)
    BY <2>2, <2>3 DEF KeepsFate
  <2>5. Moves(r)
    BY <1>1, <1>4, <2>1, <2>2 DEF Moves, y
  <2> QED  BY <1>2, <1>4, <2>3, <2>4, <2>5 DEF x, y
<1>5. ASSUME NEW b \in {"read", "creation"},
             req' = [req EXCEPT ![r] = [[x EXCEPT !.pc = "done", !.status = s] EXCEPT !.billed = b]]
      PROVE  /\ Moves(r) /\ KeepsFate(x, y) /\ y.pc = "done" /\ y.status = s
             /\ y.turn = x.turn /\ y.scenario = x.scenario /\ y.billed = b
  <2>1. y = [[x EXCEPT !.pc = "done", !.status = s] EXCEPT !.billed = b] /\ \A q \in Requests : q # r => req'[q] = req[q]
    BY <1>1, <1>5
  <2> HIDE DEF x, y
  <2>2. y \in Record
    BY <1>1, <2>1 DEF Record, Pcs
  <2>3. y.pc = "done" /\ y.status = s /\ y.in = x.in /\ y.agent = x.agent /\ y.now = x.now /\ y.window = x.window
        /\ y.decided = x.decided /\ y.fault = x.fault /\ y.retry = x.retry
        /\ y.turn = x.turn /\ y.scenario = x.scenario /\ y.billed = b
    BY <1>1, <2>1 DEF Record
  <2>4. KeepsFate(x, y)
    BY <2>2, <2>3 DEF KeepsFate
  <2>5. Moves(r)
    BY <1>1, <1>5, <2>1, <2>2 DEF Moves, y
  <2> QED  BY <2>3, <2>4, <2>5
<1> QED  BY SMTT(60), <1>2, <1>3, <1>4, <1>5

\* The answer is written.
LEMMA RespondInv == ASSUME PathInv, NEW r \in Requests, Respond(r) PROVE PathInv'
<1> DEFINE x == req[r]
           y == req'[r]
<1>1. PathTypeOK /\ TurnsNumbered /\ CacheTracks /\ x \in Record /\ clock \in Nat /\ Sound(x) /\ x.pc = "respond" /\ x.now <= clock
  BY DEF PathInv, PathTypeOK, Respond
<1>2. UNCHANGED <<clock, buckets, errorCounts, connCounts, turns>>
  BY DEF Respond
<1>3. PICK key : key = CacheKey(r)
  OBVIOUS
<1> HIDE DEF x, y
<1>4. /\ Moves(r) /\ KeepsFate(x, y) /\ y.pc = "done" /\ y.status = 200 /\ y.turn = x.turn /\ y.scenario = x.scenario
      /\ \/ y.billed = x.billed /\ cache' = cache
         \/ y.billed = "read" /\ key \in Range(cache) /\ cache' = cache
         \/ y.billed = "creation" /\ key \notin Range(cache) /\ cache' = Tracked(cache, key)
  BY SMTT(60), <1>3, RespondEffect DEF x, y
<1>5. /\ x.agent \in Agents /\ x.in \in Wire /\ x.status = 0 /\ x.retry = 0 /\ x.billed = "none" /\ x.fault = "none" /\ x.turn > 0
  BY <1>1 DEF Sound, Underway
<1>6. Sound(y)
  <2>1. y.agent = x.agent /\ y.in = x.in /\ y.fault = "none" /\ y.retry = 0 /\ y.decided = x.decided
    BY <1>4, <1>5 DEF KeepsFate
  <2>2. OnTheWire(y)
    BY SMTT(60), <1>4, <2>1 DEF OnTheWire
  <2> QED  BY <1>1, <1>4, <1>5, <2>1, <2>2 DEF Sound, AtRest, Underway, Decided
<1>7. key \in CacheKeys
  BY <1>3, <1>5 DEF CacheKey, CacheKeys, Wire, x
<1>8. CacheTracks' /\ cache' \in Seq(CacheKeys)
  <2>1. y.in = x.in /\ cache \in Seq(CacheKeys)
    BY <1>1, <1>4 DEF KeepsFate, PathTypeOK
  <2>2. CASE y.billed = x.billed /\ cache' = cache
    <3>1. BilledSame(x, y)
      BY <2>1, <2>2 DEF BilledSame
    <3> QED  BY <1>1, <1>4, <2>1, <2>2, <3>1, BilledSameTracks DEF x, y
  <2>3. CASE y.billed = "read" /\ key \in Range(cache) /\ cache' = cache
    BY <1>1, <1>3, <1>4, <1>5, <2>1, <2>3, ReadBilled DEF x, y
  <2>4. CASE y.billed = "creation" /\ key \notin Range(cache) /\ cache' = Tracked(cache, key)
    BY <1>1, <1>3, <1>4, <1>5, <1>7, <2>1, <2>4, CreationBilled DEF x, y
  <2> QED  BY <1>4, <2>2, <2>3, <2>4
<1>9. PathTypeOK'
  <2>1. ASSUME NEW q \in Requests PROVE req'[q].now <= clock
    <3>1. CASE q = r
      BY <1>1, <1>4, <3>1 DEF y, KeepsFate
    <3>2. CASE q # r
      BY <1>1, <1>4, <3>2 DEF PathTypeOK, Moves
    <3> QED  BY <3>1, <3>2
  <2> QED  BY SMTT(60), <1>1, <1>2, <1>4, <1>8, <2>1 DEF PathTypeOK, Moves
<1>10. TurnsNumbered'
  <2>1. TurnSame(x, y)
    BY <1>4 DEF TurnSame, KeepsFate
  <2> QED  BY <1>1, <1>2, <1>4, <2>1, TurnSameNumbered DEF x, y
<1> QED  BY <1>1, <1>2, <1>4, <1>6, <1>8, <1>9, <1>10, PastChecksInv DEF x, y

-----------------------------------------------------------------------------
(* The theorems.                                                           *)

\* Nothing has arrived.
LEMMA InitInv == Init => PathInv
<1> SUFFICES ASSUME Init PROVE PathInv
  OBVIOUS
<1>1. /\ Idle \in Record /\ Idle.pc = "idle" /\ Idle.now = 0 /\ Idle.decided = 0 - 1 /\ Idle.fault = "none"
      /\ Idle.turn = 0 /\ Idle.scenario = 0 /\ Idle.billed = "none"
  BY SMTT(60) DEF Idle, Record, Pcs
<1>2. /\ clock = 0 /\ turns = << >> /\ cache = << >> /\ req = [r \in Requests |-> Idle]
      /\ errorCounts = [n \in Names |-> 0] /\ connCounts = [n \in Names |-> 0]
      /\ buckets = [n \in Names |-> [windowStart |-> 0, count |-> 0]]
  BY DEF Init, NoBucket
<1> HIDE DEF Idle
<1>3. \A r \in Requests : req[r] = Idle
  BY <1>2
<1>4. PathTypeOK
  <2>1. turns = [k \in DOMAIN turns |-> turns[k]] /\ \A k \in DOMAIN turns : turns[k] \in Nat
    BY SMTT(60), <1>2
  <2>2. cache \in Seq(CacheKeys)
    BY SMTT(60), <1>2
  <2>3. req \in [Requests -> Record] /\ \A r \in Requests : req[r].now <= clock
    BY SMTT(60), <1>1, <1>2
  <2> QED  BY <1>2, <2>1, <2>2, <2>3 DEF PathTypeOK
<1>5. ASSUME NEW r \in Requests PROVE Sound(req[r])
  BY SMTT(60), <1>1, <1>3 DEF Sound, AtRest, Underway, Decided
<1>6. ASSUME NEW a \in Agents PROVE ErrorsTally(a) /\ ConnectionTally(a) /\ LimitKept(a)
  <2>1. a.name \in Names
    BY DEF Names
  <2>2. Cardinality({}) = 0
    BY FS_EmptySet
  <2>3. /\ Faulted(a.name, "error") = {} /\ Faulted(a.name, "connection") = {}
        /\ PastErrors(a.name) = {} /\ PastFaults(a.name) = {}
    BY <1>1, <1>3 DEF Faulted, PastErrors, PastFaults, Of
  <2>4. errorCounts[a.name] = 0 /\ connCounts[a.name] = 0
    BY <1>2, <2>1
  <2>5. FailsFirst(a.chaos.errors) \in Int /\ FailsFirst(a.chaos.connection) \in Int
    BY FailsFirstNumber
  <2>6. ErrorsTally(a) /\ ConnectionTally(a)
    BY SMTT(60), <2>2, <2>3, <2>4, <2>5 DEF ErrorsTally, ConnectionTally, Tally, Outage
  <2>7. Peers(a.name) = {}
    BY SMTT(60), <1>1, <1>3 DEF Peers, Of
  <2>8. \A w : InWindow(a.name, w) = {} /\ Admitted(a.name, w) = {}
    BY <2>7 DEF InWindow, Admitted
  <2>9. buckets[a.name].count = 0
    BY <1>2, <2>1
  <2> QED  BY <2>2, <2>6, <2>7, <2>8, <2>9 DEF LimitKept, BucketCounts, WindowsApart, WithinLimit
<1>7. TurnsNumbered
  BY SMTT(60), <1>1, <1>2, <1>3 DEF TurnsNumbered
<1>8. CacheTracks
  <2>1. BilledAs("creation") = {} /\ BilledAs("read") = {}
    BY <1>1, <1>3 DEF BilledAs
  <2>2. Created = {}
    BY <2>1 DEF Created
  <2>3. Len(cache) = 0 /\ Range(cache) = {}
    BY SMTT(60), <1>2 DEF Range
  <2>4. 1..Len(cache) = {} /\ Len(cache) <= MaxCache
    BY SMTT(60), <2>3, PathAssumption
  <2> QED  BY <2>1, <2>2, <2>3, <2>4 DEF CacheTracks
<1> QED  BY <1>4, <1>5, <1>6, <1>7, <1>8 DEF PathInv

\* Every step of every handler keeps the invariant.
LEMMA NextInv == PathInv /\ [Next(Wire)]_vars => PathInv'
<1> SUFFICES ASSUME PathInv, [Next(Wire)]_vars PROVE PathInv'
  OBVIOUS
<1>1. CASE UNCHANGED vars
  <2>0. UNCHANGED <<clock, buckets, errorCounts, connCounts, turns, cache, req>>
    BY <1>1 DEF vars
  <2>1. PathTypeOK' /\ \A r \in Requests : Sound(req'[r])
    BY <2>0 DEF PathInv, PathTypeOK
  <2>2. ASSUME NEW a \in Agents, Alike(a) PROVE ErrorsTally(a)' /\ ConnectionTally(a)' /\ LimitKept(a)'
    <3>1. ErrorsTally(a) /\ ConnectionTally(a) /\ LimitKept(a)
      BY <2>2 DEF PathInv
    <3>2. ErrorsTally(a)' /\ ConnectionTally(a)'
      BY <2>0, <3>1 DEF ErrorsTally, ConnectionTally, Faulted, PastErrors, PastFaults, Of
    <3>3. \A w : Peers(a.name)' = Peers(a.name) /\ InWindow(a.name, w)' = InWindow(a.name, w)
                  /\ Admitted(a.name, w)' = Admitted(a.name, w)
      BY <2>0 DEF Peers, InWindow, Admitted, Of
    <3>4. LimitKept(a)'
      BY <2>0, <3>1, <3>3 DEF LimitKept, BucketCounts, WindowsApart, WithinLimit
    <3> QED  BY <3>2, <3>4
  <2>3. TurnsNumbered'
    BY <2>0 DEF PathInv, TurnsNumbered, TurnsIn, scopedSessionKey
  <2>4. CacheTracks'
    BY SMTT(60), <2>0 DEF PathInv, CacheTracks, Created, BilledAs, CacheKey
  <2> QED  BY <2>1, <2>2, <2>3, <2>4 DEF PathInv, Alike
<1>2. CASE Tick
  BY <1>2, TickInv
<1>3. ASSUME NEW r \in Requests, Handler(r) PROVE PathInv'
  BY <1>3, ReadClockInv, CheckRateLimitInv, MaybeInjectErrorInv, TimedOutInv, ConnectionFaultInv, TurnInv, RespondInv DEF Handler
<1>4. ASSUME NEW r \in Requests, NEW input \in Wire, Arrive(r, input) PROVE PathInv'
  BY <1>4, ArriveInv
<1> QED  BY <1>1, <1>2, <1>3, <1>4 DEF Next

\* The invariant holds of every state the handlers reach.
LEMMA PathInvAlways == PathSpec => []PathInv
<1> QED  BY InitInv, NextInv, PTL DEF PathSpec

\* The counters' and buckets' invariant is what the faults promise.
LEMMA FaultsFollow == PathInv => FaultsExact
<1> SUFFICES ASSUME PathInv PROVE FaultsExact
  OBVIOUS
<1>1. RecoversAfterN
  BY DEF PathInv, RecoversAfterN, ErrorsTally, ConnectionTally, Tally
<1>2. ASSUME NEW r \in Requests, req[r].decided >= 0, Alike(req[r].agent), NEW limit, limit = Chaos(r).limit[1],
             NEW n, n = req[r].agent.name, NEW w, w = req[r].window
      PROVE  /\ Cardinality(Admitted(n, w)) <= limit.requests
             /\ \A q \in Peers(n) \ InWindow(n, w) : req[q].window - w >= limit.window \/ w - req[q].window >= limit.window
             /\ req[r].fault = "limit" => req[r].decided + req[r].retry * Second >= w + limit.window
  <2> DEFINE a == req[r].agent
  <2>1. req[r] \in Record /\ Sound(req[r]) /\ req \in [Requests -> Record]
    BY DEF PathInv, PathTypeOK
  <2>2. w \in Nat /\ a \in Agents /\ Limited(chaosFor(a))
    BY SMTT(60), <1>2, <2>1 DEF Sound, AtRest, Decided, Record
  <2>3. limit = a.chaos.limit[1] /\ limit.requests > 0 /\ limit \in [requests : Int, window : Int]
    <3>1. chaosFor(a).limit = a.chaos.limit /\ a.chaos.limit \in Seq([requests : Int, window : Int])
      BY <2>2, SectionsOfAgent, PathAssumption
    <3>2. a.chaos.limit # << >> /\ a.chaos.limit[1].requests > 0
      BY <2>2, <3>1 DEF Limited
    <3>3. a.chaos.limit[1] \in [requests : Int, window : Int]
      BY <3>1, <3>2, FirstOf
    <3> QED  BY <1>2, <3>1, <3>2, <3>3 DEF Chaos
  <2>4. WindowsApart(n, limit) /\ WithinLimit(n, limit)
    BY <1>2, <2>2, <2>3 DEF PathInv, LimitKept
  <2>5. r \in Peers(n) /\ r \in InWindow(n, w)
    BY <1>2 DEF Peers, InWindow, Of
  <2>6. Cardinality(Admitted(n, w)) <= limit.requests
    <3>1. CASE Admitted(n, w) = {}
      BY SMTT(60), <2>3, <3>1, FS_EmptySet
    <3>2. CASE Admitted(n, w) # {}
      BY <2>2, <2>4, <3>2 DEF WithinLimit
    <3> QED  BY <3>1, <3>2
  <2>7. ASSUME NEW q \in Peers(n) \ InWindow(n, w) PROVE req[q].window - w >= limit.window \/ w - req[q].window >= limit.window
    BY <1>2, <2>4, <2>5 DEF WindowsApart, InWindow
  <2>8. req[r].fault = "limit" => req[r].decided + req[r].retry * Second >= w + limit.window
    BY <1>2, <2>4, <2>5 DEF WithinLimit
  <2> QED  BY <2>6, <2>7, <2>8
<1>3. LimitHonest
  BY <1>2 DEF LimitHonest, Admitted, Peers, InWindow
<1>4. FaultsOnTheWire
  BY SMTT(60) DEF PathInv, Sound, AtRest, OnTheWire, FaultsOnTheWire, Chaos
<1> QED  BY <1>1, <1>3, <1>4 DEF FaultsExact

\* Numbered turns are what conversations promise.
LEMMA ConversationsFollow == PathInv => ConversationsExact
<1> SUFFICES ASSUME PathInv PROVE ConversationsExact
  OBVIOUS
<1>1. ASSUME NEW r \in Requests
      PROVE  /\ (req[r].status = 200 /\ req[r].fault = "none") => req[r].turn > 0
             /\ req[r].fault # "none" => req[r].turn = 0
             /\ req[r].scenario # 0 => req[r].turn > 0 /\ Fits(req[r].agent.scenarios[req[r].scenario], req[r].turn)
  <2>1. Sound(req[r])
    BY DEF PathInv
  <2>2. Idle.status = 0
    BY DEF Idle
  <2>3. req[r].status = 200 => req[r].pc = "done"
    BY SMTT(60), <2>1, <2>2 DEF Sound, AtRest, Underway
  <2> QED  BY <2>1, <2>3 DEF Sound, AtRest, Decided
<1>2. TurnsAccounted
  BY <1>1 DEF PathInv, TurnsNumbered, TurnsIn, TurnsAccounted
<1>3. ScriptedOnce
  <2> SUFFICES ASSUME NEW r \in Requests, NEW q \in Requests, r # q, req[r].scenario # 0, req[q].scenario = req[r].scenario,
                      scopedSessionKey(r) = scopedSessionKey(q), req[r].agent = req[q].agent
               PROVE  LET sc == req[r].agent.scenarios[req[r].scenario] IN sc.default \/ sc.match.turn = 0
    BY DEF ScriptedOnce
  <2> DEFINE sc == req[r].agent.scenarios[req[r].scenario]
  <2>1. req[r].turn > 0 /\ Fits(sc, req[r].turn) /\ Fits(sc, req[q].turn)
    BY <1>1
  <2>2. req[r].turn # req[q].turn
    BY <2>1 DEF PathInv, TurnsNumbered
  <2> QED  BY <2>1, <2>2 DEF Fits
<1> QED  BY <1>2, <1>3 DEF ConversationsExact

\* The tracker's invariant is what prompt-cache usage promises.
LEMMA CacheFollows == PathInv => CacheBilledOnce
<1> SUFFICES ASSUME PathInv PROVE CacheBilledOnce
  OBVIOUS
<1>1. CacheTracks /\ cache \in Seq(CacheKeys)
  BY DEF PathInv, PathTypeOK
<1>2. Cardinality(Range(cache)) = Len(cache)
  BY <1>1, RangeCounts DEF CacheTracks
<1> QED  BY <1>1, <1>2 DEF CacheTracks, CacheBilledOnce, Created, BilledAs, CacheKey

\* Injected faults, whatever the agents' chaos sections say and however requests
\* interleave: maybeInjectError and maybeInjectConnectionFault fail an agent's
\* first N checks and no later one, checkRateLimit admits no more than its
\* allotment in a window although it reads the clock outside the mutex, and a
\* fault reaches the client as configured in every dialect.
THEOREM FaultsAlwaysExact == PathSpec => []FaultsExact
<1> QED  BY PathInvAlways, FaultsFollow, PTL

\* Conversations, for any sessions and scenarios: TurnCount counts exactly the
\* requests let through to the engine, each with its own number, and a scenario
\* scripted for one turn answers at most one request of a conversation.
THEOREM ConversationsAlwaysExact == PathSpec => []ConversationsExact
<1> QED  BY PathInvAlways, ConversationsFollow, PTL

\* Prompt-cache usage, for any cap: seenOrStore bills a read only after a
\* creation of the same tenant, keeps its order within the cap and without
\* repetition, and until it overflows creates each content once.
THEOREM CacheAlwaysBilledOnce == PathSpec => []CacheBilledOnce
<1> QED  BY PathInvAlways, CacheFollows, PTL
=============================================================================
