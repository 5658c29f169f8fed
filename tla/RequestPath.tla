----------------------------- MODULE RequestPath -----------------------------
(***************************************************************************)
(* One LLM request from the wire to the answer: the provider handlers      *)
(* (internal/adapter/openai.go, azure.go, anthropic.go, gemini.go,         *)
(* chaos.go), the engine pipeline (internal/engine/engine.go), fault       *)
(* injection (internal/engine/chaos.go), scenario matching                 *)
(* (scenario_matcher.go) and rendering (response_generator.go).            *)
(*                                                                         *)
(* Handlers run concurrently, one per request.  What they share is the     *)
(* injector's counters and rate buckets under one mutex, the session turn  *)
(* counters (a whole turn runs under the session lock, module Sessions)    *)
(* and the Anthropic prompt-cache tracker.  The clock the rate limiter     *)
(* compares with is read before the mutex is taken.  Text is a set of      *)
(* words, a probability is counted in halves, a second is Second ticks.    *)
(***************************************************************************)
EXTENDS Integers, Sequences, FiniteSets, Functions

CONSTANTS Requests,     \* requests, numbered in the order they arrive
          Agents,       \* the registered agent definitions
          Tenants,      \* tenants that call; "" is the anonymous caller
          MaxCache,     \* maxAnthropicCacheEntries
          Second,       \* clock ticks in a second
          MaxTime       \* bound: clock ticks explored

VARIABLES clock,        \* time.Now()
          buckets,      \* ChaosInjector.buckets, by agent name
          errorCounts, connCounts,   \* its fail_first counters, by agent name
          turns,        \* Session.TurnCount by <<tenant, agent name, session id>>
          cache,        \* anthropicCacheTracker.order (seen has the same keys)
          req           \* each request's control point, inputs and answer
vars == <<clock, buckets, errorCounts, connCounts, turns, cache, req>>

Names == {a.name : a \in Agents}
None  == [tenant |-> "", name |-> "", scenarios |-> << >>,
          chaos |-> [enabled |-> FALSE, limit |-> << >>, errors |-> << >>, connection |-> << >>]]
NoAgent == [None EXCEPT !.name = "none"]
NoBucket == [windowStart |-> 0, count |-> 0]
\* What a client may send: `words` of a part are its text, `marked` is the prompt
\* content it marks for caching.
Message == [role : STRING, parts : Seq([type : STRING, words : SUBSET STRING])]
Wire == [proto : {"openai", "azure", "anthropic", "gemini"}, body : {"ok", "big", "bad"}, model : STRING,
         auth : BOOLEAN, tenant : Tenants, session : STRING, stream : BOOLEAN, gone : BOOLEAN, h2 : BOOLEAN,
         marked : SUBSET STRING, msgs : Seq(Message)]
NoInput  == [proto |-> "", body |-> "", model |-> "", auth |-> FALSE, tenant |-> "", session |-> "",
             stream |-> FALSE, gone |-> FALSE, h2 |-> FALSE, marked |-> {}, msgs |-> << >>]
Idle == [pc |-> "idle", in |-> NoInput, agent |-> None, now |-> 0, window |-> 0, decided |-> 0 - 1,
         fault |-> "none", status |-> 0, retry |-> 0, turn |-> 0, scenario |-> 0, billed |-> "none"]

\* The registry admits no agent without a name, and NoAgent, the result of a
\* lookup that finds none, is not one.  A chaos section is absent or one record,
\* and its numbers are whatever the file says.
ASSUME PathAssumption ==
  /\ IsFiniteSet(Requests) /\ Requests \subseteq Nat
  /\ MaxCache \in Nat \ {0} /\ Second \in Nat \ {0} /\ MaxTime \in Nat
  /\ \A a \in Agents :
       /\ a.name # None.name /\ a # NoAgent
       /\ DOMAIN a.scenarios \subseteq Nat \ {0}
       /\ a.chaos.limit \in Seq([requests : Int, window : Int])
       /\ a.chaos.errors \in Seq([failFirst : Int, rate : Int, statuses : SUBSET Int, timeout : BOOLEAN])
       /\ a.chaos.connection \in Seq([failFirst : Int, rate : Int, statuses : SUBSET Int, timeout : BOOLEAN])

Init ==
  /\ clock = 0
  /\ buckets = [n \in Names |-> NoBucket]
  /\ errorCounts = [n \in Names |-> 0]
  /\ connCounts = [n \in Names |-> 0]
  /\ turns = << >>
  /\ cache = << >>
  /\ req = [r \in Requests |-> Idle]

-----------------------------------------------------------------------------
(* The wire: what each handler makes of the body.                          *)

\* Words of a message's parts that each provider's flattening keeps, and the
\* images it counts.
Kept(proto) == CASE proto \in {"openai", "azure"} -> {"text"}
                 [] proto = "anthropic"           -> {"text", "tool_result"}
                 [] proto = "gemini"              -> {"text", "functionResponse"}
partWords(parts, kinds) == UNION {parts[i].words : i \in {j \in DOMAIN parts : parts[j].type \in kinds}}
partImages(parts, kind) == Cardinality({i \in DOMAIN parts : parts[i].type = kind})

convertOpenAIMessages(msgs) ==
  [i \in DOMAIN msgs |-> [role   |-> msgs[i].role,
                          words  |-> partWords(msgs[i].parts, Kept("openai")),
                          images |-> partImages(msgs[i].parts, "image_url")]]
convertAnthropicMessages(msgs) ==
  [i \in DOMAIN msgs |-> [role   |-> msgs[i].role,
                          words  |-> partWords(msgs[i].parts, Kept("anthropic")),
                          images |-> partImages(msgs[i].parts, "image")]]
convertGeminiContents(msgs) ==
  [i \in DOMAIN msgs |-> [role   |-> IF msgs[i].role = "model" THEN "assistant" ELSE msgs[i].role,
                          words  |-> partWords(msgs[i].parts, Kept("gemini")),
                          images |-> 0]]
Converted(in) == CASE in.proto = "anthropic" -> convertAnthropicMessages(in.msgs)
                   [] in.proto = "gemini"    -> convertGeminiContents(in.msgs)
                   [] OTHER                  -> convertOpenAIMessages(in.msgs)

latestUser(msgs) ==
  LET users == {i \in DOMAIN msgs : msgs[i].role = "user"}
  IN  IF users = {} THEN [role |-> "user", words |-> {}, images |-> 0]
      ELSE msgs[CHOOSE i \in users : \A j \in users : j <= i]

decodeJSONBody(body) == CASE body = "big" -> 413 [] body = "bad" -> 400 [] OTHER -> 200
checkAnthropicAuth(in) == IF in.auth THEN 200 ELSE 401
required(present) == IF present THEN 200 ELSE 400

\* The first of a handler's early checks that fails decides its answer.
FirstRefusal(checks) ==
  IF \A i \in DOMAIN checks : checks[i] = 200 THEN 200
  ELSE checks[CHOOSE i \in DOMAIN checks : checks[i] # 200 /\ \A j \in 1..(i - 1) : checks[j] = 200]
HandleChatCompletions(in) ==
  FirstRefusal(<<decodeJSONBody(in.body), required(in.model # ""), required(in.msgs # << >>)>>)
\* The deployment of the path becomes the model when the body has none.
handleDeploymentChat(in) == FirstRefusal(<<decodeJSONBody(in.body), required(in.msgs # << >>)>>)
HandleMessages(in) == FirstRefusal(<<decodeJSONBody(in.body), required(in.model # ""),
                                     required(in.msgs # << >>), checkAnthropicAuth(in)>>)
HandleGenerate(in) ==
  FirstRefusal(<<required(in.model # ""), decodeJSONBody(in.body), required(in.msgs # << >>)>>)
Refused(in) == CASE in.proto = "openai" -> HandleChatCompletions(in)
                 [] in.proto = "azure"  -> handleDeploymentChat(in)
                 [] in.proto = "anthropic" -> HandleMessages(in)
                 [] in.proto = "gemini" -> HandleGenerate(in)

-----------------------------------------------------------------------------
(* The engine's lookups and choices.                                       *)

VisibleTo(tenant) == {a \in Agents : a.tenant \in {"", tenant}}
\* A tenant's own agent shadows the global one of the same model; an anonymous
\* caller falls back to the only agent there is.
resolveAgentForTenant(in) ==
  LET model == {a \in VisibleTo(in.tenant) : a.name = in.model}
      own   == {a \in model : a.tenant = in.tenant}
      list  == VisibleTo(in.tenant)
  IN  CASE own # {} -> CHOOSE a \in own : TRUE
        [] own = {} /\ model # {} -> CHOOSE a \in model : TRUE
        [] model = {} /\ in.tenant = "" /\ Cardinality(list) = 1 -> CHOOSE a \in list : TRUE
        [] OTHER -> NoAgent

\* A pattern that does not compile never matches.
compileRegex(re, words) == re.kind = "none" \/ (re.kind = "word" /\ re.word \in words)
evaluateAnyTurn(rule, words, turn, images) ==
  /\ rule.hasImage \in {"any", IF images > 0 THEN "yes" ELSE "no"}
  /\ rule.contains \subseteq words
  /\ compileRegex(rule.regex, words)
evaluate(rule, words, turn, images) ==
  /\ rule.hasImage \in {"any", IF images > 0 THEN "yes" ELSE "no"}
  /\ rule.contains \subseteq words
  /\ compileRegex(rule.regex, words)
  /\ rule.turn \in {0, turn}
\* The index of the scenario served; 0 is the built-in fallback.
MatchWithCaptures(scenarios, words, turn, images) ==
  LET hits == {i \in DOMAIN scenarios : ~scenarios[i].default /\ evaluate(scenarios[i].match, words, turn, images)}
      defs == {i \in DOMAIN scenarios : scenarios[i].default}
      First(S) == CHOOSE i \in S : \A j \in S : i <= j
  IN  CASE hits # {} -> First(hits) [] hits = {} /\ defs # {} -> First(defs) [] OTHER -> 0
\* Rendering fails exactly on a template that does not parse or execute.
Generate(scenarios, i) == i = 0 \/ ~scenarios[i].badTemplate

\* The handlers classify an engine error by the words of its text.
errorStatus(words) == CASE "not found" \in words -> 404
                        [] "not found" \notin words /\ "empty" \in words -> 400
                        [] OTHER -> 500

-----------------------------------------------------------------------------
(* Fault injection.                                                        *)

hasAnyChaosSection(c) == c.limit # << >> \/ c.errors # << >> \/ c.connection # << >>
chaosFor(a) == IF ~a.chaos.enabled /\ ~hasAnyChaosSection(a.chaos) THEN None.chaos ELSE a.chaos
clampUnitInterval(rate) == IF rate < 0 THEN 0 ELSE IF rate > 2 THEN 2 ELSE rate
Draws == {0, 1}   \* a draw in [0, 1), in halves
shouldTriggerSlack(cfg, n, draw) == IF cfg.failFirst > 0 THEN n < cfg.failFirst ELSE draw < clampUnitInterval(cfg.rate)
\* n is the counter after this request's increment, read in the same section.
shouldTrigger(cfg, n, draw) ==
  IF cfg.failFirst > 0 THEN n <= cfg.failFirst ELSE draw < clampUnitInterval(cfg.rate)
Armed(section) == section # << >> /\ (section[1].rate > 0 \/ section[1].failFirst > 0)
Counted(counts, r, cfg) == IF cfg.failFirst > 0 THEN [counts EXCEPT ![req[r].agent.name] = @ + 1] ELSE counts

\* Whole seconds, rounded up, at least one; a timeout carries none.
CeilSeconds(ticks) == (ticks + Second - 1) \div Second
chaosRetryAfter(status, remaining) ==
  CASE remaining > 0 -> CeilSeconds(remaining)
    [] remaining <= 0 /\ status = 429 -> 1
    [] OTHER -> 0

\* The error category of the answer, in each provider's dialect.  An engine
\* error that no fault injected is the caller's fault to OpenAI and Anthropic.
openAIChaosError(status) == CASE status = 429 -> "requests" [] status >= 500 -> "server_error" [] OTHER -> "invalid_request_error"
openAIError(fault, status) ==
  CASE fault = "connection" -> "server_error" [] fault \in {"limit", "error"} -> openAIChaosError(status)
    [] OTHER -> "invalid_request_error"
anthropicChaosErrorType(status) ==
  CASE status = 400 -> "invalid_request_error" [] status = 401 -> "authentication_error"
    [] status = 403 -> "permission_error" [] status = 404 -> "not_found_error"
    [] status = 413 -> "request_too_large" [] status = 429 -> "rate_limit_error"
    [] status \in {503, 529} -> "overloaded_error" [] OTHER -> "api_error"
anthropicError(fault, status) ==
  CASE fault = "connection" -> "api_error" [] fault \in {"limit", "error"} -> anthropicChaosErrorType(status)
    [] OTHER -> IF status = 401 THEN "authentication_error" ELSE "invalid_request_error"
geminiStatusFor(status) ==
  CASE status = 400 -> "INVALID_ARGUMENT" [] status = 401 -> "UNAUTHENTICATED" [] status = 403 -> "PERMISSION_DENIED"
    [] status = 404 -> "NOT_FOUND" [] status = 429 -> "RESOURCE_EXHAUSTED" [] status = 503 -> "UNAVAILABLE"
    [] status = 504 -> "DEADLINE_EXCEEDED" [] OTHER -> "INTERNAL"
geminiError(fault, status) ==
  CASE fault = "connection" -> "UNAVAILABLE" [] fault = "none" /\ status = 413 -> "INVALID_ARGUMENT"
    [] OTHER -> geminiStatusFor(status)
ErrorType(in, fault, status) == CASE in.proto = "anthropic" -> anthropicError(fault, status)
                                  [] in.proto = "gemini"    -> geminiError(fault, status)
                                  [] OTHER                  -> openAIError(fault, status)

Chaos(r) == chaosFor(req[r].agent)
\* Before: rate limit, then errors, then the connection fault, then the turn.
AfterLimit(c) == IF Armed(c.errors) THEN "errors" ELSE IF Armed(c.connection) THEN "connection" ELSE "turn"
AfterErrors(c) == IF Armed(c.connection) THEN "connection" ELSE "turn"
Limited(c) == c.limit # << >> /\ c.limit[1].requests > 0 /\ c.limit[1].window > 0
Answer(r, rec) == req' = [req EXCEPT ![r] = rec]
Done(r, status) == [req[r] EXCEPT !.pc = "done", !.status = status]

-----------------------------------------------------------------------------
(* Actions, in the order a handler takes them.                             *)

\* A request arrives: the handler's checks, the agent lookup, and the check
\* that the client is still there.
Arrive(r, in) ==
  /\ req[r].pc = "idle"
  /\ \A q \in Requests : q < r => req[q].pc # "idle"
  /\ LET agent == resolveAgentForTenant(in)
         rec == [req[r] EXCEPT !.in = in]
         c == chaosFor(agent)
     IN  Answer(r, CASE Refused(in) # 200 -> [rec EXCEPT !.pc = "done", !.status = Refused(in)]
                     [] Refused(in) = 200 /\ agent = NoAgent ->
                          [rec EXCEPT !.pc = "done", !.status = errorStatus({"not found"})]
                     [] Refused(in) = 200 /\ agent # NoAgent /\ in.gone ->
                          [rec EXCEPT !.pc = "done", !.status = errorStatus({})]
                     [] OTHER -> [rec EXCEPT !.agent = agent,
                                             !.pc = IF Limited(c) THEN "clock" ELSE AfterLimit(c)])
  /\ UNCHANGED <<clock, buckets, errorCounts, connCounts, turns, cache>>

\* checkRateLimit reads the clock before it takes the mutex.
ReadClock(r) ==
  /\ req[r].pc = "clock"
  /\ Answer(r, [req[r] EXCEPT !.pc = "limit", !.now = clock])
  /\ UNCHANGED <<clock, buckets, errorCounts, connCounts, turns, cache>>

RemainingElapsed(limit, now, b) == now - b.windowStart
Remaining(limit, now, b) == limit.window - (now - b.windowStart)
checkRateLimit(r) ==
  LET name == req[r].agent.name
      limit == Chaos(r).limit[1]
      b == buckets[name]
      fresh == b.count = 0 \/ req[r].now - b.windowStart >= limit.window
      nb == IF fresh THEN [windowStart |-> req[r].now, count |-> 1] ELSE [b EXCEPT !.count = @ + 1]
      rec == [req[r] EXCEPT !.now = 0, !.window = nb.windowStart, !.decided = clock]
  IN /\ req[r].pc = "limit"
     /\ buckets' = [buckets EXCEPT ![name] = nb]
     /\ IF ~fresh /\ nb.count > limit.requests
        THEN Answer(r, [rec EXCEPT !.pc = "done", !.status = 429, !.fault = "limit",
                                   !.retry = chaosRetryAfter(429, Remaining(limit, req[r].now, b))])
        ELSE Answer(r, [rec EXCEPT !.pc = AfterLimit(Chaos(r))])
     /\ UNCHANGED <<clock, errorCounts, connCounts, turns, cache>>

\* maybeInjectError: the counter moves under the mutex; a timeout fault then
\* sleeps, outside the mutex, and answers 504 whether or not the client left.
maybeInjectError(r) ==
  LET cfg == Chaos(r).errors[1]
      n == errorCounts[req[r].agent.name] + 1
  IN /\ req[r].pc = "errors"
     /\ errorCounts' = Counted(errorCounts, r, cfg)
     /\ \E draw \in Draws, status \in cfg.statuses :
          Answer(r, CASE ~shouldTrigger(cfg, n, draw) -> [req[r] EXCEPT !.pc = AfterErrors(Chaos(r))]
                      [] shouldTrigger(cfg, n, draw) /\ cfg.timeout -> [req[r] EXCEPT !.pc = "sleep", !.fault = "error"]
                      [] OTHER -> LET code == IF status = 0 THEN 500 ELSE status
                                  IN [Done(r, code) EXCEPT !.fault = "error", !.retry = chaosRetryAfter(code, 0)])
     /\ UNCHANGED <<clock, buckets, connCounts, turns, cache>>
TimedOut(r) ==
  /\ req[r].pc = "sleep"
  /\ Answer(r, Done(r, 504))
  /\ UNCHANGED <<clock, buckets, errorCounts, connCounts, turns, cache>>

\* The connection is hijacked and cut; HTTP/2 cannot be hijacked and gets 502.
connectionFaultUnchecked(in) == 0
connectionFault(in) == IF in.h2 THEN 502 ELSE 0
maybeInjectConnectionFault(r) ==
  LET cfg == Chaos(r).connection[1]
      n == connCounts[req[r].agent.name] + 1
  IN /\ req[r].pc = "connection"
     /\ connCounts' = Counted(connCounts, r, cfg)
     /\ \E draw \in Draws :
          Answer(r, IF shouldTrigger(cfg, n, draw)
                    THEN [Done(r, connectionFault(req[r].in)) EXCEPT !.fault = "connection"]
                    ELSE [req[r] EXCEPT !.pc = "turn"])
     /\ UNCHANGED <<clock, buckets, errorCounts, turns, cache>>

\* An empty user message is refused before a session exists; otherwise one
\* turn runs under the session lock.  A rendering failure keeps the turn.
scopedSessionKey(r) == <<req[r].in.tenant, req[r].agent.name, req[r].in.session>>
TurnsOf(key) == IF key \in DOMAIN turns THEN turns[key] ELSE 0
TurnBeforeEmptyCheck(r) ==
  LET key == scopedSessionKey(r)
      user == latestUser(Converted(req[r].in))
  IN /\ req[r].pc = "turn"
     /\ turns' = [k \in DOMAIN turns \cup {key} |-> IF k = key THEN TurnsOf(key) + 1 ELSE turns[k]]
     /\ Answer(r, IF user.words = {} /\ user.images = 0 THEN Done(r, 400)
                  ELSE [req[r] EXCEPT !.pc = "respond", !.turn = TurnsOf(key) + 1])
     /\ UNCHANGED <<clock, buckets, errorCounts, connCounts, cache>>
Turn(r) ==
  LET key == scopedSessionKey(r)
      user == latestUser(Converted(req[r].in))
      turn == TurnsOf(key) + 1
      scenarios == req[r].agent.scenarios
      i == MatchWithCaptures(scenarios, user.words, turn, user.images)
  IN /\ req[r].pc = "turn"
     /\ IF user.words = {} /\ user.images = 0
        THEN Answer(r, Done(r, errorStatus({"empty"}))) /\ turns' = turns
        ELSE /\ turns' = [k \in DOMAIN turns \cup {key} |-> IF k = key THEN turn ELSE turns[k]]
             /\ Answer(r, [(IF Generate(scenarios, i) THEN [req[r] EXCEPT !.pc = "respond"]
                            ELSE Done(r, errorStatus(scenarios[i].nameWords))) EXCEPT !.turn = turn, !.scenario = i])
     /\ UNCHANGED <<clock, buckets, errorCounts, connCounts, cache>>

\* seenOrStore: a key already tracked is a read, a new one is recorded and the
\* oldest leave past the cap.
seenOrStoreAnyTenant(key) == [hit   |-> \E k \in Range(cache) : k[2] = key[2],
                              order |-> IF key \in Range(cache) THEN cache ELSE Append(cache, key)]
seenOrStore(key) ==
  LET longer == Append(cache, key)
  IN  IF key \in Range(cache) THEN [hit |-> TRUE, order |-> cache]
      ELSE [hit |-> FALSE, order |-> SubSeq(longer, IF Len(longer) > MaxCache THEN 2 ELSE 1, Len(longer))]
cacheMarkedTokens(in) == in.marked
cacheUsageFields(r) ==
  LET use == seenOrStore(<<req[r].in.tenant, cacheMarkedTokens(req[r].in)>>)
  IN /\ cache' = use.order
     /\ Answer(r, [Done(r, 200) EXCEPT !.billed = IF use.hit THEN "read" ELSE "creation"])

\* After the injected latency the handler writes the answer.  Only a whole
\* Anthropic body reports cache usage; a stream carries none.
respondPlain(r) == Answer(r, Done(r, 200)) /\ cache' = cache
respondAnthropic(r) ==
  IF ~req[r].in.stream /\ cacheMarkedTokens(req[r].in) # {} THEN cacheUsageFields(r) ELSE respondPlain(r)
Respond(r) ==
  /\ req[r].pc = "respond"
  /\ IF req[r].in.proto = "anthropic" THEN respondAnthropic(r) ELSE respondPlain(r)
  /\ UNCHANGED <<clock, buckets, errorCounts, connCounts, turns>>

Tick == clock < MaxTime /\ clock' = clock + 1 /\ UNCHANGED <<buckets, errorCounts, connCounts, turns, cache, req>>

Handler(r) == \/ ReadClock(r) \/ checkRateLimit(r) \/ maybeInjectError(r) \/ TimedOut(r)
              \/ maybeInjectConnectionFault(r) \/ Turn(r) \/ Respond(r)

\* `inputs` are the requests clients may send next.
Next(inputs) == \/ \E r \in Requests : Handler(r) \/ \E in \in inputs : Arrive(r, in)
                \/ Tick

\* Clients may send whatever the wire carries.
PathSpec == Init /\ [][Next(Wire)]_vars

-----------------------------------------------------------------------------
(* Correctness.                                                            *)

Of(n) == {r \in Requests : req[r].agent.name = n}
Faulted(n, fault) == {r \in Of(n) : req[r].fault = fault}
PastErrors(n) == {r \in Of(n) : req[r].fault \in {"none", "connection"} /\ req[r].pc \in {"connection", "turn", "respond", "done"}}
PastFaults(n) == {r \in Of(n) : req[r].fault = "none" /\ req[r].pc \in {"turn", "respond", "done"}}
FailsFirst(section) == IF section = << >> THEN 0 ELSE section[1].failFirst
Outage(count, n, past) == count <= n /\ (past # {} => count = n)

\* The counters and buckets are kept per agent name: what a definition promises
\* alone, the definitions of one name promise together when their faults are the
\* same.
Alike(a) == \A b \in Agents : b.name = a.name => b.chaos = a.chaos

\* fail_first: however the requests interleave, an agent name's first N checks
\* fail and every later one passes, so once one request got through none fails
\* again; connection faults keep their own count, taken only by requests the
\* error check let through, and a rate-limited request takes neither.
RecoversAfterN ==
  \A a \in Agents : Alike(a) =>
    /\ FailsFirst(a.chaos.errors) > 0 =>
         Outage(Cardinality(Faulted(a.name, "error")), FailsFirst(a.chaos.errors), PastErrors(a.name))
    /\ FailsFirst(a.chaos.connection) > 0 =>
         Outage(Cardinality(Faulted(a.name, "connection")), FailsFirst(a.chaos.connection), PastFaults(a.name))

\* fail_first counts per agent: whoever calls, each definition fails its own
\* first N requests before one gets through.
FailsFirstPerAgent ==
  \A a \in Agents :
    (FailsFirst(a.chaos.errors) > 0 /\ \E r \in Requests : req[r].agent = a /\ req[r].status = 200) =>
      Cardinality({r \in Requests : req[r].agent = a /\ req[r].fault = "error"}) = FailsFirst(a.chaos.errors)

\* The agent rate limit although the clock is read outside the mutex: no window
\* admits more than its allotment, windows never overlap, and a client that
\* waits out the Retry-After of its 429 finds that window over.
LimitHonest ==
  \A r \in Requests : (req[r].decided >= 0 /\ Alike(req[r].agent)) =>
    LET limit == Chaos(r).limit[1]
        peers == {q \in Of(req[r].agent.name) : req[q].decided >= 0}
        same  == {q \in peers : req[q].window = req[r].window}
    IN /\ Cardinality({q \in same : req[q].fault # "limit"}) <= limit.requests
       /\ \A q \in peers \ same : req[q].window - req[r].window >= limit.window
                                \/ req[r].window - req[q].window >= limit.window
       /\ req[r].fault = "limit" => req[r].decided + req[r].retry * Second >= req[r].window + limit.window

\* A session's turn counter counts exactly the requests that were let through to
\* it, each with a number of its own: whatever was refused, limited, faulted or
\* empty leaves the conversation alone, and every 200 no fault injected is one
\* turn.
TurnsAccounted ==
  /\ \A k \in DOMAIN turns :
       LET T == {r \in Requests : req[r].turn > 0 /\ scopedSessionKey(r) = k}
       IN  {req[r].turn : r \in T} = 1..turns[k] /\ Cardinality(T) = turns[k]
  /\ \A r \in Requests : /\ req[r].turn > 0 => scopedSessionKey(r) \in DOMAIN turns
                         /\ (req[r].status = 200 /\ req[r].fault = "none") => req[r].turn > 0
                         /\ req[r].fault # "none" => req[r].turn = 0

\* A scenario scripted for one turn of a conversation answers at most one
\* request of it, even when the client's requests overlap.
ScriptedOnce ==
  \A r, q \in Requests :
    (r # q /\ req[r].scenario # 0 /\ req[q].scenario = req[r].scenario /\ scopedSessionKey(r) = scopedSessionKey(q)
     /\ req[r].agent = req[q].agent) =>
      LET sc == req[r].agent.scenarios[req[r].scenario] IN sc.default \/ sc.match.turn = 0

\* What reaches the client: an injected fault is a success only where 200 is
\* configured as its status, no HTTP answer carries status 0, exactly the 429s
\* carry Retry-After, no dialect blames the caller for an injected 5xx or hides
\* an injected rate limit, and a request that nothing refused, faulted or failed
\* to render is answered 200.
FaultsOnTheWire ==
  \A r \in Requests : req[r].pc = "done" =>
    /\ req[r].status = 0 <=> (req[r].fault = "connection" /\ ~req[r].in.h2)
    /\ (req[r].fault # "none" /\ req[r].status = 200) => (req[r].fault = "error" /\ 200 \in Chaos(r).errors[1].statuses)
    /\ req[r].status = 429 <=> req[r].retry >= 1
    /\ LET type == ErrorType(req[r].in, req[r].fault, req[r].status)
       IN /\ (req[r].fault # "none" /\ req[r].status >= 500) => type \notin {"invalid_request_error", "INVALID_ARGUMENT"}
          /\ req[r].status = 429 => type \in {"requests", "rate_limit_error", "RESOURCE_EXHAUSTED"}
    /\ (req[r].fault = "none" /\ req[r].turn > 0 /\ Generate(req[r].agent.scenarios, req[r].scenario)) => req[r].status = 200

\* Injected faults put together: they start and stop when configured, and reach
\* the client as configured.
FaultsExact == RecoversAfterN /\ LimitHonest /\ FaultsOnTheWire
\* Conversations put together: turns are counted once and scripted answers
\* given once.
ConversationsExact == TurnsAccounted /\ ScriptedOnce

\* Prompt-cache usage: a read is billed only for content the same tenant was
\* billed for creating, the tracker stays within its cap, and until it
\* overflows each content is created exactly once.
CacheBilledOnce ==
  LET Key(r) == <<req[r].in.tenant, req[r].in.marked>>
      Billed(how) == {r \in Requests : req[r].billed = how}
      created == {Key(r) : r \in Billed("creation")}
  IN /\ \A r \in Billed("read") : Key(r) \in created
     /\ Len(cache) <= MaxCache /\ Cardinality(Range(cache)) = Len(cache)
     /\ Cardinality(created) <= MaxCache => Cardinality(Billed("creation")) = Cardinality(created)
=============================================================================
