------------------------------- MODULE MCServing -------------------------------
(***************************************************************************)
(* How a request is answered; `part` says what runs.                       *)
(*                                                                         *)
(* Requests from the wire to the answer: "inputs" (one request of every    *)
(* shape), "flaky" (an agent whose requests first time out, then are cut   *)
(* off), "limited" (a rate-limited agent that fails first), "random"       *)
(* (faults drawn by probability), "script" (a scripted conversation with   *)
(* cached prompts), "tenants" (two tenants' agents of one name).           *)
(*                                                                         *)
(* What the answer is made of: "tools" (every response of up to three tool *)
(* calls), "pipelines" (every graph over three nodes, guarded and not, and *)
(* malformed definitions), "schema" (schemas of two levels over a few      *)
(* leaves, and recursive ones, with the bounds of the walk scaled down).   *)
(*                                                                         *)
(* How it is delivered: "streams" (every protocol, with text, refusals and *)
(* tool calls, paced, truncated, malformed or cut off) and the recording   *)
(* proxy: "modes" (three requests, every record mode, a restart) and       *)
(* "sequence" (four requests that repeat).                                 *)
(***************************************************************************)
EXTENDS RequestPath

CONSTANT Parts

VARIABLES part,
          tools, calls, fails, results, errs, finished, returned,
          def, stage, err, nodes, visited, stack, root, branches,
          schema, defs, order, format, answered, answer, left, done,
          proto, resp, cfg, frames, server, link, client,
          flags, effective, interactions, disk, cursor, builtLen, rq, starts, torn

-----------------------------------------------------------------------------
(* Agents and the requests sent to them.                                   *)

Calm == [enabled |-> FALSE, limit |-> << >>, errors |-> << >>, connection |-> << >>]
AnyTime == [hasImage |-> "any", contains |-> {}, regex |-> [kind |-> "none", word |-> ""], turn |-> 0]
Scenario(match) == [default |-> FALSE, match |-> match, badTemplate |-> FALSE, nameWords |-> {}]
Default == [Scenario(AnyTime) EXCEPT !.default = TRUE]
Agent(tenant, name, scenarios, chaos) == [tenant |-> tenant, name |-> name, scenarios |-> scenarios, chaos |-> chaos]
Fault(first, rate, statuses, timeout) == <<[failFirst |-> first, rate |-> rate, statuses |-> statuses, timeout |-> timeout]>>

Flaky == [Calm EXCEPT !.errors = Fault(1, 0, {503}, TRUE), !.connection = Fault(1, 0, {0}, FALSE)]
Limited1 == [Calm EXCEPT !.limit = <<[requests |-> 2, window |-> 3]>>, !.errors = Fault(1, 0, {503}, FALSE)]
Random == [Calm EXCEPT !.enabled = TRUE, !.errors = Fault(0, 1, {0, 429}, FALSE), !.connection = Fault(0, 3, {0}, FALSE)]
Script == <<Scenario([AnyTime EXCEPT !.hasImage = "yes"]), Scenario([AnyTime EXCEPT !.turn = 1]),
            [Scenario([AnyTime EXCEPT !.regex = [kind |-> "word", word |-> "refund"], !.turn = 2])
               EXCEPT !.badTemplate = TRUE, !.nameWords = {"empty"}],
            Scenario([AnyTime EXCEPT !.regex = [kind |-> "bad", word |-> ""]]), Scenario([AnyTime EXCEPT !.contains = {"hi"}]),
            Default, Default>>
LLMAgents == {Agent("", "flaky", <<Default>>, Flaky), Agent("t1", "flaky", << >>, Flaky),
             Agent("", "limited", << >>, Limited1),
             Agent("", "random", <<Default>>, Random), Agent("", "script", Script, Calm)}
Callers == {"", "t1"}

Part(type) == [type |-> type, words |-> {"hi"}]
User(types) == [role |-> "user", parts |-> [i \in DOMAIN types |-> Part(types[i])]]
Ask == [NoInput EXCEPT !.proto = "openai", !.body = "ok", !.auth = TRUE, !.session = "s", !.msgs = <<User(<<"text">>)>>]
Messages == {<<>>, <<[User(<<"text">>) EXCEPT !.role = "model"]>>} \cup
            {<<User(<<t>>), [User(<<"text">>) EXCEPT !.role = "assistant"]>> :
               t \in {"text", "image", "image_url", "tool_result", "functionResponse"}}
AllInputs == [proto : {"openai", "azure", "anthropic", "gemini"}, body : {"ok", "big", "bad"},
              model : {"", "script", "nobody"}, auth : BOOLEAN, tenant : {"", "t1"}, session : {"s"},
              stream : {FALSE}, gone : BOOLEAN, h2 : {FALSE}, marked : {{}}, msgs : Messages]
To(model) == [Ask EXCEPT !.model = model]
Cached(tenant, mark, word) == [To("script") EXCEPT !.proto = "anthropic", !.tenant = tenant, !.marked = {mark},
                                                   !.msgs = <<[User(<<"text">>) EXCEPT !.parts[1].words = {word}]>>]
\* The proofs quantify over everything the wire carries; the instances are part of it.
ASSUME InputsOnTheWire ==
  AllInputs \cup {[To("random") EXCEPT !.h2 = TRUE, !.stream = TRUE], Cached("t1", "a", "hi")} \subseteq Wire

Inputs == CASE part = "inputs"  -> IF req[1].pc = "idle" THEN AllInputs ELSE {}
            [] part = "flaky"   -> {To("flaky")}
            [] part = "limited" -> {To("limited")}
            [] part = "random"  -> IF req[3].pc = "idle" THEN {To("random"), [To("random") EXCEPT !.proto = "anthropic", !.h2 = TRUE],
                                                                      [To("random") EXCEPT !.proto = "gemini", !.h2 = TRUE]} ELSE {}
            [] part = "script"  -> {[To("script") EXCEPT !.stream = TRUE], Cached("", "a", "hi"), Cached("", "b", "refund"),
                                    Cached("t1", "a", "hi")}
            [] part = "tenants" -> {[To("flaky") EXCEPT !.tenant = t] : t \in Callers}

-----------------------------------------------------------------------------
(* Tool calls and pipelines.                                               *)

Tool(name, validate, rules) == [name |-> name, validate |-> validate, rules |-> rules]
Rule(match, default, error) == [match |-> match, default |-> default, error |-> error]
Tools == <<Tool("f", FALSE, <<>>), Tool("g", FALSE, << >>),
           Tool("f", TRUE, <<Rule(<< >>, TRUE, FALSE), Rule(<< >>, FALSE, FALSE), Rule([x |-> 1], FALSE, FALSE),
                             Rule([x |-> 1, y |-> 1], FALSE, TRUE), Rule(<< >>, TRUE, TRUE)>>)>>
ToolCall(name, args, valid) == [name |-> name, args |-> args, valid |-> valid]
Calls == {ToolCall("f", [x |-> 1, y |-> 1], TRUE), ToolCall("f", [y |-> 1], TRUE), ToolCall("f", [x |-> 1], FALSE),
          ToolCall("g", [x |-> 1], TRUE), ToolCall("h", [x |-> 1], TRUE)}

Step(i, r) == [id |-> i, ref |-> r]
ABC == <<Step("a", "x"), Step("b", "y"), Step("c", "x")>>
Pair == {"a", "b", "c"} \X {"a", "b", "c"}
Edge(p, w) == [from |-> p[1], to |-> p[2], when |-> IF w THEN "word" ELSE ""]
Ordered == [k \in 1 .. 9 |-> LET id == <<"c", "b", "a">> IN <<id[1 + ((k - 1) % 3)], id[1 + ((k - 1) \div 3)]>>]
AsEdges(S, w) ==
  LET s == SelectSeq(Ordered, LAMBDA p : p \in S)
  IN [i \in 1 .. Len(s) |-> Edge(s[i], w \/ s[i][1] = "a")]
Pipe(t, as, es) == [header |-> TRUE, topology |-> t, agents |-> as, edges |-> es]
Blank(e) == [e EXCEPT !.when = "blank"]
Definitions ==
  {Pipe("graph", ABC, AsEdges(S, w)) : S \in SUBSET Pair, w \in BOOLEAN}
  \cup {Pipe("graph", ABC, <<Edge(<<"a", t>>, FALSE), Edge(<<f, "b">>, FALSE)>>) : t, f \in {"z", "b"}}
  \cup {Pipe("graph", <<Step("a", "x"), Step("b", ""), Step("a", "y")>>,
            <<Edge(<<"a", "b">>, FALSE), Edge(<<"a", "b">>, FALSE)>>)}
  \cup {Pipe("graph", ABC, <<Blank(Edge(<<"a", "b">>, w)), Edge(<<f, "c">>, w)>>) : f \in {"a", "b"}, w \in BOOLEAN}
  \cup {[Pipe("parallel", ABC, <<>>) EXCEPT !.header = FALSE]}
  \cup {Pipe(t, as, <<>>) : t \in {"sequential", "parallel", "", "ring", "graph"},
                           as \in {ABC, <<>>, <<Step("a", "x"), Step("b", "")>>}}

T == INSTANCE ToolCalls WITH answer <- returned
P == INSTANCE Pipelines WITH Definitions <- Definitions, results <- branches
C == INSTANCE SchemaSynthesis WITH
       maxSynthDepth <- 4, maxSynthArrayItems <- 3, maxSynthNodes <- 12, resp <- answered

-----------------------------------------------------------------------------
(* Schemas and the responses they are applied to.                          *)

Leaves == {C!Node("boolean"), [C!Node("string") EXCEPT !.format = 10], [C!Node("string") EXCEPT !.minLength = 1, !.maxLength = 5],
           [C!Node("string") EXCEPT !.enum = <<C!V("string", 3), C!V("string", 4)>>],
           [C!Node("number") EXCEPT !.exclusiveMinimum = <<1>>], [C!Node("") EXCEPT !.const = <<C!V("string", 2)>>],
           [C!Node("") EXCEPT !.ref = "node"], [C!Node("") EXCEPT !.ref = "gone"],
           [C!Node("") EXCEPT !.anyOf = <<C!Node("integer"), C!Node("string")>>]}
Integers2 == {[C!Node("integer") EXCEPT !.minimum = lo, !.exclusiveMinimum = xlo, !.maximum = hi, !.exclusiveMaximum = xhi] :
              lo \in {<<>>, <<3>>}, xlo \in {<<>>, <<1>>}, hi \in {<<>>, <<2>>, <<4>>}, xhi \in {<<>>, <<5>>}}
Props(S) == UNION {[ks -> S] : ks \in {{}, {"a"}, {"a", "b"}}}
Objects(S) == {[C!Node("object") EXCEPT !.props = ps, !.required = r, !.closed = c] :
                 ps \in Props(S), r \in {{}, {"a"}}, c \in BOOLEAN}
Arrays(S) == {[C!Node("array") EXCEPT !.items = <<i>>, !.minItems = n] : i \in S, n \in {0, 2, 4}}
             \cup {[C!Node(t) EXCEPT !.tuple = <<i, C!Node("string")>>] : i \in S, t \in {"array", ""}}
Deep == Objects(Leaves \cup {[C!Node("array") EXCEPT !.items = <<C!Node("integer")>>, !.minItems = 2],
                             [C!Node("object") EXCEPT !.props = [a |-> C!Node("string")], !.required = {"a"}]})
Merged == {[C!Node("") EXCEPT !.props = [c |-> C!Node("boolean")], !.allOf = <<[C!Node("") EXCEPT !.ref = "node"], o>>] :
             o \in Objects({C!Node("string")})} \cup {[C!Node("") EXCEPT !.allOf = <<C!Node("integer")>>]}
\* A list and a tree that refer to themselves.
SchemaDefs == {[node |-> [C!Node("object") EXCEPT !.props = [a |-> C!Node("integer"), b |-> [C!Node("") EXCEPT !.ref = "node"]]]],
         [node |-> [C!Node("object") EXCEPT !.props = [a |-> [C!Node("") EXCEPT !.ref = "node"], b |-> [C!Node("") EXCEPT !.ref = "node"]]]]}
Schemas == {C!NoSchema} \cup Leaves \cup Objects(Integers2) \cup Arrays(Leaves) \cup Deep \cup Merged
Contents == {C!NoText, C!Json(C!Obj(<< >>)), C!Json(C!Arr(<< >>)), C!Json(C!V("number", 2))}
ModelAnswers == [content : Contents, toolCalls : BOOLEAN, refusal : BOOLEAN, finish : {"", "stop"}]
Silent == [content |-> C!NoText, toolCalls |-> FALSE, refusal |-> FALSE, finish |-> ""]

-----------------------------------------------------------------------------
(* Streams and recordings.                                                 *)

Called(n, a, r) == [name |-> n, args |-> a, raw |-> r]
Texts == {<<>>, <<"a">>, <<"a", " ", "b", " ", "c">>, <<"a", "\n", "b">>}
RefusalTexts == {<<>>, <<"n", " ", "o">>}
ToolCallLists == {<<>>, <<Called("f", <<1, 2>>, <<>>)>>, <<Called("f", <<1>>, <<3, 4>>), Called("g", <<5>>, <<>>)>>}
Upper(finish) == IF finish = "recitation" THEN "RECITATION" ELSE finish
StreamConfigs == [size : {1, 2}, truncate : {0, 1, 2}, malformed : BOOLEAN]

Sent(p, b) == [path |-> p, body |-> b]
RecordedInputs == {Sent("chat", [prompt |-> "hi", temp |-> "0"]),
             Sent("chat", [prompt |-> "hi", temp |-> "1", n |-> "1"]),
             Sent("messages", [prompt |-> "secret", temp |-> "0"])}
CommandLines == [mode: {"all"}, ignore: {{}}, redact: BOOLEAN]
           \cup [mode: {"none"}, ignore: {{}, {"temp", "n"}}, redact: {FALSE}]
           \cup [mode: {"new_episodes"}, ignore: {{}, {"temp", "n"}}, redact: BOOLEAN]
           \cup [mode: {"once"}, ignore: {{}}, redact: {FALSE}]
UpstreamAnswers == {[status |-> 200, cut |-> "no", json |-> TRUE],
              [status |-> 200, cut |-> "upstream", json |-> TRUE],
              [status |-> 500, cut |-> "no", json |-> FALSE]}

S == INSTANCE Streams WITH
       Protocols <- {"openai", "anthropic", "gemini", "responses"}, Contents <- Texts,
       Refusals <- RefusalTexts, ToolCalls <- ToolCallLists,
       Finishes <- {"", "length", "content_filter", "recitation"}, ToUpper <- Upper, Configs <- StreamConfigs
R == INSTANCE Cassettes WITH
       Requests <- 1..4, Inputs <- RecordedInputs, Flags <- CommandLines,
       Answers <- UpstreamAnswers, MaxStarts <- 2

-----------------------------------------------------------------------------
Serving   == part \in {"inputs", "flaky", "limited", "random", "script", "tenants"}
Recording == part \in {"modes", "sequence"}

tvars == <<tools, calls, fails, results, errs, finished, returned>>
pvars == <<def, stage, err, nodes, visited, stack, root, branches>>
cvars == <<schema, defs, order, format, answered, answer, left, done>>
svars == <<proto, resp, cfg, frames, server, link, client>>
rvars == <<flags, effective, interactions, disk, cursor, builtLen, rq, starts, torn>>
mcvars == <<vars, tvars, pvars, cvars, svars, rvars, part>>

\* The variables of the parts that do not run stay 0.
ToolInit ==
  IF part = "tools"
  THEN /\ tools = Tools
       /\ calls \in UNION {[1..n -> Calls] : n \in 1..3}
       /\ fails \in [DOMAIN calls -> BOOLEAN]
       /\ T!Init
  ELSE tools = 0 /\ calls = 0 /\ fails = 0 /\ results = 0 /\ errs = 0 /\ finished = 0 /\ returned = 0
PipelineInit ==
  IF part = "pipelines" THEN P!PInit
  ELSE def = 0 /\ stage = 0 /\ err = 0 /\ nodes = 0 /\ visited = 0 /\ stack = 0 /\ root = 0 /\ branches = 0
SchemaInit ==
  IF part = "schema"
  THEN /\ \/ schema \in Schemas /\ defs \in SchemaDefs /\ format = "json_schema" /\ answered = Silent
          \/ /\ schema \in {C!NoSchema, C!Node("object"), C!Node("array")} /\ defs = << >>
             /\ format \in {"", "text", "json_object", "json_schema"} /\ answered \in ModelAnswers
       /\ order \in {<<"a", "b", "c">>, <<"c", "b", "a">>}
       /\ C!Init
  ELSE schema = 0 /\ defs = 0 /\ order = 0 /\ format = 0 /\ answered = 0 /\ answer = 0 /\ left = 0 /\ done = 0
StreamInit ==
  IF part = "streams" THEN S!Init
  ELSE proto = 0 /\ resp = 0 /\ cfg = 0 /\ frames = 0 /\ server = 0 /\ link = 0 /\ client = 0
RecordInit ==
  IF Recording THEN R!CInit
  ELSE flags = 0 /\ effective = 0 /\ interactions = 0 /\ disk = 0 /\ cursor = 0
       /\ builtLen = 0 /\ rq = 0 /\ starts = 0 /\ torn = 0

MCInit == /\ part \in Parts
          /\ Init /\ ToolInit /\ PipelineInit /\ SchemaInit /\ StreamInit /\ RecordInit

\* The recording proxy: three requests in every mode, or four of one kind in a row.
RecordNext ==
  /\ R!CNext
  /\ part = "modes" => rq'[4].pc = "idle"
  /\ part = "sequence" =>
       /\ flags'.mode = "new_episodes" /\ ~flags'.redact
       /\ starts' < 2 /\ ~torn'
       /\ \A r \in 1..4 : rq'[r].pc = "append" => rq'[r].a.status = 200 /\ rq'[r].a.cut = "no"

MCNext ==
  /\ \/ /\ Serving /\ Next(Inputs) /\ (clock' # clock => part = "limited")
        /\ UNCHANGED <<tvars, pvars, cvars, svars, rvars>>
     \/ part = "tools" /\ T!Next /\ UNCHANGED <<vars, pvars, cvars, svars, rvars>>
     \/ part = "pipelines" /\ P!PNext /\ UNCHANGED <<vars, tvars, cvars, svars, rvars>>
     \/ part = "schema" /\ C!applyResponseFormat /\ UNCHANGED <<vars, tvars, pvars, svars, rvars>>
     \/ part = "streams" /\ S!Next /\ UNCHANGED <<vars, tvars, pvars, cvars, rvars>>
     \/ Recording /\ RecordNext /\ UNCHANGED <<vars, tvars, pvars, cvars, svars>>
  /\ UNCHANGED part

MCSpec == MCInit /\ [][MCNext]_mcvars

-----------------------------------------------------------------------------
(* Properties of the parts other than the request path.                    *)

\* Tool calls resolved concurrently answer as if resolved in order, every
\* pipeline the validator accepts runs, and a run follows its definition
\* (ToolCalls, Pipelines).
OrchestrationExact ==
  /\ part = "tools" => T!OrderIndependent
  /\ part = "pipelines" => P!ValidatorMatchesExecutor /\ P!RunMatchesDefinition

\* Structured outputs conform to a strict schema walked whole, keep their types
\* where the walk is cut short, and are JSON, an object or an array where the
\* root asks for one (SchemaSynthesis, structured_output.go).
ContentStructured ==
  part = "schema" => C!SynthesizedConforms /\ C!CutShortButTyped /\ C!AnswerIsStructured

\* A stream its client takes for finished is the whole response, carries what
\* the same response carries unstreamed, and is well formed in its protocol
\* (Streams).
StreamsFaithful == part = "streams" => S!StreamsFaithful

\* Whatever is cut, truncated or malformed, the client's loop over the stream
\* can go on until it ends, and every step brings the end nearer (Streams).
StreamEnds == /\ [](part = "streams" => S!LoopCanGoOn)
              /\ [][part = "streams" /\ link' = link => S!ToDo' < S!ToDo]_svars

\* Repeated requests are replayed in the order recorded, what was recorded is
\* found, and the file is the cassette (Cassettes).
CassetteFaithful ==
  Recording => R!ReplaysInSequence /\ R!RecordedIsFound /\ R!CassetteSound

\* "A cassette is an append-only JSON-lines file" (cassette.go:2).
CassetteAppendOnly == R!AppendOnly
=============================================================================
