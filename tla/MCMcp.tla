-------------------------------- MODULE MCMcp --------------------------------
(* The three MCP components share no state, so `part` picks the one that runs   *)
(* and the others stay in their initial state.                                   *)
(*   bidirectional: one call, two notifications, two streams that may steal       *)
(*     from each other, channels of two, a reply posted twice;                     *)
(*   streamable: a table of one session, so a second initialize evicts, a log of   *)
(*     one event, one stream per session, channels of one, two broadcasts;          *)
(*   dispatch: every method with params that decode or not, every id shape.          *)
EXTENDS McpBidirectional, McpStreamable, McpServer

CONSTANTS c1, p1, none

VARIABLE part

Request(v, id, m, p, n) ==
  [json |-> TRUE, jsonrpc |-> v, id |-> id, method |-> m, decodes |-> p, name |-> n,
   args |-> {}, refType |-> "ref/prompt", refName |-> "a", prefix |-> {},
   session |-> "known", version |-> "absent"]

Plain == {"initialize", "notifications/initialized", "ping", "tools/list",
          "resources/list", "prompts/list", "roots/list", "custom"}
Named == {"resources/read", "prompts/get", "logging/setLevel"}
Tracked == {"resources/subscribe", "resources/unsubscribe"}

k1 == <<"k1", 1>>
k2 == <<"k2", 1>>
MCRequests ==
  {Request("2.0", i, m, TRUE, "-") : i \in {"absent", "7"}, m \in Plain}
  \cup {Request("2.0", i, m, p, n) : i \in {"absent", "7"}, m \in Named, p \in BOOLEAN,
                                     n \in {"-", "known", "info"}}
  \cup {Request("2.0", "7", m, p, n) : m \in Tracked, p \in BOOLEAN, n \in {"-", "known"}}
  \cup {Request("2.0", "null", m, TRUE, "-") : m \in {"ping", "custom"}}
  \cup {Request("1.0", "7", m, TRUE, "info") : m \in {"initialize", "logging/setLevel"}}
  \cup {[Request("2.0", "7", "tools/call", TRUE, "known") EXCEPT !.args = a] :
          a \in SUBSET {k1, k2}}
  \cup {Request("2.0", "7", "tools/call", p, n) : p \in BOOLEAN, n \in {"-", "other"}}
  \cup {[Request("2.0", "7", "completion/complete", TRUE, n) EXCEPT !.prefix = x] :
          n \in {"-", "p", "q"}, x \in {{}, {1, 3}}}
  \cup {[Request("2.0", "7", m, TRUE, "info") EXCEPT !.session = s, !.version = v] :
          m \in {"initialize", "logging/setLevel"}, s \in {"missing", "unknown"},
          v \in {"absent", "unsupported"}}
  \cup {[Request("2.0", "7", "ping", TRUE, "-") EXCEPT !.json = FALSE]}

R(d, m) == [default |-> d, match |-> m]
MCResponses ==
  LET d == R(TRUE, {})
      e == R(FALSE, {})
      m1 == R(FALSE, {k1})
      m2 == R(FALSE, {k1, k2})
  IN {<<>>, <<e, m1, m2>>, <<d, m2, m1>>, <<m1, d, d>>}

Entry(t, n, a, v) == [refType |-> t, refName |-> n, argName |-> a, values |-> v]
MCCompletions ==
  {<<Entry("-", "b", "p", <<1>>), Entry("ref/prompt", "-", "p", <<1, 2, 3>>),
     Entry("-", "-", "q", <<2>>)>>}

mcvars == <<part, bidiVars, streamableVars, dispatchVars>>

MCInit ==
  /\ part \in {"bidirectional", "streamable", "dispatch"}
  /\ BidiInit /\ StreamableInit /\ DispatchInit
  /\ part # "dispatch" => responses = <<>>

MCNext ==
  \/ part = "bidirectional" /\ BidiNext /\ UNCHANGED <<part, streamableVars, dispatchVars>>
  \/ part = "streamable" /\ StreamableNext /\ UNCHANGED <<part, bidiVars, dispatchVars>>
  \/ part = "dispatch" /\ DispatchNext /\ UNCHANGED <<part, bidiVars, streamableVars>>

MCSpec == MCInit /\ [][MCNext]_mcvars
=============================================================================
