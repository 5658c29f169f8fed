------------------------------- MODULE McpServer -------------------------------
(* JSON-RPC dispatch of the mock MCP server behind its three transports (plain *)
(* POST, Streamable HTTP POST, stdio).  A request is a record: whether its     *)
(* params decode, the one name they carry (tool, URI, prompt, argument, level; *)
(* NoName when empty), tool arguments as a set of <<key, value>> pairs, a      *)
(* completion's reference and whether it narrows by prefix.                    *)
EXTENDS Integers, FiniteSets, SequencesExt

CONSTANTS
  Requests,       \* the requests clients send
  Responses,      \* sets of configured responses a tool may have
  Completions,    \* configured completion catalogs
  MaxValues       \* cap on completion values (100)

NoName     == "-"
NoResponse == 1        \* not a JSON-RPC code
OK         == 0
ParseError == -32700
InvalidRequest == -32600
MethodNotFound == -32601
InvalidParams  == -32602

\* The definition served: one of each; everything else is unknown.
Known  == "known"
Levels == {"debug", "info", "notice", "warning", "error", "critical", "alert", "emergency"}

VARIABLES
  responses,   \* the tool's configured responses
  catalog,     \* the definition's completions
  inited, logLvl, subscribed,    \* Server
  sessionsMade,      \* sessions the streamable transport has created
  queued,      \* whether Server.pending holds notifications
  last         \* the exchange that just ended

dispatchVars == <<responses, catalog, inited, logLvl, subscribed, sessionsMade, queued, last>>

IsNotification(req) == req.id \in {"absent", "null"}

-----------------------------------------------------------------------------
(* Lookups.                                                                 *)

MatchArgs(match, args) == match # {} /\ match \subseteq args

ResolveAnyMatch(rs, args) ==   \* mutant: a later match overrides an earlier one
  LET scan[i \in 0..Len(rs)] ==
        IF i = 0 THEN 0
        ELSE IF rs[i].default \/ MatchArgs(rs[i].match, args) THEN i ELSE scan[i - 1]
  IN scan[Len(rs)]

\* Index of the response chosen, 0 for none: the loop of resolveToolResponse,
\* `fallback` being the last default passed so far.
ResolveToolResponse(rs, args) ==
  LET scan[i \in 1..Len(rs) + 1, fallback \in 0..Len(rs)] ==
        IF i > Len(rs) THEN fallback
        ELSE IF rs[i].default THEN scan[i + 1, i]
        ELSE IF MatchArgs(rs[i].match, args) THEN i
        ELSE scan[i + 1, fallback]
  IN scan[1, 0]

\* Values of the first entry whose non-empty fields agree.
Applies(c, req) ==
  /\ c.refType \in {NoName, req.refType}
  /\ c.refName \in {NoName, req.refName}
  /\ c.argName = req.name

LookupCompletion(req) ==
  LET hits == {i \in DOMAIN catalog : Applies(catalog[i], req)}
  IN IF hits = {} THEN <<>> ELSE catalog[Min(hits)].values

\* A non-empty argument value narrows the list to the values it prefixes.
Completed(req) ==
  IF req.prefix = {} THEN LookupCompletion(req)
  ELSE SelectSeq(LookupCompletion(req), LAMBDA v : v \in req.prefix)

-----------------------------------------------------------------------------
(* Handle: the code of the answer, and the payload that distinguishes it.     *)

DecodesName(req) == req.decodes /\ req.name # NoName

ToolsCall(req) ==
  IF ~DecodesName(req) THEN InvalidParams
  ELSE IF req.name = Known THEN OK ELSE MethodNotFound

\* An empty URI or prompt name is just an unknown one.
ResourcesRead(req) == IF req.decodes /\ req.name = Known THEN OK ELSE InvalidParams
PromptsGet(req)    == IF req.decodes /\ req.name = Known THEN OK ELSE InvalidParams

ResourcesSubscribe(req) == IF DecodesName(req) THEN OK ELSE InvalidParams
CompletionComplete(req) == IF DecodesName(req) THEN OK ELSE InvalidParams

LoggingSetLevel(req) == IF req.decodes /\ req.name \in Levels THEN OK ELSE InvalidParams

Code(req) ==
  CASE req.jsonrpc # "2.0" -> InvalidRequest
    [] req.method \in {"initialize", "notifications/initialized", "ping", "tools/list",
                       "resources/list", "prompts/list"} -> OK
    [] req.method = "tools/call" -> ToolsCall(req)
    [] req.method = "resources/read" -> ResourcesRead(req)
    [] req.method = "prompts/get" -> PromptsGet(req)
    [] req.method \in {"resources/subscribe", "resources/unsubscribe"} -> ResourcesSubscribe(req)
    [] req.method = "completion/complete" -> CompletionComplete(req)
    [] req.method = "logging/setLevel" -> LoggingSetLevel(req)
    [] OTHER -> MethodNotFound     \* server-initiated and unknown methods

KnownMethods ==
  {"initialize", "ping", "tools/list", "tools/call", "resources/list", "resources/read",
   "resources/subscribe", "resources/unsubscribe", "prompts/list", "prompts/get",
   "completion/complete", "logging/setLevel", "sampling/createMessage", "roots/list"}

\* No response: the initialized notification, and unknown notifications.
Silent(req) ==
  /\ req.jsonrpc = "2.0"
  /\ \/ req.method = "notifications/initialized"
     \/ req.method \notin KnownMethods /\ IsNotification(req)

Payload(req) ==
  CASE req.method = "tools/call" ->
         [chosen |-> ResolveToolResponse(responses, req.args), total |-> 0, values |-> <<>>]
    [] req.method = "completion/complete" ->
         LET all == Completed(req)
         IN [chosen |-> 0, total |-> Len(all),
             values |-> SubSeq(all, 1, IF Len(all) > MaxValues THEN MaxValues ELSE Len(all))]
    [] OTHER -> [chosen |-> 0, total |-> 0, values |-> <<>>]

Empty == [chosen |-> 0, total |-> 0, values |-> <<>>]

HandleBeforeCheck(req) ==   \* mutant: the level is stored before it is checked
  /\ inited' = (inited \/ (Code(req) = OK /\ req.method = "notifications/initialized"))
  /\ logLvl' = IF req.method = "logging/setLevel" THEN req.name ELSE logLvl
  /\ UNCHANGED subscribed

\* What Handle changes, only with a successful outcome.
Does(req, m) == Code(req) = OK /\ req.method = m
Initialized(req) == inited \/ Does(req, "notifications/initialized")
Level(req) == IF Does(req, "logging/setLevel") THEN req.name ELSE logLvl
Subscriptions(req) ==
  IF Does(req, "resources/subscribe") THEN subscribed \cup {req.name}
  ELSE IF Does(req, "resources/unsubscribe") THEN subscribed \ {req.name}
  ELSE subscribed
Effects(req) ==
  inited' = Initialized(req) /\ logLvl' = Level(req) /\ subscribed' = Subscriptions(req)

Answer(req) ==
  IF Silent(req) THEN [code |-> NoResponse, id |-> "absent", payload |-> Empty]
  ELSE [code |-> Code(req), id |-> req.id,
        payload |-> IF Code(req) = OK THEN Payload(req) ELSE Empty]

\* (drained: whether the exchange took notifications off the queue)
Exchange(t, req, status, answer, drained) ==
  last' = [transport |-> t, req |-> req, status |-> status, answer |-> answer, drained |-> drained]

-----------------------------------------------------------------------------
(* The transports.                                                          *)

Unparsed == [code |-> ParseError, id |-> "absent", payload |-> Empty]

\* HandleBytes answers a body that is not JSON with a parse error.
HandleBytes(req) ==
  IF req.json THEN Effects(req)
  ELSE UNCHANGED <<inited, logLvl, subscribed>>

BytesAnswer(req) == IF req.json THEN Answer(req) ELSE Unparsed

\* The plain transport drains the queue into its body: without a response to
\* carry, an array of the notifications, and 204 only when there are none.
HTTPPost(req) ==
  /\ HandleBytes(req)
  /\ Exchange("rpc", req, IF BytesAnswer(req).code = NoResponse /\ ~queued THEN 204 ELSE 200,
              BytesAnswer(req), queued)
  /\ queued' = FALSE
  /\ UNCHANGED <<responses, catalog, sessionsMade>>

\* POST /mcp/notify, or a handler that emits a notification.
EmitNotification ==
  /\ queued' = TRUE
  /\ UNCHANGED <<responses, catalog, inited, logLvl, subscribed, sessionsMade, last>>

ServeStdio(req) ==
  /\ HandleBytes(req)
  /\ Exchange("stdio", req, 0, BytesAnswer(req), FALSE)
  /\ UNCHANGED <<responses, catalog, sessionsMade, queued>>

Initialize(req) == req.method = "initialize"

\* Status a streamable POST is refused with before it is dispatched, or OK.
Refused(req) ==
  IF Initialize(req) THEN OK
  ELSE CASE req.version = "unsupported" -> 400
         [] req.version # "unsupported" /\ req.session = "missing" -> 400
         [] req.version # "unsupported" /\ req.session = "unknown" -> 404
         [] OTHER -> OK

\* handlePost: parse error, session and version checks, dispatch, then the
\* session minted by a successful initialize.
StreamablePost(req) ==
  /\ req.session = "known" => sessionsMade > 0
  /\ sessionsMade < 2
  /\ IF ~req.json
     THEN /\ Exchange("mcp", req, 200, Unparsed, FALSE)
          /\ UNCHANGED <<inited, logLvl, subscribed, sessionsMade>>
     ELSE IF Refused(req) # OK
     THEN /\ Exchange("mcp", req, Refused(req),
                      [code |-> NoResponse, id |-> "absent", payload |-> Empty], FALSE)
          /\ UNCHANGED <<inited, logLvl, subscribed, sessionsMade>>
     ELSE /\ Effects(req)
          /\ sessionsMade' = IF Initialize(req) /\ Code(req) = OK THEN sessionsMade + 1 ELSE sessionsMade
          /\ Exchange("mcp", req, IF Silent(req) THEN 202 ELSE 200, Answer(req), FALSE)
  /\ UNCHANGED <<responses, catalog, queued>>

-----------------------------------------------------------------------------
NoExchange ==
  [transport |-> "none", status |-> 0, drained |-> FALSE,
   answer |-> [code |-> NoResponse, id |-> "absent", payload |-> Empty]]

DispatchInit ==
  /\ responses \in Responses /\ catalog \in Completions
  /\ inited = FALSE /\ logLvl = NoName /\ subscribed = {} /\ sessionsMade = 0 /\ queued = FALSE
  /\ last = NoExchange

DispatchNext == EmitNotification \/ \E req \in Requests : HTTPPost(req) \/ ServeStdio(req) \/ StreamablePost(req)

DispatchSpec == DispatchInit /\ [][DispatchNext]_dispatchVars

-----------------------------------------------------------------------------
Handled ==
  /\ last.transport # "none" /\ last.req.json
  /\ last.transport = "mcp" => last.status \in {200, 202}

\* Invariant: over every transport a request that carries an id gets a response
\* with that id, except notifications/initialized; a tool call is answered by the
\* first configured response its arguments match, else by the last default; and
\* a completion reports the full count of what it truncates.  An answer without
\* a body has taken no notification off the queue.
RepliesConform ==
  /\ last.drained => last.status # 204
  /\ Handled =>
    LET req == last.req
        a == last.answer
        hits == {i \in DOMAIN responses :
                   ~responses[i].default /\ MatchArgs(responses[i].match, req.args)}
        defaults == {i \in DOMAIN responses : responses[i].default}
    IN /\ ~IsNotification(req) /\ req.method # "notifications/initialized" =>
            a.code # NoResponse /\ a.id = req.id
       /\ req.method = "tools/call" /\ a.code = OK =>
            a.payload.chosen = IF hits # {} THEN Min(hits)
                               ELSE IF defaults # {} THEN Max(defaults) ELSE 0
       /\ req.method = "completion/complete" /\ a.code = OK =>
            /\ Len(a.payload.values) <= MaxValues
            /\ Len(a.payload.values) < a.payload.total => Len(a.payload.values) = MaxValues

\* Action property: an exchange that is refused or ends in an error changes no
\* server state and mints no session ("so a client can't spend sessions on
\* garbage payloads", streamable.go:244-246).
ErrorsChangeNothing ==
  [][ (last'.answer.code \notin {OK, NoResponse} \/ last'.status >= 400) =>
        UNCHANGED <<inited, logLvl, subscribed, sessionsMade>> ]_dispatchVars

\* Every reply has the shape JSON-RPC asks for its request, with the tool
\* response that the rules select, and a request answered by an error changes no
\* state of the server (server.go, jsonrpc.go).
DispatchConforms == []RepliesConform /\ ErrorsChangeNothing
=============================================================================
