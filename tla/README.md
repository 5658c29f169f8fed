# Formal models of mock-agents

mock-agents is a server that imitates LLM providers (OpenAI, Anthropic, Gemini,
Cohere and others) and MCP tool servers from declarative agent definitions, so that
agent code can be tested without a real model. This directory holds TLA+ models of
its stateful and concurrent parts, TLC configurations that check them on small
instances, and TLAPS proofs about fourteen of them. Every definition is
translated from the Go source under `src/`; `PROJECT.json` maps each one to its lines.

Sections: 1 inventory, 2 plan, 3 modules and code, 4 runs and bounds, 5 fairness,
6 proofs, 7 what is only model-checked, 8 deviations from docs and comments,
9 not modelled.

## 1. Inventory

One process serves HTTP. A request passes the tenancy and quota middleware, an
adapter decodes the provider's wire format, the engine resolves the agent in the
registry, runs one turn in the conversation session, and the adapter encodes the
answer. `InteractionCapture` then submits the exchange to the log worker, which
writes it to the log store and publishes it to the live feed. Beside the requests
run the log workers, the retention pruner, the session sweep, the directory watcher
with its debounce timers, and the main goroutine that tears everything down.

| Component | State | Operations | Hard behaviour | What makes it correct |
|---|---|---|---|---|
| Log worker (`server/log_worker.go`) | bounded queue, four counters, worker pool, stop flag, deadline timer | `Submit`, worker loop, `Shutdown`, `Metrics` | send against close of one channel; the deadline against the drain; counters moved by many goroutines | each call counted once; no send after close; no worker outlives `Shutdown`; a clean stop drains |
| Live feed (`server/log_broadcaster.go`, `StreamLogs` in `log_handlers.go`) | subscriber map, one bounded channel and drop count per stream | `Subscribe`, cancel, `Publish`, `Close`, stream loop | slow streams; leaving against closing; drops while the loop waits | rows in order, each gap counted; tenants apart; a channel closed once; drops surfaced |
| Teardown (`server.go`, `log_pruner.go`, `cmd/mockagents/start.go`) | step reached by the main goroutine, pruner, store open or closed | `Shutdown`, sweep, deferred closes | two timeouts; requests and streams still running | the store has no user when it closes; every request accounted for; the teardown ends |
| Sessions (`engine/state`, turn in `engine/engine.go`) | map of session pointers under one lock, each session with its own lock | `GetOrCreate`, `Get`, `Delete`, `Cleanup`, `ApplyTurn` | expiry judged outside the store lock; a store-lock holder waits for a session lock | turns whole and numbered; only expired sessions swept; no turn blocked for ever |
| Agent registry (`engine/agent_registry.go`) | agents by owner and name, two model indexes, source paths | `Register`, `RegisterWithSource`, `Remove`, `RemoveForTenant`, lookups | indexes rebuilt piecemeal | index equals a full scan; nothing stale; resolution within the tenant |
| Agents directory (`server/watcher.go`, `agent_write_handlers.go`, `ReloadAgent` in `handlers.go`) | files, events, timers, file-to-name map, calls under way | edits, events, timers, reload callbacks, `Stop`, PUT, DELETE, reload | three writers, four locks, late timers | registry matches the directory when all is quiet; nothing changes after `Stop` |
| Quotas (`quota/quota.go`, `server/quota_middleware.go`) | spend cache per replica, shared ledger, token bucket | `CheckSpend`, `AddSpend`, `Usage`, `AllowRequest`, `SetOverride` | totals read off the lock; failed calls that were applied; month end | cap enforced with a bounded delay; no double charge; the rate holds in every window |
| MCP server-initiated requests (`mcp/bidirectional.go`, `sse.go`) | subscriber, outbound queue, pending replies | `Subscribe`, `enqueue`, `SendRequest`, `DeliverResponse` | replaced subscriber; reply against timeout | each reply delivered or refused once; no message lost or overtaken |
| MCP streamable transport (`mcp/streamable.go`) | sessions, event log, subscribers | initialise, broadcast, subscribe with replay, close | eviction with open streams; replay against full channels | a resumed stream has no gap and no repeat |
| MCP request handling (`mcp/server.go`, `jsonrpc.go`, `http.go`, `stdio.go`) | initialised flag, log level, subscriptions | every method, over three transports | id shapes, notifications, undecodable params | a reply of the shape the request asks for; an error changes nothing |
| Files, Batches, Responses (`adapter/files.go`, `batches.go`, `responses.go`) | bounded FIFO stores, batch clock | upload, delete, create, poll, cancel, continue a thread | eviction of a file a batch refers to; cancel at the completion instant; a thread whose start was evicted | bounds hold; every line answered once; a final state is final; a thread is whole |
| Pipelines (`engine/pipeline.go`, `pipeline_registry.go`, `config/pipeline_validator.go`, `server/pipeline_handlers.go`) | graph, registry, file | walk, parallel run, cycle test, GET, PUT | joins reached by several edges; editors that race | the walk visits what the guards reach; what the validator accepts runs; no save is overwritten unseen |
| Chaos (`engine/chaos.go`, `adapter/chaos.go`) | request windows and fail-first counters by agent name | `Before` with its three checks, the fault per dialect | a clock read before the lock; window boundary | exactly the configured failures, at most the configured number per window |
| Matching and generation (`engine/scenario_matcher.go`, `tool_processor.go`, `adapter/structured_output.go`) | turn count, goroutines of one response | first match, tools, schema walk | tool goroutines in any order; bounds of the walk | first match wins; the result does not depend on the order; the value conforms |
| Tenancy (`tenancy/*`, `server/tenancy_handlers.go`, `oidc_handlers.go`) | tenants, keys, users, sign-in sessions, resolution cache | create, change, rotate, delete, resolve, sign in | statements that are not one transaction; a resolution across a change | the cache answers what the table holds; changes scoped and audited; sessions of existing users |
| Streaming (`streaming/*`, `adapter/responses_stream.go`, the Go SDK) | frames left, the client's buffer | chunk, write, cut, read | cancellation and truncation in mid-stream | a finished stream is the whole response; the client's loop ends |
| Record and replay (`recording/*`) | cassette, file, cursor | record, match, replay, restart | concurrent appends; several matching entries | entries replayed in order; what was recorded is found |
| Storage and audit (`storage/*`, `audit/*`) | SQL tables | insert, query, prune | none of its own | retention keeps the newest rows |
| Adapters, configuration, handlers, pricing, contract, runner, CLI, SDKs, console | mostly none | translation, parsing, I/O | none concurrent | per-input functions |

`PROJECT.json` lists every component with its files, and the hazards at their lines.

## 2. Plan

Order: what loses data or hangs the process first, then what answers requests, then
what keeps state for clients. All steps are built.

1. `LogWorker`, `LogMetrics`, `LogBroadcaster`, and `LogPipeline`, which composes them
   with the pruner and the teardown.
2. `Sessions`; `AgentRegistry`, and `AgentFiles`, which composes the registry with the
   watcher, the write API and the reload endpoint.
3. `SpendQuota` and `RateQuota`.
4. `McpMailbox`, the promise, and `McpBidirectional`, which implements it;
   `McpStreamable`, `McpServer`.
5. `RequestPath`, and what its answer is made of and delivered with: `ToolCalls`,
   `SchemaSynthesis`, `Pipelines`, `Streams`, `Cassettes`.
6. `BatchStore`, `ResponseChain`; `PipelineEditor`; `TenancyStore`, `SsoLogin`.

What could still be added: the log worker and the feed as one lossy, counted, ordered
channel, shown as a second refinement; a proof of the rate quota (the bound of the token
bucket needs non-linear steps the provers are weak at); the in-memory mode of the write
API.

## 3. Modules and code

Each step of a model is one atomic operation, channel operation or critical section
of the code, so that every interleaving the Go scheduler allows is a behaviour of the
model. Data is abstracted to what the properties tell apart: a log entry is the number
of its `Submit` call, a definition is owner, name, model and version, money is a whole
number of charges, time a small integer. Operators marked `mutant` stand before the
definition they vary; they are not used by the specifications.

- **`LogWorker`** (`log_worker.go`). `SubmitStopped`, `SubmitBegin`, `SubmitReturns`
  are `Submit` under the read lock; the worker loop is `WorkerStep` with its two
  selects, the store call and the publish step; `ShutdownLock`, `ShutdownClose`,
  `ShutdownJoin`, `ShutdownReturn` are `Shutdown`; `DeadlineCancel` and `DeadlineQuit`
  are the two statements of the timer's body. A store call that fails may or may not
  have written its row.
- **`LogMetrics`** extends it with `Metrics` as four separate loads.
- **`LogBroadcaster`** (`log_broadcaster.go`, `StreamLogs`). Subscribe, cancel,
  publish and close are critical sections; a stream's loop is its select with the
  cases row, heartbeat and client gone, and the drop count is surfaced at its top.
- **`LogPipeline`** extends both. A worker's publish step and the broadcaster's
  `Publish` are one step. It adds requests that log themselves, the pruner, the steps
  of `Server.Shutdown` in their order, both timeouts, the deferred close of the store,
  and the path on which `ListenAndServe` fails.
- **`Sessions`** (`state/store.go`, `state/session.go`, the turn in `engine.go`).
  `heap` holds session objects by pointer, `sessions` the map, `storeLock` and `owner`
  the two kinds of lock. `GetOrCreate` and `Cleanup` take a session's lock while they
  hold the store's; `Get` judges outside and evicts later.
- **`AgentRegistry`** (`agent_registry.go`). Each operation is one critical section,
  so the module is a sequential one: the interest is the incremental rebuild of the
  two model indexes. Names are integers because the code compares them to pick a
  winner. `resolveAgentForTenant` is an operator.
- **`AgentFiles`** (`watcher.go`, `agent_write_handlers.go`, `ReloadAgent`) extends
  it. A debounce timer that was replaced but had already fired is counted in
  `orphans`. A reload callback runs through the points check closed, load, register,
  remember, and for a vanished file unregister, check claimed, remove; API calls have
  a disk step and a registry step. `overlapped` records that two callbacks were under
  way at once.
- **`SpendQuota`** (`quota.go`, `quota_middleware.go`). A request's check and charge
  are split at every release of the tenant lock and at the backend call; a failing
  call may have been applied. `backend` says whether a ledger was installed at startup;
  `past` is history.
- **`RateQuota`** (`quota.go`). The bucket in units of 1/`Unit` token; the clock
  advances between calls; overrides replace the limits and keep the bucket as the code
  does.

- **`TenancyStore`** (`tenancy/store.go`, `postgres_store.go`, `auth_cache.go`,
  `middleware.go`, `server/tenancy_handlers.go`, `audit/recorder.go`). A request is
  resolved through the cache or the table and then runs one handler; a step is one SQL
  statement or transaction, or one critical section of the cache. SQLite has one
  connection and no row locks, Postgres a pool and `FOR UPDATE`. `late` marks a
  resolution that read its row before a change that has been flushed since, and a role
  change whose row was changed after its SELECT.
- **`SsoLogin`** (`oidc_handlers.go`, `identity_*.go`, `sessions.go`). Login, the
  statements of the callback, logout, expiry and the deletion of a tenant.
- **`PipelineEditor`** (`pipeline_handlers.go`, `pipeline_registry.go`). GET as its two
  reads, PUT as check, write and registration under `writeMu`, and edits on disk.
- **`Pipelines`** (`engine/pipeline.go`, `config/pipeline_validator.go`). The validator
  and the executor on one definition. The header checks are one Boolean; a guard of an
  edge is empty, blank (which the validator refuses) or a word, and an answer is known by
  the guards it contains. The graph walk is a stack of frames, the parallel run one step
  per node and a join.
- **`RequestPath`** (`adapter/openai.go`, `azure.go`, `anthropic.go`, `gemini.go`,
  `chaos.go`, `engine/engine.go`, `chaos.go`, `scenario_matcher.go`,
  `response_generator.go`). `Arrive` decodes and resolves; `ReadClock`,
  `checkRateLimit`, `maybeInjectError`, `TimedOut` and `maybeInjectConnectionFault` are
  the injector, whose clock is read before its mutex is taken; `Turn` is the session
  turn with matching and rendering; `Respond` is the answer with the prompt cache. The
  error shapes of each dialect are operators.
- **`ToolCalls`** (`tool_processor.go`). One goroutine per call from three calls on.
- **`SchemaSynthesis`** (`structured_output.go`, `tool_validator.go`). The bounded walk
  as a recursive operator with its node budget, against a definition of conformance.
- **`Streams`** (`internal/streaming`, `responses_stream.go`, the response formatters,
  the Go SDK's `RawEventStream` and `ChunkStream`). `Frames` is what a renderer writes,
  `Body` what the same response carries unstreamed, with or without thinking; `Emit`,
  `CutLink`, `NextChunk` and `EndOfBody` move the frames.
- **`Cassettes`** (`internal/recording`, the record and replay commands). Lookup,
  cursor, forwarding, the append in memory and the write of its snapshot are steps of
  their own; the server is killed and started with other flags.
- **`BatchStore`** (`files.go`, `batches.go`). A creation goes through the stores one
  mutex at a time, storing the batch and rendering it for the answer included; polls and
  cancellations read the clock before the batch's mutex.
- **`ResponseChain`** (`responses.go`). The store is read before the engine runs and
  written after it.
- **`McpMailbox`** is what `SendRequest` promises; **`McpBidirectional`**
  (`mcp/bidirectional.go`, `sse.go`, the notification queue of `server.go`) has the
  subscriber, the outbound queue, streams that steal from each other, replies posted
  late or twice, and timeouts, and maps to it: a call is open from its registration to
  its return, and the accepted reply is the one that removed its pending entry.
- **`McpStreamable`** (`streamable.go`). Sessions, event log, replay and live events.
  Deletion and fan-out leave the table lock before they take a session's.
- **`McpServer`** (`server.go`, `jsonrpc.go`, `http.go`, `stdio.go`). Every method as a
  function from request and state to reply and state, under three transports, of which
  plain HTTP drains the notification queue (`queued`: whether it holds any).

The `MC` modules put components that share no state side by side: a variable `part`
says which one runs, and the others stay in their initial state. Components that do
interact are composed in modules of their own: `LogPipeline` (worker, feed, pruner,
teardown), `AgentFiles` (registry, watcher, API), `RequestPath` (injector, registry
lookup, sessions, prompt cache).

External code is modelled by what the callers see: Go channels and mutexes, the SQL
store (a call succeeds, fails, or fails after it was applied), fsnotify (an event per
changed file, in any order), the HTTP server (`Shutdown` waits for requests or times
out), the clock.

## 4. Runs and bounds

| Run | Instance | What it shows |
|---|---|---|
| `logs` | worker: 2 callers, 2 workers, 2 `Shutdown` calls, queue of 1, 3 `Submit` calls, one reader; feed: 2 streams, 2 tenants, 3 rows, buffer of 1 | `CountersBalance` at every instant; `ShutdownSafe`: no send on the closed queue, no worker left, a clean stop drains; `SettledSnapshotExact`: a read after `Shutdown` is exact; `FeedSound`: every gap in a stream is counted, tenants apart, channels closed once; `EndSurfacesDrops` |
| `log_pipeline` | 1 caller, 1 worker, 1 stream, 2 requests, 1 extra sweep | `TeardownOrdered`: the store has no user when an orderly teardown closes it, no late `Submit` unless a wait timed out, only durable rows reach the feed; `GracefulExitAccounts`; `ShutdownCompletes` and `DropsAreSurfaced` (liveness) |
| `sessions` | 2 requests, 2 keys, 1 `Get`/`Delete` caller, TTL 1, clock to 3 | `TurnsSerial`: turns whole and numbered without gap; `EvictionsExact`: sweep and `GetOrCreate` evict only what is expired, `Get` spares a replacement; `TurnsFinish` (liveness) |
| `agents` | watcher: 2 files, 2 callbacks, 3 edits or renames; API: 3 files, 3 calls, 2 tenants and a global agent loaded at boot; pipeline: 3 editors, 2 edits on disk | `DirectoryServed`: when all is quiet the registry is what the directory says, if no two callbacks overlapped; `StopQuiesces`: nothing changes after `Stop`; `WatcherStops` (liveness); `SavesSerialized`: no two saves replace the same version |
| `tenants` | keys: 2 requests, 3 tenants, 3 keys, cache of 1, SQLite and Postgres; sign-in: 2 browsers, 2 emails, 3 logins; agents: 2 owners, 2 names, 2 models, 2 versions | `CacheCurrent`; `MutationsAccountable`: rows change only for those allowed to, no request makes a platform key, every change leaves its audit event; `TransitionExactUnlessRaced`: an audited role change names the role it replaced, except in the one race SQLite leaves open; `SessionsSound`; `RegistryConsistent` |
| `serving` | 4 requests (3 to the agent of random faults, 1 of every shape), 6 agent set-ups; every response of up to 3 tool calls; every graph over 3 nodes; schemas of 2 levels and recursive ones; 4 protocols with every streaming configuration; 3 and 4 recorded requests with a restart | `FaultsExact`, `ConversationsExact`, `CacheBilledOnce`, `OrchestrationExact`, `ContentStructured`, `StreamsFaithful`, `CassetteFaithful`, `StreamEnds`, each described below |
| `limits` | spend: 3 requests on 2 replicas, months of 3, 2 failing calls, or, with no ledger, 2 requests, a report and an override on one; rate: 6 calls, clock to 5; stores: 2 files, 1 batch, 2 creations beside a watcher, or 1 beside 2 watchers; every input of up to 3 lines and one of 4, over the limit; 3 chained responses in a store of 2 | `CapHonest`, `ChargesExact`, `LocalSpendExact`, `RateHonest`, `StoresBounded`, `BatchesFaithful`, `ThreadComplete` |
| `mcp` | 1 call, 2 notifications, 2 streams, channels of 2, a reply posted twice; a table of 1 session, a log of 1 event, 2 broadcasts; every method and id shape, with and without queued notifications | `ImplementsMailbox` (refinement), `DeliversOnceInOrder`, `StreamsResume`, `DispatchConforms` |
| `watcher_rename_overlap`, `registry_shadowing`, `auth_cache_race`, `cassette_overwrite` | parts of the above | violated, see 8 |

What the properties of `serving` say:

- `FaultsExact`: an agent name's first N checks fail and every later one passes however
  requests interleave; no rate window admits more than its allotment and a client that
  waits out `Retry-After` finds the window over, although the clock is read outside the
  mutex; every dialect reports an injected fault as what it is.
- `ConversationsExact`: a turn number is given to exactly the requests let through to
  the session; a scenario scripted for one turn answers once.
- `CacheBilledOnce`: a cache read is billed only for what the same tenant was billed
  for creating.
- `OrchestrationExact`: tool calls resolved concurrently answer as in order; depth-first
  search (validator), Kahn's algorithm (executor) and the definition of a cycle agree;
  a run visits the roots and the targets of the edges that fired, each once.
- `ContentStructured`: a strict schema walked whole is answered by a value the server's
  own validator accepts; where the walk is cut short the values keep their types; a
  `json_object` request is answered by an object, and one with a schema whose root is an
  object or an array by one, whatever the scenario wrote.
- `StreamsFaithful`: a stream its client takes for finished is the whole response and
  carries what the unstreamed body carries, but for the thinking block of Anthropic
  (deviation 26).
- `CassetteFaithful`: repeated requests replay in the order recorded, none skipped or
  given twice; what was recorded is found; the file is the cassette unless appends
  overlapped.
- `StreamEnds` is termination of the client's loop in a form that needs no fairness to
  check: while the loop is not done some step of server or client is possible, and
  every step other than the loss of the connection, which happens once, shortens
  `ToDo`. Under the fairness `Streams` states the loop therefore ends.

And of `limits`: `CapHonest`, while the store answers, a request is admitted only if the
shared total was below the cap one TTL and one call timeout earlier, and none is refused
early; `ChargesExact`, whatever fails no charge is booked twice, and while the store
answers a refresh misses none; `RateHonest`, burst and refill pay for the granted
requests in every window, and the retry time is exact up to truncation; `StoresBounded`,
a cap evicts only the oldest entry; `BatchesFaithful`, an input within the limit has
every line answered once and a final status stays; `ThreadComplete`, a stored
conversation is the whole thread wherever earlier turns were evicted.

Why the bounds suffice to be of interest: a queue, buffer or store of one or two slots
is full after one or two entries, so overflow, roll-back and eviction happen; two of a
kind give every pairwise race, and the proofs of section 6 cover more. A TTL of 1 on a
clock to 3 lets a session expire, be replaced and expire again. Three edits cover a
rename followed by another change. In `limits` the clock passes TTL plus timeout within
the first month, so the cap property is not vacuous, and the month also ends. Three
tool calls are the least for which goroutines are started. The bounds of the schema
walk are scaled down (depth 4, 3 items, 12 nodes) so that each is reached. Constants
named as bounds in the modules (`MaxTime`, `MaxEdits`, `MaxStarts`, ...) limit the
exploration only. `log_pipeline` is kept to one actor of each kind because liveness
under strong fairness is expensive; the races of several are in `logs`.

Deadlock checking is off in every run: each system may stop, after a teardown or when
its bounded callers are done. Symmetry is used over interchangeable actors: callers,
workers and `Shutdown` calls in `logs`, requests and models in `tenants`, the two
requests of one replica and the two watchers in `limits`. No liveness property is
checked in these runs, and the action properties quantify over all actors.

Every property of a passing run has, in `PROJECT.json`, a variant of a modelled
operation under which TLC finds it violated: a dropped guard, a missing reset, a
swapped order.

## 5. Fairness

- `LogPipeline`: goroutines that can run do run (weak fairness of requests, workers,
  streams, the pruner, the main goroutine and a timer body that began). The store call
  ends because it has a 5 s context. Cases of a select that stay ready among others
  are taken eventually (strong fairness of a stream's receive and end, and of the
  pruner's exit), since Go picks among ready cases at random. No request, connection
  or disconnection is assumed, and neither timeout, so termination is not due to them.
- `Sessions`: requests and the sweep under strong fairness, because Go's mutex hands
  over to a waiter that has starved for 1 ms. Neither another sweep nor the clock.
- `AgentFiles`: a reload callback runs to its end and `Stop` proceeds once begun.
- `Streams`: the handler writes on, and the client's loop reads on. The run checks
  `StreamEnds`, which does not depend on it.

## 6. Proofs

Each proof module extends the component modules it is about, and a theorem names the
definition that the run of section 4 checks. The theorems hold for every value of the
constants under the named assumptions, which TLC evaluates on the instances. Every proof
finds an inductive invariant, has one lemma per action (or group of actions that change
the same variables) with a named step for each conjunct the action can disturb, and
combines them in one step lemma. A leaf goes to Zenon unless it names the SMT solver,
which the arithmetic and the sequences need.

**`LogProofs`**, on `LogWorker`, `LogMetrics`, `LogBroadcaster` and `LogPipeline`.
For any finite set of callers, any finite non-empty set of workers, any set of
`Shutdown` callers, any number of `Submit` calls and any queue size of at least 1
(`LogWorkerAssumption`): `CountersAlwaysBalance`, `ShutdownAlwaysSafe` and its parts,
`NeverOvercounted` (Written + Failed <= Submitted), `OnlyDurableRowsPublished`.
`LogIndInv` is `LogTypeOK /\ CountersBalance /\ ControlInv`. `CountersBalance` says what
the counters are at every instant, including for callers between their two increments
and workers between a receive and its count; the inequality follows because
cardinalities are not negative. `ControlInv` states how the control points depend on
each other: a stopper inside the write lock excludes every `Submit` between check and
send; at most one call runs the teardown; the timer is armed only after the close; a
worker exits only if it saw the queue closed and empty or the quit channel closed; a
stopped timer means that the workers were joined; a worker that is about to count or to
publish holds a row of the store. The step from a stopped timer to a drained queue needs
the exit conjunct: with no quit, every worker left because the queue was closed and
empty, and nothing can be sent to it afterwards. Changes of the counted sets go through
the two lemmas `Enters` and `Leaves` about cardinality.

- `SettledSnapshotAlwaysExact` adds a reader of the four counters. `SnapCurrent` says of
  each counter loaded since a `Shutdown` returned that it has not moved: from then on
  only the rejections of late `Submit` calls are counted.
- `EntriesHandledOnce`: an entry is in one hand at a time, and in none once published.
- `FeedAlwaysSound` and `EndAlwaysSurfacesDrops`, for any streams, rows and tenants and
  any buffer size (`BroadcasterAssumption`). To what `FeedSound` says the invariant adds
  that a stream with drops it was not told of has rows left to read: a drop happens
  only when the buffer is full, and the loop surfaces the count after each row it takes.
  That is why the end of a closed, empty channel cannot hide a drop. The order of the
  rows is carried by an explicit embedding of what was taken and is buffered into what
  was offered.

- `LogPipeline` (`PipelineAssumption`) implements both of its parts,
  `PipelineImplementsWorker` and `PipelineImplementsFeed` (the second needs
  `EntriesHandledOnce`: the feed's `Publish` takes a row once), so the theorems about the
  parts hold in it: `FeedSoundInPipeline`, `EndSurfacesDropsInPipeline`.
- `TeardownAlwaysOrdered` and `GracefulExitAlwaysAccounts` are about the composition
  itself; `TeardownInv` ties the main goroutine's step to the pruner, the workers and the
  requests still running.

**`SessionsProofs`** (`SessionsAssumption`), for any finite set of requests and any keys
and callers of `Get`:
`TurnsAlwaysSerial`, `EvictionsAlwaysExact`. `Placed` ties a request's control point to
the session it holds: its lock, its last message, its turn number. `Numbered` says for
every session ever allocated, those no longer in the map included, that its counter is
the number of requests that began a turn in it: a request may still hold an evicted one.

**`AgentsProofs`**, on `AgentRegistry`, `AgentFiles` and `PipelineEditor`.

- `RegistryAlwaysConsistent` and its parts, among them `IndexAlwaysExact` and
  `ResolutionStaysVisible`, for any sets of owners, models and files and any integer
  names of which every non-empty set has a least element (true of finite sets of
  strings in Go's order). The core is `RebuildExact`: rebuilding the buckets of some
  models gives an exact index of the new agents, provided that the other models have the
  same declarers with the same definitions before and after. Each operation is then
  shown to rebuild enough buckets: those of the new definition and of the one it replaces
  or removes. Resolution follows from exactness, since a bucket only holds registered
  agents of its owner.
- `RegistryConsistentUnderFiles`: the same invariant under the watcher, the write API and
  the reload endpoint. `Carries` says that what a callback or call is about to register
  is a definition.
- `StopAlwaysQuiesces`: no step changes the registry after `Stop` returned. `StopInv`
  says that by then no callback is past its check of the closed flag.
- `SavesAlwaysSerialized` (`EditorsAssumption`: editors save definitions of their own),
  for any number of editors and edits on disk. The lock alone does not give it; the
  invariant also needs where a version comes from (`Provenance`: the shipped one, one
  from disk, or one an editor has saved) and that a replaced version does not come back
  (`NeverBack`), so that an ETag equal to the file's is the file's own.

**`TenantsProofs`**, on `TenancyStore` and `SsoLogin`.

- `CacheAlwaysCurrent`, `TransitionsExactUnlessRaced` (`StoreAssumption`: the database has a
  row for every key id), for any tenants, keys, concurrent requests and cache sizes on
  either backend. A resolution that waits to store its principal agrees with the table
  or is marked late; every commit leads to a flush, and marks the resolutions under way.
  The id an insertion has drawn is used by nothing else before the INSERT, so that no
  insertion changes the row behind a cached entry. For the role changes `ReadCurrent`
  says that the role a request read is still the row's, or the request is late, which
  with row locks it cannot be.
- `MutationsAlwaysAccountable`: `Cleared` says of every request past its authorisation
  check on whose behalf it acts and on which rows; a row never changes its tenant and a
  deleted one stays deleted (`RowsKept`), so the check still holds when the statement
  runs.
- `SessionsAlwaysSound`, without assumptions. Callbacks past the domain mapping have a
  mapped email, users are in the tenant of their domain, sessions belong to users, and
  tokens in cookies were issued and resolve or have ended.

**`McpBidirectionalProofs`** (`BidiAssumption`), for any calls, streams, notifications
and repeated replies and any channel capacity.

- `RoutingAlwaysHolds`, and `TransportImplementsMailbox`, the refinement
  `McpBidirectional` => `McpMailbox`. Under `RoutingInv` every step maps to a step of the
  mailbox or to a stutter: claiming a pending entry is the acceptance, receiving from the
  response channel the answer, and both ways of giving up the abandonment.
- `DeliversAlways`. `PlacesInv` and `TakenInv` say that the outbound queue, the channels
  and what clients heard have no message in common and together hold every message
  queued and not lost; `OrderInv` that, while nothing had to wait behind an attached
  stream, each of them is in the order of queueing and a client's part precedes its
  channel's; `PolledInv` does the same for the notifications POST responses carry.

**`McpStreamableProofs`** (`StreamableAssumption`), for any sessions, streams and
broadcasts and any capacities of table, log and channels: `StreamsAlwaysResume`.
`TableInv` is about the table and its order of eviction, `SubsInv` about who is
subscribed where. `FlowInv` says that a log is the last numbers given, that received,
replayed and buffered events are increasing and follow each other, and that every
number after `Last-Event-Id` up to one of them is among them, was skipped for a full
channel or had left the log (`Covered`).

**`SpendQuotaProofs`**, on `SpendQuota` (`SpendAssumption`: finitely many requests; TTL,
timeout and month of at least one tick), for any requests, replicas, readers and caps,
with a ledger or without, whatever overrides are set and calls fail: `CapAlwaysHonest`,
`ChargesAlwaysExact`, `LocalSpendAlwaysExact`. `LedgerInv` bounds the ledger by the
charges whose call was made, equates the two while no call failed, and says that it has
never held more. The bound on the delay is a chain in `AnswersInv`: an answer is not
older than the start of its call; a call is not older than its timeout (`TimesInv`), so
a cached total is at most a timeout older than the write of its expiry; a decision that
uses it is made before the expiry, and so at most a TTL later. No step looks at the
order in which answers are stored, which is why late answers do no harm beyond the
bound. That a refresh misses none of its replica's charges follows from the same
invariant: what was booked before the call began was in the ledger when it was read,
and what is booked later is stamped later (`EarlyStep`). Without a ledger `LocalInv`
needs the month: it does not hold across its end (deviation 13).

**`RequestPathProofs`**, on `RequestPath` under `PathSpec`, in which a client may send
anything of `Wire` (`PathAssumption`: finitely many requests, a cache of at least one
entry, an agent has a name and chaos sections of the declared types, with any numbers in
them), for any agents, scenarios and tenants: `FaultsAlwaysExact`,
`ConversationsAlwaysExact`, `CacheAlwaysBilledOnce`. The invariant `PathInv` has a part
for each request and parts that count requests.

- `Sound` says what a request's record may hold at each point of its handler, and what
  an answered one looks like on the wire. No other request's step touches it.
- `ErrorsTally` and `ConnectionTally`: a fail-first counter is the number of requests
  the check failed or let through under that name; at most N were failed, and exactly N
  once one was let through. The requests the error check lets through are those the
  connection check counts.
- `LimitKept`: a name's bucket counts the requests of its window, its windows lie at
  least their length apart, and each admitted no more than its allotment. The clock a
  request brings to the mutex may be older than the window it finds there; the count
  still goes up, so a late request is never admitted for free, and `Retry-After` is
  computed from the same two numbers (`CeilSecondsEnough`: rounding up suffices).
- These three hold for definitions whose namesakes have the same faults (`Alike`): with
  different ones the counters are shared and no definition's numbers hold (deviation 21).
- `TurnsNumbered` is what `TurnsAccounted` says of the sessions; two requests of one
  session with the same scripted scenario would have the same turn number, hence
  `ScriptedOnce`. `CacheTracks` relates the prompt tracker to the creations billed.

An effect lemma per handler step says what it does to its record (`ArriveEffect`,
`CheckRateLimitEffect`, `MaybeInjectErrorEffect`, ...); the invariant lemmas use only
that and the counting lemmas (`ErrorsFail`, `WindowOpens`, `TurnTaken`, `ReadBilled`, ...).

## 7. Only model-checked

- Liveness (`ShutdownCompletes`, `DropsAreSurfaced`, `TurnsFinish`, `WatcherStops`), and
  `StreamEnds`, which uses ENABLED: out of the prover's reach.
- `Pipelines` and `SchemaSynthesis` have recursive operators, and what a recursive
  definition computes needs induction the provers cannot instantiate.
- `DirectoryServed` of `AgentFiles`, and the properties of `RateQuota`,
  `ToolCalls`, `Streams`, `Cassettes`, `BatchStore`, `ResponseChain` and
  `McpServer` hold for the instances of section 4, no more.

## 8. Deviations

Where the code does not do what a comment or document says, or what a reader would
expect. The first four are kept as runs that expect a violation. The others were found
with the models, most of them by stating a property without its condition; the models
still contain the behaviour, and the properties of section 4 are stated under the
condition that excludes it. Where a formula is named without a run it stands in the
module and is not true of it.

1. *A rename can drop the agent* (`watcher.go:296`, run `watcher_rename_overlap`).
   The claim check and the removal are two critical sections, and the other callback
   registers before it claims. The comment at `watcher.go:38-41` says the check keeps a
   rename from dropping the agent, its two events in either order.
2. *A shadowed global agent is served by model* (`agent_registry.go:387`, run
   `registry_shadowing`). A tenant's agent shadows a global one of the same name
   (`agent_registry.go:335-337`), yet a lookup by model falls back to the global one.
3. *A cache entry older than its flush* (`postgres_store.go:592`, run `auth_cache_race`).
   A request that read the key's row before a change stores it after the change's
   `Invalidate`, and it is used until its TTL ends. `auth_cache.go:143-145` rules this
   out "even by the TTL".
4. *A cassette loses a recording* (`cassette.go:145`, run `cassette_overwrite`). Two
   appends take their snapshots in one order and rename their files in the other.
   `cassette.go:2` calls the file append-only.
5. *Overlapping reloads of one file* (`watcher.go:245`). The callback that read the
   older content may register last; the registry then serves the old version until the
   next edit. `SettledServesLatest` assumes callbacks that did not overlap.
6. *Deleting a file the watcher has not seen* (`watcher.go:276`, against `:32-33`).
   Files loaded at boot are not in `fileAgents`, so their deletion unregisters nothing.
   The watcher part of `agents` starts from an empty directory.
7. *Removal by name* (`watcher.go:300`). `Remove` drops the agents of every owner with
   that name, also one loaded at boot from another file, which is not claimed; the write
   API takes care to remove for one tenant (`agent_write_handlers.go:121-122`).
   The API part of `agents` has no edits from outside.
8. *A reload brings back a deleted agent* (`handlers.go:163`). `ReloadAgent` does not
   take the write lock: a `DELETE` between its scan and its registration leaves an agent
   without a file (`agent_write_handlers.go:143-144` rules this out for writers).
   `SettledNoOrphan` is checked without API calls.
9. *A snapshot of the counters is not a point in time* (`log_worker.go:220`, against
   `:204` and `:122`). Submitted is loaded first, so Written may exceed it.
   `SettledSnapshotExact` covers the read after `Shutdown`.
10. *A failing listener closes the store under its users* (`start.go:299`, against
   `server.go:540-541`). When `ListenAndServe` returns an error the deferred close runs
   without `Server.Shutdown`. `StoreUnusedAfterClose` assumes the orderly path.
11. *A turn on an evicted session* (`engine.go:145`, against `store.go:21-23`). Between
   `GetOrCreate` and `ApplyTurn` a sweep may evict the session if a whole TTL passes;
   the turn is then lost to later requests. `OnlyExpiredEvicted` bounds it.
12. *`Get` evicts what it judged a moment ago*. It compares the pointer but does not
    judge again, so a session refreshed in between is evicted. `OnlyExpiredEvicted`
    leaves out `Get`.
13. *Month end* (`quota.go:279`, against `:4-5` and `:195`). A call that began before
    the month ended replaces the new month's counter. `LocalSpendExact` is checked within
    one month.
14. *A charge lost after a failed call* (`quota.go:219`). It is booked in the local
    cache and overwritten by the next refresh. `ChargeNotLost` assumes no failure.
15. *An older answer overwrites the written-through total* (`quota.go:262`, against
    `:39-40`). The delay is still bounded, which `CapEnforcedWithinWindow` checks.
16. *The cap is read twice* (`quota.go:188-192`, against `:182`). An override to
    unlimited between the reads refuses the request.

Tenants and sign-in:

17. *The previous role of a role change* (`store.go:428-430`). One connection serializes
    statements, not pairs of them: on SQLite another change may come between the SELECT
    and the UPDATE, and the audit event then names a role that was not replaced. This
    race is the exception of `TransitionExactUnlessRaced`.
18. An UPDATE of a key that was deleted since its SELECT reports success. A bulk rotation
    skips keys created after its SELECT and reports roles as of it.
19. Of two first logins with the same email at once, the second ends in a 500: the
    insertion conflicts and the lookup is not repeated.
20. Rotating one's own key from a sign-in session, which has no key, is a 404.

Requests, streams and structured outputs:

21. *`fail_first` counts by name* (`behavior.go:171-177`, against `chaos.go:111-129`;
    `FailsFirstPerAgent`). Two tenants' agents of one name share the counters and the
    rate bucket. `RecoversAfterN` and `LimitHonest` are stated for definitions whose
    namesakes have the same faults (`Alike`). An injected error may be configured with
    status 200, and then reaches the client as a success. And
    `enabled: false` does not turn chaos off when a section is present (`chaos.go:225-226`).
22. *Engine errors are told apart by substrings* of their text, so an agent or scenario
    name may change the status; a 500 that was not injected is labelled
    `invalid_request_error` in the OpenAI and Anthropic dialects. A turn whose answer
    fails to render stays in the session. A Gemini turn of images only is refused.
23. *A clock read before the lock* may be older than the window it is compared with; the
    `Retry-After` is then longer than needed, never shorter (`LimitHonest`).
24. *Spacing* (`chunker.go:25-27`, `SpacingPreserved`). Reassembled chunks have single
    spaces for whatever separated the words.
25. A response with both content and a refusal loses the refusal in the Anthropic and
    Gemini streams. The SDK's `ChunkStream` drops OpenAI's refusal deltas, and its
    `ToolCallDelta.Index` is a block index for Anthropic and a tool index for OpenAI.
    Raw arguments are ignored by the Anthropic and Gemini renderers.
26. A streamed Anthropic answer has no thinking block and no cache usage even when the
    request asks for them (`adapter/anthropic.go:254-256` notes it as open); the block
    is the exception of `StreamMatchesBody`. Responses streams ignore time to first
    token, truncation and malformed endings (`responses.go:344-346` says the pacing is
    identical). The configuration is looked up again after the engine answered, so a
    reload in between changes it.
27. *Conformance* (`structured_output.go:144-147`, `AlwaysConforms`). A least length of a
    string is not respected; nor are a negative maximum without minimum, an exclusive
    minimum next to the maximum, more than five items, or required names without a
    property. Chains of references end in null at the depth limit. Which properties are
    left out when the budget ends depends on Go's map order (`:321-324` says the output
    is deterministic). `SynthesizedConforms` is about strict schemas walked whole.
    A scenario's own JSON is only compared with the root type: an object that lacks
    required fields is kept (`:89-91` says it is not), and for a scalar root any JSON is.
    `AnswerIsStructured` claims the root type of objects and arrays only.
28. Of several default responses of a tool the last one wins.

Stores, recordings and pipelines:

29. *A thread changes its session* (`responses.go:442-445`, `ThreadSharesSession`). The
    session key is the id of the response continued, a new one every turn. Responses
    sent with `store: false` are stored.
30. *A batch reported completed can be cancelled* (`batches.go:178`) by a request that
    read its clock before the completion. `StatusFinal` excludes this one case. At the
    cap the files a batch generates may evict its input or each other.
31. *A body that is not JSON* makes every later write of the cassette fail
    (`record.go:20-22` says every exchange is captured). A matcher over redacted
    recordings may miss (`matcher.go:5-7`). A client that disconnects leaves a truncated
    stream in the cassette (`proxy.go:183-192`, deliberate).
32. *What a save replaces* (`pipeline_handlers.go:187-188`, `ReplacesWhatWasLoaded`). GET
    reads the definition and then its version, so an editor may hold an old definition
    with a new ETag. An edit on disk changes the ETag but not what is served.
33. `pipeline_validator.go:31-33` and `:217-223` say that the executor silently tolerates
    a cycle. It refuses one before it runs a node (`pipeline.go:189-195`), by the same
    definition of a cycle as the validator, as `OrchestrationExact` shows.

MCP:

34. Messages in the channel of a stolen stream are lost (`bidirectional.go:118-121` says
    never dropped); messages that had to wait may be overtaken, or wait for the next
    subscriber (`server.go:61-65` says one ordered stream). `NeverDropped` and
    `OneOrderedStream` exclude exactly these.
35. An event skipped because of a full channel is not replayed when a later one was
    received, since the client resumes after that (`streamable.go:564-566`).
36. `Handle` answers some notifications (`server.go:98-100` says it returns nil). The
    bidirectional endpoints are mounted only by tests, and stdio never drains
    notifications.

## 9. Not modelled

`PROJECT.json` gives the reason for every component. Interaction-log and audit storage,
configuration loading, pricing, contract checks, the test runner, observability, the
command line, the importers of recordings, the console and the SDKs other than the Go
SDK's stream and mailbox readers are sequential conversions, queries or I/O: they have no
state of their own that several steps could bring into disagreement. In the modelled
parts these are left out: templates, regular expressions and semantic similarity, which
appear as which rules match; token estimates and the field-by-field layout of bodies;
embeddings and moderations, which are functions of one request; latency sampling; SQL
text, schema migration and the encoding of secrets; request decoding and the in-memory
mode of the write API; the order of the two checks in `QuotaEnforce` with its header;
price annotation and log message contents.
