----------------------------- MODULE LogPipeline -----------------------------
(***************************************************************************)
(* The interaction log as a whole: requests that log themselves when they  *)
(* are served, the log worker, the live feed, the retention pruner, and    *)
(* the order in which Server.Shutdown (internal/server/server.go) and the  *)
(* deferred closes of `mockagents start` (cmd/mockagents/start.go) tear    *)
(* them down.  The worker's publish step and the broadcaster's Publish are *)
(* one step; every other step belongs to one component.                    *)
(***************************************************************************)
EXTENDS LogWorker, LogBroadcaster

CONSTANTS Main,           \* the goroutine running `mockagents start`
          MaxPrunes       \* bound: retention sweeps explored

\* Only the main goroutine shuts the worker down, and the rows the feed may see
\* are the entries submitted.
ASSUME PipelineAssumption ==
  /\ Stoppers = {Main}
  /\ Rows = Entries
  /\ MaxPrunes \in Nat

VARIABLES
  req,          \* per caller: no request, being served, logged
  mpc,          \* control point of the main goroutine
  timedOut,     \* httpServer.Shutdown gave up waiting
  ppc,          \* the pruner goroutine
  pruneStop,    \* the pruner's stop channel is closed
  prunes,       \* sweeps so far (bound)
  storeClosed   \* the log store is closed

svars == <<req, mpc, timedOut, ppc, pruneStop, prunes, storeClosed>>
vars  == <<logVars, feedVars, svars>>

Init ==
  /\ LogInit
  /\ FeedInit
  /\ req = [c \in Callers |-> "idle"]
  /\ mpc = "serving"
  /\ timedOut = FALSE
  /\ ppc = "pruning"
  /\ pruneStop = FALSE
  /\ prunes = 0
  /\ storeClosed = FALSE

\* The listener takes requests until httpServer.Shutdown closes it.
Accepting == mpc \in {"serving", "closeFeed", "stopPruner", "joinPruner", "closeHTTP"}

-----------------------------------------------------------------------------
(* Requests.  InteractionCapture submits after the inner handler returned.  *)

ServeBegin(c) ==
  /\ Accepting
  /\ req[c] = "idle"
  /\ attempts + Cardinality({d \in Callers : req[d] = "serving"}) < MaxAttempts
  /\ req' = [req EXCEPT ![c] = "serving"]
  /\ UNCHANGED <<logVars, feedVars, mpc, timedOut, ppc, pruneStop, prunes, storeClosed>>

ServeLog(c) ==
  /\ req[c] = "serving"
  /\ SubmitBegin(c) \/ SubmitStopped(c)
  /\ req' = [req EXCEPT ![c] = "logged"]
  /\ UNCHANGED <<feedVars, mpc, timedOut, ppc, pruneStop, prunes, storeClosed>>

ServeSubmit(c) == SubmitReturns(c) /\ UNCHANGED <<feedVars, svars>>

ServeEnd(c) ==
  /\ req[c] = "logged"
  /\ cpc[c] = "idle"
  /\ req' = [req EXCEPT ![c] = "idle"]
  /\ UNCHANGED <<logVars, feedVars, mpc, timedOut, ppc, pruneStop, prunes, storeClosed>>

\* A stream is a request too: none is accepted once the listener is closed.
StreamBegin(h) ==
  /\ Accepting
  /\ \E t \in Tenants \cup {NoTenant} : Subscribe(h, t)
  /\ UNCHANGED <<logVars, svars>>

StreamRuns(h) == (StreamStep(h) \/ StreamGone(h)) /\ UNCHANGED <<logVars, svars>>

-----------------------------------------------------------------------------
(* Workers and pruner: the two users of the store in the background.        *)

\* Writing to the closed store fails.
WorkerRuns(w) ==
  /\ \/ WorkerTop(w) \/ WorkerExit(w) \/ WorkerTake(w)
     \/ ~storeClosed /\ WorkerLogged(w)
     \/ WorkerFailed(w) \/ WorkerCount(w)
  /\ UNCHANGED <<feedVars, svars>>

WorkerPublishes(w) ==
  /\ WorkerPublish(w)
  /\ Publish(held[w])
  /\ UNCHANGED svars

\* A sweep ends (5 s context); the loop then selects on stop and the ticker.
PruneEnd ==
  /\ ppc = "pruning"
  /\ ppc' = "select"
  /\ UNCHANGED <<logVars, feedVars, req, mpc, timedOut, pruneStop, prunes, storeClosed>>

PruneTick ==
  /\ ppc = "select"
  /\ prunes < MaxPrunes
  /\ ppc' = "pruning"
  /\ prunes' = prunes + 1
  /\ UNCHANGED <<logVars, feedVars, req, mpc, timedOut, pruneStop, storeClosed>>

PruneExit ==
  /\ ppc = "select"
  /\ pruneStop
  /\ ppc' = "exited"
  /\ UNCHANGED <<logVars, feedVars, req, mpc, timedOut, pruneStop, prunes, storeClosed>>

-----------------------------------------------------------------------------
(* Teardown, by the main goroutine.                                         *)

MainGoto(from, to) == mpc = from /\ mpc' = to

Signal ==
  /\ MainGoto("serving", "closeFeed")
  /\ UNCHANGED <<logVars, feedVars, req, timedOut, ppc, pruneStop, prunes, storeClosed>>

CloseFeedSkipped ==   \* mutant: the feed is left open
  /\ MainGoto("closeFeed", "stopPruner")
  /\ UNCHANGED <<logVars, feedVars, req, timedOut, ppc, pruneStop, prunes, storeClosed>>

CloseFeed ==
  /\ MainGoto("closeFeed", "stopPruner")
  /\ Close
  /\ UNCHANGED <<logVars, req, timedOut, ppc, pruneStop, prunes, storeClosed>>

StopPruner ==
  /\ MainGoto("stopPruner", "joinPruner")
  /\ pruneStop' = TRUE
  /\ UNCHANGED <<logVars, feedVars, req, timedOut, ppc, prunes, storeClosed>>

JoinPrunerNoWait ==   \* mutant: Stop does not wait for done
  /\ MainGoto("joinPruner", "closeHTTP")
  /\ UNCHANGED <<logVars, feedVars, req, timedOut, ppc, pruneStop, prunes, storeClosed>>

JoinPruner ==
  /\ MainGoto("joinPruner", "closeHTTP")
  /\ ppc = "exited"
  /\ UNCHANGED <<logVars, feedVars, req, timedOut, ppc, pruneStop, prunes, storeClosed>>

CloseHTTP ==
  /\ MainGoto("closeHTTP", "waitHTTP")
  /\ UNCHANGED <<logVars, feedVars, req, timedOut, ppc, pruneStop, prunes, storeClosed>>

HTTPDrainedEarly ==   \* mutant: only the streams are waited for
  /\ MainGoto("waitHTTP", "drain")
  /\ \A h \in Handlers : hpc[h] \in {"absent", "done"}
  /\ UNCHANGED <<logVars, feedVars, req, timedOut, ppc, pruneStop, prunes, storeClosed>>

\* httpServer.Shutdown returns when every request is done ...
HTTPDrained ==
  /\ MainGoto("waitHTTP", "drain")
  /\ \A c \in Callers : req[c] = "idle"
  /\ \A h \in Handlers : hpc[h] \in {"absent", "done"}
  /\ UNCHANGED <<logVars, feedVars, req, timedOut, ppc, pruneStop, prunes, storeClosed>>

\* ... or after ShutdownTimeout, with requests still being served.
HTTPTimeout ==
  /\ MainGoto("waitHTTP", "drain")
  /\ timedOut' = TRUE
  /\ UNCHANGED <<logVars, feedVars, req, ppc, pruneStop, prunes, storeClosed>>

DrainWorker ==
  /\ mpc = "drain"
  /\ ShutdownLock(Main) \/ ShutdownClose(Main) \/ ShutdownReturn(Main)
  /\ UNCHANGED <<feedVars, svars>>

DrainDeadline ==
  /\ DeadlineCancel \/ DeadlineQuit
  /\ UNCHANGED <<feedVars, svars>>

ShutdownDone ==
  /\ MainGoto("drain", "closeStore")
  /\ spc[Main] = "returned"
  /\ UNCHANGED <<logVars, feedVars, req, timedOut, ppc, pruneStop, prunes, storeClosed>>

\* ListenAndServe failed: `start` returns without Server.Shutdown.
ServeFails ==
  /\ MainGoto("serving", "closeStore")
  /\ UNCHANGED <<logVars, feedVars, req, timedOut, ppc, pruneStop, prunes, storeClosed>>

\* The deferred logStore.Close().
CloseStore ==
  /\ MainGoto("closeStore", "closed")
  /\ storeClosed' = TRUE
  /\ UNCHANGED <<logVars, feedVars, req, timedOut, ppc, pruneStop, prunes>>

MainStep ==
  \/ CloseFeed \/ StopPruner \/ JoinPruner \/ CloseHTTP \/ HTTPDrained
  \/ DrainWorker \/ ShutdownDone \/ CloseStore

-----------------------------------------------------------------------------
Next ==
  \/ \E c \in Callers : ServeBegin(c) \/ ServeLog(c) \/ ServeSubmit(c) \/ ServeEnd(c)
  \/ \E h \in Handlers : StreamBegin(h) \/ StreamRuns(h)
  \/ \E w \in Workers : WorkerRuns(w) \/ WorkerPublishes(w)
  \/ PruneEnd \/ PruneTick \/ PruneExit
  \/ Signal \/ ServeFails \/ MainStep \/ HTTPTimeout \/ DrainDeadline

Spec == Init /\ [][Next]_vars

(***************************************************************************)
(* Goroutines that can run do run: a request being served, a worker whose  *)
(* select or store call can proceed (store.Log is bounded by a 5 s         *)
(* context), a sweep (5 s too), a stream's loop and its heartbeat, the main*)
(* goroutine, and the body of a timer that fired.  Go's select picks every *)
(* ready case of a loop infinitely often, so a closed, drained channel is  *)
(* noticed although the heartbeat or the ticker is ready again and again   *)
(* (SF).  No one need send a request, connect or leave, and the two        *)
(* timeouts need not fire, so termination does not rest on them.           *)
(***************************************************************************)
Fairness ==
  /\ \A c \in Callers : WF_vars(ServeLog(c) \/ ServeSubmit(c) \/ ServeEnd(c))
  /\ \A h \in Handlers : /\ WF_vars(StreamStep(h) /\ UNCHANGED <<logVars, svars>>)
                         /\ SF_vars(StreamRecv(h) /\ UNCHANGED <<logVars, svars>>)
                         /\ SF_vars(StreamEnd(h) /\ UNCHANGED <<logVars, svars>>)
  /\ \A w \in Workers : WF_vars(WorkerRuns(w) \/ WorkerPublishes(w))
  /\ WF_vars(PruneEnd)
  /\ SF_vars(PruneExit)
  /\ WF_vars(MainStep)
  /\ WF_vars(DeadlineQuit /\ UNCHANGED <<feedVars, svars>>)

FairSpec == Spec /\ Fairness

-----------------------------------------------------------------------------
(* Properties.                                                              *)

\* When the log store is closed after Server.Shutdown, neither a worker nor
\* the pruner can touch it any more (server.go:541-542, log_worker.go:64-68).
\* When ListenAndServe fails, `start` closes the store without stopping them.
StoreUnusedAfterClose ==
  storeClosed /\ stopped => ppc = "exited" /\ \A w \in Workers : wpc[w] = "exited"

\* "Submit paths must be closed first so we know the queue only contains
\* already-enqueued entries" (server.go:548-551): once the worker is stopped
\* a request can still reach Submit only if waiting for requests timed out.
NoLateSubmit ==
  stopped /\ ~timedOut => \A c \in Callers : req[c] = "idle"

\* Everything the feed ever offered to a stream is a durable row, and rows
\* the feed saw are the ones the worker published.
FeedIsDurable ==
  /\ publishedRows = published
  /\ \A h \in Handlers : \A i \in 1..Len(offered[h]) : offered[h][i] \in rows

\* Teardown and delivery put together: nothing uses the store after its close,
\* nothing is submitted after the drain, nothing is streamed that is not stored.
TeardownOrdered == StoreUnusedAfterClose /\ NoLateSubmit /\ FeedIsDurable

\* A graceful exit, with neither timeout hit, accounts for every request that
\* was served: it was written, failed or dropped on overflow, before the close.
GracefulExitAccounts ==
  storeClosed /\ ~timedOut /\ timer = "stopped" =>
    attempts = written + failed + dropped

\* A signal ends in the store being closed even when neither timeout fires:
\* no stream pins the HTTP server, no queue entry or sweep pins the drain.
ShutdownCompletes == mpc = "closeFeed" ~> storeClosed
=============================================================================
