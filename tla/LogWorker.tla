------------------------------ MODULE LogWorker ------------------------------
(***************************************************************************)
(* The asynchronous interaction-log writer, internal/server/log_worker.go. *)
(*                                                                         *)
(* Request goroutines (Callers) hand entries to a bounded queue with a     *)
(* non-blocking Submit; a fixed pool of Workers drains it into the SQLite  *)
(* store and fans every durable row out to the live feed; Shutdown closes  *)
(* the queue, waits for the pool, and hard-stops it at a deadline.         *)
(*                                                                         *)
(* The atomic steps are the ones the code's synchronisation gives: a       *)
(* sync/atomic operation, a channel operation, one critical section.       *)
(* The k-th call of Submit carries entry k, so entries are told apart.     *)
(***************************************************************************)
EXTENDS Integers, Sequences, FiniteSets

CONSTANTS Callers,      \* goroutines that call Submit
          Workers,      \* worker goroutines (LogWorkerConfig.Workers)
          Stoppers,     \* goroutines that call Shutdown
          QueueSize,    \* LogWorkerConfig.QueueSize
          MaxAttempts   \* bound: number of Submit calls explored

ASSUME LogWorkerAssumption ==
  /\ IsFiniteSet(Callers)
  /\ IsFiniteSet(Workers)
  /\ Workers # {}
  /\ QueueSize \in Nat \ {0}
  /\ MaxAttempts \in Nat

VARIABLES
  attempts,                              \* Submit calls so far (history)
  submitted, written, dropped, failed,   \* the four counters
  queue,                                 \* the buffered channel
  stopped,                               \* stopped flag, and queue closed
  cpc, entry,                            \* Submit: control point and argument
  wpc, held,                             \* worker: control point and entry
  spc,                                   \* Shutdown: control point
  timer,                                 \* the hardStop timer
  cancelled, quit,                       \* w.ctx cancelled; quit closed
  rows,                                  \* entries inserted in the store
  published                              \* entries handed to the live feed

counters == <<attempts, submitted, written, dropped, failed>>
caller   == <<cpc, entry>>
worker   == <<wpc, held>>
control  == <<spc, timer, cancelled, quit>>
logVars     == <<counters, queue, stopped, caller, worker, control, rows, published>>

Entries == 1..MaxAttempts
NoEntry == 0

CallerPC  == {"idle", "sending", "rollback", "metering"}
WorkerPC  == {"top", "select", "log", "aborted", "count", "publish", "exited"}
StopperPC == {"idle", "locking", "draining", "joining", "returned"}

\* Submit keeps the read lock from its stopped check to its return.
InSubmit(c) == cpc[c] # "idle"

\* A Shutdown waiting in mu.Lock() keeps new readers out (sync.RWMutex).
LockPending == \E s \in Stoppers : spc[s] = "locking"

\* An entry a worker has taken and not yet counted as written or failed.
InFlight(w) == wpc[w] \in {"log", "aborted", "count"}

\* The Submit calls, and the workers, between two counter updates.
Sending  == {c \in Callers : cpc[c] \in {"sending", "rollback"}}
Metering == {c \in Callers : cpc[c] = "metering"}
Flying   == {w \in Workers : InFlight(w)}

LogInit ==
  /\ attempts = 0 /\ submitted = 0 /\ written = 0 /\ dropped = 0 /\ failed = 0
  /\ queue = << >>
  /\ stopped = FALSE
  /\ cpc = [c \in Callers |-> "idle"]
  /\ entry = [c \in Callers |-> NoEntry]
  /\ wpc = [w \in Workers |-> "top"]
  /\ held = [w \in Workers |-> NoEntry]
  /\ spc = [s \in Stoppers |-> "idle"]
  /\ timer = "off"
  /\ cancelled = FALSE
  /\ quit = FALSE
  /\ rows = {}
  /\ published = {}

-----------------------------------------------------------------------------
(* Submit.  A late call, after Shutdown closed the queue, is metered as     *)
(* dropped; any other counts itself as submitted before it tries the send.  *)

SubmitStopped(c) ==
  /\ cpc[c] = "idle"
  /\ ~LockPending
  /\ attempts < MaxAttempts
  /\ stopped
  /\ attempts' = attempts + 1
  /\ dropped' = dropped + 1
  /\ UNCHANGED <<submitted, written, failed, queue, stopped, caller, worker,
                 control, rows, published>>

SubmitBegin(c) ==
  /\ cpc[c] = "idle"
  /\ ~LockPending
  /\ attempts < MaxAttempts
  /\ ~stopped
  /\ attempts' = attempts + 1
  /\ submitted' = submitted + 1
  /\ cpc' = [cpc EXCEPT ![c] = "sending"]
  /\ entry' = [entry EXCEPT ![c] = attempts + 1]
  /\ UNCHANGED <<written, dropped, failed, queue, stopped, worker, control,
                 rows, published>>

SubmitSendOverCapacity(c) ==   \* mutant: capacity off by one
  /\ cpc[c] = "sending"
  /\ Len(queue) <= QueueSize
  /\ queue' = Append(queue, entry[c])
  /\ cpc' = [cpc EXCEPT ![c] = "idle"]
  /\ UNCHANGED <<counters, stopped, entry, worker, control, rows, published>>

SubmitSend(c) ==
  /\ cpc[c] = "sending"
  /\ Len(queue) < QueueSize
  /\ queue' = Append(queue, entry[c])
  /\ cpc' = [cpc EXCEPT ![c] = "idle"]
  /\ UNCHANGED <<counters, stopped, entry, worker, control, rows, published>>

\* The select's default branch: the queue was full at that instant.
SubmitFull(c) ==
  /\ cpc[c] = "sending"
  /\ Len(queue) = QueueSize
  /\ cpc' = [cpc EXCEPT ![c] = "rollback"]
  /\ UNCHANGED <<counters, queue, stopped, entry, worker, control, rows,
                 published>>

SubmitRollbackForgotten(c) ==   \* mutant: Submitted not rolled back
  /\ cpc[c] = "rollback"
  /\ cpc' = [cpc EXCEPT ![c] = "metering"]
  /\ UNCHANGED <<counters, queue, stopped, entry, worker, control, rows,
                 published>>

SubmitRollback(c) ==
  /\ cpc[c] = "rollback"
  /\ submitted' = submitted - 1
  /\ cpc' = [cpc EXCEPT ![c] = "metering"]
  /\ UNCHANGED <<attempts, written, dropped, failed, queue, stopped, entry,
                 worker, control, rows, published>>

SubmitDroppedUnmetered(c) ==   \* mutant: the drop is not counted
  /\ cpc[c] = "metering"
  /\ cpc' = [cpc EXCEPT ![c] = "idle"]
  /\ UNCHANGED <<counters, queue, stopped, entry, worker, control, rows,
                 published>>

SubmitDropped(c) ==
  /\ cpc[c] = "metering"
  /\ dropped' = dropped + 1
  /\ cpc' = [cpc EXCEPT ![c] = "idle"]
  /\ UNCHANGED <<attempts, submitted, written, failed, queue, stopped, entry,
                 worker, control, rows, published>>

SubmitReturns(c) ==
  SubmitSend(c) \/ SubmitFull(c) \/ SubmitRollback(c) \/ SubmitDropped(c)

-----------------------------------------------------------------------------
(* The worker loop of start().                                              *)

WorkerGoto(w, pc) == wpc' = [wpc EXCEPT ![w] = pc]

\* The first select: leave at once when quit is closed, else fall through.
WorkerTop(w) ==
  /\ wpc[w] = "top"
  /\ WorkerGoto(w, IF quit THEN "exited" ELSE "select")
  /\ UNCHANGED <<counters, queue, stopped, caller, held, control, rows,
                 published>>

WorkerExitUndrained(w) ==   \* mutant: leaves as soon as the queue is closed
  /\ wpc[w] = "select"
  /\ quit \/ stopped
  /\ WorkerGoto(w, "exited")
  /\ UNCHANGED <<counters, queue, stopped, caller, held, control, rows,
                 published>>

\* The second select blocks on both channels; a closed, drained queue or a
\* closed quit ends the worker.
WorkerExit(w) ==
  /\ wpc[w] = "select"
  /\ quit \/ (queue = << >> /\ stopped)
  /\ WorkerGoto(w, "exited")
  /\ UNCHANGED <<counters, queue, stopped, caller, held, control, rows,
                 published>>

\* A context derived from the cancelled w.ctx makes store.Log fail outright.
WorkerTake(w) ==
  /\ wpc[w] = "select"
  /\ queue # << >>
  /\ queue' = Tail(queue)
  /\ held' = [held EXCEPT ![w] = Head(queue)]
  /\ WorkerGoto(w, IF cancelled THEN "aborted" ELSE "log")
  /\ UNCHANGED <<counters, stopped, caller, control, rows, published>>

WorkerLogged(w) ==
  /\ wpc[w] = "log"
  /\ rows' = rows \cup {held[w]}
  /\ WorkerGoto(w, "count")
  /\ UNCHANGED <<counters, queue, stopped, caller, held, control, published>>

WorkerFailedPublishes(w) ==   \* mutant: a failed write is published
  /\ wpc[w] \in {"log", "aborted"}
  /\ failed' = failed + 1
  /\ WorkerGoto(w, "publish")
  /\ UNCHANGED <<attempts, submitted, written, dropped, queue, stopped, caller,
                 held, control, rows, published>>

\* A write that fails, times out after 5 s or is cancelled may or may not
\* have reached the database.
WorkerFailed(w) ==
  /\ wpc[w] \in {"log", "aborted"}
  /\ failed' = failed + 1
  /\ \/ rows' = rows
     \/ wpc[w] = "log" /\ rows' = rows \cup {held[w]}
  /\ WorkerGoto(w, "top")
  /\ UNCHANGED <<attempts, submitted, written, dropped, queue, stopped, caller,
                 held, control, published>>

WorkerCount(w) ==
  /\ wpc[w] = "count"
  /\ written' = written + 1
  /\ WorkerGoto(w, "publish")
  /\ UNCHANGED <<attempts, submitted, dropped, failed, queue, stopped, caller,
                 held, control, rows, published>>

WorkerPublish(w) ==
  /\ wpc[w] = "publish"
  /\ published' = published \cup {held[w]}
  /\ WorkerGoto(w, "top")
  /\ UNCHANGED <<counters, queue, stopped, caller, held, control, rows>>

WorkerStep(w) ==
  \/ WorkerTop(w) \/ WorkerExit(w) \/ WorkerTake(w) \/ WorkerLogged(w)
  \/ WorkerFailed(w) \/ WorkerCount(w) \/ WorkerPublish(w)

-----------------------------------------------------------------------------
(* Shutdown.  stopOnce lets one caller run the teardown; the write lock     *)
(* excludes every Submit from the moment the queue is closed.               *)

StopperGoto(s, pc) == spc' = [spc EXCEPT ![s] = pc]

ShutdownLock(s) ==
  /\ spc[s] = "idle"
  /\ ~stopped /\ ~LockPending
  /\ StopperGoto(s, "locking")
  /\ UNCHANGED <<counters, queue, stopped, caller, worker, timer, cancelled,
                 quit, rows, published>>

ShutdownCloseUnlocked(s) ==   \* mutant: closes without the write lock
  /\ spc[s] = "locking"
  /\ stopped' = TRUE
  /\ timer' = "armed"
  /\ StopperGoto(s, "draining")
  /\ UNCHANGED <<counters, queue, caller, worker, cancelled, quit, rows,
                 published>>

ShutdownClose(s) ==
  /\ spc[s] = "locking"
  /\ \A c \in Callers : ~InSubmit(c)
  /\ stopped' = TRUE
  /\ timer' = "armed"
  /\ StopperGoto(s, "draining")
  /\ UNCHANGED <<counters, queue, caller, worker, cancelled, quit, rows,
                 published>>

\* A later caller: stopOnce.Do has returned, it only re-joins the pool.
ShutdownJoin(s) ==
  /\ spc[s] = "idle"
  /\ stopped
  /\ StopperGoto(s, "joining")
  /\ UNCHANGED <<counters, queue, stopped, caller, worker, timer, cancelled,
                 quit, rows, published>>

ShutdownReturnAtDeadline(s) ==   \* mutant: returns at the deadline, no join
  /\ spc[s] \in {"draining", "joining"}
  /\ quit \/ \A w \in Workers : wpc[w] = "exited"
  /\ StopperGoto(s, "returned")
  /\ UNCHANGED <<counters, queue, stopped, caller, worker, timer, cancelled,
                 quit, rows, published>>

\* wg.Wait() returned; the first caller stops the timer and releases w.ctx.
ShutdownReturn(s) ==
  /\ spc[s] \in {"draining", "joining"}
  /\ \A w \in Workers : wpc[w] = "exited"
  /\ IF spc[s] = "draining"
     THEN /\ timer' = IF timer = "armed" THEN "stopped" ELSE timer
          /\ cancelled' = TRUE
     ELSE UNCHANGED <<timer, cancelled>>
  /\ StopperGoto(s, "returned")
  /\ UNCHANGED <<counters, queue, stopped, caller, worker, quit, rows,
                 published>>

\* The hardStop callback: cancel w.ctx, then close quit.
DeadlineCancel ==
  /\ timer = "armed"
  /\ timer' = "firing"
  /\ cancelled' = TRUE
  /\ UNCHANGED <<counters, queue, stopped, caller, worker, spc, quit, rows,
                 published>>

DeadlineQuit ==
  /\ timer = "firing"
  /\ timer' = "fired"
  /\ quit' = TRUE
  /\ UNCHANGED <<counters, queue, stopped, caller, worker, spc, cancelled, rows,
                 published>>

-----------------------------------------------------------------------------
LogNext ==
  \/ \E c \in Callers : SubmitStopped(c) \/ SubmitBegin(c) \/ SubmitReturns(c)
  \/ \E w \in Workers : WorkerStep(w)
  \/ \E s \in Stoppers : \/ ShutdownLock(s) \/ ShutdownClose(s)
                         \/ ShutdownJoin(s) \/ ShutdownReturn(s)
  \/ DeadlineCancel
  \/ DeadlineQuit

LogSpec == LogInit /\ [][LogNext]_logVars

-----------------------------------------------------------------------------
(* Properties.                                                              *)

\* Type invariant of the worker's state; the queue never exceeds the channel
\* capacity and entries are Submit calls that were made.
LogTypeOK ==
  /\ attempts \in Nat /\ submitted \in Nat /\ written \in Nat
  /\ dropped \in Nat /\ failed \in Nat
  /\ queue \in Seq(Nat) /\ Len(queue) <= QueueSize
  /\ stopped \in BOOLEAN /\ cancelled \in BOOLEAN /\ quit \in BOOLEAN
  /\ cpc \in [Callers -> CallerPC]
  /\ entry \in [Callers -> Nat]
  /\ wpc \in [Workers -> WorkerPC]
  /\ held \in [Workers -> Nat]
  /\ spc \in [Stoppers -> StopperPC]
  /\ timer \in {"off", "armed", "stopped", "firing", "fired"}
  /\ rows \subseteq Nat
  /\ published \subseteq Nat

\* Submit's documented counter invariants (log_worker.go:119-122), as they
\* hold at every instant and not only between calls: every call is counted
\* once in Submitted or Dropped, save the ones between their two counter
\* updates, and what was submitted is written, failed, queued or in flight.
CallsBalance == attempts = submitted + dropped + Cardinality(Metering)
EntriesBalance ==
  submitted = written + failed + Len(queue) + Cardinality(Flying)
                + Cardinality(Sending)
CountersBalance == CallsBalance /\ EntriesBalance

\* "Written + Failed <= Submitted" (log_worker.go:122), whatever interleaving
\* of increments, roll-backs and writes.
WrittenWithinSubmitted == written + failed <= submitted

\* No Submit can be about to send on the queue once Shutdown closed it, so
\* the send never panics (log_worker.go:136-138, F-LW-001).
NoSendOnClosedQueue == stopped => \A c \in Callers : cpc[c] # "sending"

\* Once any Shutdown call has returned every worker goroutine is gone, so
\* nothing writes to the store the caller closes next (log_worker.go:161-166).
NoWorkerAfterShutdown ==
  (\E s \in Stoppers : spc[s] = "returned") =>
    \A w \in Workers : wpc[w] = "exited"

\* A Shutdown that returned before its deadline left nothing behind: the
\* queue is drained and every accepted entry was written or failed.
CleanShutdownDrains ==
  timer = "stopped" => queue = << >> /\ submitted = written + failed

\* What Shutdown promises its caller, put together: no Submit sends on the
\* closed queue, no worker survives the call, and an undisturbed drain leaves
\* nothing behind.
ShutdownSafe == NoSendOnClosedQueue /\ NoWorkerAfterShutdown /\ CleanShutdownDrains

\* The live feed only ever carries rows that are in the store
\* (log_worker.go:258-262).
PublishedIsDurable == published \subseteq rows

=============================================================================
