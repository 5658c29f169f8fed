------------------------------- MODULE LogProofs -------------------------------
(***************************************************************************)
(* Safety of the interaction log, for every number of goroutines, rows and *)
(* tenants, every queue and buffer size.                                   *)
(*                                                                         *)
(* The worker: one inductive invariant, LogIndInv: the balance of the      *)
(* counters, and what the lock, the deadline timer and a worker's exit     *)
(* imply about each other.  On top of it, SnapInv follows a reader of the  *)
(* counters through its loads.                                             *)
(*                                                                         *)
(* The feed: FeedIndInv adds to what a stream is promised that a drop not  *)
(* yet surfaced leaves a row to read, and that a stream that has not come  *)
(* has no subscription.                                                    *)
(*                                                                         *)
(* The pipeline: composing the worker and the feed with the server adds no *)
(* behaviour to either, since it implements both of their specifications;  *)
(* what is shown of each holds in it.  What is left is the order of the    *)
(* teardown, which TeardownInv follows along the control points of the     *)
(* main goroutine.                                                         *)
(***************************************************************************)
EXTENDS LogMetrics, LogPipeline, FiniteSetTheorems, SequenceTheorems, TLAPS

\* A leaf goes to Zenon unless it names another prover.
USE ZenonT(120)

-----------------------------------------------------------------------------
(* The worker.                                                              *)

\* The queue is closed only with every Submit out of its critical section.
LockExcludesSubmit == stopped => \A c \in Callers : cpc[c] = "idle"

\* stopOnce: one Shutdown is locking, and only before the queue is closed;
\* after that every Shutdown call is past it.
OneTeardown ==
  /\ \A s, t \in Stoppers : spc[s] = "locking" /\ spc[t] = "locking" => s = t
  /\ (\E s \in Stoppers : spc[s] = "locking") => ~stopped

\* Nobody waits for the workers, and no timer runs, before the queue closed.
TimerFollowsClose ==
  /\ (\E s \in Stoppers : spc[s] \in {"draining", "joining", "returned"}) => stopped
  /\ timer = "off" <=> ~stopped
  /\ quit => timer = "fired"

\* A worker leaves only on quit, or when nothing can reach it any more.
ExitJustified ==
  (\E w \in Workers : wpc[w] = "exited") => quit \/ (stopped /\ queue = << >>)

\* A stopped timer witnesses a completed wg.Wait().
StoppedTimerMeansJoined ==
  timer = "stopped" => \A w \in Workers : wpc[w] = "exited"

\* What a worker counts or publishes is in the store.
CountedIsDurable ==
  \A w \in Workers : wpc[w] \in {"count", "publish"} => held[w] \in rows

ControlInv ==
  /\ LockExcludesSubmit
  /\ OneTeardown
  /\ TimerFollowsClose
  /\ ExitJustified
  /\ StoppedTimerMeansJoined
  /\ NoWorkerAfterShutdown
  /\ CountedIsDurable
  /\ PublishedIsDurable

LogIndInv == LogTypeOK /\ CountersBalance /\ ControlInv

-----------------------------------------------------------------------------
(* The sets the counters are balanced against.                              *)

\* The goroutines between two counter updates are finitely many.
LEMMA CountsAreNat ==
  /\ IsFiniteSet(Sending) /\ Cardinality(Sending) \in Nat
  /\ IsFiniteSet(Metering) /\ Cardinality(Metering) \in Nat
  /\ IsFiniteSet(Flying) /\ Cardinality(Flying) \in Nat
<1>1. Sending \in SUBSET Callers /\ Metering \in SUBSET Callers
      /\ Flying \in SUBSET Workers
  BY DEF Sending, Metering, Flying
<1>2. IsFiniteSet(Callers) /\ IsFiniteSet(Workers)
  BY LogWorkerAssumption
<1>3. IsFiniteSet(Sending) /\ IsFiniteSet(Metering) /\ IsFiniteSet(Flying)
  BY <1>1, <1>2, FS_Subset
<1>. QED  BY <1>3, FS_CardinalityType

\* A goroutine that enters such a set adds one to its size.
LEMMA Enters ==
  ASSUME NEW S, NEW T, NEW x, IsFiniteSet(S), x \notin S, T = S \cup {x}
  PROVE  Cardinality(T) = Cardinality(S) + 1
BY FS_AddElement

\* A goroutine that leaves such a set takes one from its size.
LEMMA Leaves ==
  ASSUME NEW S, NEW T, NEW x, IsFiniteSet(S), x \in S, T = S \ {x}
  PROVE  Cardinality(T) = Cardinality(S) - 1
BY FS_RemoveElement

\* The sets only depend on the control points.
LEMMA CallersUnmoved ==
  ASSUME UNCHANGED cpc
  PROVE  Sending' = Sending /\ Metering' = Metering
BY DEF Sending, Metering

\* A step that moves no worker leaves the sets of workers as they are.
LEMMA WorkersUnmoved ==
  ASSUME UNCHANGED wpc
  PROVE  Flying' = Flying
BY DEF Flying, InFlight

-----------------------------------------------------------------------------
\* NewLogWorker establishes the invariant.
LEMMA InitLogIndInv == LogInit => LogIndInv
<1>. SUFFICES ASSUME LogInit PROVE LogIndInv
  OBVIOUS
<1>1. Sending = {} /\ Metering = {} /\ Flying = {}
  BY DEF LogInit, Sending, Metering, Flying, InFlight
<1>2. CountersBalance
  BY SMTT(60), <1>1, FS_EmptySet DEF CountersBalance, CallsBalance, EntriesBalance, LogInit
<1>a. queue \in Seq(Nat) /\ Len(queue) <= QueueSize
  BY SMTT(60), LogWorkerAssumption DEF LogInit
<1>b. stopped \in BOOLEAN /\ cancelled \in BOOLEAN /\ quit \in BOOLEAN
  BY DEF LogInit
<1>3. LogTypeOK
  BY <1>a, <1>b DEF LogTypeOK, LogInit, CallerPC, WorkerPC, StopperPC, NoEntry
<1>. QED
  BY <1>2, <1>3 DEF LogIndInv, ControlInv, LogInit, LockExcludesSubmit, OneTeardown,
     TimerFollowsClose, ExitJustified, StoppedTimerMeansJoined,
     NoWorkerAfterShutdown, CountedIsDurable, PublishedIsDurable

-----------------------------------------------------------------------------
Numbered ==
  /\ attempts \in Nat /\ submitted \in Nat /\ written \in Nat
  /\ dropped \in Nat /\ failed \in Nat /\ Len(queue) \in Nat
  /\ Cardinality(Sending) \in Nat /\ Cardinality(Metering) \in Nat
  /\ Cardinality(Flying) \in Nat

\* The numbers of the balance are naturals.
LEMMA Numbers == LogTypeOK => Numbered
BY SMTT(60), CountsAreNat DEF LogTypeOK, Numbered

\* A late Submit only meters a drop.
LEMMA SubmitStoppedPreserves ==
  ASSUME LogIndInv, NEW c \in Callers, SubmitStopped(c)
  PROVE  LogIndInv'
<1>0. LogTypeOK /\ CountersBalance /\ ControlInv /\ Numbered
  BY Numbers DEF LogIndInv
<1>1. Sending' = Sending /\ Metering' = Metering /\ Flying' = Flying
  BY CallersUnmoved, WorkersUnmoved DEF SubmitStopped, caller, worker
<1>2. CallsBalance'
  BY SMTT(60), <1>0, <1>1 DEF CountersBalance, CallsBalance, Numbered, SubmitStopped
<1>3. EntriesBalance'
  BY <1>0, <1>1 DEF CountersBalance, EntriesBalance, Numbered, SubmitStopped
<1>4. LogTypeOK'
  BY SMTT(60), <1>0
  DEF LogTypeOK, SubmitStopped, counters, caller, worker, control
<1>5. ControlInv'
  BY <1>0
  DEF SubmitStopped, counters, caller, worker, control, LogTypeOK,
      ControlInv, LockExcludesSubmit, OneTeardown, TimerFollowsClose,
      ExitJustified, StoppedTimerMeansJoined, NoWorkerAfterShutdown,
      CountedIsDurable, PublishedIsDurable
<1>. QED  BY <1>2, <1>3, <1>4, <1>5 DEF LogIndInv, CountersBalance

\* Submit counts itself in before it sends.
LEMMA SubmitBeginPreserves ==
  ASSUME LogIndInv, NEW c \in Callers, SubmitBegin(c)
  PROVE  LogIndInv'
<1>0. LogTypeOK /\ CountersBalance /\ ControlInv /\ Numbered
  BY Numbers DEF LogIndInv
<1>1. c \notin Sending /\ Sending' = Sending \cup {c}
  BY <1>0 DEF SubmitBegin, Sending, LogTypeOK
<1>2. Cardinality(Sending') = Cardinality(Sending) + 1
  BY <1>1, CountsAreNat, Enters
<1>3. Metering' = Metering
  BY <1>0 DEF SubmitBegin, Metering, LogTypeOK
<1>4. Flying' = Flying
  BY WorkersUnmoved DEF SubmitBegin, worker
<1>5. CallsBalance'
  BY SMTT(60), <1>0, <1>2, <1>3, <1>4 DEF CountersBalance, CallsBalance, Numbered, SubmitBegin
<1>6. EntriesBalance'
  BY SMTT(60), <1>0, <1>2, <1>3, <1>4 DEF CountersBalance, EntriesBalance, Numbered, SubmitBegin
<1>7. LogTypeOK'
  BY SMTT(60), <1>0
  DEF LogTypeOK, SubmitBegin, counters, caller, worker, control, CallerPC
<1>8. ControlInv'
  BY <1>0
  DEF SubmitBegin, counters, caller, worker, control, LogTypeOK,
      ControlInv, LockExcludesSubmit, OneTeardown, TimerFollowsClose,
      ExitJustified, StoppedTimerMeansJoined, NoWorkerAfterShutdown,
      CountedIsDurable, PublishedIsDurable
<1>. QED  BY <1>5, <1>6, <1>7, <1>8 DEF LogIndInv, CountersBalance

\* The send moves one from the sending calls to the queue.
LEMMA SubmitSendPreserves ==
  ASSUME LogIndInv, NEW c \in Callers, SubmitSend(c)
  PROVE  LogIndInv'
<1>0. LogTypeOK /\ CountersBalance /\ ControlInv /\ Numbered
  BY Numbers DEF LogIndInv
<1>1. c \in Sending /\ Sending' = Sending \ {c}
  BY <1>0 DEF SubmitSend, Sending, LogTypeOK
<1>2. Cardinality(Sending') = Cardinality(Sending) - 1
  BY <1>1, CountsAreNat, Leaves
<1>3. Metering' = Metering
  BY <1>0 DEF SubmitSend, Metering, LogTypeOK
<1>4. Flying' = Flying
  BY WorkersUnmoved DEF SubmitSend, worker
<1>5. queue' \in Seq(Nat) /\ Len(queue') = Len(queue) + 1 /\ Len(queue') <= QueueSize
  BY SMTT(60), <1>0, LogWorkerAssumption DEF SubmitSend, LogTypeOK
<1>6. CallsBalance'
  BY <1>0, <1>2, <1>3, <1>4, <1>5 DEF CountersBalance, CallsBalance, Numbered, SubmitSend, counters
<1>7. EntriesBalance'
  BY SMTT(60), <1>0, <1>2, <1>3, <1>4, <1>5 DEF CountersBalance, EntriesBalance, Numbered, SubmitSend, counters
<1>8. LogTypeOK'
  BY <1>0, <1>5
  DEF LogTypeOK, SubmitSend, counters, caller, worker, control, CallerPC
<1>9. ControlInv'
  BY <1>0
  DEF SubmitSend, counters, caller, worker, control, LogTypeOK,
      ControlInv, LockExcludesSubmit, OneTeardown, TimerFollowsClose,
      ExitJustified, StoppedTimerMeansJoined, NoWorkerAfterShutdown,
      CountedIsDurable, PublishedIsDurable
<1>. QED  BY <1>6, <1>7, <1>8, <1>9 DEF LogIndInv, CountersBalance

\* Finding the queue full changes no count.
LEMMA SubmitFullPreserves ==
  ASSUME LogIndInv, NEW c \in Callers, SubmitFull(c)
  PROVE  LogIndInv'
<1>0. LogTypeOK /\ CountersBalance /\ ControlInv /\ Numbered
  BY Numbers DEF LogIndInv
<1>1. Sending' = Sending
  BY <1>0 DEF SubmitFull, Sending, LogTypeOK
<1>2. Metering' = Metering
  BY <1>0 DEF SubmitFull, Metering, LogTypeOK
<1>3. Flying' = Flying
  BY WorkersUnmoved DEF SubmitFull, worker
<1>4. CallsBalance'
  BY <1>0, <1>1, <1>2, <1>3 DEF CountersBalance, CallsBalance, Numbered, SubmitFull, counters
<1>5. EntriesBalance'
  BY <1>0, <1>1, <1>2, <1>3 DEF CountersBalance, EntriesBalance, Numbered, SubmitFull, counters
<1>6. LogTypeOK'
  BY <1>0
  DEF LogTypeOK, SubmitFull, counters, caller, worker, control, CallerPC
<1>7. ControlInv'
  BY <1>0
  DEF SubmitFull, counters, caller, worker, control, LogTypeOK,
      ControlInv, LockExcludesSubmit, OneTeardown, TimerFollowsClose,
      ExitJustified, StoppedTimerMeansJoined, NoWorkerAfterShutdown,
      CountedIsDurable, PublishedIsDurable
<1>. QED  BY <1>4, <1>5, <1>6, <1>7 DEF LogIndInv, CountersBalance

\* The roll-back undoes the increment of a call still counted in.
LEMMA SubmitRollbackPreserves ==
  ASSUME LogIndInv, NEW c \in Callers, SubmitRollback(c)
  PROVE  LogIndInv'
<1>0. LogTypeOK /\ CountersBalance /\ ControlInv /\ Numbered
  BY Numbers DEF LogIndInv
<1>1. c \in Sending /\ Sending' = Sending \ {c}
  BY <1>0 DEF SubmitRollback, Sending, LogTypeOK
<1>2. Cardinality(Sending') = Cardinality(Sending) - 1
  BY <1>1, CountsAreNat, Leaves
<1>3. c \notin Metering /\ Metering' = Metering \cup {c}
  BY <1>0 DEF SubmitRollback, Metering, LogTypeOK
<1>4. Cardinality(Metering') = Cardinality(Metering) + 1
  BY <1>3, CountsAreNat, Enters
<1>5. Flying' = Flying
  BY WorkersUnmoved DEF SubmitRollback, worker
<1>6. Cardinality(Sending) # 0
  BY <1>1, FS_EmptySet, CountsAreNat
<1>7. submitted' \in Nat
  BY SMTT(60), <1>0, <1>6 DEF SubmitRollback, CountersBalance, EntriesBalance, Numbered
<1>8. CallsBalance'
  BY SMTT(60), <1>0, <1>2, <1>4, <1>5 DEF CountersBalance, CallsBalance, Numbered, SubmitRollback
<1>9. EntriesBalance'
  BY SMTT(60), <1>0, <1>2, <1>4, <1>5 DEF CountersBalance, EntriesBalance, Numbered, SubmitRollback
<1>10. LogTypeOK'
  BY <1>0, <1>7
  DEF LogTypeOK, SubmitRollback, counters, caller, worker, control, CallerPC
<1>11. ControlInv'
  BY <1>0
  DEF SubmitRollback, counters, caller, worker, control, LogTypeOK,
      ControlInv, LockExcludesSubmit, OneTeardown, TimerFollowsClose,
      ExitJustified, StoppedTimerMeansJoined, NoWorkerAfterShutdown,
      CountedIsDurable, PublishedIsDurable
<1>. QED  BY <1>8, <1>9, <1>10, <1>11 DEF LogIndInv, CountersBalance

\* Metering the drop completes the call.
LEMMA SubmitDroppedPreserves ==
  ASSUME LogIndInv, NEW c \in Callers, SubmitDropped(c)
  PROVE  LogIndInv'
<1>0. LogTypeOK /\ CountersBalance /\ ControlInv /\ Numbered
  BY Numbers DEF LogIndInv
<1>1. c \in Metering /\ Metering' = Metering \ {c}
  BY <1>0 DEF SubmitDropped, Metering, LogTypeOK
<1>2. Cardinality(Metering') = Cardinality(Metering) - 1
  BY <1>1, CountsAreNat, Leaves
<1>3. Sending' = Sending
  BY <1>0 DEF SubmitDropped, Sending, LogTypeOK
<1>4. Flying' = Flying
  BY WorkersUnmoved DEF SubmitDropped, worker
<1>5. CallsBalance'
  BY SMTT(60), <1>0, <1>2, <1>3, <1>4 DEF CountersBalance, CallsBalance, Numbered, SubmitDropped
<1>6. EntriesBalance'
  BY <1>0, <1>2, <1>3, <1>4 DEF CountersBalance, EntriesBalance, Numbered, SubmitDropped
<1>7. LogTypeOK'
  BY SMTT(60), <1>0
  DEF LogTypeOK, SubmitDropped, counters, caller, worker, control, CallerPC
<1>8. ControlInv'
  BY <1>0
  DEF SubmitDropped, counters, caller, worker, control, LogTypeOK,
      ControlInv, LockExcludesSubmit, OneTeardown, TimerFollowsClose,
      ExitJustified, StoppedTimerMeansJoined, NoWorkerAfterShutdown,
      CountedIsDurable, PublishedIsDurable
<1>. QED  BY <1>5, <1>6, <1>7, <1>8 DEF LogIndInv, CountersBalance

\* The quit check moves no entry.
LEMMA WorkerTopPreserves ==
  ASSUME LogIndInv, NEW w \in Workers, WorkerTop(w)
  PROVE  LogIndInv'
<1>0. LogTypeOK /\ CountersBalance /\ ControlInv /\ Numbered
  BY Numbers DEF LogIndInv
<1>1. Sending' = Sending /\ Metering' = Metering
  BY CallersUnmoved DEF WorkerTop, WorkerGoto, caller
<1>2. Flying' = Flying
  BY <1>0 DEF WorkerTop, WorkerGoto, Flying, LogTypeOK, InFlight
<1>3. CallsBalance'
  BY <1>0, <1>1, <1>2 DEF CountersBalance, CallsBalance, Numbered, WorkerTop, counters
<1>4. EntriesBalance'
  BY <1>0, <1>1, <1>2 DEF CountersBalance, EntriesBalance, Numbered, WorkerTop, counters
<1>5. LogTypeOK'
  BY <1>0
  DEF LogTypeOK, WorkerTop, WorkerGoto, counters, caller, worker, control, WorkerPC
<1>6. ControlInv'
  BY <1>0
  DEF WorkerTop, WorkerGoto, counters, caller, worker, control, LogTypeOK,
      ControlInv, LockExcludesSubmit, OneTeardown, TimerFollowsClose,
      ExitJustified, StoppedTimerMeansJoined, NoWorkerAfterShutdown,
      CountedIsDurable, PublishedIsDurable
<1>. QED  BY <1>3, <1>4, <1>5, <1>6 DEF LogIndInv, CountersBalance

\* A worker leaves on quit, or once the closed queue is drained.
LEMMA WorkerExitPreserves ==
  ASSUME LogIndInv, NEW w \in Workers, WorkerExit(w)
  PROVE  LogIndInv'
<1>0. LogTypeOK /\ CountersBalance /\ ControlInv /\ Numbered
  BY Numbers DEF LogIndInv
<1>1. Sending' = Sending /\ Metering' = Metering
  BY CallersUnmoved DEF WorkerExit, WorkerGoto, caller
<1>2. Flying' = Flying
  BY <1>0 DEF WorkerExit, WorkerGoto, Flying, LogTypeOK, InFlight
<1>3. CallsBalance'
  BY <1>0, <1>1, <1>2 DEF CountersBalance, CallsBalance, Numbered, WorkerExit, counters
<1>4. EntriesBalance'
  BY <1>0, <1>1, <1>2 DEF CountersBalance, EntriesBalance, Numbered, WorkerExit, counters
<1>5. LogTypeOK'
  BY <1>0
  DEF LogTypeOK, WorkerExit, WorkerGoto, counters, caller, worker, control, WorkerPC
<1>6. ControlInv'
  BY <1>0
  DEF WorkerExit, WorkerGoto, counters, caller, worker, control, LogTypeOK,
      ControlInv, LockExcludesSubmit, OneTeardown, TimerFollowsClose,
      ExitJustified, StoppedTimerMeansJoined, NoWorkerAfterShutdown,
      CountedIsDurable, PublishedIsDurable
<1>. QED  BY <1>3, <1>4, <1>5, <1>6 DEF LogIndInv, CountersBalance

\* Receiving moves one entry from the queue to the worker.
LEMMA WorkerTakePreserves ==
  ASSUME LogIndInv, NEW w \in Workers, WorkerTake(w)
  PROVE  LogIndInv'
<1>0. LogTypeOK /\ CountersBalance /\ ControlInv /\ Numbered
  BY Numbers DEF LogIndInv
<1>1. Sending' = Sending /\ Metering' = Metering
  BY CallersUnmoved DEF WorkerTake, WorkerGoto, caller
<1>2. w \notin Flying /\ Flying' = Flying \cup {w}
  BY <1>0 DEF WorkerTake, WorkerGoto, Flying, LogTypeOK, InFlight
<1>3. Cardinality(Flying') = Cardinality(Flying) + 1
  BY <1>2, CountsAreNat, Enters
<1>4. queue' \in Seq(Nat) /\ Head(queue) \in Nat /\ Len(queue') = Len(queue) - 1
  BY SMTT(60), <1>0 DEF WorkerTake, WorkerGoto, LogTypeOK
<1>5. Len(queue') <= QueueSize
  BY SMTT(60), <1>0, <1>4, LogWorkerAssumption DEF LogTypeOK
<1>6. CallsBalance'
  BY <1>0, <1>1, <1>3, <1>4 DEF CountersBalance, CallsBalance, Numbered, WorkerTake, counters
<1>7. EntriesBalance'
  BY SMTT(60), <1>0, <1>1, <1>3, <1>4 DEF CountersBalance, EntriesBalance, Numbered, WorkerTake, counters
<1>8. LogTypeOK'
  BY <1>0, <1>4, <1>5
  DEF LogTypeOK, WorkerTake, WorkerGoto, counters, caller, worker, control, WorkerPC
<1>9. ControlInv'
  BY <1>0
  DEF WorkerTake, WorkerGoto, counters, caller, worker, control, LogTypeOK,
      ControlInv, LockExcludesSubmit, OneTeardown, TimerFollowsClose,
      ExitJustified, StoppedTimerMeansJoined, NoWorkerAfterShutdown,
      CountedIsDurable, PublishedIsDurable
<1>. QED  BY <1>6, <1>7, <1>8, <1>9 DEF LogIndInv, CountersBalance

\* A durable row is not counted yet.
LEMMA WorkerLoggedPreserves ==
  ASSUME LogIndInv, NEW w \in Workers, WorkerLogged(w)
  PROVE  LogIndInv'
<1>0. LogTypeOK /\ CountersBalance /\ ControlInv /\ Numbered
  BY Numbers DEF LogIndInv
<1>1. Sending' = Sending /\ Metering' = Metering
  BY CallersUnmoved DEF WorkerLogged, WorkerGoto, caller
<1>2. Flying' = Flying
  BY <1>0 DEF WorkerLogged, WorkerGoto, Flying, LogTypeOK, InFlight
<1>3. CallsBalance'
  BY <1>0, <1>1, <1>2 DEF CountersBalance, CallsBalance, Numbered, WorkerLogged, counters
<1>4. EntriesBalance'
  BY <1>0, <1>1, <1>2 DEF CountersBalance, EntriesBalance, Numbered, WorkerLogged, counters
<1>5. LogTypeOK'
  BY <1>0
  DEF LogTypeOK, WorkerLogged, WorkerGoto, counters, caller, worker, control, WorkerPC
<1>6. ControlInv'
  BY <1>0
  DEF WorkerLogged, WorkerGoto, counters, caller, worker, control, LogTypeOK,
      ControlInv, LockExcludesSubmit, OneTeardown, TimerFollowsClose,
      ExitJustified, StoppedTimerMeansJoined, NoWorkerAfterShutdown,
      CountedIsDurable, PublishedIsDurable
<1>. QED  BY <1>3, <1>4, <1>5, <1>6 DEF LogIndInv, CountersBalance

\* A failed write is counted once.
LEMMA WorkerFailedPreserves ==
  ASSUME LogIndInv, NEW w \in Workers, WorkerFailed(w)
  PROVE  LogIndInv'
<1>0. LogTypeOK /\ CountersBalance /\ ControlInv /\ Numbered
  BY Numbers DEF LogIndInv
<1>1. Sending' = Sending /\ Metering' = Metering
  BY CallersUnmoved DEF WorkerFailed, WorkerGoto, caller
<1>2. w \in Flying /\ Flying' = Flying \ {w}
  BY <1>0 DEF WorkerFailed, WorkerGoto, Flying, LogTypeOK, InFlight
<1>3. Cardinality(Flying') = Cardinality(Flying) - 1
  BY <1>2, CountsAreNat, Leaves
<1>4. held[w] \in Nat /\ rows \subseteq Nat
  BY <1>0 DEF LogTypeOK
<1>5. rows' = rows \/ rows' = rows \cup {held[w]}
  BY DEF WorkerFailed, WorkerGoto
<1>6. rows' \subseteq Nat
  BY <1>4, <1>5
<1>7. CallsBalance'
  BY <1>0, <1>1, <1>3 DEF CountersBalance, CallsBalance, Numbered, WorkerFailed
<1>8. EntriesBalance'
  BY SMTT(60), <1>0, <1>1, <1>3 DEF CountersBalance, EntriesBalance, Numbered, WorkerFailed
<1>9. LogTypeOK'
  BY SMTT(60), <1>0, <1>6
  DEF LogTypeOK, WorkerFailed, WorkerGoto, counters, caller, worker, control, WorkerPC
<1>10. ControlInv'
  BY <1>0
  DEF WorkerFailed, WorkerGoto, counters, caller, worker, control, LogTypeOK,
      ControlInv, LockExcludesSubmit, OneTeardown, TimerFollowsClose,
      ExitJustified, StoppedTimerMeansJoined, NoWorkerAfterShutdown,
      CountedIsDurable, PublishedIsDurable
<1>. QED  BY <1>7, <1>8, <1>9, <1>10 DEF LogIndInv, CountersBalance

\* A durable write is counted once.
LEMMA WorkerCountPreserves ==
  ASSUME LogIndInv, NEW w \in Workers, WorkerCount(w)
  PROVE  LogIndInv'
<1>0. LogTypeOK /\ CountersBalance /\ ControlInv /\ Numbered
  BY Numbers DEF LogIndInv
<1>1. Sending' = Sending /\ Metering' = Metering
  BY CallersUnmoved DEF WorkerCount, WorkerGoto, caller
<1>2. w \in Flying /\ Flying' = Flying \ {w}
  BY <1>0 DEF WorkerCount, WorkerGoto, Flying, LogTypeOK, InFlight
<1>3. Cardinality(Flying') = Cardinality(Flying) - 1
  BY <1>2, CountsAreNat, Leaves
<1>4. CallsBalance'
  BY <1>0, <1>1, <1>3 DEF CountersBalance, CallsBalance, Numbered, WorkerCount
<1>5. EntriesBalance'
  BY SMTT(60), <1>0, <1>1, <1>3 DEF CountersBalance, EntriesBalance, Numbered, WorkerCount
<1>6. LogTypeOK'
  BY SMTT(60), <1>0
  DEF LogTypeOK, WorkerCount, WorkerGoto, counters, caller, worker, control, WorkerPC
<1>7. ControlInv'
  BY <1>0
  DEF WorkerCount, WorkerGoto, counters, caller, worker, control, LogTypeOK,
      ControlInv, LockExcludesSubmit, OneTeardown, TimerFollowsClose,
      ExitJustified, StoppedTimerMeansJoined, NoWorkerAfterShutdown,
      CountedIsDurable, PublishedIsDurable
<1>. QED  BY <1>4, <1>5, <1>6, <1>7 DEF LogIndInv, CountersBalance

\* Publishing is of the durable row just counted.
LEMMA WorkerPublishPreserves ==
  ASSUME LogIndInv, NEW w \in Workers, WorkerPublish(w)
  PROVE  LogIndInv'
<1>0. LogTypeOK /\ CountersBalance /\ ControlInv /\ Numbered
  BY Numbers DEF LogIndInv
<1>1. Sending' = Sending /\ Metering' = Metering
  BY CallersUnmoved DEF WorkerPublish, WorkerGoto, caller
<1>2. Flying' = Flying
  BY <1>0 DEF WorkerPublish, WorkerGoto, Flying, LogTypeOK, InFlight
<1>3. CallsBalance'
  BY <1>0, <1>1, <1>2 DEF CountersBalance, CallsBalance, Numbered, WorkerPublish, counters
<1>4. EntriesBalance'
  BY <1>0, <1>1, <1>2 DEF CountersBalance, EntriesBalance, Numbered, WorkerPublish, counters
<1>5. LogTypeOK'
  BY <1>0
  DEF LogTypeOK, WorkerPublish, WorkerGoto, counters, caller, worker, control, WorkerPC
<1>6. ControlInv'
  BY <1>0
  DEF WorkerPublish, WorkerGoto, counters, caller, worker, control, LogTypeOK,
      ControlInv, LockExcludesSubmit, OneTeardown, TimerFollowsClose,
      ExitJustified, StoppedTimerMeansJoined, NoWorkerAfterShutdown,
      CountedIsDurable, PublishedIsDurable
<1>. QED  BY <1>3, <1>4, <1>5, <1>6 DEF LogIndInv, CountersBalance

\* Only one Shutdown reaches the lock.
LEMMA ShutdownLockPreserves ==
  ASSUME LogIndInv, NEW s \in Stoppers, ShutdownLock(s)
  PROVE  LogIndInv'
<1>0. LogTypeOK /\ CountersBalance /\ ControlInv /\ Numbered
  BY Numbers DEF LogIndInv
<1>1. Sending' = Sending /\ Metering' = Metering /\ Flying' = Flying
  BY CallersUnmoved, WorkersUnmoved DEF ShutdownLock, StopperGoto, caller, worker
<1>2. CallsBalance'
  BY <1>0, <1>1 DEF CountersBalance, CallsBalance, Numbered, ShutdownLock, counters
<1>3. EntriesBalance'
  BY <1>0, <1>1 DEF CountersBalance, EntriesBalance, Numbered, ShutdownLock, counters
<1>4. LogTypeOK'
  BY <1>0
  DEF LogTypeOK, ShutdownLock, StopperGoto, counters, caller, worker, control, StopperPC
<1>5. ControlInv'
  BY <1>0
  DEF ShutdownLock, StopperGoto, counters, caller, worker, control, LogTypeOK, InSubmit, LockPending,
      ControlInv, LockExcludesSubmit, OneTeardown, TimerFollowsClose,
      ExitJustified, StoppedTimerMeansJoined, NoWorkerAfterShutdown,
      CountedIsDurable, PublishedIsDurable
<1>. QED  BY <1>2, <1>3, <1>4, <1>5 DEF LogIndInv, CountersBalance

\* The queue is closed with no Submit inside.
LEMMA ShutdownClosePreserves ==
  ASSUME LogIndInv, NEW s \in Stoppers, ShutdownClose(s)
  PROVE  LogIndInv'
<1>0. LogTypeOK /\ CountersBalance /\ ControlInv /\ Numbered
  BY Numbers DEF LogIndInv
<1>1. Sending' = Sending /\ Metering' = Metering /\ Flying' = Flying
  BY CallersUnmoved, WorkersUnmoved DEF ShutdownClose, StopperGoto, caller, worker
<1>2. CallsBalance'
  BY <1>0, <1>1 DEF CountersBalance, CallsBalance, Numbered, ShutdownClose, counters
<1>3. EntriesBalance'
  BY <1>0, <1>1 DEF CountersBalance, EntriesBalance, Numbered, ShutdownClose, counters
<1>4. LogTypeOK'
  BY <1>0
  DEF LogTypeOK, ShutdownClose, StopperGoto, counters, caller, worker, control, StopperPC
<1>5. ControlInv'
  BY <1>0
  DEF ShutdownClose, StopperGoto, counters, caller, worker, control, LogTypeOK, InSubmit, LockPending,
      ControlInv, LockExcludesSubmit, OneTeardown, TimerFollowsClose,
      ExitJustified, StoppedTimerMeansJoined, NoWorkerAfterShutdown,
      CountedIsDurable, PublishedIsDurable
<1>. QED  BY <1>2, <1>3, <1>4, <1>5 DEF LogIndInv, CountersBalance

\* A later Shutdown only waits.
LEMMA ShutdownJoinPreserves ==
  ASSUME LogIndInv, NEW s \in Stoppers, ShutdownJoin(s)
  PROVE  LogIndInv'
<1>0. LogTypeOK /\ CountersBalance /\ ControlInv /\ Numbered
  BY Numbers DEF LogIndInv
<1>1. Sending' = Sending /\ Metering' = Metering /\ Flying' = Flying
  BY CallersUnmoved, WorkersUnmoved DEF ShutdownJoin, StopperGoto, caller, worker
<1>2. CallsBalance'
  BY <1>0, <1>1 DEF CountersBalance, CallsBalance, Numbered, ShutdownJoin, counters
<1>3. EntriesBalance'
  BY <1>0, <1>1 DEF CountersBalance, EntriesBalance, Numbered, ShutdownJoin, counters
<1>4. LogTypeOK'
  BY <1>0
  DEF LogTypeOK, ShutdownJoin, StopperGoto, counters, caller, worker, control, StopperPC
<1>5. ControlInv'
  BY <1>0
  DEF ShutdownJoin, StopperGoto, counters, caller, worker, control, LogTypeOK,
      ControlInv, LockExcludesSubmit, OneTeardown, TimerFollowsClose,
      ExitJustified, StoppedTimerMeansJoined, NoWorkerAfterShutdown,
      CountedIsDurable, PublishedIsDurable
<1>. QED  BY <1>2, <1>3, <1>4, <1>5 DEF LogIndInv, CountersBalance

\* Shutdown returns with every worker gone.
LEMMA ShutdownReturnPreserves ==
  ASSUME LogIndInv, NEW s \in Stoppers, ShutdownReturn(s)
  PROVE  LogIndInv'
<1>0. LogTypeOK /\ CountersBalance /\ ControlInv /\ Numbered
  BY Numbers DEF LogIndInv
<1>1. Sending' = Sending /\ Metering' = Metering /\ Flying' = Flying
  BY CallersUnmoved, WorkersUnmoved DEF ShutdownReturn, StopperGoto, caller, worker
<1>2. CallsBalance'
  BY <1>0, <1>1 DEF CountersBalance, CallsBalance, Numbered, ShutdownReturn, counters
<1>3. EntriesBalance'
  BY <1>0, <1>1 DEF CountersBalance, EntriesBalance, Numbered, ShutdownReturn, counters
<1>4. LogTypeOK'
  BY <1>0
  DEF LogTypeOK, ShutdownReturn, StopperGoto, counters, caller, worker, control, StopperPC
<1>5. ControlInv'
  BY <1>0
  DEF ShutdownReturn, StopperGoto, counters, caller, worker, control, LogTypeOK,
      ControlInv, LockExcludesSubmit, OneTeardown, TimerFollowsClose,
      ExitJustified, StoppedTimerMeansJoined, NoWorkerAfterShutdown,
      CountedIsDurable, PublishedIsDurable
<1>. QED  BY <1>2, <1>3, <1>4, <1>5 DEF LogIndInv, CountersBalance

\* The deadline cancels the context first.
LEMMA DeadlineCancelPreserves ==
  ASSUME LogIndInv, DeadlineCancel
  PROVE  LogIndInv'
<1>0. LogTypeOK /\ CountersBalance /\ ControlInv /\ Numbered
  BY Numbers DEF LogIndInv
<1>1. Sending' = Sending /\ Metering' = Metering /\ Flying' = Flying
  BY CallersUnmoved, WorkersUnmoved DEF DeadlineCancel, caller, worker
<1>2. CallsBalance'
  BY <1>0, <1>1 DEF CountersBalance, CallsBalance, Numbered, DeadlineCancel, counters
<1>3. EntriesBalance'
  BY <1>0, <1>1 DEF CountersBalance, EntriesBalance, Numbered, DeadlineCancel, counters
<1>4. LogTypeOK'
  BY <1>0
  DEF LogTypeOK, DeadlineCancel, counters, caller, worker, control
<1>5. ControlInv'
  BY <1>0
  DEF DeadlineCancel, counters, caller, worker, control, LogTypeOK,
      ControlInv, LockExcludesSubmit, OneTeardown, TimerFollowsClose,
      ExitJustified, StoppedTimerMeansJoined, NoWorkerAfterShutdown,
      CountedIsDurable, PublishedIsDurable
<1>. QED  BY <1>2, <1>3, <1>4, <1>5 DEF LogIndInv, CountersBalance

\* The deadline then closes quit.
LEMMA DeadlineQuitPreserves ==
  ASSUME LogIndInv, DeadlineQuit
  PROVE  LogIndInv'
<1>0. LogTypeOK /\ CountersBalance /\ ControlInv /\ Numbered
  BY Numbers DEF LogIndInv
<1>1. Sending' = Sending /\ Metering' = Metering /\ Flying' = Flying
  BY CallersUnmoved, WorkersUnmoved DEF DeadlineQuit, caller, worker
<1>2. CallsBalance'
  BY <1>0, <1>1 DEF CountersBalance, CallsBalance, Numbered, DeadlineQuit, counters
<1>3. EntriesBalance'
  BY <1>0, <1>1 DEF CountersBalance, EntriesBalance, Numbered, DeadlineQuit, counters
<1>4. LogTypeOK'
  BY <1>0
  DEF LogTypeOK, DeadlineQuit, counters, caller, worker, control
<1>5. ControlInv'
  BY <1>0
  DEF DeadlineQuit, counters, caller, worker, control, LogTypeOK,
      ControlInv, LockExcludesSubmit, OneTeardown, TimerFollowsClose,
      ExitJustified, StoppedTimerMeansJoined, NoWorkerAfterShutdown,
      CountedIsDurable, PublishedIsDurable
<1>. QED  BY <1>2, <1>3, <1>4, <1>5 DEF LogIndInv, CountersBalance

-----------------------------------------------------------------------------
\* The invariant is inductive: every step of the system keeps it.
LEMMA NextLogIndInv == LogIndInv /\ [LogNext]_logVars => LogIndInv'
<1>. SUFFICES ASSUME LogIndInv, [LogNext]_logVars PROVE LogIndInv'
  OBVIOUS
<1>1. ASSUME NEW c \in Callers,
             SubmitStopped(c) \/ SubmitBegin(c) \/ SubmitReturns(c)
      PROVE  LogIndInv'
  BY <1>1, SubmitStoppedPreserves, SubmitBeginPreserves, SubmitSendPreserves,
     SubmitFullPreserves, SubmitRollbackPreserves, SubmitDroppedPreserves
  DEF SubmitReturns
<1>2. ASSUME NEW w \in Workers, WorkerStep(w) PROVE LogIndInv'
  BY <1>2, WorkerTopPreserves, WorkerExitPreserves, WorkerTakePreserves,
     WorkerLoggedPreserves, WorkerFailedPreserves, WorkerCountPreserves,
     WorkerPublishPreserves
  DEF WorkerStep
<1>3. ASSUME NEW s \in Stoppers,
             \/ ShutdownLock(s) \/ ShutdownClose(s)
             \/ ShutdownJoin(s) \/ ShutdownReturn(s)
      PROVE  LogIndInv'
  BY <1>3, ShutdownLockPreserves, ShutdownClosePreserves,
     ShutdownJoinPreserves, ShutdownReturnPreserves
<1>4. CASE DeadlineCancel \/ DeadlineQuit
  BY <1>4, DeadlineCancelPreserves, DeadlineQuitPreserves
<1>5. CASE UNCHANGED logVars
  <2>1. Sending' = Sending /\ Metering' = Metering /\ Flying' = Flying
    BY <1>5, CallersUnmoved, WorkersUnmoved DEF logVars, caller, worker
  <2>2. CountersBalance'
    BY <1>5, <2>1 DEF LogIndInv, CountersBalance, CallsBalance, EntriesBalance, logVars, counters
  <2>. QED
    BY <1>5, <2>2
    DEF LogIndInv, logVars, counters, caller, worker, control, LogTypeOK, ControlInv,
        LockExcludesSubmit, OneTeardown, TimerFollowsClose, ExitJustified,
        StoppedTimerMeansJoined, NoWorkerAfterShutdown, CountedIsDurable,
        PublishedIsDurable
<1>. QED  BY <1>1, <1>2, <1>3, <1>4, <1>5 DEF LogNext

\* The inductive invariant holds of every reachable state of the log worker.
THEOREM Invariance == LogSpec => []LogIndInv
BY InitLogIndInv, NextLogIndInv, PTL DEF LogSpec

\* Type correctness of the log worker's state, for every instance.
THEOREM TypeCorrect == LogSpec => []LogTypeOK
<1>1. LogIndInv => LogTypeOK
  BY DEF LogIndInv
<1>. QED  BY <1>1, Invariance, PTL

\* Submit's documented counter invariants hold at every instant.
THEOREM CountersAlwaysBalance == LogSpec => []CountersBalance
<1>1. LogIndInv => CountersBalance
  BY DEF LogIndInv
<1>. QED  BY <1>1, Invariance, PTL

\* Written + Failed never exceeds Submitted.
THEOREM NeverOvercounted == LogSpec => []WrittenWithinSubmitted
<1>1. LogIndInv => WrittenWithinSubmitted
  BY SMTT(60), Numbers
  DEF LogIndInv, CountersBalance, EntriesBalance, Numbered, WrittenWithinSubmitted
<1>. QED  BY <1>1, Invariance, PTL

\* Submit never sends on a queue Shutdown has closed.
THEOREM NeverSendsOnClosedQueue == LogSpec => []NoSendOnClosedQueue
<1>1. LogIndInv => NoSendOnClosedQueue
  BY DEF LogIndInv, ControlInv, LockExcludesSubmit, NoSendOnClosedQueue
<1>. QED  BY <1>1, Invariance, PTL

\* When a Shutdown call has returned, every worker goroutine has exited.
THEOREM ShutdownJoinsWorkers == LogSpec => []NoWorkerAfterShutdown
<1>1. LogIndInv => NoWorkerAfterShutdown
  BY DEF LogIndInv, ControlInv
<1>. QED  BY <1>1, Invariance, PTL

\* The live feed only carries rows of the store.
THEOREM OnlyDurableRowsPublished == LogSpec => []PublishedIsDurable
<1>1. LogIndInv => PublishedIsDurable
  BY DEF LogIndInv, ControlInv
<1>. QED  BY <1>1, Invariance, PTL

\* A stopped timer means a drained queue, nothing in flight and no call between
\* its counter updates.
LEMMA CleanDrain ==
  ASSUME LogIndInv, timer = "stopped"
  PROVE  queue = << >> /\ submitted = written + failed /\ attempts = written + failed + dropped
<1>0. LogTypeOK /\ CountersBalance /\ ControlInv /\ Numbered
  BY Numbers DEF LogIndInv
<1>1. stopped /\ ~quit /\ \A w \in Workers : wpc[w] = "exited"
  BY <1>0 DEF ControlInv, TimerFollowsClose, StoppedTimerMeansJoined, LogTypeOK
<1>2. queue = << >>
  BY <1>0, <1>1, LogWorkerAssumption DEF ControlInv, ExitJustified
<1>3. Flying = {} /\ Sending = {} /\ Metering = {}
  BY <1>0, <1>1 DEF ControlInv, LockExcludesSubmit, Flying, InFlight, Sending, Metering
<1>4. /\ Cardinality(Flying) = 0 /\ Cardinality(Sending) = 0 /\ Cardinality(Metering) = 0
      /\ Len(queue) = 0
  BY <1>2, <1>3, FS_EmptySet
<1>5. submitted = written + failed
  BY SMTT(60), <1>0, <1>4 DEF CountersBalance, EntriesBalance, Numbered
<1>6. attempts = written + failed + dropped
  BY SMTT(60), <1>0, <1>4, <1>5 DEF CountersBalance, CallsBalance, Numbered
<1> QED  BY <1>2, <1>5, <1>6

\* A Shutdown that beat its deadline drained the queue, and every accepted
\* entry was written or failed.
THEOREM CleanShutdownLosesNothing == LogSpec => []CleanShutdownDrains
<1>1. LogIndInv => CleanShutdownDrains
  BY CleanDrain DEF CleanShutdownDrains
<1>. QED  BY <1>1, Invariance, PTL

\* What Shutdown promises its caller: nothing is sent on the closed queue, no
\* worker survives the call, and a clean one loses no accepted entry.
THEOREM ShutdownAlwaysSafe == LogSpec => []ShutdownSafe
<1>1. NoSendOnClosedQueue /\ NoWorkerAfterShutdown /\ CleanShutdownDrains => ShutdownSafe
  BY DEF ShutdownSafe
<1>. QED
  BY <1>1, NeverSendsOnClosedQueue, ShutdownJoinsWorkers, CleanShutdownLosesNothing, PTL

-----------------------------------------------------------------------------
(* The entries.                                                             *)

\* A worker between taking an entry and handing it to the feed.
Carrying(w) == wpc[w] \in {"log", "aborted", "count", "publish"}

\* What is being sent, queued or carried was submitted and not yet published.
EntriesPending ==
  /\ attempts <= MaxAttempts
  /\ published \subseteq 1..attempts
  /\ \A c \in Callers : cpc[c] = "sending" => entry[c] \in (1..attempts) \ published
  /\ \A i \in 1..Len(queue) : queue[i] \in (1..attempts) \ published
  /\ \A w \in Workers : Carrying(w) => held[w] \in (1..attempts) \ published

\* No entry is in two places.
EntriesApart ==
  /\ \A c, d \in Callers : cpc[c] = "sending" /\ cpc[d] = "sending" /\ c # d => entry[c] # entry[d]
  /\ \A i, j \in 1..Len(queue) : i # j => queue[i] # queue[j]
  /\ \A w, v \in Workers : Carrying(w) /\ Carrying(v) /\ w # v => held[w] # held[v]
  /\ \A c \in Callers, i \in 1..Len(queue) : cpc[c] = "sending" => queue[i] # entry[c]
  /\ \A c \in Callers, w \in Workers : cpc[c] = "sending" /\ Carrying(w) => held[w] # entry[c]
  /\ \A w \in Workers, i \in 1..Len(queue) : Carrying(w) => queue[i] # held[w]

EntryOnce == EntriesPending /\ EntriesApart

\* A Submit call brings an entry of its own, and the send moves it to the queue.
LEMMA CallerEntryOnce ==
  ASSUME LogTypeOK, EntryOnce, NEW c \in Callers,
         SubmitStopped(c) \/ SubmitBegin(c) \/ SubmitReturns(c)
  PROVE  EntryOnce'
<1>0. attempts \in Nat /\ MaxAttempts \in Nat /\ queue \in Seq(Nat) /\ entry[c] \in Nat
  BY LogWorkerAssumption DEF LogTypeOK
<1>1. CASE SubmitStopped(c)
  BY SMTT(60), <1>0, <1>1 DEF SubmitStopped, caller, worker, EntryOnce, EntriesPending, EntriesApart, Carrying
<1>2. CASE SubmitBegin(c)
  <2>1. /\ UNCHANGED <<queue, wpc, held, published>>
        /\ attempts' = attempts + 1 /\ attempts < MaxAttempts
        /\ cpc' = [cpc EXCEPT ![c] = "sending"] /\ entry' = [entry EXCEPT ![c] = attempts + 1]
    BY <1>2 DEF SubmitBegin, worker
  <2>2. EntriesPending'
    BY SMTT(60), <1>0, <2>1 DEF EntryOnce, EntriesPending, Carrying, LogTypeOK
  <2>3. EntriesApart'
    BY SMTT(60), <1>0, <2>1 DEF EntryOnce, EntriesPending, EntriesApart, Carrying, LogTypeOK
  <2> QED  BY <2>2, <2>3 DEF EntryOnce
<1>3. CASE SubmitSend(c)
  <2>1. /\ UNCHANGED <<attempts, wpc, held, entry, published>>
        /\ cpc[c] = "sending" /\ cpc' = [cpc EXCEPT ![c] = "idle"]
        /\ queue' = Append(queue, entry[c])
    BY <1>3 DEF SubmitSend, worker, counters
  <2>2. /\ Len(queue') = Len(queue) + 1 /\ Len(queue) \in Nat
        /\ \A i \in 1..Len(queue) : queue'[i] = queue[i]
        /\ queue'[Len(queue) + 1] = entry[c]
    BY SMTT(60), <1>0, <2>1
  <2>3. \A i \in 1..Len(queue') : i \in 1..Len(queue) \/ i = Len(queue) + 1
    BY SMTT(60), <2>2
  <2>4. EntriesPending'
    BY <2>1, <2>2, <2>3 DEF EntryOnce, EntriesPending, Carrying, LogTypeOK
  <2>5. EntriesApart'
    <3>1. \A i, j \in 1..Len(queue') : i # j => queue'[i] # queue'[j]
      BY SMTT(60), <2>1, <2>2, <2>3 DEF EntryOnce, EntriesApart
    <3>2. \A d \in Callers, i \in 1..Len(queue') : cpc'[d] = "sending" => queue'[i] # entry'[d]
      BY SMTT(60), <2>1, <2>2, <2>3 DEF EntryOnce, EntriesApart, LogTypeOK
    <3>3. \A w \in Workers, i \in 1..Len(queue') : Carrying(w)' => queue'[i] # held'[w]
      BY SMTT(60), <2>1, <2>2, <2>3 DEF EntryOnce, EntriesApart, Carrying
    <3> QED  BY <2>1, <3>1, <3>2, <3>3 DEF EntryOnce, EntriesApart, Carrying, LogTypeOK
  <2> QED  BY <2>4, <2>5 DEF EntryOnce
<1>4. CASE SubmitFull(c) \/ SubmitRollback(c) \/ SubmitDropped(c)
  <2>1. /\ UNCHANGED <<attempts, queue, wpc, held, entry, published>>
        /\ \A d \in Callers : cpc'[d] = "sending" => cpc[d] = "sending"
    BY <1>4 DEF SubmitFull, SubmitRollback, SubmitDropped, worker, counters, LogTypeOK
  <2> QED  BY <2>1 DEF EntryOnce, EntriesPending, EntriesApart, Carrying
<1> QED  BY <1>1, <1>2, <1>3, <1>4 DEF SubmitReturns

\* A worker takes the entry at the head, and publishes what it took.
LEMMA WorkerEntryOnce ==
  ASSUME LogTypeOK, EntryOnce, NEW w \in Workers, WorkerStep(w)
  PROVE  EntryOnce'
<1>0. queue \in Seq(Nat) /\ Len(queue) \in Nat
  BY SMTT(60) DEF LogTypeOK
<1>1. CASE WorkerTake(w)
  <2>1. /\ UNCHANGED <<attempts, cpc, entry, published>>
        /\ queue # << >> /\ queue' = Tail(queue)
        /\ held' = [held EXCEPT ![w] = Head(queue)]
        /\ ~Carrying(w)
    BY <1>1 DEF WorkerTake, caller, counters, Carrying
  <2>2. \A v \in Workers : v # w => (Carrying(v)' <=> Carrying(v)) /\ held'[v] = held[v]
    BY <1>1, <2>1 DEF WorkerTake, WorkerGoto, Carrying, LogTypeOK
  <2>3. held'[w] = queue[1] /\ 1 \in 1..Len(queue)
    BY SMTT(60), <1>0, <2>1 DEF LogTypeOK
  <2>4. /\ Len(queue') = Len(queue) - 1
        /\ \A i \in 1..Len(queue') : queue'[i] = queue[i + 1] /\ i + 1 \in 1..Len(queue) /\ i + 1 # 1
    BY SMTT(60), <1>0, <2>1
  <2>5. EntriesPending'
    BY <2>1, <2>2, <2>3, <2>4 DEF EntryOnce, EntriesPending
  <2>6. EntriesApart'
    <3>1. \A i, j \in 1..Len(queue') : i # j => queue'[i] # queue'[j]
      <4> SUFFICES ASSUME NEW i \in 1..Len(queue'), NEW j \in 1..Len(queue'), i # j
                   PROVE  queue'[i] # queue'[j]
        OBVIOUS
      <4>1. i + 1 # j + 1
        BY SMTT(60), <1>0, <2>4
      <4>2. /\ queue'[i] = queue[i + 1] /\ i + 1 \in 1..Len(queue)
            /\ queue'[j] = queue[j + 1] /\ j + 1 \in 1..Len(queue)
        BY <2>4
      <4> QED  BY <4>1, <4>2 DEF EntryOnce, EntriesApart
    <3>2. \A d \in Callers, i \in 1..Len(queue') : cpc'[d] = "sending" => queue'[i] # entry'[d]
      BY SMTT(60), <2>1, <2>4 DEF EntryOnce, EntriesApart
    <3>3. \A v \in Workers, i \in 1..Len(queue') : Carrying(v)' => queue'[i] # held'[v]
      BY SMTT(60), <2>1, <2>2, <2>3, <2>4 DEF EntryOnce, EntriesApart
    <3>4. \A v, u \in Workers : Carrying(v)' /\ Carrying(u)' /\ v # u => held'[v] # held'[u]
      BY SMTT(60), <2>2, <2>3 DEF EntryOnce, EntriesApart
    <3>5. \A d \in Callers, v \in Workers : cpc'[d] = "sending" /\ Carrying(v)' => held'[v] # entry'[d]
      BY SMTT(60), <2>1, <2>2, <2>3 DEF EntryOnce, EntriesApart
    <3> QED  BY <2>1, <3>1, <3>2, <3>3, <3>4, <3>5 DEF EntryOnce, EntriesApart
  <2> QED  BY <2>5, <2>6 DEF EntryOnce
<1>2. CASE WorkerPublish(w)
  <2>1. /\ UNCHANGED <<attempts, cpc, entry, queue, held>>
        /\ published' = published \cup {held[w]}
        /\ Carrying(w) /\ ~Carrying(w)'
    BY <1>2 DEF WorkerPublish, WorkerGoto, caller, counters, Carrying, LogTypeOK
  <2>2. \A v \in Workers : v # w => (Carrying(v)' <=> Carrying(v))
    BY <1>2 DEF WorkerPublish, WorkerGoto, Carrying, LogTypeOK
  <2>3. EntriesPending'
    BY <2>1, <2>2 DEF EntryOnce, EntriesPending, EntriesApart
  <2>4. EntriesApart'
    BY <2>1, <2>2 DEF EntryOnce, EntriesApart
  <2> QED  BY <2>3, <2>4 DEF EntryOnce
<1>3. CASE WorkerTop(w) \/ WorkerExit(w) \/ WorkerLogged(w) \/ WorkerFailed(w) \/ WorkerCount(w)
  <2>1. /\ UNCHANGED <<attempts, cpc, entry, queue, held, published>>
        /\ \A v \in Workers : Carrying(v)' => Carrying(v)
    BY <1>3 DEF WorkerTop, WorkerExit, WorkerLogged, WorkerFailed, WorkerCount, WorkerGoto, caller,
                counters, Carrying, LogTypeOK
  <2> QED  BY <2>1 DEF EntryOnce, EntriesPending, EntriesApart
<1> QED  BY <1>1, <1>2, <1>3 DEF WorkerStep

\* Every step keeps each entry in one place.
LEMMA NextEntryOnce == ASSUME LogTypeOK, EntryOnce, [LogNext]_logVars PROVE EntryOnce'
<1>1. ASSUME UNCHANGED <<attempts, cpc, entry, queue, wpc, held, published>> PROVE EntryOnce'
  BY <1>1 DEF EntryOnce, EntriesPending, EntriesApart, Carrying
<1>2. ASSUME NEW s \in Stoppers,
             ShutdownLock(s) \/ ShutdownClose(s) \/ ShutdownJoin(s) \/ ShutdownReturn(s)
      PROVE  EntryOnce'
  BY <1>1, <1>2 DEF ShutdownLock, ShutdownClose, ShutdownJoin, ShutdownReturn, counters, caller, worker
<1>3. CASE DeadlineCancel \/ DeadlineQuit
  BY <1>1, <1>3 DEF DeadlineCancel, DeadlineQuit, counters, caller, worker
<1>4. CASE UNCHANGED logVars
  BY <1>1, <1>4 DEF logVars, counters, caller, worker
<1> QED  BY <1>2, <1>3, <1>4, CallerEntryOnce, WorkerEntryOnce DEF LogNext

\* An entry is at most once in the hands of a Submit call, in the queue or with a
\* worker, and never again once the feed has it: no row is published twice.
THEOREM EntriesHandledOnce == LogSpec => []EntryOnce
<1>1. LogInit => EntryOnce
  <2> SUFFICES ASSUME LogInit PROVE EntryOnce
    OBVIOUS
  <2>1. attempts = 0 /\ Len(queue) = 0 /\ published = {}
    BY DEF LogInit
  <2>2. attempts <= MaxAttempts
    BY SMTT(60), <2>1, LogWorkerAssumption
  <2>3. \A i : i \notin 1..Len(queue)
    BY SMTT(60), <2>1
  <2>4. \A c \in Callers : cpc[c] # "sending"
    BY DEF LogInit
  <2>5. \A w \in Workers : ~Carrying(w)
    BY DEF LogInit, Carrying
  <2>6. published \subseteq 1..attempts
    BY <2>1
  <2>7. EntriesPending
    BY <2>2, <2>3, <2>4, <2>5, <2>6 DEF EntriesPending
  <2>8. EntriesApart
    BY <2>3, <2>4, <2>5 DEF EntriesApart
  <2> QED  BY <2>7, <2>8 DEF EntryOnce
<1>2. LogTypeOK /\ EntryOnce /\ [LogNext]_logVars => EntryOnce'
  BY NextEntryOnce
<1> QED  BY <1>1, <1>2, TypeCorrect, PTL DEF LogSpec

-----------------------------------------------------------------------------
(* The reader of the counters.                                              *)

\* Some Shutdown call has returned.
Returned == \E s \in Stoppers : spc[s] = "returned"

\* The type of a snapshot.
SnapType ==
  /\ loaded \in 0..4
  /\ snap \in [{"submitted", "written", "dropped", "failed"} -> Nat]
  /\ settled \in BOOLEAN

\* A snapshot begun after a Shutdown returned: what it has loaded still stands.
SnapCurrent ==
  settled => /\ Returned
             /\ loaded >= 1 /\ snap["submitted"] = submitted
             /\ loaded >= 2 => snap["written"] = written
             /\ loaded >= 4 => snap["failed"] = failed

SnapInv == LogIndInv /\ SnapType /\ SnapCurrent

\* After a Shutdown returned no Submit is under way and no worker runs, so what
\* was submitted is written, failed or still queued ...
LEMMA QuietBalance ==
  ASSUME LogIndInv, Returned
  PROVE  /\ stopped
         /\ \A c \in Callers : cpc[c] = "idle"
         /\ \A w \in Workers : wpc[w] = "exited"
         /\ submitted = written + failed + Len(queue)
<1>1. stopped
  BY DEF LogIndInv, ControlInv, TimerFollowsClose, Returned
<1>2. \A c \in Callers : cpc[c] = "idle"
  BY <1>1 DEF LogIndInv, ControlInv, LockExcludesSubmit
<1>3. \A w \in Workers : wpc[w] = "exited"
  BY DEF LogIndInv, ControlInv, NoWorkerAfterShutdown, Returned
<1>4. Flying = {} /\ Sending = {}
  BY <1>2, <1>3 DEF Flying, InFlight, Sending
<1>5. Cardinality(Flying) = 0 /\ Cardinality(Sending) = 0
  BY <1>4, FS_EmptySet
<1>6. Numbered /\ EntriesBalance
  BY Numbers DEF LogIndInv, CountersBalance
<1>7. submitted = written + failed + Len(queue)
  BY SMTT(60), <1>5, <1>6 DEF EntriesBalance, Numbered
<1> QED  BY <1>1, <1>2, <1>3, <1>7

\* ... and no later step moves any of these: late calls move Dropped only.
LEMMA QuietStays ==
  ASSUME LogIndInv, Returned, [LogNext]_logVars
  PROVE  Returned' /\ UNCHANGED <<submitted, written, failed, queue>>
<1>0. LogTypeOK
  BY DEF LogIndInv
<1>1. /\ stopped /\ \A c \in Callers : cpc[c] = "idle"
      /\ \A w \in Workers : wpc[w] = "exited"
  BY QuietBalance
<1>2. ASSUME NEW c \in Callers, SubmitStopped(c) \/ SubmitBegin(c) \/ SubmitReturns(c)
      PROVE  UNCHANGED <<submitted, written, failed, queue, spc>>
  BY <1>1, <1>2 DEF SubmitStopped, SubmitBegin, SubmitReturns, SubmitSend, SubmitFull,
                    SubmitRollback, SubmitDropped, control
<1>3. ASSUME NEW w \in Workers, WorkerStep(w) PROVE FALSE
  BY <1>1, <1>3 DEF WorkerStep, WorkerTop, WorkerExit, WorkerTake, WorkerLogged, WorkerFailed,
                    WorkerCount, WorkerPublish
<1>4. ASSUME NEW s \in Stoppers,
             ShutdownLock(s) \/ ShutdownClose(s) \/ ShutdownJoin(s) \/ ShutdownReturn(s)
      PROVE  Returned' /\ UNCHANGED <<submitted, written, failed, queue>>
  BY <1>0, <1>4 DEF ShutdownLock, ShutdownClose, ShutdownJoin, ShutdownReturn, StopperGoto,
                    counters, Returned, LogTypeOK
<1>5. CASE DeadlineCancel \/ DeadlineQuit
  BY <1>5 DEF DeadlineCancel, DeadlineQuit, counters, Returned
<1>6. CASE UNCHANGED logVars
  BY <1>6 DEF logVars, counters, control, Returned
<1> QED  BY <1>2, <1>3, <1>4, <1>5, <1>6 DEF LogNext, Returned

\* The reader starts with nothing loaded.
LEMMA InitSnapInv == MetricsInit => SnapInv
<1> SUFFICES ASSUME MetricsInit PROVE SnapInv
  OBVIOUS
<1>1. LogIndInv
  BY InitLogIndInv DEF MetricsInit
<1>2. loaded \in 0..4 /\ snap \in [{"submitted", "written", "dropped", "failed"} -> Nat]
  BY SMTT(60) DEF MetricsInit
<1>3. settled \in BOOLEAN /\ ~settled
  BY DEF MetricsInit
<1> QED  BY <1>1, <1>2, <1>3 DEF SnapInv, SnapType, SnapCurrent

\* Steps of the worker and loads of the reader keep the snapshot's invariant.
LEMMA NextSnapInv == ASSUME SnapInv, [MetricsNext]_mvars PROVE SnapInv'
<1>0. LogIndInv /\ SnapType /\ SnapCurrent
  BY DEF SnapInv
<1>1. CASE [LogNext]_logVars /\ UNCHANGED <<loaded, snap, settled>>
  <2>1. LogIndInv'
    BY <1>0, <1>1, NextLogIndInv
  <2>2. SnapType'
    BY <1>0, <1>1 DEF SnapType
  <2>3. SnapCurrent'
    <3>1. CASE ~settled
      BY <1>1, <3>1 DEF SnapCurrent
    <3>2. CASE settled
      <4>1. Returned' /\ UNCHANGED <<submitted, written, failed, queue>>
        BY <1>0, <1>1, <3>2, QuietStays DEF SnapCurrent
      <4> QED  BY <1>0, <1>1, <3>2, <4>1 DEF SnapCurrent
    <3> QED  BY <3>1, <3>2
  <2> QED  BY <2>1, <2>2, <2>3 DEF SnapInv
<1>2. CASE MetricsLoad
  <2>1. UNCHANGED logVars
    BY <1>2 DEF MetricsLoad
  <2>2. LogIndInv' /\ (Returned => Returned') /\ UNCHANGED <<submitted, written, dropped, failed>>
    BY <1>0, <2>1, NextLogIndInv DEF logVars, counters, control, Returned
  <2>3. submitted \in Nat /\ written \in Nat /\ dropped \in Nat /\ failed \in Nat
    BY <1>0 DEF LogIndInv, LogTypeOK
  <2>4. loaded \in 0..3 /\ loaded' = loaded + 1
    BY SMTT(60), <1>0, <1>2 DEF MetricsLoad, Loads, SnapType
  <2>5. PICK name : name = Loads[loaded + 1]
    OBVIOUS
  <2>6. /\ name \in {"submitted", "written", "dropped", "failed"}
        /\ Counter(name) \in Nat
        /\ name = "submitted" => loaded = 0 /\ Counter(name) = submitted
        /\ name = "written" => loaded = 1 /\ Counter(name) = written
        /\ name = "failed" => loaded = 3 /\ Counter(name) = failed
        /\ loaded = 0 => name = "submitted"
        /\ loaded = 1 => name = "written"
        /\ loaded = 3 => name = "failed"
    <3>1. CASE loaded = 0
      BY SMTT(60), <2>3, <2>5, <3>1 DEF Loads, Counter
    <3>2. CASE loaded = 1
      BY SMTT(60), <2>3, <2>5, <3>2 DEF Loads, Counter
    <3>3. CASE loaded = 2
      BY SMTT(60), <2>3, <2>5, <3>3 DEF Loads, Counter
    <3>4. CASE loaded = 3
      BY SMTT(60), <2>3, <2>5, <3>4 DEF Loads, Counter
    <3> QED  BY SMTT(60), <2>4, <3>1, <3>2, <3>3, <3>4
  <2>7. snap' = [snap EXCEPT ![name] = Counter(name)]
    BY <1>2, <2>5 DEF MetricsLoad
  <2>8. settled' \in BOOLEAN /\ (settled' => (loaded = 0 /\ Returned) \/ (loaded > 0 /\ settled))
    <3>1. settled' = IF loaded = 0 THEN Returned ELSE settled
      BY <1>2 DEF MetricsLoad, Returned
    <3>2. Returned \in BOOLEAN /\ settled \in BOOLEAN
      BY <1>0 DEF Returned, SnapType
    <3>3. CASE loaded = 0
      BY <3>1, <3>2, <3>3
    <3>4. CASE loaded # 0
      <4>1. loaded > 0
        BY SMTT(60), <2>4, <3>4
      <4> QED  BY <3>1, <3>2, <3>4, <4>1
    <3> QED  BY <3>3, <3>4
  <2>9. SnapType'
    BY SMTT(60), <1>0, <2>4, <2>6, <2>7, <2>8 DEF SnapType
  <2>10. SnapCurrent'
    <3>1. settled' => Returned'
      BY <1>0, <2>2, <2>8 DEF SnapCurrent
    <3>2. settled' => snap'["submitted"] = submitted
      BY <1>0, <2>4, <2>6, <2>7, <2>8 DEF SnapCurrent, SnapType
    <3>3. settled' /\ loaded' >= 2 => snap'["written"] = written
      BY SMTT(60), <1>0, <2>4, <2>6, <2>7, <2>8 DEF SnapCurrent, SnapType
    <3>4. settled' /\ loaded' >= 4 => snap'["failed"] = failed
      BY SMTT(60), <1>0, <2>4, <2>6, <2>7, <2>8 DEF SnapCurrent, SnapType
    <3> QED  BY SMTT(60), <2>2, <2>4, <3>1, <3>2, <3>3, <3>4 DEF SnapCurrent
  <2> QED  BY <2>2, <2>9, <2>10 DEF SnapInv
<1> QED  BY <1>1, <1>2 DEF MetricsNext, mvars

\* A snapshot begun after a Shutdown returned is exact: what it shows submitted
\* is what it shows written and failed, and what the deadline left queued,
\* however late calls of Submit interleave with the loads.
THEOREM SettledSnapshotAlwaysExact == MetricsSpec => []SettledSnapshotExact
<1>1. ASSUME SnapInv, loaded = Len(Loads), settled
      PROVE  snap["submitted"] = snap["written"] + snap["failed"] + Len(queue)
  <2>1. loaded = 4
    BY <1>1 DEF Loads
  <2>2. submitted = written + failed + Len(queue)
    BY <1>1, QuietBalance DEF SnapInv, SnapCurrent
  <2> QED  BY SMTT(60), <1>1, <2>1, <2>2 DEF SnapInv, SnapCurrent
<1>2. SnapInv => SettledSnapshotExact
  BY <1>1 DEF SettledSnapshotExact
<1>3. MetricsInit => SnapInv
  BY InitSnapInv
<1>4. SnapInv /\ [MetricsNext]_mvars => SnapInv'
  BY NextSnapInv
<1> QED  BY <1>2, <1>3, <1>4, PTL DEF MetricsSpec

-----------------------------------------------------------------------------
(* The feed.                                                                *)

\* The type of the feed's state.
FeedTypeOK ==
  /\ closed \in BOOLEAN
  /\ subscribers \subseteq Handlers
  /\ tenantID \in [Handlers -> Tenants \cup {NoTenant}]
  /\ ch \in [Handlers -> Seq(Rows)]
  /\ closes \in [Handlers -> Nat]
  /\ subDropped \in [Handlers -> Nat]
  /\ hpc \in [Handlers -> {"absent", "top", "select", "returning", "done"}]
  /\ lastDropped \in [Handlers -> Nat]
  /\ taken \in [Handlers -> Seq(Rows)]
  /\ offered \in [Handlers -> Seq(Rows)]
  /\ publishedRows \subseteq Rows

\* A stream that has not come yet has no subscription, no closed channel and
\* no rows; one in the map is running.
Untouched(h) ==
  /\ hpc[h] = "absent" => /\ h \notin subscribers /\ closes[h] = 0
                          /\ offered[h] = << >>
  /\ hpc[h] = "done" => h \notin subscribers

\* A drop not yet surfaced to a waiting stream leaves rows to read: the buffer
\* was full, and each row read leads back to the top of the loop.
UnsurfacedHasRows(h) ==
  hpc[h] = "select" /\ lastDropped[h] # subDropped[h] => ch[h] # << >>

\* The rows offered are those received, those buffered and those dropped.
DropsAddUp(h) == Len(offered[h]) = Len(taken[h]) + Len(ch[h]) + subDropped[h]

\* The rows received and buffered are, in order, rows offered.
InOrder(h) == Subsequence(taken[h] \o ch[h], offered[h])

\* The inductive invariant; the order of the rows, InOrder, is kept on top of it.
FeedIndInv ==
  /\ FeedTypeOK
  /\ NeverClosedTwice
  /\ NoLeakedSubscription
  /\ TenantIsolated
  /\ \A h \in Handlers : Untouched(h) /\ UnsurfacedHasRows(h) /\ DropsAddUp(h)

\* A feed nobody has subscribed to satisfies the invariant.
LEMMA InitFeedIndInv == FeedInit => FeedIndInv
<1> SUFFICES ASSUME FeedInit PROVE FeedIndInv
  OBVIOUS
<1> USE DEF FeedInit
<1>1. FeedTypeOK
  <2>1. << >> \in Seq(Rows) /\ 0 \in Nat
    BY SMTT(60)
  <2> QED  BY <2>1 DEF FeedTypeOK
<1>2. NeverClosedTwice /\ NoLeakedSubscription /\ TenantIsolated
  BY SMTT(60) DEF NeverClosedTwice, NoLeakedSubscription, TenantIsolated
<1>3. ASSUME NEW h \in Handlers PROVE Untouched(h) /\ UnsurfacedHasRows(h) /\ DropsAddUp(h)
  BY SMTT(60) DEF Untouched, UnsurfacedHasRows, DropsAddUp
<1> QED  BY <1>1, <1>2, <1>3 DEF FeedIndInv

\* A stream subscribes, before or after the feed was closed.
LEMMA SubscribeIndInv ==
  ASSUME FeedIndInv, NEW h \in Handlers, NEW t \in Tenants \cup {NoTenant}, Subscribe(h, t)
  PROVE  FeedIndInv'
<1>0. FeedTypeOK /\ Untouched(h) /\ hpc[h] = "absent"
  BY DEF FeedIndInv, Subscribe
<1>1. CASE closed
  <2>1. /\ UNCHANGED <<closed, subscribers, ch, subDropped, lastDropped, taken, offered,
                       publishedRows>>
        /\ closes' = [closes EXCEPT ![h] = closes[h] + 1]
        /\ hpc' = [hpc EXCEPT ![h] = "top"]
        /\ tenantID' = [tenantID EXCEPT ![h] = t]
    BY <1>1 DEF Subscribe, Goto
  <2>2. FeedTypeOK'
    BY SMTT(60), <1>0, <2>1 DEF FeedTypeOK
  <2>3. NeverClosedTwice' /\ NoLeakedSubscription'
    BY SMTT(60), <1>0, <1>1, <2>1 DEF FeedTypeOK, FeedIndInv, Untouched, NeverClosedTwice, NoLeakedSubscription
  <2>4. TenantIsolated'
    BY SMTT(60), <1>0, <2>1 DEF FeedTypeOK, FeedIndInv, Untouched, TenantIsolated
  <2>5. ASSUME NEW g \in Handlers PROVE (Untouched(g) /\ UnsurfacedHasRows(g) /\ DropsAddUp(g))'
    BY <1>0, <1>1, <2>1 DEF FeedTypeOK, FeedIndInv, NoLeakedSubscription, Untouched, UnsurfacedHasRows,
                            DropsAddUp
  <2> QED  BY <2>2, <2>3, <2>4, <2>5 DEF FeedIndInv
<1>2. CASE ~closed
  <2>1. /\ UNCHANGED <<closed, closes, ch, subDropped, lastDropped, taken, offered,
                       publishedRows>>
        /\ subscribers' = subscribers \cup {h}
        /\ hpc' = [hpc EXCEPT ![h] = "top"]
        /\ tenantID' = [tenantID EXCEPT ![h] = t]
    BY <1>2 DEF Subscribe, Goto
  <2>2. FeedTypeOK'
    BY <1>0, <2>1 DEF FeedTypeOK
  <2>3. NeverClosedTwice' /\ NoLeakedSubscription'
    BY <1>0, <1>2, <2>1 DEF FeedTypeOK, FeedIndInv, Untouched, NeverClosedTwice, NoLeakedSubscription
  <2>4. TenantIsolated'
    BY SMTT(60), <1>0, <2>1 DEF FeedTypeOK, FeedIndInv, Untouched, TenantIsolated
  <2>5. ASSUME NEW g \in Handlers PROVE (Untouched(g) /\ UnsurfacedHasRows(g) /\ DropsAddUp(g))'
    BY <1>0, <2>1 DEF FeedTypeOK, FeedIndInv, Untouched, UnsurfacedHasRows, DropsAddUp
  <2> QED  BY <2>2, <2>3, <2>4, <2>5 DEF FeedIndInv
<1> QED  BY <1>1, <1>2

\* Rows are offered to the matching subscribers, into the buffer or the count.
LEMMA PublishIndInv ==
  ASSUME FeedIndInv, NEW row \in Rows, Publish(row)
  PROVE  FeedIndInv'
<1>0. FeedTypeOK
  BY DEF FeedIndInv
<1>1. UNCHANGED <<closed, subscribers, tenantID, closes, hpc, lastDropped, taken>>
  BY DEF Publish, handler
<1>2. ASSUME NEW h \in Handlers
      PROVE  /\ ch'[h] \in Seq(Rows) /\ offered'[h] \in Seq(Rows) /\ subDropped'[h] \in Nat
             /\ DropsAddUp(h)'
             /\ UnsurfacedHasRows(h)'
  <2>0. /\ ch[h] \in Seq(Rows) /\ offered[h] \in Seq(Rows) /\ taken[h] \in Seq(Rows)
        /\ subDropped[h] \in Nat /\ taken'[h] = taken[h]
        /\ Len(ch[h]) \in Nat /\ Len(offered[h]) \in Nat /\ Len(taken[h]) \in Nat
        /\ DropsAddUp(h) /\ UnsurfacedHasRows(h)
    BY SMTT(60), <1>0, <1>1 DEF FeedIndInv, FeedTypeOK
  <2>1. CASE Receives(h, row) /\ HasRoom(h)
    <3>1. ch'[h] = Append(ch[h], row) /\ offered'[h] = Append(offered[h], row)
          /\ subDropped'[h] = subDropped[h]
      BY SMTT(60), <2>0, <2>1 DEF Publish
    <3>2. /\ Len(ch'[h]) = Len(ch[h]) + 1 /\ Len(offered'[h]) = Len(offered[h]) + 1
          /\ ch'[h] # << >> /\ ch'[h] \in Seq(Rows) /\ offered'[h] \in Seq(Rows)
      BY SMTT(60), <2>0, <3>1
    <3>3. DropsAddUp(h)'
      <4> DEFINE o == Len(offered[h])
                 g == Len(taken[h])
                 c == Len(ch[h])
                 d == subDropped[h]
                 o2 == Len(offered'[h])
                 g2 == Len(taken'[h])
                 c2 == Len(ch'[h])
                 d2 == subDropped'[h]
      <4>1. /\ o \in Nat /\ g \in Nat /\ c \in Nat /\ d \in Nat /\ o = g + c + d
            /\ o2 = o + 1 /\ g2 = g /\ c2 = c + 1 /\ d2 = d
        BY <2>0, <3>1, <3>2 DEF DropsAddUp
      <4> HIDE DEF o, g, c, d, o2, g2, c2, d2
      <4>2. o2 = g2 + c2 + d2
        BY SMTT(60), <4>1
      <4> QED  BY <4>2 DEF DropsAddUp, o2, g2, c2, d2
    <3>4. UnsurfacedHasRows(h)'
      BY <3>2 DEF UnsurfacedHasRows
    <3> QED  BY <2>0, <3>1, <3>2, <3>3, <3>4
  <2>2. CASE Receives(h, row) /\ ~HasRoom(h)
    <3>1. ch'[h] = ch[h] /\ offered'[h] = Append(offered[h], row)
          /\ subDropped'[h] = subDropped[h] + 1
      BY <2>2 DEF Publish
    <3>2. Len(offered'[h]) = Len(offered[h]) + 1 /\ offered'[h] \in Seq(Rows)
      BY SMTT(60), <2>0, <3>1
    <3>3. ch[h] # << >>
      BY SMTT(60), <2>0, <2>2, BroadcasterAssumption DEF HasRoom
    <3>4. DropsAddUp(h)'
      <4> DEFINE o == Len(offered[h])
                 g == Len(taken[h])
                 c == Len(ch[h])
                 d == subDropped[h]
                 o2 == Len(offered'[h])
                 g2 == Len(taken'[h])
                 c2 == Len(ch'[h])
                 d2 == subDropped'[h]
      <4>1. /\ o \in Nat /\ g \in Nat /\ c \in Nat /\ d \in Nat /\ o = g + c + d
            /\ o2 = o + 1 /\ g2 = g /\ c2 = c /\ d2 = d + 1
        BY <2>0, <3>1, <3>2 DEF DropsAddUp
      <4> HIDE DEF o, g, c, d, o2, g2, c2, d2
      <4>2. o2 = g2 + c2 + d2
        BY SMTT(60), <4>1
      <4> QED  BY <4>2 DEF DropsAddUp, o2, g2, c2, d2
    <3>5. UnsurfacedHasRows(h)'
      BY <3>1, <3>3 DEF UnsurfacedHasRows
    <3> QED  BY SMTT(60), <2>0, <3>1, <3>2, <3>4, <3>5
  <2>3. CASE ~Receives(h, row)
    <3>1. ch'[h] = ch[h] /\ offered'[h] = offered[h] /\ subDropped'[h] = subDropped[h]
      BY SMTT(60), <2>0, <2>3 DEF Publish
    <3> QED  BY <1>1, <2>0, <3>1 DEF DropsAddUp, UnsurfacedHasRows
  <2> QED  BY <2>1, <2>2, <2>3
<1>3. FeedTypeOK'
  <2>1. /\ ch' \in [Handlers -> Seq(Rows)] /\ offered' \in [Handlers -> Seq(Rows)]
        /\ subDropped' \in [Handlers -> Nat]
    BY <1>2 DEF Publish
  <2> QED  BY <1>0, <1>1, <2>1 DEF FeedTypeOK, Publish
<1>4. NeverClosedTwice' /\ NoLeakedSubscription'
  BY <1>1 DEF FeedIndInv, NeverClosedTwice, NoLeakedSubscription
<1>5. TenantIsolated'
  <2> SUFFICES ASSUME NEW h \in Handlers, tenantID[h] # NoTenant, NEW i \in 1..Len(offered'[h])
               PROVE  TenantOf[offered'[h][i]] = tenantID[h]
    BY <1>1 DEF TenantIsolated
  <2>0. TenantIsolated /\ offered[h] \in Seq(Rows)
    BY <1>0 DEF FeedIndInv, FeedTypeOK
  <2>1. CASE Receives(h, row)
    <3>1. offered'[h] = Append(offered[h], row)
      BY <2>1 DEF Publish
    <3>2. TenantOf[row] = tenantID[h]
      BY <2>1 DEF Receives, Matches
    <3> QED  BY SMTT(60), <2>0, <3>1, <3>2 DEF TenantIsolated
  <2>2. CASE ~Receives(h, row)
    BY <2>0, <2>2 DEF TenantIsolated, Publish
  <2> QED  BY <2>1, <2>2
<1>6. ASSUME NEW h \in Handlers PROVE Untouched(h)'
  BY <1>1 DEF FeedIndInv, Publish, Untouched, Receives
<1> QED  BY <1>2, <1>3, <1>4, <1>5, <1>6 DEF FeedIndInv

\* The feed is closed: every open channel is closed and the map is emptied.
LEMMA CloseIndInv == ASSUME FeedIndInv, Close PROVE FeedIndInv'
<1>0. FeedTypeOK /\ UNCHANGED <<tenantID, ch, subDropped, hpc, lastDropped, taken, offered,
                            publishedRows>>
  BY DEF FeedIndInv, Close, handler
<1>1. FeedTypeOK'
  <2>1. \A h \in Handlers : closes[h] + (IF h \in subscribers THEN 1 ELSE 0) \in Nat
    BY SMTT(60), <1>0 DEF FeedTypeOK
  <2>2. closes' \in [Handlers -> Nat]
    BY <2>1 DEF Close
  <2> QED  BY <1>0, <2>2 DEF FeedTypeOK, Close
<1>2. NeverClosedTwice' /\ NoLeakedSubscription'
  BY SMTT(60), <1>0 DEF FeedTypeOK, FeedIndInv, Close, NeverClosedTwice, NoLeakedSubscription
<1>3. TenantIsolated'
  BY <1>0 DEF FeedIndInv, TenantIsolated
<1>4. ASSUME NEW h \in Handlers PROVE (Untouched(h) /\ UnsurfacedHasRows(h) /\ DropsAddUp(h))'
  <2>1. Untouched(h)'
    BY SMTT(60), <1>0 DEF FeedTypeOK, FeedIndInv, Close, Untouched
  <2>2. UnsurfacedHasRows(h)' /\ DropsAddUp(h)'
    BY <1>0 DEF FeedIndInv, UnsurfacedHasRows, DropsAddUp
  <2> QED  BY <2>1, <2>2
<1> QED  BY <1>1, <1>2, <1>3, <1>4 DEF FeedIndInv

\* The handler's deferred cancel.
LEMMA CancelIndInv == ASSUME FeedIndInv, NEW h \in Handlers, Cancel(h) PROVE FeedIndInv'
<1>0. /\ FeedTypeOK
      /\ UNCHANGED <<closed, tenantID, ch, subDropped, lastDropped, taken, offered, publishedRows>>
      /\ hpc[h] = "returning" /\ hpc' = [hpc EXCEPT ![h] = "done"]
      /\ subscribers' = subscribers \ {h}
  BY DEF FeedIndInv, Cancel, Goto
<1>1. closes' = [closes EXCEPT ![h] = IF h \in subscribers THEN closes[h] + 1 ELSE closes[h]]
  BY DEF Cancel
<1>2. FeedTypeOK'
  <2>1. closes' \in [Handlers -> Nat]
    BY SMTT(60), <1>0, <1>1 DEF FeedTypeOK
  <2> QED  BY <1>0, <2>1 DEF FeedTypeOK
<1>3. NeverClosedTwice' /\ NoLeakedSubscription'
  BY SMTT(60), <1>0, <1>1 DEF FeedTypeOK, FeedIndInv, NeverClosedTwice, NoLeakedSubscription
<1>4. TenantIsolated'
  BY <1>0 DEF FeedIndInv, TenantIsolated
<1>5. ASSUME NEW g \in Handlers PROVE (Untouched(g) /\ UnsurfacedHasRows(g) /\ DropsAddUp(g))'
  <2>1. Untouched(g)'
    BY <1>0, <1>1 DEF FeedTypeOK, FeedIndInv, Untouched
  <2>2. UnsurfacedHasRows(g)' /\ DropsAddUp(g)'
    BY <1>0 DEF FeedTypeOK, FeedIndInv, UnsurfacedHasRows, DropsAddUp
  <2> QED  BY <2>1, <2>2
<1> QED  BY <1>2, <1>3, <1>4, <1>5 DEF FeedIndInv

\* The steps of the loop that read no row: only the control point moves, and
\* the top of the loop, which surfaces the drops, is the only way to wait.
LEMMA LoopIndInv ==
  ASSUME FeedIndInv, NEW h \in Handlers,
         StreamTop(h) \/ StreamTopWriteError(h) \/ StreamTick(h) \/ StreamGone(h) \/ StreamEnd(h)
  PROVE  FeedIndInv'
<1>0. FeedTypeOK /\ UNCHANGED <<closed, subscribers, tenantID, ch, closes, subDropped, taken, offered,
                            publishedRows>>
  BY DEF FeedIndInv, StreamTop, StreamTopWriteError, StreamTick, StreamGone, StreamEnd, Returns, sub
<1>1. \/ /\ hpc[h] = "top" /\ hpc' = [hpc EXCEPT ![h] = "select"]
         /\ lastDropped' = [lastDropped EXCEPT ![h] = subDropped[h]]
      \/ /\ hpc[h] \in {"top", "select"} /\ UNCHANGED lastDropped
         /\ \E pc \in {"top", "returning"} : hpc' = [hpc EXCEPT ![h] = pc]
  BY DEF StreamTop, StreamTopWriteError, StreamTick, StreamGone, StreamEnd, Returns, Goto
<1>2. FeedTypeOK'
  BY <1>0, <1>1 DEF FeedTypeOK
<1>3. NeverClosedTwice' /\ NoLeakedSubscription' /\ TenantIsolated'
  BY <1>0, <1>1 DEF FeedTypeOK, FeedIndInv, NeverClosedTwice, NoLeakedSubscription, TenantIsolated
<1>4. ASSUME NEW g \in Handlers PROVE (Untouched(g) /\ UnsurfacedHasRows(g) /\ DropsAddUp(g))'
  <2>1. Untouched(g)' /\ UnsurfacedHasRows(g)'
    BY SMTT(60), <1>0, <1>1 DEF FeedTypeOK, FeedIndInv, Untouched, UnsurfacedHasRows
  <2>2. DropsAddUp(g)'
    BY <1>0 DEF FeedIndInv, DropsAddUp
  <2> QED  BY <2>1, <2>2
<1> QED  BY <1>2, <1>3, <1>4 DEF FeedIndInv

\* A row moves from the buffer to the client, and the loop leaves the select.
LEMMA RecvIndInv == ASSUME FeedIndInv, NEW h \in Handlers, StreamRecv(h) PROVE FeedIndInv'
<1>0. /\ FeedTypeOK
      /\ UNCHANGED <<closed, subscribers, tenantID, closes, subDropped, lastDropped, offered,
                     publishedRows>>
      /\ ch[h] # << >> /\ hpc[h] = "select"
      /\ ch' = [ch EXCEPT ![h] = Tail(ch[h])]
      /\ taken' = [taken EXCEPT ![h] = Append(taken[h], Head(ch[h]))]
      /\ \E pc \in {"top", "returning"} : hpc' = [hpc EXCEPT ![h] = pc]
  BY DEF FeedIndInv, StreamRecv, Goto
<1>1. /\ ch[h] \in Seq(Rows) /\ taken[h] \in Seq(Rows) /\ Head(ch[h]) \in Rows
      /\ Tail(ch[h]) \in Seq(Rows) /\ Append(taken[h], Head(ch[h])) \in Seq(Rows)
      /\ Len(Tail(ch[h])) = Len(ch[h]) - 1 /\ Len(Append(taken[h], Head(ch[h]))) = Len(taken[h]) + 1
  BY SMTT(60), <1>0 DEF FeedTypeOK
<1>2. FeedTypeOK'
  BY <1>0, <1>1 DEF FeedTypeOK
<1>3. NeverClosedTwice' /\ NoLeakedSubscription' /\ TenantIsolated'
  BY <1>0 DEF FeedTypeOK, FeedIndInv, NeverClosedTwice, NoLeakedSubscription, TenantIsolated
<1>4. ASSUME NEW g \in Handlers PROVE (Untouched(g) /\ UnsurfacedHasRows(g) /\ DropsAddUp(g))'
  <2>1. Untouched(g)' /\ UnsurfacedHasRows(g)'
    BY <1>0 DEF FeedTypeOK, FeedIndInv, Untouched, UnsurfacedHasRows
  <2>2. CASE g = h
    <3> DEFINE o == Len(offered[h])
               t == Len(taken[h])
               c == Len(ch[h])
               d == subDropped[h]
               t2 == Len(taken'[h])
               c2 == Len(ch'[h])
    <3>1. /\ o \in Nat /\ t \in Nat /\ c \in Nat /\ d \in Nat /\ o = t + c + d
          /\ t2 = t + 1 /\ c2 = c - 1
      <4>1. taken'[h] = Append(taken[h], Head(ch[h])) /\ ch'[h] = Tail(ch[h])
        BY <1>0 DEF FeedTypeOK
      <4>2. o = t + c + d
        BY DEF FeedIndInv, DropsAddUp
      <4>3. o \in Nat /\ t \in Nat /\ c \in Nat /\ d \in Nat
        BY SMTT(60), <1>0 DEF FeedTypeOK
      <4> QED  BY <1>1, <4>1, <4>2, <4>3
    <3> HIDE DEF o, t, c, d, t2, c2
    <3>2. o = t2 + c2 + d
      BY SMTT(60), <3>1
    <3>3. DropsAddUp(h)'
      BY <1>0, <3>2 DEF DropsAddUp, o, d, t2, c2
    <3> QED  BY <2>1, <2>2, <3>3
  <2>3. CASE g # h
    <3>1. DropsAddUp(g)'
      BY <1>0, <2>3 DEF FeedTypeOK, FeedIndInv, DropsAddUp
    <3> QED  BY <2>1, <3>1
  <2> QED  BY <2>2, <2>3
<1> QED  BY <1>2, <1>3, <1>4 DEF FeedIndInv

\* Every step preserves the invariant.
LEMMA NextFeedIndInv == ASSUME FeedIndInv, [FeedNext]_feedVars PROVE FeedIndInv'
<1>1. CASE UNCHANGED feedVars
  BY <1>1 DEF feedVars, sub, handler, FeedIndInv, FeedTypeOK, NeverClosedTwice, NoLeakedSubscription,
              TenantIsolated, Untouched, UnsurfacedHasRows, DropsAddUp
<1>2. ASSUME NEW h \in Handlers, HandlerNext(h) PROVE FeedIndInv'
  BY <1>2, SubscribeIndInv, CancelIndInv, LoopIndInv, RecvIndInv DEF HandlerNext, StreamStep
<1>3. ASSUME NEW row \in Rows, Publish(row) PROVE FeedIndInv'
  BY <1>3, PublishIndInv
<1> QED  BY <1>1, <1>2, <1>3, CloseIndInv DEF FeedNext

-----------------------------------------------------------------------------
(* The order of the rows.                                                   *)

\* Appending the same element to both keeps a subsequence one.
LEMMA SubsequenceBoth ==
  ASSUME NEW R, NEW s \in Seq(R), NEW t \in Seq(R), NEW x \in R, Subsequence(s, t)
  PROVE  Subsequence(Append(s, x), Append(t, x))
<1>1. PICK at \in [1..Len(s) -> 1..Len(t)] :
        /\ \A i, j \in 1..Len(s) : i < j => at[i] < at[j]
        /\ \A i \in 1..Len(s) : s[i] = t[at[i]]
  BY DEF Subsequence
<1> DEFINE n == Len(s)
           m == Len(t)
           to == [i \in 1..(n + 1) |-> IF i = n + 1 THEN m + 1 ELSE at[i]]
<1>2. n \in Nat /\ m \in Nat /\ Len(Append(s, x)) = n + 1 /\ Len(Append(t, x)) = m + 1
  BY SMTT(60)
<1>3. to \in [1..(n + 1) -> 1..(m + 1)]
  BY SMTT(60), <1>1, <1>2
<1>4. \A i, j \in 1..(n + 1) : i < j => to[i] < to[j]
  BY SMTT(60), <1>1, <1>2
<1>5. \A i \in 1..(n + 1) : Append(s, x)[i] = Append(t, x)[to[i]]
  <2> SUFFICES ASSUME NEW i \in 1..(n + 1) PROVE Append(s, x)[i] = Append(t, x)[to[i]]
    OBVIOUS
  <2>1. CASE i = n + 1
    BY SMTT(60), <1>2, <2>1
  <2>2. CASE i # n + 1
    <3>1. i \in 1..n /\ to[i] = at[i] /\ at[i] \in 1..m
      BY SMTT(60), <1>1, <1>2, <2>2
    <3>2. Append(s, x)[i] = s[i] /\ Append(t, x)[at[i]] = t[at[i]]
      BY SMTT(60), <3>1
    <3> QED  BY <1>1, <3>1, <3>2
  <2> QED  BY <2>1, <2>2
<1> HIDE DEF to, n, m
<1> QED  BY <1>2, <1>3, <1>4, <1>5 DEF Subsequence

\* Appending to the longer sequence keeps a subsequence one.
LEMMA SubsequenceLonger ==
  ASSUME NEW R, NEW s \in Seq(R), NEW t \in Seq(R), NEW x \in R, Subsequence(s, t)
  PROVE  Subsequence(s, Append(t, x))
<1>1. PICK at \in [1..Len(s) -> 1..Len(t)] :
        /\ \A i, j \in 1..Len(s) : i < j => at[i] < at[j]
        /\ \A i \in 1..Len(s) : s[i] = t[at[i]]
  BY DEF Subsequence
<1>2. Len(t) \in Nat /\ Len(Append(t, x)) = Len(t) + 1
  BY SMTT(60)
<1>3. at \in [1..Len(s) -> 1..Len(Append(t, x))]
  BY SMTT(60), <1>1, <1>2
<1>4. \A i \in 1..Len(s) : s[i] = Append(t, x)[at[i]]
  BY SMTT(60), <1>1
<1> QED  BY <1>1, <1>3, <1>4 DEF Subsequence

\* A row moved from the buffer to the client keeps its place.
LEMMA MovedRow ==
  ASSUME NEW R, NEW s \in Seq(R), NEW t \in Seq(R), t # << >>
  PROVE  Append(s, Head(t)) \o Tail(t) = s \o t
<1> DEFINE l == Append(s, Head(t)) \o Tail(t)
           r == s \o t
<1>1. /\ l \in Seq(R) /\ r \in Seq(R)
      /\ Len(l) = Len(s) + Len(t) /\ Len(r) = Len(s) + Len(t)
  BY SMTT(60)
<1>2. ASSUME NEW i \in 1..Len(l) PROVE l[i] = r[i]
  <2>0. Len(s) \in Nat /\ Len(t) \in Nat /\ Len(t) >= 1 /\ i \in Nat /\ Head(t) = t[1]
        /\ Len(Append(s, Head(t))) = Len(s) + 1
    BY SMTT(60), <1>1
  <2>1. CASE i <= Len(s)
    BY SMTT(60), <1>1, <2>0, <2>1
  <2>2. CASE i = Len(s) + 1
    BY SMTT(60), <1>1, <2>0, <2>2
  <2>3. CASE i > Len(s) + 1
    <3>1. l[i] = Tail(t)[i - (Len(s) + 1)]
      BY SMTT(60), <1>1, <2>0, <2>3
    <3>2. Tail(t)[i - (Len(s) + 1)] = t[i - Len(s)]
      BY SMTT(60), <1>1, <2>0, <2>3
    <3>3. r[i] = t[i - Len(s)]
      BY SMTT(60), <1>1, <2>0, <2>3
    <3> QED  BY <3>1, <3>2, <3>3
  <2> QED  BY SMTT(60), <2>0, <2>1, <2>2, <2>3
<1> HIDE DEF l, r
<1>3. l = r
  BY <1>1, <1>2, SeqEqual
<1> QED  BY <1>3 DEF l, r

\* A row appended to the buffer comes after every row received.
LEMMA AppendedRow ==
  ASSUME NEW R, NEW s \in Seq(R), NEW t \in Seq(R), NEW x \in R
  PROVE  s \o Append(t, x) = Append(s \o t, x)
<1> DEFINE l == s \o Append(t, x)
           r == Append(s \o t, x)
<1>1. /\ l \in Seq(R) /\ r \in Seq(R)
      /\ Len(l) = Len(s) + Len(t) + 1 /\ Len(r) = Len(s) + Len(t) + 1
  BY SMTT(60)
<1>2. ASSUME NEW i \in 1..Len(l) PROVE l[i] = r[i]
  <2>0. Len(s) \in Nat /\ Len(t) \in Nat /\ i \in Nat
    BY SMTT(60), <1>1
  <2>1. CASE i <= Len(s)
    BY SMTT(60), <1>1, <2>0, <2>1
  <2>2. CASE i > Len(s)
    BY SMTT(60), <1>1, <2>0, <2>2
  <2> QED  BY SMTT(60), <2>0, <2>1, <2>2
<1> HIDE DEF l, r
<1>3. l = r
  BY <1>1, <1>2, SeqEqual
<1> QED  BY <1>3 DEF l, r

\* A row offered and buffered keeps the rows in order.
LEMMA SubsequenceAppended ==
  ASSUME NEW R, NEW s \in Seq(R), NEW t \in Seq(R), NEW o \in Seq(R), NEW x \in R,
         Subsequence(s \o t, o)
  PROVE  Subsequence(s \o Append(t, x), Append(o, x))
<1> DEFINE b == s \o t
<1>1. s \o Append(t, x) = Append(b, x)
  BY SMTT(60), AppendedRow
<1>2. b \in Seq(R) /\ Subsequence(b, o)
  BY SMTT(60)
<1> HIDE DEF b
<1>3. Subsequence(Append(b, x), Append(o, x))
  BY <1>2, SubsequenceBoth
<1> QED  BY <1>1, <1>3

\* The rows received and buffered stay in the order they were offered in.
LEMMA OrderStays ==
  ASSUME FeedIndInv, [FeedNext]_feedVars, NEW h \in Handlers, InOrder(h)
  PROVE  InOrder(h)'
<1>0. ch[h] \in Seq(Rows) /\ taken[h] \in Seq(Rows) /\ offered[h] \in Seq(Rows) /\ FeedTypeOK
  BY DEF FeedIndInv, FeedTypeOK
<1>1. CASE UNCHANGED <<ch, taken, offered>>
  BY <1>1 DEF InOrder
<1>2. ASSUME NEW row \in Rows, Publish(row) PROVE InOrder(h)'
  <2>0. UNCHANGED taken
    BY <1>2 DEF Publish, handler
  <2>1. CASE Receives(h, row) /\ HasRoom(h)
    <3>1. ch'[h] = Append(ch[h], row) /\ offered'[h] = Append(offered[h], row)
      BY <1>2, <2>1 DEF Publish
    <3>2. Subsequence(taken[h] \o Append(ch[h], row), Append(offered[h], row))
      BY <1>0, <1>2, SubsequenceAppended DEF InOrder
    <3> QED  BY <2>0, <3>1, <3>2 DEF InOrder
  <2>2. CASE Receives(h, row) /\ ~HasRoom(h)
    <3>1. ch'[h] = ch[h] /\ offered'[h] = Append(offered[h], row)
      BY <1>2, <2>2 DEF Publish
    <3>2. taken[h] \o ch[h] \in Seq(Rows)
      BY SMTT(60), <1>0
    <3> QED  BY <1>0, <2>0, <3>1, <3>2, SubsequenceLonger DEF InOrder
  <2>3. CASE ~Receives(h, row)
    <3>1. ch'[h] = ch[h] /\ offered'[h] = offered[h]
      BY <1>2, <2>3 DEF Publish
    <3> QED  BY <2>0, <3>1 DEF InOrder
  <2> QED  BY <2>1, <2>2, <2>3
<1>3. ASSUME NEW g \in Handlers, StreamRecv(g) PROVE InOrder(h)'
  <2>0. UNCHANGED offered
    BY <1>3 DEF StreamRecv
  <2>1. CASE g = h
    <3>1. ch[h] # << >> /\ ch'[h] = Tail(ch[h]) /\ taken'[h] = Append(taken[h], Head(ch[h]))
      BY <1>0, <1>3, <2>1 DEF StreamRecv, FeedTypeOK
    <3> QED  BY <1>0, <2>0, <3>1, MovedRow DEF InOrder
  <2>2. CASE g # h
    <3>1. ch'[h] = ch[h] /\ taken'[h] = taken[h]
      BY <1>0, <1>3, <2>2 DEF StreamRecv, FeedTypeOK
    <3> QED  BY <2>0, <3>1 DEF InOrder
  <2> QED  BY <2>1, <2>2
<1>4. ASSUME NEW g \in Handlers, HandlerNext(g), ~StreamRecv(g) PROVE UNCHANGED <<ch, taken, offered>>
  BY <1>4 DEF HandlerNext, Subscribe, StreamStep, StreamTop, StreamTopWriteError, StreamTick,
              StreamGone, StreamEnd, Cancel, Returns, sub
<1>5. CASE Close
  BY <1>1, <1>5 DEF Close, handler
<1>6. CASE UNCHANGED feedVars
  BY <1>1, <1>6 DEF feedVars, sub, handler
<1> QED  BY <1>1, <1>2, <1>3, <1>4, <1>5, <1>6 DEF FeedNext

-----------------------------------------------------------------------------
FeedInv == FeedIndInv /\ \A h \in Handlers : InOrder(h)

\* The invariant holds in every reachable state.
LEMMA FeedInvariant == FeedSpec => []FeedInv
<1>1. FeedInit => FeedInv
  <2>1. ASSUME FeedInit, NEW h \in Handlers PROVE InOrder(h)
    <3>1. taken[h] \o ch[h] = << >> /\ offered[h] = << >> /\ Len(<< >>) = 0
      BY SMTT(60), <2>1 DEF FeedInit
    <3>2. Subsequence(<< >>, << >>)
      <4>1. [i \in 1..0 |-> i] \in [1..0 -> 1..0]
        OBVIOUS
      <4> QED  BY <4>1 DEF Subsequence
    <3> QED  BY <3>1, <3>2 DEF InOrder
  <2> QED  BY <2>1, InitFeedIndInv DEF FeedInv
<1>2. FeedInv /\ [FeedNext]_feedVars => FeedInv'
  <2> SUFFICES ASSUME FeedInv, [FeedNext]_feedVars PROVE FeedInv'
    OBVIOUS
  <2>1. FeedIndInv'
    BY NextFeedIndInv DEF FeedInv
  <2>2. ASSUME NEW h \in Handlers PROVE InOrder(h)'
    BY OrderStays DEF FeedInv
  <2> QED  BY <2>1, <2>2 DEF FeedInv
<1> QED  BY <1>1, <1>2, PTL DEF FeedSpec

\* What a stream may rely on, at every instant: its rows are the ones offered to
\* it in their order, less exactly the ones counted as dropped, all of its
\* tenant; its channel is closed at most once; its subscription ends with it.
THEOREM FeedAlwaysSound == FeedSpec => []FeedSound
<1>1. FeedInv => FeedSound
  BY DEF FeedInv, FeedIndInv, FeedSound, GapsAreCounted, DropsAddUp, InOrder
<1> QED  BY <1>1, FeedInvariant, PTL

\* A stream that ends because the feed was closed has surfaced every drop.
THEOREM EndAlwaysSurfacesDrops == FeedSpec => EndSurfacesDrops
<1>1. FeedInv /\ [FeedNext]_feedVars =>
        [\A h \in Handlers : StreamEnd(h) => lastDropped[h] = subDropped[h]]_feedVars
  BY DEF FeedInv, FeedIndInv, UnsurfacedHasRows, StreamEnd
<1> QED  BY <1>1, FeedInvariant, PTL DEF FeedSpec, EndSurfacesDrops

-----------------------------------------------------------------------------
(* The pipeline.                                                            *)

\* The teardown, by the control point of the main goroutine: the worker is shut
\* down only in its phase and the store closed only after it, the pruner is
\* gone by then, and so are the requests unless waiting for them timed out.
TeardownInv ==
  /\ storeClosed \in BOOLEAN /\ timedOut \in BOOLEAN
  /\ storeClosed => mpc = "closed"
  /\ spc[Main] # "idle" => mpc \in {"drain", "closeStore", "closed"}
  /\ mpc \in {"closeStore", "closed"} => spc[Main] \in {"idle", "returned"}
  /\ stopped => spc[Main] \in {"draining", "returned"}
  /\ mpc \in {"closeHTTP", "waitHTTP", "drain"} \/ spc[Main] # "idle" => ppc = "exited"
  /\ (mpc = "drain" \/ spc[Main] # "idle") /\ ~timedOut => \A c \in Callers : req[c] = "idle"
  /\ req \in [Callers -> {"idle", "serving", "logged"}]

\* The main goroutine is the one that calls Shutdown.
LEMMA MainStops == Main \in Stoppers /\ \A s \in Stoppers : s = Main
BY PipelineAssumption

-----------------------------------------------------------------------------
(* The pipeline implements the worker and the feed.                         *)

\* Every step of the pipeline is a step of the worker or leaves it alone.
LEMMA StepOfWorker == ASSUME [Next]_vars PROVE [LogNext]_logVars
<1>1. ASSUME NEW c \in Callers, ServeBegin(c) \/ ServeLog(c) \/ ServeSubmit(c) \/ ServeEnd(c)
      PROVE  [LogNext]_logVars
  BY <1>1 DEF ServeBegin, ServeLog, ServeSubmit, ServeEnd, LogNext
<1>2. ASSUME NEW h \in Handlers, StreamBegin(h) \/ StreamRuns(h) PROVE UNCHANGED logVars
  BY <1>2 DEF StreamBegin, StreamRuns
<1>3. ASSUME NEW w \in Workers, WorkerRuns(w) \/ WorkerPublishes(w) PROVE [LogNext]_logVars
  BY <1>3 DEF WorkerRuns, WorkerPublishes, LogNext, WorkerStep
<1>4. CASE PruneEnd \/ PruneTick \/ PruneExit \/ Signal \/ ServeFails \/ HTTPTimeout
  BY <1>4 DEF PruneEnd, PruneTick, PruneExit, Signal, ServeFails, HTTPTimeout
<1>5. CASE DrainDeadline
  BY <1>5 DEF DrainDeadline, LogNext
<1>6. CASE MainStep
  <2>1. CASE DrainWorker
    BY <2>1, MainStops DEF DrainWorker, LogNext
  <2>2. CASE ~DrainWorker
    BY <1>6, <2>2 DEF MainStep, CloseFeed, StopPruner, JoinPruner, CloseHTTP, HTTPDrained,
                      ShutdownDone, CloseStore
  <2> QED  BY <2>1, <2>2
<1>7. CASE UNCHANGED vars
  BY <1>7 DEF vars
<1> QED  BY <1>1, <1>2, <1>3, <1>4, <1>5, <1>6, <1>7 DEF Next

\* Every step of the pipeline is a step of the feed or leaves it alone: the
\* entry a worker publishes is a row the feed has not seen.
LEMMA StepOfFeed ==
  ASSUME LogTypeOK, EntryOnce, publishedRows = published, [Next]_vars
  PROVE  [FeedNext]_feedVars /\ publishedRows' = published'
<1>1. ASSUME NEW c \in Callers, ServeBegin(c) \/ ServeLog(c) \/ ServeSubmit(c) \/ ServeEnd(c)
      PROVE  UNCHANGED feedVars /\ UNCHANGED published
  BY <1>1 DEF ServeBegin, ServeLog, ServeSubmit, ServeEnd, SubmitBegin, SubmitStopped, SubmitReturns,
              SubmitSend, SubmitFull, SubmitRollback, SubmitDropped, logVars
<1>2. ASSUME NEW h \in Handlers, StreamBegin(h) \/ StreamRuns(h)
      PROVE  [FeedNext]_feedVars /\ UNCHANGED <<publishedRows, published>>
  <2>1. FeedNext /\ UNCHANGED logVars
    BY <1>2 DEF StreamBegin, StreamRuns, FeedNext, HandlerNext
  <2>2. UNCHANGED publishedRows
    BY <1>2 DEF StreamBegin, StreamRuns, Subscribe, StreamStep, StreamTop, StreamTopWriteError,
                StreamTick, StreamGone, StreamRecv, StreamEnd, Cancel, Returns
  <2> QED  BY <2>1, <2>2 DEF logVars
<1>3. ASSUME NEW w \in Workers, WorkerRuns(w) PROVE UNCHANGED feedVars /\ UNCHANGED published
  BY <1>3 DEF WorkerRuns, WorkerTop, WorkerExit, WorkerTake, WorkerLogged, WorkerFailed, WorkerCount
<1>4. ASSUME NEW w \in Workers, WorkerPublishes(w)
      PROVE  FeedNext /\ publishedRows' = published'
  <2>1. wpc[w] = "publish" /\ published' = published \cup {held[w]}
        /\ publishedRows' = publishedRows \cup {held[w]} /\ Publish(held[w])
    BY <1>4 DEF WorkerPublishes, WorkerPublish, Publish
  <2>2. held[w] \in (1..attempts) \ published /\ attempts <= MaxAttempts
    BY <2>1 DEF EntryOnce, EntriesPending, Carrying
  <2>3. attempts \in Nat /\ MaxAttempts \in Nat /\ Rows = 1..MaxAttempts
    BY LogWorkerAssumption, PipelineAssumption DEF LogTypeOK, Entries
  <2>4. held[w] \in Rows \ publishedRows
    BY SMTT(60), <2>2, <2>3
  <2> QED  BY <2>1, <2>4 DEF FeedNext
<1>5. CASE PruneEnd \/ PruneTick \/ PruneExit \/ Signal \/ ServeFails \/ HTTPTimeout
  BY <1>5 DEF PruneEnd, PruneTick, PruneExit, Signal, ServeFails, HTTPTimeout, feedVars, logVars
<1>6. CASE DrainDeadline
  BY <1>6 DEF DrainDeadline, DeadlineCancel, DeadlineQuit, feedVars
<1>7. CASE MainStep
  <2>1. CASE CloseFeed
    BY <2>1 DEF CloseFeed, Close, FeedNext, logVars
  <2>2. CASE DrainWorker
    BY <2>2 DEF DrainWorker, ShutdownLock, ShutdownClose, ShutdownReturn, feedVars
  <2>3. CASE ~CloseFeed /\ ~DrainWorker
    BY <1>7, <2>3 DEF MainStep, StopPruner, JoinPruner, CloseHTTP, HTTPDrained, ShutdownDone,
                      CloseStore, feedVars, logVars
  <2> QED  BY <2>1, <2>2, <2>3
<1>8. CASE UNCHANGED vars
  BY <1>8 DEF vars, feedVars, logVars
<1> QED
  BY <1>1, <1>2, <1>3, <1>4, <1>5, <1>6, <1>7, <1>8 DEF Next, feedVars

\* The pipeline implements the log worker: its requests, workers and main
\* goroutine are callers, workers and a Shutdown call of LogWorker.
THEOREM PipelineImplementsWorker == Spec => LogSpec
<1>1. Init => LogInit
  BY DEF Init
<1>2. [Next]_vars => [LogNext]_logVars
  BY StepOfWorker
<1> QED  BY <1>1, <1>2, PTL DEF Spec, LogSpec

\* What the worker keeps, it keeps in the pipeline.
LEMMA WorkerInPipeline == Spec => [](LogIndInv /\ LogTypeOK /\ EntryOnce)
BY PipelineImplementsWorker, Invariance, TypeCorrect, EntriesHandledOnce, PTL

\* What the feed saw is what the workers published.
LEMMA SameRows == Spec => [](publishedRows = published)
<1>1. Init => publishedRows = published
  BY DEF Init, LogInit, FeedInit
<1>2. LogIndInv /\ LogTypeOK /\ EntryOnce /\ publishedRows = published /\ [Next]_vars =>
        (publishedRows = published)'
  BY StepOfFeed
<1> QED  BY <1>1, <1>2, WorkerInPipeline, PTL DEF Spec

\* The pipeline implements the live feed: a worker publishes a row at most once.
THEOREM PipelineImplementsFeed == Spec => FeedSpec
<1>1. Init => FeedInit
  BY DEF Init
<1>2. LogIndInv /\ LogTypeOK /\ EntryOnce /\ publishedRows = published /\ [Next]_vars =>
        [FeedNext]_feedVars
  BY StepOfFeed
<1> QED  BY <1>1, <1>2, WorkerInPipeline, SameRows, PTL DEF Spec, FeedSpec

\* What a stream may rely on holds with the worker, the requests and the teardown
\* around it.
THEOREM FeedSoundInPipeline == Spec => []FeedSound
BY PipelineImplementsFeed, FeedAlwaysSound, PTL

\* A stream the teardown ends has been told of its drops.
THEOREM EndSurfacesDropsInPipeline == Spec => EndSurfacesDrops
BY PipelineImplementsFeed, EndAlwaysSurfacesDrops, PTL

-----------------------------------------------------------------------------
(* Teardown.                                                                *)

\* The server starts with nothing torn down.
LEMMA InitTeardown == Init => TeardownInv
<1> SUFFICES ASSUME Init PROVE TeardownInv
  OBVIOUS
<1>1. storeClosed \in BOOLEAN /\ timedOut \in BOOLEAN /\ ~storeClosed /\ ~stopped
  BY DEF Init, LogInit
<1>2. spc[Main] = "idle" /\ mpc = "serving" /\ req \in [Callers -> {"idle", "serving", "logged"}]
  BY MainStops DEF Init, LogInit
<1> QED  BY <1>1, <1>2 DEF TeardownInv

\* Serving, streaming and pruning keep the order of the teardown.
LEMMA ServingTeardown ==
  ASSUME LogTypeOK, TeardownInv,
         \/ \E c \in Callers : ServeBegin(c) \/ ServeLog(c) \/ ServeSubmit(c) \/ ServeEnd(c)
         \/ \E h \in Handlers : StreamBegin(h) \/ StreamRuns(h)
         \/ \E w \in Workers : WorkerRuns(w) \/ WorkerPublishes(w)
         \/ PruneEnd \/ PruneTick \/ PruneExit \/ DrainDeadline
  PROVE  TeardownInv'
<1>1. ASSUME NEW c \in Callers, ServeBegin(c) \/ ServeLog(c) \/ ServeSubmit(c) \/ ServeEnd(c)
      PROVE  TeardownInv'
  <2>1. UNCHANGED <<stopped, spc, mpc, timedOut, ppc, storeClosed>>
    BY <1>1 DEF ServeBegin, ServeLog, ServeSubmit, ServeEnd, SubmitBegin, SubmitStopped, SubmitReturns,
                SubmitSend, SubmitFull, SubmitRollback, SubmitDropped, logVars, control, svars
  <2>2. \/ req' = [req EXCEPT ![c] = "serving"] /\ Accepting
        \/ req' = [req EXCEPT ![c] = "logged"] /\ req[c] = "serving"
        \/ req' = [req EXCEPT ![c] = "idle"]
        \/ req' = req
    BY <1>1 DEF ServeBegin, ServeLog, ServeSubmit, ServeEnd, svars
  <2> QED  BY <2>1, <2>2 DEF TeardownInv, Accepting
<1>2. ASSUME UNCHANGED <<stopped, spc, mpc, timedOut, ppc, storeClosed, req>> PROVE TeardownInv'
  BY <1>2 DEF TeardownInv
<1>3. ASSUME NEW h \in Handlers, StreamBegin(h) \/ StreamRuns(h) PROVE TeardownInv'
  BY <1>2, <1>3 DEF StreamBegin, StreamRuns, logVars, control, svars
<1>4. ASSUME NEW w \in Workers, WorkerRuns(w) \/ WorkerPublishes(w) PROVE TeardownInv'
  BY <1>2, <1>4 DEF WorkerRuns, WorkerPublishes, WorkerTop, WorkerExit, WorkerTake, WorkerLogged,
                    WorkerFailed, WorkerCount, WorkerPublish, control, svars
<1>5. CASE PruneEnd \/ PruneTick \/ PruneExit
  BY SMTT(60), <1>5 DEF PruneEnd, PruneTick, PruneExit, logVars, control, TeardownInv
<1>6. CASE DrainDeadline
  BY <1>2, <1>6 DEF DrainDeadline, DeadlineCancel, DeadlineQuit, svars
<1> QED  BY <1>1, <1>3, <1>4, <1>5, <1>6

\* The main goroutine's own steps keep it.
LEMMA MainTeardown ==
  ASSUME LogTypeOK, TeardownInv, Signal \/ ServeFails \/ MainStep \/ HTTPTimeout
  PROVE  TeardownInv'
<1>1. CASE DrainWorker
  <2>1. spc \in [Stoppers -> StopperPC] /\ Main \in Stoppers
    BY MainStops DEF LogTypeOK
  <2>2. mpc = "drain" /\ UNCHANGED <<req, mpc, timedOut, ppc, storeClosed>>
    BY <1>1 DEF DrainWorker, svars
  <2>3. \/ spc[Main] = "idle" /\ spc'[Main] = "locking" /\ ~stopped /\ UNCHANGED stopped
        \/ spc'[Main] = "draining"
        \/ spc'[Main] = "returned"
    BY <1>1, <2>1 DEF DrainWorker, ShutdownLock, ShutdownClose, ShutdownReturn, StopperGoto
  <2> QED  BY SMTT(60), <2>2, <2>3 DEF TeardownInv
<1>2. CASE HTTPDrained
  BY <1>2 DEF HTTPDrained, MainGoto, TeardownInv, logVars, control
<1>3. CASE JoinPruner
  BY <1>3 DEF JoinPruner, MainGoto, TeardownInv, logVars, control
<1>4. CASE ShutdownDone
  BY <1>4 DEF ShutdownDone, MainGoto, TeardownInv, logVars, control
<1>5. CASE CloseStore
  <2>1. storeClosed' \in BOOLEAN
    BY <1>5 DEF CloseStore
  <2> QED  BY <1>5, <2>1 DEF CloseStore, MainGoto, TeardownInv, logVars, control
<1>6. CASE HTTPTimeout
  <2>1. timedOut' \in BOOLEAN /\ timedOut'
    BY <1>6 DEF HTTPTimeout
  <2> QED  BY <1>6, <2>1 DEF HTTPTimeout, MainGoto, TeardownInv, logVars, control
<1>7. CASE Signal \/ ServeFails \/ CloseFeed \/ StopPruner \/ CloseHTTP
  BY SMTT(60), <1>7 DEF Signal, ServeFails, CloseFeed, StopPruner, CloseHTTP, MainGoto, TeardownInv, logVars, control
<1> QED  BY <1>1, <1>2, <1>3, <1>4, <1>5, <1>6, <1>7 DEF MainStep

\* Every step keeps the order of the teardown.
LEMMA NextTeardown == ASSUME LogTypeOK, TeardownInv, [Next]_vars PROVE TeardownInv'
<1>1. CASE UNCHANGED vars
  BY <1>1 DEF vars, logVars, control, svars, TeardownInv
<1> QED  BY <1>1, ServingTeardown, MainTeardown DEF Next

\* Every row offered to a stream is in the store.
OfferedDurable == \A h \in Handlers : \A i \in 1..Len(offered[h]) : offered[h][i] \in rows

\* A worker publishes what it wrote, and the store only grows.
LEMMA NextOfferedDurable ==
  ASSUME LogIndInv, FeedTypeOK, OfferedDurable, [Next]_vars
  PROVE  OfferedDurable'
<1>1. rows \subseteq rows'
  <2>1. [LogNext]_logVars
    BY StepOfWorker
  <2>2. ASSUME NEW c \in Callers, SubmitStopped(c) \/ SubmitBegin(c) \/ SubmitReturns(c)
        PROVE  UNCHANGED rows
    BY <2>2 DEF SubmitStopped, SubmitBegin, SubmitReturns, SubmitSend, SubmitFull, SubmitRollback,
                SubmitDropped
  <2>3. ASSUME NEW w \in Workers, WorkerStep(w) PROVE rows \subseteq rows'
    BY <2>3 DEF WorkerStep, WorkerTop, WorkerExit, WorkerTake, WorkerLogged, WorkerFailed, WorkerCount,
                WorkerPublish
  <2>4. ASSUME NEW s \in Stoppers,
               ShutdownLock(s) \/ ShutdownClose(s) \/ ShutdownJoin(s) \/ ShutdownReturn(s)
        PROVE  UNCHANGED rows
    BY <2>4 DEF ShutdownLock, ShutdownClose, ShutdownJoin, ShutdownReturn
  <2>5. CASE DeadlineCancel \/ DeadlineQuit \/ UNCHANGED logVars
    BY <2>5 DEF DeadlineCancel, DeadlineQuit, logVars
  <2> QED  BY <2>1, <2>2, <2>3, <2>4, <2>5 DEF LogNext
<1>2. CASE UNCHANGED offered
  BY <1>1, <1>2 DEF OfferedDurable
<1>3. ASSUME NEW w \in Workers, WorkerPublishes(w) PROVE OfferedDurable'
  <2>1. held[w] \in rows /\ Publish(held[w])
    BY <1>3 DEF WorkerPublishes, WorkerPublish, LogIndInv, ControlInv, CountedIsDurable
  <2> SUFFICES ASSUME NEW h \in Handlers, NEW i \in 1..Len(offered'[h]) PROVE offered'[h][i] \in rows
    BY <1>1 DEF OfferedDurable
  <2>2. offered[h] \in Seq(Rows) /\ \A j \in 1..Len(offered[h]) : offered[h][j] \in rows
    BY DEF FeedTypeOK, OfferedDurable
  <2>3. offered'[h] = Append(offered[h], held[w]) \/ offered'[h] = offered[h]
    BY <2>1 DEF Publish
  <2> QED  BY SMTT(60), <2>1, <2>2, <2>3
<1>4. ASSUME NEW w \in Workers, WorkerRuns(w) PROVE UNCHANGED offered
  BY <1>4 DEF WorkerRuns, feedVars
<1>5. ASSUME NEW c \in Callers, ServeBegin(c) \/ ServeLog(c) \/ ServeSubmit(c) \/ ServeEnd(c)
      PROVE  UNCHANGED offered
  BY <1>5 DEF ServeBegin, ServeLog, ServeSubmit, ServeEnd, feedVars
<1>6. ASSUME NEW h \in Handlers, StreamBegin(h) \/ StreamRuns(h) PROVE UNCHANGED offered
  BY <1>6 DEF StreamBegin, StreamRuns, Subscribe, StreamStep, StreamTop, StreamTopWriteError, StreamTick,
              StreamGone, StreamRecv, StreamEnd, Cancel, Returns
<1>7. CASE MainStep
  BY <1>2, <1>7 DEF MainStep, CloseFeed, Close, StopPruner, JoinPruner, CloseHTTP, HTTPDrained, DrainWorker,
              ShutdownDone, CloseStore, feedVars
<1>8. CASE PruneEnd \/ PruneTick \/ PruneExit \/ Signal \/ ServeFails \/ HTTPTimeout \/ DrainDeadline
  BY <1>2, <1>8 DEF PruneEnd, PruneTick, PruneExit, Signal, ServeFails, HTTPTimeout, DrainDeadline, feedVars
<1>9. CASE UNCHANGED vars
  BY <1>2, <1>9 DEF vars, feedVars
<1> QED  BY <1>2, <1>3, <1>4, <1>5, <1>6, <1>7, <1>8, <1>9 DEF Next

-----------------------------------------------------------------------------
\* Teardown is in order: once the store is closed after Server.Shutdown no worker
\* and no pruner is left to use it, no request submits after the drain unless
\* waiting for requests timed out, and every row a stream is offered is stored.
THEOREM TeardownAlwaysOrdered == Spec => []TeardownOrdered
<1>1. TeardownInv /\ LogIndInv /\ LogTypeOK /\ publishedRows = published /\ OfferedDurable =>
        TeardownOrdered
  <2> SUFFICES ASSUME TeardownInv, LogIndInv, LogTypeOK, publishedRows = published, OfferedDurable
               PROVE  TeardownOrdered
    OBVIOUS
  <2>1. StoreUnusedAfterClose
    <3>1. spc[Main] = "returned" => \A w \in Workers : wpc[w] = "exited"
      BY MainStops DEF LogIndInv, ControlInv, NoWorkerAfterShutdown
    <3> QED  BY <3>1 DEF StoreUnusedAfterClose, TeardownInv
  <2>2. NoLateSubmit
    BY DEF NoLateSubmit, TeardownInv
  <2>3. FeedIsDurable
    BY DEF FeedIsDurable, OfferedDurable
  <2> QED  BY <2>1, <2>2, <2>3 DEF TeardownOrdered
<1>2. Spec => []TeardownInv
  <2>1. LogIndInv /\ LogTypeOK /\ EntryOnce /\ TeardownInv /\ [Next]_vars => TeardownInv'
    BY NextTeardown
  <2> QED  BY <2>1, InitTeardown, WorkerInPipeline, PTL DEF Spec
<1>3. Spec => []FeedTypeOK
  <2>1. FeedInv => FeedTypeOK
    BY DEF FeedInv, FeedIndInv
  <2> QED  BY <2>1, PipelineImplementsFeed, FeedInvariant, PTL
<1>4. Spec => []OfferedDurable
  <2>1. Init => OfferedDurable
    <3>1. ASSUME Init, NEW h \in Handlers PROVE Len(offered[h]) = 0
      BY <3>1 DEF Init, FeedInit
    <3> QED  BY SMTT(60), <3>1 DEF OfferedDurable
  <2>2. LogIndInv /\ LogTypeOK /\ EntryOnce /\ FeedTypeOK /\ OfferedDurable /\ [Next]_vars =>
          OfferedDurable'
    BY NextOfferedDurable
  <2> QED  BY <1>3, <2>1, <2>2, WorkerInPipeline, PTL DEF Spec
<1> QED  BY <1>1, <1>2, <1>4, WorkerInPipeline, SameRows, PTL

\* A graceful exit accounts for every request served: each was written, failed or
\* dropped on overflow before the store was closed.
THEOREM GracefulExitAlwaysAccounts == Spec => []GracefulExitAccounts
<1>1. LogIndInv => GracefulExitAccounts
  BY CleanDrain DEF GracefulExitAccounts
<1> QED  BY <1>1, WorkerInPipeline, PTL
=============================================================================
