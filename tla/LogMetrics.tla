------------------------------ MODULE LogMetrics ------------------------------
(***************************************************************************)
(* LogWorker.Metrics (log_worker.go): a reader loads the four counters one *)
(* after the other while Submit and the workers go on updating them.       *)
(* Server.Shutdown reads them once, after LogWorker.Shutdown returned.     *)
(***************************************************************************)
EXTENDS LogWorker

VARIABLES loaded,     \* how many of the loads are done
          snap,       \* the values loaded, by counter
          settled     \* Shutdown had returned when the first one was made

mvars == <<logVars, loaded, snap, settled>>

Loads == <<"submitted", "written", "dropped", "failed">>

MetricsInit ==
  /\ LogInit
  /\ loaded = 0
  /\ snap = [name \in {"submitted", "written", "dropped", "failed"} |-> 0]
  /\ settled = FALSE

Counter(name) ==
  CASE name = "submitted" -> submitted
    [] name = "written"   -> written
    [] name = "dropped"   -> dropped
    [] name = "failed"    -> failed

\* One atomic load; the first one notes whether Shutdown had returned.
MetricsLoad ==
  /\ loaded < Len(Loads)
  /\ loaded' = loaded + 1
  /\ snap' = [snap EXCEPT ![Loads[loaded + 1]] = Counter(Loads[loaded + 1])]
  /\ settled' = IF loaded = 0 THEN \E s \in Stoppers : spc[s] = "returned" ELSE settled
  /\ UNCHANGED logVars

MetricsNext == MetricsLoad \/ (LogNext /\ UNCHANGED <<loaded, snap, settled>>)

MetricsSpec == MetricsInit /\ [][MetricsNext]_mvars

-----------------------------------------------------------------------------
\* A snapshot taken after Shutdown, as Server.Shutdown logs it, is exact: what
\* it shows submitted and neither written nor failed is what the deadline left
\* in the queue.  Submit calls still arriving move Dropped only.
SettledSnapshotExact ==
  loaded = Len(Loads) /\ settled =>
    snap["submitted"] = snap["written"] + snap["failed"] + Len(queue)
=============================================================================
