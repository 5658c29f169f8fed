-------------------------------- MODULE MCLogs --------------------------------
(***************************************************************************)
(* The two halves of the interaction log, each on its own; LogPipeline     *)
(* composes them.  `part` says which one runs.                             *)
(*                                                                         *)
(* "worker": two request goroutines, two workers, two Shutdown callers, a  *)
(* reader of the counters, a one-slot queue and three Submit calls: the    *)
(* queue overflows, entries are written concurrently, calls of Submit      *)
(* arrive before, during and after Shutdown, a second Shutdown joins the   *)
(* first, and the counters are read at any moment.                         *)
(*                                                                         *)
(* "feed": two streams, two tenants and the unscoped caller, three rows,   *)
(* one-slot buffers: buffers overflow, streams of different tenants        *)
(* diverge, and subscribing, leaving, publishing and closing interleave.   *)
(***************************************************************************)
EXTENDS LogMetrics, LogBroadcaster, TLC

CONSTANTS c1, c2, w1, w2, s1, s2, h1, h2, ta, tb, none

VARIABLE part

MCCallers  == {c1, c2}
MCWorkers  == {w1, w2}
MCStoppers == {s1, s2}
MCHandlers == {h1, h2}
MCTenantOf == [r \in 1..3 |-> IF r = 2 THEN ta ELSE tb]

MCInit == part \in {"worker", "feed"} /\ MetricsInit /\ FeedInit
MCNext == /\ \/ part = "worker" /\ MetricsNext /\ UNCHANGED feedVars
             \/ part = "feed" /\ FeedNext /\ UNCHANGED mvars
          /\ UNCHANGED part
MCSpec == MCInit /\ [][MCNext]_<<mvars, feedVars, part>>

Symmetry == Permutations(MCCallers) \cup Permutations(MCWorkers)
              \cup Permutations(MCStoppers)
=============================================================================
