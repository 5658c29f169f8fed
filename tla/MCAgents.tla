------------------------------- MODULE MCAgents -------------------------------
(***************************************************************************)
(* Definitions on disk and in the registries; `part` says what runs.       *)
(*                                                                         *)
(* "watcher": one tenant, two files of an empty directory, two callbacks   *)
(* that may overlap and three edits.  "api": two tenants that own an agent *)
(* of the same name and a global agent whose file is there when the server *)
(* starts, three calls.  "pipeline": three editors of one pipeline and two *)
(* edits on disk.  Models are left out: MCTenants covers the indexes.      *)
(***************************************************************************)
EXTENDS AgentFiles, PipelineEditor

CONSTANTS Parts, global, t1, t2, noModel, nil, f1, f2, f3, missing, invalid,
          w1, w2, c1, c2, c3

VARIABLE part

Doc(o, n, v) == [owner |-> o, name |-> n, model |-> noModel, ver |-> v]

MCNames    == {1, 2}
OneTenant  == {Doc(global, 1, 1), Doc(global, 1, 2), Doc(global, 2, 1)}
OneAgent   == {Doc(global, 1, 1), Doc(global, 1, 2)}
EmptyDir   == [f \in Files |-> missing]
NameFile   == [on \in Owners \X Names |-> IF on[2] = 1 THEN f1 ELSE f2]
TwoTenants == {Doc(t1, 1, 1), Doc(t2, 1, 1), Doc(global, 2, 1)}
BootGlobal == [f \in {f1, f2, f3} |-> IF f = f3 THEN Doc(global, 2, 1) ELSE missing]
TenantFile == [on \in Owners \X Names |->
                 IF on[1] = t1 THEN f1 ELSE IF on[1] = t2 THEN f2 ELSE f3]

A == INSTANCE AgentFiles WITH
       Files <- {f1, f2, f3}, Docs <- TwoTenants, Boot <- BootGlobal,
       DefaultFile <- TenantFile, Clients <- {c1, c2, c3}, MaxEdits <- 0

ASSUME A!FilesAssumption

mcvars == <<fvars, editorVars, part>>

MCInit == part \in Parts /\ EditorInit /\ IF part = "api" THEN A!FInit ELSE FInit
MCNext == /\ \/ part = "watcher" /\ FNext /\ UNCHANGED editorVars
             \/ part = "api" /\ A!FNext /\ UNCHANGED editorVars
             \/ part = "pipeline" /\ EditorNext /\ UNCHANGED fvars
          /\ UNCHANGED part
MCSpec == MCInit /\ [][MCNext]_mcvars

\* Callbacks run to their end, and main runs Stop once it has begun.
Watching(action) == part = "watcher" /\ action /\ UNCHANGED <<editorVars, part>>
MCFairSpec == /\ MCSpec
              /\ \A w \in Reloaders : WF_mcvars(Watching(Callback(w)))
              /\ WF_mcvars(Watching(LoopExits \/ StopReturns))

\* Once all file events are handled the registry is what the directory says,
\* whether its watcher or the API wrote last (AgentFiles).
DirectoryServed ==
  /\ part = "watcher" => SettledMatchesDisk
  /\ part = "api" => A!SettledFilesServe

\* Stop, once begun, returns: it waits only for callbacks that end (AgentFiles).
WatcherStops == (part = "watcher" /\ stopPC = "closed") ~> stopPC = "stopped"
=============================================================================
