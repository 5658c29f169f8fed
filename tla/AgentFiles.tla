------------------------------ MODULE AgentFiles ------------------------------
(***************************************************************************)
(* The agents directory and its three writers into the registry: the      *)
(* directory watcher (internal/server/watcher.go), the agent write API     *)
(* (agent_write_handlers.go) and the reload endpoint (handlers.go), above  *)
(* AgentRegistry.                                                          *)
(*                                                                         *)
(* A file holds a definition, an invalid document, or is missing.  A       *)
(* reload callback is a goroutine whose steps are the critical sections of *)
(* the watcher's lock and of the registry's lock and the read of the file. *)
(***************************************************************************)
EXTENDS AgentRegistry

CONSTANTS Docs,        \* definitions files may hold
          Boot,        \* file -> content when the server starts
          DefaultFile, \* agentFilePath: owner, name -> file
          Reloaders,   \* reload callbacks that can run at the same time
          Clients,     \* callers of the write and reload endpoints
          MaxEdits,    \* bound: edits made outside the server
          Missing, Invalid

ASSUME FilesAssumption ==
  /\ Docs \subseteq Defs
  /\ Boot \in [Files -> Docs \cup {Missing, Invalid}]
  /\ {Missing, Invalid} \cap Defs = {}
  /\ \A o \in Owners, n \in Names : DefaultFile[<<o, n>>] \in Files
  /\ MaxEdits \in Nat

VARIABLES
  disk,        \* the agents directory
  events,      \* files with an fsnotify event the loop has not read
  edits,       \* edits made so far
  current,     \* pending[path]: "none", "armed", or "fired" (callback not in yet)
  orphans,     \* armed timers of a path that pending no longer refers to
  fileAgents,  \* file -> name it last registered
  wpc, wpath, wdef, wname,   \* callbacks
  overlapped,  \* history: two callbacks were past the closed check at once
  closed, stopPC,            \* Stop
  apc, adef, afile   \* API calls: control point, definition, file

registry == <<agents, byModel, byModelTenant, sources>>
history  == <<edits, overlapped>>
timers   == <<current, orphans>>
callback == <<wpc, wpath, wdef, wname>>
stopping == <<closed, stopPC>>
api      == <<apc, adef, afile>>
fvars    == <<registry, disk, events, history, timers, fileAgents, callback,
              stopping, api>>

IsDoc(c) == c \notin {Missing, Invalid}

\* runStart registers the valid files; the watcher is not told of them.
BootAgents ==
  [o \in Owners |-> [n \in Names |->
     LET fs == {f \in Files : IsDoc(Boot[f]) /\ Boot[f].owner = o /\ Boot[f].name = n}
     IN  IF fs = {} THEN Nil ELSE Boot[CHOOSE f \in fs : TRUE]]]

FInit ==
  /\ disk = Boot
  /\ agents = BootAgents
  /\ byModel = [m \in Models |->
       IF \E d \in List : d.model = m THEN CHOOSE d \in List : d.model = m ELSE Nil]
  /\ byModelTenant = [m \in Models |-> ModelBucket(agents, m)]
  /\ sources = [o \in Owners |-> [n \in Names |->
       IF agents[o][n] = Nil THEN Nil ELSE CHOOSE f \in Files : Boot[f] = agents[o][n]]]
  /\ events = {} /\ edits = 0 /\ overlapped = FALSE
  /\ current = [f \in Files |-> "none"]
  /\ orphans = [f \in Files |-> 0]
  /\ fileAgents = [f \in Files |-> Nil]
  /\ wpc = [w \in Reloaders |-> "idle"]
  /\ wpath = [w \in Reloaders |-> Nil]
  /\ wdef = [w \in Reloaders |-> Nil]
  /\ wname = [w \in Reloaders |-> Nil]
  /\ closed = FALSE /\ stopPC = "running"
  /\ apc = [c \in Clients |-> "start"]
  /\ adef = [c \in Clients |-> Nil]
  /\ afile = [c \in Clients |-> Nil]

-----------------------------------------------------------------------------
(* Edits made outside the server: an editor, a deploy, git.                 *)

Changed(fs) == events' = events \cup fs

Edit(f, content) ==
  /\ edits < MaxEdits
  /\ disk[f] # content
  /\ disk' = [disk EXCEPT ![f] = content]
  /\ edits' = edits + 1
  /\ Changed({f})
  /\ UNCHANGED <<registry, overlapped, timers, fileAgents, callback, stopping, api>>

Rename(f, g) ==
  /\ edits < MaxEdits
  /\ f # g /\ disk[f] # Missing
  /\ disk' = [disk EXCEPT ![g] = disk[f], ![f] = Missing]
  /\ edits' = edits + 1
  /\ Changed({f, g})
  /\ UNCHANGED <<registry, overlapped, timers, fileAgents, callback, stopping, api>>

-----------------------------------------------------------------------------
(* The watcher's loop and its debounce timers.                              *)

DispatchSkipsBusy(f) ==   \* mutant: a path being reloaded is not scheduled again
  /\ stopPC \in {"running", "closed"}
  /\ f \in events
  /\ events' = events \ {f}
  /\ current' = IF closed \/ \E w \in Reloaders : wpath[w] = f THEN current
                ELSE [current EXCEPT ![f] = "armed"]
  /\ UNCHANGED <<registry, disk, history, orphans, fileAgents, callback, stopping, api>>

\* loop reads an event and schedules: the timer pending refers to is
\* stopped, which has no effect once it fired, and a new one is armed.
Dispatch(f) ==
  /\ stopPC \in {"running", "closed"}
  /\ f \in events
  /\ events' = events \ {f}
  /\ current' = IF closed THEN current ELSE [current EXCEPT ![f] = "armed"]
  /\ UNCHANGED <<registry, disk, history, orphans, fileAgents, callback, stopping, api>>

TimerFires(w, f) ==
  /\ wpc[w] = "idle"
  /\ \/ current[f] = "armed" /\ current' = [current EXCEPT ![f] = "fired"]
                             /\ UNCHANGED orphans
     \/ orphans[f] > 0 /\ orphans' = [orphans EXCEPT ![f] = @ - 1]
                       /\ UNCHANGED current
  /\ wpc' = [wpc EXCEPT ![w] = "fired"]
  /\ wpath' = [wpath EXCEPT ![w] = f]
  /\ UNCHANGED <<registry, disk, events, history, fileAgents, wdef, wname, stopping, api>>

\* delete(w.pending, path): also when the entry is a newer, armed timer.
DropPending(f) ==
  /\ current' = [current EXCEPT ![f] = "none"]
  /\ orphans' = [orphans EXCEPT ![f] = IF current[f] = "armed" THEN @ + 1 ELSE @]

Returns(w) ==
  /\ wpc' = [wpc EXCEPT ![w] = "idle"]
  /\ wpath' = [wpath EXCEPT ![w] = Nil]
  /\ wdef' = [wdef EXCEPT ![w] = Nil]
  /\ wname' = [wname EXCEPT ![w] = Nil]

\* Callbacks past the closed check, which Stop waits for.
Running == {w \in Reloaders : wpc[w] \notin {"idle", "fired"}}

CallbackBeginUnchecked(w) ==   \* mutant: closed is not looked at
  /\ wpc[w] = "fired"
  /\ DropPending(wpath[w])
  /\ wpc' = [wpc EXCEPT ![w] = "load"]
  /\ UNCHANGED <<wpath, wdef, wname>>
  /\ UNCHANGED <<registry, disk, events, history, fileAgents, stopping, api>>

CallbackBegin(w) ==
  /\ wpc[w] = "fired"
  /\ DropPending(wpath[w])
  /\ IF closed THEN Returns(w)
     ELSE wpc' = [wpc EXCEPT ![w] = "load"] /\ UNCHANGED <<wpath, wdef, wname>>
  /\ overlapped' = (overlapped \/ (~closed /\ Running # {}))
  /\ UNCHANGED <<registry, disk, events, edits, fileAgents, stopping, api>>

-----------------------------------------------------------------------------
(* reloadFile                                                               *)

Goto(w, pc) == wpc' = [wpc EXCEPT ![w] = pc]

LoadDoc(w) ==
  /\ wpc[w] = "load" /\ IsDoc(disk[wpath[w]])
  /\ wdef' = [wdef EXCEPT ![w] = disk[wpath[w]]]
  /\ Goto(w, "register")
  /\ UNCHANGED <<registry, disk, events, history, timers, fileAgents, wpath, wname,
                 stopping, api>>

LoadMissing(w) ==
  /\ wpc[w] = "load" /\ disk[wpath[w]] = Missing
  /\ Goto(w, "unregister")
  /\ UNCHANGED <<registry, disk, events, history, timers, fileAgents, wpath, wdef,
                 wname, stopping, api>>

LoadInvalidLeaks(w) ==   \* mutant: an early return without wg.Done
  /\ wpc[w] = "load" /\ disk[wpath[w]] = Invalid
  /\ Goto(w, "leaked")
  /\ UNCHANGED <<registry, disk, events, history, timers, fileAgents, wpath, wdef,
                 wname, stopping, api>>

LoadInvalid(w) ==
  /\ wpc[w] = "load" /\ disk[wpath[w]] = Invalid
  /\ Returns(w)
  /\ UNCHANGED <<registry, disk, events, history, timers, fileAgents, stopping, api>>

ReloadRegister(w) ==
  /\ wpc[w] = "register"
  /\ RegisterWithSource(wdef[w], wpath[w])
  /\ Goto(w, "remember")
  /\ UNCHANGED <<disk, events, history, timers, fileAgents, wpath, wdef, wname,
                 stopping, api>>

RememberFile(w) ==
  LET f == wpath[w]
      prev == fileAgents[f]
  IN  /\ wpc[w] = "remember"
      /\ fileAgents' = [fileAgents EXCEPT ![f] = wdef[w].name]
      /\ IF prev \notin {Nil, wdef[w].name}
         THEN /\ Goto(w, "claim") /\ wname' = [wname EXCEPT ![w] = prev]
              /\ UNCHANGED <<wpath, wdef>>
         ELSE Returns(w)
      /\ UNCHANGED <<registry, disk, events, history, timers, stopping, api>>

UnregisterFileIgnored(w) ==   \* mutant: a vanished file is only forgotten
  /\ wpc[w] = "unregister"
  /\ fileAgents' = [fileAgents EXCEPT ![wpath[w]] = Nil]
  /\ Returns(w)
  /\ UNCHANGED <<registry, disk, events, history, timers, stopping, api>>

UnregisterFile(w) ==
  LET f == wpath[w]
  IN  /\ wpc[w] = "unregister"
      /\ fileAgents' = [fileAgents EXCEPT ![f] = Nil]
      /\ IF fileAgents[f] # Nil
         THEN /\ Goto(w, "claim") /\ wname' = [wname EXCEPT ![w] = fileAgents[f]]
              /\ UNCHANGED <<wpath, wdef>>
         ELSE Returns(w)
      /\ UNCHANGED <<registry, disk, events, history, timers, stopping, api>>

CheckClaimedSkipped(w) ==   \* mutant: removeIfUnclaimed removes in any case
  /\ wpc[w] = "claim"
  /\ Goto(w, "remove") /\ UNCHANGED <<wpath, wdef, wname>>
  /\ UNCHANGED <<registry, disk, events, history, timers, fileAgents, stopping, api>>

CheckClaimed(w) ==
  /\ wpc[w] = "claim"
  /\ IF \E f \in Files : fileAgents[f] = wname[w]
     THEN Returns(w)
     ELSE Goto(w, "remove") /\ UNCHANGED <<wpath, wdef, wname>>
  /\ UNCHANGED <<registry, disk, events, history, timers, fileAgents, stopping, api>>

\* Registry.Remove(name), in every owner's bucket; its error is ignored.
RemoveUnclaimed(w) ==
  /\ wpc[w] = "remove"
  /\ \/ Remove(wname[w])
     \/ (\A o \in Owners : agents[o][wname[w]] = Nil) /\ UNCHANGED registry
  /\ Returns(w)
  /\ UNCHANGED <<disk, events, history, timers, fileAgents, stopping, api>>

-----------------------------------------------------------------------------
(* Stop                                                                     *)

StopBegin ==
  /\ stopPC = "running"
  /\ closed' = TRUE
  /\ current' = [f \in Files |-> "none"]
  /\ stopPC' = "closed"
  /\ UNCHANGED <<registry, disk, events, history, orphans, fileAgents, callback, api>>

LoopExits ==
  /\ stopPC = "closed"
  /\ stopPC' = "waiting"
  /\ UNCHANGED <<registry, disk, events, history, timers, fileAgents, callback, closed, api>>

\* wg.Wait: the callbacks past the closed check have returned.
StopReturns ==
  /\ stopPC = "waiting"
  /\ Running = {}
  /\ stopPC' = "stopped"
  /\ UNCHANGED <<registry, disk, events, history, timers, fileAgents, callback, closed, api>>

-----------------------------------------------------------------------------
(* The write API; its calls hold agentWriteMu from check to response.       *)

Writing == \E c \in Clients : apc[c] \in {"persisted", "unlinked"}

Target(o, n) == IF sources[o][n] # Nil THEN sources[o][n] ELSE DefaultFile[<<o, n>>]

Calls(c, pc, d, f) ==
  /\ apc' = [apc EXCEPT ![c] = pc]
  /\ adef' = [adef EXCEPT ![c] = d]
  /\ afile' = [afile EXCEPT ![c] = f]

Responds(c) == apc' = [apc EXCEPT ![c] = "done"] /\ UNCHANGED <<adef, afile>>

\* A call answered with an error changes nothing: an invalid document, a
\* conflict, no such agent, or a file that could not be written or removed.
Refused(c) ==
  /\ apc[c] = "start"
  /\ Responds(c)
  /\ UNCHANGED <<registry, disk, events, history, timers, fileAgents, callback, stopping>>

\* PutAgent, and CreateAgent when the caller owns no agent of that name:
\* persistAndRegister writes the file, then registers.
PutPersist(c, d) ==
  LET f == Target(d.owner, d.name)
  IN  /\ apc[c] = "start" /\ ~Writing
      /\ disk' = [disk EXCEPT ![f] = d]
      /\ Changed({f})
      /\ Calls(c, "persisted", d, f)
      /\ UNCHANGED <<registry, history, timers, fileAgents, callback, stopping>>

PutRegister(c) ==
  /\ apc[c] = "persisted"
  /\ RegisterWithSource(adef[c], afile[c])
  /\ Responds(c)
  /\ UNCHANGED <<disk, events, history, timers, fileAgents, callback, stopping>>

DeleteUnlink(c, o, n) ==
  LET f == Target(o, n)
  IN  /\ apc[c] = "start" /\ ~Writing
      /\ agents[o][n] # Nil
      /\ disk' = [disk EXCEPT ![f] = Missing]
      /\ Changed(IF disk[f] = Missing THEN {} ELSE {f})
      /\ Calls(c, "unlinked", agents[o][n], f)
      /\ UNCHANGED <<registry, history, timers, fileAgents, callback, stopping>>

DeleteUnregisterByName(c) ==   \* mutant: Remove instead of RemoveForTenant
  /\ apc[c] = "unlinked"
  /\ \/ Remove(adef[c].name)
     \/ (\A o \in Owners : agents[o][adef[c].name] = Nil) /\ UNCHANGED registry
  /\ Responds(c)
  /\ UNCHANGED <<disk, events, history, timers, fileAgents, callback, stopping>>

DeleteUnregister(c) ==
  LET d == adef[c]
  IN  /\ apc[c] = "unlinked"
      /\ \/ RemoveForTenant(d.name, d.owner)
         \/ agents[d.owner][d.name] = Nil /\ UNCHANGED registry
      /\ Responds(c)
      /\ UNCHANGED <<disk, events, history, timers, fileAgents, callback, stopping>>

\* ReloadAgent does not take agentWriteMu.
ReloadScan(c, f) ==
  /\ apc[c] = "start"
  /\ IsDoc(disk[f])
  /\ agents[disk[f].owner][disk[f].name] # Nil
  /\ Calls(c, "scanned", disk[f], f)
  /\ UNCHANGED <<registry, disk, events, history, timers, fileAgents, callback, stopping>>

ReloadRegisters(c) ==
  /\ apc[c] = "scanned"
  /\ RegisterWithSource(adef[c], afile[c])
  /\ Responds(c)
  /\ UNCHANGED <<disk, events, history, timers, fileAgents, callback, stopping>>

-----------------------------------------------------------------------------
Callback(w) ==
  \/ CallbackBegin(w) \/ LoadDoc(w) \/ LoadMissing(w) \/ LoadInvalid(w)
  \/ ReloadRegister(w) \/ RememberFile(w) \/ UnregisterFile(w)
  \/ CheckClaimed(w) \/ RemoveUnclaimed(w)

Stop == StopBegin \/ LoopExits \/ StopReturns

Client(c) ==
  \/ Refused(c) \/ PutRegister(c) \/ DeleteUnregister(c) \/ ReloadRegisters(c)
  \/ \E d \in Docs : PutPersist(c, d)
  \/ \E o \in Owners, n \in Names : DeleteUnlink(c, o, n)
  \/ \E f \in Files : ReloadScan(c, f)

FNext ==
  \/ \E f \in Files : \/ Dispatch(f)
                      \/ \E x \in Docs \cup {Missing, Invalid} : Edit(f, x)
                      \/ \E g \in Files : Rename(f, g)
                      \/ \E w \in Reloaders : TimerFires(w, f)
  \/ \E w \in Reloaders : Callback(w)
  \/ Stop
  \/ \E c \in Clients : Client(c)

FSpec == FInit /\ [][FNext]_fvars

\* Callbacks run to their end, and main runs Stop once it has begun.
FFairSpec ==
  /\ FSpec
  /\ \A w \in Reloaders : WF_fvars(Callback(w))
  /\ WF_fvars(LoopExits \/ StopReturns)

-----------------------------------------------------------------------------
(* Properties.                                                              *)

Settled ==
  /\ ~closed /\ events = {}
  /\ \A f \in Files : current[f] = "none" /\ orphans[f] = 0
  /\ \A w \in Reloaders : wpc[w] = "idle"
  /\ \A c \in Clients : apc[c] \in {"start", "done"}

FilesServe ==
  \A f \in Files : IsDoc(disk[f]) => agents[disk[f].owner][disk[f].name] # Nil

\* When all file events are handled, and no two reload callbacks ran at the
\* same time, every agent that a valid file declares is registered, whoever
\* wrote the file: a rename, its two events "processed in either order", does
\* not drop the agent (watcher.go:38-41), and neither a deletion by the
\* watcher nor one tenant's API call undoes the registration of another.
SettledFilesServe == Settled /\ ~overlapped => FilesServe

\* watcher.go:38-41, without the restriction to callbacks that do not overlap:
\* the claim check "keeps a file *rename* (old path removed, new path added,
\* processed in either order) from dropping the agent".
RenameKeepsAgent == Settled => FilesServe

\* When all file events are handled, and no two reload callbacks ran at the
\* same time, an agent is served in the version its source file now holds.
SettledServesLatest ==
  Settled /\ ~overlapped => \A f \in Files : IsDoc(disk[f]) =>
    LET d == disk[f] IN sources[d.owner][d.name] = f => agents[d.owner][d.name] = d

\* When all file events are handled, and no two reload callbacks ran at the
\* same time, no agent is left that no file declares: a removed file or a name
\* edited out of it unregisters the agent (watcher.go:31-33); an invalid file
\* keeps the definition it had.
SettledNoOrphan ==
  Settled /\ ~overlapped => \A o \in Owners, n \in Names : agents[o][n] # Nil =>
    \E f \in Files : disk[f] = Invalid \/ (IsDoc(disk[f]) /\ disk[f].name = n)

\* With the directory at rest the registry is what the files say: every agent
\* of a file is served, in its latest version, and no other.
SettledMatchesDisk == SettledFilesServe /\ SettledServesLatest /\ SettledNoOrphan

\* "nothing touches the registry after Stop returns" (watcher.go:114,
\* F-WT-001), whichever timers are still armed then.
StopQuiesces ==
  [][stopPC = "stopped" /\ UNCHANGED api => UNCHANGED registry]_fvars

\* Stop, once begun, returns: it waits only for callbacks that end.
StopFinishes == stopPC = "closed" ~> stopPC = "stopped"
=============================================================================
