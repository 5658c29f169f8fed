-------------------------- MODULE PipelineEditor --------------------------
(* Editing one pipeline through the API (server/pipeline_handlers.go): GET with its ETag,
   PUT with If-Match under writeMu, over the registry (engine/pipeline_registry.go) and
   the source file, which someone may also edit or delete on disk.

   A definition is a number.  The bytes of a file are [def, form]: a hand-written file
   differs from the canonical YAML the server marshals, and the SHA-256 of the bytes is
   the bytes themselves.                                                                *)
EXTENDS Integers, FiniteSets

CONSTANTS Editors,      \* numbers of the API clients; editor e saves definition e
          MaxTouches    \* bound: number of edits made on disk

VARIABLES live,      \* PipelineRegistry.pipelines: the definition that runs
          file,      \* bytes of its source file
          writeMu,   \* holder of writeMu, 0 when free
          ed,        \* the editors
          touches,   \* edits on disk so far
          audit      \* editors whose save the audit log records

editorVars == <<live, file, writeMu, ed, touches, audit>>

NoFile == [def |-> 0, form |-> "none"]
Canon(d) == [def |-> d, form |-> "canon"]      \* yaml.Marshal
Shipped == 100                                  \* the definition loaded at start

\* The definitions editors save, the shipped one and those put on disk differ.
ASSUME EditorsAssumption == Editors \subseteq 1..(Shipped - 1)

(* pipelineVersion: the hash of the source file, or, when the file is gone, of the
   marshalled definition in memory.                                                     *)
pipelineVersion == IF file # NoFile THEN file ELSE Canon(live)

EditorInit ==
  /\ live = Shipped
  /\ file = [def |-> Shipped, form |-> "hand"]
  /\ writeMu = 0
  /\ ed = [e \in Editors |-> [pc |-> "idle"]]
  /\ touches = 0
  /\ audit = {}

(* GetPipeline, first half: the definition comes from the registry. *)
GetDefinition(e) ==
  /\ ed[e].pc = "idle"
  /\ ed' = [ed EXCEPT ![e] = [pc |-> "got", loaded |-> live]]
  /\ UNCHANGED <<live, file, writeMu, touches, audit>>

(* GetPipeline, second half: the ETag comes from the file. *)
GetVersion(e) ==
  /\ ed[e].pc = "got"
  /\ ed' = [ed EXCEPT ![e] = [pc |-> "editing", loaded |-> @.loaded, etag |-> pipelineVersion]]
  /\ UNCHANGED <<live, file, writeMu, touches, audit>>

(* UpdatePipeline before the lock: the body is read, must name the path and validate, and
   its agent refs must be known.  A body that fails is answered and nothing is written.     *)
PutRefused(e) ==
  /\ ed[e].pc = "editing"
  /\ ed' = [ed EXCEPT ![e] = [pc |-> "refused"]]
  /\ UNCHANGED <<live, file, writeMu, touches, audit>>

(* UpdatePipeline takes writeMu and compares If-Match with the current version: 412 when
   the file has changed, 428 without the header (an editor that sends none).            *)
PutCheckUnlocked(e, sent) ==
  /\ ed[e].pc = "editing"
  /\ IF sent /\ ed[e].etag = pipelineVersion
     THEN ed' = [ed EXCEPT ![e] = [pc |-> "checked", loaded |-> @.loaded, etag |-> @.etag,
                                     seen |-> touches]]
     ELSE ed' = [ed EXCEPT ![e] = [pc |-> "refused"]]
  /\ UNCHANGED <<live, file, writeMu, touches, audit>>

PutCheck(e, sent) ==
  /\ ed[e].pc = "editing" /\ writeMu = 0
  /\ IF sent /\ ed[e].etag = pipelineVersion
     THEN /\ writeMu' = e
          /\ ed' = [ed EXCEPT ![e] = [pc |-> "checked", loaded |-> @.loaded, etag |-> @.etag,
                                     seen |-> touches]]
     ELSE /\ ed' = [ed EXCEPT ![e] = [pc |-> "refused"]]
          /\ UNCHANGED writeMu
  /\ UNCHANGED <<live, file, touches, audit>>

(* atomicWriteFile: a temporary file renamed over the source. *)
atomicWriteFile(e) == file' = Canon(e)

(* PipelineRegistry.RegisterWithSource; the source path stays the same. *)
RegisterPipeline(e) == live' = e

(* The write to the recorded source; it may fail and change nothing. *)
PutWrite(e) ==
  /\ ed[e].pc = "checked"
  /\ \/ /\ atomicWriteFile(e)
        /\ ed' = [ed EXCEPT ![e] = [pc |-> "written", loaded |-> @.loaded, etag |-> @.etag,
                                    replaced |-> pipelineVersion,
                                    meddled |-> touches # @.seen]]
        /\ UNCHANGED writeMu
     \/ /\ ed' = [ed EXCEPT ![e] = [pc |-> "refused"]]
        /\ writeMu' = IF writeMu = e THEN 0 ELSE writeMu
        /\ UNCHANGED file
  /\ UNCHANGED <<live, touches, audit>>

(* RegisterWithSource, the audit record, and the deferred unlock. *)
SaveRegister(e) ==
  /\ ed[e].pc = "written"
  /\ RegisterPipeline(e)
  /\ audit' = audit \cup {e}
  /\ ed' = [ed EXCEPT ![e].pc = "saved"]
  /\ writeMu' = IF writeMu = e THEN 0 ELSE writeMu
  /\ UNCHANGED <<file, touches>>

(* Someone edits or deletes the file on disk; the watcher does not reload pipelines. *)
TouchFile ==
  /\ touches < MaxTouches
  /\ touches' = touches + 1
  /\ file' \in {[def |-> Shipped + touches + 1, form |-> "hand"], NoFile} \ {file}
  /\ UNCHANGED <<live, writeMu, ed, audit>>

EditorNext ==
  \/ \E e \in Editors : \/ GetDefinition(e) \/ GetVersion(e) \/ PutRefused(e)
                        \/ \E sent \in BOOLEAN : PutCheck(e, sent)
                        \/ PutWrite(e) \/ SaveRegister(e)
  \/ TouchFile

EditorSpec == EditorInit /\ [][EditorNext]_editorVars

---------------------------------------------------------------------------
Saved == {e \in Editors : ed[e].pc \in {"written", "saved"}}

(* writeMu "serializes the read-version -> write -> re-register sequence so two concurrent
   saves can't interleave": no two saves replace the same version, a save replaces the
   version its If-Match named unless the disk was edited between its check and its write,
   and with no save under way and no edit on disk the definition that runs is the one in
   the file, and the audit log has it.                                                   *)
SavesSerialized ==
  /\ \A e, f \in Saved : e # f => ed[e].replaced # ed[f].replaced
  /\ \A e \in Saved : ed[e].replaced = ed[e].etag \/ ed[e].meddled
  /\ touches = 0 /\ writeMu = 0 => /\ file.def = live
                                   /\ live # Shipped => live \in audit

(* The 412 answer says "pipeline changed since it was loaded; reload and re-apply": a save
   that is accepted, the disk not being edited, replaces the definition its editor had
   loaded.                                                                               *)
ReplacesWhatWasLoaded ==
  touches = 0 => \A e \in Saved : ed[e].replaced.def = ed[e].loaded
===========================================================================
