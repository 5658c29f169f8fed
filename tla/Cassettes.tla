---------------------------- MODULE Cassettes ----------------------------
(* Record and playback (internal/recording and the record and replay commands): the
   in-memory Cassette with its JSON-lines file, the Proxy that forwards and records, and
   the Replay that serves recorded interactions in sequence, with the two options that
   change what a request is compared with: --match-ignore and --redact.

   A request is an endpoint and a JSON object; an object is a function from field names to
   values.  HashRequest canonicalises the body, so equal objects hash alike whatever their
   spelling, and the pair [path, body] stands for its SHA-256.  The server is started,
   killed and started again, each time with its own flags.                             *)
EXTENDS Integers, FiniteSets, Sequences, SequencesExt

CONSTANTS Requests,     \* numbers of the requests, in order of arrival
          Inputs,       \* the requests clients send: [path, body]
          Flags,        \* command lines: [mode, ignore (set of fields), redact]
          Answers,      \* what the upstream may answer: [status, cut, json]
          MaxStarts     \* bound: number of times the server is started

VARIABLES flags,        \* the command line of this life of the server
          effective,    \* the resolved record mode, "down" while the server is not running
          interactions, \* Cassette.interactions
          disk,         \* the cassette file
          cursor,       \* Replay.cursor
          builtLen,     \* Replay.builtLen
          rq,           \* the handlers
          starts,       \* number of starts so far
          torn          \* an append of this life overlapped a write, or a write failed

cvars == <<flags, effective, interactions, disk, cursor, builtLen, rq, starts, torn>>

Idle == [pc |-> "idle"]
Done == [pc |-> "done"]   \* answered, with nothing left to say about it

(* redactBody, for the one secret a body can hold. *)
redactBody(b) ==
  [f \in DOMAIN b |-> IF b[f] = "secret" THEN "***" ELSE b[f]]

(* Matcher.strip: the ignored top-level fields are removed. *)
strip(ignore, b) == [f \in DOMAIN b \ ignore |-> b[f]]

(* Matcher.Key; with no ignored field it is HashRequest of the whole body. *)
Key(ignore, q) == [path |-> q.path, body |-> strip(ignore, q.body)]

active == flags.ignore # {}

(* Mode.Resolve: `once` records only into a cassette that holds nothing. *)
Resolve(mode, recordedCount) ==
  CASE mode = "once" -> IF recordedCount > 0 THEN "none" ELSE "new_episodes"
    [] OTHER -> mode

Records == effective \in {"new_episodes", "all"}

(* The interactions a lookup compares with: by the hash taken of the original body before
   redaction, or, with a matcher, by the key of the stored body (the index having just
   been extended to the whole cassette).                                                *)
LookupSequence(q) ==
  SelectSeq(interactions, LAMBDA it : it.hash = q)

MatchIndexStale(q) ==
  SelectSeq(SubSeq(interactions, 1, builtLen),
            LAMBDA it : Key(flags.ignore, [path |-> it.hash.path, body |-> it.body])
                          = Key(flags.ignore, q))

MatchIndex(q) ==
  SelectSeq(interactions,
            LAMBDA it : Key(flags.ignore, [path |-> it.hash.path, body |-> it.body])
                          = Key(flags.ignore, q))

extendMatchIndex == builtLen' = IF active THEN Len(interactions) ELSE builtLen

Sequence(q) == IF active THEN MatchIndex(q) ELSE LookupSequence(q)

---------------------------------------------------------------------------
(* Diagnostics of a miss. *)

(* scoreBody: matching fields over all fields, as a fraction; two empty objects match. *)
scoreBody(a, b) ==
  LET union == DOMAIN a \cup DOMAIN b
      same  == {f \in DOMAIN a \cap DOMAIN b : a[f] = b[f]}
  IN IF union = {} THEN <<1, 1>> ELSE <<Cardinality(same), Cardinality(union)>>

Higher(s, t) == s[1] * t[2] > t[1] * s[2]

(* buildDiff: the fields that differ, by kind. *)
buildDiff(req, cand) ==
  [changed |-> {f \in DOMAIN req \cap DOMAIN cand : req[f] # cand[f]},
   missing |-> DOMAIN cand \ DOMAIN req,
   extra   |-> DOMAIN req \ DOMAIN cand]

NoDiff == [changed |-> {}, missing |-> {}, extra |-> {}]

(* nearestDiff: the position of the earliest recording of this endpoint with the highest
   score (0: the endpoint has none), and its differences.                               *)
nearestDiff(q) ==
  LET here == {i \in 1 .. Len(interactions) : interactions[i].hash.path = q.path}
      s(i) == scoreBody(q.body, interactions[i].body)
      best == {i \in here : \A j \in here : /\ ~ Higher(s(j), s(i))
                                            /\ j < i => Higher(s(i), s(j))}
  IN IF here = {} THEN [at |-> 0, diff |-> NoDiff]
     ELSE LET i == CHOOSE i \in best : TRUE
          IN [at |-> i, diff |-> buildDiff(q.body, interactions[i].body)]

---------------------------------------------------------------------------
CInit ==
  /\ flags = CHOOSE f \in Flags : TRUE
  /\ effective = "down"
  /\ interactions = <<>> /\ disk = <<>>
  /\ cursor = <<>> /\ builtLen = 0
  /\ rq = [r \in Requests |-> Idle]
  /\ starts = 0
  /\ torn = FALSE

(* Load: the interactions of the file, in file order; no file is an empty cassette. *)
Load == disk

(* runRecord and runReplay: Load the file, resolve the mode; replay-only over an empty
   cassette is refused.  `record` is the proxy alone, as is record mode `all`.          *)
Start(f) ==
  /\ effective = "down" /\ starts < MaxStarts
  /\ ~ (Resolve(f.mode, Len(Load)) = "none" /\ Load = <<>>)
  /\ starts' = starts + 1
  /\ flags' = f
  /\ effective' = Resolve(f.mode, Len(Load))
  /\ interactions' = Load
  /\ cursor' = [k \in {Key(f.ignore, q) : q \in Inputs} |-> 0]
  /\ builtLen' = 0
  /\ torn' = FALSE
  /\ UNCHANGED <<disk, rq>>

(* The process ends, with whatever its handlers were doing. *)
Kill ==
  /\ effective # "down"
  /\ effective' = "down"
  /\ interactions' = <<>> /\ cursor' = <<>> /\ builtLen' = 0
  /\ rq' = [r \in Requests |-> IF rq[r].pc = "idle" THEN Idle ELSE [pc |-> "gone"]]
  /\ torn' = FALSE
  /\ UNCHANGED <<flags, disk, starts>>

(* Replay.ServeHTTP up to the cursor: the request is hashed and its sequence looked up
   (the index being extended first).  A miss goes to the proxy when the mode records and
   is answered with diagnostics when not; mode `all` has no replay in front.            *)
Lookup(r, q) ==
  /\ effective # "down"
  /\ rq[r].pc = "idle" /\ \A s \in Requests : s < r => rq[s].pc # "idle"
  /\ IF effective = "all"
     THEN /\ rq' = [rq EXCEPT ![r] = [pc |-> "forward", q |-> q, seen |-> 0]]
          /\ UNCHANGED builtLen
     ELSE /\ extendMatchIndex
          /\ rq' = [rq EXCEPT ![r] =
               LET seq == Sequence(q) IN
               CASE seq # <<>> -> [pc |-> "advance", q |-> q, seq |-> seq]
                 [] seq = <<>> /\ Records ->
                      [pc |-> "forward", q |-> q, seen |-> Len(interactions)]
                 [] OTHER -> [pc |-> "miss", q |-> q, seen |-> Len(interactions),
                              nearest |-> nearestDiff(q)]]
  /\ UNCHANGED <<flags, effective, interactions, disk, cursor, starts, torn>>

(* Replay.advance on the sequence looked up before: the next interaction, or the last one
   again.                                                                               *)
AdvancePastEnd(r) ==
  /\ rq[r].pc = "advance"
  /\ LET k == Key(flags.ignore, rq[r].q)
         seq == rq[r].seq
         pos == IF cursor[k] < Len(seq) THEN cursor[k] + 1 ELSE Len(seq)
     IN /\ cursor' = [cursor EXCEPT ![k] = @ + 1]
        /\ rq' = [rq EXCEPT ![r] = [pc |-> "hit", q |-> rq[r].q, pos |-> pos,
                                    fresh |-> cursor[k] < Len(seq), it |-> seq[pos]]]
  /\ UNCHANGED <<flags, effective, interactions, disk, builtLen, starts, torn>>

Advance(r) ==
  /\ rq[r].pc = "advance"
  /\ LET k == Key(flags.ignore, rq[r].q)
         seq == rq[r].seq
         fresh == cursor[k] < Len(seq)
         pos == IF fresh THEN cursor[k] + 1 ELSE Len(seq)
     IN /\ cursor' = [cursor EXCEPT ![k] = IF fresh THEN pos ELSE @]
        /\ rq' = [rq EXCEPT ![r] = [pc |-> "hit", q |-> rq[r].q, pos |-> pos,
                                    fresh |-> fresh, it |-> seq[pos]]]
  /\ UNCHANGED <<flags, effective, interactions, disk, builtLen, starts, torn>>

(* Proxy.skipRecording and serveStreaming's condition: the record-on-miss fallback does
   not keep an error or a stream its upstream broke off.                                *)
skipRecordingStatus(a) == effective # "all" /\ a.status >= 400

skipRecording(a) == effective # "all" /\ (a.status >= 400 \/ a.cut = "upstream")

(* Proxy.ServeHTTP up to the recording: the upstream cannot be reached, or answers. *)
Forward(r) ==
  /\ rq[r].pc = "forward"
  /\ \/ rq' = [rq EXCEPT ![r] = Done]
     \/ \E a \in Answers :
          rq' = [rq EXCEPT ![r] = IF skipRecording(a) THEN Done
                                  ELSE [pc |-> "append", q |-> rq[r].q, a |-> a]]
  /\ UNCHANGED <<flags, effective, interactions, disk, cursor, builtLen, starts, torn>>

(* The interaction the proxy captures, from a body or from the chunks of a stream that it
   relays: hashed over the original request, then redacted if asked.                     *)
Captured(r) ==
  [hash |-> rq[r].q, a |-> rq[r].a, onMiss |-> effective # "all",
   body |-> IF flags.redact THEN redactBody(rq[r].q.body) ELSE rq[r].q.body]

(* Cassette.Append under its lock; the snapshot is written after the unlock. *)
AppendItStale(r) ==
  /\ rq[r].pc = "append"
  /\ interactions' = Append(interactions, Captured(r))
  /\ rq' = [rq EXCEPT ![r] = [pc |-> "write", snapshot |-> interactions]]
  /\ torn' = (torn \/ \E s \in Requests : rq[s].pc = "write")
  /\ UNCHANGED <<flags, effective, disk, cursor, builtLen, starts>>

AppendIt(r) ==
  /\ rq[r].pc = "append"
  /\ interactions' = Append(interactions, Captured(r))
  /\ rq' = [rq EXCEPT ![r] = [pc |-> "write", snapshot |-> Append(interactions, Captured(r))]]
  /\ torn' = (torn \/ \E s \in Requests : rq[s].pc = "write")
  /\ UNCHANGED <<flags, effective, disk, cursor, builtLen, starts>>

(* writeCassette: the snapshot replaces the file by a rename.  It fails when some body of
   the snapshot is not JSON (a RawMessage that cannot be encoded), or for the file system;
   the file is then as before, and the answer carries X-Mockagents-Record-Error.         *)
Write(r) ==
  /\ rq[r].pc = "write"
  /\ \/ /\ \A i \in 1 .. Len(rq[r].snapshot) : rq[r].snapshot[i].a.json
        /\ disk' = rq[r].snapshot /\ UNCHANGED torn
     \/ disk' = disk /\ torn' = TRUE
  /\ rq' = [rq EXCEPT ![r] = Done]
  /\ UNCHANGED <<flags, effective, interactions, cursor, builtLen, starts>>

CNext ==
  \/ \E f \in Flags : Start(f)
  \/ Kill
  \/ \E r \in Requests : \/ \E q \in Inputs : Lookup(r, q)
                         \/ Advance(r) \/ Forward(r) \/ AppendIt(r) \/ Write(r)

CSpec == CInit /\ [][CNext]_cvars

---------------------------------------------------------------------------
Served == {r \in Requests : rq[r].pc = "hit"}

(* Two recorded requests the flags make no difference between. *)
SameRequest(it, q) == Key(flags.ignore, it.hash) = Key(flags.ignore, q)

(* Replay.advance promises "The Nth identical request returns the Nth recorded
   interaction; requests past the end repeat the last one": whatever the interleaving of
   lookups, cursor moves and recordings, what is served was recorded for the same request
   up to the ignored fields, no recorded turn is handed out twice before the sequence
   is exhausted, and none is skipped.                                                    *)
ReplaysInSequence ==
  \A r \in Served :
    LET k == Key(flags.ignore, rq[r].q)
        of == {s \in Served : Key(flags.ignore, rq[s].q) = k}
    IN /\ SameRequest(rq[r].it, rq[r].q)
       /\ \A s \in of : s # r /\ rq[r].fresh /\ rq[s].fresh => rq[r].pos # rq[s].pos
       /\ {rq[s].pos : s \in {s \in of : rq[s].fresh}} = 1 .. cursor[k]
       /\ ~ rq[r].fresh => rq[r].pos <= cursor[k]

(* What is recorded is found: a request goes to the upstream, or is refused, only if the
   cassette held no interaction of the same request when it was looked up (with a matcher
   over redacted recordings this may fail: the index keys the redacted body).  A refusal
   names the nearest recording of the endpoint, and without redaction a difference that
   explains the miss outside the ignored fields.                                         *)
RecordedIsFound ==
  \A r \in Requests :
    rq[r].pc \in {"forward", "miss"} =>
      /\ \A i \in 1 .. rq[r].seen :
           interactions[i].body = interactions[i].hash.body \/ ~ active
             => ~ SameRequest(interactions[i], rq[r].q)
      /\ rq[r].pc = "miss" =>
           LET n == rq[r].nearest IN
             /\ n.at = 0 <=> \A i \in 1 .. Len(interactions) :
                               interactions[i].hash.path # rq[r].q.path
             /\ n.at # 0 /\ interactions[n.at].body = interactions[n.at].hash.body =>
                  (n.diff.changed \cup n.diff.missing \cup n.diff.extra) \ flags.ignore # {}

(* Nothing transient becomes canonical, and nothing recorded is lost silently: what
   record-on-miss added to the cassette is no error and no stream its upstream broke off;
   and when no request is in flight and no append overlapped a write or failed to be
   written, the file holds exactly what the server serves from.                          *)
CassetteSound ==
  effective # "down" =>
    /\ \A i \in 1 .. Len(interactions) :
         interactions[i].onMiss => interactions[i].a.status < 400
                                   /\ interactions[i].a.cut # "upstream"
    /\ ~ torn /\ (\A r \in Requests : rq[r].pc \notin {"append", "write"}) =>
         disk = interactions

(* The package comment calls a cassette "an append-only JSON-lines file": no write takes
   a recorded interaction out of the file.                                               *)
AppendOnly == [][IsPrefix(disk, disk')]_cvars
===========================================================================
