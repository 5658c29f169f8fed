---------------------------- MODULE McpStreamable ----------------------------
(* The Streamable HTTP transport: sessions minted by `initialize` in a table   *)
(* capped first-in first-out, a resumable event log per session, and GET       *)
(* streams that replay the log from Last-Event-Id and then follow live         *)
(* broadcasts.  Deletion and fan-out leave the table lock before they take a    *)
(* session's, so both interleave with everything else.                          *)
EXTENDS Naturals, FiniteSets, Sequences, Functions

CONSTANTS
  NSessions, NStreams, NBroadcasts,   \* bounds: how many are made, numbered in order
  MaxSessions,   \* defaultMaxSessions
  LogMax,        \* maxSessionLogEvents
  SubMax,        \* maxSubscribersPerSession
  ChanBuffer,    \* subscriberChanBuffer
  NoSession

SessionIds == 1..NSessions
Streams    == 1..NStreams
Broadcasts == 1..NBroadcasts

ASSUME StreamableAssumption ==
  /\ NSessions \in Nat /\ NStreams \in Nat /\ NBroadcasts \in Nat
  /\ MaxSessions \in Nat \ {0} /\ LogMax \in Nat \ {0} /\ SubMax \in Nat \ {0}
  /\ ChanBuffer \in Nat
  /\ NoSession \notin SessionIds

\* The next of a numbered kind is the one after those already `used`.
IsNext(i, used) == i = Cardinality(used) + 1

VARIABLES
  live, order,     \* sessionManager.sessions, .order
  minted,          \* ids create has returned
  closing,         \* sessions delete has removed and not closed yet
  nextID, log, subs, closed,     \* streamSession: log holds event ids
  todo,            \* per broadcast: sessions of its snapshot left, or NoSession
  hpc,             \* per stream: absent, found, refused, replaying, live, leaving, done
  hsess, after,    \* per stream: its session and its Last-Event-Id
  replay, chan, shut,   \* per stream: snapshot to replay, live channel, channel closed
  got,             \* per stream: the ids its client received
  skipped, oldest  \* history, per stream: ids its full channel missed; log floor

tableVars  == <<live, order, minted, closing>>
sessVars   == <<nextID, log, subs, closed>>
streamVars == <<hpc, hsess, after, replay, chan, shut, got, skipped, oldest>>
streamableVars       == <<tableVars, sessVars, todo, streamVars>>

StreamableInit ==
  /\ live = {} /\ order = <<>> /\ minted = {} /\ closing = {}
  /\ nextID = [s \in SessionIds |-> 0] /\ log = [s \in SessionIds |-> <<>>]
  /\ subs = [s \in SessionIds |-> {}] /\ closed = {}
  /\ todo = [b \in Broadcasts |-> NoSession]
  /\ hpc = [t \in Streams |-> "absent"] /\ hsess = [t \in Streams |-> NoSession]
  /\ after = [t \in Streams |-> 0] /\ replay = [t \in Streams |-> <<>>]
  /\ chan = [t \in Streams |-> <<>>] /\ shut = {}
  /\ got = [t \in Streams |-> <<>>]
  /\ skipped = [t \in Streams |-> {}] /\ oldest = [t \in Streams |-> 1]

-----------------------------------------------------------------------------
(* Sessions.                                                                *)

\* close: every subscriber's channel is closed and removed, once.
Closes(S) ==
  /\ closed' = closed \cup S
  /\ shut' = shut \cup UNION {subs[s] : s \in S}
  /\ subs' = [s \in SessionIds |-> IF s \in S THEN {} ELSE subs[s]]

CreateKeepsEvicted(s) ==   \* mutant: an evicted session is not closed
  /\ IsNext(s, minted)
  /\ minted' = minted \cup {s}
  /\ LET q == Append(order, s)
         n == IF Len(q) > MaxSessions THEN Len(q) - MaxSessions ELSE 0
     IN /\ order' = SubSeq(q, n + 1, Len(q))
        /\ live' = (live \cup {s}) \ {q[i] : i \in 1..n}
  /\ UNCHANGED <<closing, sessVars, todo, streamVars>>

\* A well-formed initialize mints a session; the oldest ones over the cap are
\* evicted and closed.
Create(s) ==
  LET q == Append(order, s)
      n == IF Len(q) > MaxSessions THEN Len(q) - MaxSessions ELSE 0
      evicted == {q[i] : i \in 1..n}
  IN /\ IsNext(s, minted)
     /\ minted' = minted \cup {s}
     /\ order' = SubSeq(q, n + 1, Len(q))
     /\ live' = (live \cup {s}) \ evicted
     /\ Closes(evicted)
     /\ UNCHANGED <<closing, nextID, log, todo, hpc, hsess, after, replay, chan,
                    got, skipped, oldest>>

\* q without its first e.
Without(q, e) ==
  LET i == CHOOSE i \in DOMAIN q : q[i] = e /\ \A j \in 1..(i - 1) : q[j] # e
  IN  SubSeq(q, 1, i - 1) \o SubSeq(q, i + 1, Len(q))

DeleteUnlinks(s) ==
  /\ s \in live
  /\ live' = live \ {s}
  /\ order' = Without(order, s)
  /\ closing' = closing \cup {s}
  /\ UNCHANGED <<minted, sessVars, todo, streamVars>>

DeleteCloses(s) ==
  /\ s \in closing
  /\ closing' = closing \ {s}
  /\ Closes({s})
  /\ UNCHANGED <<live, order, minted, nextID, log, todo, hpc, hsess, after, replay,
                 chan, got, skipped, oldest>>

-----------------------------------------------------------------------------
(* Broadcast: a snapshot of the live sessions, then one session at a time.    *)

BroadcastSnapshot(b) ==
  /\ IsNext(b, {c \in Broadcasts : todo[c] # NoSession})
  /\ todo' = [todo EXCEPT ![b] = live]
  /\ UNCHANGED <<tableVars, sessVars, streamVars>>

BroadcastNotification(b, s) ==
  /\ todo[b] # NoSession /\ s \in todo[b]
  /\ todo' = [todo EXCEPT ![b] = @ \ {s}]
  /\ IF s \in closed
     THEN UNCHANGED <<nextID, log, chan, skipped>>
     ELSE LET id == nextID[s] + 1
              l  == Append(log[s], id)
              ok == {t \in subs[s] : Len(chan[t]) < ChanBuffer}
          IN /\ nextID' = [nextID EXCEPT ![s] = id]
             /\ log' = [log EXCEPT ![s] =
                          IF Len(l) > LogMax THEN SubSeq(l, Len(l) - LogMax + 1, Len(l)) ELSE l]
             /\ chan' = [t \in Streams |-> IF t \in ok THEN Append(chan[t], id) ELSE chan[t]]
             /\ skipped' = [t \in Streams |->
                              IF t \in subs[s] \ ok THEN skipped[t] \cup {id} ELSE skipped[t]]
  /\ UNCHANGED <<tableVars, subs, closed, hpc, hsess, after, replay, shut, got, oldest>>

-----------------------------------------------------------------------------
(* GET: session lookup, subscription, replay, live events.                   *)

HpcGoto(t, from, to) == hpc[t] = from /\ hpc' = [hpc EXCEPT ![t] = to]

\* Last-Event-Id may be absent or unreadable (0), or come from an older session.
GetLookup(t) ==
  /\ IsNext(t, {u \in Streams : hpc[u] # "absent"})
  /\ \E s \in minted, a \in 0..NBroadcasts :
       /\ hsess' = [hsess EXCEPT ![t] = s]
       /\ after' = [after EXCEPT ![t] = a]
       /\ HpcGoto(t, "absent", IF s \in live THEN "found" ELSE "refused")
  /\ UNCHANGED <<tableVars, sessVars, todo, replay, chan, shut, got, skipped, oldest>>

\* The events of l with an id over a.  The ids of a log increase, so they are what
\* follows its first k events.
Since(l, a) ==
  LET k == CHOOSE k \in 0..Len(l) : \A i \in 1..Len(l) : (l[i] > a) = (i > k)
  IN  SubSeq(l, k + 1, Len(l))

Missed(t) == Since(log[hsess[t]], after[t])

SubscribeReplaysAll(t) ==   \* mutant: Last-Event-Id off by one
  LET s == hsess[t]
  IN /\ HpcGoto(t, "found", "replaying")
     /\ s \notin closed
     /\ replay' = [replay EXCEPT ![t] = Since(log[s], after[t] + 1)]
     /\ subs' = [subs EXCEPT ![s] = @ \cup {t}]
     /\ oldest' = [oldest EXCEPT ![t] = IF log[s] = <<>> THEN nextID[s] + 1 ELSE Head(log[s])]
     /\ UNCHANGED <<shut, tableVars, nextID, log, closed, todo, hsess, after, chan, got, skipped>>

\* Under the session's lock: closed, at capacity (429), or registered together
\* with the snapshot of the events after Last-Event-Id.
Subscribe(t) ==
  LET s == hsess[t]
  IN /\ hpc[t] = "found"
     /\ \/ /\ s \in closed
           /\ HpcGoto(t, "found", "replaying")
           /\ shut' = shut \cup {t}
           /\ UNCHANGED <<replay, subs, oldest>>
        \/ /\ s \notin closed /\ Cardinality(subs[s]) >= SubMax
           /\ HpcGoto(t, "found", "refused")
           /\ UNCHANGED <<replay, subs, oldest, shut>>
        \/ /\ s \notin closed /\ Cardinality(subs[s]) < SubMax
           /\ HpcGoto(t, "found", "replaying")
           /\ replay' = [replay EXCEPT ![t] = Missed(t)]
           /\ subs' = [subs EXCEPT ![s] = @ \cup {t}]
           /\ oldest' = [oldest EXCEPT ![t] =
                           IF log[s] = <<>> THEN nextID[s] + 1 ELSE Head(log[s])]
           /\ UNCHANGED shut
     /\ UNCHANGED <<tableVars, nextID, log, closed, todo, hsess, after, chan, got, skipped>>

StreamReplay(t) ==
  /\ hpc[t] = "replaying"
  /\ IF replay[t] = <<>>
     THEN HpcGoto(t, "replaying", "live") /\ UNCHANGED <<replay, got>>
     ELSE /\ replay' = [replay EXCEPT ![t] = Tail(@)]
          /\ got' = [got EXCEPT ![t] = Append(@, Head(replay[t]))]
          /\ UNCHANGED hpc
  /\ UNCHANGED <<tableVars, sessVars, todo, hsess, after, chan, shut, skipped, oldest>>

StreamEvent(t) ==
  /\ hpc[t] = "live" /\ chan[t] # <<>>
  /\ chan' = [chan EXCEPT ![t] = Tail(@)]
  /\ got' = [got EXCEPT ![t] = Append(@, Head(chan[t]))]
  /\ UNCHANGED <<tableVars, sessVars, todo, hpc, hsess, after, replay, shut, skipped, oldest>>

StreamTerminated(t) ==
  /\ HpcGoto(t, "live", "leaving")
  /\ t \in shut /\ chan[t] = <<>>
  /\ UNCHANGED <<tableVars, sessVars, todo, hsess, after, replay, chan, shut, got, skipped, oldest>>

\* The client is gone: a write fails or the request's context ends.
StreamGone(t) ==
  /\ HpcGoto(t, "replaying", "leaving") \/ HpcGoto(t, "live", "leaving")
  /\ UNCHANGED <<tableVars, sessVars, todo, hsess, after, replay, chan, shut, got, skipped, oldest>>

Cancel(t) ==
  /\ HpcGoto(t, "leaving", "done")
  /\ subs' = [subs EXCEPT ![hsess[t]] = @ \ {t}]
  /\ UNCHANGED <<tableVars, nextID, log, closed, todo, hsess, after, replay, chan, shut,
                 got, skipped, oldest>>

-----------------------------------------------------------------------------
StreamNext(t) ==
  \/ GetLookup(t) \/ Subscribe(t) \/ StreamReplay(t) \/ StreamEvent(t)
  \/ StreamTerminated(t) \/ StreamGone(t) \/ Cancel(t)

SessionNext(s) == Create(s) \/ DeleteUnlinks(s) \/ DeleteCloses(s)

BroadcastNext(b) ==
  \/ BroadcastSnapshot(b)
  \/ \E s \in SessionIds : BroadcastNotification(b, s)

StreamableNext ==
  \/ \E s \in SessionIds : SessionNext(s)
  \/ \E b \in Broadcasts : BroadcastNext(b)
  \/ \E t \in Streams : StreamNext(t)

StreamableSpec == StreamableInit /\ [][StreamableNext]_streamableVars

-----------------------------------------------------------------------------
\* Invariant: the table and its order agree and respect the cap; a session that
\* is gone is closed or about to be, with no subscriber left behind; and an open
\* stream is registered with a session that is not closed, or its channel is
\* shut so that it will end (streamable.go:461-508, 600-645).
NoOrphanStream ==
  /\ Range(order) = live /\ Len(order) = Cardinality(live) /\ Len(order) <= MaxSessions
  /\ minted \ live = closed \cup closing
  /\ \A s \in SessionIds : Cardinality(subs[s]) <= SubMax
  /\ \A t \in Streams :
       hpc[t] \in {"replaying", "live"} =>
         (t \in shut) # (t \in subs[hsess[t]] /\ hsess[t] \notin closed)

\* Invariant: a stream receives increasing event ids with none missing after its
\* Last-Event-Id, but for events its full channel skipped and events that had
\* left the bounded log when it subscribed ("no event can slip through the gap",
\* streamable.go:593-596).
ResumesWithoutGap ==
  \A t \in Streams :
    /\ \A i, j \in DOMAIN got[t] : i < j => got[t][i] < got[t][j]
    /\ got[t] # <<>> =>
         \A e \in (after[t] + 1)..got[t][Len(got[t])] :
           e \in Range(got[t]) \cup skipped[t] \/ e < oldest[t]

\* Invariant: a stream never outlives its session, by eviction or by DELETE, and
\* a client that resumes gets every event after its last one, up to what the log
\* has dropped (streamable.go).
StreamsResume == NoOrphanStream /\ ResumesWithoutGap
=============================================================================
