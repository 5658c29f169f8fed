---------------------------- MODULE LogBroadcaster ----------------------------
(***************************************************************************)
(* The live feed: LogBroadcaster (internal/server/log_broadcaster.go) and  *)
(* the SSE handler that reads it, StreamLogs (log_handlers.go).            *)
(*                                                                         *)
(* A Handler is one GET /api/v1/logs/stream request.  It subscribes with   *)
(* its caller's tenant, loops over its buffered channel and a heartbeat,   *)
(* and cancels its subscription when it returns.  Subscribe, cancel,       *)
(* Publish and Close are critical sections of b.mu; the loop is not.       *)
(***************************************************************************)
EXTENDS Integers, Sequences, FiniteSets

CONSTANTS Handlers,    \* SSE requests
          Rows,        \* log rows that may be published
          Tenants,     \* tenant ids
          NoTenant,    \* the empty tenant id: single-tenant mode
          TenantOf,    \* the tenant of each row
          Buffer       \* per-subscriber channel capacity

ASSUME BroadcasterAssumption ==
  /\ NoTenant \notin Tenants
  /\ TenantOf \in [Rows -> Tenants \cup {NoTenant}]
  /\ Buffer \in Nat \ {0}

VARIABLES
  closed,          \* b.closed
  subscribers,     \* b.subscribers
  tenantID,        \* tenant of each subscription
  ch,              \* buffered channel of each subscription
  closes,          \* how often that channel was closed (history)
  subDropped,      \* drop counter of each subscription
  hpc,             \* control point of StreamLogs
  lastDropped,     \* the drop count last surfaced to the client
  taken,           \* rows received from the channel (history)
  offered,         \* rows Publish tried to deliver (history)
  publishedRows    \* rows published so far (history)

sub     == <<tenantID, ch, closes, subDropped>>
handler == <<hpc, lastDropped, taken>>
feedVars    == <<closed, subscribers, sub, handler, offered, publishedRows>>

FeedInit ==
  /\ closed = FALSE
  /\ subscribers = {}
  /\ tenantID = [h \in Handlers |-> NoTenant]
  /\ ch = [h \in Handlers |-> << >>]
  /\ closes = [h \in Handlers |-> 0]
  /\ subDropped = [h \in Handlers |-> 0]
  /\ hpc = [h \in Handlers |-> "absent"]
  /\ lastDropped = [h \in Handlers |-> 0]
  /\ taken = [h \in Handlers |-> << >>]
  /\ offered = [h \in Handlers |-> << >>]
  /\ publishedRows = {}

Goto(h, pc) == hpc' = [hpc EXCEPT ![h] = pc]

-----------------------------------------------------------------------------
(* The broadcaster.                                                         *)

MatchesAny(h, row) == TRUE   \* mutant: no tenant filter

\* A tenant-scoped subscriber only gets its own tenant's rows.
Matches(h, row) == tenantID[h] = NoTenant \/ TenantOf[row] = tenantID[h]

SubscribeAfterClose(h, t) ==   \* mutant: no closed check
  /\ hpc[h] = "absent"
  /\ Goto(h, "top")
  /\ tenantID' = [tenantID EXCEPT ![h] = t]
  /\ subscribers' = subscribers \cup {h}
  /\ UNCHANGED <<closed, ch, closes, subDropped, lastDropped, taken, offered,
                 publishedRows>>

\* StreamLogs subscribes; a closed broadcaster hands back a closed channel.
Subscribe(h, t) ==
  /\ hpc[h] = "absent"
  /\ Goto(h, "top")
  /\ tenantID' = [tenantID EXCEPT ![h] = t]
  /\ IF closed
     THEN /\ closes' = [closes EXCEPT ![h] = @ + 1]
          /\ UNCHANGED subscribers
     ELSE /\ subscribers' = subscribers \cup {h}
          /\ UNCHANGED closes
  /\ UNCHANGED <<closed, ch, subDropped, lastDropped, taken, offered, publishedRows>>

CancelUnchecked(h) ==   \* mutant: closes without looking in the map
  /\ hpc[h] = "returning"
  /\ Goto(h, "done")
  /\ subscribers' = subscribers \ {h}
  /\ closes' = [closes EXCEPT ![h] = @ + 1]
  /\ UNCHANGED <<closed, tenantID, ch, subDropped, lastDropped, taken, offered,
                 publishedRows>>

\* cancel, the handler's deferred call: a no-op once Close took the map.
Cancel(h) ==
  /\ hpc[h] = "returning"
  /\ Goto(h, "done")
  /\ subscribers' = subscribers \ {h}
  /\ closes' = [closes EXCEPT ![h] = IF h \in subscribers THEN @ + 1 ELSE @]
  /\ UNCHANGED <<closed, tenantID, ch, subDropped, lastDropped, taken, offered,
                 publishedRows>>

Receives(h, row) == h \in subscribers /\ Matches(h, row)
HasRoom(h) == Len(ch[h]) < Buffer

PublishUncounted(row) ==   \* mutant: a full buffer drops silently
  /\ ch' = [h \in Handlers |->
              IF Receives(h, row) /\ HasRoom(h) THEN Append(ch[h], row) ELSE ch[h]]
  /\ offered' = [h \in Handlers |->
              IF Receives(h, row) THEN Append(offered[h], row) ELSE offered[h]]
  /\ publishedRows' = publishedRows \cup {row}
  /\ UNCHANGED <<closed, subscribers, tenantID, closes, subDropped, handler>>

Publish(row) ==
  /\ ch' = [h \in Handlers |->
              IF Receives(h, row) /\ HasRoom(h) THEN Append(ch[h], row) ELSE ch[h]]
  /\ subDropped' = [h \in Handlers |->
              subDropped[h] + IF Receives(h, row) /\ ~HasRoom(h) THEN 1 ELSE 0]
  /\ offered' = [h \in Handlers |->
              IF Receives(h, row) THEN Append(offered[h], row) ELSE offered[h]]
  /\ publishedRows' = publishedRows \cup {row}
  /\ UNCHANGED <<closed, subscribers, tenantID, closes, handler>>

Close ==
  /\ ~closed
  /\ closed' = TRUE
  /\ closes' = [h \in Handlers |-> closes[h] + IF h \in subscribers THEN 1 ELSE 0]
  /\ subscribers' = {}
  /\ UNCHANGED <<tenantID, ch, subDropped, handler, offered, publishedRows>>

-----------------------------------------------------------------------------
(* The loop of StreamLogs.                                                  *)

Returns(h) ==
  /\ Goto(h, "returning")
  /\ UNCHANGED <<closed, subscribers, sub, lastDropped, offered, publishedRows>>

StreamTopSilent(h) ==   \* mutant: drops surfaced only together with a row
  /\ hpc[h] = "top"
  /\ lastDropped' = [lastDropped EXCEPT ![h] = IF taken[h] # << >> /\ ch[h] # << >>
                                               THEN subDropped[h] ELSE @]
  /\ Goto(h, "select")
  /\ UNCHANGED <<closed, subscribers, sub, taken, offered, publishedRows>>

\* Top of the loop: surface drops not yet reported, or go on to the select.
StreamTop(h) ==
  /\ hpc[h] = "top"
  /\ lastDropped' = [lastDropped EXCEPT ![h] = subDropped[h]]
  /\ Goto(h, "select")
  /\ UNCHANGED <<closed, subscribers, sub, taken, offered, publishedRows>>

\* The write of an `event: dropped` frame fails.
StreamTopWriteError(h) ==
  /\ hpc[h] = "top"
  /\ subDropped[h] > lastDropped[h]
  /\ Returns(h)
  /\ UNCHANGED taken

\* The heartbeat tick.
StreamTick(h) ==
  /\ hpc[h] = "select"
  /\ Goto(h, "top")
  /\ UNCHANGED <<closed, subscribers, sub, lastDropped, taken, offered,
                 publishedRows>>

\* ctx.Done(), or the write of the heartbeat fails.
StreamGone(h) ==
  /\ hpc[h] = "select"
  /\ Returns(h)
  /\ UNCHANGED taken

\* One row off the channel; it is written, or the write fails.
StreamRecv(h) ==
  /\ hpc[h] = "select"
  /\ ch[h] # << >>
  /\ ch' = [ch EXCEPT ![h] = Tail(@)]
  /\ taken' = [taken EXCEPT ![h] = Append(@, Head(ch[h]))]
  /\ Goto(h, "top") \/ Goto(h, "returning")
  /\ UNCHANGED <<closed, subscribers, tenantID, closes, subDropped, lastDropped,
                 offered, publishedRows>>

\* The channel is closed and drained.
StreamEnd(h) ==
  /\ hpc[h] = "select"
  /\ ch[h] = << >>
  /\ closes[h] > 0
  /\ Returns(h)
  /\ UNCHANGED taken

StreamStep(h) ==
  \/ StreamTop(h) \/ StreamTopWriteError(h) \/ StreamTick(h) \/ StreamRecv(h)
  \/ StreamEnd(h) \/ Cancel(h)

-----------------------------------------------------------------------------
HandlerNext(h) ==
  \/ \E t \in Tenants \cup {NoTenant} : Subscribe(h, t)
  \/ StreamStep(h)
  \/ StreamGone(h)

FeedNext ==
  \/ \E h \in Handlers : HandlerNext(h)
  \/ \E row \in Rows \ publishedRows : Publish(row)
  \/ Close

FeedSpec == FeedInit /\ [][FeedNext]_feedVars

-----------------------------------------------------------------------------
(* Properties.                                                              *)

\* s is t with some elements left out: the element at i comes from at[i].
Subsequence(s, t) ==
  \E at \in [1..Len(s) -> 1..Len(t)] :
    /\ \A i, j \in 1..Len(s) : i < j => at[i] < at[j]
    /\ \A i \in 1..Len(s) : s[i] = t[at[i]]

\* What a subscriber got and has buffered is, in order, what Publish offered
\* it, less exactly the rows its drop counter counts.
GapsAreCounted ==
  \A h \in Handlers :
    /\ Len(offered[h]) = Len(taken[h]) + Len(ch[h]) + subDropped[h]
    /\ Subsequence(taken[h] \o ch[h], offered[h])

\* A tenant's stream carries that tenant's rows only (F-LH-003), and its drop
\* counter is not moved by the rows of other tenants.
TenantIsolated ==
  \A h \in Handlers : tenantID[h] # NoTenant =>
    \A i \in 1..Len(offered[h]) : TenantOf[offered[h][i]] = tenantID[h]

\* A channel is closed at most once, and Publish never meets a closed one: a
\* subscriber still in the map is open.  Either would panic.
NeverClosedTwice ==
  \A h \in Handlers : closes[h] <= 1 /\ (h \in subscribers => closes[h] = 0)

\* No subscription outlives its handler: whoever returned is out of the map,
\* and once the feed is closed the map stays empty.
NoLeakedSubscription ==
  /\ \A h \in subscribers : hpc[h] # "done"
  /\ closed => subscribers = {}

\* What a stream may rely on, put together: its gaps are counted, its rows are
\* its tenant's, its channel is closed once, its subscription ends with it.
FeedSound == GapsAreCounted /\ TenantIsolated /\ NeverClosedTwice /\ NoLeakedSubscription

\* A connected client learns of the drops it suffered, traffic or not.
\* LogPipeline checks it under the fairness of the whole server.
DropsAreSurfaced ==
  \A h \in Handlers : \A n \in 1..Cardinality(Rows) :
    subDropped[h] = n ~> (lastDropped[h] >= n \/ hpc[h] \in {"returning", "done"})

\* A stream that ends because the feed was closed has surfaced every drop: a
\* drop needs a full buffer, so rows were still to be read after it, and each
\* of them leads back to the top of the loop (log_handlers.go:767-773).
EndSurfacesDrops ==
  [][\A h \in Handlers : StreamEnd(h) => lastDropped[h] = subDropped[h]]_feedVars
=============================================================================
