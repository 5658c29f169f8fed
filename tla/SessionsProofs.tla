--------------------------- MODULE SessionsProofs ---------------------------
(***************************************************************************)
(* For any number of requests, keys and callers of Get: the turns of a     *)
(* session do not interleave and are numbered without gap, and only an     *)
(* expired session is evicted.                                             *)
(***************************************************************************)
EXTENDS Sessions, SequenceTheorems, FiniteSetTheorems, TLAPS

\* A leaf goes to Zenon unless it names another prover.
USE ZenonT(120)

Msg == {"user", "assistant"} \X Requests
Session == [key : Keys, messages : Seq(Msg), turns : Nat, lastAccess : Nat]

\* The type of the state the turns depend on.
TypeOK ==
  /\ clock \in Nat
  /\ heap \in Seq(Session)
  /\ owner \in Seq(Requests \cup {Nil}) /\ Len(owner) = Len(heap)
  /\ sessions \in [Keys -> Ptrs \cup {Nil}]
  /\ rpc \in [Requests -> {"start", "lookup", "turn", "build", "done", "failed"}]
  /\ key \in [Requests -> Keys \cup {Nil}]
  /\ ptr \in [Requests -> Nat \cup {Nil}]
  /\ turnNo \in [Requests -> Nat]
  /\ gpc \in [Getters -> {"start", "judge", "evict", "done"}]

\* An assistant message follows the user message of its own request.
Alternates(m) ==
  \A i \in 1..Len(m) : m[i][1] = "assistant" => i > 1 /\ m[i-1] = <<"user", m[i][2]>>

\* The requests that have begun their turn in a session.
Mine(p) == {r \in Requests : ptr[r] = p /\ rpc[r] \in {"build", "done", "failed"}}
Numbered(p) ==
  heap[p].turns = Cardinality(Mine(p)) /\ {turnNo[r] : r \in Mine(p)} = 1..heap[p].turns

\* A request past GetOrCreate holds a session; one that builds its answer holds
\* the session's lock, and its user message is the last one.
Placed(r) ==
  /\ rpc[r] = "lookup" => key[r] \in Keys
  /\ rpc[r] \in {"turn", "build", "done", "failed"} => ptr[r] \in Ptrs
  /\ rpc[r] = "build" =>
       /\ owner[ptr[r]] = r
       /\ Len(heap[ptr[r]].messages) > 0
       /\ heap[ptr[r]].messages[Len(heap[ptr[r]].messages)] = <<"user", r>>

\* The inductive invariant.
IndInv ==
  /\ TypeOK
  /\ \A r \in Requests : Placed(r)
  /\ \A p \in Ptrs : Alternates(heap[p].messages) /\ Numbered(p)

\* A user message may follow any history.
LEMMA AlternatesUser ==
  ASSUME NEW m \in Seq(Msg), Alternates(m), NEW r \in Requests,
         NEW u, u = Append(m, <<"user", r>>)
  PROVE  u \in Seq(Msg) /\ Alternates(u) /\ Len(u) > 0 /\ u[Len(u)] = <<"user", r>>
  BY SMTT(60) DEF Alternates, Msg

\* An assistant message may follow the user message of its own request.
LEMMA AlternatesAssistant ==
  ASSUME NEW m \in Seq(Msg), Alternates(m), NEW r \in Requests,
         Len(m) > 0, m[Len(m)] = <<"user", r>>
  PROVE  /\ Append(m, <<"assistant", r>>) \in Seq(Msg)
         /\ Alternates(Append(m, <<"assistant", r>>))
  BY SMTT(60) DEF Alternates, Msg

\* An empty store satisfies the invariant.
LEMMA InitIndInv == Init => IndInv
<1> SUFFICES ASSUME Init PROVE IndInv
  OBVIOUS
<1>1. heap = << >> /\ owner = << >> /\ Len(heap) = 0 /\ Ptrs = {}
  BY SMTT(60) DEF Init, Ptrs
<1>2. << >> \in Seq(Session) /\ << >> \in Seq(Requests \cup {Nil}) /\ 0 \in Nat
  BY SMTT(60)
<1>3. TypeOK
  BY <1>1, <1>2 DEF Init, TypeOK
<1> QED  BY <1>1, <1>3 DEF Init, IndInv, Placed

\* The steps that touch neither a session object nor a turn: the clock, the
\* store lock, Get, Delete and Cleanup.
LEMMA QuietIndInv ==
  ASSUME IndInv, UNCHANGED <<heap, owner, ptr, turnNo>>,
         clock' \in Nat,
         sessions' \in [Keys -> Ptrs \cup {Nil}],
         gpc' \in [Getters -> {"start", "judge", "evict", "done"}],
         \/ UNCHANGED <<rpc, key>>
         \/ \E r \in Requests, k \in Keys : /\ rpc[r] = "start"
                                            /\ rpc' = [rpc EXCEPT ![r] = "lookup"]
                                            /\ key' = [key EXCEPT ![r] = k]
  PROVE  IndInv'
<1>0. TypeOK /\ Ptrs' = Ptrs
  BY DEF IndInv, Ptrs
<1>1. TypeOK'
  BY <1>0 DEF TypeOK
<1>2. ASSUME NEW r \in Requests
      PROVE  \/ rpc'[r] = rpc[r] /\ key'[r] = key[r]
             \/ rpc[r] = "start" /\ rpc'[r] = "lookup" /\ key'[r] \in Keys
  BY <1>0 DEF TypeOK
<1>3. ASSUME NEW r \in Requests PROVE Placed(r)'
  BY <1>0, <1>2 DEF IndInv, Placed
<1>4. ASSUME NEW p \in Ptrs PROVE Mine(p)' = Mine(p)
  BY <1>0, <1>2 DEF Mine
<1>5. ASSUME NEW p \in Ptrs PROVE Alternates(heap'[p].messages) /\ Numbered(p)'
  BY SMTT(60), <1>0, <1>4 DEF IndInv, Numbered
<1> QED  BY <1>0, <1>1, <1>3, <1>5 DEF IndInv

\* GetOrCreate returns the stored session.
LEMMA HitIndInv == ASSUME IndInv, NEW r \in Requests, GetOrCreateHit(r) PROVE IndInv'
<1>0. TypeOK /\ Placed(r) /\ rpc[r] = "lookup"
  BY DEF IndInv, GetOrCreateHit
<1>1. /\ UNCHANGED <<clock, sessions, heap, owner, key, turnNo, gpc>>
      /\ ptr' = [ptr EXCEPT ![r] = sessions[key[r]]]
      /\ rpc' = [rpc EXCEPT ![r] = "turn"]
  BY DEF GetOrCreateHit, GetOrCreateReturn, getter
<1>2. sessions[key[r]] \in Ptrs /\ Ptrs' = Ptrs /\ Ptrs \subseteq Nat
  BY SMTT(60), <1>0, <1>1 DEF GetOrCreateHit, TypeOK, Placed, Ptrs
<1>3. TypeOK'
  BY <1>0, <1>1, <1>2 DEF TypeOK
<1>4. ASSUME NEW q \in Requests PROVE Placed(q)'
  BY <1>0, <1>1, <1>2 DEF IndInv, TypeOK, Placed
<1>5. ASSUME NEW p \in Ptrs PROVE Mine(p)' = Mine(p)
  BY <1>0, <1>1 DEF TypeOK, Mine
<1>6. ASSUME NEW p \in Ptrs PROVE Alternates(heap'[p].messages) /\ Numbered(p)'
  BY SMTT(60), <1>1, <1>5 DEF IndInv, Numbered
<1> QED  BY <1>2, <1>3, <1>4, <1>6 DEF IndInv

\* GetOrCreate files a new session.
LEMMA MissIndInv == ASSUME IndInv, NEW r \in Requests, GetOrCreateMiss(r) PROVE IndInv'
<1> PICK new : new = Len(heap) + 1
  OBVIOUS
<1> DEFINE s == NewSession(key[r])
<1>0. TypeOK /\ Placed(r) /\ rpc[r] = "lookup" /\ key[r] \in Keys
  BY DEF IndInv, GetOrCreateMiss, Placed
<1>1. /\ UNCHANGED <<clock, key, turnNo, gpc>>
      /\ heap' = Append(heap, s)
      /\ owner' = Append(owner, Nil)
      /\ sessions' = [sessions EXCEPT ![key[r]] = new]
      /\ ptr' = [ptr EXCEPT ![r] = new]
      /\ rpc' = [rpc EXCEPT ![r] = "turn"]
  BY DEF GetOrCreateMiss, GetOrCreateReturn, getter
<1>2. s \in Session /\ s.messages = << >> /\ s.turns = 0
  <2>1. << >> \in Seq(Msg) /\ 0 \in Nat
    BY SMTT(60)
  <2> QED  BY <1>0, <2>1 DEF TypeOK, NewSession, Session
<1> HIDE DEF s
<1>3. /\ heap' \in Seq(Session) /\ Len(heap') = new /\ heap'[new] = s
      /\ \A p \in Ptrs : heap'[p] = heap[p]
      /\ owner' \in Seq(Requests \cup {Nil}) /\ Len(owner') = new
      /\ \A p \in Ptrs : owner'[p] = owner[p]
  BY SMTT(60), <1>0, <1>1, <1>2 DEF TypeOK, Ptrs
<1>4. /\ Ptrs' = Ptrs \cup {new} /\ new \notin Ptrs /\ Ptrs \subseteq Nat /\ new \in Nat
      /\ new \in Ptrs'
  BY SMTT(60), <1>0, <1>3 DEF TypeOK, Ptrs
<1>5. TypeOK'
  BY <1>0, <1>1, <1>3, <1>4 DEF TypeOK
<1>6. ASSUME NEW q \in Requests PROVE Placed(q)'
  <2>1. CASE q = r
    BY <1>0, <1>1, <1>4, <2>1 DEF TypeOK, Placed
  <2>2. CASE q # r
    <3>1. rpc'[q] = rpc[q] /\ ptr'[q] = ptr[q] /\ key'[q] = key[q]
      BY <1>0, <1>1, <2>2 DEF TypeOK
    <3>2. Placed(q)
      BY DEF IndInv
    <3> QED  BY <1>3, <1>4, <3>1, <3>2 DEF Placed
  <2> QED  BY <2>1, <2>2
<1>7. ASSUME NEW p \in Ptrs PROVE Mine(p)' = Mine(p)
  BY <1>0, <1>1, <1>4 DEF TypeOK, Mine
<1>8. ASSUME NEW p \in Ptrs PROVE Alternates(heap'[p].messages) /\ Numbered(p)'
  <2>1. Alternates(heap[p].messages) /\ Numbered(p) /\ heap'[p] = heap[p]
    BY <1>3 DEF IndInv
  <2>2. Numbered(p)'
    BY <1>1, <1>7, <2>1 DEF Numbered
  <2> QED  BY <2>1, <2>2
<1>9. Alternates(heap'[new].messages) /\ Numbered(new)'
  <2>1. Mine(new)' = {}
    BY SMTT(60), <1>0, <1>1, <1>4 DEF TypeOK, IndInv, Placed, Mine
  <2>2. Alternates(heap'[new].messages)
    BY SMTT(60), <1>2, <1>3 DEF Alternates
  <2>3. heap'[new].turns = 0 /\ Cardinality({}) = 0
    BY <1>2, <1>3, FS_EmptySet
  <2>4. {turnNo'[q] : q \in Mine(new)'} = {} /\ 1..0 = {}
    BY SMTT(60), <2>1
  <2>5. Numbered(new)'
    BY <2>1, <2>3, <2>4 DEF Numbered
  <2> QED  BY <2>2, <2>5
<1> QED  BY <1>4, <1>5, <1>6, <1>8, <1>9 DEF IndInv

\* A turn begins: it takes the session's lock and the next number.
LEMMA BeginIndInv == ASSUME IndInv, NEW r \in Requests, ApplyTurnBegin(r) PROVE IndInv'
<1> PICK p : p = ptr[r]
  OBVIOUS
<1> PICK s : s = appendUserMessage(heap[p], r)
  OBVIOUS
<1>0. /\ TypeOK /\ rpc[r] = "turn" /\ p \in Ptrs /\ Ptrs \subseteq Nat
      /\ Alternates(heap[p].messages) /\ Numbered(p) /\ owner[p] = Nil
  BY SMTT(60) DEF IndInv, Placed, ApplyTurnBegin, Ptrs
<1>1. /\ UNCHANGED <<clock, sessions, key, ptr, gpc>>
      /\ heap' = [heap EXCEPT ![p] = s]
      /\ owner' = [owner EXCEPT ![p] = r]
      /\ turnNo' = [turnNo EXCEPT ![r] = heap[p].turns + 1]
      /\ rpc' = [rpc EXCEPT ![r] = "build"]
  BY DEF ApplyTurnBegin, getter
<1>2. heap[p] \in Session /\ heap[p].turns \in Nat /\ heap[p].messages \in Seq(Msg)
  <2>1. heap[p] \in Session
    BY <1>0, ElementOfSeq DEF TypeOK, Ptrs
  <2> QED  BY <2>1 DEF Session
<1>3. /\ s \in Session /\ s.turns = heap[p].turns + 1
      /\ s.messages = Append(heap[p].messages, <<"user", r>>)
  <2>1. Append(heap[p].messages, <<"user", r>>) \in Seq(Msg)
    BY <1>0, <1>2, AlternatesUser
  <2>2. heap[p].turns + 1 \in Nat
    BY SMTT(60), <1>2
  <2> QED  BY <1>0, <1>2, <2>1, <2>2 DEF TypeOK, appendUserMessage, Session
<1>4. /\ Alternates(s.messages) /\ Len(s.messages) > 0
      /\ s.messages[Len(s.messages)] = <<"user", r>>
  BY <1>0, <1>2, <1>3, AlternatesUser
<1>5. /\ heap' \in Seq(Session) /\ Len(heap') = Len(heap) /\ Ptrs' = Ptrs
      /\ \A q \in Ptrs : heap'[q] = IF q = p THEN s ELSE heap[q]
  BY SMTT(60), <1>0, <1>1, <1>3, ExceptSeq DEF TypeOK, Ptrs
<1>6. /\ owner' \in Seq(Requests \cup {Nil}) /\ Len(owner') = Len(owner)
      /\ \A q \in Ptrs : owner'[q] = IF q = p THEN r ELSE owner[q]
  <2>1. p \in 1..Len(owner) /\ r \in Requests \cup {Nil} /\ Ptrs = 1..Len(owner)
    BY <1>0 DEF TypeOK, Ptrs
  <2> QED  BY SMTT(60), <1>0, <1>1, <2>1, ExceptSeq DEF TypeOK
<1>7. TypeOK'
  BY SMTT(60), <1>0, <1>1, <1>2, <1>5, <1>6 DEF TypeOK
<1>8. ASSUME NEW q \in Requests PROVE Placed(q)'
  <2>1. CASE q = r
    BY SMTT(60), <1>0, <1>1, <1>4, <1>5, <1>6, <2>1 DEF TypeOK, Placed
  <2>2. CASE q # r
    <3>1. Placed(q) /\ rpc'[q] = rpc[q] /\ ptr'[q] = ptr[q] /\ key'[q] = key[q]
      BY <1>0, <1>1, <2>2 DEF IndInv, TypeOK
    <3>2. rpc[q] = "build" => ptr[q] # p
      BY <1>0, <3>1, SessionsAssumption DEF Placed
    <3> QED  BY SMTT(60), <1>5, <1>6, <3>1, <3>2 DEF Placed
  <2> QED  BY <2>1, <2>2
<1>9. ASSUME NEW q \in Ptrs PROVE Alternates(heap'[q].messages) /\ Numbered(q)'
  <2>1. CASE q = p
    <3>1. Mine(p)' = Mine(p) \cup {r} /\ r \notin Mine(p)
      BY <1>0, <1>1 DEF TypeOK, Mine
    <3>2. IsFiniteSet(Mine(p))
      BY SessionsAssumption, FS_Subset DEF Mine
    <3>3. Cardinality(Mine(p)') = heap[p].turns + 1
      BY <1>0, <3>1, <3>2, FS_AddElement DEF Numbered
    <3>4. {turnNo'[x] : x \in Mine(p)'} = {turnNo[x] : x \in Mine(p)} \cup {heap[p].turns + 1}
      <4>1. \A x \in Mine(p) : turnNo'[x] = turnNo[x]
        BY <1>0, <1>1, <3>1 DEF TypeOK, Mine
      <4>2. turnNo'[r] = heap[p].turns + 1
        BY <1>0, <1>1 DEF TypeOK
      <4> QED  BY SMTT(60), <3>1, <4>1, <4>2
    <3>5. {turnNo'[x] : x \in Mine(p)'} = 1..(heap[p].turns + 1)
      <4>1. \A n \in Nat : (1..n) \cup {n + 1} = 1..(n + 1)
        BY SMTT(60)
      <4>2. {turnNo[x] : x \in Mine(p)} = 1..heap[p].turns
        BY <1>0 DEF Numbered
      <4> QED  BY <1>2, <3>4, <4>1, <4>2
    <3>6. heap'[p] = s
      BY <1>0, <1>5
    <3>7. Numbered(p)'
      BY <1>3, <3>3, <3>5, <3>6 DEF Numbered
    <3> QED  BY <1>4, <2>1, <3>6, <3>7
  <2>2. CASE q # p
    <3>1. Mine(q)' = Mine(q) /\ heap'[q] = heap[q]
      BY <1>0, <1>1, <1>5, <2>2 DEF TypeOK, Mine
    <3>2. \A x \in Mine(q) : turnNo'[x] = turnNo[x]
      BY <1>0, <1>1 DEF TypeOK, Mine
    <3>3. Alternates(heap[q].messages) /\ Numbered(q)
      BY DEF IndInv
    <3>4. Numbered(q)'
      BY <3>1, <3>2, <3>3 DEF Numbered
    <3> QED  BY <3>1, <3>3, <3>4
  <2> QED  BY <2>1, <2>2
<1> QED  BY <1>5, <1>7, <1>8, <1>9 DEF IndInv

\* A turn ends: with the assistant message, or on the error path without it;
\* either way the lock is released.
LEMMA EndIndInv ==
  ASSUME IndInv, NEW r \in Requests, ApplyTurnEnd(r) \/ ApplyTurnError(r) PROVE IndInv'
<1> PICK p : p = ptr[r]
  OBVIOUS
<1> PICK s : s = IF ApplyTurnEnd(r) THEN appendAssistantMessage(heap[p], r) ELSE heap[p]
  OBVIOUS
<1>0. /\ TypeOK /\ rpc[r] = "build" /\ p \in Ptrs /\ Ptrs \subseteq Nat
      /\ Alternates(heap[p].messages) /\ Numbered(p)
      /\ Len(heap[p].messages) > 0 /\ heap[p].messages[Len(heap[p].messages)] = <<"user", r>>
  BY SMTT(60) DEF IndInv, Placed, ApplyTurnEnd, ApplyTurnError, Ptrs
<1>1. /\ UNCHANGED <<clock, sessions, key, ptr, turnNo, gpc>>
      /\ owner' = [owner EXCEPT ![p] = Nil]
      /\ \E pc \in {"done", "failed"} : rpc' = [rpc EXCEPT ![r] = pc]
  BY DEF ApplyTurnEnd, ApplyTurnError, getter
<1>2. heap[p] \in Session /\ heap[p].messages \in Seq(Msg)
  <2>1. heap[p] \in Session
    BY <1>0, ElementOfSeq DEF TypeOK, Ptrs
  <2> QED  BY <2>1 DEF Session
<1>3. s \in Session /\ s.turns = heap[p].turns /\ Alternates(s.messages)
  <2>1. CASE ApplyTurnEnd(r)
    <3>1. /\ Append(heap[p].messages, <<"assistant", r>>) \in Seq(Msg)
          /\ Alternates(Append(heap[p].messages, <<"assistant", r>>))
      BY <1>0, <1>2, AlternatesAssistant
    <3>2. /\ s \in Session /\ s.turns = heap[p].turns
          /\ s.messages = Append(heap[p].messages, <<"assistant", r>>)
      BY <1>0, <1>2, <2>1, <3>1 DEF TypeOK, appendAssistantMessage, Session
    <3> QED  BY <3>1, <3>2
  <2>2. CASE ~ApplyTurnEnd(r)
    BY <1>0, <1>2, <2>2
  <2> QED  BY <2>1, <2>2
<1>4. /\ heap' \in Seq(Session) /\ Len(heap') = Len(heap) /\ Ptrs' = Ptrs
      /\ \A q \in Ptrs : heap'[q] = IF q = p THEN s ELSE heap[q]
  <2>1. CASE ApplyTurnEnd(r)
    <3>1. heap' = [heap EXCEPT ![p] = s]
      BY <2>1 DEF ApplyTurnEnd
    <3> QED  BY SMTT(60), <1>0, <1>3, <3>1, ExceptSeq DEF TypeOK, Ptrs
  <2>2. CASE ~ApplyTurnEnd(r)
    BY <1>0, <2>2 DEF ApplyTurnError, TypeOK, Ptrs
  <2> QED  BY <2>1, <2>2
<1>5. /\ owner' \in Seq(Requests \cup {Nil}) /\ Len(owner') = Len(owner)
      /\ \A q \in Ptrs : owner'[q] = IF q = p THEN Nil ELSE owner[q]
  <2>1. p \in 1..Len(owner) /\ Nil \in Requests \cup {Nil} /\ Ptrs = 1..Len(owner)
    BY <1>0 DEF TypeOK, Ptrs
  <2> QED  BY SMTT(60), <1>0, <1>1, <2>1, ExceptSeq DEF TypeOK
<1>6. TypeOK'
  BY SMTT(60), <1>0, <1>1, <1>4, <1>5 DEF TypeOK
<1>7. ASSUME NEW q \in Requests PROVE Placed(q)'
  <2>1. CASE q = r
    BY <1>0, <1>1, <1>4, <2>1 DEF TypeOK, Placed
  <2>2. CASE q # r
    <3>1. Placed(q) /\ rpc'[q] = rpc[q] /\ ptr'[q] = ptr[q] /\ key'[q] = key[q]
      BY <1>0, <1>1, <2>2 DEF IndInv, TypeOK
    <3>2. rpc[q] = "build" => ptr[q] # p
      BY <1>0, <2>2, <3>1 DEF IndInv, Placed
    <3> QED  BY SMTT(60), <1>4, <1>5, <3>1, <3>2 DEF Placed
  <2> QED  BY <2>1, <2>2
<1>8. ASSUME NEW q \in Ptrs PROVE Alternates(heap'[q].messages) /\ Numbered(q)'
  <2>1. Mine(q)' = Mine(q)
    BY <1>0, <1>1 DEF TypeOK, Mine
  <2>2. Alternates(heap[q].messages) /\ Numbered(q)
    BY DEF IndInv
  <2>3. heap'[q].turns = heap[q].turns /\ Alternates(heap'[q].messages)
    BY <1>3, <1>4, <2>2
  <2>4. Numbered(q)'
    BY SMTT(60), <1>1, <2>1, <2>2, <2>3 DEF Numbered
  <2> QED  BY <2>3, <2>4
<1> QED  BY <1>4, <1>6, <1>7, <1>8 DEF IndInv

\* The clock, the store lock, Get, Delete and Cleanup.
LEMMA OthersIndInv ==
  ASSUME IndInv,
         \/ Tick \/ CleanupSnapshot \/ CleanupStep
         \/ \E r \in Requests, k \in Keys : GetOrCreateLock(r, k)
         \/ \E g \in Getters : \/ GetJudge(g) \/ GetEvict(g)
                              \/ \E k \in Keys : GetRead(g, k) \/ Delete(g, k)
  PROVE  IndInv'
<1>0. TypeOK
  BY DEF IndInv
<1>1. CASE Tick
  BY SMTT(60), <1>0, <1>1, QuietIndInv DEF Tick, TypeOK, store, request, getter
<1>2. CASE CleanupSnapshot
  BY <1>0, <1>2, QuietIndInv DEF CleanupSnapshot, TypeOK, store, request, getter
<1>3. CASE CleanupLock \/ CleanupUnlock
  BY <1>0, <1>3, QuietIndInv DEF CleanupLock, CleanupUnlock, TypeOK, request, getter
<1>4. ASSUME NEW p \in Ptrs, CleanupScan(p) PROVE IndInv'
  BY <1>0, <1>4, QuietIndInv DEF CleanupScan, TypeOK, store, request, getter
<1>5. ASSUME NEW p \in Ptrs, CleanupDelete(p) PROVE IndInv'
  <2>1. sessions' \in [Keys -> Ptrs \cup {Nil}]
    BY <1>0, <1>5 DEF CleanupDelete, TypeOK
  <2> QED  BY <1>0, <1>5, <2>1, QuietIndInv DEF CleanupDelete, TypeOK, request, getter
<1>6. ASSUME NEW r \in Requests, NEW k \in Keys, GetOrCreateLock(r, k) PROVE IndInv'
  BY <1>0, <1>6, QuietIndInv DEF GetOrCreateLock, TypeOK, getter
<1>7. ASSUME NEW g \in Getters, GetJudge(g) \/ \E k \in Keys : GetRead(g, k) PROVE IndInv'
  BY <1>0, <1>7, QuietIndInv DEF GetJudge, GetRead, TypeOK, store, request
<1>8. ASSUME NEW g \in Getters, GetEvict(g) \/ \E k \in Keys : Delete(g, k) PROVE IndInv'
  <2>1. /\ sessions' \in [Keys -> Ptrs \cup {Nil}]
        /\ gpc' \in [Getters -> {"start", "judge", "evict", "done"}]
    <3>1. CASE GetEvict(g)
      <4>1. sessions' = [sessions EXCEPT ![gkey[g]] =
                           IF sessions[gkey[g]] = gptr[g] THEN Nil ELSE sessions[gkey[g]]]
        BY <3>1 DEF GetEvict
      <4>2. ASSUME NEW k \in Keys PROVE sessions'[k] \in Ptrs \cup {Nil}
        BY <1>0, <4>1 DEF TypeOK
      <4> QED  BY <1>0, <3>1, <4>1, <4>2 DEF GetEvict, TypeOK
    <3>2. ASSUME NEW k \in Keys, Delete(g, k)
          PROVE  /\ sessions' \in [Keys -> Ptrs \cup {Nil}]
                 /\ gpc' \in [Getters -> {"start", "judge", "evict", "done"}]
      BY <1>0, <3>2 DEF Delete, TypeOK
    <3> QED  BY <1>8, <3>1, <3>2
  <2> QED  BY <1>0, <1>8, <2>1, QuietIndInv DEF GetEvict, Delete, TypeOK, request
<1> QED  BY <1>1, <1>2, <1>3, <1>4, <1>5, <1>6, <1>7, <1>8 DEF CleanupStep

\* Every step preserves the invariant.
LEMMA NextIndInv == IndInv /\ [Next]_vars => IndInv'
<1> SUFFICES ASSUME IndInv, [Next]_vars PROVE IndInv'
  OBVIOUS
<1>1. CASE UNCHANGED vars
  BY <1>1, QuietIndInv DEF vars, store, request, getter, IndInv, TypeOK
<1>2. ASSUME NEW r \in Requests, RequestStep(r) PROVE IndInv'
  BY <1>2, HitIndInv, MissIndInv, BeginIndInv, EndIndInv DEF RequestStep
<1> QED  BY <1>1, <1>2, OthersIndInv DEF Next

-----------------------------------------------------------------------------
\* The invariant holds in every reachable state.
LEMMA StoreInvariant == Spec => []IndInv
<1>1. Init => IndInv
  BY InitIndInv
<1>2. IndInv /\ [Next]_vars => IndInv'
  BY NextIndInv
<1> QED  BY <1>1, <1>2, PTL DEF Spec

\* Concurrent requests for one session cannot interleave history updates
\* (session.go:53-54), and their turns are numbered 1, 2, ... without gap.
THEOREM TurnsAlwaysSerial == Spec => []TurnsSerial
<1>1. IndInv => TurnsSerial
  BY DEF IndInv, Alternates, Numbered, Mine, TurnsSerial, TurnsDoNotInterleave,
         TurnNumbersDistinct
<1> QED  BY <1>1, StoreInvariant, PTL

\* Cleanup and GetOrCreate evict only what is expired at that moment, and Get
\* only the session it judged (store.go:59-62, 132-136).
THEOREM EvictionsAlwaysExact == Spec => EvictionsExact
<1> DEFINE Judged == UNCHANGED getter => \A k \in Keys :
             sessions[k] # Nil /\ sessions'[k] # sessions[k] => IsExpired(sessions[k])
           Spared == \A g \in Getters : GetEvict(g) =>
             \A k \in Keys : sessions'[k] # sessions[k] => sessions[k] = gptr[g]
<1>1. ASSUME IndInv, [Next]_vars PROVE [Judged]_vars
  <2> SUFFICES ASSUME Next, UNCHANGED getter, NEW k \in Keys,
                      sessions[k] # Nil, sessions'[k] # sessions[k]
               PROVE  IsExpired(sessions[k])
    BY <1>1
  <2>0. TypeOK
    BY <1>1 DEF IndInv
  <2>1. ASSUME NEW r \in Requests, RequestStep(r) PROVE IsExpired(sessions[k])
    BY <2>0, <2>1 DEF TypeOK, RequestStep, GetOrCreateHit, GetOrCreateMiss, ApplyTurnBegin,
       ApplyTurnEnd, ApplyTurnError
  <2>2. ASSUME NEW r \in Requests, NEW l \in Keys, GetOrCreateLock(r, l) PROVE FALSE
    BY <2>2 DEF GetOrCreateLock
  <2>3. ASSUME NEW g \in Getters,
               GetJudge(g) \/ GetEvict(g) \/ \E l \in Keys : GetRead(g, l) \/ Delete(g, l)
        PROVE  FALSE
    BY <2>0, <2>3 DEF TypeOK, getter, store, GetJudge, GetEvict, GetRead, Delete
  <2>4. ASSUME NEW p \in Ptrs, CleanupScan(p) \/ CleanupDelete(p) PROVE IsExpired(sessions[k])
    BY <2>0, <2>4 DEF TypeOK, store, CleanupScan, CleanupDelete
  <2>5. CASE Tick \/ CleanupSnapshot \/ CleanupLock \/ CleanupUnlock
    BY <2>5 DEF store, Tick, CleanupSnapshot, CleanupLock, CleanupUnlock
  <2> QED  BY <2>1, <2>2, <2>3, <2>4, <2>5 DEF Next, CleanupStep
<1>2. ASSUME IndInv, [Next]_vars PROVE [Spared]_vars
  BY <1>2 DEF IndInv, TypeOK, GetEvict
<1> QED  BY <1>1, <1>2, StoreInvariant, PTL
            DEF Spec, EvictionsExact, OnlyExpiredEvicted, GetSparesReplacement
=============================================================================
