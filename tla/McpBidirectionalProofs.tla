------------------------ MODULE McpBidirectionalProofs ------------------------
(***************************************************************************)
(* The bidirectional MCP transport: where a queued message is, and the     *)
(* routing of replies, for any number of calls, notifications, streams and *)
(* POSTs and any channel capacity.                                         *)
(***************************************************************************)
EXTENDS McpBidirectional, FiniteSetTheorems, TLAPS

\* A leaf goes to Zenon unless it names another prover.
USE ZenonT(120)

\* The elements of a sequence with one more.
LEMMA AppendRange ==
  ASSUME NEW S, NEW q \in Seq(S), NEW e \in S
  PROVE  Append(q, e) \in Seq(S) /\ Range(Append(q, e)) = Range(q) \cup {e}
<1>1. /\ Append(q, e) \in Seq(S) /\ Len(Append(q, e)) = Len(q) + 1
      /\ \A i \in 1..Len(q) : Append(q, e)[i] = q[i]
      /\ Append(q, e)[Len(q) + 1] = e
      /\ Len(q) \in Nat
  BY SMTT(60)
<1>2. DOMAIN Append(q, e) = 1..(Len(q) + 1) /\ DOMAIN q = 1..Len(q)
  BY SMTT(60), <1>1
<1> QED  BY SMTT(60), <1>1, <1>2 DEF Range

\* The head and the tail of a sequence.
LEMMA HeadTail ==
  ASSUME NEW S, NEW q \in Seq(S), q # <<>>
  PROVE  /\ Tail(q) \in Seq(S) /\ Head(q) \in S
         /\ Range(q) = Range(Tail(q)) \cup {Head(q)}
<1>1. /\ Tail(q) \in Seq(S) /\ Len(Tail(q)) = Len(q) - 1
      /\ \A i \in 1..(Len(q) - 1) : Tail(q)[i] = q[i + 1]
      /\ Len(q) \in Nat \ {0} /\ Head(q) = q[1] /\ q[1] \in S
  BY SMTT(60)
<1>2. Range(Tail(q)) = {Tail(q)[i] : i \in 1..(Len(q) - 1)} /\ Range(q) = {q[i] : i \in 1..Len(q)}
  <2>1. DOMAIN Tail(q) = 1..(Len(q) - 1) /\ DOMAIN q = 1..Len(q)
    BY SMTT(60), <1>1
  <2> QED  BY <2>1 DEF Range
<1>3. Range(Tail(q)) \cup {Head(q)} \subseteq Range(q)
  BY SMTT(60), <1>1, <1>2
<1>4. ASSUME NEW i \in 1..Len(q) PROVE q[i] \in Range(Tail(q)) \cup {Head(q)}
  <2>1. CASE i = 1
    BY <1>1, <2>1
  <2>2. CASE i # 1
    <3>1. i - 1 \in 1..(Len(q) - 1) /\ Tail(q)[i - 1] = q[i]
      BY SMTT(60), <1>1, <2>2
    <3> QED  BY <1>2, <3>1
  <2> QED  BY <2>1, <2>2
<1> QED  BY SMTT(60), <1>1, <1>2, <1>3, <1>4

Distinct(q) == \A i, j \in DOMAIN q : q[i] = q[j] => i = j

\* A new element at the end.
LEMMA AppendDistinct ==
  ASSUME NEW S, NEW q \in Seq(S), NEW e \in S, Distinct(q), e \notin Range(q)
  PROVE  Distinct(Append(q, e))
<1>1. /\ Append(q, e) \in Seq(S) /\ Len(Append(q, e)) = Len(q) + 1
      /\ \A i \in 1..Len(q) : Append(q, e)[i] = q[i] /\ q[i] # e
      /\ Append(q, e)[Len(q) + 1] = e
      /\ Len(q) \in Nat
  BY SMTT(60) DEF Range
<1> SUFFICES ASSUME NEW i \in 1..(Len(q) + 1), NEW j \in 1..(Len(q) + 1),
                    Append(q, e)[i] = Append(q, e)[j]
             PROVE  i = j
  BY SMTT(60), <1>1 DEF Distinct
<1>2. CASE i \in 1..Len(q) /\ j \in 1..Len(q)
  BY SMTT(60), <1>1, <1>2 DEF Distinct
<1>3. CASE i = Len(q) + 1 \/ j = Len(q) + 1
  BY SMTT(60), <1>1, <1>3
<1> QED  BY SMTT(60), <1>1, <1>2, <1>3

\* Two sequences, one after the other.
LEMMA Concat ==
  ASSUME NEW S, NEW a \in Seq(S), NEW b \in Seq(S)
  PROVE  /\ a \o b \in Seq(S) /\ Len(a \o b) = Len(a) + Len(b)
         /\ \A i \in 1..Len(a) : (a \o b)[i] = a[i]
         /\ \A i \in 1..Len(b) : (a \o b)[Len(a) + i] = b[i]
<1>1. a \o b \in Seq(S)
  BY SMTT(60)
<1>2. Len(a \o b) = Len(a) + Len(b)
  BY SMTT(60)
<1>3. \A i \in 1..Len(a) : (a \o b)[i] = a[i]
  BY SMTT(60)
<1>4. ASSUME NEW i \in 1..Len(b) PROVE (a \o b)[Len(a) + i] = b[i]
  <2>1. Len(a) \in Nat /\ Len(b) \in Nat
    BY SMTT(60)
  <2> QED  BY SMTT(60), <2>1
<1> QED  BY <1>1, <1>2, <1>3, <1>4

-----------------------------------------------------------------------------
(* Taking a queue apart and putting it together again.                       *)

\* The head of a queue without repetitions does not come again.
LEMMA TailDistinct ==
  ASSUME NEW S, NEW q \in Seq(S), q # <<>>, Distinct(q)
  PROVE  Distinct(Tail(q)) /\ Head(q) \notin Range(Tail(q))
<1>1. /\ Tail(q) \in Seq(S) /\ Len(Tail(q)) = Len(q) - 1
      /\ \A i \in 1..(Len(q) - 1) : Tail(q)[i] = q[i + 1]
      /\ Len(q) \in Nat \ {0} /\ Head(q) = q[1]
  BY SMTT(60)
<1>2. DOMAIN Tail(q) = 1..(Len(q) - 1) /\ DOMAIN q = 1..Len(q)
  BY SMTT(60), <1>1
<1>3. \A i, j \in 1..Len(q) : q[i] = q[j] => i = j
  BY <1>2 DEF Distinct, IsInjective
<1>4. Distinct(Tail(q))
  BY SMTT(60), <1>1, <1>2, <1>3 DEF Distinct, IsInjective
<1>5. \A i \in 1..(Len(q) - 1) : Tail(q)[i] # Head(q)
  BY SMTT(60), <1>1, <1>3
<1> QED  BY <1>2, <1>4, <1>5 DEF Range

\* A prefix of a queue and the rest of it.
LEMMA Split ==
  ASSUME NEW S, NEW q \in Seq(S), NEW k \in 0..Len(q)
  PROVE  LET a == SubSeq(q, 1, k)
             b == SubSeq(q, k + 1, Len(q))
         IN  /\ a \in Seq(S) /\ b \in Seq(S) /\ Len(a) = k /\ Len(b) = Len(q) - k
             /\ \A i \in 1..k : a[i] = q[i]
             /\ \A i \in 1..(Len(q) - k) : b[i] = q[k + i]
             /\ Range(q) = Range(a) \cup Range(b)
<1> DEFINE a == SubSeq(q, 1, k)
           b == SubSeq(q, k + 1, Len(q))
           m == Len(q)
<1>1. m \in Nat /\ k \in Nat /\ k <= m /\ DOMAIN q = 1..m
  BY SMTT(60)
<1>2. a \in Seq(S) /\ Len(a) = k /\ \A i \in 1..k : a[i] = q[i]
  BY SMTT(60)
<1>3. b \in Seq(S) /\ Len(b) = m - k /\ \A i \in 1..(m - k) : b[i] = q[k + i]
  BY SMTT(60)
<1> SUFFICES Range(q) = Range(a) \cup Range(b)
  BY <1>2, <1>3
<1> HIDE DEF a, b, m
<1>4. DOMAIN a = 1..k /\ DOMAIN b = 1..(m - k)
  BY SMTT(60), <1>1, <1>2, <1>3
<1>5. Range(a) \cup Range(b) \subseteq Range(q)
  <2>1. \A i \in 1..k : i \in 1..m
    BY SMTT(60), <1>1
  <2>2. \A i \in 1..(m - k) : k + i \in 1..m
    BY SMTT(60), <1>1
  <2>3. \A i \in 1..k : a[i] \in Range(q)
    BY <1>1, <1>2, <2>1 DEF Range
  <2>4. \A i \in 1..(m - k) : b[i] \in Range(q)
    BY <1>1, <1>3, <2>2 DEF Range
  <2>5. Range(a) \subseteq Range(q)
    BY <1>4, <2>3 DEF Range
  <2>6. Range(b) \subseteq Range(q)
    BY <1>4, <2>4 DEF Range
  <2> QED  BY <2>5, <2>6
<1>6. ASSUME NEW i \in 1..m PROVE q[i] \in Range(a) \cup Range(b)
  <2>1. CASE i <= k
    BY SMTT(60), <1>1, <1>2, <1>4, <2>1 DEF Range
  <2>2. CASE i > k
    <3>1. i - k \in 1..(m - k) /\ b[i - k] = q[i]
      BY SMTT(60), <1>1, <1>3, <2>2
    <3> QED  BY <1>4, <3>1 DEF Range
  <2> QED  BY SMTT(60), <1>1, <2>1, <2>2
<1>7. Range(q) \subseteq Range(a) \cup Range(b)
  BY <1>1, <1>6 DEF Range
<1> QED  BY <1>5, <1>7

\* The two parts of a queue without repetitions share nothing.
LEMMA SplitDistinct ==
  ASSUME NEW S, NEW q \in Seq(S), Distinct(q), NEW k \in 0..Len(q)
  PROVE  LET a == SubSeq(q, 1, k)
             b == SubSeq(q, k + 1, Len(q))
         IN  Distinct(a) /\ Distinct(b) /\ Range(a) \cap Range(b) = {}
<1> DEFINE a == SubSeq(q, 1, k)
           b == SubSeq(q, k + 1, Len(q))
           m == Len(q)
<1>1. m \in Nat /\ k \in Nat /\ k <= m /\ DOMAIN q = 1..m
  BY SMTT(60)
<1>2. /\ a \in Seq(S) /\ b \in Seq(S) /\ Len(a) = k /\ Len(b) = m - k
      /\ \A i \in 1..k : a[i] = q[i]
      /\ \A i \in 1..(m - k) : b[i] = q[k + i]
  BY SMTT(60), Split
<1> SUFFICES Distinct(a) /\ Distinct(b) /\ Range(a) \cap Range(b) = {}
  OBVIOUS
<1> HIDE DEF a, b, m
<1>3. DOMAIN a = 1..k /\ DOMAIN b = 1..(m - k)
  BY SMTT(60), <1>1, <1>2
<1>4. \A i, j \in 1..m : q[i] = q[j] => i = j
  BY <1>1 DEF Distinct, IsInjective
<1>5. Distinct(a)
  BY SMTT(60), <1>1, <1>2, <1>3, <1>4 DEF Distinct, IsInjective
<1>6. ASSUME NEW i \in 1..(m - k), NEW j \in 1..(m - k), b[i] = b[j] PROVE i = j
  <2>1. k + i \in 1..m /\ k + j \in 1..m /\ q[k + i] = q[k + j]
    BY SMTT(60), <1>1, <1>2, <1>6
  <2>2. k + i = k + j
    BY <1>4, <2>1
  <2> QED  BY SMTT(60), <1>1, <2>2
<1>7. ASSUME NEW i \in 1..k, NEW j \in 1..(m - k), a[i] = b[j] PROVE FALSE
  <2>1. i \in 1..m /\ k + j \in 1..m
    BY SMTT(60), <1>1
  <2>2. q[i] = q[k + j]
    BY <1>2, <1>7
  <2>3. i = k + j
    BY <1>4, <2>1, <2>2
  <2> QED  BY SMTT(60), <1>1, <2>3
<1> QED  BY <1>3, <1>5, <1>6, <1>7 DEF Range, Distinct, IsInjective

\* Two queues that share nothing, one after the other.
LEMMA ConcatDistinct ==
  ASSUME NEW S, NEW a \in Seq(S), NEW b \in Seq(S)
  PROVE  /\ Range(a \o b) = Range(a) \cup Range(b)
         /\ Distinct(a) /\ Distinct(b) /\ Range(a) \cap Range(b) = {} => Distinct(a \o b)
<1> DEFINE q == a \o b
           m == Len(a)
           n == Len(b)
<1>1. /\ q \in Seq(S) /\ Len(q) = m + n /\ \A i \in 1..m : q[i] = a[i]
      /\ \A i \in 1..n : q[m + i] = b[i]
  BY SMTT(60), Concat
<1>2. m \in Nat /\ n \in Nat /\ DOMAIN a = 1..m /\ DOMAIN b = 1..n /\ DOMAIN q = 1..(m + n)
  BY SMTT(60), <1>1
<1> SUFFICES /\ Range(q) = Range(a) \cup Range(b)
             /\ Distinct(a) /\ Distinct(b) /\ Range(a) \cap Range(b) = {} => Distinct(q)
  OBVIOUS
<1> HIDE DEF q, m, n
<1>3. ASSUME NEW i \in 1..(m + n)
      PROVE  \/ i \in 1..m /\ q[i] = a[i]
             \/ i - m \in 1..n /\ q[i] = b[i - m]
  <2>1. CASE i <= m
    BY SMTT(60), <1>1, <1>2, <2>1
  <2>2. CASE i > m
    <3>1. i - m \in 1..n /\ m + (i - m) = i
      BY SMTT(60), <1>2, <2>2
    <3> QED  BY <1>1, <3>1
  <2> QED  BY SMTT(60), <1>2, <2>1, <2>2
<1>4. Range(q) \subseteq Range(a) \cup Range(b)
  BY <1>2, <1>3 DEF Range
<1>5. Range(a) \cup Range(b) \subseteq Range(q)
  <2>1. \A i \in 1..m : i \in 1..(m + n)
    BY SMTT(60), <1>2
  <2>2. \A i \in 1..n : m + i \in 1..(m + n)
    BY SMTT(60), <1>2
  <2> QED  BY SMTT(60), <1>1, <1>2, <2>1, <2>2 DEF Range
<1>6. ASSUME Distinct(a), Distinct(b), Range(a) \cap Range(b) = {},
             NEW i \in 1..(m + n), NEW j \in 1..(m + n), q[i] = q[j]
      PROVE  i = j
  <2>1. \A x, y \in 1..m : a[x] = a[y] => x = y
    BY <1>2, <1>6 DEF Distinct, IsInjective
  <2>2. \A x, y \in 1..n : b[x] = b[y] => x = y
    BY <1>2, <1>6 DEF Distinct, IsInjective
  <2>3. \A x \in 1..m, y \in 1..n : a[x] # b[y]
    BY <1>2, <1>6 DEF Range
  <2>4. CASE i \in 1..m /\ q[i] = a[i]
    BY <1>3, <1>6, <2>1, <2>3, <2>4
  <2>5. CASE i - m \in 1..n /\ q[i] = b[i - m]
    <3>1. j - m \in 1..n /\ q[j] = b[j - m]
      BY <1>3, <1>6, <2>3, <2>5
    <3>2. i - m = j - m
      BY <1>6, <2>2, <2>5, <3>1
    <3> QED  BY SMTT(60), <1>2, <3>2
  <2> QED  BY <1>3, <2>4, <2>5
<1> QED  BY <1>2, <1>4, <1>5, <1>6 DEF Distinct, IsInjective

-----------------------------------------------------------------------------
(* The order in which the queue took its messages.                           *)

Precedes(e, a, b) == \E i, j \in DOMAIN e : i < j /\ e[i] = a /\ e[j] = b
InOrder(e, q) == \A i, j \in DOMAIN q : i < j => Precedes(e, q[i], q[j])

\* A newer message comes after all others and changes nothing between them.
LEMMA OrderGrows ==
  ASSUME NEW S, NEW e \in Seq(S), NEW m \in S
  PROVE  /\ \A a, b : Precedes(e, a, b) => Precedes(Append(e, m), a, b)
         /\ \A a \in Range(e) : Precedes(Append(e, m), a, m)
         /\ \A q : InOrder(e, q) => InOrder(Append(e, m), q)
<1> DEFINE f == Append(e, m)
           n == Len(e)
<1>1. /\ n \in Nat /\ DOMAIN e = 1..n /\ DOMAIN f = 1..(n + 1)
      /\ \A i \in 1..n : f[i] = e[i] /\ f[n + 1] = m
  BY SMTT(60)
<1>2. f[n + 1] = m
  BY SMTT(60)
<1> HIDE DEF f, n
<1>3. \A i \in 1..n : i \in 1..(n + 1) /\ i < n + 1
  BY SMTT(60), <1>1
<1>4. \A a, b : Precedes(e, a, b) => Precedes(f, a, b)
  BY <1>1, <1>3 DEF Precedes
<1>5. \A a \in Range(e) : Precedes(f, a, m)
  <2>1. n + 1 \in 1..(n + 1)
    BY SMTT(60), <1>1
  <2> QED  BY <1>1, <1>2, <1>3, <2>1 DEF Precedes, Range
<1>6. \A q : InOrder(e, q) => InOrder(f, q)
  BY <1>4 DEF InOrder
<1> QED  BY <1>4, <1>5, <1>6 DEF f

\* A message after all those of a queue in order.
LEMMA AppendInOrder ==
  ASSUME NEW e, NEW S, NEW q \in Seq(S), NEW m \in S, InOrder(e, q),
         \A x \in Range(q) : Precedes(e, x, m)
  PROVE  InOrder(e, Append(q, m))
<1> DEFINE r == Append(q, m)
           n == Len(q)
<1>1. /\ n \in Nat /\ DOMAIN q = 1..n /\ DOMAIN r = 1..(n + 1)
      /\ \A i \in 1..n : r[i] = q[i]
  BY SMTT(60)
<1>2. r[n + 1] = m
  BY SMTT(60)
<1> SUFFICES ASSUME NEW i \in 1..(n + 1), NEW j \in 1..(n + 1), i < j
             PROVE  Precedes(e, r[i], r[j])
  BY <1>1 DEF InOrder
<1> HIDE DEF r, n
<1>3. i \in 1..n
  BY SMTT(60), <1>1
<1>4. CASE j = n + 1
  BY <1>1, <1>2, <1>3, <1>4 DEF Range
<1>5. CASE j \in 1..n
  BY <1>1, <1>3, <1>5 DEF InOrder
<1> QED  BY SMTT(60), <1>1, <1>4, <1>5

\* The head of a queue in order comes before the rest.
LEMMA TailInOrder ==
  ASSUME NEW e, NEW S, NEW q \in Seq(S), q # <<>>, InOrder(e, q)
  PROVE  InOrder(e, Tail(q)) /\ \A y \in Range(Tail(q)) : Precedes(e, Head(q), y)
<1>1. /\ Tail(q) \in Seq(S) /\ Len(Tail(q)) = Len(q) - 1
      /\ \A i \in 1..(Len(q) - 1) : Tail(q)[i] = q[i + 1]
      /\ Len(q) \in Nat \ {0} /\ Head(q) = q[1]
  BY SMTT(60)
<1>2. DOMAIN Tail(q) = 1..(Len(q) - 1) /\ DOMAIN q = 1..Len(q)
  BY SMTT(60), <1>1
<1>3. \A i \in 1..(Len(q) - 1) : i + 1 \in 1..Len(q) /\ 1 \in 1..Len(q) /\ 1 < i + 1
  BY SMTT(60), <1>1
<1>4. ASSUME NEW i \in 1..(Len(q) - 1), NEW j \in 1..(Len(q) - 1), i < j
      PROVE  Precedes(e, Tail(q)[i], Tail(q)[j])
  <2>1. i + 1 < j + 1
    BY SMTT(60), <1>1, <1>4
  <2> QED  BY <1>1, <1>2, <1>3, <2>1 DEF InOrder
<1>5. ASSUME NEW i \in 1..(Len(q) - 1) PROVE Precedes(e, Head(q), Tail(q)[i])
  BY <1>1, <1>2, <1>3 DEF InOrder
<1> QED  BY <1>2, <1>4, <1>5 DEF InOrder, Range

\* Both parts of a queue in order are in order.
LEMMA SplitInOrder ==
  ASSUME NEW e, NEW S, NEW q \in Seq(S), NEW k \in 0..Len(q), InOrder(e, q)
  PROVE  InOrder(e, SubSeq(q, 1, k)) /\ InOrder(e, SubSeq(q, k + 1, Len(q)))
<1> DEFINE a == SubSeq(q, 1, k)
           b == SubSeq(q, k + 1, Len(q))
           m == Len(q)
<1>1. m \in Nat /\ k \in Nat /\ k <= m /\ DOMAIN q = 1..m
  BY SMTT(60)
<1>2. /\ a \in Seq(S) /\ b \in Seq(S) /\ Len(a) = k /\ Len(b) = m - k
      /\ \A i \in 1..k : a[i] = q[i]
      /\ \A i \in 1..(m - k) : b[i] = q[k + i]
  BY SMTT(60), Split
<1> SUFFICES InOrder(e, a) /\ InOrder(e, b)
  OBVIOUS
<1> HIDE DEF a, b, m
<1>3. DOMAIN a = 1..k /\ DOMAIN b = 1..(m - k)
  BY SMTT(60), <1>1, <1>2
<1>4. \A i \in 1..k : i \in 1..m
  BY SMTT(60), <1>1
<1>5. InOrder(e, a)
  BY <1>1, <1>2, <1>3, <1>4 DEF InOrder
<1>6. ASSUME NEW i \in 1..(m - k), NEW j \in 1..(m - k), i < j PROVE Precedes(e, b[i], b[j])
  <2>1. k + i \in 1..m /\ k + j \in 1..m /\ k + i < k + j
    BY SMTT(60), <1>1, <1>6
  <2> QED  BY <1>1, <1>2, <2>1 DEF InOrder
<1> QED  BY <1>3, <1>5, <1>6 DEF InOrder

-----------------------------------------------------------------------------
(* The queue: every message is in one place, in the order it was taken.      *)

Messages == Callers \cup Notes

DeliveryTypeOK ==
  /\ outbound \in Seq(Messages) /\ enqueued \in Seq(Messages)
  /\ sub \in EventStreams \cup {NoStream}
  /\ subChan \in [EventStreams -> Seq(Messages)] /\ heard \in [EventStreams -> Seq(Messages)]
  /\ epc \in [EventStreams -> {"absent", "open", "leaving", "done"}]
  /\ stolen \in BOOLEAN /\ spilled \in BOOLEAN
  /\ spc \in [Callers -> {"idle", "registered", "waiting", "leaving", "answered",
                          "gaveUp", "failed"}]
  /\ npc \in [Notes -> {"idle", "queued", "emitted"}]

Disjoint(S, T) == \A x \in S : x \notin T

\* No queue holds a message twice and no two queues share one.
PlacesInv ==
  /\ Distinct(outbound)
  /\ \A s \in EventStreams :
       /\ Distinct(subChan[s]) /\ Distinct(heard[s])
       /\ Disjoint(Range(outbound), Range(subChan[s]))
       /\ Disjoint(Range(outbound), Range(heard[s]))
       /\ \A t \in EventStreams : Disjoint(Range(subChan[s]), Range(heard[t]))
       /\ \A t \in EventStreams \ {s} : /\ Disjoint(Range(subChan[s]), Range(subChan[t]))
                                        /\ Disjoint(Range(heard[s]), Range(heard[t]))

Holds(m) == m \in Range(outbound) \/ \E s \in EventStreams : m \in Range(subChan[s]) \cup Range(heard[s])

\* What is held was taken; what was taken is held, cut off or was lost to a
\* steal; and a message is taken once, when its sender reaches enqueue.
TakenInv ==
  /\ \A m : Holds(m) => m \in Range(enqueued)
  /\ \A m \in Range(enqueued) : Holds(m) \/ m \in cutoff \/ stolen
  /\ \A c \in Callers : spc[c] \in {"idle", "registered"} => c \notin Range(enqueued)
  /\ \A n \in Notes : npc[n] # "emitted" => n \notin Range(enqueued)

\* Streams are numbered as they connect; one that is not there yet, or no
\* longer, is not attached; and only the attached one has messages, unless one
\* was stolen.
ConnectInv ==
  /\ \E k \in 0..NEventStreams : {s \in EventStreams : epc[s] # "absent"} = 1..k
  /\ \A s \in EventStreams :
       /\ epc[s] = "absent" => subChan[s] = <<>> /\ heard[s] = <<>> /\ sub # s
       /\ epc[s] = "done" => sub # s
       /\ subChan[s] # <<>> /\ sub # s => stolen

\* While nothing had to wait behind an attached stream, every queue is in order
\* and a client has what came before its channel.
OrderInv ==
  ~spilled =>
    /\ sub # NoStream => outbound = <<>>
    /\ InOrder(enqueued, outbound)
    /\ \A s \in EventStreams :
         /\ InOrder(enqueued, subChan[s]) /\ InOrder(enqueued, heard[s])
         /\ \A x \in Range(heard[s]), y \in Range(subChan[s]) : Precedes(enqueued, x, y)

DeliveryInv == DeliveryTypeOK /\ PlacesInv /\ TakenInv /\ ConnectInv /\ OrderInv

\* Nothing is queued at the start.
LEMMA DeliveryStart == BidiInit => DeliveryInv
<1> SUFFICES ASSUME BidiInit PROVE DeliveryInv
  OBVIOUS
<1>1. Range(<<>>) = {} /\ Distinct(<<>>) /\ \A e : InOrder(e, <<>>)
  BY SMTT(60) DEF Range, Distinct, InOrder
<1>2. DeliveryTypeOK
  <2>1. stolen \in BOOLEAN /\ spilled \in BOOLEAN
    BY DEF BidiInit
  <2>2. <<>> \in Seq(Messages)
    BY SMTT(60)
  <2> QED  BY <2>1, <2>2 DEF BidiInit, DeliveryTypeOK
<1>3. PlacesInv
  BY <1>1 DEF BidiInit, PlacesInv, Disjoint
<1>4. TakenInv
  BY <1>1 DEF BidiInit, TakenInv, Holds
<1>5. ConnectInv
  <2>1. {s \in EventStreams : epc[s] # "absent"} = 1..0 /\ 0 \in 0..NEventStreams
    BY SMTT(60), BidiAssumption DEF BidiInit
  <2>2. \A s \in EventStreams : sub # s /\ subChan[s] = <<>> /\ heard[s] = <<>> /\ epc[s] = "absent"
    BY BidiAssumption DEF BidiInit
  <2> QED  BY <2>1, <2>2 DEF ConnectInv
<1>6. OrderInv
  BY <1>1 DEF BidiInit, OrderInv
<1> QED  BY <1>2, <1>3, <1>4, <1>5, <1>6 DEF DeliveryInv

\* A sender or a stream moves on and the queues stay as they are.
LEMMA QueuesKept ==
  ASSUME DeliveryInv, UNCHANGED <<outbound, sub, subChan, heard, enqueued, cutoff, stolen, spilled>>,
         spc' \in [Callers -> {"idle", "registered", "waiting", "leaving", "answered",
                               "gaveUp", "failed"}],
         npc' \in [Notes -> {"idle", "queued", "emitted"}],
         \A c \in Callers : spc'[c] \in {"idle", "registered"} => spc[c] \in {"idle", "registered"},
         \A n \in Notes : npc'[n] # "emitted" => npc[n] # "emitted",
         \/ UNCHANGED epc
         \/ \E s \in EventStreams : epc[s] = "open" /\ epc' = [epc EXCEPT ![s] = "leaving"]
  PROVE  DeliveryInv'
<1>1. DeliveryTypeOK /\ PlacesInv /\ TakenInv /\ ConnectInv /\ OrderInv
  BY DEF DeliveryInv
<1>2. epc' \in [EventStreams -> {"absent", "open", "leaving", "done"}]
      /\ \A s \in EventStreams : /\ (epc'[s] = "absent") = (epc[s] = "absent")
                                 /\ epc'[s] = "done" => epc[s] = "done"
  BY <1>1 DEF DeliveryTypeOK
<1>3. DeliveryTypeOK'
  BY <1>1, <1>2 DEF DeliveryTypeOK
<1>4. PlacesInv'
  BY <1>1 DEF PlacesInv
<1>5. TakenInv'
  BY <1>1 DEF TakenInv, Holds
<1>6. ConnectInv'
  <2>1. {s \in EventStreams : epc'[s] # "absent"} = {s \in EventStreams : epc[s] # "absent"}
    BY <1>2
  <2> QED  BY <1>1, <1>2, <2>1 DEF ConnectInv
<1>7. OrderInv'
  BY <1>1 DEF OrderInv
<1> QED  BY <1>3, <1>4, <1>5, <1>6, <1>7 DEF DeliveryInv

\* A message joins the attached stream's channel while it has room, else the
\* buffer.
LEMMA EnqueueKeeps ==
  ASSUME DeliveryInv, NEW m \in Messages, m \notin Range(enqueued), Enqueue(m),
         UNCHANGED <<heard, epc>>,
         spc' \in [Callers -> {"idle", "registered", "waiting", "leaving", "answered",
                               "gaveUp", "failed"}],
         npc' \in [Notes -> {"idle", "queued", "emitted"}],
         \A c \in Callers : spc'[c] \in {"idle", "registered"} =>
                              spc[c] \in {"idle", "registered"} /\ c # m,
         \A n \in Notes : npc'[n] # "emitted" => npc[n] # "emitted" /\ n # m
  PROVE  DeliveryInv'
<1>1. DeliveryTypeOK /\ PlacesInv /\ TakenInv /\ ConnectInv /\ OrderInv
  BY DEF DeliveryInv
<1>2. UNCHANGED <<sub, cutoff, stolen>> /\ enqueued' = Append(enqueued, m)
  BY DEF Enqueue
<1>3. /\ enqueued' \in Seq(Messages) /\ Range(enqueued') = Range(enqueued) \cup {m}
  BY <1>1, <1>2, AppendRange DEF DeliveryTypeOK
<1>4. ~Holds(m)
  BY <1>1 DEF TakenInv
<1>5. /\ \A a, b : Precedes(enqueued, a, b) => Precedes(enqueued', a, b)
      /\ \A a \in Range(enqueued) : Precedes(enqueued', a, m)
      /\ \A q : InOrder(enqueued, q) => InOrder(enqueued', q)
  BY <1>1, <1>2, OrderGrows DEF DeliveryTypeOK
<1>6. spilled' \in BOOLEAN /\ (spilled => spilled')
      /\ (sub # NoStream /\ outbound' # outbound => spilled')
  BY DEF Enqueue
<1>7. stolen' \in BOOLEAN
  BY <1>1, <1>2 DEF DeliveryTypeOK
<1>8. CASE sub # NoStream /\ Len(subChan[sub]) < Buffer
  <2>1. subChan' = [subChan EXCEPT ![sub] = Append(@, m)] /\ UNCHANGED outbound
    BY <1>8 DEF Enqueue
  <2>2. sub \in EventStreams
    BY <1>1, <1>8 DEF DeliveryTypeOK
  <2>3. PICK c \in Seq(Messages) : c = subChan[sub]
    BY <1>1, <2>2 DEF DeliveryTypeOK
  <2>4. /\ subChan'[sub] = Append(c, m)
        /\ \A s \in EventStreams \ {sub} : subChan'[s] = subChan[s]
    BY <1>1, <2>1, <2>2, <2>3 DEF DeliveryTypeOK
  <2>5. /\ Append(c, m) \in Seq(Messages) /\ Range(Append(c, m)) = Range(c) \cup {m}
        /\ m \notin Range(c) /\ Distinct(c) /\ c # Append(c, m)
    <3>1. m \notin Range(c) /\ Distinct(c)
      BY <1>1, <1>4, <2>2, <2>3 DEF Holds, PlacesInv
    <3> QED  BY SMTT(60), <3>1, AppendRange
  <2>6. Distinct(Append(c, m))
    BY <2>5, AppendDistinct
  <2>7. DeliveryTypeOK'
    <3>1. subChan' \in [EventStreams -> Seq(Messages)]
      BY <1>1, <2>1, <2>2, <2>3, <2>5 DEF DeliveryTypeOK
    <3> QED  BY <1>1, <1>2, <1>3, <1>6, <1>7, <2>1, <3>1 DEF DeliveryTypeOK
  <2>8. /\ \A s \in EventStreams : subChan'[s] # subChan[s] =>
             s = sub /\ Range(subChan'[s]) = Range(subChan[s]) \cup {m} /\ Distinct(subChan'[s])
        /\ \A s \in EventStreams : m \notin Range(heard[s]) /\ m \notin Range(subChan[s])
        /\ m \notin Range(outbound)
    BY <1>4, <2>3, <2>4, <2>5, <2>6 DEF Holds
  <2>9. PlacesInv'
    <3>1. \A s \in EventStreams :
            /\ Distinct(subChan'[s])
            /\ Disjoint(Range(outbound), Range(subChan'[s]))
            /\ \A t \in EventStreams : Disjoint(Range(subChan'[s]), Range(heard[t]))
            /\ \A t \in EventStreams \ {s} : Disjoint(Range(subChan'[s]), Range(subChan'[t]))
      <4> TAKE s \in EventStreams
      <4>1. Distinct(subChan'[s])
        BY <1>1, <2>8 DEF PlacesInv
      <4>2. \A t \in EventStreams : \A x \in Range(subChan'[t]) :
              x \in Range(subChan[t]) \/ (x = m /\ t = sub)
        BY SMTT(60), <2>8
      <4>3. Disjoint(Range(outbound), Range(subChan'[s]))
        BY SMTT(60), <1>1, <2>8, <4>2 DEF PlacesInv, Disjoint
      <4>4. \A t \in EventStreams : Disjoint(Range(subChan'[s]), Range(heard[t]))
        BY SMTT(60), <1>1, <2>8, <4>2 DEF PlacesInv, Disjoint
      <4>5. \A t \in EventStreams \ {s} : Disjoint(Range(subChan'[s]), Range(subChan'[t]))
        <5> SUFFICES ASSUME NEW t \in EventStreams \ {s}, NEW x \in Range(subChan'[s]),
                            x \in Range(subChan'[t])
                     PROVE  FALSE
          BY DEF Disjoint
        <5>1. x \in Range(subChan[s]) => x \notin Range(subChan[t])
          BY <1>1 DEF PlacesInv, Disjoint
        <5> QED  BY <2>8, <4>2, <5>1
      <4> QED  BY <4>1, <4>3, <4>4, <4>5
    <3> QED  BY <1>1, <2>1, <3>1 DEF PlacesInv
  <2>10. \A x : Holds(x)' <=> Holds(x) \/ x = m
    <3>1. \A x : x \in Range(subChan'[sub]) <=> x \in Range(subChan[sub]) \/ x = m
      BY <2>3, <2>4, <2>5
    <3> QED  BY <2>1, <2>2, <2>4, <3>1 DEF Holds
  <2>11. TakenInv'
    <3>1. \A x : Holds(x)' => x \in Range(enqueued')
      BY <1>1, <1>3, <2>10 DEF TakenInv
    <3>2. \A x \in Range(enqueued') : Holds(x)' \/ x \in cutoff' \/ stolen'
      BY <1>1, <1>2, <1>3, <2>10 DEF TakenInv
    <3>3. \A k \in Callers : spc'[k] \in {"idle", "registered"} => k \notin Range(enqueued')
      BY <1>1, <1>3 DEF TakenInv
    <3>4. \A n \in Notes : npc'[n] # "emitted" => n \notin Range(enqueued')
      BY <1>1, <1>3 DEF TakenInv
    <3> QED  BY <3>1, <3>2, <3>3, <3>4 DEF TakenInv
  <2>12. ConnectInv'
    <3>1. epc[sub] # "absent"
      BY <1>1, <2>2 DEF ConnectInv
    <3>2. \A s \in EventStreams : s = sub \/ subChan'[s] = subChan[s]
      BY <2>4
    <3> QED  BY <1>1, <1>2, <2>2, <3>1, <3>2 DEF ConnectInv
  <2>13. OrderInv'
    <3> SUFFICES ASSUME ~spilled'
                 PROVE  /\ sub' # NoStream => outbound' = <<>>
                        /\ InOrder(enqueued', outbound')
                        /\ \A s \in EventStreams :
                             /\ InOrder(enqueued', subChan'[s]) /\ InOrder(enqueued', heard'[s])
                             /\ \A x \in Range(heard'[s]), y \in Range(subChan'[s]) :
                                  Precedes(enqueued', x, y)
      BY DEF OrderInv
    <3>1. ~spilled
      BY <1>6
    <3>2. (sub' # NoStream => outbound' = <<>>) /\ InOrder(enqueued', outbound')
      BY <1>1, <1>2, <1>5, <2>1, <3>1 DEF OrderInv
    <3>3. InOrder(enqueued', Append(c, m))
      <4>1. InOrder(enqueued', c)
        BY <1>1, <1>5, <2>2, <2>3, <3>1 DEF OrderInv
      <4>2. \A x \in Range(c) : Precedes(enqueued', x, m)
        BY <1>1, <1>5, <2>2, <2>3 DEF TakenInv, Holds
      <4> QED  BY <4>1, <4>2, AppendInOrder
    <3>4. ASSUME NEW s \in EventStreams
          PROVE  /\ InOrder(enqueued', subChan'[s]) /\ InOrder(enqueued', heard'[s])
                 /\ \A x \in Range(heard'[s]), y \in Range(subChan'[s]) : Precedes(enqueued', x, y)
      <4>1. /\ InOrder(enqueued', heard[s]) /\ InOrder(enqueued', subChan[s])
            /\ \A x \in Range(heard[s]), y \in Range(subChan[s]) : Precedes(enqueued', x, y)
            /\ \A x \in Range(heard[s]) : Precedes(enqueued', x, m)
        BY <1>1, <1>5, <3>1 DEF OrderInv, TakenInv, Holds
      <4>2. CASE s = sub
        <5>1. InOrder(enqueued', subChan'[s]) /\ InOrder(enqueued', heard'[s])
          BY <2>4, <3>3, <4>1, <4>2
        <5>2. Range(subChan'[s]) = Range(subChan[s]) \cup {m} /\ heard'[s] = heard[s]
          BY <2>3, <2>4, <2>5, <4>2
        <5> QED  BY <4>1, <5>1, <5>2
      <4>3. CASE s # sub
        BY <2>4, <4>1, <4>3
      <4> QED  BY <4>2, <4>3
    <3> QED  BY <3>2, <3>4
  <2> QED  BY <2>7, <2>9, <2>11, <2>12, <2>13 DEF DeliveryInv
<1>9. CASE ~(sub # NoStream /\ Len(subChan[sub]) < Buffer)
  <2>1. outbound' = Append(outbound, m) /\ UNCHANGED subChan
    BY <1>9 DEF Enqueue
  <2>2. /\ outbound' \in Seq(Messages) /\ Range(outbound') = Range(outbound) \cup {m}
    BY <1>1, <2>1, AppendRange DEF DeliveryTypeOK
  <2>3. /\ m \notin Range(outbound)
        /\ \A s \in EventStreams : m \notin Range(subChan[s]) /\ m \notin Range(heard[s])
    BY <1>4 DEF Holds
  <2>4. Distinct(outbound') /\ outbound' # outbound
    BY <1>1, <2>1, <2>2, <2>3, AppendDistinct DEF PlacesInv, DeliveryTypeOK
  <2>5. DeliveryTypeOK'
    BY <1>1, <1>2, <1>3, <1>6, <1>7, <2>1, <2>2 DEF DeliveryTypeOK
  <2>6. PlacesInv'
    BY <1>1, <2>1, <2>2, <2>3, <2>4 DEF PlacesInv, Disjoint
  <2>7. \A x : Holds(x)' <=> Holds(x) \/ x = m
    BY <2>1, <2>2 DEF Holds
  <2>8. TakenInv'
    <3>1. \A x : Holds(x)' => x \in Range(enqueued')
      BY <1>1, <1>3, <2>7 DEF TakenInv
    <3>2. \A x \in Range(enqueued') : Holds(x)' \/ x \in cutoff' \/ stolen'
      BY <1>1, <1>2, <1>3, <2>7 DEF TakenInv
    <3>3. \A k \in Callers : spc'[k] \in {"idle", "registered"} => k \notin Range(enqueued')
      BY <1>1, <1>3 DEF TakenInv
    <3>4. \A n \in Notes : npc'[n] # "emitted" => n \notin Range(enqueued')
      BY <1>1, <1>3 DEF TakenInv
    <3> QED  BY <3>1, <3>2, <3>3, <3>4 DEF TakenInv
  <2>9. ConnectInv'
    BY <1>1, <1>2, <2>1 DEF ConnectInv
  <2>10. OrderInv'
    <3> SUFFICES ASSUME ~spilled'
                 PROVE  /\ sub' # NoStream => outbound' = <<>>
                        /\ InOrder(enqueued', outbound')
                        /\ \A s \in EventStreams :
                             /\ InOrder(enqueued', subChan'[s]) /\ InOrder(enqueued', heard'[s])
                             /\ \A x \in Range(heard'[s]), y \in Range(subChan'[s]) :
                                  Precedes(enqueued', x, y)
      BY DEF OrderInv
    <3>1. ~spilled /\ sub' = NoStream
      BY <1>2, <1>6, <2>4
    <3>2. InOrder(enqueued', outbound) /\ \A x \in Range(outbound) : Precedes(enqueued', x, m)
      BY <1>1, <1>5, <3>1 DEF OrderInv, TakenInv, Holds
    <3>3. InOrder(enqueued', outbound')
      BY <1>1, <2>1, <3>2, AppendInOrder DEF DeliveryTypeOK
    <3>4. \A s \in EventStreams :
            /\ InOrder(enqueued', subChan'[s]) /\ InOrder(enqueued', heard'[s])
            /\ \A x \in Range(heard'[s]), y \in Range(subChan'[s]) : Precedes(enqueued', x, y)
      BY <1>1, <1>5, <2>1, <3>1 DEF OrderInv
    <3> QED  BY <3>1, <3>3, <3>4
  <2> QED  BY <2>5, <2>6, <2>8, <2>9, <2>10 DEF DeliveryInv
<1> QED  BY <1>8, <1>9

\* A stream takes the next message from its channel: its client has it, or its
\* frame cannot be written and the stream ends.
LEMMA WriteKeeps ==
  ASSUME DeliveryInv, NEW s \in EventStreams, StreamWrite(s) \/ StreamWriteFails(s)
  PROVE  DeliveryInv'
<1>1. DeliveryTypeOK /\ PlacesInv /\ TakenInv /\ ConnectInv /\ OrderInv
  BY DEF DeliveryInv
<1>2. /\ epc[s] = "open" /\ subChan[s] # <<>> /\ subChan' = [subChan EXCEPT ![s] = Tail(@)]
      /\ UNCHANGED <<outbound, sub, spc, npc, enqueued, stolen, spilled>>
  BY DEF StreamWrite, StreamWriteFails, callVars, noteVars, histVars
<1>3. PICK c \in Seq(Messages), g \in Seq(Messages) : c = subChan[s] /\ g = heard[s]
  BY <1>1 DEF DeliveryTypeOK
<1>4. PICK h : h = Head(c)
  OBVIOUS
<1>5. /\ Tail(c) \in Seq(Messages) /\ h \in Messages /\ Range(c) = Range(Tail(c)) \cup {h}
      /\ c # <<>>
  BY <1>2, <1>3, <1>4, HeadTail
<1>6. Distinct(Tail(c)) /\ h \notin Range(Tail(c))
  BY <1>1, <1>3, <1>4, <1>5, TailDistinct DEF PlacesInv
<1>7. /\ subChan'[s] = Tail(c) /\ subChan' \in [EventStreams -> Seq(Messages)]
      /\ \A t \in EventStreams \ {s} : subChan'[t] = subChan[t]
  BY <1>1, <1>2, <1>3, <1>5 DEF DeliveryTypeOK
<1>8. \A t \in EventStreams : \A x \in Range(subChan'[t]) : x \in Range(subChan[t])
  BY <1>3, <1>5, <1>7
<1>9. /\ h \in Range(c) /\ h \notin Range(outbound) /\ h \notin Range(g)
      /\ \A t \in EventStreams : h \notin Range(heard[t]) /\ h \notin Range(subChan'[t])
      /\ h \in Range(enqueued)
  <2>1. h \in Range(subChan[s])
    BY <1>3, <1>5
  <2>2. h \notin Range(outbound) /\ \A t \in EventStreams : h \notin Range(heard[t])
    BY <1>1, <2>1 DEF PlacesInv, Disjoint
  <2>3. \A t \in EventStreams \ {s} : h \notin Range(subChan[t])
    BY <1>1, <2>1 DEF PlacesInv, Disjoint
  <2>4. h \in Range(enqueued)
    BY <1>1, <2>1 DEF TakenInv, Holds
  <2> QED  BY <1>3, <1>6, <1>7, <2>1, <2>2, <2>3, <2>4
<1>10. stolen' \in BOOLEAN /\ spilled' \in BOOLEAN /\ (spilled' => spilled) /\ (spilled => spilled')
  BY <1>1, <1>2 DEF DeliveryTypeOK
<1>11. \A t \in EventStreams : ~spilled =>
         /\ InOrder(enqueued, subChan'[t])
         /\ \A y \in Range(subChan'[t]) : t = s => Precedes(enqueued, h, y)
  <2>1. ~spilled => InOrder(enqueued, Tail(c)) /\ \A y \in Range(Tail(c)) : Precedes(enqueued, h, y)
    BY <1>1, <1>3, <1>4, <1>5, TailInOrder DEF OrderInv
  <2> QED  BY <1>1, <1>7, <2>1 DEF OrderInv
<1>12. CASE StreamWrite(s)
  <2>1. heard' = [heard EXCEPT ![s] = Append(@, Head(subChan[s]))] /\ UNCHANGED <<epc, cutoff>>
    BY <1>12 DEF StreamWrite, histVars
  <2>2. /\ Append(g, h) \in Seq(Messages) /\ Range(Append(g, h)) = Range(g) \cup {h}
    BY SMTT(60), <1>5, AppendRange
  <2>3. /\ heard'[s] = Append(g, h) /\ heard' \in [EventStreams -> Seq(Messages)]
        /\ \A t \in EventStreams \ {s} : heard'[t] = heard[t]
    BY <1>1, <1>3, <1>4, <2>1, <2>2 DEF DeliveryTypeOK
  <2>4. \A t \in EventStreams : \A x \in Range(heard'[t]) :
          x \in Range(heard[t]) \/ (x = h /\ t = s)
    <3>1. Range(heard'[s]) = Range(heard[s]) \cup {h}
      BY <1>3, <2>2, <2>3
    <3> QED  BY <2>3, <3>1
  <2>5. DeliveryTypeOK'
    BY <1>1, <1>2, <1>7, <1>10, <2>1, <2>3 DEF DeliveryTypeOK
  <2>6. PlacesInv'
    <3>1. Distinct(Append(g, h))
      BY <1>1, <1>3, <1>5, <1>9, AppendDistinct DEF PlacesInv
    <3>2. ASSUME NEW t \in EventStreams
          PROVE  /\ Distinct(subChan'[t]) /\ Distinct(heard'[t])
                 /\ Disjoint(Range(outbound), Range(subChan'[t]))
                 /\ Disjoint(Range(outbound), Range(heard'[t]))
      <4>1. Distinct(subChan'[t]) /\ Distinct(heard'[t])
        BY <1>1, <1>6, <1>7, <2>3, <3>1 DEF PlacesInv
      <4>2. Disjoint(Range(outbound), Range(subChan'[t]))
        BY <1>1, <1>8 DEF PlacesInv, Disjoint
      <4>3. Disjoint(Range(outbound), Range(heard'[t]))
        BY <1>1, <1>9, <2>4 DEF PlacesInv, Disjoint
      <4> QED  BY <4>1, <4>2, <4>3
    <3>3. ASSUME NEW t \in EventStreams, NEW u \in EventStreams
          PROVE  Disjoint(Range(subChan'[t]), Range(heard'[u]))
      BY SMTT(60), <1>1, <1>8, <1>9, <2>4 DEF PlacesInv, Disjoint
    <3>4. ASSUME NEW t \in EventStreams, NEW u \in EventStreams \ {t}
          PROVE  /\ Disjoint(Range(subChan'[t]), Range(subChan'[u]))
                 /\ Disjoint(Range(heard'[t]), Range(heard'[u]))
      <4>1. Disjoint(Range(subChan'[t]), Range(subChan'[u]))
        BY <1>1, <1>8 DEF PlacesInv, Disjoint
      <4>2. Disjoint(Range(heard'[t]), Range(heard'[u]))
        <5> SUFFICES ASSUME NEW x \in Range(heard'[t]), x \in Range(heard'[u]) PROVE FALSE
          BY DEF Disjoint
        <5>1. x \in Range(heard[t]) => x \notin Range(heard[u])
          BY <1>1 DEF PlacesInv, Disjoint
        <5> QED  BY <1>9, <2>4, <5>1
      <4> QED  BY <4>1, <4>2
    <3>5. Distinct(outbound')
      BY <1>1, <1>2 DEF PlacesInv
    <3> QED  BY <1>2, <3>2, <3>3, <3>4, <3>5 DEF PlacesInv
  <2>7. \A x : Holds(x)' <=> Holds(x)
    <3>1. \A x : x \in Range(subChan'[s]) \cup Range(heard'[s])
                   <=> x \in Range(subChan[s]) \cup Range(heard[s])
      BY <1>3, <1>5, <1>7, <2>2, <2>3
    <3> QED  BY <1>2, <1>7, <2>3, <3>1 DEF Holds
  <2>8. TakenInv'
    BY <1>1, <1>2, <2>1, <2>7 DEF TakenInv
  <2>9. ConnectInv'
    <3>1. \A t \in EventStreams : subChan'[t] # <<>> => subChan[t] # <<>>
      BY <1>2, <1>7
    <3>2. \A t \in EventStreams : epc[t] = "absent" => heard'[t] = heard[t] /\ subChan'[t] = subChan[t]
      BY <1>2, <1>7, <2>3
    <3> QED  BY <1>1, <1>2, <2>1, <3>1, <3>2 DEF ConnectInv
  <2>10. OrderInv'
    <3> SUFFICES ASSUME ~spilled'
                 PROVE  /\ sub' # NoStream => outbound' = <<>>
                        /\ InOrder(enqueued', outbound')
                        /\ \A t \in EventStreams :
                             /\ InOrder(enqueued', subChan'[t]) /\ InOrder(enqueued', heard'[t])
                             /\ \A x \in Range(heard'[t]), y \in Range(subChan'[t]) :
                                  Precedes(enqueued', x, y)
      BY DEF OrderInv
    <3>1. ~spilled
      BY <1>10
    <3>2. (sub' # NoStream => outbound' = <<>>) /\ InOrder(enqueued', outbound')
      BY <1>1, <1>2, <3>1 DEF OrderInv
    <3>3. InOrder(enqueued, Append(g, h))
      <4>1. InOrder(enqueued, g) /\ \A x \in Range(g) : Precedes(enqueued, x, h)
        BY <1>1, <1>3, <1>9, <3>1 DEF OrderInv
      <4> QED  BY <1>5, <4>1, AppendInOrder
    <3>4. \A t \in EventStreams : InOrder(enqueued, subChan'[t]) /\ InOrder(enqueued, heard'[t])
      BY <1>1, <1>11, <2>3, <3>1, <3>3 DEF OrderInv
    <3>5. ASSUME NEW t \in EventStreams, NEW x \in Range(heard'[t]), NEW y \in Range(subChan'[t])
          PROVE  Precedes(enqueued, x, y)
      <4>1. y \in Range(subChan[t])
        BY <1>8
      <4>2. CASE x \in Range(heard[t])
        BY <1>1, <3>1, <4>1, <4>2 DEF OrderInv
      <4>3. CASE x = h /\ t = s
        BY <1>11, <3>1, <4>3
      <4> QED  BY <2>4, <4>2, <4>3
    <3> QED  BY <1>2, <3>2, <3>4, <3>5
  <2> QED  BY <2>5, <2>6, <2>8, <2>9, <2>10 DEF DeliveryInv
<1>13. CASE StreamWriteFails(s)
  <2>1. cutoff' = cutoff \cup {h} /\ epc' = [epc EXCEPT ![s] = "leaving"] /\ UNCHANGED heard
    BY <1>3, <1>4, <1>13 DEF StreamWriteFails
  <2>2. epc' \in [EventStreams -> {"absent", "open", "leaving", "done"}]
        /\ \A t \in EventStreams : /\ (epc'[t] = "absent") = (epc[t] = "absent")
                                   /\ epc'[t] = "done" => epc[t] = "done"
    BY <1>1, <1>2, <2>1 DEF DeliveryTypeOK
  <2>3. DeliveryTypeOK'
    BY <1>1, <1>2, <1>7, <1>10, <2>1, <2>2 DEF DeliveryTypeOK
  <2>4. PlacesInv'
    <3>1. \A t \in EventStreams : Distinct(subChan'[t])
      BY <1>1, <1>6, <1>7 DEF PlacesInv
    <3>2. \A t \in EventStreams : Disjoint(Range(outbound), Range(subChan'[t]))
      BY <1>1, <1>8 DEF PlacesInv, Disjoint
    <3>3. \A t, u \in EventStreams : Disjoint(Range(subChan'[t]), Range(heard[u]))
      BY <1>1, <1>8 DEF PlacesInv, Disjoint
    <3>4. \A t \in EventStreams : \A u \in EventStreams \ {t} :
            Disjoint(Range(subChan'[t]), Range(subChan'[u]))
      BY <1>1, <1>8 DEF PlacesInv, Disjoint
    <3> QED  BY <1>1, <1>2, <2>1, <3>1, <3>2, <3>3, <3>4 DEF PlacesInv
  <2>5. \A x : Holds(x) <=> Holds(x)' \/ x = h
    <3>1. \A x : x \in Range(subChan[s]) <=> x \in Range(subChan'[s]) \/ x = h
      BY <1>3, <1>5, <1>7
    <3> QED  BY <1>2, <1>7, <2>1, <3>1 DEF Holds
  <2>6. TakenInv'
    BY <1>1, <1>2, <2>1, <2>5 DEF TakenInv
  <2>7. ConnectInv'
    <3>1. \A t \in EventStreams : subChan'[t] # <<>> => subChan[t] # <<>>
      BY <1>2, <1>7
    <3>2. {t \in EventStreams : epc'[t] # "absent"} = {t \in EventStreams : epc[t] # "absent"}
      BY <2>2
    <3> QED  BY <1>1, <1>2, <2>1, <2>2, <3>1, <3>2 DEF ConnectInv
  <2>8. OrderInv'
    BY <1>1, <1>2, <1>8, <1>11, <2>1 DEF OrderInv
  <2> QED  BY <2>3, <2>4, <2>6, <2>7, <2>8 DEF DeliveryInv
<1> QED  BY <1>12, <1>13

\* A new stream takes over and is sent the backlog, up to its capacity.
LEMMA TakeoverKeeps ==
  ASSUME DeliveryInv, NEW s \in EventStreams, BidiSubscribe(s)
  PROVE  DeliveryInv'
<1> DEFINE k == IF Len(outbound) < Buffer THEN Len(outbound) ELSE Buffer
<1>1. DeliveryTypeOK /\ PlacesInv /\ TakenInv /\ ConnectInv /\ OrderInv
  BY DEF DeliveryInv
<1>2. /\ Connects(s) /\ sub' = s
      /\ subChan' = [subChan EXCEPT ![s] = SubSeq(outbound, 1, k)]
      /\ outbound' = SubSeq(outbound, k + 1, Len(outbound))
      /\ UNCHANGED <<spc, npc, heard, enqueued, cutoff>>
  BY DEF BidiSubscribe, callVars, noteVars
<1>3. k \in 0..Len(outbound)
  <2>1. Len(outbound) \in Nat /\ Buffer \in Nat
    BY SMTT(60), <1>1, BidiAssumption DEF DeliveryTypeOK
  <2> QED  BY SMTT(60), <2>1
<1>4. /\ stolen' \in BOOLEAN /\ (stolen => stolen')
      /\ (sub # NoStream /\ subChan[sub] # <<>> => stolen')
  BY DEF BidiSubscribe
<1>5. spilled' \in BOOLEAN /\ (spilled => spilled') /\ (outbound' # <<>> => spilled')
  BY DEF BidiSubscribe
<1>6. PICK a : a = SubSeq(outbound, 1, k)
  OBVIOUS
<1>7. /\ a \in Seq(Messages) /\ outbound' \in Seq(Messages)
      /\ Range(outbound) = Range(a) \cup Range(outbound')
  BY <1>1, <1>2, <1>3, <1>6, Split DEF DeliveryTypeOK
<1>8. Distinct(a) /\ Distinct(outbound') /\ Range(a) \cap Range(outbound') = {}
  BY <1>1, <1>2, <1>3, <1>6, SplitDistinct DEF DeliveryTypeOK, PlacesInv
<1>9. ~spilled => InOrder(enqueued, a) /\ InOrder(enqueued, outbound')
  BY <1>1, <1>2, <1>3, <1>6, SplitInOrder DEF DeliveryTypeOK, OrderInv
<1> HIDE DEF k
<1>10. /\ subChan'[s] = a /\ subChan' \in [EventStreams -> Seq(Messages)]
       /\ \A t \in EventStreams \ {s} : subChan'[t] = subChan[t]
  BY <1>1, <1>2, <1>6, <1>7 DEF DeliveryTypeOK
<1>11. PICK n \in 0..NEventStreams : {t \in EventStreams : epc[t] # "absent"} = 1..n
  BY <1>1 DEF ConnectInv
<1>12. s = n + 1 /\ epc' = [epc EXCEPT ![s] = "open"]
  <2>1. n \in Nat
    BY SMTT(60), <1>11, BidiAssumption
  <2>2. Cardinality(1..n) = n
    BY SMTT(60), <2>1, FS_Interval
  <2> QED  BY <1>2, <1>11, <2>2 DEF Connects
<1>13. n \in Nat /\ NEventStreams \in Nat /\ n + 1 \in 1..NEventStreams
  BY SMTT(60), <1>11, <1>12, BidiAssumption DEF EventStreams
<1>14. epc[s] = "absent" /\ {t \in EventStreams : epc'[t] # "absent"} = 1..(n + 1)
  <2>1. epc[s] = "absent"
    <3>1. s \notin 1..n
      BY SMTT(60), <1>12, <1>13
    <3> QED  BY <1>11, <3>1
  <2>2. \A t \in EventStreams : epc'[t] # "absent" <=> t \in 1..n \/ t = n + 1
    BY <1>1, <1>11, <1>12 DEF DeliveryTypeOK
  <2>3. \A t \in 1..(n + 1) : t \in EventStreams /\ (t \in 1..n \/ t = n + 1)
    BY SMTT(60), <1>13 DEF EventStreams
  <2>4. \A t : t \in 1..n \/ t = n + 1 => t \in 1..(n + 1)
    BY SMTT(60), <1>13
  <2> QED  BY <2>1, <2>2, <2>3, <2>4
<1>15. subChan[s] = <<>> /\ heard[s] = <<>> /\ sub # s
  BY <1>1, <1>14 DEF ConnectInv
<1>16. Range(<<>>) = {}
  BY SMTT(60) DEF Range
<1>17. \A x \in Range(a) : x \in Range(outbound) /\ x \notin Range(outbound')
  BY <1>7, <1>8
<1>18. \A t \in EventStreams : \A x \in Range(subChan'[t]) :
         (t # s /\ x \in Range(subChan[t])) \/ (t = s /\ x \in Range(a))
  BY <1>10
<1>19. DeliveryTypeOK'
  BY <1>1, <1>2, <1>4, <1>5, <1>7, <1>10, <1>12 DEF DeliveryTypeOK
<1>20. PlacesInv'
  <2>1. \A t \in EventStreams : Distinct(subChan'[t])
    BY <1>1, <1>8, <1>10 DEF PlacesInv
  <2>2. ASSUME NEW t \in EventStreams PROVE Disjoint(Range(outbound'), Range(subChan'[t]))
    BY <1>1, <1>7, <1>17, <1>18 DEF PlacesInv, Disjoint
  <2>3. ASSUME NEW t \in EventStreams PROVE Disjoint(Range(outbound'), Range(heard[t]))
    BY <1>1, <1>7 DEF PlacesInv, Disjoint
  <2>4. ASSUME NEW t \in EventStreams, NEW u \in EventStreams
        PROVE  Disjoint(Range(subChan'[t]), Range(heard[u]))
    BY <1>1, <1>17, <1>18 DEF PlacesInv, Disjoint
  <2>5. ASSUME NEW t \in EventStreams, NEW u \in EventStreams \ {t}
        PROVE  Disjoint(Range(subChan'[t]), Range(subChan'[u]))
    <3> SUFFICES ASSUME NEW x \in Range(subChan'[t]), x \in Range(subChan'[u]) PROVE FALSE
      BY DEF Disjoint
    <3>1. x \in Range(subChan[t]) => x \notin Range(subChan[u])
      BY <1>1 DEF PlacesInv, Disjoint
    <3>2. \A v \in EventStreams : x \in Range(a) => x \notin Range(subChan[v])
      BY <1>1, <1>17 DEF PlacesInv, Disjoint
    <3> QED  BY <1>18, <3>1, <3>2
  <2> QED  BY <1>1, <1>2, <1>8, <2>1, <2>2, <2>3, <2>4, <2>5 DEF PlacesInv
<1>21. \A x : Holds(x)' <=> Holds(x)
  <2>1. \A x : x \in Range(outbound) <=> x \in Range(outbound') \/ x \in Range(subChan'[s])
    BY <1>7, <1>10
  <2>2. \A x : x \notin Range(subChan[s])
    BY <1>15, <1>16
  <2> QED  BY <1>2, <1>10, <2>1, <2>2 DEF Holds
<1>22. TakenInv'
  BY <1>1, <1>2, <1>4, <1>21 DEF TakenInv
<1>23. ConnectInv'
  <2>1. n + 1 \in 0..NEventStreams
    BY SMTT(60), <1>13
  <2>2. ASSUME NEW t \in EventStreams
        PROVE  /\ epc'[t] = "absent" => subChan'[t] = <<>> /\ heard'[t] = <<>> /\ sub' # t
               /\ epc'[t] = "done" => sub' # t
               /\ subChan'[t] # <<>> /\ sub' # t => stolen'
    <3>1. CASE t = s
      BY <1>1, <1>2, <1>12, <3>1 DEF DeliveryTypeOK
    <3>2. CASE t # s
      <4>1. epc'[t] = epc[t] /\ subChan'[t] = subChan[t] /\ heard'[t] = heard[t] /\ sub' # t
        BY <1>1, <1>2, <1>10, <1>12, <3>2 DEF DeliveryTypeOK
      <4>2. subChan[t] # <<>> => stolen'
        <5>1. CASE sub = t
          <6>1. sub # NoStream
            BY <5>1, BidiAssumption
          <6> QED  BY <1>4, <5>1, <6>1
        <5>2. CASE sub # t
          BY <1>1, <1>4, <5>2 DEF ConnectInv
        <5> QED  BY <5>1, <5>2
      <4> QED  BY <1>1, <4>1, <4>2 DEF ConnectInv
    <3> QED  BY <3>1, <3>2
  <2> QED  BY <1>14, <2>1, <2>2 DEF ConnectInv
<1>24. OrderInv'
  <2> SUFFICES ASSUME ~spilled'
               PROVE  /\ sub' # NoStream => outbound' = <<>>
                      /\ InOrder(enqueued', outbound')
                      /\ \A t \in EventStreams :
                           /\ InOrder(enqueued', subChan'[t]) /\ InOrder(enqueued', heard'[t])
                           /\ \A x \in Range(heard'[t]), y \in Range(subChan'[t]) :
                                Precedes(enqueued', x, y)
    BY DEF OrderInv
  <2>1. ~spilled /\ outbound' = <<>> /\ InOrder(enqueued, a) /\ InOrder(enqueued, outbound')
    BY <1>5, <1>9
  <2>2. ASSUME NEW t \in EventStreams
        PROVE  /\ InOrder(enqueued, subChan'[t]) /\ InOrder(enqueued, heard[t])
               /\ \A x \in Range(heard[t]), y \in Range(subChan'[t]) : Precedes(enqueued, x, y)
    <3>1. CASE t = s
      BY <1>1, <1>10, <1>15, <1>16, <2>1, <3>1 DEF OrderInv
    <3>2. CASE t # s
      BY <1>1, <1>10, <2>1, <3>2 DEF OrderInv
    <3> QED  BY <3>1, <3>2
  <2> QED  BY <1>2, <2>1, <2>2
<1> QED  BY <1>19, <1>20, <1>22, <1>23, <1>24 DEF DeliveryInv

\* A stream that leaves puts its unread messages back at the head of the
\* buffer, unless another one has taken over.
LEMMA LeaveKeeps ==
  ASSUME DeliveryInv, NEW s \in EventStreams, BidiCancel(s)
  PROVE  DeliveryInv'
<1>1. DeliveryTypeOK /\ PlacesInv /\ TakenInv /\ ConnectInv /\ OrderInv
  BY DEF DeliveryInv
<1>2. /\ epc[s] = "leaving" /\ epc' = [epc EXCEPT ![s] = "done"]
      /\ subChan' = [subChan EXCEPT ![s] = <<>>]
      /\ UNCHANGED <<spc, npc, heard, enqueued, cutoff, stolen, spilled>>
      /\ sub # s => UNCHANGED <<outbound, sub>>
      /\ sub = s => outbound' = subChan[s] \o outbound /\ sub' = NoStream
  BY DEF BidiCancel, callVars, noteVars, histVars
<1>3. PICK c \in Seq(Messages) : c = subChan[s]
  BY <1>1 DEF DeliveryTypeOK
<1>4. /\ subChan'[s] = <<>> /\ \A t \in EventStreams \ {s} : subChan'[t] = subChan[t]
      /\ Range(<<>>) = {} /\ Distinct(<<>>) /\ \A e : InOrder(e, <<>>)
      /\ subChan' \in [EventStreams -> Seq(Messages)]
  <2>1. <<>> \in Seq(Messages)
    BY SMTT(60)
  <2>2. Range(<<>>) = {} /\ Distinct(<<>>) /\ \A e : InOrder(e, <<>>)
    BY SMTT(60) DEF Range, Distinct, InOrder
  <2> QED  BY <1>1, <1>2, <2>1, <2>2 DEF DeliveryTypeOK
<1>5. epc' \in [EventStreams -> {"absent", "open", "leaving", "done"}]
      /\ \A t \in EventStreams : /\ (epc'[t] = "absent") = (epc[t] = "absent")
                                 /\ epc'[t] = "done" => epc[t] = "done" \/ t = s
  BY <1>1, <1>2 DEF DeliveryTypeOK
<1>6. outbound' \in Seq(Messages) /\ Distinct(outbound') /\ sub' \in EventStreams \cup {NoStream}
      /\ Range(outbound') = IF sub = s THEN Range(c) \cup Range(outbound) ELSE Range(outbound)
  <2>1. CASE sub = s
    <3>1. outbound' = c \o outbound /\ sub' = NoStream
      BY <1>2, <1>3, <2>1
    <3>2. outbound \in Seq(Messages) /\ Distinct(c) /\ Distinct(outbound) /\ Range(c) \cap Range(outbound) = {}
      BY <1>1, <1>3 DEF DeliveryTypeOK, PlacesInv, Disjoint
    <3>3. c \o outbound \in Seq(Messages)
      BY <3>2, Concat
    <3>4. Range(c \o outbound) = Range(c) \cup Range(outbound) /\ Distinct(c \o outbound)
      BY SMTT(60), <3>2, ConcatDistinct
    <3> QED  BY <2>1, <3>1, <3>3, <3>4
  <2>2. CASE sub # s
    BY <1>1, <1>2, <2>2 DEF DeliveryTypeOK, PlacesInv
  <2> QED  BY <2>1, <2>2
<1>7. stolen' \in BOOLEAN /\ spilled' \in BOOLEAN
  BY <1>1, <1>2 DEF DeliveryTypeOK
<1>8. DeliveryTypeOK'
  BY <1>1, <1>2, <1>4, <1>5, <1>6, <1>7 DEF DeliveryTypeOK
<1>9. /\ \A t \in EventStreams : \A x \in Range(subChan'[t]) : t # s /\ x \in Range(subChan[t])
      /\ \A x \in Range(outbound') : x \in Range(outbound) \/ x \in Range(subChan[s])
  BY <1>3, <1>4, <1>6
<1>10. PlacesInv'
  <2>1. \A t \in EventStreams : Distinct(subChan'[t])
    BY <1>1, <1>4 DEF PlacesInv
  <2>2. ASSUME NEW t \in EventStreams PROVE Disjoint(Range(outbound'), Range(subChan'[t]))
    BY <1>1, <1>9 DEF PlacesInv, Disjoint
  <2>3. ASSUME NEW t \in EventStreams PROVE Disjoint(Range(outbound'), Range(heard[t]))
    BY <1>1, <1>9 DEF PlacesInv, Disjoint
  <2>4. ASSUME NEW t \in EventStreams, NEW u \in EventStreams
        PROVE  Disjoint(Range(subChan'[t]), Range(heard[u]))
    BY <1>1, <1>9 DEF PlacesInv, Disjoint
  <2>5. ASSUME NEW t \in EventStreams, NEW u \in EventStreams \ {t}
        PROVE  Disjoint(Range(subChan'[t]), Range(subChan'[u]))
    BY <1>1, <1>9 DEF PlacesInv, Disjoint
  <2> QED  BY <1>1, <1>2, <1>6, <2>1, <2>2, <2>3, <2>4, <2>5 DEF PlacesInv
<1>11. /\ \A x : Holds(x)' => Holds(x)
       /\ \A x : Holds(x) => Holds(x)' \/ stolen
  <2>1. \A x : Holds(x)' => Holds(x)
    BY <1>2, <1>9 DEF Holds
  <2>2. CASE sub = s
    BY <1>2, <1>3, <1>4, <1>6, <2>1, <2>2 DEF Holds
  <2>3. CASE sub # s
    <3>1. CASE subChan[s] = <<>>
      <4>1. \A t \in EventStreams : subChan'[t] = subChan[t]
        BY <1>4, <3>1
      <4> QED  BY <1>2, <1>6, <2>1, <2>3, <4>1 DEF Holds
    <3>2. CASE subChan[s] # <<>>
      BY <1>1, <2>1, <2>3, <3>2 DEF ConnectInv
    <3> QED  BY <3>1, <3>2
  <2> QED  BY <2>2, <2>3
<1>12. TakenInv'
  BY <1>1, <1>2, <1>11 DEF TakenInv
<1>13. ConnectInv'
  <2>1. {t \in EventStreams : epc'[t] # "absent"} = {t \in EventStreams : epc[t] # "absent"}
    BY <1>5
  <2>2. NoStream \notin EventStreams
    BY BidiAssumption
  <2>3. ASSUME NEW t \in EventStreams
        PROVE  /\ epc'[t] = "absent" => subChan'[t] = <<>> /\ heard'[t] = <<>> /\ sub' # t
               /\ epc'[t] = "done" => sub' # t
               /\ subChan'[t] # <<>> /\ sub' # t => stolen'
    <3>1. sub' # s /\ (sub' # t => t = s \/ sub # t)
      BY <1>2, <2>2
    <3>2. (sub # t => sub' # t) /\ (t # s => subChan'[t] = subChan[t])
      BY <1>2, <1>4, <2>2
    <3> QED  BY <1>1, <1>2, <1>4, <1>5, <3>1, <3>2 DEF ConnectInv
  <2> QED  BY <1>1, <2>1, <2>3 DEF ConnectInv
<1>14. OrderInv'
  <2> SUFFICES ASSUME ~spilled'
               PROVE  /\ sub' # NoStream => outbound' = <<>>
                      /\ InOrder(enqueued', outbound')
                      /\ \A t \in EventStreams :
                           /\ InOrder(enqueued', subChan'[t]) /\ InOrder(enqueued', heard'[t])
                           /\ \A x \in Range(heard'[t]), y \in Range(subChan'[t]) :
                                Precedes(enqueued', x, y)
    BY DEF OrderInv
  <2>1. ~spilled
    BY <1>2
  <2>2. (sub' # NoStream => outbound' = <<>>) /\ InOrder(enqueued, outbound')
    <3>1. CASE sub = s
      <4>1. outbound = <<>>
        BY <1>1, <2>1, <3>1, BidiAssumption DEF OrderInv
      <4>2. outbound' = c /\ sub' = NoStream
        BY SMTT(60), <1>2, <1>3, <3>1, <4>1
      <4> QED  BY <1>1, <1>3, <2>1, <4>2 DEF OrderInv
    <3>2. CASE sub # s
      BY <1>1, <1>2, <2>1, <3>2 DEF OrderInv
    <3> QED  BY <3>1, <3>2
  <2>3. ASSUME NEW t \in EventStreams
        PROVE  /\ InOrder(enqueued, subChan'[t]) /\ InOrder(enqueued, heard[t])
               /\ \A x \in Range(heard[t]), y \in Range(subChan'[t]) : Precedes(enqueued, x, y)
    BY <1>1, <1>4, <1>9, <2>1 DEF OrderInv
  <2> QED  BY <1>2, <2>2, <2>3
<1> QED  BY <1>8, <1>10, <1>12, <1>13, <1>14 DEF DeliveryInv

-----------------------------------------------------------------------------
(* Notifications for the plain POST transport.                               *)

\* Notifications are numbered as they are emitted; each is in Server.pending or
\* in one response.
PolledInv ==
  /\ npc \in [Notes -> {"idle", "queued", "emitted"}]
  /\ notes \in Seq(Notes) /\ polled \in [Posts -> Seq(Notes) \cup {NoReply}]
  /\ \E k \in 0..NNotes : {n \in Notes : npc[n] # "idle"} = 1..k
  /\ Distinct(notes)
  /\ \A n \in Notes : npc[n] = "idle" => n \notin Range(notes)
  /\ \A p \in Posts : polled[p] # NoReply =>
       \A n \in Range(polled[p]) : npc[n] # "idle" /\ n \notin Range(notes)
  /\ \A p, q \in Posts : p # q /\ polled[p] # NoReply /\ polled[q] # NoReply =>
       Disjoint(Range(polled[p]), Range(polled[q]))
  /\ \A n \in Notes : npc[n] # "idle" =>
       n \in Range(notes) \/ \E p \in Posts : polled[p] # NoReply /\ n \in Range(polled[p])

\* No notification at the start.
LEMMA PolledStart == BidiInit => PolledInv
<1> SUFFICES ASSUME BidiInit PROVE PolledInv
  OBVIOUS
<1>1. Range(<<>>) = {} /\ Distinct(<<>>) /\ <<>> \in Seq(Notes)
  BY SMTT(60) DEF Range, Distinct
<1>2. {n \in Notes : npc[n] # "idle"} = 1..0 /\ 0 \in 0..NNotes
  BY SMTT(60), BidiAssumption DEF BidiInit
<1> QED  BY <1>1, <1>2 DEF BidiInit, PolledInv

\* The notification emitted next has not been emitted before.
LEMMA EmitIsNew ==
  ASSUME PolledInv, NEW n \in Notes, EmitPending(n)
  PROVE  \E k \in 0..NNotes : {m \in Notes : npc[m] # "idle"} = 1..k /\ n = k + 1 /\ npc[n] = "idle"
<1>1. PICK k \in 0..NNotes : {m \in Notes : npc[m] # "idle"} = 1..k
  BY DEF PolledInv
<1>2. k \in Nat
  BY SMTT(60), <1>1, BidiAssumption
<1>3. n = k + 1
  <2>1. Cardinality(1..k) = k
    BY SMTT(60), <1>2, FS_Interval
  <2> QED  BY <1>1, <2>1 DEF EmitPending
<1>4. n \notin 1..k
  BY SMTT(60), <1>2, <1>3
<1> QED  BY <1>1, <1>3, <1>4

\* A notification joins Server.pending when it is emitted and leaves it with
\* the next response.
LEMMA PolledStep == PolledInv /\ [BidiNext]_bidiVars => PolledInv'
<1> SUFFICES ASSUME PolledInv, [BidiNext]_bidiVars PROVE PolledInv'
  OBVIOUS
<1>1. ASSUME UNCHANGED noteVars PROVE PolledInv'
  BY <1>1 DEF PolledInv, noteVars
<1>2. ASSUME NEW n \in Notes, EmitPending(n) PROVE PolledInv'
  <2>1. npc' = [npc EXCEPT ![n] = "queued"] /\ notes' = Append(notes, n) /\ UNCHANGED polled
    BY <1>2 DEF EmitPending
  <2>2. PICK k \in 0..NNotes :
          {m \in Notes : npc[m] # "idle"} = 1..k /\ n = k + 1 /\ npc[n] = "idle"
    BY <1>2, EmitIsNew
  <2>3. k \in Nat /\ NNotes \in Nat
    BY SMTT(60), <2>2, BidiAssumption
  <2>6. npc' \in [Notes -> {"idle", "queued", "emitted"}]
        /\ \A m \in Notes : npc'[m] = "idle" <=> npc[m] = "idle" /\ m # n
    BY <2>1 DEF PolledInv
  <2>7. k + 1 \in 0..NNotes /\ {m \in Notes : npc'[m] # "idle"} = 1..(k + 1)
    <3>1. k + 1 \in 1..NNotes
      BY <2>2 DEF Notes
    <3>2. \A m \in Notes : npc'[m] # "idle" <=> m \in 1..k \/ m = k + 1
      BY <2>2, <2>6
    <3>3. \A m \in 1..(k + 1) : m \in Notes /\ (m \in 1..k \/ m = k + 1)
      BY SMTT(60), <2>3, <3>1 DEF Notes
    <3>4. \A m : m \in 1..k \/ m = k + 1 => m \in 1..(k + 1)
      BY SMTT(60), <2>3
    <3> QED  BY SMTT(60), <2>3, <3>1, <3>2, <3>3, <3>4
  <2>8. n \notin Range(notes)
    BY <2>2 DEF PolledInv
  <2>9. notes' \in Seq(Notes) /\ Range(notes') = Range(notes) \cup {n}
    BY SMTT(60), <2>1, AppendRange DEF PolledInv
  <2>10. Distinct(notes')
    BY <2>1, <2>8, AppendDistinct DEF PolledInv
  <2>11. \A p \in Posts : polled'[p] # NoReply =>
           \A m \in Range(polled'[p]) : npc'[m] # "idle" /\ m \notin Range(notes')
    <3> SUFFICES ASSUME NEW p \in Posts, polled[p] # NoReply, NEW m \in Range(polled[p])
                 PROVE  npc'[m] # "idle" /\ m \notin Range(notes')
      BY <2>1
    <3>1. npc[m] # "idle" /\ m \notin Range(notes)
      BY DEF PolledInv
    <3>2. m \in Notes
      <4>1. polled[p] \in Seq(Notes)
        BY DEF PolledInv
      <4> QED  BY SMTT(60), <4>1 DEF Range
    <3> QED  BY <2>2, <2>6, <2>9, <3>1, <3>2
  <2>12. \A m \in Notes : npc'[m] = "idle" => m \notin Range(notes')
    BY <2>6, <2>9 DEF PolledInv
  <2>13. \A m \in Notes : npc'[m] # "idle" =>
           m \in Range(notes') \/ \E p \in Posts : polled'[p] # NoReply /\ m \in Range(polled'[p])
    BY <2>1, <2>6, <2>9 DEF PolledInv
  <2>14. /\ polled' \in [Posts -> Seq(Notes) \cup {NoReply}]
         /\ \A p, q \in Posts : p # q /\ polled'[p] # NoReply /\ polled'[q] # NoReply =>
              Disjoint(Range(polled'[p]), Range(polled'[q]))
    BY <2>1 DEF PolledInv
  <2> QED  BY <2>6, <2>7, <2>9, <2>10, <2>11, <2>12, <2>13, <2>14 DEF PolledInv
<1>3. ASSUME NEW n \in Notes, EmitPush(n) PROVE PolledInv'
  <2>1. npc[n] = "queued" /\ npc' = [npc EXCEPT ![n] = "emitted"] /\ UNCHANGED <<notes, polled>>
    BY <1>3 DEF EmitPush
  <2>2. npc' \in [Notes -> {"idle", "queued", "emitted"}]
        /\ \A m \in Notes : npc'[m] = "idle" <=> npc[m] = "idle"
    BY <2>1 DEF PolledInv
  <2>3. {m \in Notes : npc'[m] # "idle"} = {m \in Notes : npc[m] # "idle"}
    BY <2>2
  <2>4. ASSUME NEW p \in Posts, polled[p] # NoReply, NEW m \in Range(polled[p])
        PROVE  npc'[m] # "idle"
    <3>1. polled[p] \in Seq(Notes)
      BY <2>4 DEF PolledInv
    <3>2. m \in Notes
      BY SMTT(60), <3>1 DEF Range
    <3> QED  BY <2>2, <2>4, <3>2 DEF PolledInv
  <2> QED  BY <2>1, <2>2, <2>3, <2>4 DEF PolledInv
<1>4. ASSUME NEW p \in Posts, DrainNotifications(p) PROVE PolledInv'
  <2>1. /\ polled[p] = NoReply /\ polled' = [polled EXCEPT ![p] = notes] /\ notes' = <<>>
        /\ UNCHANGED npc
    BY <1>4 DEF DrainNotifications
  <2>2. /\ polled'[p] = notes /\ \A q \in Posts \ {p} : polled'[q] = polled[q]
        /\ polled' \in [Posts -> Seq(Notes) \cup {NoReply}] /\ notes # NoReply
        /\ notes \in Seq(Notes)
    BY <2>1, BidiAssumption DEF PolledInv
  <2>3. Range(notes') = {} /\ Distinct(notes') /\ notes' \in Seq(Notes)
    BY SMTT(60), <2>1 DEF Range, Distinct
  <2>4. \A n \in Range(notes) : n \in Notes /\ npc[n] # "idle"
    <3>1. \A n \in Range(notes) : n \in Notes
      BY SMTT(60), <2>2 DEF Range
    <3> QED  BY <3>1 DEF PolledInv
  <2>5. \A q \in Posts : polled'[q] # NoReply => \A n \in Range(polled'[q]) : npc'[n] # "idle"
    BY <2>1, <2>2, <2>4 DEF PolledInv
  <2>6. ASSUME NEW q \in Posts, NEW r \in Posts, q # r, polled'[q] # NoReply, polled'[r] # NoReply
        PROVE  Disjoint(Range(polled'[q]), Range(polled'[r]))
    <3>1. \A u \in Posts : u # p /\ polled[u] # NoReply => \A n \in Range(polled[u]) : n \notin Range(notes)
      BY DEF PolledInv
    <3>2. q # p /\ r # p => Disjoint(Range(polled[q]), Range(polled[r]))
      BY <2>2, <2>6 DEF PolledInv
    <3>3. CASE q = p
      BY <2>2, <2>6, <3>1, <3>3 DEF Disjoint
    <3>4. CASE r = p
      BY <2>2, <2>6, <3>1, <3>4 DEF Disjoint
    <3> QED  BY SMTT(60), <2>2, <2>6, <3>2, <3>3, <3>4
  <2>7. \A n \in Notes : npc'[n] # "idle" =>
          \E q \in Posts : polled'[q] # NoReply /\ n \in Range(polled'[q])
    BY <2>1, <2>2 DEF PolledInv
  <2> QED  BY <2>1, <2>2, <2>3, <2>5, <2>6, <2>7 DEF PolledInv
<1>5. ASSUME \/ \E s \in EventStreams : EventStreamNext(s)
             \/ \E c \in Callers : CallNext(c)
             \/ UNCHANGED bidiVars
      PROVE  UNCHANGED noteVars
  BY <1>5 DEF EventStreamNext, BidiSubscribe, StreamWrite, StreamWriteFails, StreamEnds, BidiCancel,
              CallNext, SendRefused, Register, SendEnqueue, SendAnswered, SendTimeout, Cleanup,
              DeliverSend, Deliver, bidiVars
<1> QED  BY <1>1, <1>2, <1>3, <1>4, <1>5 DEF BidiNext

\* Every step keeps each message in its one place, in order.
LEMMA DeliveryStep == DeliveryInv /\ PolledInv /\ [BidiNext]_bidiVars => DeliveryInv'
<1> SUFFICES ASSUME DeliveryInv, PolledInv, [BidiNext]_bidiVars PROVE DeliveryInv'
  OBVIOUS
<1>1. DeliveryTypeOK /\ TakenInv
  BY DEF DeliveryInv
<1>2. ASSUME NEW s \in EventStreams, EventStreamNext(s) PROVE DeliveryInv'
  <2>1. CASE StreamEnds(s)
    BY <1>1, <2>1, QueuesKept DEF StreamEnds, DeliveryTypeOK, queueVars, callVars, noteVars, histVars
  <2> QED  BY <1>2, <2>1, TakeoverKeeps, WriteKeeps, LeaveKeeps DEF EventStreamNext
<1>3. ASSUME NEW c \in Callers, CallNext(c) PROVE DeliveryInv'
  <2>1. CASE SendEnqueue(c)
    <3>1. c \in Messages /\ c \notin Range(enqueued)
      BY <1>1, <2>1 DEF Messages, TakenInv, SendEnqueue, CallGoto
    <3>2. /\ Enqueue(c) /\ UNCHANGED <<heard, epc, npc>> /\ spc' = [spc EXCEPT ![c] = "waiting"]
      BY <2>1 DEF SendEnqueue, CallGoto, noteVars
    <3>3. \A k \in Callers : spc'[k] \in {"idle", "registered"} =>
            spc[k] \in {"idle", "registered"} /\ k # c
      BY <1>1, <3>2 DEF DeliveryTypeOK
    <3>4. \A n \in Notes : npc'[n] # "emitted" => npc[n] # "emitted" /\ n # c
      BY <3>2, BidiAssumption
    <3> QED  BY <1>1, <3>1, <3>2, <3>3, <3>4, EnqueueKeeps DEF DeliveryTypeOK
  <2>2. CASE ~SendEnqueue(c)
    <3>1. UNCHANGED <<outbound, sub, subChan, heard, enqueued, cutoff, stolen, spilled, epc, npc>>
      BY <1>3, <2>2 DEF CallNext, SendRefused, Register, SendAnswered, SendTimeout, Cleanup,
                        DeliverSend, Deliver, queueVars, noteVars, histVars
    <3>2. \/ UNCHANGED spc
          \/ spc[c] = "idle" /\ spc' = [spc EXCEPT ![c] = "failed"]
          \/ spc[c] = "idle" /\ spc' = [spc EXCEPT ![c] = "registered"]
          \/ \E to \in {"answered", "leaving", "gaveUp"} : spc' = [spc EXCEPT ![c] = to]
      BY <1>3, <2>2 DEF CallNext, SendRefused, Register, SendAnswered, SendTimeout, Cleanup,
                        DeliverSend, Deliver, CallGoto
    <3>3. /\ spc' \in [Callers -> {"idle", "registered", "waiting", "leaving", "answered",
                                   "gaveUp", "failed"}]
          /\ \A k \in Callers : spc'[k] \in {"idle", "registered"} => spc[k] \in {"idle", "registered"}
      BY <1>1, <3>2 DEF DeliveryTypeOK
    <3> QED  BY <1>1, <3>1, <3>3, QueuesKept DEF DeliveryTypeOK
  <2> QED  BY <2>1, <2>2
<1>4. ASSUME NEW n \in Notes, EmitPending(n) PROVE DeliveryInv'
  <2>1. /\ UNCHANGED <<outbound, sub, subChan, heard, enqueued, cutoff, stolen, spilled, epc, spc>>
        /\ npc' = [npc EXCEPT ![n] = "queued"]
    BY <1>4 DEF EmitPending, queueVars, callVars, histVars
  <2>2. npc[n] # "emitted"
    BY <1>4, EmitIsNew
  <2>3. /\ npc' \in [Notes -> {"idle", "queued", "emitted"}]
        /\ \A k \in Notes : npc'[k] # "emitted" => npc[k] # "emitted"
    BY <1>1, <2>1, <2>2 DEF DeliveryTypeOK
  <2> QED  BY <1>1, <2>1, <2>3, QueuesKept DEF DeliveryTypeOK
<1>5. ASSUME NEW n \in Notes, EmitPush(n) PROVE DeliveryInv'
  <2>1. n \in Messages /\ n \notin Range(enqueued)
    BY <1>1, <1>5 DEF Messages, TakenInv, EmitPush
  <2>2. Enqueue(n) /\ UNCHANGED <<heard, epc, spc>> /\ npc' = [npc EXCEPT ![n] = "emitted"]
    BY <1>5 DEF EmitPush, callVars
  <2>3. \A k \in Notes : npc'[k] # "emitted" => npc[k] # "emitted" /\ k # n
    BY <1>1, <2>2 DEF DeliveryTypeOK
  <2>4. \A k \in Callers : spc'[k] \in {"idle", "registered"} =>
          spc[k] \in {"idle", "registered"} /\ k # n
    BY <2>2, BidiAssumption
  <2>5. npc' \in [Notes -> {"idle", "queued", "emitted"}]
    BY <1>1, <2>2 DEF DeliveryTypeOK
  <2> QED  BY <1>1, <2>1, <2>2, <2>3, <2>4, <2>5, EnqueueKeeps DEF DeliveryTypeOK
<1>6. ASSUME \/ \E p \in Posts : DrainNotifications(p)
             \/ UNCHANGED bidiVars
      PROVE  DeliveryInv'
  <2>1. UNCHANGED <<outbound, sub, subChan, heard, enqueued, cutoff, stolen, spilled, epc, spc, npc>>
    BY <1>6 DEF DrainNotifications, bidiVars, queueVars, callVars, noteVars, histVars
  <2> QED  BY <1>1, <2>1, QueuesKept DEF DeliveryTypeOK
<1> QED  BY <1>2, <1>3, <1>4, <1>5, <1>6 DEF BidiNext

-----------------------------------------------------------------------------
(* What clients see.                                                         *)

\* One place at most, for what no queue holds twice and no two share.
LEMMA InvNeverDropped == ASSUME DeliveryInv PROVE NeverDropped
<1>1. DeliveryTypeOK /\ PlacesInv /\ TakenInv
  BY DEF DeliveryInv
<1> SUFFICES ASSUME NEW m \in Range(enqueued)
             PROVE  /\ \A x, y \in Places(m) : x = y
                    /\ Places(m) # {} \/ m \in cutoff \/ stolen
  BY DEF NeverDropped
<1>2. \A x : x \in Places(m) <=>
         \/ \E i \in DOMAIN outbound : outbound[i] = m /\ x = <<"outbound", 0, i>>
         \/ \E s \in EventStreams : \E i \in DOMAIN subChan[s] : subChan[s][i] = m /\ x = <<"channel", s, i>>
         \/ \E s \in EventStreams : \E i \in DOMAIN heard[s] : heard[s][i] = m /\ x = <<"client", s, i>>
  <2> DEFINE A == {<<"outbound", 0, i>> : i \in {j \in DOMAIN outbound : outbound[j] = m}}
             B(s) == {<<"channel", s, i>> : i \in {j \in DOMAIN subChan[s] : subChan[s][j] = m}}
             C(s) == {<<"client", s, i>> : i \in {j \in DOMAIN heard[s] : heard[s][j] = m}}
  <2>1. \A x : x \in Places(m) <=>
          x \in A \/ (\E s \in EventStreams : x \in B(s)) \/ (\E s \in EventStreams : x \in C(s))
    <3> DEFINE U == UNION {B(s) : s \in EventStreams}
               V == UNION {C(s) : s \in EventStreams}
    <3>1. Places(m) = A \cup U \cup V
      BY DEF Places
    <3> HIDE DEF A, B, C
    <3>2. \A x : x \in U <=> \E s \in EventStreams : x \in B(s)
      OBVIOUS
    <3>3. \A x : x \in V <=> \E s \in EventStreams : x \in C(s)
      OBVIOUS
    <3> HIDE DEF U, V
    <3> QED  BY <3>1, <3>2, <3>3
  <2>2. \A x : x \in A <=> \E i \in DOMAIN outbound : outbound[i] = m /\ x = <<"outbound", 0, i>>
    OBVIOUS
  <2>3. \A s, x : x \in B(s) <=> \E i \in DOMAIN subChan[s] : subChan[s][i] = m /\ x = <<"channel", s, i>>
    OBVIOUS
  <2>4. \A s, x : x \in C(s) <=> \E i \in DOMAIN heard[s] : heard[s][i] = m /\ x = <<"client", s, i>>
    OBVIOUS
  <2> HIDE DEF A, B, C
  <2> QED  BY SMTT(60), <2>1, <2>2, <2>3, <2>4
<1>3. /\ \A i \in DOMAIN outbound : outbound[i] \in Range(outbound)
      /\ \A s \in EventStreams : \A i \in DOMAIN subChan[s] : subChan[s][i] \in Range(subChan[s])
      /\ \A s \in EventStreams : \A i \in DOMAIN heard[s] : heard[s][i] \in Range(heard[s])
  BY DEF Range
<1>4. ASSUME NEW x \in Places(m), NEW y \in Places(m) PROVE x = y
  <2>1. ASSUME NEW i \in DOMAIN outbound, outbound[i] = m, x = <<"outbound", 0, i>> PROVE x = y
    <3>1. m \in Range(outbound)
      BY <1>3, <2>1
    <3>2. \A s \in EventStreams : m \notin Range(subChan[s]) /\ m \notin Range(heard[s])
      BY <1>1, <3>1 DEF PlacesInv, Disjoint
    <3>3. PICK j \in DOMAIN outbound : outbound[j] = m /\ y = <<"outbound", 0, j>>
      BY SMTT(60), <1>2, <1>3, <1>4, <3>2
    <3>4. i = j
      BY <1>1, <2>1, <3>3 DEF PlacesInv, Distinct
    <3> QED  BY <2>1, <3>3, <3>4
  <2>2. ASSUME NEW s \in EventStreams, NEW i \in DOMAIN subChan[s], subChan[s][i] = m,
               x = <<"channel", s, i>>
        PROVE  x = y
    <3>1. m \in Range(subChan[s])
      BY <1>3, <2>2
    <3>2. /\ m \notin Range(outbound) /\ \A t \in EventStreams : m \notin Range(heard[t])
          /\ \A t \in EventStreams \ {s} : m \notin Range(subChan[t])
      BY <1>1, <3>1 DEF PlacesInv, Disjoint
    <3>3. PICK t \in EventStreams : \E j \in DOMAIN subChan[t] :
            subChan[t][j] = m /\ y = <<"channel", t, j>>
      BY SMTT(60), <1>2, <1>3, <1>4, <3>2
    <3>4. t = s
      BY <1>3, <3>2, <3>3
    <3>5. PICK j \in DOMAIN subChan[s] : subChan[s][j] = m /\ y = <<"channel", s, j>>
      BY <3>3, <3>4
    <3>6. i = j
      BY <1>1, <2>2, <3>5 DEF PlacesInv, Distinct
    <3> QED  BY <2>2, <3>5, <3>6
  <2>3. ASSUME NEW s \in EventStreams, NEW i \in DOMAIN heard[s], heard[s][i] = m,
               x = <<"client", s, i>>
        PROVE  x = y
    <3>1. m \in Range(heard[s])
      BY <1>3, <2>3
    <3>2. /\ m \notin Range(outbound) /\ \A t \in EventStreams : m \notin Range(subChan[t])
          /\ \A t \in EventStreams \ {s} : m \notin Range(heard[t])
      BY <1>1, <3>1 DEF PlacesInv, Disjoint
    <3>3. PICK t \in EventStreams : \E j \in DOMAIN heard[t] :
            heard[t][j] = m /\ y = <<"client", t, j>>
      BY SMTT(60), <1>2, <1>3, <1>4, <3>2
    <3>4. t = s
      BY <1>3, <3>2, <3>3
    <3>5. PICK j \in DOMAIN heard[s] : heard[s][j] = m /\ y = <<"client", s, j>>
      BY <3>3, <3>4
    <3>6. i = j
      BY <1>1, <2>3, <3>5 DEF PlacesInv, Distinct
    <3> QED  BY <2>3, <3>5, <3>6
  <2> QED  BY <1>2, <1>4, <2>1, <2>2, <2>3
<1>5. Holds(m) => Places(m) # {}
  <2>1. m \in Range(outbound) => Places(m) # {}
    BY <1>2 DEF Range
  <2>2. ASSUME NEW s \in EventStreams PROVE m \in Range(subChan[s]) => Places(m) # {}
    BY <1>2 DEF Range
  <2>3. ASSUME NEW s \in EventStreams PROVE m \in Range(heard[s]) => Places(m) # {}
    BY <1>2 DEF Range
  <2> QED  BY <2>1, <2>2, <2>3 DEF Holds
<1> QED  BY <1>1, <1>4, <1>5 DEF TakenInv

\* A notification counted once.
LEMMA InvPolledOnce == ASSUME PolledInv PROVE PolledOnce
<1> SUFFICES ASSUME NEW n \in Notes
             PROVE  LET inPosts == {p \in Posts : polled[p] # NoReply /\ n \in Range(polled[p])}
                    IN Occurs(n, notes) + Cardinality(inPosts) = IF npc[n] = "idle" THEN 0 ELSE 1
  BY DEF PolledOnce
<1> DEFINE inPosts == {p \in Posts : polled[p] # NoReply /\ n \in Range(polled[p])}
           places == {i \in DOMAIN notes : notes[i] = n}
<1> SUFFICES Cardinality(places) + Cardinality(inPosts) = IF npc[n] = "idle" THEN 0 ELSE 1
  BY DEF Occurs
<1>1. n \in Range(notes) <=> places # {}
  BY DEF Range
<1>2. \A i, j \in places : i = j
  BY DEF PolledInv, Distinct
<1>3. \A p, q \in inPosts : p = q
  BY DEF PolledInv, Disjoint
<1>4. npc[n] = "idle" => places = {} /\ inPosts = {}
  BY <1>1 DEF PolledInv
<1>5. npc[n] # "idle" => (places = {}) # (inPosts = {})
  <2>1. npc[n] # "idle" => places # {} \/ inPosts # {}
    BY <1>1 DEF PolledInv
  <2>2. places # {} => inPosts = {}
    BY <1>1 DEF PolledInv
  <2> QED  BY <2>1, <2>2
<1> HIDE DEF places, inPosts
<1>6. ASSUME NEW S, \A x, y \in S : x = y
      PROVE  Cardinality(S) = IF S = {} THEN 0 ELSE 1
  <2>1. CASE S = {}
    BY <2>1, FS_EmptySet
  <2>2. CASE S # {}
    <3>1. PICK x : S = {x}
      BY SMTT(60), <1>6, <2>2
    <3> QED  BY <2>2, <3>1, FS_Singleton
  <2> QED  BY <2>1, <2>2
<1>7. /\ Cardinality(places) = IF places = {} THEN 0 ELSE 1
      /\ Cardinality(inPosts) = IF inPosts = {} THEN 0 ELSE 1
  BY <1>2, <1>3, <1>6
<1> QED  BY SMTT(60), <1>4, <1>5, <1>7

\* A queued message stays in one place until a client has it, unless its frame
\* could not be written or its stream was stolen; clients receive in order unless
\* a message had to wait behind an attached stream; and a notification is in one
\* polled response at most: for any number of callers, notifications, streams and
\* POSTs and any channel capacity (bidirectional.go, server.go).
THEOREM DeliversAlways == BidiSpec => []DeliversOnceInOrder
<1>1. DeliveryInv => OneOrderedStream
  BY DEF DeliveryInv, OrderInv, InOrder, Precedes, OneOrderedStream, Before
<1>2. DeliveryInv /\ PolledInv => DeliversOnceInOrder
  BY <1>1, InvNeverDropped, InvPolledOnce DEF DeliversOnceInOrder
<1> QED  BY <1>2, DeliveryStart, DeliveryStep, PolledStart, PolledStep, PTL DEF BidiSpec

-----------------------------------------------------------------------------
(* Replies are routed as the mailbox says.                                   *)

\* The part of the state the mailbox depends on.
RoutingTypeOK ==
  /\ spc \in [Callers -> {"idle", "registered", "waiting", "leaving", "answered",
                          "gaveUp", "failed"}]
  /\ claimed \in [Callers -> Replies \cup {NoReply}]
  /\ inbox \in [Callers -> Replies \cup {NoReply}]
  /\ pending \subseteq Callers

\* An entry is pending only while its call is open and no reply has claimed it;
\* a call that has not begun has no reply; and what is in a response channel
\* was claimed first.
RoutingInv ==
  /\ RoutingTypeOK
  /\ \A c \in pending : spc[c] \in {"registered", "waiting", "leaving"} /\ claimed[c] = NoReply
  /\ \A c \in Callers : /\ spc[c] = "idle" => claimed[c] = NoReply
                        /\ inbox[c] # NoReply => claimed[c] # NoReply

\* The variables the mailbox depends on.
routing == <<pending, spc, claimed, inbox>>

\* Streams, notifications and the plain POST transport leave the routing alone.
LEMMA OthersKeepRouting ==
  ASSUME \/ \E s \in EventStreams : EventStreamNext(s)
         \/ \E n \in Notes : EmitPending(n) \/ EmitPush(n)
         \/ \E p \in Posts : DrainNotifications(p)
         \/ UNCHANGED bidiVars
  PROVE  UNCHANGED routing
BY DEF EventStreamNext, BidiSubscribe, StreamWrite, StreamWriteFails, StreamEnds, BidiCancel,
       EmitPending, EmitPush, DrainNotifications, bidiVars, callVars, routing

\* Nothing is registered at the start.
LEMMA RoutingInit == BidiInit => RoutingInv
BY SMTT(60) DEF BidiInit, RoutingInv, RoutingTypeOK

\* Every step keeps replies routed to the call that waits for them.
LEMMA RoutingStep == RoutingInv /\ [BidiNext]_bidiVars => RoutingInv'
<1> SUFFICES ASSUME RoutingInv, [BidiNext]_bidiVars PROVE RoutingInv'
  OBVIOUS
<1> USE DEF RoutingInv, RoutingTypeOK, CallGoto
<1>1. ASSUME UNCHANGED routing PROVE RoutingInv'
  BY <1>1 DEF routing
<1>2. ASSUME NEW c \in Callers, CallNext(c) PROVE RoutingInv'
  <2>1. CASE SendRefused(c)
    BY <2>1 DEF SendRefused
  <2>2. CASE Register(c)
    BY <2>2 DEF Register
  <2>3. CASE SendEnqueue(c)
    BY <2>3 DEF SendEnqueue
  <2>4. CASE SendAnswered(c)
    <3>1. c \notin pending
      BY <2>4 DEF SendAnswered
    <3> QED  BY <2>4, <3>1 DEF SendAnswered
  <2>5. CASE SendTimeout(c)
    BY <2>5 DEF SendTimeout
  <2>6. CASE Cleanup(c)
    BY <2>6 DEF Cleanup
  <2>7. CASE DeliverSend(c)
    BY <2>7 DEF DeliverSend
  <2>8. ASSUME NEW r \in Replies, Deliver(c, r) PROVE RoutingInv'
    <3>1. CASE c \in pending
      BY SMTT(60), <2>8, <3>1 DEF Deliver
    <3>2. CASE c \notin pending
      BY SMTT(60), <2>8, <3>2 DEF Deliver
    <3> QED  BY <3>1, <3>2
  <2> QED  BY <1>2, <2>1, <2>2, <2>3, <2>4, <2>5, <2>6, <2>7, <2>8 DEF CallNext
<1> QED  BY <1>1, <1>2, OthersKeepRouting DEF BidiNext

\* The routing invariant holds in every reachable state.
THEOREM RoutingAlwaysHolds == BidiSpec => []RoutingInv
BY RoutingInit, RoutingStep, PTL DEF BidiSpec

\* The initial states are initial states of the mailbox.
LEMMA MailboxInit == BidiInit => Mailbox!Init
BY DEF BidiInit, Mailbox!Init

\* Every step of the transport is a step of the mailbox or leaves it as it is.
LEMMA MailboxStep == RoutingInv /\ [BidiNext]_bidiVars => [Mailbox!Next]_(Mailbox!vars)
<1> SUFFICES ASSUME RoutingInv, [BidiNext]_bidiVars PROVE [Mailbox!Next]_(Mailbox!vars)
  OBVIOUS
<1> USE DEF RoutingInv, RoutingTypeOK, CallGoto
<1>1. ASSUME UNCHANGED routing PROVE UNCHANGED Mailbox!vars
  BY <1>1 DEF routing, Mailbox!vars
<1>2. ASSUME NEW c \in Callers, CallNext(c) PROVE [Mailbox!Next]_(Mailbox!vars)
  <2>1. CASE SendRefused(c)
    <3>1. UNCHANGED Mailbox!vars
      BY <2>1 DEF SendRefused, Mailbox!vars
    <3> QED  BY <3>1
  <2>2. CASE Register(c)
    <3>1. Mailbox!Open(c)
      BY <2>2 DEF Register, Mailbox!Open
    <3> QED  BY <3>1 DEF Mailbox!Next
  <2>3. CASE SendEnqueue(c)
    <3>1. UNCHANGED Mailbox!vars
      BY <2>3 DEF SendEnqueue, Mailbox!vars
    <3> QED  BY <3>1
  <2>4. CASE SendAnswered(c)
    <3>1. Mailbox!Answer(c)
      BY <2>4 DEF SendAnswered, Mailbox!Answer
    <3> QED  BY <3>1 DEF Mailbox!Next
  <2>5. CASE SendTimeout(c)
    <3>1. UNCHANGED Mailbox!vars
      BY <2>5 DEF SendTimeout, Mailbox!vars
    <3> QED  BY <3>1
  <2>6. CASE Cleanup(c)
    <3>1. Mailbox!Abandon(c)
      BY <2>6 DEF Cleanup, Mailbox!Abandon
    <3> QED  BY <3>1 DEF Mailbox!Next
  <2>7. CASE DeliverSend(c)
    <3>1. UNCHANGED Mailbox!vars
      BY <2>7 DEF DeliverSend, Mailbox!vars
    <3> QED  BY <3>1
  <2>8. ASSUME NEW r \in Replies, Deliver(c, r) PROVE [Mailbox!Next]_(Mailbox!vars)
    <3>1. CASE c \in pending
      <4>1. Mailbox!Accept(c)
        BY <2>8, <3>1 DEF Deliver, Mailbox!Accept
      <4> QED  BY <4>1 DEF Mailbox!Next
    <3>2. CASE c \notin pending
      <4>1. UNCHANGED Mailbox!vars
        BY <2>8, <3>2 DEF Deliver, Mailbox!vars
      <4> QED  BY <4>1
    <3> QED  BY <3>1, <3>2
  <2> QED  BY <1>2, <2>1, <2>2, <2>3, <2>4, <2>5, <2>6, <2>7, <2>8 DEF CallNext
<1> QED  BY <1>1, <1>2, OthersKeepRouting DEF BidiNext

\* The bidirectional transport implements the mailbox: at most one reply is
\* accepted per call, never after the call returned, and an answer is the
\* accepted reply (bidirectional.go:142-201).
THEOREM TransportImplementsMailbox == BidiSpec => ImplementsMailbox
<1>1. BidiSpec => []RoutingInv
  BY RoutingAlwaysHolds
<1> QED  BY <1>1, MailboxInit, MailboxStep, PTL DEF BidiSpec, ImplementsMailbox, Mailbox!Spec
=============================================================================
