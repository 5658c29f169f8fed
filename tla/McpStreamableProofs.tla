-------------------------- MODULE McpStreamableProofs --------------------------
(***************************************************************************)
(* The streamable MCP transport: sessions, their streams and what a        *)
(* resuming client is sent, for any number of sessions, streams and        *)
(* broadcasts and any capacities.                                          *)
(***************************************************************************)
EXTENDS McpStreamable, FiniteSetTheorems, TLAPS

\* A leaf goes to Zenon unless it names another prover.
USE ZenonT(120)

-----------------------------------------------------------------------------
(* Sequences of event ids.                                                   *)

Ordered(q) == \A i, j \in DOMAIN q : i < j => q[i] < q[j]
Below(S, T) == \A x \in S, y \in T : x < y

\* The elements of a sequence with one more.
LEMMA AppendRange ==
  ASSUME NEW S, NEW q \in Seq(S), NEW e \in S
  PROVE  Append(q, e) \in Seq(S) /\ Range(Append(q, e)) = Range(q) \cup {e}
<1>1. /\ Append(q, e) \in Seq(S) /\ Len(Append(q, e)) = Len(q) + 1
      /\ \A i \in 1..Len(q) : Append(q, e)[i] = q[i]
      /\ Append(q, e)[Len(q) + 1] = e
      /\ Len(q) \in Nat
  BY SMTT(60)
<1>2. DOMAIN Append(q, e) = 1..(Len(q) + 1) /\ DOMAIN q = 1..Len(q)
  BY SMTT(60), <1>1
<1> QED  BY SMTT(60), <1>1, <1>2 DEF Range

\* A greater element at the end keeps a sequence increasing.
LEMMA AppendOrdered ==
  ASSUME NEW q \in Seq(Nat), NEW e \in Nat, Ordered(q), \A x \in Range(q) : x < e
  PROVE  Ordered(Append(q, e))
<1>1. /\ Append(q, e) \in Seq(Nat) /\ Len(Append(q, e)) = Len(q) + 1
      /\ \A i \in 1..Len(q) : Append(q, e)[i] = q[i] /\ q[i] < e
      /\ Append(q, e)[Len(q) + 1] = e
      /\ Len(q) \in Nat
  BY SMTT(60) DEF Range
<1> SUFFICES ASSUME NEW i \in 1..(Len(q) + 1), NEW j \in 1..(Len(q) + 1), i < j
             PROVE  Append(q, e)[i] < Append(q, e)[j]
  BY SMTT(60), <1>1 DEF Ordered
<1>2. i \in 1..Len(q)
  BY SMTT(60), <1>1
<1>3. CASE j = Len(q) + 1
  BY <1>1, <1>2, <1>3
<1>4. CASE j \in 1..Len(q)
  BY SMTT(60), <1>1, <1>2, <1>4 DEF Ordered
<1> QED  BY SMTT(60), <1>1, <1>3, <1>4

\* The head and the tail of a sequence.
LEMMA HeadTail ==
  ASSUME NEW S, NEW q \in Seq(S), q # <<>>
  PROVE  /\ Tail(q) \in Seq(S) /\ Head(q) \in S
         /\ Range(q) = Range(Tail(q)) \cup {Head(q)}
<1>1. /\ Tail(q) \in Seq(S) /\ Len(Tail(q)) = Len(q) - 1
      /\ \A i \in 1..(Len(q) - 1) : Tail(q)[i] = q[i + 1]
      /\ Len(q) \in Nat \ {0} /\ Head(q) = q[1] /\ q[1] \in S
  BY SMTT(60)
<1>2. Range(Tail(q)) = {Tail(q)[i] : i \in 1..(Len(q) - 1)} /\ Range(q) = {q[i] : i \in 1..Len(q)}
  <2>1. DOMAIN Tail(q) = 1..(Len(q) - 1) /\ DOMAIN q = 1..Len(q)
    BY SMTT(60), <1>1
  <2> QED  BY <2>1 DEF Range
<1>3. Range(Tail(q)) \cup {Head(q)} \subseteq Range(q)
  BY SMTT(60), <1>1, <1>2
<1>4. ASSUME NEW i \in 1..Len(q) PROVE q[i] \in Range(Tail(q)) \cup {Head(q)}
  <2>1. CASE i = 1
    BY <1>1, <2>1
  <2>2. CASE i # 1
    <3>1. i - 1 \in 1..(Len(q) - 1) /\ Tail(q)[i - 1] = q[i]
      BY SMTT(60), <1>1, <2>2
    <3> QED  BY <1>2, <3>1
  <2> QED  BY <2>1, <2>2
<1> QED  BY SMTT(60), <1>1, <1>2, <1>3, <1>4

\* An increasing sequence starts with its least element.
LEMMA TailOrdered ==
  ASSUME NEW q \in Seq(Nat), q # <<>>, Ordered(q)
  PROVE  Ordered(Tail(q)) /\ \A y \in Range(Tail(q)) : Head(q) < y
<1>1. /\ Tail(q) \in Seq(Nat) /\ Len(Tail(q)) = Len(q) - 1
      /\ \A i \in 1..(Len(q) - 1) : Tail(q)[i] = q[i + 1]
      /\ Len(q) \in Nat \ {0} /\ Head(q) = q[1]
  BY SMTT(60)
<1>2. Ordered(Tail(q))
  BY SMTT(60), <1>1 DEF Ordered
<1>3. \A i \in 1..(Len(q) - 1) : Head(q) < Tail(q)[i]
  BY SMTT(60), <1>1 DEF Ordered
<1> QED  BY SMTT(60), <1>1, <1>2, <1>3 DEF Range

\* Taking the head of q to the end of p keeps the ids in order and loses none.
LEMMA MoveHead ==
  ASSUME NEW p \in Seq(Nat), NEW q \in Seq(Nat), q # <<>>,
         Ordered(p), Ordered(q), Below(Range(p), Range(q))
  PROVE  /\ Append(p, Head(q)) \in Seq(Nat) /\ Tail(q) \in Seq(Nat)
         /\ Ordered(Append(p, Head(q))) /\ Ordered(Tail(q))
         /\ Below(Range(Append(p, Head(q))), Range(Tail(q)))
         /\ Range(Append(p, Head(q))) \cup Range(Tail(q)) = Range(p) \cup Range(q)
         /\ Range(Append(p, Head(q))) \subseteq Range(p) \cup Range(q)
         /\ Range(Tail(q)) \subseteq Range(q)
<1>1. /\ Tail(q) \in Seq(Nat) /\ Head(q) \in Nat /\ Range(q) = Range(Tail(q)) \cup {Head(q)}
  BY HeadTail
<1>2. Append(p, Head(q)) \in Seq(Nat) /\ Range(Append(p, Head(q))) = Range(p) \cup {Head(q)}
  BY SMTT(60), <1>1, AppendRange
<1>3. \A x \in Range(p) : x < Head(q)
  BY <1>1 DEF Below
<1>4. Ordered(Append(p, Head(q)))
  BY <1>1, <1>3, AppendOrdered
<1>5. Ordered(Tail(q)) /\ \A y \in Range(Tail(q)) : Head(q) < y
  BY TailOrdered
<1>6. Below(Range(Append(p, Head(q))), Range(Tail(q)))
  BY <1>1, <1>2, <1>5 DEF Below
<1> QED  BY <1>1, <1>2, <1>4, <1>5, <1>6

\* The next of a numbered kind is new, and the numbers in use stay an interval.
LEMMA NextIsNew ==
  ASSUME NEW k \in Nat, NEW i \in Nat, IsNext(i, 1..k)
  PROVE  i = k + 1 /\ (1..k) \cup {i} = 1..(k + 1)
<1>1. Cardinality(1..k) = k
  BY SMTT(60), FS_Interval
<1> QED  BY SMTT(60), <1>1 DEF IsNext

\* The ids of a session's log: the last ones up to n.
IsLog(l, n) == Len(l) <= n /\ \A i \in 1..Len(l) : l[i] = n - Len(l) + i

\* What subscribe replays of a log is the ids after Last-Event-Id, in order.
LEMMA SinceExact ==
  ASSUME NEW l \in Seq(Nat), NEW n \in Nat, NEW a \in Nat, IsLog(l, n)
  PROVE  /\ Since(l, a) \in Seq(Nat) /\ Ordered(Since(l, a))
         /\ Range(Since(l, a)) = {e \in Nat : n - Len(l) < e /\ a < e /\ e <= n}
<1> DEFINE m == Len(l)
           Splits(k) == \A i \in 1..m : (l[i] > a) = (i > k)
           k0 == IF a < n - m THEN 0 ELSE IF a > n THEN m ELSE a - (n - m)
           k == CHOOSE x \in 0..m : Splits(x)
<1>1. m \in Nat /\ m <= n /\ \A i \in 1..m : l[i] = n - m + i
  BY SMTT(60) DEF IsLog
<1>2. k0 \in 0..m /\ Splits(k0)
  <2> HIDE DEF m
  <2> QED  BY SMTT(60), <1>1
<1>3. k \in 0..m /\ Splits(k)
  <2> HIDE DEF Splits, m, k0
  <2> QED  BY <1>2
<1> DEFINE q == SubSeq(l, k + 1, m)
<1>4. Since(l, a) = q
  BY DEF Since
<1> HIDE DEF k, k0
<1>5. /\ q \in Seq(Nat) /\ Len(q) = m - k
      /\ \A i \in 1..(m - k) : q[i] = l[k + i]
  BY SMTT(60), <1>1, <1>3
<1>6. DOMAIN q = 1..(m - k)
  BY SMTT(60), <1>5
<1>7. \A i \in 1..m : (l[i] > a) = (i > k)
  BY <1>3
<1> HIDE DEF q, m, Splits
<1>8. \A i \in 1..(m - k) : q[i] = n - m + k + i /\ k + i \in 1..m
  BY SMTT(60), <1>1, <1>3, <1>5
<1>9. Ordered(q)
  BY SMTT(60), <1>1, <1>3, <1>6, <1>8 DEF Ordered
<1>10. \A i \in 1..(m - k) : q[i] \in Nat /\ n - m < q[i] /\ a < q[i] /\ q[i] <= n
  <2> TAKE i \in 1..(m - k)
  <2>1. q[i] = n - m + k + i /\ k + i \in 1..m /\ q[i] = l[k + i]
    BY <1>5, <1>8
  <2>2. l[k + i] > a
    BY SMTT(60), <1>3, <1>7, <2>1
  <2> QED  BY SMTT(60), <1>1, <1>3, <2>1, <2>2
<1>11. ASSUME NEW e \in Nat, n - m < e, a < e, e <= n PROVE e \in Range(q)
  <2>1. PICK i \in 1..m : l[i] = e
    <3>1. e - (n - m) \in 1..m /\ l[e - (n - m)] = e
      BY SMTT(60), <1>1, <1>11
    <3> QED  BY <3>1
  <2>2. i > k
    BY <1>7, <1>11, <2>1
  <2>3. i - k \in 1..(m - k) /\ q[i - k] = e
    BY SMTT(60), <1>1, <1>3, <1>8, <2>1, <2>2
  <2> QED  BY <1>6, <2>3 DEF Range
<1>12. Range(q) = {e \in Nat : n - m < e /\ a < e /\ e <= n}
  BY <1>6, <1>10, <1>11 DEF Range
<1> QED  BY <1>4, <1>5, <1>9, <1>12 DEF m

\* What SubSeq keeps of a sequence longer than k: its last k elements.
LEMMA LastOf ==
  ASSUME NEW q \in Seq(Nat), NEW k \in Nat \ {0}, Len(q) > k
  PROVE  LET t == SubSeq(q, Len(q) - k + 1, Len(q))
         IN  /\ t \in Seq(Nat) /\ Len(t) = k
             /\ \A i \in 1..k : t[i] = q[Len(q) - k + i]
<1> DEFINE t == SubSeq(q, Len(q) - k + 1, Len(q))
<1>0. Len(q) \in Nat /\ k \in 1..Len(q) /\ Len(q) - k + 1 \in 1..Len(q)
  BY SMTT(60)
<1>1. t \in Seq(Nat)
  BY SMTT(60), <1>0
<1>2. Len(t) = k
  BY SMTT(60), <1>0
<1>3. ASSUME NEW i \in 1..k PROVE t[i] = q[Len(q) - k + i]
  BY SMTT(60)
<1> QED  BY <1>1, <1>2, <1>3

\* Logging one more event, and dropping what is over the limit.
LEMMA LogGrows ==
  ASSUME NEW l \in Seq(Nat), NEW n \in Nat, IsLog(l, n), NEW max \in Nat \ {0}
  PROVE  LET q == Append(l, n + 1)
             r == IF Len(q) > max THEN SubSeq(q, Len(q) - max + 1, Len(q)) ELSE q
         IN  r \in Seq(Nat) /\ IsLog(r, n + 1)
<1> DEFINE q == Append(l, n + 1)
           m == Len(l)
           r == IF Len(q) > max THEN SubSeq(q, Len(q) - max + 1, Len(q)) ELSE q
<1> SUFFICES r \in Seq(Nat) /\ IsLog(r, n + 1)
  OBVIOUS
<1>1. /\ q \in Seq(Nat) /\ Len(q) = m + 1 /\ m \in Nat /\ m <= n
      /\ \A i \in 1..m : q[i] = n - m + i
      /\ q[m + 1] = n + 1
  BY SMTT(60) DEF IsLog
<1>2. q \in Seq(Nat) /\ IsLog(q, n + 1)
  <2> HIDE DEF q, m
  <2>1. ASSUME NEW i \in 1..(m + 1) PROVE q[i] = n + 1 - (m + 1) + i
    <3>1. CASE i \in 1..m
      BY SMTT(60), <1>1, <3>1
    <3>2. CASE i = m + 1
      BY SMTT(60), <1>1, <3>2
    <3> QED  BY SMTT(60), <1>1, <3>1, <3>2
  <2> QED  BY SMTT(60), <1>1, <2>1 DEF IsLog
<1>3. CASE Len(q) > max
  <2> DEFINE t == SubSeq(q, Len(q) - max + 1, Len(q))
             L == Len(q)
  <2>1. /\ t \in Seq(Nat) /\ Len(t) = max
        /\ \A i \in 1..max : t[i] = q[L - max + i]
    <3> HIDE DEF q
    <3> QED  BY <1>2, <1>3, LastOf
  <2>2. L \in Nat /\ L <= n + 1 /\ \A i \in 1..L : q[i] = n + 1 - L + i
    BY SMTT(60), <1>2 DEF IsLog
  <2> HIDE DEF t, q, L
  <2>3. ASSUME NEW i \in 1..max PROVE t[i] = n + 1 - max + i
    <3>1. L > max
      BY <1>3 DEF L
    <3>2. L - max + i \in 1..L
      BY SMTT(60), <2>2, <3>1
    <3>3. t[i] = q[L - max + i] /\ q[L - max + i] = n + 1 - L + (L - max + i)
      BY <2>1, <2>2, <3>2
    <3> QED  BY SMTT(60), <2>2, <3>3
  <2>4. IsLog(t, n + 1)
    BY SMTT(60), <1>3, <2>1, <2>2, <2>3 DEF IsLog, L
  <2>5. r = t
    BY <1>3 DEF t
  <2> HIDE DEF r
  <2> QED  BY <2>1, <2>4, <2>5
<1>4. CASE ~(Len(q) > max)
  BY <1>2, <1>4
<1> QED  BY <1>3, <1>4

-----------------------------------------------------------------------------
(* Queues without repetition.                                                *)

Distinct(q) == \A i, j \in DOMAIN q : q[i] = q[j] => i = j

\* A new element at the end.
LEMMA AppendDistinct ==
  ASSUME NEW S, NEW q \in Seq(S), NEW e \in S, Distinct(q), e \notin Range(q)
  PROVE  Distinct(Append(q, e))
<1>1. /\ Append(q, e) \in Seq(S) /\ Len(Append(q, e)) = Len(q) + 1
      /\ \A i \in 1..Len(q) : Append(q, e)[i] = q[i] /\ q[i] # e
      /\ Append(q, e)[Len(q) + 1] = e
      /\ Len(q) \in Nat
  BY SMTT(60) DEF Range
<1> SUFFICES ASSUME NEW i \in 1..(Len(q) + 1), NEW j \in 1..(Len(q) + 1),
                    Append(q, e)[i] = Append(q, e)[j]
             PROVE  i = j
  BY SMTT(60), <1>1 DEF Distinct
<1>2. CASE i \in 1..Len(q) /\ j \in 1..Len(q)
  BY SMTT(60), <1>1, <1>2 DEF Distinct
<1>3. CASE i = Len(q) + 1 \/ j = Len(q) + 1
  BY SMTT(60), <1>1, <1>3
<1> QED  BY SMTT(60), <1>1, <1>2, <1>3

\* The queue without its first n elements.
LEMMA DropFirst ==
  ASSUME NEW S, NEW q \in Seq(S), Distinct(q), NEW n \in 0..Len(q)
  PROVE  LET r == SubSeq(q, n + 1, Len(q))
         IN  /\ r \in Seq(S) /\ Len(r) = Len(q) - n /\ Distinct(r)
             /\ Range(r) = Range(q) \ {q[i] : i \in 1..n}
<1> DEFINE r == SubSeq(q, n + 1, Len(q))
           m == Len(q)
<1>1. /\ r \in Seq(S) /\ Len(r) = m - n /\ m \in Nat
      /\ \A i \in 1..(m - n) : r[i] = q[n + i]
  BY SMTT(60)
<1>2. DOMAIN r = 1..(m - n) /\ DOMAIN q = 1..m
  BY SMTT(60), <1>1
<1> HIDE DEF r
<1>3. Distinct(r)
  <2> SUFFICES ASSUME NEW i \in 1..(m - n), NEW j \in 1..(m - n), r[i] = r[j] PROVE i = j
    BY <1>2 DEF Distinct
  <2>1. n + i \in DOMAIN q /\ n + j \in DOMAIN q /\ q[n + i] = q[n + j]
    BY SMTT(60), <1>1, <1>2
  <2>2. n + i = n + j
    BY <2>1 DEF Distinct
  <2> QED  BY SMTT(60), <1>1, <2>2
<1>4. Range(r) \subseteq Range(q) \ {q[i] : i \in 1..n}
  <2> SUFFICES ASSUME NEW i \in 1..(m - n) PROVE r[i] \in Range(q) \ {q[j] : j \in 1..n}
    BY <1>2 DEF Range
  <2>1. n + i \in 1..m /\ r[i] = q[n + i]
    BY SMTT(60), <1>1
  <2>2. ASSUME NEW j \in 1..n PROVE q[j] # q[n + i]
    BY SMTT(60), <1>1, <1>2, <2>1 DEF Distinct
  <2> QED  BY <1>2, <2>1, <2>2 DEF Range
<1>5. ASSUME NEW i \in 1..m, q[i] \notin {q[j] : j \in 1..n} PROVE q[i] \in Range(r)
  <2>1. i - n \in 1..(m - n) /\ n + (i - n) = i
    BY SMTT(60), <1>1, <1>5
  <2>2. r[i - n] = q[i]
    BY <1>1, <2>1
  <2> QED  BY <1>2, <2>1, <2>2 DEF Range
<1>6. Range(q) \ {q[i] : i \in 1..n} \subseteq Range(r)
  BY <1>2, <1>5 DEF Range
<1> QED  BY <1>1, <1>3, <1>4, <1>6 DEF r

\* Two sequences, one after the other.
LEMMA Concat ==
  ASSUME NEW S, NEW a \in Seq(S), NEW b \in Seq(S)
  PROVE  /\ a \o b \in Seq(S) /\ Len(a \o b) = Len(a) + Len(b)
         /\ \A i \in 1..Len(a) : (a \o b)[i] = a[i]
         /\ \A i \in 1..Len(b) : (a \o b)[Len(a) + i] = b[i]
<1>1. a \o b \in Seq(S)
  BY SMTT(60)
<1>2. Len(a \o b) = Len(a) + Len(b)
  BY SMTT(60)
<1>3. \A i \in 1..Len(a) : (a \o b)[i] = a[i]
  BY SMTT(60)
<1>4. ASSUME NEW i \in 1..Len(b) PROVE (a \o b)[Len(a) + i] = b[i]
  <2>1. Len(a) \in Nat /\ Len(b) \in Nat
    BY SMTT(60)
  <2> QED  BY SMTT(60), <2>1
<1> QED  BY <1>1, <1>2, <1>3, <1>4

\* The queue without one of its elements, as delete takes it out.
LEMMA WithoutExact ==
  ASSUME NEW S, NEW q \in Seq(S), Distinct(q), NEW e \in Range(q)
  PROVE  /\ Without(q, e) \in Seq(S) /\ Distinct(Without(q, e))
         /\ Len(Without(q, e)) = Len(q) - 1
         /\ Range(Without(q, e)) = Range(q) \ {e}
<1> DEFINE m == Len(q)
           r == Without(q, e)
<1>1. m \in Nat /\ DOMAIN q = 1..m
  BY SMTT(60)
<1>2. PICK k \in 1..m : q[k] = e
  BY <1>1 DEF Range
<1>3. \A i \in 1..m : q[i] = e => i = k
  BY <1>1, <1>2 DEF Distinct
<1>4. (CHOOSE i \in DOMAIN q : q[i] = e /\ \A j \in 1..(i - 1) : q[j] # e) = k
  <2>1. \A j \in 1..(k - 1) : j \in 1..m /\ j # k
    BY SMTT(60), <1>1
  <2>2. \A j \in 1..(k - 1) : q[j] # e
    BY <1>3, <2>1
  <2> QED  BY <1>1, <1>2, <1>3, <2>2
<1>5. r = SubSeq(q, 1, k - 1) \o SubSeq(q, k + 1, m)
  BY <1>4 DEF Without
<1> HIDE DEF r, m
<1>6. /\ r \in Seq(S) /\ Len(r) = m - 1
      /\ \A i \in 1..(m - 1) : r[i] = IF i < k THEN q[i] ELSE q[i + 1]
  <2> DEFINE a == SubSeq(q, 1, k - 1)
             b == SubSeq(q, k + 1, m)
  <2>1. a \in Seq(S) /\ Len(a) = k - 1 /\ \A i \in 1..(k - 1) : a[i] = q[i]
    BY SMTT(60), <1>1 DEF m
  <2>2. b \in Seq(S) /\ Len(b) = m - k /\ \A i \in 1..(m - k) : b[i] = q[k + i]
    <3>1. k \in 0..Len(q)
      BY SMTT(60), <1>1 DEF m
    <3> QED  BY SMTT(60), <3>1 DEF m
  <2> HIDE DEF a, b
  <2>3. /\ r \in Seq(S) /\ Len(r) = Len(a) + Len(b)
        /\ \A i \in 1..Len(a) : r[i] = a[i]
        /\ \A i \in 1..Len(b) : r[Len(a) + i] = b[i]
    BY SMTT(60), <1>5, <2>1, <2>2, Concat DEF a, b
  <2>4. Len(r) = m - 1
    BY SMTT(60), <1>1, <2>1, <2>2, <2>3
  <2>5. ASSUME NEW i \in 1..(m - 1) PROVE r[i] = IF i < k THEN q[i] ELSE q[i + 1]
    <3>1. CASE i < k
      <4>1. i \in 1..Len(a)
        BY SMTT(60), <1>1, <2>1, <3>1
      <4> QED  BY <2>1, <2>3, <3>1, <4>1
    <3>2. CASE ~(i < k)
      <4>1. i - (k - 1) \in 1..(m - k) /\ k + (i - (k - 1)) = i + 1 /\ Len(a) + (i - (k - 1)) = i
        BY SMTT(60), <1>1, <2>1, <3>2
      <4>2. r[i] = b[i - (k - 1)] /\ b[i - (k - 1)] = q[i + 1]
        BY <2>2, <2>3, <4>1
      <4> QED  BY <3>2, <4>2
    <3> QED  BY <3>1, <3>2
  <2> QED  BY <2>3, <2>4, <2>5
<1>7. DOMAIN r = 1..(m - 1)
  BY SMTT(60), <1>6, <1>1
<1> DEFINE At(i) == IF i < k THEN i ELSE i + 1
<1>8. \A i \in 1..(m - 1) : At(i) \in 1..m \ {k} /\ r[i] = q[At(i)]
  BY SMTT(60), <1>1, <1>6
<1>9. Distinct(r)
  <2> SUFFICES ASSUME NEW i \in 1..(m - 1), NEW j \in 1..(m - 1), r[i] = r[j] PROVE i = j
    BY <1>7 DEF Distinct
  <2>1. At(i) = At(j)
    <3> HIDE DEF At
    <3> QED  BY <1>1, <1>8 DEF Distinct
  <2> QED  BY SMTT(60), <1>1, <2>1
<1>10. Range(r) \subseteq Range(q) \ {e}
  <2> SUFFICES ASSUME NEW i \in 1..(m - 1) PROVE r[i] \in Range(q) \ {e}
    BY <1>7 DEF Range
  <2> HIDE DEF At
  <2> QED  BY SMTT(60), <1>1, <1>2, <1>8 DEF Range, Distinct
<1>11. ASSUME NEW i \in 1..m, q[i] # e PROVE q[i] \in Range(r)
  <2>1. CASE i < k
    <3>1. i \in 1..(m - 1) /\ r[i] = q[i]
      BY SMTT(60), <1>1, <1>6, <2>1
    <3> QED  BY <1>7, <3>1 DEF Range
  <2>2. CASE i > k
    <3>1. i - 1 \in 1..(m - 1) /\ r[i - 1] = q[i]
      BY SMTT(60), <1>1, <1>6, <2>2
    <3> QED  BY <1>7, <3>1 DEF Range
  <2> QED  BY SMTT(60), <1>1, <1>2, <1>11, <2>1, <2>2
<1>12. Range(q) \ {e} \subseteq Range(r)
  BY <1>1, <1>11 DEF Range
<1> QED  BY <1>6, <1>9, <1>10, <1>12 DEF r, m

\* A queue without repetition is as long as the set of its elements.
LEMMA DistinctCount ==
  ASSUME NEW S, NEW q \in Seq(S), Distinct(q)
  PROVE  Cardinality(Range(q)) = Len(q)
<1>1. Len(q) \in Nat /\ DOMAIN q = 1..Len(q) /\ q = [i \in 1..Len(q) |-> q[i]]
  BY SMTT(60)
<1>2. q \in Bijection(1..Len(q), Range(q))
  BY <1>1 DEF Bijection, Injection, Surjection, Range, Distinct, IsInjective
<1>3. ExistsBijection(1..Len(q), Range(q))
  BY <1>2 DEF ExistsBijection
<1> QED  BY <1>1, <1>3, FS_CountingElements

-----------------------------------------------------------------------------
(* The streamable transport.                                                 *)

StreamableTypeOK ==
  /\ live \subseteq SessionIds /\ closing \subseteq SessionIds /\ closed \subseteq SessionIds
  /\ order \in Seq(SessionIds)
  /\ nextID \in [SessionIds -> Nat] /\ log \in [SessionIds -> Seq(Nat)]
  /\ subs \in [SessionIds -> SUBSET Streams] /\ shut \subseteq Streams
  /\ hpc \in [Streams -> {"absent", "found", "refused", "replaying", "live", "leaving", "done"}]
  /\ hsess \in [Streams -> SessionIds \cup {NoSession}]
  /\ after \in [Streams -> Nat] /\ oldest \in [Streams -> Nat]
  /\ replay \in [Streams -> Seq(Nat)] /\ chan \in [Streams -> Seq(Nat)]
  /\ got \in [Streams -> Seq(Nat)] /\ skipped \in [Streams -> SUBSET Nat]

\* The table: its order lists the live sessions once each, the sessions that were
\* minted are numbered from 1, and those not live are closed or about to be.
TableInv ==
  /\ Distinct(order) /\ Range(order) = live /\ Len(order) <= MaxSessions
  /\ \E k \in 0..NSessions : minted = 1..k
  /\ live \subseteq minted
  /\ minted \ live = closed \cup closing

\* The subscribers: those of a session are open streams of it with an open
\* channel; a closed session has none; and a stream that is open is subscribed
\* or has its channel shut.
SubsInv ==
  /\ \A s \in SessionIds : Cardinality(subs[s]) <= SubMax
  /\ \A s \in closed : subs[s] = {}
  /\ \A s \in SessionIds : \A t \in subs[s] :
       /\ hsess[t] = s /\ t \notin shut
       /\ hpc[t] \in {"replaying", "live", "leaving"}
  /\ \A t \in Streams :
       /\ hpc[t] # "absent" => hsess[t] \in SessionIds
       /\ hpc[t] \in {"absent", "found"} => t \notin shut
       /\ hpc[t] \in {"replaying", "live"} => t \in shut \/ t \in subs[hsess[t]]

\* The ids a stream has received, will replay or has in its channel.
Ids(t) == Range(got[t]) \cup Range(replay[t]) \cup Range(chan[t])

\* Every id after Last-Event-Id up to n is accounted for.
Covered(t, n) ==
  \A e \in (after[t] + 1)..n : e \in Ids(t) \cup skipped[t] \/ e < oldest[t]

\* What a stream receives comes in order, without a gap up to any id it has, and,
\* while it is subscribed, up to the last event of its session.
FlowInv ==
  /\ \A s \in SessionIds : IsLog(log[s], nextID[s])
  /\ \A t \in Streams :
       /\ hpc[t] \in {"absent", "found", "refused"} =>
            got[t] = <<>> /\ replay[t] = <<>> /\ chan[t] = <<>>
       /\ hpc[t] = "live" => replay[t] = <<>>
       /\ Ordered(got[t]) /\ Ordered(replay[t]) /\ Ordered(chan[t])
       /\ Below(Range(got[t]), Range(replay[t]))
       /\ Below(Range(got[t]) \cup Range(replay[t]), Range(chan[t]))
       /\ \A x \in Ids(t) : Covered(t, x)
  /\ \A s \in SessionIds : \A t \in subs[s] :
       Covered(t, nextID[s]) /\ \A x \in Ids(t) : x <= nextID[s]

StreamableInv == StreamableTypeOK /\ TableInv /\ SubsInv /\ FlowInv

\* Nothing is minted, logged or streamed at the start.
LEMMA StreamableStart == StreamableInit => StreamableInv
<1> SUFFICES ASSUME StreamableInit PROVE StreamableInv
  OBVIOUS
<1>1. StreamableTypeOK
  BY SMTT(60), StreamableAssumption DEF StreamableInit, StreamableTypeOK
<1>2. TableInv
  <2>1. minted = 1..0 /\ 0 \in 0..NSessions
    BY SMTT(60), StreamableAssumption DEF StreamableInit
  <2>2. Distinct(order) /\ Range(order) = live /\ Len(order) <= MaxSessions
    BY SMTT(60), StreamableAssumption DEF StreamableInit, Distinct, Range
  <2> QED  BY <2>1, <2>2 DEF StreamableInit, TableInv
<1>3. SubsInv
  <2>1. Cardinality({}) = 0
    BY FS_EmptySet
  <2> QED  BY SMTT(60), <2>1, StreamableAssumption DEF StreamableInit, SubsInv
<1>4. FlowInv
  <2>1. \A q : q = <<>> => Range(q) = {} /\ Ordered(q)
    BY SMTT(60) DEF Range, Ordered
  <2>2. \A t \in Streams : Ids(t) = {} /\ got[t] = <<>> /\ replay[t] = <<>> /\ chan[t] = <<>>
    BY <2>1 DEF Ids, StreamableInit
  <2>3. \A s \in SessionIds : IsLog(log[s], nextID[s]) /\ subs[s] = {}
    BY SMTT(60) DEF IsLog, StreamableInit
  <2> QED  BY <2>1, <2>2, <2>3 DEF FlowInv, Below, StreamableInit
<1> QED  BY <1>1, <1>2, <1>3, <1>4 DEF StreamableInv

\* A step that takes no event anywhere, and subscribes nobody, keeps the flow.
LEMMA FlowKept ==
  ASSUME StreamableInv, UNCHANGED <<nextID, log, after, replay, chan, got, skipped, oldest>>,
         \A s \in SessionIds : subs'[s] \subseteq subs[s],
         \A t \in Streams :
           /\ hpc'[t] \in {"absent", "found", "refused"} => hpc[t] \in {"absent", "found", "refused"}
           /\ hpc'[t] = "live" => hpc[t] = "live" \/ replay[t] = <<>>
  PROVE  FlowInv'
<1>1. \A t : Ids(t)' = Ids(t)
  BY DEF Ids
<1>2. \A t, n : Covered(t, n) => (Covered(t, n))'
  BY <1>1 DEF Covered
<1>3. FlowInv
  BY DEF StreamableInv
<1>4. \A s \in SessionIds : IsLog(log[s], nextID[s])'
  BY <1>3 DEF FlowInv
<1>5. ASSUME NEW t \in Streams
      PROVE  /\ hpc'[t] \in {"absent", "found", "refused"} =>
                  got'[t] = <<>> /\ replay'[t] = <<>> /\ chan'[t] = <<>>
             /\ hpc'[t] = "live" => replay'[t] = <<>>
             /\ Ordered(got[t])' /\ Ordered(replay[t])' /\ Ordered(chan[t])'
             /\ Below(Range(got[t]), Range(replay[t]))'
             /\ Below(Range(got[t]) \cup Range(replay[t]), Range(chan[t]))'
             /\ \A x \in Ids(t)' : Covered(t, x)'
  BY <1>1, <1>2, <1>3 DEF FlowInv
<1>6. ASSUME NEW s \in SessionIds, NEW t \in subs'[s]
      PROVE  Covered(t, nextID[s])' /\ \A x \in Ids(t)' : x <= nextID'[s]
  BY <1>1, <1>2, <1>3 DEF FlowInv
<1> QED  BY <1>4, <1>5, <1>6 DEF FlowInv

\* Closing sessions shuts the channels of their subscribers and no others.
LEMMA ClosesExact ==
  ASSUME StreamableInv, NEW S \in SUBSET SessionIds, Closes(S), UNCHANGED <<hpc, hsess>>
  PROVE  /\ subs' \in [SessionIds -> SUBSET Streams] /\ shut' \subseteq Streams
         /\ closed' \subseteq SessionIds
         /\ \A s \in SessionIds : subs'[s] \subseteq subs[s]
         /\ SubsInv'
<1>1. StreamableTypeOK /\ SubsInv
  BY DEF StreamableInv
<1>2. /\ closed' = closed \cup S
      /\ subs' = [s \in SessionIds |-> IF s \in S THEN {} ELSE subs[s]]
      /\ \A t : t \in shut' <=> t \in shut \/ \E s \in S : t \in subs[s]
  BY DEF Closes
<1>3. /\ subs' \in [SessionIds -> SUBSET Streams] /\ shut' \subseteq Streams
      /\ closed' \subseteq SessionIds
      /\ \A s \in SessionIds : subs'[s] \subseteq subs[s]
  BY <1>1, <1>2 DEF StreamableTypeOK
<1>4. ASSUME NEW s \in SessionIds PROVE Cardinality(subs'[s]) <= SubMax
  <2>1. CASE s \in S
    <3>1. subs'[s] = {} /\ Cardinality({}) = 0
      BY <1>2, <2>1, FS_EmptySet
    <3> QED  BY SMTT(60), <3>1, StreamableAssumption
  <2>2. CASE s \notin S
    BY <1>1, <1>2, <2>2 DEF SubsInv
  <2> QED  BY <2>1, <2>2
<1>5. \A s \in closed' : subs'[s] = {}
  BY <1>1, <1>2 DEF SubsInv, StreamableTypeOK
<1>6. ASSUME NEW s \in SessionIds, NEW t \in subs'[s]
      PROVE  /\ hsess'[t] = s /\ t \notin shut'
             /\ hpc'[t] \in {"replaying", "live", "leaving"}
  <2>1. s \notin S /\ t \in subs[s]
    BY <1>2, <1>6
  <2>2. hsess[t] = s /\ t \notin shut /\ hpc[t] \in {"replaying", "live", "leaving"}
    BY <1>1, <2>1 DEF SubsInv
  <2>3. \A x \in S : t \notin subs[x]
    BY SMTT(60), <1>1, <2>1, <2>2 DEF SubsInv
  <2> QED  BY <1>2, <2>2, <2>3
<1>7. ASSUME NEW t \in Streams
      PROVE  /\ hpc'[t] # "absent" => hsess'[t] \in SessionIds
             /\ hpc'[t] \in {"absent", "found"} => t \notin shut'
             /\ hpc'[t] \in {"replaying", "live"} => t \in shut' \/ t \in subs'[hsess'[t]]
  BY SMTT(60), <1>1, <1>2 DEF SubsInv
<1>8. SubsInv'
  BY <1>4, <1>5, <1>6, <1>7 DEF SubsInv
<1> QED  BY <1>3, <1>8

\* A session is minted, and the oldest over the cap evicted.
LEMMA CreateKeeps ==
  ASSUME StreamableInv, NEW s \in SessionIds, Create(s) PROVE StreamableInv'
<1> DEFINE q == Append(order, s)
           n == IF Len(q) > MaxSessions THEN Len(q) - MaxSessions ELSE 0
           evicted == {q[i] : i \in 1..n}
           r == SubSeq(q, n + 1, Len(q))
<1>1. StreamableTypeOK /\ TableInv
  BY DEF StreamableInv
<1>2. /\ IsNext(s, minted) /\ minted' = minted \cup {s}
      /\ order' = r
      /\ live' = (live \cup {s}) \ evicted
      /\ Closes(evicted)
      /\ UNCHANGED <<closing, nextID, log, hpc, hsess, after, replay, chan, got, skipped, oldest>>
  BY DEF Create
<1>3. PICK k \in 0..NSessions : minted = 1..k
  BY <1>1 DEF TableInv
<1>4. s = k + 1 /\ minted' = 1..(k + 1) /\ s \notin minted /\ k + 1 \in 0..NSessions
  <2>1. k \in Nat /\ s \in Nat /\ s <= NSessions
    BY SMTT(60), StreamableAssumption DEF SessionIds
  <2>2. IsNext(s, 1..k)
    BY <1>2, <1>3
  <2>3. s = k + 1 /\ (1..k) \cup {s} = 1..(k + 1)
    BY <2>1, <2>2, NextIsNew
  <2> QED  BY SMTT(60), <1>2, <1>3, <2>1, <2>3, StreamableAssumption
<1>5. /\ q \in Seq(SessionIds) /\ Range(q) = live \cup {s} /\ Distinct(q)
      /\ Len(q) = Len(order) + 1 /\ Len(order) \in Nat /\ Len(order) <= MaxSessions
  <2>1. order \in Seq(SessionIds) /\ Range(order) = live /\ Distinct(order) /\ s \notin Range(order)
    BY <1>1, <1>4 DEF StreamableTypeOK, TableInv
  <2>2. q \in Seq(SessionIds) /\ Range(q) = Range(order) \cup {s}
    BY SMTT(60), <2>1, AppendRange
  <2>3. Distinct(q)
    BY <2>1, AppendDistinct
  <2>4. Len(q) = Len(order) + 1 /\ Len(order) \in Nat /\ Len(order) <= MaxSessions
    BY SMTT(60), <1>1, <2>1 DEF TableInv
  <2> QED  BY <2>1, <2>2, <2>3, <2>4
<1> HIDE DEF q
<1>6. n \in 0..Len(q) /\ Len(q) - n <= MaxSessions
  BY SMTT(60), <1>5, StreamableAssumption
<1> HIDE DEF n
<1>7. /\ r \in Seq(SessionIds) /\ Len(r) = Len(q) - n /\ Distinct(r)
      /\ Range(r) = Range(q) \ evicted
  BY <1>5, <1>6, DropFirst
<1>8. evicted \in SUBSET SessionIds /\ evicted \subseteq Range(q)
  <2>1. \A i \in 1..n : i \in DOMAIN q
    BY SMTT(60), <1>5, <1>6
  <2> QED  BY SMTT(60), <1>5, <2>1 DEF Range
<1> HIDE DEF r, evicted
<1>9. /\ subs' \in [SessionIds -> SUBSET Streams] /\ shut' \subseteq Streams
      /\ closed' \subseteq SessionIds /\ SubsInv'
      /\ \A x \in SessionIds : subs'[x] \subseteq subs[x]
  BY <1>2, <1>8, ClosesExact
<1>10. closed' = closed \cup evicted
  BY <1>2 DEF Closes
<1>11. TableInv'
  <2>1. Distinct(order') /\ Range(order') = live' /\ Len(order') <= MaxSessions
    BY <1>2, <1>5, <1>6, <1>7
  <2>2. live' \subseteq minted'
    BY <1>1, <1>2 DEF TableInv
  <2>3. minted' \ live' = closed' \cup closing'
    BY <1>1, <1>2, <1>4, <1>5, <1>8, <1>10 DEF TableInv
  <2> QED  BY <1>4, <2>1, <2>2, <2>3 DEF TableInv
<1>12. StreamableTypeOK'
  BY <1>1, <1>2, <1>7, <1>9 DEF StreamableTypeOK
<1>13. FlowInv'
  BY <1>2, <1>9, FlowKept
<1> QED  BY <1>9, <1>11, <1>12, <1>13 DEF StreamableInv

\* DELETE takes a session out of the table, then closes it.
LEMMA DeleteKeeps ==
  ASSUME StreamableInv, NEW s \in SessionIds, DeleteUnlinks(s) \/ DeleteCloses(s)
  PROVE  StreamableInv'
<1>1. StreamableTypeOK /\ TableInv /\ SubsInv
  BY DEF StreamableInv
<1>2. CASE DeleteUnlinks(s)
  <2>1. /\ s \in live /\ live' = live \ {s} /\ order' = Without(order, s)
        /\ closing' = closing \cup {s}
        /\ UNCHANGED <<minted, nextID, log, subs, closed, hpc, hsess, after, replay, chan, shut,
                       got, skipped, oldest>>
    BY <1>2 DEF DeleteUnlinks, sessVars, streamVars
  <2>2. /\ order' \in Seq(SessionIds) /\ Distinct(order') /\ Len(order') = Len(order) - 1
        /\ Range(order') = live'
    BY <1>1, <2>1, WithoutExact DEF StreamableTypeOK, TableInv
  <2>3. TableInv'
    <3>1. Len(order') <= MaxSessions
      BY SMTT(60), <1>1, <2>2, StreamableAssumption DEF TableInv, StreamableTypeOK
    <3> QED  BY <1>1, <2>1, <2>2, <3>1 DEF TableInv
  <2>4. StreamableTypeOK'
    BY <1>1, <2>1, <2>2 DEF StreamableTypeOK
  <2>5. SubsInv'
    BY <1>1, <2>1 DEF SubsInv
  <2>6. FlowInv'
    BY <2>1, FlowKept
  <2> QED  BY <2>3, <2>4, <2>5, <2>6 DEF StreamableInv
<1>3. CASE DeleteCloses(s)
  <2>1. /\ s \in closing /\ closing' = closing \ {s} /\ Closes({s})
        /\ UNCHANGED <<live, order, minted, nextID, log, hpc, hsess, after, replay, chan, got,
                       skipped, oldest>>
    BY <1>3 DEF DeleteCloses
  <2>2. /\ subs' \in [SessionIds -> SUBSET Streams] /\ shut' \subseteq Streams
        /\ closed' \subseteq SessionIds /\ SubsInv'
        /\ \A x \in SessionIds : subs'[x] \subseteq subs[x]
    BY <2>1, ClosesExact
  <2>3. closed' = closed \cup {s}
    BY <2>1 DEF Closes
  <2>4. TableInv'
    BY <1>1, <2>1, <2>3 DEF TableInv
  <2>5. StreamableTypeOK'
    BY <1>1, <2>1, <2>2 DEF StreamableTypeOK
  <2>6. FlowInv'
    BY <2>1, <2>2, FlowKept
  <2> QED  BY <2>2, <2>4, <2>5, <2>6 DEF StreamableInv
<1> QED  BY <1>2, <1>3

\* An event is logged and sent to the subscribers whose channel has room.
LEMMA BroadcastKeeps ==
  ASSUME StreamableInv, NEW b \in Broadcasts, NEW s \in SessionIds, BroadcastNotification(b, s)
  PROVE  StreamableInv'
<1>1. StreamableTypeOK /\ TableInv /\ SubsInv /\ FlowInv
  BY DEF StreamableInv
<1>2. /\ UNCHANGED <<live, order, minted, closing, subs, closed, hpc, hsess, after, replay, shut,
                     got, oldest>>
  BY DEF BroadcastNotification, tableVars
<1>3. TableInv' /\ SubsInv'
  BY <1>1, <1>2 DEF TableInv, SubsInv
<1>4. CASE s \in closed
  <2>1. UNCHANGED <<nextID, log, chan, skipped>>
    BY <1>4 DEF BroadcastNotification
  <2>2. StreamableTypeOK'
    BY <1>1, <1>2, <2>1 DEF StreamableTypeOK
  <2>3. FlowInv'
    BY <1>2, <2>1, FlowKept
  <2> QED  BY <1>3, <2>2, <2>3 DEF StreamableInv
<1>5. CASE s \notin closed
  <2>0. PICK id \in Nat : id = nextID[s] + 1
    BY SMTT(60), <1>1 DEF StreamableTypeOK
  <2> DEFINE ok == {t \in subs[s] : Len(chan[t]) < ChanBuffer}
             l == Append(log[s], id)
             kept == IF Len(l) > LogMax THEN SubSeq(l, Len(l) - LogMax + 1, Len(l)) ELSE l
  <2>1. /\ nextID' = [nextID EXCEPT ![s] = id]
        /\ log' = [log EXCEPT ![s] = kept]
        /\ chan' = [t \in Streams |-> IF t \in ok THEN Append(chan[t], id) ELSE chan[t]]
        /\ skipped' = [t \in Streams |->
                         IF t \in subs[s] \ ok THEN skipped[t] \cup {id} ELSE skipped[t]]
    BY <1>5, <2>0 DEF BroadcastNotification
  <2>2. nextID[s] \in Nat /\ id \in Nat /\ log[s] \in Seq(Nat) /\ IsLog(log[s], nextID[s])
    BY <1>1 DEF StreamableTypeOK, FlowInv
  <2>3. kept \in Seq(Nat) /\ IsLog(kept, id)
    BY <2>0, <2>2, LogGrows, StreamableAssumption
  <2> HIDE DEF kept, l, ok
  <2>4. /\ log'[s] = kept /\ nextID'[s] = id
        /\ \A x \in SessionIds \ {s} : log'[x] = log[x] /\ nextID'[x] = nextID[x]
        /\ log' \in [SessionIds -> Seq(Nat)] /\ nextID' \in [SessionIds -> Nat]
    BY <1>1, <2>1, <2>2, <2>3 DEF StreamableTypeOK
  <2>5. \A x \in SessionIds : IsLog(log[x], nextID[x])'
    BY <1>1, <2>3, <2>4 DEF FlowInv
  <2>6. ASSUME NEW t \in Streams, t \notin subs[s]
        PROVE  chan'[t] = chan[t] /\ skipped'[t] = skipped[t]
    BY <2>1, <2>6 DEF ok
  <2>7. ASSUME NEW t \in Streams, t \in ok
        PROVE  /\ chan'[t] = Append(chan[t], id) /\ chan'[t] \in Seq(Nat)
               /\ Range(chan'[t]) = Range(chan[t]) \cup {id} /\ skipped'[t] = skipped[t]
    <3>1. chan[t] \in Seq(Nat)
      BY <1>1 DEF StreamableTypeOK
    <3>2. chan'[t] = Append(chan[t], id) /\ skipped'[t] = skipped[t]
      BY <2>1, <2>7
    <3>3. Append(chan[t], id) \in Seq(Nat) /\ Range(Append(chan[t], id)) = Range(chan[t]) \cup {id}
      BY SMTT(60), <3>1, AppendRange
    <3> QED  BY <3>2, <3>3
  <2>8. ASSUME NEW t \in Streams, t \in subs[s] \ ok
        PROVE  chan'[t] = chan[t] /\ skipped'[t] = skipped[t] \cup {id}
    BY <2>1, <2>8
  <2>9. /\ chan' \in [Streams -> Seq(Nat)] /\ skipped' \in [Streams -> SUBSET Nat]
    <3>1. \A t \in Streams : chan'[t] \in Seq(Nat) /\ skipped'[t] \subseteq Nat
      BY <1>1, <2>2, <2>6, <2>7, <2>8 DEF StreamableTypeOK
    <3> QED  BY <2>1, <3>1
  <2>10. StreamableTypeOK'
    BY <1>1, <1>2, <2>4, <2>9 DEF StreamableTypeOK
  <2>11. ASSUME NEW t \in Streams
         PROVE  /\ Ids(t) \subseteq Ids(t)' /\ skipped[t] \subseteq skipped'[t]
                /\ \A n : Covered(t, n) => Covered(t, n)'
    <3>1. Range(chan[t]) \subseteq Range(chan'[t]) /\ skipped[t] \subseteq skipped'[t]
      BY <2>6, <2>7, <2>8
    <3>2. Ids(t) \subseteq Ids(t)'
      BY <1>2, <3>1 DEF Ids
    <3> QED  BY <1>2, <3>1, <3>2 DEF Covered
  <2>12. ASSUME NEW t \in subs[s]
         PROVE  /\ t \in Streams /\ Ids(t)' \subseteq Ids(t) \cup {id}
                /\ \A x \in Ids(t) : x \in Nat /\ x < id
                /\ Covered(t, id)'
    <3>1. t \in Streams
      BY <1>1 DEF StreamableTypeOK
    <3>2. Ids(t)' \subseteq Ids(t) \cup {id} /\ id \in Ids(t)' \cup skipped'[t]
      BY <1>2, <2>7, <2>8, <3>1 DEF Ids
    <3>3. \A x \in Ids(t) : x \in Nat
      BY SMTT(60), <1>1, <3>1 DEF Ids, Range, StreamableTypeOK
    <3>4. \A x \in Ids(t) : x \in Nat /\ x < id
      BY SMTT(60), <1>1, <2>0, <2>2, <3>3 DEF FlowInv
    <3>5. Covered(t, nextID[s])
      BY <1>1 DEF FlowInv
    <3>6. ASSUME NEW e \in (after[t] + 1)..id
          PROVE  e \in Ids(t)' \cup skipped'[t] \/ e < oldest[t]
      <4>1. CASE e = id
        BY <3>2, <4>1
      <4>2. CASE e # id
        <5>1. e \in (after[t] + 1)..nextID[s]
          BY SMTT(60), <1>1, <2>0, <2>2, <3>1, <4>2 DEF StreamableTypeOK
        <5>2. e \in Ids(t) \cup skipped[t] \/ e < oldest[t]
          BY <3>5, <5>1 DEF Covered
        <5> QED  BY <2>11, <3>1, <5>2
      <4> QED  BY <4>1, <4>2
    <3>7. Covered(t, id)'
      BY <1>2, <3>6 DEF Covered
    <3> QED  BY <3>1, <3>2, <3>4, <3>7
  <2>13. ASSUME NEW t \in Streams
         PROVE  /\ hpc'[t] \in {"absent", "found", "refused"} =>
                     got'[t] = <<>> /\ replay'[t] = <<>> /\ chan'[t] = <<>>
                /\ hpc'[t] = "live" => replay'[t] = <<>>
                /\ Ordered(got[t])' /\ Ordered(replay[t])' /\ Ordered(chan[t])'
                /\ Below(Range(got[t]), Range(replay[t]))'
                /\ Below(Range(got[t]) \cup Range(replay[t]), Range(chan[t]))'
                /\ \A x \in Ids(t)' : Covered(t, x)'
    <3>1. CASE t \notin ok
      <4>1. chan'[t] = chan[t]
        BY <2>6, <2>8, <3>1
      <4>2. Ids(t)' = Ids(t)
        BY <1>2, <4>1 DEF Ids
      <4> QED  BY <1>1, <1>2, <2>11, <4>1, <4>2 DEF FlowInv
    <3>2. CASE t \in ok
      <4>1. t \in subs[s]
        BY <3>2 DEF ok
      <4>2. \A x \in Ids(t) : x \in Nat /\ x < id
        BY <2>12, <4>1
      <4>3. Ordered(chan'[t])
        <5>1. chan[t] \in Seq(Nat) /\ Ordered(chan[t]) /\ \A x \in Range(chan[t]) : x < id
          BY <1>1, <4>2 DEF FlowInv, StreamableTypeOK, Ids
        <5> QED  BY <2>7, <3>2, <5>1, AppendOrdered
      <4>4. Below(Range(got[t]) \cup Range(replay[t]), Range(chan'[t]))
        <5>1. Range(got[t]) \cup Range(replay[t]) \subseteq Ids(t)
          BY DEF Ids
        <5>2. Range(chan'[t]) = Range(chan[t]) \cup {id}
          BY <2>7, <3>2
        <5>3. Below(Range(got[t]) \cup Range(replay[t]), Range(chan[t]))
          BY <1>1 DEF FlowInv
        <5> QED  BY <4>2, <5>1, <5>2, <5>3 DEF Below
      <4>5. hpc[t] \in {"replaying", "live", "leaving"}
        BY <1>1, <4>1 DEF SubsInv
      <4>6. \A x \in Ids(t)' : Covered(t, x)'
        <5>1. \A x \in Ids(t) : Covered(t, x)
          BY <1>1 DEF FlowInv
        <5> QED  BY <2>11, <2>12, <4>1, <5>1
      <4> QED  BY <1>1, <1>2, <4>3, <4>4, <4>5, <4>6 DEF FlowInv
    <3> QED  BY <3>1, <3>2
  <2>14. ASSUME NEW x \in SessionIds, NEW t \in subs'[x]
         PROVE  Covered(t, nextID[x])' /\ \A e \in Ids(t)' : e <= nextID'[x]
    <3>1. CASE x = s
      <4>1. t \in subs[s]
        BY <1>2, <3>1
      <4>2. Covered(t, id)' /\ \A e \in Ids(t)' : e <= id
        BY SMTT(60), <2>12, <4>1
      <4> QED  BY <2>4, <3>1, <4>2 DEF Covered
    <3>2. CASE x # s
      <4>1. t \in subs[x] /\ t \in Streams /\ nextID'[x] = nextID[x]
        BY <1>1, <1>2, <2>4, <3>2 DEF StreamableTypeOK
      <4>2. t \notin subs[s]
        BY SMTT(60), <1>1, <3>2, <4>1 DEF SubsInv
      <4>3. Ids(t)' = Ids(t)
        BY <1>2, <2>6, <4>1, <4>2 DEF Ids
      <4>4. Covered(t, nextID[x]) /\ \A e \in Ids(t) : e <= nextID[x]
        BY <1>1, <4>1 DEF FlowInv
      <4>5. skipped'[t] = skipped[t]
        BY <2>6, <4>1, <4>2
      <4>6. Covered(t, nextID[x])'
        BY <1>2, <4>1, <4>3, <4>4, <4>5 DEF Covered
      <4> QED  BY <4>1, <4>3, <4>4, <4>6
    <3> QED  BY <3>1, <3>2
  <2>15. FlowInv'
    BY <2>5, <2>13, <2>14 DEF FlowInv
  <2> QED  BY <1>3, <2>10, <2>15 DEF StreamableInv
<1> QED  BY <1>4, <1>5

\* The steps of a stream that take no event and subscribe to nothing.
LEMMA HandlerKeeps ==
  ASSUME StreamableInv, NEW t \in Streams, NEW pc,
         UNCHANGED <<live, order, minted, closing, nextID, log, closed, hsess, after,
                     replay, chan, got, skipped, oldest>>,
         hpc' = [hpc EXCEPT ![t] = pc],
         \/ pc = "refused" /\ hpc[t] = "found" /\ UNCHANGED <<subs, shut>>
         \/ pc = "replaying" /\ hpc[t] = "found" /\ UNCHANGED subs /\ shut' = shut \cup {t}
         \/ pc = "live" /\ hpc[t] = "replaying" /\ replay[t] = <<>> /\ UNCHANGED <<subs, shut>>
         \/ pc = "leaving" /\ hpc[t] \in {"replaying", "live"} /\ UNCHANGED <<subs, shut>>
         \/ pc = "done" /\ hpc[t] = "leaving" /\ subs' = [subs EXCEPT ![hsess[t]] = @ \ {t}]
            /\ UNCHANGED shut
  PROVE  StreamableInv'
<1>1. StreamableTypeOK /\ TableInv /\ SubsInv
  BY DEF StreamableInv
<1>2. TableInv'
  BY <1>1 DEF TableInv
<1>3. /\ hpc'[t] = pc /\ \A u \in Streams \ {t} : hpc'[u] = hpc[u]
      /\ hpc' \in [Streams -> {"absent", "found", "refused", "replaying", "live", "leaving", "done"}]
  BY <1>1 DEF StreamableTypeOK
<1>4. hsess[t] \in SessionIds
  BY <1>1 DEF SubsInv
<1>5. /\ subs' \in [SessionIds -> SUBSET Streams] /\ shut' \subseteq Streams
      /\ \A s \in SessionIds : subs'[s] \subseteq subs[s]
      /\ \A s \in SessionIds \ {hsess[t]} : subs'[s] = subs[s]
      /\ subs'[hsess[t]] = IF pc = "done" THEN subs[hsess[t]] \ {t} ELSE subs[hsess[t]]
  BY <1>1, <1>4 DEF StreamableTypeOK
<1>6. StreamableTypeOK'
  BY <1>1, <1>3, <1>5 DEF StreamableTypeOK
<1>7. FlowInv'
  BY <1>3, <1>5, FlowKept
<1>8. SubsInv'
  <2>1. ASSUME NEW s \in SessionIds PROVE Cardinality(subs'[s]) <= SubMax
    <3>1. subs[s] \subseteq 1..NStreams /\ IsFiniteSet(1..NStreams)
      BY SMTT(60), <1>1, StreamableAssumption, FS_Interval DEF StreamableTypeOK, Streams
    <3>2. IsFiniteSet(subs[s])
      BY <3>1, FS_Subset
    <3>3. Cardinality(subs'[s]) <= Cardinality(subs[s]) /\ Cardinality(subs'[s]) \in Nat
      BY <1>5, <3>2, FS_Subset, FS_CardinalityType
    <3>4. Cardinality(subs[s]) <= SubMax /\ Cardinality(subs[s]) \in Nat
      BY <1>1, <3>2, FS_CardinalityType DEF SubsInv
    <3> QED  BY SMTT(60), <3>3, <3>4, StreamableAssumption
  <2>2. \A s \in closed' : subs'[s] = {}
    BY <1>1, <1>5 DEF SubsInv, StreamableTypeOK
  <2>3. ASSUME NEW s \in SessionIds, NEW u \in subs'[s]
        PROVE  /\ hsess'[u] = s /\ u \notin shut'
               /\ hpc'[u] \in {"replaying", "live", "leaving"}
    <3>1. u \in subs[s] /\ u \in Streams
      BY <1>1, <1>5 DEF StreamableTypeOK
    <3>2. hsess[u] = s /\ u \notin shut /\ hpc[u] \in {"replaying", "live", "leaving"}
      BY <1>1, <3>1 DEF SubsInv
    <3>3. CASE u = t
      BY SMTT(60), <1>3, <1>5, <2>3, <3>2, <3>3
    <3>4. CASE u # t
      BY <1>3, <3>1, <3>2, <3>4
    <3> QED  BY <3>3, <3>4
  <2>4. ASSUME NEW u \in Streams
        PROVE  /\ hpc'[u] # "absent" => hsess'[u] \in SessionIds
               /\ hpc'[u] \in {"absent", "found"} => u \notin shut'
               /\ hpc'[u] \in {"replaying", "live"} => u \in shut' \/ u \in subs'[hsess'[u]]
    <3>1. CASE u = t
      BY <1>1, <1>3, <1>4, <1>5, <3>1 DEF SubsInv
    <3>2. CASE u # t
      <4>1. hpc'[u] = hpc[u] /\ hsess'[u] = hsess[u] /\ (u \in shut' <=> u \in shut)
        BY <1>3, <3>2
      <4>2. hpc[u] # "absent" => hsess[u] \in SessionIds
        BY <1>1 DEF SubsInv
      <4>3. hpc[u] # "absent" /\ u \in subs[hsess[u]] => u \in subs'[hsess[u]]
        BY <1>5, <3>2, <4>2
      <4> QED  BY <1>1, <4>1, <4>2, <4>3 DEF SubsInv
    <3> QED  BY <3>1, <3>2
  <2> QED  BY <2>1, <2>2, <2>3, <2>4 DEF SubsInv
<1> QED  BY <1>2, <1>6, <1>7, <1>8 DEF StreamableInv

\* A GET finds its session or not; nothing is subscribed yet.
LEMMA LookupKeeps ==
  ASSUME StreamableInv, NEW t \in Streams, GetLookup(t) PROVE StreamableInv'
<1>1. StreamableTypeOK /\ TableInv /\ SubsInv /\ FlowInv
  BY DEF StreamableInv
<1>2. PICK s \in minted, a \in 0..NBroadcasts :
        /\ hsess' = [hsess EXCEPT ![t] = s] /\ after' = [after EXCEPT ![t] = a]
        /\ HpcGoto(t, "absent", IF s \in live THEN "found" ELSE "refused")
  BY DEF GetLookup
<1>3. UNCHANGED <<live, order, minted, closing, nextID, log, subs, closed, replay, chan, shut,
                  got, skipped, oldest>>
  BY DEF GetLookup, tableVars, sessVars
<1>4. s \in SessionIds
  BY SMTT(60), <1>1, StreamableAssumption DEF TableInv, SessionIds
<1>5. /\ hpc[t] = "absent" /\ hpc'[t] \in {"found", "refused"} /\ hsess'[t] = s
      /\ \A u \in Streams \ {t} : hpc'[u] = hpc[u] /\ hsess'[u] = hsess[u] /\ after'[u] = after[u]
  BY <1>1, <1>2 DEF HpcGoto, StreamableTypeOK
<1>6. StreamableTypeOK'
  BY SMTT(60), <1>1, <1>2, <1>3, <1>4, StreamableAssumption DEF StreamableTypeOK, HpcGoto
<1>7. TableInv'
  BY <1>1, <1>3 DEF TableInv
<1>8. \A x \in SessionIds : t \notin subs[x]
  BY <1>1, <1>5 DEF SubsInv
<1>9. SubsInv'
  <2>1. \A x \in SessionIds : Cardinality(subs'[x]) <= SubMax
    BY <1>1, <1>3 DEF SubsInv
  <2>2. \A x \in closed' : subs'[x] = {}
    BY <1>1, <1>3 DEF SubsInv
  <2>3. ASSUME NEW x \in SessionIds, NEW u \in subs'[x]
        PROVE  /\ hsess'[u] = x /\ u \notin shut'
               /\ hpc'[u] \in {"replaying", "live", "leaving"}
    <3>1. u \in subs[x] /\ u \in Streams \ {t}
      BY <1>1, <1>3, <1>8 DEF StreamableTypeOK
    <3> QED  BY SMTT(60), <1>1, <1>3, <1>5, <3>1 DEF SubsInv
  <2>4. ASSUME NEW u \in Streams
        PROVE  /\ hpc'[u] # "absent" => hsess'[u] \in SessionIds
               /\ hpc'[u] \in {"absent", "found"} => u \notin shut'
               /\ hpc'[u] \in {"replaying", "live"} => u \in shut' \/ u \in subs'[hsess'[u]]
    <3>1. CASE u = t
      BY <1>1, <1>3, <1>4, <1>5, <3>1 DEF SubsInv
    <3>2. CASE u # t
      BY <1>1, <1>3, <1>5, <3>2 DEF SubsInv
    <3> QED  BY <3>1, <3>2
  <2> QED  BY <2>1, <2>2, <2>3, <2>4 DEF SubsInv
<1>10. FlowInv'
  <2>1. \A u : Ids(u)' = Ids(u)
    BY <1>3 DEF Ids
  <2>2. \A u \in Streams \ {t} : \A n : Covered(u, n) => Covered(u, n)'
    BY <1>3, <1>5, <2>1 DEF Covered
  <2>3. got[t] = <<>> /\ replay[t] = <<>> /\ chan[t] = <<>> /\ Ids(t) = {}
    <3>1. got[t] = <<>> /\ replay[t] = <<>> /\ chan[t] = <<>>
      BY <1>1, <1>5 DEF FlowInv
    <3> QED  BY SMTT(60), <3>1 DEF Ids, Range
  <2>4. \A x \in SessionIds : IsLog(log[x], nextID[x])'
    BY <1>1, <1>3 DEF FlowInv
  <2>5. ASSUME NEW u \in Streams
        PROVE  /\ hpc'[u] \in {"absent", "found", "refused"} =>
                    got'[u] = <<>> /\ replay'[u] = <<>> /\ chan'[u] = <<>>
               /\ hpc'[u] = "live" => replay'[u] = <<>>
               /\ Ordered(got[u])' /\ Ordered(replay[u])' /\ Ordered(chan[u])'
               /\ Below(Range(got[u]), Range(replay[u]))'
               /\ Below(Range(got[u]) \cup Range(replay[u]), Range(chan[u]))'
               /\ \A x \in Ids(u)' : Covered(u, x)'
    <3>1. CASE u = t
      BY <1>1, <1>3, <1>5, <2>1, <2>3, <3>1 DEF FlowInv
    <3>2. CASE u # t
      BY <1>1, <1>3, <1>5, <2>1, <2>2, <3>2 DEF FlowInv
    <3> QED  BY <3>1, <3>2
  <2>6. ASSUME NEW x \in SessionIds, NEW u \in subs'[x]
        PROVE  Covered(u, nextID[x])' /\ \A e \in Ids(u)' : e <= nextID'[x]
    <3>1. u \in subs[x] /\ u \in Streams \ {t}
      BY <1>1, <1>3, <1>8 DEF StreamableTypeOK
    <3>2. Covered(u, nextID[x]) /\ \A e \in Ids(u) : e <= nextID[x]
      BY <1>1, <3>1 DEF FlowInv
    <3>3. Covered(u, nextID[x])'
      BY <1>3, <1>5, <2>1, <3>1, <3>2 DEF Covered
    <3> QED  BY <1>3, <2>1, <3>2, <3>3
  <2> QED  BY <2>4, <2>5, <2>6 DEF FlowInv
<1> QED  BY <1>6, <1>7, <1>9, <1>10 DEF StreamableInv

\* A stream subscribes and takes its replay in the same step: what it misses of
\* the log and what it will be sent meet without a gap.
LEMMA SubscribeKeeps ==
  ASSUME StreamableInv, NEW t \in Streams, Subscribe(t) PROVE StreamableInv'
<1>1. StreamableTypeOK /\ TableInv /\ SubsInv /\ FlowInv
  BY DEF StreamableInv
<1>2. PICK s \in SessionIds : s = hsess[t]
  BY <1>1 DEF Subscribe, SubsInv
<1>3. /\ hpc[t] = "found"
      /\ UNCHANGED <<live, order, minted, closing, nextID, log, closed, hsess, after, chan, got,
                     skipped>>
  BY DEF Subscribe, tableVars
<1>4. CASE s \in closed
  <2>1. /\ hpc' = [hpc EXCEPT ![t] = "replaying"] /\ shut' = shut \cup {t}
        /\ UNCHANGED <<replay, subs, oldest>>
    BY <1>2, <1>4 DEF Subscribe, HpcGoto
  <2> QED  BY <1>3, <2>1, HandlerKeeps
<1>5. CASE s \notin closed /\ Cardinality(subs[s]) >= SubMax
  <2>1. /\ hpc' = [hpc EXCEPT ![t] = "refused"] /\ UNCHANGED <<replay, subs, oldest, shut>>
    <3>1. ~(Cardinality(subs[s]) < SubMax)
      <4>1. subs[s] \subseteq 1..NStreams /\ IsFiniteSet(1..NStreams)
        BY SMTT(60), <1>1, StreamableAssumption, FS_Interval DEF StreamableTypeOK, Streams
      <4>2. Cardinality(subs[s]) \in Nat
        BY <4>1, FS_Subset, FS_CardinalityType
      <4> QED  BY SMTT(60), <1>5, <4>2, StreamableAssumption
    <3> QED  BY <1>2, <1>5, <3>1 DEF Subscribe, HpcGoto
  <2> QED  BY <1>3, <2>1, HandlerKeeps
<1>6. CASE s \notin closed /\ Cardinality(subs[s]) < SubMax
  <2>0. ~(Cardinality(subs[s]) >= SubMax)
    <3>1. subs[s] \subseteq 1..NStreams /\ IsFiniteSet(1..NStreams)
      BY SMTT(60), <1>1, StreamableAssumption, FS_Interval DEF StreamableTypeOK, Streams
    <3>2. Cardinality(subs[s]) \in Nat
      BY <3>1, FS_Subset, FS_CardinalityType
    <3> QED  BY SMTT(60), <1>6, <3>2, StreamableAssumption
  <2>1. PICK l, n, a : l = log[s] /\ n = nextID[s] /\ a = after[t]
    OBVIOUS
  <2>2. /\ hpc' = [hpc EXCEPT ![t] = "replaying"]
        /\ replay' = [replay EXCEPT ![t] = Since(l, a)]
        /\ subs' = [subs EXCEPT ![s] = @ \cup {t}]
        /\ oldest' = [oldest EXCEPT ![t] = IF l = <<>> THEN n + 1 ELSE Head(l)]
        /\ UNCHANGED shut
    BY <1>2, <1>6, <2>0, <2>1 DEF Subscribe, HpcGoto, Missed
  <2>3. l \in Seq(Nat) /\ n \in Nat /\ a \in Nat /\ IsLog(l, n)
    BY <1>1, <2>1 DEF StreamableTypeOK, FlowInv
  <2>4. (IF l = <<>> THEN n + 1 ELSE Head(l)) = n - Len(l) + 1
    <3>1. CASE l = <<>>
      BY SMTT(60), <2>3, <3>1
    <3>2. CASE l # <<>>
      <4>1. 1 \in 1..Len(l) /\ Head(l) = l[1]
        BY SMTT(60), <2>3, <3>2
      <4> QED  BY <2>3, <3>2, <4>1 DEF IsLog
    <3> QED  BY <3>1, <3>2
  <2>5. n - Len(l) + 1 \in Nat /\ Len(l) \in Nat
    BY SMTT(60), <2>3 DEF IsLog
  <2>6. /\ Since(l, a) \in Seq(Nat) /\ Ordered(Since(l, a))
        /\ Range(Since(l, a)) = {e \in Nat : n - Len(l) < e /\ a < e /\ e <= n}
    BY <2>3, SinceExact
  <2>7. /\ replay'[t] = Since(l, a) /\ oldest'[t] = n - Len(l) + 1
        /\ hpc'[t] = "replaying" /\ subs'[s] = subs[s] \cup {t}
        /\ \A u \in Streams \ {t} : hpc'[u] = hpc[u] /\ replay'[u] = replay[u] /\ oldest'[u] = oldest[u]
        /\ \A x \in SessionIds \ {s} : subs'[x] = subs[x]
    BY <1>1, <2>2, <2>4 DEF StreamableTypeOK
  <2>8. StreamableTypeOK'
    <3>1. replay' \in [Streams -> Seq(Nat)] /\ oldest' \in [Streams -> Nat]
      BY <1>1, <2>2, <2>4, <2>5, <2>6 DEF StreamableTypeOK
    <3>2. subs' \in [SessionIds -> SUBSET Streams]
      BY <1>1, <2>2 DEF StreamableTypeOK
    <3> QED  BY <1>1, <1>3, <2>2, <3>1, <3>2 DEF StreamableTypeOK
  <2>9. TableInv'
    BY <1>1, <1>3 DEF TableInv
  <2>10. \A x \in SessionIds : t \notin subs[x]
    BY <1>1, <1>3 DEF SubsInv
  <2>11. SubsInv'
    <3>1. ASSUME NEW x \in SessionIds PROVE Cardinality(subs'[x]) <= SubMax
      <4>1. CASE x = s
        <5>1. subs[s] \subseteq 1..NStreams /\ IsFiniteSet(1..NStreams)
          BY SMTT(60), <1>1, StreamableAssumption, FS_Interval DEF StreamableTypeOK, Streams
        <5>2. IsFiniteSet(subs[s]) /\ Cardinality(subs[s]) \in Nat
          BY <5>1, FS_Subset, FS_CardinalityType
        <5>3. Cardinality(subs[s] \cup {t}) = Cardinality(subs[s]) + 1
          BY <2>10, <5>2, FS_AddElement
        <5> DEFINE c == Cardinality(subs[s])
        <5>4. Cardinality(subs'[x]) = c + 1
          BY <2>7, <4>1, <5>3
        <5>5. c < SubMax /\ c \in Nat
          BY <1>6, <5>2
        <5> HIDE DEF c
        <5> QED  BY SMTT(60), <5>4, <5>5, StreamableAssumption
      <4>2. CASE x # s
        BY <1>1, <2>7, <4>2 DEF SubsInv
      <4> QED  BY <4>1, <4>2
    <3>2. ASSUME NEW x \in closed' PROVE subs'[x] = {}
      <4>1. x \in closed /\ closed \subseteq SessionIds
        BY <1>1, <1>3, <3>2 DEF StreamableTypeOK
      <4>2. subs[x] = {}
        BY <1>1, <4>1 DEF SubsInv
      <4>3. x # s
        BY <1>6, <4>1
      <4> QED  BY <2>7, <4>1, <4>2, <4>3
    <3>3. ASSUME NEW x \in SessionIds, NEW u \in subs'[x]
          PROVE  /\ hsess'[u] = x /\ u \notin shut'
                 /\ hpc'[u] \in {"replaying", "live", "leaving"}
      <4>1. CASE u = t
        <5>1. x = s
          BY <2>7, <2>10, <3>3, <4>1
        <5> QED  BY <1>1, <1>2, <1>3, <2>2, <2>7, <4>1, <5>1 DEF SubsInv
      <4>2. CASE u # t
        <5>1. u \in subs[x] /\ u \in Streams \ {t}
          <6>1. u \in subs[x]
            BY <2>7, <3>3, <4>2
          <6> QED  BY <1>1, <4>2, <6>1 DEF StreamableTypeOK
        <5> QED  BY SMTT(60), <1>1, <1>3, <2>2, <2>7, <5>1 DEF SubsInv
      <4> QED  BY <4>1, <4>2
    <3>4. ASSUME NEW u \in Streams
          PROVE  /\ hpc'[u] # "absent" => hsess'[u] \in SessionIds
                 /\ hpc'[u] \in {"absent", "found"} => u \notin shut'
                 /\ hpc'[u] \in {"replaying", "live"} => u \in shut' \/ u \in subs'[hsess'[u]]
      <4>1. CASE u = t
        BY <1>2, <1>3, <2>7, <4>1
      <4>2. CASE u # t
        <5>1. hpc'[u] = hpc[u] /\ hsess'[u] = hsess[u] /\ shut' = shut
          BY <1>3, <2>2, <2>7, <4>2
        <5>2. \A x \in SessionIds : subs[x] \subseteq subs'[x]
          BY <2>7
        <5> QED  BY <1>1, <5>1, <5>2 DEF SubsInv
      <4> QED  BY <4>1, <4>2
    <3> QED  BY <3>1, <3>2, <3>3, <3>4 DEF SubsInv
  <2>12. got[t] = <<>> /\ chan[t] = <<>> /\ Range(got[t]) = {} /\ Range(chan[t]) = {}
    <3>1. got[t] = <<>> /\ chan[t] = <<>>
      BY <1>1, <1>3 DEF FlowInv
    <3> QED  BY SMTT(60), <3>1 DEF Range
  <2>13. Ids(t)' = {e \in Nat : n - Len(l) < e /\ a < e /\ e <= n}
    BY <1>3, <2>6, <2>7, <2>12 DEF Ids
  <2>14. ASSUME NEW m \in Nat, m <= n PROVE Covered(t, m)'
    <3>1. ASSUME NEW e \in (a + 1)..m PROVE e \in Ids(t)' \/ e < oldest'[t]
      BY SMTT(60), <2>3, <2>5, <2>7, <2>13, <2>14
    <3> QED  BY <1>3, <2>1, <3>1 DEF Covered
  <2>15. ASSUME NEW u \in Streams \ {t}
         PROVE  Ids(u)' = Ids(u) /\ \A m : Covered(u, m) => Covered(u, m)'
    <3>1. Ids(u)' = Ids(u)
      BY <1>3, <2>7 DEF Ids
    <3> QED  BY <1>3, <2>7, <3>1 DEF Covered
  <2>16. ASSUME NEW u \in Streams
         PROVE  /\ hpc'[u] \in {"absent", "found", "refused"} =>
                     got'[u] = <<>> /\ replay'[u] = <<>> /\ chan'[u] = <<>>
                /\ hpc'[u] = "live" => replay'[u] = <<>>
                /\ Ordered(got[u])' /\ Ordered(replay[u])' /\ Ordered(chan[u])'
                /\ Below(Range(got[u]), Range(replay[u]))'
                /\ Below(Range(got[u]) \cup Range(replay[u]), Range(chan[u]))'
                /\ \A x \in Ids(u)' : Covered(u, x)'
    <3>1. CASE u = t
      <4>1. Ordered(got'[t]) /\ Ordered(replay'[t]) /\ Ordered(chan'[t])
        BY <1>1, <1>3, <2>6, <2>7 DEF FlowInv
      <4>2. Range(got'[t]) = {} /\ Range(chan'[t]) = {}
        BY <1>3, <2>12
      <4>3. \A x \in Ids(t)' : x \in Nat /\ x <= n
        BY <2>13
      <4>4. \A x \in Ids(t)' : Covered(t, x)'
        BY <2>14, <4>3
      <4> QED  BY <2>7, <3>1, <4>1, <4>2, <4>4 DEF Below
    <3>2. CASE u # t
      BY <1>1, <1>3, <2>7, <2>15, <3>2 DEF FlowInv
    <3> QED  BY <3>1, <3>2
  <2>17. ASSUME NEW x \in SessionIds, NEW u \in subs'[x]
         PROVE  Covered(u, nextID[x])' /\ \A e \in Ids(u)' : e <= nextID'[x]
    <3>1. CASE u = t
      <4>1. x = s /\ nextID'[x] = n
        BY <1>3, <2>1, <2>7, <2>10, <2>17, <3>1
      <4>2. Covered(t, n)' /\ \A e \in Ids(t)' : e <= n
        BY SMTT(60), <2>3, <2>13, <2>14
      <4> QED  BY <3>1, <4>1, <4>2 DEF Covered
    <3>2. CASE u # t
      <4>1. u \in subs[x] /\ u \in Streams \ {t}
        <5>1. u \in subs[x]
          BY <2>7, <2>17, <3>2
        <5> QED  BY <1>1, <3>2, <5>1 DEF StreamableTypeOK
      <4>2. Covered(u, nextID[x]) /\ \A e \in Ids(u) : e <= nextID[x]
        BY <1>1, <4>1 DEF FlowInv
      <4>3. Covered(u, nextID[x])'
        BY <1>3, <2>7, <2>15, <4>1, <4>2 DEF Covered
      <4> QED  BY <1>3, <2>15, <4>1, <4>2, <4>3
    <3> QED  BY <3>1, <3>2
  <2>18. \A x \in SessionIds : IsLog(log[x], nextID[x])'
    BY <1>1, <1>3 DEF FlowInv
  <2>19. FlowInv'
    BY <2>16, <2>17, <2>18 DEF FlowInv
  <2> QED  BY <2>8, <2>9, <2>11, <2>19 DEF StreamableInv
<1> QED  BY <1>2, <1>4, <1>5, <1>6 DEF Subscribe

\* The client receives the next event of its replay or of its channel.
LEMMA DeliverKeeps ==
  ASSUME StreamableInv, NEW t \in Streams,
         \/ /\ hpc[t] = "replaying" /\ replay[t] # <<>>
            /\ replay' = [replay EXCEPT ![t] = Tail(@)] /\ UNCHANGED chan
            /\ got' = [got EXCEPT ![t] = Append(@, Head(replay[t]))]
         \/ /\ hpc[t] = "live" /\ chan[t] # <<>>
            /\ chan' = [chan EXCEPT ![t] = Tail(@)] /\ UNCHANGED replay
            /\ got' = [got EXCEPT ![t] = Append(@, Head(chan[t]))],
         UNCHANGED <<live, order, minted, closing, nextID, log, subs, closed, hpc, hsess, after,
                     shut, skipped, oldest>>
  PROVE  StreamableInv'
<1>1. StreamableTypeOK /\ TableInv /\ SubsInv /\ FlowInv
  BY DEF StreamableInv
<1>2. TableInv' /\ SubsInv'
  BY <1>1 DEF TableInv, SubsInv
<1>3. PICK g, r, c : g = got[t] /\ r = replay[t] /\ c = chan[t]
  OBVIOUS
<1>4. /\ g \in Seq(Nat) /\ r \in Seq(Nat) /\ c \in Seq(Nat)
      /\ Ordered(g) /\ Ordered(r) /\ Ordered(c)
      /\ Below(Range(g), Range(r)) /\ Below(Range(g) \cup Range(r), Range(c))
  BY <1>1, <1>3 DEF StreamableTypeOK, FlowInv
<1>5. \A u \in Streams \ {t} : got'[u] = got[u] /\ replay'[u] = replay[u] /\ chan'[u] = chan[u]
  BY <1>1 DEF StreamableTypeOK
<1>6. /\ got'[t] \in Seq(Nat) /\ replay'[t] \in Seq(Nat) /\ chan'[t] \in Seq(Nat)
      /\ Ordered(got'[t]) /\ Ordered(replay'[t]) /\ Ordered(chan'[t])
      /\ Below(Range(got'[t]), Range(replay'[t]))
      /\ Below(Range(got'[t]) \cup Range(replay'[t]), Range(chan'[t]))
      /\ Range(got'[t]) \cup Range(replay'[t]) \cup Range(chan'[t])
           = Range(g) \cup Range(r) \cup Range(c)
      /\ hpc[t] = "live" => replay'[t] = <<>>
      /\ hpc[t] \in {"replaying", "live"}
  <2>1. CASE hpc[t] = "replaying"
    <3>1. r # <<>> /\ replay'[t] = Tail(r) /\ chan'[t] = c /\ got'[t] = Append(g, Head(r))
      BY <1>1, <1>3, <2>1 DEF StreamableTypeOK
    <3>2. /\ Append(g, Head(r)) \in Seq(Nat) /\ Tail(r) \in Seq(Nat)
          /\ Ordered(Append(g, Head(r))) /\ Ordered(Tail(r))
          /\ Below(Range(Append(g, Head(r))), Range(Tail(r)))
          /\ Range(Append(g, Head(r))) \cup Range(Tail(r)) = Range(g) \cup Range(r)
      BY <1>4, <3>1, MoveHead
    <3>3. /\ Range(got'[t]) \cup Range(replay'[t]) = Range(g) \cup Range(r)
          /\ Range(chan'[t]) = Range(c)
      BY <3>1, <3>2
    <3> QED  BY <1>4, <2>1, <3>1, <3>2, <3>3
  <2>2. CASE hpc[t] = "live"
    <3>1. c # <<>> /\ chan'[t] = Tail(c) /\ replay'[t] = r /\ got'[t] = Append(g, Head(c))
      BY <1>1, <1>3, <2>2 DEF StreamableTypeOK
    <3>2. r = <<>> /\ Range(r) = {} /\ Below(Range(g), Range(c))
      <4>1. r = <<>>
        BY <1>1, <1>3, <2>2 DEF FlowInv
      <4>2. Range(r) = {}
        BY SMTT(60), <4>1 DEF Range
      <4>3. Below(Range(g), Range(c))
        BY <1>4 DEF Below
      <4> QED  BY <4>1, <4>2, <4>3
    <3>3. /\ Append(g, Head(c)) \in Seq(Nat) /\ Tail(c) \in Seq(Nat)
          /\ Ordered(Append(g, Head(c))) /\ Ordered(Tail(c))
          /\ Below(Range(Append(g, Head(c))), Range(Tail(c)))
          /\ Range(Append(g, Head(c))) \cup Range(Tail(c)) = Range(g) \cup Range(c)
      BY <1>4, <3>1, <3>2, MoveHead
    <3>4. Range(replay'[t]) = {}
      BY <3>1, <3>2
    <3>5. Below(Range(got'[t]), Range(replay'[t]))
      BY <3>4 DEF Below
    <3>6. Below(Range(got'[t]) \cup Range(replay'[t]), Range(chan'[t]))
      BY <3>1, <3>3, <3>4
    <3> QED  BY <1>4, <2>2, <3>1, <3>2, <3>3, <3>4, <3>5, <3>6
  <2> QED  BY <2>1, <2>2
<1>7. StreamableTypeOK'
  <2>1. got' \in [Streams -> Seq(Nat)] /\ replay' \in [Streams -> Seq(Nat)]
        /\ chan' \in [Streams -> Seq(Nat)]
    <3>1. /\ got' = [u \in Streams |-> got'[u]] /\ replay' = [u \in Streams |-> replay'[u]]
          /\ chan' = [u \in Streams |-> chan'[u]]
      BY <1>1 DEF StreamableTypeOK
    <3>2. \A u \in Streams : got'[u] \in Seq(Nat) /\ replay'[u] \in Seq(Nat) /\ chan'[u] \in Seq(Nat)
      BY <1>1, <1>5, <1>6 DEF StreamableTypeOK
    <3> QED  BY <3>1, <3>2
  <2> QED  BY <1>1, <2>1 DEF StreamableTypeOK
<1>8. \A u \in Streams : Ids(u)' = Ids(u)
  BY <1>3, <1>5, <1>6 DEF Ids
<1>9. \A u \in Streams : \A n : Covered(u, n) => Covered(u, n)'
  BY <1>8 DEF Covered
<1>10. FlowInv'
  <2>1. \A x \in SessionIds : IsLog(log[x], nextID[x])'
    BY <1>1 DEF FlowInv
  <2>2. ASSUME NEW u \in Streams
        PROVE  /\ hpc'[u] \in {"absent", "found", "refused"} =>
                    got'[u] = <<>> /\ replay'[u] = <<>> /\ chan'[u] = <<>>
               /\ hpc'[u] = "live" => replay'[u] = <<>>
               /\ Ordered(got[u])' /\ Ordered(replay[u])' /\ Ordered(chan[u])'
               /\ Below(Range(got[u]), Range(replay[u]))'
               /\ Below(Range(got[u]) \cup Range(replay[u]), Range(chan[u]))'
               /\ \A x \in Ids(u)' : Covered(u, x)'
    <3>1. \A x \in Ids(u)' : Covered(u, x)'
      BY <1>1, <1>8, <1>9 DEF FlowInv
    <3>2. CASE u = t
      BY <1>6, <3>1, <3>2
    <3>3. CASE u # t
      BY <1>1, <1>5, <3>1, <3>3 DEF FlowInv
    <3> QED  BY <3>2, <3>3
  <2>3. ASSUME NEW x \in SessionIds, NEW u \in subs'[x]
        PROVE  Covered(u, nextID[x])' /\ \A e \in Ids(u)' : e <= nextID'[x]
    <3>1. u \in Streams /\ u \in subs[x]
      BY <1>1 DEF StreamableTypeOK
    <3> QED  BY <1>1, <1>8, <1>9, <3>1 DEF FlowInv
  <2> QED  BY <2>1, <2>2, <2>3 DEF FlowInv
<1> QED  BY <1>2, <1>7, <1>10 DEF StreamableInv

\* Every step keeps the invariant.
LEMMA StreamableStep == StreamableInv /\ [StreamableNext]_streamableVars => StreamableInv'
<1> SUFFICES ASSUME StreamableInv, [StreamableNext]_streamableVars PROVE StreamableInv'
  OBVIOUS
<1>1. ASSUME NEW s \in SessionIds, SessionNext(s) PROVE StreamableInv'
  BY <1>1, CreateKeeps, DeleteKeeps DEF SessionNext
<1>2. ASSUME UNCHANGED <<tableVars, sessVars, streamVars>> PROVE StreamableInv'
  <2>1. StreamableTypeOK' /\ TableInv' /\ SubsInv'
    BY <1>2 DEF StreamableInv, StreamableTypeOK, TableInv, SubsInv, tableVars, sessVars, streamVars
  <2>2. FlowInv'
    BY <1>2, FlowKept DEF tableVars, sessVars, streamVars
  <2> QED  BY <2>1, <2>2 DEF StreamableInv
<1>3. ASSUME NEW b \in Broadcasts, BroadcastNext(b) PROVE StreamableInv'
  BY <1>2, <1>3, BroadcastKeeps DEF BroadcastNext, BroadcastSnapshot
<1>4. ASSUME NEW t \in Streams, StreamNext(t) PROVE StreamableInv'
  <2>1. CASE GetLookup(t)
    BY <2>1, LookupKeeps
  <2>2. CASE Subscribe(t)
    BY <2>2, SubscribeKeeps
  <2>3. CASE StreamReplay(t)
    <3>1. UNCHANGED <<live, order, minted, closing, nextID, log, subs, closed, hsess, after, chan,
                      shut, skipped, oldest>>
      BY <2>3 DEF StreamReplay, tableVars, sessVars
    <3>2. CASE replay[t] = <<>>
      <4>1. /\ hpc[t] = "replaying" /\ hpc' = [hpc EXCEPT ![t] = "live"]
            /\ UNCHANGED <<replay, got>>
        BY <2>3, <3>2 DEF StreamReplay, HpcGoto
      <4> QED  BY <3>1, <3>2, <4>1, HandlerKeeps
    <3>3. CASE replay[t] # <<>>
      <4>1. /\ hpc[t] = "replaying" /\ replay' = [replay EXCEPT ![t] = Tail(@)]
            /\ got' = [got EXCEPT ![t] = Append(@, Head(replay[t]))] /\ UNCHANGED hpc
        BY <2>3, <3>3 DEF StreamReplay
      <4> QED  BY <3>1, <3>3, <4>1, DeliverKeeps
    <3> QED  BY <3>2, <3>3
  <2>4. CASE StreamEvent(t)
    <3>1. /\ hpc[t] = "live" /\ chan[t] # <<>> /\ chan' = [chan EXCEPT ![t] = Tail(@)]
          /\ got' = [got EXCEPT ![t] = Append(@, Head(chan[t]))]
          /\ UNCHANGED <<live, order, minted, closing, nextID, log, subs, closed, hpc, hsess, after,
                         replay, shut, skipped, oldest>>
      BY <2>4 DEF StreamEvent, tableVars, sessVars
    <3> QED  BY <3>1, DeliverKeeps
  <2>5. CASE StreamTerminated(t) \/ StreamGone(t)
    <3>1. /\ hpc[t] \in {"replaying", "live"} /\ hpc' = [hpc EXCEPT ![t] = "leaving"]
          /\ UNCHANGED <<live, order, minted, closing, nextID, log, subs, closed, hsess, after,
                         replay, chan, shut, got, skipped, oldest>>
      BY <2>5 DEF StreamTerminated, StreamGone, HpcGoto, tableVars, sessVars
    <3> QED  BY <3>1, HandlerKeeps
  <2>6. CASE Cancel(t)
    <3>1. /\ hpc[t] = "leaving" /\ hpc' = [hpc EXCEPT ![t] = "done"]
          /\ subs' = [subs EXCEPT ![hsess[t]] = @ \ {t}]
          /\ UNCHANGED <<live, order, minted, closing, nextID, log, closed, hsess, after,
                         replay, chan, shut, got, skipped, oldest>>
      BY <2>6 DEF Cancel, HpcGoto, tableVars
    <3> QED  BY <3>1, HandlerKeeps
  <2> QED  BY <1>4, <2>1, <2>2, <2>3, <2>4, <2>5, <2>6 DEF StreamNext
<1>5. CASE UNCHANGED streamableVars
  BY <1>2, <1>5 DEF streamableVars
<1> QED  BY <1>1, <1>3, <1>4, <1>5 DEF StreamableNext

\* What the table, the subscribers and the flow of events guarantee.
LEMMA InvResumes == ASSUME StreamableInv PROVE StreamsResume
<1>1. StreamableTypeOK /\ TableInv /\ SubsInv /\ FlowInv
  BY DEF StreamableInv
<1>2. NoOrphanStream
  <2>1. Len(order) = Cardinality(live)
    BY <1>1, DistinctCount DEF StreamableTypeOK, TableInv
  <2>2. ASSUME NEW t \in Streams, hpc[t] \in {"replaying", "live"}
        PROVE  (t \in shut) # (t \in subs[hsess[t]] /\ hsess[t] \notin closed)
    <3>1. hsess[t] \in SessionIds /\ (t \in shut \/ t \in subs[hsess[t]])
      BY <1>1, <2>2 DEF SubsInv
    <3>2. t \in subs[hsess[t]] => t \notin shut /\ hsess[t] \notin closed
      BY <1>1, <3>1 DEF SubsInv
    <3> QED  BY <3>1, <3>2
  <2> QED  BY <1>1, <2>1, <2>2 DEF NoOrphanStream, TableInv, SubsInv
<1>3. ResumesWithoutGap
  <2> SUFFICES ASSUME NEW t \in Streams
               PROVE  /\ Ordered(got[t])
                      /\ got[t] # <<>> =>
                           \A e \in (after[t] + 1)..got[t][Len(got[t])] :
                             e \in Range(got[t]) \cup skipped[t] \/ e < oldest[t]
    BY DEF ResumesWithoutGap, Ordered
  <2>1. Ordered(got[t])
    BY <1>1 DEF FlowInv
  <2>2. ASSUME got[t] # <<>>, NEW e \in (after[t] + 1)..got[t][Len(got[t])]
        PROVE  e \in Range(got[t]) \cup skipped[t] \/ e < oldest[t]
    <3>1. got[t] \in Seq(Nat) /\ Len(got[t]) \in Nat \ {0}
      BY SMTT(60), <1>1, <2>2 DEF StreamableTypeOK
    <3>2. got[t][Len(got[t])] \in Range(got[t]) /\ got[t][Len(got[t])] \in Nat
      BY SMTT(60), <3>1 DEF Range
    <3>3. Covered(t, got[t][Len(got[t])])
      BY <1>1, <3>2 DEF FlowInv, Ids
    <3>4. e \in Ids(t) \cup skipped[t] \/ e < oldest[t]
      BY <2>2, <3>3 DEF Covered
    <3>5. ASSUME e \in Range(replay[t]) \cup Range(chan[t]) PROVE FALSE
      <4>1. got[t][Len(got[t])] < e
        BY <1>1, <3>2, <3>5 DEF FlowInv, Below
      <4>2. after[t] \in Nat /\ e \in Int /\ e <= got[t][Len(got[t])]
        BY SMTT(60), <1>1, <2>2, <3>2 DEF StreamableTypeOK
      <4> QED  BY SMTT(60), <3>2, <4>1, <4>2
    <3> QED  BY <3>4, <3>5 DEF Ids
  <2> QED  BY <2>1, <2>2
<1> QED  BY <1>2, <1>3 DEF StreamsResume

\* No stream outlives its session, and a client that resumes misses nothing but
\* what its full channel skipped or the bounded log had dropped, for any number of
\* sessions, streams and broadcasts and any capacities (streamable.go).
THEOREM StreamsAlwaysResume == StreamableSpec => []StreamsResume
<1>1. StreamableInv => StreamsResume
  BY InvResumes
<1> QED  BY <1>1, StreamableStart, StreamableStep, PTL DEF StreamableSpec
=============================================================================
