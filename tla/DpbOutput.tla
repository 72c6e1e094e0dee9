------------------------------ MODULE DpbOutput ------------------------------
(***************************************************************************)
(* Proofs about the output of Dpb: the queues hold what was bumped and not *)
(* delivered, and the pictures a caller holds keep their samples and come  *)
(* once, for any number of slots and any streams that send no part twice.  *)
(***************************************************************************)
EXTENDS DpbMarking

USE DpbAssumption

-----------------------------------------------------------------------------
(* Orders and sequences.                                                   *)

(* A set in strict order; the number of members before one places it.      *)
StrictlyOrdered(S, R) ==
  /\ \A s \in S : <<s, s>> \notin R
  /\ \A s, t \in S : s # t => <<s, t>> \in R \/ <<t, s>> \in R
  /\ \A s, t, u \in S : <<s, t>> \in R /\ <<t, u>> \in R => <<s, u>> \in R
Places(S, R) == [s \in S |-> Cardinality({t \in S : <<t, s>> \in R})]

EveryPlaceTaken(S, R) ==
  /\ Cardinality(S) \in Nat
  /\ Places(S, R) \in [S -> 0 .. Cardinality(S) - 1]
  /\ \A s, t \in S : Places(S, R)[s] = Places(S, R)[t] => s = t
  /\ \A k \in 0 .. Cardinality(S) - 1 : \E s \in S : Places(S, R)[s] = k

LEMMA Placed ==
  ASSUME NEW S, IsFiniteSet(S), NEW R, StrictlyOrdered(S, R)
  PROVE  EveryPlaceTaken(S, R)
<1> DEFINE N == Cardinality(S)
           place == Places(S, R)
           Lower(s) == {t \in S : <<t, s>> \in R}
<1>1. N \in Nat BY FS_CardinalityType
<1>2. \A s \in S : IsFiniteSet(Lower(s)) /\ Cardinality(Lower(s)) \in Nat
  BY FS_Subset, FS_CardinalityType
<1>3. \A s \in S : Cardinality(Lower(s)) < N
  <2> TAKE s \in S
  <2>1. Lower(s) \in SUBSET S /\ s \notin Lower(s) BY DEF StrictlyOrdered
  <2> HIDE DEF Lower
  <2>2. Cardinality(Lower(s)) <= N BY <2>1, FS_Subset
  <2>3. Cardinality(Lower(s)) # N BY <2>1, FS_Subset
  <2> QED BY <1>1, <1>2, <2>2, <2>3
<1>4. \A s \in S : place[s] = Cardinality(Lower(s)) BY DEF Places
<1>5. \A s, t \in S : <<s, t>> \in R => place[s] < place[t]
  <2> SUFFICES ASSUME NEW s \in S, NEW t \in S, <<s, t>> \in R
               PROVE  place[s] < place[t]
    OBVIOUS
  <2>1. Lower(s) \union {s} \in SUBSET Lower(t) /\ s \notin Lower(s) BY DEF StrictlyOrdered
  <2> HIDE DEF Lower
  <2>2. Cardinality(Lower(s) \union {s}) = Cardinality(Lower(s)) + 1
    BY <1>2, <2>1, FS_AddElement
  <2>3. Cardinality(Lower(s) \union {s}) <= Cardinality(Lower(t)) BY <1>2, <2>1, FS_Subset
  <2> QED BY <1>2, <1>4, <2>2, <2>3
<1> HIDE DEF Lower
<1>6. place \in [S -> 0 .. N - 1]
  <2>1. place = [s \in S |-> place[s]] BY DEF Places
  <2>2. \A s \in S : place[s] \in 0 .. N - 1
    <3> TAKE s \in S
    <3>1. place[s] \in Nat /\ place[s] < N BY <1>2, <1>3, <1>4
    <3> HIDE DEF N
    <3> QED BY <1>1, <3>1
  <2> QED BY <2>1, <2>2
<1> HIDE DEF N, place
<1>7. \A s, t \in S : place[s] = place[t] => s = t
  <2> SUFFICES ASSUME NEW s \in S, NEW t \in S, s # t PROVE place[s] # place[t]
    OBVIOUS
  <2>1. place[s] \in Int /\ place[t] \in Int BY <1>6
  <2>2. place[s] < place[t] \/ place[t] < place[s]
    <3>1. <<s, t>> \in R \/ <<t, s>> \in R BY DEF StrictlyOrdered
    <3> QED BY <1>5, <3>1
  <2> QED BY ONLY <2>1, <2>2
<1>8. IsFiniteSet(0 .. N - 1) /\ Cardinality(0 .. N - 1) = N
  <2>1. 0 \in Int /\ N - 1 \in Int BY <1>1
  <2>2. IsFiniteSet(0 .. N - 1)
        /\ Cardinality(0 .. N - 1) = IF 0 > N - 1 THEN 0 ELSE N - 1 - 0 + 1
    BY <2>1, FS_Interval, Zenon
  <2> QED BY <1>1, <2>2
<1>9. place \in Injection(S, 0 .. N - 1) BY <1>6, <1>7, Zenon DEF Injection, IsInjective
<1>10. place \in Surjection(S, 0 .. N - 1) BY <1>8, <1>9, FS_Injection, Zenon DEF N
<1>11. \A k \in 0 .. N - 1 : \E s \in S : place[s] = k BY <1>10, Zenon DEF Surjection
<1> QED BY <1>1, <1>6, <1>7, <1>11, Zenon DEF EveryPlaceTaken, N, place

(* Sequences of slots, each in them once.                                  *)
Distinct(q) == \A i, j \in DOMAIN q : q[i] = q[j] => i = j
Once == {q \in Seq(Slot) : Distinct(q)}

LEMMA OnceTypes ==
  ASSUME NEW q \in Once
  PROVE  /\ q \in Seq(Slot) /\ Len(q) \in Nat /\ DOMAIN q = 1 .. Len(q)
         /\ q \in [1 .. Len(q) -> Slot]
         /\ Elements(q) \subseteq Slot
<1>1. q \in Seq(Slot) BY DEF Once
<1>2. Len(q) \in Nat /\ DOMAIN q = 1 .. Len(q) /\ q \in [1 .. Len(q) -> Slot]
  BY <1>1, LenProperties
<1>3. Elements(q) \subseteq Slot BY <1>2 DEF Elements
<1> QED BY <1>1, <1>2, <1>3

(* They are no longer than there are slots.                                *)
LEMMA OnceShort ==
  ASSUME NEW q \in Once
  PROVE  Len(q) = Cardinality(Elements(q)) /\ Len(q) <= MaxFrames
<1>1. /\ Len(q) \in Nat /\ DOMAIN q = 1 .. Len(q) /\ q \in [1 .. Len(q) -> Slot]
      /\ Elements(q) \subseteq Slot
  BY OnceTypes
<1>2. \A i, j \in 1 .. Len(q) : q[i] = q[j] => i = j BY <1>1 DEF Once, Distinct
<1>3. q \in [1 .. Len(q) -> Elements(q)] BY <1>1 DEF Elements
<1>4. q \in Injection(1 .. Len(q), Elements(q))
  BY <1>2, <1>3, Zenon DEF Injection, IsInjective
<1>5. q \in Surjection(1 .. Len(q), Elements(q))
  <2>1. \A s \in Elements(q) : \E i \in 1 .. Len(q) : q[i] = s BY <1>1 DEF Elements
  <2> QED BY <1>3, <2>1, Zenon DEF Surjection
<1>6. IsFiniteSet(Elements(q)) /\ Cardinality(Elements(q)) <= MaxFrames
      /\ Cardinality(Elements(q)) \in Nat
  BY <1>1, SlotsFinite
<1>7. Cardinality(1 .. Len(q)) = Cardinality(Elements(q)) BY <1>4, <1>5, <1>6, FS_Injection
<1>8. Cardinality(1 .. Len(q)) = Len(q)
  <2>1. 1 \in Int /\ Len(q) \in Int BY <1>1
  <2>2. Cardinality(1 .. Len(q)) = IF 1 > Len(q) THEN 0 ELSE Len(q) - 1 + 1
    BY <2>1, FS_Interval, Zenon
  <2> QED BY <1>1, <2>2
<1> QED BY <1>6, <1>7, <1>8

(* What a sequence of distinct slots is built from.                        *)
LEMMA OnceFrom ==
  ASSUME NEW n \in Nat, NEW q, q \in [1 .. n -> Slot],
         \A i, j \in 1 .. n : q[i] = q[j] => i = j
  PROVE  q \in Once /\ Len(q) = n
<1>1. q \in Seq(Slot) /\ Len(q) = n OBVIOUS
<1>2. Distinct(q) BY DEF Distinct
<1> QED BY <1>1, <1>2 DEF Once

LEMMA OnceJoined ==
  ASSUME NEW p \in Once, NEW q \in Once, Elements(p) \intersect Elements(q) = {}
  PROVE  p \o q \in Once /\ Elements(p \o q) = Elements(p) \union Elements(q)
<1> DEFINE r == p \o q m == Len(p) n == Len(q)
<1>1. /\ p \in Seq(Slot) /\ q \in Seq(Slot) /\ m \in Nat /\ n \in Nat
      /\ DOMAIN p = 1 .. m /\ DOMAIN q = 1 .. n
  BY OnceTypes
<1>2. /\ r \in Seq(Slot) /\ Len(r) = m + n
      /\ \A i \in 1 .. m + n : r[i] = IF i <= m THEN p[i] ELSE q[i - m]
  BY <1>1, ConcatProperties
<1>3. DOMAIN r = 1 .. m + n BY <1>2, LenProperties
<1> HIDE DEF r, m, n
<1>4. \A i \in 1 .. m + n : \/ i <= m /\ i \in 1 .. m /\ r[i] = p[i] /\ r[i] \in Elements(p)
                            \/ i > m /\ i - m \in 1 .. n /\ r[i] = q[i - m] /\ r[i] \in Elements(q)
  <2> TAKE i \in 1 .. m + n
  <2>1. CASE i <= m
    <3>1. i \in 1 .. m /\ r[i] = p[i] BY <1>1, <1>2, <2>1
    <3> QED BY <1>1, <2>1, <3>1 DEF Elements
  <2>2. CASE i > m
    <3>1. i - m \in 1 .. n /\ r[i] = q[i - m] BY <1>1, <1>2, <2>2
    <3> QED BY <1>1, <2>2, <3>1 DEF Elements
  <2> QED BY <1>1, <2>1, <2>2
<1>5. \A i, j \in 1 .. m + n : r[i] = r[j] => i = j
  <2> SUFFICES ASSUME NEW i \in 1 .. m + n, NEW j \in 1 .. m + n, r[i] = r[j]
               PROVE  i = j
    OBVIOUS
  <2>1. \A k, l \in 1 .. m : p[k] = p[l] => k = l BY <1>1 DEF Once, Distinct
  <2>2. \A k, l \in 1 .. n : q[k] = q[l] => k = l BY <1>1 DEF Once, Distinct
  <2>3. CASE i <= m /\ j <= m BY <1>1, <1>4, <2>1, <2>3
  <2>4. CASE i > m /\ j > m
    <3>1. i - m = j - m BY <1>1, <1>4, <2>2, <2>4
    <3> QED BY <1>1, <3>1
  <2> QED BY <1>1, <1>4, <2>3, <2>4
<1>6. Elements(r) = Elements(p) \union Elements(q)
  <2>1. Elements(r) \subseteq Elements(p) \union Elements(q)
    BY <1>3, <1>4 DEF Elements
  <2>2. Elements(p) \subseteq Elements(r)
    <3>1. \A i \in 1 .. m : i \in 1 .. m + n /\ r[i] = p[i] BY <1>1, <1>2
    <3> QED BY <1>1, <1>3, <3>1 DEF Elements
  <2>3. Elements(q) \subseteq Elements(r)
    <3>1. \A i \in 1 .. n : i + m \in 1 .. m + n /\ r[i + m] = q[i]
      <4> TAKE i \in 1 .. n
      <4>1. i + m \in 1 .. m + n /\ ~ (i + m <= m) /\ (i + m) - m = i BY <1>1
      <4> QED BY <1>2, <4>1
    <3> QED BY <1>1, <1>3, <3>1 DEF Elements
  <2> QED BY <2>1, <2>2, <2>3
<1> QED BY <1>2, <1>3, <1>5, <1>6 DEF Once, Distinct, r

(* Pushed onto a queue none of them is in, they stay in order before it,   *)
(* and all fit.                                                            *)
LEMMA OncePushed ==
  ASSUME NEW p \in Once, NEW q \in Once, Elements(p) \intersect Elements(q) = {}
  PROVE  Push(p, q) \in Once /\ Elements(Push(p, q)) = Elements(p) \union Elements(q)
<1> DEFINE r == p \o q
<1>1. r \in Once /\ Elements(r) = Elements(p) \union Elements(q) BY OnceJoined
<1> HIDE DEF r
<1>2. r \in Seq(Slot) /\ Len(r) \in Nat /\ Len(r) <= MaxFrames BY <1>1, OnceTypes, OnceShort
<1>3. FirstOf(QueueSize, r) = SubSeq(r, 1, Len(r))
  <2>1. QueueSize = MaxFrames BY DEF QueueSize
  <2> DEFINE k == Len(r)
  <2>2. k \in Nat /\ k <= QueueSize /\ QueueSize \in Nat
    <3>1. QueueSize \in Nat BY <2>1
    <3>2. k \in Nat /\ k <= MaxFrames BY <1>2
    <3> HIDE DEF k
    <3> QED BY <2>1, <3>1, <3>2
  <2> HIDE DEF k
  <2>3. (IF k < QueueSize THEN k ELSE QueueSize) = k BY <2>2
  <2>4. FirstOf(QueueSize, r) = SubSeq(r, 1, IF k < QueueSize THEN k ELSE QueueSize)
    BY DEF FirstOf, k
  <2> QED BY <2>3, <2>4 DEF k
<1>4. FirstOf(QueueSize, r) = r BY <1>2, <1>3, SubSeqFull
<1>5. Push(p, q) = r BY <1>4 DEF Push, r
<1> QED BY <1>1, <1>5

(* One taken out of a queue.                                               *)
LEMMA OnceWithout ==
  ASSUME NEW q \in Once, NEW s
  PROVE  Without(q, s) \in Once /\ Elements(Without(q, s)) = Elements(q) \ {s}
<1>1. CASE s \notin Elements(q)
  <2>1. Without(q, s) = q BY <1>1 DEF Without
  <2> QED BY <1>1, <2>1
<1>2. CASE s \in Elements(q)
  <2> DEFINE n == Len(q) i == Place(q, s)
             p == SubSeq(q, 1, i - 1) r == SubSeq(q, i + 1, n)
  <2>1. /\ q \in Seq(Slot) /\ n \in Nat /\ DOMAIN q = 1 .. n /\ q \in [1 .. n -> Slot]
    BY OnceTypes
  <2>2. \A j, k \in 1 .. n : q[j] = q[k] => j = k BY <2>1 DEF Once, Distinct
  <2>3. i \in 1 .. n /\ q[i] = s
    <3>1. PICK k \in 1 .. n : q[k] = s BY <1>2, <2>1 DEF Elements
    <3>2. \A j \in 1 .. n : q[j] = s => k <= j BY <2>1, <2>2, <3>1
    <3>3. \E k2 \in DOMAIN q : q[k2] = s /\ \A j \in DOMAIN q : q[j] = s => k2 <= j
      BY <2>1, <3>1, <3>2
    <3> QED BY <2>1, <3>3, Zenon DEF Place
  <2>4. Without(q, s) = p \o r BY <1>2 DEF Without, Dequeue
  <2> HIDE DEF i, n
  <2>5. /\ p \in Seq(Slot) /\ Len(p) = i - 1 /\ \A j \in 1 .. i - 1 : p[j] = q[j]
    <3>1. 1 \in Int /\ i - 1 \in Int /\ \A j \in 1 .. i - 1 : q[j] \in Slot BY <2>1, <2>3
    <3>2. /\ p \in Seq(Slot) /\ Len(p) = IF 1 <= i - 1 THEN i - 1 - 1 + 1 ELSE 0
          /\ \A j \in 1 .. i - 1 - 1 + 1 : p[j] = q[1 + j - 1]
      BY <3>1, SubSeqProperties
    <3> HIDE DEF p
    <3>3. i \in Int /\ i >= 1 BY <2>1, <2>3
    <3>4. Len(p) = i - 1 BY <3>2, <3>3
    <3>5. \A j \in 1 .. i - 1 : p[j] = q[j]
      <4> TAKE j \in 1 .. i - 1
      <4>1. j \in 1 .. i - 1 - 1 + 1 /\ 1 + j - 1 = j BY <3>3
      <4> QED BY <3>2, <4>1
    <3> QED BY <3>2, <3>4, <3>5
  <2>6. /\ r \in Seq(Slot) /\ Len(r) = n - i /\ \A j \in 1 .. n - i : r[j] = q[i + j]
    <3>1. i + 1 \in Int /\ n \in Int /\ \A j \in i + 1 .. n : q[j] \in Slot BY <2>1, <2>3
    <3>2. /\ r \in Seq(Slot) /\ Len(r) = IF i + 1 <= n THEN n - (i + 1) + 1 ELSE 0
          /\ \A j \in 1 .. n - (i + 1) + 1 : r[j] = q[(i + 1) + j - 1]
      BY <3>1, SubSeqProperties
    <3> HIDE DEF r
    <3>3. i \in Int /\ i >= 1 /\ i <= n /\ n \in Int BY <2>1, <2>3
    <3>4. Len(r) = n - i BY <3>2, <3>3
    <3>5. \A j \in 1 .. n - i : r[j] = q[i + j]
      <4> TAKE j \in 1 .. n - i
      <4>1. j \in 1 .. n - (i + 1) + 1 /\ (i + 1) + j - 1 = i + j BY <3>3
      <4> QED BY <3>2, <4>1
    <3> QED BY <3>2, <3>4, <3>5
  <2> HIDE DEF p, r
  <2>7. DOMAIN p = 1 .. i - 1 /\ DOMAIN r = 1 .. n - i BY <2>5, <2>6, LenProperties
  <2>8. p \in Once
    <3>1. \A j \in 1 .. i - 1 : j \in 1 .. n BY <2>1, <2>3
    <3> QED BY <2>2, <2>5, <2>7, <3>1 DEF Once, Distinct
  <2>9. \A j \in 1 .. n - i : i + j \in 1 .. n BY <2>1, <2>3
  <2>10. r \in Once
    <3>1. \A j, k \in 1 .. n - i : r[j] = r[k] => j = k
      <4> SUFFICES ASSUME NEW j \in 1 .. n - i, NEW k \in 1 .. n - i, r[j] = r[k]
                   PROVE  j = k
        OBVIOUS
      <4>1. i + j = i + k BY <2>2, <2>6, <2>9
      <4> QED BY <2>3, <4>1
    <3> QED BY <2>6, <2>7, <3>1 DEF Once, Distinct
  <2>11. Elements(p) = {q[j] : j \in 1 .. i - 1}
    BY <2>5, <2>7 DEF Elements
  <2>12. Elements(r) = {q[i + j] : j \in 1 .. n - i}
    BY <2>6, <2>7 DEF Elements
  <2>13. Elements(p) \intersect Elements(r) = {}
    <3> SUFFICES ASSUME NEW j \in 1 .. i - 1, NEW k \in 1 .. n - i, q[j] = q[i + k]
                 PROVE  FALSE
      BY <2>11, <2>12
    <3>1. j \in 1 .. n /\ j < i + k BY <2>1, <2>3
    <3> QED BY <2>2, <2>9, <3>1
  <2>14. Elements(p) \union Elements(r) = Elements(q) \ {s}
    <3>1. ASSUME NEW x \in Elements(q), x # s PROVE x \in Elements(p) \union Elements(r)
      <4>1. PICK j \in 1 .. n : q[j] = x BY <2>1, <3>1 DEF Elements
      <4>2. j # i BY <2>3, <3>1, <4>1
      <4>3. CASE j < i
        <5>1. j \in 1 .. i - 1 BY <2>1, <2>3, <4>3
        <5> QED BY <2>11, <4>1, <5>1
      <4>4. CASE j > i
        <5>1. j - i \in 1 .. n - i /\ i + (j - i) = j BY <2>1, <2>3, <4>4
        <5> QED BY <2>12, <4>1, <5>1
      <4> QED BY <2>1, <2>3, <4>2, <4>3, <4>4
    <3>2. ASSUME NEW j \in 1 .. n, j # i PROVE q[j] \in Elements(q) \ {s}
      BY <2>1, <2>2, <2>3, <3>2 DEF Elements
    <3>3. \A j \in 1 .. i - 1 : j \in 1 .. n /\ j # i BY <2>1, <2>3
    <3>4. \A j \in 1 .. n - i : i + j # i BY <2>3
    <3>5. Elements(p) \subseteq Elements(q) \ {s} BY <2>11, <3>2, <3>3
    <3>6. Elements(r) \subseteq Elements(q) \ {s} BY <2>9, <2>12, <3>2, <3>4
    <3> QED BY <3>1, <3>5, <3>6
  <2> QED BY <2>4, <2>8, <2>10, <2>13, <2>14, OnceJoined
<1> QED BY <1>1, <1>2

(* Several taken out of a queue.                                           *)
LEMMA OnceLeft ==
  ASSUME NEW q \in Once, NEW S
  PROVE  LeftIn(q, S) \in Once /\ Elements(LeftIn(q, S)) = Elements(q) \ S
<1> DEFINE n == Len(q)
           left == {i \in DOMAIN q : q[i] \notin S}
           N == Cardinality(left)
           before == {p \in Nat \X Nat : p[1] < p[2]}
           place == Places(left, before)
           first(k) == CHOOSE i \in left : Cardinality({j \in left : j < i}) = k - 1
           r == [k \in 1 .. N |-> q[first(k)]]
<1>1. /\ n \in Nat /\ DOMAIN q = 1 .. n /\ q \in [1 .. n -> Slot] BY OnceTypes
<1>2. \A j, k \in 1 .. n : q[j] = q[k] => j = k BY <1>1 DEF Once, Distinct
<1>3. LeftIn(q, S) = r BY DEF LeftIn
<1>4. IsFiniteSet(left) /\ left \subseteq 1 .. n /\ left \subseteq Nat
  <2>1. left \in SUBSET (1 .. n) /\ left \subseteq Nat BY <1>1
  <2>2. 1 \in Int /\ n \in Int BY <1>1
  <2> HIDE DEF left, n
  <2>3. IsFiniteSet(1 .. n) BY <2>2, FS_Interval
  <2> QED BY <2>1, <2>3, FS_Subset
<1>5. \A i \in left : place[i] = Cardinality({j \in left : j < i})
  <2> TAKE i \in left
  <2>1. {j \in left : <<j, i>> \in before} = {j \in left : j < i} BY <1>4
  <2> QED BY <2>1 DEF Places
<1>6. /\ N \in Nat /\ place \in [left -> 0 .. N - 1]
      /\ \A i, j \in left : place[i] = place[j] => i = j
      /\ \A k \in 0 .. N - 1 : \E i \in left : place[i] = k
  <2>1. \A i \in left : <<i, i>> \notin before BY <1>4
  <2>2. \A i, j \in left : i # j => <<i, j>> \in before \/ <<j, i>> \in before BY <1>4
  <2>3. \A i, j, k \in left : <<i, j>> \in before /\ <<j, k>> \in before => <<i, k>> \in before
    BY <1>4
  <2> HIDE DEF left, before
  <2>4. StrictlyOrdered(left, before) BY <2>1, <2>2, <2>3, Zenon DEF StrictlyOrdered
  <2>5. EveryPlaceTaken(left, before) BY <1>4, <2>4, Placed, Zenon
  <2> QED BY <2>5, Zenon DEF EveryPlaceTaken
<1> HIDE DEF place, left, N
<1>7. \A k \in 1 .. N : first(k) \in left /\ place[first(k)] = k - 1
  <2> TAKE k \in 1 .. N
  <2>1. k - 1 \in 0 .. N - 1 BY <1>6
  <2>2. \E i \in left : Cardinality({j \in left : j < i}) = k - 1 BY <1>5, <1>6, <2>1
  <2>3. first(k) \in left /\ Cardinality({j \in left : j < first(k)}) = k - 1
    BY <2>2, Zenon
  <2> HIDE DEF first
  <2> QED BY <1>5, <2>3
<1> HIDE DEF first
<1>8. \A k \in 1 .. N : first(k) \in 1 .. n /\ r[k] = q[first(k)] BY <1>4, <1>7
<1>9. r \in [1 .. N -> Slot] BY <1>1, <1>8
<1>10. \A k, l \in 1 .. N : r[k] = r[l] => k = l
  <2> SUFFICES ASSUME NEW k \in 1 .. N, NEW l \in 1 .. N, r[k] = r[l] PROVE k = l
    OBVIOUS
  <2>1. first(k) = first(l) BY <1>2, <1>8
  <2>2. k - 1 = l - 1 BY <1>7, <2>1
  <2> QED BY <1>6, <2>2
<1>11. r \in Once /\ Len(r) = N
  <2> HIDE DEF r
  <2> QED BY <1>6, <1>9, <1>10, OnceFrom
<1>12. DOMAIN r = 1 .. N OBVIOUS
<1>13. \A i \in left : \E k \in 1 .. N : r[k] = q[i]
  <2> TAKE i \in left
  <2>1. place[i] \in 0 .. N - 1 BY <1>6
  <2>2. place[i] + 1 \in 1 .. N /\ (place[i] + 1) - 1 = place[i] BY <1>6, <2>1
  <2>3. first(place[i] + 1) = i BY <1>6, <1>7, <2>2
  <2> QED BY <1>8, <2>2, <2>3
<1>14. Elements(r) = Elements(q) \ S
  <2>1. Elements(r) \subseteq Elements(q) \ S
    BY <1>1, <1>7, <1>8, <1>12 DEF Elements, left
  <2>2. \A x \in Elements(q) \ S : \E i \in left : q[i] = x BY DEF Elements, left
  <2> HIDE DEF r
  <2>3. Elements(q) \ S \subseteq Elements(r) BY <1>12, <1>13, <2>2 DEF Elements
  <2> QED BY <2>1, <2>3
<1> QED BY <1>3, <1>11, <1>14

(* Pictures that differ in their number are queued in order, each once.    *)
Apart(S) == \A s, t \in S : frame[s].id = frame[t].id => s = t

LEMMA LatestFirstOnce ==
  ASSUME frame \in [Slot -> Frame], NEW S \in SUBSET Slot, Apart(S)
  PROVE  LatestFirst(S) \in Once /\ Elements(LatestFirst(S)) = S
<1> DEFINE N == Cardinality(S)
           before == {p \in Slot \X Slot : BumpsBefore(p[1], p[2])}
           place == Places(S, before)
           chosen(i) == CHOOSE s \in S : PlaceIn(s, S) = N - i
           r == [i \in 1 .. N |-> chosen(i)]
<1>1. LatestFirst(S) = r BY DEF LatestFirst
<1>2. \A s \in S : place[s] = PlaceIn(s, S)
  <2> TAKE s \in S
  <2>1. {t \in S : <<t, s>> \in before} = {t \in S : BumpsBefore(t, s)} OBVIOUS
  <2> QED BY <2>1 DEF PlaceIn, Places
<1>3. \A s \in Slot : frame[s].poc \in Int /\ frame[s].id \in Int BY DEF Frame
<1>4. \A s, t \in S : <<s, t>> \in before <=> BumpsBefore(s, t) OBVIOUS
<1>5. /\ N \in Nat /\ place \in [S -> 0 .. N - 1]
      /\ \A s, t \in S : place[s] = place[t] => s = t
      /\ \A k \in 0 .. N - 1 : \E s \in S : place[s] = k
  <2>1. \A s \in S : <<s, s>> \notin before BY <1>3, <1>4 DEF BumpsBefore
  <2>2. \A s, t \in S : s # t => <<s, t>> \in before \/ <<t, s>> \in before
    BY <1>3, <1>4 DEF BumpsBefore, Apart
  <2>3. \A s, t, u \in S : <<s, t>> \in before /\ <<t, u>> \in before => <<s, u>> \in before
    BY <1>3, <1>4 DEF BumpsBefore
  <2>4. IsFiniteSet(S) BY SlotsFinite
  <2> HIDE DEF before
  <2>5. StrictlyOrdered(S, before) BY <2>1, <2>2, <2>3, Zenon DEF StrictlyOrdered
  <2>6. EveryPlaceTaken(S, before) BY <2>4, <2>5, Placed, Zenon
  <2> QED BY <2>6, Zenon DEF EveryPlaceTaken
<1> HIDE DEF place, N
<1>6. \A i \in 1 .. N : chosen(i) \in S /\ place[chosen(i)] = N - i
  <2> TAKE i \in 1 .. N
  <2>1. N - i \in 0 .. N - 1 BY <1>5
  <2>2. \E s \in S : PlaceIn(s, S) = N - i BY <1>2, <1>5, <2>1
  <2>3. chosen(i) \in S /\ PlaceIn(chosen(i), S) = N - i BY <2>2, Zenon
  <2> HIDE DEF chosen
  <2> QED BY <1>2, <2>3
<1> HIDE DEF chosen
<1>7. r \in [1 .. N -> Slot] BY <1>6
<1>8. \A i, j \in 1 .. N : r[i] = r[j] => i = j
  <2> SUFFICES ASSUME NEW i \in 1 .. N, NEW j \in 1 .. N, r[i] = r[j] PROVE i = j
    OBVIOUS
  <2>1. N - i = N - j BY <1>6
  <2> QED BY <1>5, <2>1
<1>9. r \in Once
  <2> HIDE DEF r
  <2> QED BY <1>5, <1>7, <1>8, OnceFrom
<1>10. DOMAIN r = 1 .. N OBVIOUS
<1>11. \A s \in S : \E i \in 1 .. N : r[i] = s
  <2> TAKE s \in S
  <2>1. place[s] \in 0 .. N - 1 BY <1>5
  <2>2. N - place[s] \in 1 .. N /\ N - (N - place[s]) = place[s] BY <1>5, <2>1
  <2>3. chosen(N - place[s]) = s BY <1>5, <1>6, <2>2
  <2> QED BY <2>2, <2>3
<1>12. \A i \in 1 .. N : r[i] \in S BY <1>6
<1> HIDE DEF r
<1>13. Elements(r) = S BY <1>10, <1>11, <1>12 DEF Elements
<1> QED BY <1>1, <1>9, <1>13

-----------------------------------------------------------------------------
(* The operations on the queues.                                           *)
Outputs == [toGet : SUBSET Slot, output : SUBSET Slot, queue : [View -> Once],
            rank : [Slot -> Nat], next : Nat]

(* The queues of d hold what is bumped and not delivered, by the views of  *)
(* the frames f, each once.                                                *)
Holds(d, f) ==
  /\ d \in Outputs
  /\ \A v \in View : Elements(d.queue[v]) = {s \in d.toGet \intersect d.output : f[s].view = v}

(* Pictures are queued, and none delivered.                                *)
Grows(d, e) == /\ e.toGet = d.toGet
               /\ d.output \subseteq e.output /\ e.output \subseteq d.output \union d.toGet

LEMMA SetOutput ==
  ASSUME NEW d \in Outputs
  PROVE  /\ \A x \in SUBSET Slot : [d EXCEPT !.toGet = x] \in Outputs
         /\ \A x \in SUBSET Slot : [d EXCEPT !.output = x] \in Outputs
         /\ \A x \in [View -> Once] : [d EXCEPT !.queue = x] \in Outputs
         /\ \A x \in [Slot -> Nat] : [d EXCEPT !.rank = x] \in Outputs
         /\ \A x \in Nat : [d EXCEPT !.next = x] \in Outputs
<1>1. \A x \in SUBSET Slot : [d EXCEPT !.toGet = x] \in Outputs BY DEF Outputs
<1>2. \A x \in SUBSET Slot : [d EXCEPT !.output = x] \in Outputs BY DEF Outputs
<1>3. \A x \in [View -> Once] : [d EXCEPT !.queue = x] \in Outputs BY DEF Outputs
<1>4. \A x \in [Slot -> Nat] : [d EXCEPT !.rank = x] \in Outputs BY DEF Outputs
<1>5. \A x \in Nat : [d EXCEPT !.next = x] \in Outputs BY DEF Outputs
<1> QED BY <1>1, <1>2, <1>3, <1>4, <1>5, Zenon

(* The sequence p is pushed onto the queue of view v of d.                 *)
Enqueue(d, v, p, ranks, next) ==
  LET a == [d EXCEPT !.output = d.output \union Elements(p)]
      b == [a EXCEPT !.queue = [d.queue EXCEPT ![v] = Push(p, d.queue[v])]]
      c == [b EXCEPT !.rank = ranks]
  IN  [c EXCEPT !.next = next]

LEMMA EnqueueHolds ==
  ASSUME NEW d, Holds(d, frame), NEW v \in View, NEW p \in Once,
         Elements(p) \subseteq (d.toGet \ d.output) \intersect OfView(v),
         NEW ranks \in [Slot -> Nat], NEW next \in Nat
  PROVE  /\ Holds(Enqueue(d, v, p, ranks, next), frame)
         /\ Grows(d, Enqueue(d, v, p, ranks, next))
<1> DEFINE a == [d EXCEPT !.output = d.output \union Elements(p)]
           pushed == [d.queue EXCEPT ![v] = Push(p, d.queue[v])]
           b == [a EXCEPT !.queue = pushed]
           c == [b EXCEPT !.rank = ranks]
           e == [c EXCEPT !.next = next]
<1>1. d \in Outputs BY DEF Holds
<1>2. /\ d.toGet \subseteq Slot /\ d.output \subseteq Slot /\ d.queue \in [View -> Once]
  BY <1>1 DEF Outputs
<1>3. d.output \union Elements(p) \in SUBSET Slot BY <1>2, OnceTypes
<1>4. d.queue[v] \in Once BY <1>2
<1>5. Elements(p) \intersect Elements(d.queue[v]) = {} BY DEF Holds
<1>6. /\ Push(p, d.queue[v]) \in Once
      /\ Elements(Push(p, d.queue[v])) = Elements(p) \union Elements(d.queue[v])
  BY <1>4, <1>5, OncePushed
<1>7. /\ pushed \in [View -> Once] /\ pushed[v] = Push(p, d.queue[v])
      /\ \A w \in View : w # v => pushed[w] = d.queue[w]
  <2> DEFINE q == Push(p, d.queue[v])
  <2>1. q \in Once BY <1>6
  <2> HIDE DEF q
  <2>2. [d.queue EXCEPT ![v] = q] \in [View -> Once] BY <1>2, <2>1
  <2>3. [d.queue EXCEPT ![v] = q][v] = q BY <1>2
  <2>4. \A w \in View : w # v => [d.queue EXCEPT ![v] = q][w] = d.queue[w] BY <1>2
  <2> QED BY <2>2, <2>3, <2>4 DEF q
<1>8. a \in Outputs /\ a.output = d.output \union Elements(p) /\ a.toGet = d.toGet
  <2>1. a \in Outputs BY <1>1, <1>3, SetOutput, Zenon
  <2> QED BY <1>1, <2>1 DEF Outputs
<1> HIDE DEF a, pushed
<1>9. b \in Outputs /\ b.output = a.output /\ b.toGet = a.toGet /\ b.queue = pushed
  <2>1. b \in Outputs BY <1>7, <1>8, SetOutput, Zenon
  <2> QED BY <1>8, <2>1 DEF Outputs
<1> HIDE DEF b
<1>10. c \in Outputs /\ c.output = b.output /\ c.toGet = b.toGet /\ c.queue = b.queue
  <2>1. c \in Outputs BY <1>9, SetOutput, Zenon
  <2> QED BY <1>9, <2>1 DEF Outputs
<1> HIDE DEF c
<1>11. e \in Outputs /\ e.output = c.output /\ e.toGet = c.toGet /\ e.queue = c.queue
  <2>1. e \in Outputs BY <1>10, SetOutput, Zenon
  <2> QED BY <1>10, <2>1 DEF Outputs
<1>12. e = Enqueue(d, v, p, ranks, next) BY DEF Enqueue, a, b, c, pushed
<1> HIDE DEF e
<1>13. /\ e.toGet = d.toGet /\ e.output = d.output \union Elements(p) /\ e.queue = pushed
  BY <1>8, <1>9, <1>10, <1>11
<1>14. \A w \in View :
         Elements(e.queue[w]) = {s \in e.toGet \intersect e.output : frame[s].view = w}
  <2> TAKE w \in View
  <2>1. \A s \in Elements(p) : s \in d.toGet /\ frame[s].view = v BY DEF OfView
  <2>2. Elements(d.queue[w]) = {s \in d.toGet \intersect d.output : frame[s].view = w}
    BY DEF Holds
  <2>3. CASE w = v
    <3>1. Elements(e.queue[w]) = Elements(p) \union Elements(d.queue[w])
      BY <1>6, <1>7, <1>13, <2>3
    <3> QED BY <1>13, <2>1, <2>2, <2>3, <3>1
  <2>4. CASE w # v
    <3>1. Elements(e.queue[w]) = Elements(d.queue[w]) BY <1>7, <1>13, <2>4
    <3> QED BY <1>13, <2>1, <2>2, <2>4, <3>1
  <2> QED BY <2>3, <2>4
<1>15. Grows(d, e) BY <1>13 DEF Grows
<1> QED BY <1>11, <1>12, <1>14, <1>15 DEF Holds

LEMMA BumpHolds ==
  ASSUME frame \in [Slot -> Frame], NEW d, Holds(d, frame), Apart(d.toGet),
         NEW v \in View, NEW ignored, NEW n
  PROVE  Holds(Bump(d, v, ignored, n), frame) /\ Grows(d, Bump(d, v, ignored, n))
<1> DEFINE candidates == Bumpable(d, v, ignored)
           bumped == {s \in candidates : PlaceIn(s, candidates) < n}
           p == LatestFirst(bumped)
           ranks == [s \in Slot |-> IF s \in bumped THEN d.next + PlaceIn(s, bumped)
                                     ELSE d.rank[s]]
           next == d.next + Cardinality(bumped)
<1>1. d \in Outputs BY DEF Holds
<1>2. /\ d.toGet \subseteq Slot /\ d.rank \in [Slot -> Nat] /\ d.next \in Nat
      /\ d.queue \in [View -> Once]
  BY <1>1 DEF Outputs
<1>3. bumped \in SUBSET Slot /\ bumped \subseteq (d.toGet \ d.output) \intersect OfView(v)
  BY <1>2 DEF Bumpable, Waiting
<1> HIDE DEF candidates
<1> HIDE DEF bumped
<1>4. Apart(bumped) BY <1>3 DEF Apart
<1>5. p \in Once /\ Elements(p) = bumped BY <1>3, <1>4, LatestFirstOnce
<1>6. ranks \in [Slot -> Nat]
  <2>1. \A s \in Slot : PlaceIn(s, bumped) \in Nat
    <3> TAKE s \in Slot
    <3>1. {t \in bumped : BumpsBefore(t, s)} \subseteq Slot BY <1>3
    <3> QED BY <3>1, SlotsFinite DEF PlaceIn
  <2> QED BY <1>2, <2>1
<1>7. next \in Nat
  <2>1. Cardinality(bumped) \in Nat BY <1>3, SlotsFinite
  <2> QED BY <1>2, <2>1
<1>8. Bump(d, v, ignored, n) = Enqueue(d, v, p, ranks, next)
  <2>1. Bump(d, v, ignored, n) =
          [d EXCEPT !.output = d.output \union bumped, !.rank = ranks, !.next = next,
                    !.queue[v] = Push(p, d.queue[v])]
    BY <1>1 DEF Bump, bumped, candidates, Outputs
  <2> HIDE DEF p, ranks, next
  <2> QED BY <1>1, <1>5, <2>1 DEF Enqueue, Outputs
<1> HIDE DEF p, ranks, next
<1> QED BY <1>3, <1>5, <1>6, <1>7, <1>8, EnqueueHolds

LEMMA GrowsOn ==
  ASSUME NEW d, NEW e, NEW g, Grows(d, e), Grows(e, g)
  PROVE  Grows(d, g)
BY DEF Grows

LEMMA GrowsNot ==
  ASSUME NEW d
  PROVE  Grows(d, d)
BY DEF Grows

LEMMA BumpAllHolds ==
  ASSUME frame \in [Slot -> Frame], Holds(dpb, frame), Apart(dpb.toGet), BumpAll
  PROVE  Holds(dpb', frame) /\ Grows(dpb, dpb')
<1> DEFINE d == Bump(dpb, 0, {}, MaxFrames) e == Bump(d, 1, {}, MaxFrames)
<1>1. dpb' = e BY DEF BumpAll
<1>2. 0 \in View /\ 1 \in View BY DEF View
<1>3. Holds(d, frame) /\ Grows(dpb, d) BY <1>2, BumpHolds
<1> HIDE DEF d
<1>4. Apart(d.toGet) BY <1>3 DEF Grows
<1>5. Holds(e, frame) /\ Grows(d, e) BY <1>2, <1>3, <1>4, BumpHolds
<1> HIDE DEF e
<1> QED BY <1>1, <1>3, <1>5, GrowsOn, Zenon

(* The dependent view that was decoded first is one, if there is any.      *)
LEMMA FirstDependentIn ==
  ASSUME frame \in [Slot -> Frame], NumbersNatural, NEW b, NEW S \in SUBSET Slot
  PROVE  FirstDependent(b, S) # None => FirstDependent(b, S) \in S \intersect OfView(1)
<1> DEFINE ds == {d \in S \intersect OfView(1) : SameAccessUnit(b, d)}
           first == CHOOSE d \in ds : \A e \in ds : frame[d].id <= frame[e].id
<1>1. FirstDependent(b, S) = IF ds = {} THEN None ELSE first BY DEF FirstDependent
<1>2. ASSUME ds # {} PROVE first \in ds
  <2> DEFINE ids == [s \in ds |-> frame[s].id]
  <2>1. \A s \in ds : ids[s] \in Nat /\ ids[s] = frame[s].id
    BY DEF NumbersNatural, Frame
  <2> HIDE DEF ids
  <2>2. \E s \in ds : \A t \in ds : ids[s] <= ids[t] BY <1>2, <2>1, LeastOf
  <2>3. \E s \in ds : \A t \in ds : frame[s].id <= frame[t].id BY <2>1, <2>2
  <2> HIDE DEF ds
  <2> QED BY <2>3, Zenon
<1> HIDE DEF first
<1> QED BY <1>1, <1>2

LEMMA CatchUpHolds ==
  ASSUME frame \in [Slot -> Frame], NumbersNatural, NEW d, Holds(d, frame), Apart(d.toGet)
  PROVE  Holds(CatchUp(d), frame) /\ Grows(d, CatchUp(d))
<1> DEFINE bases == Elements(d.queue[0])
           reached == {b \in bases : \A c \in bases : d.rank[c] <= d.rank[b] =>
                                                      FirstDependent(c, d.toGet) # None}
           new == {FirstDependent(b, d.toGet) : b \in reached} \ d.output
           p == LatestFirst(new)
<1>1. d \in Outputs BY DEF Holds
<1>2. /\ d.toGet \subseteq Slot /\ d.rank \in [Slot -> Nat] /\ d.next \in Nat
      /\ d.queue \in [View -> Once] /\ 0 \in View /\ 1 \in View
  BY <1>1 DEF Outputs, View
<1>3. CASE ~stream.mvc
  <2>1. CatchUp(d) = d BY <1>3 DEF CatchUp
  <2> QED BY <2>1, GrowsNot
<1>4. CASE stream.mvc
  <2>1. \A b \in reached : FirstDependent(b, d.toGet) # None
    <3>1. bases \subseteq Slot BY <1>2, OnceTypes
    <3>2. \A b \in bases : d.rank[b] <= d.rank[b] BY <1>2, <3>1
    <3> HIDE DEF bases
    <3> QED BY <3>2
  <2>2. \A b \in reached : FirstDependent(b, d.toGet) \in d.toGet \intersect OfView(1)
    <3> HIDE DEF reached
    <3> QED BY <1>2, <2>1, FirstDependentIn
  <2>3. new \in SUBSET Slot /\ new \subseteq (d.toGet \ d.output) \intersect OfView(1)
    <3> HIDE DEF reached
    <3> QED BY <1>2, <2>2
  <2>4. CatchUp(d) = [d EXCEPT !.output = @ \union new, !.queue[1] = Push(p, @)]
    BY <1>4 DEF CatchUp
  <2> HIDE DEF new
  <2>5. Apart(new) BY <2>3 DEF Apart
  <2>6. p \in Once /\ Elements(p) = new BY <2>3, <2>5, LatestFirstOnce
  <2> HIDE DEF p
  <2>7. CatchUp(d) = Enqueue(d, 1, p, d.rank, d.next)
    BY <1>1, <2>4, <2>6 DEF Enqueue, Outputs
  <2> QED BY <1>2, <2>3, <2>6, <2>7, EnqueueHolds
<1> QED BY <1>3, <1>4

LEMMA RequeueHolds ==
  ASSUME frame \in [Slot -> Frame], NEW d, Holds(d, frame), Apart(d.toGet)
  PROVE  Holds(Requeue(d), frame) /\ Grows(d, Requeue(d))
<1> DEFINE lost == d.toGet \ (Elements(d.queue[0]) \union Elements(d.queue[1]))
           p(v) == LatestFirst(lost \intersect OfView(v))
           queue == [v \in View |-> d.queue[v] \o p(v)]
           a == [d EXCEPT !.output = d.output \union lost]
           e == [a EXCEPT !.queue = queue]
<1>1. d \in Outputs BY DEF Holds
<1>2. d.toGet \subseteq Slot /\ d.output \subseteq Slot /\ d.queue \in [View -> Once]
  BY <1>1 DEF Outputs
<1>3. \A s \in Slot : frame[s].view \in View BY DEF Frame
<1>4. lost = d.toGet \ d.output
  <2>1. \A s \in d.toGet \intersect d.output : s \in Elements(d.queue[frame[s].view])
    BY <1>2, <1>3 DEF Holds
  <2>2. \A s \in Slot : frame[s].view = 0 \/ frame[s].view = 1 BY <1>3 DEF View
  <2>3. \A s \in d.toGet \intersect d.output :
          s \in Elements(d.queue[0]) \union Elements(d.queue[1])
    BY <1>2, <2>1, <2>2
  <2>4. \A v \in View : Elements(d.queue[v]) \subseteq d.output BY DEF Holds
  <2>5. 0 \in View /\ 1 \in View BY DEF View
  <2> QED BY <2>3, <2>4, <2>5
<1> HIDE DEF lost
<1>5. \A v \in View : /\ queue[v] \in Once
                      /\ Elements(queue[v]) = Elements(d.queue[v]) \union (lost \intersect OfView(v))
  <2> TAKE v \in View
  <2>1. lost \intersect OfView(v) \in SUBSET Slot BY <1>2, <1>4
  <2>2. Apart(lost \intersect OfView(v)) BY <1>4 DEF Apart
  <2>3. p(v) \in Once /\ Elements(p(v)) = lost \intersect OfView(v)
    BY <2>1, <2>2, LatestFirstOnce
  <2>4. queue[v] = d.queue[v] \o p(v) OBVIOUS
  <2> HIDE DEF p, queue
  <2>5. d.queue[v] \in Once BY <1>2
  <2>6. Elements(d.queue[v]) \intersect Elements(p(v)) = {} BY <1>4, <2>3 DEF Holds
  <2> QED BY <2>3, <2>4, <2>5, <2>6, OnceJoined
<1>6. queue \in [View -> Once]
  <2>1. queue = [v \in View |-> queue[v]] OBVIOUS
  <2> HIDE DEF queue
  <2> QED BY <1>5, <2>1
<1>7. Requeue(d) = e BY <1>1 DEF Requeue, lost, Outputs
<1> HIDE DEF queue
<1>8. a \in Outputs /\ a.output = d.output \union lost /\ a.toGet = d.toGet
  <2>1. d.output \union lost \in SUBSET Slot BY <1>2, <1>4
  <2>2. a \in Outputs BY <1>1, <2>1, SetOutput, Zenon
  <2> QED BY <1>1, <2>2 DEF Outputs
<1> HIDE DEF a
<1>9. e \in Outputs /\ e.output = a.output /\ e.toGet = a.toGet /\ e.queue = queue
  <2>1. e \in Outputs BY <1>6, <1>8, SetOutput, Zenon
  <2> QED BY <1>8, <2>1 DEF Outputs
<1> HIDE DEF e
<1>10. \A v \in View :
         Elements(e.queue[v]) = {s \in e.toGet \intersect e.output : frame[s].view = v}
  <2> TAKE v \in View
  <2>1. Elements(d.queue[v]) = {s \in d.toGet \intersect d.output : frame[s].view = v}
    BY DEF Holds
  <2>2. lost \intersect OfView(v) = {s \in lost : frame[s].view = v} BY <1>2, <1>4 DEF OfView
  <2> QED BY <1>4, <1>5, <1>8, <1>9, <2>1, <2>2
<1>11. Grows(d, e) BY <1>4, <1>8, <1>9 DEF Grows
<1> QED BY <1>7, <1>9, <1>10, <1>11 DEF Holds

(* Pictures that are not queued may be dropped.                            *)
LEMMA DropHolds ==
  ASSUME NEW d, Holds(d, frame), NEW S, S \intersect d.output = {}
  PROVE  /\ Holds([d EXCEPT !.toGet = @ \ S], frame)
         /\ [d EXCEPT !.toGet = @ \ S].toGet = d.toGet \ S
         /\ [d EXCEPT !.toGet = @ \ S].output = d.output
<1> DEFINE e == [d EXCEPT !.toGet = @ \ S]
<1>1. d \in Outputs BY DEF Holds
<1>2. e = [d EXCEPT !.toGet = d.toGet \ S] BY <1>1 DEF Outputs
<1>3. e \in Outputs
  <2>1. d.toGet \ S \in SUBSET Slot BY <1>1 DEF Outputs
  <2> HIDE DEF e
  <2> QED BY <1>1, <1>2, <2>1, SetOutput, Zenon
<1>4. e.toGet = d.toGet \ S /\ e.output = d.output /\ e.queue = d.queue BY <1>1 DEF Outputs
<1> HIDE DEF e
<1>5. Holds(e, frame) BY <1>3, <1>4 DEF Holds
<1> QED BY <1>4, <1>5 DEF e

LEMMA UnblockedHolds ==
  ASSUME frame \in [Slot -> Frame], Holds(dpb, frame), Apart(dpb.toGet)
  PROVE  /\ Holds(Unblocked, frame) /\ Unblocked.toGet \subseteq dpb.toGet
         /\ Unblocked.output \ Unblocked.toGet = dpb.output \ dpb.toGet
<1> DEFINE room(v, d) == QueueSize - Len(d.queue[v])
           one == Bump(dpb, 0, {}, room(0, dpb))
           two == Bump(one, 1, {}, room(1, one))
           orphans == {s \in (Waiting(two) \intersect OfView(1)) \ {currPic} :
                         ~HasBase(s, two.toGet \intersect OfView(0))}
<1>1. Unblocked = [two EXCEPT !.toGet = @ \ orphans] BY DEF Unblocked
<1>2. 0 \in View /\ 1 \in View BY DEF View
<1> HIDE DEF room
<1>3. Holds(one, frame) /\ Grows(dpb, one) BY <1>2, BumpHolds
<1> HIDE DEF one
<1>4. Apart(one.toGet) BY <1>3 DEF Grows
<1>5. Holds(two, frame) /\ Grows(one, two) BY <1>2, <1>3, <1>4, BumpHolds
<1> HIDE DEF two
<1>6. orphans \intersect two.output = {} BY DEF Waiting
<1> HIDE DEF orphans
<1>7. /\ Holds(Unblocked, frame) /\ Unblocked.toGet = two.toGet \ orphans
      /\ Unblocked.output = two.output
  BY <1>1, <1>5, <1>6, DropHolds
<1> QED BY <1>3, <1>5, <1>6, <1>7 DEF Grows

(* The new picture enters the DPB, and may be queued at once.              *)
LEMMA InsertHolds ==
  ASSUME frame \in [Slot -> Frame], NumbersNatural, NEW d, Holds(d, frame),
         Apart(d.toGet \union {currPic}), currPic \in Slot,
         currPic \notin d.toGet, currPic \notin d.output,
         NEW n, n.view \in View, frame[currPic].view = n.view,
         NEW references, Insert(d, n, references)
  PROVE  /\ Holds(dpb', frame) /\ dpb'.toGet = d.toGet \union {currPic}
         /\ d.output \subseteq dpb'.output
         /\ dpb'.output \subseteq d.output \union d.toGet \union {currPic}
<1> DEFINE lower == {s \in Waiting(d) \intersect OfView(n.view) : frame[s].poc < frame[currPic].poc}
           maxBump == IF n.ref THEN stream.numRef ELSE Cardinality(lower)
           enough == Enough(d, n.view, references, 0, maxBump)
           calls == IF enough = {} THEN maxBump ELSE Fewest(enough)
           bumped == Bump(d, n.view, {}, calls)
           put == [bumped EXCEPT !.toGet = @ \union {currPic}]
           direct == [put EXCEPT !.output = @ \union {currPic}, !.rank[currPic] = put.next,
                                 !.next = @ + 1, !.queue[n.view] = Push(<<currPic>>, @)]
           reordered == Bump(put, n.view, {}, 1)
<1>1. \E new \in {direct, reordered, put} : dpb' = CatchUp(new)
  <2>1. \E new \in {CASE enough = {} -> direct
                      [] enough # {} /\ Cardinality(Waiting(put) \intersect OfView(n.view))
                                          > stream.reorder -> reordered
                      [] OTHER -> put} : dpb' = CatchUp(new)
    BY ZenonT(60) DEF Insert
  <2> HIDE DEF direct, reordered, put, enough
  <2> QED BY <2>1
<1>2. Holds(bumped, frame) /\ Grows(d, bumped)
  <2>1. Apart(d.toGet) BY DEF Apart
  <2> HIDE DEF calls
  <2> QED BY <2>1, BumpHolds
<1> HIDE DEF bumped
<1>3. /\ put \in Outputs /\ put.toGet = d.toGet \union {currPic} /\ put.output = bumped.output
      /\ put.queue = bumped.queue
  <2>1. bumped \in Outputs BY <1>2 DEF Holds
  <2>2. put = [bumped EXCEPT !.toGet = bumped.toGet \union {currPic}] BY <2>1 DEF Outputs
  <2>3. bumped.toGet \union {currPic} \in SUBSET Slot BY <2>1 DEF Outputs
  <2>4. put.toGet = bumped.toGet \union {currPic} /\ put.output = bumped.output
        /\ put.queue = bumped.queue
    BY <2>1 DEF Outputs
  <2> HIDE DEF put
  <2>5. put \in Outputs BY <2>1, <2>2, <2>3, SetOutput, Zenon
  <2> QED BY <1>2, <2>4, <2>5 DEF Grows
<1> HIDE DEF put
<1>4. currPic \notin put.output BY <1>2, <1>3 DEF Grows
<1>5. Holds(put, frame)
  <2>1. \A v \in View : {s \in put.toGet \intersect put.output : frame[s].view = v}
                           = {s \in bumped.toGet \intersect bumped.output : frame[s].view = v}
    BY <1>2, <1>3, <1>4 DEF Grows
  <2> QED BY <1>2, <1>3, <2>1 DEF Holds
<1>6. Apart(put.toGet) BY <1>3
<1>7. Holds(direct, frame) /\ Grows(put, direct)
  <2> DEFINE p == <<currPic>>
             ranks == [put.rank EXCEPT ![currPic] = put.next]
  <2>1. p \in Once /\ Elements(p) = {currPic}
    <3>1. p \in Seq(Slot) /\ DOMAIN p = 1 .. 1 /\ p[1] = currPic OBVIOUS
    <3> HIDE DEF p
    <3>2. \A i \in 1 .. 1 : i = 1 OBVIOUS
    <3>3. 1 \in 1 .. 1 OBVIOUS
    <3>4. Elements(p) = {currPic} BY <3>1, <3>2, <3>3 DEF Elements
    <3>5. Distinct(p) BY <3>1, <3>2 DEF Distinct
    <3> QED BY <3>1, <3>4, <3>5 DEF Once
  <2>2. ranks \in [Slot -> Nat] /\ put.next + 1 \in Nat
    <3>1. put.rank \in [Slot -> Nat] /\ put.next \in Nat BY <1>3 DEF Outputs
    <3> QED BY <3>1
  <2>3. Elements(p) \subseteq (put.toGet \ put.output) \intersect OfView(n.view)
    BY <1>3, <1>4, <2>1 DEF OfView
  <2>4. direct = [put EXCEPT !.output = put.output \union {currPic}, !.rank = ranks,
                             !.next = put.next + 1, !.queue[n.view] = Push(p, put.queue[n.view])]
    BY <1>3 DEF Outputs
  <2> HIDE DEF p, ranks, direct
  <2>5. direct = Enqueue(put, n.view, p, ranks, put.next + 1)
    BY <1>3, <2>1, <2>4 DEF Enqueue, Outputs
  <2> QED BY <1>5, <2>1, <2>2, <2>3, <2>5, EnqueueHolds
<1>8. Holds(reordered, frame) /\ Grows(put, reordered) BY <1>5, <1>6, BumpHolds
<1> HIDE DEF direct, reordered
<1>9. PICK new \in {direct, reordered, put} : dpb' = CatchUp(new) BY <1>1
<1>10. Holds(new, frame) /\ Grows(put, new) BY <1>5, <1>7, <1>8, GrowsNot
<1>11. Apart(new.toGet) BY <1>6, <1>10 DEF Grows
<1>12. Holds(dpb', frame) /\ Grows(new, dpb') BY <1>9, <1>10, <1>11, CatchUpHolds
<1>13. Grows(put, dpb') BY <1>10, <1>12, GrowsOn
<1> QED BY <1>2, <1>3, <1>12, <1>13 DEF Grows

-----------------------------------------------------------------------------
(* What goes out: a queued base view, and a complete dependent view.       *)
LEMMA NextTypes ==
  ASSUME frame \in [Slot -> Frame], NumbersNatural, Holds(dpb, frame), Ready # {}
  PROVE  /\ NextBase \in Elements(dpb.queue[0]) /\ NextBase \in Slot
         /\ Complete(NextBase) \/ NextBase # currPic
         /\ NextDependent # None =>
               /\ NextDependent \in dpb.toGet \intersect OfView(1)
               /\ Complete(NextDependent)
<1>1. dpb \in Outputs BY DEF Holds
<1>2. /\ dpb.toGet \subseteq Slot /\ dpb.rank \in [Slot -> Nat] /\ dpb.queue \in [View -> Once]
      /\ 0 \in View /\ 1 \in View
  BY <1>1 DEF Outputs, View
<1>3. Ready \subseteq Elements(dpb.queue[0]) /\ Ready \subseteq Slot
      /\ \A s \in Ready : Complete(s) \/ s # currPic
  BY <1>2, OnceTypes DEF Ready, Bases
<1>4. NextBase \in Ready
  <2>1. \A s \in Ready : dpb.rank[s] \in Nat BY <1>2, <1>3
  <2>2. \E s \in Ready : \A t \in Ready : dpb.rank[s] <= dpb.rank[t] BY <2>1, LeastOf
  <2> QED BY <2>2, Zenon DEF NextBase, Lowest
<1>5. ASSUME Partner(NextBase) # None
      PROVE  /\ Partner(NextBase) \in dpb.toGet \intersect OfView(1)
             /\ Complete(Partner(NextBase))
  <2> DEFINE b == NextBase
             q == dpb.queue[1]
             queued == {i \in DOMAIN q : Complete(q[i]) /\ SameAccessUnit(b, q[i])}
             i == CHOOSE j \in queued : \A k \in queued : j <= k
             unqueued == FirstDependent(b, Waiting(dpb))
  <2>1. Partner(b) = IF queued # {} THEN q[i]
                     ELSE IF unqueued # None /\ Complete(unqueued) THEN unqueued ELSE None
    BY DEF Partner
  <2>2. q \in Once /\ DOMAIN q = 1 .. Len(q)
    <3>1. q \in Once BY <1>2
    <3> HIDE DEF q
    <3> QED BY <3>1, OnceTypes
  <2>3. Elements(q) \subseteq dpb.toGet \intersect OfView(1)
    BY <1>2 DEF Holds, OfView
  <2>4. ASSUME queued # {} PROVE Complete(q[i]) /\ q[i] \in Elements(q)
    <3>1. queued \in SUBSET Nat BY <2>2
    <3>2. \E j \in queued : \A k \in queued : j <= k BY <2>4, <3>1, LeastOfNats
    <3>3. i \in queued
      <4> HIDE DEF queued
      <4> QED BY <3>2, Zenon
    <3> HIDE DEF i
    <3> QED BY <3>3 DEF Elements
  <2>5. unqueued # None => unqueued \in Waiting(dpb) \intersect OfView(1)
    <3>1. Waiting(dpb) \in SUBSET Slot BY <1>2 DEF Waiting
    <3> QED BY <3>1, FirstDependentIn
  <2>6. unqueued # None => unqueued \in dpb.toGet \intersect OfView(1) BY <2>5 DEF Waiting
  <2> HIDE DEF q, queued, i, unqueued, b
  <2>7. CASE queued # {} BY <2>1, <2>3, <2>4, <2>7 DEF b
  <2>8. CASE queued = {} BY <1>5, <2>1, <2>6, <2>8 DEF b
  <2> QED BY <2>7, <2>8
<1>6. NextDependent = Partner(NextBase) \/ NextDependent = None BY DEF NextDependent
<1> QED BY <1>3, <1>4, <1>5, <1>6

LEMMA DeliveredHolds ==
  ASSUME frame \in [Slot -> Frame], NumbersNatural, Holds(dpb, frame), Ready # {}
  PROVE  /\ Holds(Delivered, frame)
         /\ Delivered.toGet = dpb.toGet \ {NextBase, NextDependent}
         /\ Delivered.output = dpb.output \union ({NextDependent} \ {None})
         /\ NextBase \in dpb.toGet \intersect dpb.output
         /\ NextDependent # None => NextDependent \in dpb.toGet
<1> DEFINE b == NextBase
           d == NextDependent
           queue == [v \in View |-> Without(dpb.queue[v], IF v = 0 THEN b ELSE d)]
           x == [dpb EXCEPT !.toGet = dpb.toGet \ {b, d}]
           y == [x EXCEPT !.output = dpb.output \union ({d} \ {None})]
           e == [y EXCEPT !.queue = queue]
<1>1. dpb \in Outputs BY DEF Holds
<1>2. /\ dpb.toGet \subseteq Slot /\ dpb.output \subseteq Slot /\ dpb.queue \in [View -> Once]
      /\ 0 \in View /\ \A v \in View : v = 0 \/ v = 1
  BY <1>1 DEF Outputs, View
<1>3. /\ b \in Elements(dpb.queue[0]) /\ b \in Slot
      /\ d # None => d \in dpb.toGet \intersect OfView(1)
  BY NextTypes
<1>4. /\ b \in dpb.toGet \intersect dpb.output /\ frame[b].view = 0
      /\ d # None => d \in dpb.toGet /\ d \in Slot /\ frame[d].view = 1
  BY <1>2, <1>3 DEF Holds, OfView
<1>5. Delivered = e BY <1>1 DEF Delivered, Outputs
<1> HIDE DEF b, d
<1>6. \A v \in View :
        /\ queue[v] \in Once
        /\ Elements(queue[v]) = Elements(dpb.queue[v]) \ {IF v = 0 THEN b ELSE d}
  <2> TAKE v \in View
  <2>1. dpb.queue[v] \in Once BY <1>2
  <2>2. queue[v] = Without(dpb.queue[v], IF v = 0 THEN b ELSE d) OBVIOUS
  <2> HIDE DEF queue
  <2> QED BY <2>1, <2>2, OnceWithout
<1>7. queue \in [View -> Once]
  <2>1. queue = [v \in View |-> queue[v]] OBVIOUS
  <2> HIDE DEF queue
  <2> QED BY <1>6, <2>1
<1> HIDE DEF queue
<1>8. x \in Outputs /\ x.toGet = dpb.toGet \ {b, d} /\ x.output = dpb.output
  <2>1. dpb.toGet \ {b, d} \in SUBSET Slot BY <1>2
  <2>2. x \in Outputs BY <1>1, <2>1, SetOutput, Zenon
  <2> QED BY <1>1, <2>2 DEF Outputs
<1> HIDE DEF x
<1>9. y \in Outputs /\ y.toGet = x.toGet /\ y.output = dpb.output \union ({d} \ {None})
  <2>1. dpb.output \union ({d} \ {None}) \in SUBSET Slot BY <1>2, <1>4
  <2>2. y \in Outputs BY <1>8, <2>1, SetOutput, Zenon
  <2> QED BY <1>8, <2>2 DEF Outputs
<1> HIDE DEF y
<1>10. e \in Outputs /\ e.toGet = y.toGet /\ e.output = y.output /\ e.queue = queue
  <2>1. e \in Outputs BY <1>7, <1>9, SetOutput, Zenon
  <2> QED BY <1>9, <2>1 DEF Outputs
<1> HIDE DEF e
<1>11. \A v \in View :
         Elements(e.queue[v]) = {s \in e.toGet \intersect e.output : frame[s].view = v}
  <2> TAKE v \in View
  <2>1. Elements(dpb.queue[v]) = {s \in dpb.toGet \intersect dpb.output : frame[s].view = v}
    BY DEF Holds
  <2>2. None \notin dpb.toGet BY <1>2 DEF None, Slot
  <2>3. e.toGet = dpb.toGet \ {b, d} /\ e.output = dpb.output \union ({d} \ {None})
    BY <1>8, <1>9, <1>10
  <2>4. CASE v = 0
    <3>1. Elements(e.queue[v]) = Elements(dpb.queue[v]) \ {b} BY <1>6, <1>10, <2>4
    <3> QED BY <1>4, <2>1, <2>2, <2>3, <2>4, <3>1
  <2>5. CASE v = 1
    <3>1. Elements(e.queue[v]) = Elements(dpb.queue[v]) \ {d} BY <1>6, <1>10, <2>5
    <3> QED BY <1>4, <2>1, <2>2, <2>3, <2>5, <3>1
  <2> QED BY <1>2, <2>4, <2>5
<1> QED BY <1>4, <1>5, <1>8, <1>9, <1>10, <1>11 DEF Holds, b, d

(* Pictures no longer awaited may be returned.                             *)
LEMMA ReturnHolds ==
  ASSUME NEW d, Holds(d, frame), NEW S, S \intersect d.toGet = {}
  PROVE  /\ Holds([d EXCEPT !.output = @ \ S], frame)
         /\ [d EXCEPT !.output = @ \ S].toGet = d.toGet
         /\ [d EXCEPT !.output = @ \ S].output = d.output \ S
<1> DEFINE e == [d EXCEPT !.output = @ \ S]
<1>1. d \in Outputs BY DEF Holds
<1>2. e = [d EXCEPT !.output = d.output \ S] BY <1>1 DEF Outputs
<1>3. d.output \ S \in SUBSET Slot BY <1>1 DEF Outputs
<1>4. e.toGet = d.toGet /\ e.output = d.output \ S /\ e.queue = d.queue BY <1>1 DEF Outputs
<1> HIDE DEF e
<1>5. e \in Outputs BY <1>1, <1>2, <1>3, SetOutput, Zenon
<1>6. Holds(e, frame) BY <1>4, <1>5 DEF Holds
<1> QED BY <1>4, <1>6 DEF e

LEMMA DropOrphansHolds ==
  ASSUME Holds(dpb, frame), DropOrphans
  PROVE  /\ Holds(dpb', frame) /\ dpb'.toGet \subseteq dpb.toGet
         /\ dpb'.output \ dpb'.toGet = dpb.output \ dpb.toGet
<1> DEFINE orphans == IF stream.mvc THEN Orphans ELSE {}
           left == LeftIn(dpb.queue[1], orphans)
           queue == [dpb.queue EXCEPT ![1] = left]
           x == [dpb EXCEPT !.toGet = dpb.toGet \ orphans]
           y == [x EXCEPT !.output = dpb.output \ orphans]
           e == [y EXCEPT !.queue = queue]
<1>1. dpb \in Outputs BY DEF Holds
<1>2. /\ dpb.toGet \subseteq Slot /\ dpb.output \subseteq Slot /\ dpb.queue \in [View -> Once]
      /\ 1 \in View
  BY <1>1 DEF Outputs, View
<1>3. orphans \subseteq Elements(dpb.queue[1]) BY DEF Orphans
<1>4. /\ orphans \subseteq dpb.toGet \intersect dpb.output
      /\ \A s \in orphans : frame[s].view = 1
  BY <1>2, <1>3 DEF Holds
<1>5. dpb' = e
  <2>1. dpb' = [dpb EXCEPT !.toGet = @ \ orphans, !.output = @ \ orphans,
                           !.queue[1] = LeftIn(@, orphans)]
    BY Zenon DEF DropOrphans
  <2> HIDE DEF orphans
  <2> QED BY <1>1, <2>1 DEF Outputs
<1> HIDE DEF orphans
<1>6. left \in Once /\ Elements(left) = Elements(dpb.queue[1]) \ orphans
  <2>1. dpb.queue[1] \in Once BY <1>2
  <2> QED BY <2>1, OnceLeft
<1> HIDE DEF left
<1>7. /\ queue \in [View -> Once] /\ queue[1] = left
      /\ \A v \in View : v # 1 => queue[v] = dpb.queue[v]
  BY <1>2, <1>6
<1> HIDE DEF queue
<1>8. x \in Outputs /\ x.toGet = dpb.toGet \ orphans
  <2>1. dpb.toGet \ orphans \in SUBSET Slot BY <1>2
  <2>2. x \in Outputs BY <1>1, <2>1, SetOutput, Zenon
  <2> QED BY <1>1, <2>2 DEF Outputs
<1> HIDE DEF x
<1>9. y \in Outputs /\ y.toGet = x.toGet /\ y.output = dpb.output \ orphans
  <2>1. dpb.output \ orphans \in SUBSET Slot BY <1>2
  <2>2. y \in Outputs BY <1>8, <2>1, SetOutput, Zenon
  <2> QED BY <1>8, <2>2 DEF Outputs
<1> HIDE DEF y
<1>10. e \in Outputs /\ e.toGet = y.toGet /\ e.output = y.output /\ e.queue = queue
  <2>1. e \in Outputs BY <1>7, <1>9, SetOutput, Zenon
  <2> QED BY <1>9, <2>1 DEF Outputs
<1> HIDE DEF e
<1>11. \A v \in View :
         Elements(e.queue[v]) = {s \in e.toGet \intersect e.output : frame[s].view = v}
  <2> TAKE v \in View
  <2>1. Elements(dpb.queue[v]) = {s \in dpb.toGet \intersect dpb.output : frame[s].view = v}
    BY DEF Holds
  <2>2. e.toGet = dpb.toGet \ orphans /\ e.output = dpb.output \ orphans
    BY <1>8, <1>9, <1>10
  <2>3. CASE v = 1
    <3>1. Elements(e.queue[v]) = Elements(dpb.queue[v]) \ orphans BY <1>6, <1>7, <1>10, <2>3
    <3> QED BY <2>1, <2>2, <2>3, <3>1
  <2>4. CASE v # 1
    <3>1. Elements(e.queue[v]) = Elements(dpb.queue[v]) BY <1>7, <1>10, <2>4
    <3> QED BY <1>4, <2>1, <2>2, <2>4, <3>1
  <2> QED BY <2>3, <2>4
<1> QED BY <1>4, <1>5, <1>8, <1>9, <1>10, <1>11 DEF Holds

-----------------------------------------------------------------------------
(* The invariant.                                                          *)
OutputInv == Holds(dpb, frame) /\ NumberedApart /\ ReceivedKept /\ ReceivedApart

LEMMA OutputFacts ==
  ASSUME MarkingInv, OutputInv
  PROVE  /\ dpb \in Outputs /\ dpb.toGet \subseteq Slot /\ dpb.output \subseteq Slot
         /\ frame \in [Slot -> Frame] /\ NumbersNatural /\ Holds(dpb, frame)
         /\ Apart(dpb.toGet)
<1>1. dpb \in Outputs BY DEF OutputInv, Holds
<1>2. dpb.toGet \subseteq Slot /\ dpb.output \subseteq Slot BY <1>1 DEF Outputs
<1>3. Apart(dpb.toGet) BY DEF OutputInv, NumberedApart, Numbered, Apart
<1> QED BY <1>1, <1>2, <1>3 DEF OutputInv, MarkingInv, PictureTypes

(* A step that keeps the numbers of the pictures to output and the NALs of *)
(* the others in output, starts no picture and gives none away.            *)
LEMMA OutputKeeps ==
  ASSUME MarkingInv, OutputInv, Holds(dpb', frame'),
         dpb'.output \ dpb'.toGet = dpb.output \ dpb.toGet, received' = received,
         \A s \in dpb.output : frame'[s].nal = frame[s].nal,
         currPic' = None \/ (currPic' = currPic /\ (Complete(currPic) => frame'[currPic].missing = {})),
         \A s \in Slot : s \in dpb'.toGet \union {currPic'} =>
                         s \in Numbered /\ frame'[s].id = frame[s].id,
         prevFrameId' \in Int, prevFrameId' >= prevFrameId
  PROVE  OutputInv'
<1>1. /\ dpb.toGet \subseteq Slot /\ dpb.output \subseteq Slot /\ frame \in [Slot -> Frame]
      /\ prevFrameId \in Int /\ \A s \in Slot : frame[s].id \in Int
  BY OutputFacts DEF MarkingInv, PictureTypes, Frame
<1>2. dpb' \in Outputs /\ dpb'.toGet \subseteq Slot BY DEF Holds, Outputs
<1>3. Holds(dpb, frame)' OBVIOUS
<1>4. NumberedApart'
  <2>1. \A s \in Numbered' : s \in Slot
    <3>1. currPic' \in Slot \union {None} BY DEF MarkingInv, PictureTypes
    <3> QED BY <1>2, <3>1 DEF Numbered
  <2>2. \A s \in Numbered' : s \in Slot /\ s \in Numbered /\ frame'[s].id = frame[s].id
    BY <2>1 DEF Numbered
  <2>3. \A s \in Numbered' : frame'[s].id <= prevFrameId'
    <3> TAKE s \in Numbered'
    <3>1. frame'[s].id \in Int /\ frame'[s].id <= prevFrameId
      BY <1>1, <2>2 DEF OutputInv, NumberedApart
    <3> QED BY <1>1, <3>1
  <2>4. \A s, t \in Numbered' : frame'[s].id = frame'[t].id => s = t
    BY <2>2 DEF OutputInv, NumberedApart
  <2> QED BY <2>3, <2>4 DEF NumberedApart
<1>5. ReceivedKept'
  <2> SUFFICES ASSUME NEW f \in received
               PROVE  /\ {f.base, f.dep} \ {None} \subseteq dpb'.output \ dpb'.toGet
                      /\ FrameOf(f.base)' \o FrameOf(f.dep)' = f.nals
    BY DEF ReceivedKept
  <2>1. /\ {f.base, f.dep} \ {None} \subseteq dpb.output \ dpb.toGet
        /\ FrameOf(f.base) \o FrameOf(f.dep) = f.nals
    BY DEF OutputInv, ReceivedKept
  <2>2. f.base # None => frame'[f.base].nal = frame[f.base].nal BY <2>1
  <2>3. f.dep # None => frame'[f.dep].nal = frame[f.dep].nal BY <2>1
  <2>4. FrameOf(f.base)' = FrameOf(f.base) /\ FrameOf(f.dep)' = FrameOf(f.dep)
    BY <2>2, <2>3 DEF FrameOf
  <2> QED BY <2>1, <2>4
<1>6. ReceivedApart'
  <2>1. None \notin dpb.output BY <1>1 DEF None, Slot
  <2>2. currPic' \in dpb.output \ dpb.toGet => frame'[currPic'].missing = {}
    BY <2>1 DEF OutputInv, ReceivedApart, WithCaller
  <2>3. (currPic \in WithCaller => Complete(currPic))' BY <2>2 DEF WithCaller, Complete
  <2>4. \A f, g \in received : f # g => SlotsOfFrame(f) \intersect SlotsOfFrame(g) = {}
    BY DEF OutputInv, ReceivedApart
  <2> QED BY <2>3, <2>4 DEF ReceivedApart
<1> QED BY <1>3, <1>4, <1>5, <1>6 DEF OutputInv

(* The queues do not depend on what is decoded meanwhile.                  *)
LEMMA HoldsOn ==
  ASSUME NEW d, Holds(d, frame), OnlyDecoded(frame, frame')
  PROVE  Holds(d, frame')
<1>1. d.toGet \subseteq Slot BY DEF Holds, Outputs
<1>2. \A s \in Slot : frame'[s].view = frame[s].view BY DEF OnlyDecoded
<1>3. \A v \in View : {s \in d.toGet \intersect d.output : frame'[s].view = v}
                         = {s \in d.toGet \intersect d.output : frame[s].view = v}
  BY <1>1, <1>2
<1> QED BY <1>3 DEF Holds

(* A step that only decodes and queues, or drops, and adds to the pictures *)
(* to output none but the open one, which is not complete.                 *)
Passing ==
  /\ OnlyDecoded(frame, frame') /\ Holds(dpb', frame)
  /\ dpb'.output \ dpb'.toGet = dpb.output \ dpb.toGet /\ received' = received
  /\ currPic' = None \/ currPic' = currPic
  /\ \A s \in dpb'.toGet \ dpb.toGet : s = currPic /\ ~Complete(s)
  /\ prevFrameId' = prevFrameId

LEMMA OutputPasses ==
  ASSUME MarkingInv, OutputInv, Passing
  PROVE  OutputInv'
<1> USE DEF Passing
<1>1. Holds(dpb', frame') BY HoldsOn
<1>2. \A s \in dpb.output : frame'[s].nal = frame[s].nal BY OutputFacts DEF OnlyDecoded
<1>3. currPic' = None \/ (currPic' = currPic /\ (Complete(currPic) => frame'[currPic].missing = {}))
  <2>1. SUFFICES ASSUME currPic' = currPic, currPic # None, Complete(currPic)
                 PROVE  frame'[currPic].missing = {}
    OBVIOUS
  <2>2. currPic \in Slot BY <2>1 DEF MarkingInv, PictureTypes
  <2> QED BY <2>1, <2>2 DEF Complete, OnlyDecoded
<1>4. \A s \in Slot : s \in dpb'.toGet \union {currPic'} =>
                      s \in Numbered /\ frame'[s].id = frame[s].id
  <2>1. \A s \in Slot : frame'[s].id = frame[s].id /\ s # None BY DEF OnlyDecoded, Slot, None
  <2> QED BY <2>1 DEF Numbered
<1>5. prevFrameId' \in Int /\ prevFrameId' >= prevFrameId BY DEF MarkingInv, PictureTypes
<1> QED BY <1>1, <1>2, <1>3, <1>4, <1>5, OutputKeeps

(* The same, for the operations on the queues.                             *)
LEMMA GrowthPasses ==
  ASSUME MarkingInv, OutputInv, OnlyDecoded(frame, frame'),
         Holds(dpb', frame), Grows(dpb, dpb'), received' = received,
         currPic' = None \/ currPic' = currPic, prevFrameId' = prevFrameId
  PROVE  Passing
BY DEF Grows, Passing

(* And one that leaves the queues alone.                                   *)
LEMMA SamePasses ==
  ASSUME MarkingInv, OutputInv, OnlyDecoded(frame, frame'), dpb' = dpb, received' = received,
         currPic' = None \/ currPic' = currPic, prevFrameId' = prevFrameId
  PROVE  Passing
<1>1. Holds(dpb', frame) /\ Grows(dpb, dpb') BY GrowsNot DEF OutputInv
<1> QED BY <1>1, GrowthPasses

-----------------------------------------------------------------------------
(* Steps that leave the queues alone.                                      *)
LEMMA CallsPasses ==
  ASSUME MarkingInv, OutputInv, SendNal \/ Flush \/ PassGate \/ Due \/ Receive \/ SendEnd
  PROVE  Passing
<1>1. UNCHANGED <<frame, dpb, received, currPic, prevFrameId>>
  BY DEF SendNal, Flush, PassGate, Due, Receive, SendEnd, Parsing, parseVars, idVars, outVars
<1>2. OnlyDecoded(frame, frame') BY <1>1, SameFramesOnly DEF MarkingInv, PictureTypes
<1> QED BY <1>1, <1>2, SamePasses

LEMMA FinishPasses ==
  ASSUME MarkingInv, OutputInv, NEW t \in tasks, Finish(t)
  PROVE  Passing
<1> DEFINE decoded == [frame EXCEPT ![t.slot].missing = @ \ t.parts]
<1>1. /\ UNCHANGED <<dpb, received, currPic, prevFrameId>>
      /\ frame' = Concealed(decoded, tasks', currPic, dpb.toGet)
  BY DEF Finish, parseVars, idVars, outVars
<1>2. OnlyDecoded(frame, decoded)
  <2>1. t.slot \in Slot BY DEF MarkingInv, PictureTypes, Task
  <2>2. \A s \in Slot : frame[s] \in Frame BY DEF MarkingInv, PictureTypes
  <2> QED BY <2>1, <2>2, ZenonT(60) DEF MarkingInv, PictureTypes, OnlyDecoded, Frame
<1> HIDE DEF decoded
<1>3. OnlyDecoded(frame, frame') BY <1>1, <1>2, ConcealedOnly
<1> QED BY <1>1, <1>3, SamePasses

-----------------------------------------------------------------------------
(* Steps that queue pictures, or drop some that are not queued.            *)
LEMMA QueueGatePasses ==
  ASSUME MarkingInv, OutputInv, QueueGate
  PROVE  Passing
<1>1. UNCHANGED <<frame, received, currPic, prevFrameId>> /\ dpb' \in {Unblocked, dpb}
  BY DEF QueueGate, Sending, parseVars, idVars, outVars
<1>2. OnlyDecoded(frame, frame') BY <1>1, SameFramesOnly DEF MarkingInv, PictureTypes
<1>3. CASE dpb' = dpb BY <1>1, <1>2, <1>3, SamePasses
<1>4. CASE dpb' = Unblocked
  <2>1. /\ Holds(dpb', frame) /\ dpb'.toGet \subseteq dpb.toGet
        /\ dpb'.output \ dpb'.toGet = dpb.output \ dpb.toGet
    BY <1>4, OutputFacts, UnblockedHolds
  <2> QED BY <1>1, <1>2, <2>1 DEF Passing
<1> QED BY <1>1, <1>3, <1>4

LEMMA StartSlicePasses ==
  ASSUME MarkingInv, OutputInv, StartSlice
  PROVE  Passing
<1> DEFINE n == stream.nals[at]
           new == StartsPicture(n)
           hidden == Concealed(frame, tasks, None, dpb.toGet)
<1>1. /\ IF new /\ ~Damaged(n) THEN EndPicture ELSE UNCHANGED <<parseVars, heldTask>>
      /\ UNCHANGED <<received, prevFrameId>>
      /\ dpb' \in {CatchUp(dpb), dpb} /\ frame' \in {frame, hidden}
  <2>1. /\ IF new /\ ~Damaged(n) THEN EndPicture ELSE UNCHANGED <<parseVars, heldTask>>
        /\ UNCHANGED prevFrameId
    BY DEF StartSlice, idVars
  <2> DEFINE alone == n.view = 1 /\ ~n.intra /\ basePic' = None
             gap == n.idr = 0 /\ FrameNumOf(prevRef'[n.view], n) > prevRef'[n.view].num + 1
  <2>2. IF Damaged(n) \/ alone
        THEN dpb' = CatchUp(dpb) /\ Sending("CORRUPT") /\ UNCHANGED frame
        ELSE /\ frame' = IF new /\ ~gap THEN Concealed(frame, tasks, None, dpb.toGet) ELSE frame
             /\ Parsing /\ UNCHANGED dpb
    BY Zenon DEF StartSlice
  <2> HIDE DEF n, new, alone, gap
  <2> QED BY <2>1, <2>2 DEF Sending, Parsing, outVars
<1>2. currPic' = None \/ currPic' = currPic
  <2> HIDE DEF n, new
  <2> QED BY <1>1 DEF EndPicture, parseVars
<1>3. OnlyDecoded(frame, frame')
  <2>1. OnlyDecoded(frame, frame) BY SameFramesOnly DEF MarkingInv, PictureTypes
  <2>2. OnlyDecoded(frame, hidden) BY <2>1, ConcealedOnly
  <2> HIDE DEF hidden
  <2> QED BY <1>1, <2>1, <2>2
<1>4. Holds(dpb', frame) /\ Grows(dpb, dpb')
  <2>1. Holds(dpb, frame) /\ Grows(dpb, dpb) BY OutputFacts, GrowsNot
  <2>2. Holds(CatchUp(dpb), frame) /\ Grows(dpb, CatchUp(dpb)) BY OutputFacts, CatchUpHolds
  <2> QED BY <1>1, <2>1, <2>2
<1> QED BY <1>1, <1>2, <1>3, <1>4, GrowthPasses

LEMMA NoSlotPasses ==
  ASSUME MarkingInv, OutputInv, GapFull \/ DpbFull
  PROVE  Passing
<1>1. PICK c, room, needed, taken : NoSlot(c, room, needed, taken) BY Zenon DEF GapFull, DpbFull
<1>2. /\ UNCHANGED <<frame, received, currPic, prevFrameId>>
      /\ BumpAll \/ dpb' = CatchUp(dpb)
  BY <1>1 DEF NoSlot, Sending, Parsing, parseVars, idVars, outVars
<1>3. OnlyDecoded(frame, frame') BY <1>2, SameFramesOnly DEF MarkingInv, PictureTypes
<1>4. Holds(dpb', frame) /\ Grows(dpb, dpb')
  BY <1>2, OutputFacts, BumpAllHolds, CatchUpHolds
<1> QED BY <1>2, <1>3, <1>4, GrowthPasses

LEMMA MakeRoomPasses ==
  ASSUME MarkingInv, OutputInv, MakeRoom
  PROVE  Passing
<1>1. PICK room, c : Room(room, c) BY Zenon DEF MakeRoom
<1>2. /\ Drained /\ UNCHANGED <<received, currPic, prevFrameId>>
      /\ dpb' \in {CatchUp(Requeue(dpb)), dpb}
  BY <1>1 DEF Room, Sending, Parsing, idVars, outVars
<1>3. OnlyDecoded(frame, frame') BY <1>2, DrainedOnly DEF MarkingInv, PictureTypes
<1>4. CASE dpb' = dpb BY <1>2, <1>3, <1>4, SamePasses
<1>5. CASE dpb' = CatchUp(Requeue(dpb))
  <2>1. Holds(Requeue(dpb), frame) /\ Grows(dpb, Requeue(dpb)) BY OutputFacts, RequeueHolds
  <2>2. Apart(Requeue(dpb).toGet) BY <2>1, OutputFacts DEF Grows
  <2>3. Holds(dpb', frame) /\ Grows(Requeue(dpb), dpb')
    BY <1>5, <2>1, <2>2, OutputFacts, CatchUpHolds
  <2>4. Grows(dpb, dpb') BY <2>1, <2>3, GrowsOn, Zenon
  <2> QED BY <1>2, <1>3, <2>3, <2>4, GrowthPasses
<1> QED BY <1>2, <1>4, <1>5

LEMMA StartGapPasses ==
  ASSUME MarkingInv, OutputInv, StartGap
  PROVE  Passing
<1>1. /\ call = "gap" /\ UNCHANGED <<frame, received, currPic, prevFrameId>>
  BY DEF StartGap, Parsing, idVars, outVars
<1>2. PICK k : dpb' = Bump(dpb, stream.nals[at].view, {}, k) BY Zenon DEF StartGap
<1>3. stream.nals[at].view \in View
  <2>1. at <= Len(stream.nals) BY <1>1 DEF MarkingInv, NalSent, Placing
  <2>2. stream.nals[at] \in Nal BY <2>1, NalTypes DEF MarkingInv
  <2> QED BY <2>2 DEF Nal, View
<1>4. OnlyDecoded(frame, frame') BY <1>1, SameFramesOnly DEF MarkingInv, PictureTypes
<1>5. Holds(dpb', frame) /\ Grows(dpb, dpb') BY <1>2, <1>3, OutputFacts, BumpHolds
<1> QED BY <1>1, <1>4, <1>5, GrowthPasses

LEMMA EndsPasses ==
  ASSUME MarkingInv, OutputInv, StartSequenceEnd \/ StartDrain
  PROVE  Passing
<1>1. /\ UNCHANGED <<frame, received, prevFrameId>>
      /\ currPic' = None \/ currPic' = currPic
      /\ BumpAll \/ dpb' = Unblocked \/ dpb' = dpb
  BY DEF StartSequenceEnd, StartDrain, EndPicture, Parsing, parseVars, idVars, outVars
<1>2. OnlyDecoded(frame, frame') BY <1>1, SameFramesOnly DEF MarkingInv, PictureTypes
<1>3. CASE BumpAll
  <2>1. Holds(dpb', frame) /\ Grows(dpb, dpb') BY <1>3, OutputFacts, BumpAllHolds
  <2> QED BY <1>1, <1>2, <2>1, GrowthPasses
<1>4. CASE dpb' = dpb BY <1>1, <1>2, <1>4, SamePasses
<1>5. CASE dpb' = Unblocked
  <2>1. /\ Holds(dpb', frame) /\ dpb'.toGet \subseteq dpb.toGet
        /\ dpb'.output \ dpb'.toGet = dpb.output \ dpb.toGet
    BY <1>5, OutputFacts, UnblockedHolds
  <2> QED BY <1>1, <1>2, <2>1 DEF Passing
<1> QED BY <1>1, <1>3, <1>4, <1>5

LEMMA DrainPasses ==
  ASSUME MarkingInv, OutputInv, Drain
  PROVE  Passing
<1>1. Drained /\ UNCHANGED <<received, currPic, prevFrameId>> /\ dpb' = Requeue(dpb)
  BY DEF Drain, parseVars, idVars, outVars
<1>2. OnlyDecoded(frame, frame') BY <1>1, DrainedOnly DEF MarkingInv, PictureTypes
<1>3. Holds(dpb', frame) /\ Grows(dpb, dpb') BY <1>1, OutputFacts, RequeueHolds
<1> QED BY <1>1, <1>2, <1>3, GrowthPasses

LEMMA NoFramePasses ==
  ASSUME MarkingInv, OutputInv, NoFrame
  PROVE  Passing
<1>1. DropOrphans /\ UNCHANGED <<frame, received, currPic, prevFrameId>>
  BY DEF NoFrame, parseVars, idVars, outVars
<1>2. OnlyDecoded(frame, frame') BY <1>1, SameFramesOnly DEF MarkingInv, PictureTypes
<1>3. /\ Holds(dpb', frame) /\ dpb'.toGet \subseteq dpb.toGet
      /\ dpb'.output \ dpb'.toGet = dpb.output \ dpb.toGet
  BY <1>1, OutputFacts, DropOrphansHolds
<1> QED BY <1>1, <1>2, <1>3 DEF Passing

-----------------------------------------------------------------------------
(* A decoder that forgets everything keeps what the caller has.            *)
LEMMA ClearOutput ==
  ASSUME MarkingInv, OutputInv, Clear(frame)
  PROVE  OutputInv'
<1> DEFINE empty == [v \in View |-> <<>>]
           zero == [s \in Slot |-> 0]
           a == [dpb EXCEPT !.toGet = {}]
           b == [a EXCEPT !.output = WithCaller]
           c == [b EXCEPT !.queue = empty]
           e == [c EXCEPT !.rank = zero]
           cleared(s) == [frame[s] EXCEPT !.view = 0, !.num = 0, !.poc = 0, !.id = 0,
                                          !.before = 0, !.after = 0]
<1>1. /\ dpb' = e /\ frame' = [s \in Slot |-> cleared(s)] /\ currPic' = None
      /\ UNCHANGED <<received, prevFrameId>>
  BY OutputFacts DEF Clear, Outputs
<1>2. dpb \in Outputs /\ WithCaller \in SUBSET Slot BY OutputFacts DEF WithCaller
<1>3. empty \in [View -> Once] /\ \A v \in View : Elements(empty[v]) = {}
  <2>1. <<>> \in Once BY DEF Once, Distinct
  <2>2. Elements(<<>>) = {} BY DEF Elements
  <2> QED BY <2>1, <2>2
<1>4. zero \in [Slot -> Nat] OBVIOUS
<1> HIDE DEF empty, zero
<1>5. a \in Outputs /\ a.toGet = {}
  <2>1. a \in Outputs BY <1>2, SetOutput, Zenon
  <2> QED BY <1>2, <2>1 DEF Outputs
<1> HIDE DEF a
<1>6. b \in Outputs /\ b.toGet = {} /\ b.output = WithCaller
  <2>1. b \in Outputs BY <1>2, <1>5, SetOutput, Zenon
  <2> QED BY <1>5, <2>1 DEF Outputs
<1> HIDE DEF b
<1>7. c \in Outputs /\ c.toGet = {} /\ c.output = WithCaller /\ c.queue = empty
  <2>1. c \in Outputs BY <1>3, <1>6, SetOutput, Zenon
  <2> QED BY <1>6, <2>1 DEF Outputs
<1> HIDE DEF c
<1>8. e \in Outputs /\ e.toGet = {} /\ e.output = WithCaller /\ e.queue = empty
  <2>1. e \in Outputs BY <1>4, <1>7, SetOutput, Zenon
  <2> QED BY <1>7, <2>1 DEF Outputs
<1> HIDE DEF e
<1>9. Holds(dpb', frame') BY <1>1, <1>3, <1>8 DEF Holds
<1>10. \A s \in Slot : frame'[s].nal = frame[s].nal
  <2>1. \A s \in Slot : cleared(s).nal = frame[s].nal BY OutputFacts, ClearedFrame, Zenon
  <2> HIDE DEF cleared
  <2> QED BY <1>1, <2>1
<1>11. \A s \in dpb.output : frame'[s].nal = frame[s].nal BY <1>10, OutputFacts
<1>12. dpb'.output \ dpb'.toGet = dpb.output \ dpb.toGet BY <1>1, <1>8 DEF WithCaller
<1> HIDE DEF cleared
<1>13. \A s \in Slot : s \notin dpb'.toGet \union {currPic'}
  <2>1. \A s \in Slot : s # None BY DEF None, Slot
  <2>2. dpb'.toGet = {} /\ currPic' = None BY <1>1, <1>8
  <2> QED BY <2>1, <2>2
<1>14. prevFrameId' \in Int /\ prevFrameId' >= prevFrameId
  <2>1. prevFrameId \in Int BY DEF MarkingInv, PictureTypes
  <2>2. prevFrameId' = prevFrameId BY <1>1
  <2> QED BY <2>1, <2>2
<1> QED BY <1>1, <1>9, <1>11, <1>12, <1>13, <1>14, OutputKeeps

LEMMA EndSequencePasses ==
  ASSUME MarkingInv, OutputInv, EndSequence \/ Flushed
  PROVE  Passing \/ Clear(frame)
<1>1. \/ /\ Drained /\ dpb' = CatchUp(Requeue(dpb))
         /\ UNCHANGED <<received, currPic, prevFrameId>>
      \/ Clear(frame)
  BY Zenon DEF EndSequence, Flushed, Sending, parseVars, idVars, outVars
<1>2. CASE /\ Drained /\ dpb' = CatchUp(Requeue(dpb))
           /\ UNCHANGED <<received, currPic, prevFrameId>>
  <2>1. OnlyDecoded(frame, frame') BY <1>2, DrainedOnly DEF MarkingInv, PictureTypes
  <2>2. Holds(Requeue(dpb), frame) /\ Grows(dpb, Requeue(dpb)) BY OutputFacts, RequeueHolds
  <2>3. Apart(Requeue(dpb).toGet) BY <2>2, OutputFacts DEF Grows
  <2>4. Holds(dpb', frame) /\ Grows(Requeue(dpb), dpb')
    BY <1>2, <2>2, <2>3, OutputFacts, CatchUpHolds
  <2>5. Grows(dpb, dpb') BY <2>2, <2>4, GrowsOn, Zenon
  <2> QED BY <1>2, <2>1, <2>4, <2>5, GrowthPasses
<1> QED BY <1>1, <1>2

-----------------------------------------------------------------------------
(* Steps that start a picture, or deliver and return some.                 *)
LEMMA InsertSlicePasses ==
  ASSUME MarkingInv, OutputInv, SlicesNew, InsertSlice
  PROVE  Passing
<1> DEFINE n == stream.nals[at]
           old == refs \intersect OfView(n.view)
           window == IF n.ref THEN Window(n, old) ELSE old
           bumped == Bump(dpb, n.view, {currPic}, MaxFrames)
           prior == IF n.ref /\ n.idr # 0 THEN bumped ELSE dpb
           hidden == Concealed(frame, tasks', currPic, dpb'.toGet)
<1>1. call = "insert" /\ UNCHANGED <<received, currPic, prevFrameId>>
  BY DEF InsertSlice, Sending, idVars, outVars
<1>2. \/ dpb' = CatchUp(dpb) /\ UNCHANGED frame
      \/ /\ \/ currPic \in prior.toGet /\ dpb' = CatchUp(prior)
            \/ /\ currPic \notin prior.toGet
               /\ Insert(prior, n, (refs \ OfView(n.view)) \union window)
         /\ frame' = hidden
  <2>1. IF n.bad THEN dpb' = CatchUp(dpb) /\ UNCHANGED frame
        ELSE /\ \E d \in {prior} :
                   IF currPic \in d.toGet THEN dpb' = CatchUp(d)
                   ELSE Insert(d, n, (refs \ OfView(n.view)) \union window)
             /\ frame' = hidden
    BY Zenon DEF InsertSlice, taskVars
  <2> HIDE DEF n, window, prior, hidden
  <2> QED BY <2>1
<1>3. /\ n.view \in View /\ currPic \in Slot /\ frame[currPic].view = n.view /\ ~Complete(currPic)
  <2>1. at <= Len(stream.nals) /\ currPic # None /\ frame[currPic].view = n.view
    BY <1>1 DEF MarkingInv, NalSent
  <2>2. n \in Nal BY <2>1, NalTypes DEF MarkingInv
  <2>3. currPic \in Slot BY <2>1 DEF MarkingInv, PictureTypes
  <2> QED BY <1>1, <2>1, <2>2, <2>3 DEF Nal, View, SlicesNew, Complete
<1> HIDE DEF n
<1>4. OnlyDecoded(frame, frame')
  <2>1. OnlyDecoded(frame, frame) BY SameFramesOnly DEF MarkingInv, PictureTypes
  <2> DEFINE concealed(ts, toGet) == Concealed(frame, ts, currPic, toGet)
  <2>2. \A ts, toGet : OnlyDecoded(frame, concealed(ts, toGet)) BY <2>1, ConcealedOnly
  <2>3. frame' = frame \/ frame' = concealed(tasks', dpb'.toGet) BY <1>2
  <2> HIDE DEF concealed
  <2> QED BY <2>1, <2>2, <2>3
<1> HIDE DEF window, hidden
<1>5. Holds(prior, frame) /\ Grows(dpb, prior)
  <2>1. Holds(bumped, frame) /\ Grows(dpb, bumped) BY <1>3, OutputFacts, BumpHolds
  <2>2. Holds(dpb, frame) /\ Grows(dpb, dpb) BY OutputFacts, GrowsNot
  <2> HIDE DEF bumped
  <2> QED BY <2>1, <2>2
<1> HIDE DEF prior
<1>6. CASE dpb' = CatchUp(dpb)
  <2>1. Holds(dpb', frame) /\ Grows(dpb, dpb') BY <1>6, OutputFacts, CatchUpHolds
  <2> QED BY <1>1, <1>4, <2>1, GrowthPasses
<1>7. CASE dpb' = CatchUp(prior)
  <2>1. Apart(prior.toGet) BY <1>5, OutputFacts DEF Grows
  <2>2. Holds(dpb', frame) /\ Grows(prior, dpb')
    BY <1>5, <1>7, <2>1, OutputFacts, CatchUpHolds
  <2>3. Grows(dpb, dpb') BY <1>5, <2>2, GrowsOn, Zenon
  <2> QED BY <1>1, <1>4, <2>2, <2>3, GrowthPasses
<1>8. CASE /\ currPic \notin prior.toGet
           /\ Insert(prior, n, (refs \ OfView(n.view)) \union window)
  <2>1. currPic # None /\ Numbered = dpb.toGet \union {currPic}
    BY <1>3 DEF Numbered, None, Slot
  <2>2. Apart(prior.toGet \union {currPic})
    BY <1>5, <2>1 DEF Grows, Apart, OutputInv, NumberedApart
  <2>3. currPic \notin prior.output /\ currPic \notin dpb.output
    BY <1>3, <1>5, <1>8 DEF Grows, OutputInv, ReceivedApart, WithCaller
  <2> DEFINE references == (refs \ OfView(n.view)) \union window
  <2>4. Insert(prior, n, references) BY <1>8
  <2> HIDE DEF references
  <2>5. /\ Holds(dpb', frame) /\ dpb'.toGet = prior.toGet \union {currPic}
        /\ prior.output \subseteq dpb'.output
        /\ dpb'.output \subseteq prior.output \union prior.toGet \union {currPic}
    BY <1>3, <1>5, <1>8, <2>2, <2>3, <2>4, OutputFacts, InsertHolds
  <2>6. dpb'.output \ dpb'.toGet = dpb.output \ dpb.toGet BY <1>5, <2>3, <2>5 DEF Grows
  <2>7. \A s \in dpb'.toGet \ dpb.toGet : s = currPic /\ ~Complete(s) BY <1>3, <1>5, <2>5 DEF Grows
  <2> QED BY <1>1, <1>4, <2>5, <2>6, <2>7 DEF Passing
<1> QED BY <1>2, <1>6, <1>7, <1>8

(* The new picture takes a slot that is not awaited, nor with the caller.  *)
LEMMA AllocSlotKeeps ==
  ASSUME MarkingInv, OutputInv, AllocSlot
  PROVE  /\ call = "slot" /\ call' = "insert" /\ UNCHANGED <<at, dpb, received>>
         /\ prevFrameId' = prevFrameId + 1
         /\ currPic' \in Slot /\ currPic' \notin dpb.toGet /\ currPic' \notin dpb.output
         /\ frame'[currPic'].nal = at /\ frame'[currPic'].id = prevFrameId'
         /\ \A x \in Slot \ {currPic'} :
              /\ frame'[x].nal = frame[x].nal /\ frame'[x].view = frame[x].view
              /\ frame'[x].id = frame[x].id /\ frame'[x].missing = frame[x].missing
<1> DEFINE n == stream.nals[at]
           free == Slot \ (Taken \union Busy)
           s == CHOOSE x \in free : \A y \in free : x <= y
           id == prevFrameId + 1
           num == FrameNumOf(prevRef[n.view], n)
           order == PocOf(prevRef[n.view], n)
           before == IF n.view = 1 THEN lastBaseId ELSE frame[s].before
           after == IF n.view = 1 THEN 0 ELSE frame[s].after
           new == [nal |-> at, from |-> at, view |-> n.view, num |-> num, poc |-> order,
                   missing |-> Part, id |-> id, before |-> before, after |-> after]
           later(x) == n.view = 0 /\ frame[x].view = 1 /\ frame[x].after = 0
<1>1. /\ call = "slot" /\ call' = "insert" /\ free # {}
      /\ currPic' = s /\ prevFrameId' = id
      /\ frame' = [x \in Slot |-> IF x = s THEN new
                                  ELSE IF later(x) THEN [frame[x] EXCEPT !.after = id + 1]
                                  ELSE frame[x]]
      /\ UNCHANGED <<at, dpb, received>>
  BY Zenon DEF AllocSlot, Parsing, outVars
<1>2. id = prevFrameId + 1 OBVIOUS
<1>3. s \in Slot /\ s \notin dpb.toGet /\ s \notin dpb.output
  <2>1. free \in SUBSET Nat BY DEF Slot
  <2>2. \E x \in free : \A y \in free : x <= y BY <1>1, <2>1, LeastOfNats, Zenon
  <2>3. s \in free
    <3> HIDE DEF free
    <3> QED BY <2>2, Zenon
  <2> HIDE DEF s
  <2> QED BY <2>3 DEF Taken, Held
<1>4. new.id = id /\ new.nal = at OBVIOUS
<1> HIDE DEF n, s, num, order, id, new, before, after
<1>5. \A x \in Slot : x # s => /\ frame'[x].nal = frame[x].nal /\ frame'[x].view = frame[x].view
                               /\ frame'[x].id = frame[x].id
                               /\ frame'[x].missing = frame[x].missing
  <2> TAKE x \in Slot
  <2>1. frame[x] \in Frame BY OutputFacts
  <2>2. x # s => frame'[x] = frame[x] \/ frame'[x] = [frame[x] EXCEPT !.after = id + 1]
    <3> HIDE DEF later
    <3> QED BY <1>1
  <2> QED BY <2>1, <2>2 DEF Frame
<1>6. frame'[s].id = id /\ frame'[s].nal = at BY <1>1, <1>3, <1>4
<1> QED BY <1>1, <1>2, <1>3, <1>5, <1>6

LEMMA AllocSlotOutput ==
  ASSUME MarkingInv, OutputInv, AllocSlot
  PROVE  OutputInv'
<1> DEFINE s == currPic'
<1>1. UNCHANGED <<dpb, received>> /\ s \in Slot /\ s \notin dpb.toGet /\ s \notin dpb.output
  BY AllocSlotKeeps
<1>2. /\ prevFrameId \in Int /\ prevFrameId' \in Int /\ prevFrameId' > prevFrameId
      /\ frame'[s].id = prevFrameId'
  BY AllocSlotKeeps DEF MarkingInv, PictureTypes
<1>3. \A x \in Slot : x # s => /\ frame'[x].nal = frame[x].nal /\ frame'[x].view = frame[x].view
                               /\ frame'[x].id = frame[x].id
  BY AllocSlotKeeps
<1>4. dpb.toGet \subseteq Slot /\ dpb.output \subseteq Slot BY OutputFacts
<1>5. Holds(dpb, frame)'
  <2>1. \A v \in View : {x \in dpb.toGet \intersect dpb.output : frame'[x].view = v}
                          = {x \in dpb.toGet \intersect dpb.output : frame[x].view = v}
    BY <1>1, <1>3, <1>4
  <2> QED BY <1>1, <2>1, OutputFacts DEF Holds
<1>6. NumberedApart'
  <2>1. Numbered' \subseteq dpb.toGet \union {s} BY <1>1 DEF Numbered
  <2>2. \A x \in dpb.toGet : /\ frame'[x].id = frame[x].id /\ frame[x].id \in Int
                             /\ frame[x].id <= prevFrameId
    BY <1>1, <1>3, <1>4, OutputFacts DEF Frame, OutputInv, NumberedApart, Numbered
  <2>3. \A x \in Numbered' : frame'[x].id <= prevFrameId'
    <3>1. \A x \in dpb.toGet : frame'[x].id <= prevFrameId' BY <1>1, <1>2, <2>2
    <3>2. frame'[s].id <= prevFrameId' BY <1>1, <1>2
    <3> QED BY <2>1, <3>1, <3>2
  <2>4. \A x, y \in Numbered' : frame'[x].id = frame'[y].id => x = y
    <3>1. \A x, y \in dpb.toGet : frame'[x].id = frame'[y].id => x = y
      BY <2>2, OutputFacts DEF Apart
    <3>2. \A x \in dpb.toGet : frame'[x].id # frame'[s].id BY <1>2, <2>2
    <3> QED BY <2>1, <3>1, <3>2
  <2> QED BY <2>3, <2>4 DEF NumberedApart
<1>7. ReceivedKept'
  <2> SUFFICES ASSUME NEW f \in received
               PROVE  /\ {f.base, f.dep} \ {None} \subseteq dpb.output \ dpb.toGet
                      /\ FrameOf(f.base)' \o FrameOf(f.dep)' = f.nals
    BY <1>1 DEF ReceivedKept
  <2>1. /\ {f.base, f.dep} \ {None} \subseteq dpb.output \ dpb.toGet
        /\ FrameOf(f.base) \o FrameOf(f.dep) = f.nals
    BY DEF OutputInv, ReceivedKept
  <2>2. f.base # None => frame'[f.base].nal = frame[f.base].nal BY <1>1, <1>3, <1>4, <2>1
  <2>3. f.dep # None => frame'[f.dep].nal = frame[f.dep].nal BY <1>1, <1>3, <1>4, <2>1
  <2>4. FrameOf(f.base)' = FrameOf(f.base) /\ FrameOf(f.dep)' = FrameOf(f.dep)
    BY <2>2, <2>3 DEF FrameOf
  <2> QED BY <2>1, <2>4
<1>8. ReceivedApart'
  <2>1. currPic' \notin WithCaller' BY <1>1 DEF WithCaller
  <2> QED BY <1>1, <2>1 DEF OutputInv, ReceivedApart
<1> QED BY <1>5, <1>6, <1>7, <1>8 DEF OutputInv

(* The frames inferred for a gap take none of those slots either.          *)
LEMMA FillGapKeeps ==
  ASSUME MarkingInv, OutputInv, FillGap
  PROVE  /\ currPic = None /\ UNCHANGED <<dpb, received, currPic>>
         /\ prevFrameId' \in Int /\ prevFrameId' >= prevFrameId
         /\ \A s \in Slot : s \in dpb.toGet \union dpb.output =>
              /\ frame'[s].nal = frame[s].nal /\ frame'[s].id = frame[s].id
              /\ frame'[s].view = frame[s].view /\ frame'[s].missing \subseteq frame[s].missing
<1> DEFINE n == stream.nals[at]
           m == Inferred(n)
           free == Slot \ (Held \union Busy)
           lower(s) == Cardinality({x \in free : x < s})
           num == FrameNumOf(prevRef[n.view], n)
           inferred(s) == [frame[s] EXCEPT !.nal = 0,
                                           !.from = IF source = None THEN 0 ELSE frame[source].from,
                                           !.view = n.view, !.num = num - m + lower(s), !.poc = 0,
                                           !.missing = {}, !.id = prevFrameId + 1 + lower(s)]
           filled == [s \in Slot |->
                        IF s \in free /\ lower(s) < m THEN inferred(s)
                        ELSE IF s = source THEN [frame[s] EXCEPT !.missing = {}] ELSE frame[s]]
           hidden(f) == Concealed(f, tasks, None, dpb.toGet)
<1>1. /\ call = "fill" /\ frame' = hidden(filled) /\ prevFrameId' = prevFrameId + m
      /\ UNCHANGED <<dpb, received, currPic>>
  BY Zenon DEF FillGap, Parsing, outVars
<1>2. at <= Len(stream.nals) /\ currPic = None BY <1>1 DEF MarkingInv, NalSent, Placing
<1>3. m \in Nat
  <2>1. n \in Nal /\ PictureTypes BY <1>2, NalTypes DEF MarkingInv
  <2> QED BY <2>1, InferredType
<1>4. \A s \in Slot : s \in dpb.toGet \union dpb.output => s \notin free BY DEF Held
<1> HIDE DEF n, m, free, lower, num, inferred
<1>5. \A s \in Slot : s \in dpb.toGet \union dpb.output =>
        filled[s] = frame[s] \/ filled[s] = [frame[s] EXCEPT !.missing = {}]
  BY <1>4
<1> HIDE DEF filled
<1>6. \A s \in Slot : frame'[s] = filled[s] \/ frame'[s] = [filled[s] EXCEPT !.missing = {}]
  BY <1>1 DEF Concealed
<1> HIDE DEF hidden
<1>7. \A s \in Slot : s \in dpb.toGet \union dpb.output =>
        /\ frame'[s].nal = frame[s].nal /\ frame'[s].id = frame[s].id
        /\ frame'[s].view = frame[s].view /\ frame'[s].missing \subseteq frame[s].missing
  <2> SUFFICES ASSUME NEW s \in Slot, s \in dpb.toGet \union dpb.output
               PROVE  /\ frame'[s].nal = frame[s].nal /\ frame'[s].id = frame[s].id
                      /\ frame'[s].view = frame[s].view
                      /\ frame'[s].missing \subseteq frame[s].missing
    OBVIOUS
  <2>1. frame[s] \in Frame /\ {} \in SUBSET Part BY OutputFacts
  <2>2. filled[s] = frame[s] \/ filled[s] = [frame[s] EXCEPT !.missing = {}] BY <1>5
  <2>3. filled[s] \in Frame BY <2>1, <2>2, SetField, Zenon
  <2>4. /\ filled[s].nal = frame[s].nal /\ filled[s].id = frame[s].id
        /\ filled[s].view = frame[s].view /\ filled[s].missing \subseteq frame[s].missing
    BY <2>1, <2>2 DEF Frame
  <2>5. frame'[s] = filled[s] \/ frame'[s] = [filled[s] EXCEPT !.missing = {}] BY <1>6
  <2>6. /\ frame'[s].nal = filled[s].nal /\ frame'[s].id = filled[s].id
        /\ frame'[s].view = filled[s].view /\ frame'[s].missing \subseteq filled[s].missing
    BY <2>3, <2>5 DEF Frame
  <2> QED BY <2>4, <2>6
<1>8. prevFrameId' \in Int /\ prevFrameId' >= prevFrameId
  <2>1. prevFrameId \in Int BY DEF MarkingInv, PictureTypes
  <2> QED BY <1>1, <1>3, <2>1
<1> QED BY <1>1, <1>2, <1>7, <1>8

LEMMA FillGapOutput ==
  ASSUME MarkingInv, OutputInv, FillGap
  PROVE  OutputInv'
<1>1. dpb.toGet \subseteq Slot /\ dpb.output \subseteq Slot BY OutputFacts
<1>2. Holds(dpb', frame')
  <2>1. \A v \in View : {x \in dpb.toGet \intersect dpb.output : frame'[x].view = v}
                          = {x \in dpb.toGet \intersect dpb.output : frame[x].view = v}
    BY <1>1, FillGapKeeps
  <2> QED BY <2>1, FillGapKeeps, OutputFacts DEF Holds
<1>3. \A s \in dpb.output : frame'[s].nal = frame[s].nal BY <1>1, FillGapKeeps
<1>4. \A s \in Slot : s \in dpb'.toGet \union {currPic'} =>
                       s \in Numbered /\ frame'[s].id = frame[s].id
  <2>1. \A s \in Slot : s # None BY DEF None, Slot
  <2> QED BY <2>1, FillGapKeeps DEF Numbered
<1> QED BY <1>2, <1>3, <1>4, FillGapKeeps, OutputKeeps

LEMMA SkipLeadingPasses ==
  ASSUME MarkingInv, OutputInv, SkipLeading
  PROVE  Passing
<1> DEFINE S == {NextBase, NextDependent}
<1>1. /\ Ready # {} /\ UNCHANGED <<frame, received, currPic, prevFrameId>>
      /\ dpb' = [Delivered EXCEPT !.output = @ \ S]
  BY DEF SkipLeading, Deliverable, parseVars, idVars
<1>2. /\ Holds(Delivered, frame) /\ Delivered.toGet = dpb.toGet \ {NextBase, NextDependent}
      /\ Delivered.output = dpb.output \union ({NextDependent} \ {None})
      /\ NextBase \in dpb.toGet \intersect dpb.output
      /\ NextDependent # None => NextDependent \in dpb.toGet
  BY <1>1, OutputFacts, DeliveredHolds
<1> HIDE DEF Delivered
<1>3. S \intersect Delivered.toGet = {} BY <1>2
<1> HIDE DEF S
<1>4. /\ Holds(dpb', frame) /\ dpb'.toGet = Delivered.toGet
      /\ dpb'.output = Delivered.output \ S
  BY <1>1, <1>2, <1>3, ReturnHolds
<1>5. dpb'.output \ dpb'.toGet = dpb.output \ dpb.toGet
  <2>1. None \notin dpb.output BY OutputFacts DEF None, Slot
  <2> QED BY <1>2, <1>4, <2>1 DEF S
<1>6. dpb'.toGet \subseteq dpb.toGet BY <1>2, <1>4
<1>7. OnlyDecoded(frame, frame') BY <1>1, SameFramesOnly DEF MarkingInv, PictureTypes
<1> QED BY <1>1, <1>4, <1>5, <1>6, <1>7 DEF Passing

LEMMA GiveFrameOutput ==
  ASSUME MarkingInv, OutputInv, GiveFrame
  PROVE  OutputInv'
<1> DEFINE f == [base |-> NextBase, dep |-> NextDependent, display |-> ShownNext[0].prev,
                 nals |-> FrameOf(NextBase) \o FrameOf(NextDependent)]
<1>1. /\ Ready # {} /\ UNCHANGED <<frame, currPic, prevFrameId>> /\ dpb' = Delivered
      /\ received' = received \union {f}
  BY DEF GiveFrame, Deliverable, parseVars, idVars
<1>2. /\ Holds(Delivered, frame) /\ Delivered.toGet = dpb.toGet \ {NextBase, NextDependent}
      /\ Delivered.output = dpb.output \union ({NextDependent} \ {None})
      /\ NextBase \in dpb.toGet \intersect dpb.output
      /\ NextDependent # None => NextDependent \in dpb.toGet
  BY <1>1, OutputFacts, DeliveredHolds
<1>3. /\ Complete(NextBase) \/ NextBase # currPic
      /\ NextDependent # None => Complete(NextDependent)
  BY <1>1, OutputFacts, NextTypes
<1>4. dpb.toGet \subseteq Slot /\ dpb.output \subseteq Slot BY OutputFacts
<1>5. None \notin dpb.toGet BY <1>4 DEF None, Slot
<1>6. /\ f.base = NextBase /\ f.dep = NextDependent
      /\ f.nals = FrameOf(NextBase) \o FrameOf(NextDependent)
  OBVIOUS
<1> HIDE DEF f, NextBase, NextDependent, Delivered
<1>7. Holds(dpb, frame)' BY <1>1, <1>2
<1>8. NumberedApart'
  <2>1. Numbered' \subseteq Numbered BY <1>1, <1>2 DEF Numbered
  <2> QED BY <1>1, <2>1 DEF OutputInv, NumberedApart
<1>9. WithCaller' = WithCaller \union SlotsOfFrame(f)
      /\ WithCaller \intersect SlotsOfFrame(f) = {}
  BY <1>1, <1>2, <1>4, <1>5, <1>6 DEF WithCaller, SlotsOfFrame
<1>10. \A g \in received : SlotsOfFrame(g) \subseteq WithCaller
  BY DEF OutputInv, ReceivedKept, SlotsOfFrame, WithCaller
<1>11. ReceivedKept'
  <2> SUFFICES ASSUME NEW g \in received \union {f}
               PROVE  /\ SlotsOfFrame(g) \subseteq WithCaller'
                      /\ FrameOf(g.base)' \o FrameOf(g.dep)' = g.nals
    BY <1>1 DEF ReceivedKept, SlotsOfFrame, WithCaller
  <2>1. FrameOf(g.base)' = FrameOf(g.base) /\ FrameOf(g.dep)' = FrameOf(g.dep)
    BY <1>1 DEF FrameOf
  <2>2. CASE g = f BY <1>6, <1>9, <2>1, <2>2
  <2>3. CASE g \in received BY <1>9, <1>10, <2>1, <2>3 DEF OutputInv, ReceivedKept
  <2> QED BY <2>2, <2>3
<1>12. ReceivedApart'
  <2>1. \A g, h \in received : g # h => SlotsOfFrame(g) \intersect SlotsOfFrame(h) = {}
    BY DEF OutputInv, ReceivedApart
  <2>2. \A g, h \in received' : g # h => SlotsOfFrame(g) \intersect SlotsOfFrame(h) = {}
    BY <1>1, <1>9, <1>10, <2>1
  <2>3. currPic \in WithCaller => Complete(currPic) BY DEF OutputInv, ReceivedApart
  <2>4. currPic \in SlotsOfFrame(f) => Complete(currPic) BY <1>3, <1>6 DEF SlotsOfFrame
  <2>5. (currPic \in WithCaller => Complete(currPic))'
    BY <1>1, <1>9, <2>3, <2>4 DEF Complete
  <2> QED BY <2>2, <2>5 DEF ReceivedApart
<1> QED BY <1>7, <1>8, <1>11, <1>12 DEF OutputInv

LEMMA ReleaseOutput ==
  ASSUME MarkingInv, OutputInv, NEW f \in received, Release(f)
  PROVE  OutputInv'
<1> DEFINE S == {f.base, f.dep}
<1>1. /\ UNCHANGED <<frame, currPic, prevFrameId>> /\ received' = received \ {f}
      /\ dpb' = [dpb EXCEPT !.output = @ \ S]
  BY DEF Release, parseVars, idVars
<1>2. dpb.toGet \subseteq Slot /\ dpb.output \subseteq Slot BY OutputFacts
<1>3. None \notin dpb.toGet /\ None \notin dpb.output BY <1>2 DEF None, Slot
<1>4. \A g \in received : SlotsOfFrame(g) \subseteq WithCaller
  BY DEF OutputInv, ReceivedKept, SlotsOfFrame, WithCaller
<1>5. S \intersect dpb.toGet = {} BY <1>3, <1>4 DEF SlotsOfFrame, WithCaller
<1>6. S \ {None} = SlotsOfFrame(f) BY DEF SlotsOfFrame
<1> HIDE DEF S
<1>7. /\ Holds(dpb', frame) /\ dpb'.toGet = dpb.toGet /\ dpb'.output = dpb.output \ S
  BY <1>1, <1>5, OutputFacts, ReturnHolds
<1>8. Holds(dpb, frame)' BY <1>1, <1>7
<1>9. NumberedApart'
  <2>1. Numbered' = Numbered BY <1>1, <1>7 DEF Numbered
  <2> QED BY <1>1, <2>1 DEF OutputInv, NumberedApart
<1>10. WithCaller' = WithCaller \ SlotsOfFrame(f) BY <1>3, <1>6, <1>7 DEF WithCaller
<1>11. \A g, h \in received : g # h => SlotsOfFrame(g) \intersect SlotsOfFrame(h) = {}
  BY DEF OutputInv, ReceivedApart
<1>12. ReceivedKept'
  <2> SUFFICES ASSUME NEW g \in received, g # f
               PROVE  /\ SlotsOfFrame(g) \subseteq WithCaller'
                      /\ FrameOf(g.base)' \o FrameOf(g.dep)' = g.nals
    BY <1>1 DEF ReceivedKept, SlotsOfFrame, WithCaller
  <2>1. FrameOf(g.base)' = FrameOf(g.base) /\ FrameOf(g.dep)' = FrameOf(g.dep)
    BY <1>1 DEF FrameOf
  <2>2. SlotsOfFrame(g) \intersect SlotsOfFrame(f) = {} BY <1>11
  <2> QED BY <1>4, <1>10, <2>1, <2>2 DEF OutputInv, ReceivedKept
<1>13. ReceivedApart'
  <2>1. (currPic \in WithCaller => Complete(currPic))'
    BY <1>1, <1>10 DEF Complete, OutputInv, ReceivedApart
  <2> QED BY <1>1, <1>11, <2>1 DEF ReceivedApart
<1> QED BY <1>8, <1>9, <1>12, <1>13 DEF OutputInv

-----------------------------------------------------------------------------
LEMMA InitOutput == Init => OutputInv
<1> SUFFICES ASSUME Init PROVE OutputInv OBVIOUS
<1>1. /\ dpb = [toGet |-> {}, output |-> {}, queue |-> [v \in View |-> <<>>],
                rank |-> [s \in Slot |-> 0], next |-> 0]
      /\ currPic = None /\ received = {}
  BY DEF Init
<1>2. dpb \in Outputs
  <2>1. <<>> \in Once BY DEF Once, Distinct
  <2> QED BY <1>1, <2>1 DEF Outputs
<1>3. \A v \in View : Elements(dpb.queue[v]) = {}
  <2>1. Elements(<<>>) = {} BY DEF Elements
  <2> QED BY <1>1, <2>1
<1>4. Holds(dpb, frame) BY <1>1, <1>2, <1>3 DEF Holds
<1>5. NumberedApart BY <1>1 DEF NumberedApart, Numbered
<1>6. ReceivedKept /\ ReceivedApart BY <1>1 DEF ReceivedKept, ReceivedApart, WithCaller
<1> QED BY <1>4, <1>5, <1>6 DEF OutputInv

(* Only a few steps do more than pass.                                     *)
LEMMA NextPasses ==
  ASSUME MarkingInv, OutputInv, SlicesNew, [Next]_vars
  PROVE  \/ Passing \/ Clear(frame) \/ FillGap \/ AllocSlot \/ GiveFrame
         \/ \E f \in received : Release(f)
<1>1. CASE Sender
  BY <1>1, QueueGatePasses, CallsPasses, StartSlicePasses, StartGapPasses, NoSlotPasses,
     MakeRoomPasses, InsertSlicePasses, EndsPasses, EndSequencePasses, Zenon DEF Sender
<1>2. CASE Receiver
  BY <1>2, SkipLeadingPasses, NoFramePasses, CallsPasses, EndsPasses, DrainPasses, Zenon
     DEF Receiver
<1>3. CASE Caller BY <1>3, CallsPasses, Zenon DEF Caller
<1>4. CASE Worker BY <1>4, FinishPasses, Zenon DEF Worker
<1>5. CASE UNCHANGED vars
  <2>1. UNCHANGED <<frame, dpb, received, currPic, prevFrameId>>
    BY <1>5 DEF vars, parseVars, idVars, outVars
  <2>2. OnlyDecoded(frame, frame') BY <2>1, SameFramesOnly DEF MarkingInv, PictureTypes
  <2> QED BY <2>1, <2>2, SamePasses
<1> QED BY <1>1, <1>2, <1>3, <1>4, <1>5, Zenon DEF Next

LEMMA NextOutput ==
  ASSUME MarkingInv, OutputInv, SlicesNew, [Next]_vars
  PROVE  OutputInv'
BY NextPasses, OutputPasses, ClearOutput, FillGapOutput, AllocSlotOutput, GiveFrameOutput,
   ReleaseOutput, Zenon

(* The queues, the numbers and the frames with the caller, at any time in  *)
(* streams that send no part twice.                                        *)
THEOREM OutputInvariant == Spec /\ SentOnce(stream) => []OutputInv
BY PicturesInvariant, SlicesStayNew, InitOutput, NextOutput, PTL DEF Spec

(* The queues hold every picture bumped and not delivered, once: what is   *)
(* pushed never pushes another out, and none is queued twice               *)
(* (bump_frame, catch_up_dependent_bumps, dequeue_frame).                  *)
THEOREM QueuesStayWhole == Spec /\ SentOnce(stream) => []QueuesHoldBumped
<1>1. OutputInv => QueuesHoldBumped
  <2> SUFFICES ASSUME OutputInv, NEW v \in View
               PROVE  /\ Elements(dpb.queue[v]) = dpb.toGet \intersect dpb.output \intersect OfView(v)
                      /\ Cardinality(Elements(dpb.queue[v])) = Len(dpb.queue[v])
    BY DEF QueuesHoldBumped
  <2>1. /\ dpb.queue[v] \in Once /\ dpb.toGet \subseteq Slot
        /\ Elements(dpb.queue[v]) = {s \in dpb.toGet \intersect dpb.output : frame[s].view = v}
    BY DEF OutputInv, Holds, Outputs
  <2>2. Cardinality(Elements(dpb.queue[v])) = Len(dpb.queue[v]) BY <2>1, OnceShort
  <2> QED BY <2>1, <2>2 DEF OfView
<1> QED BY <1>1, OutputInvariant, PTL

(* Pictures with the caller keep their slots and samples until they are    *)
(* returned: no new picture and no inferred frame takes them.              *)
THEOREM ReceivedStay == Spec /\ SentOnce(stream) => []ReceivedKept
<1>1. OutputInv => ReceivedKept BY DEF OutputInv
<1> QED BY <1>1, OutputInvariant, PTL

-----------------------------------------------------------------------------
(* Types: what is left are the calls, and what a caller has received.      *)
Turns == {"any", "receive", "over"}

LEMMA CallTypesKept ==
  ASSUME CallTypes, UNCHANGED <<resume, leading, received, out, shown>>,
         flushing' \in BOOLEAN, undelivered' \in BOOLEAN, ended' \in BOOLEAN,
         wantFrame' \in BOOLEAN, drained' \in BOOLEAN, drains' \in 0 .. 4, turn' \in Turns
  PROVE  CallTypes'
BY DEF CallTypes, Turns

LEMMA TurnTypes ==
  ASSUME NEW t \in {"any", "receive"}, Turn(t)
  PROVE  turn' \in Turns
BY DEF Turn, Turns

LEMMA SendingTypes ==
  ASSUME CallTypes, NEW result, Sending(result)
  PROVE  /\ UNCHANGED <<received, out, shown>> /\ ended' \in BOOLEAN
         /\ wantFrame' \in BOOLEAN /\ drained' \in BOOLEAN /\ drains' \in 0 .. 4
         /\ turn' \in Turns
<1>1. UNCHANGED <<received, out, shown, ended, drains, drained>> BY DEF Sending, outVars
<1>2. wantFrame' \in BOOLEAN BY Zenon DEF Sending
<1>3. turn' \in Turns
  <2> DEFINE t == IF result = "AGAIN" THEN "receive" ELSE "any"
  <2>1. t \in {"any", "receive"} /\ Turn(t) BY DEF Sending
  <2> HIDE DEF t
  <2> QED BY <2>1, TurnTypes
<1> QED BY <1>1, <1>2, <1>3 DEF CallTypes

LEMMA ParsingTypes ==
  ASSUME CallTypes, Parsing
  PROVE  /\ UNCHANGED <<received, out, shown>> /\ ended' \in BOOLEAN
         /\ wantFrame' \in BOOLEAN /\ drained' \in BOOLEAN /\ drains' \in 0 .. 4
         /\ turn' \in Turns
BY DEF Parsing, outVars, CallTypes, Turns

LEMMA SenderTypes ==
  ASSUME CallTypes,
         \/ QueueGate \/ PassGate \/ StartSlice \/ StartGap \/ GapFull \/ DpbFull
         \/ MakeRoom \/ InsertSlice \/ StartSequenceEnd \/ FillGap
  PROVE  CallTypes'
<1>1. Parsing \/ \E result : Sending(result)
  BY Zenon DEF QueueGate, PassGate, StartSlice, StartGap, GapFull, DpbFull, NoSlot, MakeRoom,
     Room, InsertSlice, StartSequenceEnd, FillGap
<1>2. /\ UNCHANGED <<received, out, shown>> /\ ended' \in BOOLEAN
      /\ wantFrame' \in BOOLEAN /\ drained' \in BOOLEAN /\ drains' \in 0 .. 4
      /\ turn' \in Turns
  BY <1>1, SendingTypes, ParsingTypes
<1>3. UNCHANGED <<resume, leading>>
  BY Zenon DEF QueueGate, PassGate, StartSlice, StartGap, GapFull, DpbFull, NoSlot, MakeRoom,
     Room, InsertSlice, StartSequenceEnd, FillGap, idVars
<1>4. flushing \in BOOLEAN /\ undelivered \in BOOLEAN BY DEF CallTypes
<1>5. flushing' \in BOOLEAN
  BY <1>4, Zenon DEF QueueGate, PassGate, StartSlice, StartGap, GapFull, DpbFull, NoSlot, MakeRoom,
     Room, InsertSlice, StartSequenceEnd, FillGap
<1>6. undelivered' \in BOOLEAN
  BY <1>4, Zenon DEF QueueGate, PassGate, StartSlice, StartGap, GapFull, DpbFull, NoSlot, MakeRoom,
     Room, InsertSlice, StartSequenceEnd, FillGap, SeenStalled
<1> QED BY <1>2, <1>3, <1>5, <1>6, CallTypesKept

LEMMA CallerTypes ==
  ASSUME CallTypes, \/ SendNal \/ Flush \/ Receive \/ SendEnd \/ Due \/ StartDrain \/ Drain
                    \/ \E t \in tasks : Finish(t)
  PROVE  CallTypes'
<1>1. UNCHANGED <<resume, leading, received, out, shown>>
  BY Zenon DEF SendNal, Flush, Receive, SendEnd, Due, StartDrain, Drain, Finish, idVars, outVars
<1>2. /\ flushing \in BOOLEAN /\ undelivered \in BOOLEAN /\ ended \in BOOLEAN
      /\ wantFrame \in BOOLEAN /\ drained \in BOOLEAN /\ drains \in 0 .. 4 /\ turn \in Turns
  BY DEF CallTypes, Turns
<1>3. flushing' \in BOOLEAN /\ ended' \in BOOLEAN /\ wantFrame' \in BOOLEAN
  BY <1>2, Zenon DEF SendNal, Flush, Receive, SendEnd, Due, StartDrain, Drain, Finish
<1>4. undelivered' \in BOOLEAN
  BY <1>2, Zenon DEF SendNal, Flush, Receive, SendEnd, Due, StartDrain, Drain, Finish, SeenStalled
<1>5. drained' \in BOOLEAN
  BY <1>2, Zenon DEF SendNal, Flush, Receive, SendEnd, Due, StartDrain, Drain, Finish
<1>6. drains' \in {drains, 0}
  BY Zenon DEF SendNal, Flush, Receive, SendEnd, Due, StartDrain, Drain, Finish
<1>7. drains' \in 0 .. 4 BY <1>2, <1>6
<1>8. turn' \in Turns
  BY <1>2, Zenon DEF SendNal, Flush, Receive, SendEnd, Due, StartDrain, Drain, Finish
<1> QED BY <1>1, <1>3, <1>4, <1>5, <1>7, <1>8, CallTypesKept

LEMMA NoFrameTypes ==
  ASSUME CallTypes, NoFrame
  PROVE  CallTypes'
<1>1. UNCHANGED <<resume, leading, flushing, ended, wantFrame, drained, received, out, shown>>
  BY DEF NoFrame, idVars, outVars
<1>2. drains \in 0 .. 4 /\ turn \in Turns BY DEF CallTypes, Turns
<1>3. \/ UNCHANGED <<drains, turn>> \/ \E result : Answer(result)
      \/ drains # 4 /\ drains' = drains + 1 /\ UNCHANGED turn
  <2>1. (CASE call = "get" /\ ended -> call' = "end" /\ UNCHANGED <<drains, turn>>
           [] call = "get" /\ ~ended /\ wantFrame /\ stream.threads ->
                call' = "due" /\ UNCHANGED <<drains, turn>>
           [] call = "rest" /\ drained -> Answer("END")
           [] call = "rest" /\ ~drained /\ stream.threads /\ tasks # {} ->
                call' = "await" /\ UNCHANGED <<drains, turn>>
           [] call = "rest" /\ ~drained /\ ~(stream.threads /\ tasks # {}) ->
                IF drains = 4 THEN Answer("END")
                ELSE call' = "get" /\ drains' = drains + 1 /\ UNCHANGED turn
           [] OTHER -> Answer("AGAIN"))
    BY DEF NoFrame
  <2>2. \/ UNCHANGED <<drains, turn>> \/ Answer("END") \/ Answer("AGAIN")
        \/ drains # 4 /\ drains' = drains + 1 /\ UNCHANGED turn
    BY <2>1
  <2> QED BY <2>2
<1>4. drains' \in 0 .. 4 /\ turn' \in Turns
  <2>1. CASE UNCHANGED <<drains, turn>> BY <1>2, <2>1
  <2>2. CASE \E result : Answer(result) BY <2>2 DEF Answer, Turns
  <2>3. CASE drains # 4 /\ drains' = drains + 1 /\ UNCHANGED turn BY <1>2, <2>3
  <2> QED BY <1>3, <2>1, <2>2, <2>3
<1>5. undelivered' \in BOOLEAN BY Zenon DEF NoFrame, DropOrphans
<1> QED BY <1>1, <1>4, <1>5, CallTypesKept DEF CallTypes

LEMMA ReleaseTypes ==
  ASSUME CallTypes, NEW f \in received, Release(f)
  PROVE  CallTypes'
BY DEF CallTypes, Release, idVars

(* Order counts stay whole numbers.                                        *)
LEMMA PocOfType ==
  ASSUME NEW p, p.poc \in Int, NEW n, n.poc \in Nat
  PROVE  PocOf(p, n) \in Int
<1> DEFINE last == p.poc h == PocSpan \div 2 x == n.poc - last + h
<1>1. PocSpan \in Nat \ {0} /\ h \in Int OBVIOUS
<1>2. PocOf(p, n) = last + (x % PocSpan) - h BY DEF PocOf
<1>3. x \in Int BY <1>1
<1> HIDE DEF x, h
<1>4. x % PocSpan \in 0 .. PocSpan - 1 BY <1>1, <1>3, Remainder
<1> HIDE DEF last
<1> QED BY <1>1, <1>2, <1>4 DEF last

LEMMA AllocSlotTypes ==
  ASSUME MarkingInv, CallTypes, AllocSlot
  PROVE  CallTypes'
<1> DEFINE n == stream.nals[at]
           s == currPic'
           order == PocOf(prevRef[n.view], n)
           state == IF n.idr # 0 THEN 2 ELSE IF resume.state = 0 THEN 1 ELSE resume.state
           poc == IF n.idr = 0 /\ resume.state = 0 THEN order ELSE resume.poc
<1>1. /\ call = "slot" /\ call' = "insert" /\ Parsing
      /\ resume' = [state |-> state, poc |-> poc]
      /\ leading' \in {leading \union {s}, leading \ {s}}
      /\ UNCHANGED <<flushing, undelivered>>
  <2>1. /\ call = "slot" /\ call' = "insert" /\ Parsing
        /\ resume' = [state |-> state, poc |-> poc]
        /\ UNCHANGED <<flushing, undelivered>>
    BY Zenon DEF AllocSlot
  <2>2. leading' = IF state = 1 /\ order < poc THEN leading \union {s} ELSE leading \ {s}
    BY DEF AllocSlot
  <2> HIDE DEF state, order, poc
  <2> QED BY <2>1, <2>2
<1>2. s \in Slot
  <2>1. currPic' \in Slot \union {None} /\ currPic' # None
    <3>1. MarkingInv' BY AllocSlotMarks
    <3> QED BY <1>1, <3>1 DEF MarkingInv, NalSent, PictureTypes
  <2> QED BY <2>1
<1>3. order \in Int
  <2>1. at <= Len(stream.nals) BY <1>1 DEF MarkingInv, NalSent, Placing
  <2>2. n \in Nal BY <2>1, NalTypes DEF MarkingInv
  <2>3. n.view \in View /\ n.poc \in Nat BY <2>2 DEF Nal, View
  <2> HIDE DEF n
  <2>4. prevRef[n.view].poc \in Int BY <2>3 DEF MarkingInv, PictureTypes
  <2> QED BY <2>3, <2>4, PocOfType DEF n
<1> HIDE DEF order, s
<1>4. resume' \in [state : 0 .. 2, poc : Int]
  <2>1. resume.state \in 0 .. 2 /\ resume.poc \in Int BY DEF CallTypes
  <2>2. state \in 0 .. 2 /\ poc \in Int BY <1>3, <2>1
  <2> HIDE DEF state, poc
  <2> QED BY <1>1, <2>2
<1>5. leading' \subseteq Slot BY <1>1, <1>2 DEF CallTypes
<1>6. /\ UNCHANGED <<received, out, shown>> /\ ended' \in BOOLEAN
      /\ wantFrame' \in BOOLEAN /\ drained' \in BOOLEAN /\ drains' \in 0 .. 4
      /\ turn' \in Turns
  BY <1>1, ParsingTypes
<1> QED BY <1>1, <1>4, <1>5, <1>6 DEF CallTypes, Turns

LEMMA ClearTypes ==
  ASSUME CallTypes, EndSequence \/ Flushed
  PROVE  CallTypes'
<1>1. CASE UNCHANGED <<resume, leading, flushing, undelivered>> /\ Sending("AGAIN")
  BY <1>1, SendingTypes, CallTypesKept DEF CallTypes
<1>2. CASE /\ Clear(frame) /\ undelivered' \in {undelivered, FALSE} /\ ended' \in {ended, FALSE}
           /\ wantFrame' = FALSE /\ UNCHANGED <<drains, drained>>
           /\ Turn("any") \/ UNCHANGED turn
  <2>1. turn' \in Turns BY <1>2, TurnTypes DEF CallTypes, Turns
  <2>2. /\ resume' = [state |-> 0, poc |-> 0] /\ leading' = {} /\ flushing' = FALSE
        /\ shown' = [v \in View |-> [base |-> 0, prev |-> 0, have |-> FALSE]]
        /\ UNCHANGED <<received, out>>
    BY <1>2 DEF Clear
  <2>3. resume' \in [state : 0 .. 2, poc : Int] /\ leading' \subseteq Slot BY <2>2
  <2>4. shown' \in [View -> [base : Int, prev : Int, have : BOOLEAN]] BY <2>2
  <2>5. {flushing', undelivered', ended', wantFrame', drained'} \subseteq BOOLEAN
    BY <1>2, <2>2 DEF CallTypes
  <2>6. drains' \in 0 .. 4 /\ received' \subseteq Received /\ out' \in Seq(Received)
    BY <1>2, <2>2 DEF CallTypes
  <2> QED BY <2>1, <2>3, <2>4, <2>5, <2>6 DEF CallTypes, Turns
<1>3. \/ UNCHANGED <<resume, leading, flushing, undelivered>> /\ Sending("AGAIN")
      \/ /\ Clear(frame) /\ undelivered' \in {undelivered, FALSE} /\ ended' \in {ended, FALSE}
         /\ wantFrame' = FALSE /\ UNCHANGED <<drains, drained>>
         /\ Turn("any") \/ UNCHANGED turn
  BY Zenon DEF EndSequence, Flushed, idVars
<1> QED BY <1>1, <1>2, <1>3

(* Display keys stay whole numbers.                                        *)
LEMMA UnwrappedType ==
  ASSUME NEW last \in [base : Int, prev : Int, have : BOOLEAN], NEW poc \in Int
  PROVE  Unwrapped(last, poc) \in [base : Int, prev : Int, have : BOOLEAN]
<1> DEFINE value == last.base + poc
           deficit == last.prev - value + 1
           span == IF PocSpan > 0 THEN PocSpan ELSE 1
           spans == (deficit + span - 1) \div span
           base == IF last.have /\ value <= last.prev THEN last.base + spans * span ELSE last.base
<1>1. Unwrapped(last, poc) = [base |-> base, prev |-> base + poc, have |-> TRUE]
  BY DEF Unwrapped
<1>2. span \in Nat \ {0} /\ deficit + span - 1 \in Int OBVIOUS
<1> HIDE DEF span, deficit
<1>3. spans \in Int BY <1>2
<1> HIDE DEF spans, value
<1>4. base \in Int BY <1>2, <1>3
<1> HIDE DEF base
<1> QED BY <1>1, <1>4

LEMMA ShownTypes ==
  ASSUME MarkingInv, OutputInv, CallTypes, Ready # {}
  PROVE  ShownNext \in [View -> [base : Int, prev : Int, have : BOOLEAN]]
<1> DEFINE S == [base : Int, prev : Int, have : BOOLEAN]
<1>1. NextBase \in Slot /\ (NextDependent # None => NextDependent \in Slot)
  BY OutputFacts, NextTypes DEF OfView
<1>2. /\ shown[0] \in S /\ shown[1] \in S /\ frame[NextBase].poc \in Int
      /\ NextDependent # None => frame[NextDependent].poc \in Int
  BY <1>1, OutputFacts DEF CallTypes, View, Frame
<1>3. /\ Unwrapped(shown[0], frame[NextBase].poc) \in S
      /\ NextDependent # None => Unwrapped(shown[1], frame[NextDependent].poc) \in S
  BY <1>2, UnwrappedType
<1> HIDE DEF S
<1>4. ShownNext \in [View -> S] BY <1>2, <1>3 DEF ShownNext
<1> QED BY <1>4 DEF S

LEMMA DeliveryTypes ==
  ASSUME MarkingInv, OutputInv, CallTypes, GiveFrame \/ SkipLeading
  PROVE  CallTypes'
<1>1. Ready # {} /\ shown' = ShownNext /\ UNCHANGED <<resume, leading, flushing, ended, drained>>
  BY DEF GiveFrame, SkipLeading, Deliverable, idVars
<1>2. shown' \in [View -> [base : Int, prev : Int, have : BOOLEAN]] BY <1>1, ShownTypes
<1>3. CASE SkipLeading
  <2>1. /\ undelivered' = FALSE /\ UNCHANGED <<wantFrame, drains, turn, received, out>>
    BY <1>3 DEF SkipLeading
  <2> QED BY <1>1, <1>2, <2>1 DEF CallTypes
<1>4. CASE GiveFrame
  <2> DEFINE f == [base |-> NextBase, dep |-> NextDependent, display |-> ShownNext[0].prev,
                   nals |-> FrameOf(NextBase) \o FrameOf(NextDependent)]
  <2>1. /\ received' = received \union {f} /\ out' = Append(out, f)
        /\ undelivered' = FALSE /\ wantFrame' = FALSE /\ drains' = 0 /\ Turn("any")
    BY <1>4 DEF GiveFrame
  <2>2. turn' \in Turns BY <2>1, TurnTypes
  <2>3. f \in Received
    <3>1. NextBase \in Slot /\ (NextDependent # None => NextDependent \in Slot)
      BY <1>1, OutputFacts, NextTypes DEF OfView
    <3>2. /\ \A s \in Slot : frame[s].nal \in Nat BY OutputFacts DEF Frame
    <3>3. FrameOf(NextBase) \in Seq(Nat) /\ FrameOf(NextDependent) \in Seq(Nat)
      BY <3>1, <3>2 DEF FrameOf
    <3>4. FrameOf(NextBase) \o FrameOf(NextDependent) \in Seq(Nat) BY <3>3, ConcatProperties
    <3>5. ShownNext[0].prev \in Int
      <4>1. 0 \in View BY DEF View
      <4> QED BY <1>1, <1>2, <4>1
    <3> QED BY <3>1, <3>4, <3>5 DEF Received
  <2> HIDE DEF f
  <2>4. received' \subseteq Received /\ out' \in Seq(Received)
    <3>1. received \subseteq Received /\ out \in Seq(Received) BY DEF CallTypes
    <3> QED BY <2>1, <2>3, <3>1, AppendProperties
  <2>5. drains' \in 0 .. 4 BY <2>1
  <2> QED BY <1>1, <1>2, <2>1, <2>2, <2>4, <2>5 DEF CallTypes, Turns
<1> QED BY <1>3, <1>4

LEMMA NextTypesKept ==
  ASSUME MarkingInv, OutputInv, CallTypes, [Next]_vars
  PROVE  CallTypes'
<1>1. CASE Sender BY <1>1, SenderTypes, AllocSlotTypes, ClearTypes, Zenon DEF Sender
<1>2. CASE Receiver BY <1>2, DeliveryTypes, NoFrameTypes, CallerTypes, Zenon DEF Receiver
<1>3. CASE Caller BY <1>3, CallerTypes, ReleaseTypes, Zenon DEF Caller
<1>4. CASE Worker BY <1>4, CallerTypes, Zenon DEF Worker
<1>5. CASE UNCHANGED vars BY <1>5 DEF vars, idVars, outVars, CallTypes
<1> QED BY <1>1, <1>2, <1>3, <1>4, <1>5, Zenon DEF Next

(* Every variable has its type; what Dpb of it says of the queues, that    *)
(* none is longer than QueueSize, is why queue_push may drop the last.     *)
THEOREM TypesHold == Spec /\ SentOnce(stream) => []TypeOK
<1>1. Init => CallTypes
  <2> SUFFICES ASSUME Init PROVE CallTypes OBVIOUS
  <2>1. resume \in [state : 0 .. 2, poc : Int] /\ leading \subseteq Slot BY DEF Init
  <2>2. shown \in [View -> [base : Int, prev : Int, have : BOOLEAN]] BY DEF Init
  <2>3. {flushing, undelivered, ended, wantFrame, drained} \subseteq BOOLEAN BY DEF Init
  <2>4. drains \in 0 .. 4 /\ turn \in {"any", "receive", "over"} BY DEF Init
  <2>5. received \subseteq Received /\ out \in Seq(Received) BY DEF Init
  <2> QED BY <2>1, <2>2, <2>3, <2>4, <2>5 DEF CallTypes
<1>2. OutputInv => dpb \in Dpb
  <2> SUFFICES ASSUME OutputInv PROVE dpb \in Dpb OBVIOUS
  <2>1. dpb \in Outputs BY DEF OutputInv, Holds
  <2>2. \A q \in Once : q \in Queue
    <3> TAKE q \in Once
    <3>1. q \in [1 .. Len(q) -> Slot] /\ Len(q) \in Nat /\ Len(q) <= MaxFrames
      BY OnceTypes, OnceShort
    <3>2. Len(q) \in 0 .. QueueSize
      <4> DEFINE k == Len(q)
      <4>1. k \in Nat /\ k <= MaxFrames BY <3>1
      <4> HIDE DEF k
      <4>2. k \in 0 .. QueueSize BY <4>1 DEF QueueSize
      <4> QED BY <4>2 DEF k
    <3> QED BY <3>1, <3>2 DEF Queue
  <2> QED BY <2>1, <2>2 DEF Outputs, Dpb
<1>3. MarkingInv /\ dpb \in Dpb /\ CallTypes => TypeOK BY DEF MarkingInv, TypeOK
<1> QED BY <1>1, <1>2, <1>3, NextTypesKept, OutputInvariant, PicturesInvariant, PTL DEF Spec
-----------------------------------------------------------------------------
(* The NALs of what is given away.                                         *)

(* A call that has a NAL to insert comes to the next one.                  *)
Moves == /\ at' \in {at, at + 1}
         /\ call = "insert" => at' = at + 1 \/ call' = "insert"

LEMMA NalsMove ==
  ASSUME [Next]_vars
  PROVE  Moves /\ (out' = out \/ GiveFrame)
<1>1. CASE UNCHANGED vars BY <1>1 DEF Moves, vars, sendVars, outVars
<1>2. CASE Worker BY <1>2, Zenon DEF Worker, Finish, Moves, sendVars, outVars
<1>3. CASE Caller
  BY <1>3, Zenon DEF Caller, SendNal, Flush, Receive, SendEnd, Release, Moves, sendVars, outVars
<1>4. CASE Receiver
  BY <1>4, Zenon DEF Receiver, GiveFrame, SkipLeading, NoFrame, Due, StartDrain, Drain, Looking,
     Moves, sendVars, outVars
<1>5. CASE Sender
  <2>1. \A result : Sending(result) => at' \in {at, at + 1} /\ out' = out
    BY DEF Sending, outVars
  <2>2. Parsing => at' = at /\ out' = out BY DEF Parsing, outVars
  <2>3. CASE InsertSlice
    <3>1. Sending("CORRUPT") \/ Sending("OK") BY <2>3, Zenon DEF InsertSlice
    <3> QED BY <3>1 DEF Sending, Moves, outVars
  <2>4. CASE AllocSlot BY <2>2, <2>4, Zenon DEF AllocSlot, Moves
  <2>5. CASE EndSequence \/ Flushed
    BY <2>1, <2>5, Zenon DEF EndSequence, Flushed, Clear, Moves
  <2>6. CASE QueueGate \/ PassGate \/ StartSlice \/ StartGap \/ FillGap \/ StartSequenceEnd
    BY <2>1, <2>2, <2>6, Zenon DEF QueueGate, PassGate, StartSlice, StartGap, FillGap,
       StartSequenceEnd, Moves
  <2>7. CASE GapFull \/ DpbFull \/ MakeRoom
    BY <2>1, <2>2, <2>7, Zenon DEF GapFull, DpbFull, NoSlot, MakeRoom, Room, Moves
  <2> QED BY <1>5, <2>3, <2>4, <2>5, <2>6, <2>7, Zenon DEF Sender
<1> QED BY <1>1, <1>2, <1>3, <1>4, <1>5, Zenon DEF Next

LEMMA NumberedTypes ==
  ASSUME MarkingInv, OutputInv
  PROVE  /\ at \in Nat /\ frame \in [Slot -> Frame] /\ Numbered \subseteq Slot
         /\ \A s \in Numbered : frame[s].nal \in Nat
<1>1. PictureTypes /\ dpb.toGet \subseteq Slot BY OutputFacts DEF MarkingInv
<1>2. at \in Nat BY <1>1, NalTypes
<1> QED BY <1>1, <1>2 DEF PictureTypes, Numbered, Frame

(* A step that gives nothing away and starts no picture.                   *)
LEMMA GivenKeeps ==
  ASSUME MarkingInv, OutputInv, GivenInv, Moves, out' = out,
         \A s \in Numbered' : /\ s \in Numbered /\ frame'[s].nal = frame[s].nal
                              /\ Complete(s) => frame'[s].missing = {},
         currPic' = None \/ currPic' = currPic,
         \A s \in dpb'.toGet \ dpb.toGet : s = currPic /\ ~Complete(s)
  PROVE  GivenInv'
<1>1. Given' = Given BY DEF Given
<1>2. (ReceivedOnce /\ Given \subseteq 0 .. at - 1)'
  <2>1. ReceivedOnce' BY DEF GivenInv, ReceivedOnce
  <2> QED BY <1>1, <2>1, NumberedTypes DEF GivenInv, Moves
<1>3. \A s \in Numbered' :
        /\ frame'[s].nal < at' \/ (call' = "insert" /\ frame'[s].nal = at')
        /\ frame'[s].nal \in Given' => s = currPic' /\ s \notin dpb'.toGet /\ frame'[s].missing = {}
  <2> TAKE s \in Numbered'
  <2>1. /\ s \in Numbered /\ frame'[s].nal = frame[s].nal /\ frame[s].nal \in Nat /\ at \in Nat
        /\ Complete(s) => frame'[s].missing = {}
    BY NumberedTypes
  <2>2. frame[s].nal < at \/ (call = "insert" /\ frame[s].nal = at) BY <2>1 DEF GivenInv
  <2>3. frame'[s].nal < at' \/ (call' = "insert" /\ frame'[s].nal = at')
    BY <2>1, <2>2 DEF Moves
  <2>4. frame[s].nal \in Given => s = currPic /\ s \notin dpb.toGet /\ Complete(s)
    BY <2>1 DEF GivenInv
  <2>5. s \in dpb'.toGet \/ s = currPic' BY DEF Numbered
  <2>6. ASSUME frame'[s].nal \in Given'
        PROVE  s = currPic' /\ s \notin dpb'.toGet /\ frame'[s].missing = {}
    BY <1>1, <2>1, <2>4, <2>5, <2>6
  <2> QED BY <2>3, <2>6
<1>4. \A s, t \in Numbered' : frame'[s].nal = frame'[t].nal => s = t BY DEF GivenInv
<1> QED BY <1>2, <1>3, <1>4 DEF GivenInv, Complete

LEMMA PassingGiven ==
  ASSUME MarkingInv, OutputInv, GivenInv, Moves, out' = out, Passing
  PROVE  GivenInv'
<1>1. \A s \in Numbered' : s \in Numbered
  <2>1. \A s \in dpb'.toGet : s # None BY DEF Passing, Holds, Outputs, Slot, None
  <2> QED BY <2>1 DEF Passing, Numbered
<1>2. \A s \in Numbered : /\ frame'[s].nal = frame[s].nal
                          /\ Complete(s) => frame'[s].missing = {}
  BY NumberedTypes DEF Passing, OnlyDecoded, Complete
<1> QED BY <1>1, <1>2, GivenKeeps DEF Passing

(* A step that keeps the pictures to output, or forgets them.              *)
LEMMA ClearGiven ==
  ASSUME MarkingInv, OutputInv, GivenInv, Moves, out' = out, Clear(frame)
  PROVE  GivenInv'
<1>1. dpb'.toGet = {} /\ currPic' = None BY OutputFacts DEF Clear, Outputs
<1>2. Numbered' = {} BY <1>1 DEF Numbered
<1> QED BY <1>1, <1>2, GivenKeeps

LEMMA ReleaseGiven ==
  ASSUME MarkingInv, OutputInv, GivenInv, Moves, out' = out, NEW f \in received, Release(f)
  PROVE  GivenInv'
<1>1. dpb'.toGet = dpb.toGet /\ UNCHANGED <<frame, currPic>>
  BY OutputFacts DEF Release, Outputs, parseVars
<1>2. Numbered' = Numbered BY <1>1 DEF Numbered
<1> QED BY <1>1, <1>2, GivenKeeps DEF Complete

LEMMA FillGapGiven ==
  ASSUME MarkingInv, OutputInv, GivenInv, Moves, out' = out, FillGap
  PROVE  GivenInv'
<1>1. dpb.toGet \subseteq Slot BY OutputFacts
<1>2. Numbered' = dpb.toGet /\ Numbered = dpb.toGet BY FillGapKeeps DEF Numbered
<1>3. \A s \in Numbered' : /\ s \in Numbered /\ frame'[s].nal = frame[s].nal
                           /\ Complete(s) => frame'[s].missing = {}
  BY <1>1, <1>2, FillGapKeeps DEF Complete
<1> QED BY <1>3, FillGapKeeps, GivenKeeps

(* A picture starts with the NAL being sent, later than all those before.  *)
LEMMA AllocSlotGiven ==
  ASSUME MarkingInv, OutputInv, GivenInv, out' = out, AllocSlot
  PROVE  GivenInv'
<1> DEFINE s == currPic'
<1>1. /\ call = "slot" /\ call' = "insert" /\ UNCHANGED <<at, dpb>> /\ frame'[s].nal = at
      /\ s \notin dpb.toGet
      /\ \A x \in Slot : x # s => /\ frame'[x].nal = frame[x].nal
                                  /\ frame'[x].missing = frame[x].missing
  BY AllocSlotKeeps
<1>2. currPic = None BY <1>1 DEF MarkingInv, NalSent, Placing
<1>3. Numbered = dpb.toGet /\ Numbered' \subseteq dpb.toGet \union {s} BY <1>1, <1>2 DEF Numbered
<1>4. at \in Nat /\ \A x \in dpb.toGet : frame[x].nal \in Nat /\ frame[x].nal < at
  BY <1>1, <1>3, NumberedTypes DEF GivenInv
<1>5. Given' = Given /\ ReceivedOnce' BY DEF Given, GivenInv, ReceivedOnce
<1>6. \A x \in dpb.toGet : frame'[x].nal = frame[x].nal /\ frame[x].nal \notin Given
  <2>1. \A x \in dpb.toGet : x \in Slot /\ x # s BY <1>1, OutputFacts
  <2>2. \A x \in dpb.toGet : frame[x].nal \notin Given BY <1>3 DEF GivenInv
  <2> QED BY <1>1, <2>1, <2>2
<1>7. at \notin Given BY <1>4 DEF GivenInv
<1>8. \A x \in Numbered' : frame'[x].nal \notin Given'
  BY <1>1, <1>3, <1>5, <1>6, <1>7
<1>9. \A x \in Numbered' : frame'[x].nal < at' \/ (call' = "insert" /\ frame'[x].nal = at')
  BY <1>1, <1>3, <1>4, <1>6
<1>10. \A x, y \in Numbered' : frame'[x].nal = frame'[y].nal => x = y
  <2>1. \A x, y \in dpb.toGet : frame[x].nal = frame[y].nal => x = y BY <1>3 DEF GivenInv
  <2> QED BY <1>1, <1>3, <1>4, <1>6, <2>1
<1>11. (Given \subseteq 0 .. at - 1)' BY <1>1, <1>5 DEF GivenInv
<1> QED BY <1>5, <1>8, <1>9, <1>10, <1>11 DEF GivenInv

(* What is given was to be output, and given away never before.            *)
LEMMA GiveFrameGiven ==
  ASSUME MarkingInv, OutputInv, GivenInv, out \in Seq(Received), GiveFrame
  PROVE  GivenInv'
<1> DEFINE f == [base |-> NextBase, dep |-> NextDependent, display |-> ShownNext[0].prev,
                 nals |-> FrameOf(NextBase) \o FrameOf(NextDependent)]
           S == {NextBase, NextDependent} \ {None}
           new == {frame[s].nal : s \in S}
<1>1. /\ Ready # {} /\ UNCHANGED <<at, frame, currPic>> /\ dpb' = Delivered
      /\ out' = Append(out, f) /\ call # "insert" /\ call' # "insert"
  BY DEF GiveFrame, Looking, Deliverable, sendVars, parseVars
<1>2. /\ Delivered.toGet = dpb.toGet \ {NextBase, NextDependent}
      /\ NextBase \in dpb.toGet /\ NextBase # None
      /\ NextDependent # None => NextDependent \in dpb.toGet
  <2>1. None \notin dpb.toGet BY OutputFacts DEF None, Slot
  <2> QED BY <1>1, <2>1, OutputFacts, DeliveredHolds
<1>3. /\ Complete(NextBase) \/ NextBase # currPic
      /\ NextDependent # None => Complete(NextDependent)
  BY <1>1, OutputFacts, NextTypes
<1>4. Elements(f.nals) = new
  <2>1. FrameOf(NextBase) = <<frame[NextBase].nal>> BY <1>2 DEF FrameOf
  <2>2. CASE NextDependent = None
    <3>1. f.nals = <<frame[NextBase].nal>> BY <2>1, <2>2 DEF FrameOf
    <3>2. S = {NextBase} BY <1>2, <2>2
    <3> HIDE DEF f, S
    <3> QED BY <3>1, <3>2 DEF Elements
  <2>3. CASE NextDependent # None
    <3>1. FrameOf(NextDependent) = <<frame[NextDependent].nal>> BY <2>3 DEF FrameOf
    <3>2. f.nals = <<frame[NextBase].nal>> \o <<frame[NextDependent].nal>> BY <2>1, <3>1
    <3>3. \A x, y : Elements(<<x>> \o <<y>>) = {x, y} BY DEF Elements
    <3>4. S = {NextBase, NextDependent} BY <1>2, <2>3
    <3> HIDE DEF f, S
    <3> QED BY <3>2, <3>3, <3>4
  <2> QED BY <2>2, <2>3
<1>5. S \subseteq dpb.toGet /\ S \subseteq Numbered BY <1>2 DEF Numbered
<1>6. \A s \in S : s # currPic \/ Complete(s) BY <1>3
<1>7. dpb'.toGet = dpb.toGet \ S
  <2>1. None \notin dpb.toGet BY OutputFacts DEF None, Slot
  <2> QED BY <1>1, <1>2, <2>1
<1> HIDE DEF f, S, Delivered
<1>8. new \subseteq 0 .. at - 1 /\ new \intersect Given = {}
  BY <1>1, <1>5, NumberedTypes DEF GivenInv
<1> HIDE DEF new
<1>9. /\ DOMAIN out' = DOMAIN out \union {Len(out) + 1} /\ Len(out) + 1 \notin DOMAIN out
      /\ \A i \in DOMAIN out : out'[i] = out[i]
      /\ out'[Len(out) + 1] = f
  BY <1>1
<1>10. Given' = Given \union new BY <1>4, <1>9 DEF Given
<1>11. ReceivedOnce'
  <2>1. \A i \in DOMAIN out : Elements(out[i].nals) \subseteq Given BY DEF Given
  <2>2. \A i, j \in DOMAIN out : i # j => Elements(out[i].nals) \intersect Elements(out[j].nals) = {}
    BY DEF GivenInv, ReceivedOnce
  <2>3. \A i, j \in DOMAIN out' :
          i # j => Elements(out'[i].nals) \intersect Elements(out'[j].nals) = {}
    BY <1>4, <1>8, <1>9, <2>1, <2>2
  <2> QED BY <2>3 DEF ReceivedOnce
<1>12. Numbered' \subseteq Numbered BY <1>1, <1>7 DEF Numbered
<1>13. \A s \in Numbered' : frame'[s].nal \in Given' =>
                            s = currPic' /\ s \notin dpb'.toGet /\ frame'[s].missing = {}
  <2> SUFFICES ASSUME NEW s \in Numbered', frame[s].nal \in Given \union new
               PROVE  s = currPic /\ s \notin dpb'.toGet /\ Complete(s)
    BY <1>1, <1>10 DEF Complete
  <2>1. s \in Numbered /\ (s \in dpb'.toGet \/ s = currPic) BY <1>1, <1>12 DEF Numbered
  <2>2. CASE frame[s].nal \in Given BY <1>7, <2>1, <2>2 DEF GivenInv
  <2>3. CASE frame[s].nal \in new
    <3>1. PICK t \in S : frame[s].nal = frame[t].nal BY <2>3 DEF new
    <3>2. s = t BY <1>5, <2>1, <3>1 DEF GivenInv
    <3> QED BY <1>6, <1>7, <2>1, <3>2
  <2> QED BY <2>2, <2>3
<1>14. \A s \in Numbered' : frame'[s].nal < at' BY <1>1, <1>12 DEF GivenInv
<1>15. \A s, t \in Numbered' : frame'[s].nal = frame'[t].nal => s = t BY <1>1, <1>12 DEF GivenInv
<1>16. (Given \subseteq 0 .. at - 1)' BY <1>1, <1>8, <1>10 DEF GivenInv
<1> QED BY <1>11, <1>13, <1>14, <1>15, <1>16 DEF GivenInv, Complete

LEMMA InitGiven == Init => GivenInv
<1> SUFFICES ASSUME Init PROVE GivenInv OBVIOUS
<1>1. dpb.toGet = {} /\ currPic = None /\ out = <<>> BY DEF Init
<1>2. Numbered = {} /\ Given = {} BY <1>1 DEF Numbered, Given
<1> QED BY <1>1, <1>2 DEF GivenInv, ReceivedOnce

LEMMA NextGiven ==
  ASSUME MarkingInv, OutputInv, SlicesNew, TypeOK, GivenInv, [Next]_vars
  PROVE  GivenInv'
<1>1. Moves /\ (out' = out \/ GiveFrame) BY NalsMove
<1>2. out \in Seq(Received) BY DEF TypeOK, CallTypes
<1>3. CASE GiveFrame BY <1>2, <1>3, GiveFrameGiven
<1>4. CASE out' = out
  BY <1>1, <1>2, <1>4, NextPasses, PassingGiven, ClearGiven, FillGapGiven, AllocSlotGiven,
     GiveFrameGiven, ReleaseGiven, Zenon
<1> QED BY <1>1, <1>3, <1>4

(* No picture is received twice, though a complete one that is still open  *)
(* may be: get_frame takes it, and the slices that follow find nothing     *)
(* missing (get_output_frame, bump_frame).                                 *)
THEOREM ReceivedStayOnce == Spec /\ SentOnce(stream) => []ReceivedOnce
<1>1. GivenInv => ReceivedOnce BY DEF GivenInv
<1> QED BY <1>1, InitGiven, NextGiven, PicturesInvariant, SlicesStayNew, OutputInvariant,
           TypesHold, PTL DEF Spec
=============================================================================
