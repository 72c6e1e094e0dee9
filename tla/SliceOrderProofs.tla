-------------------------- MODULE SliceOrderProofs --------------------------
(***************************************************************************)
(* Proofs about SliceOrder: what the slices of a picture leave in its rows,*)
(* for streams of any length and pictures of any number of rows.           *)
(*                                                                         *)
(* RowsAfter is defined by recursion over the slices.  Its facts are proved*)
(* by induction in the form the provers take: a set of naturals with 0 and *)
(* the successor of each of its members is all of them.                    *)
(***************************************************************************)
EXTENDS SliceOrder, FiniteSetTheorems, TLAPS

USE SliceOrderAssumption

-----------------------------------------------------------------------------
(* Naturals.                                                               *)

(* A set of naturals that is not empty has a lowest element.               *)
LEMMA LowestOfNats ==
  ASSUME NEW S \in SUBSET Nat, S # {}
  PROVE  Lowest(S) \in S /\ \A y \in S : Lowest(S) <= y
<1> DEFINE R == {p \in Nat \X Nat : p[1] < p[2]}
<1>1. IsWellFoundedOn(R, Nat)
  BY NatLessThanWellFounded, Zenon DEF OpToRel
<1>2. \E x \in S : \A y \in S : ~ (<<y, x>> \in R)
  <2> HIDE DEF R
  <2> QED BY <1>1, WFMin, Zenon
<1>3. PICK x \in S : \A y \in S : ~ (<<y, x>> \in R)
  BY <1>2
<1>4. \A y \in S : x <= y
  <2> TAKE y \in S
  <2>1. ~ (y < x) BY <1>3
  <2> QED BY <2>1
<1> QED BY <1>4, Zenon DEF Lowest

(* The lower of two integers is one of them.                               *)
LEMMA LowestOfTwo ==
  ASSUME NEW x \in Int, NEW y \in Int
  PROVE  /\ Lowest({x, y}) \in {x, y}
         /\ Lowest({x, y}) <= x /\ Lowest({x, y}) <= y
<1>1. \E z \in {x, y} : \A u \in {x, y} : z <= u
  OBVIOUS
<1>2. /\ Lowest({x, y}) \in {x, y} /\ \A u \in {x, y} : Lowest({x, y}) <= u
  BY <1>1, Zenon DEF Lowest
<1> QED BY <1>2

(* The lowest element is the only one below which there is none.           *)
LEMMA LowestIs ==
  ASSUME NEW S \in SUBSET Nat, NEW n \in S, \A m \in S : n <= m
  PROVE  Lowest(S) = n
<1>1. Lowest(S) \in S /\ \A y \in S : Lowest(S) <= y BY LowestOfNats
<1>2. Lowest(S) <= n /\ n <= Lowest(S) /\ Lowest(S) \in Nat /\ n \in Nat BY <1>1
<1> QED BY <1>2

(* Induction.                                                              *)
LEMMA Induction ==
  ASSUME NEW S, 0 \in S, \A n \in Nat : n \in S => n + 1 \in S
  PROVE  \A n \in Nat : n \in S
<1> DEFINE T == {n \in Nat : n \notin S}
<1> SUFFICES ASSUME T # {} PROVE FALSE OBVIOUS
<1>1. PICK n \in T : \A m \in T : n <= m
  <2>1. T \in SUBSET Nat OBVIOUS
  <2> HIDE DEF T
  <2> QED BY <2>1, LowestOfNats
<1>2. n # 0 /\ n - 1 \in Nat /\ ~ (n <= n - 1) BY <1>1
<1>3. n - 1 \in S BY <1>1, <1>2
<1> QED BY <1>1, <1>2, <1>3

-----------------------------------------------------------------------------
(* The recursion.                                                          *)

(* What slice k makes of the rows it finds, in picture p.                  *)
Decode(st, p, k, rows) ==
  IF st[k].pic # p THEN rows
  ELSE Fill(st[k], k, StopRow(st[k], BoundOf(st, k), rows), rows)

(* No slice leaves the picture blank, and each goes on from the rows the   *)
(* one before left.                                                        *)
LEMMA RowsAfterUnfolds ==
  ASSUME NEW st, Len(st) \in Nat, NEW p
  PROVE  /\ RowsAfter(st, p, 0) = Blank
         /\ \A k \in 1 .. Len(st) :
              RowsAfter(st, p, k) = Decode(st, p, k, RowsAfter(st, p, k - 1))
<1> DEFINE Body(g, k) == IF k = 0 THEN Blank ELSE Decode(st, p, k, g[k - 1])
           Upto(n) == \E g : g = [k \in 0 .. n |-> Body(g, k)]
           f == CHOOSE h : h = [k \in 0 .. Len(st) |-> Body(h, k)]
<1>1. Upto(0)
  <2>1. [k \in 0 .. 0 |-> Blank] = [k \in 0 .. 0 |-> Body([j \in 0 .. 0 |-> Blank], k)]
    OBVIOUS
  <2> QED BY <2>1
<1>2. ASSUME NEW n \in Nat, Upto(n)
      PROVE  Upto(n + 1)
  <2>1. PICK g : g = [k \in 0 .. n |-> Body(g, k)] BY <1>2
  <2> DEFINE h == [k \in 0 .. n + 1 |-> IF k <= n THEN g[k] ELSE Decode(st, p, k, g[n])]
  <2>2. ASSUME NEW k \in 0 .. n + 1
        PROVE  h[k] = Body(h, k)
    <3>1. CASE k <= n
      <4>1. h[k] = Body(g, k) BY <2>1, <3>1
      <4>2. CASE k = 0 BY <4>1, <4>2
      <4>3. CASE k # 0
        <5>1. h[k - 1] = g[k - 1] BY <4>3, <3>1
        <5> QED BY <4>1, <5>1, <4>3
      <4> QED BY <4>2, <4>3
    <3>2. CASE k = n + 1
      <4>1. h[k - 1] = g[n] BY <3>2
      <4> QED BY <4>1, <3>2
    <3> QED BY <3>1, <3>2
  <2>3. h = [k \in 0 .. n + 1 |-> Body(h, k)]
    <3> HIDE DEF Body
    <3> QED BY <2>2
  <2> HIDE DEF h
  <2> QED BY <2>3
<1> HIDE DEF Upto
<1>3. \A n \in Nat : Upto(n)
  <2> DEFINE S == {n \in Nat : Upto(n)}
  <2>1. 0 \in S /\ \A n \in Nat : n \in S => n + 1 \in S BY <1>1, <1>2
  <2> HIDE DEF S
  <2>2. \A n \in Nat : n \in S BY <2>1, Induction
  <2> QED BY <2>2 DEF S
<1>4. f = [k \in 0 .. Len(st) |-> Body(f, k)]
  <2>1. \E g : g = [k \in 0 .. Len(st) |-> Body(g, k)] BY <1>3 DEF Upto
  <2> HIDE DEF Body
  <2> QED BY <2>1
<1>5. \A n : RowsAfter(st, p, n) = f[n] BY DEF RowsAfter, Decode
<1> HIDE DEF f
<1>6. f[0] = Blank BY <1>4
<1>7. ASSUME NEW k \in 1 .. Len(st)
      PROVE  f[k] = Decode(st, p, k, f[k - 1])
  BY <1>4
<1> QED BY <1>5, <1>6, <1>7

-----------------------------------------------------------------------------
(* Where a slice stops, and what it leaves.                                *)

(* A slice stops at the end of its data, at its bound, or at the first row *)
(* that is already decoded.                                                *)
LEMMA StopsAt ==
  ASSUME NEW sl \in Header, NEW bound \in Int, NEW rows
  PROVE  LET n == StopRow(sl, bound, rows)
         IN  /\ n \in sl.first .. sl.last
             /\ \A r \in sl.first .. n - 1 : r < bound /\ rows[r] = Undecoded
             /\ n = sl.last \/ n >= bound \/ rows[n] # Undecoded
<1> DEFINE S == {sl.last} \union {r \in sl.first .. sl.last : r >= bound}
                 \union {r \in Row : r \in sl.first .. sl.last /\ rows[r] # Undecoded}
<1>1. sl.first \in Row /\ sl.last \in 1 .. Rows /\ sl.first < sl.last BY DEF Header, Fields
<1>2. S \in SUBSET Nat /\ sl.last \in S /\ S \subseteq sl.first .. sl.last BY <1>1 DEF Row
<1>3. Lowest(S) \in S /\ \A y \in S : Lowest(S) <= y
  <2> HIDE DEF S
  <2> QED BY <1>2, LowestOfNats
<1>4. StopRow(sl, bound, rows) = Lowest(S) BY DEF StopRow
<1>5. Lowest(S) \in sl.first .. sl.last
  <2> HIDE DEF S
  <2> QED BY <1>2, <1>3
<1>6. ASSUME NEW r \in sl.first .. Lowest(S) - 1
      PROVE  r < bound /\ rows[r] = Undecoded
  <2>1. r \notin S
    <3> HIDE DEF S
    <3> QED BY <1>2, <1>3, <1>5, <1>1 DEF Row
  <2>2. r \in Row /\ r \in sl.first .. sl.last BY <1>1, <1>5 DEF Row
  <2> QED BY <2>1, <2>2
<1>7. Lowest(S) = sl.last \/ Lowest(S) >= bound \/ rows[Lowest(S)] # Undecoded BY <1>3
<1> HIDE DEF S
<1> QED BY <1>4, <1>5, <1>6, <1>7

(* Nowhere else.                                                           *)
LEMMA StopIs ==
  ASSUME NEW sl \in Header, NEW bound \in Int, NEW rows, NEW n \in sl.first .. sl.last,
         \A r \in sl.first .. n - 1 : r < bound /\ rows[r] = Undecoded,
         n = sl.last \/ n >= bound \/ rows[n] # Undecoded
  PROVE  n = StopRow(sl, bound, rows)
<1> DEFINE m == StopRow(sl, bound, rows)
<1>1. /\ m \in sl.first .. sl.last
      /\ \A r \in sl.first .. m - 1 : r < bound /\ rows[r] = Undecoded
      /\ m = sl.last \/ m >= bound \/ rows[m] # Undecoded
  BY StopsAt
<1> HIDE DEF m
<1>2. sl.first \in Int /\ sl.last \in Int BY DEF Header, Fields, Row
<1>3. ~ (m < n)
  <2> SUFFICES ASSUME m < n PROVE FALSE OBVIOUS
  <2>1. m \in sl.first .. n - 1 /\ m # sl.last BY <1>1, <1>2
  <2> QED BY <1>1, <1>2, <2>1
<1>4. ~ (n < m)
  <2> SUFFICES ASSUME n < m PROVE FALSE OBVIOUS
  <2>1. n \in sl.first .. m - 1 /\ n # sl.last BY <1>1, <1>2
  <2> QED BY <1>1, <1>2, <2>1
<1>5. n \in Int /\ m \in Int BY <1>1, <1>2
<1> QED BY <1>3, <1>4, <1>5 DEF m

(* The rows it keeps are among those it decoded.                           *)
LEMMA KeptRows ==
  ASSUME NEW sl \in Header, NEW n \in sl.first .. sl.last
  PROVE  /\ KeepRow(sl, n) \in sl.first .. n
         /\ Larger(sl.first, n - Lag) <= KeepRow(sl, n)
         /\ ~Failed(sl, n) => KeepRow(sl, n) = n
<1>1. sl.first \in Int /\ sl.last \in Int BY DEF Header, Fields, Row
<1> QED BY <1>1 DEF KeepRow, Larger

(* It makes the rows below the one it stops at, and those only.            *)
LEMMA FilledRows ==
  ASSUME NEW sl \in Header, NEW k \in Nat, NEW n \in sl.first .. sl.last,
         NEW rows \in [Row -> RowContent]
  PROVE  LET new == Fill(sl, k, n, rows)
         IN  /\ new \in [Row -> RowContent]
             /\ \A r \in Row : r \notin sl.first .. n - 1 => new[r] = rows[r]
             /\ \A r \in Row : r \in sl.first .. n - 1 => new[r] # Undecoded
             /\ \A r \in Row : r \in sl.first .. KeepRow(sl, n) - 1 => new[r] = Decoded(k)
             /\ \A r \in Row : r \in KeepRow(sl, n) .. n - 1 => new[r] = Recovered(k)
<1>1. sl.first \in Int /\ sl.last \in Int /\ KeepRow(sl, n) \in sl.first .. n
  BY KeptRows DEF Header, Fields, Row
<1>2. Decoded(k) \in RowContent /\ Recovered(k) \in RowContent BY DEF Decoded, Recovered, RowContent
<1>3. Decoded(k) # Undecoded /\ Recovered(k) # Undecoded BY DEF Decoded, Recovered, Undecoded
<1> QED BY <1>1, <1>2, <1>3 DEF Fill, Row

(* The bound of a slice is a row or none, and after its first row.         *)
LEMMA BoundType ==
  ASSUME NEW st \in Seq(Header), NEW k \in DOMAIN st
  PROVE  BoundOf(st, k) \in 0 .. Inf /\ BoundOf(st, k) > st[k].first /\ BoundOf(st, k) # Unknown
<1>1. st[k] \in Header /\ k \in Nat /\ Len(st) \in Nat OBVIOUS
<1>2. k < Len(st) => k + 1 \in DOMAIN st /\ st[k + 1] \in Header BY <1>1
<1>3. st[k].first \in Row /\ (k < Len(st) => st[k + 1].first \in Row) BY <1>1, <1>2 DEF Header, Fields
<1> QED BY <1>3 DEF BoundOf, Row, Inf, Unknown

LEMMA BlankRows == Blank \in [Row -> RowContent] /\ \A r \in Row : Blank[r] = Undecoded
BY DEF Blank, RowContent, Undecoded

(* What a slice makes of the rows it finds.                                *)
LEMMA DecodeRows ==
  ASSUME NEW st \in Seq(Header), NEW k \in DOMAIN st, NEW p, NEW rows \in [Row -> RowContent]
  PROVE  /\ Decode(st, p, k, rows) \in [Row -> RowContent]
         /\ \A r \in Row : rows[r] # Undecoded => Decode(st, p, k, rows)[r] = rows[r]
<1>1. st[k] \in Header /\ k \in Nat OBVIOUS
<1>2. CASE st[k].pic # p BY <1>2 DEF Decode
<1>3. CASE st[k].pic = p
  <2> DEFINE n == StopRow(st[k], BoundOf(st, k), rows)
  <2>1. BoundOf(st, k) \in Int BY BoundType DEF Inf
  <2>2. /\ n \in st[k].first .. st[k].last
        /\ \A r \in st[k].first .. n - 1 : rows[r] = Undecoded
    <3> DEFINE sl == st[k]
               b == BoundOf(st, k)
    <3>1. sl \in Header /\ b \in Int BY <1>1, <2>1
    <3> HIDE DEF sl, b
    <3>2. /\ StopRow(sl, b, rows) \in sl.first .. sl.last
          /\ \A r \in sl.first .. StopRow(sl, b, rows) - 1 : rows[r] = Undecoded
      <4>1. LET m == StopRow(sl, b, rows)
            IN  /\ m \in sl.first .. sl.last
                /\ \A r \in sl.first .. m - 1 : r < b /\ rows[r] = Undecoded
                /\ m = sl.last \/ m >= b \/ rows[m] # Undecoded
        BY <3>1, StopsAt, Zenon
      <4> QED BY <4>1, Zenon
    <3> QED BY <3>2 DEF sl, b
  <2>3. Decode(st, p, k, rows) = Fill(st[k], k, n, rows) BY <1>3 DEF Decode
  <2> HIDE DEF n
  <2> QED BY <1>1, <2>2, <2>3, FilledRows
<1> QED BY <1>2, <1>3

-----------------------------------------------------------------------------
(* The rows of a picture after some slices and after more of them.         *)

LEMMA RowsAfterType ==
  ASSUME NEW st \in Seq(Header), NEW p, NEW n \in 0 .. Len(st)
  PROVE  RowsAfter(st, p, n) \in [Row -> RowContent]
<1> DEFINE S == {m \in Nat : m <= Len(st) => RowsAfter(st, p, m) \in [Row -> RowContent]}
<1>1. Len(st) \in Nat OBVIOUS
<1>2. 0 \in S BY <1>1, RowsAfterUnfolds, BlankRows
<1>3. ASSUME NEW m \in Nat, m \in S
      PROVE  m + 1 \in S
  <2> SUFFICES ASSUME m + 1 <= Len(st) PROVE RowsAfter(st, p, m + 1) \in [Row -> RowContent]
    OBVIOUS
  <2>1. m + 1 \in DOMAIN st /\ m + 1 \in 1 .. Len(st) /\ (m + 1) - 1 = m BY <1>1
  <2>2. RowsAfter(st, p, m) \in [Row -> RowContent] BY <1>1, <1>3
  <2>3. RowsAfter(st, p, m + 1) = Decode(st, p, m + 1, RowsAfter(st, p, m))
    BY <1>1, <2>1, RowsAfterUnfolds
  <2> QED BY <2>1, <2>2, <2>3, DecodeRows
<1>4. \A m \in Nat : m \in S
  <2> HIDE DEF S
  <2> QED BY <1>2, <1>3, Induction
<1> QED BY <1>4

(* A row once made stays as it is.                                         *)
LEMMA RowsStay ==
  ASSUME NEW st \in Seq(Header), NEW p, NEW n \in 0 .. Len(st), NEW m \in n .. Len(st),
         NEW r \in Row, RowsAfter(st, p, n)[r] # Undecoded
  PROVE  RowsAfter(st, p, m)[r] = RowsAfter(st, p, n)[r]
<1> DEFINE S == {d \in Nat : n + d <= Len(st) => RowsAfter(st, p, n + d)[r] = RowsAfter(st, p, n)[r]}
<1>1. Len(st) \in Nat OBVIOUS
<1>2. 0 \in S BY <1>1
<1>3. ASSUME NEW d \in Nat, d \in S
      PROVE  d + 1 \in S
  <2> SUFFICES ASSUME n + (d + 1) <= Len(st)
               PROVE  RowsAfter(st, p, n + (d + 1))[r] = RowsAfter(st, p, n)[r]
    OBVIOUS
  <2> DEFINE k == n + (d + 1)
  <2>1. k \in DOMAIN st /\ k \in 1 .. Len(st) /\ k - 1 = n + d /\ n + d \in 0 .. Len(st) BY <1>1
  <2>2. RowsAfter(st, p, n + d) \in [Row -> RowContent] BY <2>1, RowsAfterType
  <2>3. RowsAfter(st, p, k) = Decode(st, p, k, RowsAfter(st, p, n + d))
    BY <1>1, <2>1, RowsAfterUnfolds
  <2>4. RowsAfter(st, p, n + d)[r] = RowsAfter(st, p, n)[r] BY <1>1, <1>3, <2>1
  <2> HIDE DEF k
  <2> QED BY <2>1, <2>2, <2>3, <2>4, DecodeRows DEF k
<1>4. \A d \in Nat : d \in S
  <2> HIDE DEF S
  <2> QED BY <1>2, <1>3, Induction
<1>5. m - n \in Nat /\ n + (m - n) = m /\ m <= Len(st) BY <1>1
<1>6. m - n \in S BY <1>4, <1>5
<1> QED BY <1>5, <1>6

(* Slices of other pictures leave them alone.                              *)
LEMMA RowsSame ==
  ASSUME NEW st \in Seq(Header), NEW p, NEW n \in 0 .. Len(st), NEW m \in n .. Len(st),
         \A k \in n + 1 .. m : st[k].pic # p
  PROVE  RowsAfter(st, p, m) = RowsAfter(st, p, n)
<1> DEFINE S == {d \in Nat : n + d <= m => RowsAfter(st, p, n + d) = RowsAfter(st, p, n)}
<1>1. Len(st) \in Nat OBVIOUS
<1>2. 0 \in S BY <1>1
<1>3. ASSUME NEW d \in Nat, d \in S
      PROVE  d + 1 \in S
  <2> SUFFICES ASSUME n + (d + 1) <= m
               PROVE  RowsAfter(st, p, n + (d + 1)) = RowsAfter(st, p, n)
    OBVIOUS
  <2> DEFINE k == n + (d + 1)
  <2>1. k \in n + 1 .. m /\ k \in 1 .. Len(st) /\ k - 1 = n + d BY <1>1
  <2>2. RowsAfter(st, p, k) = Decode(st, p, k, RowsAfter(st, p, n + d))
    BY <1>1, <2>1, RowsAfterUnfolds
  <2>3. RowsAfter(st, p, n + d) = RowsAfter(st, p, n) BY <1>3, <1>1
  <2>4. st[k].pic # p BY <2>1
  <2> QED BY <2>2, <2>3, <2>4 DEF Decode
<1>4. \A d \in Nat : d \in S
  <2> HIDE DEF S
  <2> QED BY <1>2, <1>3, Induction
<1>5. m - n \in Nat /\ n + (m - n) = m BY <1>1
<1>6. m - n \in S BY <1>4, <1>5
<1> QED BY <1>5, <1>6

(* What slice k adds to the rows of its picture.                           *)
LEMMA SliceFills ==
  ASSUME NEW st \in Seq(Header), NEW k \in DOMAIN st
  PROVE  LET p == st[k].pic
             rows == RowsAfter(st, p, k - 1)
         IN  RowsAfter(st, p, k) = Fill(st[k], k, StopRow(st[k], BoundOf(st, k), rows), rows)
<1>1. Len(st) \in Nat /\ k \in 1 .. Len(st) OBVIOUS
<1>2. RowsAfter(st, st[k].pic, k) = Decode(st, st[k].pic, k, RowsAfter(st, st[k].pic, k - 1))
  BY <1>1, RowsAfterUnfolds
<1> QED BY <1>2 DEF Decode

(* Once every row of a picture is made, no slice of it is to come.         *)
LEMMA NoneAfterWhole ==
  ASSUME NEW st \in Seq(Header), StartsNew(st), NEW p, NEW n \in 0 .. Len(st),
         \A r \in Row : RowsAfter(st, p, n)[r] # Undecoded
  PROVE  \A k \in DOMAIN st : k > n => st[k].pic # p
<1> SUFFICES ASSUME NEW k \in DOMAIN st, k > n, st[k].pic = p PROVE FALSE OBVIOUS
<1>1. st[k] \in Header /\ k - 1 \in n .. Len(st) OBVIOUS
<1>2. st[k].first \in Row BY <1>1 DEF Header, Fields
<1>3. RowsAfter(st, p, k - 1)[st[k].first] = Undecoded BY DEF StartsNew
<1>4. RowsAfter(st, p, k - 1)[st[k].first] = RowsAfter(st, p, n)[st[k].first]
  BY <1>1, <1>2, RowsStay
<1> QED BY <1>2, <1>3, <1>4

(* A row made is what single-threaded decoding leaves there.               *)
LEMMA RowsFinal ==
  ASSUME NEW st \in Seq(Header), NEW p, NEW n \in 0 .. Len(st), NEW r \in Row,
         RowsAfter(st, p, n)[r] # Undecoded
  PROVE  RowsAfter(st, p, n)[r] = SingleThreaded(st, p)[r]
<1>1. Len(st) \in n .. Len(st) OBVIOUS
<1>2. RowsAfter(st, p, Len(st))[r] = RowsAfter(st, p, n)[r] BY <1>1, RowsStay
<1> QED BY <1>2 DEF SingleThreaded

-----------------------------------------------------------------------------
(* Counting the rows.                                                      *)

LEMMA RowsCounted ==
  ASSUME NEW rows
  PROVE  /\ IsFiniteSet(UndecodedIn(rows))
         /\ Cardinality(UndecodedIn(rows)) \in Nat
         /\ Cardinality(UndecodedIn(rows)) = 0 <=> \A r \in Row : rows[r] # Undecoded
<1>1. IsFiniteSet(Row) BY FS_Interval DEF Row
<1>2. UndecodedIn(rows) \in SUBSET Row BY DEF UndecodedIn
<1>3. IsFiniteSet(UndecodedIn(rows)) BY <1>1, <1>2, FS_Subset
<1>4. Cardinality(UndecodedIn(rows)) \in Nat BY <1>3, FS_CardinalityType
<1>5. Cardinality(UndecodedIn(rows)) = 0 <=> UndecodedIn(rows) = {} BY <1>3, FS_EmptySet
<1> QED BY <1>3, <1>4, <1>5 DEF UndecodedIn

LEMMA BlankCounted == Cardinality(UndecodedIn(Blank)) = Rows
<1>1. UndecodedIn(Blank) = 0 .. Rows - 1 BY DEF UndecodedIn, Blank, Row
<1> QED BY <1>1, FS_Interval

(* A slice takes its rows off those that are undecoded.                    *)
LEMMA FillCounted ==
  ASSUME NEW sl \in Header, NEW k \in Nat, NEW n \in sl.first .. sl.last,
         NEW rows \in [Row -> RowContent], \A r \in sl.first .. n - 1 : rows[r] = Undecoded
  PROVE  Cardinality(UndecodedIn(Fill(sl, k, n, rows)))
           = Cardinality(UndecodedIn(rows)) - (n - sl.first)
<1> DEFINE new == Fill(sl, k, n, rows)
           U == UndecodedIn(rows)
           D == sl.first .. n - 1
<1>1. sl.first \in Row /\ sl.last \in 1 .. Rows BY DEF Header, Fields
<1>2. D \subseteq Row BY <1>1 DEF Row
<1>3. /\ \A r \in Row : r \notin D => new[r] = rows[r]
      /\ \A r \in Row : r \in D => new[r] # Undecoded
  BY FilledRows
<1>4. UndecodedIn(new) = U \ D
  <2> HIDE DEF new, D
  <2> QED BY <1>3 DEF UndecodedIn
<1>5. U \cap D = D BY <1>2 DEF UndecodedIn
<1>6. sl.first \in Int /\ n \in Int /\ n >= sl.first BY <1>1 DEF Row
<1>7. Cardinality(D) = n - sl.first BY <1>6, FS_Interval
<1>8. Cardinality(U \ D) = Cardinality(U) - Cardinality(U \cap D)
  <2>1. IsFiniteSet(U) BY RowsCounted
  <2> HIDE DEF U, D
  <2> QED BY <2>1, FS_Difference
<1> QED BY <1>4, <1>5, <1>7, <1>8

(* Slice k is counted as in error if it is of the picture.                 *)
LEMMA FailedByNext ==
  ASSUME NEW st, NEW p, NEW k \in Nat \ {0}
  PROVE  /\ st[k].pic # p => (FailedBy(st, p, k) <=> FailedBy(st, p, k - 1))
         /\ st[k].pic = p =>
              (FailedBy(st, p, k) <=>
                 \/ FailedBy(st, p, k - 1)
                 \/ Failed(st[k], StopRow(st[k], BoundOf(st, k), RowsAfter(st, p, k - 1))))
<1> DEFINE F(j) == Failed(st[j], StopRow(st[j], BoundOf(st, j), RowsAfter(st, p, j - 1)))
<1>1. FailedBy(st, p, k) <=> \E j \in 1 .. k : st[j].pic = p /\ F(j) BY DEF FailedBy
<1>2. FailedBy(st, p, k - 1) <=> \E j \in 1 .. k - 1 : st[j].pic = p /\ F(j) BY DEF FailedBy
<1>3. 1 .. k = 1 .. (k - 1) \union {k} OBVIOUS
<1> HIDE DEF F
<1>4. (\E j \in 1 .. k : st[j].pic = p /\ F(j))
        <=> (\E j \in 1 .. k - 1 : st[j].pic = p /\ F(j)) \/ (st[k].pic = p /\ F(k))
  BY <1>3
<1> QED BY <1>1, <1>2, <1>4 DEF F

(* Slices of other pictures do not count.                                  *)
LEMMA FailedBySame ==
  ASSUME NEW st, NEW p, NEW n \in Nat, NEW m \in Nat, n <= m,
         \A k \in n + 1 .. m : st[k].pic # p
  PROVE  FailedBy(st, p, m) <=> FailedBy(st, p, n)
<1> DEFINE F(j) == Failed(st[j], StopRow(st[j], BoundOf(st, j), RowsAfter(st, p, j - 1)))
<1>1. FailedBy(st, p, m) <=> \E j \in 1 .. m : st[j].pic = p /\ F(j) BY DEF FailedBy
<1>2. FailedBy(st, p, n) <=> \E j \in 1 .. n : st[j].pic = p /\ F(j) BY DEF FailedBy
<1>3. 1 .. m = 1 .. n \union n + 1 .. m OBVIOUS
<1> HIDE DEF F
<1> QED BY <1>1, <1>2, <1>3

(* A picture is damaged if a slice of it fails or a row is never made.     *)
LEMMA DamagedIs ==
  ASSUME NEW st \in Seq(Header), NEW p
  PROVE  Damaged(st, p) <=> \/ Cardinality(UndecodedIn(RowsAfter(st, p, Len(st)))) # 0
                            \/ FailedBy(st, p, Len(st))
<1>1. DOMAIN st = 1 .. Len(st) OBVIOUS
<1> QED BY <1>1, RowsCounted DEF Damaged, FailedBy
=============================================================================
