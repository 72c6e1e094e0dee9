----------------------------- MODULE DpbMarking -----------------------------
(***************************************************************************)
(* Proofs about the pictures of Dpb, for any number of slots: references   *)
(* stay within max_num_ref_frames, and what a task reads stays in its slot,*)
(* for any streams, whatever is lost or sent twice; what a task decodes is *)
(* missing from its picture until it ends, so that its slot is given to no *)
(* other picture, for streams that send no part twice.                     *)
(***************************************************************************)
EXTENDS Dpb, FiniteSetTheorems, SequenceTheorems, NaturalsInduction, TLAPS

USE DpbAssumption

-----------------------------------------------------------------------------
(* Sets of numbers and of slots.                                           *)

LEMMA LeastOfNats ==
  ASSUME NEW S \in SUBSET Nat, S # {}
  PROVE  \E x \in S : \A y \in S : x <= y
<1> DEFINE R == {p \in Nat \X Nat : p[1] < p[2]}
<1>1. IsWellFoundedOn(R, Nat)
  BY NatLessThanWellFounded, Zenon DEF OpToRel
<1>2. \E x \in S : \A y \in S : ~ (<<y, x>> \in R)
  <2> HIDE DEF R
  <2> QED BY <1>1, WFMin, Zenon
<1>3. PICK x \in S : \A y \in S : ~ (<<y, x>> \in R)
  BY <1>2
<1>4. \A y \in S : x <= y
  <2> TAKE y \in S
  <2>1. ~ (y < x) BY <1>3
  <2> QED BY <2>1
<1> QED BY <1>4

(* Among slots with numbers, one has the least.                            *)
LEMMA LeastOf ==
  ASSUME NEW S, S # {}, NEW f, \A s \in S : f[s] \in Nat
  PROVE  \E s \in S : \A t \in S : f[s] <= f[t]
<1> DEFINE N == {f[s] : s \in S}
<1>1. N \in SUBSET Nat /\ N # {} OBVIOUS
<1>2. PICK n \in N : \A m \in N : n <= m BY <1>1, LeastOfNats
<1> QED BY <1>2

(* Among finitely many, one has the greatest: as few as can be are above.  *)
LEMMA GreatestOf ==
  ASSUME NEW S, S # {}, IsFiniteSet(S), NEW f, \A s \in S : f[s] \in Nat
  PROVE  \E s \in S : \A t \in S : f[t] <= f[s]
<1> DEFINE Above(s) == {t \in S : f[t] > f[s]}
           g == [s \in S |-> Cardinality(Above(s))]
<1>1. \A s \in S : IsFiniteSet(Above(s)) /\ Cardinality(Above(s)) \in Nat
  BY FS_Subset, FS_CardinalityType
<1>2. \A s \in S : g[s] \in Nat BY <1>1
<1> HIDE DEF g
<1>3. PICK s \in S : \A t \in S : g[s] <= g[t] BY <1>2, LeastOf
<1>4. ASSUME NEW t \in S, f[t] > f[s] PROVE FALSE
  <2>1. Above(t) \subseteq Above(s) BY <1>4
  <2>2. t \in Above(s) /\ t \notin Above(t) BY <1>4
  <2> HIDE DEF Above
  <2>3. Cardinality(Above(t)) < Cardinality(Above(s))
    <3>1. Cardinality(Above(t)) <= Cardinality(Above(s)) BY <1>1, <2>1, FS_Subset
    <3>2. Cardinality(Above(t)) # Cardinality(Above(s)) BY <1>1, <2>1, <2>2, FS_Subset
    <3> QED BY <1>1, <3>1, <3>2
  <2>4. g[t] < g[s] BY <2>3 DEF g
  <2> QED BY <1>2, <1>3, <2>4
<1> QED BY <1>4

LEMMA LessStays ==
  ASSUME NEW m \in Nat, NEW x \in Nat, NEW y \in Nat, y <= x, x <= m
  PROVE  y <= m
OBVIOUS

LEMMA SumStays ==
  ASSUME NEW k \in Nat, NEW m \in Nat, NEW x \in Nat, NEW y \in Nat, y <= x, k + x <= m
  PROVE  k + y <= m
OBVIOUS

LEMMA SlotsFinite ==
  ASSUME NEW S, S \subseteq Slot
  PROVE  IsFiniteSet(S) /\ Cardinality(S) \in Nat /\ Cardinality(S) <= MaxFrames
<1>1. IsFiniteSet(1 .. MaxFrames)
      /\ Cardinality(1 .. MaxFrames) = IF 1 > MaxFrames THEN 0 ELSE MaxFrames - 1 + 1
  <2>1. 1 \in Int /\ MaxFrames \in Int OBVIOUS
  <2> QED BY <2>1, FS_Interval, Zenon
<1>2. IsFiniteSet(Slot) /\ Cardinality(Slot) = MaxFrames BY <1>1 DEF Slot
<1> QED BY <1>2, FS_Subset, FS_CardinalityType

(* A property of every number that each number hands on to the next.       *)
LEMMA EveryNat ==
  ASSUME NEW S \in SUBSET Nat, 0 \in S, \A k \in S : k + 1 \in S
  PROVE  S = Nat
<1> DEFINE missing == Nat \ S
<1>1. SUFFICES ASSUME missing # {} PROVE FALSE OBVIOUS
<1>2. PICK m \in missing : \A k \in missing : m <= k BY <1>1, LeastOfNats
<1>3. m # 0 /\ m \in Nat BY <1>2
<1>4. m - 1 \in Nat /\ ~ (m <= m - 1) BY <1>3
<1>5. m - 1 \in S BY <1>2, <1>4
<1>6. (m - 1) + 1 \in S BY <1>5
<1>7. m \in S BY <1>3, <1>6
<1> QED BY <1>2, <1>7

(* At least k of k or more slots have fewer than k lower ones.             *)
LEMMA ManyAreLow ==
  ASSUME NEW S, IsFiniteSet(S), NEW f, \A s \in S : f[s] \in Nat,
         NEW k \in Nat, k <= Cardinality(S)
  PROVE  Cardinality({s \in S : Cardinality({t \in S : f[t] < f[s]}) < k}) >= k
<1> DEFINE Lower(s) == {t \in S : f[t] < f[s]}
           Low(n) == {s \in S : Cardinality(Lower(s)) < n}
           good == {n \in Nat : n <= Cardinality(S) => Cardinality(Low(n)) >= n}
<1>1. Cardinality(S) \in Nat BY FS_CardinalityType
<1>2. \A n \in Nat : IsFiniteSet(Low(n)) /\ Cardinality(Low(n)) \in Nat
  BY FS_Subset, FS_CardinalityType
<1>3. \A s \in S : IsFiniteSet(Lower(s)) /\ Cardinality(Lower(s)) \in Nat
  BY FS_Subset, FS_CardinalityType
<1>4. 0 \in good BY <1>2
<1>5. ASSUME NEW n \in good PROVE n + 1 \in good
  <2>1. SUFFICES ASSUME n + 1 <= Cardinality(S) PROVE Cardinality(Low(n + 1)) >= n + 1
    OBVIOUS
  <2>2. n \in Nat /\ Cardinality(Low(n)) >= n BY <1>1, <2>1
  <2>3. Low(n) \subseteq Low(n + 1)
    <3>1. SUFFICES ASSUME NEW s \in S, Cardinality(Lower(s)) < n
                   PROVE  Cardinality(Lower(s)) < n + 1
      OBVIOUS
    <3> HIDE DEF Lower
    <3> QED BY <1>3, <2>2, <3>1
  <2> HIDE DEF Low
  <2>4. Cardinality(Low(n)) <= Cardinality(Low(n + 1)) BY <1>2, <2>2, <2>3, FS_Subset
  <2>5. CASE Cardinality(Low(n)) >= n + 1 BY <1>2, <2>2, <2>4, <2>5
  <2>6. CASE Cardinality(Low(n)) = n
    <3> DEFINE rest == S \ Low(n)
    <3>1. rest # {}
      <4>1. Low(n) \subseteq S BY DEF Low
      <4>2. rest = {} => S = Low(n) BY <4>1
      <4> HIDE DEF rest
      <4> QED BY <1>1, <2>1, <2>2, <2>6, <4>2
    <3>2. PICK x \in rest : \A y \in rest : f[x] <= f[y] BY <3>1, LeastOf
    <3>3. Lower(x) \subseteq Low(n) BY <3>2
    <3>4. Cardinality(Lower(x)) <= n BY <1>2, <2>2, <2>6, <3>3, FS_Subset
    <3>5. x \in Low(n + 1) BY <1>3, <2>2, <3>2, <3>4 DEF Low
    <3>6. Cardinality(Low(n) \union {x}) = n + 1 BY <1>2, <2>2, <2>6, <3>2, FS_AddElement
    <3>7. Cardinality(Low(n) \union {x}) <= Cardinality(Low(n + 1))
      BY <1>2, <2>2, <2>3, <3>5, FS_Subset
    <3> QED BY <1>2, <2>2, <3>6, <3>7
  <2> QED BY <1>2, <2>2, <2>5, <2>6
<1> HIDE DEF good
<1>6. good = Nat
  <2>1. good \in SUBSET Nat BY DEF good
  <2> QED BY <1>4, <1>5, <2>1, EveryNat
<1>7. k \in good BY <1>6
<1> QED BY <1>7 DEF good

(* At most m slots have fewer than m lower ones.                           *)
LEMMA FewAreLow ==
  ASSUME NEW S, S \subseteq Slot, NEW m \in Nat
  PROVE  Cardinality({s \in S : Cardinality({x \in S : x < s}) < m}) <= m
<1> DEFINE Lower(s) == {x \in S : x < s}
           low == {s \in S : Cardinality(Lower(s)) < m}
           rank == [s \in low |-> Cardinality(Lower(s))]
<1>1. \A s \in S : IsFiniteSet(Lower(s)) /\ Cardinality(Lower(s)) \in Nat
  BY SlotsFinite
<1>2. rank \in [low -> 0 .. m - 1] BY <1>1
<1>3. \A s, t \in low : rank[s] = rank[t] => s = t
  <2>1. ASSUME NEW s \in low, NEW t \in low, s < t PROVE rank[s] < rank[t]
    <3>1. s \in Int /\ t \in Int BY DEF Slot
    <3>2. Lower(s) \union {s} \subseteq Lower(t)
      <4>1. \A x \in S : x \in Int BY DEF Slot
      <4>2. \A x \in S : x < s => x < t BY <2>1, <3>1, <4>1
      <4> QED BY <2>1, <4>2
    <3>3. Cardinality(Lower(s) \union {s}) = Cardinality(Lower(s)) + 1
      <4>1. s \notin Lower(s) BY <3>1
      <4> QED BY <1>1, <4>1, FS_AddElement
    <3>4. Cardinality(Lower(s) \union {s}) <= Cardinality(Lower(t)) BY <1>1, <3>2, FS_Subset
    <3> QED BY <1>1, <3>3, <3>4
  <2>2. TAKE s, t \in low
  <2>3. s \in Int /\ t \in Int BY DEF Slot
  <2>4. rank[s] \in Int /\ rank[t] \in Int BY <1>2
  <2> HIDE DEF rank, low
  <2>5. s < t => rank[s] < rank[t] BY <2>1
  <2>6. t < s => rank[t] < rank[s] BY <2>1
  <2> QED BY <2>3, <2>4, <2>5, <2>6
<1>4. rank \in Injection(low, 0 .. m - 1) BY <1>2, <1>3, Zenon DEF Injection, IsInjective
<1>5. IsFiniteSet(0 .. m - 1) /\ Cardinality(0 .. m - 1) = m
  <2>1. 0 \in Int /\ m - 1 \in Int OBVIOUS
  <2>2. IsFiniteSet(0 .. m - 1)
        /\ Cardinality(0 .. m - 1) = IF 0 > m - 1 THEN 0 ELSE m - 1 - 0 + 1
    BY <2>1, FS_Interval, Zenon
  <2> QED BY <2>2
<1> HIDE DEF rank, low
<1>6. Cardinality(low) <= Cardinality(0 .. m - 1) BY <1>4, <1>5, FS_Injection
<1> QED BY <1>5, <1>6 DEF low
-----------------------------------------------------------------------------
(* Frames of which only some parts, if any, were decoded or concealed.     *)
OnlyDecoded(f, g) ==
  /\ g \in [Slot -> Frame]
  /\ \A s \in Slot :
       /\ g[s].nal = f[s].nal /\ g[s].view = f[s].view /\ g[s].num = f[s].num
       /\ g[s].poc = f[s].poc /\ g[s].id = f[s].id
       /\ g[s].before = f[s].before /\ g[s].after = f[s].after
       /\ g[s].missing \subseteq f[s].missing

(* A frame stays one when fields of it are set.                            *)
LEMMA SetField ==
  ASSUME NEW f \in Frame
  PROVE  /\ \A x \in Nat : [f EXCEPT !.nal = x] \in Frame
         /\ \A x \in Nat : [f EXCEPT !.from = x] \in Frame
         /\ \A x \in View : [f EXCEPT !.view = x] \in Frame
         /\ \A x \in Nat : [f EXCEPT !.num = x] \in Frame
         /\ \A x \in Int : [f EXCEPT !.poc = x] \in Frame
         /\ \A x \in SUBSET Part : [f EXCEPT !.missing = x] \in Frame
         /\ \A x \in Int : [f EXCEPT !.id = x] \in Frame
         /\ \A x \in Nat : [f EXCEPT !.before = x] \in Frame
         /\ \A x \in Nat : [f EXCEPT !.after = x] \in Frame
<1>1. \A x \in Nat : [f EXCEPT !.nal = x] \in Frame BY DEF Frame
<1>2. \A x \in Nat : [f EXCEPT !.from = x] \in Frame BY DEF Frame
<1>3. \A x \in View : [f EXCEPT !.view = x] \in Frame BY DEF Frame
<1>4. \A x \in Nat : [f EXCEPT !.num = x] \in Frame BY DEF Frame
<1>5. \A x \in Int : [f EXCEPT !.poc = x] \in Frame BY DEF Frame
<1>6. \A x \in SUBSET Part : [f EXCEPT !.missing = x] \in Frame BY DEF Frame
<1>7. \A x \in Int : [f EXCEPT !.id = x] \in Frame BY DEF Frame
<1>8. \A x \in Nat : [f EXCEPT !.before = x] \in Frame BY DEF Frame
<1>9. \A x \in Nat : [f EXCEPT !.after = x] \in Frame BY DEF Frame
<1> QED BY <1>1, <1>2, <1>3, <1>4, <1>5, <1>6, <1>7, <1>8, <1>9, Zenon

LEMMA ClearedFrame ==
  ASSUME NEW f \in Frame, NEW h,
         h = [f EXCEPT !.view = 0, !.num = 0, !.poc = 0, !.id = 0, !.before = 0, !.after = 0]
  PROVE  /\ h \in Frame /\ h.num = 0 /\ h.id = 0 /\ h.view = 0 /\ h.nal = f.nal
         /\ h.missing = f.missing
<1> DEFINE a == [f EXCEPT !.view = 0] b == [a EXCEPT !.num = 0] c == [b EXCEPT !.poc = 0]
           d == [c EXCEPT !.id = 0] e == [d EXCEPT !.before = 0] g == [e EXCEPT !.after = 0]
<1>1. h = g OBVIOUS
<1>2. h.num = 0 /\ h.id = 0 /\ h.view = 0 /\ h.nal = f.nal /\ h.missing = f.missing BY DEF Frame
<1>3. 0 \in View /\ 0 \in Nat /\ 0 \in Int BY DEF View
<1>4. a \in Frame BY <1>3, SetField, Zenon
<1> HIDE DEF a
<1>5. b \in Frame BY <1>3, <1>4, SetField, Zenon
<1> HIDE DEF b
<1>6. c \in Frame BY <1>3, <1>5, SetField, Zenon
<1> HIDE DEF c
<1>7. d \in Frame BY <1>3, <1>6, SetField, Zenon
<1> HIDE DEF d
<1>8. e \in Frame BY <1>3, <1>7, SetField, Zenon
<1> HIDE DEF e
<1>9. g \in Frame BY <1>3, <1>8, SetField, Zenon
<1> QED BY <1>1, <1>2, <1>9

LEMMA ConcealedOnly ==
  ASSUME NEW f, NEW g, OnlyDecoded(f, g), NEW ts, NEW cur, NEW toGet
  PROVE  OnlyDecoded(f, Concealed(g, ts, cur, toGet))
<1> DEFINE hidden == {s \in Slot : s \in ((toGet \union DependedBy(ts)) \ {t.slot : t \in ts}) \ {cur}
                                  /\ ~Awaited(g, s, toGet, {t.slot : t \in ts})}
<1>1. Concealed(g, ts, cur, toGet) =
        [s \in Slot |-> IF s \in hidden THEN [g[s] EXCEPT !.missing = {}] ELSE g[s]]
  BY DEF Concealed
<1> HIDE DEF hidden
<1>2. \A s \in Slot : g[s] \in Frame BY DEF OnlyDecoded
<1> QED BY <1>1, <1>2 DEF OnlyDecoded, Frame

LEMMA SameFramesOnly ==
  ASSUME frame \in [Slot -> Frame]
  PROVE  OnlyDecoded(frame, frame)
BY DEF OnlyDecoded

LEMMA DrainedOnly ==
  ASSUME frame \in [Slot -> Frame], Drained
  PROVE  OnlyDecoded(frame, frame')
<1>1. \A s \in Slot : frame[s] \in Frame OBVIOUS
<1> QED BY <1>1 DEF Drained, OnlyDecoded, Frame

(* The NAL being sent is one, of a stream.                                 *)
LEMMA NalTypes ==
  ASSUME PictureTypes
  PROVE  /\ stream \in Stream /\ Len(stream.nals) \in Nat /\ at \in Nat
         /\ stream.numRef \in Nat /\ stream.numRef > 0
         /\ at <= Len(stream.nals) => stream.nals[at] \in Nal
<1>1. stream \in Stream BY DEF PictureTypes
<1>2. stream.nals \in Seq(Nal) /\ stream.numRef \in Nat \ {0} BY <1>1 DEF Stream
<1>3. Len(stream.nals) \in Nat BY <1>2, LenProperties
<1>4. at \in 1 .. Len(stream.nals) + 1 BY DEF PictureTypes
<1>5. at <= Len(stream.nals) => stream.nals[at] \in Nal BY <1>2, <1>3, <1>4, ElementOfSeq
<1> QED BY <1>1, <1>2, <1>3, <1>4, <1>5

LEMMA Remainder ==
  ASSUME NEW x \in Int, NEW m \in Nat \ {0}
  PROVE  x % m \in 0 .. m - 1
OBVIOUS

(* Frame numbers follow the last one of their view; what is inferred in    *)
(* between is no more than the references of a view.                       *)
LEMMA InferredType ==
  ASSUME PictureTypes, NEW n \in Nal
  PROVE  /\ n.view \in View /\ prevRef[n.view].num \in Int
         /\ FrameNumOf(prevRef[n.view], n) \in Int
         /\ FrameNumOf(prevRef[n.view], n) > prevRef[n.view].num
         /\ Inferred(n) \in Nat /\ Inferred(n) <= stream.numRef
         /\ Inferred(n) <= FrameNumOf(prevRef[n.view], n) - prevRef[n.view].num - 1
<1> DEFINE p == prevRef[n.view].num
           coded == IF n.idr # 0 THEN 0 ELSE n.num
           f == FrameNumOf(prevRef[n.view], n)
<1>1. n.view \in View /\ coded \in Nat BY DEF Nal, View
<1>2. p \in Int BY <1>1 DEF PictureTypes
<1>3. (coded - p - 1) % FrameNumSpan \in Nat
  <2>1. coded - p - 1 \in Int /\ FrameNumSpan \in Nat \ {0} BY <1>1, <1>2
  <2> HIDE DEF coded, p
  <2> QED BY <2>1, Remainder
<1>4. f = p + 1 + ((coded - p - 1) % FrameNumSpan) BY DEF FrameNumOf
<1>5. stream.numRef \in Nat BY NalTypes
<1>6. Inferred(n) = IF f - p - 1 < stream.numRef THEN f - p - 1 ELSE stream.numRef
  BY DEF Inferred
<1> HIDE DEF f, coded
<1>7. f \in Int /\ f > p
  <2> HIDE DEF p
  <2> QED BY <1>2, <1>3, <1>4
<1> QED BY <1>1, <1>2, <1>5, <1>6, <1>7 DEF f

LEMMA OfViewFinite ==
  ASSUME NEW v, NEW S, S \subseteq Slot
  PROVE  IsFiniteSet(S \intersect OfView(v)) /\ Cardinality(S \intersect OfView(v)) \in Nat
<1>1. S \intersect OfView(v) \subseteq Slot OBVIOUS
<1> HIDE DEF OfView
<1> QED BY <1>1, SlotsFinite

-----------------------------------------------------------------------------
(* Steps that take no slot and mark nothing: what they may still change.   *)
Elsewhere ==
  /\ stream' = stream /\ at' \in 1 .. Len(stream.nals) + 1
  /\ OnlyDecoded(frame, frame')
  /\ tasks' \subseteq tasks /\ heldTask' \in Nat
  /\ UNCHANGED <<currPic, basePic, marks, marked, prevRef, prevFrameId, lastBaseId>>
  /\ refs' \subseteq refs /\ source' \in Slot \union {None}
  /\ call' \in Call
  /\ call' \in {"fill", "fill room"} => call \in {"fill", "fill room"} /\ at' = at

LEMMA ElsewhereKeeps ==
  ASSUME MarkingInv, Elsewhere, NalSent'
  PROVE  MarkingInv'
<1> USE DEF Elsewhere
<1>1. PictureTypes' BY DEF MarkingInv, PictureTypes, OnlyDecoded
<1>2. \A s \in Slot : frame'[s].view = frame[s].view BY DEF OnlyDecoded
<1>3. MarksOfView'
  <2>1. marked => currPic \in Slot BY DEF MarkingInv, MarksOfView, PictureTypes
  <2> QED BY <1>2, <2>1 DEF MarkingInv, MarksOfView, OfView
<1>4. MarksFew' BY DEF MarkingInv, MarksFew
<1>5. \A v \in View : Cardinality((refs \intersect OfView(v))') <= Cardinality(refs \intersect OfView(v))
  <2> TAKE v \in View
  <2> DEFINE now == {s \in refs' : frame'[s].view = v}
             was == {s \in refs : frame[s].view = v}
  <2>1. now = (refs \intersect OfView(v))' /\ was = refs \intersect OfView(v)
    BY <1>1 DEF OfView, MarkingInv, PictureTypes
  <2>2. now \subseteq was BY <1>2 DEF MarkingInv, PictureTypes
  <2>3. IsFiniteSet(was)
    <3>1. was \subseteq Slot BY DEF MarkingInv, PictureTypes
    <3> HIDE DEF was
    <3> QED BY <3>1, SlotsFinite
  <2> HIDE DEF now, was
  <2>4. Cardinality(now) <= Cardinality(was) BY <2>2, <2>3, FS_Subset
  <2> QED BY <2>1, <2>4
<1>6. \A v \in View : Cardinality(refs \intersect OfView(v)) \in Nat
  BY OfViewFinite DEF MarkingInv, PictureTypes
<1>7. \A v \in View : Cardinality((refs \intersect OfView(v))') \in Nat
  <2> TAKE v \in View
  <2>1. (refs \intersect OfView(v))' \subseteq Slot BY <1>1 DEF PictureTypes
  <2> HIDE DEF Elsewhere
  <2> QED BY <2>1, SlotsFinite
<1>8. MarkingBounded'
  <2> SUFFICES ASSUME NEW v \in View
               PROVE  Cardinality((refs \intersect OfView(v))') <= stream.numRef
    BY DEF MarkingBounded
  <2>1. stream.numRef \in Nat BY NalTypes DEF MarkingInv
  <2>2. Cardinality(refs \intersect OfView(v)) <= stream.numRef
    BY Zenon DEF MarkingInv, MarkingBounded
  <2> QED BY <1>5, <1>6, <1>7, <2>1, <2>2, LessStays, Zenon
<1>9. GapFits'
  <2> SUFFICES ASSUME call' \in {"fill", "fill room"} PROVE GapFits' BY DEF GapFits
  <2> DEFINE n == stream.nals[at]
  <2>1. at' = at /\ at <= Len(stream.nals) BY DEF MarkingInv, NalSent, Placing
  <2>2. n \in Nal /\ stream.numRef \in Nat BY <2>1, NalTypes DEF MarkingInv
  <2>3. Inferred(n)' = Inferred(n) BY <2>1 DEF Inferred, FrameNumOf
  <2>4. Inferred(n) \in Nat BY <2>2, InferredType DEF MarkingInv
  <2>5. Inferred(n) + Cardinality(refs \intersect OfView(n.view)) <= stream.numRef
    BY DEF MarkingInv, GapFits
  <2>6. n.view \in View BY <2>2 DEF Nal, View
  <2>7. (refs \intersect OfView(n.view))' = {s \in refs' : s \in Slot /\ frame'[s].view = n.view}
    BY <2>1 DEF OfView
  <2>8. (refs \intersect OfView(n.view))' = refs' \intersect {s \in Slot : frame'[s].view = n.view}
    BY <2>1 DEF OfView
  <2> DEFINE now == Cardinality(refs' \intersect {s \in Slot : frame'[s].view = n.view})
             was == Cardinality(refs \intersect OfView(n.view))
  <2>9. now <= was /\ now \in Nat /\ was \in Nat
    <3>1. \A v \in View : (refs \intersect OfView(v))' = refs' \intersect {s \in Slot : frame'[s].view = v}
      BY DEF OfView
    <3> HIDE DEF n, Elsewhere
    <3> QED BY <1>5, <1>6, <1>7, <2>6, <3>1
  <2>10. Inferred(n) + now <= stream.numRef
    <3>1. Inferred(n) + was <= stream.numRef BY <2>5
    <3> HIDE DEF n, now, was, Elsewhere
    <3> QED BY <2>2, <2>4, <2>9, <3>1, SumStays, Zenon
  <2> QED BY <2>1, <2>3, <2>8, <2>10 DEF GapFits
<1>10. NumbersNatural' BY DEF MarkingInv, NumbersNatural, OnlyDecoded
<1>11. ReadersKeepSlots'
  <2>1. \A t \in tasks : \A d \in t.deps : d[1] \in Slot
    BY DEF MarkingInv, PictureTypes, Task
  <2> QED BY <2>1 DEF MarkingInv, ReadersKeepSlots, OnlyDecoded
<1> QED BY <1>1, <1>3, <1>4, <1>8, <1>9, <1>10, <1>11 DEF MarkingInv
-----------------------------------------------------------------------------
(* Every return from a call of send_nal leaves a next NAL, or the end.     *)
LEMMA ReturnsAt ==
  ASSUME MarkingInv, at <= Len(stream.nals), NEW result, Sending(result)
  PROVE  /\ stream' = stream /\ at' \in 1 .. Len(stream.nals) + 1 /\ call' = "none"
         /\ UNCHANGED ended
<1>1. at \in 1 .. Len(stream.nals) + 1 BY DEF MarkingInv, PictureTypes
<1>2. Len(stream.nals) \in Nat BY NalTypes DEF MarkingInv
<1>3. stream' = stream /\ call' = "none" /\ at' \in {at, at + 1} /\ UNCHANGED ended
  BY DEF Sending
<1> QED BY <1>1, <1>2, <1>3

(* A call that goes on, with the same NAL.                                 *)
LEMMA GoesOn ==
  ASSUME MarkingInv, UNCHANGED <<stream, at>>
  PROVE  at' \in 1 .. Len(stream.nals) + 1 /\ stream' = stream
BY DEF MarkingInv, PictureTypes

LEMMA NoCallNalSent ==
  ASSUME call' \notin {"gate", "slice", "insert", "sequence", "flush", "end"} \union Placing
  PROVE  NalSent'
BY DEF NalSent, Placing

(* The parts of a step that the steps below leave alone.                   *)
Marking == <<currPic, basePic, marks, marked, prevRef, prevFrameId, lastBaseId>>

LEMMA SendNalMarks ==
  ASSUME MarkingInv, SendNal \/ Flush
  PROVE  MarkingInv'
<1>1. /\ UNCHANGED <<stream, at, frame, tasks, refs, source>> /\ UNCHANGED Marking
      /\ call' \in {"gate", "flush"} /\ at <= Len(stream.nals) /\ heldTask' \in {0, heldTask}
  BY DEF SendNal, Flush, sendVars, parseVars, idVars, Marking
<1>2. heldTask' \in Nat BY <1>1 DEF MarkingInv, PictureTypes
<1>3. OnlyDecoded(frame, frame') BY <1>1, SameFramesOnly DEF MarkingInv, PictureTypes
<1>4. Elsewhere
  BY <1>1, <1>2, <1>3, GoesOn DEF Elsewhere, Marking, Call, MarkingInv, PictureTypes
<1>5. NalSent' BY <1>1 DEF NalSent, Placing
<1> QED BY <1>4, <1>5, ElsewhereKeeps

LEMMA QueueGateMarks ==
  ASSUME MarkingInv, QueueGate
  PROVE  MarkingInv'
<1>1. /\ UNCHANGED <<frame, tasks, heldTask, refs, source>> /\ UNCHANGED Marking
      /\ call = "gate" /\ Sending("AGAIN")
  BY DEF QueueGate, taskVars, parseVars, idVars, Marking
<1>2. at <= Len(stream.nals) BY <1>1 DEF MarkingInv, NalSent
<1>3. OnlyDecoded(frame, frame') BY <1>1, SameFramesOnly DEF MarkingInv, PictureTypes
<1>4. stream' = stream /\ at' \in 1 .. Len(stream.nals) + 1 /\ call' = "none"
  BY <1>1, <1>2, ReturnsAt
<1>5. Elsewhere BY <1>1, <1>3, <1>4 DEF Elsewhere, Marking, Call, MarkingInv, PictureTypes
<1>6. NalSent' BY <1>4, NoCallNalSent DEF Placing
<1> QED BY <1>5, <1>6, ElsewhereKeeps

LEMMA PassGateMarks ==
  ASSUME MarkingInv, PassGate
  PROVE  MarkingInv'
<1>1. /\ UNCHANGED <<stream, at, frame, tasks, heldTask, refs, source>> /\ UNCHANGED Marking
      /\ call = "gate" /\ call' \in {"slice", "end"}
  BY DEF PassGate, Parsing, taskVars, parseVars, idVars, Marking
<1>2. at <= Len(stream.nals) BY <1>1 DEF MarkingInv, NalSent
<1>3. OnlyDecoded(frame, frame') BY <1>1, SameFramesOnly DEF MarkingInv, PictureTypes
<1>4. Elsewhere BY <1>1, <1>3, GoesOn DEF Elsewhere, Marking, Call, MarkingInv, PictureTypes
<1>5. NalSent' BY <1>1, <1>2 DEF NalSent, Placing
<1> QED BY <1>4, <1>5, ElsewhereKeeps

LEMMA NoSlotMarks ==
  ASSUME MarkingInv, GapFull \/ DpbFull
  PROVE  MarkingInv'
<1>1. PICK c, room, needed, taken :
        /\ (c = "fill" /\ room = "fill room") \/ (c = "slot" /\ room = "room")
        /\ NoSlot(c, room, needed, taken)
  BY Zenon DEF GapFull, DpbFull
<1>2. /\ call = c /\ UNCHANGED <<frame, tasks, heldTask, refs>> /\ UNCHANGED Marking
      /\ source' \in {None, source}
      /\ (call' = room /\ UNCHANGED <<stream, at>>) \/ Sending("AGAIN")
  BY <1>1 DEF NoSlot, Parsing, taskVars, parseVars, idVars, Marking
<1>3. at <= Len(stream.nals) /\ currPic = None
  BY <1>1, <1>2 DEF MarkingInv, NalSent, Placing
<1>4. OnlyDecoded(frame, frame') BY <1>2, SameFramesOnly DEF MarkingInv, PictureTypes
<1>5. source' \in Slot \union {None} BY <1>2 DEF MarkingInv, PictureTypes
<1>6. CASE call' = room /\ UNCHANGED <<stream, at>>
  <2>1. call' \in Call /\ (call' \in {"fill", "fill room"} => call \in {"fill", "fill room"})
    BY <1>1, <1>2, <1>6 DEF Call
  <2>2. Elsewhere BY <1>2, <1>4, <1>5, <1>6, <2>1, GoesOn DEF Elsewhere, Marking, MarkingInv, PictureTypes
  <2>3. NalSent' BY <1>1, <1>2, <1>3, <1>6 DEF NalSent, Placing, Marking
  <2> QED BY <2>2, <2>3, ElsewhereKeeps
<1>7. CASE Sending("AGAIN")
  <2>1. stream' = stream /\ at' \in 1 .. Len(stream.nals) + 1 /\ call' = "none"
    BY <1>3, <1>7, ReturnsAt
  <2>2. Elsewhere BY <1>2, <1>4, <1>5, <2>1 DEF Elsewhere, Marking, Call, MarkingInv, PictureTypes
  <2>3. NalSent' BY <2>1, NoCallNalSent DEF Placing
  <2> QED BY <2>2, <2>3, ElsewhereKeeps
<1> QED BY <1>2, <1>6, <1>7

LEMMA MakeRoomMarks ==
  ASSUME MarkingInv, MakeRoom
  PROVE  MarkingInv'
<1>1. PICK c, room : /\ (c = "fill" /\ room = "fill room") \/ (c = "slot" /\ room = "room")
                     /\ Room(room, c)
  BY Zenon DEF MakeRoom
<1>2. /\ call = room /\ Drained /\ UNCHANGED <<tasks, heldTask>> /\ UNCHANGED Marking
      /\ \/ Sending("AGAIN") /\ source' = None /\ UNCHANGED refs
         \/ /\ refs' = refs \ {OldestReference} /\ call' = c /\ UNCHANGED <<stream, at, source>>
  BY <1>1, Zenon DEF Room, Parsing, taskVars, idVars, Marking
<1>3. at <= Len(stream.nals) /\ currPic = None
  BY <1>1, <1>2 DEF MarkingInv, NalSent, Placing
<1>4. OnlyDecoded(frame, frame') BY <1>2, DrainedOnly DEF MarkingInv, PictureTypes
<1>5. CASE Sending("AGAIN") /\ source' = None /\ UNCHANGED refs
  <2>1. stream' = stream /\ at' \in 1 .. Len(stream.nals) + 1 /\ call' = "none"
    BY <1>3, <1>5, ReturnsAt
  <2>2. Elsewhere BY <1>2, <1>4, <1>5, <2>1 DEF Elsewhere, Marking, Call, MarkingInv, PictureTypes
  <2>3. NalSent' BY <2>1, NoCallNalSent DEF Placing
  <2> QED BY <2>2, <2>3, ElsewhereKeeps
<1>6. CASE refs' = refs \ {OldestReference} /\ call' = c /\ UNCHANGED <<stream, at, source>>
  <2>1. call' \in Call /\ (call' \in {"fill", "fill room"} => call \in {"fill", "fill room"})
    BY <1>1, <1>2, <1>6 DEF Call
  <2>2. refs' \subseteq refs BY <1>6
  <2>3. Elsewhere
    BY <1>2, <1>4, <1>6, <2>1, <2>2, GoesOn DEF Elsewhere, Marking, MarkingInv, PictureTypes
  <2>4. NalSent' BY <1>1, <1>2, <1>3, <1>6 DEF NalSent, Placing, Marking
  <2> QED BY <2>3, <2>4, ElsewhereKeeps
<1> QED BY <1>2, <1>5, <1>6
-----------------------------------------------------------------------------
LEMMA EmptyIsSmall ==
  ASSUME NEW S, S = {}
  PROVE  Cardinality(S) = 0
BY FS_EmptySet

(* A decoder that forgets everything, once no task is busy.                *)
LEMMA ClearMarks ==
  ASSUME MarkingInv, Clear(frame), tasks = {}, stream' = stream,
         at' \in 1 .. Len(stream.nals) + 1, call' = "none"
  PROVE  MarkingInv'
<1>1. /\ frame' = [s \in Slot |-> [frame[s] EXCEPT !.view = 0, !.num = 0, !.poc = 0, !.id = 0,
                                                  !.before = 0, !.after = 0]]
      /\ heldTask' = 0 /\ currPic' = None /\ basePic' = None /\ refs' = {} /\ marks' = {}
      /\ marked' = FALSE /\ prevRef' = [v \in View |-> [num |-> -1, poc |-> 0]]
      /\ source' = None /\ lastBaseId' = 0 /\ tasks' = tasks /\ prevFrameId' = prevFrameId
  BY DEF Clear
<1>2. stream.numRef \in Nat BY NalTypes DEF MarkingInv
<1>3. frame' \in [Slot -> Frame] /\ \A s \in Slot : frame'[s].num = 0 /\ frame'[s].id = 0
  <2>1. \A s \in Slot : frame[s] \in Frame BY DEF MarkingInv, PictureTypes
  <2> DEFINE cleared(s) == [frame[s] EXCEPT !.view = 0, !.num = 0, !.poc = 0, !.id = 0,
                                            !.before = 0, !.after = 0]
  <2>3. \A s \in Slot : cleared(s) \in Frame /\ cleared(s).num = 0 /\ cleared(s).id = 0
    BY <2>1, ClearedFrame, Zenon
  <2>4. frame' = [s \in Slot |-> cleared(s)] BY <1>1
  <2> HIDE DEF cleared
  <2> QED BY <2>3, <2>4
<1>12. prevRef' \in [View -> [num : Int, poc : Int]] /\ \A v \in View : prevRef'[v].num = -1
  <2>1. [num |-> -1, poc |-> 0] \in [num : Int, poc : Int] /\ [num |-> -1, poc |-> 0].num = -1
    OBVIOUS
  <2> QED BY <1>1, <2>1
<1>4. PictureTypes'
  <2>1. stream \in Streams /\ tasks \subseteq Task /\ prevFrameId \in Int BY DEF MarkingInv, PictureTypes
  <2> QED BY <1>1, <1>3, <1>12, <2>1 DEF PictureTypes, Call
<1>5. NalSent' BY NoCallNalSent DEF Placing
<1>6. MarksOfView' BY <1>1 DEF MarksOfView
<1>7. MarksFew'
  <2>1. Cardinality(marks') = 0 BY <1>1, EmptyIsSmall
  <2> QED BY <1>2, <2>1 DEF MarksFew
<1>8. MarkingBounded'
  <2> SUFFICES ASSUME NEW v \in View
               PROVE  Cardinality((refs \intersect OfView(v))') <= stream.numRef
    BY DEF MarkingBounded
  <2>1. (refs \intersect OfView(v))' = {} BY <1>1
  <2> QED BY <1>2, <2>1, EmptyIsSmall
<1>9. GapFits' BY DEF GapFits
<1>10. NumbersNatural'
  <2>1. prevFrameId >= -1 BY DEF MarkingInv, NumbersNatural
  <2>2. \A v \in View : prevRef'[v].num >= -1 BY <1>12
  <2>3. \A s \in Slot : frame'[s].num >= 0 /\ frame'[s].id >= 0 BY <1>3
  <2> QED BY <1>1, <2>1, <2>2, <2>3 DEF NumbersNatural
<1>11. ReadersKeepSlots' BY <1>1 DEF ReadersKeepSlots
<1> QED BY <1>4, <1>5, <1>6, <1>7, <1>8, <1>9, <1>10, <1>11 DEF MarkingInv

LEMMA EndSequenceMarks ==
  ASSUME MarkingInv, EndSequence
  PROVE  MarkingInv'
<1>1. /\ call = "sequence"
      /\ \/ Drained /\ Sending("AGAIN") /\ UNCHANGED <<tasks, heldTask, refs, source>> /\ UNCHANGED Marking
         \/ /\ tasks = {} /\ Clear(frame) /\ call' = "none" /\ at' = at + 1 /\ UNCHANGED stream
  BY Zenon DEF EndSequence, taskVars, parseVars, idVars, Marking
<1>2. at <= Len(stream.nals) BY <1>1 DEF MarkingInv, NalSent
<1>3. CASE Drained /\ Sending("AGAIN") /\ UNCHANGED <<tasks, heldTask, refs, source>> /\ UNCHANGED Marking
  <2>1. stream' = stream /\ at' \in 1 .. Len(stream.nals) + 1 /\ call' = "none"
    BY <1>2, <1>3, ReturnsAt
  <2>2. OnlyDecoded(frame, frame') BY <1>3, DrainedOnly DEF MarkingInv, PictureTypes
  <2>3. Elsewhere BY <1>3, <2>1, <2>2 DEF Elsewhere, Marking, Call, MarkingInv, PictureTypes
  <2>4. NalSent' BY <2>1, NoCallNalSent DEF Placing
  <2> QED BY <2>3, <2>4, ElsewhereKeeps
<1>4. CASE tasks = {} /\ Clear(frame) /\ call' = "none" /\ at' = at + 1 /\ UNCHANGED stream
  <2>1. Len(stream.nals) \in Nat /\ at \in Nat BY NalTypes DEF MarkingInv
  <2>2. at' \in 1 .. Len(stream.nals) + 1 BY <1>2, <1>4, <2>1
  <2> QED BY <1>4, <2>2, ClearMarks
<1> QED BY <1>1, <1>3, <1>4

LEMMA FlushedMarks ==
  ASSUME MarkingInv, Flushed
  PROVE  MarkingInv'
<1>1. /\ call = "flush" /\ tasks = {} /\ Clear(frame) /\ call' = "none" /\ at' = at + 1
      /\ UNCHANGED stream
  BY DEF Flushed
<1>2. at <= Len(stream.nals) BY <1>1 DEF MarkingInv, NalSent
<1>3. Len(stream.nals) \in Nat /\ at \in Nat BY NalTypes DEF MarkingInv
<1>4. at' \in 1 .. Len(stream.nals) + 1 BY <1>1, <1>2, <1>3
<1> QED BY <1>1, <1>4, ClearMarks

(* A task that ends decodes its parts.                                     *)
LEMMA FinishMarks ==
  ASSUME MarkingInv, NEW t \in tasks, Finish(t)
  PROVE  MarkingInv'
<1> DEFINE decoded == [frame EXCEPT ![t.slot].missing = @ \ t.parts]
<1>1. /\ tasks' = tasks \ {t} /\ UNCHANGED <<stream, at, heldTask, refs, source, ended>>
      /\ UNCHANGED Marking /\ call' = IF call = "await" THEN "get" ELSE call
      /\ frame' = Concealed(decoded, tasks', currPic, dpb.toGet)
  BY DEF Finish, sendVars, parseVars, idVars, Marking
<1>2. OnlyDecoded(frame, decoded)
  <2>1. t.slot \in Slot BY DEF MarkingInv, PictureTypes, Task
  <2>2. \A s \in Slot : frame[s] \in Frame BY DEF MarkingInv, PictureTypes
  <2> QED BY <2>1, <2>2, ZenonT(60) DEF MarkingInv, PictureTypes, OnlyDecoded, Frame
<1> HIDE DEF decoded
<1>3. OnlyDecoded(frame, frame') BY <1>1, <1>2, ConcealedOnly
<1>4. Elsewhere
  BY <1>1, <1>3, GoesOn DEF Elsewhere, Marking, Call, MarkingInv, PictureTypes
<1>5. NalSent'
  <2>1. currPic' \in Slot => frame'[currPic'].view = frame[currPic].view
    BY <1>1, <1>3 DEF OnlyDecoded, Marking
  <2> QED BY <1>1, <2>1 DEF NalSent, Placing, Marking, MarkingInv, PictureTypes
<1> QED BY <1>4, <1>5, ElsewhereKeeps

(* Receiving changes no picture.                                           *)
LEMMA ReceiverMarks ==
  ASSUME MarkingInv, GiveFrame \/ SkipLeading \/ NoFrame \/ Due \/ Receive \/ SendEnd
                       \/ \E f \in received : Release(f)
  PROVE  MarkingInv'
<1>1. /\ UNCHANGED <<stream, at, frame, tasks, heldTask, refs, source>> /\ UNCHANGED Marking
      /\ \/ call' \in {"none", "get", "last", "rest", "due", "await"}
         \/ call' = "end" /\ ended'
  <2>1. CASE GiveFrame BY <2>1 DEF GiveFrame, sendVars, taskVars, parseVars, idVars, Marking
  <2>2. CASE SkipLeading
    BY <2>2 DEF SkipLeading, Looking, sendVars, taskVars, parseVars, idVars, Marking
  <2>3. CASE NoFrame
    <3>1. /\ UNCHANGED <<stream, at, frame, tasks, heldTask, refs, source>> /\ UNCHANGED Marking
          /\ UNCHANGED ended
      BY <2>3 DEF NoFrame, sendVars, taskVars, parseVars, idVars, Marking
    <3>2. Looking /\
          (CASE call = "get" /\ ended -> call' = "end" /\ UNCHANGED <<drains, turn>>
             [] call = "get" /\ ~ended /\ wantFrame /\ stream.threads ->
                  call' = "due" /\ UNCHANGED <<drains, turn>>
             [] call = "rest" /\ drained -> Answer("END")
             [] call = "rest" /\ ~drained /\ stream.threads /\ tasks # {} ->
                  call' = "await" /\ UNCHANGED <<drains, turn>>
             [] call = "rest" /\ ~drained /\ ~(stream.threads /\ tasks # {}) ->
                  IF drains = 4 THEN Answer("END")
                  ELSE call' = "get" /\ drains' = drains + 1 /\ UNCHANGED turn
             [] OTHER -> Answer("AGAIN"))
      BY <2>3 DEF NoFrame
    <3> QED BY <3>1, <3>2 DEF Answer
  <2>4. CASE Due BY <2>4 DEF Due, sendVars, taskVars, parseVars, idVars, Marking
  <2>5. CASE Receive BY <2>5 DEF Receive, sendVars, taskVars, parseVars, idVars, Marking
  <2>6. CASE SendEnd BY <2>6 DEF SendEnd, sendVars, taskVars, parseVars, idVars, Marking
  <2>7. CASE \E f \in received : Release(f)
    <3>1. PICK f \in received : Release(f) BY <2>7
    <3> QED BY <3>1 DEF Release, sendVars, taskVars, parseVars, idVars, Marking
  <2> QED BY <2>1, <2>2, <2>3, <2>4, <2>5, <2>6, <2>7
<1>2. OnlyDecoded(frame, frame') BY <1>1, SameFramesOnly DEF MarkingInv, PictureTypes
<1>3. Elsewhere BY <1>1, <1>2, GoesOn DEF Elsewhere, Marking, Call, MarkingInv, PictureTypes
<1>4. NalSent' BY <1>1 DEF NalSent, Placing
<1> QED BY <1>3, <1>4, ElsewhereKeeps

LEMMA DrainMarks ==
  ASSUME MarkingInv, Drain
  PROVE  MarkingInv'
<1>1. /\ Drained /\ call' = "rest" /\ UNCHANGED <<stream, at, tasks, heldTask, refs, source>>
      /\ UNCHANGED Marking
  BY DEF Drain, sendVars, taskVars, parseVars, idVars, Marking
<1>2. OnlyDecoded(frame, frame') BY <1>1, DrainedOnly DEF MarkingInv, PictureTypes
<1>3. Elsewhere BY <1>1, <1>2, GoesOn DEF Elsewhere, Marking, Call, MarkingInv, PictureTypes
<1>4. NalSent' BY <1>1, NoCallNalSent DEF Placing
<1> QED BY <1>3, <1>4, ElsewhereKeeps
-----------------------------------------------------------------------------
(* Steps that mark.  The references of a view are few when they are among  *)
(* slots that are few.                                                     *)
LEMMA FewRemain ==
  ASSUME PictureTypes, stream' = stream,
         \A v \in View : \E S \in SUBSET Slot : /\ (refs \intersect OfView(v))' \subseteq S
                                              /\ Cardinality(S) <= stream.numRef
  PROVE  MarkingBounded'
<1> SUFFICES ASSUME NEW v \in View
             PROVE  Cardinality((refs \intersect OfView(v))') <= stream.numRef
  BY DEF MarkingBounded
<1> DEFINE now == (refs \intersect OfView(v))'
<1>1. PICK S \in SUBSET Slot : now \subseteq S /\ Cardinality(S) <= stream.numRef OBVIOUS
<1>2. stream.numRef \in Nat BY NalTypes
<1> HIDE DEF now
<1>3. IsFiniteSet(S) /\ Cardinality(S) \in Nat BY SlotsFinite
<1>4. Cardinality(now) \in Nat BY <1>1, SlotsFinite
<1>5. Cardinality(now) <= Cardinality(S) BY <1>1, <1>3, FS_Subset
<1>6. Cardinality(now) <= stream.numRef BY <1>1, <1>2, <1>3, <1>4, <1>5, LessStays, Zenon
<1> QED BY <1>6 DEF now

LEMMA LastTypes ==
  ASSUME NEW n \in Nat, NEW p \in Int
  PROVE  [num |-> n, poc |-> p] \in [num : Int, poc : Int] /\ [num |-> n, poc |-> p].num >= -1
OBVIOUS

LEMMA EndPictureMarks ==
  ASSUME MarkingInv, EndPicture, stream' = stream, at' \in 1 .. Len(stream.nals) + 1,
         OnlyDecoded(frame, frame'), tasks' = tasks, UNCHANGED <<prevFrameId, lastBaseId, source>>,
         call' \in Call, call' \notin {"fill", "fill room"}, NalSent'
  PROVE  MarkingInv'
<1> DEFINE v == frame[currPic].view
<1>1. /\ currPic' = None /\ marked' = FALSE /\ heldTask' = 0 /\ marks' = marks
      /\ basePic' \in {currPic, basePic}
      /\ \/ /\ currPic # None /\ marked
            /\ refs' = (refs \ OfView(v)) \union marks
            /\ prevRef' = [prevRef EXCEPT ![v] = [num |-> frame[currPic].num,
                                                 poc |-> frame[currPic].poc]]
         \/ UNCHANGED <<refs, prevRef>>
  BY DEF EndPicture
<1>2. currPic # None => currPic \in Slot /\ frame[currPic] \in Frame
  BY DEF MarkingInv, PictureTypes
<1>3. currPic # None => /\ v \in View /\ frame[currPic].num \in Nat /\ frame[currPic].poc \in Int
  BY <1>2 DEF Frame
<1>4. refs' \subseteq Slot BY <1>1 DEF MarkingInv, PictureTypes
<1>5. prevRef' \in [View -> [num : Int, poc : Int]] /\ \A w \in View : prevRef'[w].num >= -1
  <2>1. CASE UNCHANGED <<refs, prevRef>>
    BY <2>1 DEF MarkingInv, PictureTypes, NumbersNatural
  <2>2. CASE currPic # None /\ prevRef' = [prevRef EXCEPT ![v] = [num |-> frame[currPic].num,
                                                                poc |-> frame[currPic].poc]]
    <3> HIDE DEF v
    <3>1. prevRef \in [View -> [num : Int, poc : Int]] BY DEF MarkingInv, PictureTypes
    <3>2. \A w \in View : prevRef[w].num >= -1 BY DEF MarkingInv, NumbersNatural
    <3>3. [num |-> frame[currPic].num, poc |-> frame[currPic].poc] \in [num : Int, poc : Int]
      BY <1>3, <2>2, LastTypes, Zenon
    <3>4. [num |-> frame[currPic].num, poc |-> frame[currPic].poc].num >= -1
      BY <1>3, <2>2, LastTypes, Zenon
    <3>5. \A w \in View : prevRef'[w] = IF w = v THEN [num |-> frame[currPic].num,
                                                      poc |-> frame[currPic].poc] ELSE prevRef[w]
      BY <2>2, <3>1
    <3> QED BY <2>2, <3>1, <3>2, <3>3, <3>4, <3>5
  <2> QED BY <1>1, <2>1, <2>2
<1>6. PictureTypes'
  <2>1. /\ stream \in Streams /\ tasks \subseteq Task /\ marks \subseteq Slot
        /\ prevFrameId \in Int /\ lastBaseId \in Nat /\ source \in Slot \union {None}
        /\ {currPic, basePic} \subseteq Slot \union {None}
    BY DEF MarkingInv, PictureTypes
  <2> QED BY <1>1, <1>4, <1>5, <2>1 DEF PictureTypes, OnlyDecoded
<1>7. MarkingBounded'
  <2>1. \A s \in Slot : frame'[s].view = frame[s].view BY DEF OnlyDecoded
  <2>2. ASSUME NEW w \in View
        PROVE  \E S \in SUBSET Slot : /\ (refs \intersect OfView(w))' \subseteq S
                                      /\ Cardinality(S) <= stream.numRef
    <3>1. Cardinality(refs \intersect OfView(w)) <= stream.numRef
      BY Zenon DEF MarkingInv, MarkingBounded
    <3>2. refs \intersect OfView(w) \subseteq Slot BY DEF MarkingInv, PictureTypes
    <3>3. CASE UNCHANGED <<refs, prevRef>>
      <4>1. (refs \intersect OfView(w))' \subseteq refs \intersect OfView(w)
        BY <2>1, <3>3 DEF OfView
      <4> QED BY <3>1, <3>2, <4>1
    <3>4. CASE currPic # None /\ marked /\ refs' = (refs \ OfView(v)) \union marks
      <4>1. marks \subseteq OfView(v) /\ marks \subseteq Slot
        BY <3>4 DEF MarkingInv, MarksOfView, PictureTypes
      <4>2. CASE w = v
        <5>1. (refs \intersect OfView(w))' \subseteq marks BY <2>1, <3>4, <4>2 DEF OfView
        <5>2. Cardinality(marks) <= stream.numRef BY DEF MarkingInv, MarksFew
        <5> QED BY <4>1, <5>1, <5>2
      <4>3. CASE w # v
        <5>1. (refs \intersect OfView(w))' \subseteq refs \intersect OfView(w)
          BY <2>1, <3>4, <4>1, <4>3 DEF OfView
        <5> QED BY <3>1, <3>2, <5>1
      <4> QED BY <4>2, <4>3
    <3> QED BY <1>1, <3>3, <3>4
  <2> QED BY <2>2, FewRemain DEF MarkingInv
<1>8. MarksOfView' BY <1>1 DEF MarksOfView
<1>9. MarksFew' BY <1>1 DEF MarkingInv, MarksFew
<1>10. GapFits' BY DEF GapFits
<1>11. NumbersNatural' BY <1>5 DEF MarkingInv, NumbersNatural, OnlyDecoded
<1>12. ReadersKeepSlots'
  <2>1. \A t \in tasks : \A d \in t.deps : d[1] \in Slot
    BY DEF MarkingInv, PictureTypes, Task
  <2> QED BY <2>1, ZenonT(60) DEF MarkingInv, ReadersKeepSlots, OnlyDecoded
<1> QED BY <1>6, <1>7, <1>8, <1>9, <1>10, <1>11, <1>12 DEF MarkingInv

LEMMA StartSequenceEndMarks ==
  ASSUME MarkingInv, StartSequenceEnd
  PROVE  MarkingInv'
<1>1. /\ call = "end" /\ ~ended /\ EndPicture /\ call' = "sequence"
      /\ UNCHANGED <<stream, at, frame, tasks, prevFrameId, lastBaseId, source>>
  BY DEF StartSequenceEnd, Parsing, idVars
<1>2. at <= Len(stream.nals) BY <1>1 DEF MarkingInv, NalSent
<1>3. OnlyDecoded(frame, frame') BY <1>1, SameFramesOnly DEF MarkingInv, PictureTypes
<1>4. NalSent' BY <1>1, <1>2 DEF NalSent, Placing
<1> QED BY <1>1, <1>3, <1>4, GoesOn, EndPictureMarks DEF Call

LEMMA StartDrainMarks ==
  ASSUME MarkingInv, StartDrain
  PROVE  MarkingInv'
<1>1. /\ UNCHANGED <<stream, at, frame, tasks, prevFrameId, lastBaseId, source>>
      /\ \/ UNCHANGED <<currPic, basePic, refs, marks, marked, prevRef, heldTask>> /\ call' = "rest"
         \/ EndPicture /\ call' = "drain"
  BY DEF StartDrain, sendVars, idVars, parseVars
<1>2. OnlyDecoded(frame, frame') BY <1>1, SameFramesOnly DEF MarkingInv, PictureTypes
<1>3. NalSent' BY <1>1, NoCallNalSent DEF Placing
<1>4. CASE UNCHANGED <<currPic, basePic, refs, marks, marked, prevRef, heldTask>> /\ call' = "rest"
  <2>1. Elsewhere BY <1>1, <1>2, <1>4, GoesOn DEF Elsewhere, Call, MarkingInv, PictureTypes
  <2> QED BY <1>3, <2>1, ElsewhereKeeps
<1>5. CASE EndPicture /\ call' = "drain"
  BY <1>1, <1>2, <1>3, <1>5, GoesOn, EndPictureMarks DEF Call
<1> QED BY <1>1, <1>4, <1>5

LEMMA StartSliceMarks ==
  ASSUME MarkingInv, StartSlice
  PROVE  MarkingInv'
<1> DEFINE n == stream.nals[at]
           new == StartsPicture(n)
<1>1. /\ call = "slice"
      /\ IF new /\ ~Damaged(n) THEN EndPicture ELSE UNCHANGED <<parseVars, heldTask>>
      /\ UNCHANGED <<tasks, prevFrameId, lastBaseId, source>>
      /\ \/ Sending("CORRUPT") /\ UNCHANGED frame
         \/ /\ ~Damaged(n) /\ UNCHANGED <<stream, at>>
            /\ call' \in {"insert", "gap", "slot"} /\ (~new => call' = "insert")
            /\ (new => call' # "insert")
            /\ frame' = Concealed(frame, tasks, None, dpb.toGet) \/ frame' = frame
  <2>1. /\ call = "slice"
        /\ IF new /\ ~Damaged(n) THEN EndPicture ELSE UNCHANGED <<parseVars, heldTask>>
        /\ UNCHANGED <<tasks, prevFrameId, lastBaseId, source>>
    BY DEF StartSlice, idVars
  <2> DEFINE alone == n.view = 1 /\ ~n.intra /\ basePic' = None
             gap == n.idr = 0 /\ FrameNumOf(prevRef'[n.view], n) > prevRef'[n.view].num + 1
  <2>2. IF Damaged(n) \/ alone
        THEN Sending("CORRUPT") /\ UNCHANGED frame
        ELSE /\ call' = CASE ~new -> "insert" [] new /\ gap -> "gap" [] new /\ ~gap -> "slot"
             /\ frame' = IF new /\ ~gap THEN Concealed(frame, tasks, None, dpb.toGet) ELSE frame
             /\ UNCHANGED <<stream, at>>
    BY Zenon DEF StartSlice, Parsing
  <2> HIDE DEF n, new, alone, gap
  <2> QED BY <2>1, <2>2
<1>2. at <= Len(stream.nals) BY <1>1 DEF MarkingInv, NalSent
<1> HIDE DEF new
<1>3. OnlyDecoded(frame, frame')
  <2>1. OnlyDecoded(frame, frame) BY SameFramesOnly DEF MarkingInv, PictureTypes
  <2>2. OnlyDecoded(frame, Concealed(frame, tasks, None, dpb.toGet)) BY <2>1, ConcealedOnly
  <2> QED BY <1>1, <2>1, <2>2
<1>4. stream' = stream /\ at' \in 1 .. Len(stream.nals) + 1
  BY <1>1, <1>2, ReturnsAt, GoesOn
<1>5. call' \in {"none", "insert", "gap", "slot"} BY <1>1, <1>2, ReturnsAt
<1>6. CASE new /\ ~Damaged(n)
  <2>1. EndPicture BY <1>1, <1>6
  <2>2. call' # "insert" BY <1>1, <1>2, <1>6, ReturnsAt
  <2>3. currPic' = None BY <2>1 DEF EndPicture
  <2>4. call' # "none" => at' = at BY <1>1, <1>2, ReturnsAt
  <2>5. NalSent' BY <1>2, <1>4, <1>5, <2>2, <2>3, <2>4 DEF NalSent, Placing
  <2> QED BY <1>1, <1>3, <1>4, <1>5, <2>1, <2>5, EndPictureMarks DEF Call
<1>7. CASE ~(new /\ ~Damaged(n))
  <2>1. UNCHANGED <<currPic, basePic, refs, marks, marked, prevRef, heldTask>>
    BY <1>1, <1>7 DEF parseVars
  <2>2. Elsewhere BY <1>1, <1>3, <1>4, <1>5, <2>1 DEF Elsewhere, Call, MarkingInv, PictureTypes
  <2>3. call' # "none" => call' = "insert" /\ ~new /\ at' = at
    BY <1>1, <1>2, <1>7, ReturnsAt
  <2>4. ~new => currPic # None /\ frame[currPic].view = n.view BY DEF new, StartsPicture
  <2>5. ~new => frame'[currPic].view = n.view
    <3>1. ~new => currPic \in Slot BY <2>4 DEF MarkingInv, PictureTypes
    <3> QED BY <1>3, <2>4, <3>1 DEF OnlyDecoded
  <2>6. NalSent'
    BY <1>2, <1>4, <1>5, <2>1, <2>3, <2>4, <2>5 DEF NalSent, Placing
  <2> QED BY <2>2, <2>6, ElsewhereKeeps
<1> QED BY <1>6, <1>7
-----------------------------------------------------------------------------
(* Enough of the oldest references go that the inferred frames fit.        *)
LEMMA OldestDropped ==
  ASSUME NEW own, own \subseteq Slot, NEW m \in Nat, NEW limit \in Nat, m <= limit,
         \A s \in own : frame[s].num \in Nat,
         NEW dropped,
         dropped = {s \in own : Cardinality({t \in own : frame[t].num < frame[s].num})
                                  < m + Cardinality(own) - limit}
  PROVE  m + Cardinality(own \ dropped) <= limit
<1> DEFINE f == [s \in own |-> frame[s].num]
           Older(s) == {t \in own : f[t] < f[s]}
           excess == m + Cardinality(own) - limit
<1>1. IsFiniteSet(own) /\ Cardinality(own) \in Nat BY SlotsFinite
<1>2. \A s \in own : Older(s) = {t \in own : frame[t].num < frame[s].num} OBVIOUS
<1>3. dropped = {s \in own : Cardinality(Older(s)) < excess}
  <2> HIDE DEF Older
  <2> QED BY <1>2
<1>4. \A s \in own : Cardinality(Older(s)) \in Nat BY SlotsFinite
<1>5. IsFiniteSet(dropped) /\ Cardinality(dropped) \in Nat
  <2>1. dropped \subseteq Slot OBVIOUS
  <2> QED BY <2>1, SlotsFinite
<1>6. Cardinality(own \ dropped) = Cardinality(own) - Cardinality(dropped)
  <2>1. own \intersect dropped = dropped OBVIOUS
  <2>2. Cardinality(own \ dropped) = Cardinality(own) - Cardinality(own \intersect dropped)
    BY <1>1, FS_Difference, Zenon
  <2> QED BY <2>1, <2>2
<1>7. CASE excess <= 0 BY <1>1, <1>5, <1>6, <1>7
<1>8. CASE excess > 0
  <2>1. excess \in Nat /\ excess <= Cardinality(own) BY <1>1, <1>8
  <2>2. \A s \in own : f[s] \in Nat OBVIOUS
  <2> HIDE DEF f, excess
  <2>3. Cardinality({s \in own : Cardinality({t \in own : f[t] < f[s]}) < excess}) >= excess
    BY <1>1, <2>1, <2>2, ManyAreLow
  <2>4. Cardinality(dropped) >= excess BY <1>3, <2>3
  <2>5. excess = m + Cardinality(own) - limit BY DEF excess
  <2> QED BY <1>1, <1>5, <1>6, <2>4, <2>5
<1>9. excess \in Int BY <1>1
<1> HIDE DEF excess
<1> QED BY <1>7, <1>8, <1>9

LEMMA StartGapMarks ==
  ASSUME MarkingInv, StartGap
  PROVE  MarkingInv'
<1> DEFINE n == stream.nals[at]
           own == refs \intersect OfView(n.view)
           dropped == {s \in own : Cardinality({t \in own : frame[t].num < frame[s].num})
                                     < Inferred(n) + Cardinality(own) - stream.numRef}
<1>1. /\ call = "gap" /\ refs' = refs \ dropped /\ call' = "fill"
      /\ source' = IF own = {} THEN None
                   ELSE CHOOSE s \in own : \A t \in own : frame[t].id <= frame[s].id
      /\ UNCHANGED <<stream, at, frame, tasks, heldTask>> /\ UNCHANGED Marking
  BY Zenon DEF StartGap, Parsing, taskVars, idVars, Marking
<1>2. at <= Len(stream.nals) /\ currPic = None BY <1>1 DEF MarkingInv, NalSent, Placing
<1>3. n \in Nal /\ stream.numRef \in Nat BY <1>2, NalTypes DEF MarkingInv
<1>4. n.view \in View /\ Inferred(n) \in Nat /\ Inferred(n) <= stream.numRef
  BY <1>3, InferredType DEF MarkingInv
<1>5. own \subseteq Slot BY DEF MarkingInv, PictureTypes
<1>6. \A s \in Slot : frame[s].num \in Nat /\ frame[s].id \in Nat
  <2>1. \A s \in Slot : frame[s] \in Frame BY DEF MarkingInv, PictureTypes
  <2> QED BY <2>1 DEF Frame, MarkingInv, NumbersNatural
<1> HIDE DEF own, n
<1>7. source' \in Slot \union {None}
  <2>1. CASE own = {} BY <1>1, <2>1
  <2>2. CASE own # {}
    <3> DEFINE f == [s \in own |-> frame[s].id]
    <3>1. IsFiniteSet(own) /\ \A s \in own : f[s] \in Nat BY <1>5, <1>6, SlotsFinite
    <3>2. \E s \in own : \A t \in own : f[t] <= f[s]
      <4> HIDE DEF f
      <4> QED BY <2>2, <3>1, GreatestOf
    <3>3. \E s \in own : \A t \in own : frame[t].id <= frame[s].id BY <3>2
    <3> QED BY <1>1, <1>5, <2>2, <3>3
  <2> QED BY <2>1, <2>2
<1>8. Inferred(n) + Cardinality(own \ dropped) <= stream.numRef
  BY <1>3, <1>4, <1>5, <1>6, OldestDropped
<1> HIDE DEF dropped
<1>9. PictureTypes' /\ ReadersKeepSlots' /\ NumbersNatural' /\ MarksOfView' /\ MarksFew'
  <2>1. refs' \subseteq Slot BY <1>1 DEF MarkingInv, PictureTypes
  <2>2. PictureTypes' BY <1>1, <1>7, <2>1 DEF MarkingInv, PictureTypes, Marking, Call
  <2>3. ReadersKeepSlots' BY <1>1 DEF MarkingInv, ReadersKeepSlots
  <2>4. NumbersNatural' BY <1>1 DEF MarkingInv, NumbersNatural, Marking
  <2>5. MarksOfView' BY <1>1 DEF MarkingInv, MarksOfView, Marking, OfView
  <2>6. MarksFew' BY <1>1 DEF MarkingInv, MarksFew, Marking
  <2> QED BY <2>2, <2>3, <2>4, <2>5, <2>6
<1>10. NalSent' BY <1>1, <1>2 DEF NalSent, Placing, Marking
<1>11. MarkingBounded'
  <2>1. ASSUME NEW w \in View
        PROVE  \E S \in SUBSET Slot : /\ (refs \intersect OfView(w))' \subseteq S
                                      /\ Cardinality(S) <= stream.numRef
    <3>1. (refs \intersect OfView(w))' \subseteq refs \intersect OfView(w) BY <1>1 DEF OfView
    <3>2. Cardinality(refs \intersect OfView(w)) <= stream.numRef
      BY Zenon DEF MarkingInv, MarkingBounded
    <3>3. refs \intersect OfView(w) \subseteq Slot BY DEF MarkingInv, PictureTypes
    <3> QED BY <3>1, <3>2, <3>3
  <2> QED BY <1>1, <2>1, FewRemain DEF MarkingInv
<1>12. GapFits'
  <2>1. Inferred(n)' = Inferred(n) /\ n' = n BY <1>1 DEF Inferred, FrameNumOf, Marking, n
  <2>2. (refs \intersect OfView(n.view))' = own \ dropped
    BY <1>1, <2>1 DEF own, OfView
  <2>3. (Inferred(n) + Cardinality(refs \intersect OfView(n.view)) <= stream.numRef)'
    BY <1>1, <1>8, <2>1, <2>2
  <2> QED BY <2>3 DEF GapFits, n
<1> QED BY <1>9, <1>10, <1>11, <1>12 DEF MarkingInv

(* The lowest free slots take the inferred frames.                         *)
LEMMA FillGapMarks ==
  ASSUME MarkingInv, FillGap
  PROVE  MarkingInv'
<1> DEFINE n == stream.nals[at]
           m == Inferred(n)
           free == Slot \ (Held \union Busy)
           lower(s) == Cardinality({x \in free : x < s})
           num == FrameNumOf(prevRef[n.view], n)
           taken == {s \in free : lower(s) < m}
           origin == IF source = None THEN 0 ELSE frame[source].from
           inferred(s) == [frame[s] EXCEPT !.nal = 0, !.from = origin, !.view = n.view,
                                           !.num = num - m + lower(s), !.poc = 0,
                                           !.missing = {}, !.id = prevFrameId + 1 + lower(s)]
           filled == [s \in Slot |->
                        IF s \in free /\ lower(s) < m THEN inferred(s)
                        ELSE IF s = source THEN [frame[s] EXCEPT !.missing = {}] ELSE frame[s]]
<1>1. /\ call = "fill" /\ frame' = Concealed(filled, tasks, None, dpb.toGet)
      /\ refs' = refs \union taken /\ prevFrameId' = prevFrameId + m
      /\ prevRef' = [prevRef EXCEPT ![n.view].num = num - 1]
      /\ source' = None /\ call' = "slot"
      /\ UNCHANGED <<stream, at, tasks, heldTask, currPic, basePic, marks, marked, lastBaseId>>
  BY Zenon DEF FillGap, Parsing, taskVars
<1>2. at <= Len(stream.nals) /\ currPic = None BY <1>1 DEF MarkingInv, NalSent, Placing
<1>3. n \in Nal /\ stream.numRef \in Nat BY <1>2, NalTypes DEF MarkingInv
<1>4. /\ n.view \in View /\ m \in Nat /\ num \in Int /\ prevRef[n.view].num \in Int
      /\ m <= num - prevRef[n.view].num - 1 /\ prevRef[n.view].num >= -1
  <2>1. PictureTypes /\ NumbersNatural BY DEF MarkingInv
  <2> QED BY <1>3, <2>1, InferredType DEF NumbersNatural
<1>5. free \subseteq Slot /\ taken \subseteq Slot OBVIOUS
<1>6. \A s \in Slot : lower(s) \in Nat
  <2>1. \A s \in Slot : {x \in free : x < s} \subseteq Slot BY <1>5
  <2> QED BY <2>1, SlotsFinite
<1>7. Cardinality(taken) <= m /\ Cardinality(taken) \in Nat
  <2> HIDE DEF free, m
  <2>1. Cardinality({s \in free : Cardinality({x \in free : x < s}) < m}) <= m
    BY <1>4, <1>5, FewAreLow
  <2> QED BY <1>5, <2>1, SlotsFinite
<1>8. \A s \in refs : s \notin free BY DEF Held
<1>9. prevFrameId \in Int /\ prevFrameId >= -1
  BY DEF MarkingInv, PictureTypes, NumbersNatural
<1> HIDE DEF n, m, free, num
<1>10. \A s \in Slot : s \in taken =>
         /\ inferred(s) \in Frame /\ inferred(s).num >= 0 /\ inferred(s).id >= 0
         /\ inferred(s).view = n.view
  <2> SUFFICES ASSUME NEW s \in Slot
               PROVE  /\ inferred(s) \in Frame /\ inferred(s).num >= 0
                      /\ inferred(s).id >= 0 /\ inferred(s).view = n.view
    OBVIOUS
  <2>1. frame[s] \in Frame BY DEF MarkingInv, PictureTypes
  <2>2. origin \in Nat
    <3>1. source # None => frame[source] \in Frame BY DEF MarkingInv, PictureTypes
    <3> QED BY <3>1 DEF Frame
  <2>3. lower(s) \in Nat BY <1>6
  <2> HIDE DEF origin, lower
  <2>4. num - m + lower(s) \in Nat BY <1>4, <2>3
  <2>5. prevFrameId + 1 + lower(s) \in Nat BY <1>9, <2>3
  <2> DEFINE a == [frame[s] EXCEPT !.nal = 0] b == [a EXCEPT !.from = origin]
             c == [b EXCEPT !.view = n.view] d == [c EXCEPT !.num = num - m + lower(s)]
             e == [d EXCEPT !.poc = 0] g == [e EXCEPT !.missing = {}]
             h == [g EXCEPT !.id = prevFrameId + 1 + lower(s)]
  <2>6. inferred(s) = h OBVIOUS
  <2>7. /\ inferred(s).num = num - m + lower(s) /\ inferred(s).id = prevFrameId + 1 + lower(s)
        /\ inferred(s).view = n.view
    BY <2>1 DEF Frame
  <2>8. 0 \in Nat /\ 0 \in Int /\ {} \in SUBSET Part /\ prevFrameId + 1 + lower(s) \in Int
    BY <2>5
  <2>9. a \in Frame BY <2>1, <2>8, SetField, Zenon
  <2> HIDE DEF a
  <2>10. b \in Frame BY <2>2, <2>9, SetField, Zenon
  <2> HIDE DEF b
  <2>11. c \in Frame BY <1>4, <2>10, SetField, Zenon
  <2> HIDE DEF c
  <2>12. d \in Frame BY <2>4, <2>11, SetField, Zenon
  <2> HIDE DEF d
  <2>13. e \in Frame BY <2>8, <2>12, SetField, Zenon
  <2> HIDE DEF e
  <2>14. g \in Frame BY <2>8, <2>13, SetField, Zenon
  <2> HIDE DEF g
  <2>15. h \in Frame BY <2>8, <2>14, SetField, Zenon
  <2> HIDE DEF h, inferred
  <2> QED BY <2>4, <2>5, <2>6, <2>7, <2>15
<1>11. \A s \in Slot : s \notin taken =>
         /\ filled[s] \in Frame /\ filled[s].num = frame[s].num /\ filled[s].id = frame[s].id
         /\ filled[s].view = frame[s].view
  <2>1. \A s \in Slot : frame[s] \in Frame BY DEF MarkingInv, PictureTypes
  <2>2. \A s \in Slot : s \notin taken =>
          filled[s] = frame[s] \/ filled[s] = [frame[s] EXCEPT !.missing = {}]
    OBVIOUS
  <2> HIDE DEF filled, taken
  <2> QED BY <2>1, <2>2, ZenonT(60) DEF Frame
<1>12. \A s \in taken : filled[s] = inferred(s)
  <2>1. \A s \in taken : s \in Slot /\ s \in free /\ lower(s) < m BY <1>5
  <2> HIDE DEF inferred, lower, taken, free, m
  <2> QED BY <2>1
<1>13. filled \in [Slot -> Frame]
  <2>1. filled = [s \in Slot |-> filled[s]] OBVIOUS
  <2>2. \A s \in Slot : filled[s] \in Frame BY <1>10, <1>11, <1>12, Zenon
  <2> HIDE DEF filled
  <2> QED BY <2>1, <2>2
<1> HIDE DEF inferred, filled, taken
<1>14. OnlyDecoded(filled, frame')
  <2>1. OnlyDecoded(filled, filled) BY <1>13 DEF OnlyDecoded
  <2> QED BY <1>1, <2>1, ConcealedOnly
<1>15. \A s \in Slot \ taken : /\ frame'[s].view = frame[s].view /\ frame'[s].num = frame[s].num
                                /\ frame'[s].id = frame[s].id
  BY <1>11, <1>14 DEF OnlyDecoded
<1>16. \A s \in taken : frame'[s].view = n.view /\ frame'[s].num >= 0 /\ frame'[s].id >= 0
  <2>1. \A s \in taken : filled[s].view = n.view /\ filled[s].num >= 0 /\ filled[s].id >= 0
    BY <1>5, <1>10, <1>12, Zenon
  <2>2. \A s \in Slot : /\ frame'[s].view = filled[s].view /\ frame'[s].num = filled[s].num
                        /\ frame'[s].id = filled[s].id
    BY <1>14 DEF OnlyDecoded
  <2> QED BY <1>5, <2>1, <2>2
<1>17. prevRef' \in [View -> [num : Int, poc : Int]] /\ \A v \in View : prevRef'[v].num >= -1
  <2>1. prevRef \in [View -> [num : Int, poc : Int]] BY DEF MarkingInv, PictureTypes
  <2>2. \A v \in View : prevRef[v].num >= -1 BY DEF MarkingInv, NumbersNatural
  <2>3. num - 1 \in Int /\ num - 1 >= -1 BY <1>4
  <2>4. \A v \in View : prevRef'[v] = IF v = n.view THEN [prevRef[v] EXCEPT !.num = num - 1]
                                      ELSE prevRef[v]
    BY <1>1, <1>4, <2>1
  <2> QED BY <1>1, <1>4, <2>1, <2>2, <2>3, <2>4
<1>18. PictureTypes'
  <2>1. /\ stream \in Streams /\ tasks \subseteq Task /\ marks \subseteq Slot /\ heldTask \in Nat
        /\ lastBaseId \in Nat /\ refs \subseteq Slot /\ marked \in BOOLEAN
        /\ {currPic, basePic} \subseteq Slot \union {None} /\ at \in 1 .. Len(stream.nals) + 1
    BY DEF MarkingInv, PictureTypes
  <2>2. prevFrameId' \in Int BY <1>1, <1>4, <1>9
  <2> QED BY <1>1, <1>5, <1>14, <1>17, <2>1, <2>2 DEF PictureTypes, OnlyDecoded, Call
<1>19. NalSent' BY <1>1, <1>2 DEF NalSent, Placing
<1>20. MarksOfView' BY <1>1, <1>2 DEF MarkingInv, MarksOfView
<1>21. MarksFew' BY <1>1 DEF MarkingInv, MarksFew
<1>22. GapFits' BY <1>1 DEF GapFits
<1>23. NumbersNatural'
  <2>1. prevFrameId' >= -1 BY <1>1, <1>4, <1>9
  <2>2. \A s \in Slot : frame[s].num >= 0 /\ frame[s].id >= 0
    BY DEF MarkingInv, NumbersNatural
  <2> QED BY <1>15, <1>16, <1>17, <2>1, <2>2 DEF NumbersNatural
<1>24. ReadersKeepSlots'
  <2>1. \A t \in tasks : \A d \in t.deps : d[1] \in Slot /\ d[1] \in Depended
    BY DEF MarkingInv, PictureTypes, Task, Depended, DependedBy
  <2>2. \A t \in tasks : \A d \in t.deps : d[1] \notin taken
    BY <2>1 DEF taken, free, Busy
  <2> QED BY <1>1, <1>15, <2>1, <2>2 DEF MarkingInv, ReadersKeepSlots
<1>25. MarkingBounded'
  <2> DEFINE own == refs \intersect OfView(n.view)
  <2>1. refs \subseteq Slot /\ \A s \in refs : frame'[s].view = frame[s].view
    BY <1>8, <1>15 DEF taken, MarkingInv, PictureTypes
  <2>2. Cardinality(own \union taken) <= stream.numRef
    <3>1. m + Cardinality(own) <= stream.numRef BY <1>1 DEF MarkingInv, GapFits, n, m
    <3>2. own \subseteq Slot BY <2>1
    <3>3. own \intersect taken = {} BY <1>8 DEF taken
    <3> HIDE DEF own
    <3>4. /\ IsFiniteSet(own) /\ Cardinality(own) \in Nat /\ IsFiniteSet(taken)
      BY <1>5, <3>2, SlotsFinite
    <3>5. Cardinality(own \union taken)
            = Cardinality(own) + Cardinality(taken) - Cardinality(own \intersect taken)
      BY <3>4, FS_Union, Zenon
    <3>6. Cardinality(own \intersect taken) = 0 BY <3>3, EmptyIsSmall
    <3> QED BY <1>3, <1>4, <1>7, <3>1, <3>4, <3>5, <3>6
  <2>3. ASSUME NEW w \in View
        PROVE  \E S \in SUBSET Slot : /\ (refs \intersect OfView(w))' \subseteq S
                                      /\ Cardinality(S) <= stream.numRef
    <3>1. CASE w = n.view
      <4>1. (refs \intersect OfView(w))' \subseteq own \union taken
        BY <1>1, <2>1, <3>1 DEF OfView
      <4>2. own \union taken \subseteq Slot BY <1>5, <2>1
      <4> QED BY <2>2, <4>1, <4>2
    <3>2. CASE w # n.view
      <4>1. (refs \intersect OfView(w))' \subseteq refs \intersect OfView(w)
        BY <1>1, <1>16, <2>1, <3>2 DEF OfView
      <4>2. Cardinality(refs \intersect OfView(w)) <= stream.numRef
        BY Zenon DEF MarkingInv, MarkingBounded
      <4> QED BY <2>1, <4>1, <4>2
    <3> QED BY <3>1, <3>2
  <2> QED BY <1>1, <2>3, FewRemain DEF MarkingInv
<1> QED BY <1>18, <1>19, <1>20, <1>21, <1>22, <1>23, <1>24, <1>25 DEF MarkingInv

(* The new picture takes a slot that is neither a reference nor read.      *)
LEMMA AllocSlotMarks ==
  ASSUME MarkingInv, AllocSlot
  PROVE  MarkingInv'
<1> DEFINE n == stream.nals[at]
           free == Slot \ (Taken \union Busy)
           s == CHOOSE x \in free : \A y \in free : x <= y
           id == prevFrameId + 1
           num == FrameNumOf(prevRef[n.view], n)
           order == PocOf(prevRef[n.view], n)
           before == IF n.view = 1 THEN lastBaseId ELSE frame[s].before
           after == IF n.view = 1 THEN 0 ELSE frame[s].after
           new == [nal |-> at, from |-> at, view |-> n.view, num |-> num, poc |-> order,
                   missing |-> Part, id |-> id, before |-> before, after |-> after]
           later(x) == n.view = 0 /\ frame[x].view = 1 /\ frame[x].after = 0
<1>1. /\ call = "slot" /\ call' = "insert" /\ free # {}
      /\ currPic' = s /\ marked' = FALSE /\ prevFrameId' = id
      /\ lastBaseId' = IF n.view = 0 THEN id + 1 ELSE lastBaseId
      /\ frame' = [x \in Slot |-> IF x = s THEN new
                                  ELSE IF later(x) THEN [frame[x] EXCEPT !.after = id + 1]
                                  ELSE frame[x]]
      /\ UNCHANGED <<stream, at, tasks, heldTask, basePic, refs, marks, prevRef, source>>
  BY Zenon DEF AllocSlot, Parsing, taskVars
<1>2. at <= Len(stream.nals) /\ at \in Nat /\ n \in Nal
  <2>1. at <= Len(stream.nals) BY <1>1 DEF MarkingInv, NalSent, Placing
  <2> QED BY <2>1, NalTypes DEF MarkingInv
<1>3. /\ n.view \in View /\ num \in Int /\ num > prevRef[n.view].num
      /\ prevRef[n.view].num \in Int /\ prevRef[n.view].num >= -1
  <2>1. PictureTypes /\ NumbersNatural BY DEF MarkingInv
  <2> QED BY <1>2, <2>1, InferredType DEF NumbersNatural
<1>4. id \in Nat BY DEF MarkingInv, PictureTypes, NumbersNatural
<1>5. order \in Int
  <2>1. prevRef[n.view].poc \in Int BY <1>3 DEF MarkingInv, PictureTypes
  <2>2. n.poc \in Nat BY <1>2 DEF Nal
  <2>3. PocSpan \in Nat \ {0} /\ PocSpan \div 2 \in Int OBVIOUS
  <2> DEFINE p == prevRef[n.view].poc h == PocSpan \div 2 x == n.poc - p + h
  <2>4. order = p + (x % PocSpan) - h BY DEF PocOf
  <2>5. x \in Int BY <2>1, <2>2, <2>3
  <2> HIDE DEF x, order, h, n
  <2>6. x % PocSpan \in 0 .. PocSpan - 1 BY <2>3, <2>5, Remainder
  <2> HIDE DEF p
  <2> QED BY <2>1, <2>3, <2>4, <2>6 DEF p, h
<1>6. s \in free /\ s \in Slot /\ s \notin refs /\ s \notin Depended
  <2>1. free \in SUBSET Nat BY DEF Slot
  <2>2. \E x \in free : \A y \in free : x <= y BY <1>1, <2>1, LeastOfNats, Zenon
  <2>3. s \in free
    <3> HIDE DEF free
    <3> QED BY <2>2, Zenon
  <2> HIDE DEF s
  <2> QED BY <2>3 DEF Taken, Held, Busy
<1> HIDE DEF n, s, num, order, id
<1>7. new \in Frame /\ new.view = n.view /\ new.num >= 0 /\ new.id >= 0
  <2>1. frame[s] \in Frame BY <1>6 DEF MarkingInv, PictureTypes
  <2>2. before \in Nat /\ after \in Nat /\ num \in Nat
    <3>1. lastBaseId \in Nat BY DEF MarkingInv, PictureTypes
    <3>2. frame[s].before \in Nat /\ frame[s].after \in Nat BY <2>1 DEF Frame
    <3>3. num \in Nat
      <4> DEFINE p == prevRef[n.view].num
      <4>1. p \in Int /\ p >= -1 /\ num \in Int /\ num > p BY <1>3
      <4> HIDE DEF p
      <4> QED BY <4>1
    <3> QED BY <3>1, <3>2, <3>3
  <2> QED BY <1>2, <1>3, <1>4, <1>5, <2>2 DEF Frame, Part
<1> HIDE DEF new
<1>8. \A x \in Slot : /\ frame'[x] \in Frame
                      /\ x # s => /\ frame'[x].view = frame[x].view /\ frame'[x].num = frame[x].num
                                  /\ frame'[x].id = frame[x].id
                      /\ x = s => frame'[x] = new
  <2> TAKE x \in Slot
  <2>1. frame[x] \in Frame BY DEF MarkingInv, PictureTypes
  <2>2. id + 1 \in Nat BY <1>4
  <2>3. [frame[x] EXCEPT !.after = id + 1] \in Frame BY <2>1, <2>2, SetField, Zenon
  <2>4. CASE x = s BY <1>1, <1>7, <2>4
  <2>5. CASE x # s /\ later(x)
    <3>1. frame'[x] = [frame[x] EXCEPT !.after = id + 1] BY <1>1, <2>5
    <3> QED BY <2>1, <2>3, <2>5, <3>1 DEF Frame
  <2>6. CASE x # s /\ ~later(x)
    <3>1. frame'[x] = frame[x] BY <1>1, <2>6
    <3> QED BY <2>1, <2>6, <3>1
  <2> QED BY <2>4, <2>5, <2>6
<1>9. PictureTypes'
  <2>1. frame' \in [Slot -> Frame] BY <1>1, <1>8
  <2>2. prevFrameId' \in Int /\ lastBaseId' \in Nat
    BY <1>1, <1>4 DEF MarkingInv, PictureTypes
  <2> QED BY <1>1, <1>6, <2>1, <2>2 DEF MarkingInv, PictureTypes, Call
<1>10. NalSent'
  <2>1. s # None BY <1>6 DEF Slot, None
  <2>2. frame'[s].view = n.view BY <1>6, <1>7, <1>8
  <2> QED BY <1>1, <1>2, <2>1, <2>2 DEF NalSent, Placing, n
<1>11. MarksOfView' /\ MarksFew' /\ GapFits'
  BY <1>1 DEF MarkingInv, MarksOfView, MarksFew, GapFits
<1>12. NumbersNatural'
  <2>1. prevFrameId' >= -1 BY <1>1, <1>4
  <2>2. \A x \in Slot : frame'[x].num >= 0 /\ frame'[x].id >= 0
    BY <1>7, <1>8 DEF MarkingInv, NumbersNatural
  <2> QED BY <1>1, <2>1, <2>2 DEF MarkingInv, NumbersNatural
<1>13. ReadersKeepSlots'
  <2>1. \A t \in tasks : \A d \in t.deps : d[1] \in Slot /\ d[1] \in Depended
    BY DEF MarkingInv, PictureTypes, Task, Depended, DependedBy
  <2>2. \A t \in tasks : \A d \in t.deps : d[1] # s BY <1>6, <2>1
  <2> QED BY <1>1, <1>8, <2>1, <2>2 DEF MarkingInv, ReadersKeepSlots
<1>14. MarkingBounded'
  <2>1. \A x \in refs : x \in Slot /\ frame'[x].view = frame[x].view
    BY <1>6, <1>8 DEF MarkingInv, PictureTypes
  <2>2. ASSUME NEW w \in View
        PROVE  \E S \in SUBSET Slot : /\ (refs \intersect OfView(w))' \subseteq S
                                      /\ Cardinality(S) <= stream.numRef
    <3>1. (refs \intersect OfView(w))' \subseteq refs \intersect OfView(w)
      BY <1>1, <2>1 DEF OfView
    <3>2. refs \intersect OfView(w) \in SUBSET Slot BY DEF MarkingInv, PictureTypes
    <3>3. Cardinality(refs \intersect OfView(w)) <= stream.numRef
      BY Zenon DEF MarkingInv, MarkingBounded
    <3> QED BY <3>1, <3>2, <3>3
  <2> QED BY <1>1, <2>2, FewRemain DEF MarkingInv
<1> QED BY <1>9, <1>10, <1>11, <1>12, <1>13, <1>14 DEF MarkingInv

(* The sliding window adds the picture to the references of its view, and  *)
(* leaves no more than there may be.                                       *)
LEMMA WindowFits ==
  ASSUME PictureTypes, currPic \in Slot, NEW n, NEW old \in SUBSET Slot,
         Cardinality(old) <= stream.numRef
  PROVE  /\ Window(n, old) \subseteq old \union {currPic}
         /\ Cardinality(Window(n, old)) <= stream.numRef
<1> DEFINE oldest == CHOOSE s \in old : \A t \in old : frame[s].num <= frame[t].num
<1>1. stream.numRef \in Nat /\ stream.numRef > 0 BY NalTypes
<1>2. IsFiniteSet(old) /\ Cardinality(old) \in Nat BY SlotsFinite
<1>3. IsFiniteSet({currPic}) /\ Cardinality({currPic}) = 1 BY FS_Singleton, Zenon
<1>4. CASE n.idr # 0
  <2>1. Window(n, old) = {currPic} BY <1>4 DEF Window
  <2> QED BY <1>1, <1>3, <2>1
<1>5. CASE ~(n.idr # 0) /\ Cardinality(old) >= stream.numRef /\ old # {}
  <2>1. oldest \in old
    <3> DEFINE numbers == [s \in old |-> frame[s].num]
    <3>1. \A s \in old : numbers[s] \in Nat /\ numbers[s] = frame[s].num
      BY DEF PictureTypes, Frame
    <3> HIDE DEF numbers
    <3>2. \E s \in old : \A t \in old : numbers[s] <= numbers[t] BY <1>5, <3>1, LeastOf
    <3>3. \E s \in old : \A t \in old : frame[s].num <= frame[t].num BY <3>1, <3>2
    <3> QED BY <3>3, Zenon
  <2>2. Window(n, old) = (old \ {oldest}) \union {currPic} BY <1>5 DEF Window
  <2> HIDE DEF oldest
  <2>3. IsFiniteSet(old \ {oldest}) /\ Cardinality(old \ {oldest}) = Cardinality(old) - 1
    BY <1>2, <2>1, FS_RemoveElement
  <2>4. Cardinality((old \ {oldest}) \union {currPic}) <= Cardinality(old)
    <3> DEFINE rest == old \ {oldest}
    <3>1. IsFiniteSet(rest) /\ Cardinality(rest) = Cardinality(old) - 1 BY <2>3
    <3> HIDE DEF rest
    <3>2. CASE currPic \in rest
      <4>1. rest \union {currPic} = rest BY <3>2
      <4> QED BY <1>2, <3>1, <4>1 DEF rest
    <3>3. CASE currPic \notin rest
      <4>1. Cardinality(rest \union {currPic}) = Cardinality(rest) + 1
        BY <3>1, <3>3, FS_AddElement
      <4> QED BY <1>2, <3>1, <4>1 DEF rest
    <3> QED BY <3>2, <3>3
  <2> DEFINE left == (old \ {oldest}) \union {currPic}
  <2>5. left \subseteq old \union {currPic} /\ left \subseteq Slot OBVIOUS
  <2>6. Cardinality(left) <= Cardinality(old) BY <2>4
  <2>7. Window(n, old) = left BY <2>2
  <2> HIDE DEF left
  <2>8. Cardinality(left) \in Nat BY <2>5, SlotsFinite
  <2> QED BY <1>1, <1>2, <2>5, <2>6, <2>7, <2>8, LessStays
<1>6. CASE ~(n.idr # 0) /\ ~(Cardinality(old) >= stream.numRef /\ old # {})
  <2>1. Window(n, old) = old \union {currPic} BY <1>6 DEF Window
  <2>2. Cardinality(old) < stream.numRef
    <3>1. old = {} => Cardinality(old) = 0 BY EmptyIsSmall
    <3> QED BY <1>1, <1>2, <1>6, <3>1
  <2>3. CASE currPic \in old
    <3>1. old \union {currPic} = old BY <2>3
    <3> QED BY <2>1, <3>1
  <2>4. CASE currPic \notin old
    <3>1. Cardinality(old \union {currPic}) = Cardinality(old) + 1
      BY <1>2, <2>4, FS_AddElement
    <3> QED BY <1>1, <1>2, <2>1, <2>2, <3>1
  <2> QED BY <2>3, <2>4
<1> QED BY <1>4, <1>5, <1>6

(* The marking decided, which takes effect when the picture ends; and the  *)
(* task, which names the pictures that it reads.                           *)
LEMMA InsertSliceMarks ==
  ASSUME MarkingInv, InsertSlice
  PROVE  MarkingInv'
<1> DEFINE n == stream.nals[at]
           old == refs \intersect OfView(n.view)
           window == IF n.ref THEN Window(n, old) ELSE old
           lists == IF n.intra THEN {}
                    ELSE old \union (IF n.view = 1 THEN {basePic} \ {None} ELSE {})
           task == [nal |-> at, slot |-> currPic, id |-> frame[currPic].id, parts |-> n.parts,
                    deps |-> {<<s, frame[s].id>> : s \in lists}]
<1>1. /\ call = "insert"
      /\ \/ /\ marks' = old /\ marked' = FALSE /\ Sending("CORRUPT")
            /\ UNCHANGED <<frame, tasks, heldTask>>
         \/ /\ marks' = window /\ marked' = n.ref /\ Sending("OK")
            /\ tasks' = tasks \union {task} /\ heldTask' = at
            /\ frame' = Concealed(frame, tasks', currPic, dpb'.toGet)
      /\ UNCHANGED <<currPic, basePic, refs, prevRef, prevFrameId, lastBaseId, source>>
  BY Zenon DEF InsertSlice, taskVars, idVars
<1>2. /\ at <= Len(stream.nals) /\ currPic # None /\ frame[currPic].view = n.view
      /\ PictureTypes
  BY <1>1 DEF MarkingInv, NalSent
<1>3. n \in Nal /\ at \in Nat /\ n.view \in View /\ n.ref \in BOOLEAN /\ n.parts \in SUBSET Part
  <2>1. n \in Nal /\ at \in Nat BY <1>2, NalTypes
  <2> HIDE DEF n
  <2> QED BY <2>1 DEF Nal, View
<1>4. currPic \in Slot /\ refs \subseteq Slot BY <1>2 DEF PictureTypes
<1>5. old \in SUBSET Slot /\ old \subseteq OfView(n.view) /\ Cardinality(old) <= stream.numRef
  <2>1. MarkingBounded BY DEF MarkingInv
  <2> HIDE DEF n
  <2> QED BY <1>3, <1>4, <2>1 DEF MarkingBounded
<1>6. /\ Window(n, old) \subseteq old \union {currPic}
      /\ Cardinality(Window(n, old)) <= stream.numRef
  <2> HIDE DEF n, old
  <2> QED BY <1>2, <1>4, <1>5, WindowFits
<1>7. stream' = stream /\ at' \in 1 .. Len(stream.nals) + 1 /\ call' = "none" /\ UNCHANGED ended
  BY <1>1, <1>2, ReturnsAt
<1>8. OnlyDecoded(frame, frame')
  <2>1. OnlyDecoded(frame, frame) BY <1>2, SameFramesOnly DEF PictureTypes
  <2> DEFINE concealed(ts, toGet) == Concealed(frame, ts, currPic, toGet)
  <2>2. \A ts, toGet : OnlyDecoded(frame, concealed(ts, toGet)) BY <2>1, ConcealedOnly
  <2>3. frame' = frame \/ frame' = concealed(tasks', dpb'.toGet) BY <1>1
  <2> HIDE DEF concealed
  <2> QED BY <2>1, <2>2, <2>3
<1>9. task \in Task
  <2>1. lists \subseteq Slot BY <1>2, <1>5 DEF PictureTypes
  <2>2. \A s \in Slot : frame[s].id \in Int BY <1>2 DEF PictureTypes, Frame
  <2> HIDE DEF n, lists
  <2>3. {<<s, frame[s].id>> : s \in lists} \in SUBSET (Slot \X Int) BY <2>1, <2>2
  <2> QED BY <1>3, <1>4, <2>2, <2>3 DEF Task
<1>10. PictureTypes'
  <2>1. tasks' \subseteq Task /\ heldTask' \in Nat
    <3> HIDE DEF task
    <3> QED BY <1>1, <1>2, <1>3, <1>9 DEF PictureTypes
  <2>2. marks' \subseteq Slot /\ marked' \in BOOLEAN
    <3> HIDE DEF n, old
    <3> QED BY <1>1, <1>3, <1>4, <1>5, <1>6
  <2> QED BY <1>1, <1>2, <1>7, <1>8, <2>1, <2>2 DEF PictureTypes, OnlyDecoded, Call
<1>11. NalSent' BY <1>7, NoCallNalSent DEF Placing
<1>12. MarksOfView'
  <2>1. \A s \in Slot : frame'[s].view = frame[s].view BY <1>8 DEF OnlyDecoded
  <2>2. marks' \subseteq old \union {currPic}
    <3> HIDE DEF n, old
    <3> QED BY <1>1, <1>6
  <2>3. \A s \in old \union {currPic} : s \in Slot /\ frame[s].view = n.view
    BY <1>2, <1>4 DEF OfView
  <2> HIDE DEF n, old
  <2> QED BY <1>1, <1>2, <1>4, <2>1, <2>2, <2>3 DEF MarksOfView, OfView
<1>13. MarksFew'
  <2> HIDE DEF n, old
  <2> QED BY <1>1, <1>5, <1>6, <1>7 DEF MarksFew
<1>14. GapFits' BY <1>7 DEF GapFits
<1>15. NumbersNatural' BY <1>1, <1>8 DEF MarkingInv, NumbersNatural, OnlyDecoded
<1>16. ReadersKeepSlots'
  <2>1. \A t \in tasks : \A d \in t.deps : d[1] \in Slot /\ frame[d[1]].id = d[2]
    BY <1>2 DEF PictureTypes, Task, MarkingInv, ReadersKeepSlots
  <2>2. \A d \in task.deps : d[1] \in Slot /\ frame[d[1]].id = d[2]
    <3>1. lists \subseteq Slot BY <1>2, <1>5 DEF PictureTypes
    <3>2. task.deps = {<<s, frame[s].id>> : s \in lists} OBVIOUS
    <3> HIDE DEF lists, task
    <3> QED BY <3>1, <3>2
  <2>3. tasks' \subseteq tasks \union {task}
    <3> HIDE DEF task
    <3> QED BY <1>1
  <2>4. \A s \in Slot : frame'[s].id = frame[s].id BY <1>8 DEF OnlyDecoded
  <2> HIDE DEF task
  <2> QED BY <2>1, <2>2, <2>3, <2>4 DEF ReadersKeepSlots
<1>17. MarkingBounded'
  <2>1. \A s \in Slot : frame'[s].view = frame[s].view BY <1>8 DEF OnlyDecoded
  <2>2. \A v : OfView(v)' = OfView(v) BY <2>1 DEF OfView
  <2> HIDE DEF n, old
  <2> QED BY <1>1, <1>7, <2>2 DEF MarkingInv, MarkingBounded
<1> QED BY <1>10, <1>11, <1>12, <1>13, <1>14, <1>15, <1>16, <1>17 DEF MarkingInv

-----------------------------------------------------------------------------
LEMMA InitMarks == Init => MarkingInv
<1> SUFFICES ASSUME Init PROVE MarkingInv OBVIOUS
<1> USE DEF Init
<1>1. Len(stream.nals) \in Nat
  <2>1. stream.nals \in Seq(Nal) BY DEF Stream
  <2> QED BY <2>1, LenProperties
<1>2. PictureTypes
  <2>1. at \in 1 .. Len(stream.nals) + 1 BY <1>1
  <2>2. frame \in [Slot -> Frame] BY DEF Frame, View, Part
  <2>3. prevRef \in [View -> [num : Int, poc : Int]] OBVIOUS
  <2>4. /\ stream \in Streams /\ tasks = {} /\ heldTask = 0 /\ currPic = None /\ basePic = None
        /\ refs = {} /\ marks = {} /\ marked = FALSE /\ source = None /\ prevFrameId = -1
        /\ lastBaseId = 0 /\ call = "none"
    OBVIOUS
  <2>5. -1 \in Int /\ 0 \in Nat /\ FALSE \in BOOLEAN /\ "none" \in Call BY DEF Call
  <2> HIDE DEF Init
  <2>6. prevFrameId \in Int BY <2>4, <2>5
  <2> QED BY <2>1, <2>2, <2>3, <2>4, <2>5, <2>6, Zenon DEF PictureTypes
<1>3. NalSent BY DEF NalSent, Placing
<1>4. MarksOfView BY DEF MarksOfView
<1>5. stream.numRef \in Nat BY <1>2, NalTypes
<1>6. MarksFew BY <1>5, EmptyIsSmall DEF MarksFew
<1>7. MarkingBounded
  <2>1. \A v \in View : refs \intersect OfView(v) = {} OBVIOUS
  <2> QED BY <1>5, <2>1, EmptyIsSmall DEF MarkingBounded
<1>8. GapFits BY DEF GapFits
<1>9. NumbersNatural BY DEF NumbersNatural
<1>10. ReadersKeepSlots BY DEF ReadersKeepSlots
<1> QED BY <1>2, <1>3, <1>4, <1>6, <1>7, <1>8, <1>9, <1>10 DEF MarkingInv

LEMMA NextMarks ==
  ASSUME MarkingInv, [Next]_vars
  PROVE  MarkingInv'
<1>1. CASE Sender
  BY <1>1, QueueGateMarks, PassGateMarks, StartSliceMarks, StartGapMarks, NoSlotMarks,
     FillGapMarks, MakeRoomMarks, AllocSlotMarks, InsertSliceMarks, StartSequenceEndMarks,
     EndSequenceMarks, FlushedMarks, Zenon DEF Sender
<1>2. CASE Receiver
  BY <1>2, ReceiverMarks, StartDrainMarks, DrainMarks, Zenon DEF Receiver
<1>3. CASE Caller
  BY <1>3, SendNalMarks, ReceiverMarks, Zenon DEF Caller
<1>4. CASE Worker BY <1>4, FinishMarks, Zenon DEF Worker
<1>5. CASE UNCHANGED vars
  <2>1. /\ UNCHANGED <<stream, at, frame, tasks, heldTask, refs, source, call, ended>>
        /\ UNCHANGED Marking
    BY <1>5 DEF vars, sendVars, parseVars, idVars, taskVars, Marking
  <2>2. OnlyDecoded(frame, frame') BY <2>1, SameFramesOnly DEF MarkingInv, PictureTypes
  <2>3. Elsewhere
    BY <2>1, <2>2, GoesOn DEF Elsewhere, Marking, MarkingInv, PictureTypes
  <2>4. NalSent' BY <2>1 DEF NalSent, Placing, Marking, MarkingInv
  <2> QED BY <2>3, <2>4, ElsewhereKeeps
<1> QED BY <1>1, <1>2, <1>3, <1>4, <1>5, Zenon DEF Next

(* What the pictures of the DPB are at any time, with their numbers, marks *)
(* and tasks (parse_slice_layer_without_partitioning).                     *)
THEOREM PicturesInvariant == Spec => []MarkingInv
BY InitMarks, NextMarks, PTL DEF Spec

(* Each view has no more references than max_num_ref_frames, gaps in       *)
(* frame_num, lost slices and pictures that give up their references       *)
(* included.                                                               *)
THEOREM MarkingStaysBounded == Spec => []MarkingBounded
<1>1. MarkingInv => MarkingBounded BY DEF MarkingInv
<1> QED BY <1>1, PicturesInvariant, PTL

(* The picture that a task reads stays in its slot until the task ends,    *)
(* also if it was dropped from the references or returned by the caller.   *)
THEOREM ReferencesKept == Spec => []ReadersKeepSlots
<1>1. MarkingInv => ReadersKeepSlots BY DEF MarkingInv
<1> QED BY <1>1, PicturesInvariant, PTL

-----------------------------------------------------------------------------
(* The tasks.                                                              *)

LEMMA TaskTypes ==
  ASSUME MarkingInv
  PROVE  \A t \in tasks : t.slot \in Slot /\ t.parts \in SUBSET Part /\ frame[t.slot] \in Frame
BY DEF MarkingInv, PictureTypes, Task

(* Slots that are written are not free.                                    *)
LEMMA WrittenBusy ==
  ASSUME MarkingInv, TasksDecode
  PROVE  Writing \subseteq Busy
<1>1. \A t \in tasks : frame[t.slot].missing # {} BY DEF TasksDecode
<1> QED BY <1>1 DEF Writing, Busy, Inflight, Complete

LEMMA WrittenNotConcealed ==
  ASSUME NEW f, NEW ts, NEW cur, NEW toGet, NEW t \in ts, t.slot \in Slot
  PROVE  Concealed(f, ts, cur, toGet)[t.slot] = f[t.slot]
BY DEF Concealed

(* A step that starts no task, and leaves alone what the tasks decode.     *)
LEMMA TasksKept ==
  ASSUME TasksDecode, tasks' \subseteq tasks,
         \A t \in tasks' : /\ t.parts \subseteq frame[t.slot].missing =>
                                t.parts \subseteq frame'[t.slot].missing
                           /\ frame'[t.slot].id = frame[t.slot].id
  PROVE  TasksDecode'
BY DEF TasksDecode

LEMMA NoTasksKept ==
  ASSUME tasks' = {}
  PROVE  TasksDecode'
BY DEF TasksDecode

LEMMA SamePicturesTasks ==
  ASSUME MarkingInv, TasksDecode, UNCHANGED <<tasks, frame>>
  PROVE  TasksDecode'
BY TasksKept

(* Steps that write no picture, or all of them once no task is busy.       *)
LEMMA CallsTasks ==
  ASSUME MarkingInv, TasksDecode,
         \/ SendNal \/ Flush \/ QueueGate \/ PassGate \/ GapFull \/ DpbFull \/ StartGap
         \/ StartSequenceEnd \/ GiveFrame \/ SkipLeading \/ NoFrame \/ Due \/ StartDrain
         \/ Receive \/ SendEnd \/ \E f \in received : Release(f)
  PROVE  TasksDecode'
<1>1. UNCHANGED <<tasks, frame>>
  BY Zenon DEF SendNal, Flush, QueueGate, PassGate, GapFull, DpbFull, NoSlot, StartGap,
     StartSequenceEnd, GiveFrame, SkipLeading, NoFrame, Due, StartDrain, Receive, SendEnd,
     Release, taskVars
<1> QED BY <1>1, SamePicturesTasks

LEMMA DrainedTasks ==
  ASSUME MarkingInv, TasksDecode, MakeRoom \/ Drain \/ EndSequence \/ Flushed
  PROVE  TasksDecode'
<1>1. tasks = {} /\ tasks' = tasks
  BY Zenon DEF MakeRoom, Room, Drain, EndSequence, Flushed, Drained, Clear, taskVars
<1> QED BY <1>1, NoTasksKept

LEMMA StartSliceTasks ==
  ASSUME MarkingInv, TasksDecode, StartSlice
  PROVE  TasksDecode'
<1> DEFINE hidden == Concealed(frame, tasks, None, dpb.toGet)
<1>1. tasks' = tasks /\ frame' \in {frame, hidden}
  <2>1. tasks' = tasks BY DEF StartSlice
  <2>2. frame' = frame \/ frame' = hidden
    <3> DEFINE n == stream.nals[at]
               wrong == Damaged(n) \/ (n.view = 1 /\ ~n.intra /\ basePic' = None)
               hides == StartsPicture(n)
                        /\ ~(n.idr = 0 /\ FrameNumOf(prevRef'[n.view], n) > prevRef'[n.view].num + 1)
    <3>1. IF wrong THEN UNCHANGED frame ELSE frame' = IF hides THEN hidden ELSE frame
      BY Zenon DEF StartSlice
    <3> HIDE DEF wrong, hides, hidden
    <3> QED BY <3>1
  <2> QED BY <2>1, <2>2
<1>2. \A t \in tasks : hidden[t.slot] = frame[t.slot] BY TaskTypes, WrittenNotConcealed
<1> HIDE DEF hidden
<1> QED BY <1>1, <1>2, TasksKept

LEMMA FinishTasks ==
  ASSUME MarkingInv, TasksDecode, NEW t \in tasks, Finish(t)
  PROVE  TasksDecode'
<1> DEFINE decoded == [frame EXCEPT ![t.slot].missing = @ \ t.parts]
           hidden(f) == Concealed(f, tasks', currPic, dpb.toGet)
<1>1. tasks' = tasks \ {t} /\ frame' = hidden(decoded) BY DEF Finish
<1>2. \A u \in tasks' : frame'[u.slot] = decoded[u.slot]
  <2>1. \A u \in tasks' : u.slot \in Slot BY <1>1, TaskTypes
  <2> HIDE DEF decoded
  <2>2. \A u \in tasks' : hidden(decoded)[u.slot] = decoded[u.slot]
    BY <2>1, WrittenNotConcealed
  <2> HIDE DEF hidden
  <2> QED BY <1>1, <2>2
<1>3. \A u \in tasks' : /\ decoded[u.slot].id = frame[u.slot].id
                        /\ decoded[u.slot].missing = IF u.slot = t.slot
                             THEN frame[u.slot].missing \ t.parts ELSE frame[u.slot].missing
  <2> TAKE u \in tasks'
  <2>1. frame \in [Slot -> Frame] /\ t.slot \in Slot /\ u.slot \in Slot /\ frame[u.slot] \in Frame
    BY <1>1, TaskTypes DEF MarkingInv, PictureTypes
  <2> QED BY <2>1 DEF Frame
<1> HIDE DEF decoded, hidden
<1>4. \A u \in tasks' : u.slot = t.slot => u.parts \intersect t.parts = {}
  BY <1>1 DEF TasksDecode
<1>5. \A u \in tasks' : /\ u.parts \subseteq frame[u.slot].missing =>
                             u.parts \subseteq frame'[u.slot].missing
                        /\ frame'[u.slot].id = frame[u.slot].id
  BY <1>2, <1>3, <1>4
<1> QED BY <1>1, <1>5, TasksKept

LEMMA InsertSliceTasks ==
  ASSUME MarkingInv, TasksDecode, SlicesNew, InsertSlice
  PROVE  TasksDecode'
<1> DEFINE n == stream.nals[at]
           old == refs \intersect OfView(n.view)
           lists == IF n.intra THEN {}
                    ELSE old \union (IF n.view = 1 THEN {basePic} \ {None} ELSE {})
           task == [nal |-> at, slot |-> currPic, id |-> frame[currPic].id, parts |-> n.parts,
                    deps |-> {<<s, frame[s].id>> : s \in lists}]
           hidden == Concealed(frame, tasks', currPic, dpb'.toGet)
<1>1. /\ call = "insert"
      /\ \/ UNCHANGED <<frame, tasks>>
         \/ tasks' = tasks \union {task} /\ frame' = hidden
  BY Zenon DEF InsertSlice, taskVars
<1>2. CASE UNCHANGED <<frame, tasks>> BY <1>2, SamePicturesTasks
<1>3. CASE tasks' = tasks \union {task} /\ frame' = hidden
  <2>1. currPic \in Slot
    <3>1. currPic # None BY <1>1 DEF MarkingInv, NalSent
    <3> QED BY <3>1 DEF MarkingInv, PictureTypes
  <2>2. /\ task.parts # {} /\ task.parts \subseteq frame[task.slot].missing
        /\ frame[task.slot].id = task.id /\ task.slot \in Slot
        /\ \A t \in tasks : t.slot = task.slot => t.parts \intersect task.parts = {}
    BY <1>1, <2>1 DEF SlicesNew
  <2> HIDE DEF task
  <2>3. \A t \in tasks' : t.slot \in Slot BY <1>3, <2>2, TaskTypes
  <2>4. \A t \in tasks' : frame'[t.slot] = frame[t.slot]
    <3>1. \A t \in tasks' : hidden[t.slot] = frame[t.slot] BY <2>3, WrittenNotConcealed
    <3> HIDE DEF hidden
    <3> QED BY <1>3, <3>1
  <2> HIDE DEF hidden
  <2> QED BY <1>3, <2>2, <2>4 DEF TasksDecode
<1> QED BY <1>1, <1>2, <1>3

(* The slots of a new picture, and of inferred frames, are not written.    *)
LEMMA AllocSlotTasks ==
  ASSUME MarkingInv, TasksDecode, AllocSlot
  PROVE  TasksDecode'
<1> DEFINE n == stream.nals[at]
           free == Slot \ (Taken \union Busy)
           s == CHOOSE x \in free : \A y \in free : x <= y
           id == prevFrameId + 1
           new == [nal |-> at, from |-> at, view |-> n.view,
                   num |-> FrameNumOf(prevRef[n.view], n), poc |-> PocOf(prevRef[n.view], n),
                   missing |-> Part, id |-> id,
                   before |-> IF n.view = 1 THEN lastBaseId ELSE frame[s].before,
                   after |-> IF n.view = 1 THEN 0 ELSE frame[s].after]
           later(x) == n.view = 0 /\ frame[x].view = 1 /\ frame[x].after = 0
<1>1. /\ free # {} /\ tasks' = tasks
      /\ frame' = [x \in Slot |-> IF x = s THEN new
                                  ELSE IF later(x) THEN [frame[x] EXCEPT !.after = id + 1]
                                  ELSE frame[x]]
  BY Zenon DEF AllocSlot, taskVars
<1>2. s \in free
  <2>1. free \in SUBSET Nat BY DEF Slot
  <2>2. \E x \in free : \A y \in free : x <= y BY <1>1, <2>1, LeastOfNats, Zenon
  <2> HIDE DEF free
  <2> QED BY <2>2, Zenon
<1> HIDE DEF s, later, new
<1>3. \A t \in tasks : t.slot \in Slot /\ t.slot # s /\ frame[t.slot] \in Frame
  <2>1. \A t \in tasks : t.slot \in Busy BY WrittenBusy DEF Writing
  <2> QED BY <1>2, <2>1, TaskTypes
<1> HIDE DEF free
<1>4. \A t \in tasks : /\ frame'[t.slot].missing = frame[t.slot].missing
                       /\ frame'[t.slot].id = frame[t.slot].id
  <2> TAKE t \in tasks
  <2>1. frame'[t.slot] = frame[t.slot] \/ frame'[t.slot] = [frame[t.slot] EXCEPT !.after = id + 1]
    BY <1>1, <1>3
  <2> QED BY <1>3, <2>1 DEF Frame
<1> QED BY <1>1, <1>4, TasksKept

LEMMA FillGapTasks ==
  ASSUME MarkingInv, TasksDecode, FillGap
  PROVE  TasksDecode'
<1> DEFINE n == stream.nals[at]
           m == Inferred(n)
           free == Slot \ (Held \union Busy)
           lower(s) == Cardinality({x \in free : x < s})
           num == FrameNumOf(prevRef[n.view], n)
           inferred(s) == [frame[s] EXCEPT !.nal = 0,
                                           !.from = IF source = None THEN 0 ELSE frame[source].from,
                                           !.view = n.view, !.num = num - m + lower(s), !.poc = 0,
                                           !.missing = {}, !.id = prevFrameId + 1 + lower(s)]
           filled == [s \in Slot |->
                        IF s \in free /\ lower(s) < m THEN inferred(s)
                        ELSE IF s = source THEN [frame[s] EXCEPT !.missing = {}] ELSE frame[s]]
           hidden(f) == Concealed(f, tasks, None, dpb.toGet)
<1>1. /\ frame' = hidden(filled) /\ tasks' = tasks
      /\ source # None => Complete(source) \/ source \notin Writing
  BY Zenon DEF FillGap, taskVars
<1>2. \A t \in tasks : t.slot \in Slot /\ t.slot \notin free /\ t.slot # source
  <2>1. \A t \in tasks : t.slot \in Writing /\ t.slot \in Busy /\ t.slot \in Slot
    BY WrittenBusy, TaskTypes DEF Writing
  <2>2. \A t \in tasks : ~Complete(t.slot) BY DEF TasksDecode, Complete
  <2>3. \A t \in tasks : t.slot # None BY <2>1 DEF None, Slot
  <2> QED BY <1>1, <2>1, <2>2, <2>3
<1> HIDE DEF free, lower, inferred
<1>3. \A t \in tasks : filled[t.slot] = frame[t.slot] BY <1>2
<1> HIDE DEF filled
<1>4. \A t \in tasks : hidden(filled)[t.slot] = filled[t.slot]
  BY <1>2, WrittenNotConcealed
<1> HIDE DEF hidden
<1>5. \A t \in tasks : frame'[t.slot] = frame[t.slot] BY <1>1, <1>3, <1>4
<1> QED BY <1>1, <1>5, TasksKept

-----------------------------------------------------------------------------
LEMMA NextTasks ==
  ASSUME MarkingInv, TasksDecode, SlicesNew, [Next]_vars
  PROVE  TasksDecode'
<1>1. CASE Sender
  BY <1>1, CallsTasks, StartSliceTasks, FillGapTasks, DrainedTasks, AllocSlotTasks,
     InsertSliceTasks, Zenon DEF Sender
<1>2. CASE Receiver BY <1>2, CallsTasks, DrainedTasks, Zenon DEF Receiver
<1>3. CASE Caller BY <1>3, CallsTasks, Zenon DEF Caller
<1>4. CASE Worker BY <1>4, FinishTasks, Zenon DEF Worker
<1>5. CASE UNCHANGED vars
  <2>1. UNCHANGED <<tasks, frame>> BY <1>5 DEF vars, taskVars
  <2> QED BY <2>1, SamePicturesTasks
<1> QED BY <1>1, <1>2, <1>3, <1>4, <1>5, Zenon DEF Next

-----------------------------------------------------------------------------
(* Which slices the open picture has had.                                  *)

(* What follows another number by the remainder of the difference to a has *)
(* the remainder of a (derive_FrameNum, order counts).                     *)
LEMMA SameRemainder ==
  ASSUME NEW a \in Int, NEW b \in Int, NEW m \in Nat \ {0}
  PROVE  (b + ((a - b) % m)) % m = a % m
<1> DEFINE x == a - b y == b + (x % m)
<1>1. x \in Int /\ y \in Int OBVIOUS
<1>2. x = m * (x \div m) + (x % m) /\ x \div m \in Int /\ x % m \in 0 .. m - 1
  <2> HIDE DEF x
  <2> QED BY <1>1
<1>3. y = m * (y \div m) + (y % m) /\ y \div m \in Int /\ y % m \in 0 .. m - 1
  <2> HIDE DEF y
  <2> QED BY <1>1
<1>4. a = m * (a \div m) + (a % m) /\ a \div m \in Int /\ a % m \in 0 .. m - 1 OBVIOUS
<1> DEFINE q == y \div m + x \div m r == a \div m
<1>5. m * q + (y % m) = m * r + (a % m) /\ q \in Int /\ r \in Int
  <2>1. a = y + m * (x \div m) BY <1>2
  <2>2. m * q = m * (y \div m) + m * (x \div m) BY <1>2, <1>3
  <2> QED BY <1>2, <1>3, <1>4, <2>1, <2>2
<1> HIDE DEF q, r, x, y
<1>6. q >= r + 1 => m * q >= m * r + m BY <1>5
<1>7. r >= q + 1 => m * r >= m * q + m BY <1>5
<1>8. m * q \in Int /\ m * r \in Int BY <1>5
<1> DEFINE u == y % m v == a % m
<1>9. u \in Int /\ v \in Int /\ 0 <= u /\ u < m /\ 0 <= v /\ v < m /\ m * q + u = m * r + v
  BY <1>3, <1>4, <1>5
<1> HIDE DEF u, v
<1>10. ~(q >= r + 1) BY <1>6, <1>8, <1>9
<1>11. ~(r >= q + 1) BY <1>7, <1>8, <1>9
<1>12. q = r BY <1>5, <1>10, <1>11
<1>13. u = v BY <1>8, <1>9, <1>12
<1> QED BY <1>13 DEF x, y, u, v

LEMMA OpenTypes ==
  ASSUME MarkingInv, currPic # None
  PROVE  currPic \in Slot /\ frame[currPic] \in Frame
BY DEF MarkingInv, PictureTypes

(* Between two pictures there is nothing to show.                          *)
LEMMA NothingOpen ==
  ASSUME currPic' = None
  PROVE  SlicesOfPicture' /\ (call' \in {"drain", "sequence"} => currPic' = None)
BY DEF SlicesOfPicture

(* A step that goes on with the open picture and the same NAL, in which no *)
(* part of it starts to be decoded.                                        *)
LEMMA OpenStays ==
  ASSUME MarkingInv, OpenInv, currPic # None, UNCHANGED <<stream, at, currPic>>,
         call' = "insert" <=> call = "insert", OnlyDecoded(frame, frame'),
         Parted(currPic)' \subseteq Parted(currPic)
  PROVE  SlicesOfPicture'
<1>1. /\ frame'[currPic].nal = frame[currPic].nal /\ frame'[currPic].view = frame[currPic].view
      /\ frame'[currPic].num = frame[currPic].num /\ frame'[currPic].poc = frame[currPic].poc
  BY OpenTypes DEF OnlyDecoded
<1>2. SlicesOfPicture BY DEF OpenInv
<1>3. \A p \in Parted(currPic)' : p \in Parted(currPic) OBVIOUS
<1> QED BY <1>1, <1>2, <1>3 DEF SlicesOfPicture

LEMMA SamePictureOpen ==
  ASSUME MarkingInv, OpenInv, UNCHANGED <<stream, at, frame, tasks>>,
         currPic' \in {currPic, None}, call' = "insert" <=> call = "insert",
         call' \in {"slice", "insert"} \union Placing => stream.nals[at].kind = "slice",
         call' \in {"drain", "sequence"} => currPic' = None
  PROVE  OpenInv'
<1>1. CASE currPic' = None BY <1>1, NothingOpen DEF OpenInv, Placing
<1>2. CASE currPic' # None
  <2>1. OnlyDecoded(frame, frame') BY SameFramesOnly DEF MarkingInv, PictureTypes
  <2>2. Parted(currPic)' = Parted(currPic) BY <1>2 DEF Parted
  <2>3. SlicesOfPicture' BY <1>2, <2>1, <2>2, OpenStays
  <2> QED BY <1>2, <2>3 DEF OpenInv, Placing
<1> QED BY <1>1, <1>2

LEMMA CallsOpen ==
  ASSUME MarkingInv, OpenInv,
         \/ SendNal \/ Flush \/ QueueGate \/ PassGate \/ GapFull \/ DpbFull \/ StartGap
         \/ StartSequenceEnd \/ GiveFrame \/ SkipLeading \/ NoFrame \/ Due \/ StartDrain
         \/ Receive \/ SendEnd \/ \E f \in received : Release(f)
  PROVE  OpenInv'
<1>1. UNCHANGED <<stream, at, frame, tasks>>
  BY Zenon DEF SendNal, Flush, QueueGate, PassGate, GapFull, DpbFull, NoSlot, StartGap,
     StartSequenceEnd, GiveFrame, SkipLeading, NoFrame, Due, StartDrain, Receive, SendEnd,
     Release, taskVars, sendVars, Parsing, Sending
<1> DEFINE other == {"slice", "insert", "drain", "sequence"} \union Placing
<1>2. \/ /\ UNCHANGED currPic /\ call # "insert" /\ call' \notin {"insert", "drain", "sequence"}
         /\ call' \in {"slice"} \union Placing => stream.nals[at].kind = "slice"
      \/ currPic' = None /\ call' \in {"sequence", "drain"} /\ call # "insert"
  <2>1. CASE SendNal \/ Flush \/ QueueGate \/ PassGate
    <3>1. UNCHANGED currPic /\ call \in {"none", "gate"}
      BY <2>1, Zenon DEF SendNal, Flush, QueueGate, PassGate, parseVars
    <3>2. \/ call' \in {"gate", "flush", "none", "end"}
          \/ call' = "slice" /\ stream.nals[at].kind = "slice"
      BY <2>1 DEF SendNal, Flush, QueueGate, PassGate, Sending
    <3> QED BY <3>1, <3>2 DEF Placing
  <2>2. CASE GapFull \/ DpbFull
    <3>1. PICK c, room, needed, taken :
            /\ (c = "fill" /\ room = "fill room") \/ (c = "slot" /\ room = "room")
            /\ NoSlot(c, room, needed, taken)
      BY <2>2, Zenon DEF GapFull, DpbFull
    <3>2. call = c /\ call' \in {room, "none"} /\ UNCHANGED currPic
      BY <3>1 DEF NoSlot, Sending, parseVars
    <3> QED BY <3>1, <3>2 DEF OpenInv, Placing
  <2>3. CASE StartGap
    <3>1. call = "gap" /\ call' = "fill" /\ UNCHANGED currPic BY <2>3, Zenon DEF StartGap
    <3> QED BY <3>1 DEF OpenInv, Placing
  <2>4. CASE StartSequenceEnd
    <3>1. call = "end" /\ call' = "sequence" /\ currPic' = None
      BY <2>4, Zenon DEF StartSequenceEnd, EndPicture
    <3> QED BY <3>1
  <2>5. CASE GiveFrame \/ SkipLeading \/ NoFrame
    <3>1. Looking /\ UNCHANGED currPic
      BY <2>5, Zenon DEF GiveFrame, SkipLeading, NoFrame, parseVars
    <3>2. call' \in {call, "none", "end", "due", "await", "get"}
      BY <2>5 DEF GiveFrame, SkipLeading, NoFrame, Answer
    <3> QED BY <3>1, <3>2 DEF Looking, Placing
  <2>6. CASE Due \/ StartDrain
    <3>1. call \in {"due", "end"} BY <2>6, Zenon DEF Due, StartDrain
    <3>2. \/ UNCHANGED currPic /\ call' \in {"await", "last", "rest"}
          \/ currPic' = None /\ call' = "drain"
      <4>1. CASE Due BY <4>1 DEF Due, parseVars
      <4>2. CASE StartDrain
        <5>1. IF QueuesFull THEN call' = "rest" /\ UNCHANGED parseVars
              ELSE EndPicture /\ call' = "drain"
          BY <4>2, Zenon DEF StartDrain
        <5> QED BY <5>1, Zenon DEF EndPicture, parseVars
      <4> QED BY <2>6, <4>1, <4>2
    <3> QED BY <3>1, <3>2 DEF Placing
  <2>7. CASE Receive \/ SendEnd \/ \E f \in received : Release(f)
    <3>1. UNCHANGED currPic /\ call = "none" /\ call' \in {"none", "get"}
      BY <2>7 DEF Receive, SendEnd, Release, parseVars
    <3> QED BY <3>1 DEF Placing
  <2> QED BY <2>1, <2>2, <2>3, <2>4, <2>5, <2>6, <2>7
<1> QED BY <1>1, <1>2, SamePictureOpen DEF Placing

(* No picture is open while slots are looked for, or all are emptied.      *)
LEMMA EmptiedOpen ==
  ASSUME MarkingInv, OpenInv, MakeRoom \/ FillGap \/ Drain \/ EndSequence \/ Flushed
  PROVE  OpenInv'
<1>1. CASE MakeRoom \/ FillGap
  <2>1. /\ call \in Placing /\ UNCHANGED <<stream, currPic>>
        /\ call' = "none" \/ (call' \in Placing /\ at' = at)
    <3>1. CASE MakeRoom
      <4>1. PICK room, c : /\ (room = "fill room" /\ c = "fill") \/ (room = "room" /\ c = "slot")
                           /\ Room(room, c)
        BY <3>1, Zenon DEF MakeRoom
      <4>2. /\ call = room /\ UNCHANGED <<stream, currPic>>
            /\ call' = "none" \/ (call' = c /\ at' = at)
        BY <4>1 DEF Room, Sending, Parsing
      <4> QED BY <4>1, <4>2 DEF Placing
    <3>2. CASE FillGap BY <3>2, Zenon DEF FillGap, Parsing, Placing
    <3> QED BY <1>1, <3>1, <3>2
  <2>2. currPic = None BY <2>1 DEF MarkingInv, NalSent
  <2>3. stream.nals[at].kind = "slice" BY <2>1 DEF OpenInv
  <2> QED BY <2>1, <2>2, <2>3, NothingOpen DEF OpenInv, Placing
<1>2. CASE Drain \/ EndSequence \/ Flushed
  <2>1. call \in {"drain", "sequence", "flush"} /\ call' \in {"none", "rest"}
    BY <1>2 DEF Drain, EndSequence, Flushed, Sending
  <2>2. currPic' = None
    <3>1. call \in {"drain", "sequence"} => currPic = None BY DEF OpenInv
    <3>2. CASE Drain BY <3>1, <3>2 DEF Drain, parseVars
    <3>3. CASE EndSequence BY <3>1, <3>3 DEF EndSequence, Clear, parseVars
    <3>4. CASE Flushed BY <3>4 DEF Flushed, Clear
    <3> QED BY <1>2, <3>2, <3>3, <3>4
  <2> QED BY <2>1, <2>2, NothingOpen DEF OpenInv, Placing
<1> QED BY <1>1, <1>2

(* What a task has decoded was being decoded.                              *)
LEMMA FinishOpen ==
  ASSUME MarkingInv, OpenInv, NEW t \in tasks, Finish(t)
  PROVE  OpenInv'
<1> DEFINE decoded == [frame EXCEPT ![t.slot].missing = @ \ t.parts]
<1>1. /\ tasks' = tasks \ {t} /\ UNCHANGED <<stream, at, currPic>>
      /\ call' = IF call = "await" THEN "get" ELSE call
      /\ frame' = Concealed(decoded, tasks', currPic, dpb.toGet)
  BY Zenon DEF Finish, sendVars, parseVars
<1>2. OnlyDecoded(frame, decoded) /\ t.slot \in Slot
  <2>1. t.slot \in Slot BY TaskTypes
  <2>2. \A s \in Slot : frame[s] \in Frame BY DEF MarkingInv, PictureTypes
  <2> QED BY <2>1, <2>2 DEF MarkingInv, PictureTypes, OnlyDecoded, Frame
<1>3. currPic # None => decoded[currPic].missing = IF currPic = t.slot
                          THEN frame[currPic].missing \ t.parts ELSE frame[currPic].missing
  BY <1>2, OpenTypes DEF MarkingInv, PictureTypes, Frame
<1> HIDE DEF decoded
<1>4. OnlyDecoded(frame, frame') BY <1>1, <1>2, ConcealedOnly
<1>5. CASE currPic = None BY <1>1, <1>5, NothingOpen DEF OpenInv, Placing
<1>6. CASE currPic # None
  <2>1. frame'[currPic] = decoded[currPic] BY <1>1, <1>6, OpenTypes DEF Concealed
  <2>2. Parted(currPic)' \subseteq Parted(currPic) BY <1>1, <1>3, <1>6, <2>1 DEF Parted
  <2>3. call' = "insert" <=> call = "insert" BY <1>1
  <2>4. SlicesOfPicture' BY <1>1, <1>4, <1>6, <2>2, <2>3, OpenStays
  <2> QED BY <1>1, <2>4 DEF OpenInv, Placing
<1> QED BY <1>5, <1>6

(* A new picture has had no slice, and none is being decoded in its slot.  *)
LEMMA AllocSlotOpen ==
  ASSUME MarkingInv, TasksDecode, OpenInv, AllocSlot
  PROVE  OpenInv'
<1> DEFINE n == stream.nals[at]
           free == Slot \ (Taken \union Busy)
           s == CHOOSE x \in free : \A y \in free : x <= y
           num == FrameNumOf(prevRef[n.view], n)
           poc == PocOf(prevRef[n.view], n)
<1>1. /\ call = "slot" /\ call' = "insert" /\ free # {} /\ currPic' = s
      /\ UNCHANGED <<stream, at, tasks>>
      /\ s \in Slot => /\ frame'[s].nal = at /\ frame'[s].view = n.view /\ frame'[s].num = num
                       /\ frame'[s].poc = poc /\ frame'[s].missing = Part
  <2>1. /\ call = "slot" /\ call' = "insert" /\ free # {} /\ currPic' = s
        /\ UNCHANGED <<stream, at, tasks>>
    BY Zenon DEF AllocSlot, Parsing, taskVars
  <2>2. s \in Slot => /\ frame'[s].nal = at /\ frame'[s].view = n.view /\ frame'[s].num = num
                      /\ frame'[s].poc = poc /\ frame'[s].missing = Part
    BY DEF AllocSlot
  <2> HIDE DEF free, s, num, poc, n
  <2> QED BY <2>1, <2>2
<1>2. s \in free
  <2>1. free \in SUBSET Nat BY DEF Slot
  <2>2. \E x \in free : \A y \in free : x <= y BY <1>1, <2>1, LeastOfNats, Zenon
  <2> HIDE DEF free
  <2> QED BY <2>2, Zenon
<1>3. at <= Len(stream.nals) /\ at \in Nat /\ n \in Nal /\ at >= 1
  <2>1. at <= Len(stream.nals) BY <1>1 DEF MarkingInv, NalSent, Placing
  <2> QED BY <2>1, NalTypes DEF MarkingInv, PictureTypes
<1>4. num % FrameNumSpan = Number(n) % FrameNumSpan
  <2> DEFINE b == prevRef[n.view].num + 1
  <2>1. b \in Int /\ Number(n) \in Int
    <3>1. prevRef[n.view].num \in Int BY <1>3, InferredType DEF MarkingInv
    <3>2. Number(n) \in Nat BY <1>3 DEF Number, Nal
    <3> QED BY <3>1, <3>2
  <2>2. Number(n) - b = Number(n) - prevRef[n.view].num - 1
    BY <1>3, <2>1, InferredType, SMTT(30) DEF MarkingInv
  <2>3. num = b + ((Number(n) - b) % FrameNumSpan) BY <2>2 DEF FrameNumOf, Number
  <2> HIDE DEF b, num
  <2> QED BY <2>1, <2>3, SameRemainder
<1>5. poc % PocSpan = n.poc % PocSpan
  <2> DEFINE h == PocSpan \div 2 b == prevRef[n.view].poc - h
  <2>1. h \in Int /\ prevRef[n.view].poc \in Int /\ n.poc \in Int
    <3>1. n.view \in View BY <1>3, InferredType DEF MarkingInv
    <3>2. prevRef[n.view].poc \in Int BY <3>1 DEF MarkingInv, PictureTypes
    <3>3. n.poc \in Nat BY <1>3 DEF Nal
    <3>4. PocSpan \in Nat \ {0} /\ PocSpan \div 2 \in Int OBVIOUS
    <3> QED BY <3>2, <3>3, <3>4
  <2>2. n.poc - prevRef[n.view].poc + h = n.poc - b BY <2>1
  <2>3. (n.poc - b) % PocSpan \in Int
    <3>1. n.poc - b \in Int BY <2>1
    <3> HIDE DEF b
    <3> QED BY <3>1, Remainder
  <2>4. poc = prevRef[n.view].poc + ((n.poc - b) % PocSpan) - h BY <2>2 DEF PocOf
  <2>5. poc = b + ((n.poc - b) % PocSpan)
    <3> DEFINE r == (n.poc - b) % PocSpan
    <3>1. poc = prevRef[n.view].poc + r - h /\ r \in Int BY <2>3, <2>4
    <3> HIDE DEF r, poc, h
    <3>2. poc = b + r BY <2>1, <3>1
    <3> QED BY <3>2 DEF r
  <2>6. b \in Int BY <2>1
  <2> HIDE DEF b, h, poc
  <2> QED BY <2>1, <2>5, <2>6, SameRemainder
<1> HIDE DEF num, poc, s
<1>6. s \in Slot /\ \A t \in tasks : t.slot # s
  <2>1. \A t \in tasks : t.slot \in Busy BY WrittenBusy DEF Writing
  <2> QED BY <1>2, <2>1
<1>7. n.kind = "slice" BY <1>1 DEF OpenInv, Placing
<1>8. Together(stream.nals, at, at)
  BY <1>3, <1>7 DEF Together, SamePicture
<1>9. Parted(currPic)' = {}
  <2>1. (Part \ frame[currPic].missing)' = {} BY <1>1, <1>6
  <2>2. {u \in tasks : u.slot = currPic}' = {} BY <1>1, <1>6
  <2> QED BY <2>1, <2>2 DEF Parted
<1>10. s # None BY <1>6 DEF Slot, None
<1> HIDE DEF free
<1>11. SlicesOfPicture'
  BY <1>1, <1>3, <1>4, <1>5, <1>6, <1>8, <1>9, <1>10 DEF SlicesOfPicture, SamePicture
<1> QED BY <1>1, <1>7, <1>11 DEF OpenInv, Placing

LEMMA SmallRemainder ==
  ASSUME NEW m \in Nat \ {0}, NEW x \in Int, NEW y, x % m = y
  PROVE  y % m = y
<1>1. y \in 0 .. m - 1 BY Remainder
<1> QED BY <1>1

(* Slices that do not start a picture are of the open one.                 *)
LEMMA ContinuesPicture ==
  ASSUME MarkingInv, OpenInv, ~StartsPicture(stream.nals[at])
  PROVE  currPic # None /\ SamePicture(stream.nals[frame[currPic].nal], stream.nals[at])
<1> DEFINE n == stream.nals[at] m == stream.nals[frame[currPic].nal]
<1>1. /\ currPic # None /\ frame[currPic].view = n.view
      /\ ~NumChanged(n) /\ ~RefChanged(n) /\ ~IdrChanged(n) /\ ~PocChanged(n)
  BY DEF StartsPicture
<1>2. /\ frame[currPic].view = m.view
      /\ frame[currPic].num % FrameNumSpan = Number(m) % FrameNumSpan
      /\ frame[currPic].poc % PocSpan = m.poc % PocSpan
  BY <1>1 DEF OpenInv, SlicesOfPicture
<1>3. m.ref = n.ref /\ m.idr = n.idr BY <1>1 DEF RefChanged, IdrChanged, Sent
<1>4. frame[currPic].num \in Int /\ frame[currPic].poc \in Int
  <2>1. frame[currPic] \in Frame BY <1>1, OpenTypes
  <2>2. frame[currPic].num \in Nat /\ frame[currPic].poc \in Int BY <2>1 DEF Frame
  <2> QED BY <2>2
<1>5. Number(n) % FrameNumSpan = Number(n) /\ frame[currPic].num % FrameNumSpan = Number(n)
  <2>1. frame[currPic].num % FrameNumSpan = Number(n) BY <1>1 DEF NumChanged, Number
  <2> QED BY <1>4, <2>1, SmallRemainder
<1>6. n.poc % PocSpan = n.poc /\ frame[currPic].poc % PocSpan = n.poc
  <2>1. frame[currPic].poc % PocSpan = n.poc BY <1>1 DEF PocChanged
  <2> QED BY <1>4, <2>1, SmallRemainder
<1> QED BY <1>1, <1>2, <1>3, <1>5, <1>6 DEF SamePicture

(* The slices sent for the open picture are one more.                      *)
LEMMA OneMoreTogether ==
  ASSUME NEW nals, NEW i \in Nat, NEW j \in Nat, i <= j - 1, Together(nals, i, j - 1),
         nals[j].kind = "slice", nals[j].view = nals[i].view,
         nals[j].view = 0 => SamePicture(nals[i], nals[j])
  PROVE  Together(nals, i, j)
BY DEF Together

LEMMA StartSliceOpen ==
  ASSUME MarkingInv, OpenInv, StartSlice
  PROVE  OpenInv'
<1> DEFINE n == stream.nals[at]
           new == StartsPicture(n)
           alone == n.view = 1 /\ ~n.intra /\ basePic' = None
           gap == n.idr = 0 /\ FrameNumOf(prevRef'[n.view], n) > prevRef'[n.view].num + 1
           first == frame[currPic].nal
<1>1. /\ call = "slice" /\ UNCHANGED tasks
      /\ IF new /\ ~Damaged(n) THEN EndPicture ELSE UNCHANGED <<parseVars, heldTask>>
  BY DEF StartSlice
<1>2. IF Damaged(n) \/ alone
      THEN Sending("CORRUPT") /\ UNCHANGED frame
      ELSE /\ call' = CASE ~new -> "insert" [] new /\ gap -> "gap" [] new /\ ~gap -> "slot"
           /\ frame' = IF new /\ ~gap THEN Concealed(frame, tasks, None, dpb.toGet) ELSE frame
           /\ UNCHANGED <<stream, at>>
  BY Zenon DEF StartSlice, Parsing
<1>3. Damaged(n) => currPic # None /\ n.view = 1 /\ frame[currPic].view = 1 BY DEF Damaged
<1>4. ~new => SamePicture(stream.nals[first], n) /\ frame[currPic].view = n.view /\ currPic # None
  BY ContinuesPicture DEF StartsPicture
<1>5. n.kind = "slice" /\ at \in Nat /\ at <= Len(stream.nals)
  <2>1. n.kind = "slice" BY <1>1 DEF OpenInv
  <2>2. at \in Nat BY NalTypes DEF MarkingInv
  <2>3. at <= Len(stream.nals) BY <1>1 DEF MarkingInv, NalSent
  <2> QED BY <2>1, <2>2, <2>3
<1> HIDE DEF new, alone, gap
<1>6. CASE new /\ ~Damaged(n)
  <2>1. currPic' = None BY <1>1, <1>6 DEF EndPicture
  <2>2. call' = "none" \/ (call' \in {"gap", "slot"} /\ UNCHANGED <<stream, at>>)
    BY <1>2, <1>6 DEF Sending
  <2> QED BY <1>5, <2>1, <2>2, NothingOpen DEF OpenInv, Placing
<1>7. CASE ~new \/ Damaged(n)
  <2>1. UNCHANGED currPic /\ currPic # None BY <1>1, <1>3, <1>4, <1>7 DEF parseVars
  <2>2. /\ UNCHANGED <<frame, stream>>
        /\ \/ call' = "none" /\ at' = at + 1 /\ (~new \/ (n.view = 1 /\ frame[currPic].view = 1))
           \/ call' = "insert" /\ at' = at /\ ~new
    BY <1>2, <1>3, <1>7 DEF Sending
  <2>3. /\ first \in 1 .. at - 1 /\ Together(stream.nals, first, at - 1)
        /\ frame[currPic].view = stream.nals[first].view
    BY <1>1, <2>1 DEF OpenInv, SlicesOfPicture
  <2>4. Together(stream.nals, first, at)
    <3>1. n.view = stream.nals[first].view BY <1>4, <2>2, <2>3
    <3>2. n.view = 0 => SamePicture(stream.nals[first], n) BY <1>4, <2>2
    <3> HIDE DEF first
    <3> QED BY <1>5, <2>3, <3>1, <3>2, OneMoreTogether
  <2>5. Parted(currPic)' = Parted(currPic) BY <1>1, <2>1, <2>2 DEF Parted
  <2>6. \A p \in Parted(currPic) : \E i \in first .. at' - 1 :
          SamePicture(stream.nals[first], stream.nals[i]) /\ p \in stream.nals[i].parts
    <3> TAKE p \in Parted(currPic)
    <3>1. PICK i \in first .. at - 1 :
            SamePicture(stream.nals[first], stream.nals[i]) /\ p \in stream.nals[i].parts
      BY <2>1 DEF OpenInv, SlicesOfPicture
    <3>2. i \in first .. at' - 1 BY <1>5, <2>2, <2>3, <3>1
    <3> QED BY <3>1, <3>2
  <2>7. /\ frame[currPic].num % FrameNumSpan = Number(stream.nals[first]) % FrameNumSpan
        /\ frame[currPic].poc % PocSpan = stream.nals[first].poc % PocSpan
    BY <2>1 DEF OpenInv, SlicesOfPicture
  <2>8. (IF call' = "insert" THEN at' ELSE at' - 1) = at /\ first \in 1 .. at
    BY <1>5, <2>2, <2>3
  <2>9. call' = "insert" => SamePicture(stream.nals[first], stream.nals[at'])
    BY <1>4, <2>2
  <2>10. UNCHANGED first BY <2>1, <2>2
  <2>11. SlicesOfPicture'
    BY <2>1, <2>2, <2>3, <2>4, <2>5, <2>6, <2>7, <2>8, <2>9, <2>10 DEF SlicesOfPicture
  <2> QED BY <1>5, <2>2, <2>11 DEF OpenInv, Placing
<1> QED BY <1>6, <1>7

LEMMA InsertSliceOpen ==
  ASSUME MarkingInv, OpenInv, InsertSlice
  PROVE  OpenInv'
<1> DEFINE n == stream.nals[at]
           first == frame[currPic].nal
<1>1. /\ call = "insert" /\ UNCHANGED <<stream, currPic>> /\ call' = "none" /\ at' = at + 1
      /\ \/ UNCHANGED <<frame, tasks>>
         \/ /\ \E task : task.parts = n.parts /\ tasks' = tasks \union {task}
            /\ frame' = Concealed(frame, tasks', currPic, dpb'.toGet)
  <2> DEFINE old == refs \intersect OfView(n.view)
             lists == IF n.intra THEN {}
                      ELSE old \union (IF n.view = 1 THEN {basePic} \ {None} ELSE {})
             task == [nal |-> at, slot |-> currPic, id |-> frame[currPic].id, parts |-> n.parts,
                      deps |-> {<<s, frame[s].id>> : s \in lists}]
  <2>1. /\ call = "insert" /\ UNCHANGED currPic
        /\ \/ Sending("CORRUPT") /\ UNCHANGED <<frame, tasks>>
           \/ /\ Sending("OK") /\ tasks' = tasks \union {task}
              /\ frame' = Concealed(frame, tasks', currPic, dpb'.toGet)
    BY Zenon DEF InsertSlice, taskVars
  <2>2. task.parts = n.parts OBVIOUS
  <2> HIDE DEF task, n
  <2>3. stream' = stream /\ call' = "none" /\ at' = at + 1 BY <2>1 DEF Sending
  <2> QED BY <2>1, <2>2, <2>3
<1>2. currPic # None /\ currPic \in Slot /\ at \in Nat
  <2>1. currPic # None BY <1>1 DEF MarkingInv, NalSent
  <2> QED BY <2>1, OpenTypes, NalTypes DEF MarkingInv
<1>3. frame'[currPic] = frame[currPic] BY <1>1, <1>2 DEF Concealed
<1>4. Parted(currPic)' \subseteq Parted(currPic) \union n.parts
  <2>1. (Part \ frame[currPic].missing)' = Part \ frame[currPic].missing BY <1>1, <1>3
  <2>2. \A t \in tasks' : t \in tasks \/ t.parts = n.parts BY <1>1
  <2>3. (UNION {t.parts : t \in {u \in tasks : u.slot = currPic}})' =
          UNION {t.parts : t \in {u \in tasks' : u.slot = currPic}}
    BY <1>1
  <2>4. UNION {t.parts : t \in {u \in tasks' : u.slot = currPic}} \subseteq
          (UNION {t.parts : t \in {u \in tasks : u.slot = currPic}}) \union n.parts
    BY <2>2
  <2> QED BY <2>1, <2>3, <2>4 DEF Parted
<1>5. /\ first \in 1 .. at /\ Together(stream.nals, first, at)
      /\ frame[currPic].view = stream.nals[first].view
      /\ frame[currPic].num % FrameNumSpan = Number(stream.nals[first]) % FrameNumSpan
      /\ frame[currPic].poc % PocSpan = stream.nals[first].poc % PocSpan
      /\ SamePicture(stream.nals[first], n)
      /\ \A p \in Parted(currPic) : \E i \in first .. at - 1 :
           SamePicture(stream.nals[first], stream.nals[i]) /\ p \in stream.nals[i].parts
  BY <1>1, <1>2 DEF OpenInv, SlicesOfPicture
<1>6. \A p \in Parted(currPic)' : \E i \in first .. at' - 1 :
        SamePicture(stream.nals[first], stream.nals[i]) /\ p \in stream.nals[i].parts
  <2> TAKE p \in Parted(currPic)'
  <2>1. CASE p \in n.parts
    <3>1. at \in first .. at' - 1 BY <1>1, <1>2, <1>5
    <3> QED BY <1>5, <2>1, <3>1
  <2>2. CASE p \in Parted(currPic)
    <3>1. PICK i \in first .. at - 1 :
            SamePicture(stream.nals[first], stream.nals[i]) /\ p \in stream.nals[i].parts
      BY <1>5, <2>2
    <3>2. i \in first .. at' - 1 BY <1>1, <1>2, <1>5, <3>1
    <3> QED BY <3>1, <3>2
  <2> QED BY <1>4, <2>1, <2>2
<1>7. first' = first /\ (IF call' = "insert" THEN at' ELSE at' - 1) = at BY <1>1, <1>2, <1>3
<1>8. SlicesOfPicture' BY <1>1, <1>2, <1>3, <1>5, <1>6, <1>7 DEF SlicesOfPicture
<1> QED BY <1>1, <1>8 DEF OpenInv, Placing

(* What the next slice of the picture brings came with none before.        *)
LEMMA OpenSlicesNew ==
  ASSUME MarkingInv, OpenInv, SentOnce(stream)
  PROVE  SlicesNew
<1> DEFINE nals == stream.nals
           n == nals[at]
           first == frame[currPic].nal
<1> SUFFICES ASSUME call = "insert"
             PROVE  /\ n.parts # {} /\ n.parts \subseteq frame[currPic].missing
                    /\ \A t \in tasks : t.slot = currPic => t.parts \intersect n.parts = {}
  BY DEF SlicesNew
<1>1. currPic # None /\ n.kind = "slice" /\ at <= Len(nals) /\ at \in Nat /\ at >= 1
  <2>1. currPic # None /\ at <= Len(nals) BY DEF MarkingInv, NalSent
  <2>2. n.kind = "slice" BY DEF OpenInv
  <2>3. at \in Nat /\ at >= 1 BY NalTypes DEF MarkingInv, PictureTypes
  <2> QED BY <2>1, <2>2, <2>3
<1>2. n \in Nal /\ \A i \in 1 .. at : i \in DOMAIN nals
  <2>1. stream \in Stream /\ Len(nals) \in Nat /\ n \in Nal BY <1>1, NalTypes DEF MarkingInv
  <2>2. DOMAIN nals = 1 .. Len(nals) BY <2>1, LenProperties DEF Stream
  <2> QED BY <1>1, <2>1, <2>2
<1>3. n.parts # {} /\ n.parts \subseteq Part
  <2>1. at \in DOMAIN nals BY <1>1, <1>2
  <2>2. n.parts # {} BY <1>1, <2>1 DEF SentOnce
  <2>3. n.parts \in SUBSET Part BY <1>2 DEF Nal
  <2> QED BY <2>2, <2>3
<1>4. /\ first \in 1 .. at /\ Together(nals, first, at) /\ SamePicture(nals[first], n)
      /\ \A p \in Parted(currPic) : \E i \in first .. at - 1 :
           SamePicture(nals[first], nals[i]) /\ p \in nals[i].parts
  BY <1>1 DEF OpenInv, SlicesOfPicture
<1> HIDE DEF n, first, nals
<1>5. \A p \in Parted(currPic) : p \notin n.parts
  <2> TAKE p \in Parted(currPic)
  <2>1. PICK i \in first .. at - 1 : SamePicture(nals[first], nals[i]) /\ p \in nals[i].parts
    BY <1>4
  <2>2. i \in 1 .. at /\ i < at /\ i \in first .. at BY <1>1, <1>4, <2>1
  <2>3. SamePicture(nals[i], nals[at]) BY <1>4, <2>1 DEF SamePicture, n
  <2>4. Together(nals, i, at)
    <3>1. \A k \in i .. at : k \in first .. at BY <1>1, <1>4, <2>2
    <3> QED BY <1>4, <2>2, <3>1 DEF Together, SamePicture
  <2>5. nals[i].parts \intersect nals[at].parts = {}
    <3>1. i \in DOMAIN nals /\ at \in DOMAIN nals BY <1>1, <1>2, <2>2
    <3> QED BY <2>2, <2>3, <2>4, <3>1 DEF SentOnce, nals
  <2> QED BY <2>1, <2>5 DEF n
<1> QED BY <1>3, <1>5 DEF Parted

LEMMA InitOpen == Init => OpenInv
BY DEF Init, OpenInv, SlicesOfPicture, Placing

LEMMA NextOpen ==
  ASSUME MarkingInv, TasksDecode, OpenInv, [Next]_vars
  PROVE  OpenInv'
<1>1. CASE Sender
  BY <1>1, CallsOpen, StartSliceOpen, EmptiedOpen, AllocSlotOpen, InsertSliceOpen, Zenon DEF Sender
<1>2. CASE Receiver BY <1>2, CallsOpen, EmptiedOpen, Zenon DEF Receiver
<1>3. CASE Caller BY <1>3, CallsOpen, Zenon DEF Caller
<1>4. CASE Worker BY <1>4, FinishOpen, Zenon DEF Worker
<1>5. CASE UNCHANGED vars
  <2>1. UNCHANGED <<stream, at, frame, tasks, currPic, call>>
    BY <1>5 DEF vars, sendVars, taskVars, parseVars
  <2> QED BY <2>1, SamePictureOpen DEF OpenInv, Placing
<1> QED BY <1>1, <1>2, <1>3, <1>4, <1>5, Zenon DEF Next

LEMMA StreamStays == [Next]_vars => stream' = stream
<1>1. Sender => stream' = stream
  BY Zenon DEF Sender, QueueGate, PassGate, StartSlice, StartGap, GapFull, FillGap, DpbFull, NoSlot,
     MakeRoom, Room, AllocSlot, InsertSlice, StartSequenceEnd, EndSequence, Flushed, Sending,
     Parsing
<1>2. Receiver => stream' = stream
  BY Zenon DEF Receiver, GiveFrame, SkipLeading, NoFrame, Due, StartDrain, Drain, sendVars
<1>3. Caller => stream' = stream
  BY Zenon DEF Caller, SendNal, Flush, Receive, SendEnd, Release, sendVars
<1>4. Worker => stream' = stream BY Zenon DEF Worker, Finish, sendVars
<1>5. UNCHANGED vars => stream' = stream BY DEF vars, sendVars
<1> QED BY <1>1, <1>2, <1>3, <1>4, <1>5, Zenon DEF Next

(* Slices of a stream that sends no part twice bring what nobody has       *)
(* decoded, or is decoding, whatever was concealed, rejected or refused    *)
(* meanwhile (parse_slice_layer_without_partitioning).                     *)
THEOREM SlicesStayNew == Spec /\ SentOnce(stream) => []SlicesNew
<1> DEFINE Inv == TasksDecode /\ OpenInv /\ SentOnce(stream)
<1>1. Init /\ SentOnce(stream) => Inv BY InitOpen DEF Init, TasksDecode
<1>2. MarkingInv /\ Inv /\ [Next]_vars => Inv'
  <2> SUFFICES ASSUME MarkingInv, Inv, [Next]_vars PROVE Inv' OBVIOUS
  <2>1. SlicesNew BY OpenSlicesNew
  <2>2. TasksDecode' BY <2>1, NextTasks
  <2>3. OpenInv' BY NextOpen
  <2>4. SentOnce(stream)' BY StreamStays DEF SentOnce, Together, SamePicture, Number
  <2> QED BY <2>2, <2>3, <2>4
<1>3. MarkingInv /\ Inv => SlicesNew BY OpenSlicesNew
<1> HIDE DEF Inv
<1> QED BY <1>1, <1>2, <1>3, PicturesInvariant, PTL DEF Spec

(* What a task decodes is missing from its picture until it ends, in       *)
(* streams that send no part twice.                                        *)
THEOREM TasksInvariant == Spec /\ SentOnce(stream) => []TasksDecode
<1>1. Init => TasksDecode BY DEF Init, TasksDecode
<1> QED BY <1>1, NextTasks, PicturesInvariant, SlicesStayNew, PTL DEF Spec

(* A slot that a task reads or writes keeps its picture until the task     *)
(* ends, whatever is dropped, delivered or given up meanwhile.             *)
THEOREM TasksStay == Spec /\ SentOnce(stream) => []TasksKeepSlots
<1>1. TasksDecode /\ MarkingInv => TasksKeepSlots
  BY DEF TasksDecode, MarkingInv, ReadersKeepSlots, TasksKeepSlots
<1> QED BY <1>1, TasksInvariant, PicturesInvariant, PTL
=============================================================================
