------------------------- MODULE ParameterSetsProofs -------------------------
(***************************************************************************)
(* Proofs about the parameter sets: whatever comes and in which order, the *)
(* sets in use agree with each other and with the buffers, and buffers     *)
(* stay with the frames that the caller holds and are given back once.     *)
(***************************************************************************)
EXTENDS ParameterSets, FiniteSetTheorems, TLAPS

USE SetsAssumption

-----------------------------------------------------------------------------
(* Numbers.                                                                *)
LEMMA MaxOfTwo ==
  ASSUME NEW a \in Int, NEW b \in Int
  PROVE  Max({a, b}) = IF a >= b THEN a ELSE b
<1> DEFINE S == {a, b} m == IF a >= b THEN a ELSE b
<1>1. m \in S /\ \A y \in S : m >= y OBVIOUS
<1>2. \A x \in S : (\A y \in S : x >= y) => x = m OBVIOUS
<1> QED BY <1>1, <1>2 DEF Max

LEMMA MinOfTwo ==
  ASSUME NEW a \in Int, NEW b \in Int
  PROVE  Min({a, b}) = IF a <= b THEN a ELSE b
<1> DEFINE S == {a, b} m == IF a <= b THEN a ELSE b
<1>1. m \in S /\ \A y \in S : m <= y OBVIOUS
<1>2. \A x \in S : (\A y \in S : x <= y) => x = m OBVIOUS
<1> QED BY <1>1, <1>2 DEF Min

-----------------------------------------------------------------------------
(* Cropping leaves a sample in each direction.                             *)
LEMMA ClampedKeeps ==
  ASSUME NEW coded \in Nat \X Nat, NEW step \in {1, 2, 4}, NEW size \in Nat, size >= 16
  PROVE  \E a, b \in Nat : Clamped(coded, step, size) = <<a, b>> /\ a + b < size
<1> DEFINE q == size \div step
           first == Min({coded[1], q - 1})
           second == Min({coded[2], q - 1 - first})
<1>1. q \in Nat /\ q >= 1 /\ q * step <= size
  <2>1. CASE step = 1 BY <2>1
  <2>2. CASE step = 2 BY <2>2
  <2>3. CASE step = 4 BY <2>3
  <2> QED BY <2>1, <2>2, <2>3
<1>2. Clamped(coded, step, size) = <<first * step, second * step>> BY DEF Clamped
<1> HIDE DEF q
<1>3. coded[1] \in Nat /\ coded[2] \in Nat OBVIOUS
<1>4. first \in Nat /\ first <= q - 1
  <2>1. first = IF coded[1] <= q - 1 THEN coded[1] ELSE q - 1 BY <1>1, <1>3, MinOfTwo
  <2> QED BY <1>1, <1>3, <2>1
<1> HIDE DEF first
<1>5. second \in Nat /\ second <= q - 1 - first
  <2>1. second = IF coded[2] <= q - 1 - first THEN coded[2] ELSE q - 1 - first
    BY <1>1, <1>3, <1>4, MinOfTwo
  <2> QED BY <1>1, <1>3, <1>4, <2>1
<1> HIDE DEF second
<1>6. first * step \in Nat /\ second * step \in Nat /\ first * step + second * step < size
  <2>1. CASE step = 1 BY <1>1, <1>4, <1>5, <2>1
  <2>2. CASE step = 2 BY <1>1, <1>4, <1>5, <2>2
  <2>3. CASE step = 4 BY <1>1, <1>4, <1>5, <2>3
  <2> QED BY <2>1, <2>2, <2>3
<1> QED BY <1>2, <1>6

LEMMA NalFields ==
  ASSUME NEW n \in ReadNal
  PROVE  /\ n.type \in {7, 15} /\ n.w \in 1 .. 1023 /\ n.h \in 1 .. 2110 /\ n.chroma \in 0 .. 3
         /\ n.depth \in 8 .. 14 /\ n.cropX \in Nat \X Nat /\ n.cropY \in Nat \X Nat
         /\ n.interlaced \in BOOLEAN /\ n.refs \in 0 .. 16 /\ n.level \in Nat
         /\ n.views \in 1 .. 1024
<1>1. /\ n.type \in {7, 15} /\ n.refs \in 0 .. 16 /\ n.level \in Nat /\ n.views \in 1 .. 1024
      /\ n.depth \in 8 .. 14 /\ n.chroma \in 0 .. 3
  BY DEF ReadNal
<1>2. n.w \in 1 .. 1023 /\ n.h \in 1 .. 2110 /\ n.interlaced \in BOOLEAN BY DEF ReadNal
<1>3. n.cropX \in Nat \X Nat /\ n.cropY \in Nat \X Nat BY DEF ReadNal
<1> QED BY <1>1, <1>2, <1>3

LEMMA VuiFields ==
  ASSUME NEW n \in ReadNal
  PROVE  /\ n.vui.coded \in BOOLEAN
         /\ n.vui.coded => n.vui.reorder \in 0 .. 16 /\ n.vui.buffering \in 0 .. 16
<1>1. n.vui = NoVui \/ n.vui \in CodedVui BY DEF ReadNal
<1>2. CASE n.vui = NoVui BY <1>2 DEF NoVui
<1>3. CASE n.vui \in CodedVui
  <2> DEFINE v == n.vui
  <2>1. v \in CodedVui BY <1>3
  <2> HIDE DEF v
  <2>2. v.coded = TRUE /\ v.reorder \in 0 .. 16 /\ v.buffering \in 0 .. 16 BY <2>1 DEF CodedVui
  <2> QED BY <2>2 DEF v
<1> QED BY <1>1, <1>2, <1>3

LEMMA LookTypes ==
  ASSUME NEW n \in ReadNal
  PROVE  Look(n) \in Looks /\ WidthOf(Look(n)) > 0 /\ HeightOf(Look(n)) > 0
<1> DEFINE stepX == IF n.chroma = 0 THEN 1 ELSE 2
           stepY == (IF n.chroma = 1 THEN 2 ELSE 1) * (IF n.interlaced THEN 2 ELSE 1)
           sizeX == 16 * n.w  sizeY == 16 * n.h
           X == Clamped(n.cropX, stepX, sizeX)  Y == Clamped(n.cropY, stepY, sizeY)
<1>1. stepX \in {1, 2, 4} /\ stepY \in {1, 2, 4} OBVIOUS
<1>2. /\ sizeX \in Nat /\ sizeX >= 16 /\ sizeY \in Nat /\ sizeY >= 16
      /\ n.cropX \in Nat \X Nat /\ n.cropY \in Nat \X Nat
      /\ n.w \in Nat \ {0} /\ n.h \in Nat \ {0}
  <2> DEFINE w == n.w h == n.h
  <2>1. w \in 1 .. 1023 /\ h \in 1 .. 2110 BY NalFields
  <2> HIDE DEF w, h
  <2>2. w \in Nat \ {0} /\ h \in Nat \ {0} BY <2>1
  <2>3. 16 * w \in Nat /\ 16 * w >= 16 /\ 16 * h \in Nat /\ 16 * h >= 16 BY <2>1
  <2>4. n.cropX \in Nat \X Nat /\ n.cropY \in Nat \X Nat BY NalFields
  <2> QED BY <2>2, <2>3, <2>4 DEF w, h
<1>3. CropOf(n) = <<X[1], X[2], Y[1], Y[2]>> BY DEF CropOf
<1> HIDE DEF stepX, stepY, sizeX, sizeY
<1>4. PICK a, b \in Nat : X = <<a, b>> /\ a + b < sizeX BY <1>1, <1>2, ClampedKeeps
<1>5. PICK c, d \in Nat : Y = <<c, d>> /\ c + d < sizeY BY <1>1, <1>2, ClampedKeeps
<1> HIDE DEF X, Y
<1>6. CropOf(n) = <<a, b, c, d>> BY <1>3, <1>4, <1>5
<1>7. CropOf(n) \in Seq(Nat) BY <1>6
<1>8. n.chroma \in 0 .. 3 /\ n.depth \in 8 .. 14 /\ n.interlaced \in BOOLEAN
  BY NalFields
<1>9. /\ Look(n).w = n.w /\ Look(n).h = n.h /\ Look(n).crop = CropOf(n) BY DEF Look
<1>10. Look(n) \in Looks BY <1>2, <1>7, <1>8 DEF Look, Looks
<1>11. WidthOf(Look(n)) = sizeX - a - b /\ HeightOf(Look(n)) = sizeY - c - d
  BY <1>6, <1>9 DEF WidthOf, HeightOf, sizeX, sizeY
<1> QED BY <1>2, <1>4, <1>5, <1>10, <1>11

(* A set has room for its references and for the pictures to be reordered. *)
LEMMA SetTypes ==
  ASSUME NEW n \in ReadNal
  PROVE  /\ SetOf(n) \in SetRecords /\ SetOf(n).look = Look(n)
         /\ 1 <= SetOf(n).refs /\ SetOf(n).refs <= SetOf(n).buffering
         /\ SetOf(n).reorder <= SetOf(n).buffering /\ SetOf(n).buffering <= 16
         /\ n.type = 15 => SetOf(n).refs <= 8
<1> DEFINE refs == RefFrames(n) frames == MaxDpbFrames(n)
           limits == Limits(n)
<1>1. n.type \in {7, 15} /\ n.refs \in 0 .. 16 /\ n.level \in Nat /\ n.depth \in 8 .. 14
      /\ n.views \in 1 .. 1024
  BY NalFields
<1>2. refs \in 1 .. 16 /\ (n.type = 15 => refs <= 8)
  <2> DEFINE most == IF n.type = 15 THEN 8 ELSE 16  least == Min({n.refs, most})
  <2>1. most \in 8 .. 16 /\ (n.type = 15 => most = 8) OBVIOUS
  <2>2. refs = Max({least, 1}) BY DEF RefFrames
  <2> HIDE DEF most
  <2>3. least \in 0 .. 16 /\ least <= most
    <3>1. least = IF n.refs <= most THEN n.refs ELSE most BY <1>1, <2>1, MinOfTwo
    <3> QED BY <1>1, <2>1, <3>1
  <2> HIDE DEF least
  <2>4. refs = IF least >= 1 THEN least ELSE 1 BY <2>2, <2>3, MaxOfTwo
  <2> QED BY <2>1, <2>3, <2>4
<1> DEFINE doubled == TimesViews(n, refs)
<1>3. doubled \in refs .. 16 BY <1>2 DEF TimesViews
<1>4. frames \in doubled .. 16
  <2> DEFINE level == TimesViews(n, n.level)  least == Min({level, 16})
  <2>1. level \in Nat BY <1>1 DEF TimesViews
  <2>2. frames = Max({least, doubled}) BY DEF MaxDpbFrames
  <2> HIDE DEF level
  <2>3. least \in 0 .. 16
    <3>1. least = IF level <= 16 THEN level ELSE 16 BY <2>1, MinOfTwo
    <3> QED BY <2>1, <3>1
  <2> HIDE DEF least, doubled, refs, frames
  <2>4. frames = IF least >= doubled THEN least ELSE doubled BY <1>2, <1>3, <2>2, <2>3, MaxOfTwo
  <2> QED BY <1>2, <1>3, <2>3, <2>4
<1>5. /\ limits.reorder \in Nat /\ limits.buffering \in refs .. 16
      /\ limits.reorder <= limits.buffering
  <2>1. CASE limits = InferredLimits(n)
    <3>1. /\ InferredLimits(n).reorder \in {0, frames}
          /\ InferredLimits(n).buffering = IF n.intra THEN doubled ELSE frames
          /\ InferredLimits(n).reorder = IF n.intra THEN 0 ELSE frames
      BY DEF InferredLimits
    <3> HIDE DEF refs, frames, doubled, limits
    <3> QED BY <1>2, <1>3, <1>4, <2>1, <3>1
  <2>2. CASE n.vui.coded /\ limits = Restricted(n)
    <3> DEFINE buffering == Max({n.vui.buffering, refs})  reorder == Min({n.vui.reorder, buffering})
    <3>1. n.vui.reorder \in 0 .. 16 /\ n.vui.buffering \in 0 .. 16 BY <2>2, VuiFields
    <3>2. limits.reorder = reorder /\ limits.buffering = buffering BY <2>2 DEF Restricted
    <3> HIDE DEF refs, limits
    <3>3. buffering \in refs .. 16
      <4>1. buffering = IF n.vui.buffering >= refs THEN n.vui.buffering ELSE refs
        BY <1>2, <3>1, MaxOfTwo
      <4> QED BY <1>2, <3>1, <4>1
    <3> HIDE DEF buffering
    <3>4. reorder = IF n.vui.reorder <= buffering THEN n.vui.reorder ELSE buffering
      BY <1>2, <3>1, <3>3, MinOfTwo
    <3> QED BY <1>2, <3>1, <3>2, <3>3, <3>4
  <2>3. n.vui.coded \in BOOLEAN BY VuiFields
  <2> QED BY <2>1, <2>2, <2>3 DEF Limits
<1> DEFINE buffering == IF n.type = 15 THEN Max({limits.buffering, frames}) ELSE limits.buffering
<1>6. SetOf(n) = [bits |-> n.depth, look |-> Look(n), refs |-> refs, views |-> n.views,
                  reorder |-> limits.reorder, buffering |-> buffering]
  BY DEF SetOf
<1> HIDE DEF refs, frames, limits, doubled
<1>7. buffering \in limits.buffering .. 16
  <2>1. Max({limits.buffering, frames}) \in limits.buffering .. 16
    <3>1. limits.buffering \in Int /\ frames \in Int BY <1>2, <1>3, <1>4, <1>5
    <3>2. Max({limits.buffering, frames})
            = IF limits.buffering >= frames THEN limits.buffering ELSE frames
      BY <3>1, MaxOfTwo
    <3> QED BY <1>2, <1>3, <1>4, <1>5, <3>2
  <2> QED BY <1>2, <1>5, <2>1
<1> HIDE DEF buffering
<1>8. Look(n) \in Looks BY LookTypes
<1>9. SetOf(n) \in SetRecords
  <2>1. buffering \in Nat /\ refs \in Nat BY <1>2, <1>5, <1>7
  <2> QED BY <1>1, <1>5, <1>6, <1>8, <2>1 DEF SetRecords
<1>10. /\ SetOf(n).look = Look(n) /\ SetOf(n).refs = refs /\ SetOf(n).reorder = limits.reorder
       /\ SetOf(n).buffering = buffering
  BY <1>6
<1> QED BY <1>2, <1>5, <1>7, <1>9, <1>10
-----------------------------------------------------------------------------
(* A decoder, field by field.                                              *)
LEMMA Fields ==
  ASSUME NEW d \in Decoder
  PROVE  /\ d.open \in BOOLEAN /\ d.ids \in BOOLEAN /\ d.pps \in {"none", "plain", "ids"}
         /\ d.sps \in SetRecords \union {NoSet} /\ d.ssps \in SetRecords \union {NoSet}
         /\ d.out \in Looks \union {NoLook} /\ d.buf \in [Ids -> Buffers \union {NoBuffer}]
         /\ d.toGet \subseteq Ids /\ d.output \subseteq Ids /\ d.stale \subseteq Ids
         /\ d.refs \subseteq Ids /\ d.held \subseteq HeldFrames /\ d.taken \in 0 .. MaxTaken
         /\ d.given \in Nat
BY DEF Decoder

LEMMA ClearFields ==
  ASSUME NEW d \in Decoder
  PROVE  LET c == clear_decoder(d)
         IN  /\ c \in Decoder
             /\ c.sps = NoSet /\ c.ssps = NoSet /\ c.pps = "none"
             /\ c.output = d.output \ d.toGet /\ c.toGet = {} /\ c.refs = {}
             /\ c.open = d.open /\ c.ids = d.ids /\ c.out = d.out /\ c.buf = d.buf
             /\ c.stale = d.stale /\ c.held = d.held /\ c.taken = d.taken /\ c.given = d.given
<1> DEFINE c == clear_decoder(d)
<1>1. /\ c.sps = NoSet /\ c.ssps = NoSet /\ c.pps = "none"
      /\ c.output = d.output \ d.toGet /\ c.toGet = {} /\ c.refs = {}
      /\ c.open = d.open /\ c.ids = d.ids /\ c.out = d.out /\ c.buf = d.buf
      /\ c.stale = d.stale /\ c.held = d.held /\ c.taken = d.taken /\ c.given = d.given
  BY DEF clear_decoder, Decoder
<1>2. c \in Decoder
  <2>1. d.output \ d.toGet \subseteq Ids BY Fields
  <2> QED BY <2>1 DEF clear_decoder, Decoder
<1> QED BY <1>1, <1>2

(* The buffers freed are given back.                                       *)
LEMMA FreedFields ==
  ASSUME NEW d \in Decoder, NEW S \in SUBSET Ids
  PROVE  LET c == Freed(d, S)
         IN  /\ c \in Decoder
             /\ c.buf = [s \in Ids |-> IF s \in S THEN NoBuffer ELSE d.buf[s]]
             /\ c.given = d.given + Cardinality({s \in S : d.buf[s] # NoBuffer})
             /\ c.sps = d.sps /\ c.ssps = d.ssps /\ c.pps = d.pps /\ c.output = d.output
             /\ c.toGet = d.toGet /\ c.refs = d.refs /\ c.open = d.open /\ c.ids = d.ids
             /\ c.out = d.out /\ c.stale = d.stale /\ c.held = d.held /\ c.taken = d.taken
<1> DEFINE c == Freed(d, S)
           buf == [s \in Ids |-> IF s \in S THEN NoBuffer ELSE d.buf[s]]
           given == d.given + Cardinality({s \in S : d.buf[s] # NoBuffer})
<1>1. c = [d EXCEPT !.buf = buf, !.given = given] BY DEF Freed, Decoder
<1>2. buf \in [Ids -> Buffers \union {NoBuffer}] BY Fields
<1>3. given \in Nat
  <2>1. IsFiniteSet({s \in S : d.buf[s] # NoBuffer}) BY FS_Subset
  <2>2. Cardinality({s \in S : d.buf[s] # NoBuffer}) \in Nat BY <2>1, FS_CardinalityType
  <2> QED BY <2>2, Fields
<1> HIDE DEF buf, given
<1> SUFFICES LET e == [d EXCEPT !.buf = buf, !.given = given]
             IN  /\ e \in Decoder /\ e.buf = buf /\ e.given = given
                 /\ e.sps = d.sps /\ e.ssps = d.ssps /\ e.pps = d.pps /\ e.output = d.output
                 /\ e.toGet = d.toGet /\ e.refs = d.refs /\ e.open = d.open /\ e.ids = d.ids
                 /\ e.out = d.out /\ e.stale = d.stale /\ e.held = d.held /\ e.taken = d.taken
  BY <1>1 DEF buf, given
<1> QED BY <1>2, <1>3 DEF Decoder

(* What another format leaves: the buffers of frames with the caller.      *)
LEMMA ReformatFields ==
  ASSUME NEW d \in Decoder, NEW look \in Looks
  PROVE  LET e == Reformat(d, look)
             stale == d.stale \union (d.output \ d.toGet)
         IN  /\ e \in Decoder
             /\ e.sps = NoSet /\ e.ssps = NoSet /\ e.pps = "none"
             /\ e.output = d.output \ d.toGet /\ e.toGet = {} /\ e.refs = {}
             /\ e.open = d.open /\ e.ids = d.ids /\ e.out = look /\ e.stale = stale
             /\ e.buf = [s \in Ids |-> IF s \in Ids \ stale THEN NoBuffer ELSE d.buf[s]]
             /\ e.given = d.given + Cardinality({s \in Ids \ stale : d.buf[s] # NoBuffer})
             /\ e.held = d.held /\ e.taken = d.taken
<1> DEFINE c == clear_decoder(d)
           stale == c.stale \union c.output
           x == [c EXCEPT !.out = look, !.stale = stale]
<1>1. /\ c \in Decoder
      /\ c.sps = NoSet /\ c.ssps = NoSet /\ c.pps = "none"
      /\ c.output = d.output \ d.toGet /\ c.toGet = {} /\ c.refs = {}
      /\ c.open = d.open /\ c.ids = d.ids /\ c.out = d.out /\ c.buf = d.buf
      /\ c.stale = d.stale /\ c.held = d.held /\ c.taken = d.taken /\ c.given = d.given
  BY ClearFields
<1>2. Reformat(d, look) = Freed(x, Ids \ stale) BY DEF Reformat
<1> HIDE DEF c
<1>3. stale \subseteq Ids BY <1>1, Fields
<1>4. /\ x \in Decoder /\ x.out = look /\ x.stale = stale
      /\ x.sps = c.sps /\ x.ssps = c.ssps /\ x.pps = c.pps /\ x.output = c.output
      /\ x.toGet = c.toGet /\ x.refs = c.refs /\ x.open = c.open /\ x.ids = c.ids
      /\ x.buf = c.buf /\ x.held = c.held /\ x.taken = c.taken /\ x.given = c.given
  <2> HIDE DEF stale
  <2> QED BY <1>1, <1>3 DEF Decoder
<1> HIDE DEF x
<1> DEFINE T == Ids \ stale  e == Freed(x, T)
<1>5. /\ e \in Decoder
      /\ e.buf = [s \in Ids |-> IF s \in T THEN NoBuffer ELSE x.buf[s]]
      /\ e.given = x.given + Cardinality({s \in T : x.buf[s] # NoBuffer})
      /\ e.sps = x.sps /\ e.ssps = x.ssps /\ e.pps = x.pps /\ e.output = x.output
      /\ e.toGet = x.toGet /\ e.refs = x.refs /\ e.open = x.open /\ e.ids = x.ids
      /\ e.out = x.out /\ e.stale = x.stale /\ e.held = x.held /\ e.taken = x.taken
  <2>1. T \in SUBSET Ids BY <1>3
  <2> HIDE DEF T
  <2> QED BY <1>4, <2>1, FreedFields
<1> HIDE DEF e
<1>6. /\ T = Ids \ (d.stale \union (d.output \ d.toGet)) /\ x.buf = d.buf /\ x.given = d.given
      /\ stale = d.stale \union (d.output \ d.toGet)
  BY <1>1, <1>4
<1> DEFINE away == d.stale \union (d.output \ d.toGet)
<1>7. /\ e.buf = [s \in Ids |-> IF s \in Ids \ away THEN NoBuffer ELSE d.buf[s]]
      /\ e.given = d.given + Cardinality({s \in Ids \ away : d.buf[s] # NoBuffer})
      /\ e.stale = away
  <2> HIDE DEF T, stale
  <2>1. T = Ids \ away /\ x.buf = d.buf /\ x.given = d.given /\ stale = away BY <1>6
  <2> HIDE DEF away
  <2> QED BY <1>4, <1>5, <2>1
<1>8. /\ e.sps = NoSet /\ e.ssps = NoSet /\ e.pps = "none"
      /\ e.output = d.output \ d.toGet /\ e.toGet = {} /\ e.refs = {}
      /\ e.open = d.open /\ e.ids = d.ids /\ e.out = look
      /\ e.held = d.held /\ e.taken = d.taken
  BY <1>1, <1>4, <1>5
<1>9. Reformat(d, look) = e BY <1>2 DEF e
<1> HIDE DEF away, T, stale
<1> QED BY <1>5, <1>7, <1>8, <1>9 DEF away

-----------------------------------------------------------------------------
(* Sets that agree.                                                        *)
Good(set, out) ==
  /\ set \in SetRecords /\ set.look = out /\ WidthOf(out) > 0 /\ HeightOf(out) > 0
  /\ 1 <= set.refs /\ set.refs <= set.buffering
  /\ set.reorder <= set.buffering /\ set.buffering <= 16

(* Each set alone is good, and of both views leaves room for the base.     *)
EachGood(a, b, out) ==
  /\ a # NoSet => Good(a, out)
  /\ b # NoSet => Good(b, out) /\ b.refs <= 8
AllGood(a, b, out) ==
  /\ EachGood(a, b, out)
  /\ a # NoSet /\ b # NoSet =>
       a.buffering = b.buffering /\ a.reorder = b.reorder /\ a.refs + b.refs <= a.buffering

LEMMA AgreeWhenGood ==
  SetsInv <=> dec \in Decoder /\ AllGood(dec.sps, dec.ssps, dec.out)
<1>1. dec \in Decoder => \A set \in {dec.sps, dec.ssps} \ {NoSet} : set \in SetRecords
  BY Fields
<1> QED BY <1>1 DEF SetsInv, SetsAgree, AllGood, EachGood, Good

LEMMA AgreeWhenGoodAfter ==
  ASSUME dec' \in Decoder, AllGood(dec'.sps, dec'.ssps, dec'.out)
  PROVE  SetsInv'
BY DEF SetsInv, SetsAgree, AllGood, EachGood, Good

LEMMA FixAgrees ==
  ASSUME NEW d \in Decoder, EachGood(d.sps, d.ssps, d.out)
  PROVE  LET e == FixLimits(d)
         IN  /\ e \in Decoder /\ AllGood(e.sps, e.ssps, d.out)
             /\ e.pps = d.pps /\ e.output = d.output
             /\ e.toGet = d.toGet /\ e.refs = d.refs /\ e.open = d.open /\ e.ids = d.ids
             /\ e.out = d.out /\ e.buf = d.buf /\ e.stale = d.stale /\ e.held = d.held
             /\ e.taken = d.taken /\ e.given = d.given
<1>1. CASE d.sps = NoSet \/ d.ssps = NoSet
  BY <1>1, Zenon DEF FixLimits, AllGood
<1>2. CASE d.sps # NoSet /\ d.ssps # NoSet
  <2> DEFINE refs == Min({d.sps.refs, 8})
             base == [d.sps EXCEPT !.refs = Min({@, 8})]
             joint == Joint(base, d.ssps)
             wide == [base EXCEPT !.buffering = joint]
             a == [wide EXCEPT !.reorder = d.ssps.reorder]
             b == [d.ssps EXCEPT !.buffering = joint]
             e == [d EXCEPT !.sps = a, !.ssps = b]
  <2>1. /\ d.sps \in SetRecords /\ d.ssps \in SetRecords
        /\ Good(d.sps, d.out) /\ Good(d.ssps, d.out) /\ d.ssps.refs <= 8
    BY <1>2 DEF EachGood, Good
  <2>2. FixLimits(d) = e BY <1>2, Zenon DEF FixLimits
  <2>3. refs \in 1 .. 8
    <3>1. d.sps.refs \in Nat /\ d.sps.refs >= 1 BY <2>1 DEF Good, SetRecords
    <3>2. refs = IF d.sps.refs <= 8 THEN d.sps.refs ELSE 8 BY <3>1, MinOfTwo
    <3> QED BY <3>1, <3>2
  <2>4. base \in SetRecords /\ base.refs = refs /\ base.look = d.sps.look
    BY <2>1, <2>3 DEF SetRecords
  <2>5. joint = Max({d.ssps.buffering, refs + d.ssps.refs}) BY <2>4 DEF Joint
  <2> HIDE DEF base, refs
  <2>6. /\ d.ssps.buffering \in Nat /\ d.ssps.buffering <= 16 /\ d.ssps.refs \in Nat
        /\ d.ssps.refs <= 8 /\ d.ssps.reorder \in Nat /\ d.ssps.reorder <= d.ssps.buffering
        /\ 1 <= d.ssps.refs
    BY <2>1 DEF Good, SetRecords
  <2>7. joint \in Nat /\ joint <= 16 /\ d.ssps.buffering <= joint /\ refs + d.ssps.refs <= joint
    <3>1. joint = IF d.ssps.buffering >= refs + d.ssps.refs THEN d.ssps.buffering
                  ELSE refs + d.ssps.refs
      BY <2>3, <2>5, <2>6, MaxOfTwo
    <3> QED BY <2>3, <2>6, <3>1
  <2> HIDE DEF joint
  <2>8. /\ a \in SetRecords /\ a.refs = refs /\ a.look = d.out /\ a.buffering = joint
        /\ a.reorder = d.ssps.reorder
    <3>1. base.look = d.out BY <2>1, <2>4 DEF Good
    <3>2. joint \in Nat /\ d.ssps.reorder \in Nat BY <2>6, <2>7
    <3>3. /\ wide \in SetRecords /\ wide.refs = base.refs /\ wide.look = base.look
          /\ wide.buffering = joint
      BY <2>4, <3>2 DEF SetRecords
    <3> HIDE DEF wide
    <3>4. /\ a \in SetRecords /\ a.refs = wide.refs /\ a.look = wide.look
          /\ a.buffering = wide.buffering /\ a.reorder = d.ssps.reorder
      BY <3>2, <3>3 DEF SetRecords
    <3> HIDE DEF a
    <3> QED BY <2>4, <3>1, <3>3, <3>4
  <2>9. /\ b \in SetRecords /\ b.refs = d.ssps.refs /\ b.look = d.out /\ b.buffering = joint
        /\ b.reorder = d.ssps.reorder
    BY <2>1, <2>6, <2>7 DEF SetRecords, Good
  <2> HIDE DEF a, b
  <2>10. WidthOf(d.out) > 0 /\ HeightOf(d.out) > 0 BY <2>1 DEF Good
  <2>11. AllGood(a, b, d.out)
    <3>1. Good(a, d.out) BY <2>3, <2>6, <2>7, <2>8, <2>10 DEF Good
    <3>2. Good(b, d.out) BY <2>3, <2>6, <2>7, <2>9, <2>10 DEF Good
    <3> QED BY <2>6, <2>7, <2>8, <2>9, <3>1, <3>2 DEF AllGood, EachGood
  <2>12. /\ e \in Decoder /\ e.sps = a /\ e.ssps = b
         /\ e.pps = d.pps /\ e.output = d.output
         /\ e.toGet = d.toGet /\ e.refs = d.refs /\ e.open = d.open /\ e.ids = d.ids
         /\ e.out = d.out /\ e.buf = d.buf /\ e.stale = d.stale /\ e.held = d.held
         /\ e.taken = d.taken /\ e.given = d.given
    BY <2>8, <2>9 DEF Decoder
  <2> QED BY <2>2, <2>11, <2>12
<1> QED BY <1>1, <1>2

LEMMA CommitAgrees ==
  ASSUME NEW d \in Decoder, EachGood(d.sps, d.ssps, d.out),
         NEW n \in ReadNal, Look(n) = d.out
  PROVE  LET e == Commit(d, n)
         IN  /\ e \in Decoder /\ AllGood(e.sps, e.ssps, d.out)
             /\ e.pps = d.pps /\ e.output = d.output
             /\ e.toGet = d.toGet /\ e.refs = d.refs /\ e.open = d.open /\ e.ids = d.ids
             /\ e.out = d.out /\ e.buf = d.buf /\ e.stale = d.stale /\ e.held = d.held
             /\ e.taken = d.taken /\ e.given = d.given
<1> DEFINE set == SetOf(n)
           x == IF n.type = 7 THEN [d EXCEPT !.sps = set] ELSE [d EXCEPT !.ssps = set]
<1>1. Good(set, d.out) /\ (n.type = 15 => set.refs <= 8)
  BY SetTypes, LookTypes DEF Good
<1>2. n.type \in {7, 15} BY NalFields
<1>3. Commit(d, n) = FixLimits(x) BY DEF Commit
<1> HIDE DEF set
<1>4. /\ x \in Decoder /\ EachGood(x.sps, x.ssps, x.out)
      /\ x.pps = d.pps /\ x.output = d.output
      /\ x.toGet = d.toGet /\ x.refs = d.refs /\ x.open = d.open /\ x.ids = d.ids
      /\ x.out = d.out /\ x.buf = d.buf /\ x.stale = d.stale /\ x.held = d.held
      /\ x.taken = d.taken /\ x.given = d.given
  <2>1. set \in SetRecords BY <1>1 DEF Good
  <2>2. CASE n.type = 7
    <3> DEFINE y == [d EXCEPT !.sps = set]
    <3>1. x = y BY <2>2
    <3>2. /\ y \in Decoder /\ y.sps = set /\ y.ssps = d.ssps
          /\ y.pps = d.pps /\ y.output = d.output
          /\ y.toGet = d.toGet /\ y.refs = d.refs /\ y.open = d.open /\ y.ids = d.ids
          /\ y.out = d.out /\ y.buf = d.buf /\ y.stale = d.stale /\ y.held = d.held
          /\ y.taken = d.taken /\ y.given = d.given
      BY <2>1 DEF Decoder
    <3> HIDE DEF x, y
    <3> QED BY <1>1, <3>1, <3>2 DEF EachGood
  <2>3. CASE n.type = 15
    <3> DEFINE y == [d EXCEPT !.ssps = set]
    <3>1. x = y BY <2>3
    <3>2. /\ y \in Decoder /\ y.sps = d.sps /\ y.ssps = set
          /\ y.pps = d.pps /\ y.output = d.output
          /\ y.toGet = d.toGet /\ y.refs = d.refs /\ y.open = d.open /\ y.ids = d.ids
          /\ y.out = d.out /\ y.buf = d.buf /\ y.stale = d.stale /\ y.held = d.held
          /\ y.taken = d.taken /\ y.given = d.given
      BY <2>1 DEF Decoder
    <3> HIDE DEF x, y
    <3> QED BY <1>1, <2>3, <3>1, <3>2 DEF EachGood
  <2> QED BY <1>2, <2>2, <2>3
<1> HIDE DEF x
<1> DEFINE e == FixLimits(x)
<1>5. /\ e \in Decoder /\ AllGood(e.sps, e.ssps, x.out)
      /\ e.pps = x.pps /\ e.output = x.output
      /\ e.toGet = x.toGet /\ e.refs = x.refs /\ e.open = x.open /\ e.ids = x.ids
      /\ e.out = x.out /\ e.buf = x.buf /\ e.stale = x.stale /\ e.held = x.held
      /\ e.taken = x.taken /\ e.given = x.given
  BY <1>4, FixAgrees
<1> HIDE DEF e
<1> QED BY <1>3, <1>4, <1>5 DEF e
-----------------------------------------------------------------------------
(* Buffers, counted.                                                       *)
Allocated(d) == {s \in Ids : d.buf[s] # NoBuffer}
Counted(d) == d.taken = d.given + Cardinality(Allocated(d))

LEMMA AllocatedFinite ==
  ASSUME NEW d
  PROVE  IsFiniteSet(Allocated(d)) /\ Cardinality(Allocated(d)) \in Nat
<1>1. Allocated(d) \in SUBSET Ids BY DEF Allocated
<1> QED BY <1>1, FS_Subset, FS_CardinalityType

LEMMA FreedCounts ==
  ASSUME NEW d \in Decoder, NEW S \in SUBSET Ids, Counted(d)
  PROVE  Counted(Freed(d, S))
<1> DEFINE e == Freed(d, S)  gone == {s \in S : d.buf[s] # NoBuffer}
           A == Allocated(d)  B == Allocated(e)
<1>1. /\ e.buf = [s \in Ids |-> IF s \in S THEN NoBuffer ELSE d.buf[s]]
      /\ e.given = d.given + Cardinality(gone) /\ e.taken = d.taken
  BY FreedFields
<1>2. B = A \ gone /\ A \intersect gone = gone /\ gone \subseteq A BY <1>1 DEF Allocated
<1> HIDE DEF e, gone, A, B
<1>3. IsFiniteSet(A) /\ Cardinality(A) \in Nat BY AllocatedFinite DEF A
<1>4. IsFiniteSet(gone) /\ Cardinality(gone) \in Nat BY <1>2, <1>3, FS_Subset, FS_CardinalityType
<1>5. Cardinality(B) = Cardinality(A) - Cardinality(gone)
  <2>1. Cardinality(A \ gone) = Cardinality(A) - Cardinality(A \intersect gone)
    BY <1>3, FS_Difference, Zenon
  <2> QED BY <1>2, <2>1
<1>6. d.given \in Nat BY Fields
<1>7. d.taken = d.given + Cardinality(A) BY DEF Counted, A
<1>8. e.taken = e.given + Cardinality(B) BY <1>1, <1>3, <1>4, <1>5, <1>6, <1>7
<1> QED BY <1>8 DEF Counted, e, B

(* Steps that leave the buffers alone.                                     *)
LEMMA BuffersStay ==
  ASSUME BuffersInv, dec.open,
         dec'.buf = dec.buf, dec'.taken = dec.taken, dec'.given = dec.given,
         dec'.held = dec.held, dec'.stale = dec.stale, dec'.open = dec.open,
         dec'.out = dec.out, dec'.refs \subseteq dec.refs, dec'.toGet \subseteq dec.toGet,
         dec.output \ dec.toGet \subseteq dec'.output,
         dec'.pps = "ids" => dec'.ids
  PROVE  HeldApart' /\ StaleMarked' /\ BuffersKept'
<1>1. HeldApart' BY DEF BuffersInv, HeldApart
<1>2. StaleMarked' BY DEF BuffersInv, StaleMarked
<1>3. BuffersKept' BY DEF BuffersInv, BuffersKept
<1> QED BY <1>1, <1>2, <1>3

LEMMA InvFacts ==
  ASSUME BuffersInv
  PROVE  /\ dec \in Decoder /\ AllGood(dec.sps, dec.ssps, dec.out)
         /\ EachGood(dec.sps, dec.ssps, dec.out) /\ Counted(dec)
<1>1. dec \in Decoder /\ AllGood(dec.sps, dec.ssps, dec.out)
  BY AgreeWhenGood DEF BuffersInv
<1>2. Counted(dec) BY DEF BuffersInv, BuffersKept, Counted, Allocated
<1> QED BY <1>1, <1>2 DEF AllGood

(* Nothing is asked of sets that are not there.                            *)
LEMMA NoSetsAgree ==
  ASSUME NEW out
  PROVE  AllGood(NoSet, NoSet, out)
BY DEF AllGood, EachGood

-----------------------------------------------------------------------------
(* parse_seq_parameter_set *)
LEMMA ParsedSet ==
  ASSUME BuffersInv, dec.open, NEW n \in SetNals, parse_seq_parameter_set(n)
  PROVE  BuffersInv'
<1>1. n \in ReadNal OBVIOUS
<1>2. /\ dec \in Decoder /\ AllGood(dec.sps, dec.ssps, dec.out)
      /\ EachGood(dec.sps, dec.ssps, dec.out) /\ Counted(dec)
  BY InvFacts
<1>3. CASE Look(n) = dec.out /\ dec' = Commit(dec, n)
  <2>1. /\ dec' \in Decoder /\ AllGood(dec'.sps, dec'.ssps, dec.out)
        /\ dec'.pps = dec.pps /\ dec'.output = dec.output
        /\ dec'.toGet = dec.toGet /\ dec'.refs = dec.refs /\ dec'.open = dec.open
        /\ dec'.ids = dec.ids
        /\ dec'.out = dec.out /\ dec'.buf = dec.buf /\ dec'.stale = dec.stale
        /\ dec'.held = dec.held /\ dec'.taken = dec.taken /\ dec'.given = dec.given
    BY <1>1, <1>2, <1>3, CommitAgrees
  <2>2. SetsInv' BY <2>1, AgreeWhenGoodAfter
  <2>3. dec.pps = "ids" => dec.ids BY DEF BuffersInv, BuffersKept
  <2>4. HeldApart' /\ StaleMarked' /\ BuffersKept' BY <2>1, <2>3, BuffersStay
  <2> QED BY <2>2, <2>4 DEF BuffersInv
<1>4. CASE dec' = [dec EXCEPT !.output = @ \union dec.toGet]
  <2>1. /\ dec' \in Decoder /\ dec'.sps = dec.sps /\ dec'.ssps = dec.ssps
        /\ dec'.pps = dec.pps /\ dec'.output = dec.output \union dec.toGet
        /\ dec'.toGet = dec.toGet /\ dec'.refs = dec.refs /\ dec'.open = dec.open
        /\ dec'.ids = dec.ids
        /\ dec'.out = dec.out /\ dec'.buf = dec.buf /\ dec'.stale = dec.stale
        /\ dec'.held = dec.held /\ dec'.taken = dec.taken /\ dec'.given = dec.given
    <3>1. dec.output \union dec.toGet \subseteq Ids BY <1>2, Fields
    <3> QED BY <1>2, <1>4, <3>1 DEF Decoder
  <2>2. SetsInv' BY <1>2, <2>1, AgreeWhenGoodAfter
  <2>3. dec.pps = "ids" => dec.ids BY DEF BuffersInv, BuffersKept
  <2>4. HeldApart' /\ StaleMarked' /\ BuffersKept' BY <2>1, <2>3, BuffersStay
  <2> QED BY <2>2, <2>4 DEF BuffersInv
<1>5. CASE dec.toGet = {} /\ dec' = Commit(Reformat(dec, Look(n)), n)
  <2> DEFINE r == Reformat(dec, Look(n))  away == dec.stale \union (dec.output \ dec.toGet)
  <2>1. Look(n) \in Looks BY <1>1, LookTypes
  <2>2. /\ r \in Decoder
        /\ r.sps = NoSet /\ r.ssps = NoSet /\ r.pps = "none"
        /\ r.output = dec.output \ dec.toGet /\ r.toGet = {} /\ r.refs = {}
        /\ r.open = dec.open /\ r.ids = dec.ids /\ r.out = Look(n) /\ r.stale = away
        /\ r.buf = [s \in Ids |-> IF s \in Ids \ away THEN NoBuffer ELSE dec.buf[s]]
        /\ r.given = dec.given + Cardinality({s \in Ids \ away : dec.buf[s] # NoBuffer})
        /\ r.held = dec.held /\ r.taken = dec.taken
    BY <1>2, <2>1, ReformatFields, ZenonT(60)
  <2>3. dec' = Commit(r, n) BY <1>5
  <2> HIDE DEF r
  <2>4. EachGood(r.sps, r.ssps, r.out) BY <2>2 DEF EachGood
  <2>5. /\ dec' \in Decoder /\ AllGood(dec'.sps, dec'.ssps, r.out)
        /\ dec'.pps = r.pps /\ dec'.output = r.output
        /\ dec'.toGet = r.toGet /\ dec'.refs = r.refs /\ dec'.open = r.open
        /\ dec'.ids = r.ids
        /\ dec'.out = r.out /\ dec'.buf = r.buf /\ dec'.stale = r.stale
        /\ dec'.held = r.held /\ dec'.taken = r.taken /\ dec'.given = r.given
    <3>1. r \in Decoder /\ Look(n) = r.out BY <2>2
    <3> QED BY <1>1, <2>3, <2>4, <3>1, CommitAgrees
  <2>6. SetsInv' BY <2>5, AgreeWhenGoodAfter
  <2>7. dec.stale \subseteq dec.output \ dec.toGet /\ away \subseteq dec.output \ dec.toGet
    BY DEF BuffersInv, StaleMarked
  <2>8. HeldApart' BY <2>2, <2>5 DEF BuffersInv, HeldApart
  <2>9. StaleMarked'
    <3>1. dec'.stale \subseteq dec'.output \ (dec'.toGet \union dec'.refs) BY <2>2, <2>5, <2>7
    <3>2. \A s \in Ids \ dec'.stale : dec'.buf[s] = NoBuffer BY <2>2, <2>5
    <3> QED BY <3>1, <3>2 DEF StaleMarked
  <2>10. BuffersKept'
    <3>1. \A f \in dec'.held : \A s \in DOMAIN f : dec'.buf[s].n = f[s]
      <4> SUFFICES ASSUME NEW f \in dec.held, NEW s \in DOMAIN f PROVE dec'.buf[s].n = f[s]
        BY <2>2, <2>5
      <4>1. s \in dec.output \ dec.toGet /\ dec.buf[s].n = f[s]
        BY DEF BuffersInv, HeldApart, BuffersKept
      <4>2. s \in Ids /\ s \in away BY <1>2, <4>1, Fields
      <4> QED BY <2>2, <2>5, <4>1, <4>2
    <3>2. Counted(dec')
      <4> DEFINE T == Ids \ away  e == Freed(dec, T)
      <4>1. T \in SUBSET Ids OBVIOUS
      <4>2. Counted(e) BY <1>2, <4>1, FreedCounts
      <4>3. /\ e.buf = [s \in Ids |-> IF s \in T THEN NoBuffer ELSE dec.buf[s]]
            /\ e.given = dec.given + Cardinality({s \in T : dec.buf[s] # NoBuffer})
            /\ e.taken = dec.taken
        BY <1>2, <4>1, FreedFields
      <4> HIDE DEF e
      <4>4. dec'.buf = e.buf /\ dec'.given = e.given /\ dec'.taken = e.taken BY <2>2, <2>5, <4>3
      <4> QED BY <4>2, <4>4 DEF Counted, Allocated
    <3>3. dec'.refs \union dec'.toGet = {} /\ dec'.pps = "none" /\ dec'.open BY <2>2, <2>5
    <3> QED BY <3>1, <3>2, <3>3 DEF BuffersKept, Counted, Allocated
  <2> QED BY <2>6, <2>8, <2>9, <2>10 DEF BuffersInv
<1> QED BY <1>3, <1>4, <1>5, Zenon DEF parse_seq_parameter_set

(* Steps that only change which pictures are to output or to predict from, *)
(* or which picture parameter set there is.                                *)
LEMMA CallsKeep ==
  ASSUME BuffersInv, dec.open,
         \/ parse_pic_parameter_set \/ \E S \in SUBSET dec.toGet : Bump(S)
         \/ EndOfSequence \/ Flush
  PROVE  BuffersInv'
<1>1. /\ dec \in Decoder /\ AllGood(dec.sps, dec.ssps, dec.out) BY InvFacts
<1>2. dec.pps = "ids" => dec.ids BY DEF BuffersInv, BuffersKept
<1>3. CASE parse_pic_parameter_set
  <2>1. PICK kind \in {"plain", "ids"} : dec' = [dec EXCEPT !.pps = kind, !.ids = (kind = "ids")]
    BY <1>3 DEF parse_pic_parameter_set
  <2>2. /\ dec' \in Decoder /\ dec'.sps = dec.sps /\ dec'.ssps = dec.ssps
        /\ dec'.pps = kind /\ dec'.ids = (kind = "ids") /\ dec'.output = dec.output
        /\ dec'.toGet = dec.toGet /\ dec'.refs = dec.refs /\ dec'.open = dec.open
        /\ dec'.out = dec.out /\ dec'.buf = dec.buf /\ dec'.stale = dec.stale
        /\ dec'.held = dec.held /\ dec'.taken = dec.taken /\ dec'.given = dec.given
    BY <1>1, <2>1 DEF Decoder
  <2>3. SetsInv' BY <1>1, <2>2, AgreeWhenGoodAfter
  <2>4. HeldApart' /\ StaleMarked' /\ BuffersKept' BY <2>2, BuffersStay
  <2> QED BY <2>3, <2>4 DEF BuffersInv
<1>4. CASE dec' = clear_decoder(dec)
  <2>1. /\ dec' \in Decoder
        /\ dec'.sps = NoSet /\ dec'.ssps = NoSet /\ dec'.pps = "none"
        /\ dec'.output = dec.output \ dec.toGet /\ dec'.toGet = {} /\ dec'.refs = {}
        /\ dec'.open = dec.open /\ dec'.ids = dec.ids /\ dec'.out = dec.out
        /\ dec'.buf = dec.buf /\ dec'.stale = dec.stale /\ dec'.held = dec.held
        /\ dec'.taken = dec.taken /\ dec'.given = dec.given
    BY <1>1, <1>4, ClearFields
  <2>2. SetsInv' BY <2>1, NoSetsAgree, AgreeWhenGoodAfter
  <2>3. HeldApart' /\ StaleMarked' /\ BuffersKept' BY <2>1, BuffersStay
  <2> QED BY <2>2, <2>3 DEF BuffersInv
<1>5. ASSUME NEW S \in SUBSET dec.toGet, dec' = [dec EXCEPT !.output = @ \union S]
      PROVE  BuffersInv'
  <2>1. dec.output \union S \subseteq Ids BY <1>1, Fields
  <2>2. /\ dec' \in Decoder /\ dec'.sps = dec.sps /\ dec'.ssps = dec.ssps
        /\ dec'.pps = dec.pps /\ dec'.output = dec.output \union S
        /\ dec'.toGet = dec.toGet /\ dec'.refs = dec.refs /\ dec'.open = dec.open
        /\ dec'.ids = dec.ids
        /\ dec'.out = dec.out /\ dec'.buf = dec.buf /\ dec'.stale = dec.stale
        /\ dec'.held = dec.held /\ dec'.taken = dec.taken /\ dec'.given = dec.given
    BY <1>1, <1>5, <2>1 DEF Decoder
  <2>3. SetsInv' BY <1>1, <2>2, AgreeWhenGoodAfter
  <2>4. HeldApart' /\ StaleMarked' /\ BuffersKept' BY <1>2, <2>2, BuffersStay
  <2> QED BY <2>3, <2>4 DEF BuffersInv
<1>6. CASE \E S \in SUBSET dec.toGet : Bump(S)
  <2>1. PICK S \in SUBSET dec.toGet : Bump(S) BY <1>6
  <2> QED BY <1>5, <2>1 DEF Bump
<1>7. CASE EndOfSequence
  <2>1. dec.toGet \in SUBSET dec.toGet OBVIOUS
  <2>2. dec' = [dec EXCEPT !.output = @ \union dec.toGet] \/ dec' = clear_decoder(dec)
    BY <1>7 DEF EndOfSequence
  <2> QED BY <1>4, <1>5, <2>1, <2>2
<1> QED BY <1>3, <1>4, <1>6, <1>7 DEF Flush

(* alloc_frame: a slot without memory gets a buffer of the present format. *)
LEMMA AllocFields ==
  ASSUME BuffersInv, dec.open, NEW s \in Ids, SizeOf(dec.sps) = <<dec.out.w, dec.out.h>>,
         dec.sps # NoSet, dec.buf[s] = NoBuffer => dec.taken < MaxTaken, s \notin dec.output
  PROVE  LET e == alloc_frame(dec, s)
         IN  /\ e \in Decoder /\ Counted(e)
             /\ e.buf[s] # NoBuffer /\ e.buf[s].look = dec.out
             /\ e.buf[s].mbs = <<dec.out.w, dec.out.h>>
             /\ \A x \in Ids \ {s} : e.buf[x] = dec.buf[x]
             /\ e.sps = dec.sps /\ e.ssps = dec.ssps /\ e.pps = dec.pps
             /\ e.output = dec.output /\ e.toGet = dec.toGet /\ e.refs = dec.refs
             /\ e.open = dec.open /\ e.ids = dec.ids /\ e.out = dec.out
             /\ e.stale = dec.stale /\ e.held = dec.held
<1>1. dec \in Decoder /\ Counted(dec) BY InvFacts
<1>2. s \notin dec.stale BY DEF BuffersInv, StaleMarked
<1>3. CASE dec.buf[s] # NoBuffer
  <2>1. alloc_frame(dec, s) = dec BY <1>3 DEF alloc_frame
  <2>2. dec.buf[s].look = dec.out /\ dec.buf[s].mbs = <<dec.out.w, dec.out.h>>
    BY <1>2, <1>3 DEF BuffersInv, StaleMarked
  <2> QED BY <1>1, <1>3, <2>1, <2>2
<1>4. CASE dec.buf[s] = NoBuffer
  <2> DEFINE b == [n |-> dec.taken + 1, look |-> dec.out, mbs |-> SizeOf(dec.sps)]
             buf == [dec.buf EXCEPT ![s] = b]  taken == dec.taken + 1
             e == [dec EXCEPT !.buf = buf, !.taken = taken]
  <2>1. alloc_frame(dec, s) = e
    <3>1. alloc_frame(dec, s) = [dec EXCEPT !.buf[s] = b, !.taken = @ + 1]
      BY <1>4 DEF alloc_frame
    <3> QED BY <1>1, <3>1 DEF Decoder
  <2>2. dec.taken \in 0 .. MaxTaken /\ dec.out \in Looks \union {NoLook}
        /\ dec.sps \in SetRecords \union {NoSet} /\ dec.given \in Nat
    BY <1>1, Fields
  <2>3. taken \in 1 .. MaxTaken BY <1>4, <2>2
  <2>4. SizeOf(dec.sps) \in Nat \X Nat
    <3>1. dec.sps \in SetRecords BY <2>2
    <3>2. dec.sps.look \in Looks BY <3>1 DEF SetRecords
    <3>3. dec.sps.look.w \in Nat /\ dec.sps.look.h \in Nat BY <3>2 DEF Looks
    <3> QED BY <3>3 DEF SizeOf
  <2>5. b \in Buffers BY <2>2, <2>3, <2>4 DEF Buffers
  <2>6. b.n = taken /\ b.look = dec.out /\ b.mbs = <<dec.out.w, dec.out.h>> OBVIOUS
  <2>7. b # NoBuffer BY <2>3, <2>6 DEF NoBuffer
  <2> HIDE DEF b
  <2>8. /\ buf \in [Ids -> Buffers \union {NoBuffer}] /\ buf[s] = b
        /\ \A x \in Ids \ {s} : buf[x] = dec.buf[x]
    BY <1>1, <2>5, Fields
  <2> HIDE DEF buf, taken
  <2>9. taken \in 0 .. MaxTaken BY <2>3
  <2>10. /\ e \in Decoder /\ e.buf = buf /\ e.taken = taken /\ e.given = dec.given
         /\ e.sps = dec.sps /\ e.ssps = dec.ssps /\ e.pps = dec.pps
         /\ e.output = dec.output /\ e.toGet = dec.toGet /\ e.refs = dec.refs
         /\ e.open = dec.open /\ e.ids = dec.ids /\ e.out = dec.out
         /\ e.stale = dec.stale /\ e.held = dec.held
    BY <1>1, <2>8, <2>9 DEF Decoder
  <2> HIDE DEF e
  <2>11. Counted(e)
    <3>1. Allocated(e) = Allocated(dec) \union {s} /\ s \notin Allocated(dec)
      BY <1>4, <2>7, <2>8, <2>10 DEF Allocated
    <3>2. IsFiniteSet(Allocated(dec)) /\ Cardinality(Allocated(dec)) \in Nat BY AllocatedFinite
    <3>3. Cardinality(Allocated(dec) \union {s}) = Cardinality(Allocated(dec)) + 1
      BY <3>1, <3>2, FS_AddElement
    <3>4. dec.taken = dec.given + Cardinality(Allocated(dec)) BY <1>1 DEF Counted
    <3> QED BY <2>2, <2>10, <3>1, <3>2, <3>3, <3>4 DEF Counted, taken
  <2> QED BY <2>1, <2>6, <2>7, <2>8, <2>10, <2>11
<1> QED BY <1>3, <1>4

LEMMA StartKeeps ==
  ASSUME BuffersInv, dec.open, NEW s \in Ids, NEW stay \in SUBSET (dec.refs \union {s}),
         NEW view \in 0 .. 2, NEW gap \in BOOLEAN, StartPicture(view, s, gap, stay)
  PROVE  BuffersInv'
<1>1. /\ dec \in Decoder /\ AllGood(dec.sps, dec.ssps, dec.out) BY InvFacts
<1>2. /\ Decodable(dec, view) /\ s \notin dec.refs \union dec.toGet \union dec.output
      /\ dec.buf[s] = NoBuffer => dec.taken < MaxTaken
      /\ dec' = [alloc_frame(dec, s) EXCEPT !.refs = stay,
                                            !.toGet = IF gap THEN @ ELSE @ \union {s}]
  BY DEF StartPicture
<1>3. SizeOf(dec.sps) = <<dec.out.w, dec.out.h>> /\ dec.sps # NoSet
  <2> DEFINE set == ActiveSet(dec, view)
  <2>1. set # NoSet /\ SizeOf(set) = SizeOf(dec.sps) /\ set \in {dec.sps, dec.ssps}
    BY <1>2 DEF Decodable, ActiveSet
  <2>2. set \in SetRecords /\ set.look = dec.out
    BY <1>1, <2>1 DEF AllGood, EachGood, Good
  <2> HIDE DEF set
  <2>3. SizeOf(set) = <<dec.out.w, dec.out.h>> BY <2>1, <2>2 DEF SizeOf
  <2>4. dec.out.w # 0
    <3>1. dec.out \in Looks BY <2>2 DEF SetRecords
    <3> QED BY <3>1 DEF Looks
  <2>5. SizeOf(NoSet) = <<0, 0>> BY DEF SizeOf
  <2>6. SizeOf(dec.sps) = <<dec.out.w, dec.out.h>> BY <2>1, <2>3
  <2>7. <<dec.out.w, dec.out.h>> # <<0, 0>> BY <2>4
  <2>8. dec.sps = NoSet => SizeOf(dec.sps) = SizeOf(NoSet) OBVIOUS
  <2> QED BY ONLY <2>5, <2>6, <2>7, <2>8, Zenon
<1> DEFINE e == alloc_frame(dec, s)
<1>4. /\ e \in Decoder /\ Counted(e)
      /\ e.buf[s] # NoBuffer /\ e.buf[s].look = dec.out
      /\ e.buf[s].mbs = <<dec.out.w, dec.out.h>>
      /\ \A x \in Ids \ {s} : e.buf[x] = dec.buf[x]
      /\ e.sps = dec.sps /\ e.ssps = dec.ssps /\ e.pps = dec.pps
      /\ e.output = dec.output /\ e.toGet = dec.toGet /\ e.refs = dec.refs
      /\ e.open = dec.open /\ e.ids = dec.ids /\ e.out = dec.out
      /\ e.stale = dec.stale /\ e.held = dec.held
  BY <1>2, <1>3, AllocFields
<1> HIDE DEF e
<1> DEFINE get == IF gap THEN e.toGet ELSE e.toGet \union {s}
<1>5. /\ dec' \in Decoder /\ dec'.refs = stay /\ dec'.toGet = get
      /\ dec'.sps = e.sps /\ dec'.ssps = e.ssps /\ dec'.pps = e.pps
      /\ dec'.output = e.output /\ dec'.open = e.open /\ dec'.ids = e.ids /\ dec'.out = e.out
      /\ dec'.stale = e.stale /\ dec'.held = e.held /\ dec'.buf = e.buf
      /\ dec'.taken = e.taken /\ dec'.given = e.given
  <2>1. get \subseteq Ids /\ stay \subseteq Ids BY <1>1, <1>4, Fields
  <2>2. dec' = [e EXCEPT !.refs = stay, !.toGet = get] BY <1>2, <1>4 DEF e, Decoder
  <2> HIDE DEF get
  <2> QED BY <1>4, <2>1, <2>2 DEF Decoder
<1>6. get \subseteq dec.toGet \union {s} BY <1>4
<1> HIDE DEF get
<1>7. SetsInv' BY <1>1, <1>4, <1>5, AgreeWhenGoodAfter
<1>8. HeldApart' BY <1>2, <1>4, <1>5, <1>6 DEF BuffersInv, HeldApart
<1>9. StaleMarked'
  <2>1. dec'.stale \subseteq dec'.output \ (dec'.toGet \union dec'.refs)
    BY <1>2, <1>4, <1>5, <1>6 DEF BuffersInv, StaleMarked
  <2>2. ASSUME NEW x \in Ids \ dec'.stale, dec'.buf[x] # NoBuffer
        PROVE  dec'.buf[x].look = dec'.out /\ dec'.buf[x].mbs = <<dec'.out.w, dec'.out.h>>
    <3>1. CASE x = s BY <1>4, <1>5, <3>1
    <3>2. CASE x # s
      <4>1. dec'.buf[x] = dec.buf[x] /\ x \notin dec.stale BY <1>4, <1>5, <3>2
      <4> QED BY <1>4, <1>5, <2>2, <4>1 DEF BuffersInv, StaleMarked
    <3> QED BY <3>1, <3>2
  <2> QED BY <2>1, <2>2 DEF StaleMarked
<1>10. BuffersKept'
  <2>1. \A f \in dec'.held : \A x \in DOMAIN f : dec'.buf[x].n = f[x]
    <3> SUFFICES ASSUME NEW f \in dec.held, NEW x \in DOMAIN f PROVE dec'.buf[x].n = f[x]
      BY <1>4, <1>5
    <3>1. x \in dec.output /\ dec.buf[x].n = f[x] BY DEF BuffersInv, HeldApart, BuffersKept
    <3>2. x \in Ids \ {s} BY <1>1, <1>2, <3>1, Fields
    <3> QED BY <1>4, <1>5, <3>1, <3>2
  <2>2. ASSUME NEW x \in dec'.refs \union dec'.toGet
        PROVE  /\ dec'.buf[x] # NoBuffer /\ dec'.buf[x].look = dec'.out
               /\ dec'.buf[x].mbs = <<dec'.out.w, dec'.out.h>>
    <3>1. CASE x = s BY <1>4, <1>5, <3>1
    <3>2. CASE x # s
      <4>1. x \in dec.refs \union dec.toGet BY <1>5, <1>6, <2>2, <3>2
      <4>2. x \in Ids \ {s} BY <1>1, <3>2, <4>1, Fields
      <4>3. /\ dec.buf[x] # NoBuffer /\ dec.buf[x].look = dec.out
            /\ dec.buf[x].mbs = <<dec.out.w, dec.out.h>>
        BY <4>1 DEF BuffersInv, BuffersKept
      <4> QED BY <1>4, <1>5, <4>2, <4>3
    <3> QED BY <3>1, <3>2
  <2>3. Counted(dec') BY <1>4, <1>5 DEF Counted, Allocated
  <2>4. dec'.open /\ (dec'.pps = "ids" => dec'.ids)
    BY <1>4, <1>5 DEF BuffersInv, BuffersKept
  <2> QED BY <2>1, <2>2, <2>3, <2>4 DEF BuffersKept, Counted, Allocated
<1> QED BY <1>7, <1>8, <1>9, <1>10 DEF BuffersInv

(* get_frame: the buffers go with the frame.                               *)
LEMMA ReceiveKeeps ==
  ASSUME BuffersInv, dec.open, NEW S \in SUBSET dec.toGet, Receive(S)
  PROVE  BuffersInv'
<1>1. /\ dec \in Decoder /\ AllGood(dec.sps, dec.ssps, dec.out) BY InvFacts
<1> DEFINE f == [s \in S |-> dec.buf[s].n]  held == dec.held \union {f}  get == dec.toGet \ S
<1>2. S \subseteq dec.toGet \intersect dec.output
      /\ dec' = [dec EXCEPT !.toGet = get, !.held = held]
  BY <1>1 DEF Receive, Decoder
<1>3. DOMAIN f = S /\ \A s \in S : f[s] = dec.buf[s].n OBVIOUS
<1>4. f \in HeldFrames
  <2>1. S \in SUBSET Ids BY <1>1, Fields
  <2>2. \A s \in S : dec.buf[s].n \in 0 .. MaxTaken
    <3> SUFFICES ASSUME NEW s \in S PROVE dec.buf[s].n \in 0 .. MaxTaken OBVIOUS
    <3> DEFINE b == dec.buf[s]
    <3>1. b \in Buffers \/ b = NoBuffer BY <1>1, <2>1, Fields
    <3> HIDE DEF b
    <3>2. b.n \in 0 .. MaxTaken BY <3>1 DEF Buffers, NoBuffer
    <3> QED BY <3>2 DEF b
  <2>3. f \in [S -> 0 .. MaxTaken] BY <2>2
  <2> HIDE DEF f
  <2> QED BY <2>1, <2>3 DEF HeldFrames
<1> HIDE DEF f
<1>5. held \subseteq HeldFrames /\ get \subseteq Ids BY <1>1, <1>4, Fields
<1>6. get \subseteq dec.toGet /\ get \intersect S = {} OBVIOUS
<1>7. \A g \in held : g \in dec.held \/ g = f OBVIOUS
<1> HIDE DEF held, get
<1>8. /\ dec' \in Decoder /\ dec'.toGet = get /\ dec'.held = held
      /\ dec'.sps = dec.sps /\ dec'.ssps = dec.ssps /\ dec'.pps = dec.pps
      /\ dec'.output = dec.output /\ dec'.open = dec.open /\ dec'.ids = dec.ids
      /\ dec'.out = dec.out /\ dec'.stale = dec.stale /\ dec'.buf = dec.buf
      /\ dec'.taken = dec.taken /\ dec'.given = dec.given /\ dec'.refs = dec.refs
  BY <1>1, <1>2, <1>5 DEF Decoder
<1>9. SetsInv' BY <1>1, <1>8, AgreeWhenGoodAfter
<1>10. HeldApart'
  <2>1. \A g \in dec.held : DOMAIN g \subseteq dec.output \ dec.toGet
    BY DEF BuffersInv, HeldApart
  <2>2. \A g \in held : DOMAIN g \subseteq dec'.output \ dec'.toGet
    BY <1>2, <1>3, <1>6, <1>7, <1>8, <2>1
  <2>3. \A g, h \in dec.held : g # h => DOMAIN g \intersect DOMAIN h = {}
    BY DEF BuffersInv, HeldApart
  <2>4. \A g \in dec.held : DOMAIN g \intersect DOMAIN f = {} BY <1>2, <1>3, <2>1
  <2>5. \A g, h \in held : g # h => DOMAIN g \intersect DOMAIN h = {} BY <1>7, <2>3, <2>4
  <2> QED BY <1>8, <2>2, <2>5 DEF HeldApart
<1>11. StaleMarked' BY <1>6, <1>8 DEF BuffersInv, StaleMarked
<1>12. BuffersKept'
  <2>1. \A g \in held : \A s \in DOMAIN g : dec'.buf[s].n = g[s]
    <3>1. \A g \in dec.held : \A s \in DOMAIN g : dec.buf[s].n = g[s]
      BY DEF BuffersInv, BuffersKept
    <3> QED BY <1>3, <1>7, <1>8, <3>1
  <2> QED BY <1>6, <1>8, <2>1 DEF BuffersInv, BuffersKept
<1> QED BY <1>9, <1>10, <1>11, <1>12 DEF BuffersInv

(* return_frame: what was kept for the caller alone is freed.              *)
LEMMA ReleaseKeeps ==
  ASSUME BuffersInv, dec.open, NEW f \in dec.held, Release(f)
  PROVE  BuffersInv'
<1>1. /\ dec \in Decoder /\ AllGood(dec.sps, dec.ssps, dec.out) /\ Counted(dec) BY InvFacts
<1> DEFINE S == DOMAIN f  output == dec.output \ S  stale == dec.stale \ S
           x == [dec EXCEPT !.output = output, !.stale = stale]
           T == dec.stale \intersect S
           e == Freed(x, T)
           held == dec.held \ {f}
<1>2. dec' = [e EXCEPT !.held = held]
  <2>1. dec' = [Returned(dec, S) EXCEPT !.held = @ \ {f}] BY DEF Release
  <2>2. Returned(dec, S) = e BY <1>1 DEF Returned, Decoder
  <2>3. e.held = dec.held BY DEF Freed
  <2> HIDE DEF e
  <2> QED BY <2>1, <2>2, <2>3
<1>3. output \subseteq Ids /\ stale \subseteq Ids /\ held \subseteq HeldFrames /\ T \in SUBSET Ids
  BY <1>1, Fields
<1>4. /\ \A s \in output : s \in dec.output /\ s \notin S
      /\ \A s \in stale : s \in dec.stale /\ s \notin S
      /\ \A s \in dec.output : s \in S \/ s \in output
      /\ \A s \in dec.stale : s \in S \/ s \in stale
      /\ \A s : s \in T <=> s \in dec.stale /\ s \in S
      /\ \A g \in held : g \in dec.held /\ g # f
  OBVIOUS
<1> HIDE DEF output, stale, T, held
<1>5. /\ x \in Decoder /\ x.output = output /\ x.stale = stale
      /\ x.sps = dec.sps /\ x.ssps = dec.ssps /\ x.pps = dec.pps /\ x.refs = dec.refs
      /\ x.toGet = dec.toGet /\ x.open = dec.open /\ x.ids = dec.ids /\ x.out = dec.out
      /\ x.held = dec.held /\ x.buf = dec.buf /\ x.taken = dec.taken /\ x.given = dec.given
  BY <1>1, <1>3 DEF Decoder
<1> HIDE DEF x
<1>6. Counted(x) BY <1>1, <1>5 DEF Counted, Allocated
<1>7. Counted(e) BY <1>3, <1>5, <1>6, FreedCounts
<1>8. /\ e \in Decoder
      /\ e.buf = [s \in Ids |-> IF s \in T THEN NoBuffer ELSE x.buf[s]]
      /\ e.sps = x.sps /\ e.ssps = x.ssps /\ e.pps = x.pps /\ e.output = x.output
      /\ e.toGet = x.toGet /\ e.refs = x.refs /\ e.open = x.open /\ e.ids = x.ids
      /\ e.out = x.out /\ e.stale = x.stale /\ e.held = x.held /\ e.taken = x.taken
  BY <1>3, <1>5, FreedFields
<1> HIDE DEF e
<1>9. /\ dec' \in Decoder /\ dec'.held = held
      /\ dec'.sps = e.sps /\ dec'.ssps = e.ssps /\ dec'.pps = e.pps
      /\ dec'.output = e.output /\ dec'.open = e.open /\ dec'.ids = e.ids /\ dec'.out = e.out
      /\ dec'.stale = e.stale /\ dec'.toGet = e.toGet /\ dec'.buf = e.buf
      /\ dec'.taken = e.taken /\ dec'.given = e.given /\ dec'.refs = e.refs
  BY <1>2, <1>3, <1>8 DEF Decoder
<1>10. SetsInv' BY <1>1, <1>5, <1>8, <1>9, AgreeWhenGoodAfter
<1>11. /\ dec'.output = output /\ dec'.stale = stale /\ dec'.toGet = dec.toGet
       /\ dec'.refs = dec.refs /\ dec'.open = dec.open /\ dec'.out = dec.out
       /\ dec'.pps = dec.pps /\ dec'.ids = dec.ids
       /\ \A s \in Ids : dec'.buf[s] = IF s \in T THEN NoBuffer ELSE dec.buf[s]
  BY <1>5, <1>8, <1>9
<1>12. \A g \in held : DOMAIN g \intersect S = {} /\ DOMAIN g \subseteq dec.output \ dec.toGet
  BY <1>4 DEF BuffersInv, HeldApart
<1> HIDE DEF S
<1>13. HeldApart'
  <2>1. \A g, h \in held : g # h => DOMAIN g \intersect DOMAIN h = {}
    BY <1>4 DEF BuffersInv, HeldApart
  <2>2. \A g \in held : DOMAIN g \subseteq output \ dec.toGet BY <1>4, <1>12
  <2> QED BY <1>9, <1>11, <2>1, <2>2 DEF HeldApart
<1>14. dec.stale \subseteq dec.output \ (dec.toGet \union dec.refs)
  BY DEF BuffersInv, StaleMarked
<1>15. StaleMarked'
  <2>1. dec'.stale \subseteq dec'.output \ (dec'.toGet \union dec'.refs)
    BY <1>4, <1>11, <1>14
  <2>2. ASSUME NEW s \in Ids \ dec'.stale, dec'.buf[s] # NoBuffer
        PROVE  dec'.buf[s].look = dec'.out /\ dec'.buf[s].mbs = <<dec'.out.w, dec'.out.h>>
    <3>1. s \in Ids \ dec.stale /\ dec'.buf[s] = dec.buf[s] BY <1>4, <1>11, <2>2
    <3> QED BY <1>11, <2>2, <3>1 DEF BuffersInv, StaleMarked
  <2> QED BY <2>1, <2>2 DEF StaleMarked
<1>16. BuffersKept'
  <2>1. ASSUME NEW g \in dec'.held, NEW s \in DOMAIN g PROVE dec'.buf[s].n = g[s]
    <3>1. g \in dec.held /\ s \in dec.output /\ s \notin S BY <1>4, <1>9, <1>12, <2>1
    <3>2. s \in Ids /\ s \notin T BY <1>1, <1>4, <3>1, Fields
    <3>3. dec.buf[s].n = g[s] BY <2>1, <3>1 DEF BuffersInv, BuffersKept
    <3> QED BY <1>11, <3>2, <3>3
  <2>2. ASSUME NEW s \in dec'.refs \union dec'.toGet
        PROVE  /\ dec'.buf[s] # NoBuffer /\ dec'.buf[s].look = dec'.out
               /\ dec'.buf[s].mbs = <<dec'.out.w, dec'.out.h>>
    <3>1. s \in dec.refs \union dec.toGet /\ s \notin T BY <1>4, <1>11, <1>14, <2>2
    <3>2. s \in Ids BY <1>1, <3>1, Fields
    <3>3. /\ dec.buf[s] # NoBuffer /\ dec.buf[s].look = dec.out
          /\ dec.buf[s].mbs = <<dec.out.w, dec.out.h>>
      BY <3>1 DEF BuffersInv, BuffersKept
    <3> QED BY <1>11, <3>1, <3>2, <3>3
  <2>3. Counted(dec') BY <1>7, <1>9 DEF Counted, Allocated
  <2>4. dec'.open /\ (dec'.pps = "ids" => dec'.ids) BY <1>11 DEF BuffersInv, BuffersKept
  <2> QED BY <2>1, <2>2, <2>3, <2>4 DEF BuffersKept, Counted, Allocated
<1> QED BY <1>10, <1>13, <1>15, <1>16 DEF BuffersInv

(* free_decoder: every buffer is freed.                                    *)
LEMMA CloseKeeps ==
  ASSUME BuffersInv, dec.open, Close
  PROVE  BuffersInv'
<1>1. /\ dec \in Decoder /\ AllGood(dec.sps, dec.ssps, dec.out) /\ Counted(dec) BY InvFacts
<1> DEFINE e == Freed(dec, Ids)
<1>2. Counted(e) BY <1>1, FreedCounts
<1>3. /\ e \in Decoder
      /\ e.buf = [s \in Ids |-> IF s \in Ids THEN NoBuffer ELSE dec.buf[s]]
      /\ e.sps = dec.sps /\ e.ssps = dec.ssps /\ e.pps = dec.pps /\ e.output = dec.output
      /\ e.toGet = dec.toGet /\ e.refs = dec.refs /\ e.open = dec.open /\ e.ids = dec.ids
      /\ e.out = dec.out /\ e.stale = dec.stale /\ e.held = dec.held /\ e.taken = dec.taken
  <2>1. Ids \in SUBSET Ids OBVIOUS
  <2> QED BY <1>1, <2>1, FreedFields
<1>4. dec' = [e EXCEPT !.open = FALSE, !.ids = FALSE, !.held = {}] BY DEF Close
<1> HIDE DEF e
<1>5. /\ dec' \in Decoder /\ dec'.held = {} /\ dec'.open = FALSE
      /\ dec'.sps = e.sps /\ dec'.ssps = e.ssps /\ dec'.out = e.out
      /\ dec'.stale = e.stale /\ dec'.toGet = e.toGet /\ dec'.output = e.output
      /\ dec'.buf = e.buf /\ dec'.taken = e.taken /\ dec'.given = e.given /\ dec'.refs = e.refs
  BY <1>3, <1>4 DEF Decoder
<1>6. SetsInv' BY <1>1, <1>3, <1>5, AgreeWhenGoodAfter
<1>7. HeldApart' BY <1>5 DEF HeldApart
<1>8. StaleMarked' BY <1>3, <1>5 DEF BuffersInv, StaleMarked
<1>9. BuffersKept'
  <2>1. Counted(dec') BY <1>2, <1>5 DEF Counted, Allocated
  <2>2. Allocated(dec') = {} BY <1>3, <1>5 DEF Allocated
  <2>3. dec'.given \in Nat BY <1>5, Fields
  <2>4. Cardinality(Allocated(dec')) = 0 BY <2>2, FS_EmptySet
  <2>5. dec'.taken = dec'.given BY <2>1, <2>3, <2>4 DEF Counted
  <2> QED BY <1>5, <2>1, <2>5 DEF BuffersKept, Counted, Allocated
<1> QED BY <1>6, <1>7, <1>8, <1>9 DEF BuffersInv

-----------------------------------------------------------------------------
(* After any NAL and any call, the sets in use agree, frames with the      *)
(* caller share no slot, and a buffer of a former format is that of one of *)
(* them and marked in stale_frames (parse_seq_parameter_set, return_frame).*)
THEOREM BuffersInvariant == SetsSpec => []BuffersInv
<1>1. SetsInit => BuffersInv
  <2> SUFFICES ASSUME SetsInit PROVE BuffersInv OBVIOUS
  <2>1. /\ dec.open = TRUE /\ dec.sps = NoSet /\ dec.ssps = NoSet /\ dec.pps = "none"
        /\ dec.ids = FALSE /\ dec.out = NoLook /\ dec.buf = [s \in Ids |-> NoBuffer]
        /\ dec.toGet = {} /\ dec.output = {} /\ dec.stale = {} /\ dec.refs = {}
        /\ dec.held = {} /\ dec.taken = 0 /\ dec.given = 0
    BY DEF SetsInit, EmptyDecoder
  <2>2. dec \in Decoder BY DEF SetsInit, EmptyDecoder, Decoder
  <2>3. SetsInv BY <2>1, <2>2 DEF SetsInv, SetsAgree
  <2>4. HeldApart /\ StaleMarked BY <2>1 DEF HeldApart, StaleMarked
  <2>5. BuffersKept
    <3>1. {s \in Ids : dec.buf[s] # NoBuffer} = {} BY <2>1
    <3>2. Cardinality({s \in Ids : dec.buf[s] # NoBuffer}) = 0 BY <3>1, FS_EmptySet
    <3> QED BY <2>1, <3>2 DEF BuffersKept
  <2> QED BY <2>3, <2>4, <2>5 DEF BuffersInv
<1>2. BuffersInv /\ [SetsStep]_dec => BuffersInv'
  <2> SUFFICES ASSUME BuffersInv, [SetsStep]_dec PROVE BuffersInv' OBVIOUS
  <2>1. CASE SetsStep
    <3>1. dec.open BY <2>1 DEF SetsStep
    <3> QED BY <2>1, <3>1, ParsedSet, CallsKeep, StartKeeps, ReceiveKeeps, ReleaseKeeps, CloseKeeps,
               Zenon DEF SetsStep
  <2>2. CASE UNCHANGED dec
    BY <2>2 DEF BuffersInv, SetsInv, SetsAgree, HeldApart, StaleMarked, BuffersKept
  <2> QED BY <2>1, <2>2
<1> QED BY <1>1, <1>2, PTL DEF SetsSpec

(* Sets stay in agreement with each other and with the buffers, whichever  *)
(* comes first, comes again or is refused (parse_seq_parameter_set).       *)
THEOREM SetsStayInAgreement == SetsSpec => []SetsAgree
<1>1. BuffersInv => SetsAgree BY DEF BuffersInv, SetsInv
<1> QED BY <1>1, BuffersInvariant, PTL

(* Buffers outlive a change of format while the caller has their frame,    *)
(* and each is given back once (alloc_frame, return_frame, free_decoder).  *)
THEOREM BuffersStayKept == SetsSpec => []BuffersKept
<1>1. BuffersInv => BuffersKept BY DEF BuffersInv
<1> QED BY <1>1, BuffersInvariant, PTL
=============================================================================
