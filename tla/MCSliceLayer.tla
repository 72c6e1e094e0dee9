--------------------------- MODULE MCSliceLayer ---------------------------
(***************************************************************************)
(* Samples for the slice layer: small pictures cut into slices in many     *)
(* ways, short streams of reference pictures, and the cases of the         *)
(* functions.                                                              *)
(***************************************************************************)
EXTENDS SliceLayer

(* Pictures decoded in rows: two slices cut anywhere, in both orders, of   *)
(* which the first may run on past its bound.                              *)
Sizes == {<<1, 3>>, <<2, 3>>, <<3, 3>>, <<4, 2>>}
Idcs == [1 .. 2 -> 0 .. 2]
Sl(f, b, m, i, g) == [first |-> f, bound |-> b, mbs |-> m, idc |-> i, group |-> g]
Cut(s, c, d, extra) ==
  << Sl(0, c, c + extra, d[1], 0), Sl(c, s[1] * s[2], s[1] * s[2] - c, d[2], 0) >>
RowPictures ==
  UNION {UNION {{[w |-> s[1], h |-> s[2], chroma |-> ch, mbaff |-> FALSE, map |-> <<>>,
                  slices |-> IF swap THEN <<Cut(s, c, d, 0)[2], Cut(s, c, d, 0)[1]>> ELSE Cut(s, c, d, x)] :
                   swap \in BOOLEAN, x \in {0, 1}, d \in Idcs, ch \in {1, 2}} :
                     c \in 1 .. s[1] * s[2] - 1} : s \in Sizes}

(* Pictures of two slice groups, one of them in two slices                 *)
Pps(t, n, f) ==
  [type |-> t, n |-> n, flag |-> f, rate |-> 1, runs |-> <<2, 1>>,
   top_left |-> <<1>>, bottom_right |-> <<5>>, ids |-> <<0, 1, 1, 0, 0>>]
Maps == {FmoMap(Pps(t, 2, f), c, 3, 3) : t \in 0 .. 6, f \in {0, 1}, c \in {2, 5}}
InGroup(m, g) == {a \in DOMAIN m : m[a] = g}
FirstOf(S) == CHOOSE a \in S : \A b \in S : a <= b
Nth(S, n) == CHOOSE a \in S : Cardinality({b \in S : b < a}) = n
TwoGroups == {x \in Maps : Cardinality(InGroup(x, 0)) > 1 /\ InGroup(x, 1) # {}}
FmoPictures ==
  UNION {UNION {{[w |-> 3, h |-> 3, chroma |-> 1, mbaff |-> FALSE, map |-> m,
                  slices |-> <<Sl(FirstOf(InGroup(m, 1)), 9, Cardinality(InGroup(m, 1)), d[1], 1),
                               Sl(FirstOf(InGroup(m, 0)), 9, n, d[2], 0),
                               Sl(Nth(InGroup(m, 0), n), 9, Cardinality(InGroup(m, 0)) - n, d[1], 0)>>] :
                   d \in Idcs} : n \in 1 .. Cardinality(InGroup(m, 0)) - 1} : m \in TwoGroups}

(* MBAFF pictures: pairs of frames and fields, coded and skipped           *)
MSl(f, b, i, t, c, ps) ==
  [first |-> f, bound |-> b, mbs |-> 0, idc |-> i, group |-> 0, type |-> t, cabac |-> c, pairs |-> ps]
CodedPair ==
  [field : {0, 1}, skip : (BOOLEAN \X BOOLEAN) \ {<<TRUE, TRUE>>}]
    \union {[field |-> 0, skip |-> <<TRUE, TRUE>>]}
IPairs(n) == [1 .. n -> [field : {0, 1}, skip : {<<FALSE, FALSE>>}]]
PPairs == {q \in [1 .. 4 -> CodedPair] : q[1].skip = <<FALSE, TRUE>>}
IThenP == {q \in [1 .. 4 -> CodedPair] : q[1].skip = <<FALSE, FALSE>> /\ q[1].field = 0}
MbaffPic(width, sl) == [w |-> width, h |-> 4, chroma |-> 1, mbaff |-> TRUE, map |-> <<>>, slices |-> sl]
MbaffPictures ==
  {MbaffPic(3, <<MSl(0, 2 * c, 0, "I", TRUE, SubSeq(p, 1, c)),
                 MSl(2 * c, 12, 2, "I", TRUE, SubSeq(p, c + 1, 6))>>) : c \in {1, 3, 5}, p \in IPairs(6)}
    \union {MbaffPic(2, <<MSl(0, 8, 0, "P", cb, p)>>) : cb \in BOOLEAN, p \in PPairs}
    \union {MbaffPic(2, <<MSl(0, 2, 0, "I", cb, <<p[1]>>), MSl(2, 8, 1, "P", cb, Tail(p))>>) :
              cb \in BOOLEAN, p \in IThenP}

AllPictures == RowPictures \union FmoPictures \union MbaffPictures
---------------------------------------------------------------------------
(* Neighbourhoods: references 0 and 1, or none, and vectors in three orders *)
Places == {"A", "AD", "A2", "B", "B2", "Br", "C", "D", "own"}
Mvs == {[A |-> 1, AD |-> 4, A2 |-> 7, B |-> 2, B2 |-> 5, Br |-> 8, C |-> 3, D |-> 6, own |-> 9],
        [A |-> 0, AD |-> 4, A2 |-> -2, B |-> -9, B2 |-> 5, Br |-> -1, C |-> 3, D |-> -6, own |-> 0],
        [A |-> 5, AD |-> -4, A2 |-> 3, B |-> 0, B2 |-> 6, Br |-> 1, C |-> -7, D |-> 2, own |-> 4]}
LackOf == [A |-> "A", AD |-> "A", A2 |-> "A", B |-> "B", B2 |-> "B", Br |-> "B", C |-> "C",
           D |-> "D", own |-> "own"]
Neighbourhood(un, r, mvs) ==
  [p \in Places \union {"un"} |->
    IF p = "un" THEN un
    ELSE IF LackOf[p] \in un \/ r[p] = -1 THEN [ref |-> -1, mv |-> 0]
    ELSE [ref |-> r[p], mv |-> mvs[p]]]
RefsOf(r) == [p \in Places |-> r[CASE p \in {"A", "AD"} -> 1 [] p = "A2" -> 2 [] p \in {"B", "B2"} -> 3
                                   [] p = "Br" -> 4 [] p = "C" -> 5 [] p = "D" -> 6 [] p = "own" -> 7]]
MvCase ==
  \E un \in SUBSET Neighbours, r \in [1 .. 7 -> {0, 1}], mvs \in Mvs :
    case = [about |-> "mv", m |-> Neighbourhood(un, RefsOf(r), mvs)]
DirectCase ==
  \E un \in SUBSET Neighbours, r \in [1 .. 4 -> -1 .. 1], mvs \in Mvs, o \in {-1, 0}, z \in BOOLEAN :
    case = [about |-> "direct", m |-> Neighbourhood(un, RefsOf(<<r[1], 0, r[2], 0, r[3], r[4], 0>>), mvs),
            otherRef |-> o, colZero |-> z]
Eight(S) == UNION {4 * b .. 4 * b + 3 : b \in S}
CutCase ==
  \E S \in SUBSET (0 .. 3) \ {{}}, Z \in SUBSET (0 .. 3), q \in {0, 3}, V \in SUBSET (0 .. 3) :
    case = [about |-> "cut", flags |-> Eight(S), zero |-> Eight(Z) \union {4 * q + b : b \in V}]
(* Colocated macroblocks of one or two partitions, of 8x8 blocks cut each  *)
(* in its way, and cut by rows or columns of a direct one.                 *)
Parts(cut) == [b \in 0 .. 15 |-> CHOOSE i \in DOMAIN cut : b \in cut[i]]
Sub(shape, b) == CASE shape = "8x8" -> 0 [] shape = "8x4" -> (b \div 2) % 2 [] shape = "4x8" -> b % 2
                   [] shape = "4x4" -> b % 4
ColocatedParts ==
  {[b \in 0 .. 15 |-> 0], [b \in 0 .. 15 |-> b \div 8], [b \in 0 .. 15 |-> (b \div 4) % 2]}
    \union {[b \in 0 .. 15 |-> 4 * (b \div 4) + Sub(s[b \div 4], b)] :
               s \in [0 .. 3 -> {"8x8", "8x4", "4x8", "4x4"}]}
    \union UNION {{Parts(DirectCut(0 .. 15, {b \in 0 .. 15 : YOf(b) \in V})),
                   Parts(DirectCut(0 .. 15, {b \in 0 .. 15 : XOf(b) \in V}))} : V \in SUBSET (0 .. 3)}
TemporalCase ==
  \E p \in ColocatedParts, i \in BOOLEAN, S \in SUBSET (0 .. 3) \ {{}} :
    case = [about |-> "temporal", part |-> p, inference |-> i, flags |-> Eight(S)]
ColocatedCase ==
  \E b \in BOOLEAN, f \in {0, 1}, o \in {0, 1}, x \in {0, 1}, y \in 0 .. 3 :
    case = [about |-> "colocated", c |-> [mbaff |-> b, field |-> f, bot |-> o, mby |-> y, closer |-> x]]
(* Pairs of blocks with references 1, 2 or none and near and far vectors,  *)
(* P macroblocks with something left in list 1; and every small distance.  *)
BlockOf(l1, ref, mv) == [l1 |-> l1, ref |-> ref, mv |-> mv]
SomeMvs == {<<0, 0>>, <<0, 3>>, <<4, 0>>}
SomeBlocks ==
  {BlockOf(FALSE, <<r, -1>>, <<v, u>>) : r \in {1, 2}, v \in SomeMvs, u \in {<<0, 0>>, <<9, 9>>}}
    \union {BlockOf(TRUE, <<r, -1>>, <<v, <<0, 0>>>>) : r \in {1, 2}, v \in SomeMvs}
    \union {BlockOf(TRUE, <<-1, r>>, <<<<0, 0>>, v>>) : r \in {1, 2}, v \in SomeMvs}
    \union {BlockOf(TRUE, <<r, s>>, <<v, u>>) : r, s \in {1, 2}, v, u \in SomeMvs}
InList(l, v) ==
  IF l = 1 THEN BlockOf(TRUE, <<-1, 1>>, <<<<0, 0>>, v>>) ELSE BlockOf(FALSE, <<1, -1>>, <<v, <<0, 0>>>>)
StrengthCase ==
  \/ \E p, q \in SomeBlocks : case = [about |-> "strength", p |-> p, q |-> q]
  \/ \E x, y \in -4 .. 4, l \in {0, 1} :
       case = [about |-> "strength", p |-> InList(l, <<1, -1>>), q |-> InList(l, <<1 + x, y - 1>>)]
IndexCase ==
  \E bd \in {0, 12, 36} : \E qp, qn \in {0, 1, 12, 13, 26, bd, 50 + bd, 51 + bd} :
    case = [about |-> "index", qp |-> qp, qn |-> qn, bd |-> bd]
FacingCase ==
  \E f, b, kA, kB \in {0, 1}, l, t, t8 \in BOOLEAN, ch \in {1, 2} :
    case = [about |-> "facing", m |-> [field |-> f, bot |-> b, kindA |-> kA, kindB |-> kB, left |-> l,
                                       top |-> t, t8 |-> t8, chroma |-> ch]]
GroupCase ==
  \E t \in 0 .. 6, f \in {0, 1}, c \in {0, 1, 2, 5, 20},
     s \in {<<1, 5>>, <<1, 16>>, <<5, 1>>, <<3, 3>>, <<4, 3>>} :
    case = [about |-> "groups", pps |-> Pps(t, 2, f), cycle |-> c, w |-> s[1], h |-> s[2]]
---------------------------------------------------------------------------
(* Memory management operations, alone and with those of the other field   *)
Op(o, a, i) == [op |-> o, arg |-> a, idx |-> i]
Single ==
  {Op(o, a, 0) : o \in {1}, a \in 0 .. 2} \union {Op(2, a, a) : a \in 0 .. 2}
    \union {Op(3, a, i) : a \in {0, 1}, i \in {0, 1}} \union {Op(o, 0, i) : o \in {4, 6}, i \in {0, 1}}
    \union {Op(5, 0, 0)}
CommandLists ==
  {<<>>} \union {<<o>> : o \in Single}
    \union {<<Op(3, a, 1), Op(3, 5 - a, 1)>> : a \in {2, 3}} \union {<<Op(5, 0, 0), Op(6, 0, 0)>>}

(* Lists: slots 0 to 2 by what they hold, with numbers and order counts in *)
(* the order of perm; a second field is of slot 3.                         *)
Kinds == {"none", "frame", "top", "bottom", "long", "longTop", "gap"}
Perms == {<<1, 2, 3>>, <<2, 3, 1>>}
Marked3(kind, perm, flip, second, p) ==
  LET Slots(S) == {s \in 0 .. 2 : kind[s + 1] \in S}
      own == IF second THEN {3} ELSE {}
      Later(q, s) == CASE kind[s] \in {"top", "longTop"} -> FALSE # flip
                       [] kind[s] = "bottom" -> TRUE # flip
                       [] OTHER -> (q = 1) # flip
      Count(q, s) == IF s = 3 THEN 0 ELSE 10 * perm[s + 1] + (IF Later(q, s + 1) THEN 1 ELSE 0)
  IN [short |-> Slots({"frame", "top", "bottom", "gap"}) \union own,
      long |-> Slots({"long", "longTop", "gap"}),
      sf |-> [q \in Parity |-> Slots({"frame", "gap", IF q = 0 THEN "top" ELSE "bottom"})
                                 \union (IF q # p THEN own ELSE {})],
      lf |-> [q \in Parity |-> Slots({"long", "gap"} \union (IF q = 0 THEN {"longTop"} ELSE {}))],
      num |-> [s \in Slot |-> IF s < 3 THEN perm[s + 1] ELSE 5],
      idx |-> [s \in Slot |-> IF s < 3 THEN perm[s + 1] - 1 ELSE 0],
      poc |-> [q \in Parity |-> [s \in Slot |-> Count(q, s)]]]
ListCase(d, f, b, type0, top, base, active, mods) ==
  [about |-> "lists", d |-> d, cur |-> 3, fields |-> f, num |-> 5, b |-> b, type0 |-> type0, top |-> top,
   base |-> base, active |-> active, mods |-> mods, wrap |-> 8]
OwnParity(f) == CHOOSE q \in f : TRUE
Bases == {None, 6}
PListCase ==
  \E kind \in [1 .. 3 -> Kinds], p \in Perms, f \in {{0, 1}, {0}, {1}}, second \in BOOLEAN,
     b \in Bases :
    /\ second => f # {0, 1} /\ b = None
    /\ case = ListCase(Marked3(kind, p, FALSE, second, OwnParity(f)), f, FALSE, TRUE, 50, b, 4, <<>>)
Fewer == [1 .. 3 -> {"none", "frame", "top", "long", "gap"}]
(* The first field of a frame precedes the second one, of which it is      *)
(* a reference.                                                            *)
WithOwn(d, f, top) ==
  [d EXCEPT !.poc = [q \in Parity |-> [@[q] EXCEPT ![3] = IF q \in f THEN top ELSE top - 1]]]
BListCase ==
  \E kind \in Fewer, p \in Perms, f \in {{0, 1}, {0}, {1}}, top \in {5, 15, 25, 35} :
    \/ \E t \in BOOLEAN, b \in Bases :
         case = ListCase(Marked3(kind, p, f = {1}, FALSE, OwnParity(f)), f, TRUE, t, top, b, 4, <<>>)
    \/ /\ f # {0, 1}
       /\ case = ListCase(WithOwn(Marked3(kind, p, FALSE, TRUE, OwnParity(f)), f, top), f, TRUE, TRUE,
                          top, None, 4, <<>>)
Mod(i, a) == [idc |-> i, arg |-> a]
OneMod == {Mod(i, a) : i \in 0 .. 2, a \in 0 .. 4} \union {Mod(4, 0)}
(* The frame_num of the picture is past those of its references, or 8 and  *)
(* so wrapped before them.                                                 *)
ModifiedCase ==
  \E kind \in {<<"frame", "frame", "long">>, <<"frame", "long", "frame">>, <<"top", "frame", "long">>,
               <<"frame", "gap", "none">>},
     f \in {{0, 1}, {1}}, n \in 1 .. 4, m \in {<<x>> : x \in OneMod} \union (OneMod \X OneMod) :
    \E num \in {5, 8} :
      case = [ListCase(Marked3(kind, <<2, 3, 1>>, FALSE, FALSE, OwnParity(f)), f, FALSE, TRUE, 50, 6, n, m)
                EXCEPT !.num = num]
---------------------------------------------------------------------------
(* Streams that start with an IDR picture, frame_num modulo 4 and order    *)
(* counts modulo 8                                                         *)
Sps(t, sums, nr, tb) == [type |-> t, max |-> 4, lsbs |-> 8, sums |-> sums, nonRef |-> nr, toBottom |-> tb]
PictureKinds == {"idr", "frame", "nonref", "reset", "gap", "top", "bottom", "resetTop"}
Completes(kinds, i) ==
  \/ kinds[i] = "bottom" /\ kinds[i - 1] \in {"top", "resetTop"}
  \/ kinds[i] = "top" /\ kinds[i - 1] = "bottom"
(* frame_num as an encoder counts it *)
Nums(kinds) ==
  LET step(x, i) ==
        LET second == i > 1 /\ Completes(kinds, i) /\ ~x.second
            n == CASE kinds[i] = "idr" -> 0
                   [] second -> x.ref
                   [] OTHER -> (x.ref + (IF kinds[i] = "gap" THEN 2 ELSE 1)) % 4
        IN [ref |-> CASE kinds[i] \in {"reset", "resetTop"} -> 0
                      [] kinds[i] = "nonref" -> x.ref
                      [] OTHER -> n,
            second |-> second, out |-> Append(x.out, n)]
  IN FoldLeft(step, [ref |-> 0, second |-> FALSE, out |-> <<>>], [i \in DOMAIN kinds |-> i]).out
Stream(kinds, lsbs) ==
  [i \in DOMAIN kinds |->
    [idr |-> kinds[i] = "idr", ref |-> kinds[i] # "nonref", reset |-> kinds[i] \in {"reset", "resetTop"},
     field |-> CASE kinds[i] \in {"top", "resetTop"} -> "top"
                 [] kinds[i] = "bottom" -> "bottom"
                 [] OTHER -> "frame",
     num |-> Nums(kinds)[i], lsb |-> IF kinds[i] = "idr" THEN 0 ELSE lsbs[i],
     delta |-> IF kinds[i] = "frame" THEN <<1, -1>> ELSE <<0, 1>>]]
(* An order count exactly half the range from the one before it *)
Halfway(pics) ==
  \E i, j \in DOMAIN pics :
    /\ j < i /\ pics[j].ref /\ ~pics[i].idr /\ \A n \in j + 1 .. i - 1 : ~pics[n].ref
    /\ (pics[i].lsb - (IF pics[j].reset THEN 0 ELSE pics[j].lsb)) % 8 = 4
AnyLsbs(half) ==
  \E kind \in [1 .. 3 -> PictureKinds], lsb \in [1 .. 3 -> {0, 3, 5, 7}] :
    LET pics == Stream(<<"idr">> \o kind, <<0>> \o lsb)
    IN half = Halfway(pics) /\ case = [about |-> "numbers", sps |-> Sps(0, <<>>, 0, 0), pics |-> pics]
CountedCase ==
  \E s \in {Sps(2, <<>>, 0, 0), Sps(1, <<>>, -2, 1), Sps(1, <<3, 4>>, -2, 1)},
     kind \in [1 .. 4 -> PictureKinds] :
    case = [about |-> "numbers", sps |-> s, pics |-> Stream(<<"idr">> \o kind, <<0, 0, 0, 0, 0>>)]
AgesCase ==
  \E ages \in [1 .. 4 -> 12 .. 20] :
    /\ \A i, j \in 1 .. 4 : ages[i] - ages[j] < 8
    /\ case = [about |-> "ages", ages |-> ages, size |-> 16]
---------------------------------------------------------------------------
(* Scaling lists by how each is coded, those of the chroma blocks alike;   *)
(* the deltas of a list; and lists of references with long-term ones and   *)
(* counts far apart, in macroblocks that turn from frames to fields.       *)
HowCoded == {"absent", "default", "sent"}
Four(c, n) == [i \in 0 .. 5 |-> IF c[(i % 3) + 1] = "sent" THEN <<n, i>> ELSE c[(i % 3) + 1]]
Two8x8(c, n) == [i \in {0, 1} |-> IF c[i + 2] = "sent" THEN <<n, 8 + i>> ELSE c[i + 2]]
MatrixCase ==
  \E cs \in [1 .. 3 -> HowCoded], cp \in [1 .. 3 -> HowCoded], ms, mp, t8 \in BOOLEAN :
    case = [about |-> "matrices",
            s |-> [matrix |-> ms, four |-> Four(cs, "sps"), eight |-> Two8x8(cs, "sps")],
            p |-> [matrix |-> mp, transform8x8 |-> t8, four |-> Four(cp, "pps"), eight |-> Two8x8(cp, "pps")]]
ListValuesCase == \E d \in [1 .. 4 -> {-8, 0, 4, -12, 127}] : case = [about |-> "list", deltas |-> d]
FarCounts == <<<<0, 1>>, <<9, 8>>, <<100, 400>>>>
WeightCase ==
  \E l0 \in {<<1>>, <<1, 2>>, <<2, 1>>, <<2, 2>>, <<3, 1>>}, l1 \in {<<2>>, <<2, 1>>, <<3, 2>>},
     long \in SUBSET {1, 2, 3}, cur \in {<<4, 5>>, <<5, 4>>, <<-200, 200>>},
     kinds \in [1 .. 3 -> 0 .. 2] :
    case = [about |-> "weights", kinds |-> kinds,
            t |-> [l0 |-> l0, l1 |-> l1, long |-> long,
                   poc |-> [f \in 0 .. 3 |-> IF f = 0 THEN cur ELSE FarCounts[f]]]]
---------------------------------------------------------------------------
(* Sequence parameter sets: too many references, none, a level too low,    *)
(* a VUI read past its end, cropped past the picture, monochrome,          *)
(* interlaced, subsets of two and of three views, of the size of the base  *)
(* view and of another one, and some that are not accepted.                *)
Vui(r, b) == [coded |-> TRUE, reorder |-> r, buffering |-> b]
SetNal(type, width, n, level, vui) ==
  [type |-> type, profile |-> IF type = 15 THEN 128 ELSE 100, w |-> width, h |-> 2, chroma |-> 1,
   depth |-> 8, depthC |-> 8, cropX |-> <<0, 0>>, cropY |-> <<0, 0>>, bypass |-> FALSE,
   interlaced |-> FALSE, refs |-> n, level |-> level, intra |-> FALSE, vui |-> vui, end |-> "trailing",
   views |-> IF type = 15 THEN 2 ELSE 1]
AllSets ==
  {SetNal(7, 1, 2, 4, NoVui), SetNal(7, 1, 16, 1, Vui(2, 3)),
   [SetNal(7, 1, 0, 0, Vui(3, 1)) EXCEPT !.end = "far"],
   [SetNal(7, 1, 1, 4, NoVui) EXCEPT !.chroma = 0, !.depthC = 9, !.intra = TRUE],
   [SetNal(7, 2, 1, 1, NoVui) EXCEPT !.interlaced = TRUE, !.cropX = <<3, 40>>, !.cropY = <<40, 1>>],
   [SetNal(15, 1, 1, 2, Vui(1, 1)) EXCEPT !.end = "slack"],
   [SetNal(15, 2, 16, 9, NoVui) EXCEPT !.views = 3, !.depth = 10, !.depthC = 10],
   [SetNal(7, 2, 1, 1, NoVui) EXCEPT !.end = "far"], [SetNal(15, 2, 1, 1, NoVui) EXCEPT !.views = 1],
   [SetNal(7, 2, 1, 1, NoVui) EXCEPT !.bypass = TRUE], [SetNal(7, 2, 1, 1, NoVui) EXCEPT !.depthC = 9],
   SetNal(7, 3, 1, 1, NoVui)}
---------------------------------------------------------------------------
ACase ==
  /\ LoopsRest /\ MarkingRests /\ SetsRest
  /\ \/ MvCase \/ DirectCase \/ CutCase \/ TemporalCase \/ ColocatedCase \/ GroupCase
     \/ StrengthCase \/ IndexCase \/ FacingCase
     \/ PListCase \/ BListCase \/ ModifiedCase
     \/ AnyLsbs(FALSE) \/ CountedCase \/ AgesCase
     \/ MatrixCase \/ ListValuesCase \/ WeightCase
SampleSpec == (PicturesInit \/ MarksInit \/ DecoderInit \/ ACase) /\ [][SliceNext]_SliceVars

(* Streams of which an order count is half of the range from another one   *)
HalfSpec == LoopsRest /\ MarkingRests /\ SetsRest /\ AnyLsbs(TRUE) /\ [][SliceNext]_SliceVars
============================================================================
