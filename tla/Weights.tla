------------------------------ MODULE Weights ------------------------------
(***************************************************************************)
(* The scaling matrices that a slice is decoded with, from the lists its   *)
(* two parameter sets carry, and the weights of its predictions: explicit  *)
(* ones, implicit ones and the scale of temporal direct prediction, with   *)
(* the tables an MBAFF slice changes between frame and field macroblocks.  *)
(* A list is a name; "zero" is one that was not sent.                      *)
(***************************************************************************)
EXTENDS Integers, FiniteSets, Sequences, SequencesExt

(* parse_scaling_lists, the values of one list of n, out of the deltas     *)
(* read one by one: the list, whether it is the default instead, and how   *)
(* many deltas were read.                                                  *)
ReadList(deltas, n) ==
  LET first == (8 + deltas[1]) % 256
      step(x, j) ==
        LET more == j < n /\ x.next # 0
        IN [list |-> Append(x.list, IF x.next # 0 THEN x.next ELSE x.kept),
            kept |-> IF more THEN x.next ELSE x.kept,
            next |-> IF more THEN (x.next + deltas[x.read + 1]) % 256 ELSE x.next,
            read |-> IF more THEN x.read + 1 ELSE x.read]
      start == [list |-> <<>>, kept |-> 0, next |-> first, read |-> 1]
      all == FoldLeft(step, start, [j \in 1 .. n |-> j])
  IN IF first = 0 THEN [default |-> TRUE, list |-> <<>>, read |-> 1]
     ELSE [default |-> FALSE, list |-> all.list, read |-> all.read]

(* parse_scaling_lists: lists 0 to 5 of 4x4 blocks, each that is absent as *)
(* the one before; and the two lists of 8x8 blocks of 4:2:0 and 4:2:2.     *)
Default4x4(i) == IF i < 3 THEN "Default_4x4_Intra" ELSE "Default_4x4_Inter"
Default8x8(i) == IF i = 0 THEN "Default_8x8_Intra" ELSE "Default_8x8_Inter"
Lists4x4(w, coded) ==
  LET step(x, i) ==
        LET before == IF i \in {0, 3} THEN w[i] ELSE x[i - 1]
        IN [x EXCEPT ![i] = CASE coded[i] = "absent" -> before
                              [] coded[i] = "default" -> Default4x4(i)
                              [] OTHER -> coded[i]]
  IN FoldLeft(step, w, <<0, 1, 2, 3, 4, 5>>)
Lists8x8(w, coded) ==
  [i \in {0, 1} |-> CASE coded[i] = "absent" -> w[i]
                      [] coded[i] = "default" -> Default8x8(i)
                      [] OTHER -> coded[i]]
AllOf(S, name) == [i \in S |-> name]
SpsLists(s) ==
  IF ~s.matrix THEN [four |-> AllOf(0 .. 5, "flat"), eight |-> AllOf({0, 1}, "flat")]
  ELSE [four |-> Lists4x4([i \in 0 .. 5 |-> IF i \in {0, 3} THEN Default4x4(i) ELSE "flat"], s.four),
        eight |-> Lists8x8([i \in {0, 1} |-> Default8x8(i)], s.eight)]
PpsLists(p) ==
  [four |-> Lists4x4(AllOf(0 .. 5, "zero"), p.four),
   eight |-> IF p.transform8x8 THEN Lists8x8(AllOf({0, 1}, "zero"), p.eight)
             ELSE AllOf({0, 1}, "zero")]

(* initialize_task: a list the picture set did not bring is of the         *)
(* sequence set if that has a matrix, else the default.                    *)
FallBack(s) ==
  IF s.matrix THEN SpsLists(s)
  ELSE [four |-> [i \in 0 .. 5 |-> Default4x4(i)], eight |-> [i \in {0, 1} |-> Default8x8(i)]]
TaskLists(s, p) ==
  LET own == PpsLists(p)
      back == FallBack(s)
  IN IF ~p.matrix THEN SpsLists(s)
     ELSE [four |-> [i \in 0 .. 5 |-> IF own.four[i] # "zero" THEN own.four[i]
                                      ELSE back.four[IF i < 3 THEN 0 ELSE 3]],
           eight |-> [i \in {0, 1} |-> IF own.eight[i] # "zero" THEN own.eight[i] ELSE back.eight[i]]]
---------------------------------------------------------------------------
(* initialize_task and initialize_context: the weight of the second        *)
(* reference and DistScaleFactor, with tb and td clipped to 8 bits only    *)
(* after they are subtracted.  A picture p has the distance diff[p] from   *)
(* the current one.                                                        *)
Clip8(x) == CASE x < -128 -> -128 [] x > 127 -> 127 [] OTHER -> x
AbsOf(x) == IF x < 0 THEN -x ELSE x
ScaleOf(tb, td) ==
  LET tx == (IF td < 0 THEN -1 ELSE 1) * ((16384 + (AbsOf(td) \div 2)) \div AbsOf(td))
      s == (tb * tx + 32) \div 64
  IN CASE s < -1024 -> -1024 [] s > 1023 -> 1023 [] OTHER -> s
Weighed(diff, long, pic0, pic1) ==
  LET td == Clip8(diff[pic0] - diff[pic1])
      scaled == td # 0 /\ pic0 \notin long
      scale == IF scaled THEN ScaleOf(Clip8(diff[pic0]), td) ELSE 256
  IN [scale |-> scale,
      weight |-> IF scaled /\ pic1 \notin long /\ scale \in -256 .. 515 THEN scale \div 4 ELSE 32]
(* implicit_weights, DistScaleFactor and MapPicToList0 for two lists       *)
Tables(diff, long, l0, l1) ==
  [weights |-> [i \in DOMAIN l0 |-> [j \in DOMAIN l1 |-> Weighed(diff, long, l0[i], l1[j]).weight]],
   scale |-> [i \in DOMAIN l0 |-> Weighed(diff, long, l0[i], l1[1]).scale],
   map |-> [p \in ToSet(l0) |->
             CHOOSE i \in DOMAIN l0 : l0[i] = p /\ \A j \in 1 .. i - 1 : l0[j] # p]]

(* A picture is a pair of its frame and what it is of it: 0 the frame,     *)
(* 1 and 2 its fields (FIELD_ID).  t.poc has the order counts of the       *)
(* fields of every frame, and of the current picture as frame 0.           *)
CountOf(t, p) ==
  CASE p[2] = 1 -> t.poc[p[1]][1]
    [] p[2] = 2 -> t.poc[p[1]][2]
    [] OTHER -> IF t.poc[p[1]][1] < t.poc[p[1]][2] THEN t.poc[p[1]][1] ELSE t.poc[p[1]][2]
Diffs(t, cur, pics) == [p \in pics |-> CountOf(t, cur) - CountOf(t, p)]
AsPics(l, k) == [i \in DOMAIN l |-> <<l[i], k>>]
LongPics(t, pics) == {p \in pics : p[1] \in t.long}
FrameTables(t) ==
  LET pics == ToSet(AsPics(t.l0 \o t.l1, 0))
  IN Tables(Diffs(t, <<0, 0>>, pics), LongPics(t, pics), AsPics(t.l0, 0), AsPics(t.l1, 0))

(* initialize_mbaff: the lists of the fields of macroblocks of parity p,   *)
(* in turn that of the parity and the other one, and their tables.         *)
FieldList(l, p) ==
  [i \in 1 .. 2 * Len(l) |-> <<l[(i + 1) \div 2], IF i % 2 = 1 THEN p ELSE 3 - p>>]
FieldTables(t, p) ==
  LET l0 == FieldList(t.l0, p)
      l1 == FieldList(t.l1, p)
      pics == ToSet(l0 \o l1)
  IN Tables(Diffs(t, <<0, p>>, pics), LongPics(t, pics), l0, l1)
(* parse_pred_weight_table brings an entry for every reference of a frame; *)
(* a field macroblock takes that of the frame.                             *)
ExplicitWeights(l) == [i \in DOMAIN l |-> i]
FieldExplicit(l) == [i \in 1 .. 2 * Len(l) |-> ExplicitWeights(l)[(i + 1) \div 2]]

(* mbaff_state: the tables in use, those of frames (0) or of a field of    *)
(* parity l, changed only for a macroblock of another kind.                *)
TablesOf(t, l) == IF l = 0 THEN FrameTables(t) ELSE FieldTables(t, l)
ExplicitOf(t, l) == IF l = 0 THEN ExplicitWeights(t.l0) ELSE FieldExplicit(t.l0)
(* Fault: only when frame macroblocks follow field ones or the reverse.    *)
Switches_Kinds(x, l) == (x.kind = 0) # (l = 0)
Switches(x, l) == x.kind # l
mbaff_state(t, x, l) ==
  [kind |-> l,
   implicit |-> IF Switches(x, l) THEN TablesOf(t, l) ELSE x.implicit,
   explicit |-> IF (l = 0) # (x.kind = 0) THEN ExplicitOf(t, l) ELSE x.explicit]
StartTables(t) == [kind |-> 0, implicit |-> FrameTables(t), explicit |-> ExplicitWeights(t.l0)]
---------------------------------------------------------------------------
(* The list of 7.3.2.1.1.1                                                 *)
StandardList(deltas, n) ==
  LET step(x, j) ==
        LET next == IF x.next = 0 THEN 0 ELSE (x.last + deltas[x.read + 1] + 256) % 256
            value == IF next = 0 THEN x.last ELSE next
        IN [list |-> Append(x.list, value), last |-> value, next |-> next,
            default |-> x.default \/ (j = 1 /\ next = 0),
            read |-> IF x.next = 0 THEN x.read ELSE x.read + 1]
      start == [list |-> <<>>, last |-> 8, next |-> 8, default |-> FALSE, read |-> 0]
  IN FoldLeft(step, start, [j \in 1 .. n |-> j])
ListAsIn(deltas, n) ==
  LET got == ReadList(deltas, n)
      std == StandardList(deltas, n)
  IN got.default = std.default /\ got.read = std.read /\ (~got.default => got.list = std.list)

(* Table 7-2: rule A falls back to the defaults, rule B to the lists of    *)
(* the sequence parameter set.                                             *)
ByRule(coded, i, first) ==
  LET from == IF i < 3 THEN 0 ELSE 3
      sent == {j \in from .. i : coded[j] # "absent"}
      last == CHOOSE j \in sent : \A k \in sent : k <= j
  IN IF sent = {} THEN first
     ELSE IF coded[last] = "default" THEN Default4x4(last) ELSE coded[last]
ByRule8(coded, i, first) ==
  CASE coded[i] = "absent" -> first [] coded[i] = "default" -> Default8x8(i) [] OTHER -> coded[i]
StandardSps4(s, i) == IF s.matrix THEN ByRule(s.four, i, Default4x4(i)) ELSE "flat"
StandardSps8(s, i) == IF s.matrix THEN ByRule8(s.eight, i, Default8x8(i)) ELSE "flat"
MatricesAsIn(s, p) ==
  LET got == TaskLists(s, p)
      first4(i) == IF s.matrix THEN StandardSps4(s, IF i < 3 THEN 0 ELSE 3) ELSE Default4x4(i)
      first8(i) == IF s.matrix THEN StandardSps8(s, i) ELSE Default8x8(i)
  IN /\ \A i \in 0 .. 5 :
          got.four[i] = IF p.matrix THEN ByRule(p.four, i, first4(i)) ELSE StandardSps4(s, i)
     /\ p.transform8x8 => \A i \in {0, 1} :
          got.eight[i] = IF p.matrix THEN ByRule8(p.eight, i, first8(i)) ELSE StandardSps8(s, i)

(* 8.4.1.2.3 and 8.4.2.3: the references of a field macroblock are fields, *)
(* 2 * i of its own parity and 2 * i + 1 of the other, of frame i of the   *)
(* list; the distances are from the field of its parity of the current     *)
(* picture, or from the frame.                                             *)
StandardRef(l, i, kind) ==
  IF kind = 0 THEN <<l[i], 0>>
  ELSE <<l[((i - 1) \div 2) + 1], IF (i - 1) % 2 = 0 THEN kind ELSE 3 - kind>>
StandardWeight(t, p0, p1, kind) ==
  LET count == CountOf(t, <<0, kind>>)
      tb == Clip8(count - CountOf(t, p0))
      td == Clip8(CountOf(t, p1) - CountOf(t, p0))
      far == p0[1] \in t.long \/ p1[1] \in t.long \/ CountOf(t, p1) = CountOf(t, p0)
  IN IF far \/ ScaleOf(tb, td) \div 4 < -64 \/ ScaleOf(tb, td) \div 4 > 128 THEN 32
     ELSE ScaleOf(tb, td) \div 4
StandardScale(t, p0, p1, kind) ==
  IF p0[1] \in t.long \/ CountOf(t, p1) = CountOf(t, p0) THEN 256
  ELSE ScaleOf(Clip8(CountOf(t, <<0, kind>>) - CountOf(t, p0)),
               Clip8(CountOf(t, p1) - CountOf(t, p0)))
InUseAsIn(t, x) ==
  LET n(l) == IF x.kind = 0 THEN Len(l) ELSE 2 * Len(l)
      ref0(i) == StandardRef(t.l0, i, x.kind)
      ref1(j) == StandardRef(t.l1, j, x.kind)
      u == x.implicit
  IN /\ Len(u.weights) = n(t.l0) /\ Len(x.explicit) = n(t.l0)
     /\ \A i \in 1 .. n(t.l0) :
          /\ \A j \in 1 .. n(t.l1) : u.weights[i][j] = StandardWeight(t, ref0(i), ref1(j), x.kind)
          /\ u.scale[i] = StandardScale(t, ref0(i), ref1(1), x.kind)
          /\ u.map[ref0(i)] <= i /\ ref0(u.map[ref0(i)]) = ref0(i)
          /\ x.explicit[i] = IF x.kind = 0 THEN i ELSE ((i - 1) \div 2) + 1
WeightsAsIn(t, kinds) ==
  \A n \in 0 .. Len(kinds) :
    InUseAsIn(t, FoldLeft(LAMBDA x, l : mbaff_state(t, x, l), StartTables(t), SubSeq(kinds, 1, n)))
=============================================================================
