------------------------------- MODULE MvPred -------------------------------
(***************************************************************************)
(* Motion vector prediction (edge264mvc_mvpred.c and colocated_mbaff): the *)
(* functions for each shape of partition, P_Skip, spatial direct           *)
(* prediction with the blocks it cuts a macroblock into, and the colocated *)
(* blocks of direct prediction between frames and fields.                  *)
(*                                                                         *)
(* A motion vector is one component.  The neighbourhood m of a macroblock  *)
(* has un, the neighbours it has not, and for each neighbouring block the  *)
(* code reads its ref and mv, -1 and 0 if intra or not available:          *)
(*   A, AD, A2    in the macroblock to the left: beside row 0, row 7 and   *)
(*                row 8                                                    *)
(*   B, B2, Br    in the one above: above columns 0, 7 and 8               *)
(*   C, D, own    above right, above left, and the partition before        *)
(***************************************************************************)
EXTENDS Macroblocks

Lowest(a, b) == IF a < b THEN a ELSE b
Highest(a, b) == IF a < b THEN b ELSE a
median16(a, b, c) == Highest(Lowest(a, b), Lowest(Highest(a, b), c))
OnlyA(m, b) == block_unavailability(m.un)[b] = {"B", "C", "D"}    \* unavail4x4[b] == 14
NoC(m) == "C" \in m.un
CorD(m) == IF NoC(m) THEN m.D ELSE m.C

(* By which of the references of A, B and C (bits 0 to 2) are equal: the   *)
(* vector of the only one, otherwise (0xe9) the median.                    *)
ByEquals(eqA, eqB, eqC, a, b, c) ==
  CASE eqA /\ ~eqB /\ ~eqC -> a.mv
    [] ~eqA /\ eqB /\ ~eqC -> b.mv
    [] ~eqA /\ ~eqB /\ eqC -> c.mv
    [] OTHER -> median16(a.mv, b.mv, c.mv)

decode_P_skip(m) ==
  LET zero(b) == b.ref = 0 /\ b.mv = 0
  IN IF zero(m.A) \/ zero(m.B) \/ {"A", "B"} \intersect m.un # {} THEN 0
     ELSE ByEquals(m.A.ref = 0, m.B.ref = 0, CorD(m).ref = 0, m.A, m.B, CorD(m))

(* Fault: the rule for a macroblock that has only A left out.              *)
decode_inter_16x16_NoRule(m, ref) ==
  ByEquals(ref = m.A.ref, ref = m.B.ref, ref = CorD(m).ref, m.A, m.B, CorD(m))
decode_inter_16x16(m, ref) ==
  ByEquals(ref = m.A.ref \/ (NoC(m) /\ OnlyA(m, 0)), ref = m.B.ref, ref = CorD(m).ref,
           m.A, m.B, CorD(m))

decode_inter_8x16_left(m, ref) ==
  LET c == IF "B" \in m.un THEN m.D ELSE m.Br
  IN CASE ref = m.A.ref \/ OnlyA(m, 0) -> m.A.mv
       [] OTHER -> ByEquals(FALSE, ref = m.B.ref, ref = c.ref, m.A, m.B, c)

decode_inter_8x16_right(m, ref) ==
  LET c == IF NoC(m) THEN m.B2 ELSE m.C
  IN CASE ref = c.ref -> c.mv
       [] ref # c.ref /\ ref # m.Br.ref /\ (ref = m.own.ref \/ OnlyA(m, 5)) -> m.own.mv
       [] OTHER -> ByEquals(ref = m.own.ref, ref = m.Br.ref, FALSE, m.own, m.Br, c)

decode_inter_16x8_top(m, ref) ==
  LET eqA == ref = m.A.ref \/ (NoC(m) /\ OnlyA(m, 0))
  IN IF ref = m.B.ref THEN m.B.mv
     ELSE ByEquals(eqA, FALSE, ref = CorD(m).ref, m.A, m.B, CorD(m))

decode_inter_16x8_bottom(m, ref) ==
  IF ref = m.A2.ref THEN m.A2.mv
  ELSE ByEquals(FALSE, ref = m.own.ref, ref = m.AD.ref, m.A2, m.own, m.AD)
---------------------------------------------------------------------------
(* Spatial direct prediction of one list: references compare unsigned, so  *)
(* -1 is the largest; the other list decides whether both are -1, and the  *)
(* vector is 0 if colZeroFlag is set and the reference 0.                  *)
Unsigned(ref) == ref % 256
DirectRefMv(m) ==
  LET least(x, y) == IF Unsigned(x.ref) < Unsigned(y.ref) THEN x ELSE y
      c == CorD(m)
      ab == least(m.A, m.B)
      first == least(ab, c)
      greater == Highest(Unsigned(m.A.ref), Unsigned(m.B.ref))
      twice == ab.ref = c.ref \/ Unsigned(first.ref) = greater
  IN [ref |-> first.ref, mv |-> IF twice THEN median16(m.A.mv, m.B.mv, c.mv) ELSE first.mv]
decode_direct_spatial(m, otherRef, colZero) ==
  LET p == DirectRefMv(m)
      ref == IF p.ref = -1 /\ otherRef = -1 THEN 0 ELSE p.ref
  IN [ref |-> ref, mv |-> IF colZero /\ ref = 0 THEN 0 ELSE p.mv]

(* The blocks the 4x4 blocks in flags are decoded in, each of one value of *)
(* colZeroFlag: at the first block left, the largest shape within reach    *)
(* that is set and uniform.                                                *)
Shifted(S, i) == {i + b : b \in S}
DirectMasks == << 0 .. 15, 0 .. 7, (0 .. 3) \union (8 .. 11), 0 .. 3, {0, 1, 4, 5}, {0, 1}, {0, 2},
                  {0} >>
Scope(i) ==
  LET s == << 0 .. 15, {0, 2, 8, 10}, {0, 1, 4, 5}, {0}, (0 .. 3) \union (8 .. 11), {0, 2, 8, 10},
              {0, 1}, {0}, 0 .. 7, {0, 2}, {0, 1, 4, 5}, {0}, 0 .. 3, {0, 2}, {0, 1}, {0} >>
  IN s[i + 1]
RECURSIVE DirectCut(_, _)
DirectCut(flags, zero) ==
  IF flags = {} THEN <<>>
  ELSE LET i == CHOOSE b \in flags : \A c \in flags : b <= c
           t == Shifted(Scope(i), i) \intersect flags
           fits(type) == LET S == Shifted(DirectMasks[type], i)
                         IN S \subseteq t /\ (S \subseteq zero \/ S \intersect zero = {})
           type == CHOOSE n \in 1 .. 8 : fits(n) /\ \A l \in 1 .. n - 1 : ~fits(l)
           S == Shifted(DirectMasks[type], i)
       IN <<S>> \o DirectCut(flags \ S, zero)
---------------------------------------------------------------------------
(* Temporal direct prediction: the block of the colocated macroblock that  *)
(* a 4x4 block takes its vector and reference from; and the blocks it is   *)
(* decoded in.  eqs has <<"R", b>> if block b is in one partition of the   *)
(* colocated macroblock with the block right of it, <<"D", b>> with the    *)
(* one below; those of 8x8 blocks that are not direct are left out.        *)
mvCol(b, inference) == IF inference THEN 5 * (b \div 4) ELSE b
NextTo(dir, b) == IF dir = "R" THEN BlockAt(XOf(b) + 1, YOf(b)) ELSE BlockAt(XOf(b), YOf(b) + 1)
InsideMb == ({"R"} \X {b \in 0 .. 15 : XOf(b) < 3}) \union ({"D"} \X {b \in 0 .. 15 : YOf(b) < 3})
In8x8(e) == e[2] \div 4 = NextTo(e[1], e[2]) \div 4
TemporalEqs(part, inference, flags) ==
  LET all == {e \in InsideMb : (inference /\ In8x8(e)) \/ part[e[2]] = part[NextTo(e[1], e[2])]}
      direct == {e \in all : e[2] \in flags /\ NextTo(e[1], e[2]) \in flags}
      split == {e \in direct : In8x8(e) \/ e[2] \in {1, 3}}
  IN IF all = InsideMb /\ flags = 0 .. 11 THEN split ELSE direct
RECURSIVE TemporalCut(_, _)
TemporalCut(flags, eqs) ==
  IF flags = {} THEN <<>>
  ELSE LET i == CHOOSE b \in flags : \A c \in flags : b <= c
           bits == {n \in 0 .. 3 : << <<"R", i>>, <<"D", i>>, <<"R", i + 1>>, <<"D", i + 2>> >>[n + 1] \in eqs}
           type == {n \in bits : (i \div 2 ^ n) % 2 = 0}
           wide == {0, 2} \subseteq type
           high == {1, 3} \subseteq type
           S == Shifted(
                  CASE type = 0 .. 3 -> 0 .. 15
                    [] type # 0 .. 3 /\ wide -> IF 1 \in type THEN 0 .. 7 ELSE {0, 1, 4, 5}
                    [] type # 0 .. 3 /\ high -> IF 0 \in type THEN (0 .. 3) \union (8 .. 11) ELSE {0, 2, 8, 10}
                    [] ~wide /\ ~high -> {0} \union (IF 0 \in type THEN {1} ELSE {})
                         \union (IF 1 \in type THEN {2} ELSE {}) \union (IF {0, 1} \subseteq type THEN {3} ELSE {}), i)
       IN <<S>> \o TemporalCut((flags \ S) \union (S \ flags), eqs)
---------------------------------------------------------------------------
(* The colocated block of 8x8 block k8 of a direct macroblock between      *)
(* frames and fields, as the field or frame macroblock (bot: the field of  *)
(* the picture, or the macroblock of the pair) and the row in it.  c is    *)
(* the current macroblock: mby its row of macroblocks (of pairs if         *)
(* mbaff), field, and bot its parity or position.                          *)
yCol(k8) == IF k8 < 2 THEN 0 ELSE 12
colocated_cross(c, k8, pairField) ==
  CASE c.field = 1 /\ pairField -> [field |-> 1, row |-> c.mby, bot |-> c.bot, y |-> yCol(k8)]
    [] c.field = 1 /\ ~pairField ->
         [field |-> 0, row |-> 2 * c.mby + (k8 \div 2), bot |-> 0, y |-> 8 * (k8 \div 2)]
    [] OTHER -> [field |-> 1, row |-> c.mby \div 2, bot |-> c.closer,
                 y |-> 8 * (c.mby % 2) + 4 * (k8 \div 2)]

(* From a field (fieldCol), or a frame whose pair is coded as fieldX says; *)
(* closer is the field of RefPicList1[0] closer to the current picture.    *)
CloserRow(c, y) == 8 * c.bot + 4 * (y \div 8)
colocated_mbaff(c, k8, fieldCol, fieldX) ==
  LET y == yCol(k8)
      fld(b, yM) == [field |-> 1, row |-> c.mby, bot |-> b, y |-> yM]
      frm(b, yM) == [field |-> 0, row |-> 2 * c.mby + b, bot |-> 0, y |-> yM]
  IN CASE c.field = 1 /\ (fieldCol \/ fieldX = 1) -> fld(c.bot, y)
       [] c.field = 1 /\ ~fieldCol /\ fieldX = 0 -> frm(y \div 8, (2 * y) % 16)
       [] c.field = 0 /\ (fieldCol \/ fieldX = 1) -> fld(c.closer, CloserRow(c, y))
       [] OTHER -> frm(c.bot, y)

(* mbaff_state: the row of the picture of row r of a macroblock.           *)
SampleRow(c, r) == IF c.field = 1 THEN 2 * (16 * c.row + r) + c.bot ELSE 16 * c.row + r
---------------------------------------------------------------------------
(* The prediction of the standard (8.4.1.3): C gives way to D, and B and C *)
(* to A if neither is available; then the directional rules, and the       *)
(* vector of the only neighbour with the same reference or the median.     *)
Shapes == {"16x16", "8x16_left", "8x16_right", "16x8_top", "16x8_bottom"}
StandardMv(m, shape, ref) ==
  LET there(n) == n = "own" \/ (n # "none" /\
        [A |-> "A", A2 |-> "A", AD |-> "A", B |-> "B", B2 |-> "B", Br |-> "B", C |-> "C",
         D |-> "D", own |-> "own", none |-> "none"][n] \notin m.un)
      at == CASE shape = "16x16" -> <<"A", "B", "C", "D">>
              [] shape = "8x16_left" -> <<"A", "B", "Br", "D">>
              [] shape = "8x16_right" -> <<"own", "Br", "C", "B2">>
              [] shape = "16x8_top" -> <<"A", "B", "C", "D">>
              [] shape = "16x8_bottom" -> <<"A2", "own", "none", "AD">>
      nC == IF there(at[3]) THEN at[3] ELSE at[4]
      onlyA == there(at[1]) /\ ~there(at[2]) /\ ~there(nC)
      a == m[at[1]]
      b == IF onlyA THEN a ELSE m[at[2]]
      c == IF onlyA THEN a ELSE m[nC]
      same == {n \in {1, 2, 3} : <<a, b, c>>[n].ref = ref}
  IN CASE shape \in {"8x16_left", "16x8_bottom"} /\ a.ref = ref -> a.mv
       [] shape = "8x16_right" /\ c.ref = ref -> c.mv
       [] shape = "16x8_top" /\ b.ref = ref -> b.mv
       [] OTHER -> IF Cardinality(same) = 1 THEN <<a, b, c>>[CHOOSE n \in same : TRUE].mv
                   ELSE median16(a.mv, b.mv, c.mv)
StandardSkip(m) ==
  IF \E n \in {"A", "B"} : n \in m.un \/ (m[n].ref = 0 /\ m[n].mv = 0) THEN 0
  ELSE StandardMv(m, "16x16", 0)

PredictedAsIn(m, ref) ==
  /\ decode_inter_16x16(m, ref) = StandardMv(m, "16x16", ref)
  /\ decode_inter_8x16_left(m, ref) = StandardMv(m, "8x16_left", ref)
  /\ decode_inter_8x16_right(m, ref) = StandardMv(m, "8x16_right", ref)
  /\ decode_inter_16x8_top(m, ref) = StandardMv(m, "16x8_top", ref)
  /\ decode_inter_16x8_bottom(m, ref) = StandardMv(m, "16x8_bottom", ref)
  /\ decode_P_skip(m) = StandardSkip(m)

(* Spatial direct of the standard (8.4.1.2.2): the least reference that is *)
(* not negative, with the 16x16 prediction for it; the blocks cut for a    *)
(* set of 8x8 blocks are disjoint, cover it, are rectangles of blocks in   *)
(* the picture, and have one value of colZeroFlag.                         *)
DirectAsIn(m, otherRef, colZero) ==
  LET refs == {r \in {m.A.ref, m.B.ref, CorD(m).ref} : r >= 0}
      p == decode_direct_spatial(m, otherRef, colZero)
  IN IF refs = {} THEN p = [ref |-> IF otherRef = -1 THEN 0 ELSE -1, mv |-> 0]
     ELSE LET r == CHOOSE x \in refs : \A y \in refs : x <= y
          IN p = [ref |-> r, mv |-> IF colZero /\ r = 0 THEN 0 ELSE StandardMv(m, "16x16", r)]
IsRectangle(S) ==
  S = {b \in 0 .. 15 : /\ \E c \in S : XOf(c) <= XOf(b) /\ \E d \in S : XOf(d) >= XOf(b)
                       /\ \E c \in S : YOf(c) <= YOf(b) /\ \E d \in S : YOf(d) >= YOf(b)}
CutAsIn(flags, zero) ==
  LET cut == DirectCut(flags, zero)
  IN /\ UNION {cut[i] : i \in DOMAIN cut} = flags
     /\ \A i, j \in DOMAIN cut : i < j => cut[i] \intersect cut[j] = {}
     /\ \A i \in DOMAIN cut : IsRectangle(cut[i]) /\ (cut[i] \subseteq zero \/ cut[i] \intersect zero = {})

(* The colocated 4x4 block: with direct_8x8_inference_flag the one in the  *)
(* corner of the macroblock.                                               *)
CornerAsIn(b, inference) ==
  IF inference THEN BlockAt(3 * (XOf(b) \div 2), 3 * (YOf(b) \div 2)) ELSE b

(* Temporal direct predicts all direct blocks and no other, in rectangles  *)
(* of which all blocks take the same vector (though some more than once,   *)
(* as between 16x16 and a first 8x8 block that is not direct).             *)
TemporalCutAsIn(part, inference, flags) ==
  LET cut == TemporalCut(flags, TemporalEqs(part, inference, flags))
  IN /\ UNION {cut[i] : i \in DOMAIN cut} = flags
     /\ \A i \in DOMAIN cut : /\ IsRectangle(cut[i])
                              /\ Cardinality({part[CornerAsIn(b, inference)] : b \in cut[i]}) = 1
     /\ \A b \in flags : mvCol(b, inference) = CornerAsIn(b, inference)

(* The colocated block covers rows of the picture among those of the 8x8   *)
(* block it stands for, in the field of its parity if both are of fields.  *)
InsideOf(c, k8, col) ==
  LET cur == [field |-> c.field, bot |-> c.bot,
              row |-> IF c.mbaff /\ c.field = 0 THEN 2 * c.mby + c.bot ELSE c.mby]
      top == SampleRow(cur, 8 * (k8 \div 2))
      last == SampleRow(cur, 8 * (k8 \div 2) + 7)
  IN /\ \A r \in 0 .. 3 : SampleRow(col, col.y + r) \in top - 1 .. last + 1
     /\ c.field = 1 /\ col.field = 1 => col.bot = c.bot
ColocatedAsIn(c) ==
  \A k8 \in 0 .. 3, b \in BOOLEAN, fieldX \in {0, 1} :
    InsideOf(c, k8, IF c.mbaff THEN colocated_mbaff(c, k8, b, fieldX)
                    ELSE colocated_cross(c, k8, b))
=============================================================================
