------------------------------ MODULE Deblock ------------------------------
(***************************************************************************)
(* The deblocking filter (edge264mvc_deblock.c) up to its samples: how     *)
(* strongly it filters each edge, by deblock_mb in pictures of one kind    *)
(* and by mbaff_bS where frame and field pairs of an MBAFF picture meet,   *)
(* and which samples and blocks face each other there.                     *)
(*                                                                         *)
(* A block has ref, for either list the picture it refers to or -1, mv     *)
(* with the components of its vectors, and l1, whether its macroblock has  *)
(* any reference of list 1: a P macroblock has none, and leaves the        *)
(* vectors of that list as they are.                                       *)
(***************************************************************************)
EXTENDS Macroblocks

Apart(x, y) == IF x < y THEN y - x ELSE x - y
MvFar(a, b, lim) == Apart(a[1], b[1]) >= 4 \/ Apart(a[2], b[2]) >= lim
Limit(field) == IF field = 1 THEN 2 ELSE 4

(* alpha, beta and tC0 are found by the average of QP' of the two          *)
(* macroblocks and the offset of the slice (in halves), less QpBdOffset,   *)
(* in 8 bits.                                                              *)
Signed8(x) == ((x + 128) % 256) - 128
FilterIndex(qp, qn, offset, bd) ==
  LET sum == Signed8(((qp + qn + 1) \div 2) + Signed8(2 * offset - bd))
  IN IF sum < 0 THEN 0 ELSE IF sum > 51 THEN 51 ELSE sum
---------------------------------------------------------------------------
(* bS 0 between two blocks, by differences of references and vectors in    *)
(* parallel and in cross: in P macroblocks, in B macroblocks on edges      *)
(* between 8x8 blocks and inside of them, and in those of one partition,   *)
(* whose edges inside have nothing to compare.                             *)
Masked(b) == IF b.l1 THEN b.mv ELSE <<b.mv[1], <<0, 0>>>>
RefsParallel(p, q) == p.ref # q.ref
RefsCross(p, q) == p.ref[1] # q.ref[2] \/ p.ref[2] # q.ref[1]
MvsParallel(p, q, lim) == \E l \in {1, 2} : MvFar(Masked(p)[l], Masked(q)[l], lim)
MvsCross(p, q, lim) == \E l \in {1, 2} : MvFar(Masked(p)[l], Masked(q)[3 - l], lim)

bS0_P(p, q, lim) == p.ref[1] = q.ref[1] /\ ~MvFar(p.mv[1], q.mv[1], lim)
bS0_aceg(p, q, lim) ==
  LET neq3 == (RefsParallel(p, q) /\ RefsCross(p, q)) \/ (MvsParallel(p, q, lim) /\ MvsCross(p, q, lim))
      neq4 == (RefsParallel(p, q) /\ MvsCross(p, q, lim)) \/ (MvsParallel(p, q, lim) /\ RefsCross(p, q))
  IN ~(neq3 \/ neq4)
bS0_bdfh(p, q, lim) ==
  ~(MvsParallel(p, q, lim) /\ (q.ref[1] # q.ref[2] \/ MvsCross(p, q, lim)))
bS0_16x16(p, q, edge, lim) == edge = "outer" => bS0_aceg(p, q, lim)

(* The path of a macroblock depends on all of its neighbours: third tells  *)
(* whether the neighbour across its other edge refers to list 1.           *)
bS0(p, q, c) ==
  LET lim == Limit(c.field)
  IN CASE ~(p.l1 \/ q.l1 \/ c.third) -> bS0_P(p, q, lim)
       [] (p.l1 \/ q.l1 \/ c.third) /\ c.whole -> bS0_16x16(p, q, c.edge, lim)
       [] OTHER -> IF c.edge = "inner" THEN bS0_bdfh(p, q, lim) ELSE bS0_aceg(p, q, lim)

(* The filter of the edge: the hard one of bS 4 at the edges of intra      *)
(* macroblocks but for the horizontal ones in fields.                      *)
Hard(c) == c.edge = "outer" /\ c.intra /\ (c.vertical \/ c.field = 0)
deblock_mb(p, q, c) ==
  IF Hard(c) THEN 4
  ELSE IF c.intra THEN 3
  ELSE IF c.coef THEN 2
  ELSE IF bS0(p, q, c) THEN 0 ELSE 1
---------------------------------------------------------------------------
(* The same between two samples of an MBAFF picture.                       *)
mbaff_bS(p, q, c) ==
  LET mixed == ~c.samePair /\ c.fieldP # c.fieldQ
      lim == Limit(c.fieldP)
      used(b) == {l \in {1, 2} : b.ref[l] >= 0}
      one(b) == CHOOSE l \in used(b) : TRUE
      far(i, j) == MvFar(p.mv[i], q.mv[j], lim)
      parallel == far(1, 1) \/ far(2, 2)
      cross == far(1, 2) \/ far(2, 1)
      swapped == p.ref[1] = q.ref[2] /\ p.ref[2] = q.ref[1]
      moved ==
        CASE used(p) = {} /\ used(q) = {} -> FALSE
          [] Cardinality(used(p)) # Cardinality(used(q)) -> TRUE
          [] Cardinality(used(p)) = 1 /\ Cardinality(used(q)) = 1 ->
               p.ref[one(p)] # q.ref[one(q)] \/ far(one(p), one(q))
          [] OTHER ->
               IF p.ref # q.ref /\ ~swapped THEN TRUE
               ELSE IF p.ref[1] # p.ref[2] THEN (IF p.ref[1] = q.ref[1] THEN parallel ELSE cross)
               ELSE parallel /\ cross
  IN IF c.intra /\ ~c.sameMb /\ ((c.fieldP = 0 /\ c.fieldQ = 0) \/ c.vertical) THEN 4
     ELSE IF c.intra /\ (~mixed \/ ~c.vertical) THEN 3
     ELSE IF c.coef THEN 2
     ELSE IF mixed \/ moved THEN 1 ELSE 0
---------------------------------------------------------------------------
(* The macroblock and block of a luma sample of an MBAFF picture, whose    *)
(* pairs are of the kinds in kind.                                         *)
mbaff_sample(kind, x, y) ==
  LET pair == <<x \div 16, y \div 32>>
      field == kind[pair] = 1
      row == IF field THEN (y % 32) \div 2 ELSE y % 16
  IN [pair |-> pair, bot |-> IF field THEN y % 2 ELSE (y \div 16) % 2,
      blk |-> BlockAt((x % 16) \div 4, row \div 4)]

(* An edge e of the macroblock of m at (xI, yI), in luma or chroma: the    *)
(* samples q0 and p0 of its plane, and the luma samples that tell the      *)
(* macroblocks and blocks they are of.                                     *)
RowsOfChroma(m) == IF m.chroma = 1 THEN 8 ELSE 16
mbaff_edge(m, e, chroma) ==
  LET subW == IF chroma THEN 2 ELSE 1
      subH == IF chroma /\ m.chroma = 1 THEN 2 ELSE 1
      xP == m.xI \div subW
      yP == (m.yI + subH - 1) \div subH
      nE == IF e.vertical THEN (IF chroma THEN RowsOfChroma(m) ELSE 16) ELSE 16 \div subW
      odd == e.yE % 2
      q(n) == IF e.vertical THEN <<xP + e.xE, yP + e.dy * n>> ELSE <<xP + n, yP + e.dy * e.yE - odd>>
      p(n) == IF e.vertical THEN <<q(n)[1] - 1, q(n)[2]>> ELSE <<q(n)[1], yP + e.dy * (e.yE - 1) - odd>>
      lq(n) == IF chroma THEN <<2 * q(n)[1], IF subH = 2 THEN 4 * (q(n)[2] \div 2) + (q(n)[2] % 2) ELSE q(n)[2]>>
               ELSE q(n)
      lp(n) == IF ~chroma THEN p(n)
               ELSE IF e.vertical THEN <<lq(n)[1] - 1, lq(n)[2]>> ELSE <<lq(n)[1], lq(n)[2] - e.dy>>
      of(s) == mbaff_sample(m.kind, s[1], s[2])
  IN {[q |-> q(n), p |-> p(n), step |-> IF e.vertical THEN 0 ELSE e.dy,
       ofQ |-> of(lq(n)), ofP |-> of(lp(n))] : n \in 0 .. nE - 1}

(* The edges of a macroblock m of pair <<1, 1>>: field and bot, the pairs  *)
(* it filters its left and top edges with, and its transform size.         *)
OnPicture(m) ==
  m @@ [xI |-> 16, yI |-> 32 + (IF m.field = 1 THEN m.bot ELSE 16 * m.bot),
        kind |-> (<<0, 1>> :> m.kindA @@ <<1, 0>> :> m.kindB @@ <<1, 1>> :> m.field)]
fieldA(m) == IF m.left THEN m.kindA ELSE m.field
fieldB(m) == IF m.top /\ (m.field = 1 \/ m.bot = 0) THEN m.kindB ELSE m.field
OfOneKind(m) == fieldA(m) = m.field /\ fieldB(m) = m.field
top_twice(m) == m.top /\ m.field = 0 /\ m.bot = 0 /\ fieldB(m) = 1
MbaffPictureEdges(m, chroma) ==
  LET dy == 1 + m.field
      V(x) == [vertical |-> TRUE, xE |-> x, yE |-> 0, dy |-> dy]
      H(y, d) == [vertical |-> FALSE, xE |-> 0, yE |-> y, dy |-> d]
      within == IF m.t8 THEN {8} ELSE {4, 8, 12}
  IN (IF m.left THEN {V(0)} ELSE {})
       \union {V(x) : x \in IF chroma THEN {4} ELSE within}
       \union (IF top_twice(m) THEN {H(0, 2), H(1, 2)} ELSE IF m.top THEN {H(0, dy)} ELSE {})
       \union {H(y, dy) : y \in IF ~chroma THEN within ELSE IF m.chroma = 1 THEN {4} ELSE {4, 8, 12}}

(* A macroblock of one kind with its neighbours goes to deblock_mb, which  *)
(* takes them from the array of macroblocks and rows of one field.         *)
ArrayNeighbour(m, edge) ==
  LET row == 2 + m.bot - 2 ^ m.field
  IN IF edge = "left" THEN [pair |-> <<0, 1>>, bot |-> m.bot]
     ELSE [pair |-> <<1, row \div 2>>, bot |-> row % 2]
RowAbove(m) == m.yI - 2 ^ m.field
---------------------------------------------------------------------------
(* The strength of the standard (8.7.2.1): without motion the kinds of the *)
(* macroblocks and the edge; with it, two blocks are alike if the vectors  *)
(* of one can be matched with those of the other, nearer than a sample in  *)
(* frames, whose rows are half as far apart as those of fields.            *)
NearAsIn(a, b, field) ==
  /\ Apart(a[1], b[1]) \in 0 .. 3
  /\ (IF field = 1 THEN 2 ELSE 1) * Apart(a[2], b[2]) \in 0 .. 3
Used(b) == {l \in {1, 2} : b.ref[l] >= 0}
AlikeAsIn(p, q, field) ==
  \E f \in [Used(p) -> Used(q)] :
    /\ {f[l] : l \in Used(p)} = Used(q) /\ Cardinality(Used(p)) = Cardinality(Used(q))
    /\ \A l \in Used(p) : p.ref[l] = q.ref[f[l]] /\ NearAsIn(p.mv[l], q.mv[f[l]], field)
StandardStrength(p, q, c) ==
  LET frames == c.fieldP = 0 /\ c.fieldQ = 0
      mixed == c.fieldP # c.fieldQ
  IN CASE c.intra -> IF ~c.sameMb /\ (frames \/ c.vertical) THEN 4 ELSE 3
       [] ~c.intra /\ c.coef -> 2
       [] OTHER -> IF mixed \/ ~AlikeAsIn(p, q, c.fieldP) THEN 1 ELSE 0

(* An edge within a macroblock is of one macroblock, one within an 8x8     *)
(* block of one pair of references, and a macroblock of one partition has  *)
(* equal blocks.                                                           *)
EdgesBetween(p, q) ==
  {"outer"} \union (IF p.l1 = q.l1 THEN {"mid"} ELSE {})
    \union (IF p.l1 = q.l1 /\ p.ref = q.ref THEN {"inner"} ELSE {})
MbaffContexts(intra, coef) ==
  {c \in [fieldP : {0, 1}, fieldQ : {0, 1}, samePair : BOOLEAN, sameMb : BOOLEAN, vertical : BOOLEAN,
          intra : {intra}, coef : {coef}] :
     (c.sameMb => c.samePair) /\ (c.samePair => c.fieldP = c.fieldQ)}
StrengthsAsIn(p, q) ==
  \A intra, coef \in BOOLEAN :
    /\ \A f \in {0, 1}, v, third \in BOOLEAN :
         \A edge \in EdgesBetween(p, q) : \A whole \in {FALSE, p = q \/ edge = "outer"} :
           deblock_mb(p, q, [field |-> f, vertical |-> v, third |-> third, edge |-> edge, whole |-> whole,
                             intra |-> intra, coef |-> coef])
             = StandardStrength(p, q, [fieldP |-> f, fieldQ |-> f, sameMb |-> edge # "outer",
                                       vertical |-> v, intra |-> intra, coef |-> coef])
    /\ \A c \in MbaffContexts(intra, coef) : mbaff_bS(p, q, c) = StandardStrength(p, q, c)

IndexAsIn(qp, qn, offset, bd) ==
  LET i == (((qp - bd) + (qn - bd) + 1) \div 2) + 2 * offset
  IN FilterIndex(qp, qn, offset, bd) = IF i < 0 THEN 0 ELSE IF i > 51 THEN 51 ELSE i
---------------------------------------------------------------------------
(* The samples the standard filters across (8.7 with 6.4.1): those left of *)
(* and above the edges of the macroblock in its own rows, and above it     *)
(* the last row of the macroblock there; of a frame pair above a field     *)
(* macroblock the last row of its parity, and of a field pair above a      *)
(* frame macroblock both fields, each with the rows of its parity.         *)
InPlane(b, x, y, field, W, H) ==
  <<W * b.pair[1] + x, 2 * H * b.pair[2] + (IF field = 1 THEN 2 * y + b.bot ELSE H * b.bot + y)>>
StandardFacing(m, chroma) ==
  LET W == IF chroma THEN 8 ELSE 16
      H == IF chroma THEN RowsOfChroma(m) ELSE 16
      mine(x, y) == InPlane([pair |-> <<1, 1>>, bot |-> m.bot], x, y, m.field, W, H)
      above(x, y, b) == InPlane([pair |-> <<1, 0>>, bot |-> b], x, y, m.kindB, W, H)
      step == 1 + m.field
      within == IF m.t8 THEN {8} ELSE {4, 8, 12}
      columns == (IF m.left THEN {0} ELSE {}) \union (IF chroma THEN {4} ELSE within)
      rows == IF ~chroma THEN within ELSE IF m.chroma = 1 THEN {4} ELSE {4, 8, 12}
      face(q, p, s) == [q |-> q, p |-> p, step |-> s]
      topRow(x) ==
        CASE m.field = 0 /\ m.bot = 1 ->
               {face(mine(x, 0), InPlane([pair |-> <<1, 1>>, bot |-> 0], x, H - 1, 0, W, H), 1)}
          [] m.field = 0 /\ m.bot = 0 /\ m.kindB = 0 -> {face(mine(x, 0), above(x, H - 1, 1), 1)}
          [] m.field = 0 /\ m.bot = 0 /\ m.kindB = 1 ->
               {face(mine(x, f), above(x, H - 1, f), 2) : f \in {0, 1}}
          [] m.field = 1 /\ m.kindB = 1 -> {face(mine(x, 0), above(x, H - 1, m.bot), 2)}
          [] OTHER -> {face(mine(x, 0), above(x, H - 2 + m.bot, 1), 2)}
  IN {face(mine(x, y), <<mine(x, y)[1] - 1, mine(x, y)[2]>>, 0) : x \in columns, y \in 0 .. H - 1}
       \union {face(mine(x, y), mine(x, y - 1), step) : x \in 0 .. W - 1, y \in rows}
       \union (IF m.top THEN UNION {topRow(x) : x \in 0 .. W - 1} ELSE {})

(* A sample is of the macroblock and block s.                              *)
LiesIn(m, at, s, chroma) ==
  LET W == IF chroma THEN 8 ELSE 16
      H == IF chroma THEN RowsOfChroma(m) ELSE 16
  IN \E y \in 0 .. H - 1 :
       /\ InPlane(s, at[1] % W, y, m.kind[s.pair], W, H) = at
       /\ s.blk = BlockAt(((at[1] % W) * (16 \div W)) \div 4, (y * (16 \div H)) \div 4)
FacingAsIn(mb_) ==
  LET m == OnPicture(mb_)
  IN IF OfOneKind(m)
     THEN \A f \in StandardFacing(m, FALSE) :
            /\ f.q[1] = m.xI /\ f.p[1] = m.xI - 1 =>
                 \E y \in 0 .. 15 : InPlane(ArrayNeighbour(m, "left"), 15, y, fieldA(m), 16, 16) = f.p
            /\ f.q[2] = m.yI /\ f.p[2] # f.q[2] =>
                 /\ f.p[2] = RowAbove(m)
                 /\ InPlane(ArrayNeighbour(m, "top"), f.p[1] % 16, 15, fieldB(m), 16, 16) = f.p
     ELSE \A chroma \in BOOLEAN :
            LET faces == UNION {mbaff_edge(m, e, chroma) : e \in MbaffPictureEdges(m, chroma)}
            IN /\ {[q |-> f.q, p |-> f.p, step |-> f.step] : f \in faces} = StandardFacing(m, chroma)
               /\ \A f \in faces : LiesIn(m, f.q, f.ofQ, chroma) /\ LiesIn(m, f.p, f.ofP, chroma)
=============================================================================
