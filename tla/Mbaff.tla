------------------------------- MODULE Mbaff -------------------------------
(***************************************************************************)
(* The macroblock loop of MBAFF slices (parse_slice_data_mbaff_loop), in   *)
(* which each pair of macroblocks is coded as frame or field macroblocks:  *)
(* which of them a pair is, when its flag and the skip flags are read, and *)
(* where the neighbours of a macroblock are, row by row (Table 6-4), as    *)
(* they are copied around it (mbaff_neighbours).                           *)
(*                                                                         *)
(* The data of a slice is the sequence of syntax elements an encoder wrote *)
(* (see Coded): <<"run", n>>, <<"skip", flag, ctxIdxInc>>,                 *)
(* <<"field", flag, ctxIdxInc>>, <<"mb">> and <<"end", flag>>.             *)
(***************************************************************************)
EXTENDS Macroblocks, SequencesExt

VARIABLES
  data,                \* the syntax elements left
  misread,             \* whether one was read as another, or with another context
  fields,              \* mb_field_decoding_flag of the pairs
  skips,               \* mb_skip_flag of the macroblocks
  mb_field, mb_skip_run, mbaff_skip, mbaff_bot_skip

mbaffVars == <<data, misread, fields, skips, mb_field, mb_skip_run, mbaff_skip, mbaff_bot_skip>>

Pair(a) == a \div 2
Bottom(a) == a % 2
px(a) == Pair(a) % w
py(a) == Pair(a) \div w
PairAt == [A |-> Pair(CurrMbAddr) - 1, B |-> Pair(CurrMbAddr) - w, C |-> Pair(CurrMbAddr) - w + 1,
           D |-> Pair(CurrMbAddr) - w - 1, CUR |-> Pair(CurrMbAddr)]
PairField(n) == fields[PairAt[n]]
mbaff_avail ==
  LET a == CurrMbAddr
      inside == [A |-> px(a) > 0, B |-> py(a) > 0, C |-> py(a) > 0 /\ px(a) < w - 1,
                 D |-> px(a) > 0 /\ py(a) > 0]
  IN {n \in Neighbours : inside[n] /\ PairAt[n] >= Pair(slice.first)}

(* mbaff_locate: the pair, its macroblock and the row in it of the         *)
(* neighbour at row yN, left of or above a macroblock of height maxH, for  *)
(* a top or bottom (bot) macroblock read as a frame or field one.          *)
NoPair == [pair |-> "none", bot |-> 0, y |-> 0]
At(n, b, y, maxH) == [pair |-> n, bot |-> b, y |-> (y + maxH) % maxH]
LocateA(field, bot, yN, maxH) ==
  CASE "A" \notin mbaff_avail -> NoPair
    [] field = PairField("A") -> At("A", bot, yN, maxH)
    [] field = 0 /\ PairField("A") = 1 -> At("A", yN % 2, (yN + bot * maxH) \div 2, maxH)
    [] OTHER -> LET b == IF yN >= maxH \div 2 THEN 1 ELSE 0
                IN At("A", b, 2 * yN + bot - b * maxH, maxH)
(* Fault: above the pair's top row, as for a top macroblock.               *)
LocateD_Bottom(yN, maxH) == IF "A" \notin mbaff_avail THEN NoPair ELSE At("A", 1, yN, maxH)
LocateD(yN, maxH) ==
  CASE "A" \notin mbaff_avail -> NoPair
    [] PairField("A") = 0 -> At("A", 0, yN, maxH)
    [] OTHER -> At("A", 1, (yN + maxH) \div 2, maxH)
mbaff_locate(n, field, bot, yN, maxH) ==
  CASE n = "A" -> LocateA(field, bot, yN, maxH)
    [] n = "D" /\ field = 0 /\ bot = 1 -> LocateD(yN, maxH)
    [] n = "C" /\ field = 0 /\ bot = 1 -> NoPair
    [] n = "B" /\ field = 0 /\ bot = 1 -> At("CUR", 0, yN, maxH)
    [] OTHER ->
       CASE n \notin mbaff_avail -> NoPair
         [] field = 1 /\ bot = 0 /\ PairField(n) = 0 -> At(n, 1, 2 * yN, maxH)
         [] field = 1 /\ bot = 0 /\ PairField(n) = 1 -> At(n, 0, yN, maxH)
         [] OTHER -> At(n, 1, yN, maxH)
MbOf(l) == 2 * PairAt[l.pair] + l.bot

(* mbaff_neighbours: the macroblock and the block of it in a block of the  *)
(* copies around the current macroblock, those of A row by row, and in     *)
(* "DA" the blocks at the D locations of the left column.                  *)
right4x4 == <<5, 7, 13, 15>>
RowOf(blk) == CHOOSE r \in 0 .. 3 : right4x4[r + 1] = blk
mbaff_nb(n, blk) ==
  LET at(nb, yN) == mbaff_locate(nb, mb_field, Bottom(CurrMbAddr), yN, 16)
      right(l) == <<MbOf(l), right4x4[l.y \div 4 + 1]>>
  IN CASE n = "A" -> right(at("A", 4 * RowOf(blk)))
       [] n = "DA" -> right(at("A", 4 * (RowOf(blk) + 1) - 1))
       [] n = "D" /\ blk = 15 -> right(at("D", -1))
       [] OTHER -> <<MbOf(at(n, -1)), blk>>
(* The references of A are those of 8x8 blocks, in odd rows those of       *)
(* mbaff_refIdxA; nC of chroma is in rows of 4 chroma samples.             *)
RefOfA(r) == LET l == mbaff_locate("A", mb_field, Bottom(CurrMbAddr), 4 * r, 16)
             IN <<MbOf(l), 1 + 2 * (l.y \div 8)>>
ChromaOfA(r, hC) == LET l == mbaff_locate("A", mb_field, Bottom(CurrMbAddr), 4 * r, hC)
                    IN <<MbOf(l), 2 * (l.y \div 4) + 1>>
MbaffTables ==
  [Switched(InsideTables, Neighbours) EXCEPT
     !.D[2] = <<"DA", 5>>, !.D[8] = <<"DA", 7>>, !.D[10] = <<"DA", 13>>]

(* mbaff_skip_inc, from the field flag inferred before it is read; the top *)
(* macroblock of the pair is skipped when it is asked about as a neighbour.*)
mbaff_skip_inc(field, bot) ==
  LET a == mbaff_locate("A", field, bot, 0, 16)
      b == mbaff_locate("B", field, bot, -1, 16)
  IN (IF a.pair = "none" \/ skips[MbOf(a)] THEN 1 ELSE 0)
       + (IF b.pair \in {"none", "CUR"} \/ skips[MbOf(b)] THEN 1 ELSE 0)
(* The same of a macroblock whose flag is known: inc of parse_P_mb.        *)
SkipInc(field, bot) ==
  LET a == mbaff_locate("A", field, bot, 0, 16)
      b == mbaff_locate("B", field, bot, -1, 16)
      skipped(l) == l.pair = "none" \/ skips[MbOf(l)]
  IN (IF skipped(a) THEN 1 ELSE 0) + (IF skipped(b) THEN 1 ELSE 0)
---------------------------------------------------------------------------
(* Reading: the data left after the elements es, and whether they are      *)
(* those there.                                                            *)
Takes(d, es) == Len(es) <= Len(d) /\ \A i \in DOMAIN es : d[i][1] = es[i][1]
                  /\ (Len(es[i]) = 2 => d[i][3] = es[i][2])
After(d, es) == IF Len(es) <= Len(d) THEN SubSeq(d, Len(es) + 1, Len(d)) ELSE <<>>
Flag(d, i) == IF i <= Len(d) /\ Len(d[i]) > 1 THEN d[i][2] ELSE 0
Yes(b) == IF b THEN 1 ELSE 0

(* The flag inferred of a pair that has none.                              *)
Inferred == CASE "A" \in mbaff_avail -> PairField("A")
              [] "A" \notin mbaff_avail /\ "B" \in mbaff_avail -> PairField("B")
              [] OTHER -> 0
FieldInc == Yes("A" \in mbaff_avail /\ PairField("A") = 1)
              + Yes("B" \in mbaff_avail /\ PairField("B") = 1)

(* The elements read at the top of the loop for a top macroblock.  CAVLC:  *)
(* a run of skipped macroblocks unless one is left, then the flag unless   *)
(* the run covers both or the data ends; CABAC: the skip flag, that of the *)
(* bottom one too if it is set, then the flag unless both are.             *)
Run(d) == IF mb_skip_run < 0 THEN Flag(d, 1) ELSE mb_skip_run
RunRead == IF slice.type = "P" /\ ~slice.cabac /\ mb_skip_run < 0 THEN << <<"run">> >> ELSE <<>>
SkipRead ==
  IF slice.type = "I" \/ ~slice.cabac THEN <<>>
  ELSE << <<"skip", mbaff_skip_inc(Inferred, 0)>> >> \o
       (IF Flag(data, 1) = 1 THEN << <<"skip", mbaff_skip_inc(Inferred, 1)>> >> ELSE <<>>)
(* Fault: no flag read at a skipped top macroblock.                        *)
ReadsField_TopCoded ==
  CASE slice.type = "I" -> TRUE
    [] slice.type = "P" /\ ~slice.cabac -> Run(data) < 1
    [] OTHER -> ~(Flag(data, 1) = 1 /\ Flag(data, 2) = 1)
ReadsField ==
  CASE slice.type = "I" -> TRUE
    [] slice.type = "P" /\ ~slice.cabac ->
         /\ Run(data) < 2
         /\ ~(Run(data) = 1 /\ After(data, RunRead) = <<>>)
    [] OTHER -> ~(Flag(data, 1) = 1 /\ Flag(data, 2) = 1)
FieldRead == IF ~ReadsField THEN <<>>
             ELSE IF slice.cabac THEN << <<"field", FieldInc>> >> ELSE << <<"field">> >>

PositionTop ==
  /\ pc = "position" /\ pic.mbaff /\ CurrMbAddr < slice.bound /\ Bottom(CurrMbAddr) = 0
  /\ LET reads == RunRead \o SkipRead
         d == After(data, reads)
     IN /\ misread' = (misread \/ ~Takes(data, reads \o FieldRead))
        /\ data' = After(d, FieldRead)
        /\ mb_field' = IF ReadsField THEN Flag(d, 1) ELSE Inferred
        /\ mb_skip_run' = IF slice.type = "P" /\ ~slice.cabac THEN Run(data) ELSE mb_skip_run
        /\ mbaff_skip' = IF SkipRead = <<>> THEN -1 ELSE Flag(data, 1)
        /\ mbaff_bot_skip' = IF Len(SkipRead) = 2 THEN Flag(data, 2) ELSE mbaff_bot_skip
  /\ pc' = "decode"
  /\ UNCHANGED <<pic, k, sliceVars, deblockVars, decoded, fields, skips>>

PositionBottom ==
  /\ pc = "position" /\ pic.mbaff /\ CurrMbAddr < slice.bound /\ Bottom(CurrMbAddr) = 1
  /\ mbaff_skip' = IF slice.cabac /\ mbaff_skip > 0 THEN mbaff_bot_skip ELSE -1
  /\ pc' = "decode"
  /\ UNCHANGED <<pic, k, sliceVars, deblockVars, decoded, data, misread, fields, skips,
                 mb_field, mb_skip_run, mbaff_bot_skip>>

(* filter_edges of a macroblock: the top edge of the bottom one of a frame *)
(* pair is inside the pair.                                                *)
FrameBottom == mb_field = 0 /\ Bottom(CurrMbAddr) = 1
MbaffEdges ==
  LET kept(n) == slice.idc # 2 \/ n \in mbaff_avail
      left == px(CurrMbAddr) > 0 /\ kept("A")
      top == FrameBottom \/ (py(CurrMbAddr) > 0 /\ kept("B"))
  IN IF slice.idc = 1 THEN {}
     ELSE {"inner"} \union (IF left THEN {"left"} ELSE {}) \union (IF top THEN {"top"} ELSE {})
MbaffUnavail ==
  IF FrameBottom
  THEN {"C"} \union (IF "A" \in mbaff_avail THEN {} ELSE {"A", "D"})
  ELSE Neighbours \ mbaff_avail

(* parse_P_mb and parse_I_mb as far as skipping goes, then the end of the  *)
(* loop: the macroblock is copied back, CABAC reads whether the slice ends *)
(* after a pair.                                                           *)
SkipReads ==
  CASE slice.type = "I" -> <<>>
    [] ~slice.cabac -> IF mb_skip_run < 0 THEN << <<"run">> >> ELSE <<>>
    [] OTHER -> IF mbaff_skip < 0
                THEN << <<"skip", SkipInc(mb_field, Bottom(CurrMbAddr))>> >> ELSE <<>>
RunNow == IF mb_skip_run < 0 THEN Flag(data, 1) ELSE mb_skip_run
Skipped ==
  CASE slice.type = "I" -> FALSE
    [] slice.type = "P" /\ ~slice.cabac -> RunNow > 0
    [] OTHER -> IF mbaff_skip >= 0 THEN mbaff_skip = 1 ELSE Flag(data, 1) = 1
MbReads == IF Skipped THEN <<>> ELSE << <<"mb">> >>
EndReads == IF slice.cabac /\ Bottom(CurrMbAddr) = 1 THEN << <<"end">> >> ELSE <<>>

DecodeMbaff ==
  /\ pc = "decode" /\ pic.mbaff
  /\ decoded' = [decoded EXCEPT ![CurrMbAddr] = k]
  /\ filter_edges' = [filter_edges EXCEPT ![CurrMbAddr] = MbaffEdges]
  /\ fields' = [fields EXCEPT ![Pair(CurrMbAddr)] = mb_field]
  /\ skips' = [skips EXCEPT ![CurrMbAddr] = Skipped]
  /\ mb_skip_run' = IF slice.type = "P" /\ ~slice.cabac THEN RunNow - 1 ELSE mb_skip_run
  /\ LET reads == SkipReads \o MbReads
         d == After(data, reads)
         ends == IF slice.cabac THEN EndReads # <<>> /\ Flag(d, 1) = 1
                 ELSE mb_skip_run' <= 0 /\ d = <<>>
     IN /\ misread' = (misread \/ ~Takes(data, reads \o EndReads))
        /\ data' = After(d, EndReads)
        /\ pc' = IF ends \/ CurrMbAddr + 1 >= w * pic.h THEN "finish" ELSE "position"
  /\ CurrMbAddr' = CurrMbAddr + 1
  /\ UNCHANGED <<pic, k, mbx, mby, mb, mbc, ring, tables, near, in_turn, next_deblock_addr,
                 frontier, deblocked, mb_field, mbaff_skip, mbaff_bot_skip>>
---------------------------------------------------------------------------
(* What the standard codes (7.3.4): a pair of two skipped macroblocks has  *)
(* no flag, it is a field pair if its left neighbour in the slice is, else *)
(* the one above, else not (7.4.4).                                        *)
NPairs(s) == Len(s.pairs)
BothSkipped(s, i) == s.pairs[i + 1].skip = <<TRUE, TRUE>>
HasLeft(s, i) == i > 0 /\ (Pair(s.first) + i) % w > 0
TrueFields(s) ==
  LET f[i \in 0 .. NPairs(s) - 1] ==
        IF s.type = "P" /\ BothSkipped(s, i)
        THEN IF HasLeft(s, i) THEN f[i - 1] ELSE IF i >= w THEN f[i - w] ELSE 0
        ELSE s.pairs[i + 1].field
  IN f
InferredField(s, f, i) == IF HasLeft(s, i) THEN f[i - 1] ELSE IF i >= w THEN f[i - w] ELSE 0
TrueSkip(s, a) == s.type = "P" /\ s.pairs[(a - s.first) \div 2 + 1].skip[Bottom(a) + 1]

(* Where a neighbouring location is (6.4.12.2): in the rows of the current *)
(* macroblock, frame or field, whose row R of the pair (negative above it) *)
(* is a row of a macroblock of the pair it falls in.  is(p) tells whether  *)
(* pair p is in the slice, fields(p) how it is coded.                      *)
RowOfPair(field, bot, yN, H) == IF field = 1 THEN 2 * yN + bot ELSE bot * H + yN
PairOf(a, n, R) ==
  CASE n = "A" \/ (n = "D" /\ R >= 0) -> IF px(a) > 0 THEN Pair(a) - 1 ELSE -1
    [] n = "B" -> IF R >= 0 THEN Pair(a) ELSE Pair(a) - w
    [] n = "C" -> IF R >= 0 \/ px(a) = w - 1 THEN -1 ELSE Pair(a) - w + 1
    [] OTHER -> IF px(a) > 0 THEN Pair(a) - w - 1 ELSE -1
Located(a, field, n, yN, H, is(_), f(_)) ==
  LET R == RowOfPair(field, Bottom(a), yN, H)
      p == PairOf(a, n, R)
      r == IF R < 0 THEN R + 2 * H ELSE R
  IN CASE p < 0 \/ ~is(p) -> [mb |-> -1, y |-> 0]
       [] p = Pair(a) -> [mb |-> 2 * p, y |-> r]
       [] OTHER -> IF f(p) = 1 THEN [mb |-> 2 * p + (r % 2), y |-> r \div 2]
                   ELSE [mb |-> 2 * p + r \div H, y |-> r % H]

(* The elements of a pair: CABAC with the contexts of 9.3.3.1.1.1 and      *)
(* 9.3.3.1.1.10, CAVLC with the runs of skipped macroblocks.               *)
TrueSkipInc(s, f, a, field) ==
  LET is(p) == p \in Pair(s.first) .. Pair(a)
      skipped(n, yN) ==
        LET l == Located(a, field, n, yN, 16, is, LAMBDA p : f[p - Pair(s.first)])
        IN l.mb < 0 \/ TrueSkip(s, l.mb)
  IN Yes(skipped("A", 0)) + Yes(skipped("B", -1))
TrueFieldInc(s, f, i) ==
  Yes(HasLeft(s, i) /\ f[i - 1] = 1) + Yes(i >= w /\ f[i - w] = 1)
CabacPair(s, f, i) ==
  LET a == s.first + 2 * i
      sk == s.pairs[i + 1].skip
      inferred == InferredField(s, f, i)
      skipEl(b, field) == IF s.type = "I" THEN <<>>
                          ELSE << <<"skip", Yes(sk[b + 1]), TrueSkipInc(s, f, a + b, field)>> >>
      fieldEl == << <<"field", f[i], TrueFieldInc(s, f, i)>> >>
      end == << <<"end", Yes(i + 1 = NPairs(s))>> >>
      mbEl == << <<"mb">> >>
  IN IF s.type = "P" /\ sk[1]
     THEN skipEl(0, inferred) \o skipEl(1, inferred)
            \o (IF sk[2] THEN <<>> ELSE fieldEl \o mbEl) \o end
     ELSE skipEl(0, inferred) \o fieldEl \o mbEl \o skipEl(1, f[i])
            \o (IF s.type = "P" /\ sk[2] THEN <<>> ELSE mbEl) \o end
CavlcMb(s, f, a) ==
  LET coded == {b \in s.first .. a - 1 : ~TrueSkip(s, b)} \union {s.first - 1}
      run == a - 1 - (CHOOSE b \in coded : \A c \in coded : c <= b)
      field == IF Bottom(a) = 0 \/ run > 0 THEN << <<"field", f[(a - s.first) \div 2]>> >> ELSE <<>>
      last == s.first + 2 * NPairs(s) - 1
  IN IF s.type = "I" THEN field \o << <<"mb">> >>
     ELSE IF ~TrueSkip(s, a) THEN << <<"run", run>> >> \o field \o << <<"mb">> >>
     ELSE IF a = last THEN << <<"run", run + 1>> >> ELSE <<>>
Coded(s) ==
  LET f == TrueFields(s)
  IN IF s.cabac THEN FlattenSeq([i \in 1 .. NPairs(s) |-> CabacPair(s, f, i - 1)])
     ELSE FlattenSeq([i \in 1 .. 2 * NPairs(s) |-> CavlcMb(s, f, s.first + i - 1)])
---------------------------------------------------------------------------
StartMbaff ==
  /\ StartSlice
  /\ data' = IF pic.mbaff THEN Coded(slice) ELSE <<>>
  /\ mb_skip_run' = -1 /\ mbaff_skip' = -1
  /\ UNCHANGED <<misread, fields, skips, mb_field, mbaff_bot_skip>>

MbaffStart ==
  /\ LoopInit
  /\ data = <<>> /\ misread = FALSE
  /\ fields = [p \in {Pair(a) : a \in Addresses} |-> 0]
  /\ skips = [a \in Addresses |-> FALSE]
  /\ mb_field = 0 /\ mb_skip_run = -1 /\ mbaff_skip = -1 /\ mbaff_bot_skip = 0

MbaffNext ==
  \/ StartMbaff \/ PositionTop \/ PositionBottom \/ DecodeMbaff
  \/ (BoundReached \/ Position \/ DecodeMb \/ DecodeFmoMb \/ FinishSlice) /\ UNCHANGED mbaffVars

(* What a macroblock of an MBAFF frame, and each of its blocks, finds as   *)
(* its neighbours through the copies around it is what the standard says:  *)
(* the block that covers the sample next to it in the rows of the current  *)
(* macroblock, whether the pairs are frame or field macroblocks.           *)
InSliceNow(p) == p = Pair(CurrMbAddr) \/ (p >= 0 /\ decoded[2 * p] = k)
NearRow(n, yN, H) ==
  Located(CurrMbAddr, mb_field, n, yN, H, InSliceNow, LAMBDA p : fields[p])
NearBlockMbaff(b, n) ==
  LET x == XOf(b) + Beside(n)[1]
      y == YOf(b) + Beside(n)[2]
      yN == IF n = "A" THEN 4 * YOf(b) ELSE 4 * YOf(b) - 1
      there == BlockAt((x + 4) % 4, (y + 4) % 4)
      of == CASE x < 0 -> IF y < 0 THEN "D" ELSE "A" [] x > 3 -> "C" [] OTHER -> "B"
      l == NearRow(of, yN, 16)
  IN CASE x >= 0 /\ y >= 0 -> IF x <= 3 /\ there < b THEN <<CurrMbAddr, there>>
                              ELSE <<Unavailable, 0>>
       [] l.mb < 0 -> <<Unavailable, 0>>
       [] OTHER -> <<l.mb, BlockAt((x + 4) % 4, l.y \div 4)>>
MbaffNeighboursAsStandard ==
  pc = "decode" /\ pic.mbaff =>
    /\ \A n \in Neighbours :
         n \in MbaffUnavail <=> NearRow(n, IF n = "A" THEN 0 ELSE -1, 16).mb < 0
    /\ \A b \in 0 .. 15, n \in Neighbours :
         LET e == MbaffTables[n][b]
             std == NearBlockMbaff(b, n)
         IN IF std[1] = Unavailable THEN n \in block_unavailability(MbaffUnavail)[b]
            ELSE /\ n \notin block_unavailability(MbaffUnavail)[b]
                 /\ std = IF e[1] = "own" THEN <<CurrMbAddr, e[2]>> ELSE mbaff_nb(e[1], e[2])
    /\ "A" \in mbaff_avail =>
         /\ \A r \in 0 .. 3 : LET l == NearRow("A", 4 * r, 16)
                              IN RefOfA(r) = <<l.mb, BlockAt(3, l.y \div 4) \div 4>>
         /\ \A hC \in {8, 16} : \A r \in 0 .. hC \div 4 - 1 :
              LET l == NearRow("A", 4 * r, hC)
              IN ChromaOfA(r, hC) = <<l.mb, 2 * (l.y \div 4) + 1>>

(* The flags of the pairs and of skipped macroblocks are read where the    *)
(* standard codes them, with the contexts it codes them with, and those it *)
(* does not code are inferred as it does.                                  *)
ReadAsCoded ==
  pic.mbaff =>
    /\ ~misread
    /\ pc \in {"decode", "position"} =>
         \A a \in slice.first .. CurrMbAddr - 1 :
           skips[a] = TrueSkip(slice, a)
             /\ fields[Pair(a)] = TrueFields(slice)[Pair(a) - Pair(slice.first)]
    /\ pc = "finish" => data = <<>> /\ CurrMbAddr = slice.first + 2 * NPairs(slice)
=============================================================================
