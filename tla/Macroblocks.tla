---------------------------- MODULE Macroblocks ----------------------------
(***************************************************************************)
(* The macroblock loop of a slice (parse_slice_data): where the decoder    *)
(* finds the neighbours of each macroblock and of its blocks, and when it  *)
(* deblocks.  One thread decodes the slices of a picture in the order they *)
(* arrive, each with a context set up by initialize_context.               *)
(*                                                                         *)
(* The values of a macroblock that outlive its slice are in an array with  *)
(* an unavailable entry at the end of each row and a row of them before    *)
(* the picture; those that only its right and lower neighbours read are in *)
(* a ring of w + 2 entries, with copies of its ends at -1 and w + 2.  The  *)
(* offsets from a block to its neighbours are in tables, which start       *)
(* inside the macroblock and are switched to a neighbour when the slice    *)
(* has one.  An array or ring entry is the address of the macroblock whose *)
(* values it holds.                                                        *)
(***************************************************************************)
EXTENDS Integers, Sequences, FiniteSets, TLC

CONSTANT Pictures
  \* records of w, h, chroma (ChromaArrayType 1 or 2), mbaff, map (the slice groups, <<>> without
  \* FMO) and slices, each of first, bound (mb_bound), mbs (how many its data has), idc and group

VARIABLES
  pic, k, pc,          \* the picture, its slice being decoded, and where the decoder is
  CurrMbAddr, mbx, mby,
  mb, mbc,             \* index in the array, and in the ring
  ring,
  tables,              \* A4x4 .. mvs_D: for each block, a neighbour and its block
  near,                \* mbA .. mbD and unavail16x16 of the current macroblock
  filter_edges,        \* of every macroblock, with "inner" while deblocking is pending
  in_turn, next_deblock_addr, frontier,
  decoded,             \* the slice that decoded each macroblock, 0 if none did
  deblocked            \* macroblocks and edges in the order they were deblocked

sliceVars == <<CurrMbAddr, mbx, mby, mb, mbc, ring, tables, near>>
deblockVars == <<filter_edges, in_turn, next_deblock_addr, frontier, deblocked>>
vars == <<pic, k, pc, sliceVars, deblockVars, decoded>>

slice == pic.slices[k]
w == pic.w
Fmo == pic.map # <<>>
Whole == Fmo \/ pic.mbaff       \* deblocked once its last macroblock is decoded
Addresses == 0 .. pic.w * pic.h - 1
Neighbours == {"A", "B", "C", "D"}
Unavailable == -1
Stale == -2
NoDeblock == -1000
RingSize == w + 2
MbOffset(x, y) == x + y * (w + 1)

(* What the array has at an index: the row of guards, the entry at the end *)
(* of each row, or a macroblock.                                           *)
MbAt(i) == IF i < 0 \/ i % (w + 1) = w THEN Unavailable ELSE (i % (w + 1)) + w * (i \div (w + 1))

(* Distances to the neighbours in the array and in the ring.               *)
Back == [own |-> 0, A |-> 1, B |-> w + 1, C |-> w, D |-> w + 2]
RingStep == [own |-> 0, A |-> -1, B |-> 1]
---------------------------------------------------------------------------
(* The tables as initialize_context leaves them, with the blocks inside    *)
(* the macroblock, and as they change when a neighbour becomes available.  *)
Of(n, blocks) == [b \in DOMAIN blocks |-> <<n, blocks[b]>>]
Own(s) == [b \in 0 .. Len(s) - 1 |-> <<"own", s[b + 1]>>]
ChromaRows == IF pic.chroma = 1 THEN 2 ELSE 4
ChromaBlocks == 0 .. 4 * ChromaRows - 1
Top(b) == b % (2 * ChromaRows) < 2

InsideTables ==
  [A |-> Own(<<0, 0, 2, 2, 1, 4, 3, 6, 8, 8, 10, 10, 9, 12, 11, 14>>),
   B |-> Own(<<0, 1, 0, 1, 4, 5, 4, 5, 2, 3, 8, 9, 6, 7, 12, 13>>),
   C |-> Own(<<0, 1, 1, -1, 4, 5, 5, -1, 3, 6, 9, -1, 7, -1, 13, -1>>),
   D |-> Own(<<0, 1, 2, 0, 4, 5, 1, 4, 8, 2, 10, 8, 3, 6, 9, 12>>),
   cA |-> [b \in ChromaBlocks |-> <<"own", b - (b % 2)>>],
   cB |-> [b \in ChromaBlocks |-> <<"own", IF Top(b) THEN b ELSE b - 2>>]]

WithA(t) ==
  [t EXCEPT !.A = Of("A", 0 :> 5 @@ 2 :> 7 @@ 8 :> 13 @@ 10 :> 15) @@ @,
            !.D = Of("A", 2 :> 5 @@ 8 :> 7 @@ 10 :> 13) @@ @,
            !.cA = [b \in ChromaBlocks |-> IF b % 2 = 0 THEN <<"A", b + 1>> ELSE @[b]]]
WithB(t) ==
  [t EXCEPT !.B = Of("B", 0 :> 10 @@ 1 :> 11 @@ 4 :> 14 @@ 5 :> 15) @@ @,
            !.C = Of("B", 0 :> 11 @@ 1 :> 14 @@ 4 :> 15) @@ @,
            !.D = Of("B", 1 :> 10 @@ 4 :> 11 @@ 5 :> 14) @@ @,
            !.cB = [b \in ChromaBlocks |->
                      IF Top(b) THEN <<"B", b + 2 * (ChromaRows - 1)>> ELSE @[b]]]
WithC(t) == [t EXCEPT !.C = Of("C", 5 :> 10) @@ @]
WithD(t) == [t EXCEPT !.D = Of("D", 0 :> 15) @@ @]
Switched(t, on) ==
  LET a == IF "A" \in on THEN WithA(t) ELSE t
      b == IF "B" \in on THEN WithB(a) ELSE a
      c == IF "C" \in on THEN WithC(b) ELSE b
  IN IF "D" \in on THEN WithD(c) ELSE c

(* The neighbouring blocks a block has not, by the neighbours the          *)
(* macroblock has not: to the right of the blocks of odd rows and columns  *)
(* only macroblocks and blocks decoded later.                              *)
block_unavailability(un) ==
  LET lacking == [
        A |-> (0 :> {"A"} @@ 2 :> {"A", "D"} @@ 8 :> {"A", "D"} @@ 10 :> {"A", "D"}),
        B |-> (0 :> {"B", "C"} @@ 1 :> {"B", "C", "D"} @@ 4 :> {"B", "C", "D"} @@ 5 :> {"B", "D"}),
        C |-> (5 :> {"C"}), D |-> (0 :> {"D"})]
  IN [b \in 0 .. 15 |-> (IF b \in {3, 7, 11, 13, 15} THEN {"C"} ELSE {}) \union
        UNION {lacking[n][b] : n \in {m \in un : b \in DOMAIN lacking[m]}}]
---------------------------------------------------------------------------
(* The neighbours the position in the picture rules out, and those that    *)
(* the slice does: by the macroblocks decoded since its first one, or with *)
(* slice groups by the map.                                                *)
OffPicture ==
  (IF mbx = 0 THEN {"A", "D"} ELSE {}) \union (IF mbx = w - 1 THEN {"C"} ELSE {})
    \union (IF mby = 0 THEN {"B", "C", "D"} ELSE {})
Since == CurrMbAddr - slice.first
BeforeSlice ==
  (IF Since = 0 THEN {"A"} ELSE {}) \union (IF Since < w THEN {"B"} ELSE {})
    \union (IF Since < w - 1 THEN {"C"} ELSE {}) \union (IF Since < w + 1 THEN {"D"} ELSE {})
JustAvailable ==
  (IF Since = 1 THEN {"A"} ELSE {}) \union (IF Since = w THEN {"B"} ELSE {})
    \union (IF Since = w - 1 THEN {"C"} ELSE {}) \union (IF Since = w + 1 THEN {"D"} ELSE {})

AddressOf == [A |-> CurrMbAddr - 1, B |-> CurrMbAddr - w, C |-> CurrMbAddr - w + 1,
              D |-> CurrMbAddr - w - 1]
InSlice(n) == pic.map[n] = slice.group /\ n >= slice.first
fmo_neighbours == OffPicture \union
  {n \in Neighbours \ OffPicture : ~InSlice(AddressOf[n])}

(* Fault: idc 2 filters the edges of other slices too.                     *)
Edges_OwnIdc(un) ==
  IF slice.idc = 1 THEN {}
  ELSE {"inner"} \union (IF mbx > 0 THEN {"left"} ELSE {}) \union (IF mby > 0 THEN {"top"} ELSE {})
(* filter_edges: the edges of the picture never, and with idc 2 those of   *)
(* other slices neither.                                                   *)
Edges(un) ==
  LET left == mbx > 0 /\ ~("A" \in un /\ slice.idc = 2)
      top == mby > 0 /\ ~("B" \in un /\ slice.idc = 2)
  IN IF slice.idc = 1 THEN {}
     ELSE {"inner"} \union (IF left THEN {"left"} ELSE {}) \union (IF top THEN {"top"} ELSE {})

(* The top of the loop: stop at the bound, or point to the neighbours.     *)
BoundReached ==
  /\ pc = "position" /\ CurrMbAddr >= slice.bound
  /\ pc' = "finish"
  /\ UNCHANGED <<pic, k, sliceVars, deblockVars, decoded>>

Position ==
  /\ pc = "position" /\ ~pic.mbaff /\ CurrMbAddr < slice.bound
  /\ LET un == IF Fmo THEN fmo_neighbours ELSE BeforeSlice
     IN /\ near' = [ptr |-> [n \in Neighbours |->
                               IF n \in un THEN Unavailable ELSE mb - Back[n]],
                    unavail |-> OffPicture \union un]
        /\ tables' = IF Fmo THEN Switched(InsideTables, Neighbours \ un)
                            ELSE Switched(tables, JustAvailable)
        /\ filter_edges' = [filter_edges EXCEPT ![CurrMbAddr] = Edges(un)]
  /\ ring' = [ring EXCEPT ![mbc] = CurrMbAddr]
  /\ pc' = "decode"
  /\ UNCHANGED <<pic, k, CurrMbAddr, mbx, mby, mb, mbc, in_turn, next_deblock_addr,
                 frontier, decoded, deblocked>>
---------------------------------------------------------------------------
(* Fault: only one end copied.                                             *)
Copied_LastOnly(r, e) == IF e = RingSize - 1 THEN [r EXCEPT ![-1] = r[e]] ELSE r
(* advance_mbc: to the next entry of the ring, with its ends copied.       *)
Copied(r, e) ==
  LET first == IF e = 0 THEN [r EXCEPT ![RingSize] = r[0]] ELSE r
  IN IF e = RingSize - 1 THEN [first EXCEPT ![-1] = first[e]] ELSE first
NextEntry(e) == (e + 1) % RingSize

(* deblock_mb, and deblock_range for macroblocks in a row: a macroblock    *)
(* deblocks once, as it then clears its edges.                             *)
RECURSIVE DeblockFrom(_, _, _)
DeblockFrom(d, from, to) ==
  IF from >= to THEN d
  ELSE DeblockFrom(
    [edges |-> [d.edges EXCEPT ![from] = {}],
     log |-> IF d.edges[from] = {} THEN d.log ELSE Append(d.log, <<from, d.edges[from]>>)],
    from + 1, to)
Deblock(from, to) == DeblockFrom([edges |-> filter_edges, log |-> deblocked], from, to)
Deblocks(d) == filter_edges' = d.edges /\ deblocked' = d.log

(* Fault: the macroblock above right is deblocked.                         *)
Trail_Right == CurrMbAddr - w + 1
(* The rest of the loop: decode, deblock the macroblock above while it is  *)
(* in cache, and move on, across the entry at the end of a row.            *)
Trail == CurrMbAddr - w
Trails == Trail = next_deblock_addr
LastOfData == Cardinality({a \in Addresses : decoded[a] = k}) + 1 = slice.mbs
DecodeMb ==
  /\ pc = "decode" /\ ~Whole
  /\ decoded' = [decoded EXCEPT ![CurrMbAddr] = k]
  /\ Deblocks(Deblock(Trail, IF Trails THEN Trail + 1 ELSE Trail))
  /\ next_deblock_addr' = IF Trails THEN next_deblock_addr + 1 ELSE next_deblock_addr
  /\ CurrMbAddr' = CurrMbAddr + 1
  /\ LET rowEnds == mbx + 1 >= w
         e == NextEntry(mbc)
         r == Copied(ring, mbc)
     IN /\ mbx' = IF rowEnds THEN 0 ELSE mbx + 1
        /\ mby' = IF rowEnds THEN mby + 1 ELSE mby
        /\ mb' = IF rowEnds THEN mb + 2 ELSE mb + 1
        /\ mbc' = IF rowEnds THEN NextEntry(e) ELSE e
        /\ ring' = IF rowEnds THEN Copied([r EXCEPT ![e] = Unavailable], e) ELSE r
        /\ frontier' = IF ~(rowEnds /\ in_turn) THEN frontier
                       ELSE IF slice.idc # 1 THEN next_deblock_addr' ELSE CurrMbAddr'
  /\ pc' = IF mby' >= pic.h \/ LastOfData THEN "finish" ELSE "position"
  /\ UNCHANGED <<pic, k, tables, near, in_turn>>

(* fmo_next_mb: on to the next macroblock of the slice group.              *)
LaterInGroup == {n \in Addresses : n > CurrMbAddr /\ pic.map[n] = slice.group}
fmo_next_mb ==
  LET n == CHOOSE m \in LaterInGroup : \A o \in LaterInGroup : m <= o
      off == MbOffset(n % w, n \div w)
  IN /\ CurrMbAddr' = n /\ mbx' = n % w /\ mby' = n \div w
     /\ mb' = off /\ mbc' = off % RingSize
     /\ ring' = Copied(ring, mbc)
     /\ pc' = IF LastOfData THEN "finish" ELSE "position"

DecodeFmoMb ==
  /\ pc = "decode" /\ Fmo
  /\ decoded' = [decoded EXCEPT ![CurrMbAddr] = k]
  /\ \/ LaterInGroup # {} /\ fmo_next_mb
     \/ LaterInGroup = {} /\ pc' = "finish"
        /\ UNCHANGED <<CurrMbAddr, mbx, mby, mb, mbc, ring>>
  /\ UNCHANGED <<pic, k, tables, near, deblockVars>>
---------------------------------------------------------------------------
(* initialize_context, after the worker decided whether the slice comes at *)
(* the frontier.  The ring has what the slice before left.                 *)
StartSlice ==
  /\ pc = "slice"
  /\ CurrMbAddr' = slice.first
  /\ mbx' = slice.first % w /\ mby' = slice.first \div w
  /\ mb' = MbOffset(mbx', mby') /\ mbc' = mb' % RingSize
  /\ ring' = [i \in -1 .. RingSize |-> Stale]
  /\ tables' = InsideTables
  /\ in_turn' = (frontier = slice.first /\ ~Whole)
  /\ next_deblock_addr' = IF (in_turn' \/ slice.idc = 2) /\ ~Whole THEN slice.first ELSE NoDeblock
  /\ pc' = "position"
  /\ UNCHANGED <<pic, k, near, filter_edges, frontier, decoded, deblocked>>

(* The end of a slice: deblock its last macroblocks if the slices before   *)
(* it are, all of them if it was not in turn at its start, or with idc 2   *)
(* in any order; and the rest of the picture after its last macroblock.    *)
Turn == ~Whole /\ slice.first <= frontier /\ frontier <= CurrMbAddr
DeblockStart == IF Turn /\ next_deblock_addr = NoDeblock /\ slice.idc = 0 THEN slice.first
                ELSE next_deblock_addr
Complete == \A a \in Addresses : decoded[a] # 0
FinishSlice ==
  /\ pc = "finish"
  /\ LET from == IF DeblockStart >= slice.first THEN DeblockStart ELSE slice.first
         own == Deblock(from, IF DeblockStart = NoDeblock THEN from ELSE CurrMbAddr)
         published == IF Turn THEN CurrMbAddr ELSE frontier
     IN IF Complete
        THEN Deblocks(DeblockFrom(own, published, w * pic.h)) /\ frontier' = w * pic.h
        ELSE Deblocks(own) /\ frontier' = published
  /\ k' = k + 1
  /\ pc' = IF k = Len(pic.slices) THEN "end" ELSE "slice"
  /\ UNCHANGED <<pic, sliceVars, in_turn, next_deblock_addr, decoded>>

LoopInit ==
  /\ k = 1
  /\ CurrMbAddr = 0 /\ mbx = 0 /\ mby = 0 /\ mb = 0 /\ mbc = 0
  /\ ring = [i \in -1 .. RingSize |-> Stale]
  /\ tables = InsideTables
  /\ near = [ptr |-> [n \in Neighbours |-> Unavailable], unavail |-> Neighbours]
  /\ filter_edges = [a \in Addresses |-> {}]
  /\ in_turn = FALSE /\ next_deblock_addr = NoDeblock /\ frontier = 0
  /\ decoded = [a \in Addresses |-> 0]
  /\ deblocked = <<>>
Init == pic \in Pictures /\ pc = "slice" /\ LoopInit

Next == StartSlice \/ BoundReached \/ Position \/ DecodeMb \/ DecodeFmoMb \/ FinishSlice
Spec == Init /\ [][Next]_vars
---------------------------------------------------------------------------
(* The neighbours of the standard: macroblocks next to the current one     *)
(* that the slice decoded (6.4.8), and the blocks that cover the samples   *)
(* left of, above, above right and above left of a block, when decoded     *)
(* before it (6.4.11.4).  Blocks are numbered in their 4x4 order.          *)
Near(n) ==
  LET x == CurrMbAddr % w
      a == AddressOf[n]
      inside == CASE n = "A" -> x > 0 [] n = "B" -> TRUE [] n = "C" -> x < w - 1 [] n = "D" -> x > 0
  IN IF inside /\ a >= 0 /\ decoded[a] = k THEN a ELSE Unavailable

XOf(b) == (b % 2) + 2 * ((b \div 4) % 2)
YOf(b) == ((b \div 2) % 2) + 2 * (b \div 8)
BlockAt(x, y) == (x % 2) + 4 * (x \div 2) + 2 * (y % 2) + 8 * (y \div 2)
Beside(n) == [A |-> <<-1, 0>>, B |-> <<0, -1>>, C |-> <<1, -1>>, D |-> <<-1, -1>>][n]
NearBlock(b, n) ==
  LET x == XOf(b) + Beside(n)[1]
      y == YOf(b) + Beside(n)[2]
      of == CASE x < 0 /\ y < 0 -> "D" [] x < 0 /\ y >= 0 -> "A" [] x > 3 /\ y < 0 -> "C"
              [] x \in 0 .. 3 /\ y < 0 -> "B" [] OTHER -> "own"
      there == BlockAt((x + 4) % 4, (y + 4) % 4)
  IN CASE of = "own" -> IF x <= 3 /\ there < b THEN <<CurrMbAddr, there>> ELSE <<Unavailable, 0>>
       [] OTHER -> IF Near(of) = Unavailable THEN <<Unavailable, 0>> ELSE <<Near(of), there>>

(* What the loop makes of every neighbour of the current macroblock and of *)
(* its blocks is what the standard says, through the array, and for A and  *)
(* B through the ring as well; a neighbour it has not gets the values of   *)
(* unavail_mb, or those the macroblock itself starts with.                 *)
InArray(e) == MbAt(mb - Back[e[1]])
InRing(e) == ring[mbc + RingStep[e[1]]]
NeighboursAsStandard ==
  pc = "decode" /\ ~pic.mbaff =>
    /\ \A n \in Neighbours :
         /\ n \in near.unavail <=> Near(n) = Unavailable
         /\ near.ptr[n] # Unavailable => MbAt(near.ptr[n]) = Near(n)
         /\ near.ptr[n] = Unavailable => Near(n) = Unavailable
    /\ \A b \in 0 .. 15, n \in Neighbours :
         LET e == tables[n][b]
             std == NearBlock(b, n)
         IN IF std[1] = Unavailable
            THEN /\ n \in block_unavailability(near.unavail)[b]
                 /\ n \in {"A", "B"} => InRing(e) \in {CurrMbAddr, Unavailable}
            ELSE /\ n \notin block_unavailability(near.unavail)[b]
                 /\ <<InArray(e), e[2]>> = std
                 /\ n \in {"A", "B"} => InRing(e) = std[1]
    /\ \A b \in ChromaBlocks :
         LET at(n) == tables[IF n = "A" THEN "cA" ELSE "cB"][b]
             here == [A |-> b % 2 = 1, B |-> ~Top(b)]
             block == [A |-> IF here.A THEN b - 1 ELSE b + 1,
                       B |-> IF here.B THEN b - 2 ELSE b + 2 * (ChromaRows - 1)]
         IN \A n \in {"A", "B"} :
              CASE here[n] -> at(n) = <<"own", block[n]>>
                [] ~here[n] /\ Near(n) # Unavailable -> InRing(at(n)) = Near(n) /\ at(n)[2] = block[n]
                [] OTHER -> InRing(at(n)) \in {CurrMbAddr, Unavailable}

(* The samples intra prediction reads next to the current macroblock are   *)
(* those before deblocking (8.3), though the row above is deblocked just   *)
(* behind it.  Deblocking a macroblock leaves its last corner alone, which *)
(* the macroblocks right of it and below it change.                        *)
Filtered(a, edges) ==
  {<<a, "bottom">>, <<a, "right">>}
    \union (IF "left" \in edges THEN {<<a - 1, "right">>, <<a - 1, "corner">>} ELSE {})
    \union (IF "top" \in edges THEN {<<a - w, "bottom">>, <<a - w, "corner">>} ELSE {})
Reads(n) == [A |-> {"right", "corner"}, B |-> {"bottom", "corner"}, C |-> {"bottom"},
             D |-> {"corner"}][n]
IntraReadsUnfiltered ==
  pc = "decode" /\ ~pic.mbaff =>
    \A n \in Neighbours \ near.unavail, i \in DOMAIN deblocked :
      Filtered(deblocked[i][1], deblocked[i][2]) \intersect ({AddressOf[n]} \X Reads(n)) = {}

(* Every macroblock of a complete picture is deblocked once, with the      *)
(* edges the standard gives it (8.7), and across an edge after the         *)
(* macroblock left of or above it, whatever the order of the slices.       *)
StandardEdges(a) ==
  LET s == pic.slices[decoded[a]]
      filters(b) == s.idc # 2 \/ decoded[b] = decoded[a]
  IN IF s.idc = 1 THEN {}
     ELSE {"inner"} \union (IF a % w > 0 /\ filters(a - 1) THEN {"left"} ELSE {})
            \union (IF a >= w /\ filters(a - w) THEN {"top"} ELSE {})
Before(i, a) == StandardEdges(a) = {} \/ \E j \in 1 .. i - 1 : deblocked[j][1] = a
DeblockedOnce == ~pic.mbaff =>
  /\ \A i \in DOMAIN deblocked :
       LET a == deblocked[i][1]
           edges == deblocked[i][2]
       IN /\ decoded[a] # 0 /\ edges = StandardEdges(a)
          /\ "left" \in edges => decoded[a - 1] # 0 /\ Before(i, a - 1)
          /\ "top" \in edges => decoded[a - w] # 0 /\ Before(i, a - w)
          /\ \A j \in 1 .. i - 1 : deblocked[j][1] # a
  /\ pc = "end" /\ Complete =>
       \A a \in Addresses : StandardEdges(a) # {} => \E i \in DOMAIN deblocked : deblocked[i][1] = a
=============================================================================
