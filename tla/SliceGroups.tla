---------------------------- MODULE SliceGroups ----------------------------
(***************************************************************************)
(* The slice groups of a picture (FMO): derive_fmo_map, which gives each   *)
(* macroblock of a picture of w by h macroblocks its group (8.2.2.1 to     *)
(* 8.2.2.8), once per picture.  A map is a function on addresses.          *)
(***************************************************************************)
EXTENDS Integers, Sequences, FiniteSetsExt

Units(w, h) == 0 .. w * h - 1
Least(a, b) == IF a < b THEN a ELSE b
Most(a, b) == IF a > b THEN a ELSE b

(* MapUnitsInSliceGroup0 (7-34), computed in 64 bits as the change cycle   *)
(* and rate may be near 2^32, and sizeOfUpperLeftGroup (7-35).             *)
UnitsInGroup0(pps, cycle, size) == Least(cycle * pps.rate, size)
(* Fault: whatever the direction.                                          *)
UpperLeft_Forward(pps, cycle, size) == UnitsInGroup0(pps, cycle, size)
UpperLeft(pps, cycle, size) ==
  IF pps.flag = 1 THEN size - UnitsInGroup0(pps, cycle, size) ELSE UnitsInGroup0(pps, cycle, size)

(* Type 0: runs of each group in turn until the picture is full.           *)
RECURSIVE Runs(_, _, _, _)
Runs(pps, size, i, g) ==
  IF i >= size THEN <<>>
  ELSE [j \in 1 .. pps.runs[g + 1] |-> g] \o
       Runs(pps, size, i + pps.runs[g + 1], (g + 1) % pps.n)
Interleaved(pps, w, h) ==
  LET r == Runs(pps, w * h, 0, 0) IN [i \in Units(w, h) |-> r[i + 1]]

(* Type 1: a checkered pattern whose rows shift by half the groups.        *)
Dispersed(pps, w, h) == [i \in Units(w, h) |-> ((i % w) + ((i \div w) * pps.n) \div 2) % pps.n]

(* Type 2: rectangles filled from the last group to the first, which wins; *)
(* the last group is what they leave.                                      *)
InRectangle(pps, g, i, w) ==
  LET tl == pps.top_left[g + 1]
      br == pps.bottom_right[g + 1]
  IN /\ i \div w \in tl \div w .. br \div w
     /\ i % w \in tl % w .. br % w
Foreground(pps, w, h) ==
  [i \in Units(w, h) |->
    Min({pps.n - 1} \union {g \in 0 .. pps.n - 2 : InRectangle(pps, g, i, w)})]

(* Type 3: a box that grows around the centre, clockwise or not, taking    *)
(* each unit it comes to.  A turn at a bound moves the bound by one (to    *)
(* the edge of the picture) and changes direction.                         *)
BoxTurn(b, flag, w, h) ==
  CASE b.xDir = -1 /\ b.x = b.left ->
         [b EXCEPT !.left = Most(@ - 1, 0), !.x = Most(b.left - 1, 0),
                   !.xDir = 0, !.yDir = 2 * flag - 1]
    [] b.xDir = 1 /\ b.x = b.right ->
         [b EXCEPT !.right = Least(@ + 1, w - 1), !.x = Least(b.right + 1, w - 1),
                   !.xDir = 0, !.yDir = 1 - 2 * flag]
    [] b.yDir = -1 /\ b.y = b.top ->
         [b EXCEPT !.top = Most(@ - 1, 0), !.y = Most(b.top - 1, 0),
                   !.xDir = 1 - 2 * flag, !.yDir = 0]
    [] b.yDir = 1 /\ b.y = b.bottom ->
         [b EXCEPT !.bottom = Least(@ + 1, h - 1), !.y = Least(b.bottom + 1, h - 1),
                   !.xDir = 2 * flag - 1, !.yDir = 0]
    [] OTHER -> [b EXCEPT !.x = @ + b.xDir, !.y = @ + b.yDir]

StepBound(size) == 8 * size + 16
RECURSIVE BoxOut(_, _, _, _, _, _)
BoxOut(b, flag, units, steps, w, h) ==
  IF Cardinality(b.filled) >= units \/ steps >= StepBound(w * h) THEN b.filled
  ELSE BoxOut(BoxTurn([b EXCEPT !.filled = @ \union {b.y * w + b.x}], flag, w, h),
              flag, units, steps + 1, w, h)
BoxStart(flag, w, h) ==
  LET x == (w - flag) \div 2
      y == (h - flag) \div 2
  IN [x |-> x, y |-> y, left |-> x, right |-> x, top |-> y, bottom |-> y,
      xDir |-> flag - 1, yDir |-> flag, filled |-> {}]
BoxMap(pps, cycle, w, h) ==
  LET box == BoxOut(BoxStart(pps.flag, w, h), pps.flag, UnitsInGroup0(pps, cycle, w * h), 0, w, h)
  IN [i \in Units(w, h) |-> IF i \in box THEN 0 ELSE 1]

(* Types 4 and 5: the first units by rows, or by columns.                  *)
Raster(pps, cycle, w, h) ==
  [i \in Units(w, h) |-> IF i < UpperLeft(pps, cycle, w * h) THEN pps.flag ELSE 1 - pps.flag]
Wipe(pps, cycle, w, h) ==
  [i \in Units(w, h) |->
    IF (i % w) * h + i \div w < UpperLeft(pps, cycle, w * h) THEN pps.flag ELSE 1 - pps.flag]

(* Type 6: the ids the PPS lists, as far as they go.                       *)
Explicit(pps, w, h) ==
  [i \in Units(w, h) |-> IF i < Len(pps.ids) THEN pps.ids[i + 1] ELSE 0]

FmoMap(pps, cycle, w, h) ==
  CASE pps.type = 0 -> Interleaved(pps, w, h)
    [] pps.type = 1 -> Dispersed(pps, w, h)
    [] pps.type = 2 -> Foreground(pps, w, h)
    [] pps.type = 3 -> BoxMap(pps, cycle, w, h)
    [] pps.type = 4 -> Raster(pps, cycle, w, h)
    [] pps.type = 5 -> Wipe(pps, cycle, w, h)
    [] OTHER -> Explicit(pps, w, h)
=============================================================================
