----------------------------- MODULE Numbering -----------------------------
(***************************************************************************)
(* The numbers a decoder goes by, which a stream codes with a few bits:    *)
(* FrameNum (derive_FrameNum), picture order counts of the three types,    *)
(* and the ages of tasks, which wrap around (oldest_task).  The code never *)
(* lets FrameNum start again; 8.2.1 does so at every IDR picture.          *)
(***************************************************************************)
EXTENDS Integers, Sequences, SequencesExt

(* A difference known by its low bits, from -size/2 to size/2 - 1          *)
SignExtended(x, size) == IF x % size >= size \div 2 THEN (x % size) - size ELSE x % size

(* Fault: a second field counts a whole cycle of frame_num on *)
derive_FrameNum_NoPair(prev, p, max) == prev + 1 + ((p.num - prev - 1) % max)

derive_FrameNum(prev, p, max) ==
  IF p.field # "frame" /\ (p.num - prev) % max = 0 THEN prev
  ELSE prev + 1 + ((p.num - prev - 1) % max)

(* Order counts of the fields of a picture p of a sequence sps: of a field *)
(* both are its own.  sps.sums are the sums of the offsets of a cycle.     *)
Cycle(sps, n) ==
  IF n <= 0 THEN 0
  ELSE ((n - 1) \div Len(sps.sums)) * Last(sps.sums) + sps.sums[((n - 1) % Len(sps.sums)) + 1]
OrderCounts(sps, p, prevCount, FrameNum) ==
  LET number == IF sps.sums = <<>> THEN 0 ELSE FrameNum
      counted == IF ~p.ref /\ number > 0 THEN number - 1 ELSE number
      top == CASE sps.type = 0 -> prevCount + SignExtended(p.lsb - prevCount, sps.lsbs)
               [] sps.type = 1 -> p.delta[1] + (IF p.ref THEN 0 ELSE sps.nonRef) + Cycle(sps, counted)
               [] OTHER -> 2 * FrameNum - (IF p.ref THEN 0 ELSE 1)
      bottom == CASE sps.type = 0 -> top + (IF p.field = "frame" THEN p.delta[2] ELSE 0)
                  [] sps.type = 1 -> top + sps.toBottom + (IF p.field = "frame" THEN p.delta[2] ELSE 0)
                  [] OTHER -> top
  IN CASE sps.type = 1 /\ p.field = "top" -> <<top, top>>
       [] sps.type = 1 /\ p.field = "bottom" -> <<bottom, bottom>>
       [] OTHER -> <<top, bottom>>

(* What a reference picture leaves for the next one (unset_currPic); the   *)
(* operation that unmarks all pictures (reset) restarts both numbers.      *)
Lower(c) == IF c[1] < c[2] THEN c[1] ELSE c[2]
Unwrapped(sps, pics) ==
  LET step(x, p) ==
        LET num == derive_FrameNum(x.num, p, sps.max)
            counts == OrderCounts(sps, p, x.count, num)
            own == counts[IF p.field = "bottom" THEN 2 ELSE 1]
        IN [num |-> CASE ~p.ref -> x.num [] p.reset -> 0 [] OTHER -> num,
            count |-> CASE ~p.ref -> x.count [] p.reset -> own - Lower(counts) [] OTHER -> own,
            out |-> Append(x.out, counts)]
  IN FoldLeft(step, [num |-> -1, count |-> 0, out |-> <<>>], pics).out

(* The task whose number, of a word of the given size, comes first         *)
oldest_task(seq, tasks, size) ==
  LET S == SetToSeq(tasks)
  IN FoldLeft(LAMBDA t, i : IF SignExtended(seq[i] - seq[t], size) < 0 THEN i ELSE t, S[1], S)
---------------------------------------------------------------------------
(* The standard (8.2.1).  x keeps prevFrameNum, prevFrameNumOffset,        *)
(* prevPicOrderCntMsb and prevPicOrderCntLsb.                              *)
StdMsb(sps, p, msb, lsb) ==
  CASE p.lsb < lsb /\ lsb - p.lsb >= sps.lsbs \div 2 -> msb + sps.lsbs
    [] p.lsb > lsb /\ p.lsb - lsb > sps.lsbs \div 2 -> msb - sps.lsbs
    [] OTHER -> msb
StdExpected(sps, abs) ==
  LET n == Len(sps.sums)
      frame(i) == sps.sums[i] - (IF i = 1 THEN 0 ELSE sps.sums[i - 1])
  IN IF abs = 0 THEN 0
     ELSE ((abs - 1) \div n) * Last(sps.sums)
            + FoldLeft(LAMBDA a, i : a + frame(i), 0, [i \in 1 .. ((abs - 1) % n) + 1 |-> i])
StdPicture(sps, x, p) ==
  LET msb == StdMsb(sps, p, IF p.idr THEN 0 ELSE x.msb, IF p.idr THEN 0 ELSE x.lsb)
      offset == CASE p.idr -> 0 [] x.num > p.num -> x.offset + sps.max [] OTHER -> x.offset
      abs0 == IF sps.sums = <<>> THEN 0 ELSE offset + p.num
      abs == IF ~p.ref /\ abs0 > 0 THEN abs0 - 1 ELSE abs0
      expected == StdExpected(sps, abs) + (IF p.ref THEN 0 ELSE sps.nonRef)
      top == CASE sps.type = 0 -> msb + p.lsb
               [] sps.type = 1 -> expected + p.delta[1]
               [] OTHER -> IF p.idr THEN 0 ELSE 2 * (offset + p.num) - (IF p.ref THEN 0 ELSE 1)
      bottom == CASE sps.type = 0 -> IF p.field = "frame" THEN top + p.delta[2] ELSE msb + p.lsb
                  [] sps.type = 1 -> IF p.field = "frame" THEN top + sps.toBottom + p.delta[2]
                                     ELSE expected + sps.toBottom + p.delta[1]
                  [] OTHER -> top
      counts == CASE p.field = "frame" -> <<top, bottom>>
                  [] p.field = "top" -> <<top, top>>
                  [] OTHER -> <<bottom, bottom>>
  IN [num |-> IF p.reset THEN 0 ELSE p.num, offset |-> IF p.reset THEN 0 ELSE offset,
      msb |-> CASE ~p.ref -> x.msb [] p.reset -> 0 [] OTHER -> msb,
      lsb |-> CASE ~p.ref -> x.lsb
                [] p.reset -> IF p.field = "bottom" THEN 0 ELSE counts[1] - Lower(counts)
                [] OTHER -> p.lsb,
      out |-> Append(x.out, counts)]
StdCounts(sps, pics) ==
  FoldLeft(LAMBDA x, p : StdPicture(sps, x, p),
           [num |-> 0, offset |-> 0, msb |-> 0, lsb |-> 0, out |-> <<>>], pics).out

(* From one IDR picture to the next the order counts differ from those of  *)
(* 8.2.1 by the same amount, which is 0 after a reset.                     *)
UnwrappedAsIn(sps, pics) ==
  LET code == Unwrapped(sps, pics)
      std == StdCounts(sps, pics)
      shift(i, f) == code[i][f] - std[i][f]
  IN \A i \in DOMAIN pics, f \in {1, 2} :
       CASE pics[i].idr -> shift(i, f) = shift(i, 1)
         [] pics[i - 1].reset -> shift(i, f) = 0
         [] OTHER -> shift(i, f) = shift(i - 1, 1)

(* A task number is the age of the task, its low bits only *)
OldestAsIn(ages, size) ==
  LET seq == [i \in DOMAIN ages |-> ages[i] % size]
  IN \A S \in SUBSET (DOMAIN ages) :
       S # {} => \A i \in S : ages[oldest_task(seq, S, size)] <= ages[i]
=============================================================================
