------------------------------ MODULE RefLists -----------------------------
(***************************************************************************)
(* The reference lists of a slice (parse_ref_pic_list_modification): the   *)
(* initial ones and their modifications.  An entry is a picture, a field   *)
(* <<slot, parity>> or a frame <<slot, 0>>, or NoPic.                      *)
(***************************************************************************)
EXTENDS RefPics

NoPic == <<None, None>>
InOrder(S, key(_)) == SetToSortSeq(S, LAMBDA s, t : key(s) < key(t) \/ (key(s) = key(t) /\ s < t))

(* A slice c: its marks and order counts (d, with d.poc), the fields of    *)
(* its picture, its FrameNum and order count (num, top), whether it is a B *)
(* slice and whether order counts are of type 0 (b, type0), the base view  *)
(* it may predict from (base), the entries in use of each list (active),   *)
(* and its modifications (mods), each [idc, arg].                          *)

Far == 1000           \* larger than any distance
Distance(x, top) == IF x <= top THEN top - x ELSE Far + x - top
IsAhead(key) == key >= Far

(* init_field_lists: frames in order, then their fields by turns           *)
append_fields(frames, marked, p) ==
  LET of(q) == SelectSeq(frames, LAMBDA s : s \in marked[q])
      n == 2 * IF Len(of(p)) < Len(of(1 - p)) THEN Len(of(p)) ELSE Len(of(1 - p))
      q == IF Len(of(p)) > Len(of(1 - p)) THEN p ELSE 1 - p
  IN [i \in 1 .. n |-> IF i % 2 = 1 THEN <<of(p)[(i + 1) \div 2], p>> ELSE <<of(1 - p)[i \div 2], 1 - p>>]
       \o [i \in 1 .. Len(of(q)) - (n \div 2) |-> <<of(q)[i + (n \div 2)], q>>]

LowerCount(d, s) == IF d.poc[0][s] < d.poc[1][s] THEN d.poc[0][s] ELSE d.poc[1][s]

init_field_lists(c) ==
  LET d == c.d
      gaps == IF c.b /\ c.type0 THEN d.short \intersect d.long ELSE {}
      shorts == [q \in Parity |-> (d.sf[q] \intersect d.short) \ gaps]
      longs == [q \in Parity |-> (d.lf[q] \intersect d.long) \ d.sf[q]]
      Key(s) == IF c.b THEN Distance(LowerCount(d, s), c.top) ELSE -d.num[s]
      frames == InOrder(Either(shorts), Key)
      ahead == SelectSeq(frames, LAMBDA s : IsAhead(Key(s)))
      behind == SelectSeq(frames, LAMBDA s : ~IsAhead(Key(s)))
      long == append_fields(InOrder(Either(longs), LAMBDA s : d.idx[s]), longs, ParityOf(c))
  IN <<append_fields(frames, shorts, ParityOf(c)) \o long,
       IF c.b THEN append_fields(ahead \o behind, shorts, ParityOf(c)) \o long ELSE <<>> >>

(* Frames predict from the frames of which both fields are marked          *)
init_frame_lists(c) ==
  LET d == c.d
      short == d.short \intersect Both(d.sf)
      long == d.long \intersect Both(d.lf)
      refs0 == IF c.b /\ c.type0 THEN (short \ long) \union (long \ short) ELSE short \union long
      Key(s) == IF c.b THEN Distance(d.poc[0][s], c.top) ELSE Distance(d.num[s], c.num)
      Idx(s) == d.idx[s]
      shorts == InOrder(refs0 \intersect short, Key)
      ahead == SelectSeq(shorts, LAMBDA s : IsAhead(Key(s)))
      behind == SelectSeq(shorts, LAMBDA s : ~IsAhead(Key(s)))
      longs == InOrder(refs0 \ short, Idx)
      Entries(q) == [i \in DOMAIN q |-> <<q[i], 0>>]
  IN << Entries(behind \o ahead \o longs), Entries(ahead \o behind \o longs) >>

(* List 1 differs from list 0 in its first two entries at least; of frames *)
(* it does unless the first ones are the same                              *)
Swapped(c, lists) ==
  LET a == lists[1]
      b == lists[2]
      same == IF IsField(c) THEN a = b ELSE a # <<>> /\ a[1] = b[1]
  IN IF Len(a) > 1 /\ same THEN <<a, <<a[2], a[1]>> \o SubSeq(b, 3, Len(b))>> ELSE lists

(* The frame or field of the base view comes after the others              *)
BasePic(c) ==
  IF c.base = None THEN NoPic ELSE <<c.base, IF IsField(c) THEN ParityOf(c) ELSE 0>>
WithBase(c, list) == IF c.base = None THEN list ELSE Append(list, BasePic(c))
(* Fault: the lists are compared once the base view is appended *)
initial_lists_BaseFirst(c) ==
  LET lists == IF IsField(c) THEN init_field_lists(c) ELSE init_frame_lists(c)
  IN Swapped(c, [l \in {1, 2} |-> WithBase(c, lists[l])])

initial_lists(c) ==
  LET lists == IF IsField(c) THEN init_field_lists(c) ELSE init_frame_lists(c)
  IN [l \in {1, 2} |-> WithBase(c, Swapped(c, lists)[l])]

(* The picture a modification names by PicNum, modulo the largest one, or  *)
(* by LongTermPicNum                                                       *)
Named(c, idc, n) ==
  LET d == c.d
      two == IsField(c)
      Num(x, q) == IF two THEN 2 * x + (IF q = ParityOf(c) THEN 1 ELSE 0) ELSE x
      shorts == IF two THEN {x \in d.short \X Parity : x[1] \in d.sf[x[2]]}
                ELSE (d.short \intersect Both(d.sf)) \X {0}
      longs == IF two THEN {x \in LongOnly(d) \X Parity : x[1] \in d.lf[x[2]] \ d.sf[x[2]]}
               ELSE ((d.long \intersect Both(d.lf)) \ (d.short \intersect Both(d.sf))) \X {0}
      modulus == IF two THEN 2 * c.wrap ELSE c.wrap
      hits == IF idc < 2 THEN {x \in shorts : (Num(d.num[x[1]], x[2]) - n) % modulus = 0}
              ELSE {x \in longs : Num(d.idx[x[1]], x[2]) = n}
      inSlot == {x \in hits : x[1] \in First({y[1] : y \in hits})}
  IN IF idc > 3 THEN BasePic(c) ELSE IF hits = {} THEN NoPic
     ELSE CHOOSE x \in inSlot : \A y \in inSlot : y[2] <= x[2]

(* It takes entry i of the list and moves the others up to where it was    *)
Moved(list, i, pic, active) ==
  LET at == {k \in i .. active : list[k] = pic}
      end == IF at = {} THEN (IF i < active THEN active ELSE i) ELSE CHOOSE k \in First(at) : TRUE
  IN [k \in DOMAIN list |-> CASE k = i -> pic
                              [] k \in i + 1 .. end -> list[k - 1]
                              [] OTHER -> list[k]]

(* PicNum differences are relative to the last one named *)
Step(c, idc, num, arg) == CASE idc = 0 -> num - (arg + 1) [] idc = 1 -> num + arg + 1 [] OTHER -> num
CurrPicNum(c) == IF IsField(c) THEN 2 * c.num + 1 ELSE c.num
Modified(c, list) ==
  LET step(x, o) ==
        LET num == Step(c, o.idc, x.num, o.arg)
        IN [list |-> Moved(x.list, x.i, Named(c, o.idc, IF o.idc < 2 THEN num ELSE o.arg), c.active),
            i |-> x.i + 1, num |-> num]
  IN FoldLeft(step, [list |-> list, i |-> 1, num |-> CurrPicNum(c)], c.mods).list

Padded(list, n) == [i \in 1 .. n |-> IF i \in DOMAIN list THEN list[i] ELSE NoPic]

(* Entries without a picture are replaced, or the slice rejected (<<>>)    *)
Repaired(c, list) ==
  LET bad(x) == x \in {NoPic, <<c.cur, IF IsField(c) THEN ParityOf(c) ELSE 0>>}
      good == {i \in DOMAIN list : ~bad(list[i])}
  IN [i \in IF good = {} THEN {} ELSE DOMAIN list |->
        IF bad(list[i]) THEN list[CHOOSE j \in First(good) : TRUE] ELSE list[i]]

parse_ref_pic_list_modification(c) ==
  LET size == c.active + Len(c.mods) + 8
  IN [l \in 1 .. (IF c.b THEN 2 ELSE 1) |->
        Repaired(c, SubSeq(Modified(c, Padded(initial_lists(c)[l], size)), 1, c.active))]
---------------------------------------------------------------------------
(* The standard (8.2.4): lists by what they hold and in which order.       *)
StdFields(c, kind) ==
  {x \in Slot \X Parity :
     /\ x[1] \in (IF kind = "short" THEN c.d.sf ELSE c.d.lf)[x[2]]
     /\ x[1] \in (IF kind = "short" THEN c.d.short ELSE LongOnly(c.d))
     /\ ~(c.b /\ c.type0 /\ x[1] \in c.d.short \intersect c.d.long)}
StdFrameSlots(c, kind) == {s \in Slot : {s} \X Parity \subseteq StdFields(c, kind)}
(* Order count of the fields decoded of a frame, the one decoded before    *)
(* the current one of its own frame                                        *)
StdCount(c, s) == IF s = c.cur THEN c.d.poc[1 - ParityOf(c)][s] ELSE LowerCount(c.d, s)
StdBefore(c, l, s, t) ==
  LET ps == StdCount(c, s)
      pt == StdCount(c, t)
      side(x) == (x <= c.top) = (l = 1)
  IN IF ~c.b THEN c.d.num[s] > c.d.num[t]
     ELSE IF side(ps) # side(pt) THEN side(ps)
     ELSE IF ps <= c.top THEN ps > pt ELSE ps < pt
StdIdxBefore(c, s, t) == c.d.idx[s] < c.d.idx[t]

(* Entries of one kind by turns of parity, and within a parity in order    *)
ByTurns(list, p, Before(_, _)) ==
  /\ \A i, j \in DOMAIN list : i < j /\ list[i][2] = list[j][2] => Before(list[i][1], list[j][1])
  /\ \A i \in DOMAIN list :
       LET of(q, S) == Cardinality({j \in S : list[j][2] = q})
           turn == IF of(p, 1 .. i - 1) <= of(1 - p, 1 .. i - 1) THEN p ELSE 1 - p
       IN list[i][2] = IF of(turn, i .. Len(list)) > 0 THEN turn ELSE 1 - turn
AsOrdered(c, list, S, Before(_, _)) ==
  /\ Range(list) = S /\ Len(list) = Cardinality(S)
  /\ IF IsField(c) THEN ByTurns(list, ParityOf(c), Before)
     ELSE \A i, j \in DOMAIN list : i < j => Before(list[i][1], list[j][1])
StdSet(c, kind) == IF IsField(c) THEN StdFields(c, kind) ELSE StdFrameSlots(c, kind) \X {0}
InitialAsIn(c) ==
  LET lists == initial_lists(c)
      n == Cardinality(StdSet(c, "short"))
      m == n + Cardinality(StdSet(c, "long"))
      temporal(l) == SubSeq(lists[l], 1, m)
      Ordered(list, l) ==
        /\ AsOrdered(c, SubSeq(list, 1, n), StdSet(c, "short"), LAMBDA s, t : StdBefore(c, l, s, t))
        /\ AsOrdered(c, SubSeq(list, n + 1, m), StdSet(c, "long"), LAMBDA s, t : StdIdxBefore(c, s, t))
      first == temporal(1)
  IN /\ \A l \in 1 .. (IF c.b THEN 2 ELSE 1) :
          SubSeq(lists[l], m + 1, Len(lists[l])) = IF c.base = None THEN <<>> ELSE <<BasePic(c)>>
     /\ Ordered(first, 1)
     /\ c.b => IF m > 1 /\ Ordered(first, 2)
               THEN temporal(2) = <<first[2], first[1]>> \o SubSeq(first, 3, m)
               ELSE Ordered(temporal(2), 2)

(* PicNum and LongTermPicNum (8.2.4.1): frame_num starts again after c.wrap *)
(* pictures, and fields of the parity of the current one come first.       *)
StdFrameNumWrap(c, s) ==
  (c.d.num[s] % c.wrap) - (IF c.d.num[s] % c.wrap > c.num % c.wrap THEN c.wrap ELSE 0)
StdPictureNumber(c, x, n) ==
  CASE ~IsField(c) -> n [] IsField(c) /\ x[2] = ParityOf(c) -> 2 * n + 1 [] OTHER -> 2 * n
StdPicNum(c, x) == StdPictureNumber(c, x, StdFrameNumWrap(c, x[1]))
StdLongTermPicNum(c, x) == StdPictureNumber(c, x, c.d.idx[x[1]])
StdMaxPicNum(c) == IF IsField(c) THEN 2 * c.wrap ELSE c.wrap
StdCurrPicNum(c) == IF IsField(c) THEN 2 * (c.num % c.wrap) + 1 ELSE c.num % c.wrap

(* picNumLXNoWrap after the number before it (8-34, 8-35), and the picture *)
(* that a modification then names (8-36), if there is one.                 *)
StdNoWrap(c, o, pred) ==
  LET diff == o.arg + 1
  IN CASE o.idc = 0 -> pred - diff + (IF pred < diff THEN StdMaxPicNum(c) ELSE 0)
       [] o.idc = 1 -> pred + diff - (IF pred + diff >= StdMaxPicNum(c) THEN StdMaxPicNum(c) ELSE 0)
       [] OTHER -> pred
StdNamed(c, o, noWrap) ==
  LET num == noWrap - (IF noWrap > StdCurrPicNum(c) THEN StdMaxPicNum(c) ELSE 0)
      named == CASE o.idc < 2 -> {x \in StdSet(c, "short") : StdPicNum(c, x) = num}
                 [] o.idc = 2 -> {x \in StdSet(c, "long") : StdLongTermPicNum(c, x) = o.arg}
                 [] OTHER -> {BasePic(c)}
  IN IF named = {} THEN NoPic ELSE CHOOSE x \in named : TRUE

(* A modification puts its picture at the next entry of the list, without  *)
(* it after that, as long as the list is (8-37, 8-38).                     *)
StdModified(c, list) ==
  LET step(x, o) ==
        LET num == StdNoWrap(c, o, x.num)
            pic == StdNamed(c, o, num)
            rest == SelectSeq(SubSeq(x.list, x.i, Len(x.list)), LAMBDA y : y # pic)
        IN [list |-> SubSeq(x.list, 1, x.i - 1) \o <<pic>> \o rest, i |-> x.i + 1, num |-> num]
  IN FoldLeft(step, [list |-> list, i |-> 1, num |-> StdCurrPicNum(c)], c.mods).list
ModifiedAsIn(c) ==
  LET lists == parse_ref_pic_list_modification(c)
      all == StdModified(c, initial_lists(c)[1])
      std == SubSeq(all, 1, IF c.active < Len(all) THEN c.active ELSE Len(all))
  IN /\ NoPic \notin Range(std) => IsPrefix(std, lists[1])
     /\ \A i \in DOMAIN lists[1] : lists[1][i] # NoPic
     /\ lists[1] # <<>> => Len(lists[1]) = c.active
=============================================================================
