------------------------------ MODULE RefPics ------------------------------
(***************************************************************************)
(* Reference pictures of one view: the marking that a picture leaves       *)
(* (parse_dec_ref_pic_marking), of frames and of fields, and the frames    *)
(* inferred for gaps of frame_num.                                         *)
(*                                                                         *)
(* Frames are marked as wholes (short, long) and field by field (sf, lf),  *)
(* a field counting only while its frame does; a frame inferred for a gap  *)
(* of frame_num is marked both ways.  A field is <<slot, parity>>.         *)
(***************************************************************************)
EXTENDS Integers, Sequences, FiniteSets, SequencesExt, FiniteSetsExt

CONSTANTS Slot,       \* slots of the view, numbers from 0 on
          MaxRefs,    \* max_num_ref_frames
          Commands,   \* lists of memory management operations a picture may have
          MaxPics,    \* bound: pictures decoded
          MaxDamaged  \* bound: pictures decoded of a damaged stream

Parity == {0, 1}      \* of the top and the bottom field
None == -1
First(S) == {s \in S : \A t \in S : s <= t}
LowestBy(S, key(_)) == First({s \in S : \A t \in S : key(s) <= key(t)})
Both(f) == f[0] \intersect f[1]
Either(f) == f[0] \union f[1]
Less(f, S) == [q \in Parity |-> f[q] \ S]
NoMarks == [short |-> {}, long |-> {}, sf |-> [q \in Parity |-> {}], lf |-> [q \in Parity |-> {}],
            num |-> [s \in Slot |-> 0], idx |-> [s \in Slot |-> 0]]
---------------------------------------------------------------------------
(* A picture p has its slot (cur), its fields (parities), its FrameNum,    *)
(* whether it is an IDR picture (idr), and as ops "none" (sliding window), *)
(* or its memory management operations [op, arg, idx].                     *)

IsField(p) == Cardinality(p.fields) = 1
ParityOf(p) == CHOOSE q \in p.fields : TRUE

(* The frames of slots S get the marks of their fields *)
MarkFromFields(d, S) ==
  [d EXCEPT !.short = (@ \ S) \union (S \intersect Either(d.sf)),
            !.long = (@ \ S) \union (S \intersect Either(d.lf))]

LongOnly(d) == d.long \ d.short

(* Fields whose PicNum (of short-term ones) or LongTermPicNum is n *)
FieldsNumbered(S, marked, value, n, p) ==
  {<<s, q>> \in S \X Parity : s \in marked[q] /\ 2 * value[s] + (IF q = ParityOf(p) THEN 1 ELSE 0) = n}

(* Long-term frames that give up their index to an operation *)
Released(d, o, keep) ==
  {s \in LongOnly(d) : s # keep /\ d.idx[s] >= o.idx /\ (o.op = 4 \/ d.idx[s] = o.idx)}

FieldCommand(d, p, o) ==
  LET hits == FieldsNumbered(d.short, d.sf, d.num, 2 * p.num - o.arg, p)
      slots == First({h[1] : h \in hits})
      target == IF slots = {} THEN None ELSE CHOOSE s \in slots : TRUE
      parity == IF <<target, 1>> \in hits THEN 1 ELSE 0
      longHits == FieldsNumbered(LongOnly(d), d.lf, d.idx, o.arg, p)
      keep == CASE o.op = 6 -> p.cur [] o.op = 3 -> target [] OTHER -> None
      freed == Released(d, o, keep)
      released == MarkFromFields([d EXCEPT !.lf = Less(@, freed)], freed)
  IN CASE o.op = 1 -> IF target = None THEN d
                      ELSE MarkFromFields([d EXCEPT !.sf[parity] = @ \ {target}], {target})
       [] o.op = 2 -> MarkFromFields(
                        [d EXCEPT !.lf = [q \in Parity |-> @[q] \ {h[1] : h \in {x \in longHits : x[2] = q}}]],
                        {h[1] : h \in longHits})
       [] o.op = 3 -> IF target = None THEN released
                      ELSE MarkFromFields([released EXCEPT !.sf[parity] = @ \ {target},
                                             !.lf[parity] = @ \union {target}, !.idx[target] = o.idx], {target})
       [] o.op = 4 -> released
       [] o.op = 5 -> [NoMarks EXCEPT !.num = [d.num EXCEPT ![p.cur] = 0]]
       [] OTHER -> [released EXCEPT !.idx[p.cur] = o.idx]

FrameCommand(d, p, o) ==
  LET hits == {s \in d.short : d.num[s] = p.num - 1 - o.arg}
      target == IF hits = {} THEN p.cur ELSE CHOOSE s \in hits : \A t \in hits : t <= s
      dropped == IF o.op \in {1, 3} THEN [d EXCEPT !.short = @ \ hits, !.long = @ \ hits] ELSE d
      freed == IF o.op = 2 THEN {s \in LongOnly(dropped) : d.idx[s] = o.arg}
               ELSE Released(dropped, o, None)
      released == [dropped EXCEPT !.long = @ \ freed]
  IN CASE o.op = 1 -> dropped
       [] o.op \in {2, 4} -> released
       [] o.op = 3 -> [released EXCEPT !.idx[target] = o.idx,
                         !.long = @ \union ({target} \ {p.cur})]
       [] o.op = 5 -> [NoMarks EXCEPT !.num = [d.num EXCEPT ![p.cur] = 0], !.sf = d.sf, !.lf = d.lf]
       [] OTHER -> [released EXCEPT !.idx[p.cur] = o.idx]

AsLong(p) == \E i \in DOMAIN p.ops : p.ops[i].op = 6

(* The sliding window drops the oldest short-term frame, gap or not.  Of a *)
(* frame with one field of either kind it leaves the long-term one.        *)
Full(d) == d.short # {} /\ Cardinality(d.short \union d.long) >= MaxRefs
Oldest(d, S) == LowestBy(S, LAMBDA s : d.num[s])
WindowFrame(d) == IF Full(d) THEN [d EXCEPT !.short = @ \ Oldest(d, d.short), !.long = @ \ Oldest(d, d.short)]
                  ELSE d
WindowFields(d) ==
  LET S == Oldest(d, d.short)
  IN IF Full(d)
     THEN MarkFromFields([d EXCEPT !.sf = Less(@, S),
                                   !.lf = [q \in Parity |-> @[q] \ (S \intersect d.sf[q])]], S)
     ELSE d

(* A damaged stream marks too many: the oldest goes *)
Discarded(d, cur) ==
  LET S == IF d.short = {} THEN LowestBy(d.long, LAMBDA s : d.idx[s])
           ELSE IF d.short = {cur} THEN {cur} ELSE Oldest(d, d.short \ {cur})
  IN IF Cardinality(d.short \union d.long) <= MaxRefs THEN d
     ELSE [d EXCEPT !.short = @ \ S, !.long = @ \ S]

(* Fault: a second field slides the window like a first one *)
MarkField_Slides(d, p) ==
  LET q == ParityOf(p)
      start == [d EXCEPT !.sf = [r \in Parity |-> @[r] \intersect d.short],
                         !.lf = [r \in Parity |-> @[r] \intersect d.long]]
      done == IF p.adaptive THEN FoldLeft(LAMBDA x, o : FieldCommand(x, p, o), start, p.ops)
              ELSE WindowFields(start)
      marked == IF AsLong(p) THEN [done EXCEPT !.lf[q] = @ \union {p.cur}]
                ELSE [done EXCEPT !.sf[q] = @ \union {p.cur}]
  IN Discarded(MarkFromFields(marked, {p.cur}), p.cur)

MarkField(d, p) ==
  LET q == ParityOf(p)
      start == [d EXCEPT !.sf = [r \in Parity |-> @[r] \intersect d.short],
                         !.lf = [r \in Parity |-> @[r] \intersect d.long]]
      done == IF p.adaptive THEN FoldLeft(LAMBDA x, o : FieldCommand(x, p, o), start, p.ops)
              ELSE IF p.cur \in start.sf[1 - q] THEN start ELSE WindowFields(start)
      marked == IF AsLong(p) THEN [done EXCEPT !.lf[q] = @ \union {p.cur}]
                ELSE [done EXCEPT !.sf[q] = @ \union {p.cur}]
  IN Discarded(MarkFromFields(marked, {p.cur}), p.cur)

MarkFrame(d, p) ==
  LET done == WindowFrame(FoldLeft(LAMBDA x, o : FrameCommand(x, p, o), d, p.ops))
      marked == IF AsLong(p) THEN [done EXCEPT !.long = @ \union {p.cur}]
                ELSE [done EXCEPT !.short = @ \union {p.cur}]
      kept == Discarded(marked, p.cur)
  IN [kept EXCEPT !.sf = [q \in Parity |-> (@[q] \intersect kept.short) \union (kept.short \ d.short)],
                  !.lf = [q \in Parity |-> (@[q] \intersect kept.long) \union (kept.long \ d.long)]]

MarkIdr(d, p) ==
  LET marks(kind) == IF p.longIdr = (kind = "long") THEN {p.cur} ELSE {}
      fields(kind) == [q \in Parity |-> IF q \in p.fields THEN marks(kind) ELSE {}]
  IN [d EXCEPT !.short = marks("short"), !.long = marks("long"), !.sf = fields("short"),
               !.lf = fields("long"), !.idx = [s \in Slot |-> 0]]

(* parse_dec_ref_pic_marking *)
Mark(d, p) == CASE p.idr -> MarkIdr(d, p) [] IsField(p) -> MarkField(d, p) [] OTHER -> MarkFrame(d, p)
---------------------------------------------------------------------------
(* Between pictures.  refs.marks is what the pictures before left          *)
(* (prev_short_term_frames and its like), refs.open the field whose frame  *)
(* still lacks the other one, refs.prevNum PrevRefFrameNum; refs.std has   *)
(* the marks of 8.2.5, kept as long as the stream conforms (refs.legal).   *)

VARIABLE refs

MarkStart == refs = [marks |-> NoMarks, open |-> {}, prevNum |-> 0, n |-> 0, std |-> {}, legal |-> TRUE]

Free(d) == First(Slot \ (d.short \union d.long))

(* A frame inferred for a gap of frame_num takes the place of the oldest   *)
InferGap(d, num) ==
  LET full == Cardinality(d.short) + 1 > MaxRefs - Cardinality(LongOnly(d))
      gone == IF full THEN Oldest(d, d.short) ELSE {}
      kept == [d EXCEPT !.short = @ \ gone, !.long = @ \ gone]
      new == Free(kept)
  IN [kept EXCEPT !.short = @ \union new, !.long = @ \union new,
                  !.sf = [q \in Parity |-> @[q] \union new], !.lf = [q \in Parity |-> @[q] \union new],
                  !.num = [s \in Slot |-> IF s \in new THEN num ELSE @[s]]]
MayInfer(d) == MaxRefs > Cardinality(LongOnly(d))

(* The slot and FrameNum of a picture: those of the field before it, if it *)
(* is the second field of that frame                                       *)
Placed(d, s, num) == [d EXCEPT !.sf = Less(@, {s}), !.lf = Less(@, {s}), !.num[s] = num]

Marked(r, p, before) ==
  [r EXCEPT !.marks = Mark(before, p), !.prevNum = Mark(before, p).num[p.cur], !.n = @ + 1]

(***************************************************************************)
(* The standard (8.2.5).  A mark is [slot, parity, kind, n], where n is    *)
(* the FrameNum of a short-term field and the LongTermFrameIdx of a        *)
(* long-term one.                                                          *)
(***************************************************************************)
StdPics(std, kind, p) ==
  LET of == {x \in std : x.kind = kind}
  IN IF IsField(p) THEN {{x} : x \in of}
     ELSE {P \in {{x \in of : x.slot = s} : s \in Slot} : Cardinality(P) = 2}
StdNumber(P, p) ==
  LET x == CHOOSE x \in P : TRUE
  IN IF IsField(p) THEN 2 * x.n + (IF x.parity \in p.fields THEN 1 ELSE 0) ELSE x.n
StdTargets(std, p, o) ==
  LET CurrPicNum == IF IsField(p) THEN 2 * p.num + 1 ELSE p.num
  IN IF o.op = 2 THEN {P \in StdPics(std, "long", p) : StdNumber(P, p) = o.arg}
     ELSE {P \in StdPics(std, "short", p) : StdNumber(P, p) = CurrPicNum - (o.arg + 1)}
StdLong(std, slots, idx) == {x \in std : x.kind = "long" /\ x.n \in idx /\ x.slot \notin slots}
StdCommand(std, p, o) ==
  LET T == UNION StdTargets(std, p, o)
  IN CASE o.op \in {1, 2} -> std \ T
       [] o.op = 3 -> (std \ (T \union StdLong(std, {x.slot : x \in T}, {o.idx})))
                        \union {[x EXCEPT !.kind = "long", !.n = o.idx] : x \in T}
       [] o.op = 4 -> std \ StdLong(std, {}, o.idx .. MaxRefs)
       [] o.op = 5 -> {}
       [] OTHER -> std \ StdLong(std, {p.cur}, {o.idx})
StdCommands(std, p, n) == FoldLeft(LAMBDA x, o : StdCommand(x, p, o), std, SubSeq(p.ops, 1, n))
StdFrames(std) == {x.slot : x \in std}
StdWindow(std) ==
  LET shorts == {x \in std : x.kind = "short"}
  IN IF Cardinality(StdFrames(std)) < MaxRefs \/ shorts = {} THEN std
     ELSE std \ {x \in shorts : \A y \in shorts : x.n <= y.n}
StdOwn(p, kind, n) ==
  {[slot |-> p.cur, parity |-> q, kind |-> kind, n |-> n, gap |-> FALSE] : q \in p.fields}
StdMark(std, p) ==
  LET longs == {p.ops[i].idx : i \in {j \in DOMAIN p.ops : p.ops[j].op = 6}}
      num == IF \E i \in DOMAIN p.ops : p.ops[i].op = 5 THEN 0 ELSE p.num
      done == CASE p.adaptive -> StdCommands(std, p, Len(p.ops))
                [] \E x \in std : x.slot = p.cur /\ x.kind = "short" -> std
                [] OTHER -> StdWindow(std)
  IN IF p.idr THEN (IF p.longIdr THEN StdOwn(p, "long", 0) ELSE StdOwn(p, "short", p.num))
     ELSE done \union (IF longs = {} THEN StdOwn(p, "short", num)
                       ELSE UNION {StdOwn(p, "long", n) : n \in longs})

(* What 7.4.3.3 asks of a stream: operations name pictures there are, none *)
(* leaves a frame half short-term and half long-term, and the references   *)
(* are no more than MaxRefs.                                               *)
GapOps == {1, 3}
Allowed(std, p) ==
  \A i \in DOMAIN p.ops :
    LET o == p.ops[i]
        T == StdTargets(StdCommands(std, p, i - 1), p, o)
    IN /\ o.op \in 1 .. 3 => T # {}
       /\ o.op \in GapOps => \A x \in UNION T : ~x.gap
       /\ o.op = 5 => p.first /\ i = 1
Legal(std, p) ==
  LET after == StdMark(std, p)
  IN /\ p.idr \/ Allowed(std, p)
     /\ Cardinality(StdFrames(after)) <= MaxRefs
     /\ \A x, y \in after : x.slot = y.slot => x.kind = y.kind /\ x.n = y.n
     /\ \A x, y \in after : x.kind = y.kind /\ x.n = y.n => x.slot = y.slot

(* A reference picture is decoded and ends.  It is a frame, a field that   *)
(* starts a frame, or the field its frame lacks; a frame or first field    *)
(* may follow a gap of one frame_num.                                      *)
Markings ==
  {[idr |-> FALSE, longIdr |-> FALSE, adaptive |-> TRUE, ops |-> c] : c \in Commands}
    \union {[idr |-> i \/ l, longIdr |-> l, adaptive |-> FALSE, ops |-> <<>>] : i \in BOOLEAN, l \in BOOLEAN}
MarkPicture ==
  /\ refs.n < MaxPics
  /\ \E fields \in {{0, 1}, {0}, {1}}, gap \in {0, 1}, choice \in Markings :
       LET second == \E o \in refs.open : o[2] \notin fields /\ Cardinality(fields) = 1 /\ ~choice.idr
           num == IF second THEN refs.prevNum ELSE refs.prevNum + 1 + gap
           before == IF gap = 1 THEN InferGap(refs.marks, num - 1) ELSE refs.marks
           stdBefore == IF gap = 0 THEN refs.std
                        ELSE StdWindow(refs.std) \union
                               {[slot |-> s, parity |-> q, kind |-> "short", n |-> num - 1, gap |-> TRUE] :
                                  s \in {t \in before.short : before.num[t] = num - 1}, q \in Parity}
           cur == IF second THEN (CHOOSE o \in refs.open : TRUE)[1] ELSE CHOOSE s \in Free(before) : TRUE
           p == [cur |-> cur, fields |-> fields, num |-> num, first |-> ~second,
                 idr |-> choice.idr, longIdr |-> choice.longIdr,
                 adaptive |-> choice.adaptive, ops |-> choice.ops]
           legal == refs.legal /\ Legal(stdBefore, p)
       IN /\ gap = 1 => ~second /\ ~p.idr /\ MayInfer(refs.marks)
          /\ refs.n < MaxDamaged \/ legal
          /\ refs' = [Marked(refs, p, IF second THEN before ELSE Placed(before, cur, num)) EXCEPT
                        !.open = IF p.first /\ IsField(p) THEN {<<cur, ParityOf(p)>>} ELSE {},
                        !.legal = legal,
                        !.std = IF legal THEN StdMark(stdBefore, p) ELSE {}]

(* What a picture leaves marked is what 8.2.5 marks, field by field, over  *)
(* frames, pairs of fields, gaps and all operations; and whatever a        *)
(* damaged stream asks for, no more than max_num_ref_frames are marked.    *)
Marks(d) ==
  {[slot |-> s, parity |-> q, kind |-> "short", n |-> d.num[s], gap |-> s \in d.long] :
     s \in d.short, q \in Parity}
MarkedAsStandard ==
  LET d == refs.marks
      shorts == {x \in Marks(d) : x.slot \in d.sf[x.parity]}
      longs == {[slot |-> s, parity |-> q, kind |-> "long", n |-> d.idx[s], gap |-> FALSE] :
                  s \in LongOnly(d), q \in Parity}
  IN /\ Cardinality(d.short \union d.long) <= MaxRefs
     /\ refs.legal => refs.std = shorts \union {x \in longs : x.slot \in d.lf[x.parity]}
=============================================================================
