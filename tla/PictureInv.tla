----------------------------- MODULE PictureInv -----------------------------
(***************************************************************************)
(* The inductive invariant behind "the pictures of a multithreaded decoder *)
(* are those of a single-threaded one", in the layers TaskPoolPictures     *)
(* proves one after another, for a stream that satisfies ReadsWhatIsHeld   *)
(* and SentOnce: the bounds of the slices, the pictures in the slots, the  *)
(* rows of every picture while its slices are decoded, and what completes  *)
(* a picture.                                                              *)
(***************************************************************************)
EXTENDS TaskPool

-----------------------------------------------------------------------------
(* The bounds of the slices.                                               *)

(* Once closed, the last slice of those sent has no end but its data.      *)
Bounded(k) == ppc # "closed" \/ k < next - 1

(* The slice held back is the last one parsed; every other one has the     *)
(* bound the next gives it.                                                *)
HeldIsLast ==
  /\ held # None => /\ tasks[held].pic = currPic /\ tasks[held].job = NextJob - 1
                    /\ ppc \in {"idle", "task", "create", "created"}
  /\ \A t \in busy \ {held} :
       /\ tasks[t].bound # Unknown /\ tasks[t].bound > SliceOf(t).first
       /\ Bounded(tasks[t].job) => tasks[t].bound = BoundOf(stream, tasks[t].job)

(* The rows a worker has claimed end before row Top.                       *)
Top(c) == c.row + (IF c.pc \in {"ref", "refSleep"} THEN 1 ELSE 0)

(* A worker has taken its frontier back, and has still to decode again.    *)
BackPc == {"notifyBack", "redo"}

(* A worker takes the bound of its task, and is not past one it has acked. *)
WithinBound(c, tk, ack) ==
  c.pc \in DecodePc =>
    /\ c.bound # Unknown => c.bound = tk[c.task].bound
    /\ c.task \in ack => c.bound # Unknown /\ Top(c) <= c.bound
    /\ c.pc \in EndPc => c.row <= c.bound
    /\ c.pc \in BackPc => c.bound # Unknown

(* A slice of a picture that is not being parsed has acked its bound, is   *)
(* yet to start, or has none.                                              *)
BoundsAcked ==
  /\ pending \intersect acked = {}
  /\ \A t \in busy : tasks[t].pic # currPic => t \in pending \union acked \/ tasks[t].bound = Inf
  /\ \A w \in Worker : WithinBound(ctx[w], tasks, acked)

(* The picture being parsed is that of the last slice parsed, and no task  *)
(* reads it.                                                               *)
ParsedPicture ==
  /\ currPic # None => Parsed \in DOMAIN stream /\ frame[currPic].id = stream[Parsed].pic
  /\ currPic \notin Depended
  /\ ppc = "settle" => currPic # None /\ frame[currPic].id # Slice.pic
  /\ ppc \in {"start", "slot"} => currPic = None
  /\ ppc = "created" => currPic # None
  /\ ppc = "create" /\ held # None => next > 1 /\ stream[next - 1].pic = Slice.pic
  /\ ppc \in {"endSettle", "drain"} => next > Len(stream)
  /\ currPic = None /\ ppc # "closed" /\ next \in DOMAIN stream =>
       next = 1 \/ stream[next - 1].pic # Slice.pic

BoundsInv == HeldIsLast /\ BoundsAcked /\ ParsedPicture

-----------------------------------------------------------------------------
(* The pictures in the slots.                                              *)

(* No slice is to come for a picture that is not being parsed; a picture   *)
(* has one slot, and has been sent.                                        *)
PicturesInv ==
  /\ \A s \in Slot : s # currPic => \A k \in DOMAIN stream : k >= NextJob => stream[k].pic # frame[s].id
  /\ \A s, u \in Slot : frame[s].id = frame[u].id => s = u \/ frame[s].id = 0
  /\ \A s \in Slot : frame[s].id # 0 => \E j \in 1 .. Parsed : stream[j].pic = frame[s].id
  /\ \A s \in toGet \union refFrames \union Depended : frame[s].id # 0

-----------------------------------------------------------------------------
(* The rows of the pictures.                                               *)

CountedPc == {"notifyDone", "finish"}
MakingPc == {"claim", "ref", "refSleep", "notifyRow", "parsed", "boundSleep"}
MadePc == {"notifySlice", "count"}
GoingPc == MakingPc \union BackPc \union MadePc
Goes(w) == ctx[w].pc \in GoingPc

(* The tasks whose slice is not yet counted in remaining_mbs, and the jobs *)
(* of those of a slot.                                                     *)
Uncounted ==
  {t \in busy : \A w \in Worker : ctx[w].pc \in CountedPc => ctx[w].task # t}
JobsIn(s) == {tasks[t].job : t \in {u \in Uncounted : tasks[u].pic = s}}

(* A slice to be decoded is of the picture its slot holds, and not of a    *)
(* complete one.                                                           *)
WritersCurrent ==
  \A t \in Uncounted : frame[tasks[t].pic].id = SliceOf(t).pic /\ frame[tasks[t].pic].frontier # Inf

(* The rows below n with those slice k has claimed.                        *)
Adding(sl, k, n, rows) == [r \in Row |-> IF r \in sl.first .. n - 1 THEN Decoded(k) ELSE rows[r]]

(* A slice adds its rows one by one to those the older ones left; only the *)
(* one whose turn it is moves the frontier, behind the rows it decoded.    *)
Working(c, k, fr) ==
  LET sl == stream[k]
      before == RowsAfter(stream, sl.pic, k - 1)
  IN  /\ c.row \in sl.first .. sl.last
      /\ \A r \in sl.first .. Top(c) - 1 : before[r] = Undecoded
      /\ c.pc \in MakingPc => fr.rows = Adding(sl, k, Top(c), before)
      /\ c.pc \in BackPc => fr.rows = before
      /\ c.pc \in {"parsed", "boundSleep"} =>
           c.row = sl.last \/ c.row >= c.bound \/ before[c.row] # Undecoded
      /\ c.pc \in MadePc => /\ c.row = StopRow(sl, c.bound, before)
                            /\ fr.rows = Fill(sl, k, c.row, before)
      /\ c.turn <=> fr.frontier >= sl.first
      /\ c.turn /\ c.pc \in MakingPc => fr.frontier <= Larger(sl.first, c.row - Lag)
      /\ c.turn /\ c.pc \in BackPc => fr.frontier = sl.first
      /\ c.turn /\ c.pc \in MadePc => fr.frontier = KeepRow(sl, c.row)

AllWorking == \A w \in Worker : Goes(w) => Working(ctx[w], tasks[ctx[w].task].job, frame[PicOf(w)])

(* Once closed, the pictures all of whose slices ended may lack rows.      *)
Followed(s) ==
  frame[s].id # 0 /\ frame[s].frontier # Inf /\ (ppc # "closed" \/ JobsIn(s) # {})

(* The slices of slot s up to n are decoded, the others are still to be.   *)
Splits(s, n) == JobsIn(s) = {k \in n + 1 .. NextJob - 1 : stream[k].pic = frame[s].id}

(* remaining_mbs counts the undecoded rows, and those of slices in error.  *)
Counts(left, p, n) ==
  LET undecoded == Cardinality(UndecodedIn(RowsAfter(stream, p, n)))
  IN  IF FailedBy(stream, p, n) THEN left > undecoded ELSE left = undecoded

(* While no slice is being decoded into it, a slot has the rows its slices *)
(* so far left; none below its frontier is undecoded.                      *)
UpTo(s, n) ==
  /\ Splits(s, n)
  /\ Counts(frame[s].remaining, frame[s].id, n)
  /\ (\A w \in Worker : Goes(w) => PicOf(w) # s) => frame[s].rows = RowsAfter(stream, frame[s].id, n)

BehindFrontier(fr) == \A r \in Row : r < fr.frontier => fr.rows[r] # Undecoded

Reached(s) ==
  /\ BehindFrontier(frame[s]) /\ frame[s].remaining > 0
  /\ \E n \in 0 .. NextJob - 1 : UpTo(s, n)

RowsReached == \A s \in Slot : Followed(s) => Reached(s)

(* No slice is to come for a complete picture.                             *)
NoneToCome ==
  ppc # "closed" => \A s \in Complete : frame[s].id # 0 /\ \A k \in DOMAIN stream :
      k >= NextJob => stream[k].pic # frame[s].id

RowsInv == WritersCurrent /\ AllWorking /\ RowsReached /\ NoneToCome

-----------------------------------------------------------------------------
(* What completes a picture.                                               *)

(* While a dependent view is to come or not complete, its base view awaits *)
(* its output.                                                             *)
BaseViewsKept ==
  ppc # "closed" => \A k \in DOMAIN stream :
    /\ \E j \in 1 .. Parsed : stream[j].pic = stream[k].base
    /\ k >= NextJob \/ \E s \in Slot : frame[s].id = stream[k].pic /\ frame[s].frontier # Inf
    => \E b \in toGet : frame[b].id = stream[k].base

(* The flagged pictures are damaged.                                       *)
FlaggedAreDamaged ==
  ppc # "closed" => \A s \in flagged : Damaged(stream, frame[s].id)
=============================================================================
