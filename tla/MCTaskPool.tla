----------------------------- MODULE MCTaskPool -----------------------------
(* Streams and instances of TaskPool for TLC.                              *)
EXTENDS TaskPool, TLC

(* A slice of picture p from row first to row last, its references those   *)
(* it reads, in a stream of one view.                                      *)
Sl(p, first, last, reads) ==
  [pic |-> p, first |-> first, last |-> last, bad |-> FALSE,
   reads |-> reads, refs |-> reads, base |-> 0]
Bad(slice) == [slice EXCEPT !.bad = TRUE]

(* A slice of the dependent view of base picture b, and one that holds     *)
(* other references than it reads.                                         *)
DepOf(b, slice) == [slice EXCEPT !.base = b]
Holding(r, slice) == [slice EXCEPT !.refs = r]

(* Pictures of one slice, each predicted from the one before.              *)
Chain == << Sl(1, 0, Rows, {}), Sl(2, 0, Rows, {1}), Sl(3, 0, Rows, {2}) >>

(* Two pictures predicted from the same one.                               *)
Fan == << Sl(1, 0, Rows, {}), Sl(2, 0, Rows, {1}), Sl(3, 0, Rows, {1}) >>

(* Pictures of two slices, cut at row 1.                                   *)
Slices == << Sl(1, 0, 1, {}), Sl(1, 1, Rows, {}), Sl(2, 0, 1, {1}), Sl(2, 1, Rows, {1}) >>

(* The first slice codes rows of the second too, or the second, which      *)
(* arrives out of order, some of the first.                                *)
Overlap == << Sl(1, 0, Rows, {}), Sl(1, 1, Rows, {}), Sl(2, 0, Rows, {1}) >>
Disorder == << Sl(1, 1, Rows, {}), Sl(1, 0, Rows, {}), Sl(2, 0, Rows, {1}) >>
Reordered == << Sl(1, 1, Rows, {}), Sl(1, 0, 1, {}), Sl(2, 0, Rows, {1}) >>

(* A slice whose data is damaged, one that is missing, and an overlap in a *)
(* picture that waits for its reference.                                   *)
BadData == << Bad(Sl(1, 0, Rows, {})), Sl(2, 0, 1, {1}), Sl(3, 0, Rows, {2}) >>
Missing == << Sl(1, 1, Rows, {}), Bad(Sl(2, 0, 1, {1})), Sl(2, 1, Rows, {1}) >>
LateOverlap == << Sl(1, 0, Rows, {}), Sl(2, 0, Rows, {1}), Sl(2, 1, Rows, {1}) >>

(* Two access units of two views, and a base view in the slot of the first.*)
Views == << Sl(1, 0, Rows, {}), DepOf(1, Sl(2, 0, Rows, {1})),
            Holding({1, 2}, Sl(3, 0, Rows, {1})), DepOf(3, Holding({2, 3}, Sl(4, 0, Rows, {2, 3}))),
            Holding({3, 4}, Sl(5, 0, Rows, {3})) >>
DamagedViews ==
  << Bad(Sl(1, 0, 1, {})), Bad(DepOf(1, Sl(2, 0, 1, {1}))),
     Holding({1, 2}, Sl(3, 0, Rows, {1})), DepOf(3, Holding({2, 3}, Sl(4, 0, Rows, {2, 3}))) >>

(* A base view decodes slowly while its damaged dependent view, of which   *)
(* row 1 is lost, is a reference of the next one, whose base view is lost. *)
BackToPool ==
  << Sl(1, 0, Rows, {}), DepOf(1, Sl(2, 0, 1, {})),
     DepOf(8, Holding({1, 2}, Sl(3, 0, 1, {}))), DepOf(8, Holding({1, 2}, Sl(3, 1, Rows, {2}))),
     DepOf(9, Holding({1, 2, 3}, Sl(4, 0, Rows, {3}))) >>

(* A non-reference picture whose slice is sent twice.                      *)
Duplicate == << Sl(1, 0, Rows, {}), Sl(1, 0, Rows, {}), Sl(2, 0, Rows, {}) >>

DuplicateStreams == {Duplicate}

(* A picture nothing predicts from, then two that predict one from the     *)
(* other, the second one in the slot of the first picture.                 *)
Reuse == << Sl(1, 0, Rows, {}), Sl(2, 0, Rows, {}), Sl(3, 0, Rows, {2}) >>
ReuseStreams == {Reuse}

(* Short streams for liveness: slices that overlap, then a picture that    *)
(* predicts from rows they leave, and a damaged base and dependent view.   *)
ShortOverlap == << Sl(1, 0, Rows, {}), Sl(1, 1, Rows, {}), Sl(2, 0, Rows, {1}) >>
ShortDamage == << Sl(1, 0, 1, {}), DepOf(1, Sl(2, 0, 1, {1})), Holding({1, 2}, Sl(3, 0, Rows, {1})) >>
LiveStreams == {ShortOverlap, ShortDamage}
BasicStreams == {Chain, Fan, Slices}
ViewStreams == {Views, DamagedViews, BackToPool}
DamagedStreams ==
  {Overlap, Disorder, Reordered, BadData, Missing, LateOverlap} \union ViewStreams

(* The streams satisfy what TaskPoolSlots and TaskPoolPictures assume of   *)
(* them; only that of stale_writer sends a slice twice.                    *)
ASSUME \A st \in Streams : ReadsWhatIsHeld(st) /\ (st # Duplicate => SentOnce(st))
ASSUME ~SentOnce(Duplicate)

Workers == Permutations(Worker)
=============================================================================
