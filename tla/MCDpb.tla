------------------------------- MODULE MCDpb -------------------------------
(* Streams for the model checker.                                          *)
EXTENDS Dpb

Slice(view, num, poc, ref, idr) ==
  [kind |-> "slice", view |-> view, num |-> num, poc |-> poc, ref |-> ref, idr |-> idr,
   intra |-> idr # 0 /\ view = 0, parts |-> Part, bad |-> FALSE]
I(idr) == Slice(0, 0, 0, TRUE, idr)
P(num, poc) == Slice(0, num, poc, TRUE, 0)
B(num, poc) == Slice(0, num, poc, FALSE, 0)
Other(kind) == [Slice(0, 0, 0, FALSE, 0) EXCEPT !.kind = kind]
Dep(n) == [n EXCEPT !.view = 1, !.intra = FALSE]
Both(n) == <<n, Dep(n)>>

Stereo(on, numRef, buffering, reorder, nals, shows) ==
  [nals |-> nals, mvc |-> on, numRef |-> numRef, buffering |-> buffering, reorder |-> reorder,
   shows |-> shows, threads |-> TRUE, eager |-> FALSE]

(* Two groups of pictures.                                                 *)
Flat2 == Stereo(FALSE, 1, 2, 1, <<I(1), P(1, 4), B(2, 2), I(2), P(1, 4), B(2, 2)>>,
                <<<<1>>, <<3>>, <<2>>, <<4>>, <<6>>, <<5>>>>)
Mvc2 == Stereo(TRUE, 1, 3, 1,
  Both(I(1)) \o Both(P(1, 4)) \o Both(B(2, 2)) \o Both(I(2)) \o Both(P(1, 4)),
  <<<<1, 2>>, <<5, 6>>, <<3, 4>>, <<7, 8>>, <<9, 10>>>>)

(* Pictures of two slices, and slices that are lost or rejected.           *)
Half(part, n) == [n EXCEPT !.parts = {part}]
InHalves(n) == <<Half(1, n), Half(2, n)>>
Rejected(n) == [n EXCEPT !.bad = TRUE]
Torn == Stereo(TRUE, 1, 3, 1,
  InHalves(I(1)) \o InHalves(Dep(I(1)))
    \o <<Half(1, P(1, 4)), Half(2, Dep(P(1, 4)))>> \o Both(P(2, 8)),
  <<<<1, 3>>, <<5, 6>>, <<7, 8>>>>)
Damage == Stereo(TRUE, 1, 3, 1,
  Both(I(1)) \o <<Half(1, Dep(P(1, 4))), Half(2, Dep(P(3, 4)))>> \o Both(P(2, 8)),
  <<<<1, 2>>, <<5, 6>>>>)
Refused == Stereo(TRUE, 1, 3, 0, <<I(1), Rejected(Dep(I(1)))>> \o Both(P(1, 4)) \o Both(P(2, 8)),
  <<<<1>>, <<3, 4>>, <<5, 6>>>>)

(* An access unit that lost a view, and dependent views sent first.        *)
NoDep == Stereo(TRUE, 1, 3, 1, Both(I(1)) \o <<P(1, 4)>> \o Both(B(2, 2)) \o Both(P(2, 8)),
  <<<<1, 2>>, <<4, 5>>, <<3>>, <<6, 7>>>>)
NoBase == Stereo(TRUE, 1, 3, 1, Both(I(1)) \o <<Dep(P(1, 4))>> \o Both(B(2, 2)) \o Both(P(2, 8)),
  <<<<1, 2>>, <<4, 5>>, <<6, 7>>>>)
DepFirst == Stereo(TRUE, 1, 3, 1,
  <<[Dep(I(1)) EXCEPT !.intra = TRUE], I(1), Dep(P(1, 4)), P(1, 4), Dep(P(2, 8)), P(2, 8)>>,
  <<<<2, 1>>, <<4, 3>>, <<6, 5>>>>)

(* A gap in frame_num; decoding that starts in the middle of a stream,     *)
(* where the second picture is displayed before the first; an end of       *)
(* sequence; and a seek.                                                   *)
Gap == Stereo(FALSE, 2, 3, 1, <<I(1), P(1, 4), P(4, 12), B(5, 8), P(5, 16)>>,
  <<<<1>>, <<2>>, <<4>>, <<3>>, <<5>>>>)
StereoGap == Stereo(TRUE, 1, 3, 0, Both(I(1)) \o Both(P(3, 4)) \o Both(P(4, 8)),
  <<<<1, 2>>, <<3, 4>>, <<5, 6>>>>)
Resumes == Stereo(FALSE, 1, 2, 1, <<P(0, 8), B(1, 2), B(1, 12), P(1, 16)>>, <<<<1>>, <<3>>, <<4>>>>)
Sequences == Stereo(TRUE, 1, 3, 1,
  Both(I(1)) \o Both(P(1, 4)) \o <<Other("end of sequence")>> \o Both(I(1)),
  <<<<1, 2>>, <<3, 4>>, <<6, 7>>>>)
Seeks == Stereo(TRUE, 1, 3, 1,
  Both(I(1)) \o Both(P(1, 4)) \o <<Other("flush")>> \o Both(I(1)), <<>>)

(* Views that never pair up until every slot is taken, also before a gap;  *)
(* and more pictures than the queue or the slots have room for, which a    *)
(* caller may leave where they are.                                        *)
Ps(n) == [k \in 1 .. n |-> P(k, 2 * k)]
OnlyDeps == Stereo(TRUE, 1, 3, 1, Both(I(1)) \o [k \in 1 .. 6 |-> Dep(Ps(6)[k])], <<<<1, 2>>>>)
OnlyBases == Stereo(TRUE, 1, 3, 0, Both(I(1)) \o Ps(6),
  <<<<1, 2>>, <<3>>, <<4>>, <<5>>, <<6>>, <<7>>, <<8>>>>)
BasesGap == Stereo(TRUE, 2, 3, 0, Both(I(1)) \o Ps(4) \o <<P(7, 12)>>,
  <<<<1, 2>>, <<3>>, <<4>>, <<5>>, <<6>>, <<7>>>>)
Full == Stereo(FALSE, 1, 1, 0, <<I(1)>> \o Ps(6),
  <<<<1>>, <<2>>, <<3>>, <<4>>, <<5>>, <<6>>, <<7>>>>)
FullGap == Stereo(FALSE, 2, 2, 0, <<I(1)>> \o Ps(4) \o <<P(8, 12)>>,
  <<<<1>>, <<2>>, <<3>>, <<4>>, <<5>>, <<6>>>>)

(* The slice of a picture sent three times: the second one ends the first, *)
(* which completes the picture, and the third one comes after the caller   *)
(* received it.  And a gap after pictures held.                            *)
Again == Stereo(FALSE, 1, 1, 0, <<I(1), P(1, 4), P(1, 4), P(1, 4)>>, <<<<1>>, <<2>>>>)
HeldGap == Stereo(FALSE, 1, 1, 0, <<I(1), P(1, 4), P(2, 8), P(5, 12)>>,
  <<<<1>>, <<2>>, <<3>>, <<4>>>>)

With(S, ts, es) == {[s EXCEPT !.threads = t, !.eager = e] : s \in S, t \in ts, e \in es}
DamagedStreams == {Torn, Damage, Refused, NoDep, NoBase, DepFirst, Gap, StereoGap, Resumes,
                   Sequences, Seeks, OnlyDeps, OnlyBases, BasesGap}
DpbStreams ==
  With({Flat2, Mvc2}, BOOLEAN, {FALSE}) \union With(DamagedStreams, BOOLEAN, {TRUE})
    \union With(DamagedStreams \ {OnlyBases, BasesGap}, {FALSE}, {FALSE})
    \union With({Full, FullGap}, {FALSE}, {FALSE})
SequenceStreams == With({Sequences}, {FALSE}, {TRUE})
AgainStreams == With({Again}, BOOLEAN, {TRUE})
HeldGapStreams == With({HeldGap}, {FALSE}, {FALSE})

(* What the proofs ask of a stream, those of the main run satisfy.         *)
ASSUME \A st \in DpbStreams : SentOnce(st)
=============================================================================
