----------------------------- MODULE SliceOrder -----------------------------
(***************************************************************************)
(* What the slices of one picture leave in its macroblock rows when they   *)
(* are decoded one after another in decoding order, as a single-threaded   *)
(* decoder does (edge264mvc.h documents n_threads 1 as the reference, and  *)
(* the output must not depend on the number of threads).                   *)
(*                                                                         *)
(* A picture is Rows macroblock rows of one macroblock each.  A slice is a *)
(* record of                                                               *)
(*   pic    the picture it belongs to, numbered in decoding order from 1;  *)
(*   first  its first_mb_in_slice, last the row after those its data codes;*)
(*   bad    whether its data ends in an error (EBADMSG);                   *)
(*   reads  the pictures its RefPicList names;                             *)
(*   refs   the reference pictures held when its picture starts;           *)
(*   base   of a dependent view, the base view of its access unit (which   *)
(*          the stream may have lost); of a base view, 0.                  *)
(* A row holds a pair: what made it, and the slice or picture it is from.  *)
(***************************************************************************)
EXTENDS Integers, Sequences

CONSTANTS
  Rows,   \* macroblock rows of a picture
  Lag     \* rows the deblocking is behind the decoding: 1, or 0 when disabled

ASSUME SliceOrderAssumption == Rows \in Nat \ {0} /\ Lag \in {0, 1}

Row == 0 .. Rows - 1
Inf == Rows + 3          \* INT_MAX: above every address and wake address
Unknown == Rows + 2      \* BOUND_UNKNOWN, INT_MAX - 1

Fields == [pic : Nat \ {0}, first : Row, last : 1 .. Rows, bad : BOOLEAN,
           reads : SUBSET Nat, refs : SUBSET Nat, base : Nat]
Header == {h \in Fields : h.first < h.last}

Undecoded == <<"none", 0>>
Neutral == <<"neutral", 0>>
Decoded(k) == <<"slice", k>>
Recovered(k) == <<"recovered", k>>
FromBase(p) == <<"base", p>>

RowContent == {"none", "neutral", "slice", "recovered", "base"} \X Nat

Blank == [r \in Row |-> Undecoded]

Lowest(S) == CHOOSE x \in S : \A y \in S : x <= y
Larger(x, y) == IF x >= y THEN x ELSE y

(* The bound release_held_task gives slice k: where the next slice of its  *)
(* picture starts, when that is after it.                                  *)
BoundOf(st, k) ==
  IF k < Len(st) /\ st[k + 1].pic = st[k].pic /\ st[k + 1].first > st[k].first
    THEN st[k + 1].first ELSE Inf

(* The first row slice k does not decode: the end of its data, its bound,  *)
(* or the first row an older slice claimed.                                *)
StopRow(sl, bound, rows) ==
  Lowest({sl.last} \union {r \in sl.first .. sl.last : r >= bound}
         \union {r \in Row : r \in sl.first .. sl.last /\ rows[r] # Undecoded})

Failed(sl, stop) == sl.bad \/ stop < sl.last

(* keep_mb: a slice in error keeps only the rows it may have published.    *)
KeepRow(sl, stop) ==
  IF Failed(sl, stop) THEN Larger(sl.first, stop - Lag) ELSE stop

Fill(sl, k, stop, rows) ==
  [r \in Row |-> IF r \in sl.first .. stop - 1
                   THEN IF r < KeepRow(sl, stop) THEN Decoded(k) ELSE Recovered(k)
                   ELSE rows[r]]

(* The rows of picture p once the first n slices of the stream are decoded.*)
RowsAfter(st, p, n) ==
  LET f[k \in 0 .. Len(st)] ==
        IF k = 0 THEN Blank
        ELSE IF st[k].pic # p THEN f[k - 1]
        ELSE LET stop == StopRow(st[k], BoundOf(st, k), f[k - 1])
             IN  Fill(st[k], k, stop, f[k - 1])
  IN  f[n]

PicsOf(st) == {st[k].pic : k \in DOMAIN st}

(* The base view of a picture's access unit, which may be lost.            *)
ViewBase(st, p) ==
  IF p \in PicsOf(st) THEN st[CHOOSE k \in DOMAIN st : st[k].pic = p].base ELSE 0

BaseOf(st, p) == IF ViewBase(st, p) \in PicsOf(st) THEN ViewBase(st, p) ELSE 0

Concealment(b) == IF b = 0 THEN Neutral ELSE FromBase(b)

(* conceal_frame fills the rows that no slice claimed.                     *)
SingleThreaded(st, p) ==
  LET rows == RowsAfter(st, p, Len(st))
  IN  [r \in Row |-> IF rows[r] = Undecoded THEN Concealment(BaseOf(st, p)) ELSE rows[r]]

(* Whether a picture comes out marked as concealed.                        *)
Damaged(st, p) ==
  \/ \E r \in Row : RowsAfter(st, p, Len(st))[r] = Undecoded
  \/ \E k \in DOMAIN st :
       /\ st[k].pic = p
       /\ Failed(st[k], StopRow(st[k], BoundOf(st, k), RowsAfter(st, p, k - 1)))

(* Whether one of the first n slices is of picture p, and in error.        *)
FailedBy(st, p, n) ==
  \E k \in 1 .. n : st[k].pic = p /\ Failed(st[k], StopRow(st[k], BoundOf(st, k), RowsAfter(st, p, k - 1)))

UndecodedIn(rows) == {r \in Row : rows[r] = Undecoded}

-----------------------------------------------------------------------------
(* A stream that sends every picture once, as the proofs assume: what a    *)
(* conforming encoder writes, whatever is lost of it.                      *)

(* The slices of a picture are sent one after another.                     *)
Contiguous(st) ==
  \A i, j, k \in DOMAIN st : i < j /\ j < k /\ st[i].pic = st[k].pic => st[j].pic = st[i].pic

(* Each slice starts at a macroblock no older slice of its picture decodes.*)
StartsNew(st) ==
  \A k \in DOMAIN st : RowsAfter(st, st[k].pic, k - 1)[st[k].first] = Undecoded

(* The slices of a picture have one base view, sent before it if at all.   *)
BaseFirst(st) ==
  \A k \in DOMAIN st :
    /\ \A j \in DOMAIN st : st[j].pic = st[k].pic => st[j].base = st[k].base
    /\ st[k].base \in PicsOf(st) => \E j \in 1 .. k - 1 : st[j].pic = st[k].base

SentOnce(st) == Contiguous(st) /\ StartsNew(st) /\ BaseFirst(st)
=============================================================================
