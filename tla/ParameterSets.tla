---------------------------- MODULE ParameterSets ---------------------------
(***************************************************************************)
(* The parameter sets of the decoder and the frame buffers allocated for   *)
(* them: how a sequence parameter set, of the base view or of both views,  *)
(* is accepted, sizes the decoded picture buffer and, with another format, *)
(* ends the sequence, while the caller still holds frames of the old one.  *)
(* Sample planes and macroblocks of a slot are one buffer, known by a      *)
(* serial number.  Which pictures stay references is left open (RefPics),  *)
(* and when one is output as well (Dpb).                                   *)
(***************************************************************************)
EXTENDS Integers, FiniteSets, Sequences, FiniteSetsExt

CONSTANTS
  SetNals,   \* the sequence parameter sets a stream may carry
  Ids,       \* the slots of frames
  MaxPixels, \* max_frame_pixels, 0 for the largest that a level allows
  MaxTaken   \* bound on the buffers taken by alloc_frame

(* What the reader of the bitstream delivers: Exp-Golomb codes are clamped *)
(* (get_ue16).                                                             *)
NoVui == [coded |-> FALSE]
CodedVui == [coded : {TRUE}, reorder : 0 .. 16, buffering : 0 .. 16]
ReadNal ==
  [type : {7, 15}, profile : 0 .. 255, w : 1 .. 1023, h : 1 .. 2110, chroma : 0 .. 3,
   depth : 8 .. 14, depthC : 8 .. 14, cropX : Nat \X Nat, cropY : Nat \X Nat, bypass : BOOLEAN,
   interlaced : BOOLEAN, refs : 0 .. 16, level : Nat, intra : BOOLEAN,
   vui : {NoVui} \union CodedVui,
   end : {"trailing", "slack", "far"}, views : 1 .. 1024]
ASSUME SetsAssumption == SetNals \subseteq ReadNal /\ IsFiniteSet(Ids) /\ MaxTaken \in Nat

VARIABLE dec

NoSet == [bits |-> 0]
NoLook == [w |-> 0]
NoBuffer == [n |-> 0]

(* parse_seq_parameter_set: the reference frames and the frames of the     *)
(* buffer that a set stands for, doubled for two views.                    *)
TimesViews(n, x) == IF n.type = 15 THEN 2 * x ELSE x
RefFrames(n) == Max({Min({n.refs, IF n.type = 15 THEN 8 ELSE 16}), 1})
MaxDpbFrames(n) == Max({Min({TimesViews(n, n.level), 16}), TimesViews(n, RefFrames(n))})
InferredLimits(n) ==
  IF n.intra THEN [reorder |-> 0, buffering |-> TimesViews(n, RefFrames(n))]
  ELSE [reorder |-> MaxDpbFrames(n), buffering |-> MaxDpbFrames(n)]
(* parse_vui_parameters, the bitstream restrictions *)
Restricted(n) ==
  LET buffering == Max({n.vui.buffering, RefFrames(n)})
  IN [reorder |-> Min({n.vui.reorder, buffering}), buffering |-> buffering]
(* The values of a VUI that is read past its end are not believed.         *)
Limits(n) ==
  IF ~n.vui.coded \/ (n.type = 7 /\ n.end # "trailing") THEN InferredLimits(n) ELSE Restricted(n)
(* frame_crop_offsets, left, right, top and bottom: coded in units of the  *)
(* chroma samples, each clamped to what the one before leaves.             *)
Clamped(coded, step, size) ==
  LET first == Min({coded[1], (size \div step) - 1})
  IN <<first * step, Min({coded[2], (size \div step) - 1 - first}) * step>>
CropOf(n) ==
  LET stepX == IF n.chroma = 0 THEN 1 ELSE 2
      stepY == (IF n.chroma = 1 THEN 2 ELSE 1) * (IF n.interlaced THEN 2 ELSE 1)
      x == Clamped(n.cropX, stepX, 16 * n.w)
      y == Clamped(n.cropY, stepY, 16 * n.h)
  IN <<x[1], x[2], y[1], y[2]>>
WidthOf(look) == 16 * look.w - look.crop[1] - look.crop[2]
HeightOf(look) == 16 * look.h - look.crop[3] - look.crop[4]
Look(n) ==
  [w |-> n.w, h |-> n.h, crop |-> CropOf(n), chroma |-> n.chroma, depth |-> n.depth,
   interlaced |-> n.interlaced]
SetOf(n) ==
  [bits |-> n.depth, look |-> Look(n), refs |-> RefFrames(n), views |-> n.views,
   reorder |-> Limits(n).reorder,
   buffering |-> IF n.type = 15 THEN Max({Limits(n).buffering, MaxDpbFrames(n)})
                 ELSE Limits(n).buffering]

(* A set is committed when its samples can be reconstructed, its frame is  *)
(* no larger than max_frame_pixels once cropped, and coded no larger than  *)
(* rounding up to macroblocks explains; when a subset is of two views or   *)
(* more; and when it ends as it should, save for a VUI or a few bits after *)
(* a subset.                                                               *)
Reconstructed(n) ==
  n.chroma <= 2 /\ n.depth <= 10 /\ (n.chroma # 0 => n.depthC = n.depth) /\ ~n.bypass
Fits(n) ==
  IF MaxPixels = 0 THEN n.w * n.h <= 139264
  ELSE /\ WidthOf(Look(n)) * HeightOf(Look(n)) <= MaxPixels
       /\ n.w * n.h <= (MaxPixels \div 256) + n.w + n.h + 1
SeveralViews(n) == n.profile \in {118, 128} /\ n.views > 1
Ended(n) == n.end = "trailing" \/ (n.type = 7 /\ n.vui.coded) \/ (n.type = 15 /\ n.end = "slack")
Accepted(n) == Reconstructed(n) /\ Fits(n) /\ (n.type = 15 => SeveralViews(n)) /\ Ended(n)

(* With a subset the limits of the two views are made one.                 *)
(* Fault: that of the subset is taken as it is.                            *)
Joint_AsCoded(base, sub) == sub.buffering
Joint(base, sub) == Max({sub.buffering, base.refs + sub.refs})
FixLimits(d) ==
  IF d.sps = NoSet \/ d.ssps = NoSet THEN d
  ELSE LET base == [d.sps EXCEPT !.refs = Min({@, 8})]
           joint == Joint(base, d.ssps)
       IN [d EXCEPT !.sps = [base EXCEPT !.buffering = joint, !.reorder = d.ssps.reorder],
                    !.ssps.buffering = joint]

(* clear_decoder: every set is forgotten, the frames with the caller stay. *)
clear_decoder(d) ==
  [d EXCEPT !.sps = NoSet, !.ssps = NoSet, !.pps = "none",
            !.output = @ \ d.toGet, !.toGet = {}, !.refs = {}]
Freed(d, S) ==
  [d EXCEPT !.buf = [s \in Ids |-> IF s \in S THEN NoBuffer ELSE @[s]],
            !.given = @ + Cardinality({s \in S : d.buf[s] # NoBuffer})]
(* Another format, monochrome or interlaced as well: the buffers of frames *)
(* with the caller are freed once they come back.                          *)
Reformat(d, look) ==
  LET c == clear_decoder(d)
      stale == c.stale \union c.output
  IN Freed([c EXCEPT !.out = look, !.stale = stale], Ids \ stale)
Commit(d, n) ==
  FixLimits(IF n.type = 7 THEN [d EXCEPT !.sps = SetOf(n)] ELSE [d EXCEPT !.ssps = SetOf(n)])

parse_seq_parameter_set(n) ==
  /\ Accepted(n)
  /\ \/ Look(n) = dec.out /\ dec' = Commit(dec, n)
     \/ /\ Look(n) # dec.out /\ dec.toGet # {}        \* ENOBUFS: to be sent again
        /\ dec' = [dec EXCEPT !.output = @ \union dec.toGet]
     \/ Look(n) # dec.out /\ dec.toGet = {} /\ dec' = Commit(Reformat(dec, Look(n)), n)

(* parse_pic_parameter_set: a set that ends well replaces the one before,  *)
(* with the group of every map unit that type 6 brings in memory of its    *)
(* own.                                                                    *)
parse_pic_parameter_set ==
  \E kind \in {"plain", "ids"} : dec' = [dec EXCEPT !.pps = kind, !.ids = (kind = "ids")]
---------------------------------------------------------------------------
(* parse_nal_unit_header_extension: of more than two views those after the *)
(* second are dropped.  View 0 is the base, 1 the second one.              *)
DecodedView(d, view) == ~(view = 2 /\ d.ssps # NoSet /\ d.ssps.views > 2)
(* parse_slice_layer_without_partitioning, what a slice needs of the sets  *)
ActiveSet(d, view) == IF view = 0 THEN d.sps ELSE d.ssps
SizeOf(set) == IF set = NoSet THEN <<0, 0>> ELSE <<set.look.w, set.look.h>>
Decodable(d, view) ==
  LET set == ActiveSet(d, view)
  IN /\ DecodedView(d, view) /\ set # NoSet /\ d.pps # "none"
     /\ set.look.interlaced => d.pps # "ids"
     /\ SizeOf(set) = SizeOf(d.sps)
     /\ set.look.interlaced = d.out.interlaced
(* alloc_frame takes memory for a slot that has none.                      *)
alloc_frame(d, s) ==
  IF d.buf[s] # NoBuffer THEN d
  ELSE [d EXCEPT !.buf[s] = [n |-> d.taken + 1, look |-> d.out, mbs |-> SizeOf(d.sps)],
                 !.taken = @ + 1]
(* A picture takes a slot, or fails for want of memory and changes nothing. *)
StartPicture(view, s, gap, stay) ==
  /\ Decodable(dec, view)
  /\ s \notin dec.refs \union dec.toGet \union dec.output
  /\ dec.buf[s] = NoBuffer => dec.taken < MaxTaken
  /\ gap => s \in stay                                \* inferred frames are not output
  /\ Cardinality(stay) <= ActiveSet(dec, view).refs
  /\ dec' = [alloc_frame(dec, s) EXCEPT !.refs = stay, !.toGet = IF gap THEN @ ELSE @ \union {s}]

(* bump_frame *)
Bump(S) ==
  S \subseteq dec.toGet \ dec.output /\ S # {} /\ dec' = [dec EXCEPT !.output = @ \union S]
(* get_frame: a frame of one view or of both                               *)
Receive(S) ==
  /\ S \subseteq dec.toGet \intersect dec.output
  /\ Cardinality(S) = IF dec.ssps = NoSet THEN 1 ELSE 2
  /\ dec' = [dec EXCEPT !.toGet = @ \ S, !.held = @ \union {[s \in S |-> dec.buf[s].n]}]
(* return_frame.  Fault: slots stay marked for freeing.                    *)
Returned_StaysStale(d, S) == Freed([d EXCEPT !.output = @ \ S], d.stale \intersect S)
Returned(d, S) == Freed([d EXCEPT !.output = @ \ S, !.stale = @ \ S], d.stale \intersect S)
Release(f) == dec' = [Returned(dec, DOMAIN f) EXCEPT !.held = @ \ {f}]

(* parse_end_of_sequence, flush_decoder, free_decoder                      *)
EndOfSequence ==
  dec' = IF dec.toGet # {} THEN [dec EXCEPT !.output = @ \union dec.toGet] ELSE clear_decoder(dec)
Flush == dec' = clear_decoder(dec)
Close == dec' = [Freed(dec, Ids) EXCEPT !.open = FALSE, !.ids = FALSE, !.held = {}]

EmptyDecoder ==
  [open |-> TRUE, sps |-> NoSet, ssps |-> NoSet, pps |-> "none", ids |-> FALSE, out |-> NoLook,
   buf |-> [s \in Ids |-> NoBuffer], toGet |-> {}, output |-> {}, stale |-> {}, refs |-> {},
   held |-> {}, taken |-> 0, given |-> 0]
SetsInit == dec = EmptyDecoder
SetsStep ==
  /\ dec.open
  /\ \/ \E n \in SetNals : parse_seq_parameter_set(n)
     \/ parse_pic_parameter_set
     \/ \E s \in Ids : \E stay \in SUBSET (dec.refs \union {s}) :
          \E view \in 0 .. 2, gap \in BOOLEAN : StartPicture(view, s, gap, stay)
     \/ \E S \in SUBSET dec.toGet : Bump(S) \/ Receive(S)
     \/ \E f \in dec.held : Release(f)
     \/ EndOfSequence \/ Flush \/ Close
---------------------------------------------------------------------------
(* A frame that the caller holds keeps its samples through changes of the  *)
(* format, end of sequence and flush; the pictures to output or to predict *)
(* from are in buffers of the present format; and every buffer taken is    *)
(* given back once, when its slot is needed no more.                       *)
BuffersKept ==
  /\ \A f \in dec.held : \A s \in DOMAIN f : dec.buf[s].n = f[s]
  /\ dec.open => \A s \in dec.refs \union dec.toGet :
       /\ dec.buf[s] # NoBuffer /\ dec.buf[s].look = dec.out
       /\ dec.buf[s].mbs = <<dec.out.w, dec.out.h>>
  /\ dec.taken = dec.given + Cardinality({s \in Ids : dec.buf[s] # NoBuffer})
  /\ ~dec.open => dec.taken = dec.given
  /\ dec.pps = "ids" /\ dec.open => dec.ids

(* The sets in use are of the format of the buffers, whichever came first  *)
(* or came again, and crop it to a picture that is not empty; each has     *)
(* room for its references and the pictures to be reordered, and those of  *)
(* two views agree on a size that has room for the references of both.     *)
SetsAgree ==
  /\ \A set \in {dec.sps, dec.ssps} \ {NoSet} :
       /\ set.look = dec.out /\ WidthOf(dec.out) > 0 /\ HeightOf(dec.out) > 0
       /\ 1 <= set.refs /\ set.refs <= set.buffering
       /\ set.reorder <= set.buffering /\ set.buffering <= 16
  /\ dec.sps # NoSet /\ dec.ssps # NoSet =>
       /\ dec.sps.buffering = dec.ssps.buffering /\ dec.sps.reorder = dec.ssps.reorder
       /\ dec.sps.refs + dec.ssps.refs <= dec.sps.buffering
---------------------------------------------------------------------------
(* What the two rest on, proved in ParameterSetsProofs.                    *)
SetsSpec == SetsInit /\ [][SetsStep]_dec

Looks ==
  [w : Nat \ {0}, h : Nat \ {0}, crop : Seq(Nat), chroma : 0 .. 3, depth : 8 .. 14,
   interlaced : BOOLEAN]
SetRecords ==
  [bits : 8 .. 14, look : Looks, refs : Nat, views : 1 .. 1024, reorder : Nat, buffering : Nat]
Buffers == [n : 1 .. MaxTaken, look : Looks \union {NoLook}, mbs : Nat \X Nat]
HeldFrames == UNION {[S -> 0 .. MaxTaken] : S \in SUBSET Ids}
Decoder ==
  [open : BOOLEAN, sps : SetRecords \union {NoSet}, ssps : SetRecords \union {NoSet},
   pps : {"none", "plain", "ids"}, ids : BOOLEAN, out : Looks \union {NoLook},
   buf : [Ids -> Buffers \union {NoBuffer}], toGet : SUBSET Ids, output : SUBSET Ids,
   stale : SUBSET Ids, refs : SUBSET Ids, held : SUBSET HeldFrames,
   taken : 0 .. MaxTaken, given : Nat]

(* The sets agree whatever comes next: one of both views leaves half of    *)
(* the largest buffer to the references of the base view.                  *)
SetsInv == dec \in Decoder /\ SetsAgree /\ (dec.ssps # NoSet => dec.ssps.refs <= 8)

(* Frames with the caller are no longer to be output, and share no slot.   *)
HeldApart ==
  /\ \A f \in dec.held : DOMAIN f \subseteq dec.output \ dec.toGet
  /\ \A f, g \in dec.held : f # g => DOMAIN f \intersect DOMAIN g = {}

(* A buffer of another format is that of a frame with the caller, and is   *)
(* marked to be freed.                                                     *)
StaleMarked ==
  /\ dec.stale \subseteq dec.output \ (dec.toGet \union dec.refs)
  /\ dec.open => \A s \in Ids \ dec.stale :
       dec.buf[s] # NoBuffer =>
         dec.buf[s].look = dec.out /\ dec.buf[s].mbs = <<dec.out.w, dec.out.h>>

BuffersInv == SetsInv /\ HeldApart /\ StaleMarked /\ BuffersKept
=============================================================================
