----------------------------- MODULE SliceLayer ----------------------------
(***************************************************************************)
(* What the parser and the slice loops do between the NAL units and the    *)
(* tasks: the macroblock loops (Macroblocks, Mbaff) decode the pictures of *)
(* Pictures, reference pictures are marked (RefPics), parameter sets and   *)
(* frame buffers come and go (ParameterSets), and the functions without    *)
(* state of their own are given cases, one per behaviour (MvPred, Deblock, *)
(* SliceGroups, RefLists, Numbering, Weights).  They work on different     *)
(* things and each rests while another is shown.                           *)
(***************************************************************************)
EXTENDS Mbaff, MvPred, Deblock, SliceGroups, RefLists, Numbering, Weights, ParameterSets

VARIABLE case         \* a record whose field about names the function, or Loop

Loop == [about |-> "loop"]
Blank == [w |-> 1, h |-> 1, chroma |-> 1, mbaff |-> FALSE, map |-> <<>>, slices |-> <<>>]
LoopsRest == pic = Blank /\ pc = "end" /\ MbaffStart
MarkingRests ==
  refs = [marks |-> NoMarks, open |-> {}, prevNum |-> 0, n |-> MaxPics, std |-> {}, legal |-> TRUE]

SetsRest == dec = [EmptyDecoder EXCEPT !.open = FALSE]

PicturesInit ==
  pic \in Pictures /\ pc = "slice" /\ MbaffStart /\ case = Loop /\ MarkingRests /\ SetsRest
MarksInit == LoopsRest /\ case = Loop /\ MarkStart /\ SetsRest
DecoderInit == LoopsRest /\ case = Loop /\ MarkingRests /\ SetsInit

SliceVars == <<vars, mbaffVars, refs, dec, case>>
SliceNext ==
  \/ MbaffNext /\ UNCHANGED <<refs, dec, case>>
  \/ MarkPicture /\ UNCHANGED <<vars, mbaffVars, dec, case>>
  \/ SetsStep /\ UNCHANGED <<vars, mbaffVars, refs, case>>
---------------------------------------------------------------------------
(* In every neighbourhood of references, vectors and missing neighbours,   *)
(* the functions specialised by shape give the prediction of the standard: *)
(* they never gather the vectors that the rules would not look at.         *)
(* Spatial direct prediction takes the references and vectors of the       *)
(* standard, whatever the neighbours lack and the other list has, and      *)
(* decodes each 4x4 block of the direct 8x8 blocks once, in rectangles     *)
(* over which the vectors are the same, and so does temporal direct        *)
(* prediction, if not once; the block that is taken from another           *)
(* picture covers rows that the current 8x8 block covers, in all           *)
(* combinations of frames, fields and MBAFF pairs.                         *)
VectorsAsStandard ==
  /\ case.about = "mv" => PredictedAsIn(case.m, 0)
  /\ case.about = "direct" => DirectAsIn(case.m, case.otherRef, case.colZero)
  /\ case.about = "cut" => CutAsIn(case.flags, case.zero)
  /\ case.about = "temporal" => TemporalCutAsIn(case.part, case.inference, case.flags)
  /\ case.about = "colocated" => ColocatedAsIn(case.c)

(* A complete picture is deblocked in the order of the standard, each      *)
(* macroblock once with its own edges.  Every edge has the strength and    *)
(* the thresholds of the standard, whichever of the formulas computes it   *)
(* and whatever a P macroblock left in its vectors of list 1; and where    *)
(* frame and field pairs meet, the samples that face each other, and the   *)
(* blocks that they are taken for, are those of the standard.              *)
DeblockedAsStandard ==
  /\ DeblockedOnce
  /\ case.about = "strength" => StrengthsAsIn(case.p, case.q)
  /\ case.about = "index" => \A offset \in -6 .. 6 : IndexAsIn(case.qp, case.qn, offset, case.bd)
  /\ case.about = "facing" => FacingAsIn(case.m)

(* A slice group map puts every macroblock in a group there is; with the   *)
(* types that change over time (3 to 5) group 0 or 1 grows to the number   *)
(* of macroblocks the change cycle stands for, and covers the picture in   *)
(* the end.                                                                *)
GroupsHaveTheirUnits ==
  case.about = "groups" =>
    LET m == FmoMap(case.pps, case.cycle, case.w, case.h)
        size == case.w * case.h
        units(g) == Cardinality({i \in DOMAIN m : m[i] = g})
    IN /\ DOMAIN m = Units(case.w, case.h)
       /\ \A i \in DOMAIN m : m[i] \in 0 .. case.pps.n - 1
       /\ case.pps.type \in 3 .. 5 => units(0) = UnitsInGroup0(case.pps, case.cycle, size)

(* The lists of a slice hold the pictures of 8.2.4 in its order, for every *)
(* mixture of frames, single fields, long-term and inferred frames, with   *)
(* the first two entries of equal lists exchanged and the base view last;  *)
(* modified lists are those of 8.2.4.3, and no entry of a list that a      *)
(* slice is decoded with lacks a picture.                                  *)
ListsAsStandard ==
  case.about = "lists" => IF case.mods = <<>> THEN InitialAsIn(case) ELSE ModifiedAsIn(case)

(* Order counts unwrapped from their low bits, or counted along FrameNum   *)
(* that never starts again, keep the differences that 8.2.1 gives them     *)
(* over gaps, pairs of fields, resets and IDR pictures; and the task with  *)
(* the oldest number is the oldest as long as the ages of the live tasks   *)
(* differ by less than half of what a number can count.                    *)
NumbersUnwrapped ==
  /\ case.about = "numbers" => UnwrappedAsIn(case.sps, case.pics)
  /\ case.about = "ages" => OldestAsIn(case.ages, case.size)

(* The weights, scales and maps in use at every macroblock are those of    *)
(* 8.4.2.3 and 8.4.1.2.3 for its kind, frame or field of either parity,    *)
(* in whatever order the kinds follow each other; a scaling list is read   *)
(* as 7.3.2.1.1.1 reads it, and a matrix falls back as Table 7-2 says.     *)
WeightsAsStandard ==
  /\ case.about = "weights" => WeightsAsIn(case.t, case.kinds)
  /\ case.about = "list" => ListAsIn(case.deltas, 4)
  /\ case.about = "matrices" => MatricesAsIn(case.s, case.p)
=============================================================================
