--------------------------- MODULE MCFrameProgress ---------------------------
(* An instance of FrameProgress for TLC: a picture of two slices, and      *)
(* readers that wait for each of its rows, the last for the whole picture. *)
EXTENDS FrameProgress, TLC

Needs == ("r1" :> 1) @@ ("r2" :> 2) @@ ("r3" :> Rows)
Firsts == <<0, 1>>
=============================================================================
