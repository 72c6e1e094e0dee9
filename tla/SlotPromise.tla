----------------------------- MODULE SlotPromise -----------------------------
(***************************************************************************)
(* What the progress protocol of a picture promises to the tasks that      *)
(* predict from it: the rows that are final for them only become more, and *)
(* a task goes on once the rows it needs are final, whatever the writer    *)
(* publishes and takes back before any task of a later picture exists.     *)
(***************************************************************************)
EXTENDS Integers

CONSTANTS
  Reader,  \* the tasks that predict from the picture
  Need,    \* the row each of them needs final below, at most Whole
  Whole    \* the frontier of a complete picture, above every need

VARIABLES
  final,   \* the rows below are final
  passed   \* the readers that went on

vars == <<final, passed>>

Init == final = 0 /\ passed = {}

Advance ==
  /\ final' \in final + 1 .. Whole
  /\ UNCHANGED passed

Pass(r) ==
  /\ r \notin passed /\ Need[r] <= final
  /\ passed' = passed \union {r}
  /\ UNCHANGED final

Next == Advance \/ \E r \in Reader : Pass(r)

Spec == Init /\ [][Next]_vars

FairSpec == Spec /\ WF_vars(Advance) /\ \A r \in Reader : WF_vars(Pass(r))
=============================================================================
