---------------------------- MODULE FrameProgress ----------------------------
(***************************************************************************)
(* How the tasks of one DPB slot wait for each other, one atomic access at *)
(* a time: the worker that decodes the slices of the picture publishes its *)
(* deblocking frontier without the lock, the parser tells each slice where *)
(* it ends only with the next one, and readers, tasks of later pictures,   *)
(* wait for rows.  All sleep on one condition variable (frame_progress),   *)
(* and a publisher takes the lock to wake them only from the lowest        *)
(* address they left in progress_wake_addr on.                             *)
(*                                                                         *)
(* A section under the lock that touches no atomic variable another thread *)
(* writes without it is one step.  Sequentially consistent accesses see    *)
(* the latest store; an acquire load of the frontier may see an older one, *)
(* though none older than the thread has seen.  A thread may wake by       *)
(* itself.                                                                 *)
(*                                                                         *)
(* The slices are in order, each decoded by the worker that decoded the    *)
(* one before (SlicesInOrder of TaskPool), and none ends short of the next *)
(* one; a slice may run on into it.  The settling of a slice that waits    *)
(* for a reference is left to TaskPool.                                    *)
(***************************************************************************)
EXTENDS SliceOrder, FiniteSets

CONSTANTS
  Reader,   \* the tasks that predict from the picture
  Need,     \* the row each needs final below, at most Rows
  N,        \* the slices of the picture
  First     \* first_mb_in_slice of each

ASSUME FrameProgressAssumption ==
  /\ N \in Nat \ {0} /\ First \in [1 .. N -> Row] /\ First[1] = 0
  /\ \A i, j \in 1 .. N : i < j => First[i] < First[j]
  /\ Need \in [Reader -> 1 .. Rows]
  /\ Reader \intersect {"none", "parser"} = {}

VARIABLES
  next_deblock_addr,   \* the frontier
  progress_wake_addr,
  lock,                \* the thread that keeps dec->lock from a step to the next
  task_bounds,         \* of every slice
  acked,               \* acked_tasks
  made, done,          \* slices parsed, slices decoded: those between are busy
  worker,              \* the context of the thread that decodes
  parser, unsettled,   \* where the parser is, and the slices it waits for
  reader, seen         \* where each reader is, and the frontier it last saw

sharedVars == <<next_deblock_addr, progress_wake_addr>>
taskVars == <<task_bounds, acked, made, done>>
parserVars == <<parser, unsettled>>
readerVars == <<reader, seen>>
vars == <<sharedVars, lock, taskVars, worker, parserVars, readerVars>>

Slice == 1 .. N
k == done + 1                    \* the slice being decoded
Lowered == -1                    \* INT_MIN

(* load: has stored a frontier and is to read the wake address; ackLoad:   *)
(* the same after its ack; notify: is to wake the waiters.  then: where it *)
(* goes on afterwards.                                                     *)
WorkerPc == {"idle", "row", "overrun", "ack", "ackLoad", "parsed", "boundSleep",
             "last", "finish", "load", "notify"}
Then == {"row", "ack", "last", "finish"}

ParserPc == {"parse", "settle", "settleStore", "settleCheck", "settleSleep", "settleWoken", "settled"}
ReaderPc == {"spin", "enter", "check", "store", "recheck", "sleep", "passed"}

Context == [pc : WorkerPc, then : Then, row : 0 .. Rows,
            bound : 1 .. Rows \union {Unknown, Inf}]

TypeOK ==
  /\ next_deblock_addr \in 0 .. Rows \union {Inf}
  /\ progress_wake_addr \in Lowered .. Inf
  /\ lock \in {"none", "parser"} \union Reader
  /\ task_bounds \in [Slice -> 1 .. Rows \union {Unknown, Inf}] /\ acked \subseteq Slice
  /\ made \in 0 .. N /\ done \in 0 .. made
  /\ worker \in Context
  /\ parser \in ParserPc /\ unsettled \subseteq Slice
  /\ reader \in [Reader -> ReaderPc] /\ seen \in [Reader -> 0 .. Inf]

Init ==
  /\ next_deblock_addr = 0 /\ progress_wake_addr = Inf /\ lock = "none"
  /\ task_bounds = [i \in Slice |-> Unknown] /\ acked = {}
  /\ made = 0 /\ done = 0
  /\ worker = [pc |-> "idle", then |-> "row", row |-> 0, bound |-> Unknown]
  /\ parser = "parse" /\ unsettled = {}
  /\ reader = [r \in Reader |-> "spin"] /\ seen = [r \in Reader |-> 0]

(* Where slice i ends: at the next one, the last with the picture.         *)
BoundFor(i) == IF i = N THEN Inf ELSE First[i + 1]
Limit(i) == IF i = N THEN Rows ELSE First[i + 1]

Free == lock = "none"

(* wake_frame_waiters, by the worker that goes on as c: if somebody left   *)
(* an address, whoever sleeps is to take the lock again.                   *)
AwakeReaders == [r \in Reader |-> IF reader[r] = "sleep" THEN "enter" ELSE reader[r]]
AwakeParser == IF parser = "settleSleep" THEN "settleWoken" ELSE parser
AwakeWorker(c) == IF c.pc = "boundSleep" THEN [c EXCEPT !.pc = "parsed"] ELSE c
WakeWaiters(c) ==
  IF progress_wake_addr = Inf
  THEN worker' = c /\ UNCHANGED <<progress_wake_addr, reader, parser>>
  ELSE /\ worker' = AwakeWorker(c)
       /\ progress_wake_addr' = Inf
       /\ reader' = AwakeReaders /\ parser' = AwakeParser

-----------------------------------------------------------------------------
(* The worker.                                                             *)

(* It starts the next slice, which it may already know the end of.         *)
Take ==
  /\ worker.pc = "idle" /\ Free /\ done < made
  /\ worker' = [worker EXCEPT !.pc = "row", !.row = First[k], !.bound = task_bounds[k]]
  /\ acked' = IF task_bounds[k] # Unknown THEN acked \union {k} ELSE acked
  /\ UNCHANGED <<sharedVars, lock, task_bounds, made, done, parserVars, readerVars>>

(* Fault: the rows past the bound are not taken back.                      *)
Learnt_Kept(b) == [worker EXCEPT !.bound = b, !.pc = "ack"]

(* known_mb_bound: what a slice that learns its bound b does next.         *)
Learnt(b) == [worker EXCEPT !.bound = b, !.pc = IF worker.row > b THEN "overrun" ELSE "ack"]

(* Before a claim, without the lock, so that it may miss a bound just set. *)
LearnBound ==
  /\ worker.pc = "row" /\ worker.bound = Unknown /\ task_bounds[k] # Unknown
  /\ worker' = Learnt(task_bounds[k])
  /\ UNCHANGED <<sharedVars, lock, taskVars, parserVars, readerVars>>

(* publish_frame_progress: c is the context it goes on with.               *)
Publish(addr, c, then) ==
  /\ next_deblock_addr' = addr
  /\ worker' = [c EXCEPT !.pc = "load", !.then = then]

DecodeRow ==
  LET row == worker.row + 1
  IN  /\ worker.pc = "row" /\ row <= Rows /\ worker.row < worker.bound
      /\ Publish(Larger(First[k], row - Lag), [worker EXCEPT !.row = row], "row")
      /\ UNCHANGED <<progress_wake_addr, lock, taskVars, parserVars, readerVars>>

EndOfData ==
  /\ worker.pc = "row" /\ worker.row >= Limit(k)
  /\ worker' = [worker EXCEPT !.pc = "parsed"]
  /\ UNCHANGED <<sharedVars, lock, taskVars, parserVars, readerVars>>

AwaitBound ==
  /\ worker.pc = "parsed" /\ worker.bound = Unknown /\ Free
  /\ IF task_bounds[k] = Unknown
       THEN /\ progress_wake_addr' = Lowered
            /\ worker' = [worker EXCEPT !.pc = "boundSleep"]
       ELSE /\ worker' = Learnt(task_bounds[k])
            /\ UNCHANGED progress_wake_addr
  /\ UNCHANGED <<next_deblock_addr, lock, taskVars, parserVars, readerVars>>

(* An overrun takes back the rows past the bound, acks, and starts again.  *)
Overrun ==
  /\ worker.pc = "overrun"
  /\ Publish(First[k], [worker EXCEPT !.row = First[k]], "ack")
  /\ UNCHANGED <<progress_wake_addr, lock, taskVars, parserVars, readerVars>>

(* ack_mb_bound.                                                           *)
Ack ==
  /\ worker.pc = "ack"
  /\ acked' = acked \union {k}
  /\ worker' = [worker EXCEPT !.pc = "ackLoad", !.then = "row"]
  /\ UNCHANGED <<sharedVars, lock, task_bounds, made, done, parserVars, readerVars>>

(* The frontier reaches the lowest address asked for; an ack is for anyone.*)
MustWake ==
  IF worker.pc = "load" THEN next_deblock_addr >= progress_wake_addr
  ELSE progress_wake_addr # Inf

LoadWakeAddr ==
  /\ worker.pc \in {"load", "ackLoad"}
  /\ worker' = [worker EXCEPT !.pc = IF MustWake THEN "notify" ELSE worker.then]
  /\ UNCHANGED <<sharedVars, lock, taskVars, parserVars, readerVars>>

Notify ==
  /\ worker.pc = "notify" /\ Free
  /\ WakeWaiters([worker EXCEPT !.pc = worker.then])
  /\ UNCHANGED <<next_deblock_addr, lock, taskVars, unsettled, seen>>

PublishSlice ==
  /\ worker.pc = "parsed" /\ worker.bound # Unknown
  /\ Publish(worker.row, worker, IF k = N THEN "last" ELSE "finish")
  /\ UNCHANGED <<progress_wake_addr, lock, taskVars, parserVars, readerVars>>

Complete ==
  /\ worker.pc = "last"
  /\ Publish(Inf, worker, "finish")
  /\ UNCHANGED <<progress_wake_addr, lock, taskVars, parserVars, readerVars>>

Finish ==
  /\ worker.pc = "finish" /\ Free
  /\ done' = k
  /\ WakeWaiters([worker EXCEPT !.pc = "idle"])
  /\ UNCHANGED <<next_deblock_addr, lock, task_bounds, acked, made, unsettled, seen>>

Work ==
  \/ Take \/ LearnBound \/ DecodeRow \/ EndOfData \/ AwaitBound \/ Overrun \/ Ack
  \/ LoadWakeAddr \/ Notify \/ PublishSlice \/ Complete \/ Finish

-----------------------------------------------------------------------------
(* The parser.                                                             *)

(* The next slice of the picture gives the one before its bound.           *)
ParseSlice ==
  /\ parser = "parse" /\ Free /\ made < N
  /\ made' = made + 1
  /\ IF made = 0 THEN UNCHANGED <<task_bounds, progress_wake_addr, worker, parser, reader>>
     ELSE task_bounds' = [task_bounds EXCEPT ![made] = BoundFor(made)] /\ WakeWaiters(worker)
  /\ UNCHANGED <<next_deblock_addr, lock, acked, done, unsettled, seen>>

(* unset_currPic, which gives the last slice its bound and then settles    *)
(* those before, keeping the lock.                                         *)
EndPicture ==
  /\ parser = "parse" /\ Free /\ made = N
  /\ task_bounds' = [task_bounds EXCEPT ![N] = Inf]
  /\ progress_wake_addr' = Inf
  /\ worker' = IF progress_wake_addr = Inf THEN worker ELSE AwakeWorker(worker)
  /\ lock' = "parser" /\ parser' = "settle"
  /\ UNCHANGED <<next_deblock_addr, acked, made, done, unsettled, readerVars>>

(* Fault: the parser does not wait for the slices past their bound.        *)
Unsettled_None == {}

(* The slice being decoded, if it may still be past its bound.             *)
Unsettled ==
  IF worker.pc # "idle" /\ task_bounds[k] # Inf THEN {k} \ acked ELSE {}

Settle ==
  /\ parser = "settle"
  /\ unsettled' = Unsettled
  /\ IF Unsettled = {} THEN parser' = "settled" /\ lock' = "none"
     ELSE parser' = "settleStore" /\ UNCHANGED lock
  /\ UNCHANGED <<sharedVars, taskVars, worker, readerVars>>

SettleStore ==
  /\ parser = "settleStore"
  /\ progress_wake_addr' = Lowered /\ parser' = "settleCheck"
  /\ UNCHANGED <<next_deblock_addr, lock, taskVars, worker, unsettled, readerVars>>

SettleCheck ==
  /\ parser = "settleCheck"
  /\ IF acked \intersect unsettled = {} THEN parser' = "settleSleep" /\ lock' = "none"
     ELSE parser' = "settle" /\ UNCHANGED lock
  /\ UNCHANGED <<sharedVars, taskVars, worker, unsettled, readerVars>>

SettleAgain ==
  /\ parser = "settleWoken" /\ Free
  /\ parser' = "settle" /\ lock' = "parser"
  /\ UNCHANGED <<sharedVars, taskVars, worker, unsettled, readerVars>>

Parse ==
  \/ ParseSlice \/ EndPicture \/ Settle \/ SettleStore \/ SettleCheck \/ SettleAgain

-----------------------------------------------------------------------------
(* The readers, tasks parsed once the picture has ended.                   *)

(* An acquire load of the frontier.                                        *)
Sees(r, v) == v \in seen[r] .. next_deblock_addr /\ seen' = [seen EXCEPT ![r] = v]
GoTo(r, pc) == reader' = [reader EXCEPT ![r] = pc]

Spin(r) ==
  /\ parser = "settled" /\ reader[r] = "spin"
  /\ \E v \in 0 .. Inf : Sees(r, v) /\ GoTo(r, IF v >= Need[r] THEN "passed" ELSE "enter")
  /\ UNCHANGED <<sharedVars, lock, taskVars, worker, parserVars>>

Enter(r) ==
  /\ reader[r] = "enter" /\ Free
  /\ lock' = r /\ GoTo(r, "check")
  /\ UNCHANGED <<sharedVars, taskVars, worker, parserVars, seen>>

Check(r) ==
  /\ reader[r] = "check"
  /\ \E v \in 0 .. Inf :
       /\ Sees(r, v)
       /\ IF v >= Need[r] THEN GoTo(r, "passed") /\ lock' = "none"
          ELSE GoTo(r, "store") /\ UNCHANGED lock
  /\ UNCHANGED <<sharedVars, taskVars, worker, parserVars>>

(* wait_frame_locked asks to be woken two rows past the one needed, and    *)
(* looks at the frontier once more after it has.                           *)
WakeAt(r) == Need[r] + 2

Asked(r) == IF WakeAt(r) < progress_wake_addr THEN WakeAt(r) ELSE progress_wake_addr

(* Fault: the frontier is not looked at once more.                         *)
StillBehind_Assumed(r) == TRUE

StillBehind(r) == next_deblock_addr < WakeAt(r)

StoreWakeAddr(r) ==
  /\ reader[r] = "store"
  /\ progress_wake_addr' = Asked(r) /\ GoTo(r, "recheck")
  /\ UNCHANGED <<next_deblock_addr, lock, taskVars, worker, parserVars, seen>>

Recheck(r) ==
  /\ reader[r] = "recheck"
  /\ IF StillBehind(r) THEN GoTo(r, "sleep") /\ lock' = "none"
     ELSE GoTo(r, "check") /\ UNCHANGED lock
  /\ seen' = [seen EXCEPT ![r] = next_deblock_addr]
  /\ UNCHANGED <<sharedVars, taskVars, worker, parserVars>>

Await(r) == Spin(r) \/ Enter(r) \/ Check(r) \/ StoreWakeAddr(r) \/ Recheck(r)

Passed == {r \in Reader : reader[r] = "passed"}
Terminated == done = N /\ parser = "settled" /\ Passed = Reader

(* pthread_cond_wait may return though nobody signalled.                   *)
WakeUp ==
  /\ \/ /\ worker.pc = "boundSleep" /\ worker' = AwakeWorker(worker)
        /\ UNCHANGED <<parser, reader>>
     \/ /\ parser = "settleSleep" /\ parser' = AwakeParser
        /\ UNCHANGED <<worker, reader>>
     \/ /\ \E r \in Reader : reader[r] = "sleep" /\ GoTo(r, "enter")
        /\ UNCHANGED <<worker, parser>>
  /\ UNCHANGED <<sharedVars, lock, taskVars, unsettled, seen>>

Next ==
  \/ Work \/ Parse \/ WakeUp \/ \E r \in Reader : Await(r)
  \/ Terminated /\ UNCHANGED vars

Spec == Init /\ [][Next]_vars

(* Every thread is scheduled, the mutex is fair, and the stream goes on    *)
(* (or ends, which ends the picture too).                                  *)
FairSpec ==
  Spec /\ SF_vars(Work) /\ SF_vars(Parse) /\ \A r \in Reader : SF_vars(Await(r))

-----------------------------------------------------------------------------
(* Properties.                                                             *)

(* Nobody sleeps past what he waits for: a reader only while the frontier  *)
(* is below the address it asked for, the parser only while no slice has   *)
(* acked, unless the worker is about to look at the wake address, which    *)
(* is low enough for it to see that it must wake them; the worker only     *)
(* while its slice has no bound, and whoever gives it one will see that it *)
(* sleeps.                                                                 *)
NoMissedWakeup ==
  /\ \A r \in Reader : reader[r] = "sleep" =>
       /\ progress_wake_addr <= WakeAt(r)
       /\ next_deblock_addr < WakeAt(r) \/ worker.pc \in {"load", "notify"}
  /\ parser = "settleSleep" =>
       /\ progress_wake_addr = Lowered
       /\ acked \intersect unsettled = {} \/ worker.pc \in {"ackLoad", "notify"}
  /\ worker.pc = "boundSleep" =>
       progress_wake_addr = Lowered /\ task_bounds[k] = Unknown

(* It keeps the promise made to the readers, whose rows are final once the *)
(* parser has settled the picture: none is taken back, none is read before *)
(* it is published, and every reader goes on.                              *)
Promise == INSTANCE SlotPromise WITH
  Whole <- Inf, passed <- Passed,
  final <- IF parser = "settled" THEN next_deblock_addr ELSE 0

KeepsPromise == Promise!FairSpec

-----------------------------------------------------------------------------
(* The inductive invariant, proved in FrameProgressProofs.                 *)

Phase == IF worker.pc \in {"load", "notify", "ackLoad"} THEN worker.then ELSE worker.pc
DecodePhase == {"row", "overrun", "ack", "parsed", "boundSleep"}
Started == 1 .. done \union (IF worker.pc = "idle" THEN {} ELSE {k})

(* Only the slices that another follows, or the end of the picture, have a *)
(* bound.                                                                  *)
BoundsGiven ==
  /\ parser # "parse" => made = N
  /\ \A i \in Slice :
       task_bounds[i] = IF i < made \/ parser # "parse" THEN BoundFor(i) ELSE Unknown

(* What the worker published is no more than it decoded; it is past its    *)
(* bound only until it has taken that back, and it leaves the frontier     *)
(* where the next slice starts.                                            *)
WorkerInBounds ==
  /\ Phase = "idle" => next_deblock_addr = IF k > N THEN Inf ELSE First[k]
  /\ Phase # "idle" =>
       /\ done < made /\ First[k] <= worker.row
       /\ worker.bound # Unknown => worker.bound = task_bounds[k]
       /\ worker.bound # Unknown /\ Phase # "overrun" => worker.row <= worker.bound
  /\ Phase \in DecodePhase => next_deblock_addr <= Larger(First[k], worker.row - Lag)
  /\ Phase \in {"overrun", "ack", "last", "finish"} => worker.bound # Unknown
  /\ Phase = "overrun" => worker.bound < worker.row
  /\ Phase \in {"parsed", "boundSleep"} => Limit(k) <= worker.row
  /\ Phase = "last" => k = N
  /\ Phase = "boundSleep" => worker.bound = Unknown
  /\ Phase = "finish" => next_deblock_addr = BoundFor(k)

(* A slice acks once it knows its bound and is not past it; once settled,  *)
(* every slice started has, but the last, which cannot be past its own.    *)
AcksHold ==
  /\ acked \subseteq Started /\ unsettled \subseteq Started
  /\ Phase # "idle" /\ k \in acked => worker.bound # Unknown /\ Phase # "overrun"
  /\ parser = "settled" /\ Phase # "idle" => k \in acked \/ k = N

ReadersFollow ==
  \A r \in Reader :
    /\ parser # "settled" => reader[r] = "spin" /\ seen[r] = 0
    /\ seen[r] <= next_deblock_addr

LockHeld ==
  /\ lock = "parser" <=> parser \in {"settle", "settleStore", "settleCheck"}
  /\ \A r \in Reader : lock = r <=> reader[r] \in {"check", "store", "recheck"}

(* Between storing a wake address and sleeping, it stays low enough.       *)
AddressStays ==
  /\ \A r \in Reader : reader[r] = "recheck" => progress_wake_addr <= WakeAt(r)
  /\ parser = "settleCheck" => progress_wake_addr = Lowered

(* The rows that are final for the readers stay so.                        *)
ProgressInv ==
  /\ TypeOK /\ BoundsGiven /\ WorkerInBounds /\ AcksHold /\ ReadersFollow
  /\ LockHeld /\ AddressStays /\ NoMissedWakeup
=============================================================================
