------------------------------ MODULE TaskPool ------------------------------
(***************************************************************************)
(* The multithreaded decoder core: one parser thread, inside an API call,  *)
(* turns the slices of a stream into tasks, and a fixed set of workers     *)
(* decodes them, each row waiting for the rows it reads in the reference   *)
(* pictures.  One mutex (dec->lock) protects the task pool; the rows and   *)
(* the deblocking frontier of a picture are written without it.            *)
(*                                                                         *)
(* A step that takes the lock, and the lock-free steps of the macroblock   *)
(* loop, are actions of their own.  The parser keeps the lock from one     *)
(* action to the next unless it waits (pwait), as does a worker between    *)
(* leaving a task and taking the next, while lock-free steps go on.  A     *)
(* waiter's check and its going to sleep are one step, as FrameProgress    *)
(* justifies for frame_progress and the mutex does for the rest.           *)
(*                                                                         *)
(* Abstracted: a row is one macroblock; samples are named by what made     *)
(* them (SliceOrder); a slice reads every picture of its lists up to Reach *)
(* rows below its own.  Left out: interlaced fields, FMO and MBAFF         *)
(* pictures, failing allocations, slices rejected while their header is    *)
(* parsed, and the choice of the pictures output (a caller may receive any *)
(* complete access unit, and returns it at once).                          *)
(***************************************************************************)
EXTENDS SliceOrder, FiniteSets

CONSTANTS
  Worker,    \* dec->threads
  NTasks,    \* MAX_TASKS, the bits of busy_tasks
  NSlots,    \* MAX_FRAMES, the slots of the DPB
  MaxPics,   \* pics_in_flight
  Reach,     \* rows below its own that a row may predict from
  Streams    \* the streams a caller may send, sequences of Header

ASSUME TaskPoolAssumption ==
  /\ NTasks \in Nat \ {0} /\ NSlots \in Nat \ {0}
  /\ MaxPics \in Nat \ {0} /\ Reach \in Nat
  /\ Streams \subseteq Seq(Header)

(* Threads can be counted; a base view has no base view itself.            *)
ASSUME WorkersAssumption == IsFiniteSet(Worker)
ASSUME BaseViewsAssumption ==
  \A st \in Streams : \A k \in DOMAIN st : ViewBase(st, st[k].base) = 0

Task == 1 .. NTasks
Slot == 1 .. NSlots
None == 0           \* -1 in the code: no task, no slot

VARIABLES
  stream, next,     \* the stream sent, and the index of its next slice
  tasks,            \* tasks, taskPics, task_dependencies, task_after, task_bounds
  busy, pending, ready, chained, acked,  \* the task masks
  held,             \* held_task
  frame,            \* FrameIds, next_deblock_addr, remaining_mbs, macroblocks,
                    \* progress_wake_addr of every slot
  flagged,          \* slots whose frame_flags have VIEW_CONCEALED
  refFrames, toGet,      \* prev_short_term_frames etc., to_get_frames
  currPic,          \* the slot of the picture being parsed
  ctx,              \* the context and program counter of every worker
  ppc, pwait        \* where the parser is in a call, and what it waits for

streamVars == <<stream, next>>
poolVars == <<tasks, busy, pending, ready, chained, acked, held>>
dpbVars == <<frame, flagged, refFrames, toGet, currPic>>
parserVars == <<ppc, pwait>>
vars == <<streamVars, poolVars, dpbVars, ctx, parserVars>>

Addr == -1 .. Inf   \* -1 is INT_MIN

TaskRecord == [job : Nat, pic : Slot \union {None}, deps : SUBSET Slot,
               after : SUBSET Task, bound : 0 .. Inf]
FrameRecord == [id : Nat, frontier : 0 .. Inf, remaining : Int,
                rows : [Row -> RowContent], wake : Addr]

(* idle: about to look for a task; claim, ref: at the claim of row `row' or*)
(* at its references; parsed: out of data, its bound to be settled; redo,  *)
(* count, finish: the steps after it; leave, take: finished and still      *)
(* holding the lock; a notify* has stored a frontier and is to wake those  *)
(* waiting for it.                                                         *)
SleepPc == {"refSleep", "boundSleep"}
NotifyPc == {"notifyRow", "notifyBack", "notifySlice", "notifyDone"}
LockPc == {"leave", "take"}
DecodePc == {"claim", "ref", "parsed", "redo", "count", "finish"} \union SleepPc \union NotifyPc
Pc == {"idle", "asleep", "exit"} \union DecodePc \union LockPc

Context == [pc : Pc, task : Task \union {None}, chain : Task \union {None},
            row : 0 .. Rows, bound : 0 .. Inf, turn : BOOLEAN, last : BOOLEAN,
            on : Slot \union {None}]

TypeOK ==
  /\ stream \in Streams /\ next \in 1 .. Len(stream) + 1
  /\ tasks \in [Task -> TaskRecord]
  /\ busy \subseteq Task /\ pending \subseteq busy /\ ready \subseteq pending
  /\ chained \subseteq Task /\ acked \subseteq Task /\ held \in busy \union {None}
  /\ frame \in [Slot -> FrameRecord] /\ flagged \subseteq Slot
  /\ refFrames \subseteq Slot /\ toGet \subseteq Slot /\ currPic \in Slot \union {None}
  /\ ctx \in [Worker -> Context]
  /\ ppc \in {"idle", "task", "settle", "start", "slot", "create", "created",
              "endSettle", "drain", "closed"}
  /\ pwait \in {"none", "complete", "frame", "awake"}

Init ==
  /\ stream \in Streams /\ next = 1
  /\ tasks = [t \in Task |-> [job |-> 0, pic |-> None, deps |-> {}, after |-> {},
                              bound |-> Unknown]]
  /\ busy = {} /\ pending = {} /\ ready = {} /\ chained = {} /\ acked = {}
  /\ held = None
  /\ frame = [s \in Slot |-> [id |-> 0, frontier |-> 0, remaining |-> 0,
                              rows |-> Blank, wake |-> Inf]]
  /\ flagged = {} /\ refFrames = {} /\ toGet = {} /\ currPic = None
  /\ ctx = [w \in Worker |-> [pc |-> "idle", task |-> None, chain |-> None,
                              row |-> 0, bound |-> Unknown, turn |-> FALSE,
                              last |-> FALSE, on |-> None]]
  /\ ppc = "idle" /\ pwait = "none"

-----------------------------------------------------------------------------
(* The masks computed from the state.                                      *)

SliceOf(t) == stream[tasks[t].job]
SlotsOf(P) == {s \in Slot : frame[s].id \in P}

CompleteIn(fr) == {s \in Slot : fr[s].frontier = Inf}
Complete == CompleteIn(frame)
Writing == {tasks[t].pic : t \in busy}
Depended == UNION {tasks[t].deps : t \in busy}
Inflight == Writing \ Complete

ReadyIn(tk, pend, bsy, fr) ==
  {t \in pend : /\ tk[t].deps \subseteq CompleteIn(fr) \union {tk[u].pic : u \in bsy}
                /\ tk[t].after \intersect bsy = {}}

(* Fault: the comparison of the ages is inverted.                          *)
Oldest_Youngest(T) == CHOOSE t \in T : \A u \in T : tasks[t].job >= tasks[u].job

Oldest(T) == CHOOSE t \in T : \A u \in T : tasks[t].job <= tasks[u].job
Offers(pool, rdy) == pool # {} /\ Oldest(pool) \in rdy

(* A worker taking or leaving a task signals task_ready once if the oldest *)
(* task of the pool is ready then.                                         *)
PassOn(pool, rdy) == IF Offers(pool, rdy) THEN 1 ELSE 0

-----------------------------------------------------------------------------
(* The lock and the condition variables.                                   *)

ParserHolds == ppc \notin {"idle", "closed"} /\ pwait = "none"
Lockable(w) == ~ParserHolds /\ \A v \in Worker \ {w} : ctx[v].pc \notin LockPc
ParserLock == pwait \in {"none", "awake"} /\ \A w \in Worker : ctx[w].pc \notin LockPc

Asleep == {w \in Worker : ctx[w].pc = "asleep"}

(* The workers that n signals of task_ready may wake.                      *)
Signalled(n) ==
  {W \in SUBSET Asleep : Cardinality(W) = (IF n <= Cardinality(Asleep) THEN n ELSE Cardinality(Asleep))}

WakeWorkers(c, W) ==
  [w \in Worker |-> IF w \notin W THEN c[w]
                    ELSE [c[w] EXCEPT !.pc = CASE @ = "asleep" -> "idle"
                                               [] @ = "refSleep" -> "ref"
                                               [] @ = "boundSleep" -> "parsed"
                                               [] OTHER -> @]]

(* wake_frame_waiters on the slots F: those asleep there, and the slots    *)
(* once nobody is.                                                         *)
Awaited(F) == {s \in F : frame[s].wake # Inf}
Waiters(F) == {w \in Worker : ctx[w].pc \in SleepPc /\ ctx[w].on \in Awaited(F)}
Quiet(fr, F) == [s \in Slot |-> IF s \in F THEN [fr[s] EXCEPT !.wake = Inf] ELSE fr[s]]
ParserAfter(F) == IF pwait = "frame" /\ currPic \in Awaited(F) THEN "awake" ELSE pwait

-----------------------------------------------------------------------------
(* Concealment of the pictures no task will ever complete.                 *)

(* Fault: nothing is concealed for a picture that lost its last slice.     *)
Terminal_None == {}

Terminal == ((Depended \union toGet) \ (Complete \union Writing)) \ {currPic}

BaseSlots(s) ==
  {b \in refFrames \union toGet : frame[b].id # 0 /\ frame[b].id = BaseOf(stream, frame[s].id)}

Postponed(s) == \E b \in BaseSlots(s) \ Complete : b \in Writing
Concealable(T) == {s \in T : ~Postponed(s)}
BasesConcealedFor(T) ==
  UNION {BaseSlots(s) \ (Complete \union Writing \union {currPic}) : s \in T}

(* Its samples come from the base view if that is complete; of one still   *)
(* being written they would be whatever is there.                          *)
ConcealedFrame(s) ==
  LET bases == BaseSlots(s) \ ({currPic} \ Complete)
      fill == IF bases \intersect Writing \subseteq Complete
                THEN Concealment(IF bases = {} THEN 0 ELSE BaseOf(stream, frame[s].id))
                ELSE Undecoded
  IN  [frame[s] EXCEPT !.frontier = Inf, !.remaining = 0, !.wake = Inf,
                       !.rows = [r \in Row |-> IF @[r] = Undecoded THEN fill ELSE @[r]]]

(* release_terminal_task_dependencies, by the thread that changes the      *)
(* contexts to c and sends n other signals of task_ready.                  *)
ReleaseTerminal(c, n) ==
  LET concealed == Concealable(Terminal)
      bases == BasesConcealedFor(Terminal)
      all == concealed \union bases
  IN  /\ frame' = [s \in Slot |-> IF s \in all THEN ConcealedFrame(s) ELSE frame[s]]
      /\ flagged' = flagged \union Terminal \union bases
      /\ ready' = IF concealed = {} THEN ready ELSE ReadyIn(tasks, pending, busy, frame')
      /\ \E W \in Signalled(n + (IF concealed # {} /\ ready' # {} THEN 1 ELSE 0)) :
           ctx' = WakeWorkers(c, W \union Waiters(all))

-----------------------------------------------------------------------------
(* The workers.                                                            *)

Known(w) == ctx[w].bound # Unknown
CanLearn(w) == ~Known(w) /\ tasks[ctx[w].task].bound # Unknown
PicOf(w) == tasks[ctx[w].task].pic
SliceAt(w) == SliceOf(ctx[w].task)

(* After its context is set to c, worker w stores `addr' as the frontier of*)
(* its picture, and wakes the waiters in a step of its own if it has to.   *)
StoreFrontier(w, c, addr, notify, pc, rows) ==
  LET s == PicOf(w)
  IN  /\ frame' = [frame EXCEPT ![s].frontier = addr, ![s].rows = rows]
      /\ ctx' = [ctx EXCEPT ![w] = [c EXCEPT !.pc = IF addr >= frame[s].wake THEN notify ELSE pc]]

AfterRow(w, row) == IF row = SliceAt(w).last THEN "parsed" ELSE "claim"

Notify(w) ==
  LET s == PicOf(w)
  IN  /\ ctx[w].pc \in NotifyPc /\ Lockable(w)
      /\ frame' = Quiet(frame, {s})
      /\ pwait' = ParserAfter({s})
      /\ ctx' = WakeWorkers([ctx EXCEPT ![w].pc =
                               CASE @ = "notifyRow" -> AfterRow(w, ctx[w].row)
                                 [] @ = "notifyBack" -> "redo"
                                 [] @ = "notifySlice" -> "count"
                                 [] @ = "notifyDone" -> "finish"], Waiters({s}))
      /\ UNCHANGED <<streamVars, poolVars, flagged, refFrames, toGet, currPic, ppc>>

(* The oldest task out of the chained ones, or the next slice of the       *)
(* picture the worker just left; the next worker is woken for the next.    *)
TakeTask(w) ==
  LET t == IF ctx[w].chain # None THEN ctx[w].chain ELSE Oldest(pending \ chained)
      s == tasks[t].pic
      first == SliceOf(t).first
      afterSpec == \E u \in busy \ acked' : tasks[u].pic = s /\ tasks[u].job < tasks[t].job
  IN  /\ ctx[w].pc \in {"idle", "take"} /\ Lockable(w)
      /\ ctx[w].chain = None => ppc # "closed" /\ Offers(pending \ chained, ready)
      /\ pending' = pending \ {t} /\ ready' = ready \ {t} /\ chained' = chained \ {t}
      /\ acked' = IF tasks[t].bound # Unknown THEN acked \union {t} ELSE acked
      /\ \E W \in Signalled(PassOn(pending' \ chained', ready')) :
           ctx' = WakeWorkers([ctx EXCEPT ![w] =
                    [pc |-> "claim", task |-> t, chain |-> None, row |-> first,
                     bound |-> tasks[t].bound, last |-> FALSE, on |-> None,
                     turn |-> frame[s].frontier = first /\ ~afterSpec]], W)
      /\ UNCHANGED <<streamVars, tasks, busy, held, dpbVars, parserVars>>

FallAsleep(w) ==
  /\ ctx[w].pc \in {"idle", "take"} /\ Lockable(w) /\ ctx[w].chain = None
  /\ ppc # "closed" /\ ~Offers(pending \ chained, ready)
  /\ ctx' = [ctx EXCEPT ![w].pc = "asleep"]
  /\ UNCHANGED <<streamVars, poolVars, dpbVars, parserVars>>

Exit(w) ==
  /\ ctx[w].pc \in {"idle", "take"} /\ Lockable(w) /\ ctx[w].chain = None
  /\ ppc = "closed"
  /\ ctx' = [ctx EXCEPT ![w].pc = "exit"]
  /\ UNCHANGED <<streamVars, poolVars, dpbVars, parserVars>>

(* ack_mb_bound: c are the contexts after the step that acks.              *)
AckBound(w, c) ==
  LET s == PicOf(w)
  IN  /\ acked' = acked \union {ctx[w].task}
      /\ frame[s].wake # Inf => Lockable(w)
      /\ frame' = Quiet(frame, {s})
      /\ pwait' = ParserAfter({s})
      /\ ctx' = WakeWorkers(c, Waiters({s}))

Needed(w) == Lowest({ctx[w].row + 1 + Reach, Rows})
Lacking(w) == {s \in tasks[ctx[w].task].deps : frame[s].frontier < Needed(w)}

(* known_mb_bound, at the three places a slice reads task_bounds: before a *)
(* claim, while it waits for a reference, and at the end of its data.      *)
LearnBound(w) ==
  LET b == tasks[ctx[w].task].bound
      c == [ctx EXCEPT ![w].bound = b]
      end == ctx[w].row + (IF ctx[w].pc = "ref" THEN 1 ELSE 0)
  IN  /\ \/ ctx[w].pc = "claim"
         \/ ctx[w].pc = "parsed" /\ Lockable(w)
         \/ ctx[w].pc = "ref" /\ Lacking(w) # {} /\ Lockable(w)
      /\ CanLearn(w)
      /\ IF end > b THEN ctx' = c /\ UNCHANGED <<acked, frame, pwait>> ELSE AckBound(w, c)
      /\ UNCHANGED <<streamVars, tasks, busy, pending, ready, chained, held,
                     flagged, refFrames, toGet, currPic, ppc>>

(* A task whose slot went to another picture sees the claims inverted, the *)
(* flip bit of the slot having changed.                                    *)
Stale(t) == frame[tasks[t].pic].id # SliceOf(t).pic
Claimed(w) == (frame[PicOf(w)].rows[ctx[w].row] # Undecoded) # Stale(ctx[w].task)

(* The slices claim_after_older_slices waits for.                          *)
UnackedOlder(w) ==
  {u \in busy \ acked : /\ tasks[u].pic = PicOf(w) /\ SliceOf(u).first < ctx[w].row
                        /\ tasks[u].job < tasks[ctx[w].task].job}

ClaimRow(w) ==
  LET s == PicOf(w)
      r == ctx[w].row
      claim == IF Stale(ctx[w].task) THEN Undecoded ELSE Decoded(tasks[ctx[w].task].job)
  IN  /\ ctx[w].pc = "claim" /\ ~CanLearn(w)
      /\ \/ /\ r >= ctx[w].bound
            /\ ctx' = [ctx EXCEPT ![w].pc = "parsed"]
            /\ UNCHANGED frame
         \/ /\ r < ctx[w].bound /\ Claimed(w) /\ UnackedOlder(w) = {}
            /\ ctx' = [ctx EXCEPT ![w].pc = "parsed"]
            /\ UNCHANGED frame
         \/ /\ r < ctx[w].bound /\ ~Claimed(w)
            /\ ctx' = [ctx EXCEPT ![w].pc = "ref"]
            /\ frame' = [frame EXCEPT ![s].rows[r] = claim]
      /\ UNCHANGED <<streamVars, poolVars, flagged, refFrames, toGet, currPic, parserVars>>

(* Fault: the address replaces the one of another waiter.                  *)
WakeAddress_Last(w, s) == Needed(w) + 2

(* wait_frame_locked, asking to be woken two rows past the one needed.     *)
WakeAddress(w, s) == Lowest({frame[s].wake, Needed(w) + 2})

(* wait_frame_progress: conceal what nobody will write, or sleep on one of *)
(* the pictures still behind.                                              *)
AwaitRow(w) ==
  /\ ctx[w].pc = "ref" /\ Lockable(w) /\ ~CanLearn(w)
  /\ \E s \in Lacking(w) :
       IF Concealable(Terminal) # {} THEN ReleaseTerminal(ctx, 0)
       ELSE /\ frame' = [frame EXCEPT ![s].wake = WakeAddress(w, s)]
            /\ ctx' = [ctx EXCEPT ![w].pc = "refSleep", ![w].on = s]
            /\ flagged' = flagged \union Terminal
            /\ UNCHANGED ready
  /\ UNCHANGED <<streamVars, tasks, busy, pending, chained, acked, held,
                 refFrames, toGet, currPic, parserVars>>

(* The row is decoded, and if it is its turn deblocked and published, Lag  *)
(* rows behind.                                                            *)
DecodeRow(w) ==
  LET row == ctx[w].row + 1
      c == [ctx[w] EXCEPT !.row = row]
  IN  /\ ctx[w].pc = "ref" /\ Lacking(w) = {}
      /\ IF ctx[w].turn
           THEN StoreFrontier(w, c, Larger(SliceAt(w).first, row - Lag), "notifyRow",
                              AfterRow(w, row), frame[PicOf(w)].rows)
           ELSE ctx' = [ctx EXCEPT ![w] = [c EXCEPT !.pc = AfterRow(w, row)]] /\ UNCHANGED frame
      /\ UNCHANGED <<streamVars, poolVars, flagged, refFrames, toGet, currPic, parserVars>>

AwaitBound(w) ==
  /\ ctx[w].pc = "parsed" /\ Lockable(w) /\ ~Known(w) /\ ~CanLearn(w)
  /\ frame' = [frame EXCEPT ![PicOf(w)].wake = -1]
  /\ ctx' = [ctx EXCEPT ![w].pc = "boundSleep", ![w].on = PicOf(w)]
  /\ UNCHANGED <<streamVars, poolVars, flagged, refFrames, toGet, currPic, parserVars>>

(* Fault: the rows past the bound are not taken back.                      *)
Overrun_Kept(w) == FALSE

Overrun(w) == Known(w) /\ ctx[w].row > ctx[w].bound

(* A slice that went past its bound takes its rows back, the published     *)
(* ones too, then acks the bound and starts again.                         *)
TakeBack(w) ==
  LET s == PicOf(w)
      first == SliceAt(w).first
      rows == [r \in Row |-> IF r \in first .. ctx[w].row - 1 THEN Undecoded
                             ELSE frame[s].rows[r]]
  IN  /\ ctx[w].pc = "parsed" /\ Overrun(w)
      /\ IF ctx[w].turn
           THEN StoreFrontier(w, ctx[w], first, "notifyBack", "redo", rows)
           ELSE /\ frame' = [frame EXCEPT ![s].rows = rows]
                /\ ctx' = [ctx EXCEPT ![w].pc = "redo"]
      /\ UNCHANGED <<streamVars, poolVars, flagged, refFrames, toGet, currPic, parserVars>>

Redo(w) ==
  /\ ctx[w].pc = "redo"
  /\ AckBound(w, [ctx EXCEPT ![w].pc = "claim", ![w].row = SliceAt(w).first])
  /\ UNCHANGED <<streamVars, tasks, busy, pending, ready, chained, held,
                 flagged, refFrames, toGet, currPic, ppc>>

(* slice_turn's SLICE_TURN.  Its wait and SLICE_DEFERRED are for a slice   *)
(* that finds an older one of its picture running (see SlicesInOrder).     *)
InTurn(w) == frame[PicOf(w)].frontier \in SliceAt(w).first .. ctx[w].row

(* Fault: a slice cut short is not an error if its data is good.           *)
FailedAt_BadOnly(w) == SliceAt(w).bad

FailedAt(w) == Failed(SliceAt(w), ctx[w].row)

(* The end of a slice: recover what it will not publish, publish the rest. *)
PublishSlice(w) ==
  LET s == PicOf(w)
      keep == KeepRow(SliceAt(w), ctx[w].row)
      rows == [r \in Row |-> IF FailedAt(w) /\ r \in keep .. ctx[w].row - 1
                               THEN Recovered(tasks[ctx[w].task].job) ELSE frame[s].rows[r]]
  IN  /\ ctx[w].pc = "parsed" /\ Known(w) /\ ~Overrun(w)
      /\ flagged' = IF FailedAt(w) THEN flagged \union {s} ELSE flagged
      /\ IF InTurn(w)
           THEN StoreFrontier(w, ctx[w], keep, "notifySlice", "count", rows)
           ELSE /\ frame' = [frame EXCEPT ![s].rows = rows]
                /\ ctx' = [ctx EXCEPT ![w].pc = "count"]
      /\ UNCHANGED <<streamVars, poolVars, refFrames, toGet, currPic, parserVars>>

(* remaining_mbs, and the slice that brings it to 0 completes the picture. *)
CountSlice(w) ==
  LET s == PicOf(w)
      left == frame[s].remaining - (ctx[w].row - SliceAt(w).first)
      last == ~FailedAt(w) /\ left = 0
  IN  /\ ctx[w].pc = "count"
      /\ frame' = [frame EXCEPT ![s].remaining = IF FailedAt(w) THEN @ ELSE left,
                                ![s].frontier = IF last THEN Inf ELSE @]
      /\ ctx' = [ctx EXCEPT ![w].last = last, ![w].pc = IF last THEN "notifyDone" ELSE "finish"]
      /\ UNCHANGED <<streamVars, poolVars, flagged, refFrames, toGet, currPic, parserVars>>

(* Fault: the chained slice is taken whether it is ready or not.           *)
Heirs_Unready(freed, rdy) == freed \intersect chained

(* The slices to go on with: those of the picture that waited for this one *)
(* last and are ready.                                                     *)
Heirs(freed, rdy) == (freed \intersect chained) \intersect rdy

(* The lock section that ends a task: it wakes those its leaving concerns, *)
(* frees the slices waiting for it, and chooses the one to go on with.     *)
Finish(w) ==
  LET t == ctx[w].task
      s == PicOf(w)
      others == busy \ {t}
      quiet == IF ctx[w].last \/ \E u \in others : tasks[u].pic = s THEN {s} ELSE Slot
      tasksAfter == [u \in Task |->
        IF u = t THEN [tasks[u] EXCEPT !.deps = {}, !.pic = None]
        ELSE IF u \in others THEN [tasks[u] EXCEPT !.after = @ \ {t}] ELSE tasks[u]]
      waiting == \E u \in others : t \in tasks[u].after
      freed == {u \in others : tasks[u].after = {t}}
      readyDone == ReadyIn(tasks, pending, busy, frame)
      readyNext == ReadyIn(tasksAfter, pending, others, frame)
      continues == waiting /\ readyNext # {}
      heirs == Heirs(freed, readyNext)
      chain == IF continues /\ heirs # {} THEN Oldest(heirs) ELSE None
      signals == (IF ctx[w].last /\ readyDone # {} THEN 1 ELSE 0)
               + (IF continues THEN PassOn((pending \ chained') \ {chain}, ready') ELSE 0)
  IN  /\ ctx[w].pc = "finish" /\ Lockable(w)
      /\ busy' = others /\ tasks' = tasksAfter
      /\ ready' = IF waiting THEN readyNext ELSE IF ctx[w].last THEN readyDone ELSE ready
      /\ chained' = chained \ (IF continues THEN (freed \intersect chained) \ readyNext ELSE freed)
      /\ frame' = Quiet(frame, quiet)
      /\ pwait' = IF pwait = "complete" THEN "awake" ELSE ParserAfter(quiet)
      /\ \E W \in Signalled(signals) :
           ctx' = WakeWorkers([ctx EXCEPT ![w].pc = "leave", ![w].chain = chain,
                                          ![w].task = None], W \union Waiters(quiet))
      /\ UNCHANGED <<streamVars, pending, acked, held, flagged, refFrames, toGet, currPic, ppc>>

LeaveTask(w) ==
  /\ ctx[w].pc = "leave"
  /\ ReleaseTerminal([ctx EXCEPT ![w].pc = "take"], 0)
  /\ UNCHANGED <<streamVars, tasks, busy, pending, chained, acked, held,
                 refFrames, toGet, currPic, parserVars>>

Work(w) ==
  \/ TakeTask(w) \/ FallAsleep(w) \/ Exit(w)
  \/ LearnBound(w) \/ ClaimRow(w) \/ AwaitRow(w) \/ DecodeRow(w) \/ AwaitBound(w)
  \/ TakeBack(w) \/ Redo(w) \/ PublishSlice(w) \/ CountSlice(w) \/ Notify(w)
  \/ Finish(w) \/ LeaveTask(w)

-----------------------------------------------------------------------------
(* The parser thread.                                                      *)

Slice == stream[next]

(* Fault: a slice waiting for its bound is not woken when it gets one.     *)
HeldPic_NotWoken == {}

(* release_held_task with bound b (nothing without a held task).           *)
HeldPic == IF held = None THEN {} ELSE {tasks[held].pic}
BoundHeld(b) == [t \in Task |-> IF t = held THEN [tasks[t] EXCEPT !.bound = b] ELSE tasks[t]]
ReleaseHeld(b) ==
  /\ held' = None /\ tasks' = BoundHeld(b)
  /\ frame' = Quiet(frame, HeldPic)
  /\ ctx' = WakeWorkers(ctx, Waiters(HeldPic))

(* progress_or_wait: the caller checks its condition again when it returns.*)
ProgressOrWait ==
  /\ ReleaseTerminal(ctx, 0)
  /\ pwait' = IF Concealable(Terminal) # {} /\ ready' # {} THEN "none" ELSE "complete"

InCall(step) == ppc = step /\ ParserLock

(* decode_nal, up to the parser of slices.  A slice at macroblock 0 cannot *)
(* bound the one before.                                                   *)
SendSlice ==
  /\ InCall("idle") /\ next <= Len(stream)
  /\ IF Slice.first = 0 THEN ReleaseHeld(Inf) ELSE UNCHANGED <<held, tasks, frame, ctx>>
  /\ ppc' = "task" /\ pwait' = "none"
  /\ UNCHANGED <<streamVars, busy, pending, ready, chained, acked, flagged, refFrames, toGet, currPic>>

(* Wait for a task to fill; then a slice of another picture ends the one   *)
(* being parsed (unset_currPic).                                           *)
WaitTaskSlot ==
  LET changes == currPic # None /\ frame[currPic].id # Slice.pic
      full == Cardinality(Writing) > MaxPics \/ busy = Task
  IN  /\ InCall("task")
      /\ \/ /\ full
            /\ ProgressOrWait
            /\ UNCHANGED <<tasks, held, ppc>>
         \/ /\ ~full
            /\ IF changes THEN ReleaseHeld(Inf) ELSE UNCHANGED <<held, tasks, frame, ctx>>
            /\ ppc' = IF changes THEN "settle" ELSE IF currPic = None THEN "start" ELSE "create"
            /\ pwait' = "none"
            /\ UNCHANGED <<ready, flagged>>
      /\ UNCHANGED <<streamVars, busy, pending, chained, acked, refFrames, toGet, currPic>>

(* Fault: the parser does not wait for the slices past their bound.        *)
Unsettled_None == {}

Unsettled ==
  {t \in (busy \ pending) \ acked : tasks[t].pic = currPic /\ tasks[t].bound # Inf}

(* settle_mb_bounds, and the end of unset_currPic: the marking of the      *)
(* picture takes effect.                                                   *)
SettleBounds ==
  LET waitPics == {ctx[w].on : w \in {v \in Worker : ctx[v].task \in Unsettled /\ ctx[v].pc = "refSleep"}}
  IN  /\ ppc \in {"settle", "endSettle"} /\ ParserLock
      /\ \/ /\ Unsettled # {}
            /\ frame' = [Quiet(frame, waitPics) EXCEPT ![currPic].wake = -1]
            /\ ctx' = WakeWorkers(ctx, Waiters(waitPics))
            /\ pwait' = "frame"
            /\ UNCHANGED <<currPic, refFrames, ppc>>
         \/ /\ Unsettled = {}
            /\ currPic' = None
            /\ refFrames' = IF ppc = "settle" THEN SlotsOf(Slice.refs) ELSE refFrames
            /\ ppc' = IF ppc = "settle" THEN "start" ELSE "drain"
            /\ pwait' = "none"
            /\ UNCHANGED <<frame, ctx>>
      /\ UNCHANGED <<streamVars, poolVars, flagged, toGet>>

(* Conceal the previous picture if nothing writes it any more.             *)
StartPicture ==
  /\ InCall("start")
  /\ ReleaseTerminal(ctx, 0)
  /\ ppc' = "slot" /\ pwait' = "none"
  /\ UNCHANGED <<streamVars, tasks, busy, pending, chained, acked, held, refFrames, toGet, currPic>>

(* Fault: only the tasks still writing protect a slot.                     *)
Unavailable_Read == refFrames \union toGet \union SlotsOf({Slice.base} \ {0}) \union Inflight

(* A slot that is no reference, awaits no output, and that no task reads   *)
(* or still writes.                                                        *)
Reserved == refFrames \union toGet \union SlotsOf({Slice.base} \ {0})
Unavailable == Reserved \union Depended \union Inflight

AllocSlot ==
  /\ InCall("slot")
  /\ \/ /\ Reserved = Slot     \* ENOBUFS, the caller sends the slice again
        /\ ppc' = "idle" /\ pwait' = "none"
        /\ UNCHANGED <<ready, dpbVars, ctx>>
     \/ /\ Reserved # Slot /\ Unavailable = Slot
        /\ ProgressOrWait
        /\ UNCHANGED <<refFrames, toGet, currPic, ppc>>
     \/ /\ Unavailable # Slot
        /\ LET s == Lowest(Slot \ Unavailable)
           IN  /\ frame' = [frame EXCEPT ![s].id = Slice.pic, ![s].frontier = 0,
                                         ![s].remaining = Rows, ![s].rows = Blank]
               /\ flagged' = flagged \ {s} /\ toGet' = toGet \union {s} /\ currPic' = s
        /\ ppc' = "create" /\ pwait' = "none"
        /\ UNCHANGED <<ready, refFrames, ctx>>
  /\ UNCHANGED <<streamVars, tasks, busy, pending, chained, acked, held>>

(* Fault: a slice does not bound the one before.                           *)
HeldBound_None == Inf

(* The bound this slice gives the one before.                              *)
HeldBound ==
  IF held # None /\ tasks[held].pic = currPic /\ Slice.first > SliceOf(held).first
    THEN Slice.first ELSE Inf

(* Fault: the slices already running are forgotten.                        *)
OlderSlices_Pending == {u \in pending : tasks[u].pic = currPic}

(* A slice starts after the older busy slices of its picture.              *)
OlderSlices == {u \in busy : tasks[u].pic = currPic}

(* The index of a task is only a name: it is chosen here, where the code    *)
(* reserves the lowest free one as soon as it has waited for one.          *)
CreateTask ==
  LET t == Lowest(Task \ busy)
      after == OlderSlices
  IN  /\ InCall("create")
      /\ tasks' = [BoundHeld(HeldBound) EXCEPT ![t] =
                     [job |-> next, pic |-> currPic, deps |-> SlotsOf(Slice.reads),
                      after |-> after, bound |-> Unknown]]
      /\ held' = t /\ busy' = busy \union {t} /\ pending' = pending \union {t}
      /\ chained' = IF after # {} THEN chained \union {t} ELSE chained \ {t}
      /\ acked' = acked \ {t}
      /\ ready' = ReadyIn(tasks', pending', busy', frame)
      /\ frame' = Quiet(frame, HeldPic)
      /\ ctx' = WakeWorkers(ctx, Waiters(HeldPic))
      /\ ppc' = "created" /\ pwait' = "none"
      /\ UNCHANGED <<streamVars, flagged, refFrames, toGet, currPic>>

(* Fault: a task is signalled only if another runs before it.              *)
CreatedSignals_Chained == IF held \in chained THEN 1 ELSE 0

(* The worker that ends the slice before will take a chained one.          *)
CreatedSignals == IF held \in chained THEN 0 ELSE 1

CreatedTask ==
  /\ InCall("created")
  /\ IF held \in ready
       THEN /\ \E W \in Signalled(CreatedSignals) : ctx' = WakeWorkers(ctx, W)
            /\ UNCHANGED <<frame, flagged, ready>>
       ELSE ReleaseTerminal(ctx, CreatedSignals)
  /\ next' = next + 1
  /\ ppc' = "idle" /\ pwait' = "none"
  /\ UNCHANGED <<stream, tasks, busy, pending, chained, acked, held, refFrames, toGet, currPic>>

(* End of stream: bump_all_frames ends the picture being parsed, waits for *)
(* every task and conceals what is left.                                   *)
SendEnd ==
  /\ InCall("idle") /\ next > Len(stream)
  /\ busy # {} \/ currPic # None \/ ~(toGet \subseteq Complete)
  /\ IF currPic # None THEN ReleaseHeld(Inf) ELSE UNCHANGED <<held, tasks, frame, ctx>>
  /\ ppc' = IF currPic # None THEN "endSettle" ELSE "drain"
  /\ pwait' = "none"
  /\ UNCHANGED <<streamVars, busy, pending, ready, chained, acked, flagged, refFrames, toGet, currPic>>

Drain ==
  /\ InCall("drain")
  /\ IF busy # {}
       THEN ProgressOrWait /\ UNCHANGED ppc
       ELSE ReleaseTerminal(ctx, 0) /\ ppc' = "idle" /\ pwait' = "none"
  /\ UNCHANGED <<streamVars, tasks, busy, pending, chained, acked, held, refFrames, toGet, currPic>>

-----------------------------------------------------------------------------
(* The caller, between the calls that send.                                *)

(* A complete access unit is received and returned, both views at once.    *)
Receive(s) ==
  LET unit == {d \in toGet : d = s \/ BaseOf(stream, frame[d].id) = frame[s].id}
  IN  /\ InCall("idle") /\ s \in toGet /\ unit \subseteq Complete
      /\ ViewBase(stream, frame[s].id) = 0
      /\ \A k \in DOMAIN stream : stream[k].base = frame[s].id =>
           \E d \in unit : frame[d].id = stream[k].pic
      /\ toGet' = toGet \ unit
      /\ UNCHANGED <<streamVars, poolVars, frame, flagged, refFrames, currPic, ctx, parserVars>>

(* get_frame drops a dependent view whose base view is lost, unless some   *)
(* task still writes it.                                                   *)
DropOrphan(s) ==
  /\ InCall("idle") /\ s \in toGet \ (Writing \union {currPic})
  /\ ViewBase(stream, frame[s].id) # 0 /\ BaseOf(stream, frame[s].id) = 0
  /\ toGet' = toGet \ {s}
  /\ UNCHANGED <<streamVars, poolVars, frame, flagged, refFrames, currPic, ctx, parserVars>>

(* Fault: shutdown wakes nobody.                                           *)
Broadcast_None == {}

(* Shutdown wakes every worker that sleeps on task_ready.                  *)
Broadcast == Asleep

(* free_decoder, which then joins the workers.                             *)
Close ==
  /\ InCall("idle")
  /\ held' = None /\ tasks' = BoundHeld(Inf) /\ frame' = Quiet(frame, HeldPic)
  /\ ctx' = WakeWorkers(ctx, Waiters(HeldPic) \union Broadcast)
  /\ ppc' = "closed" /\ pwait' = "none"
  /\ UNCHANGED <<streamVars, busy, pending, ready, chained, acked, flagged, refFrames, toGet, currPic>>

Joined == ppc = "closed" /\ \A w \in Worker : ctx[w].pc = "exit"

Parse == WaitTaskSlot \/ SettleBounds \/ StartPicture \/ AllocSlot \/ CreateTask
           \/ CreatedTask \/ Drain
Call == SendSlice \/ SendEnd \/ Close \/ \E s \in Slot : Receive(s) \/ DropOrphan(s)

Next == (\E w \in Worker : Work(w)) \/ Parse \/ Call \/ (Joined /\ UNCHANGED vars)

Spec == Init /\ [][Next]_vars

(* The mutex and the scheduler are fair: a thread that can go on again and *)
(* again does.  Nothing obliges the caller to send, receive or close.      *)
FairSpec == Spec /\ SF_vars(Parse) /\ \A w \in Worker : SF_vars(Work(w))

-----------------------------------------------------------------------------
(* Properties.                                                             *)

Decodes(w) == ctx[w].pc \in DecodePc

(* A slice decodes once every older slice of its picture is done, though   *)
(* it starts before the one before is bounded: the slices of a picture     *)
(* decode one at a time, in order, whatever the threads.  slice_turn and   *)
(* claim_after_older_slices then never wait, and defer no deblocking.      *)
SlicesInOrder ==
  \A w \in Worker : Decodes(w) =>
    \A u \in busy : tasks[u].pic = PicOf(w) =>
      u = ctx[w].task \/ tasks[u].job > tasks[ctx[w].task].job

(* The assertion of worker_loop: a slice is taken only if it is ready, and *)
(* so is the one a worker goes on with.                                    *)
ChainIsReady ==
  \A w \in Worker : ctx[w].pc = "take" /\ ctx[w].chain # None => ctx[w].chain \in ready

(* While no thread holds the lock and the oldest task of the pool is ready,*)
(* a worker is about to look for it: the signals of task_ready, one at a   *)
(* time and passed on by the worker taking a task, leave none asleep       *)
(* beside a task it could take.                                            *)
NoLostWakeup ==
  /\ ~ParserHolds /\ \A w \in Worker : ctx[w].pc \notin LockPc
  /\ Offers(pending \ chained, ready) /\ Asleep # {} /\ ppc # "closed"
  => \E w \in Worker : ctx[w].pc = "idle"

(* Whoever sleeps on a picture left a wake address no higher than its own, *)
(* though one address serves all the waiters of a slot.                    *)
SleepersAreReachable ==
  \A w \in Worker :
    /\ ctx[w].pc = "refSleep" => frame[ctx[w].on].wake <= Needed(w) + 2
    /\ ctx[w].pc = "boundSleep" => frame[ctx[w].on].wake = -1

(* The comment above the take loop of worker_loop: every picture a running *)
(* task waits on has its writers running, or chained behind one that runs. *)
WaitsOnRunningWriters ==
  \A w \in Worker : ctx[w].pc \in {"ref", "refSleep"} =>
    \A s \in Lacking(w) : \A t \in pending \ chained :
      tasks[t].pic = s => tasks[t].job > tasks[ctx[w].task].job

(* The slot of a picture some task is to read still holds that picture: no *)
(* slot is given away between the parsing of a slice and its decoding.     *)
DependenciesKept ==
  \A t \in busy : {frame[s].id : s \in tasks[t].deps} = SliceOf(t).reads

(* The slot a slice is decoded into still holds its picture.               *)
NoStaleWriter ==
  \A w \in Worker : ctx[w].pc \in DecodePc \ {"finish", "notifyDone"} => ~Stale(ctx[w].task)

(* What a reader may read is what single-threaded decoding leaves there,   *)
(* even when published by a slice that does not know where it ends.  (Once *)
(* closed, a decoder outputs nothing more, and its last slice has no end.) *)
PublishedRowsFinal ==
  ppc # "closed" => \A t \in busy : \A s \in tasks[t].deps : \A r \in Row :
    r < frame[s].frontier => frame[s].rows[r] = SingleThreaded(stream, frame[s].id)[r]

(* A complete picture is the one single-threaded decoding produces.        *)
SameAsSingleThreaded ==
  ppc # "closed" => \A s \in Complete : frame[s].rows = SingleThreaded(stream, frame[s].id)

(* It is marked as concealed exactly when single-threaded decoding marks   *)
(* it, whichever thread met the damage.                                    *)
FlaggedIfDamaged ==
  ppc # "closed" => \A s \in Complete : s \in flagged <=> Damaged(stream, frame[s].id)

(* A frontier goes back, or a slot to another picture, only if no task is  *)
(* to read there.                                                          *)
FrontierKeptForReaders ==
  [][\A s \in Depended : frame'[s].frontier >= frame[s].frontier]_vars

(* Once closed, some worker goes on until all have left: free_decoder does  *)
(* not wait for one that nobody will wake.                                 *)
ShutdownProgresses ==
  ppc = "closed" /\ ~Joined => \E w \in Worker : ctx[w].pc \notin SleepPc \union {"asleep", "exit"}

(* Every call of the parser returns.                                       *)
CallReturns == ppc # "idle" ~> ppc \in {"idle", "closed"}

(* Every task the next NAL has bounded is decoded, until the decoder is    *)
(* closed.                                                                 *)
TasksFinish == \A t \in Task : t \in busy /\ t # held ~> t \notin busy \/ ppc = "closed"

(* free_decoder can join every worker.                                     *)
WorkersJoin == ppc = "closed" ~> Joined

-----------------------------------------------------------------------------
(* The inductive invariant behind SlicesInOrder, proved in TaskPoolProofs. *)

ClaimPc == {"claim", "ref", "refSleep"}
EndPc == {"notifySlice", "count", "notifyDone", "finish"}

NextJob == IF ppc = "created" THEN next + 1 ELSE next

(* A task waits for every older busy task of its slot, and for none that   *)
(* has left; the slice held back for its bound has none yet.               *)
TasksOrdered ==
  /\ \A t \in busy : /\ tasks[t].pic \in Slot /\ tasks[t].after \subseteq busy
                     /\ tasks[t].job \in DOMAIN stream /\ tasks[t].job < NextJob
  /\ \A t, u \in busy : tasks[t].job = tasks[u].job => t = u
  /\ \A t, u \in busy :
       tasks[u].pic = tasks[t].pic /\ tasks[u].job < tasks[t].job => u \in tasks[t].after
  /\ \A t \in ready : tasks[t].after = {}
  /\ held # None => tasks[held].bound = Unknown

(* The parser creates a task only for a slice of the stream, with a number *)
(* free and a picture to decode into.                                      *)
ParserPrepared ==
  /\ ppc \in {"task", "settle", "start", "slot", "create", "created"} => next <= Len(stream)
  /\ ppc \in {"settle", "start", "slot", "create"} => busy # Task
  /\ ppc = "create" => currPic # None

(* A worker's task is its own, waits for nothing and, past its data, knows *)
(* its bound; the task it goes on with is still pending.                   *)
WorkerOwns(c, tk, bsy, pend, h, st) ==
  /\ c.pc \in DecodePc => /\ c.task \in bsy \ pend /\ tk[c.task].after = {}
                          /\ c.bound # Unknown => c.task # h
  /\ c.pc \in ClaimPc => c.row < st[tk[c.task].job].last
  /\ c.pc = "notifyRow" => c.row <= st[tk[c.task].job].last
  /\ c.pc \in EndPc => c.bound # Unknown
  /\ c.chain # None => c.pc \in LockPc /\ c.chain \in pend /\ tk[c.chain].after = {}

WorkersOwn(c, tk, bsy, pend, h, st) ==
  /\ \A w \in Worker : WorkerOwns(c[w], tk, bsy, pend, h, st)
  /\ \A v, w \in Worker :
       c[v].pc \in DecodePc /\ c[w].pc \in DecodePc /\ c[v].task = c[w].task => v = w

(* Type-correct, the tasks of a slot ordered by task_after, every worker   *)
(* with a task of its own: what TaskPoolProofs proves of every step.       *)
PoolInv ==
  /\ TypeOK /\ TasksOrdered /\ ParserPrepared
  /\ WorkersOwn(ctx, tasks, busy, pending, held, stream)

(* The inductive invariants behind ChainIsReady, NoLostWakeup and          *)
(* SleepersAreReachable, proved in TaskPoolSlots.  (PictureInv has that of *)
(* the properties about rows.)                                             *)

(* The tasks that could start now, whether or not ready_tasks has them.    *)
ReadyNow == ReadyIn(tasks, pending, busy, frame)

(* Somebody is to look at the pool: a worker about to take a task, or the  *)
(* parser about to signal the one it created.                              *)
Watched ==
  \/ \E w \in Worker : ctx[w].pc \in {"idle"} \union LockPc
  \/ ppc = "created" /\ held \notin chained

(* ready_tasks misses no task that could start, which it keeps while a     *)
(* worker that goes on with it has the lock; and the pool is watched.      *)
WakeInv ==
  /\ PoolInv
  /\ ReadyNow \subseteq ready
  /\ \A w \in Worker : ctx[w].chain # None => ctx[w].chain \in ReadyNow
  /\ pwait # "none" => ppc \in {"task", "settle", "endSettle", "slot", "drain"}
  /\ ppc = "created" /\ held \in chained => tasks[held].after # {}
  /\ Offers(pending \ chained, ready) /\ Asleep # {} /\ ppc # "closed" => Watched

(* Whoever sleeps, sleeps on a slot, which has an address low enough.      *)
SleepInv ==
  /\ PoolInv /\ SleepersAreReachable
  /\ \A w \in Worker : ctx[w].pc \in SleepPc => ctx[w].on \in Slot

(* The pictures slice k may predict from: the references held when its     *)
(* picture starts, and the base view of its access unit unless it is lost. *)
MayRead(st, k) == st[k].refs \union ({st[k].base} \intersect PicsOf(st))

(* What such slices of a stream satisfy: a slice reads no other picture,   *)
(* and a picture may be read by the next one only if the one before could  *)
(* read it, or was it.  (A missing reference is replaced while the headers *)
(* are parsed, which is left out here; the slices of a picture hold the    *)
(* same references.)                                                       *)
ReadsWhatIsHeld(st) ==
  \A k \in DOMAIN st :
    /\ st[k].reads \subseteq MayRead(st, k)
    /\ MayRead(st, k) \subseteq
         IF k = 1 THEN {}
         ELSE MayRead(st, k - 1) \union
                (IF st[k].pic = st[k - 1].pic THEN {} ELSE {st[k - 1].pic})

(* The inductive invariant behind DependenciesKept, also in TaskPoolSlots: *)
(* while slices are to come, the slots hold what the next one may read.    *)
Held == {frame[s].id : s \in Slot}

(* The slice whose picture is being parsed.                                *)
Parsed == IF ppc \in {"create", "created"} THEN next ELSE next - 1

ReferencesHeld ==
  ppc # "closed" /\ next <= Len(stream) =>
    IF currPic = None
      THEN /\ ppc \in {"idle", "task", "start", "slot"}
           /\ MayRead(stream, next) \subseteq Held /\ SlotsOf(Slice.refs) \subseteq refFrames
      ELSE /\ ppc \in {"idle", "task", "settle", "create", "created"}
           /\ Parsed \in DOMAIN stream /\ frame[currPic].id = stream[Parsed].pic
           /\ MayRead(stream, Parsed) \subseteq Held

DepsInv == PoolInv /\ DependenciesKept /\ ReadsWhatIsHeld(stream) /\ ReferencesHeld
=============================================================================
