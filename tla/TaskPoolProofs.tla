--------------------------- MODULE TaskPoolProofs ---------------------------
(***************************************************************************)
(* Proofs about TaskPool, for any number of workers, tasks, slots and rows *)
(* and any streams: the state keeps its type (TypeCorrect), and the slices *)
(* of a picture are decoded one at a time, in order (SlicesDecodeInOrder). *)
(*                                                                         *)
(* Both follow from PoolInv, which every step preserves.  SlicesInOrder    *)
(* alone is not inductive: that the older slices of a picture have left    *)
(* when one is taken rests on task_after naming every older busy slice of  *)
(* the slot and no task that has left, as indices are used again.          *)
(***************************************************************************)
EXTENDS TaskPool, SliceOrderProofs

USE SliceOrderAssumption, TaskPoolAssumption

-----------------------------------------------------------------------------
(* The operators of the model.                                             *)

(* A set of tasks that is not empty has an oldest task.                    *)
LEMMA OldestOfTasks ==
  ASSUME NEW T, T # {}, \A t \in T : tasks[t].job \in Nat
  PROVE  Oldest(T) \in T
<1> DEFINE J == {tasks[t].job : t \in T}
<1>1. Lowest(J) \in J /\ \A j \in J : Lowest(J) <= j
  <2>1. J \in SUBSET Nat /\ J # {} OBVIOUS
  <2> HIDE DEF J
  <2> QED BY <2>1, LowestOfNats
<1>2. PICK t \in T : tasks[t].job = Lowest(J) BY <1>1
<1>3. \A u \in T : tasks[t].job <= tasks[u].job BY <1>1, <1>2
<1> QED BY <1>3, Zenon DEF Oldest

(* The base view of a picture is a picture number, or 0.                   *)
LEMMA BaseOfType ==
  ASSUME NEW st \in Seq(Header), NEW p
  PROVE  BaseOf(st, p) \in Nat
<1>1. CASE p \in PicsOf(st)
  <2>1. \E k \in DOMAIN st : st[k].pic = p BY <1>1 DEF PicsOf
  <2> DEFINE k == CHOOSE k \in DOMAIN st : st[k].pic = p
  <2>2. k \in DOMAIN st BY <2>1
  <2>3. st[k] \in Header
    <3> HIDE DEF k
    <3> QED BY <2>2
  <2>4. ViewBase(st, p) = st[k].base BY <1>1 DEF ViewBase
  <2> HIDE DEF k
  <2> QED BY <2>3, <2>4 DEF BaseOf, Header, Fields
<1>2. CASE p \notin PicsOf(st)
  BY <1>2 DEF BaseOf, ViewBase
<1> QED BY <1>1, <1>2

(* A worker that is woken goes on where it slept: nothing else of its      *)
(* context changes, and it stays in the phase it was in.                   *)
Woken(c, d) ==
  \A w \in Worker :
    /\ d[w].task = c[w].task /\ d[w].chain = c[w].chain
    /\ d[w].row = c[w].row /\ d[w].bound = c[w].bound
    /\ d[w].pc \in DecodePc <=> c[w].pc \in DecodePc
    /\ d[w].pc \in ClaimPc <=> c[w].pc \in ClaimPc
    /\ d[w].pc \in EndPc <=> c[w].pc \in EndPc
    /\ d[w].pc \in LockPc <=> c[w].pc \in LockPc
    /\ d[w].pc = "notifyRow" <=> c[w].pc = "notifyRow"

(* Waking workers keeps the contexts well typed.                           *)
LEMMA WakingType ==
  ASSUME NEW c \in [Worker -> Context], NEW W
  PROVE  WakeWorkers(c, W) \in [Worker -> Context] /\ Woken(c, WakeWorkers(c, W))
<1> DEFINE d == WakeWorkers(c, W)
<1>1. ASSUME NEW w \in Worker
      PROVE  /\ d[w] \in Context
             /\ d[w].task = c[w].task /\ d[w].chain = c[w].chain
             /\ d[w].row = c[w].row /\ d[w].bound = c[w].bound
             /\ \/ d[w].pc = c[w].pc
                \/ c[w].pc = "asleep" /\ d[w].pc = "idle"
                \/ c[w].pc = "refSleep" /\ d[w].pc = "ref"
                \/ c[w].pc = "boundSleep" /\ d[w].pc = "parsed"
  <2> DEFINE to == CASE c[w].pc = "asleep" -> "idle"
                     [] c[w].pc = "refSleep" -> "ref"
                     [] c[w].pc = "boundSleep" -> "parsed"
                     [] OTHER -> c[w].pc
  <2>1. c[w] \in Context
    OBVIOUS
  <2>2. c[w].pc \in Pc
    BY <2>1 DEF Context
  <2>3. /\ to \in Pc
        /\ \/ to = c[w].pc
           \/ c[w].pc = "asleep" /\ to = "idle"
           \/ c[w].pc = "refSleep" /\ to = "ref"
           \/ c[w].pc = "boundSleep" /\ to = "parsed"
    BY <2>2 DEF Pc, DecodePc, SleepPc
  <2>4. d[w] = IF w \notin W THEN c[w] ELSE [c[w] EXCEPT !.pc = to]
    BY DEF WakeWorkers
  <2> HIDE DEF d, to
  <2> QED BY <2>1, <2>3, <2>4, SMTT(30) DEF Context
<1>2. d \in [Worker -> Context]
  BY <1>1 DEF WakeWorkers
<1>3. ASSUME NEW w \in Worker
      PROVE  /\ d[w].pc \in DecodePc <=> c[w].pc \in DecodePc
             /\ d[w].pc \in ClaimPc <=> c[w].pc \in ClaimPc
             /\ d[w].pc \in EndPc <=> c[w].pc \in EndPc
             /\ d[w].pc \in LockPc <=> c[w].pc \in LockPc
             /\ d[w].pc = "notifyRow" <=> c[w].pc = "notifyRow"
  <2> HIDE DEF d
  <2> QED BY <1>1 DEF ClaimPc, EndPc, DecodePc, SleepPc, NotifyPc, LockPc
<1> HIDE DEF d
<1>4. Woken(c, d)
  BY <1>1, <1>3 DEF Woken
<1> QED BY <1>2, <1>4 DEF d

(* What workers own does not depend on who is awake.                       *)
LEMMA WakingOwns ==
  ASSUME NEW c, NEW d, Woken(c, d), NEW tk, NEW bsy, NEW pend, NEW h, NEW st,
         WorkersOwn(c, tk, bsy, pend, h, st)
  PROVE  WorkersOwn(d, tk, bsy, pend, h, st)
<1>1. ASSUME NEW w \in Worker
      PROVE  WorkerOwns(d[w], tk, bsy, pend, h, st)
  BY DEF Woken, WorkersOwn, WorkerOwns
<1>2. ASSUME NEW v \in Worker, NEW w \in Worker,
             d[v].pc \in DecodePc, d[w].pc \in DecodePc, d[v].task = d[w].task
      PROVE  v = w
  BY <1>2 DEF Woken, WorkersOwn
<1> QED BY <1>1, <1>2 DEF WorkersOwn

(* Clearing wake addresses keeps the slots well typed.                     *)
LEMMA QuietType ==
  ASSUME NEW fr \in [Slot -> FrameRecord], NEW F
  PROVE  Quiet(fr, F) \in [Slot -> FrameRecord]
<1>1. Inf \in Addr BY DEF Addr, Inf
<1> QED BY <1>1 DEF Quiet, FrameRecord

(* A concealed slot is well typed.                                         *)
LEMMA ConcealedType ==
  ASSUME TypeOK, NEW s \in Slot
  PROVE  ConcealedFrame(s) \in FrameRecord
<1> DEFINE bases == BaseSlots(s) \ ({currPic} \ Complete)
           b == IF bases = {} THEN 0 ELSE BaseOf(stream, frame[s].id)
           fill == IF bases \intersect Writing \subseteq Complete
                     THEN Concealment(b) ELSE Undecoded
           rows == [r \in Row |-> IF frame[s].rows[r] = Undecoded THEN fill ELSE frame[s].rows[r]]
<1>1. stream \in Seq(Header) BY DEF TypeOK
<1>2. b \in Nat
  <2>1. BaseOf(stream, frame[s].id) \in Nat BY <1>1, BaseOfType
  <2> QED BY <2>1
<1>3. fill \in RowContent
  <2> HIDE DEF b, bases
  <2> QED BY <1>2 DEF RowContent, Concealment, Neutral, FromBase, Undecoded
<1>4. frame[s] \in FrameRecord BY DEF TypeOK
<1>5. rows \in [Row -> RowContent]
  <2> HIDE DEF fill
  <2> QED BY <1>3, <1>4 DEF FrameRecord
<1>6. ConcealedFrame(s) = [frame[s] EXCEPT !.frontier = Inf, !.remaining = 0, !.wake = Inf, !.rows = rows]
  BY Zenon DEF ConcealedFrame
<1>7. Inf \in Addr /\ Inf \in 0 .. Inf BY DEF Addr, Inf
<1>8. ConcealedFrame(s) = [id |-> frame[s].id, frontier |-> Inf, remaining |-> 0,
                           rows |-> rows, wake |-> Inf]
  <2> HIDE DEF rows
  <2> QED BY <1>4, <1>6 DEF FrameRecord
<1> HIDE DEF rows
<1> QED BY <1>4, <1>5, <1>7, <1>8 DEF FrameRecord

(* What release_terminal_task_dependencies changes.                        *)
LEMMA ReleaseEffect ==
  ASSUME TypeOK, NEW c \in [Worker -> Context], NEW n, ReleaseTerminal(c, n)
  PROVE  /\ frame' \in [Slot -> FrameRecord] /\ flagged' \subseteq Slot
         /\ ready' = ready \/ ready' = ReadyIn(tasks, pending, busy, frame')
         /\ ctx' \in [Worker -> Context] /\ Woken(c, ctx')
<1> DEFINE all == Concealable(Terminal) \union BasesConcealedFor(Terminal)
<1>1. frame' = [s \in Slot |-> IF s \in all THEN ConcealedFrame(s) ELSE frame[s]]
  BY Zenon DEF ReleaseTerminal
<1>2. frame' \in [Slot -> FrameRecord]
  <2> HIDE DEF all
  <2>1. frame \in [Slot -> FrameRecord] BY DEF TypeOK
  <2> QED BY <1>1, <2>1, ConcealedType
<1>3. Terminal \subseteq Slot
  <2>1. Depended \subseteq Slot /\ toGet \subseteq Slot
    BY DEF TypeOK, Depended, TaskRecord
  <2> QED BY <2>1, Zenon DEF Terminal
<1>4. BasesConcealedFor(Terminal) \subseteq Slot
  <2>1. \A s : BaseSlots(s) \subseteq Slot
    BY DEF BaseSlots, TypeOK
  <2> QED BY <2>1, Zenon DEF BasesConcealedFor
<1>5. flagged' \subseteq Slot
  <2>1. flagged' = flagged \union Terminal \union BasesConcealedFor(Terminal)
    BY Zenon DEF ReleaseTerminal
  <2> QED BY <1>3, <1>4, <2>1 DEF TypeOK
<1>6. ready' = ready \/ ready' = ReadyIn(tasks, pending, busy, frame')
  BY Zenon DEF ReleaseTerminal
<1>7. \E W : ctx' = WakeWorkers(c, W)
  BY Zenon DEF ReleaseTerminal
<1>8. ctx' \in [Worker -> Context] /\ Woken(c, ctx')
  BY <1>7, WakingType
<1> QED BY <1>2, <1>5, <1>6, <1>8

(* A ready task waits for no task.                                         *)
LEMMA ReadyType ==
  ASSUME NEW tk, NEW pend, NEW bsy, NEW fr, \A t \in pend : tk[t].after \subseteq bsy
  PROVE  /\ ReadyIn(tk, pend, bsy, fr) \subseteq pend
         /\ \A t \in ReadyIn(tk, pend, bsy, fr) : tk[t].after = {}
BY Zenon DEF ReadyIn

(* The contexts c are those of the state, but for worker w, which has r.   *)
Becomes(c, w, r) == c = [ctx EXCEPT ![w] = r]

(* A worker that changes its context, but takes no task.                   *)
LEMMA WorkerStep ==
  ASSUME PoolInv, NEW w \in Worker, NEW r \in Context,
         WorkerOwns(r, tasks, busy, pending, held, stream),
         r.pc \notin DecodePc \/ (ctx[w].pc \in DecodePc /\ r.task = ctx[w].task),
         NEW c, Becomes(c, w, r)
  PROVE  c \in [Worker -> Context] /\ WorkersOwn(c, tasks, busy, pending, held, stream)
<1>1. ctx \in [Worker -> Context] BY DEF PoolInv, TypeOK
<1>2. c \in [Worker -> Context] BY <1>1 DEF Becomes
<1>3. \A v \in Worker : c[v] = IF v = w THEN r ELSE ctx[v] BY <1>1 DEF Becomes
<1>4. WorkersOwn(ctx, tasks, busy, pending, held, stream) BY DEF PoolInv
<1>5. \A v \in Worker : WorkerOwns(c[v], tasks, busy, pending, held, stream)
  BY <1>3, <1>4, Zenon DEF WorkersOwn
<1>6. ASSUME NEW u \in Worker, NEW v \in Worker,
             c[u].pc \in DecodePc, c[v].pc \in DecodePc, c[u].task = c[v].task
      PROVE  u = v
  BY <1>3, <1>4, <1>6 DEF WorkersOwn
<1>7. WorkersOwn(c, tasks, busy, pending, held, stream)
  BY <1>5, <1>6 DEF WorkersOwn
<1> QED BY <1>2, <1>7

-----------------------------------------------------------------------------
(* The steps that leave the pool as it is.                                 *)

(* A step that leaves the pool and the parser alone keeps what is said of  *)
(* the tasks.                                                              *)
LEMMA PoolKept ==
  ASSUME PoolInv,
         UNCHANGED <<stream, next, tasks, busy, pending, held, currPic, ppc, refFrames, toGet>>,
         ready' = ready \/ \E fr : ready' = ReadyIn(tasks, pending, busy, fr),
         chained' \subseteq Task, acked' \subseteq Task, flagged' \subseteq Slot,
         frame' \in [Slot -> FrameRecord], ctx' \in [Worker -> Context],
         pwait' \in {"none", "complete", "frame", "awake"},
         WorkersOwn(ctx', tasks, busy, pending, held, stream)
  PROVE  PoolInv'
<1>1. \A t \in pending : tasks[t].after \subseteq busy
  BY DEF PoolInv, TypeOK, TasksOrdered
<1>2. ready' \subseteq pending /\ \A t \in ready' : tasks[t].after = {}
  BY <1>1, ReadyType DEF PoolInv, TypeOK, TasksOrdered
<1>3. TypeOK'
  BY <1>2 DEF PoolInv, TypeOK
<1>4. TasksOrdered'
  BY <1>2 DEF PoolInv, TasksOrdered, NextJob
<1>5. ParserPrepared'
  BY DEF PoolInv, ParserPrepared
<1>6. WorkersOwn(ctx, tasks, busy, pending, held, stream)'
  OBVIOUS
<1> QED BY <1>3, <1>4, <1>5, <1>6 DEF PoolInv

(* What a worker with a task works on.                                     *)
LEMMA AtWork ==
  ASSUME PoolInv, NEW w \in Worker, Decodes(w)
  PROVE  /\ ctx[w].task \in busy /\ ctx[w].task \in Task
         /\ tasks[ctx[w].task] \in TaskRecord
         /\ PicOf(w) \in Slot /\ frame[PicOf(w)] \in FrameRecord
         /\ SliceAt(w) \in Header
<1>1. WorkerOwns(ctx[w], tasks, busy, pending, held, stream)
  BY DEF PoolInv, WorkersOwn
<1>2. ctx[w].task \in busy
  BY <1>1 DEF WorkerOwns, Decodes
<1>3. ctx[w].task \in Task /\ tasks[ctx[w].task] \in TaskRecord
  BY <1>2 DEF PoolInv, TypeOK
<1>4. PicOf(w) \in Slot /\ tasks[ctx[w].task].job \in DOMAIN stream
  BY <1>2 DEF PoolInv, TasksOrdered, PicOf
<1>5. stream \in Seq(Header)
  BY DEF PoolInv, TypeOK
<1>6. SliceAt(w) \in Header
  BY <1>4, <1>5 DEF SliceAt, SliceOf
<1> QED BY <1>2, <1>3, <1>4, <1>6 DEF PoolInv, TypeOK

(* A context that only moves on.                                           *)
LEMMA MovesOn ==
  ASSUME NEW c \in Context, NEW pc \in Pc
  PROVE  /\ [c EXCEPT !.pc = pc] \in Context
         /\ [c EXCEPT !.pc = pc].pc = pc /\ [c EXCEPT !.pc = pc].task = c.task
         /\ [c EXCEPT !.pc = pc].chain = c.chain /\ [c EXCEPT !.pc = pc].row = c.row
         /\ [c EXCEPT !.pc = pc].bound = c.bound
BY DEF Context

(* FallAsleep keeps the invariant.                                         *)
LEMMA FallAsleepInv ==
  ASSUME PoolInv, NEW w \in Worker, FallAsleep(w) \/ Exit(w)
  PROVE  PoolInv'
<1>1. PICK pc \in {"asleep", "exit"} : ctx' = [ctx EXCEPT ![w].pc = pc] /\ ctx[w].chain = None
  BY Zenon DEF FallAsleep, Exit
<1> DEFINE r == [ctx[w] EXCEPT !.pc = pc]
<1>2. r \in Context /\ r.pc = pc /\ r.chain = None
  <2>1. ctx[w] \in Context /\ pc \in Pc BY DEF PoolInv, TypeOK, Pc
  <2> QED BY <1>1, <2>1, MovesOn
<1>3. Becomes(ctx', w, r)
  BY <1>1 DEF PoolInv, TypeOK, Becomes
<1> HIDE DEF r
<1>4. pc \notin DecodePc \union ClaimPc \union EndPc /\ pc # "notifyRow"
  BY DEF DecodePc, SleepPc, NotifyPc, ClaimPc, EndPc
<1>5. ctx' \in [Worker -> Context] /\ WorkersOwn(ctx', tasks, busy, pending, held, stream)
  <2>1. WorkerOwns(r, tasks, busy, pending, held, stream)
    BY <1>2, <1>4, Zenon DEF WorkerOwns
  <2>2. r.pc \notin DecodePc \/ (ctx[w].pc \in DecodePc /\ r.task = ctx[w].task)
    BY <1>2, <1>4, Zenon
  <2> QED BY <1>2, <1>3, <2>1, <2>2, WorkerStep
<1>6. UNCHANGED <<streamVars, poolVars, dpbVars, parserVars>>
  BY Zenon DEF FallAsleep, Exit
<1> QED
  BY <1>5, <1>6, PoolKept DEF streamVars, poolVars, dpbVars, parserVars, PoolInv, TypeOK

(* The context of a worker that goes on with its task.                     *)
Moves(c, w, pc) == c = [ctx EXCEPT ![w].pc = pc]

Going(w, pc, row, bound, last, on) ==
  [pc |-> pc, task |-> ctx[w].task, chain |-> ctx[w].chain, row |-> row,
   bound |-> bound, turn |-> ctx[w].turn, last |-> last, on |-> on]

(* A context that only moves on may wake others too.                       *)
LEMMA GoingMoved ==
  ASSUME ctx \in [Worker -> Context], NEW w \in Worker, NEW pc
  PROVE  Becomes([ctx EXCEPT ![w].pc = pc], w,
                 Going(w, pc, ctx[w].row, ctx[w].bound, ctx[w].last, ctx[w].on))
<1> DEFINE r == Going(w, pc, ctx[w].row, ctx[w].bound, ctx[w].last, ctx[w].on)
<1>1. ctx[w] \in Context OBVIOUS
<1>2. [ctx[w] EXCEPT !.pc = pc] = r
  BY <1>1 DEF Going, Context
<1>3. [ctx EXCEPT ![w].pc = pc] = [ctx EXCEPT ![w] = [ctx[w] EXCEPT !.pc = pc]]
  OBVIOUS
<1> QED BY <1>2, <1>3, Zenon DEF Becomes

(* A worker that goes on with its task, changing only the slots and its    *)
(* context.                                                                *)
LEMMA GoesOn ==
  ASSUME PoolInv, NEW w \in Worker, Decodes(w), NEW pc \in DecodePc, NEW row \in 0 .. Rows,
         NEW bound \in 0 .. Inf, NEW last \in BOOLEAN, NEW on \in Slot \union {None},
         bound # Unknown => ctx[w].task # held,
         pc \in ClaimPc => row < SliceAt(w).last,
         pc = "notifyRow" => row <= SliceAt(w).last,
         pc \in EndPc => bound # Unknown,
         NEW c, Becomes(c, w, Going(w, pc, row, bound, last, on))
  PROVE  c \in [Worker -> Context] /\ WorkersOwn(c, tasks, busy, pending, held, stream)
<1> DEFINE r == Going(w, pc, row, bound, last, on)
<1>1. ctx[w] \in Context /\ pc \in Pc
  BY DEF PoolInv, TypeOK, Pc
<1>2. r \in Context
  BY <1>1 DEF Going, Context
<1>3. WorkerOwns(ctx[w], tasks, busy, pending, held, stream)
  BY DEF PoolInv, WorkersOwn
<1>4. ctx[w].pc \notin LockPc
  BY DEF Decodes, DecodePc, SleepPc, NotifyPc, LockPc
<1>5. r.pc = pc /\ r.task = ctx[w].task /\ r.chain = ctx[w].chain /\ r.row = row /\ r.bound = bound
  BY DEF Going
<1>6. Becomes(c, w, r) OBVIOUS
<1> HIDE DEF r
<1>7. WorkerOwns(r, tasks, busy, pending, held, stream)
  BY <1>3, <1>4, <1>5 DEF WorkerOwns, Decodes, SliceAt, SliceOf
<1>8. r.pc \notin DecodePc \/ (ctx[w].pc \in DecodePc /\ r.task = ctx[w].task)
  BY <1>5 DEF Decodes
<1> QED BY <1>2, <1>6, <1>7, <1>8, WorkerStep

(* The same, for a worker that only moves on.                              *)
LEMMA GoesOnMoved ==
  ASSUME PoolInv, NEW w \in Worker, Decodes(w), NEW pc \in DecodePc,
         pc \in ClaimPc => ctx[w].row < SliceAt(w).last,
         pc = "notifyRow" => ctx[w].row <= SliceAt(w).last,
         pc \in EndPc => ctx[w].bound # Unknown,
         NEW c, Moves(c, w, pc)
  PROVE  c \in [Worker -> Context] /\ WorkersOwn(c, tasks, busy, pending, held, stream)
<1> DEFINE r == Going(w, pc, ctx[w].row, ctx[w].bound, ctx[w].last, ctx[w].on)
<1>1. Becomes(c, w, r)
  BY GoingMoved, Zenon DEF PoolInv, TypeOK, Moves
<1>2. ctx[w] \in Context
  BY DEF PoolInv, TypeOK
<1>3. /\ ctx[w].row \in 0 .. Rows /\ ctx[w].bound \in 0 .. Inf /\ ctx[w].last \in BOOLEAN
      /\ ctx[w].on \in Slot \union {None}
  BY <1>2 DEF Context
<1>4. ctx[w].bound # Unknown => ctx[w].task # held
  BY DEF PoolInv, WorkersOwn, WorkerOwns, Decodes
<1> QED BY <1>1, <1>3, <1>4, GoesOn

(* The rows of a slot.                                                     *)
LEMMA RowsType ==
  ASSUME TypeOK, NEW s \in Slot, NEW rows \in [Row -> RowContent]
  PROVE  [frame EXCEPT ![s].rows = rows] \in [Slot -> FrameRecord]
<1>1. frame \in [Slot -> FrameRecord] BY DEF TypeOK
<1> QED BY <1>1 DEF FrameRecord

(* A stored frontier keeps the slots well typed.                           *)
LEMMA FrontierType ==
  ASSUME TypeOK, NEW s \in Slot, NEW addr \in 0 .. Inf, NEW rows \in [Row -> RowContent]
  PROVE  [frame EXCEPT ![s].frontier = addr, ![s].rows = rows] \in [Slot -> FrameRecord]
<1>1. frame \in [Slot -> FrameRecord] BY DEF TypeOK
<1> QED BY <1>1 DEF FrameRecord

(* A stored wake address keeps the slots well typed.                       *)
LEMMA WakeType ==
  ASSUME TypeOK, NEW s \in Slot, NEW addr \in Addr
  PROVE  [frame EXCEPT ![s].wake = addr] \in [Slot -> FrameRecord]
<1>1. frame \in [Slot -> FrameRecord] BY DEF TypeOK
<1> QED BY <1>1 DEF FrameRecord

(* ClaimRow keeps the invariant.                                           *)
LEMMA ClaimRowInv ==
  ASSUME PoolInv, NEW w \in Worker, ClaimRow(w)
  PROVE  PoolInv'
<1> DEFINE s == PicOf(w)
           k == ctx[w].row
<1>1. ctx[w].pc = "claim" /\ Decodes(w)
  BY DEF ClaimRow, Decodes, DecodePc
<1>2. PICK pc \in {"parsed", "ref"} : Moves(ctx', w, pc)
  BY Zenon DEF ClaimRow, Moves
<1>3. ctx' \in [Worker -> Context] /\ WorkersOwn(ctx', tasks, busy, pending, held, stream)
  <2>1. pc \in DecodePc /\ pc \notin EndPc /\ pc # "notifyRow"
    BY DEF DecodePc, EndPc
  <2>2. WorkerOwns(ctx[w], tasks, busy, pending, held, stream)
    BY DEF PoolInv, WorkersOwn
  <2>3. k < SliceAt(w).last
    BY <1>1, <2>2 DEF WorkerOwns, ClaimPc, SliceAt, SliceOf
  <2> QED BY <1>1, <1>2, <2>1, <2>3, GoesOnMoved, Zenon
<1>4. frame' \in [Slot -> FrameRecord]
  <2> DEFINE claim == IF Stale(ctx[w].task) THEN Undecoded ELSE Decoded(tasks[ctx[w].task].job)
             rows == [frame[s].rows EXCEPT ![k] = claim]
  <2>1. claim \in RowContent
    BY <1>1, AtWork DEF TaskRecord, RowContent, Undecoded, Decoded
  <2>2. frame' = frame \/ frame' = [frame EXCEPT ![s].rows[k] = claim]
    BY Zenon DEF ClaimRow
  <2>3. frame \in [Slot -> FrameRecord] /\ s \in Slot /\ TypeOK
    BY <1>1, AtWork DEF PoolInv, TypeOK
  <2> HIDE DEF claim, s, k
  <2>4. [frame EXCEPT ![s].rows[k] = claim] = [frame EXCEPT ![s].rows = rows]
    OBVIOUS
  <2>5. frame[s].rows \in [Row -> RowContent]
    BY <2>3 DEF FrameRecord
  <2>6. rows \in [Row -> RowContent]
    BY <2>1, <2>5
  <2> HIDE DEF rows
  <2> QED BY <2>2, <2>3, <2>4, <2>6, RowsType
<1>5. UNCHANGED <<streamVars, poolVars, flagged, refFrames, toGet, currPic, parserVars>>
  BY Zenon DEF ClaimRow
<1> QED
  BY <1>3, <1>4, <1>5, PoolKept DEF streamVars, poolVars, parserVars, PoolInv, TypeOK

(* What a worker with a task knows of its context.                         *)
LEMMA ContextAtWork ==
  ASSUME PoolInv, NEW w \in Worker, Decodes(w)
  PROVE  /\ ctx[w] \in Context
         /\ ctx[w].row \in 0 .. Rows /\ ctx[w].bound \in 0 .. Inf
         /\ ctx[w].last \in BOOLEAN /\ ctx[w].on \in Slot \union {None}
         /\ ctx[w].bound # Unknown => ctx[w].task # held
         /\ ctx[w].pc \in ClaimPc => ctx[w].row < SliceAt(w).last
         /\ ctx[w].pc = "notifyRow" => ctx[w].row <= SliceAt(w).last
         /\ ctx[w].pc \in EndPc => ctx[w].bound # Unknown
<1>1. ctx[w] \in Context
  BY DEF PoolInv, TypeOK
<1>2. WorkerOwns(ctx[w], tasks, busy, pending, held, stream)
  BY DEF PoolInv, WorkersOwn
<1> QED BY <1>1, <1>2 DEF WorkerOwns, Decodes, SliceAt, SliceOf, Context

(* Where the slices of a stream start and end.                             *)
LEMMA HeaderBounds ==
  ASSUME NEW h \in Header
  PROVE  h.first \in 0 .. Rows /\ h.last \in 1 .. Rows /\ h.first < h.last
<1>1. h \in Fields /\ h.first < h.last BY DEF Header
<1>2. h.first \in Row /\ h.last \in 1 .. Rows BY <1>1 DEF Fields
<1> QED BY <1>1, <1>2 DEF Row

(* Where the slice of a busy task starts and ends.                         *)
LEMMA SliceBounds ==
  ASSUME PoolInv, NEW w \in Worker, Decodes(w)
  PROVE  /\ SliceAt(w).first \in 0 .. Rows /\ SliceAt(w).last \in 1 .. Rows
         /\ SliceAt(w).first < SliceAt(w).last
BY AtWork, HeaderBounds

(* Waking may follow a step of the worker.                                 *)
LEMMA WakingStep ==
  ASSUME NEW c \in [Worker -> Context], NEW W,
         WorkersOwn(c, tasks, busy, pending, held, stream)
  PROVE  /\ WakeWorkers(c, W) \in [Worker -> Context]
         /\ WorkersOwn(WakeWorkers(c, W), tasks, busy, pending, held, stream)
BY WakingType, WakingOwns

(* What the parser waits for once waiters are woken.                       *)
LEMMA ParserAfterType ==
  ASSUME TypeOK, NEW F
  PROVE  ParserAfter(F) \in {"none", "complete", "frame", "awake"}
BY DEF ParserAfter, TypeOK

(* Notify keeps the invariant.                                             *)
LEMMA NotifyInv ==
  ASSUME PoolInv, NEW w \in Worker, Notify(w)
  PROVE  PoolInv'
<1> DEFINE s == PicOf(w)
           pc == CASE ctx[w].pc = "notifyRow" -> AfterRow(w, ctx[w].row)
                   [] ctx[w].pc = "notifyBack" -> "redo"
                   [] ctx[w].pc = "notifySlice" -> "count"
                   [] ctx[w].pc = "notifyDone" -> "finish"
           c == [ctx EXCEPT ![w].pc = pc]
<1>1. ctx[w].pc \in NotifyPc /\ Decodes(w)
  BY DEF Notify, Decodes, DecodePc
<1>2. /\ frame' = Quiet(frame, {s}) /\ pwait' = ParserAfter({s})
      /\ ctx' = WakeWorkers(c, Waiters({s}))
      /\ UNCHANGED <<streamVars, poolVars, flagged, refFrames, toGet, currPic, ppc>>
  BY Zenon DEF Notify
<1>3. /\ pc \in DecodePc /\ pc # "notifyRow"
      /\ pc \in ClaimPc => ctx[w].row < SliceAt(w).last
      /\ pc \in EndPc => ctx[w].pc \in EndPc
  <2>1. /\ ctx[w].row \in 0 .. Rows /\ SliceAt(w).last \in 1 .. Rows
        /\ ctx[w].pc = "notifyRow" => ctx[w].row <= SliceAt(w).last
    BY <1>1, ContextAtWork, SliceBounds
  <2>2. CASE ctx[w].pc = "notifyRow"
    BY <2>1, <2>2 DEF AfterRow, DecodePc, ClaimPc, EndPc
  <2>3. CASE ctx[w].pc = "notifySlice"
    BY <2>3 DEF DecodePc, ClaimPc, EndPc
  <2>4. CASE ctx[w].pc = "notifyDone"
    BY <2>4 DEF DecodePc, ClaimPc, EndPc
  <2>5. CASE ctx[w].pc = "notifyBack"
    BY <2>5 DEF DecodePc, ClaimPc, EndPc
  <2> QED BY <1>1, <2>2, <2>3, <2>4, <2>5 DEF NotifyPc
<1>4. Moves(c, w, pc)
  BY Zenon DEF Moves
<1> HIDE DEF pc, c
<1>5. c \in [Worker -> Context] /\ WorkersOwn(c, tasks, busy, pending, held, stream)
  BY <1>1, <1>3, <1>4, ContextAtWork, GoesOnMoved
<1>6. ctx' \in [Worker -> Context] /\ WorkersOwn(ctx', tasks, busy, pending, held, stream)
  BY <1>2, <1>5, WakingStep
<1>7. frame' \in [Slot -> FrameRecord] /\ pwait' \in {"none", "complete", "frame", "awake"}
  BY <1>2, QuietType, ParserAfterType DEF PoolInv, TypeOK
<1> QED
  BY <1>2, <1>6, <1>7, PoolKept DEF streamVars, poolVars, PoolInv, TypeOK

(* ack_mb_bound, after a step of the worker to the contexts c.             *)
LEMMA AckBoundEffect ==
  ASSUME PoolInv, NEW w \in Worker, Decodes(w), NEW c \in [Worker -> Context],
         WorkersOwn(c, tasks, busy, pending, held, stream), AckBound(w, c)
  PROVE  /\ acked' \subseteq Task /\ frame' \in [Slot -> FrameRecord]
         /\ pwait' \in {"none", "complete", "frame", "awake"}
         /\ ctx' \in [Worker -> Context]
         /\ WorkersOwn(ctx', tasks, busy, pending, held, stream)
<1>1. acked' \subseteq Task
  BY AtWork DEF AckBound, PoolInv, TypeOK
<1>2. frame' \in [Slot -> FrameRecord] /\ pwait' \in {"none", "complete", "frame", "awake"}
  BY QuietType, ParserAfterType DEF AckBound, PoolInv, TypeOK
<1>3. ctx' \in [Worker -> Context] /\ WorkersOwn(ctx', tasks, busy, pending, held, stream)
  BY WakingStep DEF AckBound
<1> QED BY <1>1, <1>2, <1>3

(* LearnBound keeps the invariant.                                         *)
LEMMA LearnBoundInv ==
  ASSUME PoolInv, NEW w \in Worker, LearnBound(w)
  PROVE  PoolInv'
<1> DEFINE b == tasks[ctx[w].task].bound
           c == [ctx EXCEPT ![w].bound = b]
<1>1. ctx[w].pc \in {"claim", "parsed", "ref"} /\ Decodes(w) /\ CanLearn(w)
  BY DEF LearnBound, Decodes, DecodePc
<1>2. /\ ctx[w] \in Context /\ b \in 0 .. Inf /\ b # Unknown
      /\ ctx[w].pc \in ClaimPc => ctx[w].row < SliceAt(w).last
      /\ ctx[w].row \in 0 .. Rows /\ ctx[w].last \in BOOLEAN /\ ctx[w].on \in Slot \union {None}
      /\ ctx[w].pc \in DecodePc
  BY <1>1, ContextAtWork, AtWork DEF TaskRecord, CanLearn, Decodes
<1>3. ctx[w].task # held
  <2>1. ctx[w].task \in Task BY <1>1, AtWork
  <2> QED BY <1>2, <2>1 DEF PoolInv, TasksOrdered, Task, None
<1>4. Becomes(c, w, Going(w, ctx[w].pc, ctx[w].row, b, ctx[w].last, ctx[w].on))
  <2>1. [ctx[w] EXCEPT !.bound = b]
          = Going(w, ctx[w].pc, ctx[w].row, b, ctx[w].last, ctx[w].on)
    <3> HIDE DEF b
    <3> QED BY <1>2 DEF Going, Context
  <2>2. c = [ctx EXCEPT ![w] = [ctx[w] EXCEPT !.bound = b]]
    BY DEF PoolInv, TypeOK
  <2> QED BY <2>1, <2>2, Zenon DEF Becomes
<1>5. \/ ctx' = c /\ UNCHANGED <<acked, frame, pwait>>
      \/ AckBound(w, c)
  BY Zenon DEF LearnBound
<1>6. UNCHANGED <<streamVars, tasks, busy, pending, ready, chained, held,
                  flagged, refFrames, toGet, currPic, ppc>>
  BY Zenon DEF LearnBound
<1> HIDE DEF b, c
<1>7. c \in [Worker -> Context] /\ WorkersOwn(c, tasks, busy, pending, held, stream)
  <2>1. ctx[w].pc # "notifyRow"
    BY <1>1
  <2> QED BY <1>1, <1>2, <1>3, <1>4, <2>1, GoesOn
<1>8. /\ acked' \subseteq Task /\ frame' \in [Slot -> FrameRecord]
      /\ pwait' \in {"none", "complete", "frame", "awake"}
      /\ ctx' \in [Worker -> Context]
      /\ WorkersOwn(ctx', tasks, busy, pending, held, stream)
  BY <1>1, <1>5, <1>7, AckBoundEffect DEF PoolInv, TypeOK
<1> QED
  BY <1>6, <1>8, PoolKept DEF streamVars, PoolInv, TypeOK

(* The address wait_frame_locked leaves is an address.                     *)
LEMMA WakeAddressType ==
  ASSUME PoolInv, NEW w \in Worker, Decodes(w), NEW s \in Slot
  PROVE  WakeAddress(w, s) \in Addr
<1>1. ctx[w].row \in 0 .. Rows BY ContextAtWork
<1>2. /\ Needed(w) \in Int /\ Needed(w) <= Rows /\ Needed(w) >= 0
  <2> DEFINE x == ctx[w].row + 1 + Reach
             y == Rows
  <2>1. x \in Int /\ y \in Int /\ x >= 0 /\ y >= 0 BY <1>1
  <2>2. Needed(w) = Lowest({x, y}) BY DEF Needed
  <2>3. y = Rows OBVIOUS
  <2> HIDE DEF x, y
  <2>4. Lowest({x, y}) \in {x, y} /\ Lowest({x, y}) <= y
    BY <2>1, LowestOfTwo
  <2> QED BY <2>1, <2>2, <2>3, <2>4
<1>3. frame[s].wake \in Addr
  BY DEF PoolInv, TypeOK, FrameRecord
<1>4. frame[s].wake \in Int /\ frame[s].wake >= -1
  BY <1>3 DEF Addr, Inf
<1>5. WakeAddress(w, s) \in {frame[s].wake, Needed(w) + 2}
  <2> DEFINE x == frame[s].wake
             y == Needed(w) + 2
  <2>1. x \in Int /\ y \in Int BY <1>2, <1>4
  <2>2. WakeAddress(w, s) = Lowest({x, y}) BY DEF WakeAddress
  <2> HIDE DEF x, y
  <2> QED BY <2>1, <2>2, LowestOfTwo DEF x, y
<1> QED BY <1>2, <1>3, <1>5 DEF Addr, Inf

(* AwaitRow keeps the invariant.                                           *)
LEMMA AwaitRowInv ==
  ASSUME PoolInv, NEW w \in Worker, AwaitRow(w)
  PROVE  PoolInv'
<1>1. ctx[w].pc = "ref" /\ Decodes(w)
  BY DEF AwaitRow, Decodes, DecodePc
<1>2. /\ flagged' \subseteq Slot /\ frame' \in [Slot -> FrameRecord]
      /\ ready' = ready \/ ready' = ReadyIn(tasks, pending, busy, frame')
      /\ ctx' \in [Worker -> Context]
      /\ WorkersOwn(ctx', tasks, busy, pending, held, stream)
  <2>1. CASE ReleaseTerminal(ctx, 0)
    <3>1. TypeOK /\ ctx \in [Worker -> Context]
          /\ WorkersOwn(ctx, tasks, busy, pending, held, stream)
      BY DEF PoolInv, TypeOK
    <3>2. /\ flagged' \subseteq Slot /\ frame' \in [Slot -> FrameRecord]
          /\ ready' = ready \/ ready' = ReadyIn(tasks, pending, busy, frame')
          /\ ctx' \in [Worker -> Context] /\ Woken(ctx, ctx')
      BY <2>1, <3>1, ReleaseEffect
    <3> QED BY <3>1, <3>2, WakingOwns
  <2>2. ASSUME NEW s \in Lacking(w),
               frame' = [frame EXCEPT ![s].wake = WakeAddress(w, s)],
               ctx' = [ctx EXCEPT ![w].pc = "refSleep", ![w].on = s],
               flagged' = flagged \union Terminal, UNCHANGED ready
        PROVE  /\ flagged' \subseteq Slot /\ frame' \in [Slot -> FrameRecord]
               /\ ctx' \in [Worker -> Context]
               /\ WorkersOwn(ctx', tasks, busy, pending, held, stream)
    <3>1. s \in Slot
      BY <1>1, AtWork DEF Lacking, TaskRecord
    <3>2. frame' \in [Slot -> FrameRecord]
      BY <1>1, <2>2, <3>1, WakeAddressType, WakeType DEF PoolInv
    <3>3. flagged' \subseteq Slot
      BY <2>2 DEF PoolInv, TypeOK, Terminal, Depended, TaskRecord
    <3>4. Becomes(ctx', w, Going(w, "refSleep", ctx[w].row, ctx[w].bound, ctx[w].last, s))
      <4>1. ctx[w] \in Context BY <1>1, ContextAtWork
      <4> DEFINE r == [ctx[w] EXCEPT !.pc = "refSleep", !.on = s]
      <4>2. r = [ctx[w] EXCEPT !.pc = "refSleep", !.on = s]
        OBVIOUS
      <4>3. ctx' = [ctx EXCEPT ![w] = r]
        BY <2>2 DEF PoolInv, TypeOK
      <4> HIDE DEF r
      <4>4. r = Going(w, "refSleep", ctx[w].row, ctx[w].bound, ctx[w].last, s)
        BY <4>1, <4>2 DEF Going, Context
      <4> QED BY <4>3, <4>4, Zenon DEF Becomes
    <3>5. /\ "refSleep" \in DecodePc /\ "refSleep" \notin EndPc /\ s \in Slot \union {None}
          /\ ctx[w].pc \in ClaimPc
      BY <1>1, <3>1 DEF DecodePc, SleepPc, EndPc, ClaimPc
    <3> QED BY <1>1, <3>2, <3>3, <3>4, <3>5, ContextAtWork, GoesOn
  <2> QED BY <2>1, <2>2, Zenon DEF AwaitRow
<1>3. UNCHANGED <<streamVars, tasks, busy, pending, chained, acked, held,
                  refFrames, toGet, currPic, parserVars>>
  BY Zenon DEF AwaitRow
<1> QED
  BY <1>2, <1>3, PoolKept DEF streamVars, parserVars, PoolInv, TypeOK

(* A frontier stored by worker w, whose row becomes `row'.                 *)
LEMMA StoreFrontierEffect ==
  ASSUME PoolInv, NEW w \in Worker, Decodes(w), NEW row \in 0 .. Rows,
         NEW c, c = [ctx[w] EXCEPT !.row = row], NEW addr \in 0 .. Inf,
         NEW notify, NEW pc, NEW rows \in [Row -> RowContent],
         StoreFrontier(w, c, addr, notify, pc, rows)
  PROVE  /\ frame' \in [Slot -> FrameRecord]
         /\ \E p \in {notify, pc} :
              Becomes(ctx', w, Going(w, p, row, ctx[w].bound, ctx[w].last, ctx[w].on))
<1> DEFINE p == IF addr >= frame[PicOf(w)].wake THEN notify ELSE pc
           r == [c EXCEPT !.pc = p]
<1>1. frame' = [frame EXCEPT ![PicOf(w)].frontier = addr, ![PicOf(w)].rows = rows]
  BY Zenon DEF StoreFrontier
<1>2. frame' \in [Slot -> FrameRecord]
  BY <1>1, AtWork, FrontierType DEF PoolInv
<1>3. ctx' = [ctx EXCEPT ![w] = r]
  BY Zenon DEF StoreFrontier
<1>4. r = [c EXCEPT !.pc = p] /\ p \in {notify, pc}
  OBVIOUS
<1>5. ctx[w] \in Context BY ContextAtWork
<1> HIDE DEF p, r
<1>6. r = Going(w, p, row, ctx[w].bound, ctx[w].last, ctx[w].on)
  BY <1>4, <1>5 DEF Going, Context
<1> QED BY <1>2, <1>3, <1>4, <1>6, Zenon DEF Becomes

(* Where a worker goes after a row.                                        *)
LEMMA AfterRowType ==
  ASSUME NEW w, NEW row \in Int, SliceAt(w).last \in Int, row <= SliceAt(w).last
  PROVE  /\ AfterRow(w, row) \in DecodePc /\ AfterRow(w, row) \notin EndPc
         /\ AfterRow(w, row) # "notifyRow"
         /\ AfterRow(w, row) \in ClaimPc => row < SliceAt(w).last
BY DEF AfterRow, DecodePc, ClaimPc, EndPc

(* DecodeRow keeps the invariant.                                          *)
LEMMA DecodeRowInv ==
  ASSUME PoolInv, NEW w \in Worker, DecodeRow(w)
  PROVE  PoolInv'
<1> DEFINE row == ctx[w].row + 1
           c == [ctx[w] EXCEPT !.row = row]
           addr == Larger(SliceAt(w).first, row - Lag)
<1>1. ctx[w].pc = "ref" /\ Decodes(w)
  BY DEF DecodeRow, Decodes, DecodePc
<1>2. ctx[w] \in Context /\ row \in 0 .. Rows /\ row <= SliceAt(w).last
      /\ SliceAt(w).last \in Int /\ row \in Int
  <2>1. ctx[w].pc \in ClaimPc BY <1>1 DEF ClaimPc
  <2>2. ctx[w] \in Context /\ ctx[w].row \in 0 .. Rows /\ ctx[w].row < SliceAt(w).last
        /\ SliceAt(w).last \in 1 .. Rows
    BY <1>1, <2>1, ContextAtWork, SliceBounds
  <2> QED BY <2>2
<1>3. addr \in 0 .. Inf
  BY <1>1, <1>2, SliceBounds DEF Larger, Inf
<1>4. \/ StoreFrontier(w, c, addr, "notifyRow", AfterRow(w, row), frame[PicOf(w)].rows)
      \/ ctx' = [ctx EXCEPT ![w] = [c EXCEPT !.pc = AfterRow(w, row)]] /\ UNCHANGED frame
  BY Zenon DEF DecodeRow
<1>5. frame[PicOf(w)].rows \in [Row -> RowContent]
  BY <1>1, AtWork DEF FrameRecord
<1>6. c = [ctx[w] EXCEPT !.row = row] OBVIOUS
<1> HIDE DEF row, c, addr
<1>7. /\ frame' \in [Slot -> FrameRecord]
      /\ \E p \in {"notifyRow", AfterRow(w, row)} :
           Becomes(ctx', w, Going(w, p, row, ctx[w].bound, ctx[w].last, ctx[w].on))
  <2>1. CASE StoreFrontier(w, c, addr, "notifyRow", AfterRow(w, row), frame[PicOf(w)].rows)
    BY <1>1, <1>2, <1>3, <1>5, <1>6, <2>1, StoreFrontierEffect
  <2>2. CASE ctx' = [ctx EXCEPT ![w] = [c EXCEPT !.pc = AfterRow(w, row)]] /\ UNCHANGED frame
    <3> DEFINE p == AfterRow(w, row)
               r == [c EXCEPT !.pc = p]
    <3>1. ctx' = [ctx EXCEPT ![w] = r] BY <2>2
    <3>2. r = [c EXCEPT !.pc = p] OBVIOUS
    <3> HIDE DEF p, r
    <3>3. r = Going(w, p, row, ctx[w].bound, ctx[w].last, ctx[w].on)
      BY <1>2, <1>6, <3>2 DEF Going, Context
    <3>4. Becomes(ctx', w, Going(w, p, row, ctx[w].bound, ctx[w].last, ctx[w].on))
      BY <3>1, <3>3, Zenon DEF Becomes
    <3> QED BY <2>2, <3>4 DEF p, PoolInv, TypeOK
  <2> QED BY <1>4, <2>1, <2>2
<1>8. ctx' \in [Worker -> Context] /\ WorkersOwn(ctx', tasks, busy, pending, held, stream)
  <2>1. PICK p \in {"notifyRow", AfterRow(w, row)} :
          Becomes(ctx', w, Going(w, p, row, ctx[w].bound, ctx[w].last, ctx[w].on))
    BY <1>7
  <2>2. p \in DecodePc /\ p \notin EndPc /\ (p \in ClaimPc => row < SliceAt(w).last)
    BY <1>2, AfterRowType DEF DecodePc, NotifyPc, EndPc, ClaimPc
  <2> QED BY <1>1, <1>2, <2>1, <2>2, ContextAtWork, GoesOn
<1>9. UNCHANGED <<streamVars, poolVars, flagged, refFrames, toGet, currPic, parserVars>>
  BY Zenon DEF DecodeRow
<1> QED
  BY <1>7, <1>8, <1>9, PoolKept DEF streamVars, poolVars, parserVars, PoolInv, TypeOK

(* AwaitBound keeps the invariant.                                         *)
LEMMA AwaitBoundInv ==
  ASSUME PoolInv, NEW w \in Worker, AwaitBound(w)
  PROVE  PoolInv'
<1> DEFINE s == PicOf(w)
           r == [ctx[w] EXCEPT !.pc = "boundSleep", !.on = s]
<1>1. ctx[w].pc = "parsed" /\ Decodes(w) /\ s \in Slot
  <2>1. ctx[w].pc = "parsed" /\ Decodes(w)
    BY DEF AwaitBound, Decodes, DecodePc
  <2> QED BY <2>1, AtWork
<1>2. frame' = [frame EXCEPT ![s].wake = -1] /\ r = [ctx[w] EXCEPT !.pc = "boundSleep", !.on = s]
  BY DEF AwaitBound
<1>3. ctx' = [ctx EXCEPT ![w] = r]
  BY DEF AwaitBound, PoolInv, TypeOK
<1> HIDE DEF s, r
<1>4. frame' \in [Slot -> FrameRecord]
  <2>1. -1 \in Addr BY DEF Addr, Inf
  <2> QED BY <1>1, <1>2, <2>1, WakeType DEF PoolInv
<1>5. ctx[w] \in Context BY <1>1, ContextAtWork
<1>6. r = Going(w, "boundSleep", ctx[w].row, ctx[w].bound, ctx[w].last, s)
  BY <1>2, <1>5 DEF Going, Context
<1>7. Becomes(ctx', w, Going(w, "boundSleep", ctx[w].row, ctx[w].bound, ctx[w].last, s))
  BY <1>3, <1>6, Zenon DEF Becomes
<1>8. "boundSleep" \in DecodePc \ (EndPc \union ClaimPc)
  BY DEF DecodePc, SleepPc, EndPc, ClaimPc
<1>9. ctx' \in [Worker -> Context] /\ WorkersOwn(ctx', tasks, busy, pending, held, stream)
  BY <1>1, <1>7, <1>8, ContextAtWork, GoesOn
<1>10. UNCHANGED <<streamVars, poolVars, flagged, refFrames, toGet, currPic, parserVars>>
  BY Zenon DEF AwaitBound
<1> QED
  BY <1>4, <1>9, <1>10, PoolKept DEF streamVars, poolVars, parserVars, PoolInv, TypeOK

(* TakeBack keeps the invariant.                                           *)
LEMMA TakeBackInv ==
  ASSUME PoolInv, NEW w \in Worker, TakeBack(w)
  PROVE  PoolInv'
<1> DEFINE s == PicOf(w)
           k == ctx[w].row
           first == SliceAt(w).first
           rows == [r \in Row |-> IF r \in first .. k - 1 THEN Undecoded ELSE frame[s].rows[r]]
<1>1. ctx[w].pc = "parsed" /\ Decodes(w)
  BY DEF TakeBack, Decodes, DecodePc
<1>2. s \in Slot /\ frame[s] \in FrameRecord
  BY <1>1, AtWork
<1>3. ctx[w] \in Context /\ k \in 0 .. Rows
  BY <1>1, ContextAtWork
<1>4. first \in 0 .. Inf
  BY <1>1, SliceBounds DEF Inf
<1>5. rows \in [Row -> RowContent]
  BY <1>2 DEF FrameRecord, RowContent, Undecoded
<1>6. \/ StoreFrontier(w, ctx[w], first, "notifyBack", "redo", rows)
      \/ frame' = [frame EXCEPT ![s].rows = rows] /\ Moves(ctx', w, "redo")
  BY Zenon DEF TakeBack, Moves
<1>7. ctx[w] = [ctx[w] EXCEPT !.row = k]
  BY <1>3 DEF Context
<1> HIDE DEF first, rows, s, k
<1>8. /\ frame' \in [Slot -> FrameRecord]
      /\ \E p \in {"notifyBack", "redo"} :
           Becomes(ctx', w, Going(w, p, k, ctx[w].bound, ctx[w].last, ctx[w].on))
  <2>1. CASE StoreFrontier(w, ctx[w], first, "notifyBack", "redo", rows)
    BY <1>1, <1>3, <1>4, <1>5, <1>7, <2>1, StoreFrontierEffect
  <2>2. CASE frame' = [frame EXCEPT ![s].rows = rows] /\ Moves(ctx', w, "redo")
    BY <1>2, <1>5, <2>2, RowsType, GoingMoved DEF PoolInv, TypeOK, Moves, k
  <2> QED BY <1>6, <2>1, <2>2
<1>9. ctx' \in [Worker -> Context] /\ WorkersOwn(ctx', tasks, busy, pending, held, stream)
  <2>1. PICK p \in {"notifyBack", "redo"} :
          Becomes(ctx', w, Going(w, p, k, ctx[w].bound, ctx[w].last, ctx[w].on))
    BY <1>8
  <2>2. p \in DecodePc \ (ClaimPc \union EndPc) /\ p # "notifyRow"
    BY DEF DecodePc, NotifyPc, ClaimPc, EndPc
  <2> QED BY <1>1, <1>3, <2>1, <2>2, ContextAtWork, GoesOn
<1>10. UNCHANGED <<streamVars, poolVars, flagged, refFrames, toGet, currPic, parserVars>>
  BY Zenon DEF TakeBack
<1> QED
  BY <1>8, <1>9, <1>10, PoolKept DEF streamVars, poolVars, parserVars, PoolInv, TypeOK

(* Redo keeps the invariant.                                               *)
LEMMA RedoInv ==
  ASSUME PoolInv, NEW w \in Worker, Redo(w)
  PROVE  PoolInv'
<1> DEFINE first == SliceAt(w).first
           r == [ctx[w] EXCEPT !.pc = "claim", !.row = first]
           c == [ctx EXCEPT ![w].pc = "claim", ![w].row = first]
<1>1. ctx[w].pc = "redo" /\ Decodes(w)
  BY DEF Redo, Decodes, DecodePc
<1>2. ctx[w] \in Context /\ first \in 0 .. Rows /\ first < SliceAt(w).last
  BY <1>1, ContextAtWork, SliceBounds
<1>3. r = [ctx[w] EXCEPT !.pc = "claim", !.row = first] OBVIOUS
<1>4. c = [ctx EXCEPT ![w] = r] BY DEF PoolInv, TypeOK
<1>5. AckBound(w, c)
  BY Zenon DEF Redo
<1> HIDE DEF first, r, c
<1>6. r = Going(w, "claim", first, ctx[w].bound, ctx[w].last, ctx[w].on)
  BY <1>2, <1>3 DEF Going, Context
<1>7. Becomes(c, w, Going(w, "claim", first, ctx[w].bound, ctx[w].last, ctx[w].on))
  BY <1>4, <1>6, Zenon DEF Becomes
<1>8. "claim" \in DecodePc \ EndPc
  BY DEF DecodePc, EndPc
<1>9. c \in [Worker -> Context] /\ WorkersOwn(c, tasks, busy, pending, held, stream)
  BY <1>1, <1>2, <1>7, <1>8, ContextAtWork, GoesOn
<1>10. /\ acked' \subseteq Task /\ frame' \in [Slot -> FrameRecord]
       /\ pwait' \in {"none", "complete", "frame", "awake"}
       /\ ctx' \in [Worker -> Context]
       /\ WorkersOwn(ctx', tasks, busy, pending, held, stream)
  BY <1>1, <1>5, <1>9, AckBoundEffect
<1>11. UNCHANGED <<streamVars, tasks, busy, pending, ready, chained, held,
                   flagged, refFrames, toGet, currPic, ppc>>
  BY Zenon DEF Redo
<1> QED
  BY <1>10, <1>11, PoolKept DEF streamVars, PoolInv, TypeOK

(* PublishSlice keeps the invariant.                                       *)
LEMMA PublishSliceInv ==
  ASSUME PoolInv, NEW w \in Worker, PublishSlice(w)
  PROVE  PoolInv'
<1> DEFINE s == PicOf(w)
           k == ctx[w].row
           keep == KeepRow(SliceAt(w), k)
           rows == [r \in Row |-> IF FailedAt(w) /\ r \in keep .. k - 1
                                    THEN Recovered(tasks[ctx[w].task].job) ELSE frame[s].rows[r]]
           c == [ctx[w] EXCEPT !.row = k]
<1>1. ctx[w].pc = "parsed" /\ Decodes(w) /\ ctx[w].bound # Unknown
  BY DEF PublishSlice, Known, Decodes, DecodePc
<1>2. s \in Slot /\ frame[s] \in FrameRecord /\ tasks[ctx[w].task] \in TaskRecord
  BY <1>1, AtWork
<1>3. ctx[w] \in Context /\ k \in 0 .. Rows
  BY <1>1, ContextAtWork
<1>4. keep \in 0 .. Inf
  BY <1>1, <1>3, SliceBounds DEF KeepRow, Larger, Inf
<1>5. rows \in [Row -> RowContent]
  <2>1. Recovered(tasks[ctx[w].task].job) \in RowContent
    BY <1>2 DEF TaskRecord, RowContent, Recovered
  <2> HIDE DEF keep
  <2> QED BY <1>2, <2>1 DEF FrameRecord
<1>6. \/ StoreFrontier(w, ctx[w], keep, "notifySlice", "count", rows)
      \/ frame' = [frame EXCEPT ![s].rows = rows] /\ Moves(ctx', w, "count")
  BY Zenon DEF PublishSlice, Moves
<1>7. ctx[w] = [ctx[w] EXCEPT !.row = k]
  BY <1>3 DEF Context
<1>8. flagged' \subseteq Slot
  BY <1>2 DEF PublishSlice, PoolInv, TypeOK
<1> HIDE DEF keep, rows, s, k
<1>9. /\ frame' \in [Slot -> FrameRecord]
      /\ \E p \in {"notifySlice", "count"} :
           Becomes(ctx', w, Going(w, p, k, ctx[w].bound, ctx[w].last, ctx[w].on))
  <2>1. CASE StoreFrontier(w, ctx[w], keep, "notifySlice", "count", rows)
    BY <1>1, <1>3, <1>4, <1>5, <1>7, <2>1, StoreFrontierEffect
  <2>2. CASE frame' = [frame EXCEPT ![s].rows = rows] /\ Moves(ctx', w, "count")
    BY <1>2, <1>5, <2>2, RowsType, GoingMoved DEF PoolInv, TypeOK, Moves, k
  <2> QED BY <1>6, <2>1, <2>2
<1>10. ctx' \in [Worker -> Context] /\ WorkersOwn(ctx', tasks, busy, pending, held, stream)
  <2>1. PICK p \in {"notifySlice", "count"} :
          Becomes(ctx', w, Going(w, p, k, ctx[w].bound, ctx[w].last, ctx[w].on))
    BY <1>9
  <2>2. p \in DecodePc /\ p \notin ClaimPc /\ p # "notifyRow"
    BY DEF DecodePc, NotifyPc, ClaimPc
  <2> QED BY <1>1, <1>3, <2>1, <2>2, ContextAtWork, GoesOn
<1>11. UNCHANGED <<streamVars, poolVars, refFrames, toGet, currPic, parserVars>>
  BY Zenon DEF PublishSlice
<1> QED
  BY <1>8, <1>9, <1>10, <1>11, PoolKept DEF streamVars, poolVars, parserVars, PoolInv, TypeOK

(* CountSlice keeps the invariant.                                         *)
LEMMA CountSliceInv ==
  ASSUME PoolInv, NEW w \in Worker, CountSlice(w)
  PROVE  PoolInv'
<1> DEFINE s == PicOf(w)
           left == frame[s].remaining - (ctx[w].row - SliceAt(w).first)
           last == ~FailedAt(w) /\ left = 0
           pc == IF last THEN "notifyDone" ELSE "finish"
           r == [ctx[w] EXCEPT !.last = last, !.pc = pc]
           n == IF FailedAt(w) THEN frame[s].remaining ELSE left
           addr == IF last THEN Inf ELSE frame[s].frontier
<1>1. ctx[w].pc = "count" /\ Decodes(w)
  BY DEF CountSlice, Decodes, DecodePc
<1>2. s \in Slot /\ frame[s] \in FrameRecord /\ ctx[w] \in Context /\ ctx[w].bound # Unknown
  BY <1>1, AtWork, ContextAtWork DEF EndPc
<1>3. n \in Int /\ addr \in 0 .. Inf
  BY <1>1, <1>2, SliceBounds, ContextAtWork DEF FrameRecord, Inf
<1>4. frame' = [frame EXCEPT ![s].remaining = n, ![s].frontier = addr]
  BY Zenon DEF CountSlice
<1>5. ctx' = [ctx EXCEPT ![w] = r]
  BY DEF CountSlice, PoolInv, TypeOK
<1>6. r = [ctx[w] EXCEPT !.last = last, !.pc = pc] /\ last \in BOOLEAN
  OBVIOUS
<1>7. pc \in DecodePc \ ClaimPc /\ pc # "notifyRow"
  BY DEF DecodePc, NotifyPc, ClaimPc
<1> HIDE DEF last, n, addr, pc, r, s
<1>8. frame' \in [Slot -> FrameRecord]
  BY <1>2, <1>3, <1>4 DEF PoolInv, TypeOK, FrameRecord
<1>9. r = Going(w, pc, ctx[w].row, ctx[w].bound, last, ctx[w].on)
  BY <1>2, <1>6 DEF Going, Context
<1>10. Becomes(ctx', w, Going(w, pc, ctx[w].row, ctx[w].bound, last, ctx[w].on))
  BY <1>5, <1>9, Zenon DEF Becomes
<1>11. ctx' \in [Worker -> Context] /\ WorkersOwn(ctx', tasks, busy, pending, held, stream)
  BY <1>1, <1>2, <1>6, <1>7, <1>10, ContextAtWork, GoesOn
<1>12. UNCHANGED <<streamVars, poolVars, flagged, refFrames, toGet, currPic, parserVars>>
  BY Zenon DEF CountSlice
<1> QED
  BY <1>8, <1>11, <1>12, PoolKept DEF streamVars, poolVars, parserVars, PoolInv, TypeOK

(* LeaveTask keeps the invariant.                                          *)
LEMMA LeaveTaskInv ==
  ASSUME PoolInv, NEW w \in Worker, LeaveTask(w)
  PROVE  PoolInv'
<1> DEFINE r == [ctx[w] EXCEPT !.pc = "take"]
           c == [ctx EXCEPT ![w].pc = "take"]
<1>1. ctx[w].pc = "leave" /\ ReleaseTerminal(c, 0)
  BY DEF LeaveTask
<1>2. ctx[w] \in Context /\ WorkerOwns(ctx[w], tasks, busy, pending, held, stream)
  BY DEF PoolInv, TypeOK, WorkersOwn
<1>3. r \in Context /\ r.pc = "take" /\ r.chain = ctx[w].chain
  BY <1>2, MovesOn, SMTT(30) DEF Pc, LockPc
<1>4. Becomes(c, w, r)
  BY DEF Becomes, PoolInv, TypeOK
<1> HIDE DEF c, r
<1>5. "take" \notin DecodePc \union ClaimPc \union EndPc
  BY DEF DecodePc, SleepPc, NotifyPc, ClaimPc, EndPc
<1>6. WorkerOwns(r, tasks, busy, pending, held, stream)
  BY <1>2, <1>3, <1>5 DEF WorkerOwns, LockPc
<1>7. r.pc \notin DecodePc \/ (ctx[w].pc \in DecodePc /\ r.task = ctx[w].task)
  BY <1>3, <1>5
<1>8. c \in [Worker -> Context] /\ WorkersOwn(c, tasks, busy, pending, held, stream)
  BY <1>3, <1>4, <1>6, <1>7, WorkerStep
<1>9. /\ flagged' \subseteq Slot /\ frame' \in [Slot -> FrameRecord]
      /\ ready' = ready \/ ready' = ReadyIn(tasks, pending, busy, frame')
      /\ ctx' \in [Worker -> Context] /\ Woken(c, ctx')
  BY <1>1, <1>8, ReleaseEffect DEF PoolInv
<1>10. WorkersOwn(ctx', tasks, busy, pending, held, stream)
  BY <1>8, <1>9, WakingOwns
<1>11. UNCHANGED <<streamVars, tasks, busy, pending, chained, acked, held,
                   refFrames, toGet, currPic, parserVars>>
  BY Zenon DEF LeaveTask
<1> QED
  BY <1>9, <1>10, <1>11, PoolKept DEF streamVars, parserVars, PoolInv, TypeOK

-----------------------------------------------------------------------------
(* The steps that take a task and that end one.                            *)

(* Nobody else has a slice to go on with while a worker has the lock.      *)
LEMMA NoOtherChain ==
  ASSUME PoolInv, NEW w \in Worker, Lockable(w), NEW v \in Worker, v # w
  PROVE  ctx[v].chain = None
BY DEF Lockable, PoolInv, WorkersOwn, WorkerOwns

(* TakeTask keeps the invariant.                                           *)
LEMMA TakeTaskInv ==
  ASSUME PoolInv, NEW w \in Worker, TakeTask(w)
  PROVE  PoolInv'
<1> DEFINE pool == pending \ chained
           t == IF ctx[w].chain # None THEN ctx[w].chain ELSE Oldest(pool)
           s == tasks[t].pic
           first == SliceOf(t).first
           afterSpec == \E u \in busy \ acked' : tasks[u].pic = s /\ tasks[u].job < tasks[t].job
           turn == frame[s].frontier = first /\ ~afterSpec
           r == [pc |-> "claim", task |-> t, chain |-> None, row |-> first, bound |-> tasks[t].bound,
                 turn |-> turn, last |-> FALSE, on |-> None]
           c == [ctx EXCEPT ![w] = [pc |-> "claim", task |-> t, chain |-> None, row |-> first,
                     bound |-> tasks[t].bound, last |-> FALSE, on |-> None, turn |-> turn]]
<1>1. /\ Lockable(w)
      /\ ctx[w].chain = None => Offers(pool, ready)
      /\ pending' = pending \ {t} /\ ready' = ready \ {t} /\ chained' = chained \ {t}
      /\ acked' = IF tasks[t].bound # Unknown THEN acked \union {t} ELSE acked
      /\ \E W : ctx' = WakeWorkers(c, W)
      /\ UNCHANGED <<streamVars, tasks, busy, held, dpbVars, parserVars>>
  BY Zenon DEF TakeTask
<1>2. TypeOK /\ TasksOrdered /\ WorkersOwn(ctx, tasks, busy, pending, held, stream)
  BY DEF PoolInv
<1>3. t \in pending /\ tasks[t].after = {}
  <2>1. CASE ctx[w].chain # None
    BY <1>2, <2>1 DEF WorkersOwn, WorkerOwns
  <2>2. CASE ctx[w].chain = None
    BY <1>1, <1>2, <2>2 DEF Offers, TypeOK, TasksOrdered
  <2> QED BY <2>1, <2>2
<1>4. r = [pc |-> "claim", task |-> t, chain |-> None, row |-> first,
           bound |-> tasks[t].bound, last |-> FALSE, on |-> None, turn |-> turn]
      /\ turn \in BOOLEAN
  OBVIOUS
<1>5. Becomes(c, w, r)
  BY <1>4 DEF Becomes
<1> HIDE DEF t, pool, turn
<1>6. t \in busy /\ t \in Task /\ tasks[t] \in TaskRecord /\ SliceOf(t) \in Header
  <2>1. t \in busy /\ t \in Task /\ tasks[t] \in TaskRecord BY <1>2, <1>3 DEF TypeOK
  <2>2. tasks[t].job \in DOMAIN stream /\ stream \in Seq(Header)
    BY <1>2, <2>1 DEF TypeOK, TasksOrdered
  <2> QED BY <2>1, <2>2 DEF SliceOf
<1>7. first \in 0 .. Rows /\ first < SliceOf(t).last
  BY <1>6, HeaderBounds
<1>8. tasks[t].bound # Unknown => t # held
  BY <1>2, <1>6 DEF TasksOrdered, Task, None
<1> HIDE DEF first, c
<1>9. r \in Context
  BY <1>4, <1>6, <1>7 DEF Context, Pc, DecodePc, TaskRecord
<1>10. /\ r.pc = "claim" /\ r.task = t /\ r.chain = None /\ r.row = first
       /\ r.bound = tasks[t].bound
  BY <1>4
<1> HIDE DEF r
<1>11. \A v \in Worker : c[v] = IF v = w THEN r ELSE ctx[v]
  BY <1>2, <1>5 DEF Becomes, TypeOK
<1>12. c \in [Worker -> Context]
  BY <1>2, <1>5, <1>9 DEF Becomes, TypeOK
<1>13. WorkerOwns(r, tasks, busy, pending', held, stream)
  BY <1>1, <1>3, <1>6, <1>7, <1>8, <1>10 DEF WorkerOwns, ClaimPc, EndPc, SliceOf
<1>14. ASSUME NEW v \in Worker, v # w
       PROVE  /\ WorkerOwns(ctx[v], tasks, busy, pending', held, stream)
              /\ ctx[v].pc \in DecodePc => ctx[v].task # t
  <2>1. WorkerOwns(ctx[v], tasks, busy, pending, held, stream)
    BY <1>2 DEF WorkersOwn
  <2>2. ctx[v].chain = None
    BY <1>1, <1>14, NoOtherChain
  <2> QED BY <1>1, <1>3, <2>1, <2>2 DEF WorkerOwns
<1>15. WorkersOwn(c, tasks, busy, pending', held, stream)
  <2>1. \A v \in Worker : WorkerOwns(c[v], tasks, busy, pending', held, stream)
    BY <1>11, <1>13, <1>14
  <2>2. ASSUME NEW u \in Worker, NEW v \in Worker,
               c[u].pc \in DecodePc, c[v].pc \in DecodePc, c[u].task = c[v].task
        PROVE  u = v
    BY <1>2, <1>10, <1>11, <1>14, <2>2 DEF WorkersOwn
  <2> QED BY <2>1, <2>2 DEF WorkersOwn
<1>16. ctx' \in [Worker -> Context] /\ WorkersOwn(ctx', tasks, busy, pending', held, stream)
  BY <1>1, <1>12, <1>15, WakingType, WakingOwns
<1>17. acked' \subseteq Task
  BY <1>1, <1>2, <1>6 DEF TypeOK
<1>18. TypeOK'
  BY <1>1, <1>2, <1>16, <1>17 DEF TypeOK, streamVars, dpbVars, parserVars
<1>19. TasksOrdered'
  BY <1>1, <1>2 DEF TasksOrdered, NextJob, streamVars, dpbVars, parserVars
<1>20. ParserPrepared'
  BY <1>1 DEF PoolInv, ParserPrepared, streamVars, dpbVars, parserVars
<1>21. WorkersOwn(ctx, tasks, busy, pending, held, stream)'
  BY <1>1, <1>16 DEF streamVars
<1> QED BY <1>18, <1>19, <1>20, <1>21 DEF PoolInv

(* Finish keeps the invariant.                                             *)
LEMMA FinishInv ==
  ASSUME PoolInv, NEW w \in Worker, Finish(w)
  PROVE  PoolInv'
<1> DEFINE t == ctx[w].task
           s == PicOf(w)
           others == busy \ {t}
           quiet == IF ctx[w].last \/ \E u \in others : tasks[u].pic = s THEN {s} ELSE Slot
           tasksAfter == [u \in Task |->
             IF u = t THEN [tasks[u] EXCEPT !.deps = {}, !.pic = None]
             ELSE IF u \in others THEN [tasks[u] EXCEPT !.after = @ \ {t}] ELSE tasks[u]]
           freed == {u \in others : tasks[u].after = {t}}
           readyDone == ReadyIn(tasks, pending, busy, frame)
           readyNext == ReadyIn(tasksAfter, pending, others, frame)
           waiting == \E u \in others : t \in tasks[u].after
           continues == waiting /\ readyNext # {}
           heirs == Heirs(freed, readyNext)
           chain == IF continues /\ heirs # {} THEN Oldest(heirs) ELSE None
           c == [ctx EXCEPT ![w].pc = "leave", ![w].chain = chain, ![w].task = None]
           r == [ctx[w] EXCEPT !.pc = "leave", !.chain = chain, !.task = None]
<1>1. /\ ctx[w].pc = "finish" /\ Lockable(w)
      /\ busy' = others /\ tasks' = tasksAfter
      /\ ready' = readyNext \/ (~waiting /\ ready' \in {readyDone, ready})
      /\ chained' \subseteq chained
      /\ frame' = Quiet(frame, quiet)
      /\ pwait' \in {"awake", ParserAfter(quiet)}
      /\ \E W : ctx' = WakeWorkers(c, W)
      /\ UNCHANGED <<streamVars, pending, acked, held, flagged, refFrames, toGet, currPic, ppc>>
  <2>1. /\ ctx[w].pc = "finish" /\ Lockable(w)
        /\ busy' = others /\ tasks' = tasksAfter
        /\ ready' = IF waiting THEN readyNext ELSE IF ctx[w].last THEN readyDone ELSE ready
        /\ chained' = chained \ (IF continues THEN (freed \intersect chained) \ readyNext ELSE freed)
        /\ frame' = Quiet(frame, quiet)
        /\ pwait' = IF pwait = "complete" THEN "awake" ELSE ParserAfter(quiet)
        /\ \E W : ctx' = WakeWorkers(c, W \union Waiters(quiet))
        /\ UNCHANGED <<streamVars, pending, acked, held, flagged, refFrames, toGet, currPic, ppc>>
    BY Zenon DEF Finish
  <2> HIDE DEF t, s, others, quiet, tasksAfter, freed, readyDone, readyNext, waiting, continues, heirs, chain, c
  <2> QED BY <2>1
<1>2. TypeOK /\ TasksOrdered /\ WorkersOwn(ctx, tasks, busy, pending, held, stream)
  BY DEF PoolInv
<1>3. t \in busy /\ t \in Task /\ t \notin pending /\ t # held /\ tasks[t] \in TaskRecord
      /\ s \in Slot
  <2>1. Decodes(w) BY <1>1 DEF Decodes, DecodePc
  <2>2. WorkerOwns(ctx[w], tasks, busy, pending, held, stream) BY <1>2 DEF WorkersOwn
  <2> QED BY <1>1, <2>1, <2>2, AtWork DEF WorkerOwns, DecodePc, EndPc
<1>4. tasksAfter \in [Task -> TaskRecord]
  <2>1. ASSUME NEW u \in Task
        PROVE  /\ [tasks[u] EXCEPT !.deps = {}, !.pic = None] \in TaskRecord
               /\ [tasks[u] EXCEPT !.after = @ \ {t}] \in TaskRecord
    <3>1. tasks[u] \in TaskRecord BY <1>2 DEF TypeOK
    <3> HIDE DEF t
    <3> QED BY <3>1 DEF TaskRecord
  <2> QED BY <1>2, <2>1 DEF TypeOK
<1>5. ASSUME NEW u \in others
      PROVE  /\ tasksAfter[u].job = tasks[u].job /\ tasksAfter[u].pic = tasks[u].pic
             /\ tasksAfter[u].bound = tasks[u].bound
             /\ tasksAfter[u].after = tasks[u].after \ {t}
  <2>1. u \in Task /\ u # t /\ tasks[u] \in TaskRecord BY <1>2, <1>5 DEF TypeOK
  <2>2. tasksAfter[u] = [tasks[u] EXCEPT !.after = @ \ {t}] BY <1>5, <2>1
  <2> HIDE DEF t, others, tasksAfter
  <2> QED BY <2>1, <2>2 DEF TaskRecord
<1>6. c = [ctx EXCEPT ![w] = r] /\ r = [ctx[w] EXCEPT !.pc = "leave", !.chain = chain, !.task = None]
  BY <1>2 DEF TypeOK
<1>7. pending \subseteq others /\ others \subseteq Task
  BY <1>2, <1>3 DEF TypeOK
<1>8. \A u \in others : tasks[u].after \subseteq busy /\ tasksAfter[u].after \subseteq others
  <2>1. \A u \in others : tasks[u].after \subseteq busy
    BY <1>2 DEF TasksOrdered
  <2>2. \A u \in others : tasksAfter[u].after = tasks[u].after \ {t}
    BY <1>5
  <2> HIDE DEF tasksAfter
  <2> QED BY <2>1, <2>2
<1>9. /\ ~waiting => \A u \in others : t \notin tasks[u].after
      /\ chain = None \/ chain \in heirs
  <2>1. heirs # {} => Oldest(heirs) \in heirs
    <3>1. heirs \subseteq busy BY <1>7 DEF Heirs
    <3>2. \A u \in heirs : tasks[u].job \in Nat
      BY <1>2, <3>1 DEF TypeOK, TaskRecord
    <3> HIDE DEF heirs
    <3> QED BY <3>2, OldestOfTasks
  <2> QED BY <2>1
<1>10. heirs \subseteq readyNext
  BY DEF Heirs
<1> HIDE DEF waiting, tasksAfter, others, heirs, chain, c, r, quiet
<1>11. /\ readyNext \subseteq pending /\ \A u \in readyNext : tasksAfter[u].after = {}
       /\ readyDone \subseteq pending /\ \A u \in readyDone : tasks[u].after = {}
  BY <1>7, <1>8, ReadyType
<1> HIDE DEF readyNext, readyDone
<1>12. ready' \subseteq pending /\ \A u \in ready' : tasksAfter[u].after = {}
  BY <1>1, <1>2, <1>5, <1>7, <1>9, <1>11 DEF TypeOK, TasksOrdered
<1>13. chain \in Task \union {None} /\ (chain # None => chain \in pending /\ tasksAfter[chain].after = {})
  BY <1>7, <1>9, <1>10, <1>11
<1>14. r \in Context /\ r.pc = "leave" /\ r.chain = chain
  <2>1. ctx[w] \in Context BY <1>2 DEF TypeOK
  <2>2. "leave" \in Pc BY DEF Pc, LockPc
  <2> QED BY <1>6, <1>13, <2>1, <2>2 DEF Context
<1>15. /\ c \in [Worker -> Context]
       /\ \A v \in Worker : c[v] = IF v = w THEN r ELSE ctx[v]
  BY <1>2, <1>6, <1>14 DEF TypeOK
<1>16. WorkerOwns(r, tasksAfter, others, pending, held, stream)
  <2>1. "leave" \notin DecodePc \union ClaimPc \union EndPc /\ "leave" \in LockPc
    BY DEF DecodePc, SleepPc, NotifyPc, ClaimPc, EndPc, LockPc
  <2> QED BY <1>13, <1>14, <2>1 DEF WorkerOwns
<1>17. ASSUME NEW v \in Worker, v # w
       PROVE  WorkerOwns(ctx[v], tasksAfter, others, pending, held, stream)
  <2>1. WorkerOwns(ctx[v], tasks, busy, pending, held, stream)
    BY <1>2 DEF WorkersOwn
  <2>2. ctx[v].chain = None
    BY <1>1, <1>17, NoOtherChain
  <2>3. ctx[v].pc \in DecodePc => ctx[v].task # t
    BY <1>1, <1>2, <1>17 DEF WorkersOwn, DecodePc
  <2>4. ctx[v].pc \in ClaimPc \union {"notifyRow"} \union EndPc => ctx[v].pc \in DecodePc
    BY DEF DecodePc, SleepPc, NotifyPc, ClaimPc, EndPc
  <2>5. ctx[v].pc \in DecodePc => ctx[v].task \in others
    BY <2>1, <2>3 DEF WorkerOwns, others
  <2> QED BY <1>5, <2>1, <2>2, <2>4, <2>5 DEF WorkerOwns
<1>18. WorkersOwn(c, tasksAfter, others, pending, held, stream)
  <2>1. \A v \in Worker : WorkerOwns(c[v], tasksAfter, others, pending, held, stream)
    BY <1>15, <1>16, <1>17
  <2>2. ASSUME NEW u \in Worker, NEW v \in Worker,
               c[u].pc \in DecodePc, c[v].pc \in DecodePc, c[u].task = c[v].task
        PROVE  u = v
    <3>1. "leave" \notin DecodePc BY DEF DecodePc, SleepPc, NotifyPc
    <3> QED BY <1>2, <1>14, <1>15, <2>2, <3>1 DEF WorkersOwn
  <2> QED BY <2>1, <2>2 DEF WorkersOwn
<1>19. ctx' \in [Worker -> Context] /\ WorkersOwn(ctx', tasksAfter, others, pending, held, stream)
  BY <1>1, <1>15, <1>18, WakingType, WakingOwns
<1>20. frame' \in [Slot -> FrameRecord]
  BY <1>1, <1>2, QuietType DEF TypeOK
<1>21. pwait' \in {"none", "complete", "frame", "awake"}
  BY <1>1, <1>2, ParserAfterType DEF TypeOK
<1>22. TypeOK'
  BY <1>1, <1>2, <1>3, <1>4, <1>7, <1>12, <1>19, <1>20, <1>21 DEF TypeOK, streamVars, others
<1>23. TasksOrdered'
  <2>1. \A u \in others : tasksAfter[u].after = tasks[u].after \ {t} /\ u \in busy
    BY <1>5 DEF others
  <2>2. held # None => held \in others
    BY <1>2, <1>3 DEF TypeOK, others
  <2> QED BY <1>1, <1>2, <1>5, <1>8, <1>12, <2>1, <2>2 DEF TasksOrdered, NextJob, streamVars, others
<1>24. ParserPrepared'
  BY <1>1, <1>2, <1>7 DEF PoolInv, ParserPrepared, streamVars, others, TypeOK
<1>25. WorkersOwn(ctx, tasks, busy, pending, held, stream)'
  BY <1>1, <1>19 DEF streamVars
<1> QED BY <1>22, <1>23, <1>24, <1>25 DEF PoolInv

-----------------------------------------------------------------------------
(* The steps of the parser and of the caller.                              *)

(* A held task that is given its bound is the same task.                   *)
LEMMA BoundHeldType ==
  ASSUME TypeOK, NEW b \in 0 .. Inf
  PROVE  /\ BoundHeld(b) \in [Task -> TaskRecord]
         /\ \A t \in Task : /\ BoundHeld(b)[t].job = tasks[t].job
                            /\ BoundHeld(b)[t].pic = tasks[t].pic
                            /\ BoundHeld(b)[t].deps = tasks[t].deps
                            /\ BoundHeld(b)[t].after = tasks[t].after
<1>1. ASSUME NEW t \in Task
      PROVE  /\ [tasks[t] EXCEPT !.bound = b] \in TaskRecord
             /\ [tasks[t] EXCEPT !.bound = b].job = tasks[t].job
             /\ [tasks[t] EXCEPT !.bound = b].pic = tasks[t].pic
             /\ [tasks[t] EXCEPT !.bound = b].deps = tasks[t].deps
             /\ [tasks[t] EXCEPT !.bound = b].after = tasks[t].after
  <2>1. tasks[t] \in TaskRecord BY DEF TypeOK
  <2> QED BY <2>1 DEF TaskRecord
<1> QED BY <1>1 DEF BoundHeld, TypeOK

(* The effect of release_held_task, and that of not calling it.            *)
HeldReleased ==
  \/ held' = None /\ \E b \in 0 .. Inf : tasks' = BoundHeld(b)
  \/ UNCHANGED <<held, tasks>>

(* What release_held_task changes.                                         *)
LEMMA ReleaseHeldEffect ==
  ASSUME TypeOK, NEW b \in 0 .. Inf,
         ReleaseHeld(b) \/ UNCHANGED <<held, tasks, frame, ctx>>
  PROVE  /\ HeldReleased
         /\ frame' \in [Slot -> FrameRecord]
         /\ ctx' \in [Worker -> Context] /\ Woken(ctx, ctx')
<1>1. frame \in [Slot -> FrameRecord] /\ ctx \in [Worker -> Context] BY DEF TypeOK
<1>2. CASE ReleaseHeld(b)
  BY <1>1, <1>2, QuietType, WakingType DEF ReleaseHeld, HeldReleased
<1>3. CASE UNCHANGED <<held, tasks, frame, ctx>>
  BY <1>1, <1>3 DEF HeldReleased, Woken
<1> QED BY <1>2, <1>3

(* A step that creates no task.                                            *)
LEMMA ParserStep ==
  ASSUME PoolInv, UNCHANGED <<stream, busy, pending, chained, acked>>,
         HeldReleased, next' \in 1 .. Len(stream) + 1, NextJob' = NextJob, ParserPrepared',
         ready' = ready \/ \E fr : ready' = ReadyIn(tasks, pending, busy, fr),
         flagged' \subseteq Slot, refFrames' \subseteq Slot, toGet' \subseteq Slot,
         currPic' \in Slot \union {None}, frame' \in [Slot -> FrameRecord],
         ctx' \in [Worker -> Context], Woken(ctx, ctx'),
         ppc' \in {"idle", "task", "settle", "start", "slot", "create", "created",
                   "endSettle", "drain", "closed"},
         pwait' \in {"none", "complete", "frame", "awake"}
  PROVE  PoolInv'
<1>1. TypeOK /\ TasksOrdered /\ WorkersOwn(ctx, tasks, busy, pending, held, stream)
  BY DEF PoolInv
<1>2. /\ tasks' \in [Task -> TaskRecord]
      /\ \A t \in Task : tasks'[t].job = tasks[t].job /\ tasks'[t].pic = tasks[t].pic
                           /\ tasks'[t].after = tasks[t].after
  <2>1. CASE \E b \in 0 .. Inf : tasks' = BoundHeld(b)
    <3>1. PICK b \in 0 .. Inf : tasks' = BoundHeld(b) BY <2>1
    <3> QED BY <1>1, <3>1, BoundHeldType
  <2>2. CASE UNCHANGED tasks
    BY <1>1, <2>2 DEF TypeOK
  <2> QED BY <2>1, <2>2 DEF HeldReleased
<1>3. /\ held' \in busy \union {None}
      /\ held' # None => held' = held /\ tasks' = tasks
  BY <1>1 DEF HeldReleased, TypeOK
<1>4. busy \subseteq Task /\ pending \subseteq busy
  BY <1>1 DEF TypeOK
<1>5. ready' \subseteq pending /\ \A t \in ready' : tasks[t].after = {}
  <2>1. \A t \in pending : tasks[t].after \subseteq busy
    BY <1>1, <1>4 DEF TasksOrdered
  <2> QED BY <1>1, <2>1, ReadyType DEF TypeOK, TasksOrdered
<1>6. TypeOK'
  BY <1>1, <1>2, <1>3, <1>5 DEF TypeOK
<1>7. TasksOrdered'
  BY <1>1, <1>2, <1>3, <1>4, <1>5 DEF TasksOrdered
<1>8. WorkersOwn(ctx, tasks', busy, pending, held', stream)
  <2>1. ASSUME NEW w \in Worker
        PROVE  WorkerOwns(ctx[w], tasks', busy, pending, held', stream)
    <3>1. WorkerOwns(ctx[w], tasks, busy, pending, held, stream)
      BY <1>1 DEF WorkersOwn
    <3>2. \A t \in Task : t # None BY DEF Task, None
    <3>3. ctx[w].pc \in ClaimPc \union {"notifyRow"} \union EndPc => ctx[w].pc \in DecodePc
      BY DEF DecodePc, SleepPc, NotifyPc, ClaimPc, EndPc
    <3> QED BY <1>2, <1>3, <1>4, <3>1, <3>2, <3>3 DEF WorkerOwns
  <2> QED BY <1>1, <2>1 DEF WorkersOwn
<1>9. WorkersOwn(ctx', tasks', busy, pending, held', stream)
  BY <1>8, WakingOwns
<1>10. WorkersOwn(ctx, tasks, busy, pending, held, stream)'
  BY <1>9
<1> QED BY <1>6, <1>7, <1>10 DEF PoolInv

(* SendSlice keeps the invariant.                                          *)
LEMMA SendSliceInv ==
  ASSUME PoolInv, SendSlice
  PROVE  PoolInv'
<1>1. Inf \in 0 .. Inf /\ TypeOK BY DEF Inf, PoolInv
<1>2. /\ HeldReleased /\ frame' \in [Slot -> FrameRecord]
      /\ ctx' \in [Worker -> Context] /\ Woken(ctx, ctx')
  BY <1>1, ReleaseHeldEffect DEF SendSlice
<1>3. /\ ppc = "idle" /\ next <= Len(stream) /\ ppc' = "task" /\ pwait' = "none"
      /\ UNCHANGED <<streamVars, busy, pending, ready, chained, acked, flagged,
                     refFrames, toGet, currPic>>
  BY Zenon DEF SendSlice, InCall
<1>4. NextJob' = NextJob /\ ParserPrepared'
  BY <1>3 DEF NextJob, ParserPrepared, streamVars
<1> QED BY <1>1, <1>2, <1>3, <1>4, ParserStep DEF TypeOK, streamVars

(* progress_or_wait, or release_terminal_task_dependencies alone.          *)
LEMMA ProgressEffect ==
  ASSUME TypeOK, NEW n, ProgressOrWait \/ ReleaseTerminal(ctx, n)
  PROVE  /\ frame' \in [Slot -> FrameRecord] /\ flagged' \subseteq Slot
         /\ ready' = ready \/ ready' = ReadyIn(tasks, pending, busy, frame')
         /\ ctx' \in [Worker -> Context] /\ Woken(ctx, ctx')
         /\ ProgressOrWait => pwait' \in {"none", "complete"}
<1>1. ctx \in [Worker -> Context] BY DEF TypeOK
<1>2. \E m : ReleaseTerminal(ctx, m) BY Zenon DEF ProgressOrWait
<1>3. ProgressOrWait => pwait' \in {"none", "complete"} BY DEF ProgressOrWait
<1> QED BY <1>1, <1>2, <1>3, ReleaseEffect

(* WaitTaskSlot keeps the invariant.                                       *)
LEMMA WaitTaskSlotInv ==
  ASSUME PoolInv, WaitTaskSlot
  PROVE  PoolInv'
<1>1. Inf \in 0 .. Inf /\ TypeOK BY DEF Inf, PoolInv
<1>2. /\ ppc = "task" /\ UNCHANGED <<streamVars, busy, pending, chained, acked, refFrames, toGet, currPic>>
      /\ \/ ProgressOrWait /\ UNCHANGED <<tasks, held, ppc>>
         \/ /\ busy # Task
            /\ ReleaseHeld(Inf) \/ UNCHANGED <<held, tasks, frame, ctx>>
            /\ ppc' \in {"settle", "start", "create"} /\ (ppc' = "create" => currPic # None)
            /\ pwait' = "none" /\ UNCHANGED <<ready, flagged>>
  BY Zenon DEF WaitTaskSlot, InCall
<1>3. next <= Len(stream)
  BY <1>2 DEF PoolInv, ParserPrepared
<1>4. /\ HeldReleased /\ frame' \in [Slot -> FrameRecord]
      /\ ctx' \in [Worker -> Context] /\ Woken(ctx, ctx')
      /\ ready' = ready \/ ready' = ReadyIn(tasks, pending, busy, frame')
      /\ flagged' \subseteq Slot /\ pwait' \in {"none", "complete"}
  <2>1. CASE ProgressOrWait /\ UNCHANGED <<tasks, held, ppc>>
    BY <1>1, <2>1, ProgressEffect DEF HeldReleased
  <2>2. CASE /\ ReleaseHeld(Inf) \/ UNCHANGED <<held, tasks, frame, ctx>>
             /\ pwait' = "none" /\ UNCHANGED <<ready, flagged>>
    BY <1>1, <2>2, ReleaseHeldEffect DEF TypeOK
  <2> QED BY <1>2, <2>1, <2>2
<1>5. NextJob' = NextJob /\ ParserPrepared'
  BY <1>2, <1>3 DEF NextJob, ParserPrepared, streamVars
<1>6. ppc' \in {"task", "settle", "start", "create"}
  BY <1>2
<1> QED BY <1>1, <1>2, <1>4, <1>5, <1>6, ParserStep DEF TypeOK, streamVars

(* SettleBounds keeps the invariant.                                       *)
LEMMA SettleBoundsInv ==
  ASSUME PoolInv, SettleBounds
  PROVE  PoolInv'
<1> DEFINE waitPics == {ctx[w].on : w \in {v \in Worker : ctx[v].task \in Unsettled /\ ctx[v].pc = "refSleep"}}
<1>1. TypeOK BY DEF PoolInv
<1>2. /\ ppc \in {"settle", "endSettle"} /\ UNCHANGED <<streamVars, poolVars, flagged, toGet>>
      /\ \/ /\ frame' = [Quiet(frame, waitPics) EXCEPT ![currPic].wake = -1]
            /\ ctx' = WakeWorkers(ctx, Waiters(waitPics))
            /\ pwait' = "frame" /\ UNCHANGED <<currPic, refFrames, ppc>>
         \/ /\ currPic' = None
            /\ refFrames' = (IF ppc = "settle" THEN SlotsOf(Slice.refs) ELSE refFrames)
            /\ ppc' = (IF ppc = "settle" THEN "start" ELSE "drain")
            /\ pwait' = "none" /\ UNCHANGED <<frame, ctx>>
  BY Zenon DEF SettleBounds
<1> HIDE DEF waitPics
<1>3. frame' \in [Slot -> FrameRecord]
  <2>1. Quiet(frame, waitPics) \in [Slot -> FrameRecord] BY <1>1, QuietType DEF TypeOK
  <2>2. -1 \in Addr BY DEF Addr, Inf
  <2> DEFINE f == Quiet(frame, waitPics)
  <2> HIDE DEF f
  <2>3. f \in [Slot -> FrameRecord] => [f EXCEPT ![currPic].wake = -1] \in [Slot -> FrameRecord]
    BY <2>2 DEF FrameRecord
  <2> QED BY <1>1, <1>2, <2>1, <2>3 DEF f, TypeOK
<1>4. ctx' \in [Worker -> Context] /\ Woken(ctx, ctx')
  BY <1>1, <1>2, WakingType DEF TypeOK, Woken
<1>5. /\ ppc' \in {"settle", "endSettle", "start", "drain"} /\ ppc' = "settle" => ppc = "settle"
      /\ ppc' = "start" => ppc = "settle"
  BY <1>2
<1>6. refFrames' \subseteq Slot /\ currPic' \in Slot \union {None} /\ pwait' \in {"none", "frame"}
  BY <1>1, <1>2 DEF TypeOK, SlotsOf
<1>7. NextJob' = NextJob /\ ParserPrepared'
  BY <1>2, <1>5 DEF PoolInv, NextJob, ParserPrepared, streamVars, poolVars
<1>8. HeldReleased BY <1>2 DEF HeldReleased, poolVars
<1> QED
  BY <1>1, <1>2, <1>3, <1>4, <1>5, <1>6, <1>7, <1>8, ParserStep DEF TypeOK, streamVars, poolVars

(* StartPicture keeps the invariant.                                       *)
LEMMA StartPictureInv ==
  ASSUME PoolInv, StartPicture
  PROVE  PoolInv'
<1>1. TypeOK BY DEF PoolInv
<1>2. /\ ppc = "start" /\ ppc' = "slot" /\ pwait' = "none" /\ ReleaseTerminal(ctx, 0)
      /\ UNCHANGED <<streamVars, tasks, busy, pending, chained, acked, held, refFrames, toGet, currPic>>
  BY Zenon DEF StartPicture, InCall
<1>3. /\ frame' \in [Slot -> FrameRecord] /\ flagged' \subseteq Slot
      /\ ready' = ready \/ ready' = ReadyIn(tasks, pending, busy, frame')
      /\ ctx' \in [Worker -> Context] /\ Woken(ctx, ctx')
  BY <1>1, <1>2, ProgressEffect
<1>4. NextJob' = NextJob /\ ParserPrepared' /\ HeldReleased
  BY <1>2 DEF PoolInv, NextJob, ParserPrepared, streamVars, HeldReleased
<1> QED BY <1>1, <1>2, <1>3, <1>4, ParserStep DEF TypeOK, streamVars

(* The slice being parsed is one of the stream.                            *)
LEMMA SliceType ==
  ASSUME TypeOK, next <= Len(stream)
  PROVE  Slice \in Header /\ next \in DOMAIN stream
<1>1. stream \in Seq(Header) /\ next \in 1 .. Len(stream) BY DEF TypeOK
<1> QED BY <1>1 DEF Slice

(* A slot that starts a picture.                                           *)
LEMMA NewFrameType ==
  ASSUME TypeOK, NEW s \in Slot, NEW p \in Nat, NEW rows \in [Row -> RowContent]
  PROVE  [frame EXCEPT ![s].id = p, ![s].frontier = 0, ![s].remaining = Rows, ![s].rows = rows]
           \in [Slot -> FrameRecord]
<1> DEFINE r == frame[s]
           f == [r EXCEPT !.id = p, !.frontier = 0, !.remaining = Rows, !.rows = rows]
<1>1. frame \in [Slot -> FrameRecord] BY DEF TypeOK
<1>2. [frame EXCEPT ![s].id = p, ![s].frontier = 0, ![s].remaining = Rows, ![s].rows = rows]
        = [frame EXCEPT ![s] = f]
  BY <1>1
<1>3. f \in FrameRecord
  <2>1. r \in FrameRecord /\ f = [r EXCEPT !.id = p, !.frontier = 0, !.remaining = Rows, !.rows = rows]
    BY <1>1
  <2> HIDE DEF r, f
  <2>2. 0 \in 0 .. Inf /\ Rows \in Int BY DEF Inf
  <2>3. f = [id |-> p, frontier |-> 0, remaining |-> Rows, rows |-> rows, wake |-> r.wake]
    BY <2>1 DEF FrameRecord
  <2> QED BY <2>1, <2>2, <2>3 DEF FrameRecord
<1> HIDE DEF f
<1> QED BY <1>1, <1>2, <1>3

(* AllocSlot keeps the invariant.                                          *)
LEMMA AllocSlotInv ==
  ASSUME PoolInv, AllocSlot
  PROVE  PoolInv'
<1> DEFINE s == Lowest(Slot \ Unavailable)
<1>1. TypeOK BY DEF PoolInv
<1>2. /\ ppc = "slot" /\ UNCHANGED <<streamVars, tasks, busy, pending, chained, acked, held>>
      /\ \/ /\ ppc' = "idle" /\ pwait' = "none" /\ UNCHANGED <<ready, dpbVars, ctx>>
         \/ ProgressOrWait /\ UNCHANGED <<refFrames, toGet, currPic, ppc>>
         \/ /\ Unavailable # Slot
            /\ frame' = [frame EXCEPT ![s].id = Slice.pic, ![s].frontier = 0,
                                      ![s].remaining = Rows, ![s].rows = Blank]
            /\ flagged' = flagged \ {s} /\ toGet' = toGet \union {s} /\ currPic' = s
            /\ ppc' = "create" /\ pwait' = "none" /\ UNCHANGED <<ready, refFrames, ctx>>
  BY Zenon DEF AllocSlot, InCall
<1>3. next <= Len(stream) /\ busy # Task
  BY <1>2 DEF PoolInv, ParserPrepared
<1>4. Unavailable # Slot => s \in Slot
  <2>1. Unavailable \subseteq Slot
    BY <1>1 DEF Unavailable, Reserved, Depended, Inflight, Writing, TypeOK, SlotsOf, TaskRecord, PoolInv, TasksOrdered
  <2>2. Slot \ Unavailable \in SUBSET Nat BY DEF Slot
  <2>3. Unavailable # Slot => Slot \ Unavailable # {} BY <2>1
  <2> QED BY <2>2, <2>3, LowestOfNats
<1> HIDE DEF s
<1>5. /\ frame' \in [Slot -> FrameRecord] /\ flagged' \subseteq Slot
      /\ ready' = ready \/ ready' = ReadyIn(tasks, pending, busy, frame')
      /\ ctx' \in [Worker -> Context] /\ Woken(ctx, ctx')
      /\ pwait' \in {"none", "complete"} /\ ppc' \in {"idle", "slot", "create"}
      /\ currPic' \in Slot \union {None} /\ (ppc' = "create" => currPic' # None)
      /\ toGet' \subseteq Slot /\ refFrames' \subseteq Slot
  <2>1. CASE ppc' = "idle" /\ pwait' = "none" /\ UNCHANGED <<ready, dpbVars, ctx>>
    BY <1>1, <2>1 DEF TypeOK, dpbVars, Woken
  <2>2. CASE ProgressOrWait /\ UNCHANGED <<refFrames, toGet, currPic, ppc>>
    BY <1>1, <1>2, <2>2, ProgressEffect DEF TypeOK
  <2>3. CASE /\ Unavailable # Slot
             /\ frame' = [frame EXCEPT ![s].id = Slice.pic, ![s].frontier = 0,
                                       ![s].remaining = Rows, ![s].rows = Blank]
             /\ flagged' = flagged \ {s} /\ toGet' = toGet \union {s} /\ currPic' = s
             /\ ppc' = "create" /\ pwait' = "none" /\ UNCHANGED <<ready, refFrames, ctx>>
    <3>1. s \in Slot /\ s # None BY <1>4, <2>3 DEF Slot, None
    <3>2. Slice.pic \in Nat BY <1>1, <1>3, SliceType DEF Header, Fields
    <3>3. 0 \in 0 .. Inf /\ Rows \in Int /\ Blank \in [Row -> RowContent]
      BY SMTT(30) DEF Inf, Blank, RowContent, Undecoded
    <3>4. frame' \in [Slot -> FrameRecord]
      BY <1>1, <2>3, <3>1, <3>2, <3>3, NewFrameType
    <3> QED BY <1>1, <2>3, <3>1, <3>4 DEF TypeOK, Woken
  <2> QED BY <1>2, <2>1, <2>2, <2>3
<1>6. NextJob' = NextJob /\ ParserPrepared' /\ HeldReleased
  BY <1>2, <1>3, <1>5 DEF NextJob, ParserPrepared, streamVars, HeldReleased
<1> QED BY <1>1, <1>2, <1>5, <1>6, ParserStep DEF TypeOK, streamVars

(* CreatedTask keeps the invariant.                                        *)
LEMMA CreatedTaskInv ==
  ASSUME PoolInv, CreatedTask
  PROVE  PoolInv'
<1>1. TypeOK BY DEF PoolInv
<1>2. /\ ppc = "created" /\ next' = next + 1 /\ ppc' = "idle" /\ pwait' = "none"
      /\ \/ (\E W : ctx' = WakeWorkers(ctx, W)) /\ UNCHANGED <<frame, flagged, ready>>
         \/ ReleaseTerminal(ctx, CreatedSignals)
      /\ UNCHANGED <<stream, tasks, busy, pending, chained, acked, held, refFrames, toGet, currPic>>
  BY Zenon DEF CreatedTask, InCall
<1>3. next' \in 1 .. Len(stream) + 1
  BY <1>1, <1>2 DEF PoolInv, ParserPrepared, TypeOK
<1>4. /\ frame' \in [Slot -> FrameRecord] /\ flagged' \subseteq Slot
      /\ ready' = ready \/ ready' = ReadyIn(tasks, pending, busy, frame')
      /\ ctx' \in [Worker -> Context] /\ Woken(ctx, ctx')
  <2>1. CASE (\E W : ctx' = WakeWorkers(ctx, W)) /\ UNCHANGED <<frame, flagged, ready>>
    BY <1>1, <2>1, WakingType DEF TypeOK
  <2>2. CASE ReleaseTerminal(ctx, CreatedSignals)
    BY <1>1, <2>2, ProgressEffect
  <2> QED BY <1>2, <2>1, <2>2
<1>5. NextJob' = NextJob /\ ParserPrepared' /\ HeldReleased
  BY <1>2 DEF NextJob, ParserPrepared, HeldReleased
<1> QED BY <1>1, <1>2, <1>3, <1>4, <1>5, ParserStep DEF TypeOK

(* SendEnd keeps the invariant.                                            *)
LEMMA SendEndInv ==
  ASSUME PoolInv, SendEnd
  PROVE  PoolInv'
<1>1. Inf \in 0 .. Inf /\ TypeOK BY DEF Inf, PoolInv
<1>2. /\ HeldReleased /\ frame' \in [Slot -> FrameRecord]
      /\ ctx' \in [Worker -> Context] /\ Woken(ctx, ctx')
  BY <1>1, ReleaseHeldEffect DEF SendEnd
<1>3. /\ ppc = "idle" /\ ppc' \in {"endSettle", "drain"} /\ pwait' = "none"
      /\ UNCHANGED <<streamVars, busy, pending, ready, chained, acked, flagged,
                     refFrames, toGet, currPic>>
  BY Zenon DEF SendEnd, InCall
<1>4. NextJob' = NextJob /\ ParserPrepared'
  BY <1>3 DEF NextJob, ParserPrepared, streamVars
<1> QED BY <1>1, <1>2, <1>3, <1>4, ParserStep DEF TypeOK, streamVars

(* Drain keeps the invariant.                                              *)
LEMMA DrainInv ==
  ASSUME PoolInv, Drain
  PROVE  PoolInv'
<1>1. TypeOK BY DEF PoolInv
<1>2. /\ ppc = "drain" /\ ppc' \in {"drain", "idle"}
      /\ ProgressOrWait \/ (ReleaseTerminal(ctx, 0) /\ pwait' = "none")
      /\ UNCHANGED <<streamVars, tasks, busy, pending, chained, acked, held, refFrames, toGet, currPic>>
  BY Zenon DEF Drain, InCall
<1>3. /\ frame' \in [Slot -> FrameRecord] /\ flagged' \subseteq Slot
      /\ ready' = ready \/ ready' = ReadyIn(tasks, pending, busy, frame')
      /\ ctx' \in [Worker -> Context] /\ Woken(ctx, ctx')
      /\ pwait' \in {"none", "complete"}
  BY <1>1, <1>2, ProgressEffect
<1>4. NextJob' = NextJob /\ ParserPrepared' /\ HeldReleased
  BY <1>2 DEF NextJob, ParserPrepared, streamVars, HeldReleased
<1> QED BY <1>1, <1>2, <1>3, <1>4, ParserStep DEF TypeOK, streamVars

(* The caller receives an access unit, or get_frame drops a picture.       *)
LEMMA OutputInv ==
  ASSUME PoolInv, NEW s \in Slot, Receive(s) \/ DropOrphan(s)
  PROVE  PoolInv'
<1>1. TypeOK BY DEF PoolInv
<1>2. /\ toGet' \subseteq toGet
      /\ UNCHANGED <<streamVars, poolVars, frame, flagged, refFrames, currPic, ctx, parserVars>>
  <2>1. /\ \E D : toGet' = toGet \ D
        /\ UNCHANGED <<streamVars, poolVars, frame, flagged, refFrames, currPic, ctx, parserVars>>
    BY Zenon DEF Receive, DropOrphan
  <2> QED BY <2>1
<1>3. NextJob' = NextJob /\ ParserPrepared' /\ HeldReleased /\ Woken(ctx, ctx')
  BY <1>2 DEF PoolInv, NextJob, ParserPrepared, HeldReleased, Woken, streamVars, poolVars, parserVars
<1> QED BY <1>1, <1>2, <1>3, ParserStep DEF TypeOK, streamVars, poolVars, parserVars

(* Close keeps the invariant.                                              *)
LEMMA CloseInv ==
  ASSUME PoolInv, Close
  PROVE  PoolInv'
<1>1. Inf \in 0 .. Inf /\ TypeOK BY DEF Inf, PoolInv
<1>2. /\ ppc = "idle" /\ held' = None /\ tasks' = BoundHeld(Inf) /\ frame' = Quiet(frame, HeldPic)
      /\ \E W : ctx' = WakeWorkers(ctx, W)
      /\ ppc' = "closed" /\ pwait' = "none"
      /\ UNCHANGED <<streamVars, busy, pending, ready, chained, acked, flagged, refFrames, toGet, currPic>>
  BY Zenon DEF Close, InCall
<1>3. /\ frame' \in [Slot -> FrameRecord] /\ ctx' \in [Worker -> Context] /\ Woken(ctx, ctx')
  BY <1>1, <1>2, QuietType, WakingType DEF TypeOK
<1>4. NextJob' = NextJob /\ ParserPrepared' /\ HeldReleased
  BY <1>1, <1>2 DEF NextJob, ParserPrepared, streamVars, HeldReleased
<1> QED BY <1>1, <1>2, <1>3, <1>4, ParserStep DEF TypeOK, streamVars

(* CreateTask keeps the invariant.                                         *)
LEMMA CreateTaskInv ==
  ASSUME PoolInv, CreateTask
  PROVE  PoolInv'
<1> DEFINE t == Lowest(Task \ busy)
           after == OlderSlices
           rec == [job |-> next, pic |-> currPic, deps |-> SlotsOf(Slice.reads),
                   after |-> after, bound |-> Unknown]
           b == HeldBound
           tasksAfter == [BoundHeld(b) EXCEPT ![t] = rec]
<1>1. TypeOK /\ TasksOrdered /\ WorkersOwn(ctx, tasks, busy, pending, held, stream)
  BY DEF PoolInv
<1>2. /\ ppc = "create" /\ ppc' = "created" /\ pwait' = "none"
      /\ tasks' = tasksAfter /\ held' = t
      /\ busy' = busy \union {t} /\ pending' = pending \union {t}
      /\ chained' \in {chained \union {t}, chained \ {t}} /\ acked' = acked \ {t}
      /\ ready' = ReadyIn(tasks', pending', busy', frame)
      /\ frame' = Quiet(frame, HeldPic) /\ ctx' = WakeWorkers(ctx, Waiters(HeldPic))
      /\ UNCHANGED <<streamVars, flagged, refFrames, toGet, currPic>>
  <2>1. chained' = (IF after # {} THEN chained \union {t} ELSE chained \ {t})
    BY Zenon DEF CreateTask
  <2> HIDE DEF t, after
  <2>2. chained' \in {chained \union {t}, chained \ {t}} BY <2>1
  <2> USE DEF t, after
  <2> QED BY <2>2, Zenon DEF CreateTask, InCall
<1>3. currPic \in Slot /\ busy # Task /\ next <= Len(stream)
  BY <1>1, <1>2 DEF PoolInv, ParserPrepared, TypeOK
<1>4. Slice \in Header /\ next \in DOMAIN stream
  BY <1>1, <1>3, SliceType
<1>5. t \in Task /\ t \notin busy
  <2>1. Task \ busy \in SUBSET Nat BY DEF Task
  <2>2. Task \ busy # {} BY <1>1, <1>3 DEF TypeOK
  <2> QED BY <2>1, <2>2, LowestOfNats
<1>6. b \in 0 .. Inf
  <2>1. Slice.first \in 0 .. Inf /\ Inf \in 0 .. Inf BY <1>4, HeaderBounds DEF Inf
  <2> QED BY <2>1 DEF HeldBound
<1>7. after \subseteq busy
  BY DEF OlderSlices
<1>8. rec \in TaskRecord
  <2>1. Unknown \in 0 .. Inf BY DEF Unknown, Inf
  <2> QED BY <1>1, <1>3, <1>4, <1>7, <2>1 DEF TaskRecord, SlotsOf, TypeOK
<1>9. rec.job = next /\ rec.pic = currPic /\ rec.after = after /\ rec.bound = Unknown
  OBVIOUS
<1> HIDE DEF t, rec, b
<1>10. /\ tasksAfter \in [Task -> TaskRecord] /\ tasksAfter[t] = rec
       /\ \A u \in busy : /\ tasksAfter[u].job = tasks[u].job /\ tasksAfter[u].pic = tasks[u].pic
                          /\ tasksAfter[u].after = tasks[u].after
  <2> DEFINE tk == BoundHeld(b)
  <2>1. /\ tk \in [Task -> TaskRecord]
        /\ \A u \in Task : /\ tk[u].job = tasks[u].job /\ tk[u].pic = tasks[u].pic
                           /\ tk[u].after = tasks[u].after
    BY <1>1, <1>6, BoundHeldType
  <2> HIDE DEF tk
  <2>2. [tk EXCEPT ![t] = rec] \in [Task -> TaskRecord]
    BY <1>8, <2>1
  <2>3. \A u \in Task : [tk EXCEPT ![t] = rec][u] = IF u = t THEN rec ELSE tk[u]
    BY <2>1
  <2>4. tasksAfter = [tk EXCEPT ![t] = rec] BY DEF tk
  <2>5. busy \subseteq Task BY <1>1 DEF TypeOK
  <2> HIDE DEF tasksAfter
  <2> QED BY <1>5, <2>1, <2>2, <2>3, <2>4, <2>5
<1> HIDE DEF tasksAfter
<1>11. frame' \in [Slot -> FrameRecord] /\ ctx' \in [Worker -> Context] /\ Woken(ctx, ctx')
  BY <1>1, <1>2, QuietType, WakingType DEF TypeOK
<1>12. busy \subseteq Task /\ pending \subseteq busy
  BY <1>1 DEF TypeOK
<1>13. ready' \subseteq pending' /\ \A u \in ready' : tasks'[u].after = {}
  <2>1. \A u \in pending' : tasks'[u].after \subseteq busy'
    BY <1>1, <1>2, <1>5, <1>7, <1>9, <1>10, <1>12 DEF TasksOrdered
  <2> QED BY <1>2, <2>1, ReadyType
<1>14. TypeOK'
  BY <1>1, <1>2, <1>5, <1>10, <1>11, <1>12, <1>13 DEF TypeOK, streamVars
<1>15. NextJob = next /\ NextJob' = next + 1 /\ next \in Nat
  BY <1>1, <1>2 DEF NextJob, streamVars, TypeOK
<1>16. TasksOrdered'
  <2>1. \A u \in busy' : /\ tasks'[u].pic \in Slot /\ tasks'[u].after \subseteq busy'
                         /\ tasks'[u].job \in DOMAIN stream' /\ tasks'[u].job < NextJob'
    BY <1>1, <1>2, <1>3, <1>4, <1>5, <1>7, <1>9, <1>10, <1>12, <1>15
    DEF TasksOrdered, streamVars, TypeOK, TaskRecord
  <2>2. \A u \in busy : tasks[u].job < next /\ tasks[u].job \in Nat
    BY <1>1, <1>12, <1>15 DEF TasksOrdered, TypeOK, TaskRecord
  <2>3. \A u, v \in busy' : tasks'[u].job = tasks'[v].job => u = v
    BY <1>1, <1>2, <1>5, <1>9, <1>10, <1>15, <2>2 DEF TasksOrdered
  <2>4. \A u, v \in busy' :
          tasks'[v].pic = tasks'[u].pic /\ tasks'[v].job < tasks'[u].job => v \in tasks'[u].after
    <3>1. \A v \in busy : tasks[v].pic = currPic => v \in after
      BY DEF OlderSlices
    <3> QED BY <1>1, <1>2, <1>5, <1>9, <1>10, <1>15, <2>2, <3>1 DEF TasksOrdered
  <2>5. tasks'[held'].bound = Unknown
    BY <1>2, <1>9, <1>10
  <2> QED BY <1>13, <2>1, <2>3, <2>4, <2>5 DEF TasksOrdered
<1>17. ParserPrepared'
  BY <1>2, <1>3 DEF ParserPrepared, streamVars
<1>18. WorkersOwn(ctx, tasks', busy', pending', held', stream)
  <2>1. ASSUME NEW w \in Worker
        PROVE  WorkerOwns(ctx[w], tasks', busy', pending', held', stream)
    <3>1. WorkerOwns(ctx[w], tasks, busy, pending, held, stream)
      BY <1>1 DEF WorkersOwn
    <3>2. ctx[w].pc \in ClaimPc \union {"notifyRow"} \union EndPc => ctx[w].pc \in DecodePc
      BY DEF DecodePc, SleepPc, NotifyPc, ClaimPc, EndPc
    <3> QED BY <1>2, <1>5, <1>10, <1>12, <3>1, <3>2 DEF WorkerOwns
  <2> QED BY <1>1, <2>1 DEF WorkersOwn
<1>19. WorkersOwn(ctx', tasks', busy', pending', held', stream)
  BY <1>11, <1>18, WakingOwns
<1>20. WorkersOwn(ctx, tasks, busy, pending, held, stream)'
  BY <1>2, <1>19 DEF streamVars
<1> QED BY <1>14, <1>16, <1>17, <1>20 DEF PoolInv

-----------------------------------------------------------------------------
(* Every behaviour.                                                        *)

(* The initial states satisfy the invariant.                               *)
LEMMA InitInv ==
  ASSUME Init
  PROVE  PoolInv
<1>1. \A w \in Worker : ctx[w] = [pc |-> "idle", task |-> None, chain |-> None,
                                  row |-> 0, bound |-> Unknown, turn |-> FALSE,
                                  last |-> FALSE, on |-> None]
  BY DEF Init
<1>2. ctx \in [Worker -> Context]
  <2>1. Unknown \in 0 .. Inf BY DEF Unknown, Inf
  <2> QED BY <2>1 DEF Init, Context, Pc
<1>3. frame \in [Slot -> FrameRecord]
  <2>1. 0 \in 0 .. Inf /\ Inf \in Addr BY DEF Inf, Addr
  <2>2. Blank \in [Row -> RowContent] BY DEF Blank, RowContent, Undecoded
  <2> QED BY <2>1, <2>2 DEF Init, FrameRecord
<1>4. tasks \in [Task -> TaskRecord]
  <2>1. Unknown \in 0 .. Inf BY DEF Unknown, Inf
  <2> QED BY <2>1 DEF Init, TaskRecord
<1>5. stream \in Streams /\ next \in 1 .. Len(stream) + 1
  BY DEF Init
<1>6. TypeOK
  BY <1>2, <1>3, <1>4, <1>5 DEF Init, TypeOK
<1>7. TasksOrdered
  BY DEF Init, TasksOrdered
<1>8. ParserPrepared
  BY DEF Init, ParserPrepared
<1>9. WorkersOwn(ctx, tasks, busy, pending, held, stream)
  <2>1. "idle" \notin DecodePc \union ClaimPc \union EndPc
    BY DEF DecodePc, SleepPc, NotifyPc, ClaimPc, EndPc
  <2> QED BY <1>1, <2>1 DEF WorkersOwn, WorkerOwns
<1> QED BY <1>6, <1>7, <1>8, <1>9 DEF PoolInv

(* A stuttering step keeps the invariant.                                  *)
LEMMA StutterInv ==
  ASSUME PoolInv, UNCHANGED vars
  PROVE  PoolInv'
<1>1. UNCHANGED <<stream, next, tasks, busy, pending, ready, chained, acked, held, frame,
                  flagged, refFrames, toGet, currPic, ctx, ppc, pwait>>
  BY DEF vars, streamVars, poolVars, dpbVars, parserVars
<1>2. WorkersOwn(ctx', tasks, busy, pending, held, stream) BY <1>1 DEF PoolInv
<1> QED BY <1>1, <1>2, PoolKept DEF PoolInv, TypeOK

(* Every step keeps the invariant.                                         *)
LEMMA NextInv ==
  ASSUME PoolInv, [Next]_vars
  PROVE  PoolInv'
<1>1. ASSUME NEW w \in Worker, Work(w)
      PROVE  PoolInv'
  BY <1>1, TakeTaskInv, FallAsleepInv, LearnBoundInv, ClaimRowInv, AwaitRowInv, DecodeRowInv,
     AwaitBoundInv, TakeBackInv, RedoInv, PublishSliceInv, CountSliceInv, NotifyInv, FinishInv,
     LeaveTaskInv, Zenon
  DEF Work
<1>2. ASSUME Parse
      PROVE  PoolInv'
  BY <1>2, WaitTaskSlotInv, SettleBoundsInv, StartPictureInv, AllocSlotInv, CreateTaskInv,
     CreatedTaskInv, DrainInv, Zenon
  DEF Parse
<1>3. ASSUME Call
      PROVE  PoolInv'
  BY <1>3, SendSliceInv, SendEndInv, CloseInv, OutputInv, Zenon DEF Call
<1> QED BY <1>1, <1>2, <1>3, StutterInv, Zenon DEF Next

(* The inductive invariant holds of every reachable state: it holds        *)
(* initially, and every step of a worker, the parser or the caller keeps   *)
(* it.                                                                     *)
THEOREM PoolInvariant == Spec => []PoolInv
<1>1. Init => PoolInv BY InitInv
<1>2. PoolInv /\ [Next]_vars => PoolInv' BY NextInv
<1> QED BY <1>1, <1>2, PTL DEF Spec

(* Every variable keeps its type, whatever the streams, the workers and    *)
(* the numbers of tasks and slots: no task number, slot or row is out of   *)
(* range.                                                                  *)
THEOREM TypeCorrect == Spec => []TypeOK
<1>1. PoolInv => TypeOK BY DEF PoolInv
<1> QED BY <1>1, PoolInvariant, PTL

(* The slices of a picture are decoded one at a time, in decoding order:   *)
(* of the older slices of its slot, a running slice finds none busy.       *)
THEOREM SlicesDecodeInOrder == Spec => []SlicesInOrder
<1>1. PoolInv => SlicesInOrder
  <2> SUFFICES ASSUME PoolInv, NEW w \in Worker, Decodes(w), NEW u \in busy,
                      tasks[u].pic = PicOf(w), u # ctx[w].task
               PROVE  tasks[u].job > tasks[ctx[w].task].job
    BY DEF SlicesInOrder
  <2> DEFINE t == ctx[w].task
  <2>1. t \in busy /\ tasks[t].after = {}
    BY DEF PoolInv, WorkersOwn, WorkerOwns, Decodes
  <2>2. /\ ~ (tasks[u].job < tasks[t].job)
        /\ tasks[u].job # tasks[t].job
    BY <2>1 DEF PoolInv, TasksOrdered, PicOf
  <2>3. tasks[u].job \in Nat /\ tasks[t].job \in Nat
    BY <2>1 DEF PoolInv, TypeOK, TaskRecord
  <2> QED BY <2>2, <2>3
<1> QED BY <1>1, PoolInvariant, PTL

=============================================================================
