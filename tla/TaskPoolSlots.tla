---------------------------- MODULE TaskPoolSlots ----------------------------
(***************************************************************************)
(* Proofs about the slots and the signals of TaskPool, for any number of   *)
(* workers, tasks, slots and rows.  For any streams, whoever sleeps on the *)
(* progress of a slot can be woken (SleepersReachable), no worker is left  *)
(* asleep beside a task it could take (NoWakeupLost), and the slice a      *)
(* worker goes on with is ready (ChainsAreReady).  For streams whose slices*)
(* read what the decoder may hold, the slots a task is to read keep their  *)
(* pictures (DependenciesStay).                                            *)
(*                                                                         *)
(* The first follows from SleepInv, which adds that a sleeper sleeps on a  *)
(* slot: every step that raises a wake address wakes all those who wait    *)
(* there.  The last follows from DepsInv: from the end of a picture to the *)
(* last slice of the next one, the slots hold what that may read.  The two *)
(* of task_ready, the condition variable of idle workers, follow from      *)
(* WakeInv: that no signal is missed rests on ready_tasks naming every task*)
(* that could start, as a step after which no thread looks at the pool     *)
(* again does not make its oldest task ready.                              *)
(***************************************************************************)
EXTENDS TaskPoolProofs

USE SliceOrderAssumption, TaskPoolAssumption

-----------------------------------------------------------------------------
(* What a thread that wakes others does to their contexts.                 *)

(* A worker that is not woken keeps its context; one that is no longer     *)
(* sleeps.                                                                 *)
LEMMA WakingOne ==
  ASSUME NEW c, NEW W, NEW v \in Worker, c[v] \in Context
  PROVE  LET d == WakeWorkers(c, W)
         IN  /\ v \notin W => d[v] = c[v]
             /\ v \in W => d[v].pc \notin SleepPc \union {"asleep"}
             /\ d[v].pc = "idle" <=> c[v].pc = "idle" \/ (v \in W /\ c[v].pc = "asleep")
             /\ d[v].pc = "asleep" => c[v].pc = "asleep"
             /\ d[v].pc \in LockPc <=> c[v].pc \in LockPc
             /\ d[v].chain = c[v].chain
<1> DEFINE d == WakeWorkers(c, W)
           to == CASE c[v].pc = "asleep" -> "idle"
                   [] c[v].pc = "refSleep" -> "ref"
                   [] c[v].pc = "boundSleep" -> "parsed"
                   [] OTHER -> c[v].pc
<1>1. d[v] = IF v \notin W THEN c[v] ELSE [c[v] EXCEPT !.pc = to]
  BY DEF WakeWorkers
<1>2. CASE v \notin W
  BY <1>1, <1>2, Zenon
<1>3. CASE v \in W
  <2>1. \/ c[v].pc = "asleep" /\ to = "idle"
        \/ c[v].pc = "refSleep" /\ to = "ref"
        \/ c[v].pc = "boundSleep" /\ to = "parsed"
        \/ c[v].pc \notin {"asleep", "refSleep", "boundSleep"} /\ to = c[v].pc
    OBVIOUS
  <2> HIDE DEF d, to
  <2>2. d[v].pc = to /\ d[v].chain = c[v].chain
    BY <1>1, <1>3 DEF Context
  <2> QED BY <1>3, <2>1, <2>2 DEF SleepPc, LockPc, d
<1> QED BY <1>2, <1>3

-----------------------------------------------------------------------------
(* Those who sleep on a slot.                                              *)

(* A worker with context r, if it sleeps, is reachable by its slot of fr.  *)
Reachable(r, fr) ==
  r.pc \in SleepPc =>
    /\ r.on \in Slot
    /\ r.pc = "refSleep" => fr[r.on].wake <= Lowest({r.row + 1 + Reach, Rows}) + 2
    /\ r.pc = "boundSleep" => fr[r.on].wake = -1

LEMMA SleepInvIs ==
  SleepInv <=> PoolInv /\ \A w \in Worker : Reachable(ctx[w], frame)
BY Zenon DEF SleepInv, SleepersAreReachable, Reachable, SleepPc, Needed

(* The row a worker needs is a row, or the end of the picture.             *)
LEMMA NeededRow ==
  ASSUME NEW row \in Nat
  PROVE  Lowest({row + 1 + Reach, Rows}) \in 0 .. Rows
<1> DEFINE x == row + 1 + Reach
<1>1. x \in Nat /\ Rows \in Nat OBVIOUS
<1> HIDE DEF x
<1>2. Lowest({x, Rows}) \in {x, Rows} /\ Lowest({x, Rows}) <= Rows BY <1>1, LowestOfTwo
<1> QED BY <1>1, <1>2 DEF x

(* A sleeper's slot has a wake address.                                    *)
LEMMA SleeperAwaited ==
  ASSUME SleepInv, NEW v \in Worker, ctx[v].pc \in SleepPc
  PROVE  ctx[v].on \in Slot /\ frame[ctx[v].on].wake \in Addr /\ frame[ctx[v].on].wake # Inf
<1>1. ctx[v] \in Context /\ Reachable(ctx[v], frame) BY SleepInvIs DEF PoolInv, TypeOK
<1>2. ctx[v].on \in Slot BY <1>1 DEF Reachable
<1>3. frame[ctx[v].on].wake \in Addr BY <1>2 DEF SleepInv, PoolInv, TypeOK, FrameRecord
<1>4. Lowest({ctx[v].row + 1 + Reach, Rows}) \in 0 .. Rows
  <2>1. ctx[v].row \in Nat BY <1>1 DEF Context
  <2> QED BY <2>1, NeededRow
<1>5. frame[ctx[v].on].wake # Inf
  BY <1>1, <1>3, <1>4 DEF Reachable, SleepPc, Inf, Addr
<1> QED BY <1>2, <1>3, <1>5

(* A step keeps the sleepers reachable if it raises wake addresses only on *)
(* the slots F, and none of those who wait there sleeps on.  Its worker w, *)
(* if it is one's, does not go to sleep out of reach.                      *)
LEMMA SleepersKept ==
  ASSUME SleepInv, PoolInv', NEW F, NEW w,
         \A s \in Slot \ F : frame'[s].wake <= frame[s].wake,
         \A v \in Worker \ {w} :
           ctx'[v].pc \in SleepPc => ctx'[v] = ctx[v] /\ v \notin Waiters(F),
         w \in Worker => Reachable(ctx'[w], frame')
  PROVE  SleepInv'
<1>1. ASSUME NEW v \in Worker \ {w}, ctx'[v].pc \in SleepPc
      PROVE  Reachable(ctx'[v], frame')
  <2>1. ctx'[v] = ctx[v] /\ v \notin Waiters(F) BY <1>1
  <2>2. Reachable(ctx[v], frame) /\ ctx[v] \in Context BY SleepInvIs DEF PoolInv, TypeOK
  <2>3. ctx[v].on \in Slot /\ frame[ctx[v].on].wake \in Addr /\ frame[ctx[v].on].wake # Inf
    BY <1>1, <2>1, SleeperAwaited
  <2>4. ctx[v].on \notin F BY <1>1, <2>1, <2>3 DEF Waiters, Awaited
  <2>5. frame'[ctx[v].on].wake <= frame[ctx[v].on].wake BY <2>3, <2>4
  <2>6. frame'[ctx[v].on].wake \in Addr BY <2>3 DEF PoolInv, TypeOK, FrameRecord
  <2>7. Lowest({ctx[v].row + 1 + Reach, Rows}) \in 0 .. Rows
    <3>1. ctx[v].row \in Nat BY <2>2 DEF Context
    <3> QED BY <3>1, NeededRow
  <2> QED BY <2>1, <2>2, <2>3, <2>5, <2>6, <2>7 DEF Reachable, Addr, Inf
<1>2. \A v \in Worker : Reachable(ctx'[v], frame')
  BY <1>1 DEF Reachable
<1> QED BY <1>2, Zenon DEF SleepInv, SleepersAreReachable, Reachable, SleepPc, Needed

(* The same for a step that wakes the workers W, among them all those who  *)
(* wait on F.                                                              *)
LEMMA RousingKept ==
  ASSUME SleepInv, PoolInv', NEW w, NEW c, NEW W, NEW F,
         ctx' = WakeWorkers(c, W), Waiters(F) \subseteq W,
         \A v \in Worker \ {w} : c[v] = ctx[v],
         w \in Worker => w \notin W /\ c[w].pc \notin SleepPc,
         \A s \in Slot \ F : frame'[s].wake <= frame[s].wake
  PROVE  SleepInv'
<1>1. ASSUME NEW v \in Worker \ {w}, ctx'[v].pc \in SleepPc
      PROVE  ctx'[v] = ctx[v] /\ v \notin Waiters(F)
  <2>1. c[v] = ctx[v] /\ c[v] \in Context /\ v \in Worker
    BY DEF SleepInv, PoolInv, TypeOK
  <2>2. v \notin W BY <1>1, <2>1, WakingOne
  <2> QED BY <2>1, <2>2, WakingOne
<1>2. w \in Worker => Reachable(ctx'[w], frame') BY DEF WakeWorkers, Reachable
<1> QED BY <1>1, <1>2, SleepersKept

(* Who is signalled sleeps on task_ready; an actor neither waits nor does. *)
LEMMA ActorAwake ==
  ASSUME NEW w \in Worker, ctx[w].pc \notin SleepPc \union {"asleep"}, NEW F, NEW n,
         NEW W \in Signalled(n)
  PROVE  w \notin W \union Waiters(F)
BY DEF Waiters, Signalled, Asleep

(* Clearing the wake addresses of F.                                       *)
LEMMA QuietWake ==
  ASSUME NEW fr \in [Slot -> FrameRecord], NEW F, NEW s \in Slot
  PROVE  /\ Quiet(fr, F)[s].wake = IF s \in F THEN Inf ELSE fr[s].wake
         /\ Quiet(fr, F)[s].frontier = fr[s].frontier
BY DEF Quiet, FrameRecord

(* Wake addresses are integers, which a step that keeps them does not      *)
(* raise.                                                                  *)
LEMMA WakeSame ==
  ASSUME TypeOK, NEW s \in Slot, frame'[s].wake = frame[s].wake
  PROVE  frame'[s].wake <= frame[s].wake
<1>1. frame[s].wake \in Addr BY DEF TypeOK, FrameRecord
<1> QED BY <1>1 DEF Addr, Inf

(* A step whose worker changes its context to r, and wakes nobody.         *)
LEMMA AloneKept ==
  ASSUME SleepInv, PoolInv', NEW w \in Worker, NEW r, r.pc \notin SleepPc,
         ctx' = [ctx EXCEPT ![w] = r],
         \A s \in Slot : frame'[s].wake = frame[s].wake
  PROVE  SleepInv'
<1>1. Reachable(ctx'[w], frame') /\ \A v \in Worker \ {w} : ctx'[v] = ctx[v]
  BY DEF SleepInv, PoolInv, TypeOK, Reachable
<1>2. Waiters({}) = {} BY DEF Waiters, Awaited
<1>3. \A s \in Slot \ {} : frame'[s].wake <= frame[s].wake BY WakeSame DEF SleepInv, PoolInv
<1> HIDE DEF SleepInv
<1> QED BY <1>1, <1>2, <1>3, SleepersKept

(* The context of a worker that moves on.                                  *)
LEMMA MovedOn ==
  ASSUME TypeOK, NEW w \in Worker, NEW pc
  PROVE  /\ [ctx EXCEPT ![w].pc = pc] = [ctx EXCEPT ![w] = [ctx[w] EXCEPT !.pc = pc]]
         /\ [ctx[w] EXCEPT !.pc = pc].pc = pc
BY DEF TypeOK, Context

(* What stays the same while worker w writes its own slot.                 *)
OwnSlotOnly(w) ==
  \A s \in Slot : /\ frame'[s].wake = frame[s].wake
                  /\ s # PicOf(w) => frame'[s].frontier = frame[s].frontier

(* The slots after a worker stores into its own.                           *)
LEMMA StoredWake ==
  ASSUME TypeOK, NEW w, NEW a, NEW b,
         \/ frame' = [frame EXCEPT ![PicOf(w)].frontier = a, ![PicOf(w)].rows = b]
         \/ frame' = [frame EXCEPT ![PicOf(w)].rows = b]
         \/ frame' = [frame EXCEPT ![PicOf(w)].remaining = a, ![PicOf(w)].frontier = b]
         \/ frame' = frame
  PROVE  OwnSlotOnly(w)
<1> DEFINE t == PicOf(w)
<1> SUFFICES ASSUME NEW s \in Slot
             PROVE  /\ frame'[s].wake = frame[s].wake
                    /\ s # t => frame'[s].frontier = frame[s].frontier
  BY DEF OwnSlotOnly
<1>1. frame \in [Slot -> FrameRecord] BY DEF TypeOK
<1>2. CASE frame' = [frame EXCEPT ![t].frontier = a, ![t].rows = b]
  BY <1>1, <1>2 DEF FrameRecord
<1>3. CASE frame' = [frame EXCEPT ![t].rows = b]
  BY <1>1, <1>3 DEF FrameRecord
<1>4. CASE frame' = [frame EXCEPT ![t].remaining = a, ![t].frontier = b]
  BY <1>1, <1>4 DEF FrameRecord
<1>5. CASE frame' = frame
  BY <1>5
<1> QED BY <1>2, <1>3, <1>4, <1>5

(* What a step that changes only the context of worker w and its slot, and *)
(* wakes nobody, leaves: no sleeper, and a decoding worker decoding.       *)
Silent(w) ==
  /\ \E r : /\ r.pc \notin SleepPc /\ (Decodes(w) => r.pc \in DecodePc)
            /\ ctx' = [ctx EXCEPT ![w] = r]
  /\ OwnSlotOnly(w)

LEMMA SilentMove ==
  ASSUME TypeOK, NEW w \in Worker, NEW pc, pc \notin SleepPc, ctx' = [ctx EXCEPT ![w].pc = pc],
         Decodes(w) => pc \in DecodePc, OwnSlotOnly(w)
  PROVE  Silent(w)
<1> DEFINE r == [ctx[w] EXCEPT !.pc = pc]
<1>1. r.pc = pc /\ ctx' = [ctx EXCEPT ![w] = r] BY MovedOn
<1> HIDE DEF r
<1> QED BY <1>1 DEF Silent

LEMMA SilentStore ==
  ASSUME TypeOK, NEW w \in Worker, NEW row, NEW c, c = [ctx[w] EXCEPT !.row = row],
         NEW addr, NEW rows, NEW notify, notify \in DecodePc \ SleepPc, NEW pc, pc \in DecodePc \ SleepPc,
         StoreFrontier(w, c, addr, notify, pc, rows)
  PROVE  Silent(w)
<1> DEFINE p == IF addr >= frame[PicOf(w)].wake THEN notify ELSE pc
           r == [c EXCEPT !.pc = p]
<1>1. r.pc = p /\ p \in DecodePc \ SleepPc BY DEF TypeOK, Context
<1>2. ctx' = [ctx EXCEPT ![w] = r] BY Zenon DEF StoreFrontier
<1>3. frame' = [frame EXCEPT ![PicOf(w)].frontier = addr, ![PicOf(w)].rows = rows]
  BY Zenon DEF StoreFrontier
<1> HIDE DEF r, p
<1>4. OwnSlotOnly(w) BY <1>3, StoredWake
<1> QED BY <1>1, <1>2, <1>4 DEF Silent

(* The steps of a worker that neither wake nor sleep.                      *)
LEMMA SilentSteps ==
  ASSUME TypeOK, NEW w \in Worker,
         FallAsleep(w) \/ Exit(w) \/ ClaimRow(w) \/ DecodeRow(w) \/ TakeBack(w)
           \/ PublishSlice(w) \/ CountSlice(w)
  PROVE  Silent(w)
<1>1. CASE FallAsleep(w) \/ Exit(w)
  <2>1. PICK pc \in {"asleep", "exit"} : ctx' = [ctx EXCEPT ![w].pc = pc]
    BY <1>1, Zenon DEF FallAsleep, Exit
  <2>2. frame' = frame BY <1>1 DEF FallAsleep, Exit, dpbVars
  <2>3. ~Decodes(w) BY <1>1 DEF FallAsleep, Exit, Decodes, DecodePc, SleepPc, NotifyPc
  <2>4. OwnSlotOnly(w) BY <2>2, StoredWake
  <2> QED BY <2>1, <2>3, <2>4, SilentMove DEF SleepPc
<1>2. CASE ClaimRow(w)
  <2> DEFINE claim == IF Stale(ctx[w].task) THEN Undecoded ELSE Decoded(tasks[ctx[w].task].job)
             rows == [frame[PicOf(w)].rows EXCEPT ![ctx[w].row] = claim]
  <2>1. PICK pc \in {"parsed", "ref"} : ctx' = [ctx EXCEPT ![w].pc = pc]
    BY <1>2, Zenon DEF ClaimRow
  <2>2. frame' = frame \/ frame' = [frame EXCEPT ![PicOf(w)].rows[ctx[w].row] = claim]
    BY <1>2, Zenon DEF ClaimRow
  <2> HIDE DEF claim
  <2>3. frame' = frame \/ frame' = [frame EXCEPT ![PicOf(w)].rows = rows]
    BY <2>2
  <2> HIDE DEF rows
  <2>4. OwnSlotOnly(w) BY <2>3, StoredWake
  <2> QED BY <2>1, <2>4, SilentMove DEF DecodePc, SleepPc
<1>3. CASE DecodeRow(w)
  <2> DEFINE row == ctx[w].row + 1
             c == [ctx[w] EXCEPT !.row = row]
             addr == Larger(SliceAt(w).first, row - Lag)
             pc == AfterRow(w, row)
  <2>1. \/ StoreFrontier(w, c, addr, "notifyRow", pc, frame[PicOf(w)].rows)
        \/ ctx' = [ctx EXCEPT ![w] = [c EXCEPT !.pc = pc]] /\ UNCHANGED frame
    BY <1>3, Zenon DEF DecodeRow
  <2>2. pc \in DecodePc \ SleepPc /\ "notifyRow" \in DecodePc \ SleepPc
    BY DEF AfterRow, DecodePc, NotifyPc, SleepPc
  <2>3. c = [ctx[w] EXCEPT !.row = row] OBVIOUS
  <2>4. [c EXCEPT !.pc = pc].pc = pc BY DEF TypeOK, Context
  <2> HIDE DEF c, addr, pc, row
  <2>5. CASE StoreFrontier(w, c, addr, "notifyRow", pc, frame[PicOf(w)].rows)
    BY <2>2, <2>3, <2>5, SilentStore
  <2>6. CASE ctx' = [ctx EXCEPT ![w] = [c EXCEPT !.pc = pc]] /\ UNCHANGED frame
    <3>1. OwnSlotOnly(w) BY <2>6, StoredWake
    <3> QED BY <2>2, <2>4, <2>6, <3>1 DEF Silent
  <2> QED BY <2>1, <2>5, <2>6
<1>4. CASE TakeBack(w)
  <2> DEFINE first == SliceAt(w).first
             rows == [r \in Row |-> IF r \in first .. ctx[w].row - 1 THEN Undecoded
                                    ELSE frame[PicOf(w)].rows[r]]
  <2>1. \/ StoreFrontier(w, ctx[w], first, "notifyBack", "redo", rows)
        \/ /\ frame' = [frame EXCEPT ![PicOf(w)].rows = rows]
           /\ ctx' = [ctx EXCEPT ![w].pc = "redo"]
    BY <1>4, Zenon DEF TakeBack
  <2>2. "redo" \in DecodePc \ SleepPc /\ "notifyBack" \in DecodePc \ SleepPc
    BY DEF DecodePc, NotifyPc, SleepPc
  <2>3. ctx[w] = [ctx[w] EXCEPT !.row = ctx[w].row] BY DEF TypeOK, Context
  <2> HIDE DEF first, rows
  <2>4. CASE StoreFrontier(w, ctx[w], first, "notifyBack", "redo", rows)
    BY <2>2, <2>3, <2>4, SilentStore
  <2>5. CASE /\ frame' = [frame EXCEPT ![PicOf(w)].rows = rows]
             /\ ctx' = [ctx EXCEPT ![w].pc = "redo"]
    <3>1. OwnSlotOnly(w) BY <2>5, StoredWake
    <3> QED BY <2>2, <2>5, <3>1, SilentMove
  <2> QED BY <2>1, <2>4, <2>5
<1>5. CASE PublishSlice(w)
  <2> DEFINE keep == KeepRow(SliceAt(w), ctx[w].row)
             rows == [r \in Row |-> IF FailedAt(w) /\ r \in keep .. ctx[w].row - 1
                        THEN Recovered(tasks[ctx[w].task].job) ELSE frame[PicOf(w)].rows[r]]
  <2>1. \/ StoreFrontier(w, ctx[w], keep, "notifySlice", "count", rows)
        \/ /\ frame' = [frame EXCEPT ![PicOf(w)].rows = rows]
           /\ ctx' = [ctx EXCEPT ![w].pc = "count"]
    BY <1>5, Zenon DEF PublishSlice
  <2>2. "count" \in DecodePc \ SleepPc /\ "notifySlice" \in DecodePc \ SleepPc
    BY DEF DecodePc, NotifyPc, SleepPc
  <2>3. ctx[w] = [ctx[w] EXCEPT !.row = ctx[w].row] BY DEF TypeOK, Context
  <2> HIDE DEF keep, rows
  <2>4. CASE StoreFrontier(w, ctx[w], keep, "notifySlice", "count", rows)
    BY <2>2, <2>3, <2>4, SilentStore
  <2>5. CASE /\ frame' = [frame EXCEPT ![PicOf(w)].rows = rows]
             /\ ctx' = [ctx EXCEPT ![w].pc = "count"]
    <3>1. OwnSlotOnly(w) BY <2>5, StoredWake
    <3> QED BY <2>2, <2>5, <3>1, SilentMove
  <2> QED BY <2>1, <2>4, <2>5
<1>6. CASE CountSlice(w)
  <2> DEFINE left == frame[PicOf(w)].remaining - (ctx[w].row - SliceAt(w).first)
             last == ~FailedAt(w) /\ left = 0
             pc == IF last THEN "notifyDone" ELSE "finish"
             r == [ctx[w] EXCEPT !.last = last, !.pc = pc]
  <2>1. ctx' = [ctx EXCEPT ![w].last = last, ![w].pc = pc]
    BY <1>6, Zenon DEF CountSlice
  <2>2. \E a, b : frame' = [frame EXCEPT ![PicOf(w)].remaining = a, ![PicOf(w)].frontier = b]
    BY <1>6, Zenon DEF CountSlice
  <2>3. OwnSlotOnly(w) BY <2>2, StoredWake
  <2>4. pc \in DecodePc \ SleepPc BY DEF DecodePc, NotifyPc, SleepPc
  <2> HIDE DEF last, pc
  <2>5. r.pc = pc /\ ctx' = [ctx EXCEPT ![w] = r] BY <2>1 DEF TypeOK, Context
  <2> HIDE DEF r
  <2> QED BY <2>3, <2>4, <2>5 DEF Silent
<1> QED BY <1>1, <1>2, <1>3, <1>4, <1>5, <1>6

(* Those steps keep the sleepers reachable.                                *)
LEMMA SilentSleep ==
  ASSUME SleepInv, PoolInv', NEW w \in Worker, Silent(w)
  PROVE  SleepInv'
BY AloneKept DEF Silent, OwnSlotOnly

(* release_terminal_task_dependencies, by worker w or, if w is none, by    *)
(* the parser.                                                             *)
LEMMA ReleaseSleep ==
  ASSUME SleepInv, PoolInv', NEW w, NEW c, NEW n, ReleaseTerminal(c, n),
         \A v \in Worker \ {w} : c[v] = ctx[v],
         w \in Worker => ctx[w].pc \notin SleepPc \union {"asleep"} /\ c[w].pc \notin SleepPc
  PROVE  SleepInv'
<1> DEFINE all == Concealable(Terminal) \union BasesConcealedFor(Terminal)
<1>1. PICK m : \E W \in Signalled(m) : ctx' = WakeWorkers(c, W \union Waiters(all))
  BY Zenon DEF ReleaseTerminal
<1>2. PICK W \in Signalled(m) : ctx' = WakeWorkers(c, W \union Waiters(all))
  BY <1>1
<1>3. frame' = [s \in Slot |-> IF s \in all THEN ConcealedFrame(s) ELSE frame[s]]
  BY Zenon DEF ReleaseTerminal
<1> HIDE DEF all
<1>4. \A s \in Slot \ all : frame'[s].wake <= frame[s].wake
  BY <1>3, WakeSame DEF SleepInv, PoolInv
<1>5. w \in Worker => w \notin W \union Waiters(all) BY ActorAwake
<1>6. Waiters(all) \subseteq W \union Waiters(all) OBVIOUS
<1>7. w \in Worker => c[w].pc \notin SleepPc OBVIOUS
<1> DEFINE V == W \union Waiters(all)
<1>8. /\ ctx' = WakeWorkers(c, V) /\ Waiters(all) \subseteq V
      /\ w \in Worker => w \notin V /\ c[w].pc \notin SleepPc
  BY <1>2, <1>5, <1>6, <1>7
<1> HIDE DEF V
<1> QED BY <1>4, <1>8, RousingKept

(* Clearing the wake addresses of F and waking those who wait there, and   *)
(* perhaps others from task_ready.                                         *)
LEMMA QuietSleep ==
  ASSUME SleepInv, PoolInv', NEW w, NEW c, NEW F, frame' = Quiet(frame, F),
         NEW W, ctx' = WakeWorkers(c, W), Waiters(F) \subseteq W,
         \A v \in Worker \ {w} : c[v] = ctx[v],
         w \in Worker => w \notin W /\ c[w].pc \notin SleepPc
  PROVE  SleepInv'
<1>1. \A s \in Slot \ F : frame'[s].wake <= frame[s].wake
  <2> TAKE s \in Slot \ F
  <2>1. frame'[s].wake = frame[s].wake BY QuietWake DEF SleepInv, PoolInv, TypeOK
  <2> QED BY <2>1, WakeSame DEF SleepInv, PoolInv
<1> QED BY <1>1, RousingKept

(* ack_mb_bound.                                                           *)
LEMMA AckSleep ==
  ASSUME SleepInv, PoolInv', NEW w \in Worker, NEW c, AckBound(w, c),
         \A v \in Worker \ {w} : c[v] = ctx[v],
         ctx[w].pc \notin SleepPc \union {"asleep"} /\ c[w].pc \notin SleepPc
  PROVE  SleepInv'
<1> DEFINE F == {PicOf(w)}
<1>1. frame' = Quiet(frame, F) /\ ctx' = WakeWorkers(c, Waiters(F))
  BY Zenon DEF AckBound
<1>2. w \notin Waiters(F) BY DEF Waiters
<1> HIDE DEF F
<1>3. Waiters(F) \subseteq Waiters(F) OBVIOUS
<1> QED BY <1>1, <1>2, <1>3, QuietSleep, Zenon

(* The steps of a worker that wake others.                                 *)
LEMMA WakingSleep ==
  ASSUME SleepInv, PoolInv', NEW w \in Worker,
         TakeTask(w) \/ LearnBound(w) \/ Redo(w) \/ Notify(w) \/ Finish(w) \/ LeaveTask(w)
  PROVE  SleepInv'
<1>1. TypeOK /\ ctx[w] \in Context BY DEF SleepInv, PoolInv, TypeOK
<1>2. CASE TakeTask(w)
  <2>1. PICK r : r.pc = "claim" /\ \E n : \E W \in Signalled(n) :
                   ctx' = WakeWorkers([ctx EXCEPT ![w] = r], W)
    BY <1>2, ZenonT(60) DEF TakeTask
  <2> DEFINE c == [ctx EXCEPT ![w] = r]
  <2>2. PICK n : \E W \in Signalled(n) : ctx' = WakeWorkers(c, W) BY <2>1
  <2>3. PICK W \in Signalled(n) : ctx' = WakeWorkers(c, W) BY <2>2
  <2>4. c[w] = r /\ \A v \in Worker \ {w} : c[v] = ctx[v] BY <1>1 DEF TypeOK
  <2>5. ctx[w].pc \notin SleepPc \union {"asleep"} BY <1>2, ZenonT(60) DEF TakeTask, SleepPc
  <2>6. frame' = frame BY <1>2 DEF TakeTask, dpbVars
  <2>7. \A s \in Slot : frame'[s].wake <= frame[s].wake BY <1>1, <2>6, WakeSame
  <2>8. w \notin W BY <2>5, ActorAwake
  <2>9. Waiters({}) = {} BY DEF Waiters, Awaited
  <2>10. c[w].pc \notin SleepPc BY <2>1, <2>4 DEF SleepPc
  <2> HIDE DEF c
  <2> QED BY <2>3, <2>4, <2>7, <2>8, <2>9, <2>10, RousingKept
<1>3. CASE LearnBound(w)
  <2> DEFINE c == [ctx EXCEPT ![w].bound = tasks[ctx[w].task].bound]
  <2>1. ctx[w].pc \in {"claim", "parsed", "ref"} BY <1>3, Zenon DEF LearnBound
  <2>2. (ctx' = c /\ frame' = frame) \/ AckBound(w, c) BY <1>3 DEF LearnBound
  <2>3. c[w].pc = ctx[w].pc /\ \A v \in Worker \ {w} : c[v] = ctx[v]
    BY <1>1 DEF TypeOK, Context
  <2>4. ctx[w].pc \notin SleepPc \union {"asleep"} BY <2>1 DEF SleepPc
  <2> HIDE DEF c
  <2>5. CASE ctx' = c /\ frame' = frame
    <3>1. Waiters({}) = {} BY DEF Waiters, Awaited
    <3>2. \A s \in Slot : frame'[s].wake <= frame[s].wake BY <1>1, <2>5, WakeSame
    <3>3. Reachable(ctx'[w], frame') BY <2>3, <2>4, <2>5 DEF Reachable
    <3> QED BY <2>3, <2>5, <3>1, <3>2, <3>3, SleepersKept
  <2> QED BY <2>2, <2>3, <2>4, <2>5, AckSleep
<1>4. CASE Redo(w)
  <2> DEFINE c == [ctx EXCEPT ![w].pc = "claim", ![w].row = SliceAt(w).first]
  <2>1. ctx[w].pc = "redo" /\ AckBound(w, c) BY <1>4, Zenon DEF Redo
  <2>2. c[w].pc = "claim" /\ \A v \in Worker \ {w} : c[v] = ctx[v] BY <1>1 DEF TypeOK, Context
  <2> HIDE DEF c
  <2> QED BY <2>1, <2>2, AckSleep DEF SleepPc
<1>5. CASE Notify(w)
  <2> DEFINE F == {PicOf(w)}
             pc == CASE ctx[w].pc = "notifyRow" -> AfterRow(w, ctx[w].row)
                     [] ctx[w].pc = "notifyBack" -> "redo"
                     [] ctx[w].pc = "notifySlice" -> "count"
                     [] ctx[w].pc = "notifyDone" -> "finish"
             c == [ctx EXCEPT ![w].pc = pc]
  <2>1. /\ ctx[w].pc \in NotifyPc /\ frame' = Quiet(frame, F) /\ ctx' = WakeWorkers(c, Waiters(F))
    BY <1>5, Zenon DEF Notify
  <2>2. pc \notin SleepPc BY <2>1 DEF NotifyPc, SleepPc, AfterRow
  <2>3. c[w].pc = pc /\ \A v \in Worker \ {w} : c[v] = ctx[v] BY <1>1 DEF TypeOK, Context
  <2> HIDE DEF F, pc, c
  <2>4. w \notin Waiters(F) BY <2>1 DEF Waiters, NotifyPc, SleepPc
  <2>5. Waiters(F) \subseteq Waiters(F) OBVIOUS
  <2>6. c[w].pc \notin SleepPc BY <2>2, <2>3
  <2>7. frame' = Quiet(frame, F) /\ ctx' = WakeWorkers(c, Waiters(F)) BY <2>1
  <2> QED BY <2>3, <2>4, <2>5, <2>6, <2>7, QuietSleep, Zenon
<1>6. CASE Finish(w)
  <2>1. PICK F, x, n : /\ ctx[w].pc = "finish" /\ frame' = Quiet(frame, F)
                       /\ \E W \in Signalled(n) :
                            ctx' = WakeWorkers([ctx EXCEPT ![w].pc = "leave", ![w].chain = x,
                                                           ![w].task = None], W \union Waiters(F))
    BY <1>6, Zenon DEF Finish
  <2> DEFINE c == [ctx EXCEPT ![w].pc = "leave", ![w].chain = x, ![w].task = None]
  <2>2. PICK W \in Signalled(n) : ctx' = WakeWorkers(c, W \union Waiters(F)) BY <2>1
  <2>3. c[w].pc = "leave" /\ \A v \in Worker \ {w} : c[v] = ctx[v] BY <1>1 DEF TypeOK, Context
  <2> HIDE DEF c
  <2>4. w \notin W \union Waiters(F) BY <2>1, ActorAwake DEF SleepPc
  <2>5. Waiters(F) \subseteq W \union Waiters(F) OBVIOUS
  <2>6. c[w].pc \notin SleepPc BY <2>3 DEF SleepPc
  <2>7. frame' = Quiet(frame, F) BY <2>1
  <2> QED BY <2>2, <2>3, <2>4, <2>5, <2>6, <2>7, QuietSleep, Zenon
<1>7. CASE LeaveTask(w)
  <2> DEFINE c == [ctx EXCEPT ![w].pc = "take"]
  <2>1. ctx[w].pc = "leave" /\ ReleaseTerminal(c, 0) BY <1>7, Zenon DEF LeaveTask
  <2>2. c[w].pc = "take" /\ \A v \in Worker \ {w} : c[v] = ctx[v] BY <1>1 DEF TypeOK, Context
  <2> HIDE DEF c
  <2> QED BY <2>1, <2>2, ReleaseSleep DEF SleepPc
<1> QED BY <1>2, <1>3, <1>4, <1>5, <1>6, <1>7

(* The steps of a worker that goes to sleep on a slot: the address it      *)
(* leaves there is no higher than its own, nor than the one it finds.      *)
LEMMA SleepingSleep ==
  ASSUME SleepInv, PoolInv', NEW w \in Worker, AwaitRow(w) \/ AwaitBound(w)
  PROVE  SleepInv'
<1>1. TypeOK /\ ctx[w] \in Context /\ frame \in [Slot -> FrameRecord] /\ PoolInv
  BY DEF SleepInv, PoolInv, TypeOK
<1>2. Waiters({}) = {} BY DEF Waiters, Awaited
<1>3. ctx[w].pc \in {"ref", "parsed"} BY DEF AwaitRow, AwaitBound
<1>4. ASSUME NEW s \in Slot, NEW addr \in Addr, NEW pc,
             frame' = [frame EXCEPT ![s].wake = addr],
             ctx' = [ctx EXCEPT ![w].pc = pc, ![w].on = s],
             addr <= frame[s].wake,
             (pc = "refSleep" /\ addr <= Needed(w) + 2) \/ (pc = "boundSleep" /\ addr = -1)
      PROVE  SleepInv'
  <2>1. /\ \A v \in Worker \ {w} : ctx'[v] = ctx[v]
        /\ ctx'[w].pc = pc /\ ctx'[w].on = s /\ ctx'[w].row = ctx[w].row
    BY <1>1, <1>4 DEF TypeOK, Context
  <2>2. frame'[s].wake = addr /\ \A u \in Slot \ {s} : frame'[u].wake = frame[u].wake
    BY <1>1, <1>4 DEF FrameRecord
  <2>3. \A u \in Slot \ {} : frame'[u].wake <= frame[u].wake
    BY <1>1, <1>4, <2>2, WakeSame
  <2>4. Reachable(ctx'[w], frame')
    BY <1>4, <2>1, <2>2 DEF Reachable, Needed
  <2> QED BY <1>2, <2>1, <2>3, <2>4, SleepersKept
<1>5. CASE AwaitRow(w)
  <2>1. CASE ReleaseTerminal(ctx, 0)
    BY <1>3, <2>1, ReleaseSleep DEF SleepPc
  <2>2. ASSUME NEW s \in Lacking(w),
               frame' = [frame EXCEPT ![s].wake = WakeAddress(w, s)],
               ctx' = [ctx EXCEPT ![w].pc = "refSleep", ![w].on = s]
        PROVE  SleepInv'
    <3>1. Decodes(w) BY <1>5 DEF AwaitRow, Decodes, DecodePc
    <3>2. s \in Slot BY <1>1, <3>1, AtWork DEF Lacking, TaskRecord
    <3>3. WakeAddress(w, s) \in Addr BY <1>1, <3>1, <3>2, WakeAddressType
    <3>4. Needed(w) \in 0 .. Rows
      <4>1. ctx[w].row \in Nat BY <1>1 DEF Context
      <4> QED BY <4>1, NeededRow DEF Needed
    <3>5. WakeAddress(w, s) <= frame[s].wake /\ WakeAddress(w, s) <= Needed(w) + 2
      <4>1. frame[s].wake \in Addr BY <1>1, <3>2 DEF FrameRecord
      <4>2. frame[s].wake \in Int /\ Needed(w) + 2 \in Int BY <3>4, <4>1 DEF Addr, Inf
      <4> QED BY <4>2, LowestOfTwo DEF WakeAddress
    <3> DEFINE addr == WakeAddress(w, s)
               pc == "refSleep"
    <3>6. addr \in Addr /\ addr <= frame[s].wake /\ addr <= Needed(w) + 2 /\ pc = "refSleep"
      BY <3>3, <3>5
    <3>7. frame' = [frame EXCEPT ![s].wake = addr] /\ ctx' = [ctx EXCEPT ![w].pc = pc, ![w].on = s]
      BY <2>2, Zenon
    <3> HIDE DEF addr, pc
    <3>8. (pc = "refSleep" /\ addr <= Needed(w) + 2) \/ (pc = "boundSleep" /\ addr = -1)
      BY <3>6
    <3> QED BY <1>4, <3>2, <3>6, <3>7, <3>8, Zenon
  <2> QED BY <1>5, <2>1, <2>2, Zenon DEF AwaitRow
<1>6. CASE AwaitBound(w)
  <2> DEFINE s == PicOf(w)
  <2>1. /\ frame' = [frame EXCEPT ![s].wake = -1]
        /\ ctx' = [ctx EXCEPT ![w].pc = "boundSleep", ![w].on = s]
    BY <1>6, Zenon DEF AwaitBound
  <2>2. Decodes(w) BY <1>6 DEF AwaitBound, Decodes, DecodePc
  <2>3. s \in Slot BY <1>1, <2>2, AtWork
  <2> HIDE DEF s
  <2>4. -1 \in Addr BY DEF Addr, Inf
  <2>5. -1 <= frame[s].wake BY <1>1, <2>3 DEF FrameRecord, Addr, Inf
  <2> QED BY <1>4, <2>1, <2>3, <2>4, <2>5
<1> QED BY <1>5, <1>6

(* The steps of the parser and the caller.                                 *)
LEMMA ParserSleep ==
  ASSUME SleepInv, PoolInv', Parse \/ Call
  PROVE  SleepInv'
<1>1. TypeOK /\ frame \in [Slot -> FrameRecord] BY DEF SleepInv, PoolInv, TypeOK
<1> DEFINE nobody == CHOOSE w : w \notin Worker
<1>2. nobody \notin Worker BY NoSetContainsEverything, Zenon
<1> HIDE DEF nobody
<1>3. ASSUME ctx' = ctx, \A s \in Slot : frame'[s].wake = frame[s].wake
      PROVE  SleepInv'
  <2>1. Waiters({}) = {} BY DEF Waiters, Awaited
  <2>2. \A s \in Slot \ {} : frame'[s].wake <= frame[s].wake BY <1>1, <1>3, WakeSame
  <2> QED BY <1>2, <1>3, <2>1, <2>2, SleepersKept
<1>4. ASSUME NEW n, ReleaseTerminal(ctx, n)
      PROVE  SleepInv'
  BY <1>2, <1>4, ReleaseSleep
<1>5. ASSUME NEW F, NEW W, frame' = Quiet(frame, F), ctx' = WakeWorkers(ctx, Waiters(F) \union W)
      PROVE  SleepInv'
  <2> DEFINE V == Waiters(F) \union W
  <2>1. ctx' = WakeWorkers(ctx, V) /\ Waiters(F) \subseteq V BY <1>5
  <2> HIDE DEF V
  <2> QED BY <1>2, <1>5, <2>1, QuietSleep
<1>6. CASE SendSlice \/ SendEnd \/ WaitTaskSlot
  <2>1. \/ \E b : ReleaseHeld(b)
        \/ UNCHANGED <<held, tasks, frame, ctx>>
        \/ ProgressOrWait
    BY <1>6, Zenon DEF SendSlice, SendEnd, WaitTaskSlot
  <2>2. ASSUME NEW b, ReleaseHeld(b)
        PROVE  SleepInv'
    <3>1. ctx' = WakeWorkers(ctx, Waiters(HeldPic) \union {}) /\ frame' = Quiet(frame, HeldPic)
      BY <2>2 DEF ReleaseHeld
    <3> QED BY <3>1, <1>5
  <2> QED BY <1>3, <1>4, <2>1, <2>2 DEF ProgressOrWait
<1>7. CASE StartPicture \/ Drain
  <2>1. \E n : ReleaseTerminal(ctx, n)
    BY <1>7, Zenon DEF StartPicture, Drain, ProgressOrWait
  <2> QED BY <1>4, <2>1
<1>8. CASE SettleBounds
  <2>1. PICK F : \/ /\ frame' = [Quiet(frame, F) EXCEPT ![currPic].wake = -1]
                    /\ ctx' = WakeWorkers(ctx, Waiters(F))
                 \/ UNCHANGED <<frame, ctx>>
    BY <1>8, Zenon DEF SettleBounds
  <2>2. CASE /\ frame' = [Quiet(frame, F) EXCEPT ![currPic].wake = -1]
             /\ ctx' = WakeWorkers(ctx, Waiters(F))
    <3>1. ASSUME NEW s \in Slot \ F
          PROVE  frame'[s].wake <= frame[s].wake
      <4>1. Quiet(frame, F) \in [Slot -> FrameRecord] BY <1>1, QuietType
      <4>2. Quiet(frame, F)[s].wake = frame[s].wake BY <1>1, QuietWake
      <4>3. frame'[s].wake \in {frame[s].wake, -1} BY <2>2, <4>1, <4>2, SMTT(30) DEF FrameRecord
      <4>4. frame[s].wake \in Addr BY <1>1 DEF FrameRecord
      <4> QED BY <4>3, <4>4 DEF Addr, Inf
    <3>2. Waiters(F) \subseteq Waiters(F) OBVIOUS
    <3> QED BY <1>2, <2>2, <3>1, <3>2, RousingKept
  <2> QED BY <1>3, <2>1, <2>2
<1>9. CASE AllocSlot
  <2>1. \/ ctx' = ctx /\ frame' = frame
        \/ ProgressOrWait
        \/ \E s, p : /\ frame' = [frame EXCEPT ![s].id = p, ![s].frontier = 0,
                                               ![s].remaining = Rows, ![s].rows = Blank]
                     /\ ctx' = ctx
    BY <1>9, Zenon DEF AllocSlot, dpbVars
  <2>2. ASSUME NEW s, NEW p,
               frame' = [frame EXCEPT ![s].id = p, ![s].frontier = 0,
                                      ![s].remaining = Rows, ![s].rows = Blank]
        PROVE  \A u \in Slot : frame'[u].wake = frame[u].wake
    BY <1>1, <2>2 DEF FrameRecord
  <2> QED BY <1>3, <1>4, <2>1, <2>2 DEF ProgressOrWait
<1>10. CASE CreateTask
  <2>1. ctx' = WakeWorkers(ctx, Waiters(HeldPic) \union {}) /\ frame' = Quiet(frame, HeldPic)
    BY <1>10 DEF CreateTask
  <2> QED BY <2>1, <1>5
<1>11. CASE CreatedTask
  <2>1. \/ \E n : ReleaseTerminal(ctx, n)
        \/ frame' = frame /\ \E W \in Signalled(CreatedSignals) : ctx' = WakeWorkers(ctx, W)
    BY <1>11, Zenon DEF CreatedTask
  <2>2. ASSUME NEW W, ctx' = WakeWorkers(ctx, W), frame' = frame
        PROVE  SleepInv'
    <3>1. Waiters({}) \subseteq W BY DEF Waiters, Awaited
    <3>2. \A s \in Slot \ {} : frame'[s].wake <= frame[s].wake BY <1>1, <2>2, WakeSame
    <3> QED BY <1>2, <2>2, <3>1, <3>2, RousingKept
  <2> QED BY <1>4, <2>1, <2>2
<1>12. CASE Close
  <2>1. frame' = Quiet(frame, HeldPic) /\ ctx' = WakeWorkers(ctx, Waiters(HeldPic) \union Broadcast)
    BY <1>12, Zenon DEF Close
  <2> QED BY <2>1, <1>5
<1>13. ASSUME NEW s \in Slot, Receive(s) \/ DropOrphan(s)
       PROVE  SleepInv'
  <2>1. ctx' = ctx /\ frame' = frame BY <1>13 DEF Receive, DropOrphan
  <2> QED BY <1>3, <2>1
<1> QED
  BY <1>6, <1>7, <1>8, <1>9, <1>10, <1>11, <1>12, <1>13, Zenon DEF Parse, Call

(* Every step keeps the sleepers reachable.                                *)
LEMMA SleepNext ==
  ASSUME SleepInv, [Next]_vars
  PROVE  SleepInv'
<1>1. PoolInv' BY NextInv DEF SleepInv
<1>2. ASSUME NEW w \in Worker, Work(w)
      PROVE  SleepInv'
  <2>1. TypeOK BY DEF SleepInv, PoolInv
  <2>2. CASE FallAsleep(w) \/ Exit(w) \/ ClaimRow(w) \/ DecodeRow(w) \/ TakeBack(w)
               \/ PublishSlice(w) \/ CountSlice(w)
    BY <1>1, <2>1, <2>2, SilentSteps, SilentSleep
  <2>3. CASE TakeTask(w) \/ LearnBound(w) \/ Redo(w) \/ Notify(w) \/ Finish(w) \/ LeaveTask(w)
    BY <1>1, <2>3, WakingSleep
  <2>4. CASE AwaitRow(w) \/ AwaitBound(w)
    BY <1>1, <2>4, SleepingSleep
  <2> QED BY <1>2, <2>2, <2>3, <2>4, Zenon DEF Work
<1>3. CASE Parse \/ Call
  BY <1>1, <1>3, ParserSleep
<1>4. CASE UNCHANGED vars
  <2>1. ctx' = ctx /\ frame' = frame BY <1>4 DEF vars, dpbVars
  <2> QED BY <1>1, <2>1, Zenon DEF SleepInv, SleepersAreReachable, Needed
<1> QED BY <1>2, <1>3, <1>4, Zenon DEF Next

(* Whoever sleeps on the progress of a slot, be it a row of a reference or *)
(* its own bound, left or finds there an address at which it is woken:     *)
(* several waiters share the one progress_wake_addr of the slot, and no    *)
(* step that clears it leaves one of them asleep.                          *)
THEOREM SleepersReachable == Spec => []SleepersAreReachable
<1>1. Init => SleepInv
  <2> SUFFICES ASSUME Init PROVE SleepInv OBVIOUS
  <2>1. PoolInv BY InitInv
  <2>2. \A w \in Worker : ctx[w].pc \notin SleepPc BY DEF Init, SleepPc
  <2> QED BY <2>1, <2>2 DEF SleepInv, SleepersAreReachable, SleepPc
<1>2. SleepInv /\ [Next]_vars => SleepInv' BY SleepNext
<1>3. SleepInv => SleepersAreReachable BY DEF SleepInv
<1> QED BY <1>1, <1>2, <1>3, PTL DEF Spec


-----------------------------------------------------------------------------
(* The pictures the slots hold.                                            *)

(* What a step that gives no slot away and makes no task does.             *)
IdsKept == \A s \in Slot : frame'[s].id = frame[s].id
TasksKept ==
  /\ busy' \subseteq busy
  /\ \A t \in busy' : tasks'[t].deps = tasks[t].deps /\ tasks'[t].job = tasks[t].job

(* Clearing wake addresses.                                                *)
LEMMA QuietIds ==
  ASSUME TypeOK, NEW F, frame' = Quiet(frame, F)
  PROVE  IdsKept
BY DEF Quiet, FrameRecord, IdsKept, TypeOK

(* Storing anything else in a slot.                                        *)
SlotStored ==
  \/ frame' = frame
  \/ \E s, a, b : \/ frame' = [frame EXCEPT ![s].frontier = a, ![s].rows = b]
                  \/ frame' = [frame EXCEPT ![s].rows = b]
                  \/ frame' = [frame EXCEPT ![s].remaining = a, ![s].frontier = b]
                  \/ frame' = [frame EXCEPT ![s].wake = a]

LEMMA StoredIds ==
  ASSUME TypeOK, SlotStored
  PROVE  IdsKept
<1>1. frame \in [Slot -> FrameRecord] BY DEF TypeOK
<1>2. CASE frame' = frame
  BY <1>2 DEF IdsKept
<1>3. ASSUME NEW s, NEW a, NEW b, frame' = [frame EXCEPT ![s].frontier = a, ![s].rows = b]
      PROVE  IdsKept
  BY <1>1, <1>3 DEF FrameRecord, IdsKept
<1>4. ASSUME NEW s, NEW b, frame' = [frame EXCEPT ![s].rows = b]
      PROVE  IdsKept
  BY <1>1, <1>4 DEF FrameRecord, IdsKept
<1>5. ASSUME NEW s, NEW a, NEW b, frame' = [frame EXCEPT ![s].remaining = a, ![s].frontier = b]
      PROVE  IdsKept
  BY <1>1, <1>5 DEF FrameRecord, IdsKept
<1>6. ASSUME NEW s, NEW a, frame' = [frame EXCEPT ![s].wake = a]
      PROVE  IdsKept
  BY <1>1, <1>6 DEF FrameRecord, IdsKept
<1> QED BY <1>2, <1>3, <1>4, <1>5, <1>6 DEF SlotStored

(* Concealing pictures.                                                    *)
LEMMA ReleaseIds ==
  ASSUME TypeOK, NEW c, NEW n, ReleaseTerminal(c, n)
  PROVE  IdsKept
<1> DEFINE all == Concealable(Terminal) \union BasesConcealedFor(Terminal)
<1>1. frame' = [s \in Slot |-> IF s \in all THEN ConcealedFrame(s) ELSE frame[s]]
  BY Zenon DEF ReleaseTerminal
<1>2. ASSUME NEW s \in Slot
      PROVE  ConcealedFrame(s).id = frame[s].id
  <2>1. \E rows : ConcealedFrame(s) = [frame[s] EXCEPT !.frontier = Inf, !.remaining = 0,
                                                       !.wake = Inf, !.rows = rows]
    BY Zenon DEF ConcealedFrame
  <2>2. frame[s] \in FrameRecord BY DEF TypeOK
  <2> QED BY <2>1, <2>2 DEF FrameRecord
<1> HIDE DEF all
<1> QED BY <1>1, <1>2 DEF IdsKept

(* A step of a worker keeps the pictures and the tasks, but the one that   *)
(* ends.                                                                   *)
LEMMA WorkerKeepsPictures ==
  ASSUME TypeOK, NEW w \in Worker, Work(w)
  PROVE  IdsKept /\ TasksKept /\ UNCHANGED <<streamVars, refFrames, currPic, ppc>>
<1>1. CASE TakeTask(w) \/ FallAsleep(w) \/ Exit(w)
  BY <1>1 DEF TakeTask, FallAsleep, Exit, dpbVars, poolVars, parserVars, IdsKept, TasksKept
<1>2. CASE LearnBound(w) \/ Redo(w)
  <2>1. UNCHANGED <<streamVars, tasks, busy, refFrames, currPic, ppc>>
    BY <1>2, Zenon DEF LearnBound, Redo
  <2>2. frame' = frame \/ \E F : frame' = Quiet(frame, F)
    BY <1>2, Zenon DEF LearnBound, Redo, AckBound
  <2>3. IdsKept BY <2>2, QuietIds DEF IdsKept
  <2> QED BY <2>1, <2>3 DEF TasksKept
<1>3. CASE Notify(w)
  <2>1. UNCHANGED <<streamVars, poolVars, refFrames, currPic, ppc>> /\ \E F : frame' = Quiet(frame, F)
    BY <1>3, Zenon DEF Notify
  <2>2. IdsKept BY <2>1, QuietIds
  <2> QED BY <2>1, <2>2 DEF TasksKept, poolVars
<1>4. CASE AwaitRow(w)
  <2>1. UNCHANGED <<streamVars, tasks, busy, refFrames, currPic, ppc>>
    BY <1>4 DEF AwaitRow, parserVars
  <2>2. ReleaseTerminal(ctx, 0) \/ \E s, a : frame' = [frame EXCEPT ![s].wake = a]
    BY <1>4, Zenon DEF AwaitRow
  <2>3. ReleaseTerminal(ctx, 0) \/ SlotStored BY <2>2, Zenon DEF SlotStored
  <2>4. IdsKept BY <2>3, ReleaseIds, StoredIds
  <2> QED BY <2>1, <2>4 DEF TasksKept
<1>5. CASE LeaveTask(w)
  <2>1. UNCHANGED <<streamVars, tasks, busy, refFrames, currPic, ppc>>
    BY <1>5 DEF LeaveTask, parserVars
  <2>2. \E c : ReleaseTerminal(c, 0) BY <1>5, Zenon DEF LeaveTask
  <2>3. IdsKept BY <2>2, ReleaseIds
  <2> QED BY <2>1, <2>3 DEF TasksKept
<1>6. CASE ClaimRow(w) \/ DecodeRow(w) \/ AwaitBound(w) \/ TakeBack(w) \/ PublishSlice(w) \/ CountSlice(w)
  <2>1. UNCHANGED <<streamVars, poolVars, refFrames, currPic, parserVars>>
    BY <1>6, Zenon DEF ClaimRow, DecodeRow, AwaitBound, TakeBack, PublishSlice, CountSlice
  <2>2. SlotStored
    <3>1. ASSUME NEW s, NEW b, frame' = [frame EXCEPT ![s].rows = b]
          PROVE  SlotStored
      BY <3>1, Zenon DEF SlotStored
    <3>2. ASSUME NEW c, NEW a, NEW n, NEW pc, NEW b, StoreFrontier(w, c, a, n, pc, b)
          PROVE  SlotStored
      BY <3>2, Zenon DEF StoreFrontier, SlotStored
    <3>3. CASE ClaimRow(w)
      <4> DEFINE s == PicOf(w)
                 r == ctx[w].row
      <4>1. \/ frame' = frame
            \/ \E x : frame' = [frame EXCEPT ![s].rows[r] = x]
        BY <3>3, Zenon DEF ClaimRow
      <4>2. ASSUME NEW x, frame' = [frame EXCEPT ![s].rows[r] = x]
            PROVE  frame' = [frame EXCEPT ![s].rows = [frame[s].rows EXCEPT ![r] = x]]
        BY <4>2
      <4> QED BY <3>1, <4>1, <4>2 DEF SlotStored
    <3>4. CASE DecodeRow(w)
      <4>1. frame' = frame \/ \E c, a, n, pc, b : StoreFrontier(w, c, a, n, pc, b)
        BY <3>4, Zenon DEF DecodeRow
      <4> QED BY <3>2, <4>1 DEF SlotStored
    <3>5. CASE PublishSlice(w)
      <4>1. \/ \E s, b : frame' = [frame EXCEPT ![s].rows = b]
            \/ \E c, a, n, pc, b : StoreFrontier(w, c, a, n, pc, b)
        BY <3>5, Zenon DEF PublishSlice
      <4> QED BY <3>1, <3>2, <4>1
    <3>6. CASE AwaitBound(w)
      BY <3>6, Zenon DEF AwaitBound, SlotStored
    <3>7. CASE TakeBack(w)
      <4>1. \/ \E s, b : frame' = [frame EXCEPT ![s].rows = b]
            \/ \E c, a, n, pc, b : StoreFrontier(w, c, a, n, pc, b)
        BY <3>7, Zenon DEF TakeBack
      <4> QED BY <3>1, <3>2, <4>1
    <3>8. CASE CountSlice(w)
      BY <3>8, Zenon DEF CountSlice, SlotStored
    <3> QED BY <1>6, <3>3, <3>4, <3>5, <3>6, <3>7, <3>8
  <2>3. IdsKept BY <2>2, StoredIds
  <2> QED BY <2>1, <2>3 DEF TasksKept, poolVars, parserVars
<1>7. CASE Finish(w)
  <2> DEFINE t == ctx[w].task
             others == busy \ {t}
  <2>1. /\ UNCHANGED <<streamVars, refFrames, currPic, ppc>> /\ busy' = others
        /\ \E F : frame' = Quiet(frame, F)
        /\ tasks' = [u \in Task |->
             IF u = t THEN [tasks[u] EXCEPT !.deps = {}, !.pic = None]
             ELSE IF u \in others THEN [tasks[u] EXCEPT !.after = @ \ {t}] ELSE tasks[u]]
    BY <1>7, Zenon DEF Finish
  <2>2. IdsKept BY <2>1, QuietIds
  <2>3. TasksKept
    <3> SUFFICES ASSUME NEW u \in others
                 PROVE  tasks'[u].deps = tasks[u].deps /\ tasks'[u].job = tasks[u].job
      BY <2>1 DEF TasksKept
    <3>1. u \in Task /\ u # t /\ tasks[u] \in TaskRecord BY DEF TypeOK
    <3>2. tasks'[u] = [tasks[u] EXCEPT !.after = @ \ {t}] BY <2>1, <3>1
    <3> QED BY <3>1, <3>2, SMTT(30) DEF TaskRecord
  <2> QED BY <2>1, <2>2, <2>3
<1> QED BY <1>1, <1>2, <1>3, <1>4, <1>5, <1>6, <1>7, ZenonT(60) DEF Work

-----------------------------------------------------------------------------
(* The slots hold what the next slice may read.                            *)

LEMMA HeldSame ==
  ASSUME IdsKept
  PROVE  Held' = Held /\ \A P : SlotsOf(P)' = SlotsOf(P)
BY DEF IdsKept, Held, SlotsOf

LEMMA DependenciesSame ==
  ASSUME TypeOK, DependenciesKept, IdsKept, TasksKept, stream' = stream
  PROVE  DependenciesKept'
<1> SUFFICES ASSUME NEW t \in busy'
             PROVE  {frame'[s].id : s \in tasks'[t].deps} = SliceOf(t)'.reads
  BY DEF DependenciesKept
<1>1. t \in busy /\ tasks'[t].deps = tasks[t].deps /\ tasks'[t].job = tasks[t].job
  BY DEF TasksKept
<1>2. tasks[t].deps \subseteq Slot BY <1>1 DEF TypeOK, TaskRecord
<1>3. {frame'[s].id : s \in tasks'[t].deps} = {frame[s].id : s \in tasks[t].deps}
  BY <1>1, <1>2 DEF IdsKept
<1>4. SliceOf(t)' = SliceOf(t) BY <1>1 DEF SliceOf
<1> QED BY <1>1, <1>3, <1>4 DEF DependenciesKept

(* Steps that change none of this.                                         *)
LEMMA DepsSame ==
  ASSUME DepsInv, PoolInv', IdsKept, TasksKept, UNCHANGED <<streamVars, refFrames, currPic, ppc>>
  PROVE  DepsInv'
<1>1. DependenciesKept' BY DependenciesSame DEF DepsInv, PoolInv, streamVars
<1>2. ReadsWhatIsHeld(stream)' BY DEF DepsInv, streamVars
<1>3. ReferencesHeld'
  <2>1. Held' = Held /\ SlotsOf(Slice.refs)' = SlotsOf(Slice.refs)
    BY HeldSame DEF Slice, streamVars, SlotsOf, IdsKept
  <2>2. currPic # None => frame'[currPic].id = frame[currPic].id
    BY DEF DepsInv, PoolInv, TypeOK, IdsKept
  <2> QED BY <2>1, <2>2, Zenon DEF DepsInv, ReferencesHeld, Parsed, Slice, streamVars
<1> QED BY <1>1, <1>2, <1>3 DEF DepsInv

(* The parser, where it leaves the slots alone.                            *)
LEMMA ParserKeepsPictures ==
  ASSUME DepsInv, SendSlice \/ WaitTaskSlot \/ SettleBounds \/ StartPicture \/ CreatedTask
                    \/ SendEnd \/ Drain \/ Close \/ \E s \in Slot : Receive(s) \/ DropOrphan(s)
  PROVE  IdsKept /\ TasksKept
<1>1. TypeOK BY DEF DepsInv, PoolInv
<1>2. ASSUME busy' = busy, (\E b : tasks' = BoundHeld(b)) \/ tasks' = tasks
      PROVE  TasksKept
  <2> SUFFICES ASSUME NEW t \in busy
               PROVE  tasks'[t].deps = tasks[t].deps /\ tasks'[t].job = tasks[t].job
    BY <1>2 DEF TasksKept
  <2>1. t \in Task /\ tasks[t] \in TaskRecord BY <1>1 DEF TypeOK
  <2> QED BY <1>2, <2>1 DEF BoundHeld, TaskRecord
<1>3. CASE SendSlice \/ WaitTaskSlot \/ SendEnd \/ Close
  <2>1. /\ busy' = busy /\ ((\E b : tasks' = BoundHeld(b)) \/ tasks' = tasks)
        /\ (\E F : frame' = Quiet(frame, F)) \/ frame' = frame \/ ReleaseTerminal(ctx, 0)
    BY <1>3, Zenon DEF SendSlice, WaitTaskSlot, SendEnd, Close, ReleaseHeld, ProgressOrWait
  <2>2. IdsKept BY <1>1, <2>1, QuietIds, StoredIds, ReleaseIds DEF SlotStored
  <2> QED BY <1>2, <2>1, <2>2
<1>4. CASE SettleBounds
  <2>1. busy' = busy /\ tasks' = tasks BY <1>4 DEF SettleBounds, poolVars
  <2>2. PICK F : frame' = [Quiet(frame, F) EXCEPT ![currPic].wake = -1] \/ frame' = frame
    BY <1>4, Zenon DEF SettleBounds
  <2>3. IdsKept
    <3>1. frame \in [Slot -> FrameRecord] BY <1>1 DEF TypeOK
    <3>2. Quiet(frame, F) \in [Slot -> FrameRecord] BY <3>1, QuietType
    <3>3. \A s \in Slot : Quiet(frame, F)[s].id = frame[s].id BY <3>1 DEF Quiet, FrameRecord
    <3> QED BY <2>2, <3>2, <3>3 DEF FrameRecord, IdsKept
  <2> QED BY <1>2, <2>1, <2>3
<1>5. CASE StartPicture \/ CreatedTask \/ Drain
  <2>1. /\ busy' = busy /\ tasks' = tasks
        /\ frame' = frame \/ \E n : ReleaseTerminal(ctx, n)
    BY <1>5, Zenon DEF StartPicture, CreatedTask, Drain, ProgressOrWait
  <2>2. IdsKept BY <1>1, <2>1, StoredIds, ReleaseIds DEF SlotStored
  <2> QED BY <1>2, <2>1, <2>2
<1>6. ASSUME NEW s \in Slot, Receive(s) \/ DropOrphan(s)
      PROVE  IdsKept /\ TasksKept
  BY <1>6 DEF Receive, DropOrphan, poolVars, IdsKept, TasksKept
<1> QED BY <1>3, <1>4, <1>5, <1>6

(* What it leaves there serves the next slice: a slice of the same picture *)
(* may read no more, and when the picture is over its slot may be read too.*)
LEMMA NextMayRead ==
  ASSUME DepsInv, next <= Len(stream), ppc \in {"task", "settle"}, currPic # None
  PROVE  /\ MayRead(stream, next) \subseteq Held
         /\ frame[currPic].id = Slice.pic => MayRead(stream, next) \subseteq MayRead(stream, next - 1)
<1>1. TypeOK /\ currPic \in Slot BY DEF DepsInv, PoolInv, TypeOK
<1>2. next \in DOMAIN stream /\ next \in Nat BY <1>1, SliceType DEF TypeOK
<1>3. /\ Parsed = next - 1 /\ next - 1 \in DOMAIN stream
      /\ frame[currPic].id = stream[next - 1].pic /\ MayRead(stream, next - 1) \subseteq Held
  BY DEF DepsInv, ReferencesHeld, Parsed
<1>4. next # 1 BY <1>1, <1>3 DEF TypeOK
<1>5. MayRead(stream, next) \subseteq MayRead(stream, next - 1) \union
        (IF stream[next].pic = stream[next - 1].pic THEN {} ELSE {stream[next - 1].pic})
  BY <1>2, <1>4, Zenon DEF DepsInv, ReadsWhatIsHeld
<1>6. stream[next - 1].pic \in Held BY <1>1, <1>3 DEF Held
<1> QED BY <1>3, <1>5, <1>6 DEF Slice

(* References of the slice are among those of which it may read.           *)
LEMMA RefsMayRead ==
  ASSUME NEW k
  PROVE  stream[k].refs \subseteq MayRead(stream, k)
BY DEF MayRead

(* The steps that leave the slots alone keep what is to be read.           *)
LEMMA ParserDeps ==
  ASSUME DepsInv, PoolInv',
         SendSlice \/ WaitTaskSlot \/ SettleBounds \/ StartPicture \/ CreatedTask
           \/ SendEnd \/ Drain \/ Close \/ \E s \in Slot : Receive(s) \/ DropOrphan(s)
  PROVE  DepsInv'
<1>1. TypeOK /\ ReferencesHeld /\ ParserPrepared BY DEF DepsInv, PoolInv
<1>2. IdsKept /\ TasksKept BY ParserKeepsPictures
<1>3. stream' = stream
  BY Zenon DEF SendSlice, WaitTaskSlot, SettleBounds, StartPicture, CreatedTask, SendEnd, Drain,
       Close, Receive, DropOrphan, streamVars
<1>4. DependenciesKept' BY <1>1, <1>2, <1>3, DependenciesSame DEF DepsInv
<1>5. ReadsWhatIsHeld(stream)' BY <1>3 DEF DepsInv
<1>6. Held' = Held /\ \A P : SlotsOf(P)' = SlotsOf(P) BY <1>2, HeldSame
<1>7. currPic \in Slot => frame'[currPic].id = frame[currPic].id BY <1>2 DEF IdsKept
<1>8. ReferencesHeld'
  <2>1. CASE SendSlice
    <3>1. UNCHANGED <<streamVars, refFrames, currPic>> /\ ppc = "idle" /\ ppc' = "task"
      BY <2>1 DEF SendSlice, InCall
    <3> QED BY <1>1, <1>6, <1>7, <3>1 DEF ReferencesHeld, Parsed, Slice, SlotsOf, streamVars, TypeOK
  <2>2. CASE WaitTaskSlot
    <3>1. /\ UNCHANGED <<streamVars, refFrames, currPic>> /\ ppc = "task"
          /\ \/ ppc' = ppc
             \/ ppc' = "settle" /\ currPic # None
             \/ ppc' = "start" /\ currPic = None
             \/ ppc' = "create" /\ currPic # None /\ frame[currPic].id = Slice.pic
      BY <2>2, Zenon DEF WaitTaskSlot, InCall
    <3>2. CASE ppc' = "create"
      <4>1. next <= Len(stream) /\ MayRead(stream, next) \subseteq Held
        BY <1>1, <3>1, <3>2, NextMayRead DEF ParserPrepared
      <4>2. next \in DOMAIN stream BY <1>1, <4>1, SliceType
      <4> QED BY <1>1, <1>6, <1>7, <3>1, <3>2, <4>1, <4>2
            DEF ReferencesHeld, Parsed, Slice, streamVars, TypeOK
    <3>3. CASE ppc' # "create"
      BY <1>1, <1>6, <1>7, <3>1, <3>3 DEF ReferencesHeld, Parsed, Slice, SlotsOf, streamVars, TypeOK
    <3> QED BY <3>2, <3>3
  <2>3. CASE SettleBounds
    <3>1. /\ stream' = stream /\ next' = next /\ ppc \in {"settle", "endSettle"}
          /\ \/ UNCHANGED <<currPic, refFrames, ppc>>
             \/ /\ currPic' = None
                /\ refFrames' = IF ppc = "settle" THEN SlotsOf(Slice.refs) ELSE refFrames
                /\ ppc' = IF ppc = "settle" THEN "start" ELSE "drain"
      BY <2>3 DEF SettleBounds, streamVars
    <3>2. CASE ppc = "endSettle"
      BY <1>1, <3>1, <3>2 DEF ReferencesHeld
    <3>3. CASE ppc = "settle"
      <4>1. next <= Len(stream) /\ currPic # None
        BY <1>1, <3>3 DEF ParserPrepared, ReferencesHeld
      <4>2. MayRead(stream, next) \subseteq Held BY <3>3, <4>1, NextMayRead
      <4>3. Slice' = Slice /\ SlotsOf(Slice.refs)' = SlotsOf(Slice.refs)
        BY <1>2, <3>1 DEF Slice, SlotsOf, IdsKept
      <4>4. CASE UNCHANGED <<currPic, refFrames, ppc>>
        BY <1>1, <1>6, <1>7, <3>1, <4>4 DEF ReferencesHeld, Parsed, Slice, SlotsOf, TypeOK
      <4>5. CASE currPic' = None /\ refFrames' = SlotsOf(Slice.refs) /\ ppc' = "start"
        BY <1>6, <3>1, <4>2, <4>3, <4>5 DEF ReferencesHeld
      <4> QED BY <3>1, <3>3, <4>4, <4>5
    <3> QED BY <3>1, <3>2, <3>3, SMTT(30)
  <2>4. CASE StartPicture
    <3>1. UNCHANGED <<streamVars, refFrames, currPic>> /\ ppc = "start" /\ ppc' = "slot"
      BY <2>4, Zenon DEF StartPicture, InCall
    <3> QED BY <1>1, <1>6, <1>7, <3>1 DEF ReferencesHeld, Parsed, Slice, SlotsOf, streamVars, TypeOK
  <2>5. CASE CreatedTask
    <3>1. /\ UNCHANGED <<stream, refFrames, currPic>> /\ next' = next + 1
          /\ ppc = "created" /\ ppc' = "idle"
      BY <2>5, Zenon DEF CreatedTask, InCall
    <3>2. next <= Len(stream) BY <1>1, <3>1 DEF ParserPrepared
    <3>3. /\ currPic # None /\ next \in DOMAIN stream /\ frame[currPic].id = stream[next].pic
          /\ MayRead(stream, next) \subseteq Held
      BY <1>1, <3>1, <3>2 DEF ReferencesHeld, Parsed
    <3>4. Parsed' = next BY <1>1, <3>1 DEF Parsed, TypeOK
    <3>5. currPic \in Slot BY <1>1, <3>3 DEF TypeOK
    <3> QED BY <1>6, <1>7, <3>1, <3>3, <3>4, <3>5 DEF ReferencesHeld
  <2>6. CASE SendEnd \/ Drain
    <3>1. UNCHANGED streamVars /\ (next > Len(stream) \/ ppc = "drain")
      BY <2>6, Zenon DEF SendEnd, Drain, InCall
    <3>2. ~(next <= Len(stream)) \/ ppc = "closed"
      BY <1>1, <3>1 DEF ReferencesHeld, TypeOK
    <3>3. ppc # "closed" BY <2>6 DEF SendEnd, Drain, InCall
    <3> QED BY <3>1, <3>2, <3>3 DEF ReferencesHeld, streamVars
  <2>7. CASE Close
    BY <2>7 DEF Close, ReferencesHeld
  <2>8. ASSUME NEW s \in Slot, Receive(s) \/ DropOrphan(s)
        PROVE  ReferencesHeld'
    <3>1. UNCHANGED <<streamVars, refFrames, currPic, ppc>>
      BY <2>8 DEF Receive, DropOrphan, parserVars
    <3> QED BY <1>1, <1>6, <1>7, <3>1 DEF ReferencesHeld, Parsed, Slice, SlotsOf, streamVars, TypeOK
  <2> QED BY <2>1, <2>2, <2>3, <2>4, <2>5, <2>6, <2>7, <2>8
<1> QED BY <1>4, <1>5, <1>8 DEF DepsInv

(* No slot is given away that a task reads, that is a reference, or that   *)
(* holds the base view of the picture.                                     *)
LEMMA AllocSlotDeps ==
  ASSUME DepsInv, PoolInv', AllocSlot
  PROVE  DepsInv'
<1> DEFINE s == Lowest(Slot \ Unavailable)
<1>1. TypeOK /\ ReferencesHeld /\ ParserPrepared /\ DependenciesKept BY DEF DepsInv, PoolInv
<1>2. /\ ppc = "slot" /\ UNCHANGED <<streamVars, tasks, busy, refFrames>>
      /\ \/ ppc' = "idle" /\ UNCHANGED dpbVars
         \/ ProgressOrWait /\ UNCHANGED <<currPic, ppc>>
         \/ /\ Unavailable # Slot
            /\ frame' = [frame EXCEPT ![s].id = Slice.pic, ![s].frontier = 0,
                                      ![s].remaining = Rows, ![s].rows = Blank]
            /\ currPic' = s /\ ppc' = "create"
  BY Zenon DEF AllocSlot, InCall, dpbVars
<1>3. next <= Len(stream) BY <1>1, <1>2 DEF ParserPrepared
<1>4. /\ currPic = None /\ MayRead(stream, next) \subseteq Held /\ SlotsOf(Slice.refs) \subseteq refFrames
  BY <1>1, <1>2, <1>3 DEF ReferencesHeld
<1>5. ReadsWhatIsHeld(stream)' BY <1>2 DEF DepsInv, streamVars
<1>6. TasksKept BY <1>2 DEF TasksKept
<1>7. CASE IdsKept /\ UNCHANGED currPic /\ (ppc' = "idle" \/ ppc' = ppc)
  <2>1. DependenciesKept' BY <1>1, <1>2, <1>6, <1>7, DependenciesSame DEF streamVars
  <2>2. Held' = Held /\ SlotsOf(Slice.refs)' = SlotsOf(Slice.refs)
    BY <1>2, <1>7, HeldSame DEF IdsKept, SlotsOf, Slice, streamVars
  <2>3. ReferencesHeld'
    BY <1>2, <1>4, <1>7, <2>2 DEF ReferencesHeld, Slice, streamVars
  <2> QED BY <1>5, <2>1, <2>3 DEF DepsInv
<1>8. CASE /\ Unavailable # Slot
           /\ frame' = [frame EXCEPT ![s].id = Slice.pic, ![s].frontier = 0,
                                     ![s].remaining = Rows, ![s].rows = Blank]
           /\ currPic' = s /\ ppc' = "create"
  <2>1. s \in Slot \ Unavailable
    <3>1. Unavailable \subseteq Slot
      BY <1>1 DEF Unavailable, Reserved, Depended, Inflight, Writing, TypeOK, SlotsOf, TaskRecord,
                  DepsInv, PoolInv, TasksOrdered
    <3>2. Slot \ Unavailable \in SUBSET Nat BY DEF Slot
    <3>3. Slot \ Unavailable # {} BY <1>8, <3>1
    <3> QED BY <3>2, <3>3, LowestOfNats
  <2>2. s \notin Depended /\ s \notin refFrames /\ s \notin SlotsOf({Slice.base} \ {0})
    BY <2>1 DEF Unavailable, Reserved
  <2> HIDE DEF s
  <2>3. /\ s \in Slot /\ s # None /\ frame'[s].id = Slice.pic
        /\ \A u \in Slot \ {s} : frame'[u].id = frame[u].id
    BY <1>1, <1>8, <2>1 DEF TypeOK, FrameRecord, Slot, None
  <2>4. DependenciesKept'
    <3> SUFFICES ASSUME NEW t \in busy
                 PROVE  {frame'[u].id : u \in tasks[t].deps} = SliceOf(t).reads
      BY <1>2 DEF DependenciesKept, SliceOf, streamVars
    <3>1. tasks[t].deps \subseteq Slot \ {s}
      BY <1>1, <2>2 DEF Depended, TypeOK, TaskRecord
    <3> QED BY <1>1, <2>3, <3>1 DEF DependenciesKept
  <2>5. stream[next] = Slice /\ 0 \notin PicsOf(stream)
    <3>1. stream \in Seq(Header) BY <1>1 DEF TypeOK
    <3> QED BY <3>1 DEF Slice, PicsOf, Header, Fields
  <2>6. MayRead(stream, next) \subseteq Held'
    <3> SUFFICES ASSUME NEW p \in MayRead(stream, next)
                 PROVE  \E u \in Slot \ {s} : frame[u].id = p
      BY <2>3 DEF Held
    <3>1. PICK u \in Slot : frame[u].id = p BY <1>4 DEF Held
    <3>2. CASE p \in Slice.refs
      BY <1>4, <2>2, <3>1, <3>2 DEF SlotsOf
    <3>3. CASE p = Slice.base /\ p # 0
      BY <2>2, <3>1, <3>3 DEF SlotsOf
    <3> QED BY <2>5, <3>2, <3>3 DEF MayRead
  <2>7. next \in DOMAIN stream BY <1>1, <1>3, SliceType
  <2>8. ReferencesHeld'
    BY <1>2, <1>8, <2>3, <2>5, <2>6, <2>7 DEF ReferencesHeld, Parsed, streamVars
  <2> QED BY <1>5, <2>4, <2>8 DEF DepsInv
<1>9. CASE ProgressOrWait /\ UNCHANGED <<currPic, ppc>>
  <2>1. IdsKept BY <1>1, <1>9, ReleaseIds DEF ProgressOrWait
  <2> QED BY <1>7, <1>9, <2>1
<1>10. CASE ppc' = "idle" /\ UNCHANGED dpbVars
  BY <1>7, <1>10 DEF dpbVars, IdsKept
<1> QED BY <1>2, <1>8, <1>9, <1>10

(* A task is made for a slice that finds every picture it reads.           *)
LEMMA CreateTaskDeps ==
  ASSUME DepsInv, PoolInv', CreateTask
  PROVE  DepsInv'
<1> DEFINE t == Lowest(Task \ busy)
           new == [job |-> next, pic |-> currPic, deps |-> SlotsOf(Slice.reads),
                   after |-> OlderSlices, bound |-> Unknown]
           tk == BoundHeld(HeldBound)
<1>1. TypeOK /\ ReferencesHeld /\ ParserPrepared /\ DependenciesKept BY DEF DepsInv, PoolInv
<1>2. /\ ppc = "create" /\ ppc' = "created" /\ UNCHANGED <<streamVars, refFrames, currPic>>
      /\ tasks' = [tk EXCEPT ![t] = new] /\ busy' = busy \union {t}
      /\ frame' = Quiet(frame, HeldPic)
  BY Zenon DEF CreateTask, InCall
<1>3. IdsKept BY <1>1, <1>2, QuietIds
<1>4. next <= Len(stream) /\ busy # Task BY <1>1, <1>2 DEF ParserPrepared
<1>5. /\ currPic # None /\ next \in DOMAIN stream /\ frame[currPic].id = Slice.pic
      /\ MayRead(stream, next) \subseteq Held
  BY <1>1, <1>2, <1>4 DEF ReferencesHeld, Parsed, Slice
<1>6. Held' = Held /\ \A P : SlotsOf(P)' = SlotsOf(P) BY <1>3, HeldSame
<1>7. t \in Task \ busy
  <2>1. busy \subseteq Task BY <1>1 DEF TypeOK
  <2>2. Task \ busy # {} BY <1>4, <2>1, Zenon
  <2>3. Task \ busy \in SUBSET Nat BY DEF Task
  <2> QED BY <2>2, <2>3, LowestOfNats
<1>8. \A u \in Task : tk[u].deps = tasks[u].deps /\ tk[u].job = tasks[u].job
  BY <1>1 DEF TypeOK, TaskRecord, BoundHeld
<1>9. \A u \in Task : tasks'[u] = IF u = t THEN new ELSE tk[u]
  BY <1>2, <1>7 DEF BoundHeld
<1> HIDE DEF t, tk
<1>10. DependenciesKept'
  <2> SUFFICES ASSUME NEW u \in busy'
               PROVE  {frame'[s].id : s \in tasks'[u].deps} = stream[tasks'[u].job].reads
    BY <1>2 DEF DependenciesKept, SliceOf, streamVars
  <2>1. CASE u = t
    <3>1. tasks'[u].deps = SlotsOf(Slice.reads) /\ tasks'[u].job = next
      BY <1>7, <1>9, <2>1
    <3>2. Slice.reads \subseteq Held
      BY <1>5, Zenon DEF DepsInv, ReadsWhatIsHeld, Slice
    <3>3. {frame'[s].id : s \in SlotsOf(Slice.reads)} = Slice.reads
      BY <1>3, <3>2 DEF Held, SlotsOf, IdsKept
    <3> QED BY <3>1, <3>3 DEF Slice
  <2>2. CASE u # t
    <3>1. u \in busy /\ u \in Task BY <1>1, <1>2, <2>2 DEF TypeOK
    <3>2. tasks'[u].deps = tasks[u].deps /\ tasks'[u].job = tasks[u].job
      BY <1>8, <1>9, <2>2, <3>1
    <3>3. tasks[u].deps \subseteq Slot BY <1>1, <3>1 DEF TypeOK, TaskRecord
    <3>4. {frame'[s].id : s \in tasks[u].deps} = {frame[s].id : s \in tasks[u].deps}
      BY <1>3, <3>3 DEF IdsKept
    <3> QED BY <1>1, <3>1, <3>2, <3>4 DEF DependenciesKept, SliceOf
  <2> QED BY <2>1, <2>2
<1>11. ReadsWhatIsHeld(stream)' BY <1>2 DEF DepsInv, streamVars
<1>12. ReferencesHeld'
  <2>1. frame'[currPic].id = frame[currPic].id BY <1>1, <1>3, <1>5 DEF TypeOK, IdsKept
  <2> QED BY <1>2, <1>5, <1>6, <2>1 DEF ReferencesHeld, Parsed, Slice, streamVars
<1> QED BY <1>10, <1>11, <1>12 DEF DepsInv

(* Every step keeps it.                                                    *)
LEMMA DepsNext ==
  ASSUME DepsInv, [Next]_vars
  PROVE  DepsInv'
<1>1. PoolInv' BY NextInv DEF DepsInv
<1>2. ASSUME NEW w \in Worker, Work(w)
      PROVE  DepsInv'
  <2>1. IdsKept /\ TasksKept /\ UNCHANGED <<streamVars, refFrames, currPic, ppc>>
    BY <1>2, WorkerKeepsPictures DEF DepsInv, PoolInv
  <2> QED BY <1>1, <2>1, DepsSame
<1>3. CASE Parse \/ Call
  <2>1. \/ SendSlice \/ WaitTaskSlot \/ SettleBounds \/ StartPicture \/ CreatedTask
             \/ SendEnd \/ Drain \/ Close \/ \E s \in Slot : Receive(s) \/ DropOrphan(s)
        \/ AllocSlot
        \/ CreateTask
    BY <1>3, Zenon DEF Parse, Call
  <2> QED BY <1>1, <2>1, ParserDeps, AllocSlotDeps, CreateTaskDeps
<1>4. CASE UNCHANGED vars
  <2>1. IdsKept /\ TasksKept /\ UNCHANGED <<streamVars, refFrames, currPic, ppc>>
    BY <1>4 DEF vars, dpbVars, poolVars, parserVars, IdsKept, TasksKept
  <2> QED BY <1>1, <2>1, DepsSame
<1> QED BY <1>2, <1>3, <1>4, Zenon DEF Next

(* The slots that a task was parsed to read still hold the pictures its    *)
(* slice names when it decodes, though the marking that made them          *)
(* references has moved on and they may have been output since: for any    *)
(* stream whose slices read what the decoder may hold.                     *)
THEOREM DependenciesStay ==
  Spec /\ ReadsWhatIsHeld(stream) => []DependenciesKept
<1>1. Init /\ ReadsWhatIsHeld(stream) => DepsInv
  <2> SUFFICES ASSUME Init, ReadsWhatIsHeld(stream) PROVE DepsInv OBVIOUS
  <2>1. PoolInv BY InitInv
  <2>2. DependenciesKept BY DEF Init, DependenciesKept
  <2>3. ReferencesHeld
    <3> SUFFICES ASSUME next <= Len(stream)
                 PROVE  /\ currPic = None /\ ppc = "idle"
                        /\ MayRead(stream, next) = {} /\ SlotsOf(Slice.refs) = {}
      BY DEF ReferencesHeld
    <3>1. next = 1 /\ currPic = None /\ ppc = "idle" BY DEF Init
    <3>2. next \in DOMAIN stream BY <2>1, SliceType DEF PoolInv
    <3>3. MayRead(stream, 1) = {}
      <4>1. 1 \in DOMAIN stream BY <3>1, <3>2
      <4>2. MayRead(stream, 1) \subseteq {} BY <4>1, Zenon DEF ReadsWhatIsHeld
      <4> QED BY <4>2
    <3> QED BY <3>1, <3>3, RefsMayRead DEF SlotsOf, Slice
  <2> QED BY <2>1, <2>2, <2>3 DEF DepsInv
<1>2. DepsInv /\ [Next]_vars => DepsInv' BY DepsNext
<1>3. DepsInv => DependenciesKept BY DEF DepsInv
<1> QED BY <1>1, <1>2, <1>3, PTL DEF Spec

-----------------------------------------------------------------------------
(* The workers that look at the pool.                                      *)

LookPc == {"idle"} \union LockPc

(* From the contexts c to the contexts d, whoever was to look at the pool  *)
(* still is, nobody falls asleep on task_ready, and no task is chained.    *)
Attentive(c, d) ==
  \A v \in Worker : /\ c[v].pc \in LookPc => d[v].pc \in LookPc
                    /\ d[v].pc = "asleep" => c[v].pc = "asleep"
                    /\ d[v].chain # None => d[v].chain = c[v].chain

LEMMA WakingAttends ==
  ASSUME NEW c \in [Worker -> Context], Attentive(ctx, c), NEW W
  PROVE  Attentive(ctx, WakeWorkers(c, W))
<1> DEFINE d == WakeWorkers(c, W)
<1>1. ASSUME NEW v \in Worker
      PROVE  /\ c[v].pc \in LookPc => d[v].pc \in LookPc
             /\ d[v].pc = "asleep" => c[v].pc = "asleep"
             /\ d[v].chain = c[v].chain
  BY WakingOne DEF LookPc
<1> HIDE DEF d
<1>2. Attentive(ctx, d) BY <1>1 DEF Attentive
<1> QED BY <1>2 DEF d

(* A signal wakes one of those asleep on task_ready, if anybody is.        *)
LEMMA SignalWakes ==
  ASSUME NEW n \in Nat \ {0}, Asleep # {}, NEW W \in Signalled(n)
  PROVE  W # {} /\ W \subseteq Asleep
<1>1. IsFiniteSet(Asleep)
  <2>1. Asleep \subseteq Worker BY DEF Asleep
  <2> QED BY <2>1, WorkersAssumption, FS_Subset
<1>2. Cardinality(Asleep) \in Nat \ {0} BY <1>1, FS_CardinalityType, FS_EmptySet
<1>3. W \subseteq Asleep
      /\ Cardinality(W) = (IF n <= Cardinality(Asleep) THEN n ELSE Cardinality(Asleep))
  BY DEF Signalled
<1>4. Cardinality(W) # 0 BY <1>2, <1>3
<1>5. Cardinality({}) = 0 BY FS_EmptySet
<1> QED BY <1>3, <1>4, <1>5

(* After a signal somebody looks at the pool, unless nobody slept.         *)
LEMMA SignalledLooks ==
  ASSUME NEW c \in [Worker -> Context], Attentive(ctx, c),
         \A v \in Asleep : c[v].pc = "asleep",
         NEW n \in Nat \ {0}, NEW W \in Signalled(n), NEW V,
         ctx' = WakeWorkers(c, W \union V), Asleep' # {}
  PROVE  \E v \in Worker : ctx'[v].pc \in LookPc
<1>1. PICK u \in Worker : ctx'[u].pc = "asleep" BY DEF Asleep
<1> DEFINE U == W \union V
<1>2. ctx' = WakeWorkers(c, U) /\ W \subseteq U OBVIOUS
<1> HIDE DEF U
<1>3. Attentive(ctx, ctx') BY <1>2, WakingAttends
<1>4. Asleep # {} BY <1>1, <1>3 DEF Attentive, Asleep
<1>5. PICK v \in W : TRUE BY <1>4, SignalWakes
<1>6. v \in Worker /\ v \in Asleep /\ v \in U BY <1>2, <1>4, <1>5, SignalWakes DEF Asleep
<1>7. ctx'[v].pc = "idle" BY <1>2, <1>6, WakingOne
<1> QED BY <1>6, <1>7 DEF LookPc

-----------------------------------------------------------------------------
(* The oldest task of the pool, and the tasks that could start.            *)

(* Among busy tasks the oldest is one, whatever else of them has changed.  *)
LEMMA OldestSame ==
  ASSUME PoolInv, NEW T \in SUBSET busy, T # {}, \A u \in T : tasks'[u].job = tasks[u].job
  PROVE  (CHOOSE t \in T : \A u \in T : tasks'[t].job <= tasks'[u].job) = Oldest(T)
<1>1. \A u \in T : u \in Task /\ tasks[u].job \in Nat
  BY DEF PoolInv, TypeOK, TaskRecord
<1>2. \E t \in T : \A u \in T : tasks[t].job <= tasks[u].job
  <2> DEFINE jobs == {tasks[u].job : u \in T}
  <2>1. jobs \in SUBSET Nat /\ jobs # {} BY <1>1
  <2>2. Lowest(jobs) \in jobs /\ \A y \in jobs : Lowest(jobs) <= y BY <2>1, LowestOfNats
  <2> QED BY <2>2
<1>3. Oldest(T) \in T /\ \A u \in T : tasks[Oldest(T)].job <= tasks[u].job
  BY <1>2, Zenon DEF Oldest
<1> DEFINE o == CHOOSE t \in T : \A u \in T : tasks'[t].job <= tasks'[u].job
<1>4. \E t \in T : \A u \in T : tasks'[t].job <= tasks'[u].job
  BY <1>2
<1>5. o \in T /\ \A u \in T : tasks'[o].job <= tasks'[u].job
  BY <1>4, Zenon
<1> HIDE DEF o
<1>6. tasks[o].job = tasks[Oldest(T)].job BY <1>1, <1>3, <1>5
<1>7. o = Oldest(T) BY <1>3, <1>5, <1>6 DEF PoolInv, TasksOrdered
<1> QED BY <1>7 DEF o

(* What of the pool decides which tasks could start.                       *)
SamePool ==
  /\ UNCHANGED <<pending, busy, chained>>
  /\ \A t \in busy : /\ tasks'[t].job = tasks[t].job /\ tasks'[t].pic = tasks[t].pic
                     /\ tasks'[t].deps = tasks[t].deps /\ tasks'[t].after = tasks[t].after

(* It may only change for a slot some task writes: being written is as     *)
(* good as being complete.                                                 *)
SameReferences == \A s \in Depended \ Writing : frame'[s].frontier = frame[s].frontier

LEMMA ReadyNowSame ==
  ASSUME PoolInv, SamePool, SameReferences
  PROVE  ReadyNow' = ReadyNow
<1>1. pending \subseteq busy /\ \A t \in busy : t \in Task /\ tasks[t] \in TaskRecord
  BY DEF PoolInv, TypeOK
<1> DEFINE written == {tasks[u].pic : u \in busy}
           done == {s \in Slot : frame[s].frontier = Inf}
           doneNext == {s \in Slot : frame'[s].frontier = Inf}
<1>2. {tasks'[u].pic : u \in busy} = written BY DEF SamePool
<1>3. ReadyNow = {t \in pending : /\ tasks[t].deps \subseteq done \union written
                                  /\ tasks[t].after \intersect busy = {}}
  BY DEF ReadyNow, ReadyIn, CompleteIn
<1>4. ReadyNow' = {t \in pending : /\ tasks'[t].deps \subseteq doneNext \union written
                                   /\ tasks'[t].after \intersect busy = {}}
  BY <1>2 DEF ReadyNow, ReadyIn, CompleteIn, SamePool
<1>5. ASSUME NEW t \in pending, NEW s \in tasks[t].deps
      PROVE  s \in done \union written <=> s \in doneNext \union written
  <2>1. s \in Slot /\ t \in busy BY <1>1 DEF TaskRecord
  <2>2. s \in Depended BY <2>1 DEF Depended
  <2>3. s \notin written => frame'[s].frontier = frame[s].frontier
    BY <2>2 DEF SameReferences, Writing
  <2> QED BY <2>1, <2>3
<1>6. \A t \in pending : tasks'[t].deps = tasks[t].deps /\ tasks'[t].after = tasks[t].after
  BY <1>1 DEF SamePool
<1> HIDE DEF written, done, doneNext
<1> QED BY <1>3, <1>4, <1>5, <1>6

(* The pool then offers a task to its next taker if it did, or if other    *)
(* tasks have become ready.                                                *)
LEMMA OffersSame ==
  ASSUME PoolInv, SamePool, Offers(pending \ chained, ready)'
  PROVE  Offers(pending \ chained, ready')
<1> DEFINE pool == pending \ chained
<1>1. pool \in SUBSET busy BY DEF PoolInv, TypeOK
<1>2. pending' \ chained' = pool BY DEF SamePool
<1>3. /\ pool # {}
      /\ (CHOOSE t \in pool : \A u \in pool : tasks'[t].job <= tasks'[u].job) \in ready'
  BY <1>2, Zenon DEF Offers, Oldest
<1>4. \A u \in pool : tasks'[u].job = tasks[u].job BY <1>1 DEF SamePool
<1> HIDE DEF pool
<1>5. Oldest(pool) \in ready' BY <1>1, <1>3, <1>4, OldestSame
<1> QED BY <1>3, <1>5 DEF Offers, pool

-----------------------------------------------------------------------------
(* Steps that neither take, make nor end a task.                           *)

(* Of the parser: it waits only where the code does, and neither creates a *)
(* task nor opens the decoder again.                                       *)
ParserSteady ==
  /\ pwait' # "none" => ppc' \in {"task", "settle", "endSettle", "slot", "drain"}
  /\ ppc' = "created" => UNCHANGED <<ppc, held>>
  /\ ppc = "closed" => ppc' = "closed"

(* The parts of WakeInv that do not depend on who looks at the pool.       *)
LEMMA ReadyKept ==
  ASSUME WakeInv, PoolInv', SamePool, ParserSteady, Attentive(ctx, ctx'),
         ReadyNow' \subseteq ready', ReadyNow \subseteq ReadyNow',
         Offers(pending \ chained, ready)' /\ Asleep' # {} /\ ppc' # "closed" => Watched'
  PROVE  WakeInv'
<1>1. \A w \in Worker : ctx'[w].chain # None => ctx'[w].chain \in ReadyNow'
  BY DEF WakeInv, Attentive
<1>2. pwait' # "none" => ppc' \in {"task", "settle", "endSettle", "slot", "drain"}
  BY DEF ParserSteady
<1>3. ppc' = "created" /\ held' \in chained' => tasks'[held'].after # {}
  <2>1. held \in busy \union {None} BY DEF WakeInv, PoolInv, TypeOK
  <2>2. chained \subseteq Task /\ None \notin Task BY DEF WakeInv, PoolInv, TypeOK, Task, None
  <2> QED BY <2>1, <2>2 DEF WakeInv, ParserSteady, SamePool
<1> QED BY <1>1, <1>2, <1>3, Zenon DEF WakeInv

(* Whoever looked at the pool still does.                                  *)
LEMMA WatchedKept ==
  ASSUME Watched, Attentive(ctx, ctx'),
         ppc = "created" /\ held \notin chained => UNCHANGED <<ppc, held, chained>>
  PROVE  Watched'
<1>1. CASE \E w \in Worker : ctx[w].pc \in LookPc
  <2>1. \E w \in Worker : ctx'[w].pc \in LookPc BY <1>1 DEF Attentive
  <2> QED BY <2>1 DEF Watched, LookPc
<1>2. CASE ppc = "created" /\ held \notin chained
  BY <1>2 DEF Watched
<1> QED BY <1>1, <1>2 DEF Watched, LookPc

(* A step that makes no task ready.                                        *)
LEMMA Steady ==
  ASSUME WakeInv, PoolInv', SamePool, ready' = ready, SameReferences, Attentive(ctx, ctx'),
         ParserSteady, ppc = "created" => ppc' = "created"
  PROVE  WakeInv'
<1>1. ReadyNow' = ReadyNow BY ReadyNowSame DEF WakeInv
<1>2. ReadyNow' \subseteq ready' BY <1>1 DEF WakeInv
<1>3. ASSUME Offers(pending \ chained, ready)', Asleep' # {}, ppc' # "closed"
      PROVE  Watched'
  <2>1. Offers(pending \ chained, ready) BY <1>3, OffersSame DEF WakeInv
  <2>2. Asleep # {} BY <1>3 DEF Attentive, Asleep
  <2>3. Watched BY <1>3, <2>1, <2>2 DEF WakeInv, ParserSteady
  <2>4. UNCHANGED chained BY DEF SamePool
  <2> QED BY <2>3, <2>4, WatchedKept DEF ParserSteady
<1> QED BY <1>1, <1>2, <1>3, ReadyKept

-----------------------------------------------------------------------------
(* release_terminal_task_dependencies.                                     *)

(* A base view has no base view.                                           *)
LEMMA BaseOfBase ==
  ASSUME TypeOK, NEW s \in Slot, NEW b \in BaseSlots(s)
  PROVE  BaseSlots(b) = {}
<1> DEFINE p == frame[s].id
           q == frame[b].id
<1>1. q # 0 /\ q = BaseOf(stream, p) BY DEF BaseSlots
<1>2. q = ViewBase(stream, p) /\ p \in PicsOf(stream)
  BY <1>1, Zenon DEF BaseOf, ViewBase
<1>3. stream \in Streams BY DEF TypeOK
<1>4. PICK k \in DOMAIN stream : q = stream[k].base
  <2> DEFINE k == CHOOSE k \in DOMAIN stream : stream[k].pic = p
  <2>1. \E j \in DOMAIN stream : stream[j].pic = p BY <1>2 DEF PicsOf
  <2>2. k \in DOMAIN stream BY <2>1, Zenon
  <2>3. ViewBase(stream, p) = stream[k].base BY <1>2, Zenon DEF ViewBase
  <2> HIDE DEF k
  <2> QED BY <1>2, <2>2, <2>3
<1>5. ViewBase(stream, q) = 0 BY <1>3, <1>4, BaseViewsAssumption
<1>6. BaseOf(stream, q) = 0 BY <1>5, Zenon DEF BaseOf
<1> HIDE DEF p, q
<1> QED BY <1>6 DEF BaseSlots, q

(* It completes slots only, among which is one a task reads only if it     *)
(* then computes ready_tasks again.                                        *)
LEMMA ReleaseReferences ==
  ASSUME PoolInv, NEW c, NEW n, ReleaseTerminal(c, n)
  PROVE  /\ \A s \in Slot : frame[s].frontier = Inf => frame'[s].frontier = Inf
         /\ Concealable(Terminal) = {} => SameReferences
<1> DEFINE bases == BasesConcealedFor(Terminal)
           concealed == Concealable(Terminal)
           all == concealed \union bases
<1>1. frame' = [s \in Slot |-> IF s \in all THEN ConcealedFrame(s) ELSE frame[s]]
  BY Zenon DEF ReleaseTerminal
<1>2. TypeOK /\ frame \in [Slot -> FrameRecord] BY DEF PoolInv, TypeOK
<1>3. Terminal \subseteq Slot
  BY <1>2 DEF Terminal, Depended, TypeOK, TaskRecord
<1>4. ASSUME NEW s \in Slot, frame[s].frontier = Inf
      PROVE  frame'[s].frontier = Inf
  <2>1. ConcealedFrame(s).frontier = Inf BY <1>2 DEF ConcealedFrame, FrameRecord
  <2> HIDE DEF all
  <2> QED BY <1>1, <1>4, <2>1
<1>5. ASSUME concealed = {}
      PROVE  SameReferences
  <2> SUFFICES ASSUME NEW s \in Depended \ Writing PROVE frame'[s].frontier = frame[s].frontier
    BY DEF SameReferences
  <2>1. s \in Slot BY <1>2 DEF Depended, TypeOK, TaskRecord
  <2>2. s \notin bases
    <3> SUFFICES ASSUME s \in bases PROVE FALSE OBVIOUS
    <3>1. PICK d \in Terminal : s \in BaseSlots(d) \ (Complete \union Writing \union {currPic})
      BY DEF BasesConcealedFor
    <3>2. s \in Terminal BY <3>1 DEF Terminal
    <3>3. d \in Slot /\ s \in BaseSlots(d) BY <1>3, <3>1
    <3>4. BaseSlots(s) = {} BY <1>2, <3>3, BaseOfBase
    <3>5. s \in concealed BY <3>2, <3>4 DEF Concealable, Postponed
    <3> QED BY <1>5, <3>5
  <2> HIDE DEF bases, concealed
  <2> QED BY <1>1, <1>5, <2>1, <2>2
<1> QED BY <1>4, <1>5

(* By a thread that changes the contexts to c, and who if it was to signal *)
(* a task does that, too.                                                  *)
LEMMA ReleaseWake ==
  ASSUME WakeInv, PoolInv', NEW n \in Nat, NEW c \in [Worker -> Context], Attentive(ctx, c),
         \A v \in Asleep : c[v].pc = "asleep", ReleaseTerminal(c, n),
         UNCHANGED <<tasks, pending, busy, chained>>, ParserSteady,
         ppc = "created" => ppc' = "created" \/ held \in chained \/ n # 0
  PROVE  WakeInv'
<1> DEFINE all == Concealable(Terminal) \union BasesConcealedFor(Terminal)
           m == n + (IF Concealable(Terminal) # {} /\ ready' # {} THEN 1 ELSE 0)
<1>1. /\ ready' = IF Concealable(Terminal) = {} THEN ready ELSE ReadyIn(tasks, pending, busy, frame')
      /\ \E W \in Signalled(m) : ctx' = WakeWorkers(c, W \union Waiters(all))
  BY Zenon DEF ReleaseTerminal
<1>2. PICK W \in Signalled(m) : ctx' = WakeWorkers(c, W \union Waiters(all)) BY <1>1
<1>3. m \in Nat /\ (n # 0 => m # 0) /\ (Concealable(Terminal) # {} /\ ready' # {} => m # 0)
  OBVIOUS
<1> HIDE DEF all, m
<1>4. Attentive(ctx, ctx') BY <1>2, WakingAttends
<1>5. m # 0 /\ Asleep' # {} => Watched'
  <2>1. m # 0 /\ Asleep' # {} => \E v \in Worker : ctx'[v].pc \in LookPc
    BY <1>2, <1>3, SignalledLooks
  <2> QED BY <2>1, Zenon DEF Watched, LookPc
<1> SamePool BY DEF SamePool
<1>6. CASE Concealable(Terminal) = {}
  <2>1. ready' = ready /\ SameReferences BY <1>1, <1>6, ReleaseReferences DEF WakeInv
  <2>2. ReadyNow' = ReadyNow BY <2>1, ReadyNowSame DEF WakeInv
  <2>3. ReadyNow' \subseteq ready' BY <2>1, <2>2 DEF WakeInv
  <2>4. ASSUME Offers(pending \ chained, ready)', Asleep' # {}, ppc' # "closed", m = 0
        PROVE  Watched'
    <3>1. Offers(pending \ chained, ready) BY <2>1, <2>4, OffersSame DEF WakeInv
    <3>2. Asleep # {} BY <1>4, <2>4 DEF Attentive, Asleep
    <3>3. Watched BY <2>4, <3>1, <3>2 DEF WakeInv, ParserSteady
    <3>4. n = 0 /\ UNCHANGED chained BY <1>3, <2>4 DEF SamePool
    <3> QED BY <1>4, <3>3, <3>4, WatchedKept DEF ParserSteady
  <2> QED BY <1>4, <1>5, <2>2, <2>3, <2>4, ReadyKept
<1>7. CASE Concealable(Terminal) # {}
  <2>1. ready' = ReadyNow' BY <1>1, <1>7 DEF ReadyNow
  <2>2. ReadyNow \subseteq ReadyNow'
    <3>1. Complete \subseteq CompleteIn(frame')
      BY ReleaseReferences DEF Complete, CompleteIn, WakeInv
    <3> QED BY <3>1 DEF ReadyNow, ReadyIn, Complete
  <2>3. Offers(pending \ chained, ready)' => ready' # {} BY DEF Offers
  <2> QED BY <1>3, <1>4, <1>5, <1>7, <2>1, <2>2, <2>3, ReadyKept
<1> QED BY <1>6, <1>7

-----------------------------------------------------------------------------
(* The steps of the workers.                                               *)

(* A step by which worker w, which decodes, goes on decoding.              *)
LEMMA DecoderAttends ==
  ASSUME PoolInv, NEW w \in Worker, Decodes(w), NEW c \in [Worker -> Context],
         \A v \in Worker \ {w} : c[v] = ctx[v], c[w].pc \in DecodePc, c[w].chain \in {ctx[w].chain, None}
  PROVE  Attentive(ctx, c) /\ \A v \in Asleep : c[v].pc = "asleep"
<1>1. ctx[w].pc \in DecodePc BY DEF Decodes
<1>2. \A p \in DecodePc : p \notin LookPc /\ p # "asleep"
  BY DEF DecodePc, SleepPc, NotifyPc, LookPc, LockPc
<1> QED BY <1>1, <1>2 DEF Attentive, Asleep

LEMMA SilentWake ==
  ASSUME WakeInv, PoolInv', NEW w \in Worker, Decodes(w), Silent(w),
         UNCHANGED <<poolVars, parserVars>>
  PROVE  WakeInv'
<1>1. PICK r : r.pc \in DecodePc /\ ctx' = [ctx EXCEPT ![w] = r] BY DEF Silent
<1>2. PoolInv /\ ctx \in [Worker -> Context] /\ ctx' \in [Worker -> Context]
  BY DEF WakeInv, PoolInv, TypeOK
<1>3. ctx'[w].pc \in DecodePc /\ \A v \in Worker \ {w} : ctx'[v] = ctx[v] BY <1>1, <1>2
<1>4. ctx'[w].chain = None
  <2>1. WorkerOwns(ctx'[w], tasks', busy', pending', held', stream') BY DEF PoolInv, WorkersOwn
  <2> QED BY <1>3, <2>1 DEF WorkerOwns, DecodePc, SleepPc, NotifyPc, LockPc
<1>5. Attentive(ctx, ctx') BY <1>2, <1>3, <1>4, DecoderAttends
<1>6. PicOf(w) \in Writing BY <1>2, AtWork DEF Writing, PicOf
<1>7. SameReferences
  <2>1. Depended \subseteq Slot BY <1>2 DEF PoolInv, TypeOK, TaskRecord, Depended
  <2> QED BY <1>6, <2>1 DEF Silent, OwnSlotOnly, SameReferences
<1>8. SamePool /\ ready' = ready /\ ParserSteady
  BY DEF poolVars, parserVars, SamePool, ParserSteady, WakeInv
<1> QED BY <1>5, <1>7, <1>8, Steady DEF parserVars

(* A step of it that changes wake addresses only, and wakes who waits.     *)
LEMMA RousingWake ==
  ASSUME WakeInv, PoolInv', NEW w \in Worker, Decodes(w), NEW pc \in DecodePc, NEW W, NEW c,
         c = [ctx EXCEPT ![w].pc = pc] \/ (\E x : c = [ctx EXCEPT ![w].pc = pc, ![w].row = x])
           \/ (\E x : c = [ctx EXCEPT ![w].pc = pc, ![w].on = x])
           \/ (pc = ctx[w].pc /\ \E x : c = [ctx EXCEPT ![w].bound = x]),
         c \in [Worker -> Context], ctx' = c \/ ctx' = WakeWorkers(c, W),
         \A s \in Slot : frame'[s].frontier = frame[s].frontier,
         UNCHANGED <<tasks, busy, pending, ready, chained, held, ppc>>,
         pwait' # "none" => pwait # "none"
  PROVE  WakeInv'
<1>1. PoolInv /\ ctx \in [Worker -> Context] BY DEF WakeInv, PoolInv, TypeOK
<1>2. /\ \A v \in Worker \ {w} : c[v] = ctx[v]
      /\ c[w].pc \in DecodePc /\ c[w].chain = ctx[w].chain
  BY <1>1 DEF Context, Decodes
<1>3. Attentive(ctx, ctx') BY <1>1, <1>2, DecoderAttends, WakingAttends
<1>4. SamePool /\ ParserSteady BY DEF SamePool, ParserSteady, WakeInv
<1>5. SameReferences BY <1>1 DEF SameReferences, Depended, PoolInv, TypeOK, TaskRecord
<1> QED BY <1>3, <1>4, <1>5, Steady

(* Clearing wake addresses changes no frontier.                            *)
LEMMA QuietFrontier ==
  ASSUME TypeOK, NEW F, frame' = Quiet(frame, F)
  PROVE  \A s \in Slot : frame'[s].frontier = frame[s].frontier
BY QuietWake DEF TypeOK

LEMMA AckWake ==
  ASSUME WakeInv, PoolInv', NEW w \in Worker, Decodes(w), NEW pc \in DecodePc, NEW c,
         (\E x : c = [ctx EXCEPT ![w].pc = pc, ![w].row = x])
           \/ (pc = ctx[w].pc /\ \E x : c = [ctx EXCEPT ![w].bound = x]),
         c \in [Worker -> Context], AckBound(w, c),
         UNCHANGED <<tasks, busy, pending, ready, chained, held, ppc>>
  PROVE  WakeInv'
<1> DEFINE F == {PicOf(w)}
           W == Waiters(F)
<1>1. frame' = Quiet(frame, F) /\ ctx' = WakeWorkers(c, W) /\ pwait' = ParserAfter(F)
  BY Zenon DEF AckBound
<1> HIDE DEF F, W
<1>2. \A s \in Slot : frame'[s].frontier = frame[s].frontier
  BY <1>1, QuietFrontier DEF WakeInv, PoolInv
<1>3. pwait' # "none" => pwait # "none" BY <1>1 DEF ParserAfter
<1> QED BY <1>1, <1>2, <1>3, RousingWake

LEMMA DecodingWake ==
  ASSUME WakeInv, PoolInv', NEW w \in Worker,
         ClaimRow(w) \/ DecodeRow(w) \/ TakeBack(w) \/ PublishSlice(w) \/ CountSlice(w)
  PROVE  WakeInv'
<1>1. Decodes(w)
  BY Zenon DEF ClaimRow, DecodeRow, TakeBack, PublishSlice, CountSlice, Decodes, DecodePc
<1>2. Silent(w) BY SilentSteps DEF WakeInv, PoolInv
<1>3. UNCHANGED <<poolVars, parserVars>>
  BY Zenon DEF ClaimRow, DecodeRow, TakeBack, PublishSlice, CountSlice
<1> QED BY <1>1, <1>2, <1>3, SilentWake

(* LearnBound, Redo, Notify and AwaitBound change no frontier.             *)
LEMMA RousingSteps ==
  ASSUME WakeInv, PoolInv', NEW w \in Worker,
         LearnBound(w) \/ Redo(w) \/ Notify(w) \/ AwaitBound(w)
  PROVE  WakeInv'
<1>1. PoolInv /\ TypeOK /\ ctx[w] \in Context BY DEF WakeInv, PoolInv, TypeOK
<1>2. CASE LearnBound(w)
  <2> DEFINE b == tasks[ctx[w].task].bound
             c == [ctx EXCEPT ![w].bound = b]
  <2>1. /\ ctx[w].pc \in {"claim", "parsed", "ref"}
        /\ (ctx' = c /\ UNCHANGED <<acked, frame, pwait>>) \/ AckBound(w, c)
        /\ UNCHANGED <<tasks, busy, pending, ready, chained, held, ppc>>
    BY <1>2, Zenon DEF LearnBound
  <2>2. Decodes(w) /\ ctx[w].pc \in DecodePc BY <2>1 DEF Decodes, DecodePc
  <2>3. b \in 0 .. Inf BY <1>1, <2>2, AtWork DEF TaskRecord
  <2>4. c \in [Worker -> Context]
    <3> HIDE DEF b
    <3> QED BY <1>1, <2>3 DEF TypeOK, Context
  <2>5. \E x : c = [ctx EXCEPT ![w].bound = x] OBVIOUS
  <2> HIDE DEF c, b
  <2>6. CASE AckBound(w, c) BY <2>1, <2>2, <2>4, <2>5, <2>6, AckWake
  <2>7. CASE ctx' = c /\ UNCHANGED <<acked, frame, pwait>>
    BY <2>1, <2>2, <2>4, <2>5, <2>7, RousingWake
  <2> QED BY <2>1, <2>6, <2>7
<1>3. CASE Redo(w)
  <2> DEFINE x == SliceAt(w).first
             c == [ctx EXCEPT ![w].pc = "claim", ![w].row = x]
  <2>1. /\ ctx[w].pc = "redo" /\ AckBound(w, c)
        /\ UNCHANGED <<tasks, busy, pending, ready, chained, held, ppc>>
    BY <1>3, Zenon DEF Redo
  <2>2. Decodes(w) /\ "claim" \in DecodePc BY <2>1 DEF Decodes, DecodePc
  <2>3. x \in 0 .. Rows BY <1>1, <2>2, SliceBounds
  <2> HIDE DEF x
  <2>4. c \in [Worker -> Context] BY <1>1, <2>3 DEF TypeOK, Context, Pc, DecodePc
  <2> HIDE DEF c
  <2>5. \E y : c = [ctx EXCEPT ![w].pc = "claim", ![w].row = y] BY DEF c
  <2> QED BY <2>1, <2>2, <2>4, <2>5, AckWake
<1>4. CASE Notify(w)
  <2> DEFINE F == {PicOf(w)}
             W == Waiters(F)
             pc == CASE ctx[w].pc = "notifyRow" -> AfterRow(w, ctx[w].row)
                     [] ctx[w].pc = "notifyBack" -> "redo"
                     [] ctx[w].pc = "notifySlice" -> "count"
                     [] ctx[w].pc = "notifyDone" -> "finish"
             c == [ctx EXCEPT ![w].pc = pc]
  <2>1. /\ ctx[w].pc \in NotifyPc /\ frame' = Quiet(frame, F) /\ ctx' = WakeWorkers(c, W)
        /\ pwait' = ParserAfter(F)
        /\ UNCHANGED <<tasks, busy, pending, ready, chained, held, ppc>>
    BY <1>4, Zenon DEF Notify, poolVars
  <2>2. Decodes(w) BY <2>1 DEF Decodes, DecodePc
  <2>3. pc \in DecodePc BY <2>1 DEF NotifyPc, DecodePc, AfterRow
  <2> HIDE DEF pc
  <2>4. c \in [Worker -> Context] BY <1>1, <2>3 DEF TypeOK, Context, Pc
  <2>5. c = [ctx EXCEPT ![w].pc = pc] OBVIOUS
  <2> HIDE DEF F, W, c
  <2>6. \A s \in Slot : frame'[s].frontier = frame[s].frontier BY <1>1, <2>1, QuietFrontier
  <2>7. pwait' # "none" => pwait # "none" BY <2>1 DEF ParserAfter
  <2> QED BY <2>1, <2>2, <2>3, <2>4, <2>5, <2>6, <2>7, RousingWake
<1>5. CASE AwaitBound(w)
  <2> DEFINE s == PicOf(w)
             c == [ctx EXCEPT ![w].pc = "boundSleep", ![w].on = s]
  <2>1. /\ ctx[w].pc = "parsed" /\ frame' = [frame EXCEPT ![s].wake = -1] /\ ctx' = c
        /\ UNCHANGED <<poolVars, parserVars>>
    BY <1>5, Zenon DEF AwaitBound
  <2>2. Decodes(w) /\ "boundSleep" \in DecodePc BY <2>1 DEF Decodes, DecodePc, SleepPc
  <2>3. s \in Slot BY <1>1, <2>2, AtWork
  <2> HIDE DEF s
  <2>4. c \in [Worker -> Context] BY <1>1, <2>2, <2>3 DEF TypeOK, Context, Pc
  <2>5. \A d \in Slot : frame'[d].frontier = frame[d].frontier
    BY <1>1, <2>1 DEF TypeOK, FrameRecord
  <2> HIDE DEF c
  <2>6. \E x : c = [ctx EXCEPT ![w].pc = "boundSleep", ![w].on = x] BY DEF c
  <2> QED BY <2>1, <2>2, <2>4, <2>5, <2>6, RousingWake DEF poolVars, parserVars
<1> QED BY <1>2, <1>3, <1>4, <1>5

(* A worker waiting for a reference conceals what nobody will write.       *)
LEMMA AwaitRowWake ==
  ASSUME WakeInv, PoolInv', NEW w \in Worker, AwaitRow(w)
  PROVE  WakeInv'
<1>1. PoolInv /\ TypeOK /\ ctx \in [Worker -> Context] BY DEF WakeInv, PoolInv, TypeOK
<1>2. /\ ctx[w].pc = "ref"
      /\ UNCHANGED <<tasks, pending, busy, chained, held, ppc, pwait>>
  BY Zenon DEF AwaitRow, parserVars
<1>3. Decodes(w) BY <1>2 DEF Decodes, DecodePc
<1>4. ParserSteady BY <1>2 DEF ParserSteady, WakeInv
<1>5. CASE ReleaseTerminal(ctx, 0)
  <2>1. Attentive(ctx, ctx) /\ \A v \in Asleep : ctx[v].pc = "asleep" BY DEF Attentive, Asleep
  <2> QED BY <1>1, <1>2, <1>4, <1>5, <2>1, ReleaseWake
<1>6. ASSUME NEW s \in Lacking(w),
             frame' = [frame EXCEPT ![s].wake = WakeAddress(w, s)],
             ctx' = [ctx EXCEPT ![w].pc = "refSleep", ![w].on = s], ready' = ready
      PROVE  WakeInv'
  <2> DEFINE c == [ctx EXCEPT ![w].pc = "refSleep", ![w].on = s]
  <2>1. "refSleep" \in DecodePc BY DEF DecodePc, SleepPc
  <2>2. s \in Slot BY <1>1, <1>3, AtWork DEF Lacking, TaskRecord
  <2>3. c \in [Worker -> Context] BY <1>1, <2>1, <2>2, ZenonT(60) DEF Context, Pc
  <2>4. \A d \in Slot : frame'[d].frontier = frame[d].frontier
    BY <1>1, <1>6 DEF TypeOK, FrameRecord
  <2>5. \E x : c = [ctx EXCEPT ![w].pc = "refSleep", ![w].on = x] OBVIOUS
  <2>6. ctx' = c BY <1>6
  <2>7. UNCHANGED <<tasks, busy, pending, ready, chained, held, ppc>>
        /\ (pwait' # "none" => pwait # "none")
    BY <1>2, <1>6
  <2> HIDE DEF c
  <2> QED BY <1>3, <2>1, <2>3, <2>4, <2>5, <2>6, <2>7, RousingWake
<1> QED BY <1>5, <1>6, Zenon DEF AwaitRow

(* Nobody waits for the lock while the parser that made a task holds it.   *)
LEMMA CreatedHolds ==
  ASSUME WakeInv, NEW w \in Worker, Lockable(w)
  PROVE  ppc # "created"
BY DEF WakeInv, Lockable, ParserHolds

(* A worker sleeps on task_ready only if the oldest task cannot start.     *)
LEMMA FallAsleepWake ==
  ASSUME WakeInv, PoolInv', NEW w \in Worker, FallAsleep(w) \/ Exit(w)
  PROVE  WakeInv'
<1>1. PICK pc : ctx' = [ctx EXCEPT ![w].pc = pc] BY Zenon DEF FallAsleep, Exit
<1>2. UNCHANGED <<poolVars, dpbVars, parserVars>> BY Zenon DEF FallAsleep, Exit
<1>3. \A v \in Worker : ctx'[v].chain = ctx[v].chain
  BY <1>1 DEF WakeInv, PoolInv, TypeOK, Context
<1>4. ReadyNow' = ReadyNow BY <1>2 DEF ReadyNow, ReadyIn, CompleteIn, poolVars, dpbVars
<1>5. ~Offers(pending \ chained, ready)' \/ ppc' = "closed"
  <2>1. ~Offers(pending \ chained, ready) \/ ppc = "closed" BY Zenon DEF FallAsleep, Exit
  <2> QED BY <1>2, <2>1 DEF Offers, Oldest, poolVars, parserVars
<1> QED BY <1>2, <1>3, <1>4, <1>5 DEF WakeInv, poolVars, parserVars

(* A worker that takes a task signals the next, if it is ready.            *)
LEMMA TakeTaskWake ==
  ASSUME WakeInv, PoolInv', NEW w \in Worker, TakeTask(w)
  PROVE  WakeInv'
<1> DEFINE t == IF ctx[w].chain # None THEN ctx[w].chain ELSE Oldest(pending \ chained)
           n == PassOn(pending' \ chained', ready')
<1>1. /\ ctx[w].pc \in {"idle", "take"} /\ Lockable(w)
      /\ pending' = pending \ {t} /\ ready' = ready \ {t} /\ chained' = chained \ {t}
      /\ UNCHANGED <<stream, tasks, busy, held, frame, ppc, pwait>>
  BY Zenon DEF TakeTask, streamVars, dpbVars, parserVars
<1>2. PICK r : /\ r.pc = "claim" /\ r.chain = None
               /\ \E W \in Signalled(n) : ctx' = WakeWorkers([ctx EXCEPT ![w] = r], W)
  BY Zenon DEF TakeTask
<1> DEFINE c == [ctx EXCEPT ![w] = r]
<1>3. PICK W \in Signalled(n) : ctx' = WakeWorkers(c, W) BY <1>2
<1>4. PoolInv /\ TypeOK /\ ctx \in [Worker -> Context] BY DEF WakeInv, PoolInv, TypeOK
<1>5. c[w] = r /\ \A v \in Worker \ {w} : c[v] = ctx[v] BY <1>4
<1> HIDE DEF t, c, n
<1>6. ReadyNow' \subseteq ready'
  <2>1. ReadyNow' \subseteq ReadyNow \ {t}
    BY <1>1 DEF ReadyNow, ReadyIn, CompleteIn
  <2> QED BY <1>1, <2>1 DEF WakeInv
<1>7. ASSUME NEW v \in Worker
      PROVE  ctx'[v].chain = None
  <2>1. v # w => ctx[v].chain = None BY <1>1, <1>4, NoOtherChain
  <2>2. c[v].chain = None BY <1>2, <1>5, <2>1
  <2> DEFINE q == CASE c[v].pc = "asleep" -> "idle"
                    [] c[v].pc = "refSleep" -> "ref"
                    [] c[v].pc = "boundSleep" -> "parsed"
                    [] OTHER -> c[v].pc
  <2>3. ctx'[v] = IF v \notin W THEN c[v] ELSE [c[v] EXCEPT !.pc = q]
    BY <1>3 DEF WakeWorkers
  <2>4. v = w => v \notin W BY <1>1 DEF Signalled, Asleep
  <2>5. v # w => c[v] \in Context BY <1>4, <1>5
  <2> HIDE DEF q
  <2> QED BY <2>2, <2>3, <2>4, <2>5 DEF Context
<1>8. ppc' # "created" BY <1>1, CreatedHolds
<1>9. ASSUME Offers(pending \ chained, ready)', Asleep' # {}
      PROVE  Watched'
  <2>1. n = 1
    <3>1. Offers(pending' \ chained', ready') BY <1>1, <1>9 DEF Offers, Oldest
    <3> QED BY <3>1 DEF PassOn, n
  <2>2. PICK u \in Worker : ctx'[u].pc = "asleep" BY <1>9 DEF Asleep
  <2>3. Asleep # {}
    <3>1. u # w
      <4>1. w \notin W BY <1>1 DEF Signalled, Asleep
      <4>2. ctx'[w] = r BY <1>3, <1>5, <4>1 DEF WakeWorkers
      <4> QED BY <1>2, <2>2, <4>2
    <3>2. c[u] \in Context BY <1>4, <1>5, <3>1
    <3>3. c[u].pc = "asleep" BY <1>3, <2>2, <3>2, WakingOne
    <3> QED BY <1>5, <3>1, <3>3 DEF Asleep
  <2>4. PICK v \in W : v \in Asleep BY <2>1, <2>3, SignalWakes
  <2>5. v \in Worker /\ v # w BY <1>1, <2>4 DEF Asleep
  <2>6. c[v] \in Context /\ c[v].pc = "asleep" BY <1>4, <1>5, <2>4, <2>5 DEF Asleep
  <2>7. ctx'[v].pc = "idle" BY <1>3, <2>4, <2>5, <2>6, WakingOne
  <2> QED BY <2>5, <2>7 DEF Watched
<1>10. pwait' # "none" => ppc' \in {"task", "settle", "endSettle", "slot", "drain"}
  BY <1>1 DEF WakeInv
<1> QED BY <1>6, <1>7, <1>8, <1>9, <1>10 DEF WakeInv

(* A worker that has ended a task looks at the pool next.                  *)
LEMMA LeaveTaskWake ==
  ASSUME WakeInv, PoolInv', NEW w \in Worker, LeaveTask(w)
  PROVE  WakeInv'
<1> DEFINE c == [ctx EXCEPT ![w].pc = "take"]
<1>1. /\ ctx[w].pc = "leave" /\ ReleaseTerminal(c, 0)
      /\ UNCHANGED <<tasks, pending, busy, chained, held, ppc, pwait>>
  BY Zenon DEF LeaveTask, parserVars
<1>2. ctx \in [Worker -> Context] BY DEF WakeInv, PoolInv, TypeOK
<1>3. c \in [Worker -> Context] BY <1>2, SMTT(30) DEF Context, Pc, LockPc
<1>4. /\ \A v \in Worker \ {w} : c[v] = ctx[v]
      /\ c[w].pc = "take" /\ c[w].chain = ctx[w].chain
  BY <1>2 DEF Context
<1> HIDE DEF c
<1>5. Attentive(ctx, c) /\ \A v \in Asleep : c[v].pc = "asleep"
  BY <1>1, <1>4 DEF Attentive, Asleep, LookPc, LockPc
<1>6. ParserSteady BY <1>1 DEF ParserSteady, WakeInv
<1> QED BY <1>1, <1>3, <1>5, <1>6, ReleaseWake

(* A worker that ends a task has the lock until it has looked at the pool; *)
(* if no task waited for this one, its leaving makes none ready.           *)
LEMMA FinishWake ==
  ASSUME WakeInv, PoolInv', NEW w \in Worker, Finish(w)
  PROVE  WakeInv'
<1> DEFINE t == ctx[w].task
           s == PicOf(w)
           others == busy \ {t}
           quiet == IF ctx[w].last \/ \E u \in others : tasks[u].pic = s THEN {s} ELSE Slot
           tasksAfter == [u \in Task |->
             IF u = t THEN [tasks[u] EXCEPT !.deps = {}, !.pic = None]
             ELSE IF u \in others THEN [tasks[u] EXCEPT !.after = @ \ {t}] ELSE tasks[u]]
           freed == {u \in others : tasks[u].after = {t}}
           readyDone == ReadyIn(tasks, pending, busy, frame)
           readyNext == ReadyIn(tasksAfter, pending, others, frame)
           waiting == \E u \in others : t \in tasks[u].after
           heirs == Heirs(freed, readyNext)
           chain == IF (waiting /\ readyNext # {}) /\ heirs # {} THEN Oldest(heirs) ELSE None
           c == [ctx EXCEPT ![w].pc = "leave", ![w].chain = chain, ![w].task = None]
<1>1. /\ ctx[w].pc = "finish" /\ Lockable(w)
      /\ busy' = others /\ tasks' = tasksAfter
      /\ ready' = IF waiting THEN readyNext ELSE IF ctx[w].last THEN readyDone ELSE ready
      /\ frame' = Quiet(frame, quiet)
      /\ pwait' = IF pwait = "complete" THEN "awake" ELSE ParserAfter(quiet)
      /\ \E n : \E W \in Signalled(n) : ctx' = WakeWorkers(c, W \union Waiters(quiet))
      /\ UNCHANGED <<pending, held, ppc>>
  <2>1. PICK n : \E W \in Signalled(n) : ctx' = WakeWorkers(c, W \union Waiters(quiet))
    BY Zenon DEF Finish
  <2>2. /\ ctx[w].pc = "finish" /\ Lockable(w)
        /\ busy' = others /\ tasks' = tasksAfter
        /\ ready' = IF waiting THEN readyNext ELSE IF ctx[w].last THEN readyDone ELSE ready
        /\ frame' = Quiet(frame, quiet)
        /\ pwait' = IF pwait = "complete" THEN "awake" ELSE ParserAfter(quiet)
        /\ UNCHANGED <<pending, held, ppc>>
    BY ZenonT(60) DEF Finish
  <2> HIDE DEF t, s, others, quiet, tasksAfter, freed, readyDone, readyNext, waiting, heirs, chain, c
  <2> QED BY <2>1, <2>2
<1>2. PICK n : \E W \in Signalled(n) : ctx' = WakeWorkers(c, W \union Waiters(quiet))
  BY <1>1, ZenonT(60)
<1>3. PICK W \in Signalled(n) : ctx' = WakeWorkers(c, W \union Waiters(quiet)) BY <1>2
<1>4. PoolInv /\ TypeOK /\ TasksOrdered /\ ctx \in [Worker -> Context]
  BY DEF WakeInv, PoolInv, TypeOK
<1>5. t \in busy /\ t \in Task /\ t \notin pending
  <2>1. Decodes(w) BY <1>1 DEF Decodes, DecodePc
  <2>2. WorkerOwns(ctx[w], tasks, busy, pending, held, stream) BY <1>4 DEF PoolInv, WorkersOwn
  <2> QED BY <1>4, <2>1, <2>2, AtWork, SMTT(30) DEF WorkerOwns, Decodes
<1>6. ASSUME NEW u \in others
      PROVE  /\ tasksAfter[u].pic = tasks[u].pic /\ tasksAfter[u].deps = tasks[u].deps
             /\ tasksAfter[u].after = tasks[u].after \ {t}
  <2>1. u \in Task /\ u # t /\ tasks[u] \in TaskRecord BY <1>4, <1>6 DEF TypeOK
  <2>2. tasksAfter[u] = [tasks[u] EXCEPT !.after = @ \ {t}] BY <1>6, <2>1
  <2> HIDE DEF t, others, tasksAfter
  <2> QED BY <2>1, <2>2 DEF TaskRecord
<1>7. pending \subseteq others /\ others = busy \ {t} BY <1>4, <1>5 DEF TypeOK
<1>8. chain # None => chain \in readyNext
  <2>1. heirs \subseteq readyNext /\ heirs \subseteq busy BY DEF Heirs
  <2>2. \A u \in heirs : tasks[u].job \in Nat
    BY <1>4, <2>1 DEF TypeOK, TaskRecord
  <2> HIDE DEF heirs
  <2>3. heirs # {} => Oldest(heirs) \in heirs BY <2>2, OldestOfTasks
  <2> QED BY <2>1, <2>3
<1>9. w \notin W \union Waiters(quiet)
  <2> HIDE DEF quiet
  <2> QED BY <1>1, ActorAwake DEF SleepPc
<1>10. c[w].pc = "leave" /\ c[w].chain = chain
  BY <1>4 DEF Context
<1> HIDE DEF t, s, quiet, tasksAfter, others, heirs, chain, c, freed
<1>11. ReadyNow' = readyNext
  <2>1. CompleteIn(frame') = CompleteIn(frame)
    BY <1>1, <1>4, QuietFrontier DEF CompleteIn
  <2> QED BY <1>1, <2>1 DEF ReadyNow, ReadyIn
<1>12. ~waiting => readyNext \subseteq ReadyNow
  <2> SUFFICES ASSUME ~waiting PROVE readyNext \subseteq ReadyNow
    OBVIOUS
  <2>1. {tasksAfter[u].pic : u \in others} \subseteq {tasks[u].pic : u \in busy}
    BY <1>6, <1>7
  <2>2. \A u \in pending : /\ tasksAfter[u].deps = tasks[u].deps
                           /\ tasksAfter[u].after \intersect others = tasks[u].after \intersect busy
    <3> TAKE u \in pending
    <3>1. u \in others /\ t \notin tasks[u].after BY <1>7
    <3> QED BY <1>6, <1>7, <3>1
  <2> QED BY <2>1, <2>2 DEF ReadyNow, ReadyIn
<1>13. readyDone = ReadyNow BY DEF ReadyNow
<1> HIDE DEF waiting, readyNext, readyDone
<1>14. ReadyNow' \subseteq ready' BY <1>1, <1>11, <1>12, <1>13 DEF WakeInv
<1>15. ctx'[w] = c[w]
  <2> DEFINE V == W \union Waiters(quiet)
  <2>1. w \notin V /\ ctx' = WakeWorkers(c, V) BY <1>3, <1>9
  <2> HIDE DEF V
  <2> QED BY <2>1 DEF WakeWorkers
<1>16. ASSUME NEW v \in Worker, ctx'[v].chain # None
       PROVE  ctx'[v].chain \in ReadyNow'
  <2>1. CASE v = w BY <1>8, <1>10, <1>11, <1>15, <1>16, <2>1
  <2>2. CASE v # w
    <3> DEFINE V == W \union Waiters(quiet)
    <3>1. c[v] = ctx[v] BY <1>4, <2>2 DEF c
    <3>2. ctx' = WakeWorkers(c, V) BY <1>3
    <3> HIDE DEF V
    <3>3. c[v] \in Context BY <1>4, <3>1
    <3>4. ctx'[v].chain = c[v].chain BY <3>2, <3>3, WakingOne
    <3>5. ctx[v].chain = None BY <1>1, <1>4, <2>2, NoOtherChain
    <3> QED BY <1>16, <3>1, <3>4, <3>5
  <2> QED BY <2>1, <2>2
<1>17. Watched' BY <1>10, <1>15 DEF Watched, LockPc
<1>18. ppc' # "created" BY <1>1, CreatedHolds
<1>19. pwait' # "none" => ppc' \in {"task", "settle", "endSettle", "slot", "drain"}
  BY <1>1 DEF WakeInv, ParserAfter
<1> QED BY <1>14, <1>16, <1>17, <1>18, <1>19 DEF WakeInv

-----------------------------------------------------------------------------
(* The steps of the parser and the caller.                                 *)

(* release_held_task bounds a slice and wakes those who wait for it.       *)
LEMMA HeldSteady ==
  ASSUME WakeInv, PoolInv', NEW b \in 0 .. Inf,
         ReleaseHeld(b) \/ UNCHANGED <<held, tasks, frame, ctx>>,
         UNCHANGED <<busy, pending, ready, chained>>, ppc # "created", ParserSteady
  PROVE  WakeInv'
<1>1. TypeOK /\ ctx \in [Worker -> Context] /\ busy \subseteq Task
  BY DEF WakeInv, PoolInv, TypeOK
<1>2. Attentive(ctx, ctx) BY DEF Attentive
<1>3. CASE ReleaseHeld(b)
  <2>1. tasks' = BoundHeld(b) /\ frame' = Quiet(frame, HeldPic)
        /\ ctx' = WakeWorkers(ctx, Waiters(HeldPic))
    BY <1>3 DEF ReleaseHeld
  <2>2. SamePool
    <3>1. \A t \in busy : /\ BoundHeld(b)[t].job = tasks[t].job
                          /\ BoundHeld(b)[t].pic = tasks[t].pic
                          /\ BoundHeld(b)[t].deps = tasks[t].deps
                          /\ BoundHeld(b)[t].after = tasks[t].after
      BY <1>1, BoundHeldType
    <3> QED BY <2>1, <3>1 DEF SamePool
  <2>3. SameReferences
    <3>1. Depended \subseteq Slot BY <1>1 DEF TypeOK, TaskRecord, Depended
    <3> QED BY <1>1, <2>1, <3>1, QuietFrontier DEF SameReferences
  <2>4. Attentive(ctx, ctx') BY <1>1, <1>2, <2>1, WakingAttends
  <2> QED BY <2>2, <2>3, <2>4, Steady
<1>4. CASE UNCHANGED <<held, tasks, frame, ctx>>
  <2>1. SamePool /\ SameReferences BY <1>4 DEF SamePool, SameReferences
  <2> QED BY <1>2, <1>4, <2>1, Steady
<1> QED BY <1>3, <1>4

(* A step that changes no slot, no task and no context.                    *)
LEMMA IdleSteady ==
  ASSUME WakeInv, PoolInv', UNCHANGED <<frame, ctx, tasks, busy, pending, ready, chained>>,
         ppc = "created" => ppc' = "created", ParserSteady
  PROVE  WakeInv'
<1>1. SamePool /\ SameReferences /\ Attentive(ctx, ctx') BY DEF SamePool, SameReferences, Attentive
<1> QED BY <1>1, Steady

(* release_terminal_task_dependencies by the parser.                       *)
LEMMA ParserRelease ==
  ASSUME WakeInv, PoolInv', NEW n \in Nat, ReleaseTerminal(ctx, n),
         UNCHANGED <<tasks, pending, busy, chained>>, ParserSteady,
         ppc = "created" => held \in chained \/ n # 0
  PROVE  WakeInv'
<1>1. Attentive(ctx, ctx) /\ \A v \in Asleep : ctx[v].pc = "asleep" BY DEF Attentive, Asleep
<1>2. ctx \in [Worker -> Context] BY DEF WakeInv, PoolInv, TypeOK
<1> QED BY <1>1, <1>2, ReleaseWake

LEMMA SendWake ==
  ASSUME WakeInv, PoolInv', SendSlice \/ SendEnd \/ WaitTaskSlot
  PROVE  WakeInv'
<1>1. Inf \in 0 .. Inf BY DEF Inf
<1>2. CASE SendSlice \/ SendEnd
  <2>1. /\ ppc = "idle" /\ pwait' = "none" /\ ppc' \in {"task", "endSettle", "drain"}
        /\ ReleaseHeld(Inf) \/ UNCHANGED <<held, tasks, frame, ctx>>
        /\ UNCHANGED <<busy, pending, ready, chained>>
    BY <1>2, Zenon DEF SendSlice, SendEnd, InCall
  <2>2. ParserSteady BY <2>1 DEF ParserSteady
  <2> QED BY <1>1, <2>1, <2>2, HeldSteady
<1>3. CASE WaitTaskSlot
  <2>1. /\ ppc = "task" /\ UNCHANGED <<busy, pending, chained>>
        /\ \/ /\ ReleaseTerminal(ctx, 0) /\ UNCHANGED <<tasks, held, ppc>>
           \/ /\ pwait' = "none" /\ ppc' \in {"settle", "start", "create"} /\ UNCHANGED ready
              /\ ReleaseHeld(Inf) \/ UNCHANGED <<held, tasks, frame, ctx>>
    BY <1>3, Zenon DEF WaitTaskSlot, InCall, ProgressOrWait
  <2>2. ParserSteady BY <2>1 DEF ParserSteady
  <2>3. CASE ReleaseTerminal(ctx, 0) /\ UNCHANGED <<tasks, held, ppc>>
    BY <2>1, <2>2, <2>3, ParserRelease
  <2>4. CASE UNCHANGED ready /\ (ReleaseHeld(Inf) \/ UNCHANGED <<held, tasks, frame, ctx>>)
    BY <1>1, <2>1, <2>2, <2>4, HeldSteady
  <2> QED BY <2>1, <2>3, <2>4
<1> QED BY <1>2, <1>3

LEMMA SettleWake ==
  ASSUME WakeInv, PoolInv', SettleBounds
  PROVE  WakeInv'
<1>1. PICK F : \/ /\ frame' = [Quiet(frame, F) EXCEPT ![currPic].wake = -1]
                  /\ ctx' = WakeWorkers(ctx, Waiters(F)) /\ UNCHANGED ppc
               \/ UNCHANGED <<frame, ctx>> /\ ppc' \in {"start", "drain"} /\ pwait' = "none"
  BY Zenon DEF SettleBounds
<1>2. ppc \in {"settle", "endSettle"} /\ UNCHANGED poolVars BY Zenon DEF SettleBounds
<1>3. ParserSteady BY <1>1, <1>2 DEF ParserSteady
<1>4. CASE /\ frame' = [Quiet(frame, F) EXCEPT ![currPic].wake = -1]
           /\ ctx' = WakeWorkers(ctx, Waiters(F))
  <2>1. frame \in [Slot -> FrameRecord] /\ ctx \in [Worker -> Context]
    BY DEF WakeInv, PoolInv, TypeOK
  <2>2. Quiet(frame, F) \in [Slot -> FrameRecord] BY <2>1, QuietType
  <2>3. \A s \in Slot : frame'[s].frontier = frame[s].frontier
    <3> DEFINE q == Quiet(frame, F)
    <3>1. \A s \in Slot : q[s].frontier = frame[s].frontier BY <2>1, QuietWake
    <3>2. q \in [Slot -> FrameRecord] /\ frame' = [q EXCEPT ![currPic].wake = -1] BY <1>4, <2>2
    <3> HIDE DEF q
    <3> QED BY <3>1, <3>2 DEF FrameRecord
  <2>4. SameReferences
    BY <2>3 DEF SameReferences, Depended, WakeInv, PoolInv, TypeOK, TaskRecord
  <2>5. Attentive(ctx, ctx) BY DEF Attentive
  <2>6. Attentive(ctx, ctx') BY <1>4, <2>1, <2>5, WakingAttends
  <2> QED BY <1>2, <1>3, <2>4, <2>6, Steady DEF SamePool, poolVars
<1>5. CASE UNCHANGED <<frame, ctx>>
  BY <1>2, <1>3, <1>5, IdleSteady DEF poolVars
<1> QED BY <1>1, <1>4, <1>5

(* A slot is given to another picture only if no task is to read it.       *)
LEMMA PictureWake ==
  ASSUME WakeInv, PoolInv', StartPicture \/ AllocSlot \/ Drain
  PROVE  WakeInv'
<1> DEFINE Released == ReleaseTerminal(ctx, 0)
                          /\ ((ppc # "start" /\ UNCHANGED ppc) \/ (pwait' = "none" /\ ppc' \in {"slot", "idle"}))
           Refused == ppc' = "idle" /\ pwait' = "none" /\ UNCHANGED <<ready, frame, ctx>>
           NewFrame(p, s) == frame' = [frame EXCEPT ![s].id = p, ![s].frontier = 0,
                                                    ![s].remaining = Rows, ![s].rows = Blank]
           Given == /\ ppc' = "create" /\ pwait' = "none" /\ Unavailable # Slot
                    /\ UNCHANGED <<ready, ctx>> /\ \E p : NewFrame(p, Lowest(Slot \ Unavailable))
<1>1. /\ ppc \in {"start", "slot", "drain"} /\ UNCHANGED <<tasks, busy, pending, chained, held>>
      /\ Released \/ Refused \/ Given
  <2>1. CASE StartPicture \/ Drain BY <2>1, Zenon DEF StartPicture, Drain, InCall, ProgressOrWait
  <2>2. CASE AllocSlot
    <3>1. ppc = "slot" /\ UNCHANGED <<tasks, busy, pending, chained, held>>
      BY <2>2, Zenon DEF AllocSlot, InCall
    <3>2. \/ ppc' = "idle" /\ pwait' = "none" /\ UNCHANGED <<ready, dpbVars, ctx>>
          \/ ProgressOrWait /\ UNCHANGED ppc
          \/ Given
      BY <2>2, Zenon DEF AllocSlot
    <3> QED BY <3>1, <3>2 DEF ProgressOrWait, dpbVars
  <2> QED BY <2>1, <2>2
<1>2. ParserSteady BY <1>1 DEF ParserSteady
<1>3. CASE Released
  BY <1>1, <1>2, <1>3, ParserRelease
<1>4. CASE Refused
  BY <1>1, <1>2, <1>4, IdleSteady
<1>5. ASSUME Given PROVE WakeInv'
  <2> DEFINE free == Slot \ Unavailable
             d == Lowest(free)
  <2>1. frame \in [Slot -> FrameRecord] /\ Depended \subseteq Slot
    BY SMTT(30) DEF WakeInv, PoolInv, TypeOK, TaskRecord, Depended
  <2>2. d \notin Depended
    <3>1. Unavailable \subseteq Slot
      BY DEF Unavailable, Reserved, Depended, Inflight, Writing, SlotsOf, Complete, CompleteIn,
             WakeInv, PoolInv, TypeOK, TaskRecord, TasksOrdered
    <3>2. free # {} BY <1>5, <3>1
    <3>3. free \in SUBSET Nat BY DEF Slot
    <3> HIDE DEF free
    <3>4. d \in free BY <3>2, <3>3, LowestOfNats
    <3> QED BY <3>4 DEF free, Unavailable
  <2>3. PICK p : NewFrame(p, d) BY <1>5
  <2> HIDE DEF d, free
  <2>4. SameReferences BY <2>1, <2>2, <2>3 DEF SameReferences
  <2>5. Attentive(ctx, ctx') BY <1>5 DEF Attentive
  <2>6. SamePool BY <1>1 DEF SamePool
  <2> QED BY <1>1, <1>2, <1>5, <2>4, <2>5, <2>6, Steady
<1> QED BY <1>1, <1>3, <1>4, <1>5

(* A task that is to be chained makes none ready; any other is signalled,  *)
(* next.                                                                   *)
LEMMA CreateTaskWake ==
  ASSUME WakeInv, PoolInv', CreateTask
  PROVE  WakeInv'
<1> DEFINE t == Lowest(Task \ busy)
           after == OlderSlices
           new == [job |-> next, pic |-> currPic, deps |-> SlotsOf(Slice.reads),
                   after |-> after, bound |-> Unknown]
<1>1. /\ ppc = "create" /\ ParserLock
      /\ tasks' = [BoundHeld(HeldBound) EXCEPT ![t] = new]
      /\ held' = t /\ busy' = busy \union {t} /\ pending' = pending \union {t}
      /\ chained' = IF after # {} THEN chained \union {t} ELSE chained \ {t}
      /\ ready' = ReadyIn(tasks', pending', busy', frame)
      /\ frame' = Quiet(frame, HeldPic)
      /\ ctx' = WakeWorkers(ctx, Waiters(HeldPic))
      /\ ppc' = "created" /\ pwait' = "none"
  BY Zenon DEF CreateTask, InCall
<1>2. PoolInv /\ TypeOK /\ TasksOrdered /\ ctx \in [Worker -> Context] /\ ParserPrepared
  BY DEF WakeInv, PoolInv, TypeOK
<1>3. t \in Task \ busy
  <2> DEFINE free == Task \ busy
  <2>1. free # {} BY <1>1, <1>2 DEF ParserPrepared, TypeOK
  <2>2. free \in SUBSET Nat BY DEF Task
  <2> HIDE DEF free
  <2>3. Lowest(free) \in free BY <2>1, <2>2, LowestOfNats
  <2> QED BY <2>3 DEF free
<1>4. HeldBound \in 0 .. Inf
  <2>1. next \in DOMAIN stream /\ Slice \in Header
    BY <1>1, <1>2, SliceType DEF ParserPrepared
  <2> QED BY <2>1, HeaderBounds DEF HeldBound, Inf
<1>5. BoundHeld(HeldBound) \in [Task -> TaskRecord]
      /\ \A u \in Task : /\ BoundHeld(HeldBound)[u].job = tasks[u].job
                         /\ BoundHeld(HeldBound)[u].pic = tasks[u].pic
                         /\ BoundHeld(HeldBound)[u].deps = tasks[u].deps
                         /\ BoundHeld(HeldBound)[u].after = tasks[u].after
  BY <1>2, <1>4, BoundHeldType
<1>6. new.pic = currPic /\ new.after = after OBVIOUS
<1>7. after \subseteq busy BY DEF OlderSlices
<1>8. busy \subseteq Task /\ pending \subseteq busy BY <1>2 DEF TypeOK
<1> HIDE DEF t, new
<1>9. tasks'[t] = new
      /\ \A u \in busy : /\ tasks'[u].job = tasks[u].job /\ tasks'[u].pic = tasks[u].pic
                         /\ tasks'[u].deps = tasks[u].deps /\ tasks'[u].after = tasks[u].after
  BY <1>1, <1>3, <1>5, <1>8
<1>10. ReadyNow' = ready'
  <2>1. CompleteIn(frame') = CompleteIn(frame) BY <1>1, <1>2, QuietFrontier DEF CompleteIn
  <2> QED BY <1>1, <2>1 DEF ReadyNow, ReadyIn
<1>11. ASSUME NEW v \in Worker
       PROVE  ctx'[v].chain = None
  <2>1. ctx[v].pc \notin LockPc /\ ctx[v] \in Context BY <1>1, <1>2 DEF ParserLock
  <2>2. ctx[v].chain = None BY <1>2, <2>1 DEF PoolInv, WorkersOwn, WorkerOwns
  <2>3. ctx'[v].chain = ctx[v].chain BY <1>1, <2>1, WakingOne
  <2> QED BY <2>2, <2>3
<1>12. held' \in chained' => tasks'[held'].after # {}
  BY <1>1, <1>6, <1>9
<1>13. Attentive(ctx, ctx')
  <2>1. Attentive(ctx, ctx) BY DEF Attentive
  <2> QED BY <1>1, <1>2, <2>1, WakingAttends
<1>14. ASSUME Offers(pending \ chained, ready)', Asleep' # {}
       PROVE  Watched'
  <2>1. CASE after = {}
    BY <1>1, <2>1 DEF Watched
  <2>2. CASE after # {}
    <3> DEFINE pool == pending \ chained
    <3>1. pool \in SUBSET busy BY <1>8
    <3>2. pending' \ chained' = pool BY <1>1, <1>3, <1>8, <2>2
    <3>3. /\ pool # {}
          /\ (CHOOSE x \in pool : \A u \in pool : tasks'[x].job <= tasks'[u].job) \in ready'
      BY <1>14, <3>2, Zenon DEF Offers, Oldest
    <3>4. \A u \in pool : tasks'[u].job = tasks[u].job BY <1>9, <3>1
    <3> HIDE DEF pool
    <3>5. Oldest(pool) \in ready' BY <1>2, <3>1, <3>3, <3>4, OldestSame
    <3>6. ready' \intersect busy \subseteq ReadyNow
      <4> DEFINE writing == {tasks[u].pic : u \in busy}
                 writingNext == {tasks'[u].pic : u \in busy'}
      <4>1. currPic \in writing BY <2>2 DEF OlderSlices
      <4>2. writingNext \subseteq writing
        <5> SUFFICES ASSUME NEW u \in busy' PROVE tasks'[u].pic \in writing OBVIOUS
        <5>1. CASE u = t BY <1>6, <1>9, <4>1, <5>1
        <5>2. CASE u \in busy BY <1>9, <5>2
        <5> QED BY <1>1, <5>1, <5>2
      <4>3. ready' = {u \in pending' : /\ tasks'[u].deps \subseteq CompleteIn(frame) \union writingNext
                                       /\ tasks'[u].after \intersect busy' = {}}
        BY <1>1 DEF ReadyIn
      <4>4. ReadyNow = {u \in pending : /\ tasks[u].deps \subseteq CompleteIn(frame) \union writing
                                        /\ tasks[u].after \intersect busy = {}}
        BY DEF ReadyNow, ReadyIn
      <4> HIDE DEF writing, writingNext
      <4>5. ASSUME NEW u \in ready', u \in busy
            PROVE  u \in ReadyNow
        <5>1. u \in pending BY <1>1, <1>3, <4>3, <4>5, ZenonT(60)
        <5>2. tasks'[u].deps = tasks[u].deps /\ tasks'[u].after = tasks[u].after BY <1>9, <4>5
        <5>3. busy \subseteq busy' BY <1>1
        <5> QED BY <4>2, <4>3, <4>4, <4>5, <5>1, <5>2, <5>3
      <4> QED BY <4>5
    <3>7. Oldest(pool) \in busy
      <4>1. \A u \in pool : tasks[u].job \in Nat BY <1>2, <1>8, <3>1 DEF TypeOK, TaskRecord
      <4> QED BY <3>1, <3>3, <4>1, OldestOfTasks
    <3>8. Offers(pool, ready) BY <3>3, <3>5, <3>6, <3>7 DEF Offers, WakeInv
    <3>9. Asleep # {} BY <1>13, <1>14 DEF Attentive, Asleep
    <3>10. Watched BY <1>1, <3>8, <3>9 DEF WakeInv, pool
    <3> QED BY <1>1, <1>13, <3>10, WatchedKept
  <2> QED BY <2>1, <2>2
<1>15. ReadyNow' \subseteq ready' BY <1>10
<1> QED BY <1>1, <1>11, <1>12, <1>14, <1>15 DEF WakeInv

(* The parser signals the task it made, unless it is chained.              *)
LEMMA CreatedTaskWake ==
  ASSUME WakeInv, PoolInv', CreatedTask
  PROVE  WakeInv'
<1>1. /\ ppc = "created" /\ ppc' = "idle" /\ pwait' = "none"
      /\ UNCHANGED <<tasks, busy, pending, chained, held>>
      /\ IF held \in ready
           THEN /\ \E W \in Signalled(CreatedSignals) : ctx' = WakeWorkers(ctx, W)
                /\ UNCHANGED <<frame, flagged, ready>>
           ELSE ReleaseTerminal(ctx, CreatedSignals)
  BY Zenon DEF CreatedTask, InCall
<1>2. ParserSteady BY <1>1 DEF ParserSteady
<1>3. CreatedSignals \in Nat /\ (held \in chained \/ CreatedSignals # 0) BY DEF CreatedSignals
<1>4. CASE held \notin ready
  BY <1>1, <1>2, <1>3, <1>4, ParserRelease
<1>5. CASE held \in ready
  <2>1. PoolInv /\ ctx \in [Worker -> Context] BY DEF WakeInv, PoolInv, TypeOK
  <2>2. held \notin chained BY <1>1, <1>5 DEF WakeInv, PoolInv, TasksOrdered
  <2>3. PICK W \in Signalled(CreatedSignals) : ctx' = WakeWorkers(ctx, W) BY <1>1, <1>5
  <2>4. Attentive(ctx, ctx) /\ \A v \in Asleep : ctx[v].pc = "asleep" BY DEF Attentive, Asleep
  <2>5. Attentive(ctx, ctx') BY <2>1, <2>3, <2>4, WakingAttends
  <2>6. Asleep' # {} => Watched'
    <3>1. ctx' = WakeWorkers(ctx, W \union {}) BY <2>3
    <3>2. CreatedSignals \in Nat \ {0} BY <1>3, <2>2
    <3>3. Asleep' # {} => \E v \in Worker : ctx'[v].pc \in LookPc
      BY <2>1, <2>4, <3>1, <3>2, SignalledLooks
    <3> QED BY <3>3, Zenon DEF Watched, LookPc
  <2>7. SamePool /\ SameReferences BY <1>1, <1>5 DEF SamePool, SameReferences
  <2>8. ReadyNow' = ReadyNow BY <2>1, <2>7, ReadyNowSame
  <2>9. ReadyNow' \subseteq ready' BY <1>1, <1>5, <2>8 DEF WakeInv
  <2> QED BY <1>2, <2>5, <2>6, <2>7, <2>8, <2>9, ReadyKept
<1> QED BY <1>4, <1>5

(* Shutdown wakes every worker, and the caller's other calls none.         *)
LEMMA CallerWake ==
  ASSUME WakeInv, PoolInv', Close \/ \E s \in Slot : Receive(s) \/ DropOrphan(s)
  PROVE  WakeInv'
<1>1. TypeOK /\ ctx \in [Worker -> Context] BY DEF WakeInv, PoolInv, TypeOK
<1>2. CASE Close
  <2>1. /\ tasks' = BoundHeld(Inf) /\ frame' = Quiet(frame, HeldPic)
        /\ ctx' = WakeWorkers(ctx, Waiters(HeldPic) \union Broadcast)
        /\ ppc = "idle" /\ ppc' = "closed" /\ pwait' = "none"
        /\ UNCHANGED <<busy, pending, ready, chained>>
    BY <1>2, Zenon DEF Close, InCall
  <2>2. SamePool
    <3>1. Inf \in 0 .. Inf /\ busy \subseteq Task BY <1>1 DEF Inf, TypeOK
    <3>2. \A t \in busy : /\ BoundHeld(Inf)[t].job = tasks[t].job
                          /\ BoundHeld(Inf)[t].pic = tasks[t].pic
                          /\ BoundHeld(Inf)[t].deps = tasks[t].deps
                          /\ BoundHeld(Inf)[t].after = tasks[t].after
      BY <1>1, <3>1, BoundHeldType
    <3> QED BY <2>1, <3>2 DEF SamePool
  <2>3. SameReferences
    <3>1. Depended \subseteq Slot BY <1>1 DEF TypeOK, TaskRecord, Depended
    <3> QED BY <1>1, <2>1, <3>1, QuietFrontier DEF SameReferences
  <2>4. Attentive(ctx, ctx) BY DEF Attentive
  <2>5. Attentive(ctx, ctx') BY <1>1, <2>1, <2>4, WakingAttends
  <2>6. ParserSteady BY <2>1 DEF ParserSteady
  <2> QED BY <2>1, <2>2, <2>3, <2>5, <2>6, Steady
<1>3. ASSUME NEW s \in Slot, Receive(s) \/ DropOrphan(s)
      PROVE  WakeInv'
  <2>1. UNCHANGED <<poolVars, frame, ctx, parserVars>> BY <1>3, Zenon DEF Receive, DropOrphan
  <2>2. ParserSteady BY <2>1 DEF ParserSteady, parserVars, poolVars, WakeInv
  <2> QED BY <2>1, <2>2, IdleSteady DEF poolVars, parserVars
<1> QED BY <1>2, <1>3

-----------------------------------------------------------------------------
(* The theorems.                                                           *)

LEMMA WakeInit ==
  ASSUME Init
  PROVE  WakeInv
<1>1. PoolInv BY InitInv
<1>2. /\ \A w \in Worker : ctx[w].pc = "idle" /\ ctx[w].chain = None
      /\ pending = {} /\ ready = {} /\ ppc = "idle" /\ pwait = "none"
  BY DEF Init
<1>3. ReadyNow \subseteq ready BY <1>2 DEF ReadyNow, ReadyIn
<1>4. Asleep = {} BY <1>2 DEF Asleep
<1> QED BY <1>1, <1>2, <1>3, <1>4 DEF WakeInv

LEMMA WakeNext ==
  ASSUME WakeInv, [Next]_vars
  PROVE  WakeInv'
<1>1. PoolInv' BY NextInv DEF WakeInv
<1>2. ASSUME NEW w \in Worker, Work(w)
      PROVE  WakeInv'
  <2>1. CASE FallAsleep(w) \/ Exit(w) BY <1>1, <2>1, FallAsleepWake
  <2>2. CASE ClaimRow(w) \/ DecodeRow(w) \/ TakeBack(w) \/ PublishSlice(w) \/ CountSlice(w)
    BY <1>1, <2>2, DecodingWake
  <2>3. CASE LearnBound(w) \/ Redo(w) \/ Notify(w) \/ AwaitBound(w)
    BY <1>1, <2>3, RousingSteps
  <2>4. CASE AwaitRow(w) BY <1>1, <2>4, AwaitRowWake
  <2>5. CASE TakeTask(w) BY <1>1, <2>5, TakeTaskWake
  <2>6. CASE Finish(w) BY <1>1, <2>6, FinishWake
  <2>7. CASE LeaveTask(w) BY <1>1, <2>7, LeaveTaskWake
  <2> QED BY <1>2, <2>1, <2>2, <2>3, <2>4, <2>5, <2>6, <2>7, Zenon DEF Work
<1>3. CASE Parse
  <2>1. CASE WaitTaskSlot BY <1>1, <2>1, SendWake
  <2>2. CASE SettleBounds BY <1>1, <2>2, SettleWake
  <2>3. CASE StartPicture \/ AllocSlot \/ Drain BY <1>1, <2>3, PictureWake
  <2>4. CASE CreateTask BY <1>1, <2>4, CreateTaskWake
  <2>5. CASE CreatedTask BY <1>1, <2>5, CreatedTaskWake
  <2> QED BY <1>3, <2>1, <2>2, <2>3, <2>4, <2>5, Zenon DEF Parse
<1>4. CASE Call
  BY <1>1, <1>4, SendWake, CallerWake, Zenon DEF Call
<1>5. CASE UNCHANGED vars
  <2>1. UNCHANGED <<frame, ctx, poolVars, parserVars>> BY <1>5 DEF vars, dpbVars
  <2>2. ParserSteady BY <2>1 DEF ParserSteady, parserVars, poolVars, WakeInv
  <2> QED BY <1>1, <2>1, <2>2, IdleSteady DEF poolVars, parserVars
<1> QED BY <1>2, <1>3, <1>4, <1>5, Zenon DEF Next

(* ready_tasks names every task that could start, and the pool is watched  *)
(* by a worker whenever its oldest task is among them.                     *)
THEOREM ReadyTasksComplete == Spec => []WakeInv
<1>1. Init => WakeInv BY WakeInit
<1>2. WakeInv /\ [Next]_vars => WakeInv' BY WakeNext
<1> QED BY <1>1, <1>2, PTL DEF Spec

(* No signal of task_ready is lost: while nobody holds the lock and the    *)
(* oldest task of the pool is ready, not all workers that could take it    *)
(* sleep, though each change of the pool signals one worker at most, and   *)
(* the worker that takes a task passes the signal on.                      *)
THEOREM NoWakeupLost == Spec => []NoLostWakeup
<1>1. WakeInv => NoLostWakeup
  BY Zenon DEF WakeInv, NoLostWakeup, Watched, ParserHolds
<1> QED BY <1>1, ReadyTasksComplete, PTL

(* The assertion of worker_loop: the slice a worker goes on with, chosen   *)
(* while it ended the one before, is ready when it takes it.               *)
THEOREM ChainsAreReady == Spec => []ChainIsReady
<1>1. WakeInv => ChainIsReady BY DEF WakeInv, ChainIsReady
<1> QED BY <1>1, ReadyTasksComplete, PTL
=============================================================================
