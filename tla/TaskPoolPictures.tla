-------------------------- MODULE TaskPoolPictures --------------------------
(***************************************************************************)
(* Proofs that the pictures of a multithreaded decoder are those of a      *)
(* single-threaded one, for any number of workers, tasks, slots and rows   *)
(* and any stream whose slices read what the decoder may hold              *)
(* (ReadsWhatIsHeld) and that sends every picture once (SentOnce).  The    *)
(* layers of PictureInv are proved one after another, each from those      *)
(* before it.                                                              *)
(***************************************************************************)
EXTENDS PictureInv, TaskPoolSlots

USE SliceOrderAssumption, TaskPoolAssumption

-----------------------------------------------------------------------------
(* What the steps do to the work in hand.                                  *)

(* A worker that at most wakes up.                                         *)
SameWork(c, d) ==
  /\ d.task = c.task /\ d.row = c.row /\ d.bound = c.bound /\ d.turn = c.turn
  /\ \/ d.pc = c.pc
     \/ c.pc = "asleep" /\ d.pc = "idle"
     \/ c.pc = "refSleep" /\ d.pc = "ref"
     \/ c.pc = "boundSleep" /\ d.pc = "parsed"

OthersWork(w) == \A v \in Worker \ {w} : SameWork(ctx[v], ctx'[v])
AllWork == \A v \in Worker : SameWork(ctx[v], ctx'[v])

(* A worker goes on with its task, the others at most wake up.             *)
Moved(w, pc, row, bound) ==
  /\ OthersWork(w)
  /\ ctx'[w].pc = pc /\ ctx'[w].row = row /\ ctx'[w].bound = bound
  /\ ctx'[w].task = ctx[w].task /\ ctx'[w].turn = ctx[w].turn

(* A slot where at most the wake address changes.                          *)
SameFrame(f, g) ==
  g.id = f.id /\ g.frontier = f.frontier /\ g.remaining = f.remaining /\ g.rows = f.rows

FramesSame == \A s \in Slot : SameFrame(frame[s], frame'[s])

(* A worker writes its own slot.                                           *)
Stored(w, frontier, remaining, rows) ==
  /\ \A s \in Slot \ {PicOf(w)} : SameFrame(frame[s], frame'[s])
  /\ frame'[PicOf(w)].id = frame[PicOf(w)].id /\ frame'[PicOf(w)].frontier = frontier
  /\ frame'[PicOf(w)].remaining = remaining /\ frame'[PicOf(w)].rows = rows

(* The tasks, the parser and the DPB stay as they are.                     *)
PoolSame == UNCHANGED <<stream, next, tasks, busy, pending, held, refFrames, toGet, currPic, ppc>>

LEMMA WakingWork ==
  ASSUME NEW c, NEW W, NEW v \in Worker, c[v] \in Context
  PROVE  /\ SameWork(c[v], WakeWorkers(c, W)[v])
         /\ c[v].pc \notin SleepPc \union {"asleep"} => WakeWorkers(c, W)[v] = c[v]
<1> DEFINE d == WakeWorkers(c, W)
           to == CASE c[v].pc = "asleep" -> "idle"
                   [] c[v].pc = "refSleep" -> "ref"
                   [] c[v].pc = "boundSleep" -> "parsed"
                   [] OTHER -> c[v].pc
<1>1. d[v] = IF v \notin W THEN c[v] ELSE [c[v] EXCEPT !.pc = to]
  BY DEF WakeWorkers
<1>2. \/ c[v].pc = "asleep" /\ to = "idle"
      \/ c[v].pc = "refSleep" /\ to = "ref"
      \/ c[v].pc = "boundSleep" /\ to = "parsed"
      \/ c[v].pc \notin {"asleep", "refSleep", "boundSleep"} /\ to = c[v].pc
  OBVIOUS
<1> HIDE DEF d, to
<1>3. CASE v \notin W
  BY <1>1, <1>3 DEF SameWork, d
<1>4. CASE v \in W
  <2>1. d[v] = [c[v] EXCEPT !.pc = to] BY <1>1, <1>4
  <2>2. /\ d[v].pc = to /\ d[v].task = c[v].task /\ d[v].row = c[v].row
        /\ d[v].bound = c[v].bound /\ d[v].turn = c[v].turn
    BY <2>1 DEF Context
  <2>3. to = c[v].pc => d[v] = c[v] BY <2>1 DEF Context
  <2> QED BY <1>2, <2>2, <2>3 DEF SameWork, SleepPc, d
<1> QED BY <1>3, <1>4

(* A step that wakes the workers of W, and nothing else for the contexts.  *)
LEMMA WakingAll ==
  ASSUME TypeOK, NEW W, ctx' = WakeWorkers(ctx, W) \/ ctx' = ctx
  PROVE  AllWork
<1> SUFFICES ASSUME NEW v \in Worker PROVE SameWork(ctx[v], ctx'[v]) BY DEF AllWork
<1>1. ctx[v] \in Context BY DEF TypeOK
<1>2. CASE ctx' = ctx BY <1>2 DEF SameWork
<1> QED BY <1>1, <1>2, WakingWork

(* One whose worker has the context r before it wakes the others.          *)
LEMMA MovedFrom ==
  ASSUME TypeOK, NEW w \in Worker, NEW c, c[w] \in Context, c[w].pc \notin SleepPc \union {"asleep"},
         \A v \in Worker \ {w} : c[v] = ctx[v], NEW W, ctx' = WakeWorkers(c, W)
  PROVE  OthersWork(w) /\ ctx'[w] = c[w]
<1>1. ctx'[w] = c[w] BY WakingWork
<1>2. ASSUME NEW v \in Worker \ {w}
      PROVE  SameWork(ctx[v], ctx'[v])
  <2>1. c[v] = ctx[v] /\ ctx[v] \in Context BY DEF TypeOK
  <2> QED BY <2>1, WakingWork
<1> QED BY <1>1, <1>2 DEF OthersWork

LEMMA MovedWaking ==
  ASSUME TypeOK, NEW w \in Worker, NEW r \in Context, r.pc \notin SleepPc \union {"asleep"},
         NEW W, ctx' = WakeWorkers([ctx EXCEPT ![w] = r], W)
  PROVE  OthersWork(w) /\ ctx'[w] = r
<1> DEFINE c == [ctx EXCEPT ![w] = r]
<1>1. c[w] = r /\ \A v \in Worker \ {w} : c[v] = ctx[v] BY DEF TypeOK
<1> HIDE DEF c
<1>2. ctx' = WakeWorkers(c, W) BY DEF c
<1> QED BY <1>1, <1>2, MovedFrom

LEMMA MovedAlone ==
  ASSUME TypeOK, NEW w \in Worker, NEW r, ctx' = [ctx EXCEPT ![w] = r]
  PROVE  OthersWork(w) /\ ctx'[w] = r
BY DEF TypeOK, OthersWork, SameWork

LEMMA QuietSame ==
  ASSUME NEW fr \in [Slot -> FrameRecord], NEW F, NEW s \in Slot
  PROVE  SameFrame(fr[s], Quiet(fr, F)[s])
BY DEF Quiet, FrameRecord, SameFrame

LEMMA QuietFrames ==
  ASSUME TypeOK, NEW F, frame' = Quiet(frame, F) \/ frame' = frame
  PROVE  FramesSame
BY QuietSame DEF FramesSame, TypeOK, SameFrame

LEMMA WakeFrames ==
  ASSUME TypeOK, NEW s, NEW a, frame' = [frame EXCEPT ![s].wake = a]
  PROVE  FramesSame
BY DEF FramesSame, TypeOK, SameFrame, FrameRecord

(* Storing into the slot of a worker.                                      *)
LEMMA StoringFrames ==
  ASSUME TypeOK, NEW w, PicOf(w) \in Slot, NEW a, NEW b
  PROVE  LET s == PicOf(w)
             f == frame[PicOf(w)]
         IN  /\ frame' = [frame EXCEPT ![s].frontier = a, ![s].rows = b] => Stored(w, a, f.remaining, b)
             /\ frame' = [frame EXCEPT ![s].rows = b] => Stored(w, f.frontier, f.remaining, b)
             /\ frame' = [frame EXCEPT ![s].remaining = a, ![s].frontier = b] => Stored(w, b, a, f.rows)
<1> DEFINE s == PicOf(w)
<1>1. frame \in [Slot -> FrameRecord] /\ s \in Slot BY DEF TypeOK
<1>2. frame[s] \in FrameRecord BY <1>1
<1>3. ASSUME frame' = [frame EXCEPT ![s].frontier = a, ![s].rows = b]
      PROVE  Stored(w, a, frame[s].remaining, b)
  <2>1. frame'[s] = [frame[s] EXCEPT !.frontier = a, !.rows = b] BY <1>1, <1>3
  <2>2. \A u \in Slot \ {s} : frame'[u] = frame[u] BY <1>1, <1>3
  <2>3. /\ frame'[s].id = frame[s].id /\ frame'[s].frontier = a
        /\ frame'[s].remaining = frame[s].remaining /\ frame'[s].rows = b
    BY <1>2, <2>1 DEF FrameRecord
  <2> QED BY <2>2, <2>3 DEF Stored, SameFrame
<1>4. ASSUME frame' = [frame EXCEPT ![s].rows = b]
      PROVE  Stored(w, frame[s].frontier, frame[s].remaining, b)
  <2>1. frame'[s] = [frame[s] EXCEPT !.rows = b] BY <1>1, <1>4
  <2>2. \A u \in Slot \ {s} : frame'[u] = frame[u] BY <1>1, <1>4
  <2>3. /\ frame'[s].id = frame[s].id /\ frame'[s].frontier = frame[s].frontier
        /\ frame'[s].remaining = frame[s].remaining /\ frame'[s].rows = b
    BY <1>2, <2>1 DEF FrameRecord
  <2> QED BY <2>2, <2>3 DEF Stored, SameFrame
<1>5. ASSUME frame' = [frame EXCEPT ![s].remaining = a, ![s].frontier = b]
      PROVE  Stored(w, b, a, frame[s].rows)
  <2>1. frame'[s] = [frame[s] EXCEPT !.remaining = a, !.frontier = b] BY <1>1, <1>5
  <2>2. \A u \in Slot \ {s} : frame'[u] = frame[u] BY <1>1, <1>5
  <2>3. /\ frame'[s].id = frame[s].id /\ frame'[s].frontier = b
        /\ frame'[s].remaining = a /\ frame'[s].rows = frame[s].rows
    BY <1>2, <2>1 DEF FrameRecord
  <2> QED BY <2>2, <2>3 DEF Stored, SameFrame
<1> QED BY <1>3, <1>4, <1>5

(* A worker whose program counter moves on.                                *)
LEMMA MovedPc ==
  ASSUME TypeOK, NEW w \in Worker, NEW pc \in Pc,
         \/ ctx' = [ctx EXCEPT ![w].pc = pc]
         \/ /\ pc \notin SleepPc \union {"asleep"}
            /\ \E W : ctx' = WakeWorkers([ctx EXCEPT ![w].pc = pc], W)
  PROVE  Moved(w, pc, ctx[w].row, ctx[w].bound)
<1> DEFINE r == [ctx[w] EXCEPT !.pc = pc]
<1>1. ctx \in [Worker -> Context] /\ ctx[w] \in Context BY DEF TypeOK
<1>2. [ctx EXCEPT ![w].pc = pc] = [ctx EXCEPT ![w] = r] BY MovedOn
<1>3. /\ r \in Context /\ r.pc = pc /\ r.row = ctx[w].row /\ r.bound = ctx[w].bound
      /\ r.task = ctx[w].task /\ r.turn = ctx[w].turn
  BY <1>1 DEF Context
<1> HIDE DEF r
<1>4. OthersWork(w) /\ ctx'[w] = r
  <2>1. CASE ctx' = [ctx EXCEPT ![w] = r] BY <2>1, MovedAlone
  <2>2. ASSUME pc \notin SleepPc \union {"asleep"}, NEW W, ctx' = WakeWorkers([ctx EXCEPT ![w] = r], W)
        PROVE  OthersWork(w) /\ ctx'[w] = r
    BY <1>3, <2>2, MovedWaking
  <2> QED BY <1>2, <2>1, <2>2
<1> QED BY <1>3, <1>4 DEF Moved

(* A worker that stores a frontier, and goes on at row `row'.              *)
LEMMA MovedStoring ==
  ASSUME TypeOK, NEW w \in Worker, PicOf(w) \in Slot, NEW row, NEW addr, NEW rows,
         NEW notify, NEW pc, StoreFrontier(w, [ctx[w] EXCEPT !.row = row], addr, notify, pc, rows)
  PROVE  /\ Moved(w, notify, row, ctx[w].bound) \/ Moved(w, pc, row, ctx[w].bound)
         /\ Stored(w, addr, frame[PicOf(w)].remaining, rows)
<1> DEFINE p == IF addr >= frame[PicOf(w)].wake THEN notify ELSE pc
           r == [[ctx[w] EXCEPT !.row = row] EXCEPT !.pc = p]
<1>1. ctx' = [ctx EXCEPT ![w] = r] BY Zenon DEF StoreFrontier
<1>2. frame' = [frame EXCEPT ![PicOf(w)].frontier = addr, ![PicOf(w)].rows = rows]
  BY Zenon DEF StoreFrontier
<1>3. Stored(w, addr, frame[PicOf(w)].remaining, rows) BY <1>2, StoringFrames
<1>4. ctx[w] \in Context BY DEF TypeOK
<1>5. p = notify \/ p = pc OBVIOUS
<1> HIDE DEF p
<1>6. /\ r.pc = p /\ r.row = row /\ r.bound = ctx[w].bound
      /\ r.task = ctx[w].task /\ r.turn = ctx[w].turn
  BY <1>4 DEF Context
<1> HIDE DEF r
<1>7. OthersWork(w) /\ ctx'[w] = r BY <1>1, MovedAlone
<1> QED BY <1>3, <1>5, <1>6, <1>7 DEF Moved

LEMMA MovedSame ==
  ASSUME TypeOK, NEW w \in Worker
  PROVE  [ctx[w] EXCEPT !.row = ctx[w].row] = ctx[w]
BY DEF TypeOK, Context

(* ack_mb_bound.                                                           *)
LEMMA AckEffect ==
  ASSUME TypeOK, NEW w \in Worker, NEW r \in Context, r.pc \notin SleepPc \union {"asleep"},
         NEW c, c = [ctx EXCEPT ![w] = r], AckBound(w, c)
  PROVE  /\ OthersWork(w) /\ ctx'[w] = r /\ FramesSame
         /\ acked' = acked \union {ctx[w].task}
<1>1. /\ frame' = Quiet(frame, {PicOf(w)}) /\ acked' = acked \union {ctx[w].task}
      /\ \E W : ctx' = WakeWorkers(c, W)
  BY Zenon DEF AckBound
<1>2. FramesSame BY <1>1, QuietFrames
<1>3. \E W : ctx' = WakeWorkers([ctx EXCEPT ![w] = r], W) BY <1>1
<1> QED BY <1>1, <1>2, <1>3, MovedWaking

(* known_mb_bound.                                                         *)
LEMMA LearnBoundEffect ==
  ASSUME TypeOK, NEW w \in Worker, LearnBound(w), tasks[ctx[w].task] \in TaskRecord
  PROVE  LET b == tasks[ctx[w].task].bound
         IN  /\ ctx[w].pc \in {"claim", "parsed", "ref"} /\ ctx[w].bound = Unknown /\ b # Unknown
             /\ Moved(w, ctx[w].pc, ctx[w].row, b) /\ FramesSame /\ PoolSame /\ flagged' = flagged
             /\ acked' = acked \/ (acked' = acked \union {ctx[w].task} /\ Top(ctx[w]) <= b)
<1> DEFINE b == tasks[ctx[w].task].bound
           r == [ctx[w] EXCEPT !.bound = b]
           c == [ctx EXCEPT ![w].bound = b]
           end == ctx[w].row + (IF ctx[w].pc = "ref" THEN 1 ELSE 0)
<1>1. /\ ctx[w].pc \in {"claim", "parsed", "ref"} /\ CanLearn(w)
      /\ IF end > b THEN ctx' = c /\ UNCHANGED <<acked, frame, pwait>> ELSE AckBound(w, c)
      /\ PoolSame /\ flagged' = flagged
  BY Zenon DEF LearnBound, PoolSame, streamVars
<1>2. ctx[w].bound = Unknown /\ b # Unknown BY <1>1 DEF CanLearn, Known
<1>3. ctx \in [Worker -> Context] /\ ctx[w] \in Context /\ b \in 0 .. Inf
  BY DEF TypeOK, TaskRecord
<1>4. c = [ctx EXCEPT ![w] = r] BY <1>3
<1>5. end = Top(ctx[w]) /\ end \in Int BY <1>1, <1>3 DEF Top, Context
<1> HIDE DEF end, b
<1>6. /\ r \in Context /\ r.pc = ctx[w].pc /\ r.row = ctx[w].row /\ r.bound = b
      /\ r.task = ctx[w].task /\ r.turn = ctx[w].turn
  BY <1>3 DEF Context
<1>7. r.pc \notin SleepPc \union {"asleep"} BY <1>1, <1>6 DEF SleepPc
<1> HIDE DEF r, c
<1>8. /\ OthersWork(w) /\ ctx'[w] = r /\ FramesSame
      /\ acked' = acked \/ (acked' = acked \union {ctx[w].task} /\ end <= b)
  <2>1. CASE end > b
    <3>1. ctx' = [ctx EXCEPT ![w] = r] /\ frame' = frame /\ acked' = acked BY <1>1, <1>4, <2>1
    <3> QED BY <3>1, MovedAlone, QuietFrames
  <2>2. CASE ~(end > b)
    <3>1. AckBound(w, c) BY <1>1, <2>2
    <3>2. end <= b BY <1>3, <1>5, <2>2 DEF Inf
    <3> QED BY <1>4, <1>6, <1>7, <3>1, <3>2, AckEffect
  <2> QED BY <2>1, <2>2
<1>9. Moved(w, ctx[w].pc, ctx[w].row, b) BY <1>6, <1>8 DEF Moved
<1> QED BY <1>1, <1>2, <1>5, <1>8, <1>9 DEF b

LEMMA PcTypes == DecodePc \subseteq Pc
BY DEF Pc

(* The steps of a slice, from its claim of a row on.                       *)
LEMMA ClaimRowEffect ==
  ASSUME PoolInv, NEW w \in Worker, ClaimRow(w)
  PROVE  LET f == frame[PicOf(w)]
             r == ctx[w].row
             claim == IF Stale(ctx[w].task) THEN Undecoded ELSE Decoded(tasks[ctx[w].task].job)
         IN  /\ ctx[w].pc = "claim" /\ PoolSame /\ acked' = acked /\ flagged' = flagged
             /\ \/ /\ Moved(w, "parsed", r, ctx[w].bound) /\ FramesSame
                   /\ r >= ctx[w].bound \/ Claimed(w)
                \/ /\ Moved(w, "ref", r, ctx[w].bound) /\ r < ctx[w].bound /\ ~Claimed(w)
                   /\ Stored(w, f.frontier, f.remaining, [f.rows EXCEPT ![r] = claim])
<1> DEFINE s == PicOf(w)
           r == ctx[w].row
           claim == IF Stale(ctx[w].task) THEN Undecoded ELSE Decoded(tasks[ctx[w].task].job)
<1>1. /\ ctx[w].pc = "claim" /\ PoolSame /\ acked' = acked /\ flagged' = flagged
      /\ \/ /\ ctx' = [ctx EXCEPT ![w].pc = "parsed"] /\ frame' = frame
            /\ r >= ctx[w].bound \/ Claimed(w)
         \/ /\ ctx' = [ctx EXCEPT ![w].pc = "ref"] /\ r < ctx[w].bound /\ ~Claimed(w)
            /\ frame' = [frame EXCEPT ![s].rows[r] = claim]
  BY Zenon DEF ClaimRow, PoolSame, poolVars, streamVars, parserVars
<1>2. TypeOK /\ s \in Slot /\ "parsed" \in Pc /\ "ref" \in Pc
  BY <1>1, AtWork DEF PoolInv, Decodes, DecodePc, Pc
<1>3. ASSUME ctx' = [ctx EXCEPT ![w].pc = "parsed"], frame' = frame
      PROVE  Moved(w, "parsed", r, ctx[w].bound) /\ FramesSame
  BY <1>2, <1>3, MovedPc, QuietFrames
<1>4. ASSUME ctx' = [ctx EXCEPT ![w].pc = "ref"], frame' = [frame EXCEPT ![s].rows[r] = claim]
      PROVE  /\ Moved(w, "ref", r, ctx[w].bound)
             /\ Stored(w, frame[s].frontier, frame[s].remaining, [frame[s].rows EXCEPT ![r] = claim])
  <2>1. Moved(w, "ref", r, ctx[w].bound) BY <1>2, <1>4, MovedPc
  <2> HIDE DEF s, r, claim
  <2>2. frame' = [frame EXCEPT ![s].rows = [frame[s].rows EXCEPT ![r] = claim]] BY <1>4
  <2> USE DEF s, r, claim
  <2>3. Stored(w, frame[s].frontier, frame[s].remaining, [frame[s].rows EXCEPT ![r] = claim])
    BY <1>2, <2>2, StoringFrames, Zenon
  <2> QED BY <2>1, <2>3
<1> HIDE DEF claim
<1> QED
  <2>1. CASE ctx' = [ctx EXCEPT ![w].pc = "parsed"] /\ frame' = frame /\ (r >= ctx[w].bound \/ Claimed(w))
    BY <1>1, <1>3, <2>1, Zenon
  <2>2. CASE /\ ctx' = [ctx EXCEPT ![w].pc = "ref"] /\ r < ctx[w].bound /\ ~Claimed(w)
             /\ frame' = [frame EXCEPT ![s].rows[r] = claim]
    BY <1>1, <1>4, <2>2, Zenon DEF claim
  <2> QED BY <1>1, <2>1, <2>2, Zenon

LEMMA AwaitRowEffect ==
  ASSUME PoolInv, NEW w \in Worker, AwaitRow(w)
  PROVE  /\ ctx[w].pc = "ref" /\ PoolSame /\ acked' = acked
         /\ \/ ReleaseTerminal(ctx, 0)
            \/ Moved(w, "refSleep", ctx[w].row, ctx[w].bound) /\ FramesSame /\ flagged' = flagged \union Terminal
<1>1. /\ ctx[w].pc = "ref" /\ PoolSame /\ acked' = acked
      /\ \/ ReleaseTerminal(ctx, 0)
         \/ \E s \in Lacking(w) : /\ ctx' = [ctx EXCEPT ![w].pc = "refSleep", ![w].on = s]
                                  /\ frame' = [frame EXCEPT ![s].wake = WakeAddress(w, s)]
                                  /\ flagged' = flagged \union Terminal
  BY Zenon DEF AwaitRow, PoolSame, streamVars, parserVars
<1>2. TypeOK BY DEF PoolInv
<1>3. ASSUME NEW s, ctx' = [ctx EXCEPT ![w].pc = "refSleep", ![w].on = s],
             frame' = [frame EXCEPT ![s].wake = WakeAddress(w, s)]
      PROVE  Moved(w, "refSleep", ctx[w].row, ctx[w].bound) /\ FramesSame
  <2> DEFINE r == [ctx[w] EXCEPT !.pc = "refSleep", !.on = s]
  <2>1. ctx \in [Worker -> Context] /\ ctx[w] \in Context BY <1>2 DEF TypeOK
  <2>2. ctx' = [ctx EXCEPT ![w] = r] BY <1>3, <2>1
  <2>3. /\ r.pc = "refSleep" /\ r.row = ctx[w].row /\ r.bound = ctx[w].bound
        /\ r.task = ctx[w].task /\ r.turn = ctx[w].turn
    BY <2>1 DEF Context
  <2> HIDE DEF r
  <2>4. OthersWork(w) /\ ctx'[w] = r BY <1>2, <2>2, MovedAlone
  <2> QED BY <1>2, <1>3, <2>3, <2>4, WakeFrames DEF Moved
<1> QED BY <1>1, <1>3, Zenon

LEMMA DecodeRowEffect ==
  ASSUME PoolInv, NEW w \in Worker, DecodeRow(w)
  PROVE  LET f == frame[PicOf(w)]
             row == ctx[w].row + 1
             after == AfterRow(w, row)
         IN  /\ ctx[w].pc = "ref" /\ PoolSame /\ acked' = acked /\ flagged' = flagged
             /\ \/ /\ ctx[w].turn
                   /\ Moved(w, "notifyRow", row, ctx[w].bound) \/ Moved(w, after, row, ctx[w].bound)
                   /\ Stored(w, Larger(SliceAt(w).first, row - Lag), f.remaining, f.rows)
                \/ ~ctx[w].turn /\ Moved(w, after, row, ctx[w].bound) /\ FramesSame
<1> DEFINE row == ctx[w].row + 1
           after == AfterRow(w, row)
           c == [ctx[w] EXCEPT !.row = row]
           r == [c EXCEPT !.pc = after]
           addr == Larger(SliceAt(w).first, row - Lag)
<1>1. /\ ctx[w].pc = "ref" /\ PoolSame /\ acked' = acked /\ flagged' = flagged
      /\ IF ctx[w].turn THEN StoreFrontier(w, c, addr, "notifyRow", after, frame[PicOf(w)].rows)
         ELSE ctx' = [ctx EXCEPT ![w] = r] /\ frame' = frame
  BY Zenon DEF DecodeRow, PoolSame, poolVars, streamVars, parserVars
<1>2. TypeOK /\ PicOf(w) \in Slot /\ ctx[w] \in Context
  BY <1>1, AtWork DEF PoolInv, Decodes, DecodePc, TypeOK
<1>3. /\ r.pc = after /\ r.row = row /\ r.bound = ctx[w].bound
      /\ r.task = ctx[w].task /\ r.turn = ctx[w].turn
  <2> HIDE DEF row, after
  <2> QED BY <1>2 DEF Context
<1> HIDE DEF row, after, addr
<1>4. CASE ctx[w].turn
  <2>1. StoreFrontier(w, [ctx[w] EXCEPT !.row = row], addr, "notifyRow", after, frame[PicOf(w)].rows)
    BY <1>1, <1>4
  <2>2. /\ Moved(w, "notifyRow", row, ctx[w].bound) \/ Moved(w, after, row, ctx[w].bound)
        /\ Stored(w, addr, frame[PicOf(w)].remaining, frame[PicOf(w)].rows)
    BY <1>2, <2>1, MovedStoring
  <2> QED BY <1>1, <1>4, <2>2, Zenon DEF row, after, addr
<1>5. CASE ~ctx[w].turn
  <2> HIDE DEF r
  <2>1. OthersWork(w) /\ ctx'[w] = r /\ FramesSame BY <1>1, <1>2, <1>5, MovedAlone, QuietFrames
  <2>2. Moved(w, after, row, ctx[w].bound) BY <1>3, <2>1 DEF Moved
  <2> QED BY <1>1, <1>5, <2>1, <2>2, Zenon DEF row, after
<1> QED BY <1>4, <1>5

LEMMA AwaitBoundEffect ==
  ASSUME PoolInv, NEW w \in Worker, AwaitBound(w)
  PROVE  /\ ctx[w].pc = "parsed" /\ ctx[w].bound = Unknown /\ PoolSame /\ acked' = acked /\ flagged' = flagged
         /\ Moved(w, "boundSleep", ctx[w].row, ctx[w].bound) /\ FramesSame
<1> DEFINE s == PicOf(w)
           r == [ctx[w] EXCEPT !.pc = "boundSleep", !.on = s]
<1>1. /\ ctx[w].pc = "parsed" /\ ~Known(w) /\ PoolSame /\ acked' = acked /\ flagged' = flagged
      /\ frame' = [frame EXCEPT ![s].wake = -1]
      /\ ctx' = [ctx EXCEPT ![w].pc = "boundSleep", ![w].on = s]
  BY Zenon DEF AwaitBound, PoolSame, poolVars, streamVars, parserVars
<1>2. TypeOK /\ ctx \in [Worker -> Context] /\ ctx[w] \in Context BY DEF PoolInv, TypeOK
<1> HIDE DEF s
<1>3. ctx' = [ctx EXCEPT ![w] = r] BY <1>1, <1>2
<1>4. /\ r.pc = "boundSleep" /\ r.row = ctx[w].row /\ r.bound = ctx[w].bound
      /\ r.task = ctx[w].task /\ r.turn = ctx[w].turn
  BY <1>2 DEF Context
<1> HIDE DEF r
<1>5. OthersWork(w) /\ ctx'[w] = r BY <1>2, <1>3, MovedAlone
<1> QED BY <1>1, <1>2, <1>4, <1>5, WakeFrames DEF Moved, Known

LEMMA TakeBackEffect ==
  ASSUME PoolInv, NEW w \in Worker, TakeBack(w)
  PROVE  LET f == frame[PicOf(w)]
             first == SliceAt(w).first
         IN  /\ ctx[w].pc = "parsed" /\ Overrun(w) /\ PoolSame /\ acked' = acked /\ flagged' = flagged
             /\ \E pc \in BackPc : Moved(w, pc, ctx[w].row, ctx[w].bound)
             /\ Stored(w, IF ctx[w].turn THEN first ELSE f.frontier, f.remaining,
                       [r \in Row |-> IF r \in first .. ctx[w].row - 1 THEN Undecoded ELSE f.rows[r]])
<1> DEFINE s == PicOf(w)
           first == SliceAt(w).first
           rows == [r \in Row |-> IF r \in first .. ctx[w].row - 1 THEN Undecoded ELSE frame[s].rows[r]]
<1>1. /\ ctx[w].pc = "parsed" /\ Overrun(w) /\ PoolSame /\ acked' = acked /\ flagged' = flagged
      /\ IF ctx[w].turn THEN StoreFrontier(w, ctx[w], first, "notifyBack", "redo", rows)
         ELSE frame' = [frame EXCEPT ![s].rows = rows] /\ ctx' = [ctx EXCEPT ![w].pc = "redo"]
  BY Zenon DEF TakeBack, PoolSame, poolVars, streamVars, parserVars
<1>2. TypeOK /\ PicOf(w) \in Slot /\ "redo" \in Pc
  BY <1>1, AtWork DEF PoolInv, Decodes, DecodePc, Pc
<1> HIDE DEF first, rows
<1>3. CASE ctx[w].turn
  <2>1. StoreFrontier(w, [ctx[w] EXCEPT !.row = ctx[w].row], first, "notifyBack", "redo", rows)
    BY <1>1, <1>2, <1>3, MovedSame
  <2>2. /\ Moved(w, "notifyBack", ctx[w].row, ctx[w].bound) \/ Moved(w, "redo", ctx[w].row, ctx[w].bound)
        /\ Stored(w, first, frame[s].remaining, rows)
    BY <1>2, <2>1, MovedStoring
  <2>3. \E pc \in BackPc : Moved(w, pc, ctx[w].row, ctx[w].bound) BY <2>2 DEF BackPc
  <2> QED BY <1>1, <1>3, <2>2, <2>3, Zenon DEF first, rows
<1>4. CASE ~ctx[w].turn
  <2>1. Moved(w, "redo", ctx[w].row, ctx[w].bound) BY <1>1, <1>2, <1>4, MovedPc
  <2>2. \E pc \in BackPc : Moved(w, pc, ctx[w].row, ctx[w].bound) BY <2>1 DEF BackPc
  <2>3. Stored(w, frame[s].frontier, frame[s].remaining, rows) BY <1>1, <1>2, <1>4, StoringFrames, Zenon
  <2> QED BY <1>1, <1>4, <2>2, <2>3, Zenon DEF first, rows
<1> QED BY <1>3, <1>4

LEMMA RedoEffect ==
  ASSUME PoolInv, NEW w \in Worker, Redo(w)
  PROVE  /\ ctx[w].pc = "redo" /\ PoolSame /\ flagged' = flagged /\ acked' = acked \union {ctx[w].task}
         /\ Moved(w, "claim", SliceAt(w).first, ctx[w].bound) /\ FramesSame
<1> DEFINE first == SliceAt(w).first
           r == [ctx[w] EXCEPT !.pc = "claim", !.row = first]
           c == [ctx EXCEPT ![w].pc = "claim", ![w].row = first]
<1>1. ctx[w].pc = "redo" /\ PoolSame /\ flagged' = flagged /\ AckBound(w, c)
  BY Zenon DEF Redo, PoolSame, streamVars
<1>2. TypeOK /\ ctx \in [Worker -> Context] /\ ctx[w] \in Context BY DEF PoolInv, TypeOK
<1>3. first \in 0 .. Rows BY <1>1, SliceBounds DEF Decodes, DecodePc
<1> HIDE DEF first
<1>4. c = [ctx EXCEPT ![w] = r] BY <1>2
<1>5. /\ r \in Context /\ r.pc = "claim" /\ r.row = first /\ r.bound = ctx[w].bound
      /\ r.task = ctx[w].task /\ r.turn = ctx[w].turn
  BY <1>2, <1>3 DEF Context, Pc, DecodePc
<1>6. "claim" \notin SleepPc \union {"asleep"} BY DEF SleepPc
<1> HIDE DEF r, c
<1>7. OthersWork(w) /\ ctx'[w] = r /\ FramesSame /\ acked' = acked \union {ctx[w].task}
  BY <1>1, <1>2, <1>4, <1>5, <1>6, AckEffect
<1> QED BY <1>1, <1>5, <1>7 DEF Moved, first

LEMMA PublishSliceEffect ==
  ASSUME PoolInv, NEW w \in Worker, PublishSlice(w)
  PROVE  LET f == frame[PicOf(w)]
             keep == KeepRow(SliceAt(w), ctx[w].row)
             rows == [r \in Row |-> IF FailedAt(w) /\ r \in keep .. ctx[w].row - 1
                                      THEN Recovered(tasks[ctx[w].task].job) ELSE f.rows[r]]
         IN  /\ ctx[w].pc = "parsed" /\ Known(w) /\ ~Overrun(w) /\ PoolSame /\ acked' = acked
             /\ flagged' = IF FailedAt(w) THEN flagged \union {PicOf(w)} ELSE flagged
             /\ Moved(w, "notifySlice", ctx[w].row, ctx[w].bound) \/ Moved(w, "count", ctx[w].row, ctx[w].bound)
             /\ Stored(w, IF InTurn(w) THEN keep ELSE f.frontier, f.remaining, rows)
<1> DEFINE s == PicOf(w)
           keep == KeepRow(SliceAt(w), ctx[w].row)
           rows == [r \in Row |-> IF FailedAt(w) /\ r \in keep .. ctx[w].row - 1
                                    THEN Recovered(tasks[ctx[w].task].job) ELSE frame[s].rows[r]]
<1>1. /\ ctx[w].pc = "parsed" /\ Known(w) /\ ~Overrun(w) /\ PoolSame /\ acked' = acked
      /\ flagged' = IF FailedAt(w) THEN flagged \union {s} ELSE flagged
      /\ IF InTurn(w) THEN StoreFrontier(w, ctx[w], keep, "notifySlice", "count", rows)
         ELSE frame' = [frame EXCEPT ![s].rows = rows] /\ ctx' = [ctx EXCEPT ![w].pc = "count"]
  BY Zenon DEF PublishSlice, PoolSame, poolVars, streamVars, parserVars
<1>2. TypeOK /\ PicOf(w) \in Slot /\ "count" \in Pc
  BY <1>1, AtWork DEF PoolInv, Decodes, DecodePc, Pc
<1> HIDE DEF keep, rows
<1>3. CASE InTurn(w)
  <2>1. StoreFrontier(w, [ctx[w] EXCEPT !.row = ctx[w].row], keep, "notifySlice", "count", rows)
    BY <1>1, <1>2, <1>3, MovedSame
  <2>2. /\ Moved(w, "notifySlice", ctx[w].row, ctx[w].bound) \/ Moved(w, "count", ctx[w].row, ctx[w].bound)
        /\ Stored(w, keep, frame[s].remaining, rows)
    BY <1>2, <2>1, MovedStoring
  <2> QED BY <1>1, <1>3, <2>2, Zenon DEF keep, rows
<1>4. CASE ~InTurn(w)
  <2>1. Moved(w, "count", ctx[w].row, ctx[w].bound) BY <1>1, <1>2, <1>4, MovedPc
  <2>2. Stored(w, frame[s].frontier, frame[s].remaining, rows) BY <1>1, <1>2, <1>4, StoringFrames, Zenon
  <2> QED BY <1>1, <1>4, <2>1, <2>2, Zenon DEF keep, rows
<1> QED BY <1>3, <1>4

LEMMA CountSliceEffect ==
  ASSUME PoolInv, NEW w \in Worker, CountSlice(w)
  PROVE  LET f == frame[PicOf(w)]
             left == f.remaining - (ctx[w].row - SliceAt(w).first)
             last == ~FailedAt(w) /\ left = 0
         IN  /\ ctx[w].pc = "count" /\ PoolSame /\ acked' = acked /\ flagged' = flagged
             /\ Moved(w, IF last THEN "notifyDone" ELSE "finish", ctx[w].row, ctx[w].bound)
             /\ Stored(w, IF last THEN Inf ELSE f.frontier, IF FailedAt(w) THEN f.remaining ELSE left, f.rows)
<1> DEFINE s == PicOf(w)
           left == frame[s].remaining - (ctx[w].row - SliceAt(w).first)
           last == ~FailedAt(w) /\ left = 0
           pc == IF last THEN "notifyDone" ELSE "finish"
           r == [ctx[w] EXCEPT !.last = last, !.pc = pc]
           a == IF FailedAt(w) THEN frame[s].remaining ELSE left
           b == IF last THEN Inf ELSE frame[s].frontier
<1>1. /\ ctx[w].pc = "count" /\ PoolSame /\ acked' = acked /\ flagged' = flagged
      /\ frame' = [frame EXCEPT ![s].remaining = a, ![s].frontier = b]
      /\ ctx' = [ctx EXCEPT ![w].last = last, ![w].pc = pc]
  BY Zenon DEF CountSlice, PoolSame, poolVars, streamVars, parserVars
<1>2. TypeOK /\ PicOf(w) \in Slot /\ ctx \in [Worker -> Context] /\ ctx[w] \in Context
  BY <1>1, AtWork DEF PoolInv, Decodes, DecodePc, TypeOK
<1> HIDE DEF last, a, b
<1>3. Stored(w, b, a, frame[s].rows) BY <1>1, <1>2, StoringFrames, Zenon
<1> HIDE DEF s, left, pc
<1>4. ctx' = [ctx EXCEPT ![w] = r] BY <1>1, <1>2
<1>5. /\ r.pc = pc /\ r.row = ctx[w].row /\ r.bound = ctx[w].bound
      /\ r.task = ctx[w].task /\ r.turn = ctx[w].turn
  BY <1>2 DEF Context
<1> HIDE DEF r
<1>6. OthersWork(w) /\ ctx'[w] = r BY <1>2, <1>4, MovedAlone
<1>7. Moved(w, pc, ctx[w].row, ctx[w].bound) BY <1>5, <1>6 DEF Moved
<1> QED BY <1>1, <1>3, <1>7, Zenon DEF last, a, b, s, left, pc

LEMMA NotifyEffect ==
  ASSUME PoolInv, NEW w \in Worker, Notify(w)
  PROVE  /\ ctx[w].pc \in NotifyPc /\ PoolSame /\ acked' = acked /\ flagged' = flagged /\ FramesSame
         /\ Moved(w, CASE ctx[w].pc = "notifyRow" -> AfterRow(w, ctx[w].row)
                       [] ctx[w].pc = "notifyBack" -> "redo"
                       [] ctx[w].pc = "notifySlice" -> "count"
                       [] ctx[w].pc = "notifyDone" -> "finish", ctx[w].row, ctx[w].bound)
<1> DEFINE pc == CASE ctx[w].pc = "notifyRow" -> AfterRow(w, ctx[w].row)
                   [] ctx[w].pc = "notifyBack" -> "redo"
                   [] ctx[w].pc = "notifySlice" -> "count"
                   [] ctx[w].pc = "notifyDone" -> "finish"
<1>1. /\ ctx[w].pc \in NotifyPc /\ PoolSame /\ acked' = acked /\ flagged' = flagged
      /\ frame' = Quiet(frame, {PicOf(w)})
      /\ \E W : ctx' = WakeWorkers([ctx EXCEPT ![w].pc = pc], W)
  BY Zenon DEF Notify, PoolSame, poolVars, streamVars
<1>2. TypeOK BY DEF PoolInv
<1>3. pc \in {"claim", "parsed", "redo", "count", "finish"} BY <1>1 DEF AfterRow, NotifyPc
<1> HIDE DEF pc
<1>4. pc \in Pc /\ pc \notin SleepPc \union {"asleep"} BY <1>3 DEF Pc, DecodePc, SleepPc
<1>5. Moved(w, pc, ctx[w].row, ctx[w].bound) BY <1>1, <1>2, <1>4, MovedPc
<1> QED BY <1>1, <1>2, <1>5, QuietFrames, Zenon DEF pc

(* Taking a task.                                                          *)
LEMMA TakeTaskEffect ==
  ASSUME PoolInv, NEW w \in Worker, TakeTask(w)
  PROVE  \E t \in pending :
           /\ UNCHANGED <<stream, next, tasks, busy, held, frame, flagged, refFrames, toGet, currPic, ppc>>
           /\ ctx[w].pc \in {"idle", "take"} /\ OthersWork(w)
           /\ ctx'[w].pc = "claim" /\ ctx'[w].task = t /\ ctx'[w].row = SliceOf(t).first
           /\ ctx'[w].bound = tasks[t].bound
           /\ ctx'[w].turn = (frame[tasks[t].pic].frontier = SliceOf(t).first
                /\ ~ \E u \in busy \ acked' : tasks[u].pic = tasks[t].pic /\ tasks[u].job < tasks[t].job)
           /\ pending' = pending \ {t}
           /\ acked' = IF tasks[t].bound # Unknown THEN acked \union {t} ELSE acked
<1> DEFINE t == IF ctx[w].chain # None THEN ctx[w].chain ELSE Oldest(pending \ chained)
           turn == /\ frame[tasks[t].pic].frontier = SliceOf(t).first
                   /\ ~ \E u \in busy \ acked' : tasks[u].pic = tasks[t].pic /\ tasks[u].job < tasks[t].job
           r == [pc |-> "claim", task |-> t, chain |-> None, row |-> SliceOf(t).first,
                 bound |-> tasks[t].bound, last |-> FALSE, on |-> None, turn |-> turn]
<1>1. /\ UNCHANGED <<stream, next, tasks, busy, held, frame, flagged, refFrames, toGet, currPic, ppc>>
      /\ ctx[w].pc \in {"idle", "take"}
      /\ ctx[w].chain = None => Offers(pending \ chained, ready)
      /\ pending' = pending \ {t}
      /\ acked' = IF tasks[t].bound # Unknown THEN acked \union {t} ELSE acked
      /\ \E W : ctx' = WakeWorkers([ctx EXCEPT ![w] = r], W)
  BY Zenon DEF TakeTask, streamVars, dpbVars, parserVars
<1>2. TypeOK BY DEF PoolInv
<1>3. t \in pending
  <2>1. WorkerOwns(ctx[w], tasks, busy, pending, held, stream) BY DEF PoolInv, WorkersOwn
  <2>2. CASE ctx[w].chain # None BY <2>1, <2>2 DEF WorkerOwns
  <2>3. CASE ctx[w].chain = None BY <1>1, <1>2, <2>3 DEF Offers, TypeOK
  <2> QED BY <2>2, <2>3
<1> HIDE DEF t
<1>4. /\ t \in Task /\ tasks[t] \in TaskRecord /\ tasks[t].job \in DOMAIN stream /\ stream \in Seq(Header)
  BY <1>2, <1>3 DEF TypeOK, PoolInv, TasksOrdered
<1>5. SliceOf(t).first \in 0 .. Rows
  <2>1. SliceOf(t) \in Header BY <1>4 DEF SliceOf
  <2> QED BY <2>1, HeaderBounds
<1>6. tasks[t].bound \in 0 .. Inf BY <1>4 DEF TaskRecord
<1>7. turn \in BOOLEAN OBVIOUS
<1> HIDE DEF turn
<1>8. r \in Context /\ r.pc \notin SleepPc \union {"asleep"}
  BY <1>4, <1>5, <1>6, <1>7 DEF Context, Pc, DecodePc, SleepPc
<1>9. OthersWork(w) /\ ctx'[w] = r
  <2> HIDE DEF r
  <2> QED BY <1>1, <1>2, <1>8, MovedWaking
<1>10. /\ ctx'[w].pc = "claim" /\ ctx'[w].task = t /\ ctx'[w].row = SliceOf(t).first
       /\ ctx'[w].bound = tasks[t].bound /\ ctx'[w].turn = turn
  BY <1>9
<1> QED BY <1>1, <1>3, <1>9, <1>10, Zenon DEF turn

(* Ending one: its number is free, the other tasks keep what is theirs.    *)
LEMMA FinishEffect ==
  ASSUME PoolInv, NEW w \in Worker, Finish(w)
  PROVE  /\ ctx[w].pc = "finish" /\ OthersWork(w) /\ ctx'[w].pc = "leave" /\ FramesSame
         /\ busy' = busy \ {ctx[w].task}
         /\ UNCHANGED <<stream, next, pending, acked, held, flagged, refFrames, toGet, currPic, ppc>>
         /\ \A u \in busy' : /\ tasks'[u].job = tasks[u].job /\ tasks'[u].pic = tasks[u].pic
                             /\ tasks'[u].deps = tasks[u].deps /\ tasks'[u].bound = tasks[u].bound
<1> DEFINE t == ctx[w].task
           others == busy \ {t}
<1>1. /\ ctx[w].pc = "finish" /\ busy' = others
      /\ UNCHANGED <<stream, next, pending, acked, held, flagged, refFrames, toGet, currPic, ppc>>
      /\ tasks' = [u \in Task |->
           IF u = t THEN [tasks[u] EXCEPT !.deps = {}, !.pic = None]
           ELSE IF u \in others THEN [tasks[u] EXCEPT !.after = @ \ {t}] ELSE tasks[u]]
      /\ \E F : frame' = Quiet(frame, F)
      /\ \E chain, W : ctx' = WakeWorkers([ctx EXCEPT ![w].pc = "leave", ![w].chain = chain,
                                                      ![w].task = None], W)
  BY Zenon DEF Finish, streamVars
<1>2. TypeOK BY DEF PoolInv
<1>3. FramesSame BY <1>1, <1>2, QuietFrames
<1>4. ASSUME NEW u \in others
      PROVE  /\ tasks'[u].job = tasks[u].job /\ tasks'[u].pic = tasks[u].pic
             /\ tasks'[u].deps = tasks[u].deps /\ tasks'[u].bound = tasks[u].bound
  <2>1. u \in Task /\ u # t /\ tasks[u] \in TaskRecord BY <1>2 DEF TypeOK
  <2>2. tasks'[u] = [tasks[u] EXCEPT !.after = @ \ {t}] BY <1>1, <2>1
  <2> QED BY <2>1, <2>2, SMTT(30) DEF TaskRecord
<1>5. ASSUME NEW chain, NEW W, ctx' = WakeWorkers([ctx EXCEPT ![w].pc = "leave", ![w].chain = chain,
                                                              ![w].task = None], W)
      PROVE  OthersWork(w) /\ ctx'[w].pc = "leave"
  <2> DEFINE c == [ctx EXCEPT ![w].pc = "leave", ![w].chain = chain, ![w].task = None]
             r == [ctx[w] EXCEPT !.pc = "leave", !.chain = chain, !.task = None]
  <2>1. ctx \in [Worker -> Context] /\ ctx[w] \in Context BY <1>2 DEF TypeOK
  <2>2. c[w] = r /\ \A v \in Worker \ {w} : c[v] = ctx[v] BY <2>1
  <2>3. r.pc = "leave" BY <2>1 DEF Context
  <2> HIDE DEF r, c
  <2>4. ctx' = WakeWorkers(c, W) BY <1>5 DEF c
  <2>5. ctx'[w] = c[w] \/ (w \in W /\ ctx'[w] = [c[w] EXCEPT !.pc = "leave"])
    <3>1. "leave" \notin {"asleep", "refSleep", "boundSleep"} OBVIOUS
    <3> QED BY <2>2, <2>3, <2>4, <3>1 DEF WakeWorkers
  <2>6. ctx'[w].pc = "leave"
    <3>1. [c[w] EXCEPT !.pc = "leave"].pc = "leave" BY <2>1, <2>2 DEF r, Context
    <3> QED BY <2>2, <2>3, <2>5, <3>1
  <2>7. ASSUME NEW v \in Worker \ {w} PROVE SameWork(ctx[v], ctx'[v])
    <3>1. c[v] = ctx[v] /\ ctx[v] \in Context BY <2>1, <2>2
    <3> QED BY <2>4, <3>1, WakingWork
  <2> QED BY <2>6, <2>7 DEF OthersWork
<1>6. OthersWork(w) /\ ctx'[w].pc = "leave" BY <1>1, <1>5, Zenon
<1>7. \A u \in others : /\ tasks'[u].job = tasks[u].job /\ tasks'[u].pic = tasks[u].pic
                        /\ tasks'[u].deps = tasks[u].deps /\ tasks'[u].bound = tasks[u].bound
  BY <1>4, Zenon
<1> QED BY <1>1, <1>3, <1>6, <1>7, Zenon

-----------------------------------------------------------------------------
(* Concealment.                                                            *)

Doomed == Concealable(Terminal) \union BasesConcealedFor(Terminal)

Concealed ==
  /\ \A s \in Slot \ Doomed : frame'[s] = frame[s]
  /\ \A s \in Doomed : frame'[s] = ConcealedFrame(s)
  /\ flagged' = flagged \union Terminal \union BasesConcealedFor(Terminal)

(* What is concealed is not complete, and nothing writes it.               *)
LEMMA DoomedSlots ==
  ASSUME TypeOK
  PROVE  /\ Doomed \subseteq (Depended \union toGet \union refFrames) \ (Complete \union Writing \union {currPic})
         /\ Terminal \subseteq Slot /\ Doomed \subseteq Slot
<1>1. Depended \subseteq Slot /\ toGet \subseteq Slot /\ refFrames \subseteq Slot
  BY DEF TypeOK, Depended, TaskRecord
<1>2. Terminal \subseteq (Depended \union toGet) \ (Complete \union Writing \union {currPic})
  BY Zenon DEF Terminal
<1>3. Concealable(Terminal) \subseteq Terminal BY Zenon DEF Concealable
<1>4. \A s : BaseSlots(s) \subseteq refFrames \union toGet BY Zenon DEF BaseSlots
<1>5. BasesConcealedFor(Terminal) \subseteq (refFrames \union toGet) \ (Complete \union Writing \union {currPic})
  BY <1>4, Zenon DEF BasesConcealedFor
<1> QED BY <1>1, <1>2, <1>3, <1>5 DEF Doomed

LEMMA ConcealEffect ==
  ASSUME TypeOK, NEW c, NEW n, ReleaseTerminal(c, n)
  PROVE  Concealed /\ \E W : ctx' = WakeWorkers(c, W)
<1>1. /\ frame' = [s \in Slot |-> IF s \in Doomed THEN ConcealedFrame(s) ELSE frame[s]]
      /\ flagged' = flagged \union Terminal \union BasesConcealedFor(Terminal)
      /\ \E W : ctx' = WakeWorkers(c, W)
  BY Zenon DEF ReleaseTerminal, Doomed
<1> QED BY <1>1, DoomedSlots DEF Concealed

(* A concealed slot keeps its picture, and is complete.                    *)
LEMMA ConcealedSlot ==
  ASSUME TypeOK, NEW s \in Slot
  PROVE  /\ ConcealedFrame(s).id = frame[s].id /\ ConcealedFrame(s).frontier = Inf
         /\ ConcealedFrame(s).remaining = 0
         /\ LET bases == BaseSlots(s) \ ({currPic} \ Complete)
                fill == IF bases \intersect Writing \subseteq Complete
                          THEN Concealment(IF bases = {} THEN 0 ELSE BaseOf(stream, frame[s].id))
                          ELSE Undecoded
            IN  ConcealedFrame(s).rows = [r \in Row |-> IF frame[s].rows[r] = Undecoded THEN fill
                                                          ELSE frame[s].rows[r]]
<1> DEFINE bases == BaseSlots(s) \ ({currPic} \ Complete)
           fill == IF bases \intersect Writing \subseteq Complete
                     THEN Concealment(IF bases = {} THEN 0 ELSE BaseOf(stream, frame[s].id))
                     ELSE Undecoded
           rows == [r \in Row |-> IF frame[s].rows[r] = Undecoded THEN fill ELSE frame[s].rows[r]]
<1>1. frame[s] \in FrameRecord BY DEF TypeOK
<1>2. ConcealedFrame(s) = [frame[s] EXCEPT !.frontier = Inf, !.remaining = 0, !.wake = Inf, !.rows = rows]
  BY Zenon DEF ConcealedFrame
<1> HIDE DEF rows
<1>3. /\ ConcealedFrame(s).id = frame[s].id /\ ConcealedFrame(s).frontier = Inf
      /\ ConcealedFrame(s).remaining = 0 /\ ConcealedFrame(s).rows = rows
  BY <1>1, <1>2 DEF FrameRecord
<1> QED BY <1>3, Zenon DEF rows

(* A worker with no task.                                                  *)
LEMMA IdleEffect ==
  ASSUME PoolInv, NEW w \in Worker, FallAsleep(w) \/ Exit(w) \/ LeaveTask(w)
  PROVE  /\ PoolSame /\ acked' = acked /\ OthersWork(w)
         /\ ctx[w].pc \notin DecodePc /\ ctx'[w].pc \notin DecodePc
         /\ (FramesSame /\ flagged' = flagged) \/ Concealed
<1>1. TypeOK /\ ctx[w] \in Context BY DEF PoolInv, TypeOK
<1>2. {"idle", "take", "leave", "asleep", "exit"} \intersect DecodePc = {}
  BY DEF DecodePc, SleepPc, NotifyPc
<1>3. CASE FallAsleep(w) \/ Exit(w)
  <2>1. PICK pc \in {"asleep", "exit"} : ctx' = [ctx EXCEPT ![w].pc = pc]
    BY <1>3, Zenon DEF FallAsleep, Exit
  <2>2. /\ ctx[w].pc \in {"idle", "take"} /\ PoolSame /\ acked' = acked /\ frame' = frame /\ flagged' = flagged
    BY <1>3, Zenon DEF FallAsleep, Exit, PoolSame, streamVars, poolVars, dpbVars, parserVars
  <2>3. pc \in Pc BY DEF Pc
  <2>4. OthersWork(w) /\ ctx'[w].pc = pc BY <1>1, <2>1, <2>3, MovedPc DEF Moved
  <2>5. FramesSame BY <1>1, <2>2, QuietFrames
  <2> QED BY <1>2, <2>2, <2>4, <2>5
<1>4. CASE LeaveTask(w)
  <2>1. /\ ctx[w].pc = "leave" /\ PoolSame /\ acked' = acked
        /\ ReleaseTerminal([ctx EXCEPT ![w].pc = "take"], 0)
    BY <1>4, Zenon DEF LeaveTask, PoolSame, streamVars, parserVars
  <2>2. "take" \in Pc /\ "take" \notin SleepPc \union {"asleep"} BY DEF Pc, LockPc, SleepPc
  <2>3. Concealed /\ \E W : ctx' = WakeWorkers([ctx EXCEPT ![w].pc = "take"], W)
    BY <1>1, <2>1, ConcealEffect
  <2>4. OthersWork(w) /\ ctx'[w].pc = "take" BY <1>1, <2>2, <2>3, MovedPc DEF Moved
  <2> QED BY <1>2, <2>1, <2>3, <2>4
<1> QED BY <1>3, <1>4

-----------------------------------------------------------------------------
(* What the steps of the parser and the caller do.                         *)

(* The slots and the workers keep all but their waiting.                   *)
Quieted == AllWork /\ FramesSame /\ flagged' = flagged
Conceals == AllWork /\ Concealed

PoolTasks == <<stream, busy, pending, acked>>
DpbSlots == <<refFrames, toGet, currPic>>

(* release_held_task, at most: only the bound of the slice held changes.   *)
Bounding(b) ==
  /\ \A t \in Task : /\ tasks'[t].job = tasks[t].job /\ tasks'[t].pic = tasks[t].pic
                     /\ tasks'[t].deps = tasks[t].deps
                     /\ t # held \/ held' = held => tasks'[t].bound = tasks[t].bound
  /\ held' # held => held' = None /\ tasks'[held].bound = b

LEMMA BoundingIs ==
  ASSUME TypeOK, NEW b,
         (held' = None /\ tasks' = BoundHeld(b)) \/ UNCHANGED <<held, tasks>>
  PROVE  Bounding(b)
<1>1. \A t \in Task : tasks[t] \in TaskRecord BY DEF TypeOK
<1>2. held \in Task \union {None} BY DEF TypeOK
<1>3. CASE UNCHANGED <<held, tasks>> BY <1>3 DEF Bounding
<1>4. CASE held' = None /\ tasks' = BoundHeld(b)
  <2>1. \A t \in Task : t # held => tasks'[t] = tasks[t] BY <1>4 DEF BoundHeld
  <2>2. ASSUME held \in Task
        PROVE  /\ tasks'[held].job = tasks[held].job /\ tasks'[held].pic = tasks[held].pic
               /\ tasks'[held].deps = tasks[held].deps /\ tasks'[held].bound = b
    BY <1>1, <1>4, <2>2 DEF BoundHeld, TaskRecord
  <2>3. None \notin Task BY DEF Task, None
  <2> QED BY <1>2, <1>4, <2>1, <2>2, <2>3 DEF Bounding
<1> QED BY <1>3, <1>4

LEMMA HeldEffect ==
  ASSUME TypeOK, NEW b, ReleaseHeld(b) \/ UNCHANGED <<held, tasks, frame, ctx>>
  PROVE  AllWork /\ FramesSame /\ Bounding(b)
<1>1. /\ (held' = None /\ tasks' = BoundHeld(b)) \/ UNCHANGED <<held, tasks>>
      /\ frame' = Quiet(frame, HeldPic) \/ frame' = frame
      /\ (\E W : ctx' = WakeWorkers(ctx, W)) \/ ctx' = ctx
  BY Zenon DEF ReleaseHeld
<1> QED BY <1>1, BoundingIs, QuietFrames, WakingAll

LEMMA ConcealsIs ==
  ASSUME TypeOK, NEW n, ProgressOrWait \/ ReleaseTerminal(ctx, n)
  PROVE  Conceals
<1>1. \E m : ReleaseTerminal(ctx, m) BY Zenon DEF ProgressOrWait
<1>2. Concealed /\ \E W : ctx' = WakeWorkers(ctx, W) BY <1>1, ConcealEffect
<1> QED BY <1>2, WakingAll DEF Conceals

LEMMA SendSliceEffect ==
  ASSUME PoolInv, SendSlice
  PROVE  /\ ppc = "idle" /\ ppc' = "task" /\ next <= Len(stream) /\ next' = next
         /\ UNCHANGED <<PoolTasks, DpbSlots>> /\ Quieted
         /\ (Slice.first = 0 /\ Bounding(Inf)) \/ UNCHANGED <<held, tasks>>
<1>1. TypeOK BY DEF PoolInv
<1>2. /\ ppc = "idle" /\ ppc' = "task" /\ next <= Len(stream) /\ next' = next /\ flagged' = flagged
      /\ UNCHANGED <<PoolTasks, DpbSlots>>
      /\ IF Slice.first = 0 THEN ReleaseHeld(Inf) ELSE UNCHANGED <<held, tasks, frame, ctx>>
  BY Zenon DEF SendSlice, InCall, PoolTasks, DpbSlots, streamVars
<1>3. AllWork /\ FramesSame /\ Bounding(Inf) BY <1>1, <1>2, HeldEffect
<1> QED BY <1>2, <1>3 DEF Quieted

LEMMA WaitTaskSlotEffect ==
  ASSUME PoolInv, WaitTaskSlot
  PROVE  LET changes == currPic # None /\ frame[currPic].id # Slice.pic
         IN  /\ ppc = "task" /\ next' = next /\ UNCHANGED <<PoolTasks, DpbSlots>>
             /\ \/ Conceals /\ UNCHANGED <<tasks, held, ppc>>
                \/ /\ Quieted
                   /\ (changes /\ Bounding(Inf) /\ held' = None) \/ (~changes /\ UNCHANGED <<held, tasks>>)
                   /\ ppc' = IF changes THEN "settle" ELSE IF currPic = None THEN "start" ELSE "create"
<1> DEFINE changes == currPic # None /\ frame[currPic].id # Slice.pic
<1>1. TypeOK BY DEF PoolInv
<1>2. /\ ppc = "task" /\ next' = next /\ UNCHANGED <<PoolTasks, DpbSlots>>
      /\ \/ ProgressOrWait /\ UNCHANGED <<tasks, held, ppc>>
         \/ /\ IF changes THEN ReleaseHeld(Inf) ELSE UNCHANGED <<held, tasks, frame, ctx>>
            /\ ppc' = IF changes THEN "settle" ELSE IF currPic = None THEN "start" ELSE "create"
            /\ flagged' = flagged
  BY Zenon DEF WaitTaskSlot, InCall, PoolTasks, DpbSlots, streamVars
<1> HIDE DEF changes
<1>3. CASE ProgressOrWait /\ UNCHANGED <<tasks, held, ppc>>
  <2>1. Conceals BY <1>1, <1>3, ConcealsIs
  <2> QED BY <1>2, <1>3, <2>1
<1>4. CASE /\ IF changes THEN ReleaseHeld(Inf) ELSE UNCHANGED <<held, tasks, frame, ctx>>
           /\ ppc' = IF changes THEN "settle" ELSE IF currPic = None THEN "start" ELSE "create"
           /\ flagged' = flagged
  <2>1. AllWork /\ FramesSame /\ Bounding(Inf) BY <1>1, <1>4, HeldEffect
  <2>2. (changes /\ held' = None) \/ (~changes /\ UNCHANGED <<held, tasks>>) BY <1>4 DEF ReleaseHeld
  <2> QED BY <1>2, <1>4, <2>1, <2>2, Zenon DEF Quieted, changes
<1> QED BY <1>2, <1>3, <1>4

LEMMA SettleBoundsEffect ==
  ASSUME PoolInv, SettleBounds
  PROVE  /\ ppc \in {"settle", "endSettle"} /\ next' = next /\ toGet' = toGet
         /\ UNCHANGED <<PoolTasks, tasks, held>> /\ Quieted
         /\ \/ UNCHANGED <<currPic, refFrames, ppc>>
            \/ /\ Unsettled = {} /\ currPic' = None
               /\ refFrames' = IF ppc = "settle" THEN SlotsOf(Slice.refs) ELSE refFrames
               /\ ppc' = IF ppc = "settle" THEN "start" ELSE "drain"
<1> DEFINE refs == IF ppc = "settle" THEN SlotsOf(Slice.refs) ELSE refFrames
           to == IF ppc = "settle" THEN "start" ELSE "drain"
<1>1. TypeOK /\ frame \in [Slot -> FrameRecord] BY DEF PoolInv, TypeOK
<1>2. /\ ppc \in {"settle", "endSettle"} /\ next' = next /\ toGet' = toGet /\ flagged' = flagged
      /\ UNCHANGED <<PoolTasks, tasks, held>>
      /\ \/ /\ \E F, W : /\ frame' = [Quiet(frame, F) EXCEPT ![currPic].wake = -1]
                         /\ ctx' = WakeWorkers(ctx, W)
            /\ UNCHANGED <<currPic, refFrames, ppc>>
         \/ /\ Unsettled = {} /\ currPic' = None /\ refFrames' = refs /\ ppc' = to
            /\ UNCHANGED <<frame, ctx>>
  BY Zenon DEF SettleBounds, PoolTasks, poolVars, streamVars
<1> HIDE DEF refs, to
<1>3. ASSUME NEW F, frame' = [Quiet(frame, F) EXCEPT ![currPic].wake = -1]
      PROVE  FramesSame
  <2>1. Quiet(frame, F) \in [Slot -> FrameRecord] BY <1>1, QuietType
  <2>2. \A s \in Slot : SameFrame(frame[s], Quiet(frame, F)[s]) BY <1>1, QuietSame
  <2> HIDE DEF Quiet
  <2>3. \A s \in Slot : SameFrame(Quiet(frame, F)[s], frame'[s])
    BY <1>3, <2>1 DEF FrameRecord, SameFrame
  <2> QED BY <2>2, <2>3 DEF SameFrame, FramesSame
<1>4. FramesSame BY <1>1, <1>2, <1>3, QuietFrames
<1>5. AllWork BY <1>1, <1>2, WakingAll
<1> QED BY <1>2, <1>4, <1>5, Zenon DEF Quieted, refs, to

LEMMA StartPictureEffect ==
  ASSUME PoolInv, StartPicture
  PROVE  /\ ppc = "start" /\ ppc' = "slot" /\ next' = next
         /\ UNCHANGED <<PoolTasks, DpbSlots, tasks, held>> /\ Conceals
<1>1. TypeOK BY DEF PoolInv
<1>2. /\ ppc = "start" /\ ppc' = "slot" /\ next' = next
      /\ UNCHANGED <<PoolTasks, DpbSlots, tasks, held>> /\ ReleaseTerminal(ctx, 0)
  BY Zenon DEF StartPicture, InCall, PoolTasks, DpbSlots, streamVars
<1> QED BY <1>1, <1>2, ConcealsIs

LEMMA AllocSlotEffect ==
  ASSUME PoolInv, AllocSlot
  PROVE  /\ ppc = "slot" /\ next' = next /\ UNCHANGED <<PoolTasks, tasks, held, refFrames>> /\ AllWork
         /\ \/ UNCHANGED <<toGet, currPic>> /\ (Quieted \/ Conceals) /\ ppc' \in {"idle", "slot"}
            \/ \E s \in Slot \ Unavailable :
                 /\ ppc' = "create" /\ currPic' = s /\ toGet' = toGet \union {s}
                 /\ flagged' = flagged \ {s}
                 /\ \A u \in Slot \ {s} : frame'[u] = frame[u]
                 /\ frame'[s].id = Slice.pic /\ frame'[s].frontier = 0
                 /\ frame'[s].remaining = Rows /\ frame'[s].rows = Blank
<1> DEFINE s == Lowest(Slot \ Unavailable)
<1>1. TypeOK BY DEF PoolInv
<1>2. /\ ppc = "slot" /\ next' = next /\ UNCHANGED <<PoolTasks, tasks, held>>
      /\ \/ ppc' = "idle" /\ UNCHANGED <<frame, flagged, refFrames, toGet, currPic, ctx>>
         \/ ProgressOrWait /\ UNCHANGED <<refFrames, toGet, currPic, ppc>>
         \/ /\ Unavailable # Slot
            /\ frame' = [frame EXCEPT ![s].id = Slice.pic, ![s].frontier = 0,
                                      ![s].remaining = Rows, ![s].rows = Blank]
            /\ flagged' = flagged \ {s} /\ toGet' = toGet \union {s} /\ currPic' = s
            /\ ppc' = "create" /\ UNCHANGED <<refFrames, ctx>>
  BY Zenon DEF AllocSlot, InCall, PoolTasks, dpbVars, streamVars
<1>3. CASE ppc' = "idle" /\ UNCHANGED <<frame, flagged, refFrames, toGet, currPic, ctx>>
  <2>1. FramesSame /\ AllWork BY <1>1, <1>3, QuietFrames, WakingAll
  <2> QED BY <1>2, <1>3, <2>1 DEF Quieted
<1>4. CASE ProgressOrWait /\ UNCHANGED <<refFrames, toGet, currPic, ppc>>
  <2>1. Conceals BY <1>1, <1>4, ConcealsIs
  <2> QED BY <1>2, <1>4, <2>1 DEF Conceals
<1>5. CASE /\ Unavailable # Slot
           /\ frame' = [frame EXCEPT ![s].id = Slice.pic, ![s].frontier = 0,
                                     ![s].remaining = Rows, ![s].rows = Blank]
           /\ flagged' = flagged \ {s} /\ toGet' = toGet \union {s} /\ currPic' = s
           /\ ppc' = "create" /\ UNCHANGED <<refFrames, ctx>>
  <2>1. s \in Slot \ Unavailable
    <3>1. Unavailable \subseteq Slot
      BY <1>1 DEF Unavailable, Reserved, Depended, Inflight, Writing, TypeOK, SlotsOf, TaskRecord,
                  PoolInv, TasksOrdered
    <3>2. Slot \ Unavailable \in SUBSET Nat BY DEF Slot
    <3>3. Slot \ Unavailable # {} BY <1>5, <3>1
    <3> QED BY <3>2, <3>3, LowestOfNats
  <2> HIDE DEF s
  <2>2. /\ \A u \in Slot \ {s} : frame'[u] = frame[u]
        /\ frame'[s].id = Slice.pic /\ frame'[s].frontier = 0
        /\ frame'[s].remaining = Rows /\ frame'[s].rows = Blank
    BY <1>1, <1>5, <2>1 DEF TypeOK, FrameRecord
  <2>3. AllWork BY <1>1, <1>5, WakingAll
  <2> QED BY <1>2, <1>5, <2>1, <2>2, <2>3
<1> QED BY <1>2, <1>3, <1>4, <1>5

LEMMA CreateTaskEffect ==
  ASSUME PoolInv, CreateTask
  PROVE  /\ ppc = "create" /\ ppc' = "created" /\ UNCHANGED <<stream, next, DpbSlots>> /\ Quieted
         /\ next <= Len(stream) /\ held' \in Task \ busy
         /\ busy' = busy \union {held'} /\ pending' = pending \union {held'} /\ acked' = acked \ {held'}
         /\ tasks'[held'].job = next /\ tasks'[held'].pic = currPic
         /\ tasks'[held'].deps = SlotsOf(Slice.reads) /\ tasks'[held'].bound = Unknown
         /\ \A t \in busy : /\ tasks'[t].job = tasks[t].job /\ tasks'[t].pic = tasks[t].pic
                            /\ tasks'[t].deps = tasks[t].deps
                            /\ tasks'[t].bound = IF t = held THEN HeldBound ELSE tasks[t].bound
<1> DEFINE t == Lowest(Task \ busy)
           rec == [job |-> next, pic |-> currPic, deps |-> SlotsOf(Slice.reads),
                   after |-> OlderSlices, bound |-> Unknown]
           tk == BoundHeld(HeldBound)
<1>1. TypeOK /\ ParserPrepared BY DEF PoolInv
<1>2. /\ ppc = "create" /\ ppc' = "created" /\ UNCHANGED <<stream, next, DpbSlots>> /\ flagged' = flagged
      /\ tasks' = [tk EXCEPT ![t] = rec] /\ held' = t
      /\ busy' = busy \union {t} /\ pending' = pending \union {t} /\ acked' = acked \ {t}
      /\ frame' = Quiet(frame, HeldPic) /\ \E W : ctx' = WakeWorkers(ctx, W)
  BY Zenon DEF CreateTask, InCall, DpbSlots, streamVars
<1>3. Quieted BY <1>1, <1>2, QuietFrames, WakingAll DEF Quieted
<1>4. next <= Len(stream) /\ busy # Task BY <1>1, <1>2 DEF ParserPrepared
<1>5. t \in Task \ busy
  <2>1. Task \ busy \in SUBSET Nat BY DEF Task
  <2>2. Task \ busy # {} BY <1>1, <1>4 DEF TypeOK
  <2> QED BY <2>1, <2>2, LowestOfNats
<1>6. /\ rec.job = next /\ rec.pic = currPic /\ rec.deps = SlotsOf(Slice.reads) /\ rec.bound = Unknown
  OBVIOUS
<1> HIDE DEF t, rec
<1>7. \A u \in busy : /\ tk[u].job = tasks[u].job /\ tk[u].pic = tasks[u].pic
                      /\ tk[u].deps = tasks[u].deps
                      /\ tk[u].bound = IF u = held THEN HeldBound ELSE tasks[u].bound
  <2> SUFFICES ASSUME NEW u \in busy
               PROVE  /\ tk[u].job = tasks[u].job /\ tk[u].pic = tasks[u].pic
                      /\ tk[u].deps = tasks[u].deps
                      /\ tk[u].bound = IF u = held THEN HeldBound ELSE tasks[u].bound
    OBVIOUS
  <2>1. u \in Task /\ tasks[u] \in TaskRecord BY <1>1 DEF TypeOK
  <2>2. tk[u] = IF u = held THEN [tasks[u] EXCEPT !.bound = HeldBound] ELSE tasks[u]
    BY <2>1 DEF BoundHeld
  <2> HIDE DEF tk
  <2> QED BY <2>1, <2>2 DEF TaskRecord
<1>8. DOMAIN tk = Task BY DEF BoundHeld
<1> HIDE DEF tk
<1>9. tasks'[t] = rec /\ \A u \in busy : tasks'[u] = tk[u] BY <1>1, <1>2, <1>5, <1>8 DEF TypeOK
<1> QED BY <1>2, <1>3, <1>4, <1>5, <1>6, <1>7, <1>9

LEMMA CreatedTaskEffect ==
  ASSUME PoolInv, CreatedTask
  PROVE  /\ ppc = "created" /\ ppc' = "idle" /\ next <= Len(stream) /\ next' = next + 1
         /\ UNCHANGED <<PoolTasks, DpbSlots, tasks, held>> /\ (Quieted \/ Conceals)
<1>1. TypeOK /\ ParserPrepared BY DEF PoolInv
<1>2. /\ ppc = "created" /\ ppc' = "idle" /\ next' = next + 1
      /\ UNCHANGED <<PoolTasks, DpbSlots, tasks, held>>
      /\ \/ (\E W : ctx' = WakeWorkers(ctx, W)) /\ UNCHANGED <<frame, flagged>>
         \/ ReleaseTerminal(ctx, CreatedSignals)
  BY Zenon DEF CreatedTask, InCall, PoolTasks, DpbSlots
<1>3. next <= Len(stream) BY <1>1, <1>2 DEF ParserPrepared
<1>4. Quieted \/ Conceals BY <1>1, <1>2, QuietFrames, WakingAll, ConcealsIs DEF Quieted
<1> QED BY <1>2, <1>3, <1>4

LEMMA SendEndEffect ==
  ASSUME PoolInv, SendEnd
  PROVE  /\ ppc = "idle" /\ ppc' \in {"endSettle", "drain"} /\ next > Len(stream) /\ next' = next
         /\ UNCHANGED <<PoolTasks, DpbSlots>> /\ Quieted
         /\ IF currPic # None THEN held' = None /\ Bounding(Inf) /\ ppc' = "endSettle"
                              ELSE UNCHANGED <<held, tasks>> /\ ppc' = "drain"
<1>1. TypeOK BY DEF PoolInv
<1>2. /\ ppc = "idle" /\ next > Len(stream) /\ next' = next /\ flagged' = flagged
      /\ UNCHANGED <<PoolTasks, DpbSlots>>
      /\ IF currPic # None THEN ReleaseHeld(Inf) ELSE UNCHANGED <<held, tasks, frame, ctx>>
      /\ ppc' = IF currPic # None THEN "endSettle" ELSE "drain"
  BY Zenon DEF SendEnd, InCall, PoolTasks, DpbSlots, streamVars
<1>3. AllWork /\ FramesSame /\ Bounding(Inf) BY <1>1, <1>2, HeldEffect
<1>4. IF currPic # None THEN held' = None ELSE UNCHANGED <<held, tasks>> BY <1>2 DEF ReleaseHeld
<1> QED BY <1>2, <1>3, <1>4 DEF Quieted

LEMMA DrainEffect ==
  ASSUME PoolInv, Drain
  PROVE  /\ ppc = "drain" /\ ppc' \in {"drain", "idle"} /\ next' = next
         /\ UNCHANGED <<PoolTasks, DpbSlots, tasks, held>> /\ Conceals
<1>1. TypeOK BY DEF PoolInv
<1>2. /\ ppc = "drain" /\ ppc' \in {"drain", "idle"} /\ next' = next
      /\ UNCHANGED <<PoolTasks, DpbSlots, tasks, held>>
      /\ ProgressOrWait \/ ReleaseTerminal(ctx, 0)
  BY Zenon DEF Drain, InCall, PoolTasks, DpbSlots, streamVars
<1> QED BY <1>1, <1>2, ConcealsIs

LEMMA OutputEffect ==
  ASSUME PoolInv, NEW s \in Slot, Receive(s) \/ DropOrphan(s)
  PROVE  /\ ppc = "idle" /\ ppc' = ppc /\ next' = next /\ toGet' \subseteq toGet
         /\ UNCHANGED <<PoolTasks, refFrames, currPic, tasks, held>> /\ Quieted
<1>1. TypeOK BY DEF PoolInv
<1>2. /\ ppc = "idle" /\ ppc' = ppc /\ next' = next /\ \E D : toGet' = toGet \ D
      /\ UNCHANGED <<PoolTasks, refFrames, currPic, tasks, held, frame, flagged, ctx>>
  BY Zenon DEF Receive, DropOrphan, InCall, PoolTasks, streamVars, poolVars, parserVars
<1> QED BY <1>1, <1>2, QuietFrames, WakingAll DEF Quieted

LEMMA CloseEffect ==
  ASSUME PoolInv, Close
  PROVE  /\ ppc = "idle" /\ ppc' = "closed" /\ next' = next /\ held' = None
         /\ UNCHANGED <<PoolTasks, DpbSlots>> /\ Quieted /\ Bounding(Inf)
<1>1. TypeOK BY DEF PoolInv
<1>2. /\ ppc = "idle" /\ ppc' = "closed" /\ next' = next /\ held' = None /\ tasks' = BoundHeld(Inf)
      /\ UNCHANGED <<PoolTasks, DpbSlots>> /\ flagged' = flagged
      /\ frame' = Quiet(frame, HeldPic) /\ \E W : ctx' = WakeWorkers(ctx, W)
  BY Zenon DEF Close, InCall, PoolTasks, DpbSlots, streamVars
<1> QED BY <1>1, <1>2, BoundingIs, QuietFrames, WakingAll DEF Quieted

(* A step that leaves all variables as they are.                           *)
LEMMA StutterEffect ==
  ASSUME PoolInv, UNCHANGED vars
  PROVE  PoolSame /\ acked' = acked /\ Quieted
<1>1. TypeOK BY DEF PoolInv
<1>2. PoolSame /\ acked' = acked /\ UNCHANGED <<frame, flagged, ctx>>
  BY Zenon DEF vars, PoolSame, streamVars, poolVars, dpbVars, parserVars
<1> QED BY <1>1, <1>2, QuietFrames, WakingAll DEF Quieted

(* The tasks and the pictures as a worker leaves them.                     *)
WorkerPool ==
  /\ UNCHANGED <<stream, next, held, refFrames, toGet, currPic, ppc>> /\ IdsKept
  /\ busy' \subseteq busy /\ pending' \subseteq pending
  /\ \A t \in busy' : /\ tasks'[t].job = tasks[t].job /\ tasks'[t].pic = tasks[t].pic
                      /\ tasks'[t].deps = tasks[t].deps /\ tasks'[t].bound = tasks[t].bound

LEMMA IdsSame ==
  ASSUME TypeOK, FramesSame \/ Concealed
  PROVE  IdsKept
<1>1. CASE FramesSame BY <1>1 DEF FramesSame, SameFrame, IdsKept
<1>2. CASE Concealed BY <1>2, ConcealedSlot, DoomedSlots DEF Concealed, IdsKept
<1> QED BY <1>1, <1>2

LEMMA StoredIdsSame ==
  ASSUME TypeOK, NEW w, NEW a, NEW b, NEW c, Stored(w, a, b, c)
  PROVE  IdsKept
BY DEF Stored, SameFrame, IdsKept

LEMMA WorkerPoolIs ==
  ASSUME PoolInv, NEW w \in Worker, Work(w)
  PROVE  WorkerPool
<1>1. TypeOK BY DEF PoolInv
<1>2. ASSUME PoolSame, IdsKept PROVE WorkerPool BY <1>2 DEF PoolSame, WorkerPool
<1>3. ASSUME FramesSame \/ Concealed PROVE IdsKept BY <1>1, <1>3, IdsSame
<1>4. ASSUME NEW a, NEW b, NEW c, Stored(w, a, b, c) PROVE IdsKept BY <1>1, <1>4, StoredIdsSame
<1>5. ASSUME NEW t \in busy PROVE tasks[t] \in TaskRecord BY <1>1 DEF TypeOK
<1>6. CASE TakeTask(w)
  <2>1. /\ UNCHANGED <<stream, next, tasks, busy, held, frame, refFrames, toGet, currPic, ppc>>
        /\ pending' \subseteq pending
    BY <1>6, TakeTaskEffect
  <2> QED BY <2>1 DEF WorkerPool, IdsKept
<1>7. CASE FallAsleep(w) \/ Exit(w) \/ LeaveTask(w)
  BY <1>2, <1>3, <1>7, IdleEffect
<1>8. CASE LearnBound(w)
  <2>1. ctx[w].pc \in {"claim", "parsed", "ref"} BY <1>8, Zenon DEF LearnBound
  <2>2. tasks[ctx[w].task] \in TaskRecord BY <2>1, AtWork DEF Decodes, DecodePc
  <2> QED BY <1>1, <1>2, <1>3, <1>8, <2>2, LearnBoundEffect
<1>9. CASE ClaimRow(w) BY <1>2, <1>3, <1>4, <1>9, ClaimRowEffect
<1>10. CASE AwaitRow(w)
  <2>1. PoolSame /\ (ReleaseTerminal(ctx, 0) \/ FramesSame) BY <1>10, AwaitRowEffect
  <2>2. FramesSame \/ Concealed BY <1>1, <2>1, ConcealEffect
  <2> QED BY <1>2, <1>3, <2>1, <2>2
<1>11. CASE DecodeRow(w) BY <1>2, <1>3, <1>4, <1>11, DecodeRowEffect
<1>12. CASE AwaitBound(w) BY <1>2, <1>3, <1>12, AwaitBoundEffect
<1>13. CASE TakeBack(w) BY <1>2, <1>4, <1>13, TakeBackEffect
<1>14. CASE Redo(w) BY <1>2, <1>3, <1>14, RedoEffect
<1>15. CASE PublishSlice(w) BY <1>2, <1>4, <1>15, PublishSliceEffect
<1>16. CASE CountSlice(w) BY <1>2, <1>4, <1>16, CountSliceEffect
<1>17. CASE Notify(w) BY <1>2, <1>3, <1>17, NotifyEffect
<1>18. CASE Finish(w)
  BY <1>3, <1>18, FinishEffect DEF WorkerPool
<1> QED BY <1>6, <1>7, <1>8, <1>9, <1>10, <1>11, <1>12, <1>13, <1>14, <1>15, <1>16, <1>17, <1>18,
           ZenonT(60) DEF Work

-----------------------------------------------------------------------------
(* The bounds of the slices.                                               *)

(* A slice may read pictures sent before its own only, and not its own.    *)
LEMMA MayReadEarlier ==
  ASSUME NEW st \in Seq(Header), ReadsWhatIsHeld(st), Contiguous(st), NEW k \in DOMAIN st
  PROVE  MayRead(st, k) \subseteq {st[j].pic : j \in 1 .. k - 1} \ {st[k].pic}
<1> DEFINE Fine(n) == MayRead(st, n) \subseteq {st[j].pic : j \in 1 .. n - 1} \ {st[n].pic}
           S == {n \in Nat : n \in DOMAIN st => Fine(n)}
<1>1. DOMAIN st = 1 .. Len(st) /\ Len(st) \in Nat OBVIOUS
<1>2. 0 \in S BY <1>1
<1>3. ASSUME NEW n \in Nat, n \in S PROVE n + 1 \in S
  <2> SUFFICES ASSUME n + 1 \in DOMAIN st PROVE Fine(n + 1) OBVIOUS
  <2>1. CASE n = 0
    <3>1. 1 \in DOMAIN st BY <1>1, <2>1
    <3>2. MayRead(st, 1) \subseteq {} BY <3>1, Zenon DEF ReadsWhatIsHeld
    <3> QED BY <2>1, <3>2
  <2>2. CASE n # 0
    <3>1. n \in DOMAIN st /\ n + 1 # 1 /\ (n + 1) - 1 = n BY <1>1, <2>2
    <3>2. MayRead(st, n + 1) \subseteq MayRead(st, n) \union
            (IF st[n + 1].pic = st[n].pic THEN {} ELSE {st[n].pic})
      BY <3>1, Zenon DEF ReadsWhatIsHeld
    <3>3. MayRead(st, n) \subseteq {st[j].pic : j \in 1 .. n - 1} \ {st[n].pic} BY <1>3, <3>1
    <3>4. CASE st[n + 1].pic = st[n].pic BY <3>1, <3>2, <3>3, <3>4
    <3>5. CASE st[n + 1].pic # st[n].pic
      <4>1. \A j \in 1 .. n - 1 : st[j].pic # st[n + 1].pic
        BY <1>1, <3>1, <3>5 DEF Contiguous
      <4>2. 1 .. n = (1 .. n - 1) \union {n} BY <3>1
      <4> QED BY <3>1, <3>2, <3>3, <3>5, <4>1, <4>2
    <3> QED BY <3>4, <3>5
  <2> QED BY <2>1, <2>2
<1> HIDE DEF S
<1>4. \A n \in Nat : n \in S BY <1>2, <1>3, Induction
<1> QED BY <1>1, <1>4 DEF S

(* The streams the theorems are about.                                     *)
StreamInv == PoolInv /\ ReadsWhatIsHeld(stream) /\ SentOnce(stream)

LEMMA StreamNext ==
  ASSUME StreamInv, [Next]_vars
  PROVE  StreamInv' /\ stream' = stream
<1>1. PoolInv' BY NextInv DEF StreamInv
<1>2. stream' = stream
  <2>1. ASSUME NEW w \in Worker, Work(w) PROVE stream' = stream
    BY <2>1, WorkerPoolIs DEF StreamInv, WorkerPool
  <2>2. ASSUME Parse PROVE stream' = stream
    BY <2>2, Zenon DEF Parse, WaitTaskSlot, SettleBounds, StartPicture, AllocSlot, CreateTask,
         CreatedTask, Drain, streamVars
  <2>3. ASSUME Call PROVE stream' = stream
    BY <2>3, Zenon DEF Call, SendSlice, SendEnd, Close, Receive, DropOrphan, streamVars
  <2> QED BY <2>1, <2>2, <2>3, Zenon DEF Next, vars, streamVars
<1> QED BY <1>1, <1>2 DEF StreamInv

(* Tasks that keep what they read depend on no more slots.                 *)
LEMMA DependedShrinks ==
  ASSUME busy' \subseteq busy, \A t \in busy' : tasks'[t].deps = tasks[t].deps
  PROVE  Depended' \subseteq Depended
BY DEF Depended

(* The picture being parsed stays that of the last slice parsed.           *)
LEMMA ParsedSame ==
  ASSUME TypeOK, ParsedPicture, IdsKept, UNCHANGED <<stream, next, currPic, ppc>>,
         held' \in {held, None}, Depended' \subseteq Depended
  PROVE  ParsedPicture'
<1>1. currPic # None => frame'[currPic].id = frame[currPic].id BY DEF TypeOK, IdsKept
<1>2. Parsed' = Parsed /\ Slice' = Slice BY DEF Parsed, Slice
<1> QED BY <1>1, <1>2 DEF ParsedPicture

LEMMA ParsedNext ==
  ASSUME StreamInv, BoundsInv, [Next]_vars
  PROVE  ParsedPicture'
<1>1. /\ TypeOK /\ TypeOK' /\ ParsedPicture /\ PoolInv /\ TasksOrdered /\ ParserPrepared /\ HeldIsLast
      /\ stream \in Seq(Header) /\ next \in 1 .. Len(stream) + 1 /\ ReadsWhatIsHeld(stream) /\ Contiguous(stream)
  BY StreamNext DEF StreamInv, PoolInv, TypeOK, BoundsInv, SentOnce
<1>2. ASSUME NEW w \in Worker, Work(w) PROVE ParsedPicture'
  <2>1. WorkerPool BY <1>1, <1>2, WorkerPoolIs
  <2>2. Depended' \subseteq Depended BY <2>1, DependedShrinks DEF WorkerPool
  <2> QED BY <1>1, <2>1, <2>2, ParsedSame DEF WorkerPool
<1>3. \A t \in busy : t \in Task BY <1>1 DEF TypeOK
<1>4. \A b : busy' = busy /\ (Bounding(b) \/ UNCHANGED <<held, tasks>>) =>
        Depended' \subseteq Depended /\ held' \in {held, None}
  BY <1>3, DependedShrinks DEF Bounding
<1>5. Quieted \/ Conceals => IdsKept BY <1>1, IdsSame DEF Quieted, Conceals
<1>6. currPic \in Slot \union {None} /\ None \notin Slot BY <1>1 DEF TypeOK, Slot, None
<1>7. IdsKept /\ currPic # None => frame'[currPic].id = frame[currPic].id BY <1>6 DEF IdsKept
<1>8. next' = next /\ stream' = stream => Slice' = Slice BY DEF Slice
<1>9. CASE SendSlice
  <2>1. /\ ppc = "idle" /\ ppc' = "task" /\ UNCHANGED <<stream, next, busy, currPic>> /\ IdsKept
        /\ Bounding(Inf) \/ UNCHANGED <<held, tasks>>
    BY <1>1, <1>5, <1>9, SendSliceEffect DEF PoolTasks, DpbSlots
  <2>2. Depended' \subseteq Depended BY <1>4, <2>1
  <2>3. Parsed' = Parsed BY <2>1 DEF Parsed
  <2> QED BY <1>1, <1>7, <1>8, <2>1, <2>2, <2>3 DEF ParsedPicture
<1>10. CASE WaitTaskSlot
  <2> DEFINE changes == currPic # None /\ frame[currPic].id # Slice.pic
  <2>1. /\ ppc = "task" /\ UNCHANGED <<stream, next, busy, currPic>> /\ IdsKept
        /\ Bounding(Inf) \/ UNCHANGED <<held, tasks>>
        /\ \/ ppc' = ppc
           \/ ppc' = IF changes THEN "settle" ELSE IF currPic = None THEN "start" ELSE "create"
    BY <1>1, <1>5, <1>10, WaitTaskSlotEffect DEF PoolTasks, DpbSlots
  <2>2. Depended' \subseteq Depended /\ held' \in {held, None} BY <1>4, <2>1
  <2>3. CASE ppc' = ppc BY <1>1, <2>1, <2>2, <2>3, ParsedSame
  <2>4. CASE ppc' = "create" /\ ~changes /\ currPic # None
    <3>1. Parsed = next - 1 /\ Parsed' = next BY <2>1, <2>4 DEF Parsed
    <3>2. next - 1 \in DOMAIN stream /\ stream[next - 1].pic = Slice.pic /\ frame[currPic].id = Slice.pic
      BY <1>1, <2>4, <3>1 DEF ParsedPicture
    <3>3. next \in DOMAIN stream /\ next > 1 BY <1>1, <2>1, <3>2 DEF ParserPrepared
    <3> QED BY <1>1, <1>7, <1>8, <2>1, <2>2, <2>4, <3>1, <3>2, <3>3 DEF ParsedPicture, Slice
  <2>5. CASE (ppc' = "settle" /\ changes) \/ (ppc' = "start" /\ currPic = None)
    <3>1. Parsed' = Parsed BY <2>1, <2>5 DEF Parsed
    <3> QED BY <1>1, <1>7, <1>8, <2>1, <2>2, <2>5, <3>1 DEF ParsedPicture
  <2> QED BY <2>1, <2>3, <2>4, <2>5
<1>11. CASE SettleBounds
  <2>1. /\ ppc \in {"settle", "endSettle"} /\ UNCHANGED <<stream, next, busy, tasks, held>> /\ IdsKept
        /\ \/ UNCHANGED <<currPic, ppc>>
           \/ currPic' = None /\ ppc' = IF ppc = "settle" THEN "start" ELSE "drain"
    BY <1>1, <1>5, <1>11, SettleBoundsEffect DEF PoolTasks
  <2>2. Depended' = Depended /\ Depended \subseteq Slot
    BY <1>1, <2>1 DEF Depended, TypeOK, TaskRecord
  <2>3. CASE UNCHANGED <<currPic, ppc>> BY <1>1, <2>1, <2>2, <2>3, ParsedSame
  <2>4. CASE currPic' = None /\ ppc' = IF ppc = "settle" THEN "start" ELSE "drain"
    <3>1. ppc = "settle" => stream[next - 1].pic # Slice.pic BY <1>1 DEF ParsedPicture, Parsed
    <3>2. ppc = "endSettle" => next > Len(stream) BY <1>1 DEF ParsedPicture
    <3>3. next \in DOMAIN stream => next <= Len(stream) BY <1>1
    <3> QED BY <1>1, <1>6, <1>8, <2>1, <2>2, <2>4, <3>1, <3>2, <3>3 DEF ParsedPicture
  <2> QED BY <2>1, <2>3, <2>4
<1>12. CASE StartPicture
  <2>1. /\ ppc = "start" /\ ppc' = "slot" /\ UNCHANGED <<stream, next, busy, tasks, held, currPic>>
    BY <1>1, <1>12, StartPictureEffect DEF PoolTasks, DpbSlots
  <2>2. Depended' = Depended BY <2>1 DEF Depended
  <2> QED BY <1>1, <1>8, <2>1, <2>2 DEF ParsedPicture
<1>13. CASE AllocSlot
  <2>1. /\ ppc = "slot" /\ UNCHANGED <<stream, next, busy, tasks, held>>
        /\ \/ currPic' = currPic /\ ppc' \in {"idle", "slot"}
           \/ \E s \in Slot \ Unavailable : ppc' = "create" /\ currPic' = s /\ frame'[s].id = Slice.pic
    BY <1>1, <1>13, AllocSlotEffect DEF PoolTasks
  <2>2. Depended' = Depended BY <2>1 DEF Depended
  <2>3. CASE currPic' = currPic /\ ppc' \in {"idle", "slot"}
    <3>1. currPic = None BY <1>1, <2>1 DEF ParsedPicture
    <3> QED BY <1>1, <1>8, <2>1, <2>2, <2>3, <3>1 DEF ParsedPicture
  <2>4. ASSUME NEW s \in Slot \ Unavailable, ppc' = "create", currPic' = s, frame'[s].id = Slice.pic
        PROVE  ParsedPicture'
    <3>1. s \notin Depended BY DEF Unavailable
    <3>2. Parsed' = next /\ next \in DOMAIN stream BY <1>1, <2>1, <2>4 DEF Parsed, ParserPrepared
    <3>3. held = None BY <1>1, <2>1 DEF HeldIsLast
    <3> QED BY <1>6, <2>1, <2>2, <2>4, <3>1, <3>2, <3>3 DEF ParsedPicture, Slice
  <2> QED BY <2>1, <2>3, <2>4
<1>14. CASE CreateTask
  <2>1. /\ ppc = "create" /\ ppc' = "created" /\ UNCHANGED <<stream, next, currPic>> /\ IdsKept
        /\ held' \in Task \ busy /\ busy' = busy \union {held'} /\ tasks'[held'].deps = SlotsOf(Slice.reads)
        /\ \A t \in busy : tasks'[t].deps = tasks[t].deps
    BY <1>1, <1>5, <1>14, CreateTaskEffect DEF DpbSlots
  <2>2. Depended' = Depended \union SlotsOf(Slice.reads) BY <2>1 DEF Depended
  <2>3. currPic # None /\ next <= Len(stream) BY <1>1, <2>1 DEF ParserPrepared
  <2>4. Parsed = next /\ Parsed' = next BY <2>1 DEF Parsed
  <2>5. next \in DOMAIN stream /\ frame[currPic].id = Slice.pic BY <1>1, <2>3, <2>4 DEF ParsedPicture, Slice
  <2>6. Slice.pic \notin Slice.reads
    <3>1. MayRead(stream, next) \subseteq {stream[j].pic : j \in 1 .. next - 1} \ {Slice.pic}
      BY <1>1, <2>5, MayReadEarlier DEF Slice
    <3>2. Slice.reads \subseteq MayRead(stream, next) BY <1>1, <2>5 DEF ReadsWhatIsHeld, Slice
    <3> QED BY <3>1, <3>2
  <2>7. currPic \notin Depended' BY <1>1, <2>2, <2>5, <2>6 DEF SlotsOf, ParsedPicture
  <2> QED BY <1>7, <2>1, <2>3, <2>4, <2>5, <2>7 DEF ParsedPicture, Slice
<1>15. CASE CreatedTask
  <2>1. /\ ppc = "created" /\ ppc' = "idle" /\ next' = next + 1 /\ IdsKept
        /\ UNCHANGED <<stream, busy, tasks, held, currPic>>
    BY <1>1, <1>5, <1>15, CreatedTaskEffect DEF PoolTasks, DpbSlots
  <2>2. Depended' = Depended BY <2>1 DEF Depended
  <2>3. Parsed = next /\ Parsed' = next BY <1>1, <2>1 DEF Parsed
  <2> QED BY <1>1, <1>7, <2>1, <2>2, <2>3 DEF ParsedPicture
<1>16. CASE SendEnd
  <2>1. /\ ppc = "idle" /\ ppc' \in {"endSettle", "drain"} /\ next > Len(stream) /\ IdsKept
        /\ UNCHANGED <<stream, next, busy, currPic>>
        /\ Bounding(Inf) \/ UNCHANGED <<held, tasks>>
    BY <1>1, <1>5, <1>16, SendEndEffect DEF PoolTasks, DpbSlots
  <2>2. Depended' \subseteq Depended BY <1>4, <2>1
  <2>3. Parsed' = Parsed BY <2>1 DEF Parsed
  <2> QED BY <1>1, <1>7, <1>8, <2>1, <2>2, <2>3 DEF ParsedPicture
<1>17. CASE Drain
  <2>1. /\ ppc = "drain" /\ ppc' \in {"drain", "idle"} /\ IdsKept
        /\ UNCHANGED <<stream, next, busy, tasks, held, currPic>>
    BY <1>1, <1>5, <1>17, DrainEffect DEF PoolTasks, DpbSlots
  <2>2. Depended' = Depended BY <2>1 DEF Depended
  <2>3. Parsed' = Parsed BY <2>1 DEF Parsed
  <2>4. ~(next \in DOMAIN stream) BY <1>1, <2>1 DEF ParsedPicture
  <2> QED BY <1>1, <1>7, <1>8, <2>1, <2>2, <2>3, <2>4 DEF ParsedPicture
<1>18. ASSUME NEW s \in Slot, Receive(s) \/ DropOrphan(s) PROVE ParsedPicture'
  <2>1. IdsKept /\ UNCHANGED <<stream, next, busy, tasks, held, currPic, ppc>>
    BY <1>1, <1>5, <1>18, OutputEffect DEF PoolTasks
  <2>2. Depended' = Depended BY <2>1 DEF Depended
  <2> QED BY <1>1, <2>1, <2>2, ParsedSame
<1>19. CASE Close
  <2>1. /\ ppc = "idle" /\ ppc' = "closed" /\ IdsKept /\ UNCHANGED <<stream, next, busy, currPic>>
        /\ Bounding(Inf)
    BY <1>1, <1>5, <1>19, CloseEffect DEF PoolTasks, DpbSlots
  <2>2. Depended' \subseteq Depended BY <1>4, <2>1
  <2>3. Parsed' = Parsed BY <2>1 DEF Parsed
  <2> QED BY <1>1, <1>7, <1>8, <2>1, <2>2, <2>3 DEF ParsedPicture
<1>20. CASE UNCHANGED vars
  <2>1. IdsKept /\ UNCHANGED <<stream, next, busy, tasks, held, currPic, ppc>>
    BY <1>1, <1>5, <1>20, StutterEffect DEF PoolSame
  <2>2. Depended' = Depended BY <2>1 DEF Depended
  <2> QED BY <1>1, <2>1, <2>2, ParsedSame
<1> QED BY <1>2, <1>9, <1>10, <1>11, <1>12, <1>13, <1>14, <1>15, <1>16, <1>17, <1>18, <1>19, <1>20,
           ZenonT(60) DEF Next, Parse, Call

(* A step that neither bounds a slice nor makes a task.                    *)
LEMMA HeldKept ==
  ASSUME TypeOK', HeldIsLast, UNCHANGED <<stream, held>>, NextJob' = NextJob,
         ppc # "closed" \/ (ppc' = "closed" /\ next' = next),
         held # None => currPic' = currPic /\ ppc' \in {"idle", "task", "create", "created"},
         busy' \subseteq busy,
         \A t \in busy' : /\ tasks'[t].job = tasks[t].job /\ tasks'[t].pic = tasks[t].pic
                          /\ tasks'[t].bound = tasks[t].bound
  PROVE  HeldIsLast'
<1>1. held # None => held \in busy' BY DEF TypeOK
<1>2. \A t \in busy' : SliceOf(t)' = SliceOf(t) BY DEF SliceOf
<1>3. \A k : Bounded(k)' => Bounded(k) BY DEF Bounded
<1> QED BY <1>1, <1>2, <1>3 DEF HeldIsLast

(* The next NAL bounds the slice held, or none is.                         *)
LEMMA HeldFreed ==
  ASSUME TypeOK, HeldIsLast, NEW b, Bounding(b), held' = None, UNCHANGED <<stream, busy>>,
         ppc # "closed",
         held # None => /\ b # Unknown /\ b > SliceOf(held).first
                        /\ ppc' # "closed" \/ tasks[held].job < next' - 1 =>
                             b = BoundOf(stream, tasks[held].job)
  PROVE  HeldIsLast'
<1>1. held \in busy \union {None} /\ busy \subseteq Task BY DEF TypeOK
<1>2. \A t \in busy : /\ SliceOf(t)' = SliceOf(t) /\ tasks'[t].job = tasks[t].job
                      /\ t # held => tasks'[t].bound = tasks[t].bound
  BY <1>1 DEF Bounding, SliceOf
<1>3. held # None => tasks'[held].bound = b BY DEF Bounding
<1>4. ASSUME NEW t \in busy
      PROVE  /\ tasks'[t].bound # Unknown /\ tasks'[t].bound > SliceOf(t)'.first
             /\ ppc' # "closed" \/ tasks'[t].job < next' - 1 => tasks'[t].bound = BoundOf(stream, tasks'[t].job)
  <2>1. CASE t = held
    <3>1. held # None BY <1>1, <2>1 DEF Task, None
    <3>2. tasks'[t].bound = b /\ SliceOf(t)' = SliceOf(held) /\ tasks'[t].job = tasks[held].job
      BY <1>2, <1>3, <2>1, <3>1
    <3> QED BY <3>1, <3>2
  <2>2. CASE t # held
    <3>1. /\ tasks[t].bound # Unknown /\ tasks[t].bound > SliceOf(t).first
          /\ tasks[t].bound = BoundOf(stream, tasks[t].job)
      BY <2>2 DEF HeldIsLast, Bounded
    <3>2. tasks'[t].bound = tasks[t].bound /\ SliceOf(t)' = SliceOf(t) /\ tasks'[t].job = tasks[t].job
      BY <1>2, <2>2
    <3> QED BY <3>1, <3>2
  <2> QED BY <2>1, <2>2
<1> QED BY <1>4 DEF HeldIsLast, Bounded

(* No bound is beyond its slice.                                           *)
LEMMA BoundNumbers ==
  ASSUME TypeOK, TasksOrdered, NEW t \in busy
  PROVE  /\ SliceOf(t) \in Header /\ tasks[t].job \in DOMAIN stream /\ stream \in Seq(Header)
         /\ SliceOf(t).first \in 0 .. Rows - 1 /\ tasks[t] \in TaskRecord
         /\ Inf > SliceOf(t).first /\ Inf # Unknown
<1>1. tasks[t].job \in DOMAIN stream /\ stream \in Seq(Header) /\ tasks[t] \in TaskRecord
  BY DEF TypeOK, TasksOrdered
<1>2. SliceOf(t) \in Header BY <1>1 DEF SliceOf
<1>3. SliceOf(t).first \in 0 .. Rows - 1 BY <1>2 DEF Header, Fields, Row
<1> QED BY <1>1, <1>2, <1>3 DEF Inf, Unknown

(* While the slice held may still be bounded, no other is parsed after it. *)
LEMMA HeldBounded ==
  ASSUME TypeOK, TasksOrdered, HeldIsLast, held # None, ppc \in {"idle", "task", "create"}
  PROVE  /\ tasks[held].job = next - 1 /\ held \in busy /\ SliceOf(held) = stream[next - 1]
         /\ next - 1 \in 1 .. Len(stream)
         /\ next > Len(stream) \/ Slice.pic # stream[next - 1].pic \/ ~(Slice.first > SliceOf(held).first)
              => BoundOf(stream, next - 1) = Inf
         /\ next <= Len(stream) /\ Slice.pic = stream[next - 1].pic /\ Slice.first > SliceOf(held).first
              => BoundOf(stream, next - 1) = Slice.first
<1>1. held \in busy /\ next \in 1 .. Len(stream) + 1 /\ Len(stream) \in Nat /\ DOMAIN stream = 1 .. Len(stream)
  <2>1. stream \in Seq(Header) BY DEF TypeOK
  <2> QED BY <2>1 DEF TypeOK
<1>2. tasks[held].job = next - 1 BY DEF HeldIsLast, NextJob
<1>3. next - 1 \in 1 .. Len(stream) BY <1>1, <1>2 DEF TasksOrdered
<1>4. SliceOf(held) = stream[next - 1] BY <1>2 DEF SliceOf
<1>5. (next - 1) + 1 = next /\ (next - 1 < Len(stream) <=> next <= Len(stream)) BY <1>1
<1>6. BoundOf(stream, next - 1) =
        IF next <= Len(stream) /\ Slice.pic = stream[next - 1].pic /\ Slice.first > stream[next - 1].first
          THEN Slice.first ELSE Inf
  BY <1>5 DEF BoundOf, Slice
<1> QED BY <1>1, <1>2, <1>3, <1>4, <1>6

LEMMA HeldNext ==
  ASSUME StreamInv, BoundsInv, [Next]_vars
  PROVE  HeldIsLast'
<1>1. /\ TypeOK /\ TypeOK' /\ ParsedPicture /\ PoolInv /\ TasksOrdered /\ ParserPrepared /\ HeldIsLast
      /\ stream \in Seq(Header) /\ next \in 1 .. Len(stream) + 1
  BY StreamNext DEF StreamInv, PoolInv, TypeOK, BoundsInv, SentOnce
<1>2. ASSUME NEW w \in Worker, Work(w) PROVE HeldIsLast'
  <2>1. WorkerPool BY <1>1, <1>2, WorkerPoolIs
  <2>2. NextJob' = NextJob BY <2>1 DEF WorkerPool, NextJob
  <2> QED BY <1>1, <2>1, <2>2, HeldKept DEF WorkerPool, HeldIsLast
<1>3. ASSUME UNCHANGED <<stream, held, busy, tasks>>, NextJob' = NextJob,
             ppc # "closed" \/ (ppc' = "closed" /\ next' = next),
             held # None => currPic' = currPic /\ ppc' \in {"idle", "task", "create", "created"}
      PROVE  HeldIsLast'
  BY <1>1, <1>3, HeldKept
<1>4. held = None \/ held \in busy BY <1>1 DEF TypeOK
<1>5. held # None => Inf # Unknown /\ Inf > SliceOf(held).first BY <1>1, <1>4, BoundNumbers
<1>6. CASE SendSlice
  <2>1. /\ ppc = "idle" /\ ppc' = "task" /\ next <= Len(stream) /\ UNCHANGED <<stream, next, busy, currPic>>
        /\ (Slice.first = 0 /\ Bounding(Inf)) \/ UNCHANGED <<held, tasks>>
    BY <1>1, <1>6, SendSliceEffect DEF PoolTasks, DpbSlots
  <2>2. NextJob' = NextJob BY <2>1 DEF NextJob
  <2>3. CASE UNCHANGED <<held, tasks>> BY <1>3, <2>1, <2>2, <2>3
  <2>4. CASE Slice.first = 0 /\ Bounding(Inf) /\ held' # held
    <3>1. held' = None BY <2>4 DEF Bounding
    <3>2. held # None => BoundOf(stream, tasks[held].job) = Inf
      <4> SUFFICES ASSUME held # None PROVE BoundOf(stream, tasks[held].job) = Inf OBVIOUS
      <4>1. ~(Slice.first > SliceOf(held).first)
        BY <1>1, <1>4, <2>4, BoundNumbers
      <4> QED BY <1>1, <2>1, <4>1, HeldBounded
    <3> QED BY <1>1, <1>5, <2>1, <2>4, <3>1, <3>2, HeldFreed
  <2>5. CASE Slice.first = 0 /\ Bounding(Inf) /\ held' = held
    <3>1. \A t \in busy : tasks'[t].job = tasks[t].job /\ tasks'[t].pic = tasks[t].pic
                           /\ tasks'[t].bound = tasks[t].bound
      BY <1>1, <2>5 DEF Bounding, TypeOK
    <3> QED BY <1>1, <2>1, <2>2, <2>5, <3>1, HeldKept
  <2> QED BY <2>1, <2>3, <2>4, <2>5
<1>7. CASE WaitTaskSlot
  <2> DEFINE changes == currPic # None /\ frame[currPic].id # Slice.pic
  <2>1. /\ ppc = "task" /\ UNCHANGED <<stream, next, busy, currPic>>
        /\ \/ UNCHANGED <<tasks, held, ppc>>
           \/ changes /\ Bounding(Inf) /\ held' = None /\ ppc' = "settle"
           \/ ~changes /\ UNCHANGED <<held, tasks>> /\ ppc' = IF currPic = None THEN "start" ELSE "create"
    BY <1>1, <1>7, WaitTaskSlotEffect DEF PoolTasks, DpbSlots
  <2>2. NextJob' = NextJob BY <2>1 DEF NextJob
  <2>3. CASE UNCHANGED <<tasks, held, ppc>> BY <1>1, <1>3, <2>1, <2>2, <2>3 DEF HeldIsLast
  <2>4. CASE changes /\ Bounding(Inf) /\ held' = None /\ ppc' = "settle"
    <3>1. held # None => BoundOf(stream, tasks[held].job) = Inf
      <4> SUFFICES ASSUME held # None PROVE BoundOf(stream, tasks[held].job) = Inf OBVIOUS
      <4>1. frame[currPic].id = stream[next - 1].pic BY <1>1, <2>1, <2>4 DEF ParsedPicture, Parsed
      <4>2. Slice.pic # stream[next - 1].pic BY <2>4, <4>1
      <4> QED BY <1>1, <2>1, <4>2, HeldBounded
    <3> QED BY <1>1, <1>5, <2>1, <2>4, <3>1, HeldFreed
  <2>5. CASE ~changes /\ UNCHANGED <<held, tasks>> /\ ppc' = IF currPic = None THEN "start" ELSE "create"
    <3>1. held # None => currPic # None
      BY <1>1, <1>4 DEF HeldIsLast, TasksOrdered, Slot, None
    <3> QED BY <1>3, <2>1, <2>2, <2>5, <3>1
  <2> QED BY <2>1, <2>3, <2>4, <2>5
<1>8. CASE SettleBounds
  <2>1. ppc \in {"settle", "endSettle"} /\ next' = next /\ UNCHANGED <<stream, busy, tasks, held>>
        /\ ppc' \in {ppc, "start", "drain"}
    BY <1>1, <1>8, SettleBoundsEffect DEF PoolTasks
  <2>2. held = None BY <1>1, <2>1 DEF HeldIsLast
  <2>3. NextJob' = NextJob BY <2>1 DEF NextJob
  <2> QED BY <1>3, <2>1, <2>2, <2>3
<1>9. CASE StartPicture \/ AllocSlot
  <2>1. /\ ppc \in {"start", "slot"} /\ ppc' \in {"idle", "slot", "create"} /\ next' = next
        /\ UNCHANGED <<stream, busy, tasks, held>>
    BY <1>1, <1>9, StartPictureEffect, AllocSlotEffect DEF PoolTasks
  <2>2. held = None BY <1>1, <2>1 DEF HeldIsLast
  <2>3. NextJob' = NextJob BY <2>1 DEF NextJob
  <2> QED BY <1>3, <2>1, <2>2, <2>3
<1>10. CASE CreateTask
  <2>1. /\ ppc = "create" /\ ppc' = "created" /\ UNCHANGED <<stream, next, currPic>>
        /\ held' \in Task \ busy /\ busy' = busy \union {held'} /\ next <= Len(stream)
        /\ tasks'[held'].job = next /\ tasks'[held'].pic = currPic
        /\ \A t \in busy : /\ tasks'[t].job = tasks[t].job
                           /\ tasks'[t].bound = IF t = held THEN HeldBound ELSE tasks[t].bound
    BY <1>1, <1>10, CreateTaskEffect DEF DpbSlots
  <2>2. NextJob' = next + 1 /\ next \in Nat BY <1>1, <2>1 DEF NextJob
  <2>3. ASSUME NEW t \in busy
        PROVE  /\ tasks'[t].bound # Unknown /\ tasks'[t].bound > SliceOf(t)'.first
               /\ tasks'[t].bound = BoundOf(stream, tasks'[t].job)
    <3>1. SliceOf(t)' = SliceOf(t) /\ tasks'[t].job = tasks[t].job BY <2>1 DEF SliceOf
    <3>2. CASE t # held
      <4>1. /\ tasks[t].bound # Unknown /\ tasks[t].bound > SliceOf(t).first
            /\ tasks[t].bound = BoundOf(stream, tasks[t].job)
        BY <1>1, <2>1, <3>2 DEF HeldIsLast, Bounded
      <4> QED BY <2>1, <3>1, <3>2, <4>1
    <3>3. CASE t = held
      <4>1. held # None BY <1>1, <3>3 DEF TypeOK, Task, None
      <4>2. Slice.pic = stream[next - 1].pic /\ tasks[held].pic = currPic
        BY <1>1, <2>1, <4>1 DEF ParsedPicture, HeldIsLast
      <4>3. HeldBound = BoundOf(stream, tasks[held].job)
        BY <1>1, <2>1, <4>1, <4>2, HeldBounded DEF HeldBound
      <4>4. HeldBound > SliceOf(held).first /\ HeldBound # Unknown
        <5>1. Slice \in Header BY <1>1, <2>1, SliceType
        <5>2. Slice.first \in 0 .. Rows - 1 BY <5>1 DEF Header, Fields, Row
        <5> QED BY <1>5, <4>1, <5>2 DEF HeldBound, Unknown
      <4> QED BY <2>1, <3>1, <3>3, <4>3, <4>4
    <3> QED BY <3>2, <3>3
  <2>4. \A t \in busy' \ {held'} :
          /\ tasks'[t].bound # Unknown /\ tasks'[t].bound > SliceOf(t)'.first
          /\ tasks'[t].bound = BoundOf(stream', tasks'[t].job)
    BY <2>1, <2>3
  <2> QED BY <2>1, <2>2, <2>4 DEF HeldIsLast
<1>11. CASE CreatedTask
  <2>1. /\ ppc = "created" /\ ppc' = "idle" /\ next' = next + 1
        /\ UNCHANGED <<stream, busy, tasks, held, currPic>>
    BY <1>1, <1>11, CreatedTaskEffect DEF PoolTasks, DpbSlots
  <2>2. NextJob' = NextJob BY <2>1 DEF NextJob
  <2> QED BY <1>3, <2>1, <2>2
<1>12. CASE SendEnd
  <2>1. /\ ppc = "idle" /\ next > Len(stream) /\ UNCHANGED <<stream, next, busy, currPic>>
        /\ ppc' \in {"endSettle", "drain"}
        /\ IF currPic # None THEN held' = None /\ Bounding(Inf) ELSE UNCHANGED <<held, tasks>>
    BY <1>1, <1>12, SendEndEffect DEF PoolTasks, DpbSlots
  <2>2. CASE currPic # None
    <3>1. held # None => BoundOf(stream, tasks[held].job) = Inf BY <1>1, <2>1, HeldBounded
    <3> QED BY <1>1, <1>5, <2>1, <2>2, <3>1, HeldFreed
  <2>3. CASE currPic = None
    <3>1. held = None BY <1>1, <1>4, <2>3 DEF HeldIsLast, TasksOrdered, Slot, None
    <3>2. NextJob' = NextJob BY <2>1 DEF NextJob
    <3> QED BY <1>3, <2>1, <2>3, <3>1, <3>2
  <2> QED BY <2>2, <2>3
<1>13. CASE Drain
  <2>1. /\ ppc = "drain" /\ ppc' \in {"drain", "idle"} /\ UNCHANGED <<stream, next, busy, tasks, held>>
    BY <1>1, <1>13, DrainEffect DEF PoolTasks
  <2>2. held = None BY <1>1, <2>1 DEF HeldIsLast
  <2>3. NextJob' = NextJob BY <2>1 DEF NextJob
  <2> QED BY <1>3, <2>1, <2>2, <2>3
<1>14. ASSUME NEW s \in Slot, Receive(s) \/ DropOrphan(s) PROVE HeldIsLast'
  <2>1. ppc = "idle" /\ UNCHANGED <<stream, next, busy, tasks, held, currPic, ppc>>
    BY <1>1, <1>14, OutputEffect DEF PoolTasks
  <2>2. NextJob' = NextJob BY <2>1 DEF NextJob
  <2> QED BY <1>3, <2>1, <2>2
<1>15. CASE Close
  <2>1. /\ ppc = "idle" /\ ppc' = "closed" /\ UNCHANGED <<stream, next, busy>> /\ held' = None
        /\ Bounding(Inf)
    BY <1>1, <1>15, CloseEffect DEF PoolTasks
  <2>2. held # None => ~(tasks[held].job < next' - 1) BY <1>1, <2>1, HeldBounded
  <2> QED BY <1>1, <1>5, <2>1, <2>2, HeldFreed
<1>16. CASE UNCHANGED vars
  <2>1. UNCHANGED <<stream, next, busy, tasks, held, currPic, ppc>>
    BY <1>1, <1>16, StutterEffect DEF PoolSame
  <2>2. NextJob' = NextJob BY <2>1 DEF NextJob
  <2> QED BY <1>1, <1>3, <2>1, <2>2 DEF HeldIsLast
<1> QED BY <1>2, <1>6, <1>7, <1>8, <1>9, <1>10, <1>11, <1>12, <1>13, <1>14, <1>15, <1>16,
           ZenonT(60) DEF Next, Parse, Call

(* A worker that at most wakes up stays within its bound.                  *)
LEMMA WithinSame ==
  ASSUME PoolInv, BoundsAcked, NEW v \in Worker, SameWork(ctx[v], ctx'[v]),
         ctx[v].pc \in DecodePc =>
           /\ tasks'[ctx[v].task].bound = tasks[ctx[v].task].bound \/ ctx[v].task = held
           /\ ctx[v].task \in acked' => ctx[v].task \in acked
  PROVE  WithinBound(ctx'[v], tasks', acked')
<1> DEFINE c == ctx[v]
           d == ctx'[v]
<1>1. WithinBound(c, tasks, acked) BY DEF BoundsAcked
<1>2. c.pc \in DecodePc => (c.bound # Unknown => c.task # held)
  BY DEF PoolInv, WorkersOwn, WorkerOwns
<1>3. SameWork(c, d) OBVIOUS
<1>4. /\ d.pc \in DecodePc => c.pc \in DecodePc
      /\ d.pc \in EndPc => c.pc \in EndPc
      /\ d.pc \in BackPc => c.pc \in BackPc
      /\ d.pc \in {"ref", "refSleep"} <=> c.pc \in {"ref", "refSleep"}
      /\ d.row = c.row /\ d.task = c.task /\ d.bound = c.bound
  BY <1>3 DEF SameWork, DecodePc, EndPc, BackPc, SleepPc, NotifyPc
<1>5. Top(d) = Top(c) BY <1>4 DEF Top
<1>6. c.pc \in DecodePc =>
        /\ tasks'[c.task].bound = tasks[c.task].bound \/ c.task = held
        /\ c.task \in acked' => c.task \in acked
  OBVIOUS
<1> HIDE DEF c, d
<1>7. WithinBound(d, tasks', acked') BY <1>1, <1>2, <1>4, <1>5, <1>6 DEF WithinBound
<1> QED BY <1>7 DEF d

(* One that goes on with its task does if its rows allow it.               *)
LEMMA WithinMoved ==
  ASSUME PoolInv, BoundsAcked, NEW w \in Worker, ctx[w].pc \in DecodePc,
         NEW pc \in Pc, NEW row \in Nat, Moved(w, pc, row, ctx[w].bound), tasks' = tasks,
         acked' = acked \union {ctx[w].task} \/ acked' = acked,
         ctx[w].task \in acked' =>
           /\ ctx[w].bound # Unknown
           /\ row + (IF pc \in {"ref", "refSleep"} THEN 1 ELSE 0) <= ctx[w].bound,
         pc \in EndPc => row <= ctx[w].bound,
         pc \in {"notifyBack", "redo"} => ctx[w].bound # Unknown
  PROVE  \A v \in Worker : WithinBound(ctx'[v], tasks', acked')
<1>1. WithinBound(ctx'[w], tasks', acked')
  <2> DEFINE c == ctx[w]
             d == ctx'[w]
  <2>1. WithinBound(c, tasks, acked) BY DEF BoundsAcked
  <2>2. d.pc = pc /\ d.row = row /\ d.bound = c.bound /\ d.task = c.task BY DEF Moved
  <2>3. Top(d) = row + (IF pc \in {"ref", "refSleep"} THEN 1 ELSE 0) BY <2>2 DEF Top
  <2>4. c.pc \in DecodePc
        /\ (c.task \in acked' => /\ c.bound # Unknown
                                /\ row + (IF pc \in {"ref", "refSleep"} THEN 1 ELSE 0) <= c.bound)
        /\ (pc \in EndPc => row <= c.bound) /\ (pc \in BackPc => c.bound # Unknown)
    BY DEF BackPc
  <2> HIDE DEF c, d
  <2>5. WithinBound(d, tasks', acked') BY <2>1, <2>2, <2>3, <2>4 DEF WithinBound
  <2> QED BY <2>5 DEF d
<1>2. ASSUME NEW v \in Worker \ {w} PROVE WithinBound(ctx'[v], tasks', acked')
  <2>1. SameWork(ctx[v], ctx'[v]) BY DEF Moved, OthersWork
  <2>2. ctx[v].pc \in DecodePc => ctx[v].task # ctx[w].task BY DEF PoolInv, WorkersOwn
  <2> QED BY <2>1, <2>2, WithinSame
<1> QED BY <1>1, <1>2

(* The workers' steps keep the bounds they acked.                          *)
LEMMA WorkerBounds ==
  ASSUME PoolInv, HeldIsLast, BoundsAcked, NEW w \in Worker, Work(w)
  PROVE  \A v \in Worker : WithinBound(ctx'[v], tasks', acked')
<1> DEFINE c == ctx[w]
<1>1. /\ TypeOK /\ TasksOrdered /\ c \in Context
      /\ c.row \in Nat /\ c.pc \in Pc /\ WithinBound(c, tasks, acked)
  <2>1. TypeOK /\ TasksOrdered BY DEF PoolInv
  <2>2. c \in Context BY <2>1 DEF TypeOK
  <2>3. c.row \in 0 .. Rows /\ c.pc \in Pc BY <2>2 DEF Context
  <2>4. c.row \in Nat BY <2>3
  <2> QED BY <2>1, <2>2, <2>3, <2>4 DEF BoundsAcked
<1>2. c.pc \in DecodePc => /\ c.task \in busy \ pending /\ (c.bound # Unknown => c.task # held)
                           /\ SliceAt(w) = SliceOf(c.task)
  BY DEF PoolInv, WorkersOwn, WorkerOwns, SliceAt
<1>3. c.pc \in DecodePc =>
        /\ c.bound # Unknown => c.bound = tasks[c.task].bound
        /\ c.task \in acked => c.bound # Unknown /\ Top(c) <= c.bound
        /\ c.pc \in EndPc => c.row <= c.bound
        /\ c.pc \in BackPc => c.bound # Unknown
  BY <1>1 DEF WithinBound
<1>4. ASSUME PoolSame, acked' = acked, AllWork PROVE \A v \in Worker : WithinBound(ctx'[v], tasks', acked')
  BY <1>4, WithinSame DEF PoolSame, AllWork
<1>5. CASE TakeTask(w)
  <2>1. PICK t \in pending :
           /\ tasks' = tasks /\ OthersWork(w)
           /\ ctx'[w].pc = "claim" /\ ctx'[w].task = t /\ ctx'[w].row = SliceOf(t).first
           /\ ctx'[w].bound = tasks[t].bound
           /\ acked' = IF tasks[t].bound # Unknown THEN acked \union {t} ELSE acked
    BY <1>5, TakeTaskEffect
  <2>2. ASSUME NEW v \in Worker \ {w} PROVE WithinBound(ctx'[v], tasks', acked')
    <3>1. SameWork(ctx[v], ctx'[v]) BY <2>1 DEF OthersWork
    <3>2. ctx[v].pc \in DecodePc => ctx[v].task # t BY <2>1 DEF PoolInv, WorkersOwn, WorkerOwns
    <3> QED BY <2>1, <3>1, <3>2, WithinSame
  <2>3. WithinBound(ctx'[w], tasks', acked')
    <3>1. t \in busy /\ t \notin acked BY <1>1, <2>1 DEF TypeOK, BoundsAcked
    <3>2. tasks[t].bound # Unknown => t # held BY <1>1, <3>1 DEF TasksOrdered, TypeOK, Task, None
    <3>3. tasks[t].bound # Unknown => tasks[t].bound > SliceOf(t).first BY <3>1, <3>2 DEF HeldIsLast
    <3>4. Top(ctx'[w]) = SliceOf(t).first
      <4>1. SliceOf(t).first \in Nat BY <1>1, <3>1, BoundNumbers
      <4> QED BY <2>1, <4>1 DEF Top
    <3>5. SliceOf(t).first \in Nat /\ tasks[t].bound \in Int
      <4>1. SliceOf(t).first \in Nat /\ tasks[t] \in TaskRecord BY <1>1, <3>1, BoundNumbers
      <4> QED BY <4>1 DEF TaskRecord, Inf
    <3>6. t \in acked' => tasks[t].bound # Unknown /\ Top(ctx'[w]) <= tasks[t].bound
      BY <2>1, <3>1, <3>3, <3>4, <3>5
    <3>7. "claim" \notin EndPc /\ "claim" \notin BackPc BY DEF EndPc, BackPc
    <3> QED BY <2>1, <3>6, <3>7 DEF WithinBound
  <2> QED BY <2>2, <2>3
<1>6. CASE FallAsleep(w) \/ Exit(w) \/ LeaveTask(w)
  <2>1. PoolSame /\ acked' = acked /\ OthersWork(w) /\ ctx'[w].pc \notin DecodePc
    BY <1>6, IdleEffect
  <2>2. WithinBound(ctx'[w], tasks', acked') BY <2>1 DEF WithinBound
  <2>3. ASSUME NEW v \in Worker \ {w} PROVE WithinBound(ctx'[v], tasks', acked')
    BY <2>1, WithinSame DEF PoolSame, OthersWork
  <2> QED BY <2>2, <2>3
<1>7. CASE Finish(w)
  <2>1. /\ c.pc = "finish" /\ OthersWork(w) /\ ctx'[w].pc = "leave" /\ acked' = acked
        /\ busy' = busy \ {c.task} /\ \A u \in busy' : tasks'[u].bound = tasks[u].bound
    BY <1>7, FinishEffect
  <2>2. WithinBound(ctx'[w], tasks', acked')
    BY <2>1 DEF WithinBound, DecodePc, SleepPc, NotifyPc
  <2>3. ASSUME NEW v \in Worker \ {w} PROVE WithinBound(ctx'[v], tasks', acked')
    <3>1. ctx[v].pc \in DecodePc => ctx[v].task \in busy /\ ctx[v].task # c.task
      BY <2>1 DEF PoolInv, WorkersOwn, WorkerOwns, DecodePc
    <3>2. ctx[v].pc \in DecodePc => tasks'[ctx[v].task].bound = tasks[ctx[v].task].bound
      BY <2>1, <3>1
    <3>3. SameWork(ctx[v], ctx'[v]) BY <2>1 DEF OthersWork
    <3> QED BY <2>1, <3>2, <3>3, WithinSame
  <2> QED BY <2>2, <2>3
<1>8. CASE LearnBound(w)
  <2> DEFINE b == tasks[c.task].bound
  <2>1. c.pc \in {"claim", "parsed", "ref"} BY <1>8 DEF LearnBound
  <2>2. c.pc \in DecodePc /\ c.pc \notin EndPc /\ c.pc \notin BackPc
    BY <2>1 DEF DecodePc, EndPc, BackPc
  <2>3. tasks[c.task] \in TaskRecord BY <1>1, <1>2, <2>2, BoundNumbers
  <2>4. /\ c.bound = Unknown /\ b # Unknown
        /\ Moved(w, c.pc, c.row, b) /\ PoolSame
        /\ acked' = acked \/ (acked' = acked \union {c.task} /\ Top(c) <= b)
    BY <1>1, <1>8, <2>3, LearnBoundEffect
  <2>5. c.task \notin acked BY <1>3, <2>2, <2>4
  <2>6. Top(ctx'[w]) = Top(c) BY <2>4 DEF Top, Moved
  <2>7. WithinBound(ctx'[w], tasks', acked')
    <3>1. /\ ctx'[w].pc = c.pc /\ ctx'[w].row = c.row /\ ctx'[w].bound = b /\ ctx'[w].task = c.task
          /\ tasks' = tasks
      BY <2>4 DEF Moved, PoolSame
    <3> QED BY <2>2, <2>4, <2>5, <2>6, <3>1 DEF WithinBound
  <2>8. ASSUME NEW v \in Worker \ {w} PROVE WithinBound(ctx'[v], tasks', acked')
    <3>1. SameWork(ctx[v], ctx'[v]) BY <2>4 DEF Moved, OthersWork
    <3>2. ctx[v].pc \in DecodePc => ctx[v].task # c.task BY <2>2 DEF PoolInv, WorkersOwn
    <3> QED BY <2>4, <3>1, <3>2, WithinSame DEF PoolSame
  <2> QED BY <2>7, <2>8
<1>9. CASE ClaimRow(w)
  <2>1. /\ c.pc = "claim" /\ PoolSame /\ acked' = acked
        /\ Moved(w, "parsed", c.row, c.bound) \/ (Moved(w, "ref", c.row, c.bound) /\ c.row < c.bound)
    BY <1>9, ClaimRowEffect
  <2>2. c.pc \in DecodePc /\ Top(c) = c.row /\ {"parsed", "ref"} \subseteq Pc \ EndPc
    BY <1>1, <2>1 DEF DecodePc, Top, EndPc, Pc
  <2>3. c.row < c.bound => c.row + 1 <= c.bound
    <3>1. c.bound \in 0 .. Inf BY <1>1 DEF Context
    <3> QED BY <1>1, <3>1 DEF Inf
  <2>4. CASE Moved(w, "parsed", c.row, c.bound)
    BY <1>1, <1>3, <2>1, <2>2, <2>4, WithinMoved DEF PoolSame
  <2>5. CASE Moved(w, "ref", c.row, c.bound) /\ c.row < c.bound
    BY <1>1, <1>3, <2>1, <2>2, <2>3, <2>5, WithinMoved DEF PoolSame
  <2> QED BY <2>1, <2>4, <2>5
<1>10. CASE AwaitRow(w)
  <2>1. /\ c.pc = "ref" /\ PoolSame /\ acked' = acked
        /\ ReleaseTerminal(ctx, 0) \/ Moved(w, "refSleep", c.row, c.bound)
    BY <1>10, AwaitRowEffect
  <2>2. CASE ReleaseTerminal(ctx, 0)
    <3>1. AllWork BY <1>1, <2>2, ConcealsIs DEF Conceals
    <3> QED BY <1>4, <2>1, <3>1
  <2>3. CASE Moved(w, "refSleep", c.row, c.bound)
    <3>1. c.pc \in DecodePc /\ Top(c) = c.row + 1 /\ "refSleep" \in Pc \ EndPc
      BY <1>1, <2>1 DEF DecodePc, Top, EndPc, Pc, SleepPc
    <3> QED BY <1>1, <1>3, <2>1, <2>3, <3>1, WithinMoved DEF PoolSame
  <2> QED BY <2>1, <2>2, <2>3
<1>11. CASE DecodeRow(w)
  <2> DEFINE after == AfterRow(w, c.row + 1)
  <2>1. /\ c.pc = "ref" /\ PoolSame /\ acked' = acked
        /\ Moved(w, "notifyRow", c.row + 1, c.bound) \/ Moved(w, after, c.row + 1, c.bound)
    BY <1>11, DecodeRowEffect
  <2>2. PICK pc \in {"notifyRow", "parsed", "claim"} : Moved(w, pc, c.row + 1, c.bound)
    BY <2>1 DEF AfterRow
  <2>3. c.pc \in DecodePc /\ Top(c) = c.row + 1 /\ pc \in Pc \ (EndPc \union {"ref", "refSleep", "notifyBack", "redo"})
        /\ c.row + 1 \in Nat
    BY <1>1, <2>1, <2>2 DEF DecodePc, Top, EndPc, Pc, NotifyPc
  <2> QED BY <1>1, <1>3, <2>1, <2>2, <2>3, WithinMoved DEF PoolSame
<1>12. CASE AwaitBound(w)
  <2>1. /\ c.pc = "parsed" /\ PoolSame /\ acked' = acked /\ Moved(w, "boundSleep", c.row, c.bound)
    BY <1>12, AwaitBoundEffect
  <2>2. c.pc \in DecodePc /\ Top(c) = c.row /\ "boundSleep" \in Pc \ EndPc
    BY <1>1, <2>1 DEF DecodePc, Top, EndPc, Pc, SleepPc
  <2> QED BY <1>1, <1>3, <2>1, <2>2, WithinMoved DEF PoolSame
<1>13. CASE TakeBack(w)
  <2>1. PICK pc \in BackPc :
          /\ c.pc = "parsed" /\ Overrun(w) /\ PoolSame /\ acked' = acked
          /\ Moved(w, pc, c.row, c.bound)
    BY <1>13, TakeBackEffect
  <2>2. /\ c.pc \in DecodePc /\ Top(c) = c.row /\ c.bound # Unknown
        /\ pc \in Pc \ (EndPc \union {"ref", "refSleep"})
    BY <1>1, <2>1 DEF BackPc, DecodePc, Top, EndPc, Pc, NotifyPc, SleepPc, Overrun, Known
  <2> QED BY <1>1, <1>3, <2>1, <2>2, WithinMoved DEF PoolSame
<1>14. CASE Redo(w)
  <2>1. /\ c.pc = "redo" /\ PoolSame /\ acked' = acked \union {c.task}
        /\ Moved(w, "claim", SliceAt(w).first, c.bound)
    BY <1>14, RedoEffect
  <2>2. c.pc \in DecodePc /\ "claim" \in Pc \ EndPc BY <2>1 DEF DecodePc, Pc, EndPc
  <2>3. /\ c.bound # Unknown /\ c.bound = tasks[c.task].bound /\ c.task \in busy \ {held}
        /\ c.bound > SliceAt(w).first
    BY <1>2, <1>3, <2>1, <2>2 DEF HeldIsLast, BackPc
  <2>4. SliceAt(w).first \in Nat /\ c.bound \in Int
    <3>1. SliceAt(w).first \in Nat /\ tasks[c.task] \in TaskRecord BY <1>1, <1>2, <2>2, BoundNumbers
    <3> QED BY <2>3, <3>1 DEF TaskRecord, Inf
  <2>5. SliceAt(w).first + (IF "claim" \in {"ref", "refSleep"} THEN 1 ELSE 0) <= c.bound
    BY <2>3, <2>4
  <2> HIDE DEF c
  <2>6. Moved(w, "claim", SliceAt(w).first, ctx[w].bound) BY <2>1 DEF c
  <2>7. tasks' = tasks /\ ctx[w].pc \in DecodePc /\ "claim" \in Pc
        /\ "claim" \notin EndPc /\ acked' = acked \union {ctx[w].task}
    BY <2>1, <2>2 DEF PoolSame, c
  <2>8. /\ ctx[w].bound # Unknown
        /\ SliceAt(w).first + (IF "claim" \in {"ref", "refSleep"} THEN 1 ELSE 0) <= ctx[w].bound
    BY <2>3, <2>5 DEF c
  <2> QED BY <2>4, <2>6, <2>7, <2>8, WithinMoved
<1>15. CASE PublishSlice(w)
  <2>1. /\ c.pc = "parsed" /\ Known(w) /\ ~Overrun(w) /\ PoolSame /\ acked' = acked
        /\ Moved(w, "notifySlice", c.row, c.bound) \/ Moved(w, "count", c.row, c.bound)
    BY <1>15, PublishSliceEffect
  <2>2. PICK pc \in {"notifySlice", "count"} : Moved(w, pc, c.row, c.bound) BY <2>1
  <2>3. c.pc \in DecodePc /\ Top(c) = c.row /\ pc \in Pc \ {"notifyBack", "redo", "ref", "refSleep"}
    BY <1>1, <2>1 DEF DecodePc, Top, Pc, NotifyPc
  <2>4. c.row <= c.bound
    <3>1. c.bound \in 0 .. Inf BY <1>1 DEF Context
    <3> QED BY <1>1, <2>1, <3>1 DEF Inf, Overrun
  <2> QED BY <1>1, <1>3, <2>1, <2>2, <2>3, <2>4, WithinMoved DEF PoolSame
<1>16. CASE CountSlice(w) \/ Notify(w)
  <2>1. PICK pc \in {"notifyDone", "finish", "parsed", "claim", "redo", "count"} :
           /\ PoolSame /\ acked' = acked /\ c.pc \in NotifyPc \union {"count"}
           /\ Moved(w, pc, c.row, c.bound) /\ (pc \in EndPc => c.pc \in EndPc)
           /\ (pc = "redo" => c.pc \in BackPc)
    <3>1. CASE CountSlice(w)
      <4> DEFINE f == frame[PicOf(w)]
                 left == f.remaining - (ctx[w].row - SliceAt(w).first)
                 last == ~FailedAt(w) /\ left = 0
                 after == IF last THEN "notifyDone" ELSE "finish"
      <4>1. PoolSame /\ acked' = acked /\ c.pc = "count" /\ Moved(w, after, c.row, c.bound)
        BY <3>1, CountSliceEffect, Zenon
      <4>2. after \in {"notifyDone", "finish"} OBVIOUS
      <4>3. "count" \in EndPc BY DEF EndPc
      <4> QED BY <4>1, <4>2, <4>3
    <3>2. CASE Notify(w)
      <4> DEFINE after == CASE c.pc = "notifyRow" -> AfterRow(w, c.row)
                            [] c.pc = "notifyBack" -> "redo"
                            [] c.pc = "notifySlice" -> "count"
                            [] c.pc = "notifyDone" -> "finish"
      <4>1. PoolSame /\ acked' = acked /\ c.pc \in NotifyPc /\ Moved(w, after, c.row, c.bound)
        BY <3>2, NotifyEffect
      <4>2. /\ after \in {"finish", "parsed", "claim", "redo", "count"}
            /\ after \in EndPc => c.pc \in EndPc
            /\ after = "redo" => c.pc \in BackPc
        BY <4>1 DEF NotifyPc, AfterRow, EndPc, BackPc
      <4> QED BY <4>1, <4>2
    <3> QED BY <1>16, <3>1, <3>2
  <2>2. /\ c.pc \in DecodePc /\ Top(c) = c.row /\ pc \in Pc \ {"notifyBack", "ref", "refSleep"}
        /\ pc = "redo" => c.bound # Unknown
    BY <1>1, <2>1 DEF DecodePc, Top, Pc, NotifyPc, WithinBound
  <2> QED BY <1>1, <1>3, <2>1, <2>2, WithinMoved DEF PoolSame
<1> QED BY <1>5, <1>6, <1>7, <1>8, <1>9, <1>10, <1>11, <1>12, <1>13, <1>14, <1>15, <1>16 DEF Work

(* A worker acks the bound of the task it decodes, or takes.               *)
LEMMA WorkerAcks ==
  ASSUME PoolInv, NEW w \in Worker, Work(w)
  PROVE  /\ acked \subseteq acked' /\ acked' \subseteq acked \union (busy \ pending')
         /\ \A t \in pending : t \in pending' \union acked' \/ tasks[t].bound = Unknown
<1>1. TypeOK BY DEF PoolInv
<1>2. ctx[w].pc \in DecodePc => ctx[w].task \in busy \ pending BY DEF PoolInv, WorkersOwn, WorkerOwns
<1>3. CASE TakeTask(w)
  <2>1. PICK t \in pending :
          pending' = pending \ {t} /\ acked' = IF tasks[t].bound # Unknown THEN acked \union {t} ELSE acked
    BY <1>3, TakeTaskEffect
  <2>2. t \in busy BY <1>1, <2>1 DEF TypeOK
  <2> QED BY <2>1, <2>2
<1>4. CASE LearnBound(w)
  <2>1. ctx[w].pc \in DecodePc BY <1>4 DEF LearnBound, DecodePc
  <2>2. pending' = pending /\ (acked' = acked \/ acked' = acked \union {ctx[w].task})
    BY <1>4 DEF LearnBound, AckBound
  <2> QED BY <1>2, <2>1, <2>2
<1>5. CASE Redo(w)
  <2>1. ctx[w].pc \in DecodePc BY <1>5 DEF Redo, DecodePc
  <2>2. pending' = pending /\ acked' = acked \union {ctx[w].task} BY <1>5 DEF Redo, AckBound
  <2> QED BY <1>2, <2>1, <2>2
<1>6. CASE \/ FallAsleep(w) \/ Exit(w) \/ ClaimRow(w) \/ AwaitRow(w) \/ DecodeRow(w) \/ AwaitBound(w)
           \/ TakeBack(w) \/ PublishSlice(w) \/ CountSlice(w) \/ Notify(w) \/ Finish(w) \/ LeaveTask(w)
  <2>1. pending' = pending /\ acked' = acked
    BY <1>6, Zenon DEF FallAsleep, Exit, ClaimRow, AwaitRow, DecodeRow, AwaitBound, TakeBack, PublishSlice,
                CountSlice, Notify, Finish, LeaveTask, poolVars
  <2> QED BY <2>1, Z3T(20)
<1> QED BY <1>3, <1>4, <1>5, <1>6 DEF Work

LEMMA BoundsAckedNext ==
  ASSUME StreamInv, BoundsInv, [Next]_vars
  PROVE  BoundsAcked'
<1>1. /\ TypeOK /\ PoolInv /\ TasksOrdered /\ HeldIsLast /\ BoundsAcked
      /\ \A t \in busy : tasks[t].pic \in Slot
  BY DEF StreamInv, PoolInv, BoundsInv, TasksOrdered
<1>2. /\ pending \intersect acked = {}
      /\ \A t \in busy : tasks[t].pic # currPic => t \in pending \union acked \/ tasks[t].bound = Inf
  BY <1>1 DEF BoundsAcked
<1>3. /\ held # None => tasks[held].pic = currPic
      /\ \A t \in busy \ {held} : tasks[t].bound # Unknown
      /\ pending \subseteq busy /\ busy \subseteq Task
  BY <1>1 DEF HeldIsLast, TypeOK
<1>4. ASSUME NEW w \in Worker, Work(w) PROVE BoundsAcked'
  <2>1. /\ currPic' = currPic /\ busy' \subseteq busy /\ pending' \subseteq pending
        /\ \A t \in busy' : tasks'[t].pic = tasks[t].pic /\ tasks'[t].bound = tasks[t].bound
    BY <1>1, <1>4, WorkerPoolIs DEF WorkerPool
  <2>2. /\ acked \subseteq acked' /\ acked' \subseteq acked \union (busy \ pending')
        /\ \A t \in pending : t \in pending' \union acked' \/ tasks[t].bound = Unknown
    BY <1>1, <1>4, WorkerAcks
  <2>3. pending' \intersect acked' = {} BY <1>2, <2>1, <2>2
  <2>4. ASSUME NEW t \in busy', tasks'[t].pic # currPic'
        PROVE  t \in pending' \union acked' \/ tasks'[t].bound = Inf
    <3>1. t \in busy /\ tasks[t].pic # currPic BY <2>1, <2>4
    <3>2. t # held
      <4>1. t # None BY <1>3, <3>1 DEF Task, None
      <4> QED BY <1>3, <3>1, <4>1
    <3>3. tasks[t].bound # Unknown BY <1>3, <3>1, <3>2
    <3> QED BY <1>2, <2>1, <2>2, <3>1, <3>3
  <2>5. \A v \in Worker : WithinBound(ctx'[v], tasks', acked') BY <1>1, <1>4, WorkerBounds
  <2> QED BY <2>3, <2>4, <2>5 DEF BoundsAcked
<1>5. ASSUME AllWork, busy' \subseteq busy, pending' = pending, acked' = acked, currPic' # None \/ currPic' = currPic,
             currPic = None \/ currPic' = currPic,
             \A t \in busy : /\ tasks'[t].pic = tasks[t].pic
                             /\ t # held => tasks'[t].bound = tasks[t].bound
      PROVE  BoundsAcked'
  <2>1. ASSUME NEW t \in busy', tasks'[t].pic # currPic'
        PROVE  t \in pending' \union acked' \/ tasks'[t].bound = Inf
    <3>1. t \in busy /\ tasks[t].pic # currPic /\ t # None
      BY <1>1, <1>3, <1>5, <2>1 DEF Slot, None, Task
    <3>2. t # held BY <1>3, <3>1
    <3> QED BY <1>2, <1>5, <3>1, <3>2
  <2>2. ASSUME NEW v \in Worker PROVE WithinBound(ctx'[v], tasks', acked')
    <3>1. ctx[v].pc \in DecodePc => ctx[v].task \in busy BY <1>1 DEF PoolInv, WorkersOwn, WorkerOwns
    <3>2. SameWork(ctx[v], ctx'[v]) BY <1>5 DEF AllWork
    <3> QED BY <1>1, <1>5, <3>1, <3>2, WithinSame
  <2> QED BY <1>2, <1>5, <2>1, <2>2 DEF BoundsAcked
<1>6. ASSUME NEW b, Bounding(b)
      PROVE  \A t \in busy : /\ tasks'[t].pic = tasks[t].pic
                             /\ t # held => tasks'[t].bound = tasks[t].bound
  BY <1>3, <1>6 DEF Bounding
<1>7. CASE SendSlice
  <2>1. /\ UNCHANGED <<busy, pending, acked, currPic>> /\ AllWork
        /\ Bounding(Inf) \/ UNCHANGED <<held, tasks>>
    BY <1>1, <1>7, SendSliceEffect DEF PoolTasks, DpbSlots, Quieted
  <2> QED BY <1>5, <1>6, <2>1
<1>8. CASE WaitTaskSlot
  <2>1. /\ UNCHANGED <<busy, pending, acked, currPic>> /\ AllWork
        /\ Bounding(Inf) \/ UNCHANGED <<held, tasks>>
    BY <1>1, <1>8, WaitTaskSlotEffect DEF PoolTasks, DpbSlots, Quieted, Conceals
  <2> QED BY <1>5, <1>6, <2>1
<1>9. CASE SettleBounds
  <2>1. /\ UNCHANGED <<busy, pending, acked, tasks>> /\ AllWork
        /\ currPic' = currPic \/ (Unsettled = {} /\ currPic' = None)
    BY <1>1, <1>9, SettleBoundsEffect DEF PoolTasks, Quieted
  <2>2. CASE currPic' = currPic BY <1>5, <2>1, <2>2
  <2>3. CASE Unsettled = {}
    <3>1. \A t \in busy : t \in pending \union acked \/ tasks[t].bound = Inf
      BY <1>2, <2>3 DEF Unsettled
    <3>2. \A v \in Worker : WithinBound(ctx'[v], tasks', acked')
      BY <1>1, <2>1, WithinSame DEF AllWork
    <3> QED BY <1>2, <2>1, <3>1, <3>2 DEF BoundsAcked
  <2> QED BY <2>1, <2>2, <2>3
<1>10. CASE StartPicture
  <2>1. UNCHANGED <<busy, pending, acked, currPic, tasks>> /\ AllWork
    BY <1>1, <1>10, StartPictureEffect DEF PoolTasks, DpbSlots, Conceals
  <2> QED BY <1>5, <2>1
<1>11. CASE AllocSlot
  <2>1. /\ UNCHANGED <<busy, pending, acked, tasks>> /\ AllWork /\ ppc = "slot"
        /\ currPic' = currPic \/ currPic' \in Slot
    BY <1>1, <1>11, AllocSlotEffect DEF PoolTasks
  <2>2. currPic = None /\ \A s \in Slot : s # None
    BY <2>1 DEF BoundsInv, ParsedPicture, Slot, None
  <2> QED BY <1>5, <2>1, <2>2
<1>12. CASE CreateTask
  <2>1. /\ UNCHANGED currPic /\ AllWork /\ held' \in Task \ busy
        /\ busy' = busy \union {held'} /\ pending' = pending \union {held'} /\ acked' = acked \ {held'}
        /\ tasks'[held'].pic = currPic
        /\ \A t \in busy : /\ tasks'[t].pic = tasks[t].pic
                           /\ t # held => tasks'[t].bound = tasks[t].bound
    BY <1>1, <1>12, CreateTaskEffect DEF DpbSlots, Quieted
  <2>2. ASSUME NEW t \in busy', tasks'[t].pic # currPic'
        PROVE  t \in pending' \union acked' \/ tasks'[t].bound = Inf
    <3>1. t \in busy /\ t # held' BY <2>1, <2>2
    <3>2. tasks[t].pic # currPic /\ t # None BY <1>3, <2>1, <2>2, <3>1 DEF Task, None
    <3>3. t # held BY <1>3, <3>2
    <3> QED BY <1>2, <2>1, <3>1, <3>2, <3>3
  <2>3. ASSUME NEW v \in Worker PROVE WithinBound(ctx'[v], tasks', acked')
    <3>1. ctx[v].pc \in DecodePc => ctx[v].task \in busy BY <1>1 DEF PoolInv, WorkersOwn, WorkerOwns
    <3>2. SameWork(ctx[v], ctx'[v]) BY <2>1 DEF AllWork
    <3> QED BY <1>1, <2>1, <3>1, <3>2, WithinSame
  <2> QED BY <1>2, <2>1, <2>2, <2>3 DEF BoundsAcked
<1>13. CASE CreatedTask
  <2>1. UNCHANGED <<busy, pending, acked, currPic, tasks>> /\ AllWork
    BY <1>1, <1>13, CreatedTaskEffect DEF PoolTasks, DpbSlots, Conceals, Quieted
  <2> QED BY <1>5, <2>1
<1>14. CASE SendEnd
  <2>1. /\ UNCHANGED <<busy, pending, acked, currPic>> /\ AllWork
        /\ Bounding(Inf) \/ UNCHANGED <<held, tasks>>
    BY <1>1, <1>14, SendEndEffect DEF PoolTasks, DpbSlots, Quieted
  <2> QED BY <1>5, <1>6, <2>1
<1>15. CASE Drain
  <2>1. UNCHANGED <<busy, pending, acked, currPic, tasks>> /\ AllWork
    BY <1>1, <1>15, DrainEffect DEF PoolTasks, DpbSlots, Conceals
  <2> QED BY <1>5, <2>1
<1>16. ASSUME NEW s \in Slot, Receive(s) \/ DropOrphan(s) PROVE BoundsAcked'
  <2>1. UNCHANGED <<busy, pending, acked, currPic, tasks>> /\ AllWork
    BY <1>1, <1>16, OutputEffect DEF PoolTasks, Quieted
  <2> QED BY <1>5, <2>1
<1>17. CASE Close
  <2>1. UNCHANGED <<busy, pending, acked, currPic>> /\ AllWork /\ Bounding(Inf)
    BY <1>1, <1>17, CloseEffect DEF PoolTasks, DpbSlots, Quieted
  <2> QED BY <1>5, <1>6, <2>1
<1>18. CASE UNCHANGED vars
  <2>1. UNCHANGED <<busy, pending, acked, currPic, tasks>> /\ AllWork
    BY <1>1, <1>18, StutterEffect DEF PoolSame, Quieted
  <2> QED BY <1>5, <2>1
<1> QED BY <1>4, <1>7, <1>8, <1>9, <1>10, <1>11, <1>12, <1>13, <1>14, <1>15, <1>16, <1>17, <1>18,
           ZenonT(60) DEF Next, Parse, Call

LEMMA BoundsNext ==
  ASSUME StreamInv, BoundsInv, [Next]_vars
  PROVE  BoundsInv'
BY HeldNext, BoundsAckedNext, ParsedNext DEF BoundsInv

LEMMA BoundsInit ==
  ASSUME Init
  PROVE  BoundsInv
<1>1. HeldIsLast BY DEF Init, HeldIsLast
<1>2. ParsedPicture BY DEF Init, ParsedPicture, Depended
<1>3. \A w \in Worker : ctx[w].pc = "idle" BY DEF Init
<1>4. BoundsAcked
  BY <1>3 DEF Init, BoundsAcked, WithinBound, DecodePc, SleepPc, NotifyPc
<1> QED BY <1>1, <1>2, <1>4 DEF BoundsInv

-----------------------------------------------------------------------------
(* The pictures in the slots.                                              *)

LEMMA DependedSlots == TypeOK => Depended \subseteq Slot
BY DEF Depended, TypeOK, TaskRecord

(* A step that parses no picture less and keeps those of the slots.        *)
LEMMA PicturesKept ==
  ASSUME TypeOK, PicturesInv, IdsKept, stream' = stream, currPic' = currPic,
         NEW n, n = NextJob, NEW p, p = Parsed, NextJob \in Int, NextJob' \in Int, NextJob' >= n,
         Parsed \in Int, Parsed' \in Int, Parsed' >= p,
         \A s \in toGet' \union refFrames' \union Depended' :
           s \in toGet \union refFrames \union Depended \/ (s \in Slot /\ frame[s].id # 0)
  PROVE  PicturesInv'
<1>1. \A s \in Slot : frame'[s].id = frame[s].id BY DEF IdsKept
<1>2. toGet \union refFrames \union Depended \subseteq Slot BY DependedSlots DEF TypeOK
<1>3. DOMAIN stream \subseteq Nat BY DEF TypeOK, SliceOrderAssumption, TaskPoolAssumption
<1>4. \A k \in DOMAIN stream : k >= NextJob' => k >= NextJob BY <1>3
<1>5. \A j \in 1 .. Parsed : j \in 1 .. Parsed' OBVIOUS
<1>6. \A s \in Slot : s # currPic => \A k \in DOMAIN stream : k >= NextJob' => stream[k].pic # frame[s].id
  BY <1>4 DEF PicturesInv
<1>7. \A s, u \in Slot : frame'[s].id = frame'[u].id => s = u \/ frame'[s].id = 0
  BY <1>1 DEF PicturesInv
<1>8. \A s \in Slot : frame[s].id # 0 => \E j \in 1 .. Parsed' : stream[j].pic = frame[s].id
  BY <1>5 DEF PicturesInv
<1>9. \A s \in toGet' \union refFrames' \union Depended' : frame'[s].id # 0
  BY <1>1, <1>2 DEF PicturesInv
<1> QED BY <1>1, <1>6, <1>7, <1>8, <1>9 DEF PicturesInv

(* What a slice may read is no slot without a picture.                     *)
LEMMA ReadSlots ==
  ASSUME StreamInv, NEW k \in DOMAIN stream, NEW s \in SlotsOf(MayRead(stream, k))
  PROVE  s \in Slot /\ frame[s].id # 0
<1>1. stream \in Seq(Header) /\ Contiguous(stream) BY DEF StreamInv, SentOnce, PoolInv, TypeOK, TaskPoolAssumption
<1>2. s \in Slot /\ frame[s].id \in MayRead(stream, k) BY DEF SlotsOf
<1>3. MayRead(stream, k) \subseteq {stream[j].pic : j \in 1 .. k - 1}
  BY <1>1, MayReadEarlier DEF StreamInv
<1>4. \A j \in 1 .. k - 1 : stream[j].pic # 0
  <2>1. k \in 1 .. Len(stream) /\ Len(stream) \in Nat BY <1>1
  <2>2. \A j \in 1 .. k - 1 : j \in 1 .. Len(stream) BY <2>1
  <2>3. \A j \in 1 .. Len(stream) : stream[j] \in Header BY <1>1
  <2> QED BY <2>2, <2>3 DEF Header, Fields
<1> QED BY <1>2, <1>3, <1>4

LEMMA PicturesNext ==
  ASSUME StreamInv, BoundsInv, PicturesInv, [Next]_vars
  PROVE  PicturesInv'
<1>1. /\ TypeOK /\ PoolInv /\ stream \in Seq(Header) /\ next \in 1 .. Len(stream) + 1 /\ ParsedPicture
      /\ DOMAIN stream = 1 .. Len(stream) /\ Len(stream) \in Nat /\ Contiguous(stream) /\ next \in Nat
  <2>1. stream \in Seq(Header) BY DEF StreamInv, PoolInv, TypeOK, TaskPoolAssumption
  <2>2. Len(stream) \in Nat BY <2>1
  <2>3. next \in 1 .. Len(stream) + 1 BY DEF StreamInv, PoolInv, TypeOK
  <2>4. next \in Nat BY <2>2, <2>3
  <2> QED BY <2>1, <2>2, <2>3, <2>4 DEF StreamInv, SentOnce, PoolInv, BoundsInv
<1>2. NextJob \in Nat /\ Parsed \in Int BY <1>1 DEF NextJob, Parsed
<1>3. ASSUME IdsKept, stream' = stream, currPic' = currPic, next' \in Nat, NextJob' >= NextJob, Parsed' >= Parsed,
             \A s \in toGet' \union refFrames' \union Depended' :
               s \in toGet \union refFrames \union Depended \/ (s \in Slot /\ frame[s].id # 0)
      PROVE  PicturesInv'
  <2>1. NextJob' \in Int /\ Parsed' \in Int BY <1>3 DEF NextJob, Parsed
  <2> QED BY <1>1, <1>2, <1>3, <2>1, PicturesKept
<1>4. ASSUME busy' \subseteq busy, \A t \in busy' : tasks'[t].deps = tasks[t].deps,
             IdsKept, UNCHANGED <<stream, next, refFrames, currPic>>, toGet' \subseteq toGet,
             ppc' = ppc \/ (ppc \notin {"create", "created"} /\ ppc' # "created")
      PROVE  PicturesInv'
  <2>1. Depended' \subseteq Depended BY <1>4, DependedShrinks
  <2>2. NextJob' >= NextJob /\ Parsed' >= Parsed BY <1>1, <1>4 DEF NextJob, Parsed
  <2> QED BY <1>1, <1>3, <1>4, <2>1, <2>2
<1>5. ASSUME NEW w \in Worker, Work(w) PROVE PicturesInv'
  BY <1>1, <1>4, <1>5, WorkerPoolIs DEF WorkerPool
<1>6. busy \subseteq Task BY <1>1 DEF TypeOK
<1>7. ASSUME NEW b, Bounding(b) \/ tasks' = tasks PROVE \A t \in busy : tasks'[t].deps = tasks[t].deps
  BY <1>6, <1>7 DEF Bounding
<1>8. CASE SendSlice
  BY <1>1, <1>4, <1>7, <1>8, SendSliceEffect, IdsSame DEF PoolTasks, DpbSlots, Quieted
<1>9. CASE WaitTaskSlot
  <2>1. /\ ppc = "task" /\ UNCHANGED <<stream, next, refFrames, toGet, currPic, busy>>
        /\ FramesSame \/ Concealed
        /\ Bounding(Inf) \/ tasks' = tasks
        /\ ppc' \in {ppc, "settle", "start", "create"}
    BY <1>1, <1>9, WaitTaskSlotEffect DEF PoolTasks, DpbSlots, Quieted, Conceals
  <2> QED BY <1>1, <1>4, <1>7, <2>1, IdsSame
<1>10. CASE SettleBounds
  <2>1. /\ ppc \in {"settle", "endSettle"} /\ UNCHANGED <<stream, next, toGet, busy, tasks>> /\ FramesSame
        /\ \/ UNCHANGED <<currPic, refFrames, ppc>>
           \/ /\ currPic' = None
              /\ refFrames' = IF ppc = "settle" THEN SlotsOf(Slice.refs) ELSE refFrames
              /\ ppc' = IF ppc = "settle" THEN "start" ELSE "drain"
    BY <1>1, <1>10, SettleBoundsEffect DEF PoolTasks, Quieted
  <2>2. CASE UNCHANGED <<currPic, refFrames, ppc>>
    BY <1>1, <1>4, <2>1, <2>2, IdsSame
  <2>3. CASE /\ currPic' = None
             /\ refFrames' = IF ppc = "settle" THEN SlotsOf(Slice.refs) ELSE refFrames
             /\ ppc' = IF ppc = "settle" THEN "start" ELSE "drain"
    <3>1. \A s \in Slot : frame'[s].id = frame[s].id BY <1>1, <2>1, IdsSame DEF IdsKept
    <3>2. /\ NextJob = next /\ NextJob' = next /\ Parsed' = Parsed /\ Parsed = next - 1
          /\ Depended' = Depended /\ stream' = stream
      BY <2>1, <2>3 DEF NextJob, Parsed, Depended
    <3>3. ASSUME NEW s \in Slot, NEW k \in DOMAIN stream, k >= next
          PROVE  stream[k].pic # frame[s].id
      <4>1. CASE s # currPic BY <3>2, <3>3, <4>1 DEF PicturesInv
      <4>2. CASE s = currPic
        <5>1. currPic # None BY <4>2 DEF Slot, None
        <5>2. /\ next - 1 \in 1 .. Len(stream) /\ frame[s].id = stream[next - 1].pic
              /\ ppc = "settle" => stream[next].pic # frame[s].id
              /\ ppc = "endSettle" => next > Len(stream)
          BY <1>1, <3>2, <4>2, <5>1 DEF ParsedPicture, Slice
        <5>3. ppc = "settle" /\ next \in 1 .. Len(stream) /\ k \in 1 .. Len(stream)
          BY <1>1, <2>1, <3>3, <5>2
        <5>4. next - 1 < next /\ (k = next \/ next < k) BY <3>3, <5>2, <5>3
        <5> QED BY <1>1, <5>2, <5>3, <5>4 DEF Contiguous
      <4> QED BY <4>1, <4>2
    <3>4. \A s \in refFrames' : frame[s].id # 0
      <4>1. CASE ppc = "settle"
        <5>1. next \in DOMAIN stream BY <1>1, <4>1 DEF PoolInv, ParserPrepared
        <5>2. Slice.refs \subseteq MayRead(stream, next) BY DEF MayRead, Slice
        <5>3. SlotsOf(Slice.refs) \subseteq SlotsOf(MayRead(stream, next)) BY <5>2 DEF SlotsOf
        <5> QED BY <2>3, <4>1, <5>1, <5>3, ReadSlots
      <4>2. CASE ppc # "settle" BY <2>3, <4>2 DEF PicturesInv
      <4> QED BY <4>1, <4>2
    <3>5. toGet' \union refFrames' \union Depended' \subseteq Slot
      <4>1. refFrames' \subseteq Slot BY <1>1, <2>3 DEF TypeOK, SlotsOf
      <4> QED BY <1>1, <2>1, <3>2, <4>1, DependedSlots DEF TypeOK
    <3>6. \A s \in toGet' \union refFrames' \union Depended' : frame'[s].id # 0
      BY <2>1, <3>1, <3>2, <3>4, <3>5 DEF PicturesInv
    <3>7. \A s, u \in Slot : frame'[s].id = frame'[u].id => s = u \/ frame'[s].id = 0
      BY <3>1 DEF PicturesInv
    <3>8. \A s \in Slot : frame'[s].id # 0 => \E j \in 1 .. Parsed' : stream'[j].pic = frame'[s].id
      BY <3>1, <3>2 DEF PicturesInv
    <3> QED BY <3>1, <3>2, <3>3, <3>6, <3>7, <3>8 DEF PicturesInv
  <2> QED BY <2>1, <2>2, <2>3
<1>11. CASE StartPicture
  BY <1>1, <1>4, <1>11, StartPictureEffect, IdsSame DEF PoolTasks, DpbSlots, Conceals
<1>12. CASE AllocSlot
  <2>1. /\ ppc = "slot" /\ UNCHANGED <<stream, next, busy, tasks, refFrames>>
        /\ \/ UNCHANGED <<toGet, currPic>> /\ (FramesSame \/ Concealed) /\ ppc' \in {"idle", "slot"}
           \/ \E s \in Slot \ Unavailable :
                 /\ ppc' = "create" /\ currPic' = s /\ toGet' = toGet \union {s}
                 /\ \A u \in Slot \ {s} : frame'[u] = frame[u]
                 /\ frame'[s].id = Slice.pic
    BY <1>1, <1>12, AllocSlotEffect DEF PoolTasks, Quieted, Conceals
  <2>2. CASE UNCHANGED <<toGet, currPic>> /\ (FramesSame \/ Concealed) /\ ppc' \in {"idle", "slot"}
    BY <1>1, <1>4, <2>1, <2>2, IdsSame
  <2>3. ASSUME NEW s \in Slot \ Unavailable, ppc' = "create", currPic' = s, toGet' = toGet \union {s},
               \A u \in Slot \ {s} : frame'[u] = frame[u], frame'[s].id = Slice.pic
        PROVE  PicturesInv'
    <3>1. /\ NextJob = next /\ NextJob' = next /\ Parsed' = next /\ Parsed = next - 1
          /\ Depended' = Depended /\ stream' = stream
      BY <2>1, <2>3 DEF NextJob, Parsed, Depended
    <3>2. next \in DOMAIN stream /\ Slice \in Header /\ Slice = stream[next]
      BY <1>1, <2>1 DEF PoolInv, ParserPrepared, Slice
    <3>3. Slice.pic # 0 BY <3>2 DEF Header, Fields
    <3>4. \A u \in Slot : u # currPic BY <1>1, <2>1 DEF ParsedPicture, Slot, None
    <3>5. \A u \in Slot : \A k \in DOMAIN stream : k >= next => stream[k].pic # frame[u].id
      BY <3>1, <3>4 DEF PicturesInv
    <3>6. \A u \in Slot : frame[u].id # Slice.pic
      <4>1. next >= next BY <1>1
      <4> QED BY <3>2, <3>5, <4>1
    <3>7. \A u, v \in Slot : frame'[u].id = frame'[v].id => u = v \/ frame'[u].id = 0
      BY <2>3, <3>6 DEF PicturesInv
    <3>8. ASSUME NEW u \in Slot, frame'[u].id # 0 PROVE \E j \in 1 .. Parsed' : stream'[j].pic = frame'[u].id
      <4>1. CASE u = s
        <5>1. next \in 1 .. Parsed' BY <1>1, <3>1
        <5> QED BY <2>3, <3>1, <3>2, <4>1, <5>1
      <4>2. CASE u # s
        <5>1. \A j \in 1 .. Parsed : j \in 1 .. Parsed' BY <1>1, <3>1
        <5> QED BY <2>3, <3>1, <3>8, <4>2, <5>1 DEF PicturesInv
      <4> QED BY <4>1, <4>2
    <3>9. \A u \in Slot : u # s => \A k \in DOMAIN stream : k >= next => stream[k].pic # frame'[u].id
      BY <2>3, <3>5
    <3>10. toGet \union refFrames \union Depended \subseteq Slot BY <1>1, DependedSlots DEF TypeOK
    <3>11. \A u \in toGet' \union refFrames' \union Depended' : frame'[u].id # 0
      BY <2>1, <2>3, <3>1, <3>3, <3>10 DEF PicturesInv
    <3> QED BY <2>3, <3>1, <3>7, <3>8, <3>9, <3>11 DEF PicturesInv
  <2> QED BY <2>1, <2>2, <2>3
<1>13. CASE CreateTask
  <2>1. /\ ppc = "create" /\ ppc' = "created" /\ UNCHANGED <<stream, next, refFrames, toGet, currPic>>
        /\ FramesSame /\ next <= Len(stream) /\ busy' = busy \union {held'} /\ held' \notin busy
        /\ tasks'[held'].deps = SlotsOf(Slice.reads)
        /\ \A t \in busy : tasks'[t].deps = tasks[t].deps
    BY <1>1, <1>13, CreateTaskEffect DEF DpbSlots, Quieted
  <2>2. NextJob' >= NextJob /\ Parsed' >= Parsed BY <1>1, <2>1 DEF NextJob, Parsed
  <2>3. Depended' = Depended \union SlotsOf(Slice.reads)
    <3>1. Depended' = UNION {tasks'[t].deps : t \in busy'} BY DEF Depended
    <3>2. Depended = UNION {tasks[t].deps : t \in busy} BY DEF Depended
    <3> QED BY <2>1, <3>1, <3>2
  <2>4. \A s \in SlotsOf(Slice.reads) : s \in Slot /\ frame[s].id # 0
    <3>1. next \in DOMAIN stream BY <1>1, <2>1
    <3>2. Slice.reads \subseteq MayRead(stream, next) BY <3>1 DEF StreamInv, ReadsWhatIsHeld, Slice
    <3>3. SlotsOf(Slice.reads) \subseteq SlotsOf(MayRead(stream, next)) BY <3>2 DEF SlotsOf
    <3> QED BY <3>1, <3>3, ReadSlots
  <2> QED BY <1>1, <1>3, <2>1, <2>2, <2>3, <2>4, IdsSame
<1>14. CASE CreatedTask
  <2>1. /\ ppc = "created" /\ ppc' = "idle" /\ next' = next + 1
        /\ UNCHANGED <<stream, busy, tasks, refFrames, toGet, currPic>>
        /\ FramesSame \/ Concealed
    BY <1>1, <1>14, CreatedTaskEffect DEF PoolTasks, DpbSlots, Quieted, Conceals
  <2>2. NextJob' >= NextJob /\ Parsed' >= Parsed BY <1>1, <2>1 DEF NextJob, Parsed
  <2>3. Depended' = Depended BY <2>1 DEF Depended
  <2> QED BY <1>1, <1>3, <2>1, <2>2, <2>3, IdsSame
<1>15. CASE SendEnd
  BY <1>1, <1>4, <1>7, <1>15, SendEndEffect, IdsSame DEF PoolTasks, DpbSlots, Quieted
<1>16. CASE Drain
  BY <1>1, <1>4, <1>16, DrainEffect, IdsSame DEF PoolTasks, DpbSlots, Conceals
<1>17. ASSUME NEW s \in Slot, Receive(s) \/ DropOrphan(s) PROVE PicturesInv'
  BY <1>1, <1>4, <1>17, OutputEffect, IdsSame DEF PoolTasks, Quieted
<1>18. CASE Close
  BY <1>1, <1>4, <1>7, <1>18, CloseEffect, IdsSame DEF PoolTasks, DpbSlots, Quieted
<1>19. CASE UNCHANGED vars
  BY <1>1, <1>4, <1>19, StutterEffect, IdsSame DEF PoolSame, Quieted
<1> QED BY <1>5, <1>8, <1>9, <1>10, <1>11, <1>12, <1>13, <1>14, <1>15, <1>16, <1>17, <1>18, <1>19,
           ZenonT(60) DEF Next, Parse, Call

LEMMA PicturesInit ==
  ASSUME Init, ReadsWhatIsHeld(stream)
  PROVE  PicturesInv
<1>1. stream \in Seq(Header) BY DEF Init, TaskPoolAssumption
<1>2. \A k \in DOMAIN stream : stream[k].pic # 0
  <2>1. \A k \in DOMAIN stream : stream[k] \in Header BY <1>1
  <2> QED BY <2>1 DEF Header, Fields
<1>3. \A s \in Slot : frame[s].id = 0 BY DEF Init
<1>4. toGet \union refFrames \union Depended = {} BY DEF Init, Depended
<1> QED BY <1>2, <1>3, <1>4 DEF PicturesInv

-----------------------------------------------------------------------------
(* The rows of the pictures.                                               *)

(* The slices of a slot decode one at a time, in order.                    *)
LEMMA OneWriter ==
  ASSUME PoolInv, NEW v \in Worker, ctx[v].pc \in DecodePc
  PROVE  /\ ctx[v].task \in busy \ pending /\ PicOf(v) \in Slot
         /\ \A u \in busy : tasks[u].pic = PicOf(v) =>
              u = ctx[v].task \/ tasks[u].job > tasks[ctx[v].task].job
         /\ \A w \in Worker : ctx[w].pc \in DecodePc /\ (PicOf(w) = PicOf(v) \/ ctx[w].task = ctx[v].task) => w = v
<1>1. TypeOK /\ TasksOrdered /\ WorkersOwn(ctx, tasks, busy, pending, held, stream) BY DEF PoolInv
<1>2. \A w \in Worker : ctx[w].pc \in DecodePc =>
        /\ ctx[w].task \in busy \ pending /\ tasks[ctx[w].task].after = {}
  BY <1>1 DEF WorkersOwn, WorkerOwns
<1>3. \A u \in busy : tasks[u].job \in Nat /\ tasks[u].pic \in Slot BY <1>1 DEF TypeOK, TaskRecord, TasksOrdered
<1>4. ASSUME NEW w \in Worker, ctx[w].pc \in DecodePc, NEW u \in busy, tasks[u].pic = PicOf(w)
      PROVE  u = ctx[w].task \/ tasks[u].job > tasks[ctx[w].task].job
  <2>1. ctx[w].task \in busy /\ tasks[ctx[w].task].after = {} BY <1>2, <1>4
  <2>2. ~(tasks[u].job < tasks[ctx[w].task].job) BY <1>1, <1>4, <2>1 DEF TasksOrdered, PicOf
  <2>3. tasks[u].job = tasks[ctx[w].task].job => u = ctx[w].task BY <1>1, <1>4, <2>1 DEF TasksOrdered
  <2> QED BY <1>3, <1>4, <2>1, <2>2, <2>3
<1>5. ASSUME NEW w \in Worker, ctx[w].pc \in DecodePc, PicOf(w) = PicOf(v) PROVE w = v
  <2>1. ctx[w].task \in busy /\ ctx[v].task \in busy BY <1>2, <1>5
  <2>2. ctx[w].task = ctx[v].task \/ tasks[ctx[w].task].job > tasks[ctx[v].task].job
    BY <1>4, <1>5, <2>1 DEF PicOf
  <2>3. ctx[w].task = ctx[v].task \/ tasks[ctx[v].task].job > tasks[ctx[w].task].job
    BY <1>4, <1>5, <2>1 DEF PicOf
  <2>4. ctx[w].task = ctx[v].task BY <1>3, <2>1, <2>2, <2>3
  <2> QED BY <1>1, <1>5, <2>4 DEF WorkersOwn
<1>6. \A w \in Worker : ctx[w].pc \in DecodePc /\ ctx[w].task = ctx[v].task => w = v BY <1>1 DEF WorkersOwn
<1>7. ctx[v].task \in busy \ pending /\ PicOf(v) \in Slot BY <1>2, <1>3 DEF PicOf
<1> QED BY <1>4, <1>5, <1>6, <1>7

LEMMA GoingDecodes == GoingPc \union CountedPc \subseteq DecodePc /\ GoingPc \intersect CountedPc = {}
BY DEF GoingPc, MakingPc, BackPc, MadePc, CountedPc, DecodePc, SleepPc, NotifyPc

(* The task of a worker that goes on with it, like a pending one, is yet to*)
(* be counted.                                                             *)
LEMMA UncountedTasks ==
  ASSUME PoolInv
  PROVE  /\ pending \subseteq Uncounted /\ Uncounted \subseteq busy
         /\ \A w \in Worker : Goes(w) => ctx[w].task \in Uncounted
<1>1. pending \subseteq busy BY DEF PoolInv, TypeOK
<1>2. \A w \in Worker : ctx[w].pc \in DecodePc => ctx[w].task \in busy \ pending BY OneWriter
<1>3. ASSUME NEW w \in Worker, Goes(w) PROVE ctx[w].task \in Uncounted
  <2>1. ctx[w].pc \in DecodePc /\ ctx[w].pc \notin CountedPc BY <1>3, GoingDecodes DEF Goes
  <2>2. \A v \in Worker : ctx[v].pc \in CountedPc => ctx[v].task # ctx[w].task
    BY <2>1, OneWriter, GoingDecodes
  <2> QED BY <1>2, <2>1, <2>2 DEF Uncounted
<1> QED BY <1>1, <1>2, <1>3, GoingDecodes DEF Uncounted

LEMMA UncountedSame ==
  ASSUME busy' = busy,
         \A v \in Worker : /\ ctx'[v].pc \in CountedPc <=> ctx[v].pc \in CountedPc
                           /\ ctx[v].pc \in CountedPc => ctx'[v].task = ctx[v].task
  PROVE  Uncounted' = Uncounted
BY DEF Uncounted

LEMMA JobsSame ==
  ASSUME Uncounted' = Uncounted,
         \A t \in Uncounted : tasks'[t].job = tasks[t].job /\ tasks'[t].pic = tasks[t].pic
  PROVE  \A s : JobsIn(s)' = JobsIn(s)
BY DEF JobsIn

(* A worker that at most wakes up has what it had.                         *)
LEMMA WorkingSame ==
  ASSUME NEW c, NEW d, NEW k, NEW f, NEW g, SameWork(c, d), SameFrame(f, g), d.pc \in GoingPc
  PROVE  c.pc \in GoingPc /\ (Working(c, k, f) => Working(d, k, g))
<1>1. /\ d.pc \in MakingPc <=> c.pc \in MakingPc
      /\ d.pc \in MadePc <=> c.pc \in MadePc
      /\ d.pc \in BackPc <=> c.pc \in BackPc
      /\ d.pc \in {"parsed", "boundSleep"} <=> c.pc \in {"parsed", "boundSleep"}
      /\ d.pc \in {"ref", "refSleep"} <=> c.pc \in {"ref", "refSleep"}
      /\ c.pc \in GoingPc
  BY DEF SameWork, GoingPc, MakingPc, BackPc, MadePc
<1>2. d.row = c.row /\ d.bound = c.bound /\ d.turn = c.turn BY DEF SameWork
<1>3. Top(d) = Top(c) BY <1>1, <1>2 DEF Top
<1>4. g.rows = f.rows /\ g.frontier = f.frontier BY DEF SameFrame
<1>5. Working(c, k, f) => Working(d, k, g) BY <1>1, <1>2, <1>3, <1>4, Zenon DEF Working
<1> QED BY <1>1, <1>5

LEMMA WorkingPrimed ==
  ASSUME stream' = stream,
         \A w \in Worker : ctx'[w].pc \in GoingPc =>
           Working(ctx'[w], tasks'[ctx'[w].task].job, frame'[tasks'[ctx'[w].task].pic])
  PROVE  AllWorking'
<1> SUFFICES ASSUME NEW w \in Worker, Goes(w)'
             PROVE  Working(ctx[w], tasks[ctx[w].task].job, frame[PicOf(w)])'
  BY DEF AllWorking
<1>1. Working(ctx'[w], tasks'[ctx'[w].task].job, frame'[tasks'[ctx'[w].task].pic]) BY DEF Goes
<1> QED BY <1>1, Zenon DEF Working, PicOf

(* A slot nothing happens to keeps what its slices made.                   *)
LEMMA ReachedSame ==
  ASSUME NEW s \in Slot, stream' = stream, NextJob' = NextJob, ppc # "closed" \/ ppc' = "closed",
         SameFrame(frame[s], frame'[s]), JobsIn(s)' = JobsIn(s),
         \A w \in Worker : Goes(w) /\ PicOf(w) = s => Goes(w)' /\ PicOf(w)' = s,
         RowsReached, Followed(s)'
  PROVE  Reached(s)'
<1>1. /\ frame'[s].id = frame[s].id /\ frame'[s].rows = frame[s].rows
      /\ frame'[s].frontier = frame[s].frontier /\ frame'[s].remaining = frame[s].remaining
  BY DEF SameFrame
<1>2. Followed(s) BY <1>1 DEF Followed
<1>3. BehindFrontier(frame[s]) /\ frame[s].remaining > 0 BY <1>2 DEF RowsReached, Reached
<1>4. PICK n \in 0 .. NextJob - 1 : UpTo(s, n) BY <1>2 DEF RowsReached, Reached
<1>5. BehindFrontier(frame[s])' BY <1>1, <1>3 DEF BehindFrontier
<1>6. UpTo(s, n)'
  <2>1. Splits(s, n)' BY <1>1, <1>4 DEF Splits, UpTo
  <2>2. Counts(frame[s].remaining, frame[s].id, n)' BY <1>1, <1>4 DEF Counts, UpTo
  <2>3. ASSUME \A w \in Worker : Goes(w)' => PicOf(w)' # s
        PROVE  frame'[s].rows = RowsAfter(stream', frame'[s].id, n)
    BY <1>1, <1>4, <2>3 DEF UpTo
  <2> QED BY <2>1, <2>2, <2>3 DEF UpTo
<1> QED BY <1>1, <1>3, <1>5, <1>6 DEF Reached

(* A picture concealed is complete, and none of its slices is to come.     *)
LEMMA ConcealedFinal ==
  ASSUME TypeOK, PicturesInv, Concealed, NEW s \in Slot
  PROVE  \/ SameFrame(frame[s], frame'[s])
         \/ /\ frame'[s].frontier = Inf /\ frame'[s].id = frame[s].id /\ frame[s].id # 0
            /\ s \notin Writing /\ s # currPic
            /\ \A k \in DOMAIN stream : k >= NextJob => stream[k].pic # frame[s].id
<1>1. CASE s \notin Doomed BY <1>1 DEF Concealed, SameFrame
<1>2. CASE s \in Doomed
  <2>1. frame'[s] = ConcealedFrame(s) BY <1>2 DEF Concealed
  <2>2. s \in (Depended \union toGet \union refFrames) \ (Complete \union Writing \union {currPic})
    BY <1>2, DoomedSlots
  <2>3. frame'[s].frontier = Inf /\ frame'[s].id = frame[s].id BY <2>1, ConcealedSlot
  <2> QED BY <2>2, <2>3 DEF PicturesInv
<1> QED BY <1>1, <1>2

(* A step that decodes and counts nothing.                                 *)
LEMMA RowsKept ==
  ASSUME StreamInv, PicturesInv, RowsInv, UNCHANGED stream,
         Uncounted' = Uncounted,
         \A t \in Uncounted : tasks'[t].job = tasks[t].job /\ tasks'[t].pic = tasks[t].pic,
         NextJob' = NextJob, ppc # "closed" \/ ppc' = "closed",
         \A v \in Worker : \/ SameWork(ctx[v], ctx'[v])
                           \/ ctx[v].pc \notin GoingPc /\ ctx'[v].pc \notin GoingPc,
         FramesSame \/ Concealed
  PROVE  RowsInv'
<1>1. /\ TypeOK /\ PoolInv /\ WritersCurrent /\ AllWorking /\ RowsReached /\ NoneToCome
  BY DEF StreamInv, PoolInv, RowsInv
<1>2. ASSUME NEW s \in Slot
      PROVE  \/ SameFrame(frame[s], frame'[s])
             \/ /\ frame'[s].frontier = Inf /\ frame'[s].id = frame[s].id /\ frame[s].id # 0
                /\ s \notin Writing
                /\ \A k \in DOMAIN stream : k >= NextJob => stream[k].pic # frame[s].id
  BY <1>1, ConcealedFinal DEF FramesSame
<1>3. \A t \in Uncounted : t \in busy /\ tasks[t].pic \in Writing /\ tasks[t].pic \in Slot
  BY <1>1, UncountedTasks DEF Writing, PoolInv, TasksOrdered
<1>4. \A t \in Uncounted : SameFrame(frame[tasks[t].pic], frame'[tasks[t].pic]) BY <1>2, <1>3
<1>5. WritersCurrent'
  <2> SUFFICES ASSUME NEW t \in Uncounted
               PROVE  frame'[tasks'[t].pic].id = SliceOf(t)'.pic /\ frame'[tasks'[t].pic].frontier # Inf
    BY DEF WritersCurrent
  <2>1. frame[tasks[t].pic].id = SliceOf(t).pic /\ frame[tasks[t].pic].frontier # Inf
    BY <1>1 DEF WritersCurrent
  <2>2. SliceOf(t)' = SliceOf(t) /\ tasks'[t].pic = tasks[t].pic BY DEF SliceOf
  <2>3. SameFrame(frame[tasks[t].pic], frame'[tasks[t].pic]) BY <1>4
  <2> QED BY <2>1, <2>2, <2>3 DEF SameFrame
<1>6. ASSUME NEW v \in Worker
      PROVE  /\ Goes(v)' <=> Goes(v)
             /\ Goes(v) => /\ ctx'[v].task = ctx[v].task /\ ctx[v].task \in Uncounted
                           /\ SameWork(ctx[v], ctx'[v]) /\ PicOf(v)' = PicOf(v)
  <2>1. SameWork(ctx[v], ctx'[v]) => (ctx'[v].pc \in GoingPc <=> ctx[v].pc \in GoingPc)
    BY DEF SameWork, GoingPc, MakingPc, BackPc, MadePc
  <2>2. Goes(v)' <=> Goes(v) BY <2>1 DEF Goes
  <2>3. Goes(v) => SameWork(ctx[v], ctx'[v]) BY DEF Goes
  <2>4. Goes(v) => ctx[v].task \in Uncounted BY <1>1, UncountedTasks
  <2> QED BY <2>2, <2>3, <2>4 DEF SameWork, PicOf
<1>7. AllWorking'
  <2>1. ASSUME NEW w \in Worker, ctx'[w].pc \in GoingPc
        PROVE  Working(ctx'[w], tasks'[ctx'[w].task].job, frame'[tasks'[ctx'[w].task].pic])
    <3>1. Goes(w) BY <1>6, <2>1 DEF Goes
    <3>2. Working(ctx[w], tasks[ctx[w].task].job, frame[tasks[ctx[w].task].pic])
      BY <1>1, <3>1 DEF AllWorking, PicOf
    <3>3. /\ ctx'[w].task = ctx[w].task /\ ctx[w].task \in Uncounted /\ SameWork(ctx[w], ctx'[w])
          /\ tasks'[ctx[w].task].job = tasks[ctx[w].task].job
          /\ tasks'[ctx[w].task].pic = tasks[ctx[w].task].pic
      BY <1>6, <3>1
    <3>4. SameFrame(frame[tasks[ctx[w].task].pic], frame'[tasks[ctx[w].task].pic]) BY <1>4, <3>3
    <3> QED BY <2>1, <3>2, <3>3, <3>4, WorkingSame
  <2> QED BY <2>1, WorkingPrimed
<1>8. RowsReached'
  <2> SUFFICES ASSUME NEW s \in Slot, Followed(s)' PROVE Reached(s)'
    BY DEF RowsReached
  <2>1. SameFrame(frame[s], frame'[s]) BY <1>2 DEF Followed
  <2>2. JobsIn(s)' = JobsIn(s) BY JobsSame
  <2> QED BY <1>1, <1>6, <2>1, <2>2, ReachedSame
<1>9. NoneToCome'
  <2> SUFFICES ASSUME ppc' # "closed", NEW s \in Complete'
               PROVE  frame'[s].id # 0 /\ \A k \in DOMAIN stream : k >= NextJob => stream[k].pic # frame'[s].id
    BY DEF NoneToCome
  <2>1. s \in Slot /\ frame'[s].frontier = Inf BY DEF Complete, CompleteIn
  <2>2. CASE SameFrame(frame[s], frame'[s])
    <3>1. s \in Complete /\ frame'[s].id = frame[s].id BY <2>1, <2>2 DEF Complete, CompleteIn, SameFrame
    <3> QED BY <1>1, <3>1 DEF NoneToCome
  <2> QED BY <1>2, <2>1, <2>2
<1> QED BY <1>5, <1>7, <1>8, <1>9 DEF RowsInv

(* A slice being decoded leaves the rows before it, and has decoded those  *)
(* it published.                                                           *)
LEMMA WorkingFrontier ==
  ASSUME stream \in Seq(Header), NEW k \in DOMAIN stream, NEW c, NEW f, c.pc \in GoingPc,
         f.frontier \in Int, Working(c, k, f)
  PROVE  LET sl == stream[k]
             before == RowsAfter(stream, sl.pic, k - 1)
         IN  /\ \A r \in Row : r < sl.first => f.rows[r] = before[r]
             /\ c.turn => /\ f.frontier >= sl.first /\ f.frontier <= sl.last
                          /\ \A r \in Row : r >= sl.first /\ r < f.frontier => f.rows[r] # Undecoded
             /\ ~c.turn => f.frontier < sl.first
<1> DEFINE sl == stream[k]
           before == RowsAfter(stream, sl.pic, k - 1)
<1>1. /\ sl \in Header /\ sl.first \in Nat /\ sl.last \in 1 .. Rows /\ sl.first < sl.last
      /\ Rows \in Nat /\ Lag \in {0, 1} /\ k \in Nat
  <2>1. sl \in Header OBVIOUS
  <2>2. k \in Nat OBVIOUS
  <2> HIDE DEF sl
  <2>3. sl.first \in Row /\ sl.last \in 1 .. Rows /\ sl.first < sl.last BY <2>1 DEF Header, Fields
  <2> QED BY <2>1, <2>2, <2>3, SliceOrderAssumption DEF Row
<1>2. before \in [Row -> RowContent]
  <2>1. k - 1 \in 0 .. Len(stream) BY <1>1
  <2> QED BY <2>1, RowsAfterType
<1>3. /\ c.row \in sl.first .. sl.last
      /\ \A r \in sl.first .. Top(c) - 1 : before[r] = Undecoded
      /\ c.pc \in MakingPc => f.rows = Adding(sl, k, Top(c), before)
      /\ c.pc \in BackPc => f.rows = before
      /\ c.pc \in MadePc => /\ c.row = StopRow(sl, c.bound, before)
                            /\ f.rows = Fill(sl, k, c.row, before)
      /\ c.turn <=> f.frontier >= sl.first
      /\ c.turn /\ c.pc \in MakingPc => f.frontier <= Larger(sl.first, c.row - Lag)
      /\ c.turn /\ c.pc \in BackPc => f.frontier = sl.first
      /\ c.turn /\ c.pc \in MadePc => f.frontier = KeepRow(sl, c.row)
  BY Zenon DEF Working
<1> HIDE DEF before
<1>4. Top(c) >= c.row /\ Top(c) \in Int /\ c.row \in Nat /\ c.row <= sl.last BY <1>1, <1>3 DEF Top
<1>5. Undecoded # Decoded(k) /\ Undecoded # Recovered(k) BY DEF Undecoded, Decoded, Recovered
<1>6. CASE c.pc \in MakingPc
  <2>1. \A r \in Row : f.rows[r] = IF r \in sl.first .. Top(c) - 1 THEN Decoded(k) ELSE before[r]
    BY <1>3, <1>6 DEF Adding
  <2>2. \A r \in Row : r < sl.first => f.rows[r] = before[r] BY <1>1, <2>1 DEF Row
  <2>3. Larger(sl.first, c.row - Lag) <= c.row /\ Larger(sl.first, c.row - Lag) >= sl.first
    BY <1>1, <1>3, <1>4 DEF Larger
  <2>4. c.turn => f.frontier >= sl.first /\ f.frontier <= c.row
    BY <1>1, <1>3, <1>4, <1>6, <2>3 DEF Larger
  <2>5. ASSUME c.turn, NEW r \in Row, r >= sl.first, r < f.frontier PROVE f.rows[r] # Undecoded
    <3>1. r \in sl.first .. Top(c) - 1 BY <1>1, <1>4, <2>4, <2>5 DEF Row
    <3> QED BY <1>5, <2>1, <3>1
  <2>6. c.turn => f.frontier >= sl.first /\ f.frontier <= sl.last BY <1>1, <1>4, <2>4
  <2>7. ~c.turn => f.frontier < sl.first BY <1>1, <1>3
  <2> QED BY <2>2, <2>5, <2>6, <2>7 DEF before
<1>7. CASE c.pc \in BackPc
  <2>1. ~c.turn => f.frontier < sl.first BY <1>1, <1>3
  <2>2. c.turn => f.frontier = sl.first /\ sl.first <= sl.last BY <1>1, <1>3, <1>7
  <2> QED BY <1>1, <1>3, <1>7, <2>1, <2>2 DEF before, Row
<1>8. CASE c.pc \in MadePc
  <2>1. KeepRow(sl, c.row) \in sl.first .. c.row BY <1>1, <1>3, KeptRows
  <2>2. f.rows = Fill(sl, k, c.row, before) BY <1>3, <1>8
  <2>3. /\ \A r \in Row : r \notin sl.first .. c.row - 1 => f.rows[r] = before[r]
        /\ \A r \in Row : r \in sl.first .. c.row - 1 => f.rows[r] # Undecoded
    BY <1>1, <1>2, <1>3, <2>2, FilledRows, SMTT(25)
  <2>4. c.turn => f.frontier >= sl.first /\ f.frontier <= c.row BY <1>1, <1>3, <1>4, <1>8, <2>1
  <2>5. ASSUME c.turn, NEW r \in Row, r >= sl.first, r < f.frontier PROVE f.rows[r] # Undecoded
    <3>1. r \in sl.first .. c.row - 1 BY <1>1, <1>4, <2>4, <2>5 DEF Row
    <3> QED BY <2>3, <3>1
  <2>6. \A r \in Row : r < sl.first => f.rows[r] = before[r] BY <1>1, <2>3 DEF Row
  <2>7. ~c.turn => f.frontier < sl.first BY <1>1, <1>3
  <2>8. c.turn => f.frontier >= sl.first /\ f.frontier <= sl.last BY <1>1, <1>4, <2>4
  <2> QED BY <2>5, <2>6, <2>7, <2>8 DEF before
<1> QED BY <1>6, <1>7, <1>8 DEF GoingPc

(* A slice to be decoded, its job and its picture.                         *)
LEMMA TaskOfSlot ==
  ASSUME StreamInv, RowsInv, NEW t \in Uncounted
  PROVE  LET k == tasks[t].job
             s == tasks[t].pic
         IN  /\ t \in busy /\ s \in Slot /\ k \in DOMAIN stream /\ k \in 1 .. Len(stream) /\ k \in 1 .. NextJob - 1
             /\ stream \in Seq(Header) /\ SliceOf(t) = stream[k] /\ stream[k].pic = frame[s].id
             /\ frame[s].id # 0 /\ frame[s].frontier # Inf /\ k \in JobsIn(s) /\ Followed(s)
<1> DEFINE k == tasks[t].job
           s == tasks[t].pic
<1>1. TypeOK /\ TasksOrdered /\ stream \in Seq(Header) /\ t \in busy /\ PoolInv /\ WritersCurrent
  BY UncountedTasks DEF StreamInv, PoolInv, TypeOK, TaskPoolAssumption, RowsInv
<1>2. k \in DOMAIN stream /\ k < NextJob /\ s \in Slot BY <1>1 DEF TasksOrdered
<1>3. Len(stream) \in Nat /\ DOMAIN stream = 1 .. Len(stream) BY <1>1
<1>4. NextJob \in Nat
  <2>1. next \in 1 .. Len(stream) + 1 BY <1>1 DEF TypeOK
  <2> QED BY <1>3, <2>1 DEF NextJob
<1>5. k \in 1 .. Len(stream) /\ k \in 1 .. NextJob - 1 BY <1>2, <1>3, <1>4
<1>6. SliceOf(t) = stream[k] /\ stream[k].pic = frame[s].id /\ frame[s].frontier # Inf
  BY <1>1 DEF SliceOf, WritersCurrent
<1>7. stream[k].pic # 0
  <2>1. stream[k] \in Header BY <1>1, <1>2
  <2> QED BY <2>1 DEF Header, Fields
<1>8. k \in JobsIn(s) BY DEF JobsIn
<1>9. Followed(s) BY <1>6, <1>7, <1>8 DEF Followed
<1> QED BY <1>1, <1>2, <1>5, <1>6, <1>7, <1>8, <1>9

(* A worker goes on with its slice: only its slot changes.                 *)
LEMMA RowsWorked ==
  ASSUME StreamInv, RowsInv, TypeOK', NEW w \in Worker, Goes(w), Goes(w)', OthersWork(w),
         ctx'[w].task = ctx[w].task, ctx'[w].turn = ctx[w].turn,
         UNCHANGED <<stream, next, tasks, busy, ppc>>,
         NEW a, NEW b, Stored(w, a, frame[PicOf(w)].remaining, b),
         ~ctx[w].turn => a = frame[PicOf(w)].frontier,
         Working(ctx'[w], tasks[ctx[w].task].job, frame'[PicOf(w)])
  PROVE  RowsInv'
<1> DEFINE t == ctx[w].task
<1>0. PICK s, k : s = PicOf(w) /\ k = tasks[t].job OBVIOUS
<1>1. /\ TypeOK /\ PoolInv /\ WritersCurrent /\ AllWorking /\ RowsReached /\ NoneToCome
  BY DEF StreamInv, PoolInv, RowsInv
<1>2. ctx[w].pc \in DecodePc /\ ctx'[w].pc \in DecodePc /\ t \in Uncounted /\ ctx[w].pc \notin CountedPc
      /\ ctx'[w].pc \notin CountedPc
  BY <1>1, GoingDecodes, UncountedTasks, Z3T(20) DEF Goes
<1>3. /\ s \in Slot /\ k \in DOMAIN stream /\ stream \in Seq(Header) /\ stream[k].pic = frame[s].id
      /\ frame[s].id # 0 /\ Followed(s) /\ SliceOf(t) = stream[k] /\ s = tasks[t].pic
  BY <1>0, <1>2, TaskOfSlot, Zenon DEF PicOf
<1>4. /\ \A u \in Slot \ {s} : SameFrame(frame[u], frame'[u])
      /\ frame'[s].id = frame[s].id /\ frame'[s].frontier = a
      /\ frame'[s].remaining = frame[s].remaining /\ frame'[s].rows = b
  BY <1>0 DEF Stored
<1>5. ASSUME NEW v \in Worker \ {w}
      PROVE  /\ SameWork(ctx[v], ctx'[v]) /\ ctx'[v].task = ctx[v].task
             /\ Goes(v)' <=> Goes(v)
             /\ ctx'[v].pc \in CountedPc <=> ctx[v].pc \in CountedPc
             /\ Goes(v) => PicOf(v) # s
  <2>1. SameWork(ctx[v], ctx'[v]) BY DEF OthersWork
  <2>2. /\ ctx'[v].pc \in GoingPc <=> ctx[v].pc \in GoingPc
        /\ ctx'[v].pc \in CountedPc <=> ctx[v].pc \in CountedPc
    BY <2>1 DEF SameWork, GoingPc, MakingPc, BackPc, MadePc, CountedPc
  <2>3. Goes(v) => ctx[v].pc \in DecodePc BY GoingDecodes DEF Goes
  <2>4. ctx[v].pc \in DecodePc => PicOf(v) # s BY <1>0, <1>1, <1>2, OneWriter
  <2> QED BY <2>1, <2>2, <2>3, <2>4 DEF SameWork, Goes
<1>6. Uncounted' = Uncounted BY <1>2, <1>5, UncountedSame
<1>7. \A u : JobsIn(u)' = JobsIn(u) BY <1>6, JobsSame
<1>8. NextJob' = NextJob /\ NextJob \in Nat
  <2>1. next \in 1 .. Len(stream) + 1 /\ Len(stream) \in Nat BY <1>1, <1>3 DEF TypeOK
  <2> QED BY <2>1 DEF NextJob
<1>9. frame[s].frontier \in Int /\ frame'[s].frontier \in Int
  <2>1. frame[s] \in FrameRecord /\ frame'[s] \in FrameRecord BY <1>1, <1>3 DEF TypeOK
  <2>2. frame[s].frontier \in 0 .. Inf /\ frame'[s].frontier \in 0 .. Inf BY <2>1 DEF FrameRecord
  <2>3. Inf \in Int BY SliceOrderAssumption DEF Inf
  <2> QED BY <2>2, <2>3
<1> DEFINE sl == stream[k]
           before == RowsAfter(stream, sl.pic, k - 1)
<1>10. /\ \A r \in Row : r < sl.first => frame[s].rows[r] = before[r]
       /\ ctx[w].turn => frame[s].frontier >= sl.first
       /\ ~ctx[w].turn => frame[s].frontier < sl.first
  <2>1. Working(ctx[w], k, frame[s]) BY <1>0, <1>1 DEF AllWorking
  <2>2. ctx[w].pc \in GoingPc BY DEF Goes
  <2>3. /\ \A r \in Row : r < sl.first => frame[s].rows[r] = before[r]
        /\ ctx[w].turn => /\ frame[s].frontier >= sl.first /\ frame[s].frontier <= sl.last
                          /\ \A r \in Row : r >= sl.first /\ r < frame[s].frontier => frame[s].rows[r] # Undecoded
        /\ ~ctx[w].turn => frame[s].frontier < sl.first
    BY <1>3, <1>9, <2>1, <2>2, WorkingFrontier, Zenon
  <2> QED BY <2>3, Zenon
<1>11. /\ \A r \in Row : r < sl.first => frame'[s].rows[r] = before[r]
       /\ ctx[w].turn => /\ frame'[s].frontier <= sl.last
                         /\ \A r \in Row : r >= sl.first /\ r < frame'[s].frontier => frame'[s].rows[r] # Undecoded
       /\ ~ctx[w].turn => frame'[s].frontier < sl.first
  <2>1. Working(ctx'[w], k, frame'[s]) BY <1>0
  <2>2. ctx'[w].pc \in GoingPc /\ ctx'[w].turn = ctx[w].turn BY DEF Goes
  <2>3. /\ \A r \in Row : r < sl.first => frame'[s].rows[r] = before[r]
        /\ ctx'[w].turn => /\ frame'[s].frontier >= sl.first /\ frame'[s].frontier <= sl.last
                           /\ \A r \in Row : r >= sl.first /\ r < frame'[s].frontier => frame'[s].rows[r] # Undecoded
        /\ ~ctx'[w].turn => frame'[s].frontier < sl.first
    BY <1>3, <1>9, <2>1, <2>2, WorkingFrontier, Zenon
  <2> QED BY <2>2, <2>3
<1>12. sl.first \in Row /\ sl.last \in 1 .. Rows /\ Row \subseteq Int /\ Rows \in Nat
  <2>1. sl \in Header BY <1>3
  <2> HIDE DEF sl
  <2> QED BY <2>1, SliceOrderAssumption DEF Header, Fields, Row
<1> HIDE DEF before, sl
<1>13. frame'[s].frontier # Inf BY <1>9, <1>11, <1>12 DEF Inf, Row
<1>14. WritersCurrent'
  <2> SUFFICES ASSUME NEW u \in Uncounted
               PROVE  frame'[tasks[u].pic].id = SliceOf(u).pic /\ frame'[tasks[u].pic].frontier # Inf
    BY <1>6 DEF WritersCurrent, SliceOf
  <2>1. frame[tasks[u].pic].id = SliceOf(u).pic /\ frame[tasks[u].pic].frontier # Inf /\ tasks[u].pic \in Slot
    BY <1>1, TaskOfSlot DEF WritersCurrent
  <2> QED BY <1>4, <1>13, <2>1 DEF SameFrame
<1>15. AllWorking'
  <2>1. ASSUME NEW v \in Worker, ctx'[v].pc \in GoingPc
        PROVE  Working(ctx'[v], tasks'[ctx'[v].task].job, frame'[tasks'[ctx'[v].task].pic])
    <3>1. CASE v = w BY <1>0, <1>3, <3>1, SMTT(25)
    <3>2. CASE v # w
      <4>1. Goes(v) /\ SameWork(ctx[v], ctx'[v]) /\ ctx'[v].task = ctx[v].task /\ PicOf(v) # s
        BY <1>5, <2>1, <3>2 DEF Goes
      <4>2. PicOf(v) \in Slot BY <1>1, <4>1, OneWriter, GoingDecodes DEF Goes
      <4>3. SameFrame(frame[PicOf(v)], frame'[PicOf(v)]) BY <1>4, <4>1, <4>2
      <4>4. Working(ctx[v], tasks[ctx[v].task].job, frame[PicOf(v)]) BY <1>1, <4>1 DEF AllWorking
      <4>5. Working(ctx'[v], tasks[ctx[v].task].job, frame'[PicOf(v)])
        BY <2>1, <4>1, <4>3, <4>4, WorkingSame
      <4> QED BY <4>1, <4>5 DEF PicOf
    <3> QED BY <3>1, <3>2, Z3T(20)
  <2> QED BY <2>1, WorkingPrimed
<1>16. RowsReached'
  <2> SUFFICES ASSUME NEW u \in Slot, Followed(u)' PROVE Reached(u)'
    BY DEF RowsReached
  <2>1. CASE u # s
    <3>1. SameFrame(frame[u], frame'[u]) BY <1>4, <2>1, SMTT(25)
    <3>2. \A v \in Worker : Goes(v) /\ PicOf(v) = u => Goes(v)' /\ PicOf(v)' = u
      BY <1>5, <2>1 DEF PicOf
    <3> QED BY <1>1, <1>7, <1>8, <3>1, <3>2, ReachedSame
  <2>2. CASE u = s
    <3>1. BehindFrontier(frame[s]) /\ frame[s].remaining > 0 BY <1>1, <1>3 DEF RowsReached, Reached
    <3>2. PICK n \in 0 .. NextJob - 1 : UpTo(s, n) BY <1>1, <1>3 DEF RowsReached, Reached
    <3>3. BehindFrontier(frame[s])'
      <4> SUFFICES ASSUME NEW r \in Row, r < frame'[s].frontier PROVE frame'[s].rows[r] # Undecoded
        BY DEF BehindFrontier
      <4>0. r \in Int /\ sl.first \in Int /\ frame[s].frontier \in Int /\ frame'[s].frontier \in Int
        BY <1>9, <1>12
      <4>1. CASE ~(r < sl.first)
        <5>1. r >= sl.first /\ ~(frame'[s].frontier < sl.first) BY <4>0, <4>1
        <5> QED BY <1>11, <5>1, Zenon
      <4>2. CASE r < sl.first
        <5>1. frame[s].frontier >= sl.first => r < frame[s].frontier BY <4>0, <4>2
        <5>2. ~ctx[w].turn => frame'[s].frontier = frame[s].frontier BY <1>0, <1>4, Zenon
        <5>3. r < frame[s].frontier BY <1>10, <5>1, <5>2, Zenon
        <5>4. frame[s].rows[r] # Undecoded BY <3>1, <5>3 DEF BehindFrontier
        <5> QED BY <1>10, <1>11, <4>2, <5>4
      <4> QED BY <4>1, <4>2
    <3>4. UpTo(s, n)'
      <4>1. Splits(s, n)' BY <1>4, <1>7, <1>8, <3>2 DEF Splits, UpTo
      <4>2. Counts(frame[s].remaining, frame[s].id, n)' BY <1>4, <3>2, SMTT(25) DEF Counts, UpTo
      <4>3. Goes(w)' /\ PicOf(w)' = s BY <1>0 DEF PicOf
      <4> QED BY <4>1, <4>2, <4>3 DEF UpTo
    <3> QED BY <1>4, <1>8, <2>2, <3>1, <3>3, <3>4 DEF Reached
  <2> QED BY <2>1, <2>2
<1>17. NoneToCome'
  <2> SUFFICES ASSUME ppc # "closed", NEW u \in Complete'
               PROVE  frame'[u].id # 0 /\ \A j \in DOMAIN stream : j >= NextJob => stream[j].pic # frame'[u].id
    BY <1>8 DEF NoneToCome
  <2>1. u \in Slot /\ u # s /\ frame'[u].frontier = Inf BY <1>13 DEF Complete, CompleteIn
  <2>2. frame[u].frontier = Inf /\ frame'[u].id = frame[u].id BY <1>4, <2>1 DEF SameFrame
  <2>3. u \in Complete BY <2>1, <2>2 DEF Complete, CompleteIn
  <2> QED BY <1>1, <2>2, <2>3 DEF NoneToCome
<1> QED BY <1>14, <1>15, <1>16, <1>17 DEF RowsInv

(* What a worker that decodes a slice knows of it.                         *)
LEMMA GoingTask ==
  ASSUME StreamInv, RowsInv, NEW w \in Worker, Goes(w)
  PROVE  LET k == tasks[ctx[w].task].job
             sl == stream[k]
             before == RowsAfter(stream, sl.pic, k - 1)
             f == frame[PicOf(w)]
         IN  /\ PoolInv /\ TypeOK /\ stream \in Seq(Header) /\ ctx[w].pc \in DecodePc
             /\ PicOf(w) \in Slot /\ k \in DOMAIN stream /\ k \in Nat /\ SliceAt(w) = sl /\ ~Stale(ctx[w].task)
             /\ sl \in Header /\ sl.first \in Row /\ sl.first \in Nat /\ sl.last \in 1 .. Rows /\ sl.last \in Nat
             /\ sl.first < sl.last /\ Rows \in Nat /\ Lag \in {0, 1}
             /\ before \in [Row -> RowContent] /\ f.rows \in [Row -> RowContent] /\ f.frontier \in Int
             /\ ctx[w].row \in Nat /\ ctx[w].bound \in Nat /\ ctx[w].turn \in BOOLEAN
             /\ Working(ctx[w], k, f) /\ ctx[w].row \in sl.first .. sl.last
<1> DEFINE t == ctx[w].task
<1>0. PICK k, s : s = PicOf(w) /\ k = tasks[t].job OBVIOUS
<1>1. PoolInv /\ TypeOK /\ t \in Uncounted /\ ctx[w].pc \in DecodePc /\ AllWorking
  BY UncountedTasks, GoingDecodes DEF StreamInv, PoolInv, Goes, RowsInv
<1>2. /\ s \in Slot /\ k \in DOMAIN stream /\ stream \in Seq(Header) /\ stream[k].pic = frame[s].id
      /\ SliceOf(t) = stream[k] /\ k \in 1 .. Len(stream) /\ s = tasks[t].pic
  BY <1>0, <1>1, TaskOfSlot DEF PicOf
<1>3. SliceAt(w) = stream[k] /\ ~Stale(t) BY <1>0, <1>2 DEF SliceAt, Stale, PicOf
<1>4. k \in Nat /\ k - 1 \in 0 .. Len(stream)
  <2>1. Len(stream) \in Nat BY <1>2
  <2> QED BY <1>2, <2>1
<1>5. RowsAfter(stream, stream[k].pic, k - 1) \in [Row -> RowContent] BY <1>2, <1>4, RowsAfterType
<1>6. stream[k] \in Header BY <1>2
<1>7. stream[k].first \in Row /\ stream[k].last \in 1 .. Rows /\ stream[k].first < stream[k].last
  BY <1>6 DEF Header, Fields
<1>8. /\ Rows \in Nat /\ Lag \in {0, 1} /\ Inf \in Nat
      /\ stream[k].first \in Nat /\ stream[k].last \in Nat
  BY <1>7, SliceOrderAssumption DEF Row, Inf
<1>9. frame[s] \in FrameRecord /\ ctx[w] \in Context BY <1>1, <1>2 DEF TypeOK
<1>10. frame[s].rows \in [Row -> RowContent] /\ frame[s].frontier \in 0 .. Inf BY <1>9 DEF FrameRecord
<1>11. ctx[w].row \in 0 .. Rows /\ ctx[w].bound \in 0 .. Inf /\ ctx[w].turn \in BOOLEAN BY <1>9 DEF Context
<1>12. ctx[w].row \in Nat /\ ctx[w].bound \in Nat /\ frame[s].frontier \in Int BY <1>8, <1>10, <1>11
<1>13. Working(ctx[w], k, frame[s]) BY <1>0, <1>1 DEF AllWorking
<1>14. ctx[w].row \in stream[k].first .. stream[k].last BY <1>13 DEF Working
<1> QED BY <1>0, <1>1, <1>2, <1>3, <1>4, <1>5, <1>6, <1>7, <1>8, <1>10, <1>11, <1>12, <1>13, <1>14, Zenon

(* A worker that goes on where it was, with another program counter.       *)
LEMMA RowsMoved ==
  ASSUME StreamInv, RowsInv, TypeOK', NEW w \in Worker, Goes(w), NEW pc \in GoingPc, NEW row, NEW bound,
         Moved(w, pc, row, bound), PoolSame,
         NEW a, NEW b, Stored(w, a, frame[PicOf(w)].remaining, b) \/ FramesSame,
         FramesSame \/ ~ctx[w].turn => a = frame[PicOf(w)].frontier,
         FramesSame => b = frame[PicOf(w)].rows,
         NEW k, k = tasks[ctx[w].task].job,
         \A c, f : c.pc = pc /\ c.row = row /\ c.bound = bound /\ c.turn = ctx[w].turn
                     /\ f.frontier = a /\ f.rows = b => Working(c, k, f)
  PROVE  RowsInv'
<1>1. PicOf(w) \in Slot BY GoingTask
<1>2. /\ ctx'[w].pc = pc /\ ctx'[w].row = row /\ ctx'[w].bound = bound /\ ctx'[w].turn = ctx[w].turn
      /\ ctx'[w].task = ctx[w].task /\ OthersWork(w) /\ Goes(w)'
  BY DEF Moved, Goes
<1>3. Stored(w, a, frame[PicOf(w)].remaining, b)
  BY <1>1 DEF Stored, FramesSame, SameFrame
<1>4. frame'[PicOf(w)].frontier = a /\ frame'[PicOf(w)].rows = b BY <1>3 DEF Stored
<1>5. Working(ctx'[w], tasks[ctx[w].task].job, frame'[PicOf(w)]) BY <1>2, <1>4
<1>6. UNCHANGED <<stream, next, tasks, busy, ppc>> BY DEF PoolSame
<1> QED BY <1>2, <1>3, <1>5, <1>6, RowsWorked, SMTT(25)

LEMMA WorkingAgain ==
  ASSUME NEW k, NEW c, NEW f, NEW d, NEW g, Working(c, k, f), c.pc \in MakingPc, d.pc \in MakingPc,
         d.row = c.row, d.turn = c.turn, Top(d) = Top(c), g.rows = f.rows, g.frontier = f.frontier,
         d.pc \in {"parsed", "boundSleep"} =>
           \/ d.row = stream[k].last
           \/ d.row >= d.bound
           \/ RowsAfter(stream, stream[k].pic, k - 1)[d.row] # Undecoded
  PROVE  Working(d, k, g)
<1>1. d.pc \notin BackPc /\ d.pc \notin MadePc BY DEF MakingPc, BackPc, MadePc
<1> QED BY <1>1, Zenon DEF Working

LEMMA RowsAgain ==
  ASSUME StreamInv, RowsInv, TypeOK', NEW w \in Worker, ctx[w].pc \in MakingPc, NEW pc \in MakingPc, NEW bound,
         Moved(w, pc, ctx[w].row, bound), PoolSame, FramesSame,
         NEW k, k = tasks[ctx[w].task].job,
         pc \in {"ref", "refSleep"} <=> ctx[w].pc \in {"ref", "refSleep"},
         pc \in {"parsed", "boundSleep"} =>
           \/ ctx[w].row = stream[k].last
           \/ ctx[w].row >= bound
           \/ RowsAfter(stream, stream[k].pic, k - 1)[ctx[w].row] # Undecoded
  PROVE  RowsInv'
<1>1. PICK a, b : a = frame[PicOf(w)].frontier /\ b = frame[PicOf(w)].rows OBVIOUS
<1>2. Goes(w) /\ pc \in GoingPc BY DEF Goes, GoingPc
<1>3. Working(ctx[w], k, frame[PicOf(w)]) BY <1>2 DEF RowsInv, AllWorking
<1>4. ASSUME NEW c, NEW f, c.pc = pc, c.row = ctx[w].row, c.bound = bound, c.turn = ctx[w].turn,
             f.frontier = a, f.rows = b
      PROVE  Working(c, k, f)
  <2>1. Top(c) = Top(ctx[w]) BY <1>4 DEF Top
  <2> QED BY <1>1, <1>3, <1>4, <2>1, WorkingAgain
<1>5. \A c, f : c.pc = pc /\ c.row = ctx[w].row /\ c.bound = bound /\ c.turn = ctx[w].turn
                  /\ f.frontier = a /\ f.rows = b => Working(c, k, f)
  BY <1>4, Zenon
<1> QED BY <1>1, <1>2, <1>5, RowsMoved

LEMMA LearnBoundRows ==
  ASSUME StreamInv, RowsInv, TypeOK', NEW w \in Worker, LearnBound(w)
  PROVE  RowsInv'
<1>1. PICK k : k = tasks[ctx[w].task].job OBVIOUS
<1>2. ctx[w].pc \in {"claim", "parsed", "ref"} BY DEF LearnBound
<1>3. Goes(w) /\ ctx[w].pc \in MakingPc BY <1>2 DEF Goes, GoingPc, MakingPc
<1>4. /\ TypeOK /\ Working(ctx[w], k, frame[PicOf(w)]) /\ ctx[w].task \in busy /\ PoolInv /\ Rows \in Nat
      /\ ctx[w].row \in 0 .. Rows
  <2>1. ctx[w].pc \in DecodePc BY <1>3, GoingDecodes DEF Goes
  <2>2. PoolInv /\ TypeOK BY DEF StreamInv, PoolInv
  <2>3. ctx[w] \in Context BY <2>2 DEF TypeOK
  <2> QED BY <1>1, <1>3, <2>1, <2>2, <2>3, OneWriter, SliceOrderAssumption
          DEF RowsInv, AllWorking, Context
<1>5. tasks[ctx[w].task] \in TaskRecord BY <1>4, BoundNumbers DEF PoolInv
<1>6. PICK b : /\ ctx[w].bound = Unknown
               /\ Moved(w, ctx[w].pc, ctx[w].row, b) /\ FramesSame /\ PoolSame
  BY <1>4, <1>5, LearnBoundEffect
<1>7. ctx[w].pc \in {"parsed", "boundSleep"} =>
        \/ ctx[w].row = stream[k].last
        \/ RowsAfter(stream, stream[k].pic, k - 1)[ctx[w].row] # Undecoded
  <2>1. ~(ctx[w].row >= ctx[w].bound) BY <1>4, <1>6 DEF Unknown
  <2> QED BY <1>4, <2>1, Zenon DEF Working
<1> QED BY <1>1, <1>3, <1>6, <1>7, RowsAgain

LEMMA AwaitBoundRows ==
  ASSUME StreamInv, RowsInv, TypeOK', NEW w \in Worker, AwaitBound(w)
  PROVE  RowsInv'
<1>1. PICK k : k = tasks[ctx[w].task].job OBVIOUS
<1>2. ctx[w].pc = "parsed" /\ Moved(w, "boundSleep", ctx[w].row, ctx[w].bound) /\ FramesSame /\ PoolSame
  BY AwaitBoundEffect DEF StreamInv
<1>3. Goes(w) /\ {"parsed", "boundSleep"} \subseteq MakingPc BY <1>2 DEF Goes, GoingPc, MakingPc
<1>4. Working(ctx[w], k, frame[PicOf(w)]) BY <1>1, <1>3 DEF RowsInv, AllWorking
<1>5. \/ ctx[w].row = stream[k].last
      \/ ctx[w].row >= ctx[w].bound
      \/ RowsAfter(stream, stream[k].pic, k - 1)[ctx[w].row] # Undecoded
  BY <1>2, <1>4, Zenon DEF Working
<1>6. /\ ctx[w].pc \in MakingPc /\ "boundSleep" \in MakingPc
      /\ "boundSleep" \in {"ref", "refSleep"} <=> ctx[w].pc \in {"ref", "refSleep"}
  BY <1>2, <1>3
<1> QED BY <1>1, <1>2, <1>5, <1>6, RowsAgain, Zenon

LEMMA ClaimRowRows ==
  ASSUME StreamInv, RowsInv, TypeOK', NEW w \in Worker, ClaimRow(w)
  PROVE  RowsInv'
<1>1. PICK k, sl, before, f : /\ k = tasks[ctx[w].task].job /\ sl = stream[k]
                              /\ before = RowsAfter(stream, sl.pic, k - 1) /\ f = frame[PicOf(w)]
  OBVIOUS
<1> DEFINE r == ctx[w].row
<1>2. /\ ctx[w].pc = "claim" /\ PoolSame
      /\ \/ /\ Moved(w, "parsed", r, ctx[w].bound) /\ FramesSame
            /\ r >= ctx[w].bound \/ Claimed(w)
         \/ /\ Moved(w, "ref", r, ctx[w].bound) /\ ~Claimed(w)
            /\ Stale(ctx[w].task) \/ Stored(w, f.frontier, f.remaining, [f.rows EXCEPT ![r] = Decoded(k)])
  BY <1>1, ClaimRowEffect DEF StreamInv
<1>3. Goes(w) /\ ctx[w].pc \in MakingPc /\ {"parsed", "ref"} \subseteq MakingPc
  BY <1>2 DEF Goes, GoingPc, MakingPc
<1>4. /\ PoolInv /\ ~Stale(ctx[w].task) /\ sl.first \in Nat /\ sl.last \in 1 .. Rows /\ Rows \in Nat
      /\ before \in [Row -> RowContent] /\ f.rows \in [Row -> RowContent] /\ r \in Nat /\ SliceAt(w) = sl
      /\ r \in sl.first .. sl.last /\ Working(ctx[w], k, f) /\ f.frontier \in Int /\ k \in Nat
  BY <1>1, <1>3, GoingTask, Zenon
<1>5. r < sl.last
  BY <1>1, <1>2, <1>4, Zenon DEF PoolInv, WorkersOwn, WorkerOwns, ClaimPc
<1>6. r \in Row BY <1>4, <1>5 DEF Row
<1>7. Top(ctx[w]) = r BY <1>2, <1>4 DEF Top
<1>8. f.rows = Adding(sl, k, r, before) /\ (\A j \in sl.first .. r - 1 : before[j] = Undecoded)
  BY <1>1, <1>3, <1>4, <1>7, Zenon DEF Working
<1>9. f.rows[r] = before[r]
  <2>1. r \notin sl.first .. r - 1 BY <1>4
  <2> QED BY <1>6, <1>8, <2>1 DEF Adding
<1>10. Claimed(w) <=> before[r] # Undecoded
  <2>1. Stale(ctx[w].task) = FALSE BY <1>4 DEF Stale
  <2>2. Claimed(w) = ((f.rows[r] # Undecoded) # FALSE) BY <1>1, <2>1 DEF Claimed
  <2> QED BY <1>9, <2>2
<1>11. CASE Moved(w, "parsed", r, ctx[w].bound) /\ FramesSame /\ (r >= ctx[w].bound \/ Claimed(w))
  <2>1. /\ ctx[w].pc \in MakingPc /\ "parsed" \in MakingPc
        /\ "parsed" \in {"ref", "refSleep"} <=> ctx[w].pc \in {"ref", "refSleep"}
    BY <1>2, <1>3
  <2>2. \/ ctx[w].row >= ctx[w].bound
        \/ RowsAfter(stream, stream[k].pic, k - 1)[ctx[w].row] # Undecoded
    BY <1>1, <1>10, <1>11, Zenon
  <2> QED BY <1>1, <1>2, <1>11, <2>1, <2>2, RowsAgain, Zenon
<1>12. CASE Moved(w, "ref", r, ctx[w].bound) /\ ~Claimed(w)
            /\ Stored(w, f.frontier, f.remaining, [f.rows EXCEPT ![r] = Decoded(k)])
  <2>1. PICK a, b : a = f.frontier /\ b = [f.rows EXCEPT ![r] = Decoded(k)] OBVIOUS
  <2>2. b = Adding(sl, k, r + 1, before)
    <3>1. \A j \in Row : j \in sl.first .. (r + 1) - 1 <=> j \in sl.first .. r - 1 \/ j = r
      BY <1>4 DEF Row
    <3>2. b = [j \in Row |-> IF j = r THEN Decoded(k) ELSE f.rows[j]] BY <1>4, <2>1
    <3>3. \A j \in Row : f.rows[j] = IF j \in sl.first .. r - 1 THEN Decoded(k) ELSE before[j]
      BY <1>8 DEF Adding
    <3> QED BY <3>1, <3>2, <3>3 DEF Adding
  <2>3. \A j \in sl.first .. (r + 1) - 1 : before[j] = Undecoded
    <3>1. \A j \in sl.first .. (r + 1) - 1 : j \in sl.first .. r - 1 \/ j = r BY <1>4
    <3> QED BY <1>8, <1>10, <1>12, <3>1
  <2>4. ASSUME NEW c, NEW g, c.pc = "ref", c.row = r, c.bound = ctx[w].bound, c.turn = ctx[w].turn,
               g.frontier = a, g.rows = b
        PROVE  Working(c, k, g)
    <3>1. Top(c) = r + 1 BY <2>4 DEF Top
    <3>2. c.pc \in MakingPc /\ c.pc \notin BackPc /\ c.pc \notin MadePc /\ c.pc \notin {"parsed", "boundSleep"}
      BY <2>4 DEF MakingPc, BackPc, MadePc
    <3>3. c.turn <=> g.frontier >= sl.first BY <1>1, <1>4, <2>1, <2>4, Zenon DEF Working
    <3>4. c.turn => g.frontier <= Larger(sl.first, c.row - Lag) BY <1>1, <1>3, <1>4, <2>1, <2>4, Zenon DEF Working
    <3>5. c.row \in sl.first .. sl.last /\ g.rows = Adding(sl, k, Top(c), before)
          /\ \A j \in sl.first .. Top(c) - 1 : before[j] = Undecoded
      BY <1>4, <2>2, <2>3, <2>4, <3>1
    <3> QED BY <1>1, <3>2, <3>3, <3>4, <3>5, Zenon DEF Working
  <2>5. \A c, g : c.pc = "ref" /\ c.row = r /\ c.bound = ctx[w].bound /\ c.turn = ctx[w].turn
                    /\ g.frontier = a /\ g.rows = b => Working(c, k, g)
    BY <2>4, Zenon
  <2>6. Stored(w, a, frame[PicOf(w)].remaining, b) /\ "ref" \in GoingPc BY <1>1, <1>3, <1>12, <2>1 DEF GoingPc
  <2> HIDE DEF r
  <2>7. FramesSame => b = frame[PicOf(w)].rows
    <3>1. ASSUME FramesSame PROVE b = frame[PicOf(w)].rows
      <4>1. PicOf(w) \in Slot BY <1>3, GoingTask, SMTT(25)
      <4> QED BY <2>6, <3>1, <4>1, SMTT(25) DEF FramesSame, SameFrame, Stored
    <3> QED BY <3>1
  <2>8. Moved(w, "ref", ctx[w].row, ctx[w].bound) /\ a = frame[PicOf(w)].frontier
        /\ \A c, g : c.pc = "ref" /\ c.row = ctx[w].row /\ c.bound = ctx[w].bound /\ c.turn = ctx[w].turn
                      /\ g.frontier = a /\ g.rows = b => Working(c, k, g)
    BY <1>1, <1>12, <2>1, <2>5 DEF r
  <2>9. FramesSame \/ ~ctx[w].turn => a = frame[PicOf(w)].frontier BY <2>8
  <2>10. Stored(w, a, frame[PicOf(w)].remaining, b) \/ FramesSame BY <2>6
  <2> QED BY <1>1, <1>2, <1>3, <2>6, <2>7, <2>8, <2>9, <2>10, RowsMoved
<1> QED BY <1>2, <1>4, <1>11, <1>12

(* A step in which the workers at most wake up.                            *)
LEMMA RowsIdle ==
  ASSUME StreamInv, PicturesInv, RowsInv, AllWork, UNCHANGED <<stream, busy>>,
         \A t \in busy : tasks'[t].job = tasks[t].job /\ tasks'[t].pic = tasks[t].pic,
         NextJob' = NextJob, ppc # "closed" \/ ppc' = "closed", FramesSame \/ Concealed
  PROVE  RowsInv'
<1>1. ASSUME NEW v \in Worker
      PROVE  /\ ctx'[v].pc \in CountedPc <=> ctx[v].pc \in CountedPc
             /\ ctx[v].pc \in CountedPc => ctx'[v].task = ctx[v].task
             /\ SameWork(ctx[v], ctx'[v])
  BY DEF AllWork, SameWork, CountedPc
<1>2. Uncounted' = Uncounted BY <1>1, UncountedSame
<1>3. Uncounted \subseteq busy BY UncountedTasks DEF StreamInv
<1> QED BY <1>1, <1>2, <1>3, RowsKept

LEMMA AwaitRowRows ==
  ASSUME StreamInv, PicturesInv, RowsInv, TypeOK', NEW w \in Worker, AwaitRow(w)
  PROVE  RowsInv'
<1>1. PICK k : k = tasks[ctx[w].task].job OBVIOUS
<1>2. TypeOK /\ PoolInv BY DEF StreamInv, PoolInv
<1>3. /\ ctx[w].pc = "ref" /\ PoolSame
      /\ \/ ReleaseTerminal(ctx, 0)
         \/ Moved(w, "refSleep", ctx[w].row, ctx[w].bound) /\ FramesSame
  BY <1>2, AwaitRowEffect
<1>4. CASE ReleaseTerminal(ctx, 0)
  <2>1. AllWork /\ Concealed BY <1>2, <1>4, ConcealsIs DEF Conceals
  <2> QED BY <1>3, <2>1, RowsIdle DEF PoolSame, NextJob
<1>5. CASE Moved(w, "refSleep", ctx[w].row, ctx[w].bound) /\ FramesSame
  <2>1. /\ ctx[w].pc \in MakingPc /\ "refSleep" \in MakingPc
        /\ "refSleep" \in {"ref", "refSleep"} <=> ctx[w].pc \in {"ref", "refSleep"}
        /\ "refSleep" \notin {"parsed", "boundSleep"}
    BY <1>3 DEF MakingPc
  <2> QED BY <1>1, <1>3, <1>5, <2>1, RowsAgain
<1> QED BY <1>3, <1>4, <1>5

LEMMA NotifyRows ==
  ASSUME StreamInv, PicturesInv, RowsInv, TypeOK', NEW w \in Worker, Notify(w)
  PROVE  RowsInv'
<1>1. PICK k : k = tasks[ctx[w].task].job OBVIOUS
<1> DEFINE after == CASE ctx[w].pc = "notifyRow" -> AfterRow(w, ctx[w].row)
                      [] ctx[w].pc = "notifyBack" -> "redo"
                      [] ctx[w].pc = "notifySlice" -> "count"
                      [] ctx[w].pc = "notifyDone" -> "finish"
<1>2. /\ PoolInv /\ ctx[w].pc \in NotifyPc /\ PoolSame /\ FramesSame
      /\ Moved(w, after, ctx[w].row, ctx[w].bound)
  BY NotifyEffect DEF StreamInv
<1>3. CASE ctx[w].pc = "notifyRow"
  <2>1. Goes(w) /\ ctx[w].pc \in MakingPc BY <1>3 DEF Goes, GoingPc, MakingPc
  <2>2. SliceAt(w) = stream[k] BY <1>1, <2>1, GoingTask, Zenon
  <2>3. after = AfterRow(w, ctx[w].row) BY <1>3
  <2>4. AfterRow(w, ctx[w].row) \in {"parsed", "claim"}
        /\ (AfterRow(w, ctx[w].row) = "parsed" => ctx[w].row = stream[k].last)
    BY <2>2 DEF AfterRow
  <2>5. PICK pc : pc = after OBVIOUS
  <2>6. pc \in {"parsed", "claim"} /\ (pc = "parsed" => ctx[w].row = stream[k].last)
    BY <2>3, <2>4, <2>5, Zenon
  <2>7. Moved(w, pc, ctx[w].row, ctx[w].bound) BY <1>2, <2>5
  <2> HIDE DEF after
  <2>8. pc \in MakingPc /\ pc \notin {"ref", "refSleep", "boundSleep"} BY <2>6 DEF MakingPc
  <2>9. ctx[w].pc \notin {"ref", "refSleep"} BY <1>3
  <2>10. pc \in {"ref", "refSleep"} <=> ctx[w].pc \in {"ref", "refSleep"} BY <2>8, <2>9
  <2>11. pc \in {"parsed", "boundSleep"} => ctx[w].row = stream[k].last BY <2>6, <2>8
  <2> QED BY <1>1, <1>2, <2>1, <2>7, <2>8, <2>10, <2>11, RowsAgain, Zenon
<1>4. CASE ctx[w].pc = "notifySlice"
  <2>1. Goes(w) /\ "count" \in GoingPc /\ ctx[w].pc \in MadePc BY <1>4 DEF Goes, GoingPc, MadePc
  <2>2. Moved(w, "count", ctx[w].row, ctx[w].bound) BY <1>2, <1>4
  <2>3. PICK a, b : a = frame[PicOf(w)].frontier /\ b = frame[PicOf(w)].rows OBVIOUS
  <2>4. Working(ctx[w], k, frame[PicOf(w)]) BY <1>1, <2>1 DEF RowsInv, AllWorking
  <2>5. ASSUME NEW c, NEW f, c.pc = "count", c.row = ctx[w].row, c.bound = ctx[w].bound,
               c.turn = ctx[w].turn, f.frontier = a, f.rows = b
        PROVE  Working(c, k, f)
    <3>1. /\ Top(c) = Top(ctx[w]) /\ c.pc \in MadePc
          /\ c.pc \notin MakingPc /\ c.pc \notin BackPc /\ c.pc \notin {"parsed", "boundSleep"}
      BY <1>4, <2>5 DEF Top, MadePc, BackPc, MakingPc
    <3> QED BY <2>1, <2>3, <2>4, <2>5, <3>1, Zenon DEF Working
  <2>6. \A c, f : c.pc = "count" /\ c.row = ctx[w].row /\ c.bound = ctx[w].bound /\ c.turn = ctx[w].turn
                    /\ f.frontier = a /\ f.rows = b => Working(c, k, f)
    BY <2>5, Zenon
  <2> QED BY <1>1, <1>2, <2>1, <2>2, <2>3, <2>6, RowsMoved
<1>5. CASE ctx[w].pc = "notifyBack"
  <2>1. Goes(w) /\ "redo" \in GoingPc /\ ctx[w].pc \in BackPc BY <1>5 DEF Goes, GoingPc, BackPc
  <2>2. Moved(w, "redo", ctx[w].row, ctx[w].bound) BY <1>2, <1>5
  <2>3. PICK a, b : a = frame[PicOf(w)].frontier /\ b = frame[PicOf(w)].rows OBVIOUS
  <2>4. Working(ctx[w], k, frame[PicOf(w)]) BY <1>1, <2>1 DEF RowsInv, AllWorking
  <2>5. ASSUME NEW c, NEW f, c.pc = "redo", c.row = ctx[w].row, c.bound = ctx[w].bound,
               c.turn = ctx[w].turn, f.frontier = a, f.rows = b
        PROVE  Working(c, k, f)
    <3>1. /\ Top(c) = Top(ctx[w]) /\ c.pc \in BackPc
          /\ c.pc \notin MakingPc /\ c.pc \notin MadePc /\ c.pc \notin {"parsed", "boundSleep"}
      BY <1>5, <2>5 DEF Top, BackPc, MadePc, MakingPc
    <3> QED BY <2>1, <2>3, <2>4, <2>5, <3>1, Zenon DEF Working
  <2>6. \A c, f : c.pc = "redo" /\ c.row = ctx[w].row /\ c.bound = ctx[w].bound /\ c.turn = ctx[w].turn
                    /\ f.frontier = a /\ f.rows = b => Working(c, k, f)
    BY <2>5, Zenon
  <2> QED BY <1>1, <1>2, <2>1, <2>2, <2>3, <2>6, RowsMoved
<1>6. CASE ctx[w].pc = "notifyDone"
  <2>1. Moved(w, "finish", ctx[w].row, ctx[w].bound) BY <1>2, <1>6
  <2>2. ASSUME NEW v \in Worker
        PROVE  /\ ctx'[v].pc \in CountedPc <=> ctx[v].pc \in CountedPc
               /\ ctx[v].pc \in CountedPc => ctx'[v].task = ctx[v].task
               /\ SameWork(ctx[v], ctx'[v]) \/ (ctx[v].pc \notin GoingPc /\ ctx'[v].pc \notin GoingPc)
    <3>1. CASE v = w BY <1>6, <2>1, <3>1 DEF Moved, CountedPc, GoingPc, MakingPc, BackPc, MadePc
    <3>2. CASE v # w
      <4>1. SameWork(ctx[v], ctx'[v]) BY <2>1, <3>2 DEF Moved, OthersWork
      <4> QED BY <4>1 DEF SameWork, CountedPc
    <3> QED BY <3>1, <3>2
  <2>3. Uncounted' = Uncounted BY <1>2, <2>2, UncountedSame DEF PoolSame
  <2> QED BY <1>2, <2>2, <2>3, RowsKept DEF PoolSame, NextJob
<1> QED BY <1>2, <1>3, <1>4, <1>5, <1>6 DEF NotifyPc

LEMMA DecodeRowRows ==
  ASSUME StreamInv, RowsInv, TypeOK', NEW w \in Worker, DecodeRow(w)
  PROVE  RowsInv'
<1>1. PICK k, sl, before, f : /\ k = tasks[ctx[w].task].job /\ sl = stream[k]
                              /\ before = RowsAfter(stream, sl.pic, k - 1) /\ f = frame[PicOf(w)]
  OBVIOUS
<1> DEFINE r == ctx[w].row
<1>2. ctx[w].pc = "ref" BY DEF DecodeRow
<1>3. Goes(w) /\ ctx[w].pc \in MakingPc BY <1>2 DEF Goes, GoingPc, MakingPc
<1>4. /\ PoolInv /\ sl.first \in Nat /\ sl.last \in Nat /\ Lag \in {0, 1}
      /\ r \in Nat /\ SliceAt(w) = sl
      /\ r \in sl.first .. sl.last /\ Working(ctx[w], k, f) /\ f.frontier \in Int
  BY <1>1, <1>3, GoingTask, Zenon
<1>5. r < sl.last BY <1>1, <1>2, <1>4, Zenon DEF PoolInv, WorkersOwn, WorkerOwns, ClaimPc
<1>6. /\ PoolSame
      /\ \/ /\ ctx[w].turn
            /\ Moved(w, "notifyRow", r + 1, ctx[w].bound) \/ Moved(w, AfterRow(w, r + 1), r + 1, ctx[w].bound)
            /\ Stored(w, Larger(SliceAt(w).first, (r + 1) - Lag), f.remaining, f.rows)
         \/ ~ctx[w].turn /\ Moved(w, AfterRow(w, r + 1), r + 1, ctx[w].bound) /\ FramesSame
  BY <1>1, <1>4, DecodeRowEffect
<1>7. Top(ctx[w]) = r + 1 BY <1>2 DEF Top
<1>8. /\ f.rows = Adding(sl, k, r + 1, before) /\ (\A j \in sl.first .. (r + 1) - 1 : before[j] = Undecoded)
      /\ ctx[w].turn <=> f.frontier >= sl.first
  BY <1>1, <1>3, <1>4, <1>7, Zenon DEF Working
<1>9. ASSUME NEW pc \in {"notifyRow", AfterRow(w, r + 1)}, Moved(w, pc, r + 1, ctx[w].bound), NEW a,
             (ctx[w].turn /\ a = Larger(sl.first, (r + 1) - Lag)
                /\ Stored(w, a, f.remaining, f.rows))
               \/ (~ctx[w].turn /\ a = f.frontier /\ FramesSame)
      PROVE  RowsInv'
  <2>1. pc \in {"notifyRow", "parsed", "claim"} /\ (pc = "parsed" => r + 1 = sl.last)
    BY <1>4, <1>9 DEF AfterRow
  <2>2. pc \in MakingPc /\ pc \in GoingPc /\ pc \notin BackPc /\ pc \notin MadePc /\ pc \notin {"ref", "refSleep", "boundSleep"}
    BY <2>1 DEF MakingPc, GoingPc, BackPc, MadePc
  <2>3. (ctx[w].turn <=> a >= sl.first) /\ (ctx[w].turn => a <= Larger(sl.first, (r + 1) - Lag))
    <3>1. Larger(sl.first, (r + 1) - Lag) >= sl.first
          /\ Larger(sl.first, (r + 1) - Lag) <= Larger(sl.first, (r + 1) - Lag)
      BY <1>4 DEF Larger
    <3> QED BY <1>8, <1>9, <3>1, Zenon
  <2>4. r + 1 \in sl.first .. sl.last BY <1>4, <1>5
  <2>5. ASSUME NEW c, NEW g, c.pc = pc, c.row = r + 1, c.bound = ctx[w].bound, c.turn = ctx[w].turn,
               g.frontier = a, g.rows = f.rows
        PROVE  Working(c, k, g)
    <3>1. Top(c) = r + 1 BY <1>4, <2>2, <2>5 DEF Top
    <3>2. c.pc \in MakingPc /\ c.pc \notin BackPc /\ c.pc \notin MadePc
          /\ (c.pc \in {"parsed", "boundSleep"} => c.row = sl.last)
      BY <2>1, <2>2, <2>5
    <3>3. /\ c.turn <=> g.frontier >= sl.first
          /\ c.turn => g.frontier <= Larger(sl.first, c.row - Lag)
      BY <2>3, <2>5, Zenon
    <3>4. c.row \in sl.first .. sl.last /\ g.rows = Adding(sl, k, Top(c), before)
          /\ \A j \in sl.first .. Top(c) - 1 : before[j] = Undecoded
      BY <1>8, <2>4, <2>5, <3>1
    <3> QED BY <1>1, <3>2, <3>3, <3>4, Zenon DEF Working
  <2>6. \A c, g : c.pc = pc /\ c.row = r + 1 /\ c.bound = ctx[w].bound /\ c.turn = ctx[w].turn
                    /\ g.frontier = a /\ g.rows = f.rows => Working(c, k, g)
    BY <2>5, Zenon
  <2>7. /\ Stored(w, a, frame[PicOf(w)].remaining, f.rows) \/ FramesSame
        /\ ~ctx[w].turn => a = frame[PicOf(w)].frontier
        /\ f.rows = frame[PicOf(w)].rows
    BY <1>1, <1>9, Zenon
  <2>8. FramesSame => a = frame[PicOf(w)].frontier
    <3>1. PicOf(w) \in Slot BY <1>3, GoingTask
    <3>2. FramesSame /\ Stored(w, a, f.remaining, f.rows) => a = frame[PicOf(w)].frontier
      BY <3>1 DEF FramesSame, Stored, SameFrame
    <3> QED BY <1>1, <1>9, <3>2, SMTT(25)
  <2>9. FramesSame \/ ~ctx[w].turn => a = frame[PicOf(w)].frontier BY <2>7, <2>8, Zenon
  <2>10. Stored(w, a, frame[PicOf(w)].remaining, f.rows) \/ FramesSame BY <2>7
  <2>11. FramesSame => f.rows = frame[PicOf(w)].rows BY <2>7
  <2>12. pc \in GoingPc /\ k = tasks[ctx[w].task].job /\ PoolSame BY <1>1, <1>6, <2>2
  <2>13. PICK n, b, e : n = r + 1 /\ b = f.rows /\ e = ctx[w].bound OBVIOUS
  <2>14. Moved(w, pc, n, e) BY <1>9, <2>13
  <2>15. Stored(w, a, frame[PicOf(w)].remaining, b) \/ FramesSame BY <2>10, <2>13
  <2>16. FramesSame => b = frame[PicOf(w)].rows BY <2>11, <2>13
  <2>17. \A c, g : c.pc = pc /\ c.row = n /\ c.bound = e /\ c.turn = ctx[w].turn
                     /\ g.frontier = a /\ g.rows = b => Working(c, k, g)
    BY <2>6, <2>13, Zenon
  <2> HIDE DEF r
  <2> QED BY <1>3, <2>9, <2>12, <2>14, <2>15, <2>16, <2>17, RowsMoved
<1> QED BY <1>4, <1>6, <1>9

(* Taken back, the rows are those the slice found.                         *)
LEMMA TakeBackRows ==
  ASSUME StreamInv, RowsInv, TypeOK', NEW w \in Worker, TakeBack(w)
  PROVE  RowsInv'
<1>1. PICK k, sl, before, f, n, e :
        /\ k = tasks[ctx[w].task].job /\ sl = stream[k] /\ before = RowsAfter(stream, sl.pic, k - 1)
        /\ f = frame[PicOf(w)] /\ n = ctx[w].row /\ e = ctx[w].bound
  OBVIOUS
<1>2. ctx[w].pc = "parsed" BY DEF TakeBack
<1>3. Goes(w) /\ ctx[w].pc \in MakingPc BY <1>2 DEF Goes, GoingPc, MakingPc
<1>4. /\ PoolInv /\ sl.first \in Nat /\ sl.last \in Nat /\ before \in [Row -> RowContent]
      /\ n \in Nat /\ SliceAt(w) = sl /\ n \in sl.first .. sl.last /\ Working(ctx[w], k, f) /\ f.frontier \in Int
  BY <1>1, <1>3, GoingTask, Zenon
<1>5. PICK a, b :
        /\ a = IF ctx[w].turn THEN sl.first ELSE f.frontier
        /\ b = [r \in Row |-> IF r \in sl.first .. n - 1 THEN Undecoded ELSE f.rows[r]]
  OBVIOUS
<1>6. /\ PoolSame /\ Stored(w, a, f.remaining, b)
      /\ \E pc \in BackPc : Moved(w, pc, n, e)
  BY <1>1, <1>4, <1>5, TakeBackEffect, Zenon
<1>7. Top(ctx[w]) = n
  <2>1. n \in Nat /\ ctx[w].row = n /\ ctx[w].pc \notin {"ref", "refSleep"} BY <1>1, <1>2, <1>4, Zenon
  <2> QED BY <2>1 DEF Top
<1>8. f.rows = Adding(sl, k, n, before) /\ \A r \in sl.first .. n - 1 : before[r] = Undecoded
  BY <1>1, <1>3, <1>7, <1>4, Zenon DEF Working
<1>9. ctx[w].turn <=> f.frontier >= sl.first BY <1>1, <1>4, Zenon DEF Working
<1>10. b = before
  <2>1. \A r \in Row : b[r] = before[r] BY <1>5, <1>8 DEF Adding
  <2>2. b = [r \in Row |-> b[r]] BY <1>5
  <2>3. before = [r \in Row |-> before[r]] BY <1>4
  <2> QED BY <2>1, <2>2, <2>3
<1>11. ctx[w].turn <=> a >= sl.first BY <1>4, <1>5, <1>9
<1>12. ctx[w].turn => a = sl.first BY <1>5
<1>13. Stored(w, a, frame[PicOf(w)].remaining, b) BY <1>1, <1>6
<1>14. /\ ctx'[w].pc \in BackPc /\ ctx'[w].row = n /\ ctx'[w].bound = e /\ ctx'[w].turn = ctx[w].turn
       /\ ctx'[w].task = ctx[w].task /\ OthersWork(w)
       /\ frame'[PicOf(w)].frontier = a /\ frame'[PicOf(w)].rows = b
  BY <1>6, <1>13 DEF Moved, Stored
<1>15. PICK c, g : c = ctx'[w] /\ g = frame'[PicOf(w)] OBVIOUS
<1>16. Working(c, k, g)
  <2>1. Top(c) = n BY <1>4, <1>14, <1>15 DEF Top, BackPc
  <2>2. c.pc \notin MakingPc /\ c.pc \notin MadePc /\ c.pc \notin {"parsed", "boundSleep"}
    BY <1>14, <1>15 DEF MakingPc, BackPc, MadePc
  <2>3. g.rows = before BY <1>10, <1>14, <1>15
  <2>4. /\ c.turn <=> g.frontier >= sl.first
        /\ c.turn => g.frontier = sl.first
    BY <1>11, <1>12, <1>14, <1>15, Zenon
  <2>5. c.row \in sl.first .. sl.last /\ \A r \in sl.first .. Top(c) - 1 : before[r] = Undecoded
    BY <1>4, <1>8, <1>14, <1>15, <2>1, Zenon
  <2> QED BY <1>1, <2>2, <2>3, <2>4, <2>5, Zenon DEF Working
<1>17. Goes(w)' BY <1>14 DEF Goes, GoingPc
<1>18. UNCHANGED <<stream, next, tasks, busy, ppc>> BY <1>6, SMTT(25) DEF PoolSame
<1>19. ~ctx[w].turn => a = frame[PicOf(w)].frontier BY <1>1, <1>5
<1>20. Working(ctx'[w], tasks[ctx[w].task].job, frame'[PicOf(w)]) BY <1>1, <1>15, <1>16
<1> QED BY <1>3, <1>13, <1>14, <1>17, <1>18, <1>19, <1>20, RowsWorked

(* It starts again at the first of them.                                   *)
LEMMA RedoRows ==
  ASSUME StreamInv, RowsInv, TypeOK', NEW w \in Worker, Redo(w)
  PROVE  RowsInv'
<1>1. PICK k, sl, before, f, e, a, b :
        /\ k = tasks[ctx[w].task].job /\ sl = stream[k] /\ before = RowsAfter(stream, sl.pic, k - 1)
        /\ f = frame[PicOf(w)] /\ e = ctx[w].bound /\ a = f.frontier /\ b = f.rows
  OBVIOUS
<1>2. ctx[w].pc = "redo" BY DEF Redo
<1>3. Goes(w) /\ ctx[w].pc \in BackPc BY <1>2 DEF Goes, GoingPc, BackPc
<1>4. /\ PoolInv /\ sl.first \in Nat /\ sl.last \in Nat /\ sl.first < sl.last /\ Lag \in {0, 1}
      /\ before \in [Row -> RowContent]
      /\ SliceAt(w) = sl /\ Working(ctx[w], k, f)
  BY <1>1, <1>3, GoingTask, Zenon
<1>5. PICK n : n = sl.first BY Z3T(20)
<1>6. PoolSame /\ Moved(w, "claim", n, e) /\ FramesSame BY <1>1, <1>4, <1>5, RedoEffect, Zenon
<1>7. b = before /\ (ctx[w].turn <=> a >= sl.first) /\ (ctx[w].turn => a = sl.first)
  BY <1>1, <1>3, <1>4, Zenon DEF Working
<1>8. b = Adding(sl, k, n, before)
  <2>1. \A r : r \notin sl.first .. n - 1 BY <1>4, <1>5
  <2>2. before = [r \in Row |-> before[r]] BY <1>4
  <2> QED BY <1>7, <2>1, <2>2 DEF Adding
<1>9. ctx[w].turn => a <= Larger(sl.first, n - Lag) BY <1>4, <1>5, <1>7 DEF Larger
<1>10. n \in sl.first .. sl.last /\ \A r \in sl.first .. n - 1 : before[r] = Undecoded
  BY <1>4, <1>5
<1>11. ASSUME NEW c, NEW g, c.pc = "claim", c.row = n, c.turn = ctx[w].turn, g.frontier = a, g.rows = b
       PROVE  Working(c, k, g)
  <2>1. Top(c) = n BY <1>4, <1>5, <1>11 DEF Top
  <2>2. c.pc \in MakingPc /\ c.pc \notin MadePc /\ c.pc \notin {"parsed", "boundSleep"} /\ c.pc \notin BackPc
    BY <1>11 DEF MakingPc, BackPc, MadePc
  <2> QED BY <1>1, <1>7, <1>8, <1>9, <1>10, <1>11, <2>1, <2>2, Zenon DEF Working
<1>12. \A c, g : c.pc = "claim" /\ c.row = n /\ c.bound = e /\ c.turn = ctx[w].turn
                   /\ g.frontier = a /\ g.rows = b => Working(c, k, g)
  BY <1>11, Zenon
<1>13. "claim" \in GoingPc BY DEF GoingPc, MakingPc
<1>14. a = frame[PicOf(w)].frontier /\ b = frame[PicOf(w)].rows BY <1>1
<1> QED BY <1>1, <1>3, <1>6, <1>12, <1>13, <1>14, RowsMoved

(* At its end, a slice leaves what single-threaded decoding leaves.        *)
LEMMA PublishSliceRows ==
  ASSUME StreamInv, RowsInv, TypeOK', NEW w \in Worker, PublishSlice(w)
  PROVE  RowsInv'
<1>1. PICK k, sl, before, f, n, e :
        /\ k = tasks[ctx[w].task].job /\ sl = stream[k] /\ before = RowsAfter(stream, sl.pic, k - 1)
        /\ f = frame[PicOf(w)] /\ n = ctx[w].row /\ e = ctx[w].bound
  OBVIOUS
<1>2. ctx[w].pc = "parsed" BY DEF PublishSlice
<1>3. Goes(w) /\ ctx[w].pc \in MakingPc BY <1>2 DEF Goes, GoingPc, MakingPc
<1>4. /\ PoolInv /\ sl \in Header /\ sl.first \in Nat /\ sl.last \in Nat /\ before \in [Row -> RowContent]
      /\ n \in Nat /\ e \in Nat /\ SliceAt(w) = sl /\ n \in sl.first .. sl.last /\ Working(ctx[w], k, f)
      /\ f.frontier \in Int /\ Lag \in {0, 1}
  BY <1>1, <1>3, GoingTask, Zenon
<1>5. PICK keep, a, b :
        /\ keep = KeepRow(sl, n)
        /\ a = IF InTurn(w) THEN keep ELSE f.frontier
        /\ b = [r \in Row |-> IF FailedAt(w) /\ r \in keep .. n - 1 THEN Recovered(k) ELSE f.rows[r]]
  OBVIOUS
<1>6. /\ PoolSame /\ Known(w) /\ ~Overrun(w)
      /\ Moved(w, "notifySlice", n, e) \/ Moved(w, "count", n, e)
      /\ Stored(w, a, f.remaining, b)
  BY <1>1, <1>4, <1>5, PublishSliceEffect, Zenon
<1>7. Top(ctx[w]) = n
  <2>1. n \in Nat /\ ctx[w].row = n /\ ctx[w].pc \notin {"ref", "refSleep"} BY <1>1, <1>2, <1>4, Zenon
  <2> QED BY <2>1 DEF Top
<1>8. /\ f.rows = Adding(sl, k, n, before) /\ (\A r \in sl.first .. n - 1 : before[r] = Undecoded)
      /\ n = sl.last \/ n >= e \/ before[n] # Undecoded
      /\ ctx[w].turn <=> f.frontier >= sl.first
      /\ ctx[w].turn => f.frontier <= Larger(sl.first, n - Lag)
  BY <1>1, <1>2, <1>3, <1>7, <1>4, Zenon DEF Working
<1>9. n <= e
  <2>1. n \in Nat /\ e \in Nat /\ ctx[w].row = n /\ ctx[w].bound = e BY <1>1, <1>4, Zenon
  <2>2. ~(n > e) BY <1>6, <2>1 DEF Overrun
  <2> QED BY <2>1, <2>2
<1>10. n = StopRow(sl, e, before)
  <2>1. n \in Nat /\ e \in Nat /\ e \in Int /\ sl.first \in Nat BY <1>4
  <2>2. \A r \in sl.first .. n - 1 : r < e BY <1>9, <2>1
  <2>3. \A r \in sl.first .. n - 1 : r < e /\ before[r] = Undecoded BY <1>8, <2>2
  <2>4. sl \in Header /\ n \in sl.first .. sl.last BY <1>4
  <2>5. n = sl.last \/ n >= e \/ before[n] # Undecoded BY <1>8
  <2> QED BY <2>1, <2>3, <2>4, <2>5, StopIs, Zenon
<1>11. keep \in sl.first .. n /\ (~Failed(sl, n) => keep = n) BY <1>4, <1>5, KeptRows, Z3T(20)
<1>12. FailedAt(w) <=> Failed(sl, n) BY <1>1, <1>4, Zenon DEF FailedAt
<1>13. b = Fill(sl, k, n, before)
  <2>1. ASSUME NEW r \in Row
        PROVE  (IF FailedAt(w) /\ r \in keep .. n - 1 THEN Recovered(k) ELSE f.rows[r])
                 = IF r \in sl.first .. n - 1
                     THEN IF r < KeepRow(sl, n) THEN Decoded(k) ELSE Recovered(k)
                     ELSE before[r]
    <3>1. f.rows[r] = IF r \in sl.first .. n - 1 THEN Decoded(k) ELSE before[r] BY <1>8 DEF Adding
    <3>2. r \in Int BY SliceOrderAssumption DEF Row
    <3>3. CASE r \in keep .. n - 1
      <4>1. FailedAt(w) /\ r \in sl.first .. n - 1 /\ ~(r < keep) BY <1>4, <1>11, <1>12, <3>2, <3>3
      <4> QED BY <1>5, <3>3, <4>1
    <3>4. CASE r \notin keep .. n - 1 /\ r \in sl.first .. n - 1
      <4>1. r < keep BY <1>4, <1>11, <3>2, <3>4
      <4> QED BY <1>5, <3>1, <3>4, <4>1
    <3>5. CASE r \notin sl.first .. n - 1
      <4>1. r \notin keep .. n - 1 BY <1>4, <1>11, <3>2, <3>5
      <4> QED BY <3>1, <3>5, <4>1
    <3> QED BY <3>3, <3>4, <3>5
  <2> QED BY <1>5, <2>1 DEF Fill
<1>14. InTurn(w) <=> ctx[w].turn
  <2>1. Larger(sl.first, n - Lag) <= n /\ Larger(sl.first, n - Lag) \in Int BY <1>4 DEF Larger
  <2>2. ctx[w].turn => f.frontier <= n BY <1>4, <1>8, <2>1, Z3T(20) DEF Larger
  <2>3. InTurn(w) <=> f.frontier \in sl.first .. n BY <1>1, <1>4, Zenon DEF InTurn
  <2>4. f.frontier \in sl.first .. n <=> f.frontier >= sl.first /\ f.frontier <= n BY <1>4
  <2> QED BY <1>8, <2>2, <2>3, <2>4, Zenon
<1>15. /\ ctx[w].turn => a = KeepRow(sl, n)
       /\ ~ctx[w].turn => a = f.frontier
  BY <1>5, <1>14, Zenon
<1>16. ctx[w].turn <=> a >= sl.first
  <2>1. KeepRow(sl, n) >= sl.first BY <1>4, <1>5, <1>11
  <2> QED BY <1>8, <1>15, <2>1, Zenon
<1>17. ASSUME NEW pc \in {"notifySlice", "count"}, Moved(w, pc, n, e)
       PROVE  RowsInv'
  <2>1. Stored(w, a, frame[PicOf(w)].remaining, b) BY <1>1, <1>6
  <2>2. /\ ctx'[w].pc = pc /\ ctx'[w].row = n /\ ctx'[w].bound = e /\ ctx'[w].turn = ctx[w].turn
        /\ ctx'[w].task = ctx[w].task /\ OthersWork(w)
        /\ frame'[PicOf(w)].frontier = a /\ frame'[PicOf(w)].rows = b
    BY <1>17, <2>1 DEF Moved, Stored
  <2>3. PICK c, g : c = ctx'[w] /\ g = frame'[PicOf(w)] OBVIOUS
  <2>4. Working(c, k, g)
    <3>1. Top(c) = n BY <1>4, <1>17, <2>2, <2>3 DEF Top
    <3>2. c.pc \notin MakingPc /\ c.pc \in MadePc /\ c.pc \notin {"parsed", "boundSleep"} /\ c.pc \notin BackPc
      BY <1>17, <2>2, <2>3 DEF MakingPc, BackPc, MadePc
    <3>3. c.row = StopRow(sl, c.bound, before) /\ g.rows = Fill(sl, k, c.row, before)
      BY <1>10, <1>13, <2>2, <2>3
    <3>4. /\ c.turn <=> g.frontier >= sl.first
          /\ c.turn => g.frontier = KeepRow(sl, c.row)
      BY <1>15, <1>16, <2>2, <2>3, Zenon
    <3>5. c.row \in sl.first .. sl.last /\ \A r \in sl.first .. Top(c) - 1 : before[r] = Undecoded
      BY <1>4, <1>8, <2>2, <2>3, <3>1, Zenon
    <3> QED BY <1>1, <3>2, <3>3, <3>4, <3>5, Zenon DEF Working
  <2>5. Goes(w)' BY <1>17, <2>2 DEF Goes, GoingPc, MadePc
  <2>6. UNCHANGED <<stream, next, tasks, busy, ppc>> BY <1>6 DEF PoolSame
  <2>7. ~ctx[w].turn => a = frame[PicOf(w)].frontier BY <1>1, <1>15
  <2>8. Working(ctx'[w], tasks[ctx[w].task].job, frame'[PicOf(w)]) BY <1>1, <2>3, <2>4
  <2> QED BY <1>3, <2>1, <2>2, <2>5, <2>6, <2>7, <2>8, RowsWorked
<1> QED BY <1>6, <1>17

(* A task that ends was counted before.                                    *)
LEMMA FinishRows ==
  ASSUME StreamInv, PicturesInv, RowsInv, NEW w \in Worker, Finish(w)
  PROVE  RowsInv'
<1>1. PICK t : t = ctx[w].task OBVIOUS
<1>2. /\ PoolInv /\ ctx[w].pc = "finish" /\ OthersWork(w) /\ ctx'[w].pc = "leave" /\ FramesSame
      /\ busy' = busy \ {t}
      /\ UNCHANGED <<stream, next, pending, acked, held, flagged, refFrames, toGet, currPic, ppc>>
      /\ \A u \in busy' : tasks'[u].job = tasks[u].job /\ tasks'[u].pic = tasks[u].pic
  BY <1>1, FinishEffect DEF StreamInv
<1>3. "finish" \in CountedPc /\ "leave" \notin CountedPc /\ "leave" \notin GoingPc /\ "finish" \notin GoingPc
  BY DEF CountedPc, GoingPc, MakingPc, BackPc, MadePc
<1>4. ASSUME NEW v \in Worker \ {w}
      PROVE  /\ SameWork(ctx[v], ctx'[v]) /\ ctx'[v].task = ctx[v].task
             /\ ctx'[v].pc \in CountedPc <=> ctx[v].pc \in CountedPc
  BY <1>2 DEF OthersWork, SameWork, CountedPc
<1>5. Uncounted' = Uncounted
  <2>1. ASSUME NEW u \in busy, u # t
        PROVE  (\A v \in Worker : ctx'[v].pc \in CountedPc => ctx'[v].task # u)
                 <=> \A v \in Worker : ctx[v].pc \in CountedPc => ctx[v].task # u
    <3>1. ctx'[w].pc \notin CountedPc /\ ctx[w].task # u BY <1>1, <1>2, <1>3, <2>1
    <3> QED BY <1>4, <3>1
  <2>2. t \notin Uncounted BY <1>1, <1>2, <1>3 DEF Uncounted
  <2>3. \A u : u \in Uncounted' <=>
          u \in busy /\ u # t /\ \A v \in Worker : ctx'[v].pc \in CountedPc => ctx'[v].task # u
    BY <1>2 DEF Uncounted
  <2>4. \A u : u \in Uncounted <=>
          u \in busy /\ \A v \in Worker : ctx[v].pc \in CountedPc => ctx[v].task # u
    BY DEF Uncounted
  <2>5. ASSUME NEW u PROVE u \in Uncounted' <=> u \in Uncounted
    <3>1. CASE u \in busy /\ u # t BY <2>1, <2>3, <2>4, <3>1
    <3>2. CASE u \notin busy BY <2>3, <2>4, <3>2
    <3>3. CASE u = t BY <2>2, <2>3, <3>3
    <3> QED BY <3>1, <3>2, <3>3
  <2> QED BY <2>5
<1>6. \A u \in Uncounted : tasks'[u].job = tasks[u].job /\ tasks'[u].pic = tasks[u].pic
  BY <1>2, <1>5 DEF Uncounted
<1>7. \A v \in Worker : \/ SameWork(ctx[v], ctx'[v])
                        \/ ctx[v].pc \notin GoingPc /\ ctx'[v].pc \notin GoingPc
  BY <1>2, <1>3, <1>4
<1>8. NextJob' = NextJob /\ (ppc # "closed" \/ ppc' = "closed") /\ stream' = stream BY <1>2 DEF NextJob
<1> QED BY <1>2, <1>5, <1>6, <1>7, <1>8, RowsKept

(* A worker with no task leaves the rows as they are.                      *)
LEMMA IdleRows ==
  ASSUME StreamInv, PicturesInv, RowsInv, NEW w \in Worker, FallAsleep(w) \/ Exit(w) \/ LeaveTask(w)
  PROVE  RowsInv'
<1>1. /\ PoolInv /\ PoolSame /\ OthersWork(w) /\ ctx[w].pc \notin DecodePc /\ ctx'[w].pc \notin DecodePc
      /\ FramesSame \/ Concealed
  BY IdleEffect DEF StreamInv
<1>2. ctx[w].pc \notin GoingPc \union CountedPc /\ ctx'[w].pc \notin GoingPc \union CountedPc
  BY <1>1, GoingDecodes
<1>3. ASSUME NEW v \in Worker
      PROVE  /\ ctx'[v].pc \in CountedPc <=> ctx[v].pc \in CountedPc
             /\ ctx[v].pc \in CountedPc => ctx'[v].task = ctx[v].task
             /\ SameWork(ctx[v], ctx'[v]) \/ (ctx[v].pc \notin GoingPc /\ ctx'[v].pc \notin GoingPc)
  <2>1. CASE v = w BY <1>2, <2>1
  <2>2. CASE v # w
    <3>1. SameWork(ctx[v], ctx'[v]) BY <1>1, <2>2 DEF OthersWork
    <3> QED BY <3>1 DEF SameWork, CountedPc
  <2> QED BY <2>1, <2>2
<1>4. Uncounted' = Uncounted BY <1>1, <1>3, UncountedSame DEF PoolSame
<1> QED BY <1>1, <1>3, <1>4, RowsKept DEF PoolSame, NextJob

(* The parser and the caller leave the rows as they are but where they give*)
(* a slot away or create a task.                                           *)
LEMMA ParserRows ==
  ASSUME StreamInv, PicturesInv, RowsInv,
         \/ SendSlice \/ WaitTaskSlot \/ SettleBounds \/ StartPicture \/ CreatedTask
         \/ SendEnd \/ Drain \/ Close \/ UNCHANGED vars
         \/ \E s \in Slot : Receive(s) \/ DropOrphan(s)
  PROVE  RowsInv'
<1>1. PoolInv /\ TypeOK /\ busy \subseteq Task BY DEF StreamInv, PoolInv, TypeOK
<1>2. ASSUME NEW b, Bounding(b) \/ tasks' = tasks
      PROVE  \A t \in busy : tasks'[t].job = tasks[t].job /\ tasks'[t].pic = tasks[t].pic
  BY <1>1, <1>2 DEF Bounding
<1>3. ASSUME AllWork, UNCHANGED <<stream, busy>>, NEW b, Bounding(b) \/ tasks' = tasks,
             NextJob' = NextJob, ppc # "closed" \/ ppc' = "closed", Quieted \/ Conceals
      PROVE  RowsInv'
  <2>1. FramesSame \/ Concealed BY <1>3 DEF Quieted, Conceals
  <2> QED BY <1>2, <1>3, <2>1, RowsIdle
<1>4. CASE SendSlice
  <2>1. NextJob' = NextJob /\ ppc # "closed" /\ AllWork /\ Quieted /\ UNCHANGED <<stream, busy>>
        /\ (Bounding(Inf) \/ tasks' = tasks)
    BY <1>1, <1>4, SendSliceEffect DEF NextJob, PoolTasks, Quieted
  <2> QED BY <1>3, <2>1
<1>5. CASE WaitTaskSlot
  <2>1. NextJob' = NextJob /\ ppc # "closed" /\ AllWork /\ (Quieted \/ Conceals) /\ UNCHANGED <<stream, busy>>
        /\ (Bounding(Inf) \/ tasks' = tasks)
    BY <1>1, <1>5, WaitTaskSlotEffect DEF NextJob, PoolTasks, Quieted, Conceals
  <2> QED BY <1>3, <2>1
<1>6. CASE SettleBounds
  <2>1. NextJob' = NextJob /\ ppc # "closed" /\ AllWork /\ Quieted /\ UNCHANGED <<stream, busy>> /\ tasks' = tasks
    BY <1>1, <1>6, SettleBoundsEffect DEF NextJob, PoolTasks, Quieted
  <2> QED BY <1>3, <2>1
<1>7. CASE StartPicture
  <2>1. NextJob' = NextJob /\ ppc # "closed" /\ AllWork /\ Conceals /\ UNCHANGED <<stream, busy>> /\ tasks' = tasks
    BY <1>1, <1>7, StartPictureEffect DEF NextJob, PoolTasks, Conceals
  <2> QED BY <1>3, <2>1
<1>8. CASE CreatedTask
  <2>1. NextJob' = NextJob /\ ppc # "closed" /\ AllWork /\ (Quieted \/ Conceals) /\ UNCHANGED <<stream, busy>>
        /\ tasks' = tasks
    BY <1>1, <1>8, CreatedTaskEffect DEF NextJob, PoolTasks, Quieted, Conceals
  <2> QED BY <1>3, <2>1
<1>9. CASE SendEnd
  <2>1. NextJob' = NextJob /\ ppc # "closed" /\ AllWork /\ Quieted /\ UNCHANGED <<stream, busy>>
        /\ (Bounding(Inf) \/ tasks' = tasks)
    BY <1>1, <1>9, SendEndEffect DEF NextJob, PoolTasks, Quieted
  <2> QED BY <1>3, <2>1
<1>10. CASE Drain
  <2>1. NextJob' = NextJob /\ ppc # "closed" /\ AllWork /\ Conceals /\ UNCHANGED <<stream, busy>> /\ tasks' = tasks
    BY <1>1, <1>10, DrainEffect DEF NextJob, PoolTasks, Conceals
  <2> QED BY <1>3, <2>1
<1>11. CASE Close
  <2>1. NextJob' = NextJob /\ ppc' = "closed" /\ AllWork /\ Quieted /\ UNCHANGED <<stream, busy>> /\ Bounding(Inf)
    BY <1>1, <1>11, CloseEffect DEF NextJob, PoolTasks, Quieted
  <2> QED BY <1>3, <2>1
<1>12. CASE UNCHANGED vars
  <2>1. NextJob' = NextJob /\ (ppc # "closed" \/ ppc' = "closed") /\ AllWork /\ Quieted
        /\ UNCHANGED <<stream, busy>> /\ tasks' = tasks
    BY <1>1, <1>12, StutterEffect DEF NextJob, PoolSame, Quieted
  <2> QED BY <1>3, <2>1
<1>13. ASSUME NEW s \in Slot, Receive(s) \/ DropOrphan(s) PROVE RowsInv'
  <2>1. NextJob' = NextJob /\ ppc # "closed" /\ AllWork /\ Quieted /\ UNCHANGED <<stream, busy>> /\ tasks' = tasks
    BY <1>1, <1>13, OutputEffect DEF NextJob, PoolTasks, Quieted
  <2> QED BY <1>3, <2>1
<1> QED BY <1>4, <1>5, <1>6, <1>7, <1>8, <1>9, <1>10, <1>11, <1>12, <1>13

(* The slice a worker may decode in a slot is the first one not decoded.   *)
LEMMA OldestTask ==
  ASSUME StreamInv, RowsInv, NEW t \in Uncounted,
         \A u \in busy : tasks[u].pic = tasks[t].pic => u = t \/ tasks[u].job > tasks[t].job,
         NEW n \in 0 .. NextJob - 1, Splits(tasks[t].pic, n)
  PROVE  LET k == tasks[t].job
             s == tasks[t].pic
             p == stream[k].pic
         IN  /\ n < k /\ \A j \in n + 1 .. k - 1 : stream[j].pic # p
             /\ RowsAfter(stream, p, n) = RowsAfter(stream, p, k - 1)
             /\ FailedBy(stream, p, n) <=> FailedBy(stream, p, k - 1)
             /\ JobsIn(s) \ {k} = {j \in k + 1 .. NextJob - 1 : stream[j].pic = frame[s].id}
<1>1. PICK k, s, p : k = tasks[t].job /\ s = tasks[t].pic /\ p = stream[k].pic OBVIOUS
<1>2. /\ s \in Slot /\ k \in DOMAIN stream /\ k \in 1 .. Len(stream) /\ k \in 1 .. NextJob - 1
      /\ stream \in Seq(Header) /\ p = frame[s].id /\ k \in JobsIn(s)
  BY <1>1, TaskOfSlot
<1>3. TypeOK /\ Len(stream) \in Nat /\ next \in 1 .. Len(stream) + 1 /\ NextJob \in Nat /\ n \in Nat /\ k \in Nat
  <2>1. TypeOK /\ Len(stream) \in Nat BY <1>2 DEF StreamInv, PoolInv
  <2>2. next \in 1 .. Len(stream) + 1 BY <2>1 DEF TypeOK
  <2>3. NextJob \in Nat BY <2>1, <2>2 DEF NextJob
  <2> QED BY <1>2, <2>1, <2>2, <2>3
<1>4. JobsIn(s) = {j \in n + 1 .. NextJob - 1 : stream[j].pic = p} BY <1>1, <1>2 DEF Splits
<1>5. ASSUME NEW j \in JobsIn(s) PROVE j = k \/ j > k
  <2>1. PICK u \in Uncounted : tasks[u].pic = s /\ j = tasks[u].job BY DEF JobsIn
  <2>2. u \in busy BY DEF Uncounted
  <2>3. u = t \/ tasks[u].job > k BY <1>1, <2>1, <2>2
  <2> QED BY <1>1, <2>1, <2>3
<1>6. n < k BY <1>2, <1>3, <1>4
<1>7. \A j \in n + 1 .. k - 1 : stream[j].pic # p
  <2> SUFFICES ASSUME NEW j \in n + 1 .. k - 1, stream[j].pic = p PROVE FALSE OBVIOUS
  <2>1. j \in n + 1 .. NextJob - 1 BY <1>2, <1>3
  <2>2. j \in JobsIn(s) BY <1>4, <2>1
  <2> QED BY <1>3, <1>5, <2>2
<1>8. n \in 0 .. Len(stream) /\ k - 1 \in n .. Len(stream) /\ k - 1 \in Nat /\ n <= k - 1 BY <1>2, <1>3, <1>6
<1>9. RowsAfter(stream, p, k - 1) = RowsAfter(stream, p, n) BY <1>2, <1>7, <1>8, RowsSame
<1>10. FailedBy(stream, p, k - 1) <=> FailedBy(stream, p, n) BY <1>3, <1>7, <1>8, FailedBySame
<1>11. JobsIn(s) \ {k} = {j \in k + 1 .. NextJob - 1 : stream[j].pic = p}
  <2>1. ASSUME NEW j PROVE j \in JobsIn(s) \ {k} <=> j \in k + 1 .. NextJob - 1 /\ stream[j].pic = p
    <3>1. CASE j \in n + 1 .. NextJob - 1
      <4>1. j \in JobsIn(s) <=> stream[j].pic = p BY <1>4, <3>1
      <4>2. j \in JobsIn(s) => j = k \/ j > k BY <1>5
      <4>3. j \in k + 1 .. NextJob - 1 <=> j > k BY <1>3, <1>6, <3>1
      <4>4. j > k => j # k BY <1>3, <3>1
      <4> QED BY <4>1, <4>2, <4>3, <4>4, Zenon
    <3>2. CASE j \notin n + 1 .. NextJob - 1
      <4>1. j \notin k + 1 .. NextJob - 1 BY <1>3, <1>6, <3>2
      <4> QED BY <1>4, <3>2, <4>1
    <3> QED BY <3>1, <3>2
  <2> QED BY <2>1
<1> QED BY <1>1, <1>2, <1>6, <1>7, <1>9, <1>10, <1>11, Zenon

(* OneWriter in one formula, to have it after a step.                      *)
OneAtATime ==
  \A x \in Worker : ctx[x].pc \in DecodePc =>
    /\ \A u \in busy : tasks[u].pic = tasks[ctx[x].task].pic =>
         u = ctx[x].task \/ tasks[u].job > tasks[ctx[x].task].job
    /\ \A w \in Worker : ctx[w].pc \in DecodePc
         /\ (tasks[ctx[w].task].pic = tasks[ctx[x].task].pic \/ ctx[w].task = ctx[x].task) => w = x

LEMMA OneWriters == PoolInv => OneAtATime
BY OneWriter, Zenon DEF PicOf, OneAtATime

LEMMA OneWriterNext == PoolInv' => OneAtATime'
BY OneWriters, PTL

(* The slice a worker takes is the oldest of its slot, in turn if it starts*)
(* where the rows published end.                                           *)
LEMMA TakeTaskRows ==
  ASSUME StreamInv, RowsInv, PoolInv', NEW w \in Worker, TakeTask(w)
  PROVE  RowsInv'
<1>1. PICK t \in pending :
        /\ UNCHANGED <<stream, next, tasks, busy, held, frame, flagged, refFrames, toGet, currPic, ppc>>
        /\ ctx[w].pc \in {"idle", "take"} /\ OthersWork(w)
        /\ ctx'[w].pc = "claim" /\ ctx'[w].task = t /\ ctx'[w].row = SliceOf(t).first
        /\ ctx'[w].bound = tasks[t].bound
        /\ ctx'[w].turn = (frame[tasks[t].pic].frontier = SliceOf(t).first
             /\ ~ \E u \in busy \ acked' : tasks[u].pic = tasks[t].pic /\ tasks[u].job < tasks[t].job)
  BY TakeTaskEffect, Zenon DEF StreamInv
<1>2. /\ TypeOK /\ PoolInv /\ WritersCurrent /\ AllWorking /\ RowsReached /\ NoneToCome
      /\ t \in Uncounted /\ t \in busy /\ \A u \in Uncounted : u \in busy
  BY UncountedTasks DEF StreamInv, PoolInv, RowsInv
<1>3. PICK k, s, sl, before, f : /\ k = tasks[t].job /\ s = tasks[t].pic /\ sl = stream[k]
                                 /\ before = RowsAfter(stream, sl.pic, k - 1) /\ f = frame[s]
  OBVIOUS
<1>4. /\ s \in Slot /\ k \in DOMAIN stream /\ k \in 1 .. Len(stream) /\ k \in 1 .. NextJob - 1
      /\ stream \in Seq(Header) /\ SliceOf(t) = sl /\ sl.pic = f.id /\ Followed(s)
  BY <1>2, <1>3, TaskOfSlot
<1>5. /\ ctx'[w].pc \in DecodePc /\ ctx[w].pc \notin DecodePc
      /\ ctx'[w].pc \notin CountedPc /\ ctx[w].pc \notin CountedPc /\ ctx[w].pc \notin GoingPc
  BY <1>1, GoingDecodes DEF DecodePc, CountedPc, SleepPc, NotifyPc
<1>6. ASSUME NEW v \in Worker \ {w}
      PROVE  /\ SameWork(ctx[v], ctx'[v]) /\ ctx'[v].task = ctx[v].task
             /\ ctx'[v].pc \in CountedPc <=> ctx[v].pc \in CountedPc
             /\ ctx'[v].pc \in GoingPc <=> ctx[v].pc \in GoingPc
  BY <1>1 DEF OthersWork, SameWork, CountedPc, GoingPc, MakingPc, BackPc, MadePc
<1>7. Uncounted' = Uncounted BY <1>1, <1>5, <1>6, UncountedSame
<1>8. \A u : JobsIn(u)' = JobsIn(u) BY <1>1, <1>7, JobsSame
<1>9. \A u \in Slot : SameFrame(frame[u], frame'[u]) BY <1>1 DEF SameFrame
<1>10. /\ \A u \in busy : tasks[u].pic = s => u = t \/ tasks[u].job > k
       /\ \A v \in Worker : ctx'[v].pc \in DecodePc /\ tasks[ctx'[v].task].pic = s => v = w
  <2>1. /\ \A u \in busy' : tasks'[u].pic = tasks'[ctx'[w].task].pic =>
             u = ctx'[w].task \/ tasks'[u].job > tasks'[ctx'[w].task].job
        /\ \A v \in Worker : ctx'[v].pc \in DecodePc
             /\ (tasks'[ctx'[v].task].pic = tasks'[ctx'[w].task].pic \/ ctx'[v].task = ctx'[w].task) => v = w
    BY <1>5, OneWriterNext, Zenon DEF OneAtATime
  <2> QED BY <1>1, <1>3, <2>1
<1>11. \A v \in Worker : Goes(v) => PicOf(v) # s
  <2> SUFFICES ASSUME NEW v \in Worker, Goes(v) PROVE tasks[ctx[v].task].pic # s BY DEF PicOf
  <2>1. v # w BY <1>5 DEF Goes
  <2>2. ctx'[v].pc \in DecodePc /\ ctx'[v].task = ctx[v].task BY <1>6, <2>1, GoingDecodes DEF Goes
  <2> QED BY <1>10, <2>1, <2>2
<1>12. BehindFrontier(f) /\ \E n \in 0 .. NextJob - 1 : UpTo(s, n)
  BY <1>2, <1>3, <1>4 DEF RowsReached, Reached
<1>13. f.rows = before
  <2>1. PICK n \in 0 .. NextJob - 1 : UpTo(s, n) BY <1>12
  <2>2. Splits(s, n) /\ f.rows = RowsAfter(stream, sl.pic, n) BY <1>3, <1>4, <1>11, <2>1 DEF UpTo
  <2>3. RowsAfter(stream, sl.pic, n) = before BY <1>2, <1>3, <1>10, <2>2, OldestTask
  <2> QED BY <2>2, <2>3
<1>14. sl \in Header /\ sl.first \in Row /\ sl.first \in Nat /\ sl.last \in Nat /\ sl.first < sl.last /\ f.frontier \in Nat
       /\ before \in [Row -> RowContent]
  <2>1. sl \in Header BY <1>3, <1>4
  <2>2. sl.first \in Row /\ sl.last \in 1 .. Rows /\ sl.first < sl.last BY <2>1 DEF Header, Fields
  <2>3. f \in FrameRecord BY <1>2, <1>3, <1>4 DEF TypeOK
  <2>4. f.frontier \in 0 .. Inf /\ f.rows \in [Row -> RowContent] BY <2>3 DEF FrameRecord
  <2> QED BY <1>13, <2>1, <2>2, <2>4, SliceOrderAssumption DEF Row, Inf
<1>15. f.frontier <= sl.first
  <2>1. before[sl.first] = Undecoded BY <1>3, <1>4 DEF StreamInv, SentOnce, StartsNew
  <2>2. ~(sl.first < f.frontier) BY <1>12, <1>13, <1>14, <2>1 DEF BehindFrontier
  <2> QED BY <1>14, <2>2
<1>16. PICK c, g : c = ctx'[w] /\ g = frame'[s] OBVIOUS
<1>17. c.turn <=> g.frontier >= sl.first
  <2>1. ~ \E u \in busy \ acked' : tasks[u].pic = s /\ tasks[u].job < k
    <3>1. \A u \in busy : tasks[u].job \in Nat BY <1>2 DEF TypeOK, TaskRecord
    <3> QED BY <1>2, <1>3, <1>10, <3>1
  <2>2. c.turn = (f.frontier = sl.first) BY <1>1, <1>3, <1>4, <1>16, <2>1, Zenon
  <2>3. f.frontier = sl.first <=> f.frontier >= sl.first BY <1>14, <1>15
  <2>4. g.frontier = f.frontier BY <1>1, <1>3, <1>16
  <2> QED BY <2>2, <2>3, <2>4, Zenon
<1>18. Working(c, k, g)
  <2>1. c.pc = "claim" /\ c.row = sl.first /\ g.rows = before /\ g.frontier = f.frontier
    BY <1>1, <1>3, <1>4, <1>13, <1>16
  <2>2. Top(c) = sl.first BY <1>14, <2>1 DEF Top
  <2>3. \A r : r \notin sl.first .. sl.first - 1 BY <1>14
  <2>4. before = Adding(sl, k, sl.first, before)
    <3>1. before = [r \in Row |-> before[r]] BY <1>14
    <3> QED BY <2>3, <3>1 DEF Adding
  <2>5. c.row \in sl.first .. sl.last BY <1>14, <2>1
  <2>6. c.pc \in MakingPc /\ c.pc \notin MadePc /\ c.pc \notin BackPc \union {"parsed", "boundSleep"}
    BY <2>1 DEF MakingPc, BackPc, MadePc
  <2>7. g.frontier <= Larger(sl.first, c.row - Lag) BY <1>14, <1>15, <2>1, SliceOrderAssumption DEF Larger
  <2>8. c.pc \notin BackPc /\ g.rows = Adding(sl, k, Top(c), before) /\ \A r \in sl.first .. Top(c) - 1 : before[r] = Undecoded
    BY <2>1, <2>2, <2>3, <2>4, <2>6
  <2> QED BY <1>3, <1>17, <2>5, <2>6, <2>7, <2>8, Zenon DEF Working
<1>19. AllWorking'
  <2>1. ASSUME NEW v \in Worker, ctx'[v].pc \in GoingPc
        PROVE  Working(ctx'[v], tasks'[ctx'[v].task].job, frame'[tasks'[ctx'[v].task].pic])
    <3>1. CASE v = w
      <4>1. tasks'[ctx'[w].task].job = k /\ tasks'[ctx'[w].task].pic = s BY <1>1, <1>3
      <4> QED BY <1>16, <1>18, <3>1, <4>1
    <3>2. CASE v # w
      <4>1. Goes(v) /\ SameWork(ctx[v], ctx'[v]) /\ ctx'[v].task = ctx[v].task
        BY <1>6, <2>1, <3>2 DEF Goes
      <4>2. PicOf(v) \in Slot BY <1>2, <4>1, OneWriter, GoingDecodes DEF Goes
      <4>3. SameFrame(frame[PicOf(v)], frame'[PicOf(v)]) BY <1>9, <4>2
      <4>4. Working(ctx[v], tasks[ctx[v].task].job, frame[PicOf(v)]) BY <1>2, <4>1 DEF AllWorking
      <4>5. Working(ctx'[v], tasks[ctx[v].task].job, frame'[PicOf(v)])
        BY <2>1, <4>1, <4>3, <4>4, WorkingSame
      <4> QED BY <1>1, <4>1, <4>5 DEF PicOf
    <3> QED BY <3>1, <3>2
  <2>2. stream' = stream BY <1>1
  <2> QED BY <2>1, <2>2, WorkingPrimed
<1>20. WritersCurrent' BY <1>1, <1>2, <1>7 DEF WritersCurrent, SliceOf
<1>21. NextJob' = NextJob /\ stream' = stream /\ (ppc # "closed" \/ ppc' = "closed") BY <1>1 DEF NextJob
<1>22. \A u : \A v \in Worker : Goes(v) /\ PicOf(v) = u => Goes(v)' /\ PicOf(v)' = u
  <2> SUFFICES ASSUME NEW v \in Worker, Goes(v) PROVE Goes(v)' /\ PicOf(v)' = PicOf(v) OBVIOUS
  <2>1. v # w BY <1>5 DEF Goes
  <2> QED BY <1>1, <1>6, <2>1 DEF Goes, PicOf
<1>23. RowsReached'
  <2> SUFFICES ASSUME NEW u \in Slot, Followed(u)' PROVE Reached(u)' BY DEF RowsReached
  <2>1. SameFrame(frame[u], frame'[u]) /\ JobsIn(u)' = JobsIn(u) BY <1>8, <1>9
  <2> QED BY <1>2, <1>21, <1>22, <2>1, ReachedSame
<1>24. NoneToCome' BY <1>1, <1>2, <1>21 DEF NoneToCome, Complete, CompleteIn
<1> QED BY <1>19, <1>20, <1>23, <1>24 DEF RowsInv

(* A slot is given to a new picture while no task decodes into it.         *)
LEMMA AllocSlotRows ==
  ASSUME StreamInv, BoundsInv, PicturesInv, RowsInv, AllocSlot
  PROVE  RowsInv'
<1>1. /\ ppc = "slot" /\ next' = next /\ UNCHANGED <<stream, busy, pending, tasks, held, refFrames>> /\ AllWork
      /\ \/ UNCHANGED <<toGet, currPic>> /\ (Quieted \/ Conceals) /\ ppc' \in {"idle", "slot"}
         \/ \E s \in Slot \ Unavailable :
              /\ ppc' = "create" /\ currPic' = s /\ toGet' = toGet \union {s}
              /\ flagged' = flagged \ {s}
              /\ \A u \in Slot \ {s} : frame'[u] = frame[u]
              /\ frame'[s].id = Slice.pic /\ frame'[s].frontier = 0
              /\ frame'[s].remaining = Rows /\ frame'[s].rows = Blank
  BY AllocSlotEffect, Zenon DEF StreamInv, PoolTasks
<1>2. /\ TypeOK /\ PoolInv /\ WritersCurrent /\ AllWorking /\ RowsReached /\ NoneToCome
      /\ Uncounted \subseteq busy /\ \A w \in Worker : Goes(w) => ctx[w].task \in Uncounted
  BY UncountedTasks DEF StreamInv, PoolInv, RowsInv
<1>3. NextJob' = NextJob /\ NextJob = next /\ ppc # "closed" BY <1>1 DEF NextJob
<1>4. CASE (Quieted \/ Conceals) /\ ppc' \in {"idle", "slot"}
  <2>1. FramesSame \/ Concealed BY <1>4 DEF Quieted, Conceals
  <2>2. \A t \in busy : tasks'[t].job = tasks[t].job /\ tasks'[t].pic = tasks[t].pic BY <1>1
  <2> QED BY <1>1, <1>3, <2>1, <2>2, RowsIdle
<1>5. ASSUME NEW s \in Slot \ Unavailable, ppc' = "create",
             \A u \in Slot \ {s} : frame'[u] = frame[u],
             frame'[s].id = Slice.pic, frame'[s].frontier = 0,
             frame'[s].remaining = Rows, frame'[s].rows = Blank
      PROVE  RowsInv'
  <2>1. \A t \in Uncounted : tasks[t].pic # s /\ tasks[t].pic \in Slot
    <3> SUFFICES ASSUME NEW t \in Uncounted PROVE tasks[t].pic # s /\ tasks[t].pic \in Slot OBVIOUS
    <3>1. tasks[t].pic \in Slot /\ frame[tasks[t].pic].frontier # Inf BY <1>2, TaskOfSlot
    <3>2. tasks[t].pic \in Writing \ Complete BY <1>2, <3>1 DEF Writing, Complete, CompleteIn
    <3> QED BY <1>5, <3>1, <3>2 DEF Unavailable, Inflight
  <2>2. JobsIn(s) = {} BY <2>1 DEF JobsIn
  <2>3. ASSUME NEW v \in Worker
        PROVE  /\ ctx'[v].task = ctx[v].task /\ SameWork(ctx[v], ctx'[v])
               /\ ctx'[v].pc \in CountedPc <=> ctx[v].pc \in CountedPc
               /\ ctx'[v].pc \in GoingPc <=> ctx[v].pc \in GoingPc
    BY <1>1 DEF AllWork, SameWork, CountedPc, GoingPc, MakingPc, BackPc, MadePc
  <2>4. Uncounted' = Uncounted BY <1>1, <2>3, UncountedSame
  <2>5. \A u : JobsIn(u)' = JobsIn(u) BY <1>1, <2>4, JobsSame
  <2>6. \A u \in Slot \ {s} : SameFrame(frame[u], frame'[u]) BY <1>5 DEF SameFrame
  <2>7. WritersCurrent'
    <3> SUFFICES ASSUME NEW t \in Uncounted
                 PROVE  frame'[tasks[t].pic].id = SliceOf(t).pic /\ frame'[tasks[t].pic].frontier # Inf
      BY <1>1, <2>4 DEF WritersCurrent, SliceOf
    <3> QED BY <1>2, <1>5, <2>1 DEF WritersCurrent
  <2>8. AllWorking'
    <3>1. ASSUME NEW v \in Worker, ctx'[v].pc \in GoingPc
          PROVE  Working(ctx'[v], tasks'[ctx'[v].task].job, frame'[tasks'[ctx'[v].task].pic])
      <4>1. Goes(v) /\ SameWork(ctx[v], ctx'[v]) /\ ctx'[v].task = ctx[v].task
        BY <2>3, <3>1 DEF Goes
      <4>2. PicOf(v) \in Slot \ {s} BY <1>2, <2>1, <4>1 DEF PicOf
      <4>3. SameFrame(frame[PicOf(v)], frame'[PicOf(v)]) BY <2>6, <4>2
      <4>4. Working(ctx[v], tasks[ctx[v].task].job, frame[PicOf(v)]) BY <1>2, <4>1 DEF AllWorking
      <4>5. Working(ctx'[v], tasks[ctx[v].task].job, frame'[PicOf(v)])
        BY <3>1, <4>1, <4>3, <4>4, WorkingSame
      <4> QED BY <1>1, <4>1, <4>5 DEF PicOf
    <3>2. stream' = stream BY <1>1
    <3> QED BY <3>1, <3>2, WorkingPrimed
  <2>9. \A u : \A v \in Worker : Goes(v) /\ PicOf(v) = u => Goes(v)' /\ PicOf(v)' = u
    BY <1>1, <2>3 DEF Goes, PicOf
  <2>10. stream' = stream /\ (ppc # "closed" \/ ppc' = "closed") BY <1>1, <1>3
  <2>11. RowsReached'
    <3> SUFFICES ASSUME NEW u \in Slot, Followed(u)' PROVE Reached(u)' BY DEF RowsReached
    <3>1. CASE u # s
      <4>1. SameFrame(frame[u], frame'[u]) /\ JobsIn(u)' = JobsIn(u) BY <2>5, <2>6, <3>1
      <4> QED BY <1>2, <1>3, <2>9, <2>10, <4>1, ReachedSame
    <3>2. CASE u = s
      <4>1. PICK p, n : p = Slice.pic /\ n = next - 1 OBVIOUS
      <4>2. /\ stream \in Seq(Header) /\ Len(stream) \in Nat /\ next \in 1 .. Len(stream) /\ next \in DOMAIN stream
            /\ currPic = None
        <5>1. stream \in Seq(Header) /\ next \in 1 .. Len(stream) + 1 /\ next <= Len(stream)
          BY <1>1, <1>2 DEF TypeOK, TaskPoolAssumption, PoolInv, ParserPrepared, StreamInv
        <5>2. currPic = None BY <1>1 DEF BoundsInv, ParsedPicture
        <5> QED BY <5>1, <5>2
      <4>3. n \in 0 .. Len(stream) /\ n \in Nat /\ n + 1 = next /\ Rows \in Nat \ {0}
        BY <4>1, <4>2, SliceOrderAssumption
      <4>4. \A k \in 0 + 1 .. n : stream[k].pic # p
        <5> SUFFICES ASSUME NEW k \in 1 .. n, stream[k].pic = p PROVE FALSE OBVIOUS
        <5>1. next = 1 \/ stream[next - 1].pic # p BY <1>1, <4>1, <4>2 DEF BoundsInv, ParsedPicture
        <5>2. k < next - 1 /\ next - 1 < next /\ k \in DOMAIN stream /\ next - 1 \in DOMAIN stream
          BY <4>1, <4>2, <4>3, <5>1
        <5>3. stream[next - 1].pic = stream[k].pic
          BY <4>1, <4>2, <5>2 DEF StreamInv, SentOnce, Contiguous, Slice
        <5> QED BY <4>2, <5>1, <5>2, <5>3
      <4>5. RowsAfter(stream, p, n) = Blank
        <5>1. 0 \in 0 .. Len(stream) /\ n \in 0 .. Len(stream) BY <4>2, <4>3
        <5>2. RowsAfter(stream, p, n) = RowsAfter(stream, p, 0) BY <4>2, <4>4, <5>1, RowsSame
        <5> QED BY <4>2, <5>2, RowsAfterUnfolds
      <4>6. ~FailedBy(stream, p, n)
        <5>1. ~FailedBy(stream, p, 0) BY DEF FailedBy
        <5>2. 0 \in Nat /\ 0 <= n BY <4>3
        <5> QED BY <4>3, <4>4, <5>1, <5>2, FailedBySame
      <4>7. Counts(Rows, p, n)
        <5>1. Cardinality(UndecodedIn(RowsAfter(stream, p, n))) = Rows BY <4>5, BlankCounted
        <5> QED BY <4>6, <5>1, Zenon DEF Counts
      <4>8. Splits(s, n)'
        <5>1. JobsIn(s)' = {} BY <2>2, <2>5
        <5>2. {k \in n + 1 .. NextJob - 1 : stream[k].pic = frame'[s].id} = {}
          BY <1>3, <4>2, <4>3
        <5> QED BY <1>1, <1>3, <5>1, <5>2 DEF Splits
      <4>9. UpTo(s, n)'
        <5>1. Counts(frame[s].remaining, frame[s].id, n)' BY <1>1, <1>5, <4>1, <4>7 DEF Counts
        <5>2. frame'[s].rows = RowsAfter(stream', frame'[s].id, n) BY <1>1, <1>5, <4>1, <4>5
        <5> QED BY <4>8, <5>1, <5>2 DEF UpTo
      <4>10. n \in 0 .. NextJob' - 1 BY <1>3, <4>1, <4>2, <4>3
      <4>11. BehindFrontier(frame'[s])
        <5>1. \A r \in Row : ~(r < 0) BY SliceOrderAssumption DEF Row
        <5> QED BY <1>5, <5>1 DEF BehindFrontier
      <4> QED BY <1>5, <3>2, <4>3, <4>9, <4>10, <4>11 DEF Reached, BehindFrontier
    <3> QED BY <3>1, <3>2
  <2>12. NoneToCome'
    <3> SUFFICES ASSUME NEW u \in Complete'
                 PROVE  frame'[u].id # 0 /\ \A k \in DOMAIN stream : k >= NextJob => stream[k].pic # frame'[u].id
      BY <1>1, <1>3 DEF NoneToCome
    <3>1. u \in Slot /\ frame'[u].frontier = Inf BY DEF Complete, CompleteIn
    <3>2. u # s BY <1>5, <3>1, SliceOrderAssumption DEF Inf
    <3>3. frame'[u] = frame[u] /\ u \in Complete BY <1>5, <3>1, <3>2 DEF Complete, CompleteIn
    <3> QED BY <1>2, <1>3, <3>3 DEF NoneToCome
  <2> QED BY <2>7, <2>8, <2>11, <2>12 DEF RowsInv
<1> QED BY <1>1, <1>4, <1>5, Zenon

(* A new task is the last of its slot.                                     *)
LEMMA CreateTaskRows ==
  ASSUME StreamInv, BoundsInv, PicturesInv, RowsInv, CreateTask
  PROVE  RowsInv'
<1>1. PICK h : h = held' OBVIOUS
<1>2. /\ ppc = "create" /\ ppc' = "created" /\ UNCHANGED <<stream, next, refFrames, toGet, currPic>>
      /\ AllWork /\ FramesSame
      /\ next <= Len(stream) /\ h \in Task \ busy /\ busy' = busy \union {h}
      /\ tasks'[h].job = next /\ tasks'[h].pic = currPic
      /\ \A t \in busy : tasks'[t].job = tasks[t].job /\ tasks'[t].pic = tasks[t].pic
  BY <1>1, CreateTaskEffect DEF StreamInv, Quieted, DpbSlots
<1>3. /\ TypeOK /\ PoolInv /\ WritersCurrent /\ AllWorking /\ RowsReached /\ NoneToCome
      /\ Uncounted \subseteq busy /\ \A w \in Worker : Goes(w) => ctx[w].task \in Uncounted
  BY UncountedTasks DEF StreamInv, PoolInv, RowsInv
<1>4. /\ stream \in Seq(Header) /\ Len(stream) \in Nat /\ next \in 1 .. Len(stream) /\ next \in DOMAIN stream
      /\ NextJob = next /\ NextJob' = next + 1
  <2>1. stream \in Seq(Header) /\ next \in 1 .. Len(stream) + 1 BY <1>3 DEF TypeOK, TaskPoolAssumption
  <2> QED BY <1>2, <2>1 DEF NextJob
<1>5. /\ currPic \in Slot /\ frame[currPic].id = stream[next].pic
      /\ \A s \in Slot \ {currPic} : stream[next].pic # frame[s].id
  <2>1. currPic # None /\ currPic \in Slot \union {None} BY <1>2, <1>3 DEF PoolInv, ParserPrepared, TypeOK
  <2>2. frame[currPic].id = stream[Parsed].pic /\ Parsed = next
    BY <1>2, <2>1 DEF BoundsInv, ParsedPicture, Parsed
  <2>3. \A s \in Slot \ {currPic} : stream[next].pic # frame[s].id BY <1>4 DEF PicturesInv
  <2> QED BY <2>1, <2>2, <2>3
<1>6. ASSUME NEW v \in Worker
      PROVE  /\ ctx'[v].task = ctx[v].task /\ SameWork(ctx[v], ctx'[v])
             /\ ctx'[v].pc \in CountedPc <=> ctx[v].pc \in CountedPc
             /\ ctx'[v].pc \in GoingPc <=> ctx[v].pc \in GoingPc
             /\ ctx[v].pc \in CountedPc => ctx[v].task # h
  <2>1. SameWork(ctx[v], ctx'[v]) BY <1>2 DEF AllWork
  <2>2. ctx[v].pc \in CountedPc => ctx[v].task \in busy BY <1>3, GoingDecodes, OneWriter
  <2> QED BY <1>2, <2>1, <2>2 DEF SameWork, CountedPc, GoingPc, MakingPc, BackPc, MadePc
<1>7. Uncounted' = Uncounted \union {h}
  <2>1. ASSUME NEW u PROVE u \in Uncounted' <=> u \in Uncounted \union {h}
    <3>1. u \in Uncounted' <=>
            (u \in busy \/ u = h) /\ \A v \in Worker : ctx'[v].pc \in CountedPc => ctx'[v].task # u
      BY <1>2 DEF Uncounted
    <3>2. u \in Uncounted <=> u \in busy /\ \A v \in Worker : ctx[v].pc \in CountedPc => ctx[v].task # u
      BY DEF Uncounted
    <3> QED BY <1>6, <3>1, <3>2
  <2> QED BY <2>1
<1>8. \A u \in Uncounted : tasks'[u].job = tasks[u].job /\ tasks'[u].pic = tasks[u].pic BY <1>2, <1>3
<1>9. ASSUME NEW s PROVE JobsIn(s)' = JobsIn(s) \union (IF s = currPic THEN {next} ELSE {})
  <2>1. JobsIn(s)' = {tasks'[t].job : t \in {u \in Uncounted \union {h} : tasks'[u].pic = s}}
    BY <1>7 DEF JobsIn
  <2>2. ASSUME NEW j PROVE j \in JobsIn(s)' <=> j \in JobsIn(s) \/ (s = currPic /\ j = next)
    <3>1. j \in JobsIn(s)' <=> \E u \in Uncounted \union {h} : tasks'[u].pic = s /\ j = tasks'[u].job
      BY <2>1
    <3>2. j \in JobsIn(s) <=> \E u \in Uncounted : tasks[u].pic = s /\ j = tasks[u].job BY DEF JobsIn
    <3> QED BY <1>2, <1>8, <3>1, <3>2
  <2> QED BY <2>2
<1>10. \A u \in Slot : SameFrame(frame[u], frame'[u]) BY <1>2 DEF FramesSame
<1>11. WritersCurrent'
  <2> SUFFICES ASSUME NEW t \in Uncounted \union {h}
               PROVE  frame'[tasks'[t].pic].id = stream[tasks'[t].job].pic /\ frame'[tasks'[t].pic].frontier # Inf
    BY <1>2, <1>7 DEF WritersCurrent, SliceOf
  <2>1. CASE t \in Uncounted
    <3>1. /\ frame[tasks[t].pic].id = stream[tasks[t].job].pic /\ frame[tasks[t].pic].frontier # Inf
          /\ tasks[t].pic \in Slot
      BY <1>3, <2>1, TaskOfSlot DEF WritersCurrent, SliceOf
    <3> QED BY <1>8, <1>10, <2>1, <3>1 DEF SameFrame
  <2>2. CASE t = h
    <3>1. currPic \notin Complete BY <1>2, <1>4, <1>5, <1>3 DEF NoneToCome
    <3>2. frame[currPic].frontier # Inf BY <1>5, <3>1 DEF Complete, CompleteIn
    <3> QED BY <1>2, <1>5, <1>10, <2>2, <3>2 DEF SameFrame
  <2> QED BY <2>1, <2>2
<1>12. AllWorking'
  <2>1. ASSUME NEW v \in Worker, ctx'[v].pc \in GoingPc
        PROVE  Working(ctx'[v], tasks'[ctx'[v].task].job, frame'[tasks'[ctx'[v].task].pic])
    <3>1. Goes(v) /\ SameWork(ctx[v], ctx'[v]) /\ ctx'[v].task = ctx[v].task /\ ctx[v].task \in Uncounted
      BY <1>3, <1>6, <2>1 DEF Goes
    <3>2. PicOf(v) \in Slot BY <1>3, <3>1, OneWriter, GoingDecodes DEF Goes
    <3>3. SameFrame(frame[PicOf(v)], frame'[PicOf(v)]) BY <1>10, <3>2
    <3>4. Working(ctx[v], tasks[ctx[v].task].job, frame[PicOf(v)]) BY <1>3, <3>1 DEF AllWorking
    <3>5. Working(ctx'[v], tasks[ctx[v].task].job, frame'[PicOf(v)])
      BY <2>1, <3>1, <3>3, <3>4, WorkingSame
    <3> QED BY <1>8, <3>1, <3>5 DEF PicOf
  <2>2. stream' = stream BY <1>2
  <2> QED BY <2>1, <2>2, WorkingPrimed
<1>13. \A u : \A v \in Worker : Goes(v) /\ PicOf(v) = u => Goes(v)' /\ PicOf(v)' = u
  <2> SUFFICES ASSUME NEW v \in Worker, Goes(v) PROVE Goes(v)' /\ PicOf(v)' = PicOf(v) OBVIOUS
  <2>1. ctx[v].task \in Uncounted BY <1>3
  <2> QED BY <1>6, <1>8, <2>1 DEF Goes, PicOf
<1>14. RowsReached'
  <2> SUFFICES ASSUME NEW u \in Slot, Followed(u)' PROVE Reached(u)' BY DEF RowsReached
  <2>1. /\ frame'[u].id = frame[u].id /\ frame'[u].frontier = frame[u].frontier
        /\ frame'[u].remaining = frame[u].remaining /\ frame'[u].rows = frame[u].rows
    BY <1>10 DEF SameFrame
  <2>2. Followed(u) BY <1>2, <2>1 DEF Followed
  <2>3. BehindFrontier(frame[u]) /\ frame[u].remaining > 0 BY <1>3, <2>2 DEF RowsReached, Reached
  <2>4. PICK n \in 0 .. NextJob - 1 : UpTo(u, n) BY <1>3, <2>2 DEF RowsReached, Reached
  <2>5. n \in 0 .. NextJob' - 1 BY <1>4
  <2>6. {k \in n + 1 .. (next + 1) - 1 : stream[k].pic = frame[u].id}
          = {k \in n + 1 .. next - 1 : stream[k].pic = frame[u].id} \union (IF u = currPic THEN {next} ELSE {})
    <3>1. \A k : k \in n + 1 .. (next + 1) - 1 <=> k \in n + 1 .. next - 1 \/ k = next BY <1>4
    <3>2. stream[next].pic = frame[u].id <=> u = currPic BY <1>5
    <3> QED BY <3>1, <3>2
  <2>7. Splits(u, n)' BY <1>2, <1>4, <1>9, <2>1, <2>4, <2>6 DEF Splits, UpTo
  <2>8. Counts(frame[u].remaining, frame[u].id, n)' BY <1>2, <2>1, <2>4 DEF Counts, UpTo
  <2>9. ASSUME \A v \in Worker : Goes(v)' => PicOf(v)' # u
        PROVE  frame'[u].rows = RowsAfter(stream', frame'[u].id, n)
    BY <1>2, <1>13, <2>1, <2>4, <2>9 DEF UpTo
  <2>10. UpTo(u, n)' BY <2>7, <2>8, <2>9 DEF UpTo
  <2>11. BehindFrontier(frame[u])' BY <2>1, <2>3 DEF BehindFrontier
  <2> QED BY <2>1, <2>3, <2>5, <2>10, <2>11 DEF Reached
<1>15. NoneToCome'
  <2> SUFFICES ASSUME NEW u \in Complete'
               PROVE  frame'[u].id # 0 /\ \A k \in DOMAIN stream : k >= next + 1 => stream[k].pic # frame'[u].id
    BY <1>2, <1>4 DEF NoneToCome
  <2>1. u \in Complete /\ frame'[u].id = frame[u].id BY <1>10 DEF Complete, CompleteIn, SameFrame
  <2>2. ppc # "closed" /\ \A k \in DOMAIN stream : k >= next + 1 => k >= NextJob BY <1>2, <1>4
  <2> QED BY <1>3, <2>1, <2>2 DEF NoneToCome
<1> QED BY <1>11, <1>12, <1>14, <1>15 DEF RowsInv

(* A slice that is counted made its rows: unless it is the last one of a   *)
(* closed decoder, those of single-threaded decoding.                      *)
LEMMA CountedSlice ==
  ASSUME StreamInv, BoundsInv, RowsInv, NEW w \in Worker, ctx[w].pc = "count"
  PROVE  LET k == tasks[ctx[w].task].job
             s == PicOf(w)
             f == frame[s]
             sl == stream[k]
             p == sl.pic
             left == f.remaining - (ctx[w].row - sl.first)
         IN  /\ k \in 1 .. NextJob - 1 /\ k \in 0 .. Len(stream) /\ Followed(s) /\ ctx[w].task \in Uncounted
             /\ JobsIn(s) \ {k} = {j \in k + 1 .. NextJob - 1 : stream[j].pic = p}
             /\ BehindFrontier(f)
             /\ SliceAt(w) = sl /\ p = f.id /\ p # 0
             /\ ~Bounded(k) => JobsIn(s) \ {k} = {}
             /\ Bounded(k) =>
                  /\ f.rows = RowsAfter(stream, p, k)
                  /\ Counts(IF Failed(sl, ctx[w].row) THEN f.remaining ELSE left, p, k)
                  /\ ~Failed(sl, ctx[w].row) => left >= 0
                  /\ FailedBy(stream, p, k) <=>
                       FailedBy(stream, p, k - 1) \/ Failed(sl, ctx[w].row)
                  /\ f.remaining > 0
<1>1. PICK k, s, f, sl, p, t, before, n, e :
        /\ t = ctx[w].task /\ k = tasks[t].job /\ s = PicOf(w) /\ f = frame[s] /\ sl = stream[k] /\ p = sl.pic
        /\ before = RowsAfter(stream, p, k - 1) /\ n = ctx[w].row /\ e = ctx[w].bound
  OBVIOUS
<1>2. Goes(w) /\ ctx[w].pc \in MadePc /\ ctx[w].pc \in EndPc /\ ctx[w].pc \in DecodePc
  BY GoingDecodes DEF Goes, GoingPc, MadePc, EndPc
<1>3. /\ PoolInv /\ TypeOK /\ sl \in Header /\ sl.first \in Nat /\ sl.last \in Nat /\ sl.first < sl.last
      /\ before \in [Row -> RowContent] /\ f.rows \in [Row -> RowContent]
      /\ n \in Nat /\ SliceAt(w) = sl /\ n \in sl.first .. sl.last /\ Working(ctx[w], k, f)
      /\ s \in Slot /\ k \in DOMAIN stream /\ k \in Nat /\ stream \in Seq(Header) /\ sl.first \in Row
  BY <1>1, <1>2, GoingTask, Zenon
<1>4. t \in Uncounted /\ tasks[t].pic = s BY <1>1, <1>2, <1>3, UncountedTasks, Zenon DEF PicOf
<1>5. /\ k \in 1 .. Len(stream) /\ k \in 1 .. NextJob - 1 /\ p = f.id /\ p # 0 /\ Followed(s) /\ t \in busy
      /\ Len(stream) \in Nat
  <2>1. /\ t \in busy /\ tasks[t].job \in 1 .. Len(stream) /\ tasks[t].job \in 1 .. NextJob - 1
        /\ stream[tasks[t].job].pic = frame[tasks[t].pic].id
        /\ frame[tasks[t].pic].id # 0 /\ Followed(tasks[t].pic)
    BY <1>4, TaskOfSlot, Zenon
  <2>2. Len(stream) \in Nat BY <1>3
  <2>3. p = f.id BY <1>1, <1>4, <2>1
  <2> QED BY <1>1, <1>4, <2>1, <2>2, <2>3
<1>6. n = StopRow(sl, e, before) /\ f.rows = Fill(sl, k, n, before)
  BY <1>1, <1>2, <1>3, Zenon DEF Working
<1>7. BehindFrontier(f) /\ f.remaining > 0 /\ \E m \in 0 .. NextJob - 1 : UpTo(s, m)
  BY <1>1, <1>3, <1>5 DEF RowsInv, RowsReached, Reached
<1>8. PICK m \in 0 .. NextJob - 1 : UpTo(s, m) BY <1>7
<1>9. \A u \in busy : tasks[u].pic = s => u = t \/ tasks[u].job > k
  <2>1. \A u \in busy : tasks[u].pic = PicOf(w) => u = ctx[w].task \/ tasks[u].job > tasks[ctx[w].task].job
    BY <1>2, <1>3, OneWriter, Z3T(20)
  <2> QED BY <1>1, <2>1
<1>10. /\ m < k /\ RowsAfter(stream, p, m) = before
       /\ FailedBy(stream, p, m) <=> FailedBy(stream, p, k - 1)
       /\ JobsIn(s) \ {k} = {j \in k + 1 .. NextJob - 1 : stream[j].pic = p}
  <2>1. Splits(tasks[t].pic, m) BY <1>4, <1>8 DEF UpTo
  <2>2. \A u \in busy : tasks[u].pic = tasks[t].pic => u = t \/ tasks[u].job > tasks[t].job
    BY <1>1, <1>4, <1>9
  <2>3. LET j == tasks[t].job
            u == tasks[t].pic
            q == stream[j].pic
        IN  /\ m < j /\ \A i \in m + 1 .. j - 1 : stream[i].pic # q
            /\ RowsAfter(stream, q, m) = RowsAfter(stream, q, j - 1)
            /\ FailedBy(stream, q, m) <=> FailedBy(stream, q, j - 1)
            /\ JobsIn(u) \ {j} = {i \in j + 1 .. NextJob - 1 : stream[i].pic = frame[u].id}
    BY <1>4, <2>1, <2>2, OldestTask, Zenon
  <2>4. tasks[t].job = k /\ tasks[t].pic = s /\ stream[k].pic = p /\ frame[s].id = p BY <1>1, <1>4, <1>5
  <2>5. m < k BY <2>3, <2>4
  <2>6. RowsAfter(stream, p, m) = RowsAfter(stream, p, k - 1)
        /\ (FailedBy(stream, p, m) <=> FailedBy(stream, p, k - 1))
    BY <2>3, <2>4
  <2>7. JobsIn(s) \ {k} = {j \in k + 1 .. NextJob - 1 : stream[j].pic = frame[s].id} BY <2>3, <2>4, Z3T(20)
  <2> QED BY <1>1, <2>4, <2>5, <2>6, <2>7, Zenon
<1>11. Counts(f.remaining, p, k - 1)
  <2>1. Counts(f.remaining, p, m) BY <1>1, <1>5, <1>8 DEF UpTo
  <2>2. PICK c : c = Cardinality(UndecodedIn(before)) OBVIOUS
  <2>3. IF FailedBy(stream, p, m) THEN f.remaining > c ELSE f.remaining = c BY <1>10, <2>1, <2>2 DEF Counts
  <2>4. IF FailedBy(stream, p, k - 1) THEN f.remaining > c ELSE f.remaining = c BY <1>10, <2>3
  <2> QED BY <1>1, <2>2, <2>4, Zenon DEF Counts
<1>12. e # Unknown /\ t # held /\ tasks[t].bound = e
  <2>1. e # Unknown BY <1>1, <1>2, <1>3, Zenon DEF PoolInv, WorkersOwn, WorkerOwns
  <2>2. t # held BY <1>1, <1>2, <1>3, <2>1, Zenon DEF PoolInv, WorkersOwn, WorkerOwns
  <2>3. tasks[t].bound = e BY <1>1, <1>2, <2>1 DEF BoundsInv, BoundsAcked, WithinBound
  <2> QED BY <2>1, <2>2, <2>3, Z3T(20)
<1>13. ~Bounded(k) => JobsIn(s) \ {k} = {}
  <2>1. next \in 1 .. Len(stream) + 1 BY <1>3 DEF TypeOK
  <2> SUFFICES ASSUME ~Bounded(k), NEW j \in k + 1 .. NextJob - 1 PROVE FALSE BY <1>10
  <2>2. ppc = "closed" /\ ~(k < next - 1) BY DEF Bounded
  <2>3. NextJob = next BY <2>2 DEF NextJob
  <2>4. k \in Nat /\ next \in Nat BY <1>3, <1>5, <2>1
  <2> QED BY <2>2, <2>3, <2>4
<1>14. ASSUME Bounded(k)
       PROVE  /\ f.rows = RowsAfter(stream, p, k)
              /\ Counts(IF Failed(sl, n) THEN f.remaining ELSE f.remaining - (n - sl.first), p, k)
              /\ ~Failed(sl, n) => f.remaining - (n - sl.first) >= 0
              /\ FailedBy(stream, p, k) <=> FailedBy(stream, p, k - 1) \/ Failed(sl, n)
  <2>1. e = BoundOf(stream, k) BY <1>1, <1>5, <1>12, <1>14 DEF BoundsInv, HeldIsLast
  <2>2. e \in Int /\ e > sl.first
    <3>1. e \in 0 .. Inf /\ e > sl.first BY <1>1, <1>3, <2>1, BoundType, Zenon
    <3> QED BY <3>1, SliceOrderAssumption, Z3T(20) DEF Inf
  <2>3. f.rows = RowsAfter(stream, p, k)
    <3>1. LET rows == RowsAfter(stream, stream[k].pic, k - 1)
          IN  RowsAfter(stream, stream[k].pic, k)
                = Fill(stream[k], k, StopRow(stream[k], BoundOf(stream, k), rows), rows)
      BY <1>3, SliceFills, Zenon
    <3>2. RowsAfter(stream, p, k) = Fill(sl, k, StopRow(sl, BoundOf(stream, k), before), before)
      BY <1>1, <3>1
    <3> QED BY <1>6, <2>1, <3>2
  <2>4. n > sl.first /\ \A r \in sl.first .. n - 1 : before[r] = Undecoded
    <3>1. /\ \A r \in sl.first .. n - 1 : r < e /\ before[r] = Undecoded
          /\ n = sl.last \/ n >= e \/ before[n] # Undecoded
      BY <1>3, <1>6, <2>2, StopsAt, Z3T(20)
    <3>2. before[sl.first] = Undecoded BY <1>1, <1>3 DEF StreamInv, SentOnce, StartsNew
    <3>3. n # sl.first BY <1>3, <2>2, <3>1, <3>2
    <3> QED BY <1>3, <3>1, <3>3
  <2>5. PICK c, d : c = Cardinality(UndecodedIn(before)) /\ d = Cardinality(UndecodedIn(f.rows)) OBVIOUS
  <2>6. d = c - (n - sl.first) /\ c \in Nat /\ d \in Nat
    <3>1. Cardinality(UndecodedIn(Fill(sl, k, n, before))) = Cardinality(UndecodedIn(before)) - (n - sl.first)
      BY <1>3, <2>4, FillCounted
    <3> QED BY <1>6, <2>5, <3>1, RowsCounted
  <2>7. FailedBy(stream, p, k) <=> FailedBy(stream, p, k - 1) \/ Failed(sl, n)
    <3>1. k \in Nat \ {0} BY <1>5
    <3>2. FailedBy(stream, stream[k].pic, k) <=>
            \/ FailedBy(stream, stream[k].pic, k - 1)
            \/ Failed(stream[k], StopRow(stream[k], BoundOf(stream, k), RowsAfter(stream, stream[k].pic, k - 1)))
      BY <3>1, FailedByNext
    <3>3. FailedBy(stream, p, k) <=>
            FailedBy(stream, p, k - 1) \/ Failed(sl, StopRow(sl, e, before))
      BY <1>1, <2>1, <3>2, Zenon
    <3> QED BY <1>6, <3>3, Zenon
  <2>8. f.remaining \in Int
    <3>1. f \in FrameRecord BY <1>1, <1>3, Z3T(20) DEF TypeOK
    <3> QED BY <3>1, SMTT(25) DEF FrameRecord
  <2>9. IF FailedBy(stream, p, k - 1) THEN f.remaining > c ELSE f.remaining = c
    BY <1>1, <1>11, <2>5, Zenon DEF Counts
  <2>10. CASE Failed(sl, n)
    <3>1. f.remaining > d BY <1>3, <2>4, <2>6, <2>8, <2>9
    <3>2. Counts(f.remaining, p, k) BY <2>3, <2>5, <2>7, <2>10, <3>1, Zenon DEF Counts
    <3> QED BY <2>3, <2>7, <2>10, <3>2, Zenon
  <2>11. CASE ~Failed(sl, n)
    <3>1. PICK left : left = f.remaining - (n - sl.first) OBVIOUS
    <3>2. left >= 0 /\ IF FailedBy(stream, p, k - 1) THEN left > d ELSE left = d
      BY <1>3, <2>4, <2>6, <2>8, <2>9, <3>1, SMTT(25)
    <3>3. Counts(left, p, k) BY <2>3, <2>5, <2>7, <2>11, <3>2, Zenon DEF Counts
    <3>4. f.remaining - (n - sl.first) >= 0 BY <3>1, <3>2
    <3> QED BY <2>3, <2>7, <2>11, <3>1, <3>3, <3>4, Zenon
  <2> QED BY <2>10, <2>11
<1>15. k \in 0 .. Len(stream) BY <1>5
<1> QED BY <1>1, <1>3, <1>4, <1>5, <1>7, <1>10, <1>13, <1>14, <1>15, Zenon

LEMMA CountSliceRows ==
  ASSUME StreamInv, BoundsInv, RowsInv, TypeOK', NEW w \in Worker, CountSlice(w)
  PROVE  RowsInv'
<1>1. PICK k, s, f, sl, p, t, n, failed, left, last :
        /\ t = ctx[w].task /\ k = tasks[t].job /\ s = PicOf(w) /\ f = frame[s] /\ sl = stream[k] /\ p = sl.pic
        /\ n = ctx[w].row /\ failed = Failed(sl, n) /\ left = f.remaining - (n - sl.first)
        /\ last = (~failed /\ left = 0)
  OBVIOUS
<1>2. ctx[w].pc = "count" /\ PoolInv BY DEF CountSlice, StreamInv
<1>3. /\ TypeOK /\ WritersCurrent /\ AllWorking /\ RowsReached /\ NoneToCome
      /\ Uncounted \subseteq busy /\ \A v \in Worker : Goes(v) => ctx[v].task \in Uncounted
  BY UncountedTasks DEF StreamInv, PoolInv, RowsInv
<1>4. ctx[w].pc \in GoingPc /\ ctx[w].pc \in DecodePc /\ ctx[w].pc \notin CountedPc
  BY <1>2, GoingDecodes DEF GoingPc, MadePc
<1>5. /\ k \in 1 .. NextJob - 1 /\ k \in 0 .. Len(stream) /\ Followed(s) /\ t \in Uncounted
      /\ JobsIn(s) \ {k} = {j \in k + 1 .. NextJob - 1 : stream[j].pic = p}
      /\ BehindFrontier(f)
      /\ SliceAt(w) = sl /\ p = f.id /\ p # 0
      /\ ~Bounded(k) => JobsIn(s) \ {k} = {}
      /\ Bounded(k) =>
           /\ f.rows = RowsAfter(stream, p, k)
           /\ Counts(IF failed THEN f.remaining ELSE left, p, k)
           /\ ~failed => left >= 0
           /\ FailedBy(stream, p, k) <=> FailedBy(stream, p, k - 1) \/ failed
           /\ f.remaining > 0
  <2>1. LET k_ == tasks[ctx[w].task].job
            s_ == PicOf(w)
            f_ == frame[s_]
            sl_ == stream[k_]
            p_ == sl_.pic
            left_ == f_.remaining - (ctx[w].row - sl_.first)
        IN  /\ k_ \in 1 .. NextJob - 1 /\ k_ \in 0 .. Len(stream) /\ Followed(s_) /\ ctx[w].task \in Uncounted
            /\ JobsIn(s_) \ {k_} = {j \in k_ + 1 .. NextJob - 1 : stream[j].pic = p_}
            /\ BehindFrontier(f_)
            /\ SliceAt(w) = sl_ /\ p_ = f_.id /\ p_ # 0
            /\ ~Bounded(k_) => JobsIn(s_) \ {k_} = {}
            /\ Bounded(k_) =>
                 /\ f_.rows = RowsAfter(stream, p_, k_)
                 /\ Counts(IF Failed(sl_, ctx[w].row) THEN f_.remaining ELSE left_, p_, k_)
                 /\ ~Failed(sl_, ctx[w].row) => left_ >= 0
                 /\ FailedBy(stream, p_, k_) <=> FailedBy(stream, p_, k_ - 1) \/ Failed(sl_, ctx[w].row)
                 /\ f_.remaining > 0
    BY <1>2, CountedSlice, Zenon
  <2>2. ctx[w].task = t /\ tasks[t].job = k /\ PicOf(w) = s /\ frame[s] = f /\ stream[k] = sl /\ sl.pic = p
        /\ ctx[w].row = n
    BY <1>1, Z3T(20)
  <2>3. Failed(sl, n) = failed /\ f.remaining - (n - sl.first) = left BY <1>1
  <2> QED BY <2>1, <2>2, <2>3
<1>6. /\ PoolSame
      /\ Moved(w, IF last THEN "notifyDone" ELSE "finish", n, ctx[w].bound)
      /\ Stored(w, IF last THEN Inf ELSE f.frontier, IF failed THEN f.remaining ELSE left, f.rows)
  <2>1. FailedAt(w) = failed BY <1>1, <1>5, Zenon DEF FailedAt
  <2>2. LET f_ == frame[PicOf(w)]
            left_ == f_.remaining - (ctx[w].row - SliceAt(w).first)
            last_ == ~FailedAt(w) /\ left_ = 0
        IN  /\ PoolSame
            /\ Moved(w, IF last_ THEN "notifyDone" ELSE "finish", ctx[w].row, ctx[w].bound)
            /\ Stored(w, IF last_ THEN Inf ELSE f_.frontier, IF FailedAt(w) THEN f_.remaining ELSE left_, f_.rows)
    BY <1>2, CountSliceEffect, Zenon
  <2>3. frame[PicOf(w)] = f /\ ctx[w].row = n /\ SliceAt(w) = sl /\ f.remaining - (n - sl.first) = left
        /\ (~failed /\ left = 0) = last
    BY <1>1, <1>5, Zenon
  <2> QED BY <2>1, <2>2, <2>3, Zenon
<1>7. /\ UNCHANGED <<stream, next, tasks, busy, ppc>> /\ OthersWork(w) /\ ctx'[w].task = t
      /\ ctx'[w].pc \in CountedPc
      /\ \A u \in Slot \ {s} : SameFrame(frame[u], frame'[u])
      /\ frame'[s].id = p /\ frame'[s].rows = f.rows
      /\ frame'[s].frontier = IF last THEN Inf ELSE f.frontier
      /\ frame'[s].remaining = IF failed THEN f.remaining ELSE left
  BY <1>1, <1>5, <1>6, Zenon DEF PoolSame, Moved, Stored, CountedPc
<1>8. s \in Slot /\ t \in busy /\ tasks[t].pic = s /\ stream \in Seq(Header) /\ NextJob \in Nat /\ Len(stream) \in Nat
      /\ k \in Nat
  <2>1. t \in busy /\ tasks[t].pic = s BY <1>1, <1>3, <1>5, Zenon DEF PicOf
  <2>2. s \in Slot /\ stream \in Seq(Header) BY <1>2, <1>3, <2>1 DEF PoolInv, TasksOrdered, TypeOK, TaskPoolAssumption
  <2>3. next \in 1 .. Len(stream) + 1 /\ Len(stream) \in Nat BY <1>3, <2>2 DEF TypeOK
  <2> QED BY <1>5, <2>1, <2>2, <2>3, Z3T(20) DEF NextJob
<1>9. NextJob' = NextJob /\ stream' = stream /\ (ppc # "closed" \/ ppc' = "closed") BY <1>7 DEF NextJob
<1>10. ASSUME NEW v \in Worker \ {w}
       PROVE  /\ SameWork(ctx[v], ctx'[v]) /\ ctx'[v].task = ctx[v].task
              /\ ctx'[v].pc \in CountedPc <=> ctx[v].pc \in CountedPc
              /\ ctx'[v].pc \in GoingPc <=> ctx[v].pc \in GoingPc
              /\ Goes(v) => PicOf(v) # s /\ ctx[v].task # t
  <2>1. SameWork(ctx[v], ctx'[v]) BY <1>7 DEF OthersWork
  <2>2. Goes(v) => ctx[v].pc \in DecodePc BY GoingDecodes, Z3T(20) DEF Goes
  <2>3. ctx[v].pc \in DecodePc => PicOf(v) # s /\ ctx[v].task # t
    BY <1>1, <1>2, <1>4, OneWriter, Zenon
  <2> QED BY <2>1, <2>2, <2>3 DEF SameWork, CountedPc, GoingPc, MakingPc, BackPc, MadePc
<1>11. Uncounted' = Uncounted \ {t}
  <2>1. ASSUME NEW u PROVE u \in Uncounted' <=> u \in Uncounted /\ u # t
    <3>1. u \in Uncounted' <=> u \in busy /\ \A v \in Worker : ctx'[v].pc \in CountedPc => ctx'[v].task # u
      BY <1>7 DEF Uncounted
    <3>2. u \in Uncounted <=> u \in busy /\ \A v \in Worker : ctx[v].pc \in CountedPc => ctx[v].task # u
      BY DEF Uncounted
    <3> QED BY <1>4, <1>7, <1>10, <3>1, <3>2
  <2> QED BY <2>1
<1>12. ASSUME NEW u PROVE JobsIn(u)' = IF u = s THEN JobsIn(s) \ {k} ELSE JobsIn(u)
  <2>1. JobsIn(u)' = {tasks[v].job : v \in {x \in Uncounted \ {t} : tasks[x].pic = u}} BY <1>7, <1>11 DEF JobsIn
  <2>2. \A x, y \in busy : tasks[x].job = tasks[y].job => x = y BY <1>2 DEF PoolInv, TasksOrdered
  <2>3. ASSUME NEW j PROVE j \in JobsIn(u)' <=> j \in IF u = s THEN JobsIn(s) \ {k} ELSE JobsIn(u)
    <3>1. j \in JobsIn(u)' <=> \E x \in Uncounted : x # t /\ tasks[x].pic = u /\ j = tasks[x].job
      BY <2>1
    <3>2. j \in JobsIn(u) <=> \E x \in Uncounted : tasks[x].pic = u /\ j = tasks[x].job BY Z3T(20) DEF JobsIn
    <3>3. \A x \in Uncounted : x # t <=> tasks[x].job # k BY <1>1, <1>3, <1>5, <2>2, Zenon
    <3>4. CASE u = s BY <3>1, <3>2, <3>3, <3>4
    <3>5. CASE u # s BY <1>8, <3>1, <3>2, <3>5
    <3> QED BY <3>4, <3>5
  <2> QED BY <2>3
<1>13. ASSUME last, Bounded(k) PROVE \A j \in DOMAIN stream : j > k => stream[j].pic # p
  <2>1. Counts(0, p, k)
    BY <1>1, <1>5, <1>13, Zenon
  <2>2. RowsAfter(stream, p, k) \in [Row -> RowContent] BY <1>5, <1>8, RowsAfterType
  <2>3. PICK c : c = Cardinality(UndecodedIn(RowsAfter(stream, p, k))) OBVIOUS
  <2>4. c \in Nat /\ (c = 0 <=> \A r \in Row : RowsAfter(stream, p, k)[r] # Undecoded) BY <2>3, RowsCounted
  <2>5. IF FailedBy(stream, p, k) THEN 0 > c ELSE 0 = c BY <2>1, <2>3 DEF Counts
  <2>6. c = 0 BY <2>4, <2>5
  <2> QED BY <1>5, <1>8, <2>4, <2>6, NoneAfterWhole, Z3T(20) DEF StreamInv, SentOnce
<1>14. ASSUME last PROVE JobsIn(s) \ {k} = {}
  <2>1. CASE Bounded(k)
    <3>1. \A j \in k + 1 .. NextJob - 1 : j \in DOMAIN stream /\ j > k
      <4>1. NextJob - 1 <= Len(stream)
        <5>1. next \in 1 .. Len(stream) + 1 BY <1>3 DEF TypeOK
        <5>2. ppc = "created" => next <= Len(stream) BY <1>2 DEF PoolInv, ParserPrepared
        <5> QED BY <1>8, <5>1, <5>2 DEF NextJob
      <4> QED BY <1>8, <4>1
    <3> QED BY <1>5, <1>13, <1>14, <2>1, <3>1
  <2>2. CASE ~Bounded(k) BY <1>5, <2>2
  <2> QED BY <2>1, <2>2
<1>15. WritersCurrent'
  <2> SUFFICES ASSUME NEW u \in Uncounted, u # t
               PROVE  frame'[tasks[u].pic].id = SliceOf(u).pic /\ frame'[tasks[u].pic].frontier # Inf
    BY <1>7, <1>11 DEF WritersCurrent, SliceOf
  <2>1. /\ frame[tasks[u].pic].id = SliceOf(u).pic /\ frame[tasks[u].pic].frontier # Inf /\ tasks[u].pic \in Slot
        /\ tasks[u].job \in JobsIn(tasks[u].pic)
    BY <1>3, TaskOfSlot DEF WritersCurrent
  <2>2. CASE tasks[u].pic # s BY <1>7, <2>1, <2>2, Z3T(20) DEF SameFrame
  <2>3. CASE tasks[u].pic = s
    <3>1. \A x, y \in busy : tasks[x].job = tasks[y].job => x = y BY <1>2 DEF PoolInv, TasksOrdered
    <3>2. tasks[u].job # k BY <1>1, <1>3, <1>8, <3>1, Zenon
    <3>3. ~last BY <1>14, <2>1, <2>3, <3>2
    <3> QED BY <1>1, <1>5, <1>7, <2>1, <2>3, <3>3, Zenon
  <2> QED BY <2>2, <2>3
<1>16. AllWorking'
  <2>1. ASSUME NEW v \in Worker, ctx'[v].pc \in GoingPc
        PROVE  Working(ctx'[v], tasks'[ctx'[v].task].job, frame'[tasks'[ctx'[v].task].pic])
    <3>1. v # w BY <1>7, <2>1, GoingDecodes
    <3>2. Goes(v) /\ SameWork(ctx[v], ctx'[v]) /\ ctx'[v].task = ctx[v].task /\ PicOf(v) # s
      BY <1>10, <2>1, <3>1 DEF Goes
    <3>3. PicOf(v) \in Slot BY <1>2, <3>2, OneWriter, GoingDecodes DEF Goes
    <3>4. SameFrame(frame[PicOf(v)], frame'[PicOf(v)]) BY <1>7, <3>2, <3>3
    <3>5. Working(ctx[v], tasks[ctx[v].task].job, frame[PicOf(v)]) BY <1>3, <3>2 DEF AllWorking
    <3>6. Working(ctx'[v], tasks[ctx[v].task].job, frame'[PicOf(v)])
      BY <2>1, <3>2, <3>4, <3>5, WorkingSame
    <3> QED BY <1>7, <3>2, <3>6 DEF PicOf
  <2> QED BY <1>9, <2>1, WorkingPrimed
<1>17. \A u : \A v \in Worker : u # s /\ Goes(v) /\ PicOf(v) = u => Goes(v)' /\ PicOf(v)' = u
  <2> SUFFICES ASSUME NEW v \in Worker, Goes(v), PicOf(v) # s PROVE Goes(v)' /\ PicOf(v)' = PicOf(v) BY Z3T(20)
  <2>1. v # w BY <1>1
  <2> QED BY <1>7, <1>10, <2>1 DEF Goes, PicOf
<1>18. RowsReached'
  <2> SUFFICES ASSUME NEW u \in Slot, Followed(u)' PROVE Reached(u)' BY DEF RowsReached
  <2>1. CASE u # s
    <3>1. SameFrame(frame[u], frame'[u]) /\ JobsIn(u)' = JobsIn(u) BY <1>7, <1>12, <2>1
    <3> QED BY <1>3, <1>9, <1>17, <2>1, <3>1, ReachedSame
  <2>2. CASE u = s
    <3>1. ~last /\ (ppc # "closed" \/ JobsIn(s) \ {k} # {}) BY <1>7, <1>12, <2>2 DEF Followed
    <3>2. Bounded(k) BY <1>5, <3>1 DEF Bounded
    <3>3. BehindFrontier(frame[s])' BY <1>5, <1>7, <3>1 DEF BehindFrontier
    <3>4. frame'[s].remaining > 0
      <4>1. CASE failed BY <1>5, <1>7, <3>2, <4>1
      <4>2. CASE ~failed
        <5>1. left >= 0 /\ left # 0 BY <1>1, <1>5, <3>1, <3>2, <4>2, Zenon
        <5>2. left \in Int
          <6>1. frame'[s] \in FrameRecord BY <1>8 DEF TypeOK
          <6> QED BY <1>7, <4>2, <6>1 DEF FrameRecord
        <5> QED BY <1>7, <4>2, <5>1, <5>2, Z3T(20)
      <4> QED BY <4>1, <4>2
    <3>5. Splits(s, k)' BY <1>5, <1>7, <1>9, <1>12 DEF Splits
    <3>6. Counts(frame[s].remaining, frame[s].id, k)' BY <1>5, <1>7, <1>9, <3>2 DEF Counts
    <3>7. frame'[s].rows = RowsAfter(stream', frame'[s].id, k) BY <1>5, <1>7, <1>9, <3>2
    <3>8. UpTo(s, k)' BY <3>5, <3>6, <3>7 DEF UpTo
    <3>9. k \in 0 .. NextJob' - 1 BY <1>5, <1>8, <1>9
    <3> QED BY <2>2, <3>3, <3>4, <3>8, <3>9 DEF Reached
  <2> QED BY <2>1, <2>2
<1>19. NoneToCome'
  <2> SUFFICES ASSUME ppc # "closed", NEW u \in Complete'
               PROVE  frame'[u].id # 0 /\ \A j \in DOMAIN stream : j >= NextJob => stream[j].pic # frame'[u].id
    BY <1>7, <1>9 DEF NoneToCome
  <2>1. u \in Slot /\ frame'[u].frontier = Inf BY DEF Complete, CompleteIn
  <2>2. CASE u # s
    <3>1. u \in Complete /\ frame'[u].id = frame[u].id BY <1>7, <2>1, <2>2 DEF Complete, CompleteIn, SameFrame
    <3> QED BY <1>3, <3>1 DEF NoneToCome
  <2>3. CASE u = s
    <3>1. last BY <1>1, <1>5, <1>7, <2>1, <2>3, Zenon DEF Followed
    <3>2. \A j \in DOMAIN stream : j > k => stream[j].pic # p BY <1>13, <3>1 DEF Bounded
    <3>3. \A j \in DOMAIN stream : j >= NextJob => j > k BY <1>5, <1>8
    <3> QED BY <1>5, <1>7, <2>3, <3>2, <3>3, Z3T(20)
  <2> QED BY <2>2, <2>3
<1> QED BY <1>15, <1>16, <1>18, <1>19 DEF RowsInv

(* The claims, counts and frontiers are kept by every step.                *)
LEMMA RowsNext ==
  ASSUME StreamInv, BoundsInv, PicturesInv, RowsInv, [Next]_vars
  PROVE  RowsInv'
<1>1. StreamInv' BY StreamNext
<1>2. TypeOK' /\ PoolInv' BY <1>1 DEF StreamInv, PoolInv
<1>3. ASSUME NEW w \in Worker, Work(w) PROVE RowsInv'
  <2>1. CASE TakeTask(w) BY <1>2, <2>1, TakeTaskRows
  <2>2. CASE LearnBound(w) BY <1>2, <2>2, LearnBoundRows
  <2>3. CASE ClaimRow(w) BY <1>2, <2>3, ClaimRowRows
  <2>4. CASE AwaitRow(w) BY <1>2, <2>4, AwaitRowRows
  <2>5. CASE DecodeRow(w) BY <1>2, <2>5, DecodeRowRows
  <2>6. CASE AwaitBound(w) BY <1>2, <2>6, AwaitBoundRows
  <2>7. CASE TakeBack(w) BY <1>2, <2>7, TakeBackRows
  <2>8. CASE Redo(w) BY <1>2, <2>8, RedoRows
  <2>9. CASE PublishSlice(w) BY <1>2, <2>9, PublishSliceRows
  <2>10. CASE CountSlice(w) BY <1>2, <2>10, CountSliceRows
  <2>11. CASE Notify(w) BY <1>2, <2>11, NotifyRows
  <2>12. CASE Finish(w) BY <2>12, FinishRows
  <2>13. CASE FallAsleep(w) \/ Exit(w) \/ LeaveTask(w) BY <2>13, IdleRows
  <2> QED BY <1>3, <2>1, <2>2, <2>3, <2>4, <2>5, <2>6, <2>7, <2>8, <2>9, <2>10, <2>11, <2>12, <2>13, Zenon DEF Work
<1>4. CASE SendSlice BY <1>4, ParserRows
<1>5. CASE WaitTaskSlot BY <1>5, ParserRows
<1>6. CASE SettleBounds BY <1>6, ParserRows
<1>7. CASE StartPicture BY <1>7, ParserRows
<1>8. CASE AllocSlot BY <1>8, AllocSlotRows
<1>9. CASE CreateTask BY <1>9, CreateTaskRows
<1>10. CASE CreatedTask BY <1>10, ParserRows
<1>11. CASE SendEnd BY <1>11, ParserRows
<1>12. CASE Drain BY <1>12, ParserRows
<1>13. ASSUME NEW s \in Slot, Receive(s) \/ DropOrphan(s) PROVE RowsInv' BY <1>13, ParserRows
<1>14. CASE Close BY <1>14, ParserRows
<1>15. CASE UNCHANGED vars BY <1>15, ParserRows
<1> QED BY <1>3, <1>4, <1>5, <1>6, <1>7, <1>8, <1>9, <1>10, <1>11, <1>12, <1>13, <1>14, <1>15,
           ZenonT(60) DEF Next, Parse, Call

LEMMA RowsInit ==
  ASSUME Init
  PROVE  RowsInv
<1>1. busy = {} /\ \A s \in Slot : frame[s].id = 0 /\ frame[s].frontier = 0 BY DEF Init
<1>2. \A w \in Worker : ctx[w].pc = "idle" BY DEF Init
<1>3. WritersCurrent /\ AllWorking
  <2>1. Uncounted = {} BY <1>1 DEF Uncounted
  <2>2. \A w \in Worker : ~Goes(w) BY <1>2 DEF Goes, GoingPc, MakingPc, BackPc, MadePc
  <2> QED BY <2>1, <2>2 DEF WritersCurrent, AllWorking
<1>4. RowsReached BY <1>1 DEF RowsReached, Followed
<1>5. NoneToCome
  <2>1. 0 # Inf BY SliceOrderAssumption DEF Inf
  <2>2. Complete = {} BY <1>1, <2>1 DEF Complete, CompleteIn
  <2> QED BY <2>2 DEF NoneToCome
<1> QED BY <1>3, <1>4, <1>5 DEF RowsInv

-----------------------------------------------------------------------------
(* The first layers of the invariant together.                             *)

LayersInv == StreamInv /\ BoundsInv /\ PicturesInv /\ RowsInv

LEMMA LayersInit == Init /\ ReadsWhatIsHeld(stream) /\ SentOnce(stream) => LayersInv
BY BoundsInit, PicturesInit, RowsInit, InitInv DEF LayersInv, StreamInv

LEMMA LayersNext == LayersInv /\ [Next]_vars => LayersInv'
BY StreamNext, BoundsNext, PicturesNext, RowsNext, SMTT(25) DEF LayersInv

-----------------------------------------------------------------------------
(* What completes a picture.                                               *)

(* The slice that brings remaining_mbs to 0 completes a picture that is the*)
(* one of single-threaded decoding, and not damaged.                       *)
LEMMA LastSlice ==
  ASSUME LayersInv, NEW w \in Worker, ctx[w].pc = "count", ppc # "closed", ~FailedAt(w),
         frame[PicOf(w)].remaining - (ctx[w].row - SliceAt(w).first) = 0
  PROVE  /\ frame[PicOf(w)].rows = SingleThreaded(stream, frame[PicOf(w)].id)
         /\ ~Damaged(stream, frame[PicOf(w)].id)
<1>1. PICK k, f, sl, p, n, left :
        /\ k = tasks[ctx[w].task].job /\ f = frame[PicOf(w)] /\ sl = stream[k] /\ p = sl.pic
        /\ n = ctx[w].row /\ left = f.remaining - (n - sl.first)
  OBVIOUS
<1>2. StreamInv /\ BoundsInv /\ RowsInv /\ stream \in Seq(Header) /\ StartsNew(stream)
  BY DEF LayersInv, StreamInv, PoolInv, TypeOK, TaskPoolAssumption, SentOnce
<1>3. /\ k \in 0 .. Len(stream) /\ SliceAt(w) = sl /\ p = f.id
      /\ Bounded(k) => /\ f.rows = RowsAfter(stream, p, k)
                       /\ Counts(IF Failed(sl, n) THEN f.remaining ELSE left, p, k)
  <2>1. LET k_ == tasks[ctx[w].task].job
            f_ == frame[PicOf(w)]
            sl_ == stream[k_]
            p_ == sl_.pic
            left_ == f_.remaining - (ctx[w].row - sl_.first)
        IN  /\ k_ \in 0 .. Len(stream) /\ SliceAt(w) = sl_ /\ p_ = f_.id
            /\ Bounded(k_) => /\ f_.rows = RowsAfter(stream, p_, k_)
                              /\ Counts(IF Failed(sl_, ctx[w].row) THEN f_.remaining ELSE left_, p_, k_)
    BY <1>2, CountedSlice, Zenon
  <2>2. tasks[ctx[w].task].job = k /\ frame[PicOf(w)] = f /\ stream[k] = sl /\ sl.pic = p
        /\ ctx[w].row = n /\ f.remaining - (n - sl.first) = left
    BY <1>1
  <2> QED BY <2>1, <2>2
<1>4. f.rows = RowsAfter(stream, p, k) /\ Counts(0, p, k)
  <2>1. ~Failed(sl, n) /\ left = 0 BY <1>1, <1>3 DEF FailedAt
  <2>2. Bounded(k) BY DEF Bounded
  <2> QED BY <1>3, <2>1, <2>2, SMTT(25)
<1>5. RowsAfter(stream, p, k) \in [Row -> RowContent] BY <1>2, <1>3, RowsAfterType
<1>6. PICK c : c = Cardinality(UndecodedIn(RowsAfter(stream, p, k))) OBVIOUS
<1>7. c \in Nat /\ (c = 0 <=> \A r \in Row : RowsAfter(stream, p, k)[r] # Undecoded) BY <1>6, RowsCounted
<1>8. IF FailedBy(stream, p, k) THEN 0 > c ELSE 0 = c BY <1>4, <1>6 DEF Counts
<1>9. c = 0 /\ ~FailedBy(stream, p, k) BY <1>7, <1>8
<1>10. \A r \in Row : RowsAfter(stream, p, k)[r] = SingleThreaded(stream, p)[r]
  BY <1>2, <1>3, <1>7, <1>9, RowsFinal
<1>11. f.rows = SingleThreaded(stream, p)
  <2>1. SingleThreaded(stream, p) = [r \in Row |-> SingleThreaded(stream, p)[r]] BY DEF SingleThreaded
  <2>2. f.rows = [r \in Row |-> f.rows[r]] BY <1>4, <1>5
  <2> QED BY <1>4, <1>10, <2>1, <2>2
<1>12. Len(stream) \in Nat /\ k \in Nat /\ k <= Len(stream) /\ Len(stream) \in k .. Len(stream)
       /\ DOMAIN stream = 1 .. Len(stream)
  BY <1>2, <1>3
<1>13. \A j \in k + 1 .. Len(stream) : stream[j].pic # p
  <2>1. \A j \in DOMAIN stream : j > k => stream[j].pic # p BY <1>2, <1>3, <1>7, <1>9, NoneAfterWhole
  <2> QED BY <1>12, <2>1
<1>14. ~FailedBy(stream, p, Len(stream)) BY <1>9, <1>12, <1>13, FailedBySame
<1>15. RowsAfter(stream, p, Len(stream)) = RowsAfter(stream, p, k) BY <1>2, <1>3, <1>12, <1>13, RowsSame
<1>16. ~Damaged(stream, p) BY <1>2, <1>6, <1>9, <1>14, <1>15, DamagedIs
<1> QED BY <1>1, <1>3, <1>11, <1>16

(* A picture that is not complete, and that no task will write any more, is*)
(* damaged: its rows are those its slices leave.                           *)
LEMMA LostPicture ==
  ASSUME LayersInv, ppc # "closed", NEW s \in Slot, frame[s].id # 0,
         s \notin Complete \union Writing \union {currPic}
  PROVE  /\ frame[s].rows = RowsAfter(stream, frame[s].id, Len(stream))
         /\ Damaged(stream, frame[s].id)
<1>1. /\ PoolInv /\ TypeOK /\ PicturesInv /\ RowsReached /\ stream \in Seq(Header) /\ next \in 1 .. Len(stream) + 1
      /\ Len(stream) \in Nat /\ DOMAIN stream = 1 .. Len(stream)
  <2>1. stream \in Seq(Header) BY DEF LayersInv, StreamInv, PoolInv, TypeOK, TaskPoolAssumption
  <2> QED BY <2>1 DEF LayersInv, StreamInv, PoolInv, TypeOK, RowsInv
<1>2. \A t \in busy : tasks[t].pic # s BY DEF Writing
<1>3. JobsIn(s) = {} BY <1>2 DEF JobsIn, Uncounted
<1>4. Followed(s) BY DEF Followed, Complete, CompleteIn
<1>5. frame[s].remaining > 0 /\ \E n \in 0 .. NextJob - 1 : UpTo(s, n) BY <1>1, <1>4 DEF RowsReached, Reached
<1>6. PICK n \in 0 .. NextJob - 1 : UpTo(s, n) BY <1>5
<1>7. PICK p : p = frame[s].id OBVIOUS
<1>8. frame[s].rows = RowsAfter(stream, p, n)
  <2>1. \A w \in Worker : Goes(w) => PicOf(w) # s
    BY <1>1, <1>2, OneWriter, GoingDecodes DEF Goes, PicOf
  <2> QED BY <1>6, <1>7, <2>1 DEF UpTo
<1>9. {k \in n + 1 .. NextJob - 1 : stream[k].pic = p} = {} BY <1>3, <1>6, <1>7 DEF UpTo, Splits
<1>10. \A k \in DOMAIN stream : k >= NextJob => stream[k].pic # p BY <1>1, <1>7 DEF PicturesInv
<1>11. NextJob \in Nat /\ NextJob <= Len(stream) + 1
  <2>1. ppc = "created" => next <= Len(stream) BY <1>1 DEF PoolInv, ParserPrepared
  <2> QED BY <1>1, <2>1 DEF NextJob
<1>12. n \in 0 .. Len(stream) /\ Len(stream) \in n .. Len(stream) /\ n \in Nat /\ n <= Len(stream) BY <1>1, <1>11
<1>13. \A k \in n + 1 .. Len(stream) : stream[k].pic # p
  <2> SUFFICES ASSUME NEW k \in n + 1 .. Len(stream) PROVE stream[k].pic # p OBVIOUS
  <2>1. CASE k >= NextJob BY <1>1, <1>10, <1>12, <2>1
  <2>2. CASE ~(k >= NextJob)
    <3>1. k \in n + 1 .. NextJob - 1 BY <1>11, <1>12, <2>2
    <3> QED BY <1>9, <3>1
  <2> QED BY <2>1, <2>2
<1>14. RowsAfter(stream, p, Len(stream)) = RowsAfter(stream, p, n) BY <1>1, <1>12, <1>13, RowsSame
<1>15. FailedBy(stream, p, Len(stream)) <=> FailedBy(stream, p, n) BY <1>1, <1>12, <1>13, FailedBySame
<1>16. Damaged(stream, p)
  <2>1. PICK c : c = Cardinality(UndecodedIn(RowsAfter(stream, p, n))) OBVIOUS
  <2>2. ~FailedBy(stream, p, n) => frame[s].remaining = c BY <1>6, <1>7, <2>1 DEF UpTo, Counts
  <2>3. ~FailedBy(stream, p, n) => c # 0 BY <1>5, <2>2
  <2> QED BY <1>1, <1>14, <1>15, <2>1, <2>3, DamagedIs
<1> QED BY <1>7, <1>8, <1>14, <1>16

(* The base view of a picture is one its slices name, sent before them; it *)
(* has no base view itself.                                                *)
LEMMA BaseIs ==
  ASSUME NEW st \in Streams, BaseFirst(st), NEW p, BaseOf(st, p) # 0
  PROVE  /\ BaseOf(st, BaseOf(st, p)) = 0
         /\ \A j \in DOMAIN st : st[j].pic = p =>
              st[j].base = BaseOf(st, p) /\ \E i \in 1 .. j - 1 : st[i].pic = BaseOf(st, p)
<1>1. BaseOf(st, p) = ViewBase(st, p) /\ ViewBase(st, p) \in PicsOf(st) /\ ViewBase(st, p) # 0 BY DEF BaseOf
<1>2. p \in PicsOf(st) /\ ViewBase(st, p) = st[CHOOSE k \in DOMAIN st : st[k].pic = p].base BY <1>1 DEF ViewBase
<1>3. PICK k : k = CHOOSE k_ \in DOMAIN st : st[k_].pic = p OBVIOUS
<1>4. k \in DOMAIN st /\ st[k].pic = p
  <2>1. \E k_ \in DOMAIN st : st[k_].pic = p BY <1>2 DEF PicsOf
  <2> QED BY <1>3, <2>1
<1>5. st[k].base = BaseOf(st, p) BY <1>1, <1>2, <1>3
<1>6. ViewBase(st, BaseOf(st, p)) = 0 BY <1>4, <1>5, BaseViewsAssumption
<1>7. BaseOf(st, BaseOf(st, p)) = 0 BY <1>6 DEF BaseOf
<1>8. ASSUME NEW j \in DOMAIN st, st[j].pic = p
      PROVE  st[j].base = BaseOf(st, p) /\ \E i \in 1 .. j - 1 : st[i].pic = BaseOf(st, p)
  <2>1. st[j].base = BaseOf(st, p) BY <1>4, <1>5, <1>8 DEF BaseFirst
  <2>2. st[j].base \in PicsOf(st) BY <1>1, <2>1
  <2> QED BY <1>8, <2>1, <2>2 DEF BaseFirst
<1> QED BY <1>7, <1>8

(* A dependent view that is not complete finds its base view complete or   *)
(* still to be, but not being parsed.                                      *)
LEMMA BaseViewSlot ==
  ASSUME LayersInv, BaseViewsKept, ppc # "closed", NEW s \in Slot, frame[s].id # 0,
         s \notin Complete, s # currPic, BaseOf(stream, frame[s].id) # 0
  PROVE  \E b \in toGet : frame[b].id = BaseOf(stream, frame[s].id) /\ b # currPic
<1>1. PICK p, q : p = frame[s].id /\ q = BaseOf(stream, p) OBVIOUS
<1>2. /\ TypeOK /\ PicturesInv /\ ParsedPicture /\ stream \in Streams /\ BaseFirst(stream) /\ Contiguous(stream)
      /\ stream \in Seq(Header) /\ next \in 1 .. Len(stream) + 1 /\ Len(stream) \in Nat
      /\ DOMAIN stream = 1 .. Len(stream) /\ toGet \subseteq Slot
  <2>1. stream \in Seq(Header) /\ TypeOK
    BY DEF LayersInv, StreamInv, PoolInv, TypeOK, TaskPoolAssumption
  <2> QED BY <2>1 DEF LayersInv, StreamInv, SentOnce, PoolInv, TypeOK, BoundsInv
<1>3. PICK j \in 1 .. Parsed : stream[j].pic = p BY <1>1, <1>2 DEF PicturesInv
<1>4. Parsed \in Int /\ Parsed \in 0 .. Len(stream)
  <2>1. ppc \in {"create", "created"} => next <= Len(stream) BY DEF LayersInv, StreamInv, PoolInv, ParserPrepared
  <2> QED BY <1>2, <2>1 DEF Parsed
<1>5. j \in DOMAIN stream /\ j \in Int BY <1>2, <1>3, <1>4
<1>6. stream[j].base = q /\ \E i \in 1 .. j - 1 : stream[i].pic = q
  <2>1. BaseOf(stream, p) # 0 /\ BaseOf(stream, p) = q BY <1>1
  <2>2. \A m \in DOMAIN stream : stream[m].pic = p =>
          stream[m].base = BaseOf(stream, p) /\ \E i \in 1 .. m - 1 : stream[i].pic = BaseOf(stream, p)
    BY <1>2, <2>1, BaseIs, Zenon
  <2> QED BY <1>3, <1>5, <2>1, <2>2, Zenon
<1>7. PICK i \in 1 .. j - 1 : stream[i].pic = q BY <1>6
<1>8. i \in DOMAIN stream /\ i < j /\ i \in 1 .. Parsed BY <1>2, <1>3, <1>4, <1>5
<1>9. PICK b \in toGet : frame[b].id = q
  <2>1. \E s_ \in Slot : frame[s_].id = stream[j].pic /\ frame[s_].frontier # Inf
    BY <1>1, <1>3 DEF Complete, CompleteIn
  <2>2. \E i_ \in 1 .. Parsed : stream[i_].pic = stream[j].base BY <1>6, <1>7, <1>8
  <2> QED BY <1>5, <1>6, <2>1, <2>2 DEF BaseViewsKept
<1>10. b # currPic
  <2> SUFFICES ASSUME b = currPic PROVE FALSE OBVIOUS
  <2>1. currPic # None BY <1>2 DEF None, Slot
  <2>2. Parsed \in DOMAIN stream /\ stream[Parsed].pic = q BY <1>2, <1>9, <2>1 DEF ParsedPicture
  <2>3. stream[j].pic = q
    <3>1. CASE j = Parsed BY <2>2, <3>1
    <3>2. CASE j # Parsed
      <4>1. j < Parsed BY <1>3, <1>4, <1>5, <3>2
      <4> QED BY <1>2, <1>5, <1>7, <1>8, <2>2, <4>1 DEF Contiguous
    <3> QED BY <3>1, <3>2
  <2>4. frame[s].id = frame[b].id BY <1>1, <1>3, <1>9, <2>3
  <2>5. s = b BY <1>2, <2>4 DEF PicturesInv
  <2> QED BY <2>5
<1> QED BY <1>1, <1>9, <1>10

(* A picture is concealed as single-threaded decoding conceals it.         *)
LEMMA ConcealedRight ==
  ASSUME LayersInv, BaseViewsKept, ppc # "closed", NEW s \in Doomed
  PROVE  /\ ConcealedFrame(s).rows = SingleThreaded(stream, frame[s].id)
         /\ s \in Slot /\ Damaged(stream, frame[s].id)
<1>1. /\ TypeOK /\ PicturesInv /\ stream \in Streams /\ BaseFirst(stream) /\ toGet \subseteq Slot
  BY DEF LayersInv, StreamInv, SentOnce, PoolInv, TypeOK
<1>2. /\ s \in Slot /\ s \in Depended \union toGet \union refFrames
      /\ s \notin Complete /\ s \notin Writing /\ s # currPic
  BY <1>1, DoomedSlots
<1>3. frame[s].id # 0 BY <1>1, <1>2 DEF PicturesInv
<1>4. /\ frame[s].rows = RowsAfter(stream, frame[s].id, Len(stream))
      /\ Damaged(stream, frame[s].id)
  BY <1>2, <1>3, LostPicture
<1>5. PICK q : q = BaseOf(stream, frame[s].id) OBVIOUS
<1>6. PICK bases : bases = BaseSlots(s) \ ({currPic} \ Complete) OBVIOUS
<1>7. q = 0 => bases = {} BY <1>5, <1>6 DEF BaseSlots
<1>8. ASSUME q # 0 PROVE bases # {} /\ bases \intersect Writing \subseteq Complete
  <2>1. \E b \in toGet : frame[b].id = q /\ b # currPic BY <1>2, <1>3, <1>5, <1>8, BaseViewSlot
  <2>2. bases # {} BY <1>5, <1>6, <1>8, <2>1 DEF BaseSlots
  <2>3. s \in Concealable(Terminal)
    <3> SUFFICES ASSUME s \in BasesConcealedFor(Terminal) PROVE FALSE BY DEF Doomed
    <3>1. PICK u \in Terminal : s \in BaseSlots(u) BY DEF BasesConcealedFor
    <3>2. frame[s].id = BaseOf(stream, frame[u].id) BY <3>1 DEF BaseSlots
    <3>3. BaseOf(stream, frame[s].id) = 0 BY <1>1, <1>3, <3>2, BaseIs
    <3> QED BY <1>5, <1>8, <3>3
  <2>4. ~Postponed(s) BY <2>3 DEF Concealable
  <2>5. \A b \in BaseSlots(s) \ Complete : b \notin Writing BY <2>4, Zenon DEF Postponed
  <2> QED BY <1>6, <2>2, <2>5
<1>9. PICK fill : fill = IF bases \intersect Writing \subseteq Complete
                           THEN Concealment(IF bases = {} THEN 0 ELSE q) ELSE Undecoded
  OBVIOUS
<1>10. fill = Concealment(q) BY <1>7, <1>8, <1>9
<1>11. ConcealedFrame(s).rows = [r \in Row |-> IF frame[s].rows[r] = Undecoded THEN fill ELSE frame[s].rows[r]]
  <2>1. LET bases_ == BaseSlots(s) \ ({currPic} \ Complete)
            fill_ == IF bases_ \intersect Writing \subseteq Complete
                       THEN Concealment(IF bases_ = {} THEN 0 ELSE BaseOf(stream, frame[s].id))
                       ELSE Undecoded
        IN  ConcealedFrame(s).rows = [r \in Row |-> IF frame[s].rows[r] = Undecoded THEN fill_ ELSE frame[s].rows[r]]
    BY <1>1, <1>2, ConcealedSlot, Zenon
  <2> QED BY <1>5, <1>6, <1>9, <2>1
<1>12. SingleThreaded(stream, frame[s].id)
         = [r \in Row |-> IF frame[s].rows[r] = Undecoded THEN Concealment(q) ELSE frame[s].rows[r]]
  BY <1>4, <1>5 DEF SingleThreaded
<1> QED BY <1>2, <1>4, <1>10, <1>11, <1>12

GoingUncounted == \A w \in Worker : ctx[w].pc \in GoingPc => ctx[w].task \in Uncounted

LEMMA AreUncounted == PoolInv => GoingUncounted
BY UncountedTasks DEF GoingUncounted, Goes

LEMMA AreUncountedNext == PoolInv' => GoingUncounted'
BY AreUncounted, PTL

(* A worker that goes on with its slice after a step writes no complete    *)
(* picture.                                                                *)
LEMMA NotComplete ==
  ASSUME PoolInv', RowsInv', NEW w \in Worker, ctx'[w].pc \in GoingPc
  PROVE  frame'[tasks'[ctx'[w].task].pic].frontier # Inf
<1>1. ctx'[w].task \in Uncounted' BY AreUncountedNext DEF GoingUncounted
<1> QED BY <1>1 DEF RowsInv, WritersCurrent

(* What a step may do to the pictures: nothing but mark the lost ones,     *)
(* conceal those no task will complete, or write one that is not complete. *)
Outcome ==
  \/ FramesSame /\ flagged \subseteq flagged' /\ flagged' \subseteq flagged \union Terminal
  \/ Concealed
  \/ \E s \in Slot \ Complete :
       /\ \A u \in Slot \ {s} : SameFrame(frame[u], frame'[u])
       /\ frame'[s].id = frame[s].id
       /\ \/ flagged' = flagged
          \/ /\ flagged' = flagged \union {s} /\ frame'[s].frontier # Inf
             /\ ppc # "closed" => Damaged(stream, frame[s].id)
       /\ frame'[s].frontier = Inf => \/ ppc = "closed"
                                      \/ /\ frame'[s].rows = SingleThreaded(stream, frame[s].id)
                                         /\ ~Damaged(stream, frame[s].id)

(* A worker that writes its slot and goes on with its slice.               *)
LEMMA GoingOutcome ==
  ASSUME LayersInv, PoolInv', RowsInv', NEW w \in Worker, ctx[w].pc \in GoingPc, ctx'[w].pc \in GoingPc,
         ctx'[w].task = ctx[w].task, tasks' = tasks, NEW a, NEW b, NEW c, Stored(w, a, b, c),
         \/ flagged' = flagged
         \/ /\ flagged' = flagged \union {PicOf(w)}
            /\ ppc # "closed" => Damaged(stream, frame[PicOf(w)].id)
  PROVE  Outcome
<1>1. PoolInv /\ RowsInv BY DEF LayersInv, StreamInv
<1>2. PicOf(w) \in Slot BY <1>1, OneWriter, GoingDecodes
<1>3. frame[PicOf(w)].frontier # Inf
  <2>1. ctx[w].task \in Uncounted BY <1>1, UncountedTasks DEF Goes
  <2> QED BY <1>1, <2>1 DEF RowsInv, WritersCurrent, PicOf
<1>4. PicOf(w) \in Slot \ Complete BY <1>2, <1>3 DEF Complete, CompleteIn
<1>5. frame'[PicOf(w)].frontier # Inf BY NotComplete DEF PicOf
<1> QED BY <1>4, <1>5 DEF Stored, Outcome

(* A slice that ends in error damages its picture.                         *)
LEMMA PublishedOutcome ==
  ASSUME LayersInv, PoolInv', RowsInv', NEW w \in Worker, PublishSlice(w)
  PROVE  Outcome
<1>1. PICK t, k, sl, p, before, n, e :
        /\ t = ctx[w].task /\ k = tasks[t].job /\ sl = stream[k] /\ p = sl.pic
        /\ before = RowsAfter(stream, p, k - 1) /\ n = ctx[w].row /\ e = ctx[w].bound
  OBVIOUS
<1>2. /\ StreamInv /\ PoolInv /\ BoundsInv /\ RowsInv /\ ctx[w].pc = "parsed" /\ ctx[w].pc \in GoingPc
      /\ ctx[w].pc \in DecodePc
  BY DEF LayersInv, StreamInv, PublishSlice, GoingPc, MakingPc, DecodePc
<1>3. PICK a, b, keep, rows :
        /\ keep = KeepRow(SliceAt(w), ctx[w].row)
        /\ rows = [r \in Row |-> IF FailedAt(w) /\ r \in keep .. ctx[w].row - 1
                                   THEN Recovered(tasks[ctx[w].task].job) ELSE frame[PicOf(w)].rows[r]]
        /\ a = (IF InTurn(w) THEN keep ELSE frame[PicOf(w)].frontier) /\ b = frame[PicOf(w)].remaining
  OBVIOUS
<1>4. /\ Known(w) /\ PoolSame
      /\ flagged' = IF FailedAt(w) THEN flagged \union {PicOf(w)} ELSE flagged
      /\ Moved(w, "notifySlice", n, e) \/ Moved(w, "count", n, e)
      /\ Stored(w, a, b, rows)
  BY <1>1, <1>2, <1>3, PublishSliceEffect, Zenon
<1>5. /\ ctx'[w].pc \in {"notifySlice", "count"} /\ ctx'[w].row = n /\ ctx'[w].bound = e
      /\ ctx'[w].task = t /\ tasks' = tasks /\ stream' = stream
  BY <1>1, <1>4 DEF Moved, PoolSame
<1>6. ctx'[w].pc \in MadePc /\ ctx'[w].pc \in GoingPc BY <1>5 DEF MadePc, GoingPc
<1>7. t \in busy /\ t # held /\ e = tasks[t].bound /\ frame[PicOf(w)].id = p /\ SliceAt(w) = sl
      /\ k \in DOMAIN stream /\ stream \in Seq(Header)
  <2>1. WorkerOwns(ctx[w], tasks, busy, pending, held, stream) /\ ctx[w].bound # Unknown
    BY <1>2, <1>4 DEF PoolInv, WorkersOwn, Known
  <2>2. t \in busy /\ t # held BY <1>1, <1>2, <2>1 DEF WorkerOwns
  <2>3. ctx[w].bound = tasks[ctx[w].task].bound
    BY <1>2, <2>1 DEF BoundsInv, BoundsAcked, WithinBound
  <2>4. t \in Uncounted BY <1>1, <1>2, UncountedTasks DEF Goes
  <2>5. frame[tasks[t].pic].id = SliceOf(t).pic BY <1>2, <2>4 DEF RowsInv, WritersCurrent
  <2>6. k \in DOMAIN stream /\ stream \in Seq(Header)
    BY <1>1, <1>2, <2>2, BoundNumbers, Z3T(20) DEF PoolInv
  <2> QED BY <1>1, <2>2, <2>3, <2>5, <2>6 DEF PicOf, SliceAt, SliceOf
<1>8. n = StopRow(sl, e, before)
  <2>1. Working(ctx[w], k, frame[PicOf(w)])' BY <1>1, <1>5, <1>6 DEF RowsInv, AllWorking, Goes
  <2> QED BY <1>1, <1>5, <1>6, <2>1, Zenon DEF Working
<1>9. ppc # "closed" => e = BoundOf(stream, k)
  BY <1>1, <1>2, <1>7, Z3T(20) DEF BoundsInv, HeldIsLast, Bounded
<1>10. ASSUME FailedAt(w), ppc # "closed" PROVE Damaged(stream, frame[PicOf(w)].id)
  <2>1. Failed(sl, StopRow(sl, BoundOf(stream, k), before)) BY <1>1, <1>7, <1>8, <1>9, <1>10, Zenon DEF FailedAt
  <2> QED BY <1>1, <1>7, <2>1, Zenon DEF Damaged
<1>11. \/ flagged' = flagged
       \/ /\ flagged' = flagged \union {PicOf(w)}
          /\ ppc # "closed" => Damaged(stream, frame[PicOf(w)].id)
  BY <1>4, <1>10
<1> QED BY <1>1, <1>2, <1>4, <1>5, <1>6, <1>11, GoingOutcome

(* The slice that is counted may complete its picture.                     *)
LEMMA CountedOutcome ==
  ASSUME LayersInv, NEW w \in Worker, CountSlice(w), TypeOK'
  PROVE  Outcome
<1>1. PICK f, left, last :
        /\ f = frame[PicOf(w)] /\ left = f.remaining - (ctx[w].row - SliceAt(w).first)
        /\ last = (~FailedAt(w) /\ left = 0)
  OBVIOUS
<1>2. /\ StreamInv /\ PoolInv /\ RowsInv /\ ctx[w].pc = "count" /\ ctx[w].pc \in GoingPc /\ ctx[w].pc \in DecodePc
  BY DEF LayersInv, StreamInv, CountSlice, GoingPc, MadePc, DecodePc
<1>3. PicOf(w) \in Slot BY <1>2, OneWriter, SMTT(25)
<1>4. f.frontier # Inf
  <2>1. ctx[w].task \in Uncounted BY <1>2, UncountedTasks DEF Goes
  <2> QED BY <1>1, <1>2, <2>1 DEF RowsInv, WritersCurrent, PicOf
<1>5. /\ flagged' = flagged
      /\ Stored(w, IF last THEN Inf ELSE f.frontier, IF FailedAt(w) THEN f.remaining ELSE left, f.rows)
  BY <1>1, <1>2, CountSliceEffect, Zenon
<1>6. ASSUME last, ppc # "closed"
      PROVE  f.rows = SingleThreaded(stream, f.id) /\ ~Damaged(stream, f.id)
  BY <1>1, <1>2, <1>6, LastSlice
<1>7. PicOf(w) \in Slot \ Complete BY <1>1, <1>3, <1>4 DEF Complete, CompleteIn
<1>8. /\ \A u \in Slot \ {PicOf(w)} : SameFrame(frame[u], frame'[u])
      /\ frame'[PicOf(w)].id = f.id /\ frame'[PicOf(w)].rows = f.rows
      /\ frame'[PicOf(w)].frontier = Inf => last
  BY <1>1, <1>4, <1>5 DEF Stored
<1> QED BY <1>1, <1>5, <1>6, <1>7, <1>8 DEF Outcome

LEMMA WorkOutcome ==
  ASSUME LayersInv, PoolInv', RowsInv', NEW w \in Worker, Work(w)
  PROVE  Outcome
<1>1. PoolInv /\ TypeOK /\ TypeOK' BY DEF LayersInv, StreamInv, PoolInv
<1>2. FramesSame /\ flagged' = flagged => Outcome BY DEF Outcome
<1>3. ASSUME NEW pc, NEW row, NEW bound, NEW a, NEW b, NEW c, ctx[w].pc \in GoingPc, pc \in GoingPc,
             Moved(w, pc, row, bound), PoolSame, Stored(w, a, b, c), flagged' = flagged
      PROVE  Outcome
  BY <1>3, GoingOutcome DEF Moved, PoolSame
<1>4. "claim" \in GoingPc /\ "ref" \in GoingPc /\ "parsed" \in GoingPc /\ BackPc \subseteq GoingPc
      /\ "notifyRow" \in GoingPc
  BY DEF GoingPc, MakingPc
<1>5. CASE TakeTask(w)
  <2>1. frame' = frame /\ flagged' = flagged BY <1>1, <1>5, TakeTaskEffect
  <2> QED BY <1>2, <2>1 DEF FramesSame, SameFrame
<1>6. CASE LearnBound(w)
  <2>1. tasks[ctx[w].task] \in TaskRecord
    <3>1. ctx[w].pc \in DecodePc BY <1>6 DEF LearnBound, DecodePc
    <3>2. ctx[w].task \in busy /\ busy \subseteq Task BY <1>1, <3>1, OneWriter DEF TypeOK
    <3> QED BY <1>1, <3>2 DEF TypeOK
  <2>2. FramesSame /\ flagged' = flagged BY <1>1, <1>6, <2>1, LearnBoundEffect
  <2> QED BY <1>2, <2>2
<1>7. CASE ClaimRow(w)
  <2>1. PICK claim : claim = IF Stale(ctx[w].task) THEN Undecoded ELSE Decoded(tasks[ctx[w].task].job) OBVIOUS
  <2>2. /\ ctx[w].pc = "claim" /\ PoolSame /\ flagged' = flagged
        /\ \/ FramesSame
           \/ /\ Moved(w, "ref", ctx[w].row, ctx[w].bound)
              /\ Stored(w, frame[PicOf(w)].frontier, frame[PicOf(w)].remaining,
                        [frame[PicOf(w)].rows EXCEPT ![ctx[w].row] = claim])
    BY <1>1, <1>7, <2>1, ClaimRowEffect, Zenon
  <2> QED BY <1>2, <1>3, <1>4, <2>2
<1>8. CASE AwaitRow(w)
  <2>1. ReleaseTerminal(ctx, 0) \/ (FramesSame /\ flagged' = flagged \union Terminal)
    BY <1>1, <1>8, AwaitRowEffect
  <2>2. CASE ReleaseTerminal(ctx, 0) BY <1>1, <2>2, ConcealEffect DEF Outcome
  <2>3. CASE FramesSame /\ flagged' = flagged \union Terminal BY <2>3 DEF Outcome
  <2> QED BY <2>1, <2>2, <2>3
<1>9. CASE DecodeRow(w)
  <2>1. PICK row, after, first : row = ctx[w].row + 1 /\ after = AfterRow(w, row) /\ first = SliceAt(w).first OBVIOUS
  <2>2. after \in GoingPc BY <1>4, <2>1 DEF AfterRow
  <2>3. /\ ctx[w].pc = "ref" /\ PoolSame /\ flagged' = flagged
        /\ \/ /\ Moved(w, "notifyRow", row, ctx[w].bound) \/ Moved(w, after, row, ctx[w].bound)
              /\ Stored(w, Larger(first, row - Lag), frame[PicOf(w)].remaining, frame[PicOf(w)].rows)
           \/ FramesSame
    BY <1>1, <1>9, <2>1, DecodeRowEffect, Zenon
  <2> QED BY <1>2, <1>3, <1>4, <2>2, <2>3
<1>10. CASE AwaitBound(w)
  <2>1. FramesSame /\ flagged' = flagged BY <1>1, <1>10, AwaitBoundEffect
  <2> QED BY <1>2, <2>1
<1>11. CASE TakeBack(w)
  <2>1. PICK a, rows : a = (IF ctx[w].turn THEN SliceAt(w).first ELSE frame[PicOf(w)].frontier)
          /\ rows = [r \in Row |-> IF r \in SliceAt(w).first .. ctx[w].row - 1 THEN Undecoded ELSE frame[PicOf(w)].rows[r]]
    OBVIOUS
  <2>2. /\ ctx[w].pc = "parsed" /\ PoolSame /\ flagged' = flagged
        /\ Stored(w, a, frame[PicOf(w)].remaining, rows)
        /\ \E pc \in BackPc : Moved(w, pc, ctx[w].row, ctx[w].bound)
    BY <1>1, <1>11, <2>1, TakeBackEffect, Zenon
  <2> QED BY <1>3, <1>4, <2>2
<1>12. CASE Redo(w)
  <2>1. FramesSame /\ flagged' = flagged BY <1>1, <1>12, RedoEffect
  <2> QED BY <1>2, <2>1
<1>13. CASE PublishSlice(w) BY <1>13, PublishedOutcome
<1>14. CASE CountSlice(w) BY <1>1, <1>14, CountedOutcome
<1>15. CASE Notify(w)
  <2>1. FramesSame /\ flagged' = flagged BY <1>1, <1>15, NotifyEffect
  <2> QED BY <1>2, <2>1
<1>16. CASE Finish(w)
  <2>1. FramesSame /\ flagged' = flagged BY <1>1, <1>16, FinishEffect
  <2> QED BY <1>2, <2>1
<1>17. CASE FallAsleep(w) \/ Exit(w) \/ LeaveTask(w)
  <2>1. (FramesSame /\ flagged' = flagged) \/ Concealed BY <1>1, <1>17, IdleEffect
  <2> QED BY <1>2, <2>1 DEF Outcome
<1> QED BY <1>5, <1>6, <1>7, <1>8, <1>9, <1>10, <1>11, <1>12, <1>13, <1>14, <1>15, <1>16, <1>17, Zenon DEF Work

(* A complete picture is kept, and one marked as lost is damaged.          *)
LEMMA OutcomePromises ==
  ASSUME LayersInv, BaseViewsKept, FlaggedAreDamaged, SameAsSingleThreaded, FlaggedIfDamaged,
         Outcome, stream' = stream, ppc # "closed" \/ ppc' = "closed"
  PROVE  (FlaggedAreDamaged /\ SameAsSingleThreaded /\ FlaggedIfDamaged)'
<1>1. TypeOK /\ PicturesInv /\ flagged \subseteq Slot /\ toGet \subseteq Slot
  BY DEF LayersInv, StreamInv, PoolInv, TypeOK
<1>2. CASE ppc' = "closed" BY <1>2 DEF FlaggedAreDamaged, SameAsSingleThreaded, FlaggedIfDamaged
<1>3. CASE ppc' # "closed"
  <2>1. ppc # "closed" BY <1>3
  <2>2. ASSUME NEW s \in Terminal
        PROVE  s \in Slot /\ s \notin Complete /\ s \notin Writing /\ Damaged(stream, frame[s].id)
    <3>1. /\ s \in Depended \union toGet /\ s \in Slot
          /\ s \notin Complete \union Writing \union {currPic}
      BY <1>1, DoomedSlots, Zenon DEF Terminal
    <3>2. frame[s].id # 0 BY <1>1, <3>1 DEF PicturesInv
    <3> QED BY <2>1, <3>1, <3>2, LostPicture
  <2>3. ASSUME NEW s \in Slot
        PROVE  /\ s \in flagged' => Damaged(stream, frame'[s].id)
               /\ s \in Complete' => /\ frame'[s].rows = SingleThreaded(stream, frame'[s].id)
                                     /\ Damaged(stream, frame'[s].id) => s \in flagged'
    <3>1. /\ s \in flagged => Damaged(stream, frame[s].id)
          /\ s \in Complete => /\ frame[s].rows = SingleThreaded(stream, frame[s].id)
                               /\ Damaged(stream, frame[s].id) => s \in flagged
      BY <2>1 DEF FlaggedAreDamaged, SameAsSingleThreaded, FlaggedIfDamaged
    <3>2. s \in Complete <=> frame[s].frontier = Inf BY DEF Complete, CompleteIn
    <3>3. s \in Complete' <=> frame'[s].frontier = Inf BY DEF Complete, CompleteIn
    <3>4. CASE FramesSame /\ flagged \subseteq flagged' /\ flagged' \subseteq flagged \union Terminal
      <4>1. SameFrame(frame[s], frame'[s]) BY <3>4 DEF FramesSame
      <4>2. s \in flagged' => s \in flagged \/ s \in Terminal BY <3>4
      <4>3. s \in flagged => s \in flagged' BY <3>4
      <4> QED BY <2>2, <3>1, <3>2, <3>3, <4>1, <4>2, <4>3 DEF SameFrame
    <3>5. CASE Concealed
      <4>1. CASE s \in Doomed
        <5>1. frame'[s] = ConcealedFrame(s) /\ s \in flagged'
          BY <3>5, <4>1 DEF Concealed, Doomed, Concealable
        <5>2. frame'[s].id = frame[s].id BY <1>1, <5>1, ConcealedSlot
        <5>3. frame'[s].rows = SingleThreaded(stream, frame[s].id) /\ Damaged(stream, frame[s].id)
          BY <2>1, <4>1, <5>1, ConcealedRight
        <5> QED BY <5>1, <5>2, <5>3
      <4>2. CASE s \notin Doomed
        <5>1. frame'[s] = frame[s] BY <3>5, <4>2 DEF Concealed
        <5>2. s \in flagged' => s \in flagged \/ s \in Terminal BY <3>5, <4>2 DEF Concealed, Doomed
        <5>3. s \in flagged => s \in flagged' BY <3>5 DEF Concealed
        <5> QED BY <2>2, <3>1, <3>2, <3>3, <5>1, <5>2, <5>3
      <4> QED BY <4>1, <4>2
    <3>6. ASSUME NEW u \in Slot \ Complete,
                 \A v \in Slot \ {u} : SameFrame(frame[v], frame'[v]),
                 frame'[u].id = frame[u].id,
                 \/ flagged' = flagged
                 \/ /\ flagged' = flagged \union {u} /\ frame'[u].frontier # Inf
                    /\ ppc # "closed" => Damaged(stream, frame[u].id),
                 frame'[u].frontier = Inf => \/ ppc = "closed"
                                             \/ /\ frame'[u].rows = SingleThreaded(stream, frame[u].id)
                                                /\ ~Damaged(stream, frame[u].id)
          PROVE  /\ s \in flagged' => Damaged(stream, frame'[s].id)
                 /\ s \in Complete' => /\ frame'[s].rows = SingleThreaded(stream, frame'[s].id)
                                       /\ Damaged(stream, frame'[s].id) => s \in flagged'
      <4>1. CASE s = u
        <5>1. s \in flagged' => Damaged(stream, frame[s].id) BY <2>1, <3>1, <3>6, <4>1
        <5> QED BY <2>1, <3>3, <3>6, <4>1, <5>1
      <4>2. CASE s # u
        <5>1. SameFrame(frame[s], frame'[s]) /\ (s \in flagged' <=> s \in flagged) BY <3>6, <4>2
        <5> QED BY <3>1, <3>2, <3>3, <5>1 DEF SameFrame
      <4> QED BY <4>1, <4>2
    <3> QED BY <3>4, <3>5, <3>6, Zenon DEF Outcome
  <2>4. flagged' \subseteq Slot
    <3>1. Terminal \subseteq Slot /\ BasesConcealedFor(Terminal) \subseteq Slot
      BY <1>1, DoomedSlots DEF Doomed
    <3> QED BY <1>1, <3>1 DEF Outcome, Concealed
  <2>5. Complete' \subseteq Slot BY DEF Complete, CompleteIn
  <2>6. FlaggedAreDamaged' BY <2>3, <2>4 DEF FlaggedAreDamaged
  <2>7. SameAsSingleThreaded' BY <2>3, <2>5 DEF SameAsSingleThreaded
  <2>8. FlaggedIfDamaged' BY <2>3, <2>5 DEF FlaggedIfDamaged
  <2> QED BY <2>6, <2>7, <2>8
<1> QED BY <1>2, <1>3

(* A step that outputs nothing keeps the base views.                       *)
LEMMA BaseViewsSame ==
  ASSUME TypeOK, BaseViewsKept, IdsKept, UNCHANGED <<stream, toGet>>, ppc # "closed" \/ ppc' = "closed",
         NEW n, n = NextJob, n \in Int, NextJob' \in Int, NextJob' >= n,
         \A j \in 1 .. Parsed' : \E i \in 1 .. Parsed : stream[i].pic = stream[j].pic,
         \A s \in Slot : frame'[s].frontier # Inf => frame[s].frontier # Inf
  PROVE  BaseViewsKept'
<1> SUFFICES ASSUME ppc' # "closed", NEW k \in DOMAIN stream,
                    \E j \in 1 .. Parsed' : stream[j].pic = stream[k].base,
                    k >= NextJob' \/ \E s \in Slot : frame'[s].id = stream[k].pic /\ frame'[s].frontier # Inf
             PROVE  \E b \in toGet : frame'[b].id = stream[k].base
  BY DEF BaseViewsKept
<1>1. stream \in Seq(Header) /\ toGet \subseteq Slot BY DEF TypeOK, TaskPoolAssumption
<1>2. k \in Int BY <1>1
<1>3. k >= n \/ \E s \in Slot : frame[s].id = stream[k].pic /\ frame[s].frontier # Inf BY <1>2 DEF IdsKept
<1>4. \E j \in 1 .. Parsed : stream[j].pic = stream[k].base OBVIOUS
<1>5. \E b \in toGet : frame[b].id = stream[k].base BY <1>3, <1>4 DEF BaseViewsKept
<1> QED BY <1>1, <1>5 DEF IdsKept

LEMMA OutcomeKeeps ==
  ASSUME TypeOK, Outcome
  PROVE  IdsKept /\ \A s \in Slot : frame'[s].frontier # Inf => frame[s].frontier # Inf
<1>1. CASE FramesSame BY <1>1 DEF FramesSame, SameFrame, IdsKept
<1>2. CASE Concealed
  <2>1. IdsKept BY <1>2, IdsSame
  <2>2. ASSUME NEW s \in Slot, frame'[s].frontier # Inf PROVE frame[s].frontier # Inf
    <3>1. s \notin Doomed BY <1>2, <2>2, ConcealedSlot DEF Concealed
    <3> QED BY <1>2, <2>2, <3>1 DEF Concealed
  <2> QED BY <2>1, <2>2
<1>3. ASSUME NEW u \in Slot \ Complete, \A v \in Slot \ {u} : SameFrame(frame[v], frame'[v]),
             frame'[u].id = frame[u].id
      PROVE  IdsKept /\ \A s \in Slot : frame'[s].frontier # Inf => frame[s].frontier # Inf
  <2> SUFFICES ASSUME NEW s \in Slot
               PROVE  frame'[s].id = frame[s].id /\ (frame'[s].frontier # Inf => frame[s].frontier # Inf)
    BY DEF IdsKept
  <2>1. CASE s = u BY <1>3, <2>1 DEF Complete, CompleteIn
  <2>2. CASE s # u BY <1>3, <2>2 DEF SameFrame
  <2> QED BY <2>1, <2>2
<1> QED BY <1>1, <1>2, <1>3, Zenon DEF Outcome

Promises == BaseViewsKept /\ FlaggedAreDamaged /\ SameAsSingleThreaded /\ FlaggedIfDamaged

(* A new picture is its own base view's dependent only if that was sent.   *)
LEMMA AllocSlotPromises ==
  ASSUME LayersInv, Promises, AllocSlot
  PROVE  Promises'
<1>1. /\ PoolInv /\ TypeOK /\ PicturesInv /\ ParsedPicture /\ stream \in Seq(Header) /\ next \in 1 .. Len(stream) + 1
      /\ Len(stream) \in Nat /\ DOMAIN stream = 1 .. Len(stream) /\ BaseFirst(stream) /\ toGet \subseteq Slot
      /\ flagged \subseteq Slot /\ next \in Nat
  <2>1. stream \in Seq(Header) BY DEF LayersInv, StreamInv, PoolInv, TypeOK, TaskPoolAssumption
  <2>2. Len(stream) \in Nat BY <2>1
  <2>3. next \in 1 .. Len(stream) + 1 BY DEF LayersInv, StreamInv, PoolInv, TypeOK
  <2>4. next \in Nat BY <2>2, <2>3
  <2> QED BY <2>1, <2>2, <2>3, <2>4 DEF LayersInv, StreamInv, SentOnce, PoolInv, TypeOK, BoundsInv
<1>2. /\ ppc = "slot" /\ next' = next /\ stream' = stream
      /\ \/ UNCHANGED <<toGet, currPic>> /\ (Quieted \/ Conceals) /\ ppc' \in {"idle", "slot"}
         \/ \E s \in Slot \ Unavailable :
              /\ ppc' = "create" /\ currPic' = s /\ toGet' = toGet \union {s}
              /\ flagged' = flagged \ {s}
              /\ \A u \in Slot \ {s} : frame'[u] = frame[u]
              /\ frame'[s].id = Slice.pic /\ frame'[s].frontier = 0
  BY <1>1, AllocSlotEffect DEF PoolTasks
<1>3. ppc # "closed" /\ NextJob = next BY <1>2 DEF NextJob
<1>4. CASE UNCHANGED <<toGet, currPic>> /\ (Quieted \/ Conceals) /\ ppc' \in {"idle", "slot"}
  <2>1. Outcome BY <1>4 DEF Quieted, Conceals, Outcome
  <2>2. NextJob' = next /\ NextJob' >= next /\ Parsed' = Parsed BY <1>1, <1>2, <1>4 DEF NextJob, Parsed
  <2>3. (FlaggedAreDamaged /\ SameAsSingleThreaded /\ FlaggedIfDamaged)'
    BY <1>2, <1>3, <2>1, OutcomePromises DEF Promises
  <2>4. IdsKept /\ \A s \in Slot : frame'[s].frontier # Inf => frame[s].frontier # Inf BY <1>1, <2>1, OutcomeKeeps
  <2>5. BaseViewsKept' BY <1>1, <1>2, <1>3, <1>4, <2>2, <2>4, BaseViewsSame DEF Promises
  <2> QED BY <2>3, <2>5 DEF Promises
<1>5. ASSUME NEW s \in Slot \ Unavailable, ppc' = "create", currPic' = s, toGet' = toGet \union {s},
             flagged' = flagged \ {s}, \A u \in Slot \ {s} : frame'[u] = frame[u],
             frame'[s].id = Slice.pic, frame'[s].frontier = 0
      PROVE  Promises'
  <2>1. 0 # Inf BY DEF Inf
  <2>2. \A u \in Slot : u \in Complete' <=> u \in Complete /\ u # s BY <1>5, <2>1 DEF Complete, CompleteIn
  <2>3. Complete' \subseteq Slot BY DEF Complete, CompleteIn
  <2>4. FlaggedAreDamaged' BY <1>1, <1>2, <1>3, <1>5 DEF FlaggedAreDamaged, Promises
  <2>5. SameAsSingleThreaded' BY <1>2, <1>3, <1>5, <2>2, <2>3 DEF SameAsSingleThreaded, Promises
  <2>6. FlaggedIfDamaged' BY <1>2, <1>3, <1>5, <2>2, <2>3 DEF FlaggedIfDamaged, Promises
  <2>7. next \in DOMAIN stream /\ Slice = stream[next] /\ NextJob' = next /\ Parsed = next - 1 /\ Parsed' = next
    BY <1>1, <1>2, <1>5 DEF PoolInv, ParserPrepared, Slice, NextJob, Parsed
  <2>8. s \notin toGet BY <1>5 DEF Unavailable, Reserved
  <2>9. ASSUME NEW k \in DOMAIN stream, NEW j \in 1 .. next, stream[j].pic = stream[k].base,
               k >= next \/ \E u \in Slot : frame'[u].id = stream[k].pic /\ frame'[u].frontier # Inf
        PROVE  \E b \in toGet' : frame'[b].id = stream[k].base
    <3>1. CASE stream[k].base = Slice.pic BY <1>5, <3>1
    <3>2. CASE stream[k].base # Slice.pic
      <4>1. j \in 1 .. next - 1 BY <1>1, <2>7, <2>9, <3>2
      <4>2. k >= next \/ stream[k].pic = Slice.pic
              \/ \E u \in Slot : frame[u].id = stream[k].pic /\ frame[u].frontier # Inf
        BY <1>5, <2>9
      <4>3. PICK m \in DOMAIN stream : /\ stream[m].base = stream[k].base
                                       /\ m >= next \/ \E u \in Slot : frame[u].id = stream[m].pic /\ frame[u].frontier # Inf
        <5>1. CASE stream[k].pic = Slice.pic
          <6>1. stream[next].base = stream[k].base BY <1>1, <2>7, <5>1 DEF BaseFirst
          <6>2. next >= next BY <1>1
          <6> QED BY <2>7, <6>1, <6>2
        <5>2. CASE stream[k].pic # Slice.pic BY <4>2, <5>2
        <5> QED BY <5>1, <5>2
      <4>4. \E b \in toGet : frame[b].id = stream[m].base
        <5>1. \E i \in 1 .. Parsed : stream[i].pic = stream[m].base BY <2>7, <2>9, <4>1, <4>3
        <5> QED BY <1>3, <4>3, <5>1 DEF Promises, BaseViewsKept
      <4> QED BY <1>1, <1>5, <2>8, <4>3, <4>4
    <3> QED BY <3>1, <3>2
  <2>10. BaseViewsKept' BY <1>2, <2>7, <2>9 DEF BaseViewsKept
  <2> QED BY <2>4, <2>5, <2>6, <2>10 DEF Promises
<1> QED BY <1>2, <1>4, <1>5

(* An access unit is received whole, and a base view only with the views   *)
(* that depend on it.                                                      *)
LEMMA OutputPromises ==
  ASSUME LayersInv, Promises, NEW s \in Slot, Receive(s) \/ DropOrphan(s)
  PROVE  Promises'
<1>1. /\ PoolInv /\ TypeOK /\ PicturesInv /\ NoneToCome /\ stream \in Streams /\ stream \in Seq(Header)
      /\ toGet \subseteq Slot
  BY DEF LayersInv, StreamInv, PoolInv, TypeOK, TaskPoolAssumption, RowsInv
<1>2. /\ ppc = "idle" /\ ppc' = ppc /\ next' = next /\ stream' = stream /\ Quieted
      /\ toGet' \subseteq toGet
  BY <1>1, OutputEffect DEF PoolTasks
<1>3. Outcome BY <1>2 DEF Quieted, Outcome
<1>4. (FlaggedAreDamaged /\ SameAsSingleThreaded /\ FlaggedIfDamaged)'
  BY <1>2, <1>3, OutcomePromises DEF Promises
<1>5. NextJob' = NextJob /\ Parsed' = Parsed BY <1>2 DEF NextJob, Parsed
<1>6. \A u \in Slot : SameFrame(frame[u], frame'[u]) BY <1>2 DEF Quieted, FramesSame
<1>7. ASSUME NEW k \in DOMAIN stream, \E j \in 1 .. Parsed : stream[j].pic = stream[k].base,
             k >= NextJob \/ \E u \in Slot : frame[u].id = stream[k].pic /\ frame[u].frontier # Inf
      PROVE  \E b \in toGet' : frame[b].id = stream[k].base
  <2>1. PICK b \in toGet : frame[b].id = stream[k].base BY <1>2, <1>7 DEF Promises, BaseViewsKept
  <2>2. ViewBase(stream, frame[b].id) = 0 BY <1>1, <2>1, BaseViewsAssumption
  <2>3. CASE DropOrphan(s)
    <3>1. toGet' = toGet \ {s} /\ ViewBase(stream, frame[s].id) # 0 BY <2>3, Zenon DEF DropOrphan
    <3> QED BY <2>1, <2>2, <3>1
  <2>4. CASE Receive(s)
    <3>1. PICK unit : unit = {d \in toGet : d = s \/ BaseOf(stream, frame[d].id) = frame[s].id} OBVIOUS
    <3>2. /\ s \in toGet /\ unit \subseteq Complete /\ toGet' = toGet \ unit
          /\ \A m \in DOMAIN stream : stream[m].base = frame[s].id => \E d \in unit : frame[d].id = stream[m].pic
      BY <2>4, <3>1, Zenon DEF Receive
    <3>3. CASE b \notin unit BY <2>1, <3>2, <3>3
    <3>4. CASE b \in unit
      <4>1. b = s
        <5>1. BaseOf(stream, frame[b].id) = 0 BY <2>2 DEF BaseOf
        <5>2. frame[s].id # 0 BY <1>1, <3>2 DEF PicturesInv
        <5> QED BY <3>1, <3>4, <5>1, <5>2
      <4>2. PICK d \in unit : frame[d].id = stream[k].pic BY <2>1, <3>2, <4>1
      <4>3. d \in Complete /\ d \in Slot /\ frame[d].frontier = Inf /\ frame[d].id # 0
        <5>1. d \in toGet BY <3>1, <4>2
        <5> QED BY <1>1, <3>2, <4>2, <5>1 DEF Complete, CompleteIn, PicturesInv
      <4>4. ~(k >= NextJob) BY <1>1, <1>2, <4>2, <4>3 DEF NoneToCome
      <4>5. PICK u \in Slot : frame[u].id = stream[k].pic /\ frame[u].frontier # Inf BY <1>7, <4>4
      <4>6. u = d BY <1>1, <4>2, <4>3, <4>5 DEF PicturesInv
      <4> QED BY <4>3, <4>5, <4>6
    <3> QED BY <3>3, <3>4
  <2> QED BY <2>3, <2>4
<1>8. BaseViewsKept'
  <2> SUFFICES ASSUME NEW k \in DOMAIN stream, \E j \in 1 .. Parsed : stream[j].pic = stream[k].base,
                      k >= NextJob \/ \E u \in Slot : frame'[u].id = stream[k].pic /\ frame'[u].frontier # Inf
               PROVE  \E b \in toGet' : frame'[b].id = stream[k].base
    BY <1>2, <1>5 DEF BaseViewsKept
  <2>1. k >= NextJob \/ \E u \in Slot : frame[u].id = stream[k].pic /\ frame[u].frontier # Inf
    BY <1>6 DEF SameFrame
  <2>2. \E b \in toGet' : frame[b].id = stream[k].base BY <1>7, <2>1
  <2> QED BY <1>1, <1>2, <1>6, <2>2 DEF SameFrame
<1> QED BY <1>4, <1>8 DEF Promises

LEMMA PromisesInit ==
  ASSUME Init
  PROVE  Promises
<1>1. \A s \in Slot : frame[s].frontier = 0 BY DEF Init
<1>2. 0 # Inf BY DEF Inf
<1>3. Complete = {} BY <1>1, <1>2 DEF Complete, CompleteIn
<1>4. BaseViewsKept
  <2>1. 1 .. Parsed = {} BY DEF Init, Parsed
  <2> QED BY <2>1 DEF BaseViewsKept
<1> QED BY <1>3, <1>4 DEF Init, Promises, FlaggedAreDamaged, SameAsSingleThreaded, FlaggedIfDamaged

LEMMA PromisesNext ==
  ASSUME LayersInv, Promises, [Next]_vars
  PROVE  Promises'
<1>1. LayersInv' BY LayersNext
<1>2. /\ PoolInv /\ TypeOK /\ PoolInv' /\ RowsInv' /\ stream' = stream /\ NextJob \in Int /\ NextJob' \in Int
      /\ next \in Nat
  <2>1. PoolInv /\ PoolInv' /\ RowsInv' BY <1>1 DEF LayersInv, StreamInv
  <2>2. TypeOK /\ TypeOK' BY <2>1 DEF PoolInv
  <2>3. stream' = stream BY StreamNext DEF LayersInv
  <2>4. stream \in Seq(Header) BY <2>2 DEF TypeOK, TaskPoolAssumption
  <2>5. next \in 1 .. Len(stream) + 1 /\ next' \in 1 .. Len(stream) + 1 /\ Len(stream) \in Nat
    BY <2>2, <2>3, <2>4 DEF TypeOK
  <2>6. next \in Nat /\ next' \in Nat BY <2>5
  <2> QED BY <2>1, <2>2, <2>3, <2>6 DEF NextJob
<1>3. ASSUME Outcome, toGet' = toGet, ppc # "closed" \/ ppc' = "closed", NextJob' >= NextJob,
             \A j \in 1 .. Parsed' : \E i \in 1 .. Parsed : stream[i].pic = stream[j].pic
      PROVE  Promises'
  <2>1. (FlaggedAreDamaged /\ SameAsSingleThreaded /\ FlaggedIfDamaged)'
    BY <1>2, <1>3, OutcomePromises DEF Promises
  <2>2. IdsKept /\ \A s \in Slot : frame'[s].frontier # Inf => frame[s].frontier # Inf BY <1>2, <1>3, OutcomeKeeps
  <2>3. BaseViewsKept' BY <1>2, <1>3, <2>2, BaseViewsSame DEF Promises
  <2> QED BY <2>1, <2>3 DEF Promises
<1>4. ASSUME Quieted \/ Conceals, toGet' = toGet, ppc # "closed" \/ ppc' = "closed", NextJob' >= NextJob, Parsed' = Parsed
      PROVE  Promises'
  BY <1>3, <1>4 DEF Quieted, Conceals, Outcome
<1>5. ASSUME NEW w \in Worker, Work(w) PROVE Promises'
  <2>1. Outcome BY <1>2, <1>5, WorkOutcome
  <2>2. UNCHANGED <<next, toGet, ppc>> BY <1>2, <1>5, WorkerPoolIs DEF WorkerPool
  <2>3. NextJob' = NextJob /\ Parsed' = Parsed BY <2>2 DEF NextJob, Parsed
  <2> QED BY <1>2, <1>3, <2>1, <2>2, <2>3
<1>6. CASE SendSlice
  <2>1. Quieted /\ toGet' = toGet /\ ppc # "closed" /\ NextJob' = NextJob /\ Parsed' = Parsed
    BY <1>2, <1>6, SendSliceEffect DEF DpbSlots, NextJob, Parsed
  <2> QED BY <1>2, <1>4, <2>1
<1>7. CASE WaitTaskSlot
  <2>1. PICK changes : changes = (currPic # None /\ frame[currPic].id # Slice.pic) OBVIOUS
  <2>2. /\ ppc = "task" /\ next' = next /\ UNCHANGED DpbSlots
        /\ \/ Conceals /\ UNCHANGED <<tasks, held, ppc>>
           \/ Quieted /\ ppc' = IF changes THEN "settle" ELSE IF currPic = None THEN "start" ELSE "create"
    BY <1>2, <1>7, <2>1, WaitTaskSlotEffect, Zenon
  <2>3. /\ toGet' = toGet /\ ppc # "closed" /\ (Quieted \/ Conceals)
        /\ ppc' \in {"task", "settle", "start", "create"} /\ NextJob' = NextJob
        /\ ppc' = "create" => ~changes /\ currPic # None
    BY <2>2 DEF DpbSlots, NextJob
  <2>4. Outcome BY <2>3 DEF Quieted, Conceals, Outcome
  <2>5. ASSUME NEW j \in 1 .. Parsed' PROVE \E i \in 1 .. Parsed : stream[i].pic = stream[j].pic
    <3>1. CASE ppc' # "create"
      <4>1. Parsed' = Parsed BY <2>2, <2>3, <3>1 DEF Parsed
      <4> QED BY <2>5, <4>1
    <3>2. CASE ppc' = "create"
      <4>1. Parsed = next - 1 /\ Parsed' = next BY <2>2, <3>2 DEF Parsed
      <4>2. stream[next].pic = stream[Parsed].pic /\ Parsed \in DOMAIN stream
        BY <2>1, <2>3, <3>2 DEF LayersInv, BoundsInv, ParsedPicture, Slice
      <4>3. Parsed \in 1 .. Parsed
        <5>1. DOMAIN stream = 1 .. Len(stream) /\ Len(stream) \in Nat
          BY <1>2 DEF TypeOK, TaskPoolAssumption
        <5> QED BY <1>2, <4>1, <4>2, <5>1
      <4>4. j = next \/ j \in 1 .. Parsed BY <1>2, <2>5, <4>1
      <4> QED BY <4>2, <4>3, <4>4
    <3> QED BY <3>1, <3>2
  <2> QED BY <1>2, <1>3, <2>3, <2>4, <2>5
<1>8. CASE SettleBounds
  <2>1. /\ ppc \in {"settle", "endSettle"} /\ next' = next /\ toGet' = toGet /\ Quieted
        /\ ppc' \in {ppc, "start", "drain"}
    BY <1>2, <1>8, SettleBoundsEffect
  <2>2. NextJob' = NextJob /\ Parsed' = Parsed BY <2>1 DEF NextJob, Parsed
  <2> QED BY <1>2, <1>4, <2>1, <2>2
<1>9. CASE StartPicture
  <2>1. Conceals /\ toGet' = toGet /\ ppc # "closed" /\ NextJob' = NextJob /\ Parsed' = Parsed
    BY <1>2, <1>9, StartPictureEffect DEF DpbSlots, NextJob, Parsed
  <2> QED BY <1>2, <1>4, <2>1
<1>10. CASE AllocSlot BY <1>10, AllocSlotPromises
<1>11. CASE CreateTask
  <2>1. Quieted /\ toGet' = toGet /\ ppc = "create" /\ ppc' = "created" /\ next' = next
    BY <1>2, <1>11, CreateTaskEffect DEF DpbSlots
  <2>2. NextJob' >= NextJob /\ Parsed' = Parsed BY <1>2, <2>1 DEF NextJob, Parsed
  <2> QED BY <1>4, <2>1, <2>2
<1>12. CASE CreatedTask
  <2>1. (Quieted \/ Conceals) /\ toGet' = toGet /\ ppc = "created" /\ ppc' = "idle" /\ next' = next + 1
    BY <1>2, <1>12, CreatedTaskEffect DEF DpbSlots
  <2>2. NextJob' >= NextJob /\ Parsed' = Parsed BY <1>2, <2>1 DEF NextJob, Parsed
  <2> QED BY <1>4, <2>1, <2>2
<1>13. CASE SendEnd
  <2>1. Quieted /\ toGet' = toGet /\ ppc # "closed" /\ NextJob' = NextJob /\ Parsed' = Parsed
    BY <1>2, <1>13, SendEndEffect DEF DpbSlots, NextJob, Parsed
  <2> QED BY <1>2, <1>4, <2>1
<1>14. CASE Drain
  <2>1. Conceals /\ toGet' = toGet /\ ppc # "closed" /\ NextJob' = NextJob /\ Parsed' = Parsed
    BY <1>2, <1>14, DrainEffect DEF DpbSlots, NextJob, Parsed
  <2> QED BY <1>2, <1>4, <2>1
<1>15. ASSUME NEW s \in Slot, Receive(s) \/ DropOrphan(s) PROVE Promises' BY <1>15, OutputPromises
<1>16. CASE Close
  <2>1. Quieted /\ toGet' = toGet /\ ppc' = "closed" /\ NextJob' = NextJob /\ Parsed' = Parsed
    BY <1>2, <1>16, CloseEffect DEF DpbSlots, NextJob, Parsed
  <2> QED BY <1>2, <1>4, <2>1
<1>17. CASE UNCHANGED vars
  <2>1. Quieted /\ UNCHANGED <<toGet, next, ppc>> BY <1>2, <1>17, StutterEffect DEF PoolSame
  <2>2. NextJob' = NextJob /\ Parsed' = Parsed BY <2>1 DEF NextJob, Parsed
  <2> QED BY <1>2, <1>4, <2>1, <2>2
<1> QED BY <1>5, <1>6, <1>7, <1>8, <1>9, <1>10, <1>11, <1>12, <1>13, <1>14, <1>15, <1>16, <1>17,
           ZenonT(60) DEF Next, Parse, Call

(* For the streams the model is about, and any number of workers, tasks,   *)
(* slots and rows: the layers, and with them the promises, always hold.    *)
PicturesHold == LayersInv /\ Promises

LEMMA PicturesAlwaysHold ==
  Spec /\ ReadsWhatIsHeld(stream) /\ SentOnce(stream) => []PicturesHold
<1>1. Init /\ ReadsWhatIsHeld(stream) /\ SentOnce(stream) => PicturesHold
  BY LayersInit, PromisesInit DEF PicturesHold
<1>2. PicturesHold /\ [Next]_vars => PicturesHold' BY LayersNext, PromisesNext DEF PicturesHold
<1> QED BY <1>1, <1>2, PTL DEF Spec

(* A complete picture is the one single-threaded decoding produces, in any *)
(* order the workers run (edge264mvc.h: n_threads 1 is the reference), for *)
(* a stream whose slices read what the decoder may hold and that sends     *)
(* every picture once.                                                     *)
THEOREM PicturesAreSingleThreaded ==
  Spec /\ ReadsWhatIsHeld(stream) /\ SentOnce(stream) => []SameAsSingleThreaded
<1>1. PicturesHold => SameAsSingleThreaded BY DEF PicturesHold, Promises
<1> QED BY <1>1, PicturesAlwaysHold, PTL

(* A complete picture is marked as concealed exactly if single-threaded    *)
(* decoding of its slices leaves a row undecoded or meets an error.        *)
THEOREM FlagsAreRight ==
  Spec /\ ReadsWhatIsHeld(stream) /\ SentOnce(stream) => []FlaggedIfDamaged
<1>1. PicturesHold => FlaggedIfDamaged BY DEF PicturesHold, Promises
<1> QED BY <1>1, PicturesAlwaysHold, PTL

-----------------------------------------------------------------------------
(* The rows that are published.                                            *)

(* What a slice published before it ended is what it leaves, though it may *)
(* yet have to take back rows behind that.                                 *)
LEMMA PublishedRow ==
  ASSUME stream \in Seq(Header), NEW k \in DOMAIN stream, NEW c, NEW f, c.pc \in GoingPc,
         Working(c, k, f), c.row \in Nat, f.frontier \in Int,
         c.pc \in MakingPc => c.row <= BoundOf(stream, k),
         c.pc \in MadePc => c.bound = BoundOf(stream, k),
         NEW r \in Row, r < f.frontier, f.rows[r] # Undecoded
  PROVE  f.rows[r] = SingleThreaded(stream, stream[k].pic)[r]
<1>1. PICK sl, p, before, e, n, m :
        /\ sl = stream[k] /\ p = sl.pic /\ before = RowsAfter(stream, p, k - 1) /\ e = BoundOf(stream, k)
        /\ n = c.row /\ m = StopRow(sl, e, before)
  OBVIOUS
<1>2. /\ sl \in Header /\ k \in Nat /\ Len(stream) \in Nat /\ k \in 1 .. Len(stream)
      /\ k \in 0 .. Len(stream) /\ k - 1 \in 0 .. Len(stream)
  <2>1. sl \in Header /\ Len(stream) \in Nat /\ k \in 1 .. Len(stream) BY <1>1
  <2> QED BY <2>1
<1>3. sl.first \in Row /\ sl.last \in 1 .. Rows /\ sl.first < sl.last BY <1>2 DEF Header, Fields
<1>4. sl.first \in Nat /\ sl.last \in Nat /\ r \in Int /\ Lag \in {0, 1} /\ n \in Nat BY <1>1, <1>3 DEF Row
<1>5. before \in [Row -> RowContent] BY <1>1, <1>2, RowsAfterType
<1>6. e \in Int BY <1>1, BoundType DEF Inf
<1>7. m \in sl.first .. sl.last /\ (m = sl.last \/ m >= e \/ before[m] # Undecoded)
  BY <1>1, <1>2, <1>6, StopsAt, Zenon
<1>8. RowsAfter(stream, p, k) = Fill(sl, k, m, before)
  <2>1. LET p_ == stream[k].pic
            rows_ == RowsAfter(stream, p_, k - 1)
        IN  RowsAfter(stream, p_, k) = Fill(stream[k], k, StopRow(stream[k], BoundOf(stream, k), rows_), rows_)
    BY SliceFills, Zenon
  <2> QED BY <1>1, <2>1
<1>9. before[r] # Undecoded => before[r] = SingleThreaded(stream, p)[r] BY <1>1, <1>2, RowsFinal
<1>10. RowsAfter(stream, p, k)[r] # Undecoded => RowsAfter(stream, p, k)[r] = SingleThreaded(stream, p)[r]
  BY <1>2, RowsFinal
<1>11. CASE c.pc \in BackPc
  <2>1. f.rows = before BY <1>1, <1>11, Zenon DEF Working
  <2> QED BY <1>1, <1>9, <2>1
<1>12. CASE c.pc \in MadePc
  <2>1. n = StopRow(sl, c.bound, before) /\ f.rows = Fill(sl, k, n, before) BY <1>1, <1>12, Zenon DEF Working
  <2>2. c.bound = e BY <1>1, <1>12
  <2>3. n = m BY <1>1, <2>1, <2>2
  <2>4. f.rows = RowsAfter(stream, p, k) BY <1>8, <2>1, <2>3
  <2> QED BY <1>1, <1>10, <2>4
<1>13. CASE c.pc \in MakingPc
  <2>1. /\ f.rows = Adding(sl, k, Top(c), before) /\ n \in sl.first .. sl.last
        /\ \A x \in sl.first .. Top(c) - 1 : before[x] = Undecoded
        /\ c.turn <=> f.frontier >= sl.first
        /\ c.turn => f.frontier <= Larger(sl.first, n - Lag)
    BY <1>1, <1>13, Zenon DEF Working
  <2>2. n <= Top(c) /\ Top(c) \in Nat BY <1>1, <1>4 DEF Top
  <2>3. f.rows[r] = IF r \in sl.first .. Top(c) - 1 THEN Decoded(k) ELSE before[r] BY <2>1 DEF Adding
  <2>4. CASE r \in sl.first .. Top(c) - 1
    <3>1. f.frontier >= sl.first BY <1>4, <2>2, <2>4
    <3>2. f.frontier <= Larger(sl.first, n - Lag) BY <2>1, <3>1
    <3>3. n <= m
      <4> SUFFICES ASSUME m < n PROVE FALSE BY <1>4, <1>7
      <4>1. m \in sl.first .. Top(c) - 1 BY <1>4, <1>7, <2>2
      <4>2. before[m] = Undecoded BY <2>1, <4>1
      <4>3. m >= e \/ m = sl.last BY <1>7, <4>2
      <4>4. n <= e BY <1>1, <1>13
      <4> QED BY <1>4, <1>6, <1>7, <2>1, <4>3, <4>4
    <3>4. r < Larger(sl.first, m - Lag) BY <1>4, <1>7, <3>2, <3>3 DEF Larger
    <3>5. Larger(sl.first, m - Lag) <= KeepRow(sl, m) /\ KeepRow(sl, m) \in sl.first .. m
      BY <1>2, <1>7, KeptRows
    <3>6. r \in sl.first .. KeepRow(sl, m) - 1
      <4>1. Larger(sl.first, m - Lag) \in Int BY <1>4, <1>7 DEF Larger
      <4> QED BY <1>4, <1>7, <2>4, <3>4, <3>5, <4>1
    <3>7. Fill(sl, k, m, before)[r] = Decoded(k)
      <4>1. sl \in Header /\ k \in Nat /\ m \in sl.first .. sl.last BY <1>2, <1>7
      <4>2. \A x \in Row : x \in sl.first .. KeepRow(sl, m) - 1 => Fill(sl, k, m, before)[x] = Decoded(k)
        BY <1>5, <4>1, FilledRows
      <4> QED BY <3>6, <4>2, Zenon
    <3>8. f.rows[r] = RowsAfter(stream, p, k)[r] BY <1>8, <2>3, <2>4, <3>7
    <3> QED BY <1>1, <1>10, <3>8
  <2>5. CASE r \notin sl.first .. Top(c) - 1 BY <1>1, <1>9, <2>3, <2>5
  <2> QED BY <2>4, <2>5
<1> QED BY <1>11, <1>12, <1>13 DEF GoingPc

LEMMA ReaderRows ==
  ASSUME PicturesHold, ppc # "closed", NEW s \in Depended, NEW r \in Row, r < frame[s].frontier
  PROVE  frame[s].rows[r] = SingleThreaded(stream, frame[s].id)[r]
<1>1. /\ StreamInv /\ PoolInv /\ TypeOK /\ TasksOrdered /\ ParserPrepared /\ stream \in Seq(Header)
      /\ HeldIsLast /\ BoundsAcked /\ ParsedPicture /\ PicturesInv /\ RowsInv /\ RowsReached
      /\ SameAsSingleThreaded
  BY DEF PicturesHold, LayersInv, Promises, StreamInv, PoolInv, TypeOK, BoundsInv, RowsInv
<1>2. s \in Slot
  <2>1. PICK t \in busy : s \in tasks[t].deps BY DEF Depended
  <2>2. t \in Task /\ tasks[t] \in TaskRecord BY <1>1, <2>1 DEF TypeOK
  <2> QED BY <2>1, <2>2 DEF TaskRecord
<1>3. frame[s].id # 0 /\ s # currPic BY <1>1 DEF PicturesInv, ParsedPicture
<1>4. CASE frame[s].frontier = Inf
  <2>1. s \in Complete BY <1>2, <1>4 DEF Complete, CompleteIn
  <2> QED BY <1>1, <2>1 DEF SameAsSingleThreaded
<1>5. CASE frame[s].frontier # Inf
  <2>1. Followed(s) BY <1>3, <1>5 DEF Followed
  <2>2. Reached(s) BY <1>1, <1>2, <2>1 DEF RowsReached
  <2>3. frame[s].rows[r] # Undecoded BY <2>2 DEF Reached, BehindFrontier
  <2>4. PICK n \in 0 .. NextJob - 1 : UpTo(s, n) BY <2>2 DEF Reached
  <2>5. CASE \A w \in Worker : Goes(w) => PicOf(w) # s
    <3>1. frame[s].rows = RowsAfter(stream, frame[s].id, n) BY <2>4, <2>5 DEF UpTo
    <3>2. n \in 0 .. Len(stream)
      <4>1. Len(stream) \in Nat /\ next \in 1 .. Len(stream) + 1 BY <1>1 DEF TypeOK
      <4>2. NextJob \in Nat /\ NextJob - 1 <= Len(stream) BY <1>1, <4>1 DEF NextJob, ParserPrepared
      <4> QED BY <4>1, <4>2
    <3> QED BY <1>1, <2>3, <3>1, <3>2, RowsFinal
  <2>6. CASE \E w \in Worker : Goes(w) /\ PicOf(w) = s
    <3>1. PICK w \in Worker : Goes(w) /\ PicOf(w) = s BY <2>6
    <3>2. PICK t, k, c, f : t = ctx[w].task /\ k = tasks[t].job /\ c = ctx[w] /\ f = frame[s] OBVIOUS
    <3>3. t \in Uncounted /\ tasks[t].pic = s BY <1>1, <3>1, <3>2, UncountedTasks DEF PicOf
    <3>4. t \in busy /\ k \in DOMAIN stream /\ stream[k].pic = frame[s].id
      BY <1>1, <3>2, <3>3, TaskOfSlot, Z3T(20)
    <3>5. /\ c.pc \in DecodePc /\ Working(c, k, f) /\ c.row \in Nat /\ c.bound \in Nat /\ f.frontier \in Int
          /\ c.row \in stream[k].first .. stream[k].last
          /\ stream[k].first \in Nat /\ stream[k].last \in 1 .. Rows /\ Rows \in Nat
      BY <1>1, <3>1, <3>2, GoingTask
    <3>6. WorkerOwns(ctx[w], tasks, busy, pending, held, stream) /\ WithinBound(ctx[w], tasks, acked)
      BY <1>1, SMTT(25) DEF PoolInv, WorkersOwn, BoundsAcked
    <3>7. t \notin pending BY <3>2, <3>5, <3>6 DEF WorkerOwns
    <3>8. t # held
      <4>1. t \in Task BY <1>1, <3>4 DEF TypeOK
      <4>2. t # None BY <4>1, TaskPoolAssumption DEF None, Task
      <4>3. held # None => tasks[held].pic = currPic BY <1>1 DEF HeldIsLast
      <4> QED BY <1>3, <3>3, <4>2, <4>3
    <3>9. tasks[t].bound = BoundOf(stream, k)
      BY <1>1, <3>2, <3>4, <3>8 DEF HeldIsLast, Bounded
    <3>10. t \in acked \/ BoundOf(stream, k) = Inf BY <1>1, <1>3, <3>3, <3>4, <3>7, <3>9 DEF BoundsAcked
    <3>11. c.bound # Unknown => c.bound = BoundOf(stream, k)
      BY <3>2, <3>5, <3>6, <3>9 DEF WithinBound
    <3>12. c.pc \in MakingPc => c.row <= BoundOf(stream, k)
      <4>1. CASE t \in acked
        <5>1. Top(c) <= c.bound /\ c.bound = BoundOf(stream, k)
          BY <3>2, <3>5, <3>6, <3>11, <4>1 DEF WithinBound
        <5> QED BY <3>5, <5>1 DEF Top
      <4>2. CASE BoundOf(stream, k) = Inf BY <3>5, <4>2 DEF Inf
      <4> QED BY <3>10, <4>1, <4>2
    <3>13. c.pc \in MadePc => c.bound = BoundOf(stream, k)
      BY <3>2, <3>6, <3>11 DEF WorkerOwns, MadePc, EndPc
    <3>14. c.pc \in GoingPc BY <3>1, <3>2 DEF Goes
    <3>15. r < f.frontier /\ f.rows[r] # Undecoded BY <2>3, <3>2
    <3>16. f.rows[r] = SingleThreaded(stream, stream[k].pic)[r]
      BY <1>1, <3>4, <3>5, <3>12, <3>13, <3>14, <3>15, PublishedRow
    <3> QED BY <3>2, <3>4, <3>16
  <2> QED BY <2>5, <2>6
<1> QED BY <1>4, <1>5

(* A row that a task may read of another picture, complete or still being  *)
(* decoded, is what single-threaded decoding leaves there, though the      *)
(* slice that published it may not know yet where it ends.                 *)
THEOREM PublishedRowsAreFinal ==
  Spec /\ ReadsWhatIsHeld(stream) /\ SentOnce(stream) => []PublishedRowsFinal
<1>1. PicturesHold => PublishedRowsFinal
  <2> SUFFICES ASSUME PicturesHold, ppc # "closed", NEW t \in busy, NEW s \in tasks[t].deps, NEW r \in Row,
                      r < frame[s].frontier
               PROVE  frame[s].rows[r] = SingleThreaded(stream, frame[s].id)[r]
    BY DEF PublishedRowsFinal
  <2>1. s \in Depended BY SMTT(25) DEF Depended
  <2> QED BY <2>1, ReaderRows
<1> QED BY <1>1, PicturesAlwaysHold, PTL

(* A slice is decoded into a slot that still holds its picture: only a     *)
(* stream that sends a picture twice gives that slot away (stale_writer).  *)
THEOREM WritersStayCurrent ==
  Spec /\ ReadsWhatIsHeld(stream) /\ SentOnce(stream) => []NoStaleWriter
<1>1. PicturesHold => NoStaleWriter
  <2> SUFFICES ASSUME PicturesHold, NEW w \in Worker, ctx[w].pc \in DecodePc \ {"finish", "notifyDone"}
               PROVE  ~Stale(ctx[w].task)
    BY DEF NoStaleWriter
  <2>1. StreamInv /\ RowsInv BY DEF PicturesHold, LayersInv
  <2>2. Goes(w)
    BY DEF Goes, GoingPc, MakingPc, BackPc, MadePc, DecodePc, SleepPc, NotifyPc
  <2> QED BY <2>1, <2>2, GoingTask
<1> QED BY <1>1, PicturesAlwaysHold, PTL

-----------------------------------------------------------------------------
(* The frontiers that tasks wait on.                                       *)

Kept == \A s \in Depended : frame'[s].frontier >= frame[s].frontier

LEMMA FrontierRange ==
  ASSUME TypeOK, NEW s \in Slot
  PROVE  frame[s].frontier \in 0 .. Inf /\ frame[s].frontier \in Int /\ Inf \in Int
<1>1. frame[s].frontier \in 0 .. Inf BY DEF TypeOK, FrameRecord
<1> QED BY <1>1, SliceOrderAssumption DEF Inf

LEMMA FramesKept ==
  ASSUME TypeOK, FramesSame \/ Concealed
  PROVE  Kept
<1> SUFFICES ASSUME NEW s \in Depended PROVE frame'[s].frontier >= frame[s].frontier BY DEF Kept
<1>1. s \in Slot /\ frame[s].frontier \in 0 .. Inf /\ frame[s].frontier \in Int /\ Inf \in Int
  BY DependedSlots, FrontierRange
<1>2. CASE FramesSame BY <1>1, <1>2 DEF FramesSame, SameFrame
<1>3. CASE Concealed /\ s \in Doomed
  <2>1. frame'[s].frontier = Inf BY <1>1, <1>3, ConcealedSlot DEF Concealed
  <2> QED BY <1>1, <2>1
<1>4. CASE Concealed /\ s \notin Doomed BY <1>1, <1>4 DEF Concealed
<1> QED BY <1>2, <1>3, <1>4

(* What a worker stores in its slot raises the frontier, or nobody reads   *)
(* that slot.                                                              *)
LEMMA StoreKeeps ==
  ASSUME TypeOK, NEW w \in Worker, NEW a, NEW b, NEW c, Stored(w, a, b, c),
         PicOf(w) \in Depended => a >= frame[PicOf(w)].frontier
  PROVE  Kept
<1> SUFFICES ASSUME NEW s \in Depended PROVE frame'[s].frontier >= frame[s].frontier BY DEF Kept
<1>1. s \in Slot /\ frame[s].frontier \in Int BY DependedSlots, FrontierRange
<1>2. CASE s = PicOf(w) BY <1>2 DEF Stored
<1>3. CASE s # PicOf(w) BY <1>1, <1>3 DEF Stored, SameFrame
<1> QED BY <1>2, <1>3

(* A slice that a task waits on has acked its bound, so it is not past it. *)
LEMMA NoneTakesBack ==
  ASSUME PoolInv, BoundsInv, NEW w \in Worker, ctx[w].pc = "parsed", Overrun(w)
  PROVE  PicOf(w) \notin Depended
<1> SUFFICES ASSUME PicOf(w) \in Depended PROVE FALSE OBVIOUS
<1>1. PICK t : t = ctx[w].task OBVIOUS
<1>2. /\ WorkerOwns(ctx[w], tasks, busy, pending, held, stream) /\ WithinBound(ctx[w], tasks, acked)
      /\ ctx[w].pc \in DecodePc /\ ctx[w] \in Context /\ PicOf(w) # currPic
  BY DEF PoolInv, WorkersOwn, TypeOK, BoundsInv, BoundsAcked, ParsedPicture, DecodePc
<1>3. t \in busy /\ t \notin pending /\ tasks[t].pic # currPic BY <1>1, <1>2 DEF WorkerOwns, PicOf
<1>4. t \in acked \/ tasks[t].bound = Inf BY <1>3 DEF BoundsInv, BoundsAcked
<1>5. ctx[w].bound # Unknown /\ ctx[w].row > ctx[w].bound BY DEF Overrun, Known
<1>6. /\ ctx[w].row \in 0 .. Rows /\ Rows \in Nat /\ ctx[w].bound \in Int /\ ctx[w].row \in Int
  BY <1>2, SliceOrderAssumption DEF Context, Inf
<1>7. CASE t \in acked
  <2>1. Top(ctx[w]) <= ctx[w].bound BY <1>1, <1>2, <1>7 DEF WithinBound
  <2>2. Top(ctx[w]) = ctx[w].row BY <1>6 DEF Top
  <2> QED BY <1>5, <1>6, <2>1, <2>2
<1>8. CASE tasks[t].bound = Inf
  <2>1. ctx[w].bound = Inf BY <1>1, <1>2, <1>5, <1>8 DEF WithinBound
  <2> QED BY <1>5, <1>6, <2>1 DEF Inf
<1> QED BY <1>4, <1>7, <1>8

LEMMA WorkKeeps ==
  ASSUME LayersInv, TypeOK', NEW w \in Worker, Work(w)
  PROVE  Kept
<1>1. /\ StreamInv /\ PoolInv /\ TypeOK /\ BoundsInv /\ RowsInv
  BY DEF LayersInv, StreamInv, PoolInv
<1>2. PICK f : f = frame[PicOf(w)] OBVIOUS
<1>3. ASSUME ctx[w].pc \in DecodePc
      PROVE  f.frontier \in 0 .. Inf /\ f.frontier \in Int /\ Inf \in Int
  <2>1. PicOf(w) \in Slot BY <1>1, <1>3, OneWriter
  <2> QED BY <1>1, <1>2, <2>1, FrontierRange
<1>4. CASE TakeTask(w)
  <2>1. frame' = frame BY <1>1, <1>4, TakeTaskEffect
  <2> QED BY <1>1, <2>1, FramesKept DEF FramesSame, SameFrame
<1>5. CASE LearnBound(w)
  <2>1. tasks[ctx[w].task] \in TaskRecord
    <3>1. ctx[w].pc \in DecodePc BY <1>5 DEF LearnBound, DecodePc
    <3>2. ctx[w].task \in busy /\ busy \subseteq Task BY <1>1, <3>1, OneWriter DEF TypeOK
    <3> QED BY <1>1, <3>2 DEF TypeOK
  <2>2. FramesSame BY <1>1, <1>5, <2>1, LearnBoundEffect
  <2> QED BY <1>1, <2>2, FramesKept
<1>6. CASE ClaimRow(w)
  <2>1. PICK claim : claim = IF Stale(ctx[w].task) THEN Undecoded ELSE Decoded(tasks[ctx[w].task].job) OBVIOUS
  <2>2. /\ ctx[w].pc = "claim"
        /\ FramesSame \/ Stored(w, f.frontier, f.remaining, [f.rows EXCEPT ![ctx[w].row] = claim])
    BY <1>1, <1>2, <1>6, <2>1, ClaimRowEffect, Zenon
  <2>3. f.frontier >= f.frontier
    <3>1. f.frontier \in Int BY <1>3, <2>2 DEF DecodePc
    <3> QED BY <3>1
  <2> QED BY <1>1, <1>2, <2>2, <2>3, FramesKept, StoreKeeps
<1>7. CASE AwaitRow(w)
  <2>1. Concealed \/ FramesSame BY <1>1, <1>7, AwaitRowEffect, ConcealEffect
  <2> QED BY <1>1, <2>1, FramesKept
<1>8. CASE DecodeRow(w)
  <2>1. PICK row, first, a : row = ctx[w].row + 1 /\ first = SliceAt(w).first /\ a = Larger(first, row - Lag) OBVIOUS
  <2>2. /\ ctx[w].pc = "ref"
        /\ (ctx[w].turn /\ Stored(w, a, f.remaining, f.rows)) \/ FramesSame
    BY <1>1, <1>2, <1>8, <2>1, DecodeRowEffect, Zenon
  <2>3. ASSUME ctx[w].turn PROVE a >= f.frontier
    <3>1. Goes(w) /\ ctx[w].pc \in MakingPc BY <2>2 DEF Goes, GoingPc, MakingPc
    <3>2. /\ first \in Nat /\ Lag \in {0, 1} /\ f.frontier \in Int /\ ctx[w].row \in Nat
          /\ Working(ctx[w], tasks[ctx[w].task].job, f) /\ stream[tasks[ctx[w].task].job].first = first
      BY <1>1, <1>2, <2>1, <3>1, GoingTask, Z3T(20)
    <3>3. f.frontier <= Larger(first, ctx[w].row - Lag) BY <2>3, <3>1, <3>2, Zenon DEF Working
    <3> QED BY <2>1, <3>2, <3>3, Z3T(20) DEF Larger
  <2> QED BY <1>1, <1>2, <2>2, <2>3, FramesKept, StoreKeeps
<1>9. CASE AwaitBound(w)
  <2>1. FramesSame BY <1>1, <1>9, AwaitBoundEffect
  <2> QED BY <1>1, <2>1, FramesKept
<1>10. CASE TakeBack(w)
  <2>1. PICK a, rows : a = (IF ctx[w].turn THEN SliceAt(w).first ELSE frame[PicOf(w)].frontier)
          /\ rows = [r \in Row |-> IF r \in SliceAt(w).first .. ctx[w].row - 1 THEN Undecoded ELSE frame[PicOf(w)].rows[r]]
    OBVIOUS
  <2>2. /\ ctx[w].pc = "parsed" /\ Overrun(w) /\ Stored(w, a, frame[PicOf(w)].remaining, rows)
    BY <1>1, <1>10, <2>1, TakeBackEffect, Zenon
  <2>3. PicOf(w) \notin Depended BY <1>1, <2>2, NoneTakesBack
  <2> QED BY <1>1, <2>2, <2>3, StoreKeeps
<1>11. CASE Redo(w)
  <2>1. FramesSame BY <1>1, <1>11, RedoEffect
  <2> QED BY <1>1, <2>1, FramesKept
<1>12. CASE PublishSlice(w)
  <2>1. PICK keep, rows, a, n :
          /\ n = ctx[w].row /\ keep = KeepRow(SliceAt(w), n)
          /\ rows = [r \in Row |-> IF FailedAt(w) /\ r \in keep .. ctx[w].row - 1
                                     THEN Recovered(tasks[ctx[w].task].job) ELSE f.rows[r]]
          /\ a = IF InTurn(w) THEN keep ELSE f.frontier
    OBVIOUS
  <2>2. ctx[w].pc = "parsed" /\ Stored(w, a, f.remaining, rows)
    BY <1>1, <1>2, <1>12, <2>1, PublishSliceEffect, Zenon
  <2>3. a >= f.frontier
    <3>1. Goes(w) /\ ctx[w].pc \in MakingPc BY <2>2 DEF Goes, GoingPc, MakingPc
    <3>2. PICK sl : sl = SliceAt(w) OBVIOUS
    <3>3. /\ sl \in Header /\ sl.first \in Nat /\ sl.last \in Nat /\ Lag \in {0, 1} /\ f.frontier \in Int /\ n \in Nat
          /\ Working(ctx[w], tasks[ctx[w].task].job, f) /\ stream[tasks[ctx[w].task].job] = sl
          /\ n \in sl.first .. sl.last
      BY <1>1, <1>2, <2>1, <3>1, <3>2, GoingTask
    <3>4. CASE ~InTurn(w) BY <2>1, <3>3, <3>4
    <3>5. CASE InTurn(w)
      <4>1. f.frontier >= sl.first BY <1>2, <3>2, <3>3, <3>5 DEF InTurn
      <4>2. f.frontier <= Larger(sl.first, n - Lag) BY <2>1, <3>1, <3>3, <4>1 DEF Working
      <4>3. Larger(sl.first, n - Lag) <= keep /\ keep \in sl.first .. n BY <2>1, <3>2, <3>3, KeptRows
      <4>4. Larger(sl.first, n - Lag) \in Int BY <3>3 DEF Larger
      <4> QED BY <2>1, <3>3, <3>5, <4>2, <4>3, <4>4
    <3> QED BY <3>4, <3>5
  <2> QED BY <1>1, <1>2, <2>2, <2>3, StoreKeeps
<1>13. CASE CountSlice(w)
  <2>1. PICK left, last, a, b :
          /\ left = f.remaining - (ctx[w].row - SliceAt(w).first) /\ last = (~FailedAt(w) /\ left = 0)
          /\ a = (IF last THEN Inf ELSE f.frontier) /\ b = IF FailedAt(w) THEN f.remaining ELSE left
    OBVIOUS
  <2>2. ctx[w].pc = "count" /\ Stored(w, a, b, f.rows) BY <1>1, <1>2, <1>13, <2>1, CountSliceEffect, Zenon
  <2>3. f.frontier \in 0 .. Inf /\ f.frontier \in Int /\ Inf \in Int BY <1>3, <2>2 DEF DecodePc
  <2>4. a >= f.frontier BY <2>1, <2>3
  <2> QED BY <1>1, <1>2, <2>2, <2>4, StoreKeeps
<1>14. CASE Notify(w)
  <2>1. FramesSame BY <1>1, <1>14, NotifyEffect
  <2> QED BY <1>1, <2>1, FramesKept
<1>15. CASE Finish(w)
  <2>1. FramesSame BY <1>1, <1>15, FinishEffect
  <2> QED BY <1>1, <2>1, FramesKept
<1>16. CASE FallAsleep(w) \/ Exit(w) \/ LeaveTask(w)
  <2>1. FramesSame \/ Concealed BY <1>1, <1>16, IdleEffect
  <2> QED BY <1>1, <2>1, FramesKept
<1> QED BY <1>4, <1>5, <1>6, <1>7, <1>8, <1>9, <1>10, <1>11, <1>12, <1>13, <1>14, <1>15, <1>16, Zenon DEF Work

LEMMA FrontiersKept ==
  ASSUME LayersInv, LayersInv', [Next]_vars
  PROVE  Kept
<1>1. PoolInv /\ TypeOK /\ TypeOK' BY DEF LayersInv, StreamInv, PoolInv
<1>2. ASSUME Quieted \/ Conceals PROVE Kept BY <1>1, <1>2, FramesKept DEF Quieted, Conceals
<1>3. ASSUME NEW w \in Worker, Work(w) PROVE Kept BY <1>1, <1>3, WorkKeeps
<1>4. CASE SendSlice BY <1>1, <1>2, <1>4, SendSliceEffect
<1>5. CASE WaitTaskSlot BY <1>1, <1>2, <1>5, WaitTaskSlotEffect
<1>6. CASE SettleBounds BY <1>1, <1>2, <1>6, SettleBoundsEffect
<1>7. CASE StartPicture BY <1>1, <1>2, <1>7, StartPictureEffect
<1>8. CASE AllocSlot
  <2>1. (Quieted \/ Conceals) \/ \E s \in Slot \ Unavailable : \A u \in Slot \ {s} : frame'[u] = frame[u]
    BY <1>1, <1>8, AllocSlotEffect
  <2>2. ASSUME NEW s \in Slot \ Unavailable, \A u \in Slot \ {s} : frame'[u] = frame[u], NEW d \in Depended
        PROVE  frame'[d].frontier >= frame[d].frontier
    <3>1. d \in Slot \ {s} BY <1>1, <2>2, DependedSlots DEF Unavailable
    <3>2. frame[d].frontier \in Int BY <1>1, <3>1, FrontierRange
    <3> QED BY <2>2, <3>1, <3>2
  <2> QED BY <1>2, <2>1, <2>2 DEF Kept
<1>9. CASE CreateTask BY <1>1, <1>2, <1>9, CreateTaskEffect
<1>10. CASE CreatedTask BY <1>1, <1>2, <1>10, CreatedTaskEffect
<1>11. CASE SendEnd BY <1>1, <1>2, <1>11, SendEndEffect
<1>12. CASE Drain BY <1>1, <1>2, <1>12, DrainEffect
<1>13. ASSUME NEW s \in Slot, Receive(s) \/ DropOrphan(s) PROVE Kept BY <1>1, <1>2, <1>13, OutputEffect
<1>14. CASE Close BY <1>1, <1>2, <1>14, CloseEffect
<1>15. CASE UNCHANGED vars BY <1>1, <1>2, <1>15, StutterEffect
<1> QED BY <1>3, <1>4, <1>5, <1>6, <1>7, <1>8, <1>9, <1>10, <1>11, <1>12, <1>13, <1>14, <1>15,
           ZenonT(60) DEF Next, Parse, Call

(* What a task may read of a picture stays published: a frontier goes back,*)
(* or a slot to another picture, only while no task is to read it.         *)
THEOREM FrontiersKeptForReaders ==
  Spec /\ ReadsWhatIsHeld(stream) /\ SentOnce(stream) => FrontierKeptForReaders
<1>1. PicturesHold /\ PicturesHold' /\ [Next]_vars => [Kept]_vars BY FrontiersKept DEF PicturesHold
<1>2. [Kept]_vars => [\A s \in Depended : frame'[s].frontier >= frame[s].frontier]_vars BY DEF Kept
<1> QED BY <1>1, <1>2, PicturesAlwaysHold, PTL DEF Spec, FrontierKeptForReaders
=============================================================================
