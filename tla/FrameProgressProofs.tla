------------------------- MODULE FrameProgressProofs -------------------------
(***************************************************************************)
(* Proofs about FrameProgress, for any picture, slices and readers: its    *)
(* inductive invariant, which says that no wakeup is missed, and that it   *)
(* implements the safety part of SlotPromise.                              *)
(***************************************************************************)
EXTENDS FrameProgress, TLAPS

(* The constants, and the addresses made of them.                          *)
LEMMA Constants ==
  /\ Rows \in Nat \ {0} /\ Lag \in {0, 1} /\ N \in Nat \ {0}
  /\ First \in [Slice -> Row] /\ First[1] = 0
  /\ \A i \in Slice : i # N => i + 1 \in Slice /\ First[i] < First[i + 1]
  /\ Need \in [Reader -> 1 .. Rows]
  /\ Inf = Rows + 3 /\ Unknown = Rows + 2 /\ Row = 0 .. Rows - 1
  /\ "none" \notin Reader /\ "parser" \notin Reader
BY SliceOrderAssumption, FrameProgressAssumption DEF Slice, Inf, Unknown, Row

(* The end of a slice is after its start.                                  *)
LEMMA Ends ==
  ASSUME NEW i \in Slice
  PROVE  /\ First[i] \in 0 .. Rows - 1
         /\ BoundFor(i) \in 1 .. Rows \union {Inf} /\ Limit(i) \in 1 .. Rows
         /\ First[i] < Limit(i) /\ First[i] < BoundFor(i)
         /\ BoundFor(i) = Inf <=> i = N
         /\ i # N => BoundFor(i) = First[i + 1] /\ Limit(i) = First[i + 1]
         /\ i = N => Limit(i) = Rows
<1>1. CASE i = N BY <1>1, Constants DEF BoundFor, Limit
<1>2. CASE i # N
  <2>1. i + 1 \in Slice /\ First[i] < First[i + 1] /\ First[i] \in Row /\ First[i + 1] \in Row
    BY <1>2, Constants
  <2> QED BY <1>2, <2>1, Constants DEF BoundFor, Limit
<1> QED BY <1>1, <1>2

(* The frontier published after a row is one a later row publishes too.    *)
LEMMA Published ==
  ASSUME NEW f \in Nat, NEW row \in Nat, f <= row
  PROVE  /\ Larger(f, row - Lag) \in Nat /\ Larger(f, row - Lag) <= row
         /\ Larger(f, row - Lag) <= Larger(f, (row + 1) - Lag)
<1>1. CASE Lag = 0 BY <1>1 DEF Larger
<1>2. CASE Lag = 1 BY <1>2 DEF Larger
<1> QED BY <1>1, <1>2, SliceOrderAssumption

(* The initial states satisfy the invariant.                               *)
LEMMA InitInv == Init => ProgressInv
<1> SUFFICES ASSUME Init PROVE ProgressInv
  OBVIOUS
<1> USE Constants DEF Init
<1>1. TypeOK
  BY DEF TypeOK, Context, Slice, WorkerPc, Then, ParserPc, ReaderPc, Lowered
<1>2. BoundsGiven BY DEF BoundsGiven, Slice
<1>3. WorkerInBounds BY DEF WorkerInBounds, Phase, DecodePhase, k
<1>4. AcksHold /\ ReadersFollow BY DEF AcksHold, ReadersFollow, Phase
<1>5. LockHeld /\ AddressStays /\ NoMissedWakeup
  BY DEF LockHeld, AddressStays, NoMissedWakeup
<1> QED BY <1>1, <1>2, <1>3, <1>4, <1>5 DEF ProgressInv

(* What is known of the slice being decoded.                               *)
LEMMA Working ==
  ASSUME TypeOK, WorkerInBounds, worker.pc # "idle"
  PROVE  /\ Phase # "idle" /\ done \in Nat /\ made \in 0 .. N /\ done < made
         /\ k \in Slice /\ k = done + 1
         /\ First[k] \in 0 .. Rows - 1 /\ Limit(k) \in 1 .. Rows
         /\ BoundFor(k) \in 1 .. Rows \union {Inf}
         /\ First[k] < Limit(k) /\ First[k] < BoundFor(k)
         /\ worker.row \in First[k] .. Rows
         /\ BoundFor(k) = Inf <=> k = N
         /\ k # N => BoundFor(k) = First[k + 1] /\ Limit(k) = First[k + 1]
         /\ k = N => Limit(k) = Rows
<1>1. /\ Phase # "idle" /\ done \in Nat /\ made \in 0 .. N /\ done < made
      /\ k \in Slice /\ k = done + 1
  BY Constants DEF TypeOK, Context, WorkerInBounds, Phase, k, Slice, Then
<1>2. worker.row \in First[k] .. Rows
  BY <1>1, Ends, Constants DEF TypeOK, Context, WorkerInBounds
<1> QED BY <1>1, <1>2, Ends

(* A worker that is woken goes on if it was asleep.                        *)
LEMMA Awakened ==
  ASSUME NEW c, NEW d, d = c \/ d = AwakeWorker(c)
  PROVE  d = c \/ (c.pc = "boundSleep" /\ d = [c EXCEPT !.pc = "parsed"])
<1>1. CASE c.pc = "boundSleep" BY <1>1 DEF AwakeWorker
<1>2. CASE c.pc # "boundSleep" BY <1>2 DEF AwakeWorker
<1> QED BY <1>1, <1>2

(* Without an address nobody sleeps, so that a publisher who finds none    *)
(* leaves nobody asleep either.                                            *)
LEMMA WakesAll ==
  ASSUME ProgressInv, NEW c, c.pc # "boundSleep" \/ c = worker, WakeWaiters(c)
  PROVE  /\ worker' = AwakeWorker(c) /\ progress_wake_addr' = Inf
         /\ reader' = AwakeReaders /\ parser' = AwakeParser
<1>1. CASE progress_wake_addr = Inf
  <2>1. \A r \in Reader : reader[r] # "sleep"
    <3> SUFFICES ASSUME NEW r \in Reader, reader[r] = "sleep" PROVE FALSE
      OBVIOUS
    <3>1. progress_wake_addr <= Need[r] + 2 /\ Need[r] \in 1 .. Rows
      BY Constants DEF ProgressInv, NoMissedWakeup, WakeAt
    <3> QED BY <1>1, <3>1, Constants
  <2>2. parser # "settleSleep" /\ worker.pc # "boundSleep"
    BY <1>1, Constants DEF ProgressInv, NoMissedWakeup, Lowered
  <2>3. AwakeReaders = reader
    BY <2>1 DEF AwakeReaders, ProgressInv, TypeOK
  <2> QED BY <1>1, <2>2, <2>3 DEF WakeWaiters, AwakeParser, AwakeWorker
<1>2. CASE progress_wake_addr # Inf
  BY <1>2 DEF WakeWaiters
<1> QED BY <1>1, <1>2

(* Take keeps the invariant.                                               *)
LEMMA TakeInv ==
  ASSUME ProgressInv, Take
  PROVE  ProgressInv'
<1> USE Constants DEF ProgressInv, Take, sharedVars, taskVars, parserVars, readerVars
<1>0. k \in Slice /\ k = done + 1 /\ done \in Nat /\ made \in 0 .. N
  BY DEF TypeOK, k, Slice
<1>e. /\ First[k] \in 0 .. Rows /\ task_bounds[k] \in 1 .. Rows \union {Unknown, Inf}
      /\ First[k] < BoundFor(k) /\ First[k] < Limit(k)
      /\ task_bounds[k] \in {BoundFor(k), Unknown} /\ BoundFor(k) \in 1 .. Rows \union {Inf}
      /\ parser = "settled" => task_bounds[k] # Unknown
  BY <1>0, Ends, SMTT(30) DEF BoundsGiven, TypeOK
<1>p. Phase = "idle" /\ Phase' = "row" /\ next_deblock_addr = First[k]
  BY <1>0 DEF Phase, TypeOK, Context, WorkerInBounds
<1>1. TypeOK'
  <2>1. worker' \in Context
    BY <1>e DEF TypeOK, Context, WorkerPc
  <2>2. reader' \in [Reader -> ReaderPc] /\ seen' \in [Reader -> 0 .. Inf] /\ parser' \in ParserPc
    BY DEF TypeOK, ReaderPc, ParserPc
  <2>3. /\ next_deblock_addr' \in 0 .. Rows \union {Inf} /\ progress_wake_addr' \in Lowered .. Inf
        /\ lock' \in {"none", "parser"} \union Reader
    BY Working DEF TypeOK, Lowered, Larger, WakeAt
  <2>4. /\ task_bounds' \in [Slice -> 1 .. Rows \union {Unknown, Inf}] /\ acked' \subseteq Slice
        /\ made' \in 0 .. N /\ done' \in 0 .. made' /\ unsettled' \subseteq Slice
    BY Working, Ends DEF TypeOK, Slice, k
  <2> QED BY <2>1, <2>2, <2>3, <2>4 DEF TypeOK
<1>2. BoundsGiven'
  BY Ends DEF BoundsGiven, TypeOK, Slice
<1>3. WorkerInBounds'
  <2>1. /\ worker'.row = First[k] /\ worker'.bound = task_bounds[k] /\ k' = k
        /\ next_deblock_addr' = First[k] /\ task_bounds' = task_bounds
    BY <1>p DEF TypeOK, Context, k
  <2>2. next_deblock_addr' <= Larger(First[k], worker'.row - Lag)
    BY <1>e, <2>1 DEF Larger
  <2> QED BY <1>0, <1>e, <1>p, <2>1, <2>2 DEF WorkerInBounds, DecodePhase
<1>4. AcksHold'
  BY <1>0, <1>e, <1>p, SMTT(30) DEF AcksHold, Started, TypeOK, Context, k
<1>5. ReadersFollow'
  BY Working DEF ReadersFollow, WorkerInBounds, AcksHold, Phase, DecodePhase, BoundsGiven, Larger, TypeOK
<1>6. LockHeld' /\ AddressStays'
  BY DEF LockHeld, AddressStays, ReadersFollow, WakeAt, TypeOK
<1>7. NoMissedWakeup'
  BY DEF NoMissedWakeup, AddressStays, ReadersFollow, AcksHold, Started, LockHeld, Phase, Lowered, WakeAt, k, TypeOK
<1> QED BY <1>1, <1>2, <1>3, <1>4, <1>5, <1>6, <1>7

(* LearnBound keeps the invariant.                                         *)
LEMMA LearnBoundInv ==
  ASSUME ProgressInv, LearnBound
  PROVE  ProgressInv'
<1> USE Constants DEF ProgressInv, LearnBound, Learnt, sharedVars, taskVars, parserVars, readerVars
<1>1. TypeOK'
  <2>1. worker' \in Context
    BY Working DEF TypeOK, Context, WorkerPc, Then
  <2>2. reader' \in [Reader -> ReaderPc] /\ seen' \in [Reader -> 0 .. Inf] /\ parser' \in ParserPc
    BY DEF TypeOK, ReaderPc, ParserPc
  <2>3. /\ next_deblock_addr' \in 0 .. Rows \union {Inf} /\ progress_wake_addr' \in Lowered .. Inf
        /\ lock' \in {"none", "parser"} \union Reader
    BY Working DEF TypeOK, Lowered, Larger, WakeAt
  <2>4. /\ task_bounds' \in [Slice -> 1 .. Rows \union {Unknown, Inf}] /\ acked' \subseteq Slice
        /\ made' \in 0 .. N /\ done' \in 0 .. made' /\ unsettled' \subseteq Slice
    BY Working, Ends DEF TypeOK, Slice, k
  <2> QED BY <2>1, <2>2, <2>3, <2>4 DEF TypeOK
<1>2. BoundsGiven'
  BY Ends DEF BoundsGiven, TypeOK, Slice
<1>3. WorkerInBounds'
  BY Working, SMTT(30) DEF WorkerInBounds, BoundsGiven, DecodePhase, Phase, TypeOK, Context, k, Larger
<1>4. AcksHold'
  BY Working DEF AcksHold, Started, BoundsGiven, LockHeld, WorkerInBounds, Phase, TypeOK, Context, k
<1>5. ReadersFollow'
  BY Working DEF ReadersFollow, WorkerInBounds, AcksHold, Phase, DecodePhase, BoundsGiven, Larger, TypeOK
<1>6. LockHeld' /\ AddressStays'
  BY DEF LockHeld, AddressStays, ReadersFollow, WakeAt, TypeOK
<1>7. NoMissedWakeup'
  BY DEF NoMissedWakeup, AddressStays, ReadersFollow, AcksHold, Started, LockHeld, Phase, Lowered, WakeAt, k, TypeOK
<1> QED BY <1>1, <1>2, <1>3, <1>4, <1>5, <1>6, <1>7

(* A row that is decoded moves the frontier on.                            *)
LEMMA RowPublished ==
  ASSUME ProgressInv, DecodeRow
  PROVE  next_deblock_addr' \in 0 .. Rows /\ next_deblock_addr <= next_deblock_addr'
<1> USE Constants DEF ProgressInv, DecodeRow, Publish
<1> DEFINE addr == Larger(First[k], (worker.row + 1) - Lag)
<1>1. /\ Phase = "row" /\ worker.row \in First[k] .. Rows /\ worker.row + 1 <= Rows
      /\ First[k] \in 0 .. Rows - 1 /\ next_deblock_addr \in 0 .. Rows \union {Inf}
  BY Working DEF Phase, TypeOK
<1>2. next_deblock_addr <= Larger(First[k], worker.row - Lag)
  BY <1>1 DEF WorkerInBounds, DecodePhase
<1>0. First[k] \in Nat /\ worker.row \in Nat /\ First[k] <= worker.row
      /\ worker.row + 1 \in Nat /\ First[k] <= worker.row + 1
  BY <1>1, SMTT(30)
<1>3. Larger(First[k], (worker.row + 1) - Lag) \in Nat
      /\ Larger(First[k], (worker.row + 1) - Lag) <= worker.row + 1
  BY <1>0, Published
<1>4. Larger(First[k], worker.row - Lag) <= Larger(First[k], (worker.row + 1) - Lag)
      /\ Larger(First[k], worker.row - Lag) \in Nat
  BY <1>0, Published
<1>5. next_deblock_addr' = addr
  OBVIOUS
<1> QED BY <1>1, <1>2, <1>3, <1>4, <1>5, SMTT(30)

(* DecodeRow keeps the invariant.                                          *)
LEMMA DecodeRowInv ==
  ASSUME ProgressInv, DecodeRow
  PROVE  ProgressInv'
<1> USE Constants DEF ProgressInv, DecodeRow, Publish, sharedVars, taskVars, parserVars, readerVars
<1>r. worker.row + 1 \in 0 .. Rows
  BY DEF TypeOK, Context
<1>1. TypeOK'
  <2>1. worker' \in Context
    BY <1>r DEF TypeOK, Context, WorkerPc, Then
  <2>2. reader' \in [Reader -> ReaderPc] /\ seen' \in [Reader -> 0 .. Inf] /\ parser' \in ParserPc
    BY DEF TypeOK, ReaderPc, ParserPc
  <2>3. /\ next_deblock_addr' \in 0 .. Rows \union {Inf} /\ progress_wake_addr' \in Lowered .. Inf
        /\ lock' \in {"none", "parser"} \union Reader
    BY RowPublished DEF TypeOK, Lowered
  <2>4. /\ task_bounds' \in [Slice -> 1 .. Rows \union {Unknown, Inf}] /\ acked' \subseteq Slice
        /\ made' \in 0 .. N /\ done' \in 0 .. made' /\ unsettled' \subseteq Slice
    BY Working, Ends DEF TypeOK, Slice, k
  <2> QED BY <2>1, <2>2, <2>3, <2>4 DEF TypeOK
<1>2. BoundsGiven'
  BY Ends DEF BoundsGiven, TypeOK, Slice
<1>3. WorkerInBounds'
  <2>1. /\ Phase' = "row" /\ worker'.row = worker.row + 1 /\ worker'.bound = worker.bound /\ k' = k
        /\ next_deblock_addr' = Larger(First[k], worker'.row - Lag)
        /\ worker.bound \in 1 .. Rows \union {Unknown, Inf} /\ worker.row \in 0 .. Rows
    BY DEF Phase, TypeOK, Context, k
  <2>2. next_deblock_addr' <= Larger(First[k], worker'.row - Lag)
    BY RowPublished, <2>1
  <2>3. /\ Phase = "row" /\ done < made /\ First[k] <= worker.row /\ First[k] \in 0 .. Rows - 1
        /\ worker.bound # Unknown => worker.bound = task_bounds[k]
    BY Working DEF WorkerInBounds, Phase
  <2>4. done' < made' /\ First[k'] <= worker'.row /\ task_bounds' = task_bounds
    BY <2>1, <2>3
  <2>5. worker'.bound # Unknown => worker'.bound = task_bounds'[k'] /\ worker'.row <= worker'.bound
    BY <2>1, <2>3, <2>4
  <2> HIDE DEF DecodeRow, Publish, ProgressInv
  <2> QED BY <2>1, <2>2, <2>4, <2>5 DEF WorkerInBounds, DecodePhase
<1>4. AcksHold'
  BY Working DEF AcksHold, Started, BoundsGiven, LockHeld, WorkerInBounds, Phase, TypeOK, Context, k
<1>5. ReadersFollow'
  BY RowPublished, SMTT(30) DEF ReadersFollow, TypeOK
<1>6. LockHeld' /\ AddressStays'
  BY DEF LockHeld, AddressStays, ReadersFollow, WakeAt, TypeOK
<1>7. NoMissedWakeup'
  BY DEF NoMissedWakeup, AddressStays, ReadersFollow, AcksHold, Started, LockHeld, Phase, Lowered, WakeAt, k, TypeOK
<1> QED BY <1>1, <1>2, <1>3, <1>4, <1>5, <1>6, <1>7

(* EndOfData keeps the invariant.                                          *)
LEMMA EndOfDataInv ==
  ASSUME ProgressInv, EndOfData
  PROVE  ProgressInv'
<1> USE Constants DEF ProgressInv, EndOfData, sharedVars, taskVars, parserVars, readerVars
<1>1. TypeOK'
  <2>1. worker' \in Context
    BY Working DEF TypeOK, Context, WorkerPc, Then
  <2>2. reader' \in [Reader -> ReaderPc] /\ seen' \in [Reader -> 0 .. Inf] /\ parser' \in ParserPc
    BY DEF TypeOK, ReaderPc, ParserPc
  <2>3. /\ next_deblock_addr' \in 0 .. Rows \union {Inf} /\ progress_wake_addr' \in Lowered .. Inf
        /\ lock' \in {"none", "parser"} \union Reader
    BY Working DEF TypeOK, Lowered, Larger, WakeAt
  <2>4. /\ task_bounds' \in [Slice -> 1 .. Rows \union {Unknown, Inf}] /\ acked' \subseteq Slice
        /\ made' \in 0 .. N /\ done' \in 0 .. made' /\ unsettled' \subseteq Slice
    BY Working, Ends DEF TypeOK, Slice, k
  <2> QED BY <2>1, <2>2, <2>3, <2>4 DEF TypeOK
<1>2. BoundsGiven'
  BY Ends DEF BoundsGiven, TypeOK, Slice
<1>3. WorkerInBounds'
  BY Working DEF WorkerInBounds, BoundsGiven, DecodePhase, Phase, TypeOK, Context, k, Larger
<1>4. AcksHold'
  BY Working DEF AcksHold, Started, BoundsGiven, LockHeld, WorkerInBounds, Phase, TypeOK, Context, k
<1>5. ReadersFollow'
  BY Working DEF ReadersFollow, WorkerInBounds, AcksHold, Phase, DecodePhase, BoundsGiven, Larger, TypeOK
<1>6. LockHeld' /\ AddressStays'
  BY DEF LockHeld, AddressStays, ReadersFollow, WakeAt, TypeOK
<1>7. NoMissedWakeup'
  BY DEF NoMissedWakeup, AddressStays, ReadersFollow, AcksHold, Started, LockHeld, Phase, Lowered, WakeAt, k, TypeOK
<1> QED BY <1>1, <1>2, <1>3, <1>4, <1>5, <1>6, <1>7

(* AwaitBound keeps the invariant.                                         *)
LEMMA AwaitBoundInv ==
  ASSUME ProgressInv, AwaitBound
  PROVE  ProgressInv'
<1> USE Constants DEF ProgressInv, AwaitBound, Learnt, Lowered, Free, sharedVars, taskVars, parserVars, readerVars
<1>a. k' = k /\ Phase = "parsed"
  BY DEF k, Phase
<1>b. k \in Slice /\ worker.row \in First[k] .. Rows /\ First[k] \in 0 .. Rows
  BY Working
<1>0. /\ task_bounds[k] \in 1 .. Rows \union {Unknown, Inf} /\ k' = k /\ Phase = "parsed"
      /\ worker.row \in First[k] .. Rows /\ First[k] \in 0 .. Rows
  BY <1>a, <1>b DEF TypeOK
<1>1. CASE task_bounds[k] = Unknown
  <2>1. /\ worker' = [worker EXCEPT !.pc = "boundSleep"] /\ Phase' = "boundSleep"
        /\ worker' \in Context
    <3>1. worker' = [worker EXCEPT !.pc = "boundSleep"]
      BY <1>1
    <3>2. worker \in Context /\ "boundSleep" \in WorkerPc
      BY DEF TypeOK, WorkerPc
    <3>3. worker' \in Context /\ worker'.pc = "boundSleep"
      BY <3>1, <3>2 DEF Context
    <3> QED BY <3>1, <3>3 DEF Phase
  <2>2. TypeOK'
    BY <1>1, <2>1 DEF TypeOK
  <2>3. WorkerInBounds'
    BY <1>0, <1>1, <2>1 DEF WorkerInBounds, DecodePhase, TypeOK, Context
  <2>4. AcksHold'
    BY <1>0, <1>1, <2>1, Working DEF AcksHold, Started, TypeOK, Context
  <2>5. BoundsGiven' /\ ReadersFollow' /\ LockHeld' /\ AddressStays'
    BY <1>1 DEF BoundsGiven, ReadersFollow, LockHeld, AddressStays
  <2>6. NoMissedWakeup'
    BY <1>0, <1>1, <2>1 DEF NoMissedWakeup, WakeAt
  <2> QED BY <2>2, <2>3, <2>4, <2>5, <2>6
<1>2. CASE task_bounds[k] # Unknown
  <2>1. /\ worker' = [worker EXCEPT !.bound = task_bounds[k], !.pc = IF worker.row > task_bounds[k] THEN "overrun" ELSE "ack"]
        /\ worker' \in Context
        /\ Phase' = IF worker.row > task_bounds[k] THEN "overrun" ELSE "ack"
    <3>1. worker' = [worker EXCEPT !.bound = task_bounds[k], !.pc = IF worker.row > task_bounds[k] THEN "overrun" ELSE "ack"]
      BY <1>2
    <3>2. worker' \in Context
      BY <1>0, <3>1 DEF TypeOK, Context, WorkerPc
    <3> QED BY <3>1, <3>2 DEF TypeOK, Context, Phase
  <2>2. TypeOK'
    BY <1>2, <2>1 DEF TypeOK
  <2>3. WorkerInBounds'
    BY <1>0, <1>2, <2>1, SMTT(30) DEF WorkerInBounds, DecodePhase, TypeOK, Context
  <2>4. AcksHold'
    BY <1>0, <1>2, <2>1, Working DEF AcksHold, Started, TypeOK, Context
  <2>5. BoundsGiven' /\ ReadersFollow' /\ LockHeld' /\ AddressStays'
    BY <1>2 DEF BoundsGiven, ReadersFollow, LockHeld, AddressStays
  <2>6. NoMissedWakeup'
    BY <1>2, <2>1 DEF NoMissedWakeup, WakeAt
  <2> QED BY <2>2, <2>3, <2>4, <2>5, <2>6
<1> QED BY <1>1, <1>2

(* Overrun keeps the invariant.                                            *)
LEMMA OverrunInv ==
  ASSUME ProgressInv, Overrun
  PROVE  ProgressInv'
<1> USE Constants DEF ProgressInv, Overrun, Publish, Larger, sharedVars, taskVars, parserVars, readerVars
<1>0. First[k] \in 0 .. Rows /\ parser # "settled" /\ k' = k
  BY Working, SMTT(30) DEF AcksHold, WorkerInBounds, BoundsGiven, Phase, TypeOK, Context, k
<1>b. /\ k' = k /\ worker.bound = BoundFor(k) /\ First[k] < BoundFor(k) /\ First[k] \in 0 .. Rows - 1
      /\ BoundFor(k) \in 1 .. Rows \union {Inf}
  BY Working DEF WorkerInBounds, BoundsGiven, Phase, k
<1>1. TypeOK'
  <2>1. worker' \in Context
    BY <1>0 DEF TypeOK, Context, WorkerPc, Then
  <2>2. reader' \in [Reader -> ReaderPc] /\ seen' \in [Reader -> 0 .. Inf] /\ parser' \in ParserPc
    BY DEF TypeOK, ReaderPc, ParserPc
  <2>3. /\ next_deblock_addr' \in 0 .. Rows \union {Inf} /\ progress_wake_addr' \in Lowered .. Inf
        /\ lock' \in {"none", "parser"} \union Reader
    BY Working, SMTT(30) DEF TypeOK, Lowered, Larger, WakeAt
  <2>4. /\ task_bounds' \in [Slice -> 1 .. Rows \union {Unknown, Inf}] /\ acked' \subseteq Slice
        /\ made' \in 0 .. N /\ done' \in 0 .. made' /\ unsettled' \subseteq Slice
    BY Working, Ends DEF TypeOK, Slice, k
  <2> QED BY <2>1, <2>2, <2>3, <2>4 DEF TypeOK
<1>2. BoundsGiven'
  BY Ends DEF BoundsGiven, TypeOK, Slice
<1>3. WorkerInBounds'
  <2>1. Phase' = "ack" /\ worker'.row = First[k] /\ worker'.bound = worker.bound /\ worker'.pc # "idle"
    BY DEF Phase, TypeOK, Context
  <2>2. First[k] <= Larger(First[k], First[k] - Lag)
    BY <1>0 DEF Larger
  <2> QED BY <1>b, <2>1, <2>2, Working, SMTT(30) DEF WorkerInBounds, DecodePhase
<1>4. AcksHold'
  BY Working DEF AcksHold, Started, BoundsGiven, LockHeld, WorkerInBounds, Phase, TypeOK, Context, k
<1>5. ReadersFollow'
  BY <1>0 DEF ReadersFollow, TypeOK
<1>6. LockHeld' /\ AddressStays'
  BY DEF LockHeld, AddressStays, ReadersFollow, WakeAt, TypeOK
<1>7. NoMissedWakeup'
  BY DEF NoMissedWakeup, AddressStays, ReadersFollow, AcksHold, Started, LockHeld, Phase, Lowered, WakeAt, k, TypeOK
<1> QED BY <1>1, <1>2, <1>3, <1>4, <1>5, <1>6, <1>7

(* Ack keeps the invariant.                                                *)
LEMMA AckInv ==
  ASSUME ProgressInv, Ack
  PROVE  ProgressInv'
<1> USE Constants DEF ProgressInv, Ack, sharedVars, taskVars, parserVars, readerVars
<1>1. TypeOK'
  <2>1. worker' \in Context
    BY Working DEF TypeOK, Context, WorkerPc, Then
  <2>2. reader' \in [Reader -> ReaderPc] /\ seen' \in [Reader -> 0 .. Inf] /\ parser' \in ParserPc
    BY DEF TypeOK, ReaderPc, ParserPc
  <2>3. /\ next_deblock_addr' \in 0 .. Rows \union {Inf} /\ progress_wake_addr' \in Lowered .. Inf
        /\ lock' \in {"none", "parser"} \union Reader
    BY Working DEF TypeOK, Lowered, Larger, WakeAt
  <2>4. /\ task_bounds' \in [Slice -> 1 .. Rows \union {Unknown, Inf}] /\ acked' \subseteq Slice
        /\ made' \in 0 .. N /\ done' \in 0 .. made' /\ unsettled' \subseteq Slice
    BY Working, Ends DEF TypeOK, Slice, k
  <2> QED BY <2>1, <2>2, <2>3, <2>4 DEF TypeOK
<1>2. BoundsGiven'
  BY Ends DEF BoundsGiven, TypeOK, Slice
<1>3. WorkerInBounds'
  BY Working DEF WorkerInBounds, BoundsGiven, DecodePhase, Phase, TypeOK, Context, k, Larger
<1>4. AcksHold'
  BY Working DEF AcksHold, Started, BoundsGiven, LockHeld, WorkerInBounds, Phase, TypeOK, Context, k
<1>5. ReadersFollow'
  BY Working DEF ReadersFollow, WorkerInBounds, AcksHold, Phase, DecodePhase, BoundsGiven, Larger, TypeOK
<1>6. LockHeld' /\ AddressStays'
  BY DEF LockHeld, AddressStays, ReadersFollow, WakeAt, TypeOK
<1>7. NoMissedWakeup'
  BY DEF NoMissedWakeup, AddressStays, ReadersFollow, AcksHold, Started, LockHeld, Phase, Lowered, WakeAt, k, TypeOK
<1> QED BY <1>1, <1>2, <1>3, <1>4, <1>5, <1>6, <1>7

(* LoadWakeAddr keeps the invariant.                                       *)
LEMMA LoadWakeAddrInv ==
  ASSUME ProgressInv, LoadWakeAddr
  PROVE  ProgressInv'
<1> USE Constants DEF ProgressInv, LoadWakeAddr, MustWake, sharedVars, taskVars, parserVars, readerVars
<1>1. TypeOK'
  <2>1. worker' \in Context
    BY Working DEF TypeOK, Context, WorkerPc, Then
  <2>2. reader' \in [Reader -> ReaderPc] /\ seen' \in [Reader -> 0 .. Inf] /\ parser' \in ParserPc
    BY DEF TypeOK, ReaderPc, ParserPc
  <2>3. /\ next_deblock_addr' \in 0 .. Rows \union {Inf} /\ progress_wake_addr' \in Lowered .. Inf
        /\ lock' \in {"none", "parser"} \union Reader
    BY Working DEF TypeOK, Lowered, Larger, WakeAt
  <2>4. /\ task_bounds' \in [Slice -> 1 .. Rows \union {Unknown, Inf}] /\ acked' \subseteq Slice
        /\ made' \in 0 .. N /\ done' \in 0 .. made' /\ unsettled' \subseteq Slice
    BY Working, Ends DEF TypeOK, Slice, k
  <2> QED BY <2>1, <2>2, <2>3, <2>4 DEF TypeOK
<1>2. BoundsGiven'
  BY Ends DEF BoundsGiven, TypeOK, Slice
<1>3. WorkerInBounds'
  BY Working DEF WorkerInBounds, BoundsGiven, DecodePhase, Phase, TypeOK, Context, k, Larger
<1>4. AcksHold'
  BY Working DEF AcksHold, Started, BoundsGiven, LockHeld, WorkerInBounds, Phase, TypeOK, Context, k
<1>5. ReadersFollow'
  BY Working DEF ReadersFollow, WorkerInBounds, AcksHold, Phase, DecodePhase, BoundsGiven, Larger, TypeOK
<1>6. LockHeld' /\ AddressStays'
  BY DEF LockHeld, AddressStays, ReadersFollow, WakeAt, TypeOK
<1>7. NoMissedWakeup'
  <2>1. worker'.pc # "boundSleep"
    BY DEF TypeOK, Context, Then
  <2> QED BY <2>1, SMTT(30) DEF NoMissedWakeup, AddressStays, ReadersFollow, AcksHold, Started, LockHeld, Phase, Lowered, WakeAt, k, TypeOK
<1> QED BY <1>1, <1>2, <1>3, <1>4, <1>5, <1>6, <1>7

(* Notify keeps the invariant.                                             *)
LEMMA NotifyInv ==
  ASSUME ProgressInv, Notify
  PROVE  ProgressInv'
<1>0. /\ worker' = [worker EXCEPT !.pc = worker.then] /\ progress_wake_addr' = Inf
      /\ reader' = AwakeReaders /\ parser' = AwakeParser
      /\ worker.pc = "notify" /\ Free
      /\ UNCHANGED <<next_deblock_addr, lock, taskVars, unsettled, seen>>
  <2> DEFINE c == [worker EXCEPT !.pc = worker.then]
  <2>1. c.pc \in Then
    BY DEF ProgressInv, TypeOK, Context
  <2>2. c.pc # "boundSleep"
    BY <2>1 DEF Then
  <2>3. WakeWaiters(c)
    BY DEF Notify
  <2>4. AwakeWorker(c) = c
    BY <2>2 DEF AwakeWorker
  <2> HIDE DEF c
  <2>5. /\ worker' = c /\ progress_wake_addr' = Inf
        /\ reader' = AwakeReaders /\ parser' = AwakeParser
    BY <2>2, <2>3, <2>4, WakesAll
  <2> QED BY <2>5 DEF c, Notify
<1> USE Constants, <1>0 DEF ProgressInv, AwakeReaders, AwakeParser, Free, sharedVars, taskVars, parserVars, readerVars
<1>1. TypeOK'
  <2>1. worker' \in Context
    BY Working DEF TypeOK, Context, WorkerPc, Then
  <2>2. reader' \in [Reader -> ReaderPc] /\ seen' \in [Reader -> 0 .. Inf] /\ parser' \in ParserPc
    BY DEF TypeOK, ReaderPc, ParserPc
  <2>3. /\ next_deblock_addr' \in 0 .. Rows \union {Inf} /\ progress_wake_addr' \in Lowered .. Inf
        /\ lock' \in {"none", "parser"} \union Reader
    BY Working, SMTT(30) DEF TypeOK, Lowered, Larger, WakeAt
  <2>4. /\ task_bounds' \in [Slice -> 1 .. Rows \union {Unknown, Inf}] /\ acked' \subseteq Slice
        /\ made' \in 0 .. N /\ done' \in 0 .. made' /\ unsettled' \subseteq Slice
    BY Working, Ends DEF TypeOK, Slice, k
  <2> QED BY <2>1, <2>2, <2>3, <2>4 DEF TypeOK
<1>2. BoundsGiven'
  BY Ends DEF BoundsGiven, TypeOK, Slice
<1>3. WorkerInBounds'
  BY Working DEF WorkerInBounds, BoundsGiven, DecodePhase, Phase, TypeOK, Context, k, Larger
<1>4. AcksHold'
  BY Working DEF AcksHold, Started, BoundsGiven, LockHeld, WorkerInBounds, Phase, TypeOK, Context, k
<1>5. ReadersFollow'
  BY Working DEF ReadersFollow, WorkerInBounds, AcksHold, Phase, DecodePhase, BoundsGiven, Larger, TypeOK
<1>6. LockHeld' /\ AddressStays'
  BY DEF LockHeld, AddressStays, ReadersFollow, WakeAt, TypeOK
<1>7. NoMissedWakeup'
  <2>1. worker'.pc # "boundSleep"
    BY DEF TypeOK, Context, Then
  <2>2. \A r \in Reader : reader'[r] # "sleep"
    BY DEF TypeOK
  <2> QED BY <2>1, <2>2 DEF NoMissedWakeup
<1> QED BY <1>1, <1>2, <1>3, <1>4, <1>5, <1>6, <1>7

(* PublishSlice keeps the invariant.                                       *)
LEMMA PublishSliceInv ==
  ASSUME ProgressInv, PublishSlice
  PROVE  ProgressInv'
<1> USE Constants DEF ProgressInv, PublishSlice, Publish, sharedVars, taskVars, parserVars, readerVars
<1>1. TypeOK'
  <2>1. worker' \in Context
    BY Working DEF TypeOK, Context, WorkerPc, Then
  <2>2. reader' \in [Reader -> ReaderPc] /\ seen' \in [Reader -> 0 .. Inf] /\ parser' \in ParserPc
    BY DEF TypeOK, ReaderPc, ParserPc
  <2>3. /\ next_deblock_addr' \in 0 .. Rows \union {Inf} /\ progress_wake_addr' \in Lowered .. Inf
        /\ lock' \in {"none", "parser"} \union Reader
    BY Working, SMTT(30) DEF TypeOK, Lowered, Larger, WakeAt
  <2>4. /\ task_bounds' \in [Slice -> 1 .. Rows \union {Unknown, Inf}] /\ acked' \subseteq Slice
        /\ made' \in 0 .. N /\ done' \in 0 .. made' /\ unsettled' \subseteq Slice
    BY Working, Ends DEF TypeOK, Slice, k
  <2> QED BY <2>1, <2>2, <2>3, <2>4 DEF TypeOK
<1>2. BoundsGiven'
  BY Ends DEF BoundsGiven, TypeOK, Slice
<1>3. WorkerInBounds'
  BY Working, SMTT(30) DEF WorkerInBounds, BoundsGiven, DecodePhase, Phase, TypeOK, Context, k, Larger
<1>4. AcksHold'
  BY Working DEF AcksHold, Started, BoundsGiven, LockHeld, WorkerInBounds, Phase, TypeOK, Context, k
<1>5. ReadersFollow'
  <2>1. next_deblock_addr <= worker.row
    <3>1. Phase = "parsed" /\ worker.row \in First[k] .. Rows /\ First[k] \in 0 .. Rows - 1
      BY Working DEF Phase
    <3>2. next_deblock_addr <= Larger(First[k], worker.row - Lag)
      BY <3>1 DEF WorkerInBounds, DecodePhase
    <3>3. Larger(First[k], worker.row - Lag) \in Nat /\ Larger(First[k], worker.row - Lag) <= worker.row
      <4>1. First[k] \in Nat /\ worker.row \in Nat /\ First[k] <= worker.row
        BY <3>1
      <4> QED BY <4>1, Published
    <3> QED BY <3>1, <3>2, <3>3 DEF TypeOK
  <2> QED BY <2>1 DEF ReadersFollow, TypeOK, Context
<1>6. LockHeld' /\ AddressStays'
  BY DEF LockHeld, AddressStays, ReadersFollow, WakeAt, TypeOK
<1>7. NoMissedWakeup'
  BY DEF NoMissedWakeup, AddressStays, ReadersFollow, AcksHold, Started, LockHeld, Phase, Lowered, WakeAt, k, TypeOK
<1> QED BY <1>1, <1>2, <1>3, <1>4, <1>5, <1>6, <1>7

(* Complete keeps the invariant.                                           *)
LEMMA CompleteInv ==
  ASSUME ProgressInv, Complete
  PROVE  ProgressInv'
<1> USE Constants DEF ProgressInv, Complete, Publish, sharedVars, taskVars, parserVars, readerVars
<1>1. TypeOK'
  <2>1. worker' \in Context
    BY Working DEF TypeOK, Context, WorkerPc, Then
  <2>2. reader' \in [Reader -> ReaderPc] /\ seen' \in [Reader -> 0 .. Inf] /\ parser' \in ParserPc
    BY DEF TypeOK, ReaderPc, ParserPc
  <2>3. /\ next_deblock_addr' \in 0 .. Rows \union {Inf} /\ progress_wake_addr' \in Lowered .. Inf
        /\ lock' \in {"none", "parser"} \union Reader
    BY Working DEF TypeOK, Lowered, Larger, WakeAt
  <2>4. /\ task_bounds' \in [Slice -> 1 .. Rows \union {Unknown, Inf}] /\ acked' \subseteq Slice
        /\ made' \in 0 .. N /\ done' \in 0 .. made' /\ unsettled' \subseteq Slice
    BY Working, Ends DEF TypeOK, Slice, k
  <2> QED BY <2>1, <2>2, <2>3, <2>4 DEF TypeOK
<1>2. BoundsGiven'
  BY Ends DEF BoundsGiven, TypeOK, Slice
<1>3. WorkerInBounds'
  <2>1. Phase = "last" /\ Phase' = "finish" /\ k = N /\ BoundFor(k) = Inf
    BY Working DEF Phase, WorkerInBounds, TypeOK, Context
  <2> QED BY <2>1, Working DEF WorkerInBounds, DecodePhase, TypeOK, Context, k, Phase
<1>4. AcksHold'
  BY Working DEF AcksHold, Started, BoundsGiven, LockHeld, WorkerInBounds, Phase, TypeOK, Context, k
<1>5. ReadersFollow'
  BY Working DEF ReadersFollow, WorkerInBounds, AcksHold, Phase, DecodePhase, BoundsGiven, Larger, TypeOK
<1>6. LockHeld' /\ AddressStays'
  BY DEF LockHeld, AddressStays, ReadersFollow, WakeAt, TypeOK
<1>7. NoMissedWakeup'
  BY DEF NoMissedWakeup, AddressStays, ReadersFollow, AcksHold, Started, LockHeld, Phase, Lowered, WakeAt, k, TypeOK
<1> QED BY <1>1, <1>2, <1>3, <1>4, <1>5, <1>6, <1>7

(* Finish keeps the invariant.                                             *)
LEMMA FinishInv ==
  ASSUME ProgressInv, Finish
  PROVE  ProgressInv'
<1>0. /\ worker' = [worker EXCEPT !.pc = "idle"] /\ progress_wake_addr' = Inf
      /\ reader' = AwakeReaders /\ parser' = AwakeParser
      /\ worker.pc = "finish" /\ Free /\ done' = k
      /\ UNCHANGED <<next_deblock_addr, lock, task_bounds, acked, made, unsettled, seen>>
  <2> DEFINE c == [worker EXCEPT !.pc = "idle"]
  <2>1. c.pc = "idle"
    BY DEF ProgressInv, TypeOK, Context
  <2>2. WakeWaiters(c)
    BY DEF Finish
  <2>3. AwakeWorker(c) = c
    BY <2>1 DEF AwakeWorker
  <2> HIDE DEF c
  <2>4. /\ worker' = c /\ progress_wake_addr' = Inf
        /\ reader' = AwakeReaders /\ parser' = AwakeParser
    BY <2>1, <2>2, <2>3, WakesAll
  <2> QED BY <2>4 DEF c, Finish
<1> USE Constants, <1>0 DEF ProgressInv, AwakeReaders, AwakeParser, Free, sharedVars, taskVars, parserVars, readerVars
<1>1. TypeOK'
  <2>1. worker' \in Context
    BY Working DEF TypeOK, Context, WorkerPc, Then
  <2>2. reader' \in [Reader -> ReaderPc] /\ seen' \in [Reader -> 0 .. Inf] /\ parser' \in ParserPc
    BY DEF TypeOK, ReaderPc, ParserPc
  <2>3. /\ next_deblock_addr' \in 0 .. Rows \union {Inf} /\ progress_wake_addr' \in Lowered .. Inf
        /\ lock' \in {"none", "parser"} \union Reader
    BY Working, SMTT(30) DEF TypeOK, Lowered, Larger, WakeAt
  <2>4. /\ task_bounds' \in [Slice -> 1 .. Rows \union {Unknown, Inf}] /\ acked' \subseteq Slice
        /\ made' \in 0 .. N /\ done' \in 0 .. made' /\ unsettled' \subseteq Slice
    <3>1. done' = done + 1 /\ made' = made /\ made \in 0 .. N /\ done \in Nat /\ done < made
      BY Working DEF k
    <3> QED BY <3>1 DEF TypeOK
  <2> QED BY <2>1, <2>2, <2>3, <2>4 DEF TypeOK
<1>2. BoundsGiven'
  BY Ends DEF BoundsGiven, TypeOK, Slice
<1>3. WorkerInBounds'
  BY Working, SMTT(30) DEF WorkerInBounds, BoundsGiven, DecodePhase, Phase, TypeOK, Context, k, Larger
<1>4. AcksHold'
  BY Working, SMTT(30) DEF AcksHold, Started, BoundsGiven, LockHeld, WorkerInBounds, Phase, TypeOK, Context, k
<1>5. ReadersFollow'
  BY Working DEF ReadersFollow, WorkerInBounds, AcksHold, Phase, DecodePhase, BoundsGiven, Larger, TypeOK
<1>6. LockHeld' /\ AddressStays'
  BY DEF LockHeld, AddressStays, ReadersFollow, WakeAt, TypeOK
<1>7. NoMissedWakeup'
  BY DEF NoMissedWakeup, AddressStays, ReadersFollow, AcksHold, Started, LockHeld, Phase, Lowered, WakeAt, k, TypeOK
<1> QED BY <1>1, <1>2, <1>3, <1>4, <1>5, <1>6, <1>7

(* ParseSlice keeps the invariant.                                         *)
LEMMA ParseSliceInv ==
  ASSUME ProgressInv, ParseSlice
  PROVE  ProgressInv'
<1> USE Constants DEF ProgressInv, ParseSlice, Free, sharedVars, taskVars, parserVars, readerVars
<1>0. /\ parser = "parse" /\ parser' = "parse" /\ reader' = reader /\ lock = "none"
      /\ \A r \in Reader : reader[r] = "spin"
      /\ made \in 0 .. N - 1 /\ made' = made + 1 /\ done \in Nat /\ done <= made /\ k' = k
  BY DEF WakeWaiters, AwakeParser, AwakeReaders, ReadersFollow, TypeOK, k
<1>w. /\ worker' = worker \/ (worker.pc = "boundSleep" /\ worker' = [worker EXCEPT !.pc = "parsed"])
      /\ worker' \in Context
  <2>1. worker' = worker \/ (worker.pc = "boundSleep" /\ worker' = [worker EXCEPT !.pc = "parsed"])
    <3>1. worker' = worker \/ worker' = AwakeWorker(worker)
      BY DEF WakeWaiters
    <3> QED BY <3>1, Awakened
  <2>2. [worker EXCEPT !.pc = "parsed"] \in Context /\ worker \in Context
    BY DEF TypeOK, Context, WorkerPc
  <2> QED BY <2>1, <2>2
<1>p. /\ worker'.row = worker.row /\ worker'.bound = worker.bound
      /\ Phase' = Phase \/ (Phase = "boundSleep" /\ Phase' = "parsed")
      /\ worker'.pc = "idle" <=> worker.pc = "idle"
      /\ worker'.pc \in {"load", "notify", "ackLoad"} <=> worker.pc \in {"load", "notify", "ackLoad"}
  BY <1>w DEF TypeOK, Context, Phase
<1>2. BoundsGiven'
  <2> SUFFICES ASSUME NEW i \in Slice
               PROVE  task_bounds'[i] = IF i < made + 1 THEN BoundFor(i) ELSE Unknown
    BY <1>0 DEF BoundsGiven
  <2> QED BY <1>0, SMTT(30) DEF BoundsGiven, TypeOK, Slice
<1>1. TypeOK'
  <2>1. task_bounds' \in [Slice -> 1 .. Rows \union {Unknown, Inf}]
    <3>1. made # 0 => made \in Slice /\ BoundFor(made) \in 1 .. Rows \union {Unknown, Inf}
      BY <1>0, Ends DEF Slice
    <3> QED BY <3>1 DEF TypeOK
  <2>2. progress_wake_addr' \in Lowered .. Inf
    BY DEF WakeWaiters, TypeOK, Lowered
  <2> QED BY <1>0, <1>w, <2>1, <2>2, SMTT(30) DEF TypeOK
<1>b. worker.bound # Unknown /\ Phase # "idle" => worker.bound = task_bounds'[k]
  <2> SUFFICES ASSUME worker.bound # Unknown, Phase # "idle" PROVE worker.bound = task_bounds'[k]
    OBVIOUS
  <2>1. worker.bound = task_bounds[k] /\ done < made /\ k \in Slice
    BY <1>0 DEF WorkerInBounds, k, Slice
  <2>2. k < made
    BY <1>0, <2>1 DEF BoundsGiven, TypeOK
  <2> QED BY <1>0, <2>1, <2>2 DEF TypeOK
<1>3. WorkerInBounds'
  BY <1>0, <1>p, <1>b DEF WorkerInBounds, DecodePhase
<1>4. AcksHold'
  BY <1>0, <1>p DEF AcksHold, Started
<1>5. ReadersFollow'
  BY <1>0 DEF ReadersFollow
<1>6. LockHeld' /\ AddressStays'
  BY <1>0 DEF LockHeld, AddressStays
<1>7. NoMissedWakeup'
  <2>1. /\ \A r \in Reader : reader'[r] # "sleep"
        /\ parser' # "settleSleep"
    BY <1>0
  <2>2. worker'.pc = "boundSleep" => progress_wake_addr' = Lowered /\ task_bounds'[k'] = Unknown
    <3>1. CASE made = 0
      BY <1>0, <3>1 DEF NoMissedWakeup
    <3>2. CASE made # 0
      <4>1. worker' = AwakeWorker(worker)
        BY <3>2, WakesAll
      <4> QED BY <4>1 DEF AwakeWorker, TypeOK, Context
    <3> QED BY <3>1, <3>2
  <2> QED BY <2>1, <2>2 DEF NoMissedWakeup
<1> QED BY <1>1, <1>2, <1>3, <1>4, <1>5, <1>6, <1>7

(* EndPicture keeps the invariant.                                         *)
LEMMA EndPictureInv ==
  ASSUME ProgressInv, EndPicture
  PROVE  ProgressInv'
<1> USE Constants DEF ProgressInv, EndPicture, AwakeWorker, Free, sharedVars, taskVars, parserVars, readerVars
<1>1. TypeOK'
  <2>1. worker' \in Context
    BY Working DEF TypeOK, Context, WorkerPc, Then
  <2>2. reader' \in [Reader -> ReaderPc] /\ seen' \in [Reader -> 0 .. Inf] /\ parser' \in ParserPc
    BY DEF TypeOK, ReaderPc, ParserPc
  <2>3. /\ next_deblock_addr' \in 0 .. Rows \union {Inf} /\ progress_wake_addr' \in Lowered .. Inf
        /\ lock' \in {"none", "parser"} \union Reader
    BY Working, SMTT(30) DEF TypeOK, Lowered, Larger, WakeAt
  <2>4. /\ task_bounds' \in [Slice -> 1 .. Rows \union {Unknown, Inf}] /\ acked' \subseteq Slice
        /\ made' \in 0 .. N /\ done' \in 0 .. made' /\ unsettled' \subseteq Slice
    BY Working, Ends DEF TypeOK, Slice, k
  <2> QED BY <2>1, <2>2, <2>3, <2>4 DEF TypeOK
<1>2. BoundsGiven'
  BY Ends DEF BoundsGiven, TypeOK, Slice
<1>3. WorkerInBounds'
  BY Working DEF WorkerInBounds, BoundsGiven, DecodePhase, Phase, TypeOK, Context, k, Larger
<1>4. AcksHold'
  BY Working DEF AcksHold, Started, BoundsGiven, LockHeld, WorkerInBounds, Phase, TypeOK, Context, k
<1>5. ReadersFollow'
  BY Working DEF ReadersFollow, WorkerInBounds, AcksHold, Phase, DecodePhase, BoundsGiven, Larger, TypeOK
<1>6. LockHeld' /\ AddressStays'
  BY DEF LockHeld, AddressStays, ReadersFollow, WakeAt, TypeOK
<1>7. NoMissedWakeup'
  BY DEF NoMissedWakeup, AddressStays, ReadersFollow, AcksHold, Started, LockHeld, Phase, Lowered, WakeAt, k, TypeOK
<1> QED BY <1>1, <1>2, <1>3, <1>4, <1>5, <1>6, <1>7

(* Settle keeps the invariant.                                             *)
LEMMA SettleInv ==
  ASSUME ProgressInv, Settle
  PROVE  ProgressInv'
<1> USE Constants DEF ProgressInv, Settle, Unsettled, sharedVars, taskVars, parserVars, readerVars
<1>1. TypeOK'
  <2>1. worker' \in Context
    BY Working DEF TypeOK, Context, WorkerPc, Then
  <2>2. reader' \in [Reader -> ReaderPc] /\ seen' \in [Reader -> 0 .. Inf] /\ parser' \in ParserPc
    BY DEF TypeOK, ReaderPc, ParserPc
  <2>3. /\ next_deblock_addr' \in 0 .. Rows \union {Inf} /\ progress_wake_addr' \in Lowered .. Inf
        /\ lock' \in {"none", "parser"} \union Reader
    BY Working DEF TypeOK, Lowered, Larger, WakeAt
  <2>4. /\ task_bounds' \in [Slice -> 1 .. Rows \union {Unknown, Inf}] /\ acked' \subseteq Slice
        /\ made' \in 0 .. N /\ done' \in 0 .. made' /\ unsettled' \subseteq Slice
    BY Working, Ends DEF TypeOK, Slice, k
  <2> QED BY <2>1, <2>2, <2>3, <2>4 DEF TypeOK
<1>2. BoundsGiven'
  BY Ends DEF BoundsGiven, TypeOK, Slice
<1>3. WorkerInBounds'
  BY Working DEF WorkerInBounds, BoundsGiven, DecodePhase, Phase, TypeOK, Context, k, Larger
<1>4. AcksHold'
  BY Working DEF AcksHold, Started, BoundsGiven, LockHeld, WorkerInBounds, Phase, TypeOK, Context, k
<1>5. ReadersFollow'
  BY Working DEF ReadersFollow, WorkerInBounds, AcksHold, Phase, DecodePhase, BoundsGiven, Larger, TypeOK
<1>6. LockHeld' /\ AddressStays'
  BY DEF LockHeld, AddressStays, ReadersFollow, WakeAt, TypeOK
<1>7. NoMissedWakeup'
  BY DEF NoMissedWakeup, AddressStays, ReadersFollow, AcksHold, Started, LockHeld, Phase, Lowered, WakeAt, k, TypeOK
<1> QED BY <1>1, <1>2, <1>3, <1>4, <1>5, <1>6, <1>7

(* SettleStore keeps the invariant.                                        *)
LEMMA SettleStoreInv ==
  ASSUME ProgressInv, SettleStore
  PROVE  ProgressInv'
<1> USE Constants DEF ProgressInv, SettleStore, Lowered, sharedVars, taskVars, parserVars, readerVars
<1>1. TypeOK'
  <2>1. worker' \in Context
    BY Working DEF TypeOK, Context, WorkerPc, Then
  <2>2. reader' \in [Reader -> ReaderPc] /\ seen' \in [Reader -> 0 .. Inf] /\ parser' \in ParserPc
    BY DEF TypeOK, ReaderPc, ParserPc
  <2>3. /\ next_deblock_addr' \in 0 .. Rows \union {Inf} /\ progress_wake_addr' \in Lowered .. Inf
        /\ lock' \in {"none", "parser"} \union Reader
    BY Working DEF TypeOK, Lowered, Larger, WakeAt
  <2>4. /\ task_bounds' \in [Slice -> 1 .. Rows \union {Unknown, Inf}] /\ acked' \subseteq Slice
        /\ made' \in 0 .. N /\ done' \in 0 .. made' /\ unsettled' \subseteq Slice
    BY Working, Ends DEF TypeOK, Slice, k
  <2> QED BY <2>1, <2>2, <2>3, <2>4 DEF TypeOK
<1>2. BoundsGiven'
  BY Ends DEF BoundsGiven, TypeOK, Slice
<1>3. WorkerInBounds'
  BY Working DEF WorkerInBounds, BoundsGiven, DecodePhase, Phase, TypeOK, Context, k, Larger
<1>4. AcksHold'
  BY Working DEF AcksHold, Started, BoundsGiven, LockHeld, WorkerInBounds, Phase, TypeOK, Context, k
<1>5. ReadersFollow'
  BY Working DEF ReadersFollow, WorkerInBounds, AcksHold, Phase, DecodePhase, BoundsGiven, Larger, TypeOK
<1>6. LockHeld' /\ AddressStays'
  BY DEF LockHeld, AddressStays, ReadersFollow, WakeAt, TypeOK
<1>7. NoMissedWakeup'
  BY DEF NoMissedWakeup, AddressStays, ReadersFollow, AcksHold, Started, LockHeld, Phase, Lowered, WakeAt, k, TypeOK
<1> QED BY <1>1, <1>2, <1>3, <1>4, <1>5, <1>6, <1>7

(* SettleCheck keeps the invariant.                                        *)
LEMMA SettleCheckInv ==
  ASSUME ProgressInv, SettleCheck
  PROVE  ProgressInv'
<1> USE Constants DEF ProgressInv, SettleCheck, sharedVars, taskVars, parserVars, readerVars
<1>1. TypeOK'
  <2>1. worker' \in Context
    BY Working DEF TypeOK, Context, WorkerPc, Then
  <2>2. reader' \in [Reader -> ReaderPc] /\ seen' \in [Reader -> 0 .. Inf] /\ parser' \in ParserPc
    BY DEF TypeOK, ReaderPc, ParserPc
  <2>3. /\ next_deblock_addr' \in 0 .. Rows \union {Inf} /\ progress_wake_addr' \in Lowered .. Inf
        /\ lock' \in {"none", "parser"} \union Reader
    BY Working DEF TypeOK, Lowered, Larger, WakeAt
  <2>4. /\ task_bounds' \in [Slice -> 1 .. Rows \union {Unknown, Inf}] /\ acked' \subseteq Slice
        /\ made' \in 0 .. N /\ done' \in 0 .. made' /\ unsettled' \subseteq Slice
    BY Working, Ends DEF TypeOK, Slice, k
  <2> QED BY <2>1, <2>2, <2>3, <2>4 DEF TypeOK
<1>2. BoundsGiven'
  BY Ends DEF BoundsGiven, TypeOK, Slice
<1>3. WorkerInBounds'
  BY Working DEF WorkerInBounds, BoundsGiven, DecodePhase, Phase, TypeOK, Context, k, Larger
<1>4. AcksHold'
  BY Working DEF AcksHold, Started, BoundsGiven, LockHeld, WorkerInBounds, Phase, TypeOK, Context, k
<1>5. ReadersFollow'
  BY Working DEF ReadersFollow, WorkerInBounds, AcksHold, Phase, DecodePhase, BoundsGiven, Larger, TypeOK
<1>6. LockHeld' /\ AddressStays'
  BY DEF LockHeld, AddressStays, ReadersFollow, WakeAt, TypeOK
<1>7. NoMissedWakeup'
  BY DEF NoMissedWakeup, AddressStays, ReadersFollow, AcksHold, Started, LockHeld, Phase, Lowered, WakeAt, k, TypeOK
<1> QED BY <1>1, <1>2, <1>3, <1>4, <1>5, <1>6, <1>7

(* SettleAgain keeps the invariant.                                        *)
LEMMA SettleAgainInv ==
  ASSUME ProgressInv, SettleAgain
  PROVE  ProgressInv'
<1> USE Constants DEF ProgressInv, SettleAgain, Free, sharedVars, taskVars, parserVars, readerVars
<1>1. TypeOK'
  <2>1. worker' \in Context
    BY Working DEF TypeOK, Context, WorkerPc, Then
  <2>2. reader' \in [Reader -> ReaderPc] /\ seen' \in [Reader -> 0 .. Inf] /\ parser' \in ParserPc
    BY DEF TypeOK, ReaderPc, ParserPc
  <2>3. /\ next_deblock_addr' \in 0 .. Rows \union {Inf} /\ progress_wake_addr' \in Lowered .. Inf
        /\ lock' \in {"none", "parser"} \union Reader
    BY Working DEF TypeOK, Lowered, Larger, WakeAt
  <2>4. /\ task_bounds' \in [Slice -> 1 .. Rows \union {Unknown, Inf}] /\ acked' \subseteq Slice
        /\ made' \in 0 .. N /\ done' \in 0 .. made' /\ unsettled' \subseteq Slice
    BY Working, Ends DEF TypeOK, Slice, k
  <2> QED BY <2>1, <2>2, <2>3, <2>4 DEF TypeOK
<1>2. BoundsGiven'
  BY Ends DEF BoundsGiven, TypeOK, Slice
<1>3. WorkerInBounds'
  BY Working DEF WorkerInBounds, BoundsGiven, DecodePhase, Phase, TypeOK, Context, k, Larger
<1>4. AcksHold'
  BY Working DEF AcksHold, Started, BoundsGiven, LockHeld, WorkerInBounds, Phase, TypeOK, Context, k
<1>5. ReadersFollow'
  BY Working DEF ReadersFollow, WorkerInBounds, AcksHold, Phase, DecodePhase, BoundsGiven, Larger, TypeOK
<1>6. LockHeld' /\ AddressStays'
  BY DEF LockHeld, AddressStays, ReadersFollow, WakeAt, TypeOK
<1>7. NoMissedWakeup'
  BY DEF NoMissedWakeup, AddressStays, ReadersFollow, AcksHold, Started, LockHeld, Phase, Lowered, WakeAt, k, TypeOK
<1> QED BY <1>1, <1>2, <1>3, <1>4, <1>5, <1>6, <1>7

(* Spin keeps the invariant.                                               *)
LEMMA SpinInv ==
  ASSUME ProgressInv, NEW r \in Reader, Spin(r)
  PROVE  ProgressInv'
<1> USE Constants DEF ProgressInv, Spin, Sees, GoTo, sharedVars, taskVars, parserVars, readerVars
<1>1. TypeOK'
  <2>1. worker' \in Context
    BY Working DEF TypeOK, Context, WorkerPc, Then
  <2>2. reader' \in [Reader -> ReaderPc] /\ seen' \in [Reader -> 0 .. Inf] /\ parser' \in ParserPc
    BY DEF TypeOK, ReaderPc, ParserPc
  <2>3. /\ next_deblock_addr' \in 0 .. Rows \union {Inf} /\ progress_wake_addr' \in Lowered .. Inf
        /\ lock' \in {"none", "parser"} \union Reader
    BY Working DEF TypeOK, Lowered, Larger, WakeAt
  <2>4. /\ task_bounds' \in [Slice -> 1 .. Rows \union {Unknown, Inf}] /\ acked' \subseteq Slice
        /\ made' \in 0 .. N /\ done' \in 0 .. made' /\ unsettled' \subseteq Slice
    BY Working, Ends DEF TypeOK, Slice, k
  <2> QED BY <2>1, <2>2, <2>3, <2>4 DEF TypeOK
<1>2. BoundsGiven'
  BY Ends DEF BoundsGiven, TypeOK, Slice
<1>3. WorkerInBounds'
  BY Working DEF WorkerInBounds, BoundsGiven, DecodePhase, Phase, TypeOK, Context, k, Larger
<1>4. AcksHold'
  BY Working DEF AcksHold, Started, BoundsGiven, LockHeld, WorkerInBounds, Phase, TypeOK, Context, k
<1>5. ReadersFollow'
  BY Working DEF ReadersFollow, WorkerInBounds, AcksHold, Phase, DecodePhase, BoundsGiven, Larger, TypeOK
<1>6. LockHeld' /\ AddressStays'
  BY DEF LockHeld, AddressStays, ReadersFollow, WakeAt, TypeOK
<1>7. NoMissedWakeup'
  BY DEF NoMissedWakeup, AddressStays, ReadersFollow, AcksHold, Started, LockHeld, Phase, Lowered, WakeAt, k, TypeOK
<1> QED BY <1>1, <1>2, <1>3, <1>4, <1>5, <1>6, <1>7

(* Enter keeps the invariant.                                              *)
LEMMA EnterInv ==
  ASSUME ProgressInv, NEW r \in Reader, Enter(r)
  PROVE  ProgressInv'
<1> USE Constants DEF ProgressInv, Enter, GoTo, Free, sharedVars, taskVars, parserVars, readerVars
<1>1. TypeOK'
  <2>1. worker' \in Context
    BY Working DEF TypeOK, Context, WorkerPc, Then
  <2>2. reader' \in [Reader -> ReaderPc] /\ seen' \in [Reader -> 0 .. Inf] /\ parser' \in ParserPc
    BY DEF TypeOK, ReaderPc, ParserPc
  <2>3. /\ next_deblock_addr' \in 0 .. Rows \union {Inf} /\ progress_wake_addr' \in Lowered .. Inf
        /\ lock' \in {"none", "parser"} \union Reader
    BY Working DEF TypeOK, Lowered, Larger, WakeAt
  <2>4. /\ task_bounds' \in [Slice -> 1 .. Rows \union {Unknown, Inf}] /\ acked' \subseteq Slice
        /\ made' \in 0 .. N /\ done' \in 0 .. made' /\ unsettled' \subseteq Slice
    BY Working, Ends DEF TypeOK, Slice, k
  <2> QED BY <2>1, <2>2, <2>3, <2>4 DEF TypeOK
<1>2. BoundsGiven'
  BY Ends DEF BoundsGiven, TypeOK, Slice
<1>3. WorkerInBounds'
  BY Working DEF WorkerInBounds, BoundsGiven, DecodePhase, Phase, TypeOK, Context, k, Larger
<1>4. AcksHold'
  BY Working DEF AcksHold, Started, BoundsGiven, LockHeld, WorkerInBounds, Phase, TypeOK, Context, k
<1>5. ReadersFollow'
  BY Working DEF ReadersFollow, WorkerInBounds, AcksHold, Phase, DecodePhase, BoundsGiven, Larger, TypeOK
<1>6. LockHeld' /\ AddressStays'
  BY DEF LockHeld, AddressStays, ReadersFollow, WakeAt, TypeOK
<1>7. NoMissedWakeup'
  BY DEF NoMissedWakeup, AddressStays, ReadersFollow, AcksHold, Started, LockHeld, Phase, Lowered, WakeAt, k, TypeOK
<1> QED BY <1>1, <1>2, <1>3, <1>4, <1>5, <1>6, <1>7

(* Check keeps the invariant.                                              *)
LEMMA CheckInv ==
  ASSUME ProgressInv, NEW r \in Reader, Check(r)
  PROVE  ProgressInv'
<1> USE Constants DEF ProgressInv, Check, Sees, GoTo, sharedVars, taskVars, parserVars, readerVars
<1>0. PICK v \in seen[r] .. next_deblock_addr :
        /\ seen' = [seen EXCEPT ![r] = v] /\ v \in 0 .. Inf
        /\ \/ reader' = [reader EXCEPT ![r] = "passed"] /\ lock' = "none"
           \/ reader' = [reader EXCEPT ![r] = "store"] /\ lock' = lock
  OBVIOUS
<1>r. reader[r] = "check" /\ lock = r
  BY DEF LockHeld
<1>1. TypeOK'
  <2>1. worker' \in Context
    BY Working DEF TypeOK, Context, WorkerPc, Then
  <2>2. reader' \in [Reader -> ReaderPc] /\ seen' \in [Reader -> 0 .. Inf] /\ parser' \in ParserPc
    BY <1>0 DEF TypeOK, ReaderPc
  <2>3. /\ next_deblock_addr' \in 0 .. Rows \union {Inf} /\ progress_wake_addr' \in Lowered .. Inf
        /\ lock' \in {"none", "parser"} \union Reader
    BY Working DEF TypeOK, Lowered, Larger, WakeAt
  <2>4. /\ task_bounds' \in [Slice -> 1 .. Rows \union {Unknown, Inf}] /\ acked' \subseteq Slice
        /\ made' \in 0 .. N /\ done' \in 0 .. made' /\ unsettled' \subseteq Slice
    BY Working, Ends DEF TypeOK, Slice, k
  <2> QED BY <2>1, <2>2, <2>3, <2>4 DEF TypeOK
<1>2. BoundsGiven'
  BY Ends DEF BoundsGiven, TypeOK, Slice
<1>3. WorkerInBounds'
  BY Working DEF WorkerInBounds, BoundsGiven, DecodePhase, Phase, TypeOK, Context, k, Larger
<1>4. AcksHold'
  BY Working DEF AcksHold, Started, BoundsGiven, LockHeld, WorkerInBounds, Phase, TypeOK, Context, k
<1>5. ReadersFollow'
  BY Working DEF ReadersFollow, WorkerInBounds, AcksHold, Phase, DecodePhase, BoundsGiven, Larger, TypeOK
<1>6. LockHeld' /\ AddressStays'
  BY <1>0, <1>r, SMTT(30) DEF LockHeld, AddressStays, WakeAt, TypeOK
<1>7. NoMissedWakeup'
  BY DEF NoMissedWakeup, AddressStays, ReadersFollow, AcksHold, Started, LockHeld, Phase, Lowered, WakeAt, k, TypeOK
<1> QED BY <1>1, <1>2, <1>3, <1>4, <1>5, <1>6, <1>7

(* StoreWakeAddr keeps the invariant.                                      *)
LEMMA StoreWakeAddrInv ==
  ASSUME ProgressInv, NEW r \in Reader, StoreWakeAddr(r)
  PROVE  ProgressInv'
<1> USE Constants DEF ProgressInv, StoreWakeAddr, GoTo, Asked, WakeAt, Lowered, sharedVars, taskVars, parserVars, readerVars
<1>0. /\ progress_wake_addr' <= progress_wake_addr /\ progress_wake_addr' <= WakeAt(r)
      /\ progress_wake_addr' \in Lowered .. Inf /\ progress_wake_addr \in Lowered .. Inf
      /\ \A q \in Reader : WakeAt(q) \in 0 .. Inf
  <2>1. \A q \in Reader : Need[q] \in 1 .. Rows
    OBVIOUS
  <2>2. \A q \in Reader : WakeAt(q) \in 0 .. Inf
    BY <2>1 DEF WakeAt
  <2> QED BY <2>2 DEF TypeOK, Lowered, WakeAt
<1>r. /\ reader[r] = "store" /\ lock = r /\ parser = "settled"
      /\ \A q \in Reader : reader'[q] = IF q = r THEN "recheck" ELSE reader[q]
  BY DEF LockHeld, ReadersFollow, TypeOK
<1>1. TypeOK'
  <2>1. worker' \in Context
    BY Working DEF TypeOK, Context, WorkerPc, Then
  <2>2. reader' \in [Reader -> ReaderPc] /\ seen' \in [Reader -> 0 .. Inf] /\ parser' \in ParserPc
    BY DEF TypeOK, ReaderPc, ParserPc
  <2>3. /\ next_deblock_addr' \in 0 .. Rows \union {Inf} /\ progress_wake_addr' \in Lowered .. Inf
        /\ lock' \in {"none", "parser"} \union Reader
    BY <1>0 DEF TypeOK
  <2>4. /\ task_bounds' \in [Slice -> 1 .. Rows \union {Unknown, Inf}] /\ acked' \subseteq Slice
        /\ made' \in 0 .. N /\ done' \in 0 .. made' /\ unsettled' \subseteq Slice
    BY Working, Ends DEF TypeOK, Slice, k
  <2> QED BY <2>1, <2>2, <2>3, <2>4 DEF TypeOK
<1>2. BoundsGiven'
  BY Ends DEF BoundsGiven, TypeOK, Slice
<1>3. WorkerInBounds'
  BY Working DEF WorkerInBounds, BoundsGiven, DecodePhase, Phase, TypeOK, Context, k, Larger
<1>4. AcksHold'
  BY Working DEF AcksHold, Started, BoundsGiven, LockHeld, WorkerInBounds, Phase, TypeOK, Context, k
<1>5. ReadersFollow'
  BY Working DEF ReadersFollow, WorkerInBounds, AcksHold, Phase, DecodePhase, BoundsGiven, Larger, TypeOK
<1>6. LockHeld' /\ AddressStays'
  BY <1>0, <1>r DEF LockHeld, AddressStays
<1>7. NoMissedWakeup'
  <2>1. k' = k /\ worker' = worker /\ parser' = parser
    BY DEF k
  <2>2. progress_wake_addr = Lowered => progress_wake_addr' = Lowered
    BY <1>0
  <2> QED BY <1>0, <1>r, <2>1, <2>2, SMTT(30) DEF NoMissedWakeup, TypeOK
<1> QED BY <1>1, <1>2, <1>3, <1>4, <1>5, <1>6, <1>7

(* Recheck keeps the invariant.                                            *)
LEMMA RecheckInv ==
  ASSUME ProgressInv, NEW r \in Reader, Recheck(r)
  PROVE  ProgressInv'
<1> USE Constants DEF ProgressInv, Recheck, GoTo, StillBehind, WakeAt, sharedVars, taskVars, parserVars, readerVars
<1>0. next_deblock_addr \in 0 .. Inf
  BY DEF TypeOK
<1>1. TypeOK'
  <2>1. worker' \in Context
    BY Working DEF TypeOK, Context, WorkerPc, Then
  <2>2. reader' \in [Reader -> ReaderPc] /\ seen' \in [Reader -> 0 .. Inf] /\ parser' \in ParserPc
    BY <1>0 DEF TypeOK, ReaderPc
  <2>3. /\ next_deblock_addr' \in 0 .. Rows \union {Inf} /\ progress_wake_addr' \in Lowered .. Inf
        /\ lock' \in {"none", "parser"} \union Reader
    BY Working DEF TypeOK, Lowered, Larger, WakeAt
  <2>4. /\ task_bounds' \in [Slice -> 1 .. Rows \union {Unknown, Inf}] /\ acked' \subseteq Slice
        /\ made' \in 0 .. N /\ done' \in 0 .. made' /\ unsettled' \subseteq Slice
    BY Working, Ends DEF TypeOK, Slice, k
  <2> QED BY <2>1, <2>2, <2>3, <2>4 DEF TypeOK
<1>2. BoundsGiven'
  BY Ends DEF BoundsGiven, TypeOK, Slice
<1>3. WorkerInBounds'
  BY Working DEF WorkerInBounds, BoundsGiven, DecodePhase, Phase, TypeOK, Context, k, Larger
<1>4. AcksHold'
  BY Working DEF AcksHold, Started, BoundsGiven, LockHeld, WorkerInBounds, Phase, TypeOK, Context, k
<1>5. ReadersFollow'
  BY Working DEF ReadersFollow, WorkerInBounds, AcksHold, Phase, DecodePhase, BoundsGiven, Larger, TypeOK
<1>6. LockHeld' /\ AddressStays'
  BY DEF LockHeld, AddressStays, ReadersFollow, WakeAt, TypeOK
<1>7. NoMissedWakeup'
  BY DEF NoMissedWakeup, AddressStays, ReadersFollow, AcksHold, Started, LockHeld, Phase, Lowered, WakeAt, k, TypeOK
<1> QED BY <1>1, <1>2, <1>3, <1>4, <1>5, <1>6, <1>7

(* WakeUp keeps the invariant.                                             *)
LEMMA WakeUpInv ==
  ASSUME ProgressInv, WakeUp
  PROVE  ProgressInv'
<1> USE Constants DEF ProgressInv, WakeUp, AwakeParser, GoTo, sharedVars, taskVars, parserVars, readerVars
<1>0. /\ worker' = worker \/ (worker.pc = "boundSleep" /\ worker' = [worker EXCEPT !.pc = "parsed"])
      /\ worker' \in Context
  <2>1. worker' = worker \/ (worker.pc = "boundSleep" /\ worker' = [worker EXCEPT !.pc = "parsed"])
    <3>1. worker' = worker \/ worker' = AwakeWorker(worker)
      BY DEF WakeWaiters
    <3> QED BY <3>1, Awakened
  <2>2. [worker EXCEPT !.pc = "parsed"] \in Context /\ worker \in Context
    BY DEF TypeOK, Context, WorkerPc
  <2> QED BY <2>1, <2>2
<1>p. /\ worker'.row = worker.row /\ worker'.bound = worker.bound /\ k' = k
      /\ Phase' = Phase \/ (Phase = "boundSleep" /\ Phase' = "parsed")
      /\ worker'.pc = "idle" <=> worker.pc = "idle"
  BY <1>0 DEF TypeOK, Context, Phase, k
<1>1. TypeOK'
  <2>1. worker' \in Context
    BY <1>0
  <2>2. reader' \in [Reader -> ReaderPc] /\ seen' \in [Reader -> 0 .. Inf] /\ parser' \in ParserPc
    BY DEF TypeOK, ReaderPc, ParserPc
  <2>3. /\ next_deblock_addr' \in 0 .. Rows \union {Inf} /\ progress_wake_addr' \in Lowered .. Inf
        /\ lock' \in {"none", "parser"} \union Reader
    BY Working DEF TypeOK, Lowered, Larger, WakeAt
  <2>4. /\ task_bounds' \in [Slice -> 1 .. Rows \union {Unknown, Inf}] /\ acked' \subseteq Slice
        /\ made' \in 0 .. N /\ done' \in 0 .. made' /\ unsettled' \subseteq Slice
    BY Working, Ends DEF TypeOK, Slice, k
  <2> QED BY <2>1, <2>2, <2>3, <2>4 DEF TypeOK
<1>2. BoundsGiven'
  BY Ends DEF BoundsGiven, TypeOK, Slice
<1>3. WorkerInBounds'
  BY <1>p DEF WorkerInBounds, DecodePhase
<1>4. AcksHold'
  <2>1. /\ Started' = Started /\ acked' = acked /\ unsettled' = unsettled
        /\ parser' = "settled" => parser = "settled"
    BY <1>p DEF Started
  <2> QED BY <1>p, <2>1 DEF AcksHold
<1>5. ReadersFollow'
  BY DEF ReadersFollow, TypeOK
<1>6. LockHeld' /\ AddressStays'
  BY DEF LockHeld, AddressStays, ReadersFollow, WakeAt, TypeOK
<1>7. NoMissedWakeup'
  BY DEF NoMissedWakeup, AddressStays, ReadersFollow, AcksHold, Started, LockHeld, Phase, Lowered, WakeAt, k, TypeOK
<1> QED BY <1>1, <1>2, <1>3, <1>4, <1>5, <1>6, <1>7
(* A step that changes nothing keeps the invariant.                        *)
LEMMA StutterInv ==
  ASSUME ProgressInv, UNCHANGED vars
  PROVE  ProgressInv'
BY DEF vars, sharedVars, taskVars, parserVars, readerVars, ProgressInv, TypeOK, BoundsGiven,
       WorkerInBounds, AcksHold, ReadersFollow, LockHeld, AddressStays, NoMissedWakeup,
       Phase, Started, k

(* Every step keeps the invariant.                                         *)
LEMMA NextInv ==
  ASSUME ProgressInv, [Next]_vars
  PROVE  ProgressInv'
<1>1. CASE Work
  BY <1>1, TakeInv, LearnBoundInv, DecodeRowInv, EndOfDataInv, AwaitBoundInv, OverrunInv,
     AckInv, LoadWakeAddrInv, NotifyInv, PublishSliceInv, CompleteInv, FinishInv DEF Work
<1>2. CASE Parse
  BY <1>2, ParseSliceInv, EndPictureInv, SettleInv, SettleStoreInv, SettleCheckInv,
     SettleAgainInv DEF Parse
<1>3. CASE \E r \in Reader : Await(r)
  <2>1. PICK r \in Reader : Await(r)
    BY <1>3
  <2> QED BY <2>1, SpinInv, EnterInv, CheckInv, StoreWakeAddrInv, RecheckInv DEF Await
<1>4. CASE WakeUp BY <1>4, WakeUpInv
<1>5. CASE UNCHANGED vars BY <1>5, StutterInv
<1> QED BY <1>1, <1>2, <1>3, <1>4, <1>5 DEF Next

(* The wait protocol of a slot keeps its invariant, whatever the picture,  *)
(* its slices and its readers.                                             *)
THEOREM ProgressInvariant == Spec => []ProgressInv
<1>1. Init => ProgressInv BY InitInv
<1>2. ProgressInv /\ [Next]_vars => ProgressInv' BY NextInv
<1> QED BY <1>1, <1>2, PTL DEF Spec

(* Nobody who waits for the frontier or for an ack (wait_frame_locked)     *)
(* sleeps past it, though the frontier is published without the lock.      *)
THEOREM WakeupsAreNotMissed == Spec => []NoMissedWakeup
<1>1. ProgressInv => NoMissedWakeup BY DEF ProgressInv
<1> QED BY <1>1, ProgressInvariant, PTL

-----------------------------------------------------------------------------
(* The promise to the readers.                                             *)

(* Once the parser has settled the picture, no row is taken back.          *)
LEMMA FrontierGrows ==
  ASSUME ProgressInv, parser = "settled", Work
  PROVE  next_deblock_addr' \in next_deblock_addr .. Inf /\ parser' = "settled"
<1> USE Constants DEF ProgressInv
<1>1. next_deblock_addr \in 0 .. Rows \union {Inf}
  BY DEF TypeOK
<1>2. CASE DecodeRow
  BY <1>1, <1>2, RowPublished DEF DecodeRow, parserVars
<1>3. ~Overrun
  <2> SUFFICES ASSUME Overrun PROVE FALSE
    OBVIOUS
  <2>1. worker.pc = "overrun" /\ Phase = "overrun"
    BY DEF Overrun, Phase
  <2>2. k \notin acked /\ k = N /\ k \in Slice
    BY <2>1, Working DEF AcksHold
  <2>3. worker.bound = Inf
    BY <2>1, <2>2, Ends DEF WorkerInBounds, BoundsGiven
  <2> QED BY <2>1, <2>3 DEF WorkerInBounds, TypeOK, Context
<1>4. CASE PublishSlice
  <2>1. Phase = "parsed" /\ worker.row \in First[k] .. Rows /\ First[k] \in 0 .. Rows - 1
    BY <1>4, Working DEF PublishSlice, Phase
  <2>2. next_deblock_addr <= Larger(First[k], worker.row - Lag)
    BY <2>1 DEF WorkerInBounds, DecodePhase
  <2>0. First[k] \in Nat /\ worker.row \in Nat /\ First[k] <= worker.row
    BY <2>1
  <2>3. Larger(First[k], worker.row - Lag) <= worker.row /\ Larger(First[k], worker.row - Lag) \in Nat
    BY <2>0, Published
  <2> QED BY <1>1, <1>4, <2>1, <2>2, <2>3 DEF PublishSlice, Publish, parserVars
<1>5. CASE Complete BY <1>1, <1>5 DEF Complete, Publish, parserVars
<1>6. CASE Take \/ LearnBound \/ EndOfData \/ AwaitBound \/ Ack \/ LoadWakeAddr
  BY <1>1, <1>6 DEF Take, LearnBound, EndOfData, AwaitBound, Ack, LoadWakeAddr, sharedVars, parserVars
<1>7. CASE Notify \/ Finish
  BY <1>1, <1>7 DEF Notify, Finish, WakeWaiters, AwakeParser
<1> QED BY <1>2, <1>3, <1>4, <1>5, <1>6, <1>7 DEF Work
(* A step of the readers lets one go on only with the rows it needs.       *)
LEMMA ReadersPass ==
  ASSUME ProgressInv, NEW r \in Reader, Await(r)
  PROVE  /\ parser = "settled" /\ parser' = "settled" /\ next_deblock_addr' = next_deblock_addr
         /\ \/ Passed' = Passed
            \/ r \notin Passed /\ Need[r] <= next_deblock_addr /\ Passed' = Passed \union {r}
<1> USE Constants DEF ProgressInv
<1>1. reader \in [Reader -> ReaderPc] /\ seen \in [Reader -> 0 .. Inf] /\ Need[r] \in 1 .. Rows
      /\ next_deblock_addr \in 0 .. Rows \union {Inf}
  BY DEF TypeOK
<1>2. CASE Spin(r)
  <2>1. PICK v \in 0 .. Inf :
          Sees(r, v) /\ GoTo(r, IF v >= Need[r] THEN "passed" ELSE "enter")
    BY <1>2 DEF Spin
  <2>2. parser = "settled" /\ parser' = parser /\ reader[r] = "spin" /\ next_deblock_addr' = next_deblock_addr
    BY <1>2 DEF Spin, sharedVars, parserVars
  <2>3. CASE v >= Need[r]
    BY <1>1, <2>1, <2>2, <2>3 DEF Sees, GoTo, Passed
  <2>4. CASE ~(v >= Need[r])
    BY <1>1, <2>1, <2>2, <2>4 DEF Sees, GoTo, Passed
  <2> QED BY <2>3, <2>4
<1>3. CASE Check(r)
  <2>1. PICK v \in 0 .. Inf :
          /\ Sees(r, v)
          /\ IF v >= Need[r] THEN GoTo(r, "passed") ELSE GoTo(r, "store")
    BY <1>3 DEF Check
  <2>2. parser' = parser /\ reader[r] = "check" /\ next_deblock_addr' = next_deblock_addr
    BY <1>3 DEF Check, sharedVars, parserVars
  <2>5. parser = "settled" BY <2>2 DEF ReadersFollow
  <2>3. CASE v >= Need[r]
    BY <1>1, <2>1, <2>2, <2>3, <2>5 DEF Sees, GoTo, Passed
  <2>4. CASE ~(v >= Need[r])
    BY <1>1, <2>1, <2>2, <2>4, <2>5 DEF Sees, GoTo, Passed
  <2> QED BY <2>3, <2>4
<1>4. CASE Enter(r) \/ StoreWakeAddr(r) \/ Recheck(r)
  <2>1. /\ reader[r] \in {"enter", "store", "recheck"}
        /\ parser' = parser /\ next_deblock_addr' = next_deblock_addr
        /\ \E pc \in {"check", "recheck", "sleep"} : GoTo(r, pc)
    BY <1>4 DEF Enter, StoreWakeAddr, Recheck, sharedVars, parserVars
  <2>2. parser = "settled" BY <2>1 DEF ReadersFollow
  <2> QED BY <1>1, <2>1, <2>2 DEF GoTo, Passed
<1> QED BY <1>2, <1>3, <1>4 DEF Await

(* Every step of the protocol is one the promise allows.                   *)
LEMMA StepKeepsPromise ==
  ASSUME ProgressInv, [Next]_vars
  PROVE  [Promise!Next]_Promise!vars
<1> DEFINE final == IF parser = "settled" THEN next_deblock_addr ELSE 0
<1> USE Constants DEF ProgressInv
<1>a. next_deblock_addr \in 0 .. Inf /\ next_deblock_addr' \in 0 .. Inf /\ final \in 0 .. Inf
  <2>1. ProgressInv' BY NextInv
  <2> QED BY <2>1 DEF TypeOK
<1>s. ASSUME final' \in final .. Inf, Passed' = Passed
      PROVE  [Promise!Next]_Promise!vars
  <2>1. CASE final' = final
    BY <1>s, <2>1 DEF Promise!vars
  <2>2. CASE final' # final
    <3>1. final' \in final + 1 .. Inf BY <1>a, <1>s, <2>2
    <3>2. Promise!Advance BY <1>s, <3>1 DEF Promise!Advance
    <3> QED BY <3>2 DEF Promise!Next
  <2> QED BY <2>1, <2>2
<1>1. CASE Work
  <2>1. Passed' = Passed
    <3>1. reader' = reader \/ reader' = AwakeReaders
      BY <1>1 DEF Work, Take, LearnBound, DecodeRow, EndOfData, AwaitBound, Overrun, Ack,
                 LoadWakeAddr, Notify, PublishSlice, Complete, Finish, WakeWaiters, readerVars
    <3> QED BY <3>1 DEF AwakeReaders, Passed
  <2>2. CASE parser = "settled"
    BY <1>1, <1>s, <2>1, <2>2, <1>a, FrontierGrows
  <2>3. CASE parser # "settled"
    <3>1. parser' # "settled"
      BY <1>1, <2>3 DEF Work, Take, LearnBound, DecodeRow, EndOfData, AwaitBound, Overrun, Ack,
                 LoadWakeAddr, Notify, PublishSlice, Complete, Finish, WakeWaiters, AwakeParser, parserVars
    <3> QED BY <2>1, <2>3, <3>1, <1>s, <1>a
  <2> QED BY <2>2, <2>3
<1>2. CASE Parse
  <2>1. parser # "settled" /\ (reader' = reader \/ reader' = AwakeReaders)
    BY <1>2 DEF Parse, ParseSlice, EndPicture, Settle, SettleStore, SettleCheck, SettleAgain,
               WakeWaiters, readerVars
  <2>2. Passed' = Passed BY <2>1 DEF AwakeReaders, Passed
  <2> QED BY <2>1, <2>2, <1>s, <1>a
<1>3. CASE WakeUp
  <2>1. reader' = reader \/ \E r \in Reader : reader[r] = "sleep" /\ GoTo(r, "enter")
    BY <1>3 DEF WakeUp
  <2>2. Passed' = Passed BY <2>1 DEF GoTo, Passed, TypeOK
  <2>3. next_deblock_addr' = next_deblock_addr /\ (parser' = "settled" <=> parser = "settled")
    BY <1>3 DEF WakeUp, AwakeParser, sharedVars
  <2> QED BY <2>2, <2>3, <1>s, <1>a
<1>4. CASE \E r \in Reader : Await(r)
  <2>1. PICK r \in Reader : Await(r) BY <1>4
  <2>2. final' = final BY <2>1, ReadersPass
  <2>3. CASE Passed' = Passed BY <2>2, <2>3, <1>s, <1>a
  <2>4. CASE r \notin Passed /\ Need[r] <= next_deblock_addr /\ Passed' = Passed \union {r}
    <3>1. Promise!Pass(r) BY <2>1, <2>2, <2>4, ReadersPass DEF Promise!Pass
    <3> QED BY <3>1 DEF Promise!Next
  <2> QED BY <2>1, <2>3, <2>4, ReadersPass
<1>5. CASE UNCHANGED vars
  BY <1>5, <1>s, <1>a DEF vars, parserVars, readerVars, sharedVars, Passed
<1> QED BY <1>1, <1>2, <1>3, <1>4, <1>5 DEF Next

(* The protocol implements the promise: what the parser has settled when a *)
(* later task is created is final, and no reader goes on before its rows.  *)
THEOREM PromiseKept == Spec => Promise!Spec
<1>1. Init => Promise!Init
  BY DEF Init, Promise!Init, Passed
<1>2. ProgressInv /\ [Next]_vars => [Promise!Next]_Promise!vars
  BY StepKeepsPromise
<1> QED BY <1>1, <1>2, ProgressInvariant, PTL DEF Spec, Promise!Spec
=============================================================================
