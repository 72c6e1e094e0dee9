-------------------------------- MODULE Dpb --------------------------------
(***************************************************************************)
(* The decoded picture buffer and its output: which slot a new picture     *)
(* takes, when a picture is bumped into the output queue of its view, how  *)
(* the two views of an access unit are paired, what receive_frame hands    *)
(* out, and what happens when slots or queues are full.                    *)
(*                                                                         *)
(* One action per stretch of a call of the API that does not wait.  The    *)
(* workers are reduced to the tasks they finish, in any order the          *)
(* references allow (TaskPool is about the rest).  A picture is two parts, *)
(* so that it may be open, incomplete or damaged; a slice brings some of   *)
(* them.                                                                   *)
(*                                                                         *)
(* A loop of bump_frame is written as its result: it queues the pictures   *)
(* that come first in the order of BumpsBefore.  The reference marking is  *)
(* the sliding window, order counts are of type 0.  Left out: memory       *)
(* management operations, fields, and the rejection of slices for other    *)
(* reasons than those of StartSlice and a bad reference list.              *)
(***************************************************************************)
EXTENDS Integers, FiniteSets, Sequences

CONSTANTS
  MaxFrames,     \* MAX_FRAMES, the slots of the DPB
  PicsInFlight,  \* pics_in_flight
  FrameNumSpan,  \* 1 << log2_max_frame_num
  PocSpan,       \* 1 << log2_max_pic_order_cnt_lsb
  MaxReceived,   \* frames a caller may hold
  Streams        \* what callers send

(* What is sent: a slice, an end of sequence, or instead of sending the    *)
(* caller flushes.  num, poc: frame_num, pic_order_cnt_lsb; idr: 0, or     *)
(* 1 + idr_pic_id; ref: nal_ref_idc # 0; bad: its reference list           *)
(* modification is rejected.                                               *)
Part == 1 .. 2
Nal == [kind : {"slice", "end of sequence", "flush"}, view : 0 .. 1, num : Nat, poc : Nat,
        ref : BOOLEAN, idr : Nat, intra : BOOLEAN, parts : SUBSET Part, bad : BOOLEAN]

(* mvc: a subset SPS was sent; numRef, buffering, reorder:                 *)
(* max_num_ref_frames, max_dec_frame_buffering, max_num_reorder_frames;    *)
(* threads: n_threads # 0; eager: the caller receives all it can after     *)
(* every NAL and returns each frame at once; shows: the NALs that start    *)
(* the pictures of the frames to output, frame by frame.                   *)
Stream == [nals : Seq(Nal), mvc : BOOLEAN, numRef : Nat \ {0}, buffering : Nat, reorder : Nat,
           threads : BOOLEAN, eager : BOOLEAN, shows : Seq(Seq(Nat))]

ASSUME DpbAssumption ==
  /\ MaxFrames \in Nat \ {0} /\ PicsInFlight \in Nat \ {0}
  /\ {FrameNumSpan, PocSpan} \subseteq Nat \ {0}
  /\ MaxReceived \in Nat \ {0}
  /\ Streams \subseteq Stream

Slot == 1 .. MaxFrames
None == 0              \* -1 in the code
View == 0 .. 1
QueueSize == MaxFrames

VARIABLES
  stream, at,          \* what is sent, and the index of the next NAL
  dpb,                 \* to_get_frames, output_frames, get_frame_queue, DispOrder, next_dispnum
  frame,               \* of every slot: the NAL that started its picture (0 for one inferred
                       \* in a gap), the picture its samples were copied from, non_base_frames,
                       \* FrameNums, FieldOrderCnt, the parts not decoded, FrameIds, AuBaseIds
  tasks, heldTask,     \* the busy tasks, and the NAL of held_task
  currPic, basePic,
  refs, marks, marked, \* prev_short_term_frames, short_term_frames, currPic_marked
  prevRef,             \* PrevRefFrameNum and prevPicOrderCnt of every view
  source,              \* prev, the picture a gap in frame_num is filled with
  prevFrameId, lastBaseId,
  resume, leading,     \* resume_state and resume_poc, leading_frames
  flushing, undelivered, ended, wantFrame,
  call, drains, drained,  \* the call in progress, and two local variables of receive_frame
  turn,                \* what the caller may do next
  received, out,       \* frames with the caller, and all those it ever received
  shown                \* OutputPocBase, PrevOutputUnwrapped, HavePrevOutputPoc

sendVars == <<stream, at>>
parseVars == <<currPic, basePic, refs, marks, marked, prevRef>>
idVars == <<prevFrameId, lastBaseId, resume, leading>>
taskVars == <<tasks, heldTask>>
outVars == <<received, out, shown>>
vars == <<sendVars, dpb, frame, taskVars, parseVars, idVars, source, flushing, undelivered,
          ended, wantFrame, call, drains, drained, turn, outVars>>

Queue == UNION {[1 .. n -> Slot] : n \in 0 .. QueueSize}
Dpb == [toGet : SUBSET Slot, output : SUBSET Slot, queue : [View -> Queue],
        rank : [Slot -> Nat], next : Nat]
Frame == [nal : Nat, from : Nat, view : View, num : Nat, poc : Int, missing : SUBSET Part,
          id : Int, before : Nat, after : Nat]
Task == [nal : Nat, slot : Slot, id : Int, parts : SUBSET Part, deps : SUBSET (Slot \X Int)]
Received == [base : Slot, dep : Slot \union {None}, nals : Seq(Nat), display : Int]

Call == {"none", "gate", "slice", "slot", "room", "gap", "fill",
         "fill room", "insert", "sequence", "flush",
         "get", "due", "await", "last", "end", "drain", "rest"}

PictureTypes ==
  /\ stream \in Streams /\ at \in 1 .. Len(stream.nals) + 1
  /\ frame \in [Slot -> Frame]
  /\ tasks \subseteq Task /\ heldTask \in Nat
  /\ currPic \in Slot \union {None} /\ basePic \in Slot \union {None}
  /\ refs \subseteq Slot /\ marks \subseteq Slot /\ marked \in BOOLEAN
  /\ prevRef \in [View -> [num : Int, poc : Int]] /\ source \in Slot \union {None}
  /\ prevFrameId \in Int /\ lastBaseId \in Nat
  /\ call \in Call

CallTypes ==
  /\ resume \in [state : 0 .. 2, poc : Int] /\ leading \subseteq Slot
  /\ {flushing, undelivered, ended, wantFrame, drained} \subseteq BOOLEAN
  /\ drains \in 0 .. 4 /\ turn \in {"any", "receive", "over"}
  /\ received \subseteq Received /\ out \in Seq(Received)
  /\ shown \in [View -> [base : Int, prev : Int, have : BOOLEAN]]

TypeOK == PictureTypes /\ dpb \in Dpb /\ CallTypes

Init ==
  /\ stream \in Streams /\ at = 1
  /\ dpb = [toGet |-> {}, output |-> {}, queue |-> [v \in View |-> <<>>],
            rank |-> [s \in Slot |-> 0], next |-> 0]
  /\ frame = [s \in Slot |-> [nal |-> 0, from |-> 0, view |-> 0, num |-> 0, poc |-> 0,
                              missing |-> {}, id |-> 0, before |-> 0, after |-> 0]]
  /\ tasks = {} /\ heldTask = 0
  /\ currPic = None /\ basePic = None /\ refs = {} /\ marks = {} /\ marked = FALSE
  /\ prevRef = [v \in View |-> [num |-> -1, poc |-> 0]] /\ source = None
  /\ prevFrameId = -1 /\ lastBaseId = 0
  /\ resume = [state |-> 0, poc |-> 0] /\ leading = {}
  /\ flushing = FALSE /\ undelivered = FALSE /\ ended = FALSE /\ wantFrame = FALSE
  /\ call = "none" /\ drains = 0 /\ drained = FALSE /\ turn = "any"
  /\ received = {} /\ out = <<>>
  /\ shown = [v \in View |-> [base |-> 0, prev |-> 0, have |-> FALSE]]

-----------------------------------------------------------------------------
(* Pictures and access units.                                              *)
Elements(q) == {q[i] : i \in DOMAIN q}
Sent(s) == stream.nals[frame[s].nal]
OfView(v) == {s \in Slot : frame[s].view = v}
Complete(s) == frame[s].missing = {}
Writing == {t.slot : t \in tasks}
DependedBy(ts) == UNION {{d[1] : d \in t.deps} : t \in ts}
Depended == DependedBy(tasks)
Inflight == {s \in Writing : ~Complete(s)}
(* Fault: a slot that a task reads is given away.                          *)
Busy_Inflight == Inflight
Busy == Depended \union Inflight

SameAccessUnit(b, d) ==
  /\ frame[b].num = frame[d].num /\ frame[b].poc = frame[d].poc
  /\ frame[b].id + 1 \in {frame[d].before, frame[d].after}

HasBase(d, bases) == \E b \in bases : SameAccessUnit(b, d)

(* The dependent view of base b that was decoded first, of those in S.     *)
FirstDependent(b, S) ==
  LET ds == {d \in S \intersect OfView(1) : SameAccessUnit(b, d)}
  IN  IF ds = {} THEN None ELSE CHOOSE d \in ds : \A e \in ds : frame[d].id <= frame[e].id

(* The base view a damaged dependent view d is concealed from: the latest  *)
(* one before it with its frame number and order count.                    *)
Donors(f, d, toGet) ==
  {b \in toGet : /\ f[d].view = 1 /\ f[b].view = 0 /\ f[b].id < f[d].id
                 /\ f[b].num = f[d].num /\ f[b].poc = f[d].poc}
Awaited(f, d, toGet, writing) ==
  \E b \in Donors(f, d, toGet) : /\ b \in writing /\ f[b].missing # {}
                                /\ \A c \in Donors(f, d, toGet) : f[c].id <= f[b].id

(* Fault: pictures that lost a slice are never concealed.                  *)
Concealed_Never(f, ts, cur, toGet) == f

(* release_terminal_task_dependencies: frames f once the wanted pictures   *)
(* without a writer, but the one being parsed, are concealed; one to take  *)
(* from a base view still being decoded is left for later.                 *)
Concealed(f, ts, cur, toGet) ==
  LET writing == {t.slot : t \in ts}
      terminal == ((toGet \union DependedBy(ts)) \ writing) \ {cur}
  IN  [s \in Slot |-> IF s \in terminal /\ ~Awaited(f, s, toGet, writing)
                      THEN [f[s] EXCEPT !.missing = {}] ELSE f[s]]

-----------------------------------------------------------------------------
(* Output queues.                                                          *)
FirstOf(n, q) == SubSeq(q, 1, IF Len(q) < n THEN Len(q) ELSE n)
Push(new, q) == FirstOf(QueueSize, new \o q)
Dequeue(q, i) == SubSeq(q, 1, i - 1) \o SubSeq(q, i + 1, Len(q))
Place(q, s) == CHOOSE i \in DOMAIN q : q[i] = s /\ \A j \in DOMAIN q : q[j] = s => i <= j
(* Fault: a picture delivered stays in its queue.                          *)
Without_Kept(q, s) == q
Without(q, s) == IF s \in Elements(q) THEN Dequeue(q, Place(q, s)) ELSE q

(* What is left of q once the pictures S are taken out.                    *)
LeftIn(q, S) ==
  LET left == {i \in DOMAIN q : q[i] \notin S}
  IN  [k \in 1 .. Cardinality(left) |->
         q[CHOOSE i \in left : Cardinality({j \in left : j < i}) = k - 1]]

BumpsBefore(s, t) ==
  \/ frame[s].poc < frame[t].poc
  \/ frame[s].poc = frame[t].poc /\ frame[s].id < frame[t].id

PlaceIn(s, S) == Cardinality({t \in S : BumpsBefore(t, s)})
LatestFirst(S) ==
  [i \in 1 .. Cardinality(S) |-> CHOOSE s \in S : PlaceIn(s, S) = Cardinality(S) - i]

(* The pictures of view v that bump_frame may queue: a dependent view only *)
(* once its base view is queued, or with the caller.                       *)
Waiting(d) == d.toGet \ d.output
Bumpable(d, v, ignored) ==
  {s \in (Waiting(d) \intersect OfView(v)) \ ignored :
     v = 1 => HasBase(s, d.output \intersect OfView(0))}

(* d after n calls of bump_frame for view v.                               *)
Bump(d, v, ignored, n) ==
  LET candidates == Bumpable(d, v, ignored)
      bumped == {s \in candidates : PlaceIn(s, candidates) < n}
  IN  [d EXCEPT !.output = @ \union bumped,
                !.rank = [s \in Slot |->
                            IF s \in bumped THEN d.next + PlaceIn(s, bumped) ELSE @[s]],
                !.next = @ + Cardinality(bumped),
                !.queue[v] = Push(LatestFirst(bumped), @)]

(* bump_all_frames alternates between the views; only the ranks of base    *)
(* views are compared with each other. (\E d \in {e} names the value of e.)*)
BumpAll ==
  \E d \in {Bump(dpb, 0, {}, MaxFrames)} : dpb' = Bump(d, 1, {}, MaxFrames)

(* Fault: a dependent view already queued is queued again.                 *)
CatchUp_Again(d) ==
  LET new == {FirstDependent(b, d.toGet) : b \in Elements(d.queue[0])} \ {None}
  IN  IF ~stream.mvc THEN d
      ELSE [d EXCEPT !.output = @ \union new, !.queue[1] = Push(LatestFirst(new), @)]

(* The first dependent view of every queued base view, up to the first     *)
(* base view, in display order, without one.                               *)
CatchUp(d) ==
  LET bases == Elements(d.queue[0])
      reached == {b \in bases : \A c \in bases : d.rank[c] <= d.rank[b] =>
                                                  FirstDependent(c, d.toGet) # None}
      new == {FirstDependent(b, d.toGet) : b \in reached} \ d.output
  IN  IF ~stream.mvc THEN d
      ELSE [d EXCEPT !.output = @ \union new, !.queue[1] = Push(LatestFirst(new), @)]

(* The pictures awaiting output, in none of the queues, as the drain puts  *)
(* them back behind the queue of their view.                               *)
Requeue(d) ==
  LET lost == d.toGet \ (Elements(d.queue[0]) \union Elements(d.queue[1]))
  IN  [d EXCEPT !.output = @ \union lost,
                !.queue = [v \in View |-> @[v] \o LatestFirst(lost \intersect OfView(v))]]

AtLeastOne(n) == IF n < 1 THEN 1 ELSE n
QueuesFull ==
  \E v \in View :
    Len(dpb.queue[v]) + AtLeastOne(Cardinality(Waiting(dpb) \intersect OfView(v))) > QueueSize

(* The output when no NAL passes the queues any more: everything that fits *)
(* is queued, dependent views without base view are dropped.               *)
Unblocked ==
  LET room(v, d) == QueueSize - Len(d.queue[v])
      one == Bump(dpb, 0, {}, room(0, dpb))
      two == Bump(one, 1, {}, room(1, one))
      orphans == {s \in (Waiting(two) \intersect OfView(1)) \ {currPic} :
                    ~HasBase(s, two.toGet \intersect OfView(0))}
  IN  [two EXCEPT !.toGet = @ \ orphans]

-----------------------------------------------------------------------------
(* Returning from a call.  An eager caller then receives what there is.    *)
Turn(t) == turn' = IF stream.eager /\ t = "any" THEN "receive" ELSE t

Sending(result) ==
  /\ call' = "none"
  /\ wantFrame' = (result = "AGAIN")
  /\ at' = IF result = "AGAIN" THEN at ELSE at + 1
  /\ Turn(IF result = "AGAIN" THEN "receive" ELSE "any")
  /\ UNCHANGED <<stream, ended, drains, drained, outVars>>

Parsing == UNCHANGED <<stream, at, ended, wantFrame, drains, drained, turn, outVars>>

(* Single-threaded, every task but the held one has run when a call goes   *)
(* on.                                                                     *)
Settled == stream.threads \/ \A t \in tasks : t.nal = heldTask

(* output_stalled: nothing is with the caller, no task runs, and a round   *)
(* of receiving brought no frame since that was first seen.                *)
WithCaller == dpb.output \ dpb.toGet
OthersBusy == \E t \in tasks : t.nal # heldTask
Stalled == WithCaller = {} /\ undelivered
SeenStalled == WithCaller = {} /\ (undelivered \/ ~OthersBusy)

-----------------------------------------------------------------------------
(* edge264mvc_send_nal.  The first slice of a picture, or another NAL,     *)
(* ends the held slice.                                                    *)
SendNal ==
  /\ call = "none" /\ turn = "any" /\ at <= Len(stream.nals)
  /\ stream.nals[at].kind # "flush"
  /\ stream.eager => received = {}
  /\ heldTask' = IF stream.nals[at].kind # "slice" \/ 1 \in stream.nals[at].parts
                 THEN 0 ELSE heldTask
  /\ call' = "gate" /\ ended' = FALSE
  /\ UNCHANGED <<sendVars, dpb, frame, tasks, parseVars, idVars, source, flushing, undelivered,
                 wantFrame, drains, drained, turn, outVars>>

(* The queues have no room for what this NAL may queue.                    *)
QueueGate ==
  /\ call = "gate" /\ Settled /\ QueuesFull
  /\ undelivered' = SeenStalled
  /\ dpb' = IF Stalled THEN Unblocked ELSE dpb
  /\ flushing' = (flushing \/ Stalled)
  /\ Sending("AGAIN")
  /\ UNCHANGED <<frame, taskVars, parseVars, idVars, source>>

PassGate ==
  /\ call = "gate" /\ Settled /\ ~QueuesFull
  /\ flushing' = FALSE
  /\ call' = IF stream.nals[at].kind = "slice" THEN "slice" ELSE "end"
  /\ Parsing
  /\ UNCHANGED <<dpb, frame, taskVars, parseVars, idVars, source, undelivered>>

(* Fault: frame_num is taken to precede the last one.                      *)
FrameNumOf_Before(p, n) ==
  p.num - ((p.num - (IF n.idr # 0 THEN 0 ELSE n.num)) % FrameNumSpan)

(* derive_FrameNum, and the order count of type 0 after that of p: IDR     *)
(* pictures do not restart them.                                           *)
FrameNumOf(p, n) ==
  p.num + 1 + (((IF n.idr # 0 THEN 0 ELSE n.num) - p.num - 1) % FrameNumSpan)
PocOf(p, n) == p.poc + ((n.poc - p.poc + PocSpan \div 2) % PocSpan) - PocSpan \div 2

(* What tells the slice n from the open picture, each as in 7.4.1.2.4.     *)
NumChanged(n) == frame[currPic].num % FrameNumSpan # (IF n.idr # 0 THEN 0 ELSE n.num)
RefChanged(n) == Sent(currPic).ref # n.ref
IdrChanged(n) == Sent(currPic).idr # n.idr
PocChanged(n) == frame[currPic].poc % PocSpan # n.poc
StartsPicture(n) ==
  \/ currPic = None
  \/ frame[currPic].view # n.view
  \/ NumChanged(n) \/ RefChanged(n) \/ IdrChanged(n) \/ PocChanged(n)

(* A slice that must continue the open dependent view, for its frame       *)
(* number or because it starts further in, but would start a picture.      *)
Damaged(n) ==
  LET prev == IF marked THEN frame[currPic].num ELSE prevRef[1].num
      continues == 1 \notin n.parts
      repeats == ~n.intra /\ ((IF n.idr # 0 THEN 0 ELSE n.num) - prev - 1) % FrameNumSpan # 0
  IN  /\ currPic # None /\ n.view = 1 /\ frame[currPic].view = 1
      /\ \/ (continues \/ repeats) /\ (NumChanged(n) \/ RefChanged(n))
         \/ continues /\ IdrChanged(n)
         \/ (continues \/ repeats) /\ ~IdrChanged(n) /\ PocChanged(n)

(* unset_currPic: commits the marking of the picture that ends.            *)
EndPicture ==
  /\ currPic' = None /\ marked' = FALSE /\ heldTask' = 0
  /\ IF currPic # None /\ marked
     THEN /\ refs' = (refs \ OfView(frame[currPic].view)) \union marks
          /\ prevRef' = [prevRef EXCEPT ![frame[currPic].view] =
                           [num |-> frame[currPic].num, poc |-> frame[currPic].poc]]
     ELSE UNCHANGED <<refs, prevRef>>
  /\ basePic' = IF currPic # None /\ frame[currPic].view = 0 THEN currPic ELSE basePic
  /\ UNCHANGED marks

(* A slice: waits for a task, rejects a damaged one, ends the picture      *)
(* before, rejects an inter slice of a dependent view without base view,   *)
(* and conceals, unless there is a gap in frame_num to fill first.         *)
StartSlice ==
  LET n == stream.nals[at]
      new == StartsPicture(n)
      alone == n.view = 1 /\ ~n.intra /\ basePic' = None
      p == prevRef'[n.view]
      gap == n.idr = 0 /\ FrameNumOf(p, n) > p.num + 1
  IN  /\ call = "slice" /\ Settled
      /\ Cardinality(Writing) <= PicsInFlight
      /\ IF new /\ ~Damaged(n) THEN EndPicture ELSE UNCHANGED <<parseVars, heldTask>>
      /\ IF Damaged(n) \/ alone
         THEN /\ dpb' = CatchUp(dpb)
              /\ Sending("CORRUPT")
              /\ UNCHANGED frame
         ELSE /\ call' = CASE ~new -> "insert" [] new /\ gap -> "gap" [] new /\ ~gap -> "slot"
              /\ frame' = IF new /\ ~gap THEN Concealed(frame, tasks, None, dpb.toGet) ELSE frame
              /\ Parsing
              /\ UNCHANGED dpb
      /\ UNCHANGED <<tasks, idVars, source, flushing, undelivered>>

-----------------------------------------------------------------------------
(* Fault: frames with the caller are not held.                             *)
Held_Undelivered == refs \union dpb.toGet

(* Slots that hold a picture: the base view of a dependent view is kept,   *)
(* but not from the frames inferred for a gap.                             *)
Held == refs \union dpb.toGet \union dpb.output
Taken == Held \union (IF stream.nals[at].view = 1 THEN {basePic} \ {None} ELSE {})

(* Too few slots for c: the caller must receive, or else there is room to  *)
(* be made.                                                                *)
NoSlot(c, room, needed, taken) ==
  /\ call = c /\ Settled
  /\ needed + Cardinality(taken) > MaxFrames
  /\ undelivered' = SeenStalled
  /\ IF Stalled
     THEN /\ BumpAll
          /\ call' = room
          /\ Parsing
          /\ UNCHANGED source
     ELSE /\ dpb' = CatchUp(dpb)
          /\ source' = None
          /\ Sending("AGAIN")
  /\ UNCHANGED <<frame, taskVars, parseVars, idVars, flushing>>

(* The reference make_room gives up: the oldest of the view, else of both, *)
(* else of the frames inferred for a gap.                                  *)
OldestReference ==
  LET real == {s \in refs : frame[s].nal # 0}
      own == real \intersect OfView(stream.nals[at].view)
      from == CASE own # {} -> own [] own = {} /\ real # {} -> real [] OTHER -> refs
  IN  CHOOSE s \in from : \A t \in from : frame[s].id <= frame[t].id

(* The end of bump_all_frames, once no task is busy.                       *)
Drained ==
  /\ tasks = {}
  /\ frame' = [s \in Slot |->
                 IF s \in dpb.toGet THEN [frame[s] EXCEPT !.missing = {}] ELSE frame[s]]

Room(room, c) ==
  /\ call = room /\ Drained
  /\ LET d == Requeue(dpb) IN
       IF d.toGet \union d.output # {}
       THEN /\ dpb' = CatchUp(d)
            /\ flushing' = TRUE
            /\ source' = None
            /\ Sending("AGAIN")
            /\ UNCHANGED refs
       ELSE /\ refs' = refs \ {OldestReference}
            /\ call' = c
            /\ Parsing
            /\ UNCHANGED <<dpb, flushing, source>>
  /\ UNCHANGED <<taskVars, currPic, basePic, marks, marked, prevRef, idVars, undelivered>>

(* The numbers of calls of bump_frame, up to most, after which references, *)
(* waiting pictures and more slots are within max_dec_frame_buffering.     *)
Enough(d, v, references, more, most) ==
  {k \in 0 .. most :
     more + Cardinality(references \union Waiting(Bump(d, v, {}, k))) <= stream.buffering}
Fewest(enough) == CHOOSE k \in enough : \A l \in enough : k <= l

(* A gap in frame_num: the oldest references make room for the frames      *)
(* inferred, which get the samples of the latest reference, and pictures   *)
(* are bumped until the DPB holds them.                                    *)
Inferred(n) ==
  LET skipped == FrameNumOf(prevRef[n.view], n) - prevRef[n.view].num - 1
  IN  IF skipped < stream.numRef THEN skipped ELSE stream.numRef

StartGap ==
  LET n == stream.nals[at]
      own == refs \intersect OfView(n.view)
      older(s) == {t \in own : frame[t].num < frame[s].num}
      excess == Inferred(n) + Cardinality(own) - stream.numRef
      dropped == {s \in own : Cardinality(older(s)) < excess}
      enough == Enough(dpb, n.view, refs \ dropped, Inferred(n), MaxFrames)
  IN  /\ call = "gap" /\ Settled
      /\ source' = IF own = {} THEN None
                   ELSE CHOOSE s \in own : \A t \in own : frame[t].id <= frame[s].id
      /\ refs' = refs \ dropped
      /\ dpb' = Bump(dpb, n.view, {}, IF enough = {} THEN MaxFrames ELSE Fewest(enough))
      /\ call' = "fill"
      /\ Parsing
      /\ UNCHANGED <<frame, taskVars, currPic, basePic, marks, marked, prevRef, idVars,
                     flushing, undelivered>>

FillGap ==
  LET n == stream.nals[at]
      m == Inferred(n)
      free == Slot \ (Held \union Busy)
      lower(s) == Cardinality({x \in free : x < s})
      num == FrameNumOf(prevRef[n.view], n)
      filled == [s \in Slot |->
        IF s \in free /\ lower(s) < m
        THEN [frame[s] EXCEPT !.nal = 0,
                              !.from = IF source = None THEN 0 ELSE frame[source].from,
                              !.view = n.view, !.num = num - m + lower(s), !.poc = 0,
                              !.missing = {}, !.id = prevFrameId + 1 + lower(s)]
        ELSE IF s = source THEN [frame[s] EXCEPT !.missing = {}] ELSE frame[s]]
  IN  /\ call = "fill" /\ Settled
      /\ m + Cardinality(Held) <= MaxFrames /\ Cardinality(free) >= m
      /\ source # None => Complete(source) \/ source \notin Writing
      /\ frame' = Concealed(filled, tasks, None, dpb.toGet)
      /\ refs' = refs \union {s \in free : lower(s) < m}
      /\ prevFrameId' = prevFrameId + m
      /\ prevRef' = [prevRef EXCEPT ![n.view].num = num - 1]
      /\ source' = None
      /\ call' = "slot"
      /\ Parsing
      /\ UNCHANGED <<dpb, taskVars, currPic, basePic, marks, marked, lastBaseId, resume,
                     leading, flushing, undelivered>>

GapFull == NoSlot("fill", "fill room", Inferred(stream.nals[at]), Held)
DpbFull == NoSlot("slot", "room", 1, Taken)
MakeRoom == Room("fill room", "fill") \/ Room("room", "slot")

(* A slot no task reads or writes: the lowest one.                         *)
AllocSlot ==
  LET n == stream.nals[at]
      free == Slot \ (Taken \union Busy)
      s == CHOOSE x \in free : \A y \in free : x <= y
      id == prevFrameId + 1
      order == PocOf(prevRef[n.view], n)
      state == IF n.idr # 0 THEN 2 ELSE IF resume.state = 0 THEN 1 ELSE resume.state
      poc == IF n.idr = 0 /\ resume.state = 0 THEN order ELSE resume.poc
      new == [nal |-> at, from |-> at, view |-> n.view, num |-> FrameNumOf(prevRef[n.view], n),
              poc |-> order, missing |-> Part, id |-> id,
              before |-> IF n.view = 1 THEN lastBaseId ELSE frame[s].before,
              after |-> IF n.view = 1 THEN 0 ELSE frame[s].after]
  IN  /\ call = "slot" /\ Settled
      /\ Taken # Slot /\ free # {}
      /\ currPic' = s /\ marked' = FALSE
      /\ prevFrameId' = id
      /\ lastBaseId' = IF n.view = 0 THEN id + 1 ELSE lastBaseId
      /\ frame' = [x \in Slot |->
                     IF x = s THEN new
                     ELSE IF n.view = 0 /\ frame[x].view = 1 /\ frame[x].after = 0
                          THEN [frame[x] EXCEPT !.after = id + 1] ELSE frame[x]]
      /\ resume' = [state |-> state, poc |-> poc]
      /\ leading' = IF state = 1 /\ order < poc THEN leading \union {s} ELSE leading \ {s}
      /\ call' = "insert"
      /\ Parsing
      /\ UNCHANGED <<dpb, taskVars, basePic, refs, marks, prevRef, source, flushing,
                     undelivered>>

(* Fault: one reference too many stays.                                    *)
Window_More(n, old) ==
  LET oldest == CHOOSE s \in old : \A t \in old : frame[s].num <= frame[t].num
  IN  (IF Cardinality(old) > stream.numRef THEN old \ {oldest} ELSE old) \union {currPic}

(* What the marking of a reference picture leaves of the references of its *)
(* view: an IDR picture itself only, others after a sliding window.        *)
Window(n, old) ==
  LET oldest == CHOOSE s \in old : \A t \in old : frame[s].num <= frame[t].num
  IN  IF n.idr # 0 THEN {currPic}
      ELSE (IF Cardinality(old) >= stream.numRef /\ old # {} THEN old \ {oldest} ELSE old)
           \union {currPic}

(* The new picture of n in d: pictures are bumped while the DPB is over its*)
(* size, as many as a picture may bump, then the picture itself goes out at*)
(* once, or one picture more than the reordering allows.                   *)
Insert(d, n, references) ==
  LET lower == {s \in Waiting(d) \intersect OfView(n.view) : frame[s].poc < frame[currPic].poc}
      maxBump == IF n.ref THEN stream.numRef ELSE Cardinality(lower)
      direct(put) == [put EXCEPT !.output = @ \union {currPic}, !.rank[currPic] = put.next,
                                 !.next = @ + 1, !.queue[n.view] = Push(<<currPic>>, @)]
      more(put) == Cardinality(Waiting(put) \intersect OfView(n.view)) > stream.reorder
  IN  \E enough \in {Enough(d, n.view, references, 0, maxBump)} :
      \E bumped \in {Bump(d, n.view, {}, IF enough = {} THEN maxBump ELSE Fewest(enough))} :
      \E put \in {[bumped EXCEPT !.toGet = @ \union {currPic}]} :
      \E new \in {CASE enough = {} -> direct(put)
                    [] enough # {} /\ more(put) -> Bump(put, n.view, {}, 1)
                    [] OTHER -> put} :
        dpb' = CatchUp(new)

(* The rest of the slice header, the new picture in the DPB and the task.  *)
InsertSlice ==
  LET n == stream.nals[at]
      old == refs \intersect OfView(n.view)
      window == IF n.ref THEN Window(n, old) ELSE old
      prior == IF n.ref /\ n.idr # 0 THEN Bump(dpb, n.view, {currPic}, MaxFrames) ELSE dpb
      lists == IF n.intra THEN {} ELSE old \union (IF n.view = 1 THEN {basePic} \ {None} ELSE {})
      task == [nal |-> at, slot |-> currPic, id |-> frame[currPic].id, parts |-> n.parts,
               deps |-> {<<s, frame[s].id>> : s \in lists}]
  IN  /\ call = "insert" /\ Settled
      /\ IF n.bad
         THEN /\ marks' = old /\ marked' = FALSE
              /\ dpb' = CatchUp(dpb)
              /\ Sending("CORRUPT")
              /\ UNCHANGED <<frame, taskVars>>
         ELSE /\ marks' = window /\ marked' = n.ref
              /\ \E d \in {prior} :
                   IF currPic \in d.toGet THEN dpb' = CatchUp(d)
                   ELSE Insert(d, n, (refs \ OfView(n.view)) \union window)
              /\ tasks' = tasks \union {task} /\ heldTask' = at
              /\ frame' = Concealed(frame, tasks', currPic, dpb'.toGet)
              /\ Sending("OK")
      /\ UNCHANGED <<currPic, basePic, refs, prevRef, idVars, source, flushing, undelivered>>

(* parse_end_of_sequence: everything out, then everything forgotten but    *)
(* the frames with the caller.                                             *)
StartSequenceEnd ==
  /\ call = "end" /\ ~ended
  /\ flushing' = TRUE
  /\ EndPicture
  /\ BumpAll
  /\ call' = "sequence"
  /\ Parsing
  /\ UNCHANGED <<frame, tasks, idVars, source, undelivered>>

(* clear_decoder.                                                          *)
Clear(f) ==
  /\ dpb' = [dpb EXCEPT !.toGet = {}, !.output = WithCaller, !.queue = [v \in View |-> <<>>],
                        !.rank = [s \in Slot |-> 0]]
  /\ frame' = [s \in Slot |-> [f[s] EXCEPT !.view = 0, !.num = 0, !.poc = 0, !.id = 0,
                                        !.before = 0, !.after = 0]]
  /\ heldTask' = 0
  /\ currPic' = None /\ basePic' = None /\ refs' = {} /\ marks' = {} /\ marked' = FALSE
  /\ prevRef' = [v \in View |-> [num |-> -1, poc |-> 0]] /\ source' = None
  /\ lastBaseId' = 0 /\ resume' = [state |-> 0, poc |-> 0] /\ leading' = {}
  /\ flushing' = FALSE
  /\ shown' = [v \in View |-> [base |-> 0, prev |-> 0, have |-> FALSE]]
  /\ UNCHANGED <<tasks, prevFrameId, received, out>>

EndSequence ==
  /\ call = "sequence"
  /\ IF dpb.toGet # {}
     THEN /\ Drained
          /\ dpb' = CatchUp(Requeue(dpb))
          /\ Sending("AGAIN")
          /\ UNCHANGED <<taskVars, parseVars, idVars, source, flushing>>
     ELSE /\ tasks = {}
          /\ Clear(frame)
          /\ call' = "none" /\ at' = at + 1 /\ wantFrame' = FALSE /\ Turn("any")
          /\ UNCHANGED <<stream, ended, drains, drained>>
  /\ UNCHANGED undelivered

(* edge264mvc_flush.                                                       *)
Flush ==
  /\ call = "none" /\ turn = "any" /\ at <= Len(stream.nals)
  /\ stream.nals[at].kind = "flush"
  /\ heldTask' = 0 /\ call' = "flush"
  /\ UNCHANGED <<sendVars, dpb, frame, tasks, parseVars, idVars, source, flushing,
                 undelivered, ended, wantFrame, drains, drained, turn, outVars>>

Flushed ==
  /\ call = "flush" /\ tasks = {}
  /\ Clear(frame)
  /\ call' = "none" /\ at' = at + 1
  /\ ended' = FALSE /\ wantFrame' = FALSE /\ undelivered' = FALSE
  /\ UNCHANGED <<stream, drains, drained, turn>>

-----------------------------------------------------------------------------
(* A task ends, but not the held one: without threads it has not started,  *)
(* with threads it waits for its bound.  Whoever waits in receive_frame    *)
(* looks again.                                                            *)
Finish(t) ==
  /\ t \in tasks /\ t.nal # heldTask
  /\ \A d \in t.deps : d[1] # t.slot => Complete(d[1])
  /\ \A u \in tasks : u.slot = t.slot => t.nal <= u.nal
  /\ tasks' = tasks \ {t}
  /\ frame' = Concealed([frame EXCEPT ![t.slot].missing = @ \ t.parts], tasks', currPic,
                        dpb.toGet)
  /\ call' = IF call = "await" THEN "get" ELSE call
  /\ UNCHANGED <<sendVars, dpb, heldTask, parseVars, idVars, source, flushing, undelivered,
                 ended, wantFrame, drains, drained, turn, outVars>>

-----------------------------------------------------------------------------
(* get_frame.                                                              *)
Bases == Elements(dpb.queue[0])
Lowest(S) == CHOOSE s \in S : \A t \in S : dpb.rank[s] <= dpb.rank[t]
(* Fault: pictures go out undecoded.                                       *)
Ready_All == Bases
Ready == {s \in Bases : Complete(s) \/ (flushing /\ s # currPic)}

(* Fault: a later frame overtakes it.                                      *)
Overtaking_Never == FALSE
(* The next frame to display is still being decoded: later ones are held.  *)
Overtaking ==
  /\ Lowest(Ready) # Lowest(Bases) /\ ~flushing
  /\ Lowest(Bases) \in Writing \union {currPic}

(* The dependent view that goes with base b: the first complete one of the *)
(* queue, else a complete one bumped now.                                  *)
Partner(b) ==
  LET q == dpb.queue[1]
      queued == {i \in DOMAIN q : Complete(q[i]) /\ SameAccessUnit(b, q[i])}
      unqueued == FirstDependent(b, Waiting(dpb))
  IN  IF queued # {} THEN q[CHOOSE i \in queued : \A j \in queued : i <= j]
      ELSE IF unqueued # None /\ Complete(unqueued) THEN unqueued ELSE None

(* Fault: a flush does not let it go.                                      *)
MayGoAlone_Full(b) ==
  /\ FirstDependent(b, dpb.toGet) = None
  /\ Len(dpb.queue[0]) + Len(dpb.queue[1]) + AtLeastOne(Cardinality(Waiting(dpb))) > QueueSize

(* A base view whose dependent view never comes goes out alone at a flush  *)
(* or when the queues are full.                                            *)
MayGoAlone(b) ==
  /\ FirstDependent(b, dpb.toGet) = None
  /\ \/ flushing
     \/ Len(dpb.queue[0]) + Len(dpb.queue[1]) + AtLeastOne(Cardinality(Waiting(dpb))) > QueueSize

NextBase == Lowest(Ready)
NextDependent == IF stream.mvc THEN Partner(NextBase) ELSE None
Deliverable ==
  /\ Ready # {} /\ ~Overtaking
  /\ stream.mvc => NextDependent # None \/ MayGoAlone(NextBase)

(* unwrap_output_poc: the display key of a view, increasing over IDR       *)
(* pictures.                                                               *)
Unwrapped(last, poc) ==
  LET value == last.base + poc
      deficit == last.prev - value + 1
      span == IF PocSpan > 0 THEN PocSpan ELSE 1
      base == IF last.have /\ value <= last.prev
              THEN last.base + ((deficit + span - 1) \div span) * span ELSE last.base
  IN  [base |-> base, prev |-> base + poc, have |-> TRUE]

Delivered ==
  [dpb EXCEPT !.toGet = @ \ {NextBase, NextDependent},
              !.output = @ \union ({NextDependent} \ {None}),
              !.queue = [v \in View |-> Without(@[v], IF v = 0 THEN NextBase ELSE NextDependent)]]

ShownNext ==
  [v \in View |-> IF v = 0 THEN Unwrapped(shown[0], frame[NextBase].poc)
                  ELSE IF NextDependent = None THEN shown[1]
                  ELSE Unwrapped(shown[1], frame[NextDependent].poc)]

FrameOf(s) == IF s = None THEN <<>> ELSE <<frame[s].nal>>

Looking == call \in {"get", "last", "rest"} /\ Settled /\ Cardinality(received) < MaxReceived

(* receive_frame returns a frame.                                          *)
GiveFrame ==
  LET f == [base |-> NextBase, dep |-> NextDependent, display |-> ShownNext[0].prev,
            nals |-> FrameOf(NextBase) \o FrameOf(NextDependent)]
  IN  /\ Looking /\ Deliverable
      /\ {NextBase, NextDependent} \intersect leading = {}
      /\ dpb' = Delivered /\ shown' = ShownNext
      /\ received' = received \union {f} /\ out' = Append(out, f)
      /\ undelivered' = FALSE /\ wantFrame' = FALSE
      /\ call' = "none" /\ drains' = 0 /\ Turn("any")
      /\ UNCHANGED <<sendVars, frame, taskVars, parseVars, idVars, source, flushing, ended,
                     drained>>

(* get_output_frame passes over the frames displayed before the picture    *)
(* decoding resumed at.                                                    *)
SkipLeading ==
  /\ Looking /\ Deliverable
  /\ {NextBase, NextDependent} \intersect leading # {}
  /\ dpb' = [Delivered EXCEPT !.output = @ \ {NextBase, NextDependent}]
  /\ shown' = ShownNext
  /\ undelivered' = FALSE
  /\ UNCHANGED <<sendVars, frame, taskVars, parseVars, idVars, source, flushing, ended,
                 wantFrame, call, drains, drained, turn, received, out>>

(* Queued dependent views whose base view is gone, which nobody writes.    *)
Orphans ==
  {d \in Elements(dpb.queue[1]) \ (Writing \union {currPic}) :
     ~HasBase(d, (dpb.toGet \union Writing) \intersect OfView(0))}

DropOrphans ==
  LET orphans == IF stream.mvc THEN Orphans ELSE {}
  IN  /\ dpb' = [dpb EXCEPT !.toGet = @ \ orphans, !.output = @ \ orphans,
                            !.queue[1] = LeftIn(@, orphans)]
      /\ undelivered' = (undelivered /\ orphans = {})

Answer(result) ==
  /\ call' = "none" /\ drains' = 0
  /\ turn' = IF result = "END" THEN "over" ELSE "any"

(* No frame: at the end of the stream, drain; after AGAIN, wait for one.   *)
NoFrame ==
  /\ Looking /\ ~Deliverable
  /\ DropOrphans
  /\ CASE call = "get" /\ ended -> call' = "end" /\ UNCHANGED <<drains, turn>>
       [] call = "get" /\ ~ended /\ wantFrame /\ stream.threads ->
            call' = "due" /\ UNCHANGED <<drains, turn>>
       [] call = "rest" /\ drained -> Answer("END")
       [] call = "rest" /\ ~drained /\ stream.threads /\ tasks # {} ->
            call' = "await" /\ UNCHANGED <<drains, turn>>
       [] call = "rest" /\ ~drained /\ ~(stream.threads /\ tasks # {}) ->
            IF drains = 4 THEN Answer("END")
            ELSE call' = "get" /\ drains' = drains + 1 /\ UNCHANGED turn
       [] OTHER -> Answer("AGAIN")
  /\ UNCHANGED <<sendVars, frame, taskVars, parseVars, idVars, source, flushing, ended,
                 wantFrame, drained, outVars>>

-----------------------------------------------------------------------------
(* edge264mvc_receive_frame, edge264mvc_send_end, and release_frame.       *)
Receive ==
  /\ call = "none" /\ turn # "over"
  /\ stream.eager => turn = "receive" \/ ended
  /\ Cardinality(received) < (IF stream.eager THEN 1 ELSE MaxReceived)
  /\ call' = "get" /\ drains' = 0
  /\ UNCHANGED <<sendVars, dpb, frame, taskVars, parseVars, idVars, source, flushing,
                 undelivered, ended, wantFrame, drained, turn, outVars>>

SendEnd ==
  /\ call = "none" /\ turn = "any" /\ at > Len(stream.nals) /\ ~ended
  /\ ended' = TRUE /\ wantFrame' = FALSE
  /\ UNCHANGED <<sendVars, dpb, frame, taskVars, parseVars, idVars, source, flushing,
                 undelivered, call, drains, drained, turn, outVars>>

Release(f) ==
  /\ call = "none" /\ f \in received
  /\ dpb' = [dpb EXCEPT !.output = @ \ {f.base, f.dep}]
  /\ received' = received \ {f}
  /\ UNCHANGED <<sendVars, frame, taskVars, parseVars, idVars, source, flushing,
                 undelivered, ended, wantFrame, call, drains, drained, turn, out, shown>>

(* After AGAIN: wait while tasks other than the held one are busy, else    *)
(* look once more.                                                         *)
Due ==
  /\ call = "due"
  /\ call' = IF OthersBusy THEN "await" ELSE "last"
  /\ UNCHANGED <<sendVars, dpb, frame, taskVars, parseVars, idVars, source, flushing,
                 undelivered, ended, wantFrame, drains, drained, turn, outVars>>

(* decode_nal with no NAL at the end of the stream.                        *)
StartDrain ==
  /\ call = "end" /\ ended /\ Settled
  /\ IF QueuesFull
     THEN /\ undelivered' = SeenStalled
          /\ dpb' = IF Stalled THEN Unblocked ELSE dpb
          /\ flushing' = (flushing \/ Stalled)
          /\ call' = "rest" /\ drained' = FALSE
          /\ UNCHANGED <<parseVars, heldTask>>
     ELSE /\ flushing' = TRUE
          /\ EndPicture
          /\ BumpAll
          /\ call' = "drain"
          /\ UNCHANGED <<undelivered, drained>>
  /\ UNCHANGED <<sendVars, frame, tasks, idVars, source, ended, wantFrame, drains, turn,
                 outVars>>

Drain ==
  /\ call = "drain" /\ Drained
  /\ dpb' = Requeue(dpb)
  /\ drained' = (dpb'.toGet \union dpb'.output = {})
  /\ call' = "rest"
  /\ UNCHANGED <<sendVars, taskVars, parseVars, idVars, source, flushing, undelivered,
                 ended, wantFrame, drains, turn, outVars>>

-----------------------------------------------------------------------------
Sender ==
  \/ QueueGate \/ PassGate \/ StartSlice \/ StartGap \/ GapFull \/ FillGap
  \/ DpbFull \/ MakeRoom \/ AllocSlot \/ InsertSlice \/ StartSequenceEnd
  \/ EndSequence \/ Flushed
Receiver == GiveFrame \/ SkipLeading \/ NoFrame \/ Due \/ StartDrain \/ Drain
Caller == SendNal \/ Flush \/ Receive \/ SendEnd \/ \E f \in received : Release(f)
Worker == \E t \in tasks : Finish(t)

Next == Sender \/ Receiver \/ Caller \/ Worker
Spec == Init /\ [][Next]_vars

(* Calls go on and tasks end; and this caller sends its stream, receives   *)
(* and returns frames.                                                     *)
FairSpec ==
  /\ Spec /\ WF_vars(Sender \/ Receiver)
  /\ WF_vars(Worker)
  /\ SF_vars(SendNal \/ Flush \/ SendEnd)
  /\ SF_vars(Receive) /\ SF_vars(\E f \in received : Release(f))

-----------------------------------------------------------------------------
(* Properties.                                                             *)

(* The queues hold the pictures bumped and not delivered, each once: a     *)
(* picture pushed out of a queue, or left in none, would never be output   *)
(* (dequeue_frame, queue_push).                                            *)
QueuesHoldBumped ==
  \A v \in View :
    LET q == dpb.queue[v] IN
    /\ Elements(q) = dpb.toGet \intersect dpb.output \intersect OfView(v)
    /\ Cardinality(Elements(q)) = Len(q)

(* Pictures with the caller keep their samples until they are returned.    *)
ReceivedKept ==
  \A f \in received :
    /\ {f.base, f.dep} \ {None} \subseteq dpb.output \ dpb.toGet
    /\ FrameOf(f.base) \o FrameOf(f.dep) = f.nals

(* No picture is received twice.                                           *)
ReceivedOnce ==
  \A i, j \in DOMAIN out : i # j => Elements(out[i].nals) \intersect Elements(out[j].nals) = {}

(* Only complete pictures are received: conceal or decode first.           *)
ReceivedComplete ==
  [][out' # out => \A s \in {NextBase, NextDependent} \ {None} : Complete(s)]_vars

(* A slot that a task reads or writes keeps its picture: a picture dropped *)
(* or delivered meanwhile gives its slot away only after the task.         *)
TasksKeepSlots ==
  \A t \in tasks :
    /\ \A d \in t.deps : frame[d[1]].id = d[2]
    /\ frame[t.slot].id = t.id \/ Complete(t.slot)

(* What the samples of references and of the asserts of                    *)
(* parse_slice_layer_without_partitioning rest on: each view has no more   *)
(* of them than max_num_ref_frames.                                        *)
MarkingBounded == \A v \in View : Cardinality(refs \intersect OfView(v)) <= stream.numRef

Shows == [i \in DOMAIN out |-> out[i].nals]
IsPrefix(s, t) == Len(s) <= Len(t) /\ \A i \in DOMAIN s : s[i] = t[i]
Flushes == \E i \in DOMAIN stream.nals : stream.nals[i].kind = "flush"

(* The frames received are those of the stream, in display order and with  *)
(* both views, whatever the threads, the caller and the order in which     *)
(* pictures get decoded; those of a damaged stream too.                    *)
InDisplayOrder == Flushes \/ IsPrefix(Shows, stream.shows)

(* END tells that every frame was received.                                *)
EndMeansAll == turn = "over" /\ ~Flushes => Shows = stream.shows

(* The display order of frames increases over the life of the decoder, as  *)
(* edge264mvc.h promises (display_order).                                  *)
DisplayOrderIncreases == \A i \in 2 .. Len(out) : out[i - 1].display < out[i].display

(* The frames inferred for a gap show the latest reference of the view, if *)
(* there ever was one: predicting from them must not read another picture, *)
(* or one that depends on when the caller receives.                        *)
GapFramesCopied ==
  \A s \in refs :
    (\E i \in 1 .. at - 1 : stream.nals[i].ref /\ stream.nals[i].view = frame[s].view)
      => frame[s].from # 0

(* Every stream comes to its end: AGAIN never goes on for good.            *)
Ends == <>(turn = "over")
-----------------------------------------------------------------------------
(* What the properties rest on, proved in DpbMarking and DpbOutput.        *)

(* Slices n and m have the header of the same picture (7.4.1.2.4).         *)
Number(n) == IF n.idr # 0 THEN 0 ELSE n.num
SamePicture(n, m) ==
  /\ n.view = m.view /\ n.ref = m.ref /\ n.idr = m.idr
  /\ Number(n) % FrameNumSpan = Number(m) % FrameNumSpan
  /\ n.poc % PocSpan = m.poc % PocSpan

(* No slice from i to j is of the other view, nor, in the base view, of    *)
(* another picture; a dependent view may have damaged ones.                *)
Together(nals, i, j) ==
  \A k \in i .. j : /\ nals[k].kind = "slice" /\ nals[k].view = nals[i].view
                    /\ nals[k].view = 0 => SamePicture(nals[i], nals[k])

(* No part of a picture is sent twice.                                     *)
SentOnce(st) ==
  /\ \A i \in DOMAIN st.nals : st.nals[i].kind = "slice" => st.nals[i].parts # {}
  /\ \A i, j \in DOMAIN st.nals :
       i < j /\ Together(st.nals, i, j) /\ SamePicture(st.nals[i], st.nals[j])
         => st.nals[i].parts \intersect st.nals[j].parts = {}

(* Slices come once: what one brings nobody has decoded, or is decoding.   *)
SlicesNew ==
  LET n == stream.nals[at] IN
  call = "insert" =>
    /\ n.parts # {} /\ n.parts \subseteq frame[currPic].missing
    /\ \A t \in tasks : t.slot = currPic => t.parts \intersect n.parts = {}

(* What a task decodes is missing from its picture until it ends.          *)
TasksDecode ==
  /\ \A t \in tasks : /\ t.parts # {} /\ t.parts \subseteq frame[t.slot].missing
                      /\ frame[t.slot].id = t.id
  /\ \A t, u \in tasks : t # u /\ t.slot = u.slot => t.parts \intersect u.parts = {}

(* The NAL that is being sent; nothing is open between two pictures.       *)
Placing == {"slot", "room", "gap", "fill", "fill room"}
NalSent ==
  /\ call \in {"gate", "slice", "insert", "sequence", "flush"} \union Placing => at <= Len(stream.nals)
  /\ call = "end" /\ ~ended => at <= Len(stream.nals)
  /\ call \in Placing => currPic = None
  /\ call = "insert" => currPic # None /\ frame[currPic].view = stream.nals[at].view

(* The open picture: what is decoded of it, or being decoded, came with    *)
(* its slices, which were sent since its first one.                        *)
Parted(s) == (Part \ frame[s].missing) \union UNION {t.parts : t \in {u \in tasks : u.slot = s}}
SlicesOfPicture ==
  currPic # None =>
    LET nals == stream.nals
        first == frame[currPic].nal
        last == IF call = "insert" THEN at ELSE at - 1
    IN  /\ first \in 1 .. last /\ Together(nals, first, last)
        /\ frame[currPic].view = nals[first].view
        /\ frame[currPic].num % FrameNumSpan = Number(nals[first]) % FrameNumSpan
        /\ frame[currPic].poc % PocSpan = nals[first].poc % PocSpan
        /\ call = "insert" => SamePicture(nals[first], nals[at])
        /\ \A p \in Parted(currPic) : \E i \in first .. at - 1 :
             SamePicture(nals[first], nals[i]) /\ p \in nals[i].parts

OpenInv ==
  /\ call \in {"slice", "insert"} \union Placing => stream.nals[at].kind = "slice"
  /\ call \in {"drain", "sequence"} => currPic = None
  /\ SlicesOfPicture

(* The marking to commit with the open picture is of its view, and the     *)
(* references leave room for the frames inferred for a gap.                *)
MarksOfView == marked => currPic # None /\ marks \subseteq OfView(frame[currPic].view)
MarksFew == Cardinality(marks) <= stream.numRef
GapFits ==
  call \in {"fill", "fill room"} =>
    Inferred(stream.nals[at]) + Cardinality(refs \intersect OfView(stream.nals[at].view))
      <= stream.numRef

NumbersNatural ==
  /\ \A v \in View : prevRef[v].num >= -1
  /\ prevFrameId >= -1
  /\ \A s \in Slot : frame[s].num >= 0 /\ frame[s].id >= 0

(* References keep the picture that a task reads.                          *)
ReadersKeepSlots == \A t \in tasks : \A d \in t.deps : frame[d[1]].id = d[2]

MarkingInv == /\ PictureTypes /\ NalSent /\ MarksOfView /\ MarksFew /\ MarkingBounded
              /\ GapFits /\ NumbersNatural /\ ReadersKeepSlots

(* Pictures to output differ in their number.                              *)
Numbered == dpb.toGet \union ({currPic} \ {None})
NumberedApart ==
  /\ \A s \in Numbered : frame[s].id <= prevFrameId
  /\ \A s, t \in Numbered : frame[s].id = frame[t].id => s = t

SlotsOfFrame(f) == {f.base, f.dep} \ {None}
ReceivedApart ==
  /\ \A f, g \in received : f # g => SlotsOfFrame(f) \intersect SlotsOfFrame(g) = {}
  /\ currPic \in WithCaller => Complete(currPic)

(* The pictures to output were sent before, each with a NAL of its own,    *)
(* and none was received.  An open picture may have been, once complete.   *)
Given == UNION {Elements(out[i].nals) : i \in DOMAIN out}
GivenInv ==
  /\ ReceivedOnce /\ Given \subseteq 0 .. at - 1
  /\ \A s \in Numbered : /\ frame[s].nal < at \/ (call = "insert" /\ frame[s].nal = at)
                         /\ frame[s].nal \in Given =>
                              s = currPic /\ s \notin dpb.toGet /\ Complete(s)
  /\ \A s, t \in Numbered : frame[s].nal = frame[t].nal => s = t
=============================================================================
