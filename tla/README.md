# A specification of edge264-mvc

edge264-mvc decodes H.264 and its two-view extension (MVC) in software, in C, with one parser thread
(the caller's, inside an API call) and any number of worker threads. This directory holds TLA+ models
of the parts of it that are hard to test (who waits for whom, who wakes whom, which slot holds which
picture, what a damaged stream leaves in a picture), the TLC runs that check them on small instances
and TLAPS proofs of what matters most for every instance. Paths below are relative to `src/src/`:
`headers.c`, `internal.h`, `slice.c`, `inter.c` stand for `edge264mvc_headers.c` and so on, and `edge264mvc.c`
is the file with the public API.

## 1. The system

| Component | State it keeps | Operations | Interacts with |
|---|---|---|---|
| Public API (`edge264mvc.c`) | `want_frame`, `ended`, `undelivered`, `flushing` | `send_nal`, `send_end`, `receive_frame`, `release_frame`, `flush`, `close` | parser (call), workers (`task_complete`), output |
| NAL dispatch (`decode_nal`) | the current NAL, the held slice | copy the NAL, lock, release the held slice, output gate, parser | all parsers, output queues |
| Slice parser (`parse_slice_layer_without_partitioning`, `unset_currPic`, `settle_mb_bounds`) | `currPic`, `basePic`, `held_task` | wait for a task, end a picture, conceal, allocate a slot, bound the slice before, create the task | task pool, DPB, marking |
| Task pool (`worker_loop`) | `busy_tasks`, `pending_tasks`, `ready_tasks`, `chained_tasks`, `acked_tasks`, `task_after`, `task_dependencies`, `taskPics`, `task_bounds`, `task_seq` | take the oldest ready task, decode, publish, count, finish, go on with the next slice of the picture | parser (lock, `task_complete`), workers (`task_ready`), slots |
| Progress of a slot (`publish_frame_progress`, `wait_frame_locked`) | `next_deblock_addr`, `progress_wake_addr`, `frame_progress` | publish, wait for rows, wait for a bound, wait for acks, wake | workers, parser |
| Concealment (`recover_slice`, `conceal_frame`, `release_terminal_task_dependencies`) | macroblock flags, `frame_flags` | recover a slice in error, conceal a picture without writers | task pool, slots, output |
| DPB output (`bump_frame`, `catch_up_dependent_bumps`, `get_frame`, `make_room`, `output_stalled`, `unblock_output`) | `to_get_frames`, `output_frames`, `get_frame_queue`, `DispOrder` | bump, pair the views, deliver, drop an orphan, relieve a stall | parser, API |
| Reference marking (`parse_dec_ref_pic_marking`, frame_num gaps, POC) | `short_term_frames`, `long_term_frames`, their `prev_` copies, `PrevRefFrameNum`, `prevPicOrderCnt` | sliding window, MMCO, fill a gap, commit at the end of the picture | parser, slot allocation |
| Reference lists and weights (`parse_ref_pic_list_modification`, `initialize_task`, `initialize_context`) | `RefPicList`, `implicit_weights`, `DistScaleFactor` | initial lists, modifications, fall back of scaling lists, weights of frames and fields | marking, slice loop |
| Parameter sets (`parse_seq_parameter_set`, `parse_pic_parameter_set`) | `sps`, `ssps`, `PPS`, `out`, `stale_frames`, the frame buffers | accept, commit, change the format, free and take buffers | all parsers, output, API |
| Slice loop (`parse_slice_data`, `initialize_context`, `mbaff_neighbours`, `mbaff_state`) | position, `mb`, the ring of values, pointer tables, `filter_edges`, frontier; of a pair `mb_field`, `mb_skip_run` | position a macroblock, decode it, deblock behind it, advance, switch between frames and fields | task pool (bounds, publication), prediction |
| Motion vector prediction (`mvpred.c`), slice group maps (`derive_fmo_map`) | none | a prediction from a neighbourhood; a map from the picture set | slice loop |
| Deblocking (`deblock_mb`, `deblock_mbaff_picture`) | thresholds and `tC0` of the edges of a macroblock | strengths of its edges; the samples that face each other between frame and field pairs | slice loop |
| Bitstream, SEI, entropy decoding, sample prediction, residuals, samples of the deblocking filters | per slice | sequential computation | slice loop |

One mutex, `dec->lock`, guards everything but the macroblocks, the frontiers (`next_deblock_addr`), the
wake addresses, the bounds and the acks, which are atomics used with and without it. There are three
kinds of condition variables: `task_ready` (workers without a task), `task_complete` (the parser, or a caller
of `receive_frame`), and one `frame_progress` per slot (readers waiting for rows, a slice waiting for its
bound, a slice waiting for older ones, the parser waiting for acks). `n_threads` 1 decodes on the calling
thread and is the reference for what comes out.

What makes each component correct, and hard:

- *task pool*: no signal lost though `task_ready` is signalled one worker at a time; the slices of a picture
  in order; every wait of a task on another ends; every worker can be joined;
- *progress of a slot*: no wakeup missed though publishers look at the wake address without the lock; no
  row read before it is final, though a slice that does not yet know where it ends publishes rows it may
  have to take back;
- *slice parser*: a slot is not given away while a task is to read or write it; a slice never waits for a
  bound that never comes;
- *concealment*: what a damaged stream leaves does not depend on the threads;
- *DPB output*: display order, the two views together, no picture lost from a full queue, and progress when
  the DPB is full, whatever the timing of the workers;
- *marking*: commits only what the picture's own view marked, whatever error comes in between; the masks of
  frames and those of fields stay in step over fields, gaps and operations, and never hold too many;
- *reference lists and weights*: every entry names a picture, in the order of the standard, also of single fields and
  inferred frames; the tables in use are those of the kind of the macroblock;
- *parameter sets*: a frame with the caller outlives a change of the format and its buffer is freed once; the limits of two
  views are one, whichever set comes first;
- *slice loop*: wherever a slice starts and whatever came before it, a neighbour is read from where it is, and only if the
  standard has it there; deblocking runs just behind the decoder and ahead of nothing that reads it;
- *API*: `receive_frame` never sleeps without a task that will wake it, `AGAIN` always leads to progress.

The hazards, each at its line, are in `PROJECT.json`.

## 2. Modules

| Module | What it is | Runs |
|---|---|---|
| `SliceOrder` | What the slices of a picture leave in its rows when decoded one after another: the single-threaded result. Pure operators, recursive functions rather than RECURSIVE operators. | through `TaskPool` |
| `SliceOrderProofs` | What `SliceOrder` computes for streams of any length, by induction over the slices. | proofs |
| `TaskPool` | Parser, workers, slots and caller. One action per lock section or lock-free step. | `one_view`, `damaged`, `live`, `shutdown`, `stale_writer` |
| `TaskPoolProofs` | `PoolInv` is inductive; type correctness; the slices of a picture decode in order. | proofs |
| `TaskPoolSlots` | Whoever sleeps on a slot is reached by its wake address; no signal of the pool is lost and chained tasks are ready; slots to be read keep their pictures. | proofs |
| `PictureInv` | The inductive invariant about the rows of the pictures, in layers. Definitions only. | through the proofs |
| `TaskPoolPictures` | The pictures of any number of workers are those of a single-threaded decoder; what readers see is final and stays. | proofs |
| `SlotPromise` | What a slot promises its readers: final rows only become more, a reader goes on once its rows are final, and it does. | through `FrameProgress` |
| `FrameProgress` | The wait protocol of one slot, one atomic access at a time, with stale acquire loads and spurious wakeups. Refines `SlotPromise`. | `frame_progress` |
| `FrameProgressProofs` | Its inductive invariant, no missed wakeup, and the refinement. | proofs |
| `Dpb` | The decoded picture buffer: slots, marking, bumping, output queues, pairing, delivery, and the calls of the API. | `dpb`, `sent_again`, `two_sequences`, `full_gap` |
| `DpbMarking` | References stay within their views and bounds, on any stream; slots with a task, read or written, keep their picture. | proofs |
| `DpbOutput` | The queues hold what was bumped, received frames stay and come once, and the types. | proofs |
| `Macroblocks` | The macroblock loop of a slice: neighbours through the array, the ring and the tables, slice groups, and the order of deblocking. | `slices` |
| `Mbaff` | Its MBAFF form: pairs of frame and field macroblocks, their flags, and the copies of their neighbours. | `slices` |
| `MvPred` | Motion vector prediction by shape, skipped and direct macroblocks, colocated blocks. Pure operators. | `slices` |
| `Deblock` | Strength and threshold indices of the edges, and which samples face each other between MBAFF pairs. Pure operators. | `slices` |
| `SliceGroups` | The maps of the seven types of slice groups. Pure operators. | `slices` |
| `RefPics` | Reference marking of a view, frames and fields, with all operations, gaps and damaged streams. | `slices` |
| `RefLists` | Initial reference lists and their modifications. Pure operators. | `slices` |
| `Numbering` | `FrameNum`, order counts of the three types, ages of tasks. Pure operators. | `slices`, `half_lsb` |
| `Weights` | Scaling lists and matrices, implicit and explicit weights, scales, with the MBAFF tables. Pure operators. | `slices` |
| `ParameterSets` | Parameter sets and the buffers of frames over changes of the format, end of sequence, flush and close. | `slices` |
| `ParameterSetsProofs` | Sets agree and buffers outlive the changes of format, for any sets and any number of slots. | proofs |
| `SliceLayer` | Composes the ten modules above: which state each owns, and the properties of those without state. | `slices`, `half_lsb` |
| `MCTaskPool`, `MCFrameProgress`, `MCDpb`, `MCSliceLayer` | Streams, pictures, cases and constants for TLC. | |

`TaskPool` and `Dpb` look at the same code from two sides: the first has the workers step by step and takes the
references and the choice of the pictures output from the stream, the second derives those and reduces a worker
to the tasks it finishes. They meet in the rules that both have: which slots are taken or busy, what
`release_terminal_task_dependencies` conceals, and the wait for a task. The modules under `SliceLayer` are about what
happens inside the steps of those two: inside the parser (`RefPics`, `RefLists`, `Numbering`, `ParameterSets`,
`SliceGroups`), where `Dpb` has the marking of frames only, and inside a task (`Macroblocks`, `Mbaff`, `MvPred`, `Deblock`,
`Weights`), where `TaskPool` has rows. `RefPics` is `Dpb`'s marking refined to fields and operations; `Macroblocks` says what
makes the rows of `SliceOrder` independent of the slices around them.

### TaskPool and the code

| Code | Model |
|---|---|
| `worker_loop`, wait for a task, exit, take | `FallAsleep`, `Exit`, `TakeTask` |
| macroblock loop: bound, claim, `await_reference`, row end | `LearnBound`, `ClaimRow`, `AwaitRow`, `DecodeRow`, `Notify` |
| end of data: wait for the bound, overrun (with the wake of the lower frontier) | `AwaitBound`, `TakeBack`, `Notify`, `Redo` |
| publish, `remaining_mbs`, completion | `PublishSlice`, `CountSlice`, `Notify` |
| lock section ending a task, then `release_terminal_task_dependencies` | `Finish`, `LeaveTask` |
| `decode_nal`; wait for a task; `unset_currPic` and `settle_mb_bounds`; concealment; slot; task; signals | `SendSlice`, `WaitTaskSlot`, `SettleBounds`, `StartPicture`, `AllocSlot`, `CreateTask`, `CreatedTask` |
| `bump_all_frames` | `SendEnd`, `SettleBounds`, `Drain` |
| `get_frame` and `return_frame`, the orphan valve, `free_decoder` | `Receive`, `DropOrphan`, `Close` |

The masks computed from the state (`ready_tasks`, `writing_frames`, `depended_frames`, `inflight_frames`, ...) keep
their meaning as operators. The parser keeps the lock from one of its actions to the next unless it
waits; so does a worker between leaving a task and taking the next. Lock-free steps go on meanwhile. A
`pthread_cond_signal` wakes any one sleeper (`Signalled`), a broadcast all of them.

Abstractions. A row is one macroblock, so an address is a row. A sample is named by what made it (a
slice, the recovery of a slice, neutral, copied from the base view), which is all that "the same output"
needs. A slice is a record: its picture, first row, the row its data ends at, whether the data is bad, the
pictures it reads, the references held, and its base view. A row of a slice reads every picture of its lists,
up to `Reach` rows below its own. `Lag` is the row the deblocking is behind, 0 when it is off. References
come from the stream, since the marking is modelled in `Dpb`; the caller may receive any complete access
unit, since the choice of the pictures output is modelled there too, and gives it back at once. On a full
DPB (`ENOBUFS`) it sends the slice again.

Left out of `TaskPool`: interlaced fields, FMO and MBAFF pictures, failing allocations, slices rejected while
their header is parsed, and the wait and deferral inside `slice_turn` and `claim_after_older_slices`. The last two are
not a choice: they need an older slice of the picture running beside a younger one, which
`SlicesInOrder` (proved) excludes since every slice starts after the older busy ones of its picture.
Samples that are copied from a base view while it is written count as undefined (`Undecoded`).

A check and the sleep after it are one step of `TaskPool`. For the two condition variables whose
predicates only change under the lock that is what the mutex gives; for `frame_progress` it is what
`FrameProgress` justifies, where the check, the store of the wake address, the second check and the sleep are
steps of their own, against a worker that stores the frontier, loads the wake address and takes
the lock in steps of its own. There, a sequentially consistent access sees the latest store; an acquire load of
the frontier may see any older value not older than what the thread has seen.

### Dpb and the code

| Code | Model |
|---|---|
| `to_get_frames`, `output_frames`, `get_frame_queue`, `DispOrder`, `next_dispnum` | `dpb.toGet`, `.output`, `.queue`, `.rank`, `.next` |
| `FrameNums`, `FieldOrderCnt`, `FrameIds`, `AuBaseIds`, `non_base_frames`, `next_deblock_addr` | `frame[s].num`, `.poc`, `.id`, `.before` and `.after`, `.view`, `.missing` |
| `prev_short_term_frames`, `short_term_frames`, `currPic_marked` | `refs`, `marks`, `marked` |
| `bump_frame`, `queue_push`, `dequeue_frame`, `catch_up_dependent_bumps`, `unblock_output` | `Bump`, `Push`, `Without`, `CatchUp`, `Unblocked` (operators on `dpb`) |
| `decode_nal`: release of the held slice; the queue gate | `SendNal`; `QueueGate`, `PassGate` |
| slice header: which picture it belongs to, rejections, `unset_currPic` | `StartSlice` with `StartsPicture`, `Damaged`, `EndPicture` |
| gap in `frame_num`: drop and bump; full DPB; the inferred frames | `StartGap`; `GapFull`, `MakeRoom`; `FillGap` |
| slot: full DPB and `make_room`; allocation | `DpbFull`, `MakeRoom`; `AllocSlot` |
| reference marking, insertion into the DPB, task | `InsertSlice` with `Window`, `Insert` |
| `parse_end_of_sequence`, `flush_decoder`, `clear_decoder` | `StartSequenceEnd`, `EndSequence`; `Flush`, `Flushed`; `Clear` |
| `receive_frame`: `get_frame` delivers; leading frames; nothing to deliver; the wait; the drain | `GiveFrame`; `SkipLeading`; `NoFrame`; `Due`; `StartDrain`, `Drain` |
| `send_end`, `release_frame` | `SendEnd`, `Release` |
| a worker that ends a task, not the held one | `Finish` |

One action is a stretch of a call that does not wait: where the code may wait (for a task, for a slot, for the
reference of a gap, for all tasks) the action has the end of the wait as its guard, and tasks may end in
between. A call starts and ends with actions of its own, so the caller's steps and the workers' interleave
as they do. Without threads the tasks other than the held one are done before the call goes on (`Settled`).

Abstractions. A picture has two parts and a slice brings some of them, so that a picture may be open,
incomplete or damaged. A task ends in the step that completes its picture; what the window between the
two allows is `TaskPool`'s subject (findings 1 and 3). A loop over `bump_frame` is its result, the pictures that come
first in the order of `BumpsBefore`, whose ranks only base views are compared by. The wait at the end of
`get_frame` on a full queue only delays an answer and is left out. `clear_decoder` also clears the
progress of slots nobody reads any more, which the model keeps. Parameter sets are taken to be sent again after
an end of sequence or a flush, which forget them. Left out of `Dpb`: fields, memory management operations and long-term
references, order counts of types 1 and 2, failing allocations, and rejections of a slice other than those of
`StartSlice` and a bad reference list (which stands for every error between slot and task).

### The slice layer and the code

| Code | Model |
|---|---|
| `parse_slice_data`: bound; neighbours of a macroblock and `filter_edges`; decode, deblock behind, advance, publish | `BoundReached`; `Position` with `BeforeSlice`, `Edges`; `DecodeMb` with `Trail`, `Copied` |
| `initialize_context`; `unavail4x4`; the end of the slice and of the picture | `StartSlice`, `InsideTables`; `block_unavailability`; `FinishSlice` |
| `fmo_neighbours`, `fmo_next_mb`; `derive_fmo_map` | `fmo_neighbours`, `DecodeFmoMb`; `FmoMap` |
| `parse_slice_data_mbaff_loop`: top and bottom macroblock; flags; `mbaff_locate`, `mbaff_neighbours`, `mbaff_skip_inc` | `PositionTop`, `PositionBottom`, `DecodeMbaff`; `Inferred`, `ReadsField`; `mbaff_locate`, `mbaff_nb`, `mbaff_skip_inc` |
| `mbaff_state`, `initialize_mbaff`, `finish_mbaff` | `mbaff_state`, `FieldTables`, `StartTables` in `Weights` |
| `decode_inter_16x16` and the other shapes, `decode_P_skip`, `decode_direct_spatial_mv_pred`, `decode_direct_temporal_mv_pred`, `colocated_cross`, `colocated_mbaff` | the operators of the same names (`DirectRefMv`, `DirectCut` for the two halves of spatial direct; `mvCol`, `TemporalEqs`, `TemporalCut` for temporal) |
| `deblock_mb`: indices of the thresholds, `bS0aceg`, `bS0bdfh` of its three branches; `mbaff_bS`, `mbaff_sample`, `mbaff_edge`, `deblock_mbaff_picture` | `FilterIndex`, `bS0_P`, `bS0_16x16`, `bS0_aceg`, `bS0_bdfh`, `deblock_mb`; the operators of the same names, `MbaffPictureEdges` and `ArrayNeighbour` for its two paths |
| `parse_dec_ref_pic_marking`, `parse_dec_ref_pic_marking_field`; the gap in `frame_num`; the end of the picture | `MarkIdr`, `MarkFrame`, `MarkField`, `Discarded`; `InferGap`; `MarkPicture` |
| `parse_ref_pic_list_modification`, `init_field_lists`, `append_fields` | `initial_lists`, `init_frame_lists`, `init_field_lists`, `append_fields`, `Modified`, `Repaired` |
| `derive_FrameNum`, the order counts, `oldest_task` | `derive_FrameNum`, `OrderCounts`, `oldest_task` |
| `parse_scaling_lists`, `initialize_task`, `initialize_context` | `ReadList`, `TaskLists`, `Weighed`, `Tables` |
| `parse_seq_parameter_set` and its VUI, `parse_pic_parameter_set`, `parse_nal_unit_header_extension` | `Accepted`, `SetOf`, `Reformat`, `FixLimits`; `parse_pic_parameter_set`; `DecodedView` |
| `alloc_frame`, `return_frame`, `clear_decoder`, `free_decoder` | `alloc_frame`, `Returned`, `clear_decoder`, `Close` |

One action is one turn of the loop up to, or after, the decoding of a macroblock; one picture marked; one call or NAL unit on
parameter sets. One thread decodes in `Macroblocks` and `Mbaff`: that is what `SlicesInOrder` reduces the slices of
a picture to. The array and the ring hold addresses instead of values, so that reading a stale or foreign entry
shows. A motion vector is one component, a scaling list a name, a reference picture a slot and a parity. The data
of an MBAFF slice is the sequence of its syntax elements with the contexts they are coded with, written by a
definition that follows the syntax of the standard; the decoder's reads are compared with it.

Each module states the rules of the standard next to the code's, as directly as the standard does (`Near` and `NearBlock`,
`Located`, `StandardMv`, `StdMark`, `AsOrdered`, `StdCounts`, `StandardWeight`, ...), and the properties compare the two.
The modules without interaction share one state space, where each rests while another moves
(`LoopsRest`, `MarkingRests`, `SetsRest`) and `case` picks the arguments of a function.

Left out of the slice layer: sample values, what the entropy decoder makes of a context, intra modes, the residual, which blocks
have coefficients, the strides of the planes, the threads (see `TaskPool`), the numbers of
a damaged stream that overflow 32 bits, and the wording of parameter sets (ranges of syntax elements). In
`RefPics` one view is marked, since the code restricts every mask to the view of the picture first.

## 3. Runs

| Run | Instance | Question | States |
|---|---|---|---|
| `one_view` | 3 workers, 3 tasks, 3 slots, 2 pictures in flight, 2 rows | chain and fan of predicted pictures, pictures of two slices | 412,000 |
| `damaged` | 2 workers, 3 rows, 5 tasks, 4 slots | slices that overlap, arrive out of order, are damaged, are missing; two views, also with both pictures of a unit damaged; slots reused; a chained slice that is freed but not ready | 482,000 |
| `live` | 2 workers, short streams | liveness under fair threads | 31,000 |
| `frame_progress` | 2 slices, 3 rows, 3 readers needing 1, 2 and 3 rows | no missed wakeup; refines `SlotPromise` | 76,000 |
| `dpb` | 6 slots, queues of 6, 3 pictures in flight, 18 streams of 4 to 10 NALs, with and without threads | the frames of every stream, in display order, once, complete, and an end | 101,000 |
| `slices` | pictures of 3 to 9 macroblocks and of 4 to 6 pairs, 4 slots, 2 references, 4 pictures marked, 12 parameter sets, 2 slots of buffers, 3 buffers taken | neighbours, deblocking, MBAFF, prediction, slice groups, marking, lists, weights, numbers, parameter sets | 226,000 |
| `shutdown` | a picture nothing predicts from, then two others | violated, see 5 | |
| `stale_writer` | a slice sent twice | violated, see 5 | |
| `sent_again` | a slice sent three times, its picture received before the third, with and without threads | violated, see 5 | |
| `two_sequences` | an end of sequence between two sequences | violated, see 5 | |
| `full_gap` | 3 slots, frames with the caller, then a gap | violated, see 5 | |
| `half_lsb` | streams with an order count half of the range from the one before | violated, see 5 | |

What the properties say:

- `SlicesInOrder`: no slice decodes while an older one of its picture is busy.
- `NoLostWakeup`: with the lock free and the oldest pooled task ready, some worker is on its way to it.
- `SleepersAreReachable`: whoever sleeps on a slot left a wake address no higher than its own, though a slot
  has only one for all its waiters.
- `WaitsOnRunningWriters`: the reason why workers taking tasks in decoding order cannot all be waiting.
- `PublishedRowsFinal`, `SameAsSingleThreaded`, `FlaggedIfDamaged`: every row a later task may read, every complete
  picture and its `VIEW_CONCEALED` flag are those of single-threaded decoding.
- `FrontierKeptForReaders`: no step takes back rows, or a slot, that a task is to read.
- `DependenciesKept`: a slot still holds the picture that a task was parsed to read.
- `ChainIsReady`: `worker_loop`'s assertion that it only takes ready tasks.
- `CallReturns`, `TasksFinish`, `WorkersJoin`: every call returns, every bounded task ends, every worker is joined.
- `NoMissedWakeup`, `KeepsPromise`: no reader and no parser sleeps past what it waits for, nor the worker without an
  address by which its bound reaches it, and the readers get what `SlotPromise` says.
- `QueuesHoldBumped`: the queues hold the pictures bumped and not delivered, each once; none is pushed out.
- `ReceivedKept`, `ReceivedOnce`, `ReceivedComplete`: a frame with the caller keeps its pictures, comes once, and is complete.
- `TasksKeepSlots`: a slot a task reads or writes keeps its picture, whatever is dropped or delivered meanwhile.
- `MarkingBounded`: the assertion that a view never has more references than `max_num_ref_frames`.
- `InDisplayOrder`, `EndMeansAll`: the frames received are those the stream should give, in display order and with both views,
  which each stream of `MCDpb` spells out, independently of the order decoding ends in and of the caller's timing;
  `EDGE264MVC_END` comes once all were received. A flush drops pictures, so they say nothing of such a stream.
- `Ends`: every stream comes to its end.
- `NeighboursAsStandard`, `MbaffNeighboursAsStandard`: at every macroblock of every picture, what the loop would read as each
  neighbour of the macroblock and of its 16 blocks (and 4x4 chroma blocks) is what the standard has there, through the array,
  through the ring and the tables, or through the copies around an MBAFF macroblock; and where the standard has none, the code knows.
- `IntraReadsUnfiltered`: the samples intra prediction reads were not deblocked before, though the row above is
  deblocked as soon as the decoder is below it.
- `DeblockedAsStandard`: in a complete picture every macroblock was deblocked once, with the edges the standard filters, after
  its left and upper neighbours, in whatever order the slices came. Every edge has the strength and the thresholds of the standard,
  whichever formulas compute it, and where frame and field pairs meet the right samples face each other.
- `ReadAsCoded`: the flags of MBAFF pairs and skipped macroblocks are read where they are coded, with their contexts, and
  inferred where they are not.
- `VectorsAsStandard`: the predictions by shape give the vectors of the standard in every neighbourhood; direct blocks are cut
  into rectangles with one vector each that cover them (spatial direct: once); a colocated block covers rows of the current one.
- `GroupsHaveTheirUnits`: a map is total, names existing groups, and group 0 of the evolving types has its size.
- `MarkedAsStandard`: field by field, what is marked is what the standard marks, as long as the stream conforms; on any stream
  no more than `max_num_ref_frames` are marked.
- `ListsAsStandard`: initial and modified lists are those of the standard, and no entry lacks a picture. Modifications
  name pictures by the PicNum and LongTermPicNum of 8.2.4.1, computed apart from the code's, before and after a wrap of frame_num.
- `WeightsAsStandard`: implicit weights, scales and maps in use are those of the kind of the macroblock, whatever kinds came
  before; scaling lists are read, and matrices fall back, as the standard says.
- `NumbersUnwrapped`: order counts keep the differences of the standard over wraps, gaps, fields and resets, though the code's
  numbers never start again; the oldest task is the oldest while ages differ by less than half of their range.
- `BuffersKept`: a frame with the caller keeps its buffer over a change of the format, an end of sequence and a flush; every
  buffer taken is freed once.
- `SetsAgree`: the sets in use have the format of the buffers and one size for both views that holds the references of both.

Why the bounds are enough for what they are asked: two slices already give an overlap, an overrun
and a settle; three pictures give a reader that waits on a reader; three tasks with three slots make the
parser wait for both; two rows with a lag of one separate "decoded", "published" and "complete", and
three rows also separate the rows a slice in error keeps from those it recovers. A third worker
is there for the signals passed on from one worker to the next. `WaitsOnRunningWriters` is checked in
`one_view` on streams whose slots are not reused while a task is busy; on one whose slots are it does not hold, and `shutdown`
shows what that leads to. A closed decoder outputs nothing, so the output properties end there.
In `dpb`, six slots and queues of six are what the longest streams fill: they go through the queue gate, both stalls of
a full DPB and the unpaired and orphan valves. The streams are short, one hazard each (two groups of pictures
with equal order counts, a picture of two slices with one lost, a rejected slice, a missing view, a dependent view sent
first, a gap, a start in the middle of a stream, an end of sequence, a flush, views that never pair up), and a caller is
either eager, receiving all it can after every NAL, or receives and returns whenever it likes, holding up to two
frames. `make_room` never has to drop a reference there, since six slots hold more than the references of two
views, as 64 or 128 slots do.

In `slices`, pictures of one to four macroblocks in a row have every combination of missing neighbours and a ring that wraps;
two slices cut anywhere and decoded in both orders, of which the first may have data past its bound, and three slices of two
groups, are what a neighbour or an edge can tell apart. MBAFF pictures have two rows of pairs, all mixtures of
frame and field pairs in intra slices of three pairs in a row, and all mixtures with skipped macroblocks in P slices of two in a row.
Motion vectors have one of three orders and references are equal or not, which is all that a median and the rules look at.
Deblocked blocks refer to one of two pictures, or none, in either list, with near and far vectors, and once with every small
distance, and P blocks have something left over in list 1; a colocated macroblock is cut into partitions in every way. Four pictures
make a frame of two fields, a gap, an operation on it and what is left; two of them may be of a stream that does not conform, and the
surplus is reached with two references. Lists have three slots with every kind of content, and a fourth with the
first field of the frame. Numbers wrap modulo 4 and 8. Three buffers and two slots give a slot whose buffer is of the
former format and with the caller while another picture is to start. Widths are up to five macroblocks for slice group maps:
the box-out of a picture that is one macroblock wide and 17 high or more stops early and is left out (see 5).

Fairness. `FairSpec` of `TaskPool` asks for strong fairness of each worker and of the parser inside a call: the
operating system schedules every thread, and a thread that finds the mutex free again and again gets
it. Nothing obliges the caller to send, receive or close; so a call may never be made, but one that
is made returns. That includes a call that waits in the model for a slot: the model's `ENOBUFS` lets the caller
leave. `FrameProgress` also asks it of the parser outside its call, for its stream goes on or ends;
without, a slice that has no bound and its readers would wait for ever, as they do in the code.
`FairSpec` of `Dpb` asks that calls go on and that tasks end (weak fairness), save the held slice's, which waits for the
next NAL to bound it (`headers.c:1105`); and of the caller what the API asks: to send again after `AGAIN`, to receive, and
to return its frames (strong fairness, since each of these is refused at times). An API nobody calls comes to no end.

Each property comes with a mutant: a definition of the code changed the way a bug would change it
(an operator whose name says what is wrong, next to the definition it replaces), under which
TLC finds the property violated.

## 4. Proofs

All theorems hold for every value of the constants that satisfies the named assumptions, which TLC evaluates in the
runs:

- `SliceOrderAssumption` (at least one row, a lag of 0 or 1), `TaskPoolAssumption` (at least one task, slot and picture in
  flight; streams are sequences of slices), `WorkersAssumption` (the workers are finitely many) and `BaseViewsAssumption` (a
  base view has no base view of its own);
- `FrameProgressAssumption` (the slices of the picture start at row 0 and in order; readers need at least one row and at
  most all);
- `DpbAssumption` (bounds are positive, streams are records of the type that the parser delivers);
- `SetsAssumption` (the codes of a parameter set are in the ranges that `get_ue16` clamps them to; finitely many slots).

They say nothing of liveness. Each inductive invariant was checked by TLC on the instances of the runs before it was proved.

`TaskPoolProofs`:

- `PoolInvariant`: `Spec => []PoolInv`. `PoolInv` is inductive: the types; `TasksOrdered`, tasks of a slot are in
  each other's `task_after` by age, and no busy task waits for one that left; `ParserPrepared`, the parser creates a task
  only with a free number and a slot; `WorkersOwn`, every decoding worker has a task of its own,
  out of the pending ones, that waits for none.
- `TypeCorrect` and `SlicesDecodeInOrder`: `TypeOK` and `SlicesInOrder` follow. `SlicesInOrder` alone is not inductive: it
  needs `task_after` to name every older busy slice at creation, and each departure to be taken out of it.

`FrameProgressProofs`:

- `ProgressInvariant`: `Spec => []ProgressInv`, the conjunction of the types; `BoundsGiven` (which slices have
  a bound, and which); `WorkerInBounds` (the frontier against the row, the bound and the phase of the worker);
  `AcksHold` (a slice that acked is not past its bound, and once settled every started one did);
  `ReadersFollow` (none starts before the picture has ended, none sees the future); `LockHeld`; `AddressStays`
  (between storing a wake address and sleeping, nobody raises it); and `NoMissedWakeup`.
- `WakeupsAreNotMissed`: its last conjunct, stated on its own.
- `PromiseKept`: `Spec => Promise!Spec`, the safety part of the refinement: each step is an `Advance` or a
  `Pass` of `SlotPromise`, or a stutter. It needs `ProgressInv`: a frontier stored below the last one
  (`Overrun`) is a stutter only because no slice can be past its bound once the parser has settled.

`TaskPoolSlots`, on top of `PoolInv`:

- `SleepersReachable`, from `SleepInv`: one `progress_wake_addr` of a slot serves all its waiters, so each
  step that clears it must leave none asleep above it. It covers the readers and the slices that wait for their bound.
- `ReadyTasksComplete`: `Spec => []WakeInv`. `ready_tasks` is kept up to date by whoever changes what tasks wait for
  (`task_complete`, `task_ready`), so the invariant says that it has every pending task that could start (`ReadyNow`), also
  the chained task a worker goes on with; and that while workers sleep on an offer the pool is `Watched`: a
  worker is about to look, or the parser has still to signal the task it created.
- `NoWakeupLost` and `ChainsAreReady` follow: while nobody holds the lock, no worker that could take the oldest task
  of the pool sleeps; and the assertion of `worker_loop` on the chained task holds. Every change of the pool signals
  at most one worker, so `NoLostWakeup` alone is not inductive: it needs that the one woken takes the task or passes it on.
- `DependenciesStay`, from `DepsInv`: no slot is allocated that a task is to read, and `ReferencesHeld` says that every task was
  made with all the slots it needs: from the end of a picture (`SettleBounds`), over an `ENOBUFS` and the caller's retry, to the
  last slice of the next one, the slots hold what that picture may read, of which the references are in `refFrames`
  and the base view is kept by its number. It asks one thing of the stream: `ReadsWhatIsHeld`, that a picture reads only what
  the previous one could read, or that one itself (the header parser replaces a reference that is missing, which `Dpb` and `RefLists`
  model). TLC evaluates it on the streams of every run of `MCTaskPool`.

`SliceOrderProofs`, the induction that the next module rests on. `RowsAfter` and the search of `Lowest` are recursive functions; the library's
induction theorems take an operator, but the same principle holds of a set: one that has 0 and the successor of each of its members
has every natural number (`Induction`, from the well-foundedness of `Nat`). So the module proves, for any stream, which rows a slice makes
(`FilledRows`), where it stops (`StopsAt`), that a row that is decoded stays as it is (`RowsStay`) and is that of the
single-threaded picture (`RowsFinal`), and how many are left.

`TaskPoolPictures` proves that threads do not matter, for any number of workers, tasks, slots and rows, in every interleaving. It asks two things of the
stream: `ReadsWhatIsHeld`, and `SentOnce`: the slices of a picture come together, each starts at a row that no older one of its picture decodes, and
all name one base view, which comes before. Anything may be lost, damaged, out of order or overlapping. TLC evaluates both on the streams of `MCTaskPool`,
and that the one of `stale_writer` violates the second: without it `NoStaleWriter` is false (finding 3).

- `PicturesAreSingleThreaded` and `FlagsAreRight`: a complete picture has the rows of the single-threaded one, the concealed and the recovered ones
  too, and is marked as concealed exactly if that is.
- `PublishedRowsAreFinal`: what a task may read of a picture, still decoded or not, is what will be there at its end, though the slice that
  published it may not know yet where it ends.
- `FrontiersKeptForReaders`: a frontier goes back (`TakeBack`), or a slot to another picture, only while no task is to read it.
- `WritersStayCurrent`: no slice is decoded into a slot that holds another picture.

All follow from `PicturesHold`, which `PictureInv` defines in layers, each preserved by every step given the ones before:
`BoundsInv` (the slice held back is the last one parsed, every other task has the bound that the next one gives it and, once its picture is not the one
being parsed, has acked it, not started, or needs none); `PicturesInv` (a picture has one slot, and no slice is to come for one that is not being parsed);
`RowsInv` (what is in the slot of a picture is `RowsAfter` of the slices that have ended, with the rows the one at work has claimed; the frontier is behind
the rows decoded; `remaining_mbs` counts the rows missing, and those of slices in error); and the promises about complete pictures with `BaseViewsKept` (a base
view is in a slot until its dependent view is complete, which concealment copies from). `SameAsSingleThreaded` alone says nothing of the pictures being
decoded. The layer that decides is `BoundsInv`: a slice may go past its end before the next header comes, and only because the parser settles the bounds before
it goes on to the next picture (`settle_mb_bounds`) can no task be reading what it takes back.

`DpbMarking`:

- `PicturesInvariant`: `Spec => []MarkingInv`: the types of pictures; the NAL being sent and the step of the parser
  (`NalSent`); what the marking leaves to the open picture is of its
  view (`MarksOfView`) and within the bound before it is committed (`MarksFew`); frames inferred for a gap fit (`GapFits`).
- `MarkingStaysBounded`: never more references of a view than `max_num_ref_frames`, which the samples and the asserts of
  the parser rely on; on any stream, also where pictures are given up or a gap is filled.
- `ReferencesKept`: what a task reads keeps its slot though it may be dropped from the references meanwhile.

The other theorems of `DpbMarking` and those of `DpbOutput` ask one thing of the stream, in its initial state: `SentOnce` (of `Dpb`), that slices which go together in a picture
(same header, and nothing between them that starts another) bring different parts of it. Anything may be lost, damaged or
rejected. The run `sent_again` shows that the theorems need it: without it a picture is completed and put out while a task
is still to decode it (findings 3 and 4 below). TLC evaluates it on the streams of the run `dpb` (`MCDpb`).

- `SlicesStayNew`: then what a slice brings, when its task is made, is missing from its picture and decoded by no other
  task (`SlicesNew`), from `OpenInv`: all of the open picture that is decoded, or being decoded, came with slices sent since its
  first one. It needs `FrameNum` and the order count to be unwrapped to the remainders in the header, and nothing to be
  concealed in a picture before it ends.
- `TasksStay`: slots that a task reads or writes keep their picture, from `TasksDecode` (the parts of a task are
  missing from its picture until it ends, so that the picture is not complete and its slot not free).
- `OutputInvariant`: `OutputInv` is inductive: what the queues hold (`Holds`); that pictures to output differ in their number
  (`NumberedApart`, or the dependent view of one base view might be queued for another); and that frames with the caller keep their
  samples and share no slot (`ReceivedKept`, `ReceivedApart`).
- `QueuesStayWhole`, `ReceivedStay` and `TypesHold` follow. Of the types, that a queue never exceeds `QueueSize` is the one that
  matters: `queue_push` silently drops what does not fit.
- `ReceivedStayOnce`: no picture is received twice, from `GivenInv`: every picture to output started with a NAL of its own, and none
  was received, but the open one may have been once it was complete; then `SlicesNew` says that no slice adds to it.

`ParameterSetsProofs`:

- `BuffersInvariant`: `SetsSpec => []BuffersInv`, where `SetsSpec` takes any NAL that `ReadNal` allows: `SetsInv` (the sets agree, and
  a set of both views leaves half of the largest buffer to the base view), `HeldApart` (frames with the caller share no slot),
  `StaleMarked` (a buffer of a former format belongs to a frame with the caller and is in `stale_frames`).
- `SetsStayInAgreement` and `BuffersStayKept` follow. Without `StaleMarked`, a buffer of a former format might be taken for a
  new picture, or be lost when its frame is returned.

Only model-checked: of `TaskPool`, `WaitsOnRunningWriters`, which is not true for all values of the constants (it needs that no slot is reused while a
task is busy there, finding 1, and fails with three workers on damaged streams of two views, finding 2); of `Dpb`, `InDisplayOrder` and `EndMeansAll`, which compare with the whole
stream, and `ReceivedComplete`; the other modules of the slice layer; and the liveness properties with the fairness part of `KeepsPromise`, which
TLAPS cannot reach. The operators of the modules under `SliceLayer` that are RECURSIVE,
or are compared with the standard over tables of inputs, stay with TLC. `ReceivedComplete` is not true for all values of the
constants: `undelivered` is only cleared by a frame that comes out or is with the caller, so with no more slots than references
(`make_room` then drops a reference) it may still be set when the next stall is seen, and the output is flushed
while tasks decode (TLC finds this with 2 slots and 2 references). The code has 64 or 128 slots for the at most 32 references of
two views, so `make_room` always finds pictures to output; a proof has to carry that bound through every stall.

## 5. What the models found

1. *A slot is given away while its last task is still busy* (`shutdown`, on conformant streams).
   `inflight_frames` excludes complete pictures (`internal.h:1713`) and its comment calls the window until the busy
   bit is cleared benign. But when the picture in that slot is no reference and was output and returned, the slot is
   allocated again in that window. The first slice of the new picture then finds the old task busy in its slot
   (`headers.c:3282`), is ordered after it and chained to it, and the worker that leaves the old task goes on with it past
   an older task of the pool. That older task may be the writer of a reference of the new one, so the guarantee of the
   comment at `headers.c:956` does not hold. While other workers run, they take the older task and everything
   goes on. At shutdown they leave without taking it (`headers.c:974`), and `pthread_join` waits for the worker
   asleep on that reference: `free_decoder`'s comment at `edge264mvc.c:354` promises a clean shutdown.
2. *A chained slice returns to the pool* (`headers.c:1249`). With three workers and a damaged two-view stream a
   younger task, ready because a busy task writes its reference, may be taken while the chained slice, not in the
   pool, is not ready yet; it then waits for rows of a picture whose remaining slice goes back to the pool. This
   falls outside the comment at `headers.c:956` too, but needs a lost base view. There is no run for it, to keep
   the runs small: `damaged` checks with two workers that what returns is taken only once ready.
3. *A task may run in a slot of another picture* (`stale_writer`, on a damaged stream). When a slice is sent twice,
   the first of the two completes the picture while the second has still to run; the caller may receive and return
   the picture, and its slot is allocated to another. The second task then decodes into it, contrary to
   `internal.h:1709` ("a worker's completion store is its last write to the frame").

4. *A picture comes out twice* (`sent_again`, on a damaged stream). Whether the open picture is in the DPB already is read
   from `to_get_frames` (`headers.c:3205`), which loses it when the caller receives it. The slice held back is bounded only
   by the next call (`edge264mvc.c:510`) and does not end before (`headers.c:1105`), so two copies of a slice do no harm. With three,
   the call that brings the second ends the first, which completes the picture, the caller receives it, and the third adds
   it to the output once more, contrary to `README.md:253` of the repository and to what
   `tests/partial_receive_check.c` tests. An `AGAIN` after the release of the held slice would open the same gap for the second copy.
5. *The display order restarts* (`two_sequences`). `edge264mvc.h:149` promises a `display_order` that is strictly increasing per
   view; `clear_decoder` clears its running base at an end of sequence and at a flush.
6. *A gap filled with zeros* (`full_gap`). When a slice after a gap in `frame_num` meets a full DPB, the references were
   already dropped when it returns `ENOBUFS` (`headers.c:2900`). Sent again, it finds none to copy from, though the comment at
   `headers.c:2854` says that the inferred frames get the content of the latest one. It only takes a caller that
   holds frames when the slice comes, so what is decoded depends on the caller.
7. *An order count half of the range away is counted backwards* (`half_lsb`). Order counts of type 0 are unwrapped by
   the sign extension of the difference of their low bits (`headers.c:2755`), under a comment that says "(8.2.1)". At a
   difference of exactly half of `MaxPicOrderCntLsb`, 8.2.1.1 goes up by half and the code down by half. `slices` checks all
   other differences.

Four smaller ones have no run of their own; the samples of `slices` leave them out, as named here.

- *Box-out of a narrow picture*: the bound on the steps (`headers.c:1965`), said to be enough, is not for a picture of 1 by 17
  macroblocks or more, whose box turns at both sides for every unit; the rest of group 0 stays in group 1.
- *A field of an inferred frame that is unmarked*: operation 1 clears `short_term_fields` only (`headers.c:1333`), but an
  inferred frame is marked as long-term too (line 1484 and the sliding window clear both), so that its field
  stays a reference. The standard lets no operation name a field of an inferred frame (`GapOps`).
- *The order count of a second field* is stored (`headers.c:2984`) before the lists are made, where 8.2.4.2.4 takes only the
  fields decoded before; it matters for a field whose first field has the higher count, which the samples do not have (`WithOwn`).
- *Cycles of order counts of type 1*: `FrameNum` goes on over IDR pictures, so that a cycle of offsets that are not all
  equal starts in the middle unless its length divides `MaxFrameNum`. The samples have a cycle of 2 frames.

## 6. Plan

In this order, the behaviour that matters most first:

1. `TaskPool` with `SliceOrder`, and its proofs, down to the pictures that come out: done.
2. `FrameProgress` with `SlotPromise`, and its proofs: done.
3. `Dpb`: slots, sliding window, gaps, output and the API's calls: checked; marking, tasks, queues, received frames (kept, and
   once) and types proved. To prove next: `ReceivedComplete`, for more slots than the references of both views and one.
4. The slice layer: `RefPics`, `RefLists`, `Numbering`, `Weights`, `ParameterSets`, `SliceGroups`, `Macroblocks`, `Mbaff`, `MvPred`, `Deblock`:
   checked; `ParameterSets` proved. To prove next: of `RefPics` the bound of `MarkedAsStandard` (never more references than `max_num_ref_frames`, on any stream
   and for any number of slots), which needs that `Discarded` takes one away and that at most one is added; of
   `Macroblocks` that the ring and the array agree (`MbAt`, `Copied`) for any width.
5. Interlaced fields in `FrameProgress` (two pictures of a slot, `FIELD_ID`) and in the output of `Dpb`.
6. The slices left to deblock (`slice_turn`, `process_pending_slices`, `deblock_pending`), should `SlicesInOrder` ever be given up.
7. Further pure algorithms: `find_start_code` and emulation prevention, the arithmetic decoder's bounds, handles.
8. An abstract specification of output (an ordered sequence of access units, each given once) that `Dpb` implements.

Not modelled: what the entropy decoder makes of its bits, sample prediction, residuals and the samples of the deblocking filters (arithmetic on samples,
sequential and out of a model checker's reach), the wording of parameter sets and SEI, logs, the test programs and the
command line. Allocation failures end in an error code and touch no shared state before they do. The deferred
deblocking of slices cannot be reached while `SlicesInOrder` holds.

## 7. Running

    tlc -workers 2 -config one_view.cfg MCTaskPool
    tlc -workers 2 -config frame_progress.cfg MCFrameProgress
    tlc -workers 2 -config dpb.cfg MCDpb
    tlc -workers 2 -config slices.cfg MCSliceLayer
    for m in SliceOrderProofs TaskPoolProofs TaskPoolSlots TaskPoolPictures FrameProgressProofs DpbMarking DpbOutput ParameterSetsProofs
    do tlapm $m.tla; done
