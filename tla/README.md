# coolscanpy: specification, model checking and proofs

coolscanpy drives a Nikon LS-5000 film scanner. A scanner is a single,
fragile resource: it can be reserved by one initiator only, a scan that is
abandoned at the wrong moment leaves it in need of a power cycle, and a batch
takes long enough that applications stop, close, time out and crash in the
middle of it. The film, once it has been ejected, may be gone. The
specifications in this directory are about that: who may use the scanner, what
survives a failure, whether what is scanned is what was reviewed, and whether
what the program reports and records is true. All paths below are relative to
`src/src/coolscanpy/`; the modules model about a third of its lines.

## 1. The system

| Component | State | Operations | What is hard, and what makes it correct |
|---|---|---|---|
| **Roll batch lifecycle** `_roll.py` | active, uncertain, closing, closed; stop event; per batch an owned iterator (executing, closing, released), a generator, a worker thread and a queue of one | `scan_many`, `next`, `close`, `__del__`, `safe_stop`, `Roll.close`, `preview`, progress callbacks | threads, callbacks, deadlines and the garbage collector meet in one condition variable. The device's lane must stay with a batch as long as its worker may use the scanner; every close returns |
| **Device** `_device.py` | I/O lane, roll lock, closed, faulted; cancel event; registry of open names | `scan`, `eject`, `film_present`, `roll`, `cancel`, `close` | at most one user of the scanner; nothing after a fault |
| **Batch capture parent** `protocol/ls5000_single_pass/capture_process.py` | stop gate, frames handled, ACK files, verdict | `run_batch_session`, `request_stop`, `run_attempt` | it shares nothing with its child but files; it never signals it. The verdict must be true, and come |
| **Live capture child** `protocol/.../worker.py` | `reserved`, `scan_active`, `ready_required`, transaction boundary, session and frame journals | `run_live_capture`, `_run_live_continuation_frame`, the exception path | every command and every write may fail; whether another command is safe is decided by bookkeeping alone |
| **Scanner and USB transactions** `protocol/.../worker.py` | reservation, scan | RESERVE, SCAN, READ, CANCEL, TEST UNIT READY, RELEASE | a lost exchange leaves nobody knowing |
| **Meter controller** `meter.py`, `worker.py` | three passes, raw evidence, journal, exposures | propose, refuse, solve, arm | the film and the lamp change between passes; a proposal must not saturate what it did not see; the fine scan rests on evidence that must be durable first |
| **Streaming sidecar** `protocol/.../streaming_sidecar.py` | bounded queue, decoder thread, mapping, private file, published data and receipt | submit, seal, result, publish, abort, deferred cleanup | it must never hold up the capture nor publish a partial image, and a decoder that hangs owns its mapping for ever |
| **Roll index, registration** `protocol/.../roll_index.py`, `roll/registration.py` | none | lattice, transport mapping, terminal tail | what one traversal says of a frame's origin |
| **Frame selection, plan binding** `protocol/.../worker.py`, `plan.py`, `continuation_plan.py`, `window.py`, `bundle.py` | none | compare two traversals, apply offsets, bind | aggregates over a roll tolerate what one frame may not; no frame command may keep a stale origin |
| **Preview session, approvals** `roll/preview_session.py`, `_roll.py` | slots, offsets, approvals, fingerprint, saved payload | preview, save, restore, offset, approve | an approval of an earlier preview or offset; another film, another port |
| **Finalization** `capture/single_pass_workflow.py` | staged outputs, checkpoint, manifest, scratch | `finalize_attempt`, resume, promotion | a crash between any two files; sources that change while they are read |
| **Receipts and writers** `receipts/`, `io/` | temporary and target files | commit of a TIFF triplet, exclusive copies | one of several renames fails, or its rollback does |
| **Staged roll service** `roll/service.py` | `roll-scan.json`, previews, fine scans, QC sidecars | prepare, approve, fine scan | stale artifacts; a stop in the middle; a plan its own reader refuses |
| **Full-negative capture** `capture/full_negative*.py`, `roll/service.py` | checkpoint, bundles, reconstruction, manifest | capture first and second source, register, archive | the order of publication; the approval it was begun under |
| **Forward roll** `roll/forward.py`, `cli/roll_scan.py` | `forward-roll.json` | chunk loop, resume, ejection | a crash between a chunk and its record; ejecting too early |
| **Density** `density.py` | calibration of a session | decode, ownership receipts | evidence of another session must not be used |
| **Packed decoder** `packed.py` | record counter | push, finish | record accounting |
| **SANE transports** `transport/`, `protocol/.../usb_backend.py`, `session/` | library handles | open, scan, cancel | foreign threads |
| **Types, CLI** | none | | no state of their own |

How they interact: an application thread calls `Roll.scan_many`, which takes
the Device's lane before anything touches the scanner. The first `next` starts
the worker thread; the worker calls `run_batch_session` (the parent), which
launches the child process. The child traverses the film again, compares it
with the reviewed preview, binds each frame, meters it in three passes, and
scans it; while the fine scan is read it hands each record to the streaming
sidecar, whose decoder thread runs beside the capture. It publishes a
*frame-complete* journal per frame and waits for an ACK file; the parent's frame
handler decodes and finalizes the frame, the worker puts it in the queue, the
consumer's `next` returns it, and only then is the ACK written. `safe_stop` sets
an event that is looked at between frames. At the end the child sends one
RELEASE and writes a session receipt; the parent joins it, checks the receipt
and returns a verdict that the Roll turns into an outcome or an exception. The
staged service and the forward command are the other way to a scanned roll: a
plan on disk, approved once per chunk, under which each frame is captured twice
and archived, until the film may be ejected.

## 2. Modules

| Module | Models |
|---|---|
| `Roll.tla` | Device lane and Roll: application threads, a progress callback, batches with iterator, generator, worker and queue. One action is one critical section, or one step between two |
| `MCRoll.tla` | `Roll` with its symmetry, for TLC |
| `RollProofs.tla` | type correctness of `Roll`; the inductive invariants about the lane and about who knows of a batch, and the theorems that follow |
| `LiveWorker.tla` | the capture child in batch mode, the scanner it drives, the journals it writes; not run by itself |
| `BatchSession.tla` | extends `LiveWorker` by the parent: one call of `run_batch_session`, both processes, crashes and the stop |
| `BatchContract.tla` | what `run_batch_session` promises, without processes and files; `BatchSession` implements it |
| `BatchProofs.tla` | type correctness of `BatchSession` and its counters; the inductive invariants of the release, of the child's bookkeeping and of the handover, the theorems that follow, and the refinement |
| `StreamSidecar.tla` | the streaming decode of one frame: capture thread, decoder thread, janitor, the files |
| `StreamProofs.tla` | its inductive invariant and its safety theorems |
| `Metering.tla` | the exposure controller and the worker's loop around it: three passes, their evidence, the solved exposures |
| `FineFrame.tla` | one frame: `Metering`, then `StreamSidecar`, in one process that may end |
| `MCFineFrame.tla` | the films of the instance |
| `FrameProofs.tla` | a frame implements its sidecar; the metering's inductive invariant and its theorems |
| `TiffTriplet.tla` | the commit of three TIFFs with its backups and rollback |
| `Finalization.tla` | extends it by `finalize_attempt`: validation, decode or sidecar, seal, cleanup, resume |
| `Promotion.tla` | extends it by the publication in the user's folder; the module that is run |
| `PromotionProofs.tla` | the inductive invariant of all three and their theorems |
| `PlanContract.tla` | what a roll plan promises to whoever captures under its approval |
| `RollPlan.tla` | the staged roll service; implements `PlanContract` |
| `MCRollPlan.tla` | what the frames of the instance show, and the fit of their geometry |
| `RollPlanProofs.tla` | its inductive invariant, its theorems, and the refinement |
| `FullNegative.tla` | the archive of one chunk: two transfers a frame, checkpoint, reconstruction, manifest |
| `ForwardRoll.tla` | extends it by the chunk loop, its checkpoint and the ejection |
| `ForwardProofs.tla` | the inductive invariant of both and their theorems |
| `Traversal.tla` | operators: what one traversal of the film says, and what two must agree on |
| `Evidence.tla` | operators: the child's journal of one frame, and the checks that the parent and the finalization make of it, each on its own |
| `ReviewedRoll.tla` | the review and the batch that relies on it, over `Traversal` and `Evidence` |
| `MCReviewedRoll.tla` | its films, readings and distances |
| `ReviewedProofs.tla` | lemmas on the operators of `Traversal` and `Evidence`, the inductive invariant of the review and its batch, and the theorems |

### Roll

`pc[t]`, `bt[t]` and `viaRoll[t]` say in which call a thread is, about which
batch, and whether `Roll.close` made the call. `gen[b]` is the state of the
generator `_scan_many`, `wk[b]` that of its worker thread, which summarises
the capture below it: `"scan"` ... `"exit"` are the stages in which the child
may own the USB reservation. The actions are named after the methods:
`Reserve` (`scan_many`), `NextBegin` ... `NextReturn` (`__next__`),
`CloseBegin` ... `Retain` (`close`), `DropIterator` (`__del__`), `RollClose...`
(`Roll.close`), `Preview...`, `Device...`, `Worker...`. A timed wait is a pair
of actions: one for the condition it waits for and one `...Timeout`, which may
fire at any time.

`RetryAfterBusy` and `CallbackCloses` let callers do two things the code does
not withstand (section 4). They are off in the runs that pass and in the
theorems.

### LiveWorker and BatchSession

`child` is where `run_live_capture` is; `reserved`, `scanActive`,
`readyRequired`, `finalized` and `batchStopped` are its locals, `sync` is
`synchronized` of the exception path; `receipt` and `disk` are the session
journal in memory and in its file; `journal[f]` is frame f's file and `ack[f]`
the parent's. The scanner is its reservation, its scan (`idle`, `active`,
`settling`) and the number of RELEASEs it was sent. A command is done, refused
in good order, or lost; a lost command may have been carried out or not. A
journal write may fail before the file is replaced or after it. The frame's
roughly six hundred commands are reduced to its scans (`ArmScan`, `DrainScan`,
`WaitReady`); all others are `FrameFails` when they fail, and no step when they
do not. The two branches of the code, for frame 1 and for later frames, are the
same actions; they differ in who rewrites the frame's journal after an error
(`Raise`, `Spoil`). The parent looks at journal, receipt and exit in three
separate steps, as the code does.

`BatchContract` says: frames are made one at a time, each consumed before the
next is begun; after a stop at most one more is made; the verdict comes last,
and one that lets the caller use the scanner again is given only when the
scanner is neither reserved nor scanning. The refinement mapping counts
published journals for `made`, handled frames for `consumed`, the scanner's
own state for `busy` and the outcome of the call for `verdict`.

### StreamSidecar

`caller` is where the capture thread is in `submit`, `finish` or `abort`,
`decoder` where the decoder thread is in `_run`; a thread is alive from its
start to its last step (`ThreadIsAlive`). The queue holds records and the
sentinel; `disabled` stands for `_disabled` and the stop event, `mapping`,
`tempPath`, `publishedData` and `publishedReceipt` for the session's fields, and
`tempFile`, `dataFile`, `receiptFile` for the disk, where an earlier attempt's
files may be in the way. `cleanup` runs `_cleanup_scratch` file by file,
whichever thread it is on. The two places that look at a condition and act on
it later, the decoder's stop test before its wait and `thread_is_alive` before
the mapping is closed, are separate steps. Each file operation may fail; a wait
with a deadline may end at any time; the process may die between any two steps,
with its daemon threads. `finish-exception`, `_abandon` and `abort` do the same
things in the same order and are one path (`Abandon`, `Retire`).

### Metering and FineFrame

`raw` holds what each pass showed and `commanded` with which exposures; `synced`
counts the passes whose samples are durable and `journal` what the journal
claims. A pass is abstracted to two numbers a channel, in thousandths of the
usable range (the robust highlight inside the frame and the highest value of the
whole raster), and to one judgement of its pixels, `clear`, which stands for
texture, unclipped pixels and correlation. The controller's arithmetic on those
numbers (`Proposed`, the predictive cap, the update ratios, the convergence
test, the guarded parity candidate) is the code's own, in integers. The black
level is 0; all visible channels are treated alike, so the instance has one and
infrared. The linearity of the response is judged by the change of what is seen.
Which film is in the gate is chosen anew for each pass, and the scanner may keep
the windows of the pass before: the echo then refuses the frame. Three refusals
of the code cannot occur from its own seeds and have no action (the minimum
update ratio, an increase of what is clipped, which the cap already prevents, a
clamp to the least exposure). `MeteringFails` is every other refusal and every
failed write.

`FineFrame` composes the two: `Meter` steps leave the sidecar alone, `Stream`
steps begin when the fine windows are armed, and `ProcessDies` ends both.

### TiffTriplet, Finalization, Promotion

A file's content is the generation that wrote it, so a triplet is whole when its
three files are of one generation. `out`, `tmp` and `bak` are the targets, the
new files and the reserved siblings; each rename is a step of its own that may
fail, and after which the process may die. `Finalization` adds the worker's files
(`stream`, `journal`, the sidecar's `receipt` and `data`) as `"capture"`,
`"changed"` or `"absent"`, the hashes the running call holds (`saw`), the
`manifest` and the `checkpoint` of the deletion. The call is repeated after
every failure and finds what the last one left. `Promotion` adds the user's
folder, in which other programs write too. `image`, `gen` and `before` are
history variables. The sources may be changed at any moment, what is archived
only between two calls.

A promotion compares each copy with the file it was copied from, not with the
hashes in the manifest, so a file somebody altered after it was sealed is copied
as it is, and the receipt names what was copied. The writing of one file (`Fill`)
fails in three ways: before its close, which removes the file in hand
(`Discard`), and that removal can fail too; in its close, which the handler does
not enclose; and, for a copy, in the comparison. Whatever fails, only the files
already recorded as created are removed afterwards (`Abandon`, `Unpublish`). So
a whole receipt can outlive its own failed call: `stuck` remembers where, and
`ReceiptMeansWhole` speaks of every other receipt; section 4 says what happens to
these.

### RollPlan and PlanContract

`disk` is `roll-scan.json` and `plan` the running call's copy; `wideFile`,
`alignedFile`, `fineFile` and `qc` are the files beside it. A recorded hash is
the recorded content. Each transfer is one step that ends with the plan being
written; what may be left when it is cut short is the subject of `CutPreview`
and `CutFine`, whose `CutPairs` lists the states the two renames of a pair can
leave. `Readable` is the strict reader: the plan's writer must satisfy it at
every step. The registration policy (`Calibrate`) is an arbitrary function of
the recorded wide previews.

`PlanContract` says: evidence once approved does not change while the approval
stands. The refinement mapping takes the evidence of
`approved_plan_binding_sha256` while the plan is approved.

### FullNegative and ForwardRoll

Per chunk, `plan` is the life of its plan as `PlanContract` knows it (a version
of the evidence, a stage, whether exceptions were named), `rollCheckpoint` binds
the archive to an approval (`Binding`: the evidence and the exceptions, which the
code hashes together, `roll/service.py:1216`); per frame, `first` is the checkpoint of its first
transfer, `bundles` the transfers whose bundles are on disk, `final` the
reconstruction and `manifest` what was published last. `taken` is history.
`fwd` is `forward-roll.json`. A run of the command is `Start` (with the
exceptions it names) to its return. What a capture can leave when it is cut
short is `CutCapture`, part by part in the order of the code. A capture under
another approval than the one that began it is refused and needs a person; the
same holds for wide previews of an approved chunk that were damaged, so
`RollIsArchived` speaks of runs in which nobody harms them (`Unharmed`).

### Traversal, Evidence, ReviewedRoll

A `Reading` is a film, how far in it lies, and what was odd in this traversal
(eleven kinds, each one a branch of `roll_index.py` or of the selection).
Everything the program derives from it (origins and their review reasons, the
fingerprint, its median and 90th-percentile comparisons, the frame comparison,
the origin that a boundary offset resolves to, the frame table with the rest of
Nikon's own page behind a short strip) is an operator. `ReviewedRoll`
holds the review (`session`, `approvals`, the saved payload), the batch (`job`)
and the child's own traversal (`job.fresh`); `looked`, `saved` and what a scan
showed (`scanned`) are history.

A frame is judged three times. The child compares two traversals (`Selected`);
the parent and the finalization see only the journal and the request, and are
coded apart from the child and from each other. `Evidence` follows that.
`Comparison` and `SelectedComparison` are what the child measures, `Journal` what
it writes of them, with the flags of the selected origin, the row it applied, the
approval it was given and the residual of a leading anchor it accepted without
one. `ParentAccepts` and `FinalizationAccepts` check those fields, each with the
thresholds and derived values of its own lines: both derive the minimum of
discriminative frames from the frames that were compared, where the child derives
it from those of the roll; the finalization asks for the requested row, checks an
approval wherever there is one, and has its own five rows for an accepted anchor.
`JudgedAlike` says that the three agree but for a rebased binding, which the
finalization refuses; it is about evidence that drifts apart, and does not hold
by definition (a parent that asks for three discriminative frames outright, a
finalization that knows nothing of accepted anchors or bounds them by two rows,
each violate it).

Changes of the preview's height or geometry are not varied, and the checks that a
journal's field is there and has its type are left out; offsets are small and
inside the table; one payload is saved; the film is changed only while the child
does not hold it.

## 3. Runs

| Run | Instance | Distinct states | Shows |
|---|---|---|---|
| `roll_safety` | 2 threads and a callback, 2 batches of 1 frame | 595,000 | `LaneIsExclusive`, `NothingOrphaned` under all interleavings, timeouts and collected iterators |
| `roll_liveness` | 2 threads and a callback, 1 batch of 2 frames | 45,000 | `OneLateFrame`; `CallsReturn`: close returns and an abandoned batch is settled although a worker may hang, and `next` returns when none does |
| `batch_session` | 3 frames of 2 scans | 39,000 | `Honest`, `CleanupSound`, `ParentConsumesFirst`, `CompleteIsWhole`, `StopWinsTheGate`, the refinement `KeepsContract`, and `BothSidesEnd` |
| `fine_frame` | 8 films, 2 channels; 3 records, a queue of 2 | 86,000 | `ArmedOnEvidence`, `NothingOverexposed`, `LiveMappingUntouched`, `CommitIsWhole`, `ForeignSurvives`; `SessionSettles`: the capture goes on although the decoder may hang, and nothing is left behind |
| `finalization` | 1 crash, 2 failed operations, 1 change of a file; 2 basenames, 1 promotion | 1,574,000 | `TripletRecoverable`, `SealsAreTrue`, `RawOutlivesTheArchive`, `FolderIsAppendOnly`; `GoodCaptureSettles` |
| `roll_plan` | 2 frames, 2 recipes, 1 interruption, 1 change of a file | 269,000 | `PlanReadable`, `PlanIsTrue`, the refinement `KeepsPlanContract`; `RollCompletes` |
| `forward_roll` | 3 frames in chunks of 2, 2 interruptions, 1 change of a file | 716,000 | `ManifestIsReconstruction`, `NothingCapturedTwice`, `EjectedMeansArchived` |
| `reviewed_roll` | 5 films of 3 to 11 pictures, 7 ways to lie in the feeder, slots 1 and 5, 2 previews, 1 batch, 1 disturbance | 299,000 | `FineScanIsReviewed`, `ReviewIsCurrent`, `RestoredIsCaptured`, `JudgedAlike` |
| `roll_next_after_busy`, `roll_foreign_stop`, `roll_late_frame`, `reviewed_rebase` | the smallest that shows it | | a counterexample to a comment, a docstring or a changelog entry (section 4) |

Each run also checks the type invariant of its module.

**Bounds.** Two batches are what it takes for a call about one to disturb
another: the Roll has one active batch at a time, and the iterator of the
earlier one stays with its caller. Two threads and the callback are enough for
the two roles a batch has (a consumer and a closer) and a third that calls the
Roll or the Device. One frame already gives the queue its two items, the frame
and the end of the batch; two give a frame behind and one ahead of a stop.
Three frames in `batch_session` distinguish the first frame, a later
one, and the last, and two scans the meter passes from the fine scan. Frames that
are ahead are bounded by `NFrames`; nothing else in these models grows. In
`fine_frame` three records overrun a queue of two, so the capture can find
it full in the middle of a frame and the sentinel can find it full at the end;
the films are chosen so that every outcome of the controller occurs (accepted
with every cap and without, limited by the ceiling, clamped to the greatest
exposure, under a lamp that drifts, and refused: too dark, not converged, not
linear). `finalization` allows a crash between an operation's failure and its
rollback, and a second failure in the rollback; four generations are one more
than its calls can write. In `roll_plan` two frames let one be damaged while the
other is whole, and two recipes differ in whether they ask for infrared. Three
frames in two chunks give `forward_roll` a chunk of two and a last, short one,
and two interruptions one in each, or one in the resume of the other.
`reviewed_roll` needs rolls of ten pictures because a 90th percentile tolerates
one frame that differs only from ten on, and a strip of three, one of them blank,
because only with fewer than three telling frames does the minimum that the
child, the parent and the finalization each derive differ from three.
`MaxInterrupts`, `MaxTampers`,
`MaxCrashes`, `MaxFaults`, `MaxDisturbances`, `MaxPreviews`, `MaxJobs` and
`MaxPromotions` bound what the environment or the operator does.

**Symmetry** is used in `roll_safety` (threads, batches) and `reviewed_roll`
(ports), where all properties are invariants that do not name one. Liveness is
checked without. `reviewed_roll` has an action constraint, `Followed`, that
leaves out what comes after the last batch and, during a batch, saved payloads
that it does not read.

**Deadlock.** `BatchSession` has an explicit `Ended` step for the finished
session, so TLC's deadlock check means that no process waits in vain; so has
`ForwardRoll` (`Done`). `Roll` is a library: `safe_stop` is always possible.
`FineFrame`'s process may always die, so the check says nothing there; that its
threads do not wait for each other is part of `SessionSettles`. `reviewed_roll`
may stop when the bounds are reached, and is checked without.

**Fairness.** `Roll`: threads inside a call keep running (`WF` of
`Continue \/ Timeout`), because Python's threads are preemptive and every wait
in question has a deadline; hardware operations return, because the transports
bound them. Callers owe nothing: no fairness on `Call`. Workers have none
either, except in the part of `CallsReturn` about `next`, whose antecedent says
that capture, callback and child do not hang: `next` waits on its queue without
a deadline, so without it the property is false, and the code promises none.
`BatchSession`: both processes keep running; every USB transfer, every READY
poll, the busy retry and the wait for an ACK have deadlines in `worker.py`, and
the parent polls. The environment (stop, kill, the parent's death) is never
forced to act. `FineFrame`: the capture thread and the cleanup run as long as
the process does; the decoder owes nothing, so `SessionSettles` holds
with one that hangs inside a record. A file whose removal failed is in `leaks`.
`Finalization` and `Promotion`: a call that runs goes on, and its caller calls
again ("repeat calls safely resume"); nothing else. `RollPlan`: likewise, with
strong fairness of the operator's prepare, approve and scan, because a damaged
file may disable one of them in between. `ForwardRoll`: the operator runs the
command again until the film is ejected, and in the long run with every choice of
`--allow-unverified` (`SF` of `Start(named)`): no command line is right for every
chunk. `ReviewedRoll` has safety properties only.

**What each property is worth** is shown by a mutant: a variant of one
definition, next to it in the module (`CloseJoinedBlindly`, `RetireNow`,
`ReopenedLate`, `RestoreUnverified`, ...), with which TLC finds the property
violated.

## 4. Where code and comments disagree

1. `roll_next_after_busy`: `close()` times out, the generator ends with
   `_BatchWorkerStillActive` and says that "USB ownership is retained". A
   later `next()` on the same iterator gets `StopIteration` and frees batch and
   lane while the worker still runs (`_roll.py:161`).
2. `roll_foreign_stop`: the comment on `close()`'s `safe_stop()` says that an
   executing `next` cannot finish and release the batch, and a later batch
   clear the event, before the write. It can: `next` releases the roll before
   it takes the iterator's condition again to say so. In between another thread
   reserves the next batch and a third closes the old iterator, whose
   `safe_stop()` stops the new batch (`_roll.py:208`).
3. `reviewed_rebase`: a boundary offset whose record is three to five rows off
   the line falls back on the slot's own origin and passes the selection; but the
   finalization demands the row that was requested
   (`capture/single_pass_workflow.py:1259`), so the first frame is scanned
   completely and then refused, and a later one is refused in mid-batch
   (`worker.py:3808`). The changelog promises a rebase "instead of raising".
4. `roll_late_frame`: `safe_stop` says that "the next one raises
   `SafeStopRequested` instead of starting" (`_roll.py:975`, and the
   repository's README). The stop is looked at when a frame has been queued
   (`_roll.py:832`) and when the batch begins (`_roll.py:741`); a stop that comes
   after the look, and before the ACK is written or the first frame is begun, is
   seen one frame later. That it is never two is `OneLateFrame`.

Four more observations that have no run of their own; each is found by adding the
named property to a run, or by changing the named constant of one:

* A frame-complete journal "is an immutable parent/child handoff"
  (`worker.py:5659`), but `_write_journal` can raise after it has replaced the
  file, and the error path writes the frame's journal again (`worker.py:5466`).
  `batch_session` finds `HandoffImmutable` violated. The verdict stays honest: the
  run includes these steps.
* The receipt of a promoted frame is removed "after handled failures"
  (`receipts/outputs.py:85`). When its sync fails and its removal too (line 98),
  or when its close fails after the sync, it is whole, but not among the files
  the cleanup removes; the cleanup then removes the three TIFFs, and the
  completion marker stands alone. `finalization` finds `ReceiptMarksCompletion`
  violated.
* Progress callbacks run on the worker. `iterator.close()` from there, while
  no thread is inside `next`, fails to join its own thread, and the batch is
  treated as ended (`_roll.py:202` asks only for the thread inside `next`). With
  `CallbackCloses = TRUE` and `NFrames = 2`, `roll_safety` finds
  `LaneIsExclusive` violated.
* A SCAN that the plan expects to be refused and that the scanner accepts raises
  before the lifecycle flags are updated (`worker.py:3394`); the cleanup then
  sends RELEASE during a scan. The passing run assumes that a refused command was
  not carried out; with `UntracedEffects = TRUE`, `batch_session` finds
  `CleanupSound` violated. The theorems that need the assumption say so.

Behaviours worth knowing that contradict nothing: the forward checkpoint does not
record that the film was ejected; `roll-scan.json` and `forward-roll.json` have
no lock against a second process; a hard kill during the first write of
`forward-roll.json` may leave a temporary file that makes the root "not empty".

## 5. Proofs

`RollProofs`: `TypeCorrect`, `Spec => []TypeOK`, one step per action. It
includes that the frame queue never holds two items. Then, all for callers that
do neither of the two things section 4 describes (`~RetryAfterBusy`,
`~CallbackCloses`), and for every set of threads and batches and every number of
frames:

* `LaneNeverGivenAway` (`LaneOwned`), `ScannerNeverShared`
  (`ExclusiveHardware`), the two together as `LaneStaysExclusive`
  (`LaneIsExclusive`);
* `AtMostOneLateFrame` (`OneLateFrame`);
* `NothingLost` (`NothingOrphaned`).

`LaneOwned` is not inductive. What gives the lane back is a chain of steps of
one thread, long after the decision was made, so the invariant `IInv` says what
holds along the chain: a thread inside an iterator's method is the one recorded
in `executing` or `itClosing` (`ThreadInside`, `ExecutorInside`,
`CloserInside`), so no two threads are in one iterator; a batch that is
reserved and not started has no worker (`ReservedInv`); a thread that gives a
batch back has seen its generator finished (`ReleaseInv`); a finished generator
with a running worker is uncertain, and nobody is inside to release it
(`HungInv`); a running worker's batch is active and holds the lane (`LaneInv`);
the callback thread is idle (`CallbackInv`). `LaneStep` proves it action by
action, `ReleaseIsSafe` is the point where the pieces meet. `OneLateFrame` adds
`LateInv` (a batch that made its late frame has seen the stop, which only the
next reservation clears) and `ThreadsKeepStop`, that threads otherwise leave
the stop and the workers' counts alone. `NothingOrphaned` adds `OwnerInv`: a
closed iterator has given its batch back and a thread that ends one no longer
holds it (`GivenBackInv`); the Roll retains an uncertain batch, or the thread
that found it uncertain is about to make it (`RetainedInv`); and one thread at a
time closes the Roll, while no operation begins, so that what it has already
waited for stays over (`RollCloserInv`, `ClosedInv`).

`BatchProofs`, for every number of frames and of scans a frame:
`BatchTypeCorrect`. `TypeOK` needs to know how far a frame's
scans and the receipt's counter are at each point of the child (`ScansLeft`,
`CompletedTracks`), and that the parent watches for a frame only if one is left
(`HandlerRoom`). Then:

* `OneRelease` (`SingleRelease`), `ParentIsFirst` (`ParentConsumesFirst`) and
  `StopWins` (`StopWinsTheGate`), without further assumption;
* `ReceiptsAreHonest` (`HonestReceipt`), `CleanupInOrder` (`CleanupOrder`) and
  `VerdictsAreHonest` (`HonestVerdict`), under `~UntracedEffects` (the last
  observation of section 4);
* the same as the run checks them: `GivenBackOnce` (`CleanupSound`) and
  `HonestThroughout` (`Honest`);
* `WholeWhenComplete` (`CompleteIsWhole`), and, under `~UntracedEffects`,
  `SessionKeepsContract` (`KeepsContract`): `BatchSession` implements
  `BatchContract`.

`SingleRelease` is proved from `ReleaseInv`: before the release the count is
zero, after it the receipt's attempt counter, written before the command is
sent, keeps the exception path from sending it again. An honest receipt needs
`TrackInv`: as long as the child believes it is synchronized, its flags are true
of the scanner (`Tracked`), the exception path starts from there and works
towards an idle scanner (`CleanupInv`), so that what the receipt is computed
from is true when it is (`FailInv`), and stays true because nothing is sent
after it (`ReceiptInv`). `VerdictInv` adds that the parent speaks last and from
that receipt, `AckInv` that only the ACK of a consumed frame moves the child on.
For the last two, `MadeInv` says which journals are published by where the child
is and what its receipt reports of them (`FramesInv`, `ReportInv`), and `HandInv`
relates the two processes: the parent takes the frame published last and no other
(`HandoverInv`), a stop ends its watch and answers the child's last frame
(`StopInv`), and a verdict is given once the parent has joined the child, so that
a "complete" agrees with both (`JoinInv`). An error path may overwrite a journal
the parent has already consumed, so `made` counts a frame as published for good
(`Made`). The
refinement goes step by step: publication, consumption and verdict are steps of
the contract, a scan's or a cleanup's command changes `busy`, all others stutter.
`TrackChild` has one step for each of the child's twenty actions and under it
one for each part of the invariant; the parent's actions leave child and scanner
alone (`TrackFrame`).

`StreamProofs`, for every number of records and any queue limit:
`StreamTypeCorrect` (`TypeOK`: the queue keeps its limit), `MappingIsSafe`
(`LiveMappingUntouched`), `CommitsAreWhole` (`CommitIsWhole`) and
`ForeignFilesSurvive` (`ForeignSurvives`). The invariant `SInv` says what the
capture thread has learnt when it publishes: that there is a result, that every
record is then in the mapping (`ResultInv`), and that the thread is gone, which
it stays because only a thread that was never started can start; that the
session's `published` fields are true of the disk (`OwnInv`), which is what keeps
a cleanup from touching foreign files; that the receipt comes after the data and
goes before it (`CommitInv`); and that only who has given up cleans up
(`CleanupInv`).

`FrameProofs`, for every film, every seed of the exposures and every set of
channels: `FrameRunsStream` says that a frame implements `StreamSidecar` (each
of its steps is one of the sidecar or leaves it alone), so that the sidecar's
theorems hold of a frame; `FrameTypeCorrect` (`FrameTypeOK`);
`EvidenceComesFirst` (`ArmedOnEvidence`) and `NeverOverexposed`
(`NothingOverexposed`). The invariant `MInv` says how many passes are commanded,
read, durable and journalled at each point of the loop (`CountInv`,
`DurableInv`), that every pass was accepted and every commanded exposure is the
controller's proposal from the pass before (`ChainInv`), and that a solved
exposure follows from the third pass (`SolvedInv`). That a proposal respects the
cap is a lemma about integer division, stated once for any bounds.

`RollPlanProofs`, for every number of frames, any recipes, whatever frames show
and any registration policy: `PlanTypeCorrect` (`TypeOK`), `PlansStayReadable`
(`PlanReadable`), `PlansAreTrue` (`PlanIsTrue`), and `ApprovalsKeepEvidence`
(`KeepsPlanContract`), that the service implements `PlanContract`. The invariant
`PInv` says that the plan on disk is well-formed, readable and registered by its
own previews (`Sound`); that a running call's copy is the plan on disk and has
done the frames behind it (`CallInv`), which is why the registration finds all
wide previews and the review all aligned ones; that a complete plan a fine scan
works on needs none of its frames, so a file is touched only after the plan has
stopped saying "complete"; and that a sidecar describes one take (`PairInv`). One
lemma for each way the service rewrites a plan says that the result is sound
(`WithdrawnIsSound`, `RegisteredIsSound`, ...), then there is one step per action.
For the refinement, `StepKeepsContract` shows that each step approves,
withdraws, or leaves what is bound.

`PromotionProofs`, for any budgets of crashes, failures and changed files and any
number of basenames and promotions: `PromotionIsTyped` (`TypeOK`),
`OldTripletSurvives` (`TripletRecoverable`), `SealsVouch` (`SealsAreTrue`, whose
`ReceiptMeansWhole` excepts a receipt that outlived its own failed call), and
the action properties `RawGoesLast` (`RawOutlivesTheArchive`) and
`OthersFilesStay` (`FolderIsAppendOnly`). The commit moves up to three old
files aside, puts three new ones in place and, after a failure, undoes both role
by role; `WriterInv` says for each role where its old file is at each point of
either way, so that "recoverable" can be read off it. `CallInv` says what the
running call has validated, verified and sealed, and that a consumed sidecar goes
before the stream; `FolderInv` which files the running promotion has made, and
that its receipt is the last to come and the first to go. A deletion of the raw
stream then has the archive behind it, because a call at that point has seen the
seal, and the archive changes only between two calls.

`ForwardProofs`, for every number of frames, chunk size and budget of
interruptions and of changed files: `RollIsTyped` (`TypeOK`), `ManifestsTell`
(`ManifestIsReconstruction`), `CapturedOnce` (`NothingCapturedTwice`) and
`EjectedWhole` (`EjectsArchivedRoll`, the safety half of
`EjectedMeansArchived`). The invariant says what each step of a capture has left
on disk (`WorkInv`), that a first source is of the approval its chunk's archive
is bound to (`BindingInv`), that an ejection has seen every manifest
(`EjectInv`), and pays for every transfer of a frame with an interruption or with
the first or second source it has on record (`TakenInv`): without that count the
numbers of the transfers, and with them the types, would have no bound.

`ReviewedProofs`, for any films, readings, slots, offsets, ports and budgets:
`ReviewIsTyped` (`TypeOK`), `ReviewsStayCurrent` (`ReviewIsCurrent`),
`RestoresWhatWasCaptured` (`RestoredIsCaptured`), `TheyJudgeAlike`
(`JudgedAlike`), and about what is scanned:

* `FineScansMatch` (`ScansMatch`), whatever the films: an accepted scan is within
  the hash distance the selection allows of the picture reviewed in its slot, and
  lies where the operator put it, within two rows or five for a leading anchor;
* `FineScansAreReviewed` (`FineScanIsReviewed`), that it is that picture, under
  the hypothesis `TellsFramesApart`: any two readings are told apart either by
  their places (one film, which the second time lies less than a pitch further
  in) or by the hashes of their films' pictures. The run's films satisfy it
  (`FilmsAreTold`, asserted in `MCReviewedRoll`), its series of one motif by
  places. Some such hypothesis is needed: no comparison the code makes can tell
  a series of one motif from the same series fed a pitch further in.

The lemmas turn what the selection has compared into facts about slots: matching
rolls sign as many frames, so a matched frame is signed in both (`MatchedFrame`);
a binding points at the requested offset, up to its residual, unless it was
rebased (`RowApplied`, `WhereItLies`); and when one of two readings of a film
misses its first frame, every start differs by a pitch, so the largest difference
is too large and the rolls do not match (`LargestOfEqual`, `PlaceTellsFrame`),
which makes a selected frame the reviewed one where hashes cannot
(`SelectedIsReviewed`). `TheyJudgeAlike` goes through the journal: what makes the
child's comparison match also satisfies the parent's and the finalization's
reading of it, although they derive the minimum from another count
(`RollProvesTwice`, `FrameProvesTwice`); a binding keeps the flags of its slot's
origin, so an origin that needs somebody to speak for it has, in the journal, an
approval that binds it or a residual within the finalization's own five rows
(`FlagsAreKept`, `JudgedTwice`). The invariant says that a session's
capture is among those counted, so the next one is told from the one saved
(`CapturesAreCounted`); that a slot is approved only if it was looked at since it
changed (`ApprovedIsLookedAt`); and that a bound job has been selected and carries
only approvals of its own capture, slots and offsets (`JobIsSettled`).
`LeastSlot`, that the slots left have a least one, rests on the library's
theorem that the natural numbers are well-founded.

The assumptions on constants are named in the modules that declare them, and TLC
checks each in a run: `RollAssumption`, `LiveAssumption`, `StreamAssumption`,
`MeterAssumption` (infrared is a channel, seeds and sights are naturals),
`RollPlanAssumption` (the policy is a function into the geometries, the sets a
caller names are sets of frames), `BudgetAssumption` and `PromotionAssumption`,
`ForwardAssumption`, `TraversalAssumption` (films are sequences of 3 to 40
pictures, readings are of films, slots and offsets in range, Nikon's page is
increasing) and
`ReviewedRollAssumption`; and `AbsenceAssumption`, `MarksAssumption` and
`NoneAssumption` (what stands for an absent value is none of the values).

Model-checked only: all liveness properties (`CallsReturn`, `BothSidesEnd`,
`SessionSettles`, `GoodCaptureSettles`, `RollCompletes`, and `RollIsArchived`,
the other half of `EjectedMeansArchived`), which the proof system does not reach,
and the counterexamples of section 4.

## 6. Not modelled

* Interrupts (`KeyboardInterrupt`) of a batch: the parent runs on a worker
  thread, which Python does not interrupt, and the child in a session of its own.
  The `"interrupted"` status is therefore read as `"failed"`.
* `clear_stop`, single attempts, meter-only and preview-only captures.
* The contents of journals in `BatchSession`: an identity, digest or nonce that
  does not match is a refusal (`WatchJournal`, `Connect`, `FrameFails`), never a
  value. Which readings do match is `ReviewedRoll`'s subject.
* Of the metering: per-pixel statistics, journal-only diagnostics, and visible
  channels that differ from each other.
* Of the streaming sidecar: the comparison of the raw stream's digest, the check
  of the decode proof and of the shape (a mismatch abandons the session before
  anything is published), the receipt's own temporary file, a janitor thread
  that cannot be started, power loss (its fsyncs change nothing else).
* A failure of the calibration evidence in an otherwise good receipt, which
  turns a complete batch into one that needs recovery.
* Of the finalization: density receipts, quality and ICE evidence, which are
  written beside the archive and never read back by these calls.
* Of the staged service and the forward roll: the validation of single recipe and
  provenance fields, and changes of files in the middle of a call.
* `Device.cancel`, which promises nothing of a scan that has not begun, and the
  registry of open names, whose table of aliases is the foreign library's.
* Image arithmetic: lattice detection, registration, reconstruction, packed
  decoding, density. Arrays of pixels are out of TLC's reach, and the protocols
  around them use only whether they succeed.
* Components marked `not_modelled` in `PROJECT.json`, each with its reason.

## 7. Plan

Done: (1) `Roll` with its proofs; (2) `LiveWorker`, `BatchContract`,
`BatchSession` and the proofs of its safety properties; (3) `StreamSidecar`
with its proofs; (4) `Finalization` and `Promotion` with theirs; (5) `RollPlan`
with its contract and its proofs, `FullNegative`, `ForwardRoll` and theirs; (6)
`Traversal`, `Evidence` and `ReviewedRoll` with its proofs; (7) `Metering`, `FineFrame` and
their proofs.

Next, in this order:

1. `DeviceRegistry`: open names, `cancel`, SANE handles.
2. The compiled continuation plan and the packed decoder's record accounting as
   operators against reference definitions.
