----------------------------- MODULE FullNegative -----------------------------
(***************************************************************************)
(* The archive of one chunk of a roll (RollScanService.scan_full_negative  *)
(* and capture/full_negative_workflow.py).  A frame is two transfers: a    *)
(* first source, checkpointed as soon as it is on disk, and a second one   *)
(* that replays the first's focus and exposure.  Their reconstruction is   *)
(* written as a triplet, and the manifest, last of all, names the three.   *)
(* A run that dies resumes from what the disk shows, or refuses.           *)
(*                                                                         *)
(* A transfer is known by its number within the frame, and a source bundle *)
(* by the transfer it holds (its directory is named by its content).  What *)
(* an approval bound is known by the version of the plan's evidence        *)
(* (PlanContract's) and whether it named the chunk's doubtful frames.      *)
(***************************************************************************)
EXTENDS Integers, FiniteSets

CONSTANTS
    NFrames, ChunkSize,    \* the roll and how it is cut
    MaxInterrupts, MaxTampers,
    None,                  \* an absent file
    Altered                \* content the program did not write

ASSUME ForwardAssumption ==
    /\ NFrames \in Nat \ {0} /\ ChunkSize \in Nat \ {0}
    /\ MaxInterrupts \in Nat /\ MaxTampers \in Nat

Frames == 1..NFrames
ChunkOf(f) == ((f - 1) \div ChunkSize) + 1
Chunks == {ChunkOf(f) : f \in Frames}
FramesOf(c) == {f \in Frames : ChunkOf(f) = c}
\* Variant: counted from zero.
FirstFromZero(c) == (c - 1) * ChunkSize

FirstOf(c) == (c - 1) * ChunkSize + 1

Versions == 0..(MaxTampers + MaxInterrupts)
Bindings == [version : Versions, override : BOOLEAN]
Shots == 1..(2 + MaxInterrupts)
Seconds == [shot : Shots, replays : Shots]
Pairs == [first : Shots, second : Seconds]

\* An absent file is none of the records a file can hold.
ASSUME MarksAssumption ==
    /\ None \notin [binding : Bindings, done : SUBSET Frames]
    /\ None \notin [binding : Bindings, shot : Shots]
    /\ None \notin [binding : Bindings, pair : Pairs]

VARIABLES
    plan,          \* per chunk, the saved plan: its stage, the version of its evidence,
                   \* whether some preview failed its verification, and whether the
                   \* approval named it
    previewsOk,    \* its aligned previews are as recorded
    rollCheckpoint,    \* roll-full-negative.json: the binding and the completed frames
    taken,         \* how many transfers of the frame the scanner has made
    bundles,       \* the sources that are on disk as they were written
    first,         \* its checkpoint: the binding and the transfer
    final,         \* the reconstructed triplet: the two transfers it shows
    manifest,      \* the frame's manifest
    pc, at,        \* the running call, and the chunk it is at
    frame,         \* the frame its capture is at
    work,          \* the two sources it holds
    done,          \* the frames it has completed
    interrupts, tampers

frames == <<taken, bundles, first, final, manifest>>
archive == <<rollCheckpoint, frames>>
capture == <<frame, work, done>>

NoWork == [first |-> None, second |-> None]

ArchiveType ==
    /\ plan \in [Chunks -> [stage : {"none", "unready", "review", "approved"},
                            version : Versions, doubtful : BOOLEAN, override : BOOLEAN]]
    /\ previewsOk \in [Chunks -> BOOLEAN]
    /\ rollCheckpoint \in [Chunks -> [binding : Bindings, done : SUBSET Frames] \cup {None}]
    /\ taken \in [Frames -> Shots \cup {0}]
    /\ bundles \in [Frames -> SUBSET Shots]
    /\ first \in [Frames -> [binding : Bindings, shot : Shots] \cup {None}]
    /\ final \in [Frames -> Pairs \cup {None, Altered}]
    /\ manifest \in [Frames -> [binding : Bindings, pair : Pairs] \cup {None}]
    /\ at \in 1..(NFrames + 1)
    /\ frame \in 1..(NFrames + 1)
    /\ work \in [first : Shots \cup {None}, second : Seconds \cup {None}]
    /\ done \subseteq Frames
    /\ interrupts \in 0..MaxInterrupts /\ tampers \in 0..MaxTampers

ArchiveInit ==
    /\ plan = [c \in Chunks |->
                  [stage |-> "none", version |-> 0, doubtful |-> FALSE, override |-> FALSE]]
    /\ previewsOk = [c \in Chunks |-> TRUE]
    /\ rollCheckpoint = [c \in Chunks |-> None]
    /\ taken = [f \in Frames |-> 0]
    /\ bundles = [f \in Frames |-> {}]
    /\ first = [f \in Frames |-> None]
    /\ final = [f \in Frames |-> None]
    /\ manifest = [f \in Frames |-> None]
    /\ pc = "idle" /\ at = 1
    /\ frame = 1 /\ work = NoWork /\ done = {}
    /\ interrupts = 0 /\ tampers = 0

\* approved_plan_binding_sha256: the same evidence approved with other exceptions is
\* another approval.
Binding(p) == [version |-> p.version, override |-> p.override]

\* Every artifact the manifest names is on disk as it says.
ManifestLive(f) ==
    /\ manifest[f] # None
    /\ {manifest[f].pair.first, manifest[f].pair.second.shot} \subseteq bundles[f]
    /\ final[f] = manifest[f].pair

\* An error ends the call, and with it the process.
Return == pc' = "idle" /\ at' = 1 /\ frame' = 1 /\ work' = NoWork /\ done' = {}

SaveCheckpoint(completed) ==
    rollCheckpoint' = [rollCheckpoint EXCEPT
                           ![at] = [binding |-> Binding(plan[at]), done |-> completed]]

-----------------------------------------------------------------------------
(* scan_full_negative *)

\* Variant: the output directory's approval is not compared.
BelongsAnyway(c) == TRUE

\* The output directory is new or belongs to the plan's present approval.
BelongsToPlan(c) ==
    rollCheckpoint[c] # None => rollCheckpoint[c].binding = Binding(plan[c])

\* The plan is approved and its previews are as approved; the checkpoint is
\* started again, with no frame completed.
OpenArchive ==
    /\ pc = "archive"
    /\ plan[at].stage = "approved" /\ previewsOk[at] /\ BelongsToPlan(at)
    /\ SaveCheckpoint({})
    /\ pc' = "frame" /\ frame' = FirstOf(at) /\ done' = {} /\ work' = NoWork
    /\ UNCHANGED <<plan, previewsOk, frames, at, interrupts, tampers>>

OpenArchiveRefused ==
    /\ pc = "archive"
    /\ ~(plan[at].stage = "approved" /\ previewsOk[at] /\ BelongsToPlan(at))
    /\ Return
    /\ UNCHANGED <<plan, previewsOk, archive, interrupts, tampers>>

InChunk == pc = "frame" /\ frame \in FramesOf(at)

\* A frame that has a manifest is done if the manifest is of this request and
\* everything it names is intact.
ReuseFrame ==
    /\ InChunk
    /\ ManifestLive(frame) /\ manifest[frame].binding = Binding(plan[at])
    /\ done' = done \cup {frame}
    /\ SaveCheckpoint(done')
    /\ frame' = frame + 1
    /\ UNCHANGED <<plan, previewsOk, frames, pc, at, work, interrupts, tampers>>

\* A frame without a manifest resumes from its first source's checkpoint when
\* that is of this request and its files are intact.
ReuseSource(f) ==
    /\ first[f] # None
    /\ first[f].binding = Binding(plan[ChunkOf(f)])
    /\ first[f].shot \in bundles[f]

\* The capturer is given the checkpointed source and preserves it again, with
\* the same content under the same name.
ResumeFrame ==
    /\ InChunk /\ manifest[frame] = None
    /\ ReuseSource(frame)
    /\ work' = [first |-> first[frame].shot, second |-> None]
    /\ pc' = "second"
    /\ UNCHANGED <<plan, previewsOk, archive, at, frame, done, interrupts, tampers>>

\* Variant: a first source that cannot be reused is captured again.
NeedsFirstAgain(f) == manifest[f] = None /\ ~ReuseSource(f)

\* Nothing of the frame is on record.
NeedsFirst(f) == manifest[f] = None /\ first[f] = None

\* Anything else is refused and left for a person to look at.
FrameRefused ==
    /\ InChunk
    /\ \/ /\ manifest[frame] # None
          /\ ~(ManifestLive(frame) /\ manifest[frame].binding = Binding(plan[at]))
       \/ /\ manifest[frame] = None /\ first[frame] # None
          /\ ~ReuseSource(frame)
    /\ Return
    /\ UNCHANGED <<plan, previewsOk, archive, interrupts, tampers>>

\* One uninterrupted reservation; its bundle is renamed into place whole.
Shot == taken[frame] + 1
Transfer ==
    /\ taken' = [taken EXCEPT ![frame] = Shot]
    /\ bundles' = [bundles EXCEPT ![frame] = @ \cup {Shot}]

\* The first transfer: its bundle, then its checkpoint.
FirstTransfer ==
    /\ InChunk /\ NeedsFirst(frame)
    /\ Transfer
    /\ first' = [first EXCEPT
                    ![frame] = [binding |-> Binding(plan[at]), shot |-> Shot]]
    /\ work' = [first |-> Shot, second |-> None]
    /\ pc' = "second"
    /\ UNCHANGED <<plan, previewsOk, rollCheckpoint, final, manifest, at, frame, done, interrupts, tampers>>

\* The second transfer replays the state of the first.
Second(shot, held) == [shot |-> shot, replays |-> held]

SecondTransfer ==
    /\ pc = "second"
    /\ Transfer
    /\ work' = [work EXCEPT !.second = Second(Shot, work.first)]
    /\ pc' = "final"
    /\ UNCHANGED <<plan, previewsOk, rollCheckpoint, first, final, manifest, at, frame, done, interrupts, tampers>>

WriteFinal ==
    /\ pc = "final"
    /\ final' = [final EXCEPT ![frame] = work]
    /\ pc' = "manifest"
    /\ UNCHANGED <<plan, previewsOk, rollCheckpoint, taken, bundles, first, manifest, at, capture, interrupts, tampers>>

\* The scanner answered a fresh probe: the manifest is written, then the roll's
\* checkpoint.
WriteManifest ==
    /\ pc = "manifest"
    /\ manifest' = [manifest EXCEPT
                       ![frame] = [binding |-> Binding(plan[at]), pair |-> work]]
    /\ pc' = "checkpoint"
    /\ UNCHANGED <<plan, previewsOk, rollCheckpoint, taken, bundles, first, final, at, capture, interrupts, tampers>>

CheckpointFrame ==
    /\ pc = "checkpoint"
    /\ done' = done \cup {frame}
    /\ SaveCheckpoint(done')
    /\ pc' = "frame" /\ frame' = frame + 1 /\ work' = NoWork
    /\ UNCHANGED <<plan, previewsOk, frames, at, interrupts, tampers>>

CaptureSteps ==
    \/ OpenArchive \/ OpenArchiveRefused
    \/ ReuseFrame \/ ResumeFrame \/ FrameRefused
    \/ FirstTransfer \/ SecondTransfer \/ WriteFinal \/ WriteManifest \/ CheckpointFrame

\* The process ends while it writes: a bundle whose checkpoint is not there, and a
\* triplet that is gone, torn or whole.
CutCapture ==
    /\ interrupts < MaxInterrupts /\ interrupts' = interrupts + 1
    /\ \/ /\ InChunk /\ NeedsFirst(frame)
          /\ Transfer
          /\ UNCHANGED final
       \/ /\ pc = "final"
          /\ \E left \in {None, Altered, work} : final' = [final EXCEPT ![frame] = left]
          /\ UNCHANGED <<taken, bundles>>
    /\ Return
    /\ UNCHANGED <<plan, previewsOk, rollCheckpoint, first, manifest, tampers>>

-----------------------------------------------------------------------------
\* A manifest names one reconstruction: the triplet on disk shows exactly its two
\* sources, the second replays the first, the first is the checkpointed one, and
\* the whole archive belongs to one approval, whatever died in between.
\* (FullNegativeWorkflow: checkpoint first, manifest last; scan_full_negative)
ManifestIsReconstruction ==
    \A f \in Frames : manifest[f] # None =>
        LET m == manifest[f] IN
        /\ final[f] \in {m.pair, Altered}
        /\ m.pair.second.replays = m.pair.first
        /\ first[f] = [binding |-> m.binding, shot |-> m.pair.first]
        /\ rollCheckpoint[ChunkOf(f)].binding = m.binding
=============================================================================
