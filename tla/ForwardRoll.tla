------------------------------ MODULE ForwardRoll ------------------------------
(***************************************************************************)
(* The forward-only roll (roll/forward.py with the adapter and the command *)
(* of cli/roll_scan.py): chunk by chunk a plan is prepared, approved and   *)
(* archived, before the film moves on; when every manifest of the roll is  *)
(* validated against its live files the film is ejected.  Preparing and    *)
(* approving are the steps of PlanContract's life of one plan, whose       *)
(* detail is RollPlan; archiving is FullNegative.                          *)
(*                                                                         *)
(* A process runs the command once, with the frames whose verification it  *)
(* lets pass; the film stays in the feeder and the command is run again    *)
(* until it ejects.                                                        *)
(***************************************************************************)
EXTENDS FullNegative

VARIABLES
    wideOk,        \* per chunk, its committed wide previews are as recorded
    fwd,           \* forward-roll.json: the chunks that have a plan, the chunks whose
                   \* manifests are recorded, and the completed frames
    seen,          \* the completed frames of the last refresh
    allow,         \* the chunks for which this run names the doubtful frames
    ejected        \* the film was ejected

forward == <<fwd, seen, allow>>
plans == <<plan, previewsOk, wideOk>>
budgets == <<interrupts, tampers>>
vars == <<plans, archive, forward, pc, at, capture, ejected, budgets>>

Forwards == [plans : SUBSET Chunks, recorded : SUBSET Chunks, completed : SUBSET Frames]
Fresh == [plans |-> {}, recorded |-> {}, completed |-> {}]

TypeOK ==
    /\ ArchiveType
    /\ wideOk \in [Chunks -> BOOLEAN]
    /\ fwd \in Forwards \cup {None}
    /\ seen \subseteq Frames /\ allow \subseteq Chunks
    /\ ejected \in BOOLEAN
    /\ pc \in {"idle", "chunk", "prepare", "approve", "archive", "frame", "second", "final",
               "manifest", "checkpoint", "eject"}

Init ==
    /\ ArchiveInit
    /\ wideOk = [c \in Chunks |-> TRUE]
    /\ fwd = None /\ seen = {} /\ allow = {} /\ ejected = FALSE

-----------------------------------------------------------------------------
(* The workflow *)

\* Variant: a recorded manifest is a completed frame.
RefreshedByRecord(recorded) == UNION {FramesOf(c) : c \in recorded}

\* Every manifest the checkpoint names is parsed and compared with the live files
\* again; what fails is not completed.
Refreshed(recorded) ==
    {f \in UNION {FramesOf(c) : c \in recorded} : ManifestLive(f)}

SaveForward(f) ==
    /\ fwd' = [f EXCEPT !.completed = Refreshed(f.recorded)]
    /\ seen' = fwd'.completed

\* A new root gets its checkpoint; an existing one is resumed, with the same
\* identity, frames and chunks.  The run starts with a refresh.
Start(named) ==
    /\ pc = "idle" /\ ~ejected
    /\ SaveForward(IF fwd = None THEN Fresh ELSE fwd)
    /\ allow' = named
    /\ pc' = "chunk" /\ UNCHANGED at
    /\ UNCHANGED <<plans, archive, capture, ejected, budgets>>

\* A chunk whose frames are all completed is passed over.
SkipChunk ==
    /\ pc = "chunk" /\ at \in Chunks
    /\ FramesOf(at) \subseteq seen /\ at \in fwd.plans
    /\ at' = at + 1
    /\ UNCHANGED <<plans, archive, forward, pc, capture, ejected, budgets>>

OpenChunk ==
    /\ pc = "chunk" /\ at \in Chunks
    /\ ~ FramesOf(at) \subseteq seen
    /\ pc' = "prepare"
    /\ UNCHANGED <<plans, archive, forward, at, capture, ejected, budgets>>

\* The wide previews of the earlier chunks calibrate this one's registration, and
\* must be the ones their plans record.
ContextLoads(c) == \A d \in Chunks : d < c => wideOk[d]

\* prepare_roll has nothing to scan: an approved plan is returned when its aligned
\* previews are intact, any other one when all are.
Stands(c) ==
    /\ plan[c].stage \in {"review", "approved"} /\ previewsOk[c]
    /\ plan[c].stage = "review" => wideOk[c]

\* Otherwise what is missing or damaged is scanned again, and an approval it was
\* part of is gone.  What is scanned again may show the same or not, and may
\* pass its verification or not.
Scanned(c) ==
    [stage : {"review"}, doubtful : BOOLEAN, override : {FALSE},
     version : IF plan[c].stage = "none" THEN {0}
               ELSE {plan[c].version, plan[c].version + 1} \cap Versions]

Prepare ==
    /\ pc = "prepare" /\ ContextLoads(at)
    /\ \/ Stands(at) /\ UNCHANGED plans
       \/ /\ ~Stands(at)
          /\ \E p \in Scanned(at) : plan' = [plan EXCEPT ![at] = p]
          /\ previewsOk' = [previewsOk EXCEPT ![at] = TRUE]
          /\ wideOk' = [wideOk EXCEPT ![at] = TRUE]
    /\ fwd' = [fwd EXCEPT !.plans = @ \cup {at}]
    /\ pc' = "approve"
    /\ UNCHANGED <<archive, seen, allow, at, capture, ejected, budgets>>

PrepareRefused ==
    /\ pc = "prepare" /\ ~ContextLoads(at)
    /\ Return
    /\ UNCHANGED <<plans, archive, forward, ejected, budgets>>

\* approve_chunk leaves an approved plan alone if its exceptions are the ones this
\* run names; approve_roll wants every doubtful frame named.
Approvable(c) ==
    IF plan[c].stage = "approved" THEN plan[c].override = (c \in allow)
                                  ELSE plan[c].doubtful => c \in allow

ApproveChunk ==
    /\ pc = "approve" /\ Approvable(at)
    /\ plan' = [plan EXCEPT ![at].stage = "approved", ![at].override = at \in allow]
    /\ pc' = "archive"
    /\ UNCHANGED <<previewsOk, wideOk, archive, forward, at, capture, ejected, budgets>>

ApproveRefused ==
    /\ pc = "approve" /\ ~Approvable(at)
    /\ Return
    /\ UNCHANGED <<plans, archive, forward, ejected, budgets>>

Archive ==
    /\ CaptureSteps
    /\ UNCHANGED <<wideOk, forward, ejected>>

EjectIfComplete ==
    IF seen' = Frames THEN pc' = "eject" /\ at' = 1 ELSE pc' = "idle" /\ at' = 1

\* Every frame of the chunk has a manifest: they are recorded and validated (which
\* cannot fail here: files are damaged between runs only), and the run goes on
\* or, when it has processed --max-chunks of them, returns.
RecordChunk ==
    /\ pc = "frame" /\ frame \notin FramesOf(at)
    /\ SaveForward([fwd EXCEPT !.recorded = @ \cup {at}])
    /\ FramesOf(at) \subseteq seen'
    /\ \/ pc' = "chunk" /\ at' = at + 1
       \/ EjectIfComplete
    /\ frame' = 1 /\ work' = NoWork /\ done' = {}
    /\ UNCHANGED <<plans, archive, allow, ejected, budgets>>

\* After the last chunk everything is validated once more.
Finish ==
    /\ pc = "chunk" /\ at \notin Chunks
    /\ SaveForward(fwd)
    /\ EjectIfComplete
    /\ UNCHANGED <<plans, archive, allow, capture, ejected, budgets>>

\* Only a run that ends with the whole declared roll ejects it.
Eject ==
    /\ pc = "eject"
    /\ ejected' = TRUE
    /\ Return
    /\ UNCHANGED <<plans, archive, forward, budgets>>

-----------------------------------------------------------------------------
(* What goes wrong *)

\* The process ends between two steps: a stop, an error or its death.
Die ==
    /\ pc # "idle"
    /\ interrupts < MaxInterrupts /\ interrupts' = interrupts + 1
    /\ Return
    /\ UNCHANGED <<plans, archive, forward, ejected, tampers>>

\* It ends while a plan is being scanned; a stop still records where the plan is.
CutPrepare ==
    /\ pc = "prepare" /\ ContextLoads(at) /\ ~Stands(at)
    /\ interrupts < MaxInterrupts /\ interrupts' = interrupts + 1
    /\ plan' = [plan EXCEPT ![at].stage = "unready", ![at].override = FALSE]
    /\ fwd' \in {fwd, [fwd EXCEPT !.plans = @ \cup {at}]}
    /\ Return
    /\ UNCHANGED <<previewsOk, wideOk, archive, seen, allow, ejected, tampers>>

CutArchive ==
    /\ CutCapture
    /\ UNCHANGED <<wideOk, forward, ejected>>

\* Between two runs somebody damages a file.
Tamper ==
    /\ pc = "idle" /\ ~ejected
    /\ tampers < MaxTampers /\ tampers' = tampers + 1
    /\ \/ \E c \in Chunks : /\ plan[c].stage \in {"review", "approved"}
                            /\ previewsOk' = [previewsOk EXCEPT ![c] = FALSE]
                            /\ UNCHANGED <<wideOk, bundles, final>>
       \/ \E c \in Chunks : /\ plan[c].stage \in {"review", "approved"}
                            /\ wideOk' = [wideOk EXCEPT ![c] = FALSE]
                            /\ UNCHANGED <<previewsOk, bundles, final>>
       \/ \E f \in Frames : \E shot \in bundles[f] :
                            /\ bundles' = [bundles EXCEPT ![f] = @ \ {shot}]
                            /\ UNCHANGED <<previewsOk, wideOk, final>>
       \/ \E f \in Frames : /\ final[f] # None
                            /\ final' = [final EXCEPT ![f] = Altered]
                            /\ UNCHANGED <<previewsOk, wideOk, bundles>>
    /\ UNCHANGED <<plan, rollCheckpoint, taken, first, manifest, forward, pc, at, capture,
                   ejected, interrupts>>

-----------------------------------------------------------------------------
Steps ==
    \/ SkipChunk \/ OpenChunk
    \/ Prepare \/ PrepareRefused \/ ApproveChunk \/ ApproveRefused
    \/ Archive \/ RecordChunk \/ Finish \/ Eject

Done == ejected /\ pc = "idle" /\ UNCHANGED vars

Next ==
    \/ \E named \in SUBSET Chunks : Start(named)
    \/ Steps
    \/ Die \/ CutPrepare \/ CutArchive \/ Tamper
    \/ Done

\* A run goes on by itself; the operator runs the command again until the film is
\* ejected, and in the long run with every choice of exceptions.
Spec ==
    /\ Init /\ [][Next]_vars
    /\ WF_vars(Steps)
    /\ \A named \in SUBSET Chunks : SF_vars(Start(named))

-----------------------------------------------------------------------------
\* Nothing that was captured is captured again: a checkpointed first source is never
\* replaced, nor is a manifest, nor the reconstruction it names, however often the
\* command is run again.
\* (FullNegativeWorkflow._capture_frame_locked; ForwardRollWorkflow resume)
NothingCapturedTwice ==
    [][\A f \in Frames :
          /\ first[f] # None => first'[f] = first[f]
          /\ manifest[f] # None => /\ manifest'[f] = manifest[f]
                                   /\ taken'[f] = taken[f]
                                   /\ final'[f] \in {final[f], Altered}]_vars

\* The film leaves the feeder, and with it the last chance to scan it, only when the
\* whole archive is on disk as its manifests say, under one approval per chunk.
\* (_eject_after_forward_roll, ForwardRollWorkflow._refresh)
EjectsArchivedRoll ==
    [][ejected' # ejected =>
          \A f \in Frames : /\ ManifestLive(f)
                            /\ manifest[f].binding = rollCheckpoint[ChunkOf(f)].binding]_vars

\* Nobody touched what cannot be scanned again: the archive's files, the previews an
\* opened archive was approved from, and the wide previews of an approved chunk.
Unharmed ==
    /\ \A f \in Frames :
          /\ manifest[f] # None => ManifestLive(f)
          /\ first[f] # None => first[f].shot \in bundles[f]
    /\ \A c \in Chunks :
          /\ rollCheckpoint[c] # None => previewsOk[c]
          /\ plan[c].stage = "approved" /\ previewsOk[c] => wideOk[c]

\* Whatever run died where, the roll is archived and ejected in the end.
\* (ForwardRollWorkflow.run, resume)
RollIsArchived == []Unharmed => <>ejected

\* The film is ejected when, and in the end because, the archive is whole.
EjectedMeansArchived == EjectsArchivedRoll /\ RollIsArchived
=============================================================================
