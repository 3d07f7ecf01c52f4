------------------------------- MODULE RollPlan -------------------------------
(***************************************************************************)
(* The staged roll service (roll/service.py): one roll-scan.json, the      *)
(* previews and fine scans beside it, and the three calls that move it:    *)
(* prepare_roll, approve_roll and scan_fine.  Each call reads the plan,    *)
(* checks it against its request and the live files, works on a copy and   *)
(* writes the plan again after every transfer.                             *)
(*                                                                         *)
(* A preview's content is what the scanner saw (a look) and, when aligned, *)
(* the geometry it was scanned with; a fine scan's is the take that        *)
(* produced it.  A recorded hash is the recorded content, so a file is as  *)
(* recorded when the two are equal.  Files change behind the program only  *)
(* between calls (Tamper); a call ends early by a stop, an error or the    *)
(* death of the process (MaxInterrupts in all).                            *)
(***************************************************************************)
EXTENDS Integers, FiniteSets

CONSTANTS
    Shows,             \* per frame: what a preview transfer may show (its looks),
    TakesOf,           \* and what the smear check may say of a fine one
    Dark,              \* the looks whose alignment verification does not pass
    Calibrate(_),      \* the registration policy's fit (external): wide previews to
                       \* a geometry per frame
    Geometries,        \* the geometries it can give
    Recipes,           \* fine recipes
    Infrared,          \* those that ask for the infrared plane
    Selections,        \* the frames a caller of scan_fine names
    Overrides,         \* and one of approve_roll
    None,              \* an absent field, an absent file
    Altered,           \* content the program did not write
    NoPlan,            \* an absent plan
    NFrames, MaxInterrupts, MaxTampers

Frames == 1..NFrames
Takes == {"clean", "unclear"}
Looks == UNION {Shows[f] : f \in Frames}

ASSUME RollPlanAssumption ==
    /\ NFrames \in Nat \ {0} /\ MaxInterrupts \in Nat /\ MaxTampers \in Nat
    /\ TakesOf \in [Frames -> SUBSET Takes]
    /\ Dark \subseteq Looks /\ Infrared \subseteq Recipes
    /\ Selections \subseteq SUBSET Frames /\ Overrides \subseteq SUBSET Frames
    /\ \A w \in [Frames -> Looks] : Calibrate(w) \in [Frames -> Geometries]


Aligned == [geometry : Geometries, look : Looks]
FineKeys == Frames \X Recipes \X Geometries      \* _fine_artifact_name
Pairs == [rgb : Takes \cup {None, Altered}, ir : Takes \cup {None, Altered}]
Stages == {"wide", "aligned", "review", "approved", "complete"}
ApprovedStages == {"approved", "complete"}

Plans ==
    [stage : Stages, approved : BOOLEAN, overrides : SUBSET Frames,
     wide : [Frames -> Looks \cup {None}], reg : [Frames -> Geometries \cup {None}],
     aligned : [Frames -> Aligned \cup {None}], fine : [Frames -> Recipes \cup {None}]]

ASSUME AbsenceAssumption ==
    /\ None \notin Looks /\ None \notin Geometries /\ None \notin Aligned
    /\ None \notin Recipes /\ None \notin Takes
    /\ NoPlan \notin Plans

VARIABLES
    disk,       \* roll-scan.json
    plan,       \* the running call's copy
    pc, at,     \* the loop it is in and the frame it is at
    job,        \* scan_fine's recipe, selection and accepted unclear frames
    wideFile, alignedFile, fineFile,    \* the TIFFs
    qc,         \* the QC sidecars: the pair whose evidence each records
    interrupts, tampers

files == <<wideFile, alignedFile, fineFile, qc>>
vars == <<disk, plan, pc, at, job, files, interrupts, tampers>>

NoPair == [rgb |-> None, ir |-> None]
NoJob == [recipe |-> None, select |-> {}, accept |-> {}]

TypeOK ==
    /\ disk \in Plans \cup {NoPlan}
    /\ plan \in Plans \cup {NoPlan}
    /\ pc \in {"idle", "wide", "align", "fine"}
    /\ at \in 1..(NFrames + 1)
    /\ job \in [recipe : Recipes \cup {None}, select : SUBSET Frames, accept : SUBSET Frames]
    /\ wideFile \in [Frames -> Looks \cup {None, Altered}]
    /\ alignedFile \in [Frames -> Aligned \cup {None, Altered}]
    /\ fineFile \in [FineKeys -> Pairs]
    /\ qc \in [FineKeys -> Pairs]
    /\ interrupts \in 0..MaxInterrupts /\ tampers \in 0..MaxTampers

Init ==
    /\ disk = NoPlan /\ plan = NoPlan
    /\ pc = "idle" /\ at = 1 /\ job = NoJob
    /\ wideFile = [f \in Frames |-> None]
    /\ alignedFile = [f \in Frames |-> None]
    /\ fineFile = [k \in FineKeys |-> NoPair]
    /\ qc = [k \in FineKeys |-> NoPair]
    /\ interrupts = 0 /\ tampers = 0

-----------------------------------------------------------------------------
(* What the checks of a plan say *)

\* AlignmentVerification.passed, of the verification an aligned preview got.
Passed(a) == a.look \notin Dark

\* An aligned preview, a registration and a fine scan are recorded only on top
\* of what they need.
RecordsCohere(p) ==
    \A f \in Frames :
        /\ p.reg[f] # None => p.wide[f] # None
        /\ p.aligned[f] # None => p.reg[f] # None
        /\ p.fine[f] # None => p.reg[f] # None

\* An approval names every frame whose verification did not pass.
ApprovalCoheres(p) ==
    /\ p.approved <=> p.stage \in ApprovedStages
    /\ ~p.approved => p.overrides = {}
    /\ p.approved => \A f \in Frames :
                        \/ p.aligned[f] # None /\ Passed(p.aligned[f])
                        \/ f \in p.overrides

\* Each stage requires the evidence of the ones before it.
StageCoheres(p) ==
    /\ p.stage # "wide" => \A f \in Frames : p.wide[f] # None /\ p.reg[f] # None
    /\ p.stage \notin {"wide", "aligned"} => \A f \in Frames : p.aligned[f] # None
    /\ p.stage = "complete" =>
           \E r \in Recipes : \A f \in Frames : p.fine[f] = r

\* _read_plan accepts the file.
Readable(p) == p # NoPlan /\ RecordsCohere(p) /\ ApprovalCoheres(p) /\ StageCoheres(p)

\* A TIFF is the one whose hash, shape and resolution are recorded.
WideValid(p, f) == p.wide[f] # None /\ wideFile[f] = p.wide[f]
AlignedValid(p, f) == p.aligned[f] # None /\ alignedFile[f] = p.aligned[f]
PreviewsValid(p) == \A f \in Frames : AlignedValid(p, f)

Key(p, f, r) == <<f, r, p.reg[f]>>

\* The live files have exactly the evidence the accepted sidecar records.  The
\* infrared file of a recipe without infrared is not looked at.
QcValid(k) ==
    /\ qc[k].rgb \in Takes /\ fineFile[k].rgb = qc[k].rgb
    /\ k[2] \in Infrared => qc[k].ir \in Takes /\ fineFile[k].ir = qc[k].ir
    /\ k[2] \notin Infrared => qc[k].ir = None

FineValid(p, f, r) == p.fine[f] = r /\ QcValid(Key(p, f, r))

CompleteValid(p) == \E r \in Recipes : \A f \in Frames : FineValid(p, f, r)

\* The call is over: its copy is gone.
Return == pc' = "idle" /\ plan' = NoPlan /\ at' = 1 /\ job' = NoJob

\* Both the copy and the file become p.
Save(p) == plan' = p /\ disk' = p

-----------------------------------------------------------------------------
(* prepare_roll *)

FreshPlan ==
    [stage |-> "wide", approved |-> FALSE, overrides |-> {},
     wide |-> [f \in Frames |-> None], reg |-> [f \in Frames |-> None],
     aligned |-> [f \in Frames |-> None], fine |-> [f \in Frames |-> None]]

Begin(step) == pc' = step /\ at' = 1 /\ UNCHANGED <<files, interrupts, tampers>>

PrepareNew ==
    /\ pc = "idle" /\ disk = NoPlan
    /\ Save(FreshPlan)
    /\ Begin("wide") /\ UNCHANGED job

\* Variant: the stage moves back and the approval stays.
WithdrawnStageOnly(p) == [p EXCEPT !.stage = "aligned"]

\* The request's identity, device, frames, context, recipe and registration policy
\* are the saved ones, or the call raises before it changes anything.  A plan
\* that is not approved resumes; an approved one whose previews changed loses
\* its approval first.
Withdrawn(p) == [p EXCEPT !.stage = "aligned", !.approved = FALSE, !.overrides = {}]

\* Variant: an approved plan is returned whatever became of its previews.
PrepareAgainUnlessApproved ==
    /\ pc = "idle" /\ Readable(disk) /\ disk.stage \notin ApprovedStages
    /\ Save(disk)
    /\ Begin("wide") /\ UNCHANGED job

PrepareAgain ==
    /\ pc = "idle" /\ Readable(disk)
    /\ disk.stage \in ApprovedStages => ~PreviewsValid(disk)
    /\ Save(IF disk.stage \in ApprovedStages THEN Withdrawn(disk) ELSE disk)
    /\ Begin("wide") /\ UNCHANGED job

\* An approved plan with its previews intact is returned; only a completeness
\* that no longer holds is taken back.
PrepareApproved ==
    /\ pc = "idle" /\ Readable(disk)
    /\ disk.stage = "complete" /\ PreviewsValid(disk) /\ ~CompleteValid(disk)
    /\ disk' = [disk EXCEPT !.stage = "approved"]
    /\ UNCHANGED <<plan, pc, at, job, files, interrupts, tampers>>

\* A wide preview that is as recorded is kept.
KeepWide ==
    /\ pc = "wide" /\ at \in Frames
    /\ WideValid(plan, at)
    /\ at' = at + 1
    /\ UNCHANGED <<disk, plan, pc, job, files, interrupts, tampers>>

\* Otherwise the frame is scanned again, committed, hashed and recorded, and the
\* plan is a wide-preview plan again whatever else it holds.
WideRecorded(p, f, look) == [p EXCEPT !.stage = "wide", !.wide[f] = look]

ScanWide ==
    /\ pc = "wide" /\ at \in Frames
    /\ ~WideValid(plan, at)
    /\ \E look \in Shows[at] :
          /\ wideFile' = [wideFile EXCEPT ![at] = look]
          /\ Save(WideRecorded(plan, at, look))
    /\ at' = at + 1
    /\ UNCHANGED <<pc, job, alignedFile, fineFile, qc, interrupts, tampers>>

\* With every wide preview at hand the policy fits the whole roll.  A frame whose
\* registration moved loses what was scanned with the old one.
Registered(p) ==
    LET reg == Calibrate(p.wide)
        Kept(f, value) == IF p.reg[f] = reg[f] THEN value ELSE None
    IN  [p EXCEPT !.stage = "aligned", !.reg = reg,
                  !.aligned = [f \in Frames |-> Kept(f, p.aligned[f])],
                  !.fine = [f \in Frames |-> Kept(f, p.fine[f])]]

Register ==
    /\ pc = "wide" /\ at = NFrames + 1
    /\ Save(Registered(plan))
    /\ Begin("align") /\ UNCHANGED job

KeepAligned ==
    /\ pc = "align" /\ at \in Frames /\ AlignedValid(plan, at)
    /\ at' = at + 1
    /\ UNCHANGED <<disk, plan, pc, job, files, interrupts, tampers>>

\* A recorded preview that is not valid is cleared, and the plan written, before
\* the frame is scanned again with its registered geometry and verified.
ScanAligned ==
    /\ pc = "align" /\ at \in Frames /\ ~AlignedValid(plan, at)
    /\ \E look \in Shows[at] :
          LET preview == [geometry |-> plan.reg[at], look |-> look]
          IN  /\ alignedFile' = [alignedFile EXCEPT ![at] = preview]
              /\ Save([plan EXCEPT !.aligned[at] = preview])
    /\ at' = at + 1
    /\ UNCHANGED <<pc, job, wideFile, fineFile, qc, interrupts, tampers>>

AskForReview ==
    /\ pc = "align" /\ at = NFrames + 1
    /\ disk' = [plan EXCEPT !.stage = "review", !.approved = FALSE, !.overrides = {}]
    /\ Return
    /\ UNCHANGED <<files, interrupts, tampers>>

-----------------------------------------------------------------------------
(* approve_roll *)

Approve(overrides) ==
    /\ pc = "idle" /\ Readable(disk)
    /\ disk.stage = "review"
    /\ PreviewsValid(disk)
    /\ \A f \in Frames : Passed(disk.aligned[f]) \/ f \in overrides
    /\ disk' = [disk EXCEPT !.stage = "approved", !.approved = TRUE, !.overrides = overrides]
    /\ UNCHANGED <<plan, pc, at, job, files, interrupts, tampers>>

-----------------------------------------------------------------------------
(* scan_fine *)

\* Variant: the stage is corrected only at the end of the call.
ReopenedLate(p, recipe, select) == p

\* A complete plan that is about to change is taken back to "approved" before
\* the first file does.
Reopened(p, recipe, select) ==
    IF p.stage = "complete" /\ \E f \in select : ~FineValid(p, f, recipe)
    THEN [p EXCEPT !.stage = "approved"] ELSE p

StartFine(recipe, select, accept) ==
    /\ pc = "idle" /\ Readable(disk)
    /\ disk.approved /\ disk.stage \in ApprovedStages
    /\ PreviewsValid(disk)
    /\ select # {} /\ accept \subseteq select
    /\ Save(Reopened(disk, recipe, select))
    /\ job' = [recipe |-> recipe, select |-> select, accept |-> accept]
    /\ Begin("fine")

SkipFine ==
    /\ pc = "fine" /\ at \in Frames
    /\ at \notin job.select \/ FineValid(plan, at, job.recipe)
    /\ at' = at + 1
    /\ UNCHANGED <<disk, plan, pc, job, files, interrupts, tampers>>

NeedsFine == pc = "fine" /\ at \in job.select /\ ~FineValid(plan, at, job.recipe)

\* The pair a take leaves: no infrared file unless it was asked for.
TakenPair(recipe, take) ==
    [rgb |-> take, ir |-> IF recipe \in Infrared THEN take ELSE None]

Acceptable(take) == take = "clean" \/ (take = "unclear" /\ at \in job.accept)

\* The transfer, the pair, the sidecar that describes it, and the plan.
ScanFine ==
    /\ NeedsFine
    /\ \E take \in TakesOf[at] :
          LET key == Key(plan, at, job.recipe)
              pair == TakenPair(job.recipe, take)
          IN  /\ Acceptable(take)
              /\ fineFile' = [fineFile EXCEPT ![key] = pair]
              /\ qc' = [qc EXCEPT ![key] = pair]
    /\ Save([plan EXCEPT !.fine[at] = job.recipe])
    /\ at' = at + 1
    /\ UNCHANGED <<pc, job, wideFile, alignedFile, interrupts, tampers>>

\* A smear the caller did not accept, or a scanner that does not answer the fresh
\* probe: the pair is on disk, its sidecar is gone and the plan is as it was.
ScanFineRefused ==
    /\ NeedsFine
    /\ interrupts < MaxInterrupts /\ interrupts' = interrupts + 1
    /\ \E take \in TakesOf[at] :
          LET key == Key(plan, at, job.recipe)
          IN  /\ fineFile' = [fineFile EXCEPT ![key] = TakenPair(job.recipe, take)]
              /\ qc' = [qc EXCEPT ![key] = NoPair]
    /\ Return
    /\ UNCHANGED <<disk, wideFile, alignedFile, tampers>>

\* Variant: a roll is complete when every frame of this call was done.
SettledBySelection(p, recipe) == [p EXCEPT !.stage = "complete"]

\* Variant: the stage is the one the command line names.
SettledAsStopped(p, recipe) == [p EXCEPT !.stage = "stopped"]

\* The stage is what the files say of the whole roll.
Settled(p, recipe) ==
    [p EXCEPT !.stage = IF \A f \in Frames : FineValid(p, f, recipe)
                        THEN "complete" ELSE "approved"]

\* After the last frame, or when a stop was requested before one.
EndFine ==
    /\ pc = "fine"
    /\ \/ at = NFrames + 1 /\ UNCHANGED interrupts
       \/ /\ at \in job.select
          /\ interrupts < MaxInterrupts /\ interrupts' = interrupts + 1
    /\ disk' = Settled(plan, job.recipe)
    /\ Return
    /\ UNCHANGED <<files, tampers>>

-----------------------------------------------------------------------------
(* What goes wrong *)

\* A stop, an exception or the death of the process between two writes.
Interrupt ==
    /\ pc # "idle"
    /\ interrupts < MaxInterrupts /\ interrupts' = interrupts + 1
    /\ Return
    /\ UNCHANGED <<disk, files, tampers>>

\* What the two renames of a pair can leave when they are cut short
\* (_commit_tiff_pair): each old file still there, moved aside or put back, with
\* the new RGB alone, or both new.
CutPairs(old, new) ==
    {old, new, NoPair, [old EXCEPT !.rgb = None], [old EXCEPT !.ir = None],
     [rgb |-> new.rgb, ir |-> None], [rgb |-> new.rgb, ir |-> old.ir]}

\* The same while a transfer is being committed: the file may be the old one,
\* missing or the new one, and the plan does not know.
CutPreview ==
    /\ interrupts < MaxInterrupts /\ interrupts' = interrupts + 1
    /\ \/ /\ pc = "wide" /\ at \in Frames
          /\ ~WideValid(plan, at)
          /\ \E left \in Shows[at] \cup {None} : wideFile' = [wideFile EXCEPT ![at] = left]
          /\ UNCHANGED <<disk, alignedFile>>
       \/ /\ pc = "align" /\ at \in Frames /\ ~AlignedValid(plan, at)
          /\ \E left \in [geometry : {plan.reg[at]}, look : Shows[at]] \cup {None, alignedFile[at]} :
                alignedFile' = [alignedFile EXCEPT ![at] = left]
          /\ disk' = [plan EXCEPT !.aligned[at] = None]
          /\ UNCHANGED wideFile
    /\ Return
    /\ UNCHANGED <<fineFile, qc, tampers>>

CutFine ==
    /\ NeedsFine
    /\ interrupts < MaxInterrupts /\ interrupts' = interrupts + 1
    /\ \E take \in TakesOf[at] :
          LET key == Key(plan, at, job.recipe)
              new == TakenPair(job.recipe, take)
          IN  \/ /\ \E left \in CutPairs(fineFile[key], new) :
                       fineFile' = [fineFile EXCEPT ![key] = left]
                 /\ UNCHANGED qc
              \/ /\ Acceptable(take)
                 /\ fineFile' = [fineFile EXCEPT ![key] = new]
                 /\ qc' = [qc EXCEPT ![key] = new]
    /\ Return
    /\ UNCHANGED <<disk, wideFile, alignedFile, tampers>>

\* Between calls somebody else changes a file.
Tamper ==
    /\ pc = "idle"
    /\ tampers < MaxTampers /\ tampers' = tampers + 1
    /\ \/ \E f \in Frames : /\ wideFile[f] # None
                            /\ wideFile' = [wideFile EXCEPT ![f] = Altered]
                            /\ UNCHANGED <<alignedFile, fineFile>>
       \/ \E f \in Frames : /\ alignedFile[f] # None
                            /\ alignedFile' = [alignedFile EXCEPT ![f] = Altered]
                            /\ UNCHANGED <<wideFile, fineFile>>
       \/ \E k \in FineKeys : /\ fineFile[k].rgb # None
                              /\ fineFile' = [fineFile EXCEPT ![k].rgb = Altered]
                              /\ UNCHANGED <<wideFile, alignedFile>>
    /\ UNCHANGED <<disk, plan, pc, at, job, qc, interrupts>>

-----------------------------------------------------------------------------
Working ==
    \/ KeepWide \/ ScanWide \/ Register \/ KeepAligned \/ ScanAligned \/ AskForReview
    \/ SkipFine \/ ScanFine \/ EndFine

Approval == \E overrides \in Overrides : Approve(overrides)
Fine == \E recipe \in Recipes, select \in Selections :
            \E accept \in {{}, select} : StartFine(recipe, select, accept)

Next ==
    \/ PrepareNew \/ PrepareAgain \/ PrepareApproved \/ Approval \/ Fine
    \/ Working \/ ScanFineRefused
    \/ Interrupt \/ CutPreview \/ CutFine \/ Tamper

\* The operator keeps preparing a plan that is not approved, approves what is
\* shown, and keeps asking for the whole roll with one recipe; a call that runs is
\* not suspended.
Prepare == PrepareNew \/ PrepareAgain
ApproveAll == Approve(Frames)
FineAll == StartFine(CHOOSE r \in Recipes : TRUE, Frames, Frames)

Fairness == WF_vars(Working) /\ SF_vars(Prepare) /\ SF_vars(ApproveAll) /\ SF_vars(FineAll)

Spec == Init /\ [][Next]_vars /\ Fairness

-----------------------------------------------------------------------------
\* Every plan the service writes is one its own strict reader accepts again: no
\* sequence of calls, stops and crashes leaves a roll that cannot be resumed.
\* (the writes of prepare_roll, approve_roll and scan_fine against _read_plan)
PlanReadable == disk # NoPlan => Readable(disk)

\* From the registration on, the plan's geometry is the fit of the very wide
\* previews it records, and every aligned preview was scanned with it, however
\* many previews were scanned again in between.
\* (prepare_roll: the reuse of previews against the reset of records)
RegisteredByItsWides ==
    disk # NoPlan /\ disk.stage # "wide" =>
        /\ disk.reg = Calibrate(disk.wide)
        /\ \A f \in Frames : disk.aligned[f] # None => disk.aligned[f].geometry = disk.reg[f]

\* While the plan says "complete", each frame's pair is the one take its sidecar
\* describes, of one recipe for the whole roll, unless somebody else changed the
\* files: the program never has a complete roll and half a pair.
\* (scan_fine: the stage before the first changed file and after the last)
CompleteIsTrue ==
    disk # NoPlan /\ disk.stage = "complete" =>
        \E r \in Recipes : \A f \in Frames :
            LET k == Key(disk, f, r)
            IN  /\ disk.fine[f] = r
                /\ \E take \in Takes : qc[k] = TakenPair(r, take)
                /\ fineFile[k].rgb \in {qc[k].rgb, None, Altered}
                /\ fineFile[k].ir \in {qc[k].ir, None, Altered}

\* At every stage the plan says only what its records and files show.
PlanIsTrue == RegisteredByItsWides /\ CompleteIsTrue

\* The evidence an approval binds (approved_plan_binding_sha256).
Bound(p) ==
    [overrides |-> p.overrides, wide |-> p.wide,
     reg |-> p.reg, aligned |-> p.aligned]

Bindings ==
    [overrides : SUBSET Frames, wide : [Frames -> Looks],
     reg : [Frames -> Geometries], aligned : [Frames -> Aligned]]

Contract == INSTANCE PlanContract
    WITH Evidence <- Bindings,
         binding <- IF disk # NoPlan /\ disk.approved THEN Bound(disk) ELSE None

\* A plan that stays approved keeps the evidence it was approved with, through
\* tampering, another preparation and crashes: this is what the full-negative
\* capture's checkpoints rely on.
\* (prepare_roll's withdrawal; approve_roll; approved_plan_binding_sha256)
KeepsPlanContract == Contract!Spec

\* Whatever was interrupted or changed, the operator who keeps preparing,
\* approving and scanning ends with a complete roll of valid files.
RollCompletes ==
    []<>(/\ disk # NoPlan /\ disk.stage = "complete"
         /\ PreviewsValid(disk) /\ CompleteValid(disk))
=============================================================================
