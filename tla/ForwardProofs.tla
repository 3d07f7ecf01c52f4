---------------------------- MODULE ForwardProofs -----------------------------
(***************************************************************************)
(* Theorems about ForwardRoll, and through it about FullNegative, for      *)
(* every roll, chunk size, number of interruptions and of damaged files.   *)
(*                                                                         *)
(* A manifest is written at the end of several steps that a process may    *)
(* not survive.  The inductive invariant says what every one of them has   *)
(* left on disk (WorkInv), that a frame's first source is of the approval  *)
(* its chunk's archive belongs to (BindingInv), and pays for every         *)
(* transfer of a frame (TakenInv): without that count the numbers of the   *)
(* transfers, and so the types, have no bound.                             *)
(***************************************************************************)
EXTENDS ForwardRoll, TLAPS
-----------------------------------------------------------------------------
\* TypeOK in four parts: the plans, the archive's files, the run, its checkpoint.
Plan == [stage : {"none", "unready", "review", "approved"},
         version : Versions, doubtful : BOOLEAN, override : BOOLEAN]

PlanType ==
    /\ plan \in [Chunks -> Plan]
    /\ previewsOk \in [Chunks -> BOOLEAN] /\ wideOk \in [Chunks -> BOOLEAN]
    /\ rollCheckpoint \in [Chunks -> [binding : Bindings, done : SUBSET Frames] \cup {None}]

FilesType ==
    /\ taken \in [Frames -> Shots \cup {0}]
    /\ bundles \in [Frames -> SUBSET Shots]
    /\ first \in [Frames -> [binding : Bindings, shot : Shots] \cup {None}]
    /\ final \in [Frames -> Pairs \cup {None, Altered}]
    /\ manifest \in [Frames -> [binding : Bindings, pair : Pairs] \cup {None}]

CallType ==
    /\ at \in 1..(NFrames + 1)
    /\ frame \in 1..(NFrames + 1)
    /\ work \in [first : Shots \cup {None}, second : Seconds \cup {None}]
    /\ done \subseteq Frames
    /\ interrupts \in 0..MaxInterrupts /\ tampers \in 0..MaxTampers

RollType ==
    /\ fwd \in Forwards \cup {None}
    /\ seen \subseteq Frames /\ allow \subseteq Chunks
    /\ ejected \in BOOLEAN
    /\ pc \in {"idle", "chunk", "prepare", "approve", "archive", "frame", "second", "final",
               "manifest", "checkpoint", "eject"}

Calls == {"frame", "second", "final", "manifest", "checkpoint"}
InFrame == {"second", "final", "manifest", "checkpoint"}

\* A run has a checkpoint, and is at a chunk of the roll until it is done with all.
RunInv ==
    /\ pc # "idle" => fwd \in Forwards
    /\ pc \in Calls \cup {"prepare", "approve", "archive"} => at \in Chunks

\* The archive a call writes to is bound to the plan's present evidence, and what
\* it holds is what it has put on disk.
WorkInv ==
    /\ pc \in Calls => /\ rollCheckpoint[at] # None
                       /\ rollCheckpoint[at].binding = Binding(plan[at])
    /\ pc \in InFrame =>
           /\ frame \in FramesOf(at)
           /\ work.first \in Shots
           /\ first[frame] = [binding |-> Binding(plan[at]), shot |-> work.first]
    /\ pc \in {"second", "final", "manifest"} => manifest[frame] = None
    /\ pc \in {"final", "manifest", "checkpoint"} =>
           work.second \in Seconds /\ work.second.replays = work.first
    /\ pc \in {"manifest", "checkpoint"} => final[frame] = work
    /\ pc = "checkpoint" =>
           manifest[frame] = [binding |-> Binding(plan[at]), pair |-> work]

\* What a frame has on record is of the approval its chunk's archive belongs to.
BindingInv ==
    \A f \in Frames :
        /\ first[f] # None => /\ rollCheckpoint[ChunkOf(f)] # None
                              /\ rollCheckpoint[ChunkOf(f)].binding = first[f].binding
        /\ manifest[f] # None =>
               first[f] = [binding |-> manifest[f].binding, shot |-> manifest[f].pair.first]

\* A frame has been transferred once for its first source, once for its second,
\* and once more for every interruption.
HasSecond(f) ==
    manifest[f] # None \/ (frame = f /\ pc \in {"final", "manifest", "checkpoint"})

FirstsOf(f) == IF first[f] # None THEN 1 ELSE 0
SecondsOf(f) == IF HasSecond(f) THEN 1 ELSE 0

TakenInv == \A f \in Frames : taken[f] <= interrupts + FirstsOf(f) + SecondsOf(f)

EjectInv == pc = "eject" => \A f \in Frames : ManifestLive(f)

IInv ==
    /\ PlanType /\ FilesType /\ CallType /\ RollType
    /\ RunInv /\ WorkInv /\ BindingInv /\ TakenInv /\ EjectInv
    /\ ManifestIsReconstruction

\* The chunks of a roll are numbered within its frames.
LEMMA ChunkRange ==
    /\ \A f \in Frames : ChunkOf(f) \in Chunks
    /\ Chunks \subseteq 1..NFrames
<1> USE ForwardAssumption
<1>1. \A n \in Nat : n \div ChunkSize \in Nat /\ n \div ChunkSize <= n
  OBVIOUS
<1>2. \A f \in Frames : ChunkOf(f) \in 1..NFrames
  BY <1>1 DEF Frames, ChunkOf
<1>3. QED
  BY <1>2 DEF Chunks

\* The first frame of a chunk is a frame of the roll.
LEMMA FirstIsFrame ==
    ASSUME NEW c \in Chunks
    PROVE  FirstOf(c) \in Frames
<1> USE ForwardAssumption
<1>1. PICK f \in Frames : c = ChunkOf(f)
  BY DEF Chunks
<1>2. f - 1 \in Nat /\ c = ((f - 1) \div ChunkSize) + 1
  BY <1>1 DEF Frames, ChunkOf
<1>3. \A n \in Nat : n \div ChunkSize \in Nat /\ (n \div ChunkSize) * ChunkSize <= n
  OBVIOUS
<1>4. c - 1 \in Nat /\ (c - 1) * ChunkSize <= f - 1
  BY <1>2, <1>3
<1>5. (c - 1) * ChunkSize \in Nat
  BY <1>4
<1>6. QED
  BY <1>4, <1>5 DEF FirstOf, Frames

\* A saved roll checkpoint is one, and what it calls completed was validated just now.
LEMMA SavedForward ==
    ASSUME NEW f \in Forwards, SaveForward(f)
    PROVE  /\ fwd' \in Forwards /\ seen' \subseteq Frames
           /\ seen' = Frames => \A g \in Frames : ManifestLive(g)
<1>1. \A c : FramesOf(c) \subseteq Frames
  BY DEF FramesOf
<1>2. Refreshed(f.recorded) \in SUBSET Frames
  BY <1>1 DEF Refreshed
<1>3. fwd' = [f EXCEPT !.completed = Refreshed(f.recorded)]
  BY DEF SaveForward
<1>4. fwd' \in Forwards /\ fwd'.completed = Refreshed(f.recorded)
  BY <1>2, <1>3 DEF Forwards
<1>5. \A g \in Refreshed(f.recorded) : ManifestLive(g)
  BY DEF Refreshed
<1>6. QED
  BY <1>2, <1>4, <1>5 DEF SaveForward

\* An approval of a plan is a binding (approved_plan_binding_sha256).
LEMMA BindingTyped == \A p \in Plan : Binding(p) \in Bindings
  BY DEF Plan, Binding, Bindings

\* An interruption pays for the transfer it loses.
LEMMA OneMore ==
    ASSUME FilesType, CallType, TakenInv, UNCHANGED <<taken, first, manifest>>,
           interrupts' = interrupts + 1
    PROVE  TakenInv'
<1> SUFFICES ASSUME NEW f \in Frames
             PROVE  taken'[f] <= interrupts' + FirstsOf(f)' + SecondsOf(f)'
  BY DEF TakenInv
<1>1. taken[f] \in Int /\ interrupts \in Int
  BY DEF FilesType, CallType, Shots
<1>2. FirstsOf(f) \in {0, 1} /\ FirstsOf(f)' = FirstsOf(f)
  BY DEF FirstsOf
<1>3. SecondsOf(f) \in {0, 1} /\ SecondsOf(f)' \in {0, 1}
  BY DEF SecondsOf
<1>4. taken[f] <= interrupts + FirstsOf(f) + SecondsOf(f)
  BY DEF TakenInv
<1>5. QED
  BY <1>1, <1>2, <1>3, <1>4

\* Every step of the command, of the archive call in it, and of what interrupts
\* or damages them preserves the invariant.
LEMMA StepKeepsInv ==
    ASSUME IInv, Next
    PROVE  IInv'
<1> USE ForwardAssumption, MarksAssumption, ChunkRange, FirstIsFrame
    DEF IInv, PlanType, FilesType, CallType, RollType, Frames, FramesOf, Shots, Versions,
        Calls, InFrame,
        plans, archive, frames, forward, capture, budgets
<1>1. ASSUME NEW named \in SUBSET Chunks, Start(named)
      PROVE  IInv'
  <2>1. PlanType' /\ FilesType' /\ CallType' /\ BindingInv' /\ ManifestIsReconstruction'
    BY <1>1 DEF Start, BindingInv, ManifestIsReconstruction
  <2>2. RollType'
    <3>1. PICK f \in Forwards : SaveForward(f)
      <4>1. Fresh \in Forwards
        BY DEF Fresh, Forwards
      <4>2. QED
        BY <1>1, <4>1 DEF Start
    <3>2. QED
      BY <1>1, <3>1, SavedForward DEF Start
  <2>3. RunInv'
    <3>1. PICK f \in Forwards : SaveForward(f)
      <4>1. Fresh \in Forwards
        BY DEF Fresh, Forwards
      <4>2. QED
        BY <1>1, <4>1 DEF Start
    <3>2. QED
      BY <1>1, <3>1, SavedForward DEF Start, RunInv
  <2>4. WorkInv'
    BY <1>1 DEF Start, SaveForward, Refreshed, Forwards, Fresh, RunInv, WorkInv, Pairs, Seconds
  <2>5. TakenInv'
    BY <1>1 DEF Start, SaveForward, Refreshed, Forwards, Fresh, RunInv, WorkInv, TakenInv,
                HasSecond, FirstsOf, SecondsOf
  <2>6. EjectInv'
    BY <1>1 DEF Start, SaveForward, Refreshed, Forwards, Fresh, RunInv, EjectInv, ManifestLive
  <2>7. QED
    BY <2>1, <2>2, <2>3, <2>4, <2>5, <2>6 DEF IInv
<1>2. CASE SkipChunk
  <2>1. PlanType' /\ FilesType' /\ RollType' /\ BindingInv' /\ TakenInv' /\ EjectInv'
           /\ ManifestIsReconstruction'
    BY <1>2 DEF SkipChunk, BindingInv, TakenInv, HasSecond, FirstsOf, SecondsOf, EjectInv,
                ManifestLive, ManifestIsReconstruction
  <2>2. CallType'
    BY <1>2 DEF SkipChunk, NoWork, WorkInv, RunInv
  <2>3. RunInv'
    BY <1>2 DEF SkipChunk, RunInv, WorkInv, Fresh
  <2>4. WorkInv'
    BY <1>2 DEF SkipChunk, RunInv, WorkInv, Pairs, Seconds
  <2>5. QED
    BY <2>1, <2>2, <2>3, <2>4 DEF IInv
<1>3. CASE OpenChunk
  <2>1. PlanType' /\ FilesType' /\ CallType' /\ BindingInv' /\ ManifestIsReconstruction'
    BY <1>3 DEF OpenChunk, BindingInv, ManifestIsReconstruction
  <2>2. RollType'
    BY <1>3 DEF OpenChunk, RunInv
  <2>3. RunInv'
    BY <1>3 DEF OpenChunk, RunInv, WorkInv, Fresh
  <2>4. WorkInv'
    BY <1>3 DEF OpenChunk, RunInv, WorkInv, Pairs, Seconds
  <2>5. TakenInv'
    BY <1>3 DEF OpenChunk, RunInv, WorkInv, TakenInv, HasSecond, FirstsOf, SecondsOf
  <2>6. EjectInv'
    BY <1>3 DEF OpenChunk, RunInv, EjectInv, ManifestLive
  <2>7. QED
    BY <2>1, <2>2, <2>3, <2>4, <2>5, <2>6 DEF IInv
<1>4. CASE Prepare
  <2>1. FilesType' /\ CallType' /\ BindingInv' /\ ManifestIsReconstruction'
    BY <1>4 DEF Prepare, BindingInv, ManifestIsReconstruction
  <2>2. PlanType'
    <3>1. CASE UNCHANGED plans
      BY <1>4, <3>1 DEF Prepare
    <3>2. CASE /\ \E p \in Scanned(at) : plan' = [plan EXCEPT ![at] = p]
               /\ previewsOk' = [previewsOk EXCEPT ![at] = TRUE]
               /\ wideOk' = [wideOk EXCEPT ![at] = TRUE]
      <4>0. plan[at] \in Plan
        BY <1>4 DEF Prepare, RunInv
      <4>1. plan[at].version \in Versions /\ 0 \in Versions
        BY <4>0 DEF Plan
      <4>2. \A p \in Scanned(at) : p \in Plan
        BY <4>1 DEF Scanned, Plan
      <4>3. plan' \in [Chunks -> Plan]
        BY <3>2, <4>2
      <4>4. QED
        BY <1>4, <3>2, <4>3 DEF Prepare
    <3>3. QED
      BY <1>4, <3>1, <3>2 DEF Prepare
  <2>3. RollType'
    BY <1>4 DEF Prepare, Stands, Scanned, Forwards, RunInv
  <2>4. RunInv'
    BY <1>4 DEF Prepare, Stands, Scanned, Forwards, RunInv, WorkInv, Fresh
  <2>5. WorkInv'
    BY <1>4 DEF Prepare, Stands, Scanned, Forwards, RunInv, WorkInv, Pairs, Seconds
  <2>6. TakenInv'
    BY <1>4 DEF Prepare, Stands, Scanned, Forwards, RunInv, WorkInv, TakenInv, HasSecond,
                FirstsOf, SecondsOf
  <2>7. EjectInv'
    BY <1>4 DEF Prepare, Stands, Scanned, Forwards, RunInv, EjectInv, ManifestLive
  <2>8. QED
    BY <2>1, <2>2, <2>3, <2>4, <2>5, <2>6, <2>7 DEF IInv
<1>5. CASE PrepareRefused
  <2>1. PlanType' /\ FilesType' /\ BindingInv' /\ ManifestIsReconstruction'
    BY <1>5 DEF PrepareRefused, BindingInv, ManifestIsReconstruction
  <2>2. CallType'
    BY <1>5 DEF PrepareRefused, Return, NoWork, WorkInv, RunInv
  <2>3. RollType'
    BY <1>5 DEF PrepareRefused, Return, RunInv
  <2>4. RunInv'
    BY <1>5 DEF PrepareRefused, Return, RunInv, WorkInv, Fresh
  <2>5. WorkInv'
    BY <1>5 DEF PrepareRefused, Return, RunInv, WorkInv, Pairs, Seconds
  <2>6. TakenInv'
    BY <1>5 DEF PrepareRefused, Return, RunInv, WorkInv, TakenInv, HasSecond, FirstsOf,
                SecondsOf
  <2>7. EjectInv'
    BY <1>5 DEF PrepareRefused, Return, RunInv, EjectInv, ManifestLive
  <2>8. QED
    BY <2>1, <2>2, <2>3, <2>4, <2>5, <2>6, <2>7 DEF IInv
<1>6. CASE ApproveChunk
  <2>1. FilesType' /\ CallType' /\ BindingInv' /\ ManifestIsReconstruction'
    BY <1>6 DEF ApproveChunk, BindingInv, ManifestIsReconstruction
  <2>2. PlanType'
    <3>1. at \in Chunks /\ plan[at] \in Plan
      BY <1>6 DEF ApproveChunk, RunInv
    <3>2. \A p \in Plan, b \in BOOLEAN :
             [[p EXCEPT !.stage = "approved"] EXCEPT !.override = b] \in Plan
      BY DEF Plan
    <3>3. plan' = [plan EXCEPT ![at] =
                                 [[plan[at] EXCEPT !.stage = "approved"] EXCEPT
                                      !.override = (at \in allow)]]
      BY <1>6, <3>1 DEF ApproveChunk, Plan
    <3>4. plan' \in [Chunks -> Plan]
      <4>1. (at \in allow) \in BOOLEAN
        OBVIOUS
      <4>2. [[plan[at] EXCEPT !.stage = "approved"] EXCEPT !.override = (at \in allow)] \in Plan
        BY <3>1, <3>2, <4>1
      <4>3. QED
        BY <3>1, <3>3, <4>2
    <3>5. QED
      BY <1>6, <3>4 DEF ApproveChunk
  <2>3. RollType'
    BY <1>6 DEF ApproveChunk, RunInv
  <2>4. RunInv'
    BY <1>6 DEF ApproveChunk, RunInv, WorkInv, Fresh
  <2>5. WorkInv'
    BY <1>6 DEF ApproveChunk, RunInv, WorkInv, Pairs, Seconds
  <2>6. TakenInv'
    BY <1>6 DEF ApproveChunk, RunInv, WorkInv, TakenInv, HasSecond, FirstsOf, SecondsOf
  <2>7. EjectInv'
    BY <1>6 DEF ApproveChunk, RunInv, EjectInv, ManifestLive
  <2>8. QED
    BY <2>1, <2>2, <2>3, <2>4, <2>5, <2>6, <2>7 DEF IInv
<1>7. CASE ApproveRefused
  <2>1. PlanType' /\ FilesType' /\ BindingInv' /\ ManifestIsReconstruction'
    BY <1>7 DEF ApproveRefused, BindingInv, ManifestIsReconstruction
  <2>2. CallType'
    BY <1>7 DEF ApproveRefused, Return, NoWork, WorkInv, RunInv
  <2>3. RollType'
    BY <1>7 DEF ApproveRefused, Return, RunInv
  <2>4. RunInv'
    BY <1>7 DEF ApproveRefused, Return, RunInv, WorkInv, Fresh
  <2>5. WorkInv'
    BY <1>7 DEF ApproveRefused, Return, RunInv, WorkInv, Pairs, Seconds
  <2>6. TakenInv'
    BY <1>7 DEF ApproveRefused, Return, RunInv, WorkInv, TakenInv, HasSecond, FirstsOf,
                SecondsOf
  <2>7. EjectInv'
    BY <1>7 DEF ApproveRefused, Return, RunInv, EjectInv, ManifestLive
  <2>8. QED
    BY <2>1, <2>2, <2>3, <2>4, <2>5, <2>6, <2>7 DEF IInv
<1>8. CASE OpenArchive /\ UNCHANGED <<wideOk, forward, ejected>>
  <2>a. [binding |-> Binding(plan[at]), done |-> {}] \in [binding : Bindings,
           done : SUBSET Frames]
    BY <1>8, BindingTyped DEF OpenArchive, RunInv
  <2>b. rollCheckpoint'[at] # None /\ rollCheckpoint'[at].binding = Binding(plan[at])
    BY <1>8, <2>a DEF OpenArchive, SaveCheckpoint, RunInv
  <2>1. PlanType'
    BY <1>8, <2>a DEF OpenArchive, SaveCheckpoint, RunInv
  <2>2. FilesType'
    BY <1>8 DEF OpenArchive, SaveCheckpoint, BelongsToPlan, Pairs, WorkInv, RunInv, TakenInv,
                HasSecond, FirstsOf, SecondsOf
  <2>3. CallType'
    BY <1>8 DEF OpenArchive, SaveCheckpoint, BelongsToPlan, NoWork, WorkInv, RunInv
  <2>4. RollType'
    BY <1>8 DEF OpenArchive, SaveCheckpoint, BelongsToPlan, RunInv
  <2>5. RunInv'
    BY <1>8 DEF OpenArchive, SaveCheckpoint, BelongsToPlan, RunInv, WorkInv, Fresh
  <2>6. WorkInv'
    BY <1>8, <2>b DEF OpenArchive, WorkInv
  <2>7. BindingInv'
    BY <1>8 DEF OpenArchive, SaveCheckpoint, BelongsToPlan, RunInv, WorkInv, BindingInv
  <2>8. TakenInv'
    BY <1>8 DEF OpenArchive, SaveCheckpoint, BelongsToPlan, RunInv, WorkInv, TakenInv,
                HasSecond, FirstsOf, SecondsOf
  <2>9. EjectInv'
    BY <1>8 DEF OpenArchive, SaveCheckpoint, BelongsToPlan, RunInv, EjectInv, ManifestLive
  <2>10. ManifestIsReconstruction'
    <3>1. \A f \in Frames : manifest[f] # None => rollCheckpoint[ChunkOf(f)] # None
      <4>1. \A f \in Frames : manifest[f] # None
               => manifest[f] \in [binding : Bindings, pair : Pairs]
        OBVIOUS
      <4>2. \A f \in Frames : manifest[f] # None => first[f] # None
        <5> SUFFICES ASSUME NEW f \in Frames, manifest[f] # None
                     PROVE  first[f] # None
          OBVIOUS
        <5>1. [binding |-> manifest[f].binding, shot |-> manifest[f].pair.first]
                \in [binding : Bindings, shot : Shots]
          BY <4>1 DEF Pairs
        <5>2. QED
          BY <5>1 DEF BindingInv
      <4>3. QED
        BY <4>2 DEF BindingInv
    <3>2. \A f \in Frames : manifest[f] # None =>
              rollCheckpoint'[ChunkOf(f)].binding = rollCheckpoint[ChunkOf(f)].binding
      BY <1>8, <3>1 DEF OpenArchive, SaveCheckpoint, BelongsToPlan, RunInv
    <3>3. UNCHANGED frames
      BY <1>8 DEF OpenArchive
    <3>4. QED
      BY <3>2, <3>3 DEF ManifestIsReconstruction
  <2>11. QED
    BY <2>1, <2>2, <2>3, <2>4, <2>5, <2>6, <2>7, <2>8, <2>9, <2>10 DEF IInv
<1>9. CASE OpenArchiveRefused /\ UNCHANGED <<wideOk, forward, ejected>>
  <2>1. PlanType' /\ FilesType' /\ BindingInv' /\ ManifestIsReconstruction'
    BY <1>9 DEF OpenArchiveRefused, BindingInv, ManifestIsReconstruction
  <2>2. CallType'
    BY <1>9 DEF OpenArchiveRefused, Return, NoWork, WorkInv, RunInv
  <2>3. RollType'
    BY <1>9 DEF OpenArchiveRefused, Return, RunInv
  <2>4. RunInv'
    BY <1>9 DEF OpenArchiveRefused, Return, RunInv, WorkInv, Fresh
  <2>5. WorkInv'
    BY <1>9 DEF OpenArchiveRefused, Return, RunInv, WorkInv, Pairs, Seconds
  <2>6. TakenInv'
    BY <1>9 DEF OpenArchiveRefused, Return, RunInv, WorkInv, TakenInv, HasSecond, FirstsOf,
                SecondsOf
  <2>7. EjectInv'
    BY <1>9 DEF OpenArchiveRefused, Return, RunInv, EjectInv, ManifestLive
  <2>8. QED
    BY <2>1, <2>2, <2>3, <2>4, <2>5, <2>6, <2>7 DEF IInv
<1>10. CASE ReuseFrame /\ UNCHANGED <<wideOk, forward, ejected>>
  <2>a. /\ pc = "frame" /\ pc' = "frame" /\ frame \in Frames /\ at = ChunkOf(frame)
              /\ at \in Chunks
        /\ done' = done \cup {frame} /\ frame' = frame + 1 /\ done' \subseteq Frames
    BY <1>10 DEF ReuseFrame, InChunk, WorkInv, RunInv
  <2>b. [binding |-> Binding(plan[at]), done |-> done'] \in [binding : Bindings,
           done : SUBSET Frames]
    BY <2>a, BindingTyped
  <2>c. /\ rollCheckpoint' = [rollCheckpoint EXCEPT ![at] = [binding |-> Binding(plan[at]),
              done |-> done']]
        /\ UNCHANGED <<plan, frames, at, interrupts>>
    BY <1>10 DEF ReuseFrame, SaveCheckpoint
  <2>d. rollCheckpoint'[at] # None /\ rollCheckpoint'[at].binding = Binding(plan[at])
    BY <2>a, <2>b, <2>c
  <2>e. \A c \in Chunks : c # at => rollCheckpoint'[c] = rollCheckpoint[c]
    BY <2>c
  <2>1. FilesType' /\ RollType' /\ RunInv' /\ EjectInv'
    BY <1>10 DEF ReuseFrame, RunInv, EjectInv, ManifestLive
  <2>2. PlanType'
    BY <1>10, <2>a, <2>b, <2>c DEF ReuseFrame
  <2>3. CallType'
    BY <1>10 DEF ReuseFrame, InChunk, SaveCheckpoint, NoWork, WorkInv, RunInv
  <2>4. WorkInv'
    BY <2>a, <2>c, <2>d DEF WorkInv
  <2>5. BindingInv'
    <3>1. rollCheckpoint[at] # None /\ rollCheckpoint[at].binding = Binding(plan[at])
      BY <2>a DEF WorkInv
    <3>2. \A f \in Frames : rollCheckpoint[ChunkOf(f)] # None =>
             /\ rollCheckpoint'[ChunkOf(f)] # None
             /\ rollCheckpoint'[ChunkOf(f)].binding = rollCheckpoint[ChunkOf(f)].binding
      BY <2>a, <2>d, <2>e, <3>1
    <3>3. QED
      BY <2>c, <3>2 DEF BindingInv
  <2>6. TakenInv'
    BY <1>10 DEF ReuseFrame, InChunk, SaveCheckpoint, RunInv, WorkInv, TakenInv, HasSecond,
                 FirstsOf, SecondsOf
  <2>7. ManifestIsReconstruction'
    BY <1>10 DEF ReuseFrame, InChunk, SaveCheckpoint, RunInv, WorkInv, BindingInv,
                 ManifestIsReconstruction
  <2>8. QED
    BY <2>1, <2>2, <2>3, <2>4, <2>5, <2>6, <2>7 DEF IInv
<1>11. CASE ResumeFrame /\ UNCHANGED <<wideOk, forward, ejected>>
  <2>1. PlanType' /\ FilesType' /\ BindingInv' /\ ManifestIsReconstruction'
    BY <1>11 DEF ResumeFrame, BindingInv, ManifestIsReconstruction
  <2>2. CallType'
    BY <1>11 DEF ResumeFrame, InChunk, ReuseSource, NoWork, WorkInv, RunInv
  <2>3. RollType'
    BY <1>11 DEF ResumeFrame, InChunk, ReuseSource, RunInv
  <2>4. RunInv'
    BY <1>11 DEF ResumeFrame, InChunk, ReuseSource, RunInv, WorkInv, Fresh
  <2>5. WorkInv'
    BY <1>11 DEF ResumeFrame, InChunk, ReuseSource, RunInv, WorkInv, Pairs, Seconds
  <2>6. TakenInv'
    BY <1>11 DEF ResumeFrame, InChunk, ReuseSource, RunInv, WorkInv, TakenInv, HasSecond,
                 FirstsOf, SecondsOf
  <2>7. EjectInv'
    BY <1>11 DEF ResumeFrame, InChunk, ReuseSource, RunInv, EjectInv, ManifestLive
  <2>8. QED
    BY <2>1, <2>2, <2>3, <2>4, <2>5, <2>6, <2>7 DEF IInv
<1>12. CASE FrameRefused /\ UNCHANGED <<wideOk, forward, ejected>>
  <2>1. PlanType' /\ FilesType' /\ BindingInv' /\ ManifestIsReconstruction'
    BY <1>12 DEF FrameRefused, BindingInv, ManifestIsReconstruction
  <2>2. CallType'
    BY <1>12 DEF FrameRefused, Return, NoWork, WorkInv, RunInv
  <2>3. RollType'
    BY <1>12 DEF FrameRefused, Return, RunInv
  <2>4. RunInv'
    BY <1>12 DEF FrameRefused, Return, RunInv, WorkInv, Fresh
  <2>5. WorkInv'
    BY <1>12 DEF FrameRefused, Return, RunInv, WorkInv, Pairs, Seconds
  <2>6. TakenInv'
    <3>1. UNCHANGED <<taken, first, manifest, interrupts>> /\ pc = "frame" /\ pc' = "idle"
      BY <1>12 DEF FrameRefused, InChunk, Return
    <3>2. QED
      BY <3>1 DEF TakenInv, HasSecond, FirstsOf, SecondsOf
  <2>7. EjectInv'
    BY <1>12 DEF FrameRefused, Return, RunInv, EjectInv, ManifestLive
  <2>8. QED
    BY <2>1, <2>2, <2>3, <2>4, <2>5, <2>6, <2>7 DEF IInv
<1>13. CASE FirstTransfer /\ UNCHANGED <<wideOk, forward, ejected>>
  <2>a. /\ pc = "frame" /\ frame \in Frames /\ frame \in FramesOf(at)
              /\ at = ChunkOf(frame) /\ at \in Chunks
        /\ first[frame] = None /\ manifest[frame] = None /\ Binding(plan[at]) \in Bindings
    BY <1>13, BindingTyped DEF FirstTransfer, InChunk, NeedsFirst, RunInv
  <2>b. Shot \in Shots /\ Shot = taken[frame] + 1 /\ taken[frame] <= interrupts
           /\ interrupts \in Nat /\ taken[frame] \in Nat
    <3>1. FirstsOf(frame) = 0 /\ SecondsOf(frame) = 0
      BY <2>a DEF HasSecond, FirstsOf, SecondsOf
    <3>2. taken[frame] <= interrupts + FirstsOf(frame) + SecondsOf(frame)
      BY <2>a DEF TakenInv
    <3>3. taken[frame] \in Nat /\ interrupts \in 0..MaxInterrupts
      BY <2>a
    <3>4. QED
      BY <3>1, <3>2, <3>3 DEF Shot
  <2>c. [binding |-> Binding(plan[at]), shot |-> Shot] \in [binding : Bindings, shot : Shots]
    BY <2>a, <2>b
  <2>d. [binding |-> Binding(plan[at]), shot |-> Shot] # None
    BY <2>c
  <2>e. /\ taken' = [taken EXCEPT ![frame] = Shot]
        /\ bundles' = [bundles EXCEPT ![frame] = bundles[frame] \cup {Shot}]
        /\ first' = [first EXCEPT ![frame] = [binding |-> Binding(plan[at]), shot |-> Shot]]
        /\ work' = [first |-> Shot, second |-> None] /\ pc' = "second"
        /\ UNCHANGED <<plan, rollCheckpoint, final, manifest, at, frame, done, interrupts,
              tampers>>
    BY <1>13 DEF FirstTransfer, Transfer
  <2>1. PlanType'
    BY <1>13 DEF FirstTransfer, InChunk, NeedsFirst, Transfer, Shot, RunInv, Plan
  <2>2. FilesType'
    BY <2>a, <2>b, <2>c, <2>d, <2>e DEF Shot
  <2>3. CallType'
    BY <2>a, <2>b, <2>c, <2>d, <2>e
  <2>4. RollType'
    BY <1>13 DEF FirstTransfer, InChunk, NeedsFirst, Transfer, Shot, RunInv
  <2>5. RunInv'
    BY <1>13 DEF FirstTransfer, InChunk, NeedsFirst, Transfer, Shot, RunInv, WorkInv, Fresh
  <2>6. WorkInv'
    BY <2>a, <2>b, <2>c, <2>d, <2>e DEF WorkInv
  <2>7. BindingInv'
    BY <1>13 DEF FirstTransfer, InChunk, NeedsFirst, Transfer, Shot, RunInv, WorkInv, BindingInv
  <2>8. TakenInv'
    <3>1. \A f \in Frames \ {frame} : taken'[f] = taken[f] /\ first'[f] = first[f]
      BY <2>a, <2>e
    <3>2. taken'[frame] = taken[frame] + 1 /\ first'[frame] # None
      BY <2>a, <2>b, <2>d, <2>e
    <3>3. \A f \in Frames : HasSecond(f)' <=> HasSecond(f)
      BY <2>a, <2>e DEF HasSecond
    <3>4. \A f \in Frames : SecondsOf(f)' = SecondsOf(f)
      BY <3>3 DEF SecondsOf
    <3>5. FirstsOf(frame)' = 1 /\ FirstsOf(frame) = 0
      BY <2>a, <3>2, <2>e DEF FirstsOf
    <3>6. \A f \in Frames \ {frame} : FirstsOf(f)' = FirstsOf(f)
      BY <3>1 DEF FirstsOf
    <3>7. taken'[frame] <= interrupts' + FirstsOf(frame)' + SecondsOf(frame)'
      <4>1. taken[frame] <= interrupts + FirstsOf(frame) + SecondsOf(frame)
               /\ SecondsOf(frame) \in {0, 1}
        BY <2>a DEF TakenInv, SecondsOf
      <4>2. QED
        BY <4>1, <2>a, <2>b, <2>e, <3>2, <3>4, <3>5
    <3>8. \A f \in Frames \ {frame} : taken'[f] <= interrupts' + FirstsOf(f)' + SecondsOf(f)'
      BY <2>e, <3>1, <3>4, <3>6 DEF TakenInv
    <3>9. QED
      BY <2>a, <3>7, <3>8, <2>e DEF TakenInv
  <2>9. EjectInv'
    BY <1>13 DEF FirstTransfer, InChunk, NeedsFirst, Transfer, Shot, RunInv, EjectInv,
                 ManifestLive
  <2>10. ManifestIsReconstruction'
    BY <1>13 DEF FirstTransfer, InChunk, NeedsFirst, Transfer, Shot, RunInv, WorkInv,
                 BindingInv, ManifestIsReconstruction
  <2>11. QED
    BY <2>1, <2>2, <2>3, <2>4, <2>5, <2>6, <2>7, <2>8, <2>9, <2>10 DEF IInv
<1>14. CASE SecondTransfer /\ UNCHANGED <<wideOk, forward, ejected>>
  <2>a. /\ pc = "second" /\ frame \in Frames /\ frame \in FramesOf(at)
              /\ at = ChunkOf(frame) /\ at \in Chunks
        /\ manifest[frame] = None /\ Binding(plan[at]) \in Bindings
        /\ work.first \in Shots
              /\ first[frame] = [binding |-> Binding(plan[at]), shot |-> work.first]
    BY <1>14, BindingTyped DEF SecondTransfer, WorkInv, RunInv
  <2>b. first[frame] # None
    BY <2>a
  <2>c. Shot \in Shots /\ Shot = taken[frame] + 1 /\ taken[frame] <= interrupts + 1
           /\ interrupts \in Nat /\ taken[frame] \in Nat
    <3>1. FirstsOf(frame) = 1 /\ SecondsOf(frame) = 0
      BY <2>a, <2>b DEF HasSecond, FirstsOf, SecondsOf
    <3>2. taken[frame] <= interrupts + FirstsOf(frame) + SecondsOf(frame)
      BY <2>a DEF TakenInv
    <3>3. taken[frame] \in Nat /\ interrupts \in 0..MaxInterrupts
      BY <2>a
    <3>4. QED
      BY <3>1, <3>2, <3>3 DEF Shot
  <2>d. /\ taken' = [taken EXCEPT ![frame] = Shot]
        /\ bundles' = [bundles EXCEPT ![frame] = bundles[frame] \cup {Shot}]
        /\ work' = [work EXCEPT !.second = Second(Shot, work.first)] /\ pc' = "final"
        /\ UNCHANGED <<plan, rollCheckpoint, first, final, manifest, at, frame, done,
              interrupts, tampers>>
    BY <1>14 DEF SecondTransfer, Transfer
  <2>e. work'.first = work.first /\ work'.second = [shot |-> Shot, replays |-> work.first]
           /\ work'.second \in Seconds
    BY <2>a, <2>c, <2>d DEF Second, Seconds
  <2>1. PlanType' /\ BindingInv' /\ ManifestIsReconstruction'
    BY <1>14 DEF SecondTransfer, BindingInv, ManifestIsReconstruction
  <2>2. FilesType'
    BY <2>a, <2>b, <2>c, <2>d, <2>e DEF Shot
  <2>3. CallType'
    BY <2>a, <2>b, <2>c, <2>d, <2>e DEF Second, Seconds
  <2>4. RollType'
    BY <1>14 DEF SecondTransfer, Transfer, Shot, Second, RunInv
  <2>5. RunInv'
    BY <1>14 DEF SecondTransfer, Transfer, Shot, Second, RunInv, WorkInv, Fresh
  <2>6. WorkInv'
    BY <2>a, <2>b, <2>c, <2>d, <2>e DEF WorkInv
  <2>7. TakenInv'
    <3>1. \A f \in Frames \ {frame} : taken'[f] = taken[f]
      BY <2>a, <2>d
    <3>2. taken'[frame] = taken[frame] + 1
      BY <2>a, <2>c, <2>d
    <3>3. \A f \in Frames \ {frame} : HasSecond(f)' <=> HasSecond(f)
      BY <2>a, <2>d DEF HasSecond
    <3>4. HasSecond(frame)'
      BY <2>a, <2>d DEF HasSecond
    <3>5. \A f \in Frames \ {frame} : taken'[f] <= interrupts' + FirstsOf(f)' + SecondsOf(f)'
      BY <2>d, <3>1, <3>3 DEF TakenInv, FirstsOf, SecondsOf
    <3>6. taken'[frame] <= interrupts' + FirstsOf(frame)' + SecondsOf(frame)'
      <4>1. FirstsOf(frame)' = 1 /\ SecondsOf(frame)' = 1
        BY <2>b, <2>d, <3>4 DEF FirstsOf, SecondsOf
      <4>2. QED
        BY <2>c, <2>d, <3>2, <4>1
    <3>7. frame' = frame
      BY <2>d
    <3>8. QED
      BY <2>a, <3>5, <3>6, <3>7 DEF TakenInv
  <2>8. EjectInv'
    BY <1>14 DEF SecondTransfer, Transfer, Shot, Second, RunInv, EjectInv, ManifestLive
  <2>9. QED
    BY <2>1, <2>2, <2>3, <2>4, <2>5, <2>6, <2>7, <2>8 DEF IInv
<1>15. CASE WriteFinal /\ UNCHANGED <<wideOk, forward, ejected>>
  <2>1. PlanType' /\ CallType' /\ BindingInv'
    BY <1>15 DEF WriteFinal, BindingInv
  <2>2. FilesType'
    BY <1>15 DEF WriteFinal, Pairs, WorkInv, RunInv, TakenInv, HasSecond, FirstsOf, SecondsOf
  <2>3. RollType'
    BY <1>15 DEF WriteFinal, RunInv
  <2>4. RunInv'
    BY <1>15 DEF WriteFinal, RunInv, WorkInv, Fresh
  <2>5. WorkInv'
    BY <1>15 DEF WriteFinal, RunInv, WorkInv, Pairs, Seconds
  <2>6. TakenInv'
    BY <1>15 DEF WriteFinal, RunInv, WorkInv, TakenInv, HasSecond, FirstsOf, SecondsOf
  <2>7. EjectInv'
    BY <1>15 DEF WriteFinal, RunInv, EjectInv, ManifestLive
  <2>8. ManifestIsReconstruction'
    BY <1>15 DEF WriteFinal, RunInv, WorkInv, BindingInv, ManifestIsReconstruction
  <2>9. QED
    BY <2>1, <2>2, <2>3, <2>4, <2>5, <2>6, <2>7, <2>8 DEF IInv
<1>16. CASE WriteManifest /\ UNCHANGED <<wideOk, forward, ejected>>
  <2>1. PlanType' /\ CallType'
    BY <1>16 DEF WriteManifest
  <2>2. FilesType'
    BY <1>16 DEF WriteManifest, Pairs, WorkInv, RunInv, TakenInv, HasSecond, FirstsOf, SecondsOf
  <2>3. RollType'
    BY <1>16 DEF WriteManifest, RunInv
  <2>4. RunInv'
    BY <1>16 DEF WriteManifest, RunInv, WorkInv, Fresh
  <2>5. WorkInv'
    BY <1>16 DEF WriteManifest, RunInv, WorkInv, Pairs, Seconds
  <2>6. BindingInv'
    BY <1>16 DEF WriteManifest, RunInv, WorkInv, BindingInv
  <2>7. TakenInv'
    BY <1>16 DEF WriteManifest, RunInv, WorkInv, TakenInv, HasSecond, FirstsOf, SecondsOf
  <2>8. EjectInv'
    BY <1>16 DEF WriteManifest, RunInv, EjectInv, ManifestLive
  <2>9. ManifestIsReconstruction'
    BY <1>16 DEF WriteManifest, RunInv, WorkInv, BindingInv, ManifestIsReconstruction
  <2>10. QED
    BY <2>1, <2>2, <2>3, <2>4, <2>5, <2>6, <2>7, <2>8, <2>9 DEF IInv
<1>17. CASE CheckpointFrame /\ UNCHANGED <<wideOk, forward, ejected>>
  <2>a. /\ pc = "checkpoint" /\ pc' = "frame" /\ frame \in Frames /\ at = ChunkOf(frame)
              /\ at \in Chunks
        /\ done' = done \cup {frame} /\ frame' = frame + 1 /\ done' \subseteq Frames
    BY <1>17 DEF CheckpointFrame, WorkInv, RunInv
  <2>b. [binding |-> Binding(plan[at]), done |-> done'] \in [binding : Bindings,
           done : SUBSET Frames]
    BY <2>a, BindingTyped
  <2>c. /\ rollCheckpoint' = [rollCheckpoint EXCEPT ![at] = [binding |-> Binding(plan[at]),
              done |-> done']]
        /\ UNCHANGED <<plan, frames, at, interrupts>>
    BY <1>17 DEF CheckpointFrame, SaveCheckpoint
  <2>d. rollCheckpoint'[at] # None /\ rollCheckpoint'[at].binding = Binding(plan[at])
    BY <2>a, <2>b, <2>c
  <2>e. \A c \in Chunks : c # at => rollCheckpoint'[c] = rollCheckpoint[c]
    BY <2>c
  <2>1. PlanType'
    BY <1>17, <2>a, <2>b, <2>c DEF CheckpointFrame
  <2>2. FilesType'
    BY <1>17 DEF CheckpointFrame, SaveCheckpoint, Pairs, WorkInv, RunInv, TakenInv, HasSecond,
                 FirstsOf, SecondsOf
  <2>3. CallType'
    <3>1. frame' \in 1..(NFrames + 1) /\ work' = NoWork /\ done' \subseteq Frames
      BY <1>17, <2>a DEF CheckpointFrame, Frames
    <3>2. UNCHANGED <<at, interrupts, tampers>>
      BY <1>17 DEF CheckpointFrame
    <3>3. QED
      BY <3>1, <3>2 DEF NoWork
  <2>4. RollType'
    BY <1>17 DEF CheckpointFrame, SaveCheckpoint, RunInv
  <2>5. RunInv'
    BY <1>17 DEF CheckpointFrame, SaveCheckpoint, RunInv, WorkInv, Fresh
  <2>6. WorkInv'
    BY <2>a, <2>c, <2>d DEF WorkInv
  <2>7. BindingInv'
    <3>1. rollCheckpoint[at] # None /\ rollCheckpoint[at].binding = Binding(plan[at])
      BY <2>a DEF WorkInv
    <3>2. \A f \in Frames : rollCheckpoint[ChunkOf(f)] # None =>
             /\ rollCheckpoint'[ChunkOf(f)] # None
             /\ rollCheckpoint'[ChunkOf(f)].binding = rollCheckpoint[ChunkOf(f)].binding
      BY <2>a, <2>d, <2>e, <3>1
    <3>3. QED
      BY <2>c, <3>2 DEF BindingInv
  <2>8. TakenInv'
    <3>1. UNCHANGED <<taken, first, manifest, interrupts>> /\ pc = "checkpoint" /\ pc' = "frame"
      BY <1>17 DEF CheckpointFrame
    <3>2. manifest[frame] # None
      <4>1. [binding |-> Binding(plan[at]), pair |-> work] \in [binding : Bindings, pair : Pairs]
        BY <3>1 DEF WorkInv, RunInv, Pairs
      <4>2. QED
        BY <3>1, <4>1 DEF WorkInv
    <3>3. QED
      BY <3>1, <3>2 DEF TakenInv, HasSecond, FirstsOf, SecondsOf
  <2>9. EjectInv'
    BY <1>17 DEF CheckpointFrame, SaveCheckpoint, RunInv, EjectInv, ManifestLive
  <2>10. ManifestIsReconstruction'
    BY <1>17 DEF CheckpointFrame, SaveCheckpoint, RunInv, WorkInv, BindingInv,
                 ManifestIsReconstruction
  <2>11. QED
    BY <2>1, <2>2, <2>3, <2>4, <2>5, <2>6, <2>7, <2>8, <2>9, <2>10 DEF IInv
<1>18. CASE RecordChunk
  <2>a. fwd \in Forwards /\ at \in Chunks
    BY <1>18, ChunkRange DEF RecordChunk, RunInv
  <2>b. [fwd EXCEPT !.recorded = @ \cup {at}] \in Forwards
    BY <2>a DEF Forwards
  <2>c. /\ fwd' \in Forwards /\ seen' \subseteq Frames
        /\ seen' = Frames => \A f \in Frames : ManifestLive(f)
    BY <2>b, SavedForward, <1>18 DEF RecordChunk
  <2>1. PlanType' /\ FilesType' /\ BindingInv' /\ ManifestIsReconstruction'
    BY <1>18 DEF RecordChunk, BindingInv, ManifestIsReconstruction
  <2>2. CallType'
    <3>0. at \in 1..NFrames
      BY <2>a, ChunkRange
    <3>1. at' \in 1..(NFrames + 1)
      <4>1. at' \in {1, at + 1}
        BY <1>18 DEF RecordChunk, EjectIfComplete
      <4>2. QED
        BY <3>0, <4>1
    <3>2. QED
      BY <1>18, <3>1 DEF RecordChunk, NoWork
  <2>3. RollType'
    BY <1>18, <2>c DEF RecordChunk, EjectIfComplete
  <2>4. RunInv'
    BY <1>18, <2>c DEF RecordChunk, EjectIfComplete, RunInv
  <2>5. WorkInv'
    BY <1>18 DEF RecordChunk, SaveForward, Refreshed, Forwards, EjectIfComplete, RunInv,
                 WorkInv, Pairs, Seconds
  <2>6. TakenInv'
    BY <1>18 DEF RecordChunk, SaveForward, Refreshed, Forwards, EjectIfComplete, RunInv,
                 WorkInv, TakenInv, HasSecond, FirstsOf, SecondsOf
  <2>7. EjectInv'
    BY <1>18, <2>c DEF RecordChunk, EjectIfComplete, EjectInv, ManifestLive
  <2>8. QED
    BY <2>1, <2>2, <2>3, <2>4, <2>5, <2>6, <2>7 DEF IInv
<1>19. CASE Finish
  <2>a. fwd \in Forwards
    BY <1>19 DEF Finish, RunInv
  <2>c. /\ fwd' \in Forwards /\ seen' \subseteq Frames
        /\ seen' = Frames => \A f \in Frames : ManifestLive(f)
    BY <2>a, SavedForward, <1>19 DEF Finish
  <2>1. PlanType' /\ FilesType' /\ BindingInv' /\ ManifestIsReconstruction'
    BY <1>19 DEF Finish, BindingInv, ManifestIsReconstruction
  <2>2. CallType'
    BY <1>19 DEF Finish, EjectIfComplete
  <2>3. RollType'
    BY <1>19, <2>c DEF Finish, EjectIfComplete
  <2>4. RunInv'
    BY <1>19, <2>c DEF Finish, EjectIfComplete, RunInv
  <2>5. WorkInv'
    BY <1>19 DEF Finish, SaveForward, Refreshed, Forwards, EjectIfComplete, RunInv, WorkInv,
                 Pairs, Seconds
  <2>6. TakenInv'
    BY <1>19 DEF Finish, SaveForward, Refreshed, Forwards, EjectIfComplete, RunInv, WorkInv,
                 TakenInv, HasSecond, FirstsOf, SecondsOf
  <2>7. EjectInv'
    BY <1>19, <2>c DEF Finish, EjectIfComplete, EjectInv, ManifestLive
  <2>8. QED
    BY <2>1, <2>2, <2>3, <2>4, <2>5, <2>6, <2>7 DEF IInv
<1>20. CASE Eject
  <2>1. PlanType' /\ FilesType' /\ BindingInv' /\ ManifestIsReconstruction'
    BY <1>20 DEF Eject, BindingInv, ManifestIsReconstruction
  <2>2. CallType'
    BY <1>20 DEF Eject, Return, NoWork, WorkInv, RunInv
  <2>3. RollType'
    BY <1>20 DEF Eject, Return, RunInv
  <2>4. RunInv'
    BY <1>20 DEF Eject, Return, RunInv, WorkInv, Fresh
  <2>5. WorkInv'
    BY <1>20 DEF Eject, Return, RunInv, WorkInv, Pairs, Seconds
  <2>6. TakenInv'
    BY <1>20 DEF Eject, Return, RunInv, WorkInv, TakenInv, HasSecond, FirstsOf, SecondsOf
  <2>7. EjectInv'
    BY <1>20 DEF Eject, Return, RunInv, EjectInv, ManifestLive
  <2>8. QED
    BY <2>1, <2>2, <2>3, <2>4, <2>5, <2>6, <2>7 DEF IInv
<1>21. CASE Die
  <2>1. PlanType' /\ FilesType' /\ BindingInv' /\ ManifestIsReconstruction'
    BY <1>21 DEF Die, BindingInv, ManifestIsReconstruction
  <2>2. CallType'
    BY <1>21 DEF Die, Return, NoWork, WorkInv, RunInv
  <2>3. RollType'
    BY <1>21 DEF Die, Return, RunInv
  <2>4. RunInv'
    BY <1>21 DEF Die, Return, RunInv, WorkInv, Fresh
  <2>5. WorkInv'
    BY <1>21 DEF Die, Return, RunInv, WorkInv, Pairs, Seconds
  <2>6. TakenInv'
    <3>1. UNCHANGED <<taken, first, manifest>> /\ interrupts' = interrupts + 1
      BY <1>21 DEF Die
    <3>2. QED
      BY <3>1, OneMore
  <2>7. EjectInv'
    BY <1>21 DEF Die, Return, RunInv, EjectInv, ManifestLive
  <2>8. QED
    BY <2>1, <2>2, <2>3, <2>4, <2>5, <2>6, <2>7 DEF IInv
<1>22. CASE CutPrepare
  <2>1. FilesType' /\ BindingInv' /\ ManifestIsReconstruction'
    BY <1>22 DEF CutPrepare, BindingInv, ManifestIsReconstruction
  <2>2. PlanType'
    <3>1. at \in Chunks /\ plan[at] \in Plan
      BY <1>22 DEF CutPrepare, RunInv
    <3>2. \A p \in Plan, b \in BOOLEAN :
             [[p EXCEPT !.stage = "unready"] EXCEPT !.override = b] \in Plan
      BY DEF Plan
    <3>3. PICK b \in BOOLEAN : plan' = [plan EXCEPT ![at] =
                                 [[plan[at] EXCEPT !.stage = "unready"] EXCEPT !.override = b]]
      BY <1>22, <3>1 DEF CutPrepare, Plan
    <3>4. plan' \in [Chunks -> Plan]
      BY <3>1, <3>2, <3>3
    <3>5. QED
      BY <1>22, <3>4 DEF CutPrepare
  <2>3. CallType'
    BY <1>22 DEF CutPrepare, Return, NoWork
  <2>4. RollType'
    <3>1. fwd \in Forwards /\ at \in Chunks
      BY <1>22 DEF CutPrepare, RunInv
    <3>2. [fwd EXCEPT !.plans = @ \cup {at}] \in Forwards
      BY <3>1 DEF Forwards
    <3>3. QED
      BY <1>22, <3>1, <3>2 DEF CutPrepare, Return
  <2>5. RunInv'
    BY <1>22 DEF CutPrepare, Return, Forwards, RunInv, WorkInv, Fresh
  <2>6. WorkInv'
    BY <1>22 DEF CutPrepare, Return, Forwards, RunInv, WorkInv, Pairs, Seconds
  <2>7. TakenInv'
    <3>1. UNCHANGED <<taken, first, manifest>> /\ interrupts' = interrupts + 1
      BY <1>22 DEF CutPrepare
    <3>2. QED
      BY <3>1, OneMore
  <2>8. EjectInv'
    BY <1>22 DEF CutPrepare, Return, Forwards, RunInv, EjectInv, ManifestLive
  <2>9. QED
    BY <2>1, <2>2, <2>3, <2>4, <2>5, <2>6, <2>7, <2>8 DEF IInv
<1>23. CASE CutCapture /\ UNCHANGED <<wideOk, forward, ejected>>
  <2>a. ASSUME InChunk, NeedsFirst(frame), Transfer, UNCHANGED final
        PROVE  FilesType' /\ TakenInv'
    <3>1. pc = "frame" /\ frame \in Frames /\ first[frame] = None /\ manifest[frame] = None
      BY <2>a DEF InChunk, NeedsFirst
    <3>2. Shot \in Shots /\ Shot = taken[frame] + 1 /\ taken[frame] <= interrupts
             /\ interrupts \in Nat /\ taken[frame] \in Nat
      BY <3>1 DEF TakenInv, HasSecond, FirstsOf, SecondsOf, Shot
    <3>3. /\ taken' = [taken EXCEPT ![frame] = Shot]
          /\ bundles' = [bundles EXCEPT ![frame] = bundles[frame] \cup {Shot}]
          /\ UNCHANGED <<first, manifest, final>> /\ interrupts' = interrupts + 1
                /\ pc' = "idle"
      BY <1>23, <2>a DEF CutCapture, Transfer, Return
    <3>4. FilesType'
      BY <3>1, <3>2, <3>3
    <3>5. \A f \in Frames : HasSecond(f)' <=> HasSecond(f)
      BY <3>1, <3>3 DEF HasSecond
    <3>6. \A f \in Frames : taken'[f] = IF f = frame THEN taken[f] + 1 ELSE taken[f]
      BY <3>1, <3>2, <3>3
    <3>7. \A f \in Frames : taken[f] \in Int /\ interrupts \in Int
      OBVIOUS
    <3>8. TakenInv'
      BY <3>1, <3>3, <3>5, <3>6, <3>7 DEF TakenInv, FirstsOf, SecondsOf
    <3>9. QED
      BY <3>4, <3>8
  <2>b. ASSUME pc = "final", NEW left \in {None, Altered, work},
                final' = [final EXCEPT ![frame] = left],
               UNCHANGED <<taken, bundles>>
        PROVE  FilesType' /\ TakenInv'
    <3>1. UNCHANGED <<taken, first, manifest, bundles>> /\ interrupts' = interrupts + 1
      BY <1>23, <2>b DEF CutCapture
    <3>3. TakenInv'
      BY <3>1, OneMore
    <3>4. work \in Pairs /\ frame \in Frames
      BY <2>b DEF WorkInv, Pairs
    <3>5. FilesType'
      BY <2>b, <3>1, <3>4
    <3>6. QED
      BY <3>3, <3>5
  <2>1. PlanType' /\ BindingInv'
    BY <1>23 DEF CutCapture, BindingInv
  <2>2. FilesType'
    BY <1>23, <2>a, <2>b DEF CutCapture
  <2>3. CallType'
    BY <1>23 DEF CutCapture, Return, InChunk, NeedsFirst, Transfer, Shot, NoWork, WorkInv,
                 RunInv
  <2>4. RollType'
    BY <1>23 DEF CutCapture, Return, InChunk, NeedsFirst, Transfer, Shot, RunInv
  <2>5. RunInv'
    BY <1>23 DEF CutCapture, Return, InChunk, NeedsFirst, Transfer, Shot, RunInv, WorkInv, Fresh
  <2>6. WorkInv'
    BY <1>23 DEF CutCapture, Return, InChunk, NeedsFirst, Transfer, Shot, RunInv, WorkInv,
                 Pairs, Seconds
  <2>7. TakenInv'
    BY <1>23, <2>a, <2>b DEF CutCapture
  <2>8. EjectInv'
    BY <1>23 DEF CutCapture, Return, InChunk, NeedsFirst, Transfer, Shot, RunInv, EjectInv,
                 ManifestLive
  <2>9. ManifestIsReconstruction'
    BY <1>23 DEF CutCapture, Return, InChunk, NeedsFirst, Transfer, Shot, RunInv, WorkInv,
                 BindingInv, ManifestIsReconstruction
  <2>10. QED
    BY <2>1, <2>2, <2>3, <2>4, <2>5, <2>6, <2>7, <2>8, <2>9 DEF IInv
<1>24. CASE Tamper
  <2>1. RollType' /\ RunInv' /\ BindingInv' /\ TakenInv'
    BY <1>24 DEF Tamper, RunInv, BindingInv, TakenInv, HasSecond, FirstsOf, SecondsOf
  <2>2. PlanType'
    BY <1>24 DEF Tamper, RunInv, Plan
  <2>3. FilesType'
    <3>1. bundles' \in [Frames -> SUBSET Shots]
      BY <1>24 DEF Tamper
    <3>2. final' \in [Frames -> Pairs \cup {None, Altered}]
      BY <1>24 DEF Tamper
    <3>3. QED
      BY <1>24, <3>1, <3>2 DEF Tamper
  <2>4. CallType'
    BY <1>24 DEF Tamper, NoWork, WorkInv, RunInv
  <2>5. WorkInv'
    BY <1>24 DEF Tamper, RunInv, WorkInv, Pairs, Seconds
  <2>6. EjectInv'
    BY <1>24 DEF Tamper, RunInv, EjectInv, ManifestLive
  <2>7. ManifestIsReconstruction'
    BY <1>24 DEF Tamper, RunInv, WorkInv, BindingInv, ManifestIsReconstruction
  <2>8. QED
    BY <2>1, <2>2, <2>3, <2>4, <2>5, <2>6, <2>7 DEF IInv
<1>25. CASE Done
  BY <1>25 DEF Done, vars, RunInv, WorkInv, BindingInv, TakenInv, HasSecond, FirstsOf,
               SecondsOf, EjectInv, ManifestLive, ManifestIsReconstruction
<1>26. QED
  BY <1>1, <1>2, <1>3, <1>4, <1>5, <1>6, <1>7, <1>8, <1>9, <1>10, <1>11, <1>12, <1>13, <1>14,
     <1>15, <1>16, <1>17, <1>18, <1>19, <1>20, <1>21, <1>22, <1>23, <1>24, <1>25
     DEF Next, Steps, Archive, CaptureSteps, CutArchive

\* It holds at the start.
LEMMA StartsRight == Init => IInv
<1> SUFFICES ASSUME Init
             PROVE  IInv
  OBVIOUS
<1> USE ForwardAssumption, MarksAssumption DEF Init, ArchiveInit
<1>1. PlanType
  BY DEF PlanType, Plan, Versions
<1>2. FilesType
  BY DEF FilesType
<1>3. CallType
  BY DEF CallType, NoWork
<1>4. RollType
  BY DEF RollType
<1>5. RunInv /\ WorkInv /\ BindingInv /\ EjectInv /\ ManifestIsReconstruction
  BY DEF RunInv, WorkInv, Calls, InFrame, BindingInv, EjectInv, ManifestIsReconstruction
<1>6. TakenInv
  <2>1. \A f \in Frames : FirstsOf(f) \in {0, 1} /\ SecondsOf(f) \in {0, 1} /\ taken[f] = 0
    BY DEF FirstsOf, SecondsOf
  <2>2. QED
    BY <2>1 DEF TakenInv
<1>7. QED
  BY <1>1, <1>2, <1>3, <1>4, <1>5, <1>6 DEF IInv

\* IInv is an invariant.
LEMMA Invariance == Spec => []IInv
<1>1. Init => IInv
  BY StartsRight
<1>2. IInv /\ UNCHANGED vars => IInv'
  BY  DEF vars, IInv, PlanType, FilesType, CallType, RollType, RunInv, WorkInv, BindingInv,
         TakenInv,
         FirstsOf, SecondsOf, HasSecond, EjectInv, ManifestLive, ManifestIsReconstruction,
         plans, archive, frames, forward, capture, budgets
<1>3. IInv /\ [Next]_vars => IInv'
  BY <1>2, StepKeepsInv
<1>4. QED
  BY <1>1, <1>3, PTL DEF Spec

\* Every variable of the archive and the roll keeps its type: in particular a frame
\* is transferred at most twice and once more for every interruption.
THEOREM RollIsTyped == Spec => []TypeOK
<1>1. IInv => TypeOK
  BY DEF IInv, TypeOK, ArchiveType, PlanType, Plan, FilesType, CallType, RollType
<1>2. QED
  BY <1>1, Invariance, PTL

\* A manifest names one reconstruction of its own checkpointed first source, under the
\* one approval its chunk's archive belongs to (FullNegativeWorkflow, scan_full_negative).
THEOREM ManifestsTell == Spec => []ManifestIsReconstruction
<1>1. IInv => ManifestIsReconstruction
  BY DEF IInv
<1>2. QED
  BY <1>1, Invariance, PTL

\* A checkpointed first source, a manifest and the reconstruction it names are never
\* replaced, and a frame with a manifest is never transferred again
\* (FullNegativeWorkflow._capture_frame_locked, ForwardRollWorkflow resume).
THEOREM CapturedOnce == Spec => NothingCapturedTwice
<1> DEFINE A == \A f \in Frames :
          /\ first[f] # None => first'[f] = first[f]
          /\ manifest[f] # None => /\ manifest'[f] = manifest[f]
                                   /\ taken'[f] = taken[f]
                                   /\ final'[f] \in {final[f], Altered}
<1>1. ASSUME IInv, [Next]_vars
      PROVE  A
  <2>1. FilesType /\ WorkInv /\ BindingInv
    BY <1>1 DEF IInv
  <2>2. \A f \in Frames : manifest[f] # None => first[f] # None
    <3> SUFFICES ASSUME NEW f \in Frames, manifest[f] # None
                 PROVE  first[f] # None
      OBVIOUS
    <3>1. manifest[f] \in [binding : Bindings, pair : Pairs]
      BY <2>1 DEF FilesType
    <3>2. [binding |-> manifest[f].binding, shot |-> manifest[f].pair.first]
             \in [binding : Bindings, shot : Shots]
      BY <3>1 DEF Pairs
    <3>3. QED
      BY <2>1, <3>2, MarksAssumption DEF BindingInv
  <2>3. CASE FirstTransfer \/ (CutCapture /\ pc = "frame")
    <3>1. first[frame] = None /\ manifest[frame] = None
      BY <2>3 DEF FirstTransfer, CutCapture, NeedsFirst
    <3>2. \A f \in Frames \ {frame} : first'[f] = first[f] /\ taken'[f] = taken[f]
      BY <2>1, <2>3 DEF FirstTransfer, CutCapture, Transfer, FilesType
    <3>3. UNCHANGED <<manifest, final>>
      BY <2>3 DEF FirstTransfer, CutCapture
    <3>4. QED
      BY <3>1, <3>2, <3>3
  <2>4. CASE SecondTransfer
    <3>1. manifest[frame] = None
      BY <2>1, <2>4 DEF SecondTransfer, WorkInv
    <3>2. \A f \in Frames \ {frame} : taken'[f] = taken[f]
      BY <2>1, <2>4 DEF SecondTransfer, Transfer, FilesType
    <3>3. QED
      BY <2>4, <3>1, <3>2 DEF SecondTransfer
  <2>5. CASE WriteFinal \/ WriteManifest \/ (CutCapture /\ pc # "frame")
    <3>1. manifest[frame] = None
      BY <2>1, <2>5 DEF WriteFinal, WriteManifest, CutCapture, WorkInv, InChunk
    <3>2. \A f \in Frames \ {frame} : final'[f] = final[f] /\ manifest'[f] = manifest[f]
      BY <2>1, <2>5 DEF WriteFinal, WriteManifest, CutCapture, FilesType, InChunk
    <3>3. UNCHANGED <<first, taken>>
      BY <2>5 DEF WriteFinal, WriteManifest, CutCapture, InChunk
    <3>4. QED
      BY <3>1, <3>2, <3>3
  <2>6. CASE Tamper
    BY <2>1, <2>6 DEF Tamper, FilesType
  <2>7. CASE UNCHANGED frames
    BY <2>7 DEF frames
  <2>8. QED
    BY <1>1, <2>3, <2>4, <2>5, <2>6, <2>7
       DEF Next, Steps, Archive, CaptureSteps, CutArchive, Start, SkipChunk, OpenChunk, Prepare,
           PrepareRefused, ApproveChunk, ApproveRefused, OpenArchive, OpenArchiveRefused,
           ReuseFrame, ResumeFrame, FrameRefused, CheckpointFrame, RecordChunk, Finish, Eject,
           Die, CutPrepare, Done, vars, archive, frames
<1>2. IInv /\ [Next]_vars => [A]_vars
  BY <1>1
<1>3. QED
  BY <1>2, Invariance, PTL DEF Spec, NothingCapturedTwice

\* The film is ejected only when every frame's archive is whole on disk and of its
\* chunk's approval (_eject_after_forward_roll, ForwardRollWorkflow._refresh).
THEOREM EjectedWhole == Spec => EjectsArchivedRoll
<1> DEFINE A == ejected' # ejected =>
          \A f \in Frames : /\ ManifestLive(f)
                            /\ manifest[f].binding = rollCheckpoint[ChunkOf(f)].binding
<1>1. ASSUME IInv, [Next]_vars
      PROVE  A
  <2> SUFFICES ASSUME ejected' # ejected
               PROVE  \A f \in Frames :
                          /\ ManifestLive(f)
                          /\ manifest[f].binding = rollCheckpoint[ChunkOf(f)].binding
    OBVIOUS
  <2>1. Eject
    BY <1>1 DEF Next, Steps, Archive, CutArchive, Start, SkipChunk, OpenChunk, Prepare,
           PrepareRefused, ApproveChunk, ApproveRefused, RecordChunk, Finish,
           Die, CutPrepare, Tamper, Done, vars
  <2>2. \A f \in Frames : ManifestLive(f)
    BY <1>1, <2>1 DEF Eject, IInv, EjectInv
  <2>3. QED
    BY <1>1, <2>2 DEF IInv, ManifestIsReconstruction, ManifestLive
<1>2. IInv /\ [Next]_vars => [A]_vars
  BY <1>1
<1>3. QED
  BY <1>2, Invariance, PTL DEF Spec, EjectsArchivedRoll

===============================================================================
