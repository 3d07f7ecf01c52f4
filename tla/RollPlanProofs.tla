---------------------------- MODULE RollPlanProofs ----------------------------
(***************************************************************************)
(* Proofs about RollPlan: what a roll plan says is true at every stage, it *)
(* can always be read again, and an approval keeps its evidence, for every *)
(* roll, every policy of registration and any number of interruptions.     *)
(***************************************************************************)
EXTENDS RollPlan, TLAPS

-----------------------------------------------------------------------------
(* What the calls make of a plan.                                          *)

\* The geometry is the fit of the wide previews, and the aligned previews were
\* scanned with it.
RegistrationCoheres(p) ==
    /\ p.stage # "wide" => p.reg = Calibrate(p.wide)
    /\ \A f \in Frames : p.aligned[f] # None => p.aligned[f].geometry = p.reg[f]

Sound(p) == p \in Plans /\ Readable(p) /\ RegistrationCoheres(p)

USE RollPlanAssumption, AbsenceAssumption

LEMMA LooksShown == ASSUME NEW f \in Frames PROVE Shows[f] \subseteq Looks
  BY DEF Looks

LEMMA FreshIsSound == Sound(FreshPlan) /\ ~FreshPlan.approved
<1>1. FreshPlan \in Plans
  BY DEF FreshPlan, Plans, Stages
<1>2. Readable(FreshPlan)
  <2>1. RecordsCohere(FreshPlan)
    BY DEF FreshPlan, RecordsCohere
  <2>2. ApprovalCoheres(FreshPlan)
    BY DEF ApprovalCoheres, FreshPlan, ApprovedStages
  <2>3. StageCoheres(FreshPlan)
    BY DEF FreshPlan, StageCoheres
  <2>4. QED
    BY <1>1, <2>1, <2>2, <2>3 DEF Readable
<1>3. RegistrationCoheres(FreshPlan)
  BY DEF FreshPlan, RegistrationCoheres
<1>4. QED
  BY <1>1, <1>2, <1>3 DEF Sound, FreshPlan

LEMMA WithdrawnIsSound ==
    ASSUME NEW p, Sound(p), p.stage \in ApprovedStages
    PROVE  Sound(Withdrawn(p)) /\ ~Withdrawn(p).approved
<1>1. p \in Plans /\ Readable(p) /\ RegistrationCoheres(p)
  BY DEF Sound
<1>2. Withdrawn(p) \in Plans
  BY <1>1 DEF Withdrawn, Plans, Stages
<1>3. /\ Withdrawn(p).stage = "aligned" /\ Withdrawn(p).approved = FALSE
      /\ Withdrawn(p).overrides = {}
      /\ Withdrawn(p).wide = p.wide /\ Withdrawn(p).reg = p.reg
      /\ Withdrawn(p).aligned = p.aligned /\ Withdrawn(p).fine = p.fine
  BY <1>1 DEF Withdrawn, Plans
<1>4. Readable(Withdrawn(p))
  <2>1. RecordsCohere(Withdrawn(p))
    BY <1>1, <1>3 DEF Readable, RecordsCohere
  <2>2. ApprovalCoheres(Withdrawn(p))
    BY <1>3 DEF ApprovalCoheres, ApprovedStages
  <2>3. StageCoheres(Withdrawn(p))
    BY <1>1, <1>3 DEF Readable, StageCoheres, ApprovedStages
  <2>4. QED
    BY <1>2, <2>1, <2>2, <2>3 DEF Readable
<1>5. RegistrationCoheres(Withdrawn(p))
  BY <1>1, <1>3 DEF RegistrationCoheres, ApprovedStages
<1>6. QED
  BY <1>2, <1>3, <1>4, <1>5 DEF Sound

LEMMA WideRecordedIsSound ==
    ASSUME NEW p, Sound(p), ~p.approved, NEW f \in Frames, NEW look \in Looks
    PROVE  /\ Sound(WideRecorded(p, f, look)) /\ ~WideRecorded(p, f, look).approved
           /\ WideRecorded(p, f, look).wide = [p.wide EXCEPT ![f] = look]
<1> DEFINE q == WideRecorded(p, f, look)
<1>1. p \in Plans /\ Readable(p) /\ RegistrationCoheres(p)
  BY DEF Sound
<1>2. q \in Plans
  BY <1>1 DEF WideRecorded, Plans, Stages
<1>3. /\ q.stage = "wide" /\ q.approved = p.approved /\ q.overrides = p.overrides
      /\ q.wide = [p.wide EXCEPT ![f] = look] /\ q.reg = p.reg
      /\ q.aligned = p.aligned /\ q.fine = p.fine
  BY <1>1 DEF WideRecorded, Plans
<1>4. \A g \in Frames : p.wide[g] # None => q.wide[g] # None
  BY <1>1, <1>3 DEF Plans
<1> HIDE DEF q
<1>5. Readable(q)
  BY <1>1, <1>2, <1>3, <1>4
     DEF Readable, RecordsCohere, ApprovalCoheres, StageCoheres, ApprovedStages, Plans
<1>6. RegistrationCoheres(q)
  BY <1>1, <1>3 DEF RegistrationCoheres
<1>7. QED
  BY <1>1, <1>2, <1>3, <1>5, <1>6 DEF Sound, q

LEMMA RegisteredIsSound ==
    ASSUME NEW p, Sound(p), ~p.approved, \A f \in Frames : p.wide[f] # None
    PROVE  /\ Sound(Registered(p)) /\ Registered(p).stage = "aligned"
           /\ ~Registered(p).approved
<1> DEFINE q == Registered(p)
           reg == Calibrate(p.wide)
<1>1. p \in Plans /\ Readable(p) /\ RegistrationCoheres(p)
  BY DEF Sound
<1>2. p.wide \in [Frames -> Looks]
  BY <1>1 DEF Plans
<1>3. reg \in [Frames -> Geometries]
  BY <1>2
<1>4. /\ q.stage = "aligned" /\ q.approved = p.approved /\ q.overrides = p.overrides
      /\ q.wide = p.wide /\ q.reg = reg
      /\ q.aligned = [f \in Frames |-> IF p.reg[f] = reg[f] THEN p.aligned[f] ELSE None]
      /\ q.fine = [f \in Frames |-> IF p.reg[f] = reg[f] THEN p.fine[f] ELSE None]
  BY <1>1 DEF Registered, Plans
<1>5. q \in Plans
  BY <1>1, <1>3 DEF Registered, Plans, Stages
<1> HIDE DEF q, reg
<1>6. \A f \in Frames : q.reg[f] # None /\ q.wide[f] # None
  BY <1>3, <1>4
<1>7. Readable(q)
  BY <1>1, <1>4, <1>5, <1>6
     DEF Readable, RecordsCohere, ApprovalCoheres, StageCoheres, ApprovedStages, Plans
<1>8. RegistrationCoheres(q)
  <2>1. ASSUME NEW f \in Frames, q.aligned[f] # None
        PROVE  q.aligned[f].geometry = q.reg[f]
    BY <1>1, <1>4, <2>1 DEF RegistrationCoheres
  <2>2. q.reg = Calibrate(q.wide)
    BY <1>4 DEF reg
  <2>3. QED
    BY <2>1, <2>2 DEF RegistrationCoheres
<1>9. QED
  BY <1>4, <1>5, <1>7, <1>8 DEF Sound, q

\* A plan past the wide previews has a geometry for each frame.
LEMMA RegisteredFrames ==
    ASSUME NEW p, Sound(p), p.stage # "wide", NEW f \in Frames
    PROVE  p.wide[f] \in Looks /\ p.reg[f] \in Geometries
  BY DEF Sound, Readable, StageCoheres, Plans

LEMMA AlignedRecordedIsSound ==
    ASSUME NEW p, Sound(p), p.stage = "aligned", NEW f \in Frames,
           NEW preview \in [geometry : {p.reg[f]}, look : Looks] \cup {None}
    PROVE  /\ Sound([p EXCEPT !.aligned[f] = preview])
           /\ [p EXCEPT !.aligned[f] = preview].stage = "aligned"
           /\ [p EXCEPT !.aligned[f] = preview].approved = p.approved
           /\ [p EXCEPT !.aligned[f] = preview].aligned = [p.aligned EXCEPT ![f] = preview]
<1> DEFINE q == [p EXCEPT !.aligned[f] = preview]
<1>1. p \in Plans /\ Readable(p) /\ RegistrationCoheres(p)
  BY DEF Sound
<1>2. p.reg[f] \in Geometries
  BY RegisteredFrames
<1>3. preview \in Aligned \cup {None}
  BY <1>2 DEF Aligned
<1>4. q \in Plans
  BY <1>1, <1>3 DEF Plans
<1>5. /\ q.stage = p.stage /\ q.approved = p.approved /\ q.overrides = p.overrides
      /\ q.wide = p.wide /\ q.reg = p.reg
      /\ q.aligned = [p.aligned EXCEPT ![f] = preview] /\ q.fine = p.fine
  BY <1>1 DEF Plans
<1>6. \A g \in Frames : q.aligned[g] = IF g = f THEN preview ELSE p.aligned[g]
  BY <1>1, <1>5 DEF Plans
<1> HIDE DEF q
<1>7. Readable(q)
  BY <1>1, <1>2, <1>4, <1>5, <1>6
     DEF Readable, RecordsCohere, ApprovalCoheres, StageCoheres, ApprovedStages
<1>8. RegistrationCoheres(q)
  BY <1>1, <1>5, <1>6 DEF RegistrationCoheres
<1>9. QED
  BY <1>4, <1>5, <1>7, <1>8 DEF Sound, q

LEMMA ReviewIsSound ==
    ASSUME NEW p, Sound(p), p.stage = "aligned", \A f \in Frames : p.aligned[f] # None
    PROVE  /\ Sound([p EXCEPT !.stage = "review", !.approved = FALSE, !.overrides = {}])
           /\ ~[p EXCEPT !.stage = "review", !.approved = FALSE, !.overrides = {}].approved
<1> DEFINE q == [p EXCEPT !.stage = "review", !.approved = FALSE, !.overrides = {}]
<1>1. p \in Plans /\ Readable(p) /\ RegistrationCoheres(p)
  BY DEF Sound
<1>2. q \in Plans
  BY <1>1 DEF Plans, Stages
<1>3. /\ q.stage = "review" /\ q.approved = FALSE /\ q.overrides = {}
      /\ q.wide = p.wide /\ q.reg = p.reg /\ q.aligned = p.aligned /\ q.fine = p.fine
  BY <1>1 DEF Plans
<1> HIDE DEF q
<1>4. Readable(q)
  <2>1. RecordsCohere(q)
    BY <1>1, <1>3 DEF Readable, RecordsCohere
  <2>2. ApprovalCoheres(q)
    BY <1>3 DEF ApprovalCoheres, ApprovedStages
  <2>3. StageCoheres(q)
    BY <1>1, <1>3 DEF Readable, StageCoheres, ApprovedStages
  <2>4. QED
    BY <1>2, <2>1, <2>2, <2>3 DEF Readable
<1>5. RegistrationCoheres(q)
  BY <1>1, <1>3 DEF RegistrationCoheres
<1>6. QED
  BY <1>2, <1>3, <1>4, <1>5 DEF Sound, q

LEMMA ApprovedIsSound ==
    ASSUME NEW p, Sound(p), p.stage = "review", NEW overrides \in SUBSET Frames,
           \A f \in Frames : Passed(p.aligned[f]) \/ f \in overrides
    PROVE  Sound([p EXCEPT !.stage = "approved", !.approved = TRUE, !.overrides = overrides])
<1> DEFINE q == [p EXCEPT !.stage = "approved", !.approved = TRUE, !.overrides = overrides]
<1>1. p \in Plans /\ Readable(p) /\ RegistrationCoheres(p)
  BY DEF Sound
<1>2. q \in Plans
  BY <1>1 DEF Plans, Stages
<1>3. /\ q.stage = "approved" /\ q.approved = TRUE /\ q.overrides = overrides
      /\ q.wide = p.wide /\ q.reg = p.reg /\ q.aligned = p.aligned /\ q.fine = p.fine
  BY <1>1 DEF Plans
<1> HIDE DEF q
<1>4. Readable(q)
  BY <1>1, <1>2, <1>3
     DEF Readable, RecordsCohere, ApprovalCoheres, StageCoheres, ApprovedStages
<1>5. RegistrationCoheres(q)
  BY <1>1, <1>3 DEF RegistrationCoheres
<1>6. QED
  BY <1>2, <1>4, <1>5 DEF Sound, q

\* An approved plan whose fine records change, as its stage does with them.
LEMMA FineIsSound ==
    ASSUME NEW p, Sound(p), p.approved, NEW q \in Plans,
           q.stage \in ApprovedStages,
           q.approved = p.approved, q.overrides = p.overrides, q.wide = p.wide,
           q.reg = p.reg, q.aligned = p.aligned,
           q.stage = "complete" => \E r \in Recipes : \A f \in Frames : q.fine[f] = r
    PROVE  Sound(q)
<1>1. p \in Plans /\ Readable(p) /\ RegistrationCoheres(p)
  BY DEF Sound
<1>2. p.stage \in ApprovedStages
  BY <1>1 DEF Readable, ApprovalCoheres
<1>3. Readable(q)
  BY <1>1, <1>2
     DEF Readable, RecordsCohere, ApprovalCoheres, StageCoheres, ApprovedStages
<1>4. RegistrationCoheres(q)
  BY <1>1, <1>2 DEF RegistrationCoheres, ApprovedStages
<1>5. QED
  BY <1>3, <1>4 DEF Sound

-----------------------------------------------------------------------------
(* The inductive invariant.                                                *)

SoundInv == disk # NoPlan => Sound(disk)

\* A call works on a copy of what is on disk, and has done the frames before "at".
CallInv ==
    /\ pc # "idle" => plan = disk /\ disk # NoPlan
    /\ pc = "wide" => /\ ~plan.approved
                      /\ \A f \in Frames : f < at => plan.wide[f] # None
    /\ pc = "align" => /\ plan.stage = "aligned"
                       /\ \A f \in Frames : f < at => plan.aligned[f] # None
    /\ pc = "fine" => /\ plan.approved /\ job.recipe \in Recipes
                      /\ plan.stage = "complete" =>
                            \A f \in job.select : FineValid(plan, f, job.recipe)

\* A sidecar describes one take, and nobody makes an infrared file unasked.
PairInv ==
    \A k \in FineKeys :
        /\ qc[k] = NoPair \/ \E take \in Takes : qc[k] = TakenPair(k[2], take)
        /\ k[2] \notin Infrared => fineFile[k].ir = None

PInv == TypeOK /\ SoundInv /\ CallInv /\ PairInv /\ CompleteIsTrue

-----------------------------------------------------------------------------
(* Steps.                                                                  *)

LEMMA PlanIsThere == ASSUME NEW p, Sound(p) PROVE p \in Plans /\ p # NoPlan
  BY DEF Sound

\* A roll that is not complete is not claimed to be.
LEMMA NotComplete ==
    ASSUME disk' # NoPlan => disk'.stage # "complete"
    PROVE  CompleteIsTrue'
  BY DEF CompleteIsTrue

\* A complete roll stays one while others damage its files.
LEMMA StillComplete ==
    ASSUME SoundInv, CompleteIsTrue, UNCHANGED <<disk, qc>>,
           \A k \in FineKeys : /\ fineFile'[k].rgb \in {fineFile[k].rgb, Altered}
                               /\ fineFile'[k].ir = fineFile[k].ir
    PROVE  CompleteIsTrue'
<1> SUFFICES ASSUME disk # NoPlan, disk.stage = "complete"
             PROVE  CompleteIsTrue'
  BY DEF CompleteIsTrue
<1>1. PICK r \in Recipes : \A f \in Frames :
          /\ disk.fine[f] = r
          /\ \E take \in Takes : qc[Key(disk, f, r)] = TakenPair(r, take)
          /\ fineFile[Key(disk, f, r)].rgb \in {qc[Key(disk, f, r)].rgb, None, Altered}
          /\ fineFile[Key(disk, f, r)].ir \in {qc[Key(disk, f, r)].ir, None, Altered}
  BY DEF CompleteIsTrue
<1>2. \A f \in Frames : Key(disk, f, r) \in FineKeys
  BY RegisteredFrames DEF SoundInv, Key, FineKeys
<1>3. \A f \in Frames :
          /\ disk'.fine[f] = r
          /\ \E take \in Takes : qc'[Key(disk, f, r)] = TakenPair(r, take)
          /\ fineFile'[Key(disk, f, r)].rgb \in {qc'[Key(disk, f, r)].rgb, None, Altered}
          /\ fineFile'[Key(disk, f, r)].ir \in {qc'[Key(disk, f, r)].ir, None, Altered}
  BY <1>1, <1>2
<1>4. \A f \in Frames : Key(disk, f, r)' = Key(disk, f, r)
  BY DEF Key
<1>5. QED
  BY <1>3, <1>4 DEF CompleteIsTrue

LEMMA SameFiles ==
    ASSUME SoundInv, CompleteIsTrue, UNCHANGED <<disk, qc, fineFile>>
    PROVE  CompleteIsTrue'
  BY StillComplete

\* What a plan says of a fine scan is checked against its two files only.
LEMMA SameValidity ==
    ASSUME UNCHANGED <<plan, job, fineFile, qc>>
    PROVE  \A f \in Frames :
               FineValid(plan, f, job.recipe)' <=> FineValid(plan, f, job.recipe)
  BY DEF FineValid, QcValid, Key

\* The start of a call that prepares.
LEMMA PrepareStep ==
    ASSUME PInv, PrepareNew \/ PrepareAgain
    PROVE  PInv'
<1>1. PICK p : /\ Sound(p) /\ ~p.approved /\ Save(p) /\ Begin("wide") /\ UNCHANGED job
               /\ p.stage # "complete"
  <2>1. CASE PrepareNew
    <3>1. FreshPlan.stage # "complete"
      BY DEF FreshPlan
    <3>2. QED
      BY <2>1, <3>1, FreshIsSound DEF PrepareNew
  <2>2. CASE PrepareAgain
    <3>1. Sound(disk)
      BY <2>2 DEF PrepareAgain, Readable, PInv, SoundInv
    <3>2. CASE disk.stage \in ApprovedStages
      <4>1. Withdrawn(disk).stage # "complete"
        BY <3>1 DEF Withdrawn, Sound, Plans
      <4>2. QED
        BY <2>2, <3>1, <3>2, <4>1, WithdrawnIsSound DEF PrepareAgain
    <3>3. CASE disk.stage \notin ApprovedStages
      <4>1. ~disk.approved /\ disk.stage # "complete"
        BY <3>1, <3>3 DEF Sound, Readable, ApprovalCoheres, ApprovedStages
      <4>2. QED
        BY <2>2, <3>1, <3>3, <4>1 DEF PrepareAgain
    <3>4. QED
      BY <3>2, <3>3
  <2>3. QED
    BY <2>1, <2>2
<1>2. /\ plan' = p /\ disk' = p /\ pc' = "wide" /\ at' = 1 /\ job' = job
      /\ UNCHANGED <<wideFile, alignedFile, fineFile, qc, interrupts, tampers>>
      /\ p \in Plans /\ p # NoPlan
  BY <1>1, PlanIsThere DEF Save, Begin, files
<1>3. TypeOK'
  BY <1>2 DEF PInv, TypeOK
<1>4. SoundInv'
  BY <1>1, <1>2 DEF SoundInv
<1>5. CallInv'
  BY <1>1, <1>2 DEF CallInv, Frames
<1>6. PairInv'
  BY <1>2 DEF PInv, PairInv
<1>7. CompleteIsTrue'
  BY <1>1, <1>2, NotComplete
<1>8. QED
  BY <1>3, <1>4, <1>5, <1>6, <1>7 DEF PInv

\* A frame whose file is as recorded is passed over.
LEMMA KeepStep ==
    ASSUME PInv, KeepWide \/ KeepAligned \/ SkipFine
    PROVE  PInv'
<1>1. /\ at \in Frames /\ at' = at + 1 /\ pc # "idle"
      /\ UNCHANGED <<disk, plan, pc, job, wideFile, alignedFile, fineFile, qc,
                     interrupts, tampers>>
  BY DEF KeepWide, KeepAligned, SkipFine, files
<1>2. TypeOK'
  BY <1>1 DEF PInv, TypeOK, Frames
<1>3. SoundInv' /\ PairInv'
  BY <1>1 DEF PInv, SoundInv, PairInv
<1>4. CallInv'
  <2>1. \A f \in Frames : f < at' => f < at \/ f = at
    BY <1>1 DEF Frames
  <2>2. CASE KeepWide
    BY <1>1, <2>1, <2>2 DEF PInv, CallInv, KeepWide, WideValid
  <2>3. CASE KeepAligned
    BY <1>1, <2>1, <2>3 DEF PInv, CallInv, KeepAligned, AlignedValid
  <2>4. CASE SkipFine
    <3>1. pc = "fine" /\ job.select \subseteq Frames
      BY <2>4 DEF SkipFine, PInv, TypeOK
    <3>2. QED
      BY <1>1, <3>1, SameValidity DEF PInv, CallInv
  <2>5. QED
    BY <2>2, <2>3, <2>4
<1>5. CompleteIsTrue'
  BY <1>1, SameFiles DEF PInv
<1>6. QED
  BY <1>2, <1>3, <1>4, <1>5 DEF PInv

LEMMA ScanWideStep ==
    ASSUME PInv, ScanWide
    PROVE  PInv'
<1>1. PICK look \in Shows[at] : /\ wideFile' = [wideFile EXCEPT ![at] = look]
                                /\ Save(WideRecorded(plan, at, look))
  BY DEF ScanWide
<1> DEFINE q == WideRecorded(plan, at, look)
<1>2. /\ at \in Frames /\ at' = at + 1 /\ pc = "wide" /\ pc' = "wide"
      /\ plan' = q /\ disk' = q
      /\ UNCHANGED <<job, alignedFile, fineFile, qc, interrupts, tampers>>
  BY <1>1 DEF ScanWide, Save
<1>3. Sound(plan) /\ ~plan.approved /\ \A f \in Frames : f < at => plan.wide[f] # None
  BY <1>2 DEF PInv, CallInv, SoundInv
<1>4. look \in Looks
  BY <1>2, LooksShown
<1>5. /\ Sound(q) /\ ~q.approved /\ q.wide = [plan.wide EXCEPT ![at] = look]
      /\ q \in Plans /\ q # NoPlan /\ q.stage = "wide"
  <2>1. Sound(q) /\ ~q.approved /\ q.wide = [plan.wide EXCEPT ![at] = look]
    BY <1>2, <1>3, <1>4, WideRecordedIsSound
  <2>2. q.stage = "wide"
    BY <1>3 DEF WideRecorded, Sound, Plans
  <2>3. QED
    BY <2>1, <2>2, PlanIsThere
<1> HIDE DEF q
<1>6. TypeOK'
  BY <1>1, <1>2, <1>4, <1>5 DEF PInv, TypeOK, Frames
<1>7. SoundInv' /\ PairInv'
  BY <1>2, <1>5 DEF PInv, SoundInv, PairInv
<1>8. CallInv'
  <2>1. \A f \in Frames : f < at' => f < at \/ f = at
    BY <1>2 DEF Frames
  <2>2. plan.wide \in [Frames -> Looks \cup {None}]
    BY <1>3 DEF Sound, Plans
  <2>3. \A f \in Frames : f < at' => q.wide[f] # None
    BY <1>2, <1>3, <1>4, <1>5, <2>1, <2>2
  <2>4. QED
    BY <1>2, <1>5, <2>3 DEF CallInv
<1>9. CompleteIsTrue'
  BY <1>2, <1>5, NotComplete
<1>10. QED
  BY <1>6, <1>7, <1>8, <1>9 DEF PInv

LEMMA RegisterStep ==
    ASSUME PInv, Register
    PROVE  PInv'
<1>1. /\ pc = "wide" /\ at = NFrames + 1 /\ at' = 1 /\ pc' = "align"
      /\ plan' = Registered(plan) /\ disk' = Registered(plan)
      /\ UNCHANGED <<job, wideFile, alignedFile, fineFile, qc, interrupts, tampers>>
  BY DEF Register, Save, Begin, files
<1>2. Sound(plan) /\ ~plan.approved /\ \A f \in Frames : plan.wide[f] # None
  BY <1>1 DEF PInv, CallInv, SoundInv, Frames
<1>3. /\ Sound(Registered(plan)) /\ Registered(plan).stage = "aligned"
      /\ Registered(plan) \in Plans /\ Registered(plan) # NoPlan
  BY <1>2, RegisteredIsSound, PlanIsThere
<1>4. TypeOK'
  BY <1>1, <1>3 DEF PInv, TypeOK
<1>5. SoundInv' /\ PairInv'
  BY <1>1, <1>3 DEF PInv, SoundInv, PairInv
<1>6. CallInv'
  BY <1>1, <1>3 DEF CallInv, Frames
<1>7. CompleteIsTrue'
  BY <1>1, <1>3, NotComplete
<1>8. QED
  BY <1>4, <1>5, <1>6, <1>7 DEF PInv

LEMMA ScanAlignedStep ==
    ASSUME PInv, ScanAligned
    PROVE  PInv'
<1>1. PICK look \in Shows[at] :
          LET preview == [geometry |-> plan.reg[at], look |-> look]
          IN  /\ alignedFile' = [alignedFile EXCEPT ![at] = preview]
              /\ Save([plan EXCEPT !.aligned[at] = preview])
  BY DEF ScanAligned
<1> DEFINE preview == [geometry |-> plan.reg[at], look |-> look]
           q == [plan EXCEPT !.aligned[at] = preview]
<1>2. /\ at \in Frames /\ at' = at + 1 /\ pc = "align" /\ pc' = "align"
      /\ alignedFile' = [alignedFile EXCEPT ![at] = preview]
      /\ plan' = q /\ disk' = q
      /\ UNCHANGED <<job, wideFile, fineFile, qc, interrupts, tampers>>
  BY <1>1 DEF ScanAligned, Save
<1>3. /\ Sound(plan) /\ plan.stage = "aligned"
      /\ \A f \in Frames : f < at => plan.aligned[f] # None
  BY <1>2 DEF PInv, CallInv, SoundInv
<1>4. /\ look \in Looks /\ plan.reg[at] \in Geometries
      /\ preview \in Aligned /\ preview \in [geometry : {plan.reg[at]}, look : Looks]
  BY <1>2, <1>3, LooksShown, RegisteredFrames DEF Aligned
<1>5. /\ Sound(q) /\ q.stage = "aligned" /\ q.aligned = [plan.aligned EXCEPT ![at] = preview]
      /\ q \in Plans /\ q # NoPlan
  BY <1>2, <1>3, <1>4, AlignedRecordedIsSound, PlanIsThere
<1> HIDE DEF q, preview
<1>6. TypeOK'
  BY <1>2, <1>4, <1>5 DEF PInv, TypeOK, Frames
<1>7. SoundInv' /\ PairInv'
  BY <1>2, <1>5 DEF PInv, SoundInv, PairInv
<1>8. CallInv'
  <2>1. \A f \in Frames : f < at' => f < at \/ f = at
    BY <1>2 DEF Frames
  <2>2. plan.aligned \in [Frames -> Aligned \cup {None}]
    BY <1>3 DEF Sound, Plans
  <2>3. \A f \in Frames : f < at' => q.aligned[f] # None
    BY <1>2, <1>3, <1>4, <1>5, <2>1, <2>2
  <2>4. QED
    BY <1>2, <1>5, <2>3 DEF CallInv
<1>9. CompleteIsTrue'
  BY <1>2, <1>5, NotComplete
<1>10. QED
  BY <1>6, <1>7, <1>8, <1>9 DEF PInv

\* The end of a call leaves a sound plan.
LEMMA ReturnTyped ==
    ASSUME Return
    PROVE  /\ pc' = "idle" /\ plan' = NoPlan /\ at' = 1 /\ job' = NoJob
           /\ at' \in 1..(NFrames + 1)
           /\ job' \in [recipe : Recipes \cup {None}, select : SUBSET Frames,
                        accept : SUBSET Frames]
           /\ CallInv'
  BY DEF Return, NoJob, CallInv

LEMMA ReviewStep ==
    ASSUME PInv, AskForReview
    PROVE  PInv'
<1> DEFINE q == [plan EXCEPT !.stage = "review", !.approved = FALSE, !.overrides = {}]
<1>1. /\ pc = "align" /\ at = NFrames + 1 /\ disk' = q /\ Return
      /\ UNCHANGED <<wideFile, alignedFile, fineFile, qc, interrupts, tampers>>
  BY DEF AskForReview, files
<1>2. Sound(plan) /\ plan.stage = "aligned" /\ \A f \in Frames : plan.aligned[f] # None
  BY <1>1 DEF PInv, CallInv, SoundInv, Frames
<1>3. Sound(q) /\ q \in Plans /\ q # NoPlan /\ q.stage = "review"
  <2>1. q.stage = "review"
    BY <1>2 DEF Sound, Plans
  <2>2. QED
    BY <1>2, <2>1, ReviewIsSound, PlanIsThere
<1> HIDE DEF q
<1>4. TypeOK'
  BY <1>1, <1>3, ReturnTyped DEF PInv, TypeOK
<1>5. SoundInv' /\ PairInv'
  BY <1>1, <1>3 DEF PInv, SoundInv, PairInv
<1>6. CallInv'
  BY <1>1, ReturnTyped
<1>7. CompleteIsTrue'
  BY <1>1, <1>3, NotComplete
<1>8. QED
  BY <1>4, <1>5, <1>6, <1>7 DEF PInv

\* Between calls: an approval, or a completeness that is taken back.
LEMMA IdleStep ==
    ASSUME PInv, PrepareApproved \/ \E overrides \in Overrides : Approve(overrides)
    PROVE  PInv'
<1>1. PICK q : Sound(q) /\ disk' = q /\ q.stage = "approved"
  <2>1. CASE PrepareApproved
    <3> DEFINE q == [disk EXCEPT !.stage = "approved"]
    <3>1. Sound(disk) /\ disk.stage = "complete" /\ disk' = q
      BY <2>1 DEF PrepareApproved, Readable, PInv, SoundInv
    <3>2. disk.approved
      BY <3>1 DEF Sound, Readable, ApprovalCoheres, ApprovedStages
    <3>3. /\ q \in Plans /\ q.stage = "approved"
          /\ q.approved = disk.approved /\ q.overrides = disk.overrides
          /\ q.wide = disk.wide /\ q.reg = disk.reg /\ q.aligned = disk.aligned
      BY <3>1 DEF Sound, Plans, Stages
    <3> HIDE DEF q
    <3>4. Sound(q)
      BY <3>1, <3>2, <3>3, FineIsSound DEF ApprovedStages
    <3>5. QED
      BY <3>1, <3>3, <3>4
  <2>2. CASE \E overrides \in Overrides : Approve(overrides)
    <3>1. PICK overrides \in Overrides : Approve(overrides)
      BY <2>2
    <3> DEFINE q == [disk EXCEPT !.stage = "approved", !.approved = TRUE,
                                 !.overrides = overrides]
    <3>2. Sound(disk) /\ disk.stage = "review" /\ disk' = q
      BY <3>1 DEF Approve, Readable, PInv, SoundInv
    <3>3. Sound(q)
      BY <3>1, <3>2, ApprovedIsSound DEF Approve
    <3>4. q.stage = "approved"
      BY <3>2 DEF Sound, Plans
    <3>5. QED
      BY <3>2, <3>3, <3>4
  <2>3. QED
    BY <2>1, <2>2
<1>2. /\ pc = "idle" /\ UNCHANGED <<plan, pc, at, job>>
      /\ UNCHANGED <<wideFile, alignedFile, fineFile, qc, interrupts, tampers>>
  BY DEF PrepareApproved, Approve, files
<1>3. TypeOK'
  BY <1>1, <1>2, PlanIsThere DEF PInv, TypeOK
<1>4. SoundInv' /\ PairInv'
  BY <1>1, <1>2 DEF PInv, SoundInv, PairInv
<1>5. CallInv'
  BY <1>2 DEF CallInv
<1>6. CompleteIsTrue'
  BY <1>1, NotComplete
<1>7. QED
  BY <1>3, <1>4, <1>5, <1>6 DEF PInv

\* The start of a fine scan.
LEMMA StartFineStep ==
    ASSUME PInv, Fine
    PROVE  PInv'
<1>1. PICK recipe \in Recipes, select \in Selections, accept \in SUBSET Frames :
          StartFine(recipe, select, accept)
  <2>1. PICK recipe \in Recipes, select \in Selections :
            \E accept \in {{}, select} : StartFine(recipe, select, accept)
    BY DEF Fine
  <2>2. {} \in SUBSET Frames /\ select \in SUBSET Frames
    OBVIOUS
  <2>3. QED
    BY <2>1, <2>2
<1> DEFINE q == Reopened(disk, recipe, select)
<1>2. /\ pc = "idle" /\ pc' = "fine" /\ at' = 1 /\ plan' = q /\ disk' = q
      /\ job' = [recipe |-> recipe, select |-> select, accept |-> accept]
      /\ Sound(disk) /\ disk.approved /\ disk.stage \in ApprovedStages
      /\ UNCHANGED <<wideFile, alignedFile, fineFile, qc, interrupts, tampers>>
  BY <1>1 DEF StartFine, Save, Begin, files, Readable, PInv, SoundInv
<1>3. /\ q \in Plans /\ q.stage \in ApprovedStages /\ q.approved = disk.approved
      /\ q.overrides = disk.overrides /\ q.wide = disk.wide /\ q.reg = disk.reg
      /\ q.aligned = disk.aligned /\ q.fine = disk.fine
      /\ q.stage = "complete" =>
            q = disk /\ \A f \in select : FineValid(disk, f, recipe)
  <2>1. CASE disk.stage = "complete" /\ \E f \in select : ~FineValid(disk, f, recipe)
    <3>1. q = [disk EXCEPT !.stage = "approved"]
      BY <2>1 DEF Reopened
    <3>2. QED
      BY <1>2, <3>1 DEF Sound, Plans, Stages, ApprovedStages
  <2>2. CASE ~(disk.stage = "complete" /\ \E f \in select : ~FineValid(disk, f, recipe))
    <3>1. q = disk
      BY <2>2 DEF Reopened
    <3>2. QED
      BY <1>2, <2>2, <3>1 DEF Sound
  <2>3. QED
    BY <2>1, <2>2
<1> HIDE DEF q
<1>4. Sound(q) /\ q # NoPlan
  <2>1. q.stage = "complete" => \E r \in Recipes : \A f \in Frames : q.fine[f] = r
    BY <1>2, <1>3 DEF Sound, Readable, StageCoheres
  <2>2. QED
    BY <1>2, <1>3, <2>1, FineIsSound, PlanIsThere
<1>5. TypeOK'
  BY <1>2, <1>3 DEF PInv, TypeOK
<1>6. SoundInv' /\ PairInv'
  BY <1>2, <1>4 DEF PInv, SoundInv, PairInv
<1>7. CallInv'
  <2>1. plan'.stage = "complete" =>
            \A f \in job'.select : FineValid(plan, f, job.recipe)'
    <3>1. ASSUME q.stage = "complete", NEW f \in select
          PROVE  FineValid(plan, f, job.recipe)'
      <4>1. /\ plan' = disk /\ job'.recipe = recipe
            /\ FineValid(disk, f, recipe) /\ fineFile' = fineFile /\ qc' = qc
        BY <1>2, <1>3, <3>1
      <4>2. QED
        BY <4>1 DEF FineValid, QcValid, Key
    <3>2. QED
      BY <1>2, <3>1
  <2>2. plan'.approved /\ job'.recipe \in Recipes /\ plan' = disk' /\ disk' # NoPlan
    BY <1>2, <1>3, <1>4
  <2>3. QED
    BY <1>2, <2>1, <2>2 DEF CallInv
<1>8. CompleteIsTrue'
  <2>1. CASE q.stage = "complete"
    BY <1>2, <1>3, <2>1, SameFiles DEF PInv
  <2>2. CASE q.stage # "complete"
    BY <1>2, <2>2, NotComplete
  <2>3. QED
    BY <2>1, <2>2
<1>9. QED
  BY <1>5, <1>6, <1>7, <1>8 DEF PInv

\* What is known when a frame is about to be scanned fine.
LEMMA FineFrameKnown ==
    ASSUME PInv, NeedsFine
    PROVE  /\ at \in Frames /\ pc = "fine" /\ plan = disk /\ Sound(plan)
           /\ plan.approved /\ plan.stage = "approved" /\ job.recipe \in Recipes
           /\ Key(plan, at, job.recipe) \in FineKeys
           /\ TakesOf[at] \subseteq Takes
<1>1. /\ at \in Frames /\ pc = "fine" /\ plan = disk /\ Sound(plan)
      /\ plan.approved /\ job.recipe \in Recipes /\ plan.stage # "complete"
  BY DEF PInv, TypeOK, CallInv, SoundInv, NeedsFine
<1>2. plan.stage = "approved"
  BY <1>1 DEF Sound, Readable, ApprovalCoheres, ApprovedStages
<1>3. plan.reg[at] \in Geometries
  BY <1>1, <1>2, RegisteredFrames
<1>4. QED
  BY <1>1, <1>2, <1>3 DEF Key, FineKeys

LEMMA TakenIsPair ==
    ASSUME NEW recipe \in Recipes, NEW take \in Takes
    PROVE  /\ TakenPair(recipe, take) \in Pairs
           /\ recipe \notin Infrared => TakenPair(recipe, take).ir = None
  BY DEF TakenPair, Pairs

LEMMA NoPairIsPair == NoPair \in Pairs /\ NoPair.ir = None
  BY DEF NoPair, Pairs

LEMMA KeyOfRecipe == ASSUME NEW p, NEW f, NEW r PROVE Key(p, f, r)[2] = r
  BY DEF Key

LEMMA ScanFineStep ==
    ASSUME PInv, ScanFine
    PROVE  PInv'
<1> DEFINE key == Key(plan, at, job.recipe)
           q == [plan EXCEPT !.fine[at] = job.recipe]
<1>1. PICK take \in TakesOf[at] :
          /\ fineFile' = [fineFile EXCEPT ![key] = TakenPair(job.recipe, take)]
          /\ qc' = [qc EXCEPT ![key] = TakenPair(job.recipe, take)]
  BY DEF ScanFine
<1>2. /\ at \in Frames /\ pc = "fine" /\ plan = disk /\ Sound(plan)
      /\ plan.approved /\ plan.stage = "approved" /\ job.recipe \in Recipes
      /\ key \in FineKeys /\ take \in Takes /\ key[2] = job.recipe
  BY FineFrameKnown, KeyOfRecipe DEF ScanFine
<1>3. /\ at' = at + 1 /\ plan' = q /\ disk' = q
      /\ UNCHANGED <<pc, job, wideFile, alignedFile, interrupts, tampers>>
  BY DEF ScanFine, Save
<1>4. /\ q \in Plans /\ q.stage = "approved" /\ q.approved = plan.approved
      /\ q.overrides = plan.overrides /\ q.wide = plan.wide /\ q.reg = plan.reg
      /\ q.aligned = plan.aligned
  BY <1>2 DEF Sound, Plans
<1> DEFINE pair == TakenPair(job.recipe, take)
<1>5. pair \in Pairs /\ (job.recipe \notin Infrared => pair.ir = None)
  BY <1>2, TakenIsPair
<1>6. pair = TakenPair(key[2], take)
  BY <1>2
<1> HIDE DEF q, key
<1>7. Sound(q) /\ q # NoPlan
  BY <1>2, <1>4, FineIsSound, PlanIsThere DEF ApprovedStages
<1>8. TypeOK'
  <2>1. fineFile' \in [FineKeys -> Pairs] /\ qc' \in [FineKeys -> Pairs]
    BY <1>1, <1>2, <1>5 DEF PInv, TypeOK
  <2>2. at' \in 1..(NFrames + 1)
    BY <1>2, <1>3 DEF Frames
  <2>3. QED
    BY <1>2, <1>3, <1>4, <2>1, <2>2 DEF PInv, TypeOK
<1>9. SoundInv'
  BY <1>3, <1>7 DEF SoundInv
<1>10. PairInv'
  <2>1. \A k \in FineKeys :
            /\ fineFile'[k] = IF k = key THEN pair ELSE fineFile[k]
            /\ qc'[k] = IF k = key THEN pair ELSE qc[k]
    BY <1>1, <1>2 DEF PInv, TypeOK
  <2> HIDE DEF pair
  <2>2. QED
    BY <1>2, <1>5, <1>6, <2>1 DEF PInv, PairInv
<1>11. CallInv'
  BY <1>2, <1>3, <1>4, <1>7 DEF CallInv
<1>12. CompleteIsTrue'
  BY <1>3, <1>4, NotComplete
<1>13. QED
  BY <1>8, <1>9, <1>10, <1>11, <1>12 DEF PInv

\* A fine scan that ends before its plan is written.
LEMMA FineFilesStep ==
    ASSUME PInv, NeedsFine, Return, NEW take \in Takes, NEW left \in Pairs,
           job.recipe \notin Infrared => left.ir = None,
           fineFile' = [fineFile EXCEPT ![Key(plan, at, job.recipe)] = left],
           \/ qc' = qc
           \/ qc' = [qc EXCEPT ![Key(plan, at, job.recipe)] = NoPair]
           \/ qc' = [qc EXCEPT ![Key(plan, at, job.recipe)] = TakenPair(job.recipe, take)],
           interrupts' \in 0..MaxInterrupts,
           UNCHANGED <<disk, wideFile, alignedFile, tampers>>
    PROVE  PInv'
<1> DEFINE key == Key(plan, at, job.recipe)
           pair == TakenPair(job.recipe, take)
<1>1. /\ plan = disk /\ plan.stage = "approved" /\ job.recipe \in Recipes
      /\ key \in FineKeys /\ key[2] = job.recipe
  BY FineFrameKnown, KeyOfRecipe
<1>2. pair \in Pairs /\ NoPair \in Pairs /\ pair = TakenPair(key[2], take)
  BY <1>1, TakenIsPair, NoPairIsPair
<1>3. TypeOK'
  <2>1. fineFile' \in [FineKeys -> Pairs] /\ qc' \in [FineKeys -> Pairs]
    BY <1>1, <1>2 DEF PInv, TypeOK
  <2>2. QED
    BY <2>1, ReturnTyped DEF PInv, TypeOK
<1>4. SoundInv'
  BY DEF PInv, SoundInv
<1>5. PairInv'
  <2>1. \A k \in FineKeys :
            /\ fineFile'[k] = IF k = key THEN left ELSE fineFile[k]
            /\ \/ qc'[k] = qc[k]
               \/ qc'[k] = NoPair
               \/ k = key /\ qc'[k] = pair
    BY <1>1 DEF PInv, TypeOK
  <2> HIDE DEF key, pair
  <2>2. QED
    BY <1>1, <1>2, <2>1 DEF PInv, PairInv
<1>6. CompleteIsTrue'
  BY <1>1, NotComplete
<1>7. QED
  BY <1>3, <1>4, <1>5, <1>6, ReturnTyped DEF PInv

LEMMA MoreInterrupts ==
    ASSUME TypeOK, interrupts < MaxInterrupts, interrupts' = interrupts + 1
    PROVE  interrupts' \in 0..MaxInterrupts
  BY DEF TypeOK

LEMMA RefusedStep ==
    ASSUME PInv, ScanFineRefused
    PROVE  PInv'
<1>1. PICK take \in TakesOf[at] :
          /\ fineFile' = [fineFile EXCEPT ![Key(plan, at, job.recipe)] =
                                              TakenPair(job.recipe, take)]
          /\ qc' = [qc EXCEPT ![Key(plan, at, job.recipe)] = NoPair]
  BY DEF ScanFineRefused
<1>2. /\ NeedsFine /\ Return /\ interrupts < MaxInterrupts
      /\ interrupts' = interrupts + 1
      /\ UNCHANGED <<disk, wideFile, alignedFile, tampers>>
  BY DEF ScanFineRefused
<1>3. take \in Takes /\ job.recipe \in Recipes
  BY <1>2, FineFrameKnown
<1>4. interrupts' \in 0..MaxInterrupts
  BY <1>2, MoreInterrupts DEF PInv
<1>5. QED
  BY <1>1, <1>2, <1>3, <1>4, TakenIsPair, FineFilesStep

LEMMA CutFineStep ==
    ASSUME PInv, CutFine
    PROVE  PInv'
<1> DEFINE key == Key(plan, at, job.recipe)
<1>1. PICK take \in TakesOf[at] :
          \/ /\ \E left \in CutPairs(fineFile[key], TakenPair(job.recipe, take)) :
                   fineFile' = [fineFile EXCEPT ![key] = left]
             /\ UNCHANGED qc
          \/ /\ fineFile' = [fineFile EXCEPT ![key] = TakenPair(job.recipe, take)]
             /\ qc' = [qc EXCEPT ![key] = TakenPair(job.recipe, take)]
  BY DEF CutFine
<1>2. /\ NeedsFine /\ Return /\ interrupts < MaxInterrupts
      /\ interrupts' = interrupts + 1
      /\ UNCHANGED <<disk, wideFile, alignedFile, tampers>>
  BY DEF CutFine
<1>3. /\ take \in Takes /\ job.recipe \in Recipes /\ key \in FineKeys
      /\ key[2] = job.recipe
  BY <1>2, FineFrameKnown, KeyOfRecipe
<1>4. interrupts' \in 0..MaxInterrupts
  BY <1>2, MoreInterrupts DEF PInv
<1> DEFINE old == fineFile[key]
           new == TakenPair(job.recipe, take)
<1>5. /\ old \in Pairs /\ new \in Pairs
      /\ job.recipe \notin Infrared => old.ir = None /\ new.ir = None
  BY <1>3, TakenIsPair DEF PInv, TypeOK, PairInv
<1>6. CASE /\ \E left \in CutPairs(old, new) : fineFile' = [fineFile EXCEPT ![key] = left]
           /\ UNCHANGED qc
  <2>1. PICK left \in CutPairs(old, new) : fineFile' = [fineFile EXCEPT ![key] = left]
    BY <1>6
  <2> HIDE DEF old, new
  <2>2. left \in Pairs /\ (job.recipe \notin Infrared => left.ir = None)
    BY <1>5, <2>1 DEF CutPairs, Pairs, NoPair
  <2> HIDE DEF key
  <2>3. QED
    BY <1>2, <1>3, <1>4, <1>6, <2>1, <2>2, FineFilesStep DEF key
<1>7. CASE fineFile' = [fineFile EXCEPT ![key] = new] /\ qc' = [qc EXCEPT ![key] = new]
  BY <1>2, <1>3, <1>4, <1>5, <1>7, FineFilesStep
<1>8. QED
  BY <1>1, <1>6, <1>7

\* The end of a fine scan: complete exactly when the whole roll is valid.
LEMMA EndFineStep ==
    ASSUME PInv, EndFine
    PROVE  PInv'
<1> DEFINE q == Settled(plan, job.recipe)
           whole == \A f \in Frames : FineValid(plan, f, job.recipe)
<1>1. /\ pc = "fine" /\ disk' = q /\ Return
      /\ interrupts' = interrupts \/ (interrupts < MaxInterrupts /\ interrupts' = interrupts + 1)
      /\ UNCHANGED <<wideFile, alignedFile, fineFile, qc, tampers>>
  BY DEF EndFine, files
<1>2. Sound(plan) /\ plan.approved /\ job.recipe \in Recipes
  BY <1>1 DEF PInv, CallInv, SoundInv
<1>3. /\ q \in Plans /\ q.stage = (IF whole THEN "complete" ELSE "approved")
      /\ q.approved = plan.approved /\ q.overrides = plan.overrides
      /\ q.wide = plan.wide /\ q.reg = plan.reg /\ q.aligned = plan.aligned
      /\ q.fine = plan.fine
  BY <1>2 DEF Settled, Sound, Plans, Stages
<1> HIDE DEF q
<1>4. Sound(q) /\ q # NoPlan
  <2>1. q.stage = "complete" => \E r \in Recipes : \A f \in Frames : q.fine[f] = r
    BY <1>2, <1>3 DEF FineValid
  <2>2. q.stage \in ApprovedStages
    BY <1>3 DEF ApprovedStages
  <2>3. QED
    BY <1>2, <1>3, <2>1, <2>2, FineIsSound, PlanIsThere
<1>5. TypeOK'
  <2>1. interrupts' \in 0..MaxInterrupts
    BY <1>1, MoreInterrupts DEF PInv, TypeOK
  <2>2. QED
    BY <1>1, <1>3, <2>1, ReturnTyped DEF PInv, TypeOK
<1>6. SoundInv' /\ PairInv'
  BY <1>1, <1>4 DEF PInv, SoundInv, PairInv
<1>7. CompleteIsTrue'
  <2>1. CASE q.stage # "complete"
    BY <1>1, <2>1, NotComplete
  <2>2. CASE q.stage = "complete"
    <3>1. whole /\ plan.stage \in ApprovedStages
      BY <1>2, <1>3, <2>2 DEF Sound, Readable, ApprovalCoheres
    <3>2. ASSUME NEW f \in Frames
          PROVE  LET k == Key(plan, f, job.recipe)
                 IN  /\ plan.fine[f] = job.recipe
                     /\ \E take \in Takes : qc[k] = TakenPair(job.recipe, take)
                     /\ fineFile[k].rgb = qc[k].rgb
                     /\ fineFile[k].ir \in {qc[k].ir, None}
      <4> DEFINE k == Key(plan, f, job.recipe)
      <4>1. k \in FineKeys /\ k[2] = job.recipe
        BY <1>2, <3>1, RegisteredFrames DEF Key, FineKeys, ApprovedStages
      <4>2. plan.fine[f] = job.recipe /\ QcValid(k)
        BY <3>1 DEF FineValid
      <4> HIDE DEF k
      <4>3. qc[k] # NoPair
        BY <4>2 DEF QcValid, NoPair
      <4>4. \E take \in Takes : qc[k] = TakenPair(job.recipe, take)
        BY <4>1, <4>3 DEF PInv, PairInv
      <4>5. fineFile[k].ir \in {qc[k].ir, None}
        BY <4>1, <4>2 DEF QcValid, PInv, PairInv
      <4>6. QED
        BY <4>2, <4>4, <4>5 DEF QcValid, k
    <3>3. \A f \in Frames : Key(q, f, job.recipe) = Key(plan, f, job.recipe)
      BY <1>3 DEF Key
    <3>4. \E r \in Recipes : \A f \in Frames :
              LET k == Key(q, f, r)
              IN  /\ q.fine[f] = r
                  /\ \E take \in Takes : qc[k] = TakenPair(r, take)
                  /\ fineFile[k].rgb \in {qc[k].rgb, None, Altered}
                  /\ fineFile[k].ir \in {qc[k].ir, None, Altered}
      BY <1>2, <1>3, <3>2, <3>3
    <3>5. QED
      BY <1>1, <3>4 DEF CompleteIsTrue, Key
  <2>3. QED
    BY <2>1, <2>2
<1>8. QED
  BY <1>1, <1>5, <1>6, <1>7, ReturnTyped DEF PInv

LEMMA InterruptStep ==
    ASSUME PInv, Interrupt
    PROVE  PInv'
<1>1. /\ Return /\ interrupts < MaxInterrupts /\ interrupts' = interrupts + 1
      /\ UNCHANGED <<disk, wideFile, alignedFile, fineFile, qc, tampers>>
  BY DEF Interrupt, files
<1>2. TypeOK'
  BY <1>1, ReturnTyped, MoreInterrupts DEF PInv, TypeOK
<1>3. SoundInv' /\ PairInv'
  BY <1>1 DEF PInv, SoundInv, PairInv
<1>4. CompleteIsTrue'
  BY <1>1, SameFiles DEF PInv
<1>5. QED
  BY <1>1, <1>2, <1>3, <1>4, ReturnTyped DEF PInv

LEMMA CutPreviewStep ==
    ASSUME PInv, CutPreview
    PROVE  PInv'
<1>1. /\ Return /\ interrupts < MaxInterrupts /\ interrupts' = interrupts + 1
      /\ UNCHANGED <<fineFile, qc, tampers>>
  BY DEF CutPreview
<1>2. interrupts' \in 0..MaxInterrupts
  BY <1>1, MoreInterrupts DEF PInv
<1>3. PairInv'
  BY <1>1 DEF PInv, PairInv
<1>4. CASE /\ pc = "wide" /\ at \in Frames
           /\ \E left \in Shows[at] \cup {None} : wideFile' = [wideFile EXCEPT ![at] = left]
           /\ UNCHANGED <<disk, alignedFile>>
  <2>1. wideFile' \in [Frames -> Looks \cup {None, Altered}]
    BY <1>4, LooksShown DEF PInv, TypeOK
  <2>2. TypeOK'
    BY <1>1, <1>2, <1>4, <2>1, ReturnTyped DEF PInv, TypeOK
  <2>3. SoundInv' /\ CompleteIsTrue'
    BY <1>1, <1>4, SameFiles DEF PInv, SoundInv
  <2>4. QED
    BY <1>1, <1>3, <2>2, <2>3, ReturnTyped DEF PInv
<1>5. CASE /\ pc = "align" /\ at \in Frames
           /\ \E left \in [geometry : {plan.reg[at]}, look : Shows[at]]
                          \cup {None, alignedFile[at]} :
                alignedFile' = [alignedFile EXCEPT ![at] = left]
           /\ disk' = [plan EXCEPT !.aligned[at] = None]
           /\ UNCHANGED wideFile
  <2>1. Sound(plan) /\ plan.stage = "aligned"
    BY <1>5 DEF PInv, CallInv, SoundInv
  <2>2. Sound(disk') /\ disk'.stage = "aligned" /\ disk' \in Plans
    <3> DEFINE q == [plan EXCEPT !.aligned[at] = None]
    <3>1. Sound(q) /\ q.stage = "aligned"
      BY <1>5, <2>1, AlignedRecordedIsSound
    <3> HIDE DEF q
    <3>2. QED
      BY <1>5, <3>1, PlanIsThere DEF q
  <2>3. plan.reg[at] \in Geometries
    BY <1>5, <2>1, RegisteredFrames
  <2>4. alignedFile' \in [Frames -> Aligned \cup {None, Altered}]
    <3>1. PICK left \in [geometry : {plan.reg[at]}, look : Shows[at]]
                        \cup {None, alignedFile[at]} :
              alignedFile' = [alignedFile EXCEPT ![at] = left]
      BY <1>5
    <3>2. alignedFile \in [Frames -> Aligned \cup {None, Altered}]
      BY DEF PInv, TypeOK
    <3>3. left \in Aligned \cup {None, Altered}
      BY <1>5, <2>3, <3>1, <3>2, LooksShown DEF Aligned
    <3>4. QED
      BY <3>1, <3>2, <3>3
  <2>5. TypeOK'
    BY <1>1, <1>2, <1>5, <2>2, <2>4, ReturnTyped DEF PInv, TypeOK
  <2>6. SoundInv' /\ CompleteIsTrue'
    BY <2>2, NotComplete DEF SoundInv
  <2>7. QED
    BY <1>1, <1>3, <2>5, <2>6, ReturnTyped DEF PInv
<1>6. QED
  BY <1>4, <1>5 DEF CutPreview

LEMMA TamperStep ==
    ASSUME PInv, Tamper
    PROVE  PInv'
<1>1. /\ pc = "idle" /\ tampers < MaxTampers /\ tampers' = tampers + 1
      /\ UNCHANGED <<disk, plan, pc, at, job, qc, interrupts>>
  BY DEF Tamper
<1>2. tampers' \in 0..MaxTampers
  BY <1>1 DEF PInv, TypeOK
<1>3. /\ wideFile' \in [Frames -> Looks \cup {None, Altered}]
      /\ alignedFile' \in [Frames -> Aligned \cup {None, Altered}]
      /\ fineFile' \in [FineKeys -> Pairs]
      /\ \A k \in FineKeys : /\ fineFile'[k].rgb \in {fineFile[k].rgb, Altered}
                             /\ fineFile'[k].ir = fineFile[k].ir
  <2>1. /\ wideFile \in [Frames -> Looks \cup {None, Altered}]
        /\ alignedFile \in [Frames -> Aligned \cup {None, Altered}]
        /\ fineFile \in [FineKeys -> Pairs]
    BY DEF PInv, TypeOK
  <2>2. CASE \E f \in Frames : /\ wideFile' = [wideFile EXCEPT ![f] = Altered]
                               /\ UNCHANGED <<alignedFile, fineFile>>
    BY <2>1, <2>2
  <2>3. CASE \E f \in Frames : /\ alignedFile' = [alignedFile EXCEPT ![f] = Altered]
                               /\ UNCHANGED <<wideFile, fineFile>>
    BY <2>1, <2>3
  <2>4. CASE \E k \in FineKeys : /\ fineFile' = [fineFile EXCEPT ![k].rgb = Altered]
                                 /\ UNCHANGED <<wideFile, alignedFile>>
    <3>1. PICK k \in FineKeys : fineFile' = [fineFile EXCEPT ![k].rgb = Altered]
      BY <2>4
    <3>2. \A j \in FineKeys : fineFile'[j] = IF j = k THEN [fineFile[j] EXCEPT !.rgb = Altered]
                                             ELSE fineFile[j]
      BY <2>1, <3>1
    <3>3. ASSUME NEW j \in FineKeys
          PROVE  /\ fineFile'[j] \in Pairs
                 /\ fineFile'[j].rgb \in {fineFile[j].rgb, Altered}
                 /\ fineFile'[j].ir = fineFile[j].ir
      <4>1. fineFile[j] \in Pairs
        BY <2>1
      <4>2. QED
        BY <3>2, <4>1 DEF Pairs
    <3>4. fineFile' \in [FineKeys -> Pairs]
      BY <2>1, <3>1, <3>3
    <3>5. QED
      BY <2>1, <2>4, <3>3, <3>4
  <2>5. QED
    BY <2>2, <2>3, <2>4 DEF Tamper
<1>4. TypeOK'
  BY <1>1, <1>2, <1>3 DEF PInv, TypeOK
<1>5. SoundInv' /\ PairInv'
  BY <1>1, <1>3 DEF PInv, SoundInv, PairInv
<1>6. CallInv'
  BY <1>1 DEF CallInv
<1>7. CompleteIsTrue'
  BY <1>1, <1>3, StillComplete DEF PInv
<1>8. QED
  BY <1>4, <1>5, <1>6, <1>7 DEF PInv

LEMMA StutterStep ==
    ASSUME PInv, UNCHANGED vars
    PROVE  PInv'
<1>1. UNCHANGED <<disk, plan, pc, at, job, wideFile, alignedFile, fineFile, qc,
                  interrupts, tampers>>
  BY DEF vars, files
<1>2. TypeOK'
  BY <1>1 DEF PInv, TypeOK
<1>3. SoundInv' /\ PairInv'
  BY <1>1 DEF PInv, SoundInv, PairInv
<1>4. CallInv'
  BY <1>1, SameValidity DEF PInv, CallInv, TypeOK
<1>5. CompleteIsTrue'
  BY <1>1, SameFiles DEF PInv
<1>6. QED
  BY <1>2, <1>3, <1>4, <1>5 DEF PInv

LEMMA InitialPlan == Init => PInv
<1> SUFFICES ASSUME Init PROVE PInv
  OBVIOUS
<1>1. TypeOK
  BY NoPairIsPair DEF Init, TypeOK, NoJob
<1>2. SoundInv /\ CallInv /\ CompleteIsTrue
  BY DEF Init, SoundInv, CallInv, CompleteIsTrue
<1>3. PairInv
  BY NoPairIsPair DEF Init, PairInv
<1>4. QED
  BY <1>1, <1>2, <1>3 DEF PInv

LEMMA PlanInductive == Spec => []PInv
<1>1. PInv /\ [Next]_vars => PInv'
  BY PrepareStep, KeepStep, ScanWideStep, RegisterStep, ScanAlignedStep, ReviewStep,
     IdleStep, StartFineStep, ScanFineStep, RefusedStep, CutFineStep, EndFineStep,
     InterruptStep, CutPreviewStep, TamperStep, StutterStep
     DEF Next, Working, Approval
<1>2. QED
  BY InitialPlan, <1>1, PTL DEF Spec

-----------------------------------------------------------------------------
(* The theorems.                                                           *)

\* The plan, its copy and the files always have their shape, whatever is cut
\* short or changed behind the program.
\* (roll/service.py: RollScanPlan and the files beside it)
THEOREM PlanTypeCorrect == Spec => []TypeOK
<1>1. PInv => TypeOK
  BY DEF PInv
<1>2. QED
  BY PlanInductive, <1>1, PTL

\* Every plan that was ever written is accepted by the strict reader, so that no
\* sequence of calls, stops and crashes leaves a roll that cannot be resumed.
\* (the writes of prepare_roll, approve_roll and scan_fine against _read_plan)
THEOREM PlansStayReadable == Spec => []PlanReadable
<1>1. PInv => PlanReadable
  BY DEF PInv, SoundInv, Sound, PlanReadable
<1>2. QED
  BY PlanInductive, <1>1, PTL

\* What a plan says is what its records and files show: the geometry is the fit
\* of the recorded previews, and "complete" means one take per frame of one
\* recipe, for every registration policy.
\* (prepare_roll's reuse of previews; scan_fine's first and last writes)
THEOREM PlansAreTrue == Spec => []PlanIsTrue
<1>1. PInv => PlanIsTrue
  BY DEF PInv, SoundInv, Sound, RegistrationCoheres, RegisteredByItsWides, PlanIsTrue
<1>2. QED
  BY PlanInductive, <1>1, PTL
-----------------------------------------------------------------------------
(* The refinement: approved evidence does not change.                      *)

Binding == IF disk # NoPlan /\ disk.approved THEN Bound(disk) ELSE None

LEMMA BoundIsEvidence ==
    ASSUME NEW p, Sound(p), p.approved
    PROVE  Bound(p) \in Bindings
<1>1. p \in Plans /\ p.stage \in ApprovedStages
  BY DEF Sound, Readable, ApprovalCoheres
<1>2. \A f \in Frames : /\ p.wide[f] \in Looks /\ p.reg[f] \in Geometries
                        /\ p.aligned[f] \in Aligned
  BY <1>1 DEF Sound, Readable, StageCoheres, Plans, ApprovedStages
<1>3. /\ p.wide \in [Frames -> Looks] /\ p.reg \in [Frames -> Geometries]
      /\ p.aligned \in [Frames -> Aligned] /\ p.overrides \in SUBSET Frames
  BY <1>1, <1>2 DEF Plans
<1>4. QED
  BY <1>3 DEF Bound, Bindings

\* A step that writes the plan again, with the evidence it had.
LEMMA SameBinding ==
    ASSUME SoundInv, disk # NoPlan, disk' # NoPlan,
           disk'.approved = disk.approved, disk'.overrides = disk.overrides,
           disk'.wide = disk.wide, disk'.reg = disk.reg, disk'.aligned = disk.aligned
    PROVE  Binding' = Binding
  BY DEF Binding, Bound

LEMMA Unbound ==
    ASSUME disk # NoPlan => ~disk.approved, disk' # NoPlan => ~disk'.approved
    PROVE  Binding' = Binding
  BY DEF Binding

ContractStep ==
    \/ Binding = None /\ Binding' \in Bindings
    \/ Binding # None /\ Binding' = None
    \/ Binding' = Binding

LEMMA StepKeepsContract ==
    ASSUME PInv, PInv', [Next]_vars
    PROVE  ContractStep
<1>1. CASE disk' = disk
  BY <1>1 DEF ContractStep, Binding
<1>2. CASE PrepareNew
  BY <1>2, FreshIsSound, Unbound DEF PrepareNew, Save, ContractStep
<1>3. CASE PrepareAgain
  <2>1. Sound(disk) /\ disk # NoPlan
    BY <1>3 DEF PrepareAgain, Readable, PInv, SoundInv
  <2>2. CASE disk.stage \in ApprovedStages
    <3>1. ~disk'.approved
      BY <1>3, <2>1, <2>2, WithdrawnIsSound DEF PrepareAgain, Save
    <3>2. Binding' = None
      BY <3>1 DEF Binding
    <3>3. QED
      BY <3>2 DEF ContractStep
  <2>3. CASE disk.stage \notin ApprovedStages
    BY <1>1, <1>3, <2>3 DEF PrepareAgain, Save
  <2>4. QED
    BY <2>2, <2>3
<1>4. CASE PrepareApproved
  <2>1. Sound(disk) /\ disk # NoPlan /\ disk' = [disk EXCEPT !.stage = "approved"]
    BY <1>4 DEF PrepareApproved, Readable, PInv, SoundInv
  <2>2. /\ disk' # NoPlan
        /\ disk'.approved = disk.approved /\ disk'.overrides = disk.overrides
        /\ disk'.wide = disk.wide /\ disk'.reg = disk.reg /\ disk'.aligned = disk.aligned
    <3>1. disk' \in Plans
      BY <2>1 DEF Sound, Plans, Stages
    <3>2. QED
      BY <2>1, <3>1 DEF Sound, Plans
  <2>3. QED
    BY <2>1, <2>2, SameBinding DEF PInv, ContractStep
<1>5. CASE Approval
  <2>1. PICK overrides \in Overrides :
            /\ Readable(disk) /\ disk.stage = "review"
            /\ disk' = [disk EXCEPT !.stage = "approved", !.approved = TRUE,
                                    !.overrides = overrides]
    BY <1>5 DEF Approval, Approve
  <2>2. Sound(disk)
    BY <2>1 DEF Readable, PInv, SoundInv
  <2>3. ~disk.approved
    BY <2>1, <2>2 DEF Sound, Readable, ApprovalCoheres, ApprovedStages
  <2>4. /\ disk'.approved /\ disk'.stage = "approved"
    BY <2>1, <2>2 DEF Sound, Plans
  <2>5. disk' # NoPlan
    <3>1. disk' \in Plans
      BY <2>1, <2>2 DEF Sound, Plans, Stages
    <3>2. QED
      BY <3>1
  <2>6. Sound(disk')
    BY <2>5 DEF PInv, SoundInv
  <2>7. Binding' \in Bindings
    <3>1. Binding' = Bound(disk')
      BY <2>4, <2>5 DEF Binding, Bound
    <3>2. QED
      BY <2>4, <2>6, <3>1, BoundIsEvidence
  <2>8. QED
    BY <2>3, <2>7 DEF ContractStep, Binding
<1>6. CASE Fine
  <2>1. PICK recipe, select, accept : StartFine(recipe, select, accept)
    BY <1>6 DEF Fine
  <2>2. Sound(disk) /\ disk # NoPlan /\ disk' = Reopened(disk, recipe, select)
    BY <2>1 DEF StartFine, Save, Readable, PInv, SoundInv
  <2>3. disk' = disk \/ disk' = [disk EXCEPT !.stage = "approved"]
    BY <2>2 DEF Reopened
  <2>4. CASE disk' = [disk EXCEPT !.stage = "approved"]
    <3>1. /\ disk'.approved = disk.approved /\ disk'.overrides = disk.overrides
          /\ disk'.wide = disk.wide /\ disk'.reg = disk.reg
          /\ disk'.aligned = disk.aligned
      BY <2>2, <2>4 DEF Sound, Plans
    <3>2. disk' # NoPlan
      <4>1. disk' \in Plans
        BY <2>2, <2>4 DEF Sound, Plans, Stages
      <4>2. QED
        BY <4>1
    <3>3. QED
      BY <2>2, <3>1, <3>2, SameBinding DEF PInv, ContractStep
  <2>5. QED
    BY <1>1, <2>3, <2>4
<1>7. CASE pc \in {"wide", "align"} /\ (pc = "wide" \/ plan.stage = "aligned")
  <2>1. plan = disk /\ disk # NoPlan /\ Sound(disk) /\ ~disk.approved
    BY <1>7 DEF PInv, CallInv, SoundInv, Sound, Readable, ApprovalCoheres, ApprovedStages
  <2>2. CASE disk'.approved = FALSE
    BY <2>1, <2>2, Unbound DEF ContractStep
  <2>3. CASE ScanWide \/ Register \/ ScanAligned \/ AskForReview \/ CutPreview
    <3>1. disk' = disk \/ disk'.approved = FALSE
      BY <2>1, <2>3
         DEF ScanWide, Register, ScanAligned, AskForReview, CutPreview, Save,
             WideRecorded, Registered, Sound, Plans
    <3>2. QED
      BY <1>1, <2>2, <3>1
  <2>4. QED
    BY <1>1, <1>2, <1>3, <1>4, <1>5, <1>6, <1>7, <2>3
       DEF Next, Working, vars, KeepWide, KeepAligned, SkipFine, ScanFine, EndFine,
           NeedsFine, ScanFineRefused, Interrupt, CutFine, Tamper
<1>8. CASE pc = "fine"
  <2>1. plan = disk /\ disk # NoPlan /\ Sound(disk)
    BY <1>8 DEF PInv, CallInv, SoundInv
  <2>2. CASE ScanFine \/ EndFine
    <3>1. /\ disk'.approved = disk.approved /\ disk'.overrides = disk.overrides
          /\ disk'.wide = disk.wide /\ disk'.reg = disk.reg
          /\ disk'.aligned = disk.aligned
      BY <2>1, <2>2 DEF ScanFine, EndFine, Settled, Save, Sound, Plans
    <3>2. disk' # NoPlan
      <4>1. disk' \in Plans
        <5>1. CASE ScanFine
          BY <2>1, <5>1 DEF ScanFine, Save, PInv, TypeOK, NeedsFine, CallInv, Sound, Plans
        <5>2. CASE EndFine
          BY <2>1, <5>2 DEF EndFine, Settled, Sound, Plans, Stages
        <5>3. QED
          BY <2>2, <5>1, <5>2
      <4>2. QED
        BY <4>1
    <3>3. QED
      BY <2>1, <3>1, <3>2, SameBinding DEF PInv, ContractStep
  <2>3. QED
    BY <1>1, <1>2, <1>3, <1>4, <1>5, <1>6, <1>8, <2>2
       DEF Next, Working, vars, KeepWide, KeepAligned, SkipFine, ScanWide, Register,
           ScanAligned, AskForReview, ScanFineRefused, Interrupt, CutPreview, CutFine,
           Tamper
<1>9. CASE pc = "idle"
  BY <1>1, <1>2, <1>3, <1>4, <1>5, <1>6, <1>9
     DEF Next, Working, vars, KeepWide, KeepAligned, SkipFine, ScanWide, Register,
         ScanAligned, AskForReview, ScanFine, EndFine, NeedsFine, ScanFineRefused,
         Interrupt, CutPreview, CutFine, Tamper
<1>10. pc \in {"idle", "wide", "align", "fine"} /\ (pc = "align" => plan.stage = "aligned")
  BY DEF PInv, TypeOK, CallInv
<1>11. QED
  BY <1>7, <1>8, <1>9, <1>10

\* Whoever captures under an approval finds the evidence that was approved for as
\* long as the approval stands: the service implements that contract.
\* (prepare_roll's withdrawal; approve_roll; approved_plan_binding_sha256)
THEOREM ApprovalsKeepEvidence == Spec => KeepsPlanContract
<1>1. Init => Contract!Init
  BY DEF Init, Contract!Init
<1>2. PInv /\ PInv' /\ [Next]_vars => [Contract!Next]_Binding
  <2> SUFFICES ASSUME PInv, PInv', [Next]_vars
               PROVE  [Contract!Next]_Binding
    OBVIOUS
  <2>1. ContractStep
    BY StepKeepsContract
  <2>2. QED
    BY <2>1
       DEF ContractStep, Binding, Contract!Next, Contract!Approve, Contract!Withdraw
<1>3. QED
  BY <1>1, <1>2, PlanInductive, PTL
     DEF Spec, KeepsPlanContract, Contract!Spec, Binding
=============================================================================
