--------------------------- MODULE PromotionProofs ----------------------------
(***************************************************************************)
(* Theorems about Promotion, and through it about Finalization and         *)
(* TiffTriplet, for every bound of faults, crashes, tamperings, basenames  *)
(* and promotions.                                                         *)
(*                                                                         *)
(* None of the properties is inductive.  IInv says where every file is at  *)
(* every statement: of the writer's three loops (WriterInv), of the call   *)
(* around them (CallInv), and of the promotion (FolderInv).                *)
(***************************************************************************)
EXTENDS Promotion, TLAPS

Verdicts == {"none", "running", "raised", "rolledBack", "incomplete", "crashed", "done"}
Contents == Written \cup {Gone, Altered, Partial, Foreign, Whole}
-----------------------------------------------------------------------------
(* The writer.                                                             *)

WriterPcs == {"moveOld", "place", "rollback", "dropBackups"}

\* A call that has not returned has said nothing, but for a rollback.
RunningInv ==
    /\ pc \notin {"idle", "rollback"} => verdict = "running"
    /\ pc = "rollback" => verdict \in {"running", "incomplete"}
    /\ step # "none" => pc = "idle" /\ verdict = "done"

\* An old file is where the writer's bookkeeping has it: in its sibling once it
\* is moved, under its name before.
MovedInv ==
    pc \in {"moveOld", "place", "rollback"} =>
        \A r \in Roles :
            /\ r \in moved => /\ before[r] # Gone
                              /\ pc # "rollback" \/ r <= at => bak[r] = before[r]
            /\ r \notin moved => before[r] = Gone \/ out[r] = before[r]
            /\ r \notin moved \cup placed => out[r] \in {Gone, before[r]}
            /\ r \in placed \ moved => before[r] = Gone

MoveOldInv ==
    pc = "moveOld" =>
        /\ at \in Roles /\ placed = {}
        /\ \A r \in Roles : /\ r < at => (r \in moved <=> before[r] # Gone)
                            /\ r >= at => r \notin moved /\ out[r] = before[r]
                            /\ r \notin moved => out[r] = before[r]

PlaceInv ==
    pc = "place" =>
        /\ at \in Roles /\ placed = 1..(at - 1)
        /\ \A r \in Roles : /\ r \in moved <=> before[r] # Gone
                            /\ r < at => out[r] = gen

\* The rollback undoes the last role first; what it could not undo, it says.
RollbackInv ==
    pc = "rollback" =>
        /\ at \in 0..3
        /\ \A r \in Roles :
               /\ r > at /\ r \in moved => before[r] \in {out[r], bak[r]}
               /\ r > at /\ verdict # "incomplete" => out[r] = before[r]
               /\ r \notin moved \cup placed => out[r] = before[r]

CommittedInv == pc \in {"dropBackups", "verify"} => OutputsAre(gen)

WriterInv ==
    MovedInv /\ MoveOldInv /\ PlaceInv /\ RollbackInv /\ CommittedInv /\ TripletRecoverable

-----------------------------------------------------------------------------
(* The call.                                                               *)

SourcePcs == {"hash", "decode", "recheck"}
ArchivePcs == {"temps", "moveOld", "place", "rollback", "dropBackups", "verify",
               "checkpoint", "manifest"}

\* Until the manifest is written there is none, and what is held was validated.
ValidInv ==
    /\ attempt \in Attempts
    /\ pc \in SourcePcs \cup ArchivePcs => manifest = NoManifest /\ attempt.workerOk
          /\ ~resuming
    /\ pc \in ArchivePcs \cup {"decode", "recheck"} =>
           ValidatedCapture(attempt, saw.stream)
    /\ pc = "recheck" /\ stream = "capture" => image = "capture" /\ ~smeared
    /\ pc \in ArchivePcs => image = "capture" /\ ~smeared

\* The manifest of this call is about the triplet it has just verified ...
OutputsInv ==
    /\ pc \in {"checkpoint", "manifest", "reverify"} => OutputsAre(gen)
    /\ pc \in {"reverify", "lastHash", "dropStream"} => ~resuming
    /\ pc \in {"reverify", "lastHash", "dropReceipt", "dropData", "dropStream",
               "resumeStream"} => Sealed
    /\ pc \in {"reverify", "lastHash", "dropStream"} =>
           manifest.requested = want /\ manifest.used = used
    /\ pc \in {"lastHash", "dropStream"} => want
    /\ verdict = "done" /\ manifest.kind = "this" =>
           \A r \in Roles : out[r] \in {manifest.outputs, Altered}

\* ... and the sidecar goes before the stream.
CleanupInv ==
    /\ pc = "resume" => resuming
    /\ pc \in {"dropReceipt", "dropData"} => manifest.requested /\ manifest.used
    /\ pc \in {"dropReceipt", "dropData"} /\ ~resuming => want /\ used
    /\ pc = "dropData" => receipt = "absent"
    /\ pc \in {"dropStream", "resumeStream"} /\ manifest.requested /\ manifest.used =>
           receipt = "absent" /\ data = "absent"

CallInv == ValidInv /\ OutputsInv /\ CleanupInv /\ SealedIsTheCapture

-----------------------------------------------------------------------------
(* The folder.                                                             *)

\* The files of the running promotion are there, and are copies of the archive.
CreatedInv ==
    /\ step # "none" => manifest.kind = "this"
    /\ step \in {"open", "fill", "discard"} => at \in Names /\ created = 1..(at - 1)
    /\ step = "sync" => at = Receipt /\ created = Names
    /\ step = "unpublish" => at \in 0..4
    /\ step = "pick" => created = {} /\ at = 1
    /\ step \in {"open", "fill", "discard", "sync", "unpublish"} =>
           \A i \in created : step # "unpublish" \/ i <= at =>
               folder[sequence][i] = IF i = Receipt THEN Whole ELSE out[i]
    /\ step = "fill" => folder[sequence][at] = Partial
    /\ step = "discard" => folder[sequence][at] \in {Partial, Content}

\* Its receipt is the last file to come and the first to go.
ReceiptInv ==
    /\ step \in {"open", "fill"} => folder[sequence][Receipt] # Whole
    /\ step = "discard" /\ folder[sequence][Receipt] = Whole => at = Receipt
    /\ step = "unpublish" /\ folder[sequence][Receipt] = Whole =>
           \/ sequence \in stuck
           \/ at = Receipt /\ created = Names

FolderInv == CreatedInv /\ ReceiptInv /\ ReceiptMeansWhole

IInv == TypeOK /\ RunningInv /\ WriterInv /\ CallInv /\ FolderInv

\* The attempts considered are evidence, and the fields the validators negate are
\* Boolean.
LEMMA AttemptFields ==
    ASSUME NEW ev \in Attempts
    PROVE  /\ ev \in Evidence
           /\ ev.batch \in BOOLEAN /\ ev.released \in BOOLEAN /\ ev.retained \in BOOLEAN
           /\ ev.roll = "absent" => ev.slotMatch
<1>1. CASE ev = Good
  BY <1>1 DEF Good, Single, Frame, Evidence
<1>2. CASE ev = Single
  BY <1>2 DEF Good, Single, Frame, Evidence
<1>3. CASE ev = [Frame(TRUE, FALSE, "none") EXCEPT !.accepted = TRUE]
  BY <1>3 DEF Good, Single, Frame, Evidence
<1>4. CASE ev = Frame(TRUE, FALSE, "none")
  BY <1>4 DEF Good, Single, Frame, Evidence
<1>5. CASE ev = Frame(TRUE, FALSE, "other")
  BY <1>5 DEF Good, Single, Frame, Evidence
<1>6. CASE ev = Frame(FALSE, FALSE, "none")
  BY <1>6 DEF Good, Single, Frame, Evidence
<1>7. CASE ev = [Single EXCEPT !.retained = TRUE]
  BY <1>7 DEF Good, Single, Frame, Evidence
<1>8. CASE ev = [Single EXCEPT !.released = FALSE]
  BY <1>8 DEF Good, Single, Frame, Evidence
<1>9. CASE ev = [Good EXCEPT !.workerOk = FALSE]
  BY <1>9 DEF Good, Single, Frame, Evidence
<1>10. CASE ev = [Good EXCEPT !.counts = "short"]
  BY <1>10 DEF Good, Single, Frame, Evidence
<1>11. CASE ev = [Good EXCEPT !.released = TRUE]
  BY <1>11 DEF Good, Single, Frame, Evidence
<1>12. CASE ev = [Good EXCEPT !.session = "other"]
  BY <1>12 DEF Good, Single, Frame, Evidence
<1>13. CASE ev = [Good EXCEPT !.recovery = "required"]
  BY <1>13 DEF Good, Single, Frame, Evidence
<1>14. CASE ev = [Good EXCEPT !.output = "other"]
  BY <1>14 DEF Good, Single, Frame, Evidence
<1>15. CASE ev = [Good EXCEPT !.place = "other"]
  BY <1>15 DEF Good, Single, Frame, Evidence
<1>16. CASE ev = [Good EXCEPT !.roll = "absent"]
  BY <1>16 DEF Good, Single, Frame, Evidence
<1>17. CASE ev = [Good EXCEPT !.roll = "differs"]
  BY <1>17 DEF Good, Single, Frame, Evidence
<1>18. CASE ev = [Good EXCEPT !.slotMatch = FALSE]
  BY <1>18 DEF Good, Single, Frame, Evidence
<1>19. CASE ev = [Frame(TRUE, TRUE, "other") EXCEPT !.review = FALSE]
  BY <1>19 DEF Good, Single, Frame, Evidence
<1>20. CASE ev = [Good EXCEPT !.windows = "moved"]
  BY <1>20 DEF Good, Single, Frame, Evidence
<1>21. CASE ev = [Good EXCEPT !.exposure = "unbound"]
  BY <1>21 DEF Good, Single, Frame, Evidence
<1>22. QED
  BY <1>1, <1>2, <1>3, <1>4, <1>5, <1>6, <1>7, <1>8, <1>9, <1>10, <1>11, <1>12, <1>13, <1>14,
     <1>15, <1>16, <1>17, <1>18, <1>19, <1>20, <1>21 DEF Attempts

\* Only the captured bytes hash to what the journal says.
LEMMA ValidHash ==
    ASSUME NEW ev, NEW hashed, ValidatedCapture(ev, hashed)
    PROVE  hashed = "capture"
  BY DEF ValidatedCapture

\* What the validators accept is a whole capture, for every attempt considered.
LEMMA ValidIsWhole ==
    ASSUME NEW ev \in Attempts, ValidatedCapture(ev, "capture"), ev.workerOk
    PROVE  WholeCapture(ev)
<1>1. QED
  BY AttemptFields DEF ValidatedCapture, ValidatedRollEvidence, ValidatedWindows, WholeCapture

\* The writer finds a generation no target holds: three targets, four generations.
LEMMA FreeGeneration ==
    ASSUME NEW f \in [Roles -> Written \cup {Gone, Altered}]
    PROVE  LET g == CHOOSE g \in Written : \A r \in Roles : f[r] # g
           IN  g \in Written /\ \A r \in Roles : f[r] # g
<1>1. \E g \in Written : \A r \in Roles : f[r] # g
  BY DEF Roles, Written, Generations
<1>2. QED
  BY <1>1

\* The successor of a role in the writer's loops.
LEMMA NextRole ==
    ASSUME NEW r \in 1..3
    PROVE  (r % 3) + 1 = IF r = 3 THEN 1 ELSE r + 1
<1>1. r = 1 \/ r = 2 \/ r = 3
  OBVIOUS
<1>2. QED
  BY <1>1

\* Writing one file of one basename leaves the others, and the folder's type, alone.
LEMMA OneFile ==
    ASSUME NEW S, NEW N, NEW V, NEW f \in [S -> [N -> V]], NEW k \in S, NEW i \in N, NEW v \in V
    PROVE  LET g == [f EXCEPT ![k][i] = v]
           IN  /\ g \in [S -> [N -> V]]
               /\ \A m \in S, j \in N : g[m][j] = IF m = k /\ j = i THEN v ELSE f[m][j]
  OBVIOUS

\* Every step of the finalization, of the writer in it, and of the environment
\* between two promotions preserves the invariant.
LEMMA CallStep ==
    ASSUME IInv, step = "none", FinalizationNext, UNCHANGED promotionVars
    PROVE  IInv'
<1> USE BudgetAssumption, PromotionAssumption
    DEF IInv, TypeOK, FinalizationType, TripletType, PromotionType, Contents, Verdicts, Roles,
        Written, Generations, Gone, Altered, Empty, Names, Receipt, files, locals, given,
        triplet, budgets, promotionVars, finalizationVars
<1>1. CASE Finalize
  <2>1. FinalizationType'
    <3>1. TripletType'
      BY <1>1 DEF Finalize, Raise
    <3>2. pc' \in Steps
      BY <1>1 DEF Finalize, Raise, Steps
    <3>3. verdict' \in Verdicts
      BY <1>1 DEF Finalize, Raise
    <3>4. saw' \in [stream : {"capture", "changed"}, journal : {"capture", "changed"}]
      BY <1>1 DEF Finalize, Raise
    <3>5. /\ image' \in {"capture", "changed"} /\ used' \in BOOLEAN
          /\ want' \in BOOLEAN /\ resuming' \in BOOLEAN
      BY <1>1 DEF Finalize, Raise
    <3>6. UNCHANGED <<given, files>>
      BY <1>1 DEF Finalize
    <3>7. QED
      BY <3>1, <3>2, <3>3, <3>4, <3>5, <3>6
  <2>2. PromotionType'
    BY <1>1 DEF Finalize, Raise
  <2>3. RunningInv'
    BY <1>1 DEF Finalize, Raise, RunningInv
  <2>4. WriterInv'
    BY <1>1 DEF Finalize, Raise, RunningInv, WriterInv, MovedInv, MoveOldInv, PlaceInv,
                RollbackInv, CommittedInv, TripletRecoverable, OutputsAre
  <2>5. ValidInv' /\ SealedIsTheCapture'
    BY <1>1 DEF Finalize, Raise, RunningInv, CallInv, ValidInv, SealedIsTheCapture, SourcePcs,
                ArchivePcs
  <2>6. OutputsInv' /\ CleanupInv'
    BY <1>1 DEF Finalize, Raise, RunningInv, CallInv, ValidInv, OutputsInv, CleanupInv, Sealed,
                OutputsAre, WriterInv, CommittedInv, SourcePcs, ArchivePcs
  <2>7. FolderInv'
    BY <1>1 DEF Finalize, Raise, RunningInv, FolderInv, CreatedInv, ReceiptInv,
                ReceiptMeansWhole, Names, Receipt, Whole, Foreign, Partial, Altered, Gone,
                OutputsInv, CallInv, Sealed, OutputsAre, Written, Generations, Empty
  <2>8. QED
    BY <2>1, <2>2, <2>3, <2>4, <2>5, <2>6, <2>7 DEF IInv, TypeOK, CallInv
<1>2. CASE HashAndValidate
  <2>1. FinalizationType'
    BY <1>2 DEF HashAndValidate, Raise, Steps, Manifests
  <2>2. PromotionType'
    BY <1>2 DEF HashAndValidate, Raise
  <2>3. RunningInv'
    BY <1>2 DEF HashAndValidate, Raise, RunningInv
  <2>4. WriterInv'
    BY <1>2 DEF HashAndValidate, Raise, RunningInv, WriterInv, MovedInv, MoveOldInv, PlaceInv,
                RollbackInv, CommittedInv, TripletRecoverable, OutputsAre
  <2>5. ValidInv' /\ SealedIsTheCapture'
    BY <1>2 DEF HashAndValidate, Raise, RunningInv, CallInv, ValidInv, SealedIsTheCapture,
                SourcePcs, ArchivePcs
  <2>6. OutputsInv' /\ CleanupInv'
    BY <1>2 DEF HashAndValidate, Raise, RunningInv, CallInv, ValidInv, OutputsInv, CleanupInv,
                Sealed, OutputsAre, WriterInv, CommittedInv, SourcePcs, ArchivePcs
  <2>7. FolderInv'
    BY <1>2 DEF HashAndValidate, Raise, RunningInv, FolderInv, CreatedInv, ReceiptInv,
                ReceiptMeansWhole, Names, Receipt, Whole, Foreign, Partial, Altered, Gone,
                OutputsInv, CallInv, Sealed, OutputsAre, Written, Generations, Empty
  <2>8. QED
    BY <2>1, <2>2, <2>3, <2>4, <2>5, <2>6, <2>7 DEF IInv, TypeOK, CallInv
<1>3. CASE Decode
  <2>1. FinalizationType'
    <3>1. TripletType'
      BY <1>3 DEF Decode, Raise, Consumable, ReceiptLoads, ArrayLoads
    <3>2. pc' \in Steps
      BY <1>3 DEF Decode, Raise, Consumable, ReceiptLoads, ArrayLoads, Steps
    <3>3. verdict' \in Verdicts
      BY <1>3 DEF Decode, Raise, Consumable, ReceiptLoads, ArrayLoads
    <3>4. saw' \in [stream : {"capture", "changed"}, journal : {"capture", "changed"}]
      BY <1>3 DEF Decode, Raise, Consumable, ReceiptLoads, ArrayLoads
    <3>5. /\ image' \in {"capture", "changed"} /\ used' \in BOOLEAN
          /\ want' \in BOOLEAN /\ resuming' \in BOOLEAN
      BY <1>3 DEF Decode, Raise, Consumable, ReceiptLoads, ArrayLoads
    <3>6. UNCHANGED <<given, files>>
      BY <1>3 DEF Decode
    <3>7. QED
      BY <3>1, <3>2, <3>3, <3>4, <3>5, <3>6
  <2>2. PromotionType'
    BY <1>3 DEF Decode, Raise, Consumable
  <2>3. RunningInv'
    BY <1>3 DEF Decode, Raise, Consumable, RunningInv
  <2>4. WriterInv'
    BY <1>3 DEF Decode, Raise, Consumable, RunningInv, WriterInv, MovedInv, MoveOldInv,
                PlaceInv, RollbackInv, CommittedInv, TripletRecoverable, OutputsAre
  <2>5. ValidInv' /\ SealedIsTheCapture'
    BY <1>3 DEF Decode, Raise, Consumable, ReceiptLoads, ArrayLoads, NoManifest, RunningInv,
                CallInv, ValidInv, SealedIsTheCapture, SourcePcs, ArchivePcs
  <2>6. OutputsInv' /\ CleanupInv'
    BY <1>3 DEF Decode, Raise, Consumable, RunningInv, CallInv, ValidInv, OutputsInv,
                CleanupInv, Sealed, OutputsAre, WriterInv, CommittedInv, SourcePcs, ArchivePcs
  <2>7. FolderInv'
    BY <1>3 DEF Decode, Raise, Consumable, RunningInv, FolderInv, CreatedInv, ReceiptInv,
                ReceiptMeansWhole, Names, Receipt, Whole, Foreign, Partial, Altered, Gone,
                OutputsInv, CallInv, Sealed, OutputsAre, Written, Generations, Empty
  <2>8. QED
    BY <2>1, <2>2, <2>3, <2>4, <2>5, <2>6, <2>7 DEF IInv, TypeOK, CallInv
<1>4. CASE Recheck
  <2>1. FinalizationType'
    BY <1>4 DEF Recheck, Raise, Steps, Manifests
  <2>2. PromotionType'
    BY <1>4 DEF Recheck, Raise
  <2>3. RunningInv'
    BY <1>4 DEF Recheck, Raise, RunningInv
  <2>4. WriterInv'
    BY <1>4 DEF Recheck, Raise, RunningInv, WriterInv, MovedInv, MoveOldInv, PlaceInv,
                RollbackInv, CommittedInv, TripletRecoverable, OutputsAre
  <2>5. ValidInv' /\ SealedIsTheCapture'
    BY <1>4, ValidHash DEF Recheck, Raise, RunningInv, CallInv, ValidInv, SealedIsTheCapture,
                           SourcePcs, ArchivePcs
  <2>6. OutputsInv' /\ CleanupInv'
    BY <1>4 DEF Recheck, Raise, RunningInv, CallInv, ValidInv, OutputsInv, CleanupInv, Sealed,
                OutputsAre, WriterInv, CommittedInv, SourcePcs, ArchivePcs
  <2>7. FolderInv'
    BY <1>4 DEF Recheck, Raise, RunningInv, FolderInv, CreatedInv, ReceiptInv,
                ReceiptMeansWhole, Names, Receipt, Whole, Foreign, Partial, Altered, Gone,
                OutputsInv, CallInv, Sealed, OutputsAre, Written, Generations, Empty
  <2>8. QED
    BY <2>1, <2>2, <2>3, <2>4, <2>5, <2>6, <2>7 DEF IInv, TypeOK, CallInv
<1>5. CASE VerifyOutputs
  <2>1. FinalizationType'
    BY <1>5 DEF VerifyOutputs, Raise, Steps, Manifests
  <2>2. PromotionType'
    BY <1>5 DEF VerifyOutputs, Raise
  <2>3. RunningInv'
    BY <1>5 DEF VerifyOutputs, Raise, RunningInv
  <2>4. WriterInv'
    BY <1>5 DEF VerifyOutputs, Raise, RunningInv, WriterInv, MovedInv, MoveOldInv, PlaceInv,
                RollbackInv, CommittedInv, TripletRecoverable, OutputsAre
  <2>5. ValidInv' /\ SealedIsTheCapture'
    BY <1>5 DEF VerifyOutputs, Raise, RunningInv, CallInv, ValidInv, SealedIsTheCapture,
                SourcePcs, ArchivePcs
  <2>6. OutputsInv' /\ CleanupInv'
    BY <1>5 DEF VerifyOutputs, Raise, RunningInv, CallInv, ValidInv, OutputsInv, CleanupInv,
                Sealed, OutputsAre, WriterInv, CommittedInv, SourcePcs, ArchivePcs
  <2>7. FolderInv'
    BY <1>5 DEF VerifyOutputs, Raise, RunningInv, FolderInv, CreatedInv, ReceiptInv,
                ReceiptMeansWhole, Names, Receipt, Whole, Foreign, Partial, Altered, Gone,
                OutputsInv, CallInv, Sealed, OutputsAre, Written, Generations, Empty
  <2>8. QED
    BY <2>1, <2>2, <2>3, <2>4, <2>5, <2>6, <2>7 DEF IInv, TypeOK, CallInv
<1>6. CASE WriteCheckpoint
  <2>1. FinalizationType'
    BY <1>6 DEF WriteCheckpoint, Raise, Fault, WriteExclusive, Steps, Manifests
  <2>2. PromotionType'
    BY <1>6 DEF WriteCheckpoint, Raise, Fault, WriteExclusive
  <2>3. RunningInv'
    BY <1>6 DEF WriteCheckpoint, Raise, Fault, WriteExclusive, RunningInv
  <2>4. WriterInv'
    BY <1>6 DEF WriteCheckpoint, Raise, Fault, WriteExclusive, RunningInv, WriterInv, MovedInv,
                MoveOldInv, PlaceInv, RollbackInv, CommittedInv, TripletRecoverable, OutputsAre
  <2>5. ValidInv' /\ SealedIsTheCapture'
    BY <1>6 DEF WriteCheckpoint, Raise, Fault, WriteExclusive, RunningInv, CallInv, ValidInv,
                SealedIsTheCapture, SourcePcs, ArchivePcs
  <2>6. OutputsInv' /\ CleanupInv'
    BY <1>6 DEF WriteCheckpoint, Raise, Fault, WriteExclusive, RunningInv, CallInv, ValidInv,
                OutputsInv, CleanupInv, Sealed, OutputsAre, WriterInv, CommittedInv, SourcePcs,
                ArchivePcs
  <2>7. FolderInv'
    BY <1>6 DEF WriteCheckpoint, Raise, Fault, WriteExclusive, RunningInv, FolderInv,
                CreatedInv, ReceiptInv, ReceiptMeansWhole, Names, Receipt, Whole, Foreign,
                Partial, Altered, Gone, OutputsInv, CallInv, Sealed, OutputsAre, Written,
                Generations, Empty
  <2>8. QED
    BY <2>1, <2>2, <2>3, <2>4, <2>5, <2>6, <2>7 DEF IInv, TypeOK, CallInv
<1>7. CASE WriteManifest
  <2>1. FinalizationType'
    BY <1>7 DEF WriteManifest, Raise, Fault, WriteExclusive, Manifest, NoManifest, Steps,
                Manifests
  <2>2. PromotionType'
    BY <1>7 DEF WriteManifest, Raise, Fault, WriteExclusive, Manifest, NoManifest
  <2>3. RunningInv'
    BY <1>7 DEF WriteManifest, Raise, Fault, WriteExclusive, Manifest, NoManifest, RunningInv
  <2>4. WriterInv'
    BY <1>7 DEF WriteManifest, Raise, Fault, WriteExclusive, Manifest, NoManifest, RunningInv,
                WriterInv, MovedInv, MoveOldInv, PlaceInv, RollbackInv, CommittedInv,
                TripletRecoverable, OutputsAre
  <2>5. ValidInv' /\ SealedIsTheCapture'
    BY <1>7, ValidHash, ValidIsWhole DEF WriteManifest, Raise, Fault, WriteExclusive, Manifest,
                                         NoManifest, RunningInv, CallInv, ValidInv,
                                         SealedIsTheCapture, SourcePcs, ArchivePcs
  <2>6. OutputsInv' /\ CleanupInv'
    BY <1>7 DEF WriteManifest, Raise, Fault, WriteExclusive, Manifest, NoManifest, RunningInv,
                CallInv, ValidInv, OutputsInv, CleanupInv, Sealed, OutputsAre, WriterInv,
                CommittedInv, SourcePcs, ArchivePcs
  <2>7. FolderInv'
    BY <1>7 DEF WriteManifest, Raise, Fault, WriteExclusive, Manifest, NoManifest, RunningInv,
                FolderInv, CreatedInv, ReceiptInv, ReceiptMeansWhole, Names, Receipt, Whole,
                Foreign, Partial, Altered, Gone, OutputsInv, CallInv, Sealed, OutputsAre,
                Written, Generations, Empty
  <2>8. QED
    BY <2>1, <2>2, <2>3, <2>4, <2>5, <2>6, <2>7 DEF IInv, TypeOK, CallInv
<1>8. CASE Reverify
  <2>1. FinalizationType'
    BY <1>8 DEF Reverify, Raise, CheckpointVerifies, Steps, Manifests
  <2>2. PromotionType'
    BY <1>8 DEF Reverify, Raise, CheckpointVerifies
  <2>3. RunningInv'
    BY <1>8 DEF Reverify, Raise, CheckpointVerifies, RunningInv
  <2>4. WriterInv'
    BY <1>8 DEF Reverify, Raise, CheckpointVerifies, RunningInv, WriterInv, MovedInv,
                MoveOldInv, PlaceInv, RollbackInv, CommittedInv, TripletRecoverable, OutputsAre
  <2>5. ValidInv' /\ SealedIsTheCapture'
    BY <1>8 DEF Reverify, Raise, CheckpointVerifies, RunningInv, CallInv, ValidInv,
                SealedIsTheCapture, SourcePcs, ArchivePcs
  <2>6. OutputsInv' /\ CleanupInv'
    BY <1>8 DEF Reverify, Raise, CheckpointVerifies, RunningInv, CallInv, ValidInv, OutputsInv,
                CleanupInv, Sealed, OutputsAre, WriterInv, CommittedInv, SourcePcs, ArchivePcs
  <2>7. FolderInv'
    BY <1>8 DEF Reverify, Raise, CheckpointVerifies, RunningInv, FolderInv, CreatedInv,
                ReceiptInv, ReceiptMeansWhole, Names, Receipt, Whole, Foreign, Partial, Altered,
                Gone, OutputsInv, CallInv, Sealed, OutputsAre, Written, Generations, Empty
  <2>8. QED
    BY <2>1, <2>2, <2>3, <2>4, <2>5, <2>6, <2>7 DEF IInv, TypeOK, CallInv
<1>9. CASE LastHash
  <2>1. FinalizationType'
    BY <1>9 DEF LastHash, Raise, Steps, Manifests
  <2>2. PromotionType'
    BY <1>9 DEF LastHash, Raise
  <2>3. RunningInv'
    BY <1>9 DEF LastHash, Raise, RunningInv
  <2>4. WriterInv'
    BY <1>9 DEF LastHash, Raise, RunningInv, WriterInv, MovedInv, MoveOldInv, PlaceInv,
                RollbackInv, CommittedInv, TripletRecoverable, OutputsAre
  <2>5. ValidInv' /\ SealedIsTheCapture'
    BY <1>9 DEF LastHash, Raise, RunningInv, CallInv, ValidInv, SealedIsTheCapture, SourcePcs,
                ArchivePcs
  <2>6. OutputsInv' /\ CleanupInv'
    BY <1>9 DEF LastHash, Raise, RunningInv, CallInv, ValidInv, OutputsInv, CleanupInv, Sealed,
                OutputsAre, WriterInv, CommittedInv, SourcePcs, ArchivePcs
  <2>7. FolderInv'
    BY <1>9 DEF LastHash, Raise, RunningInv, FolderInv, CreatedInv, ReceiptInv,
                ReceiptMeansWhole, Names, Receipt, Whole, Foreign, Partial, Altered, Gone,
                OutputsInv, CallInv, Sealed, OutputsAre, Written, Generations, Empty
  <2>8. QED
    BY <2>1, <2>2, <2>3, <2>4, <2>5, <2>6, <2>7 DEF IInv, TypeOK, CallInv
<1>10. CASE DropReceipt
  <2>1. FinalizationType'
    BY <1>10 DEF DropReceipt, Raise, Fault, DropSidecarFile, Steps, Manifests
  <2>2. PromotionType'
    BY <1>10 DEF DropReceipt, Raise, Fault, DropSidecarFile
  <2>3. RunningInv'
    BY <1>10 DEF DropReceipt, Raise, Fault, DropSidecarFile, RunningInv
  <2>4. WriterInv'
    BY <1>10 DEF DropReceipt, Raise, Fault, DropSidecarFile, RunningInv, WriterInv, MovedInv,
                 MoveOldInv, PlaceInv, RollbackInv, CommittedInv, TripletRecoverable, OutputsAre
  <2>5. ValidInv' /\ SealedIsTheCapture'
    BY <1>10 DEF DropReceipt, Raise, Fault, DropSidecarFile, RunningInv, CallInv, ValidInv,
                 SealedIsTheCapture, SourcePcs, ArchivePcs
  <2>6. OutputsInv' /\ CleanupInv'
    BY <1>10 DEF DropReceipt, Raise, Fault, DropSidecarFile, RunningInv, CallInv, ValidInv,
                 OutputsInv, CleanupInv, Sealed, OutputsAre, WriterInv, CommittedInv, SourcePcs,
                 ArchivePcs
  <2>7. FolderInv'
    BY <1>10 DEF DropReceipt, Raise, Fault, DropSidecarFile, RunningInv, FolderInv, CreatedInv,
                 ReceiptInv, ReceiptMeansWhole, Names, Receipt, Whole, Foreign, Partial,
                 Altered, Gone, OutputsInv, CallInv, Sealed, OutputsAre, Written, Generations,
                 Empty
  <2>8. QED
    BY <2>1, <2>2, <2>3, <2>4, <2>5, <2>6, <2>7 DEF IInv, TypeOK, CallInv
<1>11. CASE DropData
  <2>1. FinalizationType'
    BY <1>11 DEF DropData, Raise, Fault, DropSidecarFile, Steps, Manifests
  <2>2. PromotionType'
    BY <1>11 DEF DropData, Raise, Fault, DropSidecarFile
  <2>3. RunningInv'
    BY <1>11 DEF DropData, Raise, Fault, DropSidecarFile, RunningInv
  <2>4. WriterInv'
    BY <1>11 DEF DropData, Raise, Fault, DropSidecarFile, RunningInv, WriterInv, MovedInv,
                 MoveOldInv, PlaceInv, RollbackInv, CommittedInv, TripletRecoverable, OutputsAre
  <2>5. ValidInv' /\ SealedIsTheCapture'
    BY <1>11 DEF DropData, Raise, Fault, DropSidecarFile, RunningInv, CallInv, ValidInv,
                 SealedIsTheCapture, SourcePcs, ArchivePcs
  <2>6. OutputsInv' /\ CleanupInv'
    BY <1>11 DEF DropData, Raise, Fault, DropSidecarFile, RunningInv, CallInv, ValidInv,
                 OutputsInv, CleanupInv, Sealed, OutputsAre, WriterInv, CommittedInv, SourcePcs,
                 ArchivePcs
  <2>7. FolderInv'
    BY <1>11 DEF DropData, Raise, Fault, DropSidecarFile, RunningInv, FolderInv, CreatedInv,
                 ReceiptInv, ReceiptMeansWhole, Names, Receipt, Whole, Foreign, Partial,
                 Altered, Gone, OutputsInv, CallInv, Sealed, OutputsAre, Written, Generations,
                 Empty
  <2>8. QED
    BY <2>1, <2>2, <2>3, <2>4, <2>5, <2>6, <2>7 DEF IInv, TypeOK, CallInv
<1>12. CASE DropStream
  <2>1. FinalizationType'
    BY <1>12 DEF DropStream, Raise, Fault, Steps, Manifests
  <2>2. PromotionType'
    BY <1>12 DEF DropStream, Raise, Fault
  <2>3. RunningInv'
    BY <1>12 DEF DropStream, Raise, Fault, RunningInv
  <2>4. WriterInv'
    BY <1>12 DEF DropStream, Raise, Fault, RunningInv, WriterInv, MovedInv, MoveOldInv,
                 PlaceInv, RollbackInv, CommittedInv, TripletRecoverable, OutputsAre
  <2>5. ValidInv' /\ SealedIsTheCapture'
    BY <1>12 DEF DropStream, Raise, Fault, RunningInv, CallInv, ValidInv, SealedIsTheCapture,
                 SourcePcs, ArchivePcs
  <2>6. OutputsInv' /\ CleanupInv'
    BY <1>12 DEF DropStream, Raise, Fault, RunningInv, CallInv, ValidInv, OutputsInv,
                 CleanupInv, Sealed, OutputsAre, WriterInv, CommittedInv, SourcePcs, ArchivePcs
  <2>7. FolderInv'
    BY <1>12 DEF DropStream, Raise, Fault, RunningInv, FolderInv, CreatedInv, ReceiptInv,
                 ReceiptMeansWhole, Names, Receipt, Whole, Foreign, Partial, Altered, Gone,
                 OutputsInv, CallInv, Sealed, OutputsAre, Written, Generations, Empty
  <2>8. QED
    BY <2>1, <2>2, <2>3, <2>4, <2>5, <2>6, <2>7 DEF IInv, TypeOK, CallInv
<1>13. CASE ResumeVerify
  <2>1. FinalizationType'
    BY <1>13 DEF ResumeVerify, Raise, ManifestVerifies, CheckpointVerifies, Steps, Manifests
  <2>2. PromotionType'
    BY <1>13 DEF ResumeVerify, Raise, ManifestVerifies, CheckpointVerifies
  <2>3. RunningInv'
    BY <1>13 DEF ResumeVerify, Raise, ManifestVerifies, CheckpointVerifies, RunningInv
  <2>4. WriterInv'
    BY <1>13 DEF ResumeVerify, Raise, ManifestVerifies, CheckpointVerifies, RunningInv,
                 WriterInv, MovedInv, MoveOldInv, PlaceInv, RollbackInv, CommittedInv,
                 TripletRecoverable, OutputsAre
  <2>5. ValidInv' /\ SealedIsTheCapture'
    BY <1>13 DEF ResumeVerify, Raise, ManifestVerifies, CheckpointVerifies, RunningInv, CallInv,
                 ValidInv, SealedIsTheCapture, SourcePcs, ArchivePcs
  <2>6. OutputsInv' /\ CleanupInv'
    BY <1>13 DEF ResumeVerify, Raise, ManifestVerifies, CheckpointVerifies, RunningInv, CallInv,
                 ValidInv, OutputsInv, CleanupInv, Sealed, OutputsAre, WriterInv, CommittedInv,
                 SourcePcs, ArchivePcs
  <2>7. FolderInv'
    BY <1>13 DEF ResumeVerify, Raise, ManifestVerifies, CheckpointVerifies, RunningInv,
                 FolderInv, CreatedInv, ReceiptInv, ReceiptMeansWhole, Names, Receipt, Whole,
                 Foreign, Partial, Altered, Gone, OutputsInv, CallInv, Sealed, OutputsAre,
                 Written, Generations, Empty
  <2>8. QED
    BY <2>1, <2>2, <2>3, <2>4, <2>5, <2>6, <2>7 DEF IInv, TypeOK, CallInv
<1>14. CASE ResumeStream
  <2>1. FinalizationType'
    BY <1>14 DEF ResumeStream, Raise, Fault, Steps, Manifests
  <2>2. PromotionType'
    BY <1>14 DEF ResumeStream, Raise, Fault
  <2>3. RunningInv'
    BY <1>14 DEF ResumeStream, Raise, Fault, RunningInv
  <2>4. WriterInv'
    BY <1>14 DEF ResumeStream, Raise, Fault, RunningInv, WriterInv, MovedInv, MoveOldInv,
                 PlaceInv, RollbackInv, CommittedInv, TripletRecoverable, OutputsAre
  <2>5. ValidInv' /\ SealedIsTheCapture'
    BY <1>14 DEF ResumeStream, Raise, Fault, RunningInv, CallInv, ValidInv, SealedIsTheCapture,
                 SourcePcs, ArchivePcs
  <2>6. OutputsInv' /\ CleanupInv'
    BY <1>14 DEF ResumeStream, Raise, Fault, RunningInv, CallInv, ValidInv, OutputsInv,
                 CleanupInv, Sealed, OutputsAre, WriterInv, CommittedInv, SourcePcs, ArchivePcs
  <2>7. FolderInv'
    BY <1>14 DEF ResumeStream, Raise, Fault, RunningInv, FolderInv, CreatedInv, ReceiptInv,
                 ReceiptMeansWhole, Names, Receipt, Whole, Foreign, Partial, Altered, Gone,
                 OutputsInv, CallInv, Sealed, OutputsAre, Written, Generations, Empty
  <2>8. QED
    BY <2>1, <2>2, <2>3, <2>4, <2>5, <2>6, <2>7 DEF IInv, TypeOK, CallInv
<1>15. CASE Crash
  <2>1. FinalizationType'
    <3>1. TripletType'
      BY <1>15 DEF Crash, Raise
    <3>2. pc' \in Steps
      BY <1>15 DEF Crash, Raise, Steps
    <3>3. verdict' \in Verdicts
      BY <1>15 DEF Crash, Raise
    <3>4. saw' \in [stream : {"capture", "changed"}, journal : {"capture", "changed"}]
      BY <1>15 DEF Crash, Raise
    <3>5. /\ image' \in {"capture", "changed"} /\ used' \in BOOLEAN
          /\ want' \in BOOLEAN /\ resuming' \in BOOLEAN
      BY <1>15 DEF Crash, Raise
    <3>6. UNCHANGED <<given, files>>
      BY <1>15 DEF Crash
    <3>7. QED
      BY <3>1, <3>2, <3>3, <3>4, <3>5, <3>6
  <2>2. PromotionType'
    BY <1>15 DEF Crash, Raise
  <2>3. RunningInv'
    BY <1>15 DEF Crash, Raise, RunningInv
  <2>4. WriterInv'
    BY <1>15 DEF Crash, Raise, RunningInv, WriterInv, MovedInv, MoveOldInv, PlaceInv,
                 RollbackInv, CommittedInv, TripletRecoverable, OutputsAre
  <2>5. ValidInv' /\ SealedIsTheCapture'
    BY <1>15 DEF Crash, Raise, RunningInv, CallInv, ValidInv, SealedIsTheCapture, SourcePcs,
                 ArchivePcs
  <2>6. OutputsInv' /\ CleanupInv'
    BY <1>15 DEF Crash, Raise, RunningInv, CallInv, ValidInv, OutputsInv, CleanupInv, Sealed,
                 OutputsAre, WriterInv, CommittedInv, SourcePcs, ArchivePcs
  <2>7. FolderInv'
    BY <1>15 DEF Crash, Raise, RunningInv, FolderInv, CreatedInv, ReceiptInv, ReceiptMeansWhole,
                 Names, Receipt, Whole, Foreign, Partial, Altered, Gone, OutputsInv, CallInv,
                 Sealed, OutputsAre, Written, Generations, Empty
  <2>8. QED
    BY <2>1, <2>2, <2>3, <2>4, <2>5, <2>6, <2>7 DEF IInv, TypeOK, CallInv
<1>16. CASE TamperSource
  <2>1. FinalizationType'
    BY <1>16 DEF TamperSource, Tampering, Steps, Manifests
  <2>2. PromotionType'
    BY <1>16 DEF TamperSource, Tampering
  <2>3. RunningInv'
    BY <1>16 DEF TamperSource, Tampering, RunningInv
  <2>4. WriterInv'
    BY <1>16 DEF TamperSource, Tampering, RunningInv, WriterInv, MovedInv, MoveOldInv, PlaceInv,
                 RollbackInv, CommittedInv, TripletRecoverable, OutputsAre
  <2>5. ValidInv' /\ SealedIsTheCapture'
    BY <1>16 DEF TamperSource, Tampering, RunningInv, CallInv, ValidInv, SealedIsTheCapture,
                 SourcePcs, ArchivePcs
  <2>6. OutputsInv' /\ CleanupInv'
    BY <1>16 DEF TamperSource, Tampering, RunningInv, CallInv, ValidInv, OutputsInv, CleanupInv,
                 Sealed, OutputsAre, WriterInv, CommittedInv, SourcePcs, ArchivePcs
  <2>7. FolderInv'
    BY <1>16 DEF TamperSource, Tampering, RunningInv, FolderInv, CreatedInv, ReceiptInv,
                 ReceiptMeansWhole, Names, Receipt, Whole, Foreign, Partial, Altered, Gone,
                 OutputsInv, CallInv, Sealed, OutputsAre, Written, Generations, Empty
  <2>8. QED
    BY <2>1, <2>2, <2>3, <2>4, <2>5, <2>6, <2>7 DEF IInv, TypeOK, CallInv
<1>17. CASE TamperArchive
  <2>1. FinalizationType'
    BY <1>17 DEF TamperArchive, Tampering, NoManifest, Steps, Manifests
  <2>2. PromotionType'
    BY <1>17 DEF TamperArchive, Tampering, NoManifest
  <2>3. RunningInv'
    BY <1>17 DEF TamperArchive, Tampering, NoManifest, RunningInv
  <2>4. WriterInv'
    BY <1>17 DEF TamperArchive, Tampering, NoManifest, RunningInv, WriterInv, MovedInv,
                 MoveOldInv, PlaceInv, RollbackInv, CommittedInv, TripletRecoverable, OutputsAre
  <2>5. ValidInv' /\ SealedIsTheCapture'
    BY <1>17 DEF TamperArchive, Tampering, NoManifest, RunningInv, CallInv, ValidInv,
                 SealedIsTheCapture, SourcePcs, ArchivePcs
  <2>6. OutputsInv' /\ CleanupInv'
    BY <1>17 DEF TamperArchive, Tampering, NoManifest, RunningInv, CallInv, ValidInv,
                 OutputsInv, CleanupInv, Sealed, OutputsAre, WriterInv, CommittedInv, SourcePcs,
                 ArchivePcs
  <2>7. FolderInv'
    BY <1>17 DEF TamperArchive, Tampering, NoManifest, RunningInv, FolderInv, CreatedInv,
                 ReceiptInv, ReceiptMeansWhole, Names, Receipt, Whole, Foreign, Partial,
                 Altered, Gone, OutputsInv, CallInv, Sealed, OutputsAre, Written, Generations,
                 Empty
  <2>8. QED
    BY <2>1, <2>2, <2>3, <2>4, <2>5, <2>6, <2>7 DEF IInv, TypeOK, CallInv
<1>18. CASE WriteTemps /\ UNCHANGED <<given, files, locals>>
  <2>1. FinalizationType'
    <3>1. gen' \in Written
      BY <1>18, FreeGeneration DEF WriteTemps, Raise
    <3>11. out' \in [Roles -> Written \cup {Gone, Altered}]
      BY <1>18, <3>1 DEF WriteTemps
    <3>12. bak' \in [Roles -> Written \cup {Gone, Empty, Altered}]
      BY <1>18, <3>1 DEF WriteTemps
    <3>13. before' \in [Roles -> Written \cup {Gone, Altered}] /\ gen' \in Written
      BY <1>18, <3>1 DEF WriteTemps
    <3>14. moved' \subseteq Roles /\ placed' \subseteq Roles
      BY <1>18, <3>1 DEF WriteTemps
    <3>16. at' \in 0..4
      BY <1>18, <3>1 DEF WriteTemps
    <3>15. faults' \in 0..MaxFaults /\ crashes' \in 0..MaxCrashes /\ tampers' \in 0..MaxTampers
      BY <1>18 DEF WriteTemps, Fault
    <3>3. QED
      BY <1>18, <3>11, <3>12, <3>13, <3>14, <3>15, <3>16 DEF WriteTemps, Raise, Steps
  <2>2. PromotionType'
    BY <1>18 DEF WriteTemps, Raise, Fault
  <2>3. RunningInv'
    BY <1>18 DEF WriteTemps, Raise, Fault, RunningInv
  <2>4. WriterInv'
    BY <1>18 DEF WriteTemps, Raise, Fault, RunningInv, WriterInv, MovedInv, MoveOldInv,
                 PlaceInv, RollbackInv, CommittedInv, TripletRecoverable, OutputsAre
  <2>5. ValidInv' /\ SealedIsTheCapture'
    BY <1>18 DEF WriteTemps, Raise, Fault, RunningInv, CallInv, ValidInv, SealedIsTheCapture,
                 SourcePcs, ArchivePcs
  <2>6. OutputsInv' /\ CleanupInv'
    BY <1>18 DEF WriteTemps, Raise, Fault, RunningInv, CallInv, ValidInv, OutputsInv,
                 CleanupInv, Sealed, OutputsAre, WriterInv, CommittedInv, SourcePcs, ArchivePcs
  <2>7. FolderInv'
    BY <1>18 DEF WriteTemps, Raise, Fault, RunningInv, FolderInv, CreatedInv, ReceiptInv,
                 ReceiptMeansWhole, Names, Receipt, Whole, Foreign, Partial, Altered, Gone,
                 OutputsInv, CallInv, Sealed, OutputsAre, Written, Generations, Empty
  <2>8. QED
    BY <2>1, <2>2, <2>3, <2>4, <2>5, <2>6, <2>7 DEF IInv, TypeOK, CallInv
<1>19. CASE MoveOld /\ UNCHANGED <<given, files, locals>>
  <2>1. FinalizationType'
    <3>1. at \in Roles
      BY <1>19 DEF MoveOld, WriterInv, MoveOldInv
    <3>2. at' \in 0..4
      BY <1>19, <3>1, NextRole DEF MoveOld, StartRollback
    <3>11. out' \in [Roles -> Written \cup {Gone, Altered}]
      BY <1>19, <3>1, <3>2 DEF MoveOld
    <3>12. bak' \in [Roles -> Written \cup {Gone, Empty, Altered}]
      BY <1>19, <3>1, <3>2 DEF MoveOld
    <3>13. before' \in [Roles -> Written \cup {Gone, Altered}] /\ gen' \in Written
      BY <1>19, <3>1, <3>2 DEF MoveOld
    <3>14. moved' \subseteq Roles /\ placed' \subseteq Roles
      BY <1>19, <3>1, <3>2 DEF MoveOld, StartRollback
    <3>16. at' \in 0..4
      BY <1>19, <3>1, <3>2 DEF MoveOld, StartRollback
    <3>15. faults' \in 0..MaxFaults /\ crashes' \in 0..MaxCrashes /\ tampers' \in 0..MaxTampers
      BY <1>19 DEF MoveOld, StartRollback, Fault
    <3>3. QED
      BY <1>19, <3>11, <3>12, <3>13, <3>14, <3>15, <3>16 DEF MoveOld, Steps, StartRollback
  <2>2. PromotionType'
    BY <1>19 DEF MoveOld, StartRollback, Fault
  <2>3. RunningInv'
    BY <1>19 DEF MoveOld, StartRollback, Fault, RunningInv
  <2>4. WriterInv'
    <3> USE DEF WriterInv, OutputsAre
    <3>1. /\ at \in Roles /\ placed = {} /\ pc = "moveOld" /\ verdict = "running"
          /\ MovedInv /\ MoveOldInv /\ TripletRecoverable
      BY <1>19 DEF MoveOld, RunningInv, MoveOldInv
    <3>2. ASSUME out[at] # Gone, bak' = [bak EXCEPT ![at] = out[at]],
                 out' = [out EXCEPT ![at] = Gone],
                 moved' = moved \cup {at}, at' = (at % 3) + 1,
                 pc' = IF at = 3 THEN "place" ELSE pc,
                 UNCHANGED <<verdict, before, gen, placed>>
          PROVE  WriterInv'
      <4>1. at' = IF at = 3 THEN 1 ELSE at + 1
        BY <3>1, <3>2, NextRole
      <4>2. \A r \in Roles : /\ out'[r] = IF r = at THEN Gone ELSE out[r]
                             /\ bak'[r] = IF r = at THEN out[at] ELSE bak[r]
        BY <3>2
      <4>3. MovedInv'
        BY <3>1, <3>2, <4>1, <4>2 DEF MoveOldInv, MovedInv, MovedInv
      <4>4. MoveOldInv'
        BY <3>1, <3>2, <4>1, <4>2 DEF MoveOldInv, MovedInv, MoveOldInv
      <4>5. PlaceInv'
        BY <3>1, <3>2, <4>1, <4>2 DEF MoveOldInv, MovedInv, PlaceInv
      <4>6. RollbackInv'
        BY <3>1, <3>2, <4>1, <4>2 DEF MoveOldInv, MovedInv, RollbackInv
      <4>7. CommittedInv'
        BY <3>1, <3>2, <4>1, <4>2 DEF MoveOldInv, MovedInv, CommittedInv
      <4>8. TripletRecoverable'
        BY <3>1, <3>2, <4>1, <4>2 DEF MoveOldInv, MovedInv, TripletRecoverable
      <4>9. QED
        BY <4>3, <4>4, <4>5, <4>6, <4>7, <4>8
    <3>3. ASSUME out[at] = Gone, at' = (at % 3) + 1,
                 pc' = IF at = 3 THEN "place" ELSE pc,
                 UNCHANGED <<verdict, before, gen, placed, out, bak, moved>>
          PROVE  WriterInv'
      <4>1. at' = IF at = 3 THEN 1 ELSE at + 1
        BY <3>1, <3>3, NextRole
      <4>2. MovedInv'
        BY <3>1, <3>3, <4>1 DEF MoveOldInv, MovedInv, MovedInv
      <4>3. MoveOldInv'
        BY <3>1, <3>3, <4>1 DEF MoveOldInv, MovedInv, MoveOldInv
      <4>4. PlaceInv'
        BY <3>1, <3>3, <4>1 DEF MoveOldInv, MovedInv, PlaceInv
      <4>5. RollbackInv'
        BY <3>1, <3>3, <4>1 DEF MoveOldInv, MovedInv, RollbackInv
      <4>6. CommittedInv'
        BY <3>1, <3>3, <4>1 DEF MoveOldInv, MovedInv, CommittedInv
      <4>7. TripletRecoverable'
        BY <3>1, <3>3, <4>1 DEF MoveOldInv, MovedInv, TripletRecoverable
      <4>8. QED
        BY <4>2, <4>3, <4>4, <4>5, <4>6, <4>7
    <3>4. ASSUME NEW reserved \in {Gone, Empty}, bak' = [bak EXCEPT ![at] = reserved],
                 pc' = "rollback", at' = 3,
                 UNCHANGED <<verdict, before, gen, placed, out, moved>>
          PROVE  WriterInv'
      <4>1. \A r \in Roles : bak'[r] = IF r = at THEN reserved ELSE bak[r]
        BY <3>4
      <4>2. MovedInv'
        BY <3>1, <3>4, <4>1 DEF MoveOldInv, MovedInv, MovedInv
      <4>3. MoveOldInv'
        BY <3>1, <3>4, <4>1 DEF MoveOldInv, MovedInv, MoveOldInv
      <4>4. PlaceInv'
        BY <3>1, <3>4, <4>1 DEF MoveOldInv, MovedInv, PlaceInv
      <4>5. RollbackInv'
        BY <3>1, <3>4, <4>1 DEF MoveOldInv, MovedInv, RollbackInv
      <4>6. CommittedInv'
        BY <3>1, <3>4, <4>1 DEF MoveOldInv, MovedInv, CommittedInv
      <4>7. TripletRecoverable'
        BY <3>1, <3>4, <4>1 DEF MoveOldInv, MovedInv, TripletRecoverable
      <4>8. QED
        BY <4>2, <4>3, <4>4, <4>5, <4>6, <4>7
    <3>5. QED
      BY <1>19, <3>2, <3>3, <3>4 DEF MoveOld, StartRollback
  <2>5. ValidInv' /\ SealedIsTheCapture'
    BY <1>19 DEF MoveOld, StartRollback, Fault, RunningInv, CallInv, ValidInv,
                 SealedIsTheCapture, SourcePcs, ArchivePcs
  <2>6. OutputsInv' /\ CleanupInv'
    BY <1>19 DEF MoveOld, StartRollback, Fault, RunningInv, CallInv, ValidInv, OutputsInv,
                 CleanupInv, Sealed, OutputsAre, WriterInv, CommittedInv, SourcePcs, ArchivePcs
  <2>7. FolderInv'
    BY <1>19 DEF MoveOld, StartRollback, Fault, RunningInv, FolderInv, CreatedInv, ReceiptInv,
                 ReceiptMeansWhole, Names, Receipt, Whole, Foreign, Partial, Altered, Gone,
                 OutputsInv, CallInv, Sealed, OutputsAre, Written, Generations, Empty
  <2>8. QED
    BY <2>1, <2>2, <2>3, <2>4, <2>5, <2>6, <2>7 DEF IInv, TypeOK, CallInv
<1>20. CASE Place /\ UNCHANGED <<given, files, locals>>
  <2>1. FinalizationType'
    <3>1. at \in Roles
      BY <1>20 DEF Place, WriterInv, PlaceInv
    <3>2. at' \in 0..4
      BY <1>20, <3>1, NextRole DEF Place, StartRollback
    <3>11. out' \in [Roles -> Written \cup {Gone, Altered}]
      BY <1>20, <3>1, <3>2 DEF Place
    <3>12. bak' \in [Roles -> Written \cup {Gone, Empty, Altered}]
      BY <1>20, <3>1, <3>2 DEF Place
    <3>13. before' \in [Roles -> Written \cup {Gone, Altered}] /\ gen' \in Written
      BY <1>20, <3>1, <3>2 DEF Place
    <3>14. moved' \subseteq Roles /\ placed' \subseteq Roles
      BY <1>20, <3>1, <3>2 DEF Place, StartRollback
    <3>16. at' \in 0..4
      BY <1>20, <3>1, <3>2 DEF Place, StartRollback
    <3>15. faults' \in 0..MaxFaults /\ crashes' \in 0..MaxCrashes /\ tampers' \in 0..MaxTampers
      BY <1>20 DEF Place, StartRollback, Fault
    <3>3. QED
      BY <1>20, <3>11, <3>12, <3>13, <3>14, <3>15, <3>16 DEF Place, Steps, StartRollback
  <2>2. PromotionType'
    BY <1>20 DEF Place, StartRollback, Fault
  <2>3. RunningInv'
    BY <1>20 DEF Place, StartRollback, Fault, RunningInv
  <2>4. WriterInv'
    <3> USE DEF WriterInv, OutputsAre
    <3>1. /\ at \in Roles /\ pc = "place" /\ verdict = "running"
          /\ MovedInv /\ PlaceInv /\ TripletRecoverable
      BY <1>20 DEF Place, RunningInv, PlaceInv
    <3>2. ASSUME out' = [out EXCEPT ![at] = gen],
                 placed' = placed \cup {at}, at' = (at % 3) + 1,
                 pc' = IF at = 3 THEN "dropBackups" ELSE pc,
                 UNCHANGED <<verdict, bak, before, gen, moved>>
          PROVE  WriterInv'
      <4>1. at' = IF at = 3 THEN 1 ELSE at + 1
        BY <3>1, <3>2, NextRole
      <4>2. \A r \in Roles : out'[r] = IF r = at THEN gen ELSE out[r]
        BY <3>2
      <4>3. MovedInv'
        BY <3>1, <3>2, <4>1, <4>2 DEF PlaceInv, MovedInv, MovedInv
      <4>4. MoveOldInv'
        BY <3>1, <3>2, <4>1, <4>2 DEF PlaceInv, MovedInv, MoveOldInv
      <4>5. PlaceInv'
        BY <3>1, <3>2, <4>1, <4>2 DEF PlaceInv, MovedInv, PlaceInv
      <4>6. RollbackInv'
        BY <3>1, <3>2, <4>1, <4>2 DEF PlaceInv, MovedInv, RollbackInv
      <4>7. CommittedInv'
        BY <3>1, <3>2, <4>1, <4>2 DEF PlaceInv, MovedInv, CommittedInv
      <4>8. TripletRecoverable'
        BY <3>1, <3>2, <4>1, <4>2 DEF PlaceInv, MovedInv, TripletRecoverable
      <4>9. QED
        BY <4>3, <4>4, <4>5, <4>6, <4>7, <4>8
    <3>3. ASSUME pc' = "rollback", at' = 3,
                 UNCHANGED <<verdict, before, gen, placed, out, bak, moved>>
          PROVE  WriterInv'
      <4>1. MovedInv'
        BY <3>1, <3>3 DEF PlaceInv, MovedInv, MovedInv
      <4>2. MoveOldInv'
        BY <3>1, <3>3 DEF PlaceInv, MovedInv, MoveOldInv
      <4>3. PlaceInv'
        BY <3>1, <3>3 DEF PlaceInv, MovedInv, PlaceInv
      <4>4. RollbackInv'
        BY <3>1, <3>3 DEF PlaceInv, MovedInv, RollbackInv
      <4>5. CommittedInv'
        BY <3>1, <3>3 DEF PlaceInv, MovedInv, CommittedInv
      <4>6. TripletRecoverable'
        BY <3>1, <3>3 DEF PlaceInv, MovedInv, TripletRecoverable
      <4>7. QED
        BY <4>1, <4>2, <4>3, <4>4, <4>5, <4>6
    <3>4. QED
      BY <1>20, <3>2, <3>3 DEF Place, StartRollback
  <2>5. ValidInv' /\ SealedIsTheCapture'
    BY <1>20 DEF Place, StartRollback, Fault, RunningInv, CallInv, ValidInv, SealedIsTheCapture,
                 SourcePcs, ArchivePcs
  <2>6. OutputsInv' /\ CleanupInv'
    BY <1>20 DEF Place, StartRollback, Fault, RunningInv, CallInv, ValidInv, OutputsInv,
                 CleanupInv, Sealed, OutputsAre, WriterInv, CommittedInv, SourcePcs, ArchivePcs
  <2>7. FolderInv'
    BY <1>20 DEF Place, StartRollback, Fault, RunningInv, FolderInv, CreatedInv, ReceiptInv,
                 ReceiptMeansWhole, Names, Receipt, Whole, Foreign, Partial, Altered, Gone,
                 OutputsInv, CallInv, Sealed, OutputsAre, Written, Generations, Empty
  <2>8. QED
    BY <2>1, <2>2, <2>3, <2>4, <2>5, <2>6, <2>7 DEF IInv, TypeOK, CallInv
<1>21. CASE RollbackRole /\ UNCHANGED <<given, files, locals>>
  <2>1. FinalizationType'
    <3>1. at \in moved => bak[at] = before[at]
      BY <1>21 DEF RollbackRole, WriterInv, MovedInv
    <3>2. /\ out' \in [Roles -> Written \cup {Gone, Altered}]
          /\ bak' \in [Roles -> Written \cup {Gone, Empty, Altered}]
      BY <1>21, <3>1 DEF RollbackRole, Restored
    <3>3. TripletType'
      BY <1>21, <3>2 DEF RollbackRole, Fault
    <3>4. QED
      BY <1>21, <3>3 DEF RollbackRole, Steps, Manifests, Fault
  <2>2. PromotionType'
    BY <1>21 DEF RollbackRole, Restored, Fault
  <2>3. RunningInv'
    BY <1>21 DEF RollbackRole, Restored, Fault, RunningInv
  <2>4. WriterInv'
    <3> USE DEF WriterInv, OutputsAre
    <3>1. /\ at \in Roles /\ pc = "rollback" /\ verdict \in {"running", "incomplete"}
          /\ MovedInv /\ RollbackInv /\ TripletRecoverable
      BY <1>21 DEF RollbackRole, RunningInv
    <3>2. at' = at - 1 /\ UNCHANGED <<pc, before, gen, moved, placed>>
      BY <1>21 DEF RollbackRole
    <3>3. ASSUME out' = Restored(at).out, bak' = Restored(at).bak, UNCHANGED verdict
          PROVE  WriterInv'
      <4>1. \A r \in Roles : out'[r] = IF r # at THEN out[r] ELSE
                                        IF r \in moved THEN bak[r] ELSE
                                        IF r \in placed THEN Gone ELSE out[r]
        BY <3>1, <3>3 DEF Restored
      <4>2. \A r \in Roles : bak'[r] = IF r = at /\ r \in moved THEN Gone ELSE bak[r]
        BY <3>1, <3>3 DEF Restored
      <4>3. MovedInv'
        BY <3>1, <3>2, <3>3, <4>1, <4>2 DEF MovedInv, RollbackInv, MovedInv
      <4>4. MoveOldInv'
        BY <3>1, <3>2, <3>3, <4>1, <4>2 DEF MovedInv, RollbackInv, MoveOldInv
      <4>5. PlaceInv'
        BY <3>1, <3>2, <3>3, <4>1, <4>2 DEF MovedInv, RollbackInv, PlaceInv
      <4>6. RollbackInv'
        BY <3>1, <3>2, <3>3, <4>1, <4>2 DEF MovedInv, RollbackInv, RollbackInv
      <4>7. CommittedInv'
        BY <3>1, <3>2, <3>3, <4>1, <4>2 DEF MovedInv, RollbackInv, CommittedInv
      <4>8. TripletRecoverable'
        BY <3>1, <3>2, <3>3, <4>1, <4>2 DEF MovedInv, RollbackInv, TripletRecoverable
      <4>9. QED
        BY <4>3, <4>4, <4>5, <4>6, <4>7, <4>8
    <3>4. ASSUME at \in moved \cup placed, verdict' = "incomplete", UNCHANGED <<out, bak>>
          PROVE  WriterInv'
      <4>1. MovedInv'
        BY <3>1, <3>2, <3>4 DEF MovedInv, RollbackInv, MovedInv
      <4>2. MoveOldInv'
        BY <3>1, <3>2, <3>4 DEF MovedInv, RollbackInv, MoveOldInv
      <4>3. PlaceInv'
        BY <3>1, <3>2, <3>4 DEF MovedInv, RollbackInv, PlaceInv
      <4>4. RollbackInv'
        BY <3>1, <3>2, <3>4 DEF MovedInv, RollbackInv, RollbackInv
      <4>5. CommittedInv'
        BY <3>1, <3>2, <3>4 DEF MovedInv, RollbackInv, CommittedInv
      <4>6. TripletRecoverable'
        BY <3>1, <3>2, <3>4 DEF MovedInv, RollbackInv, TripletRecoverable
      <4>7. QED
        BY <4>1, <4>2, <4>3, <4>4, <4>5, <4>6
    <3>5. QED
      BY <1>21, <3>3, <3>4 DEF RollbackRole
  <2>5. ValidInv' /\ SealedIsTheCapture'
    BY <1>21 DEF RollbackRole, Restored, Fault, RunningInv, CallInv, ValidInv,
                 SealedIsTheCapture, SourcePcs, ArchivePcs
  <2>6. OutputsInv' /\ CleanupInv'
    BY <1>21 DEF RollbackRole, Restored, Fault, RunningInv, CallInv, ValidInv, OutputsInv,
                 CleanupInv, Sealed, OutputsAre, WriterInv, CommittedInv, SourcePcs, ArchivePcs
  <2>7. FolderInv'
    BY <1>21 DEF RollbackRole, Restored, Fault, RunningInv, FolderInv, CreatedInv, ReceiptInv,
                 ReceiptMeansWhole, Names, Receipt, Whole, Foreign, Partial, Altered, Gone,
                 OutputsInv, CallInv, Sealed, OutputsAre, Written, Generations, Empty
  <2>8. QED
    BY <2>1, <2>2, <2>3, <2>4, <2>5, <2>6, <2>7 DEF IInv, TypeOK, CallInv
<1>22. CASE EndRollback /\ UNCHANGED <<given, files, locals>>
  <2>1. FinalizationType'
    BY <1>22 DEF EndRollback, Raise, Fault, Steps, Manifests
  <2>2. PromotionType'
    BY <1>22 DEF EndRollback, Raise, Fault
  <2>3. RunningInv'
    BY <1>22 DEF EndRollback, Raise, Fault, RunningInv
  <2>4. WriterInv'
    <3>1. pc' = "idle"
      BY <1>22 DEF EndRollback, Raise
    <3>2. MovedInv' /\ MoveOldInv' /\ PlaceInv' /\ RollbackInv' /\ CommittedInv'
      BY <3>1 DEF MovedInv, MoveOldInv, PlaceInv, RollbackInv, CommittedInv
    <3>3. MovedInv /\ RollbackInv /\ TripletRecoverable
      BY DEF WriterInv
    <3>4. (\A r \in Roles : out'[r] = gen') \/ (\A r \in Roles : before'[r] \in {Gone, out'[r], bak'[r]})
      BY <1>22, <3>3 DEF EndRollback, MovedInv, RollbackInv, TripletRecoverable
    <3>5. verdict' = "rolledBack" => out' = before'
      BY <1>22, <3>3 DEF EndRollback, Raise, RollbackInv
    <3>6. QED
      BY <3>2, <3>4, <3>5 DEF WriterInv, TripletRecoverable
  <2>5. ValidInv' /\ SealedIsTheCapture'
    BY <1>22 DEF EndRollback, Raise, Fault, RunningInv, CallInv, ValidInv, SealedIsTheCapture,
                 SourcePcs, ArchivePcs
  <2>6. OutputsInv' /\ CleanupInv'
    BY <1>22 DEF EndRollback, Raise, Fault, RunningInv, CallInv, ValidInv, OutputsInv,
                 CleanupInv, Sealed, OutputsAre, WriterInv, CommittedInv, SourcePcs, ArchivePcs
  <2>7. FolderInv'
    BY <1>22 DEF EndRollback, Raise, Fault, RunningInv, FolderInv, CreatedInv, ReceiptInv,
                 ReceiptMeansWhole, Names, Receipt, Whole, Foreign, Partial, Altered, Gone,
                 OutputsInv, CallInv, Sealed, OutputsAre, Written, Generations, Empty
  <2>8. QED
    BY <2>1, <2>2, <2>3, <2>4, <2>5, <2>6, <2>7 DEF IInv, TypeOK, CallInv
<1>23. CASE DropBackups /\ UNCHANGED <<given, files, locals>>
  <2>1. FinalizationType'
    BY <1>23 DEF DropBackups, Raise, Fault, Steps, Manifests
  <2>2. PromotionType'
    BY <1>23 DEF DropBackups, Raise, Fault
  <2>3. RunningInv'
    BY <1>23 DEF DropBackups, Raise, Fault, RunningInv
  <2>4. WriterInv'
    BY <1>23 DEF DropBackups, Raise, Fault, RunningInv, WriterInv, MovedInv, MoveOldInv,
                 PlaceInv, RollbackInv, CommittedInv, TripletRecoverable, OutputsAre
  <2>5. ValidInv' /\ SealedIsTheCapture'
    BY <1>23 DEF DropBackups, Raise, Fault, RunningInv, CallInv, ValidInv, SealedIsTheCapture,
                 SourcePcs, ArchivePcs
  <2>6. OutputsInv' /\ CleanupInv'
    BY <1>23 DEF DropBackups, Raise, Fault, RunningInv, CallInv, ValidInv, OutputsInv,
                 CleanupInv, Sealed, OutputsAre, WriterInv, CommittedInv, SourcePcs, ArchivePcs
  <2>7. FolderInv'
    BY <1>23 DEF DropBackups, Raise, Fault, RunningInv, FolderInv, CreatedInv, ReceiptInv,
                 ReceiptMeansWhole, Names, Receipt, Whole, Foreign, Partial, Altered, Gone,
                 OutputsInv, CallInv, Sealed, OutputsAre, Written, Generations, Empty
  <2>8. QED
    BY <2>1, <2>2, <2>3, <2>4, <2>5, <2>6, <2>7 DEF IInv, TypeOK, CallInv
<1>24. QED
  BY <1>1, <1>2, <1>3, <1>4, <1>5, <1>6, <1>7, <1>8, <1>9, <1>10, <1>11, <1>12, <1>13, <1>14,
     <1>15, <1>16, <1>17, <1>18, <1>19, <1>20, <1>21, <1>22, <1>23
     DEF FinalizationNext, FinalizeStep, WriteTriplet, WriterStep

\* What a running promotion copies is what the manifest vouched for, or was altered since.
LEMMA CopiesAreSealed ==
    ASSUME IInv, step # "none"
    PROVE  /\ manifest.outputs \in Written
           /\ \A r \in Roles : out[r] \in {manifest.outputs, Altered}
           /\ at \in Names => Content \in Contents
<1>1. manifest.kind = "this" /\ verdict = "done" /\ manifest \in Manifests
  BY DEF IInv, FolderInv, CreatedInv, RunningInv, TypeOK, FinalizationType
<1>2. manifest.outputs \in Written
  BY <1>1 DEF Manifests, NoManifest
<1>3. \A r \in Roles : out[r] \in {manifest.outputs, Altered}
  BY <1>1 DEF IInv, CallInv, OutputsInv
<1>4. QED
  BY <1>2, <1>3 DEF Content, Contents, Names

\* Writing the file in hand keeps the folder's type and invariant.
LEMMA FillKeeps ==
    ASSUME IInv, Fill
    PROVE  PromotionType' /\ FolderInv'
<1> USE DEF Names, Receipt, Roles, Gone, Altered, Partial, Foreign, Whole, Written, Generations
<1>1. /\ at \in Names /\ created = 1..(at - 1) /\ step = "fill" /\ FolderInv
      /\ folder[sequence][Receipt] # Whole
  BY DEF IInv, Fill, FolderInv, CreatedInv, ReceiptInv
<1>2. /\ folder \in [1..Basenames -> [Names -> Contents]]
      /\ sequence \in 1..Basenames /\ created \subseteq Names
      /\ promotions \in 0..MaxPromotions /\ stuck \subseteq 1..Basenames
  BY DEF IInv, TypeOK, PromotionType, Contents
<1>3. UNCHANGED <<sequence, manifest, out, promotions>>
  BY DEF Fill, files
<1>4. PICK v \in {Content, Partial} :
         folder' = [folder EXCEPT ![sequence][at] = v] /\ (v = Content \/ step' = "discard")
  BY DEF Fill
<1>5. v \in Contents
  BY <1>1, CopiesAreSealed DEF Contents
<1>6. /\ folder' \in [1..Basenames -> [Names -> Contents]]
      /\ \A k \in 1..Basenames, i \in Names :
             folder'[k][i] = IF k = sequence /\ i = at THEN v ELSE folder[k][i]
  BY <1>1, <1>2, <1>4, <1>5, OneFile
<1>7. \/ step' = "sync" /\ at = Receipt /\ at' = at /\ created' = created \cup {at}
      \/ step' = "open" /\ at # Receipt /\ at' = at + 1 /\ created' = created \cup {at}
      \/ step' = "discard" /\ at' = at /\ created' = created
      \/ /\ step' = "unpublish" /\ at' = Receipt /\ created' = created
         /\ at = Receipt => sequence \in stuck'
      \/ step' = "unpublish" /\ at' = Receipt /\ created' = created \cup {at} /\ at # Receipt
  BY DEF Fill, Abandon
<1>8. stuck' \in {stuck, stuck \cup {sequence}} /\ (stuck' # stuck => at = Receipt)
  BY DEF Fill
<1>9. step' \in {"sync", "open", "discard", "unpublish"}
  BY <1>7
<1>11. \A i \in created : i \in Names /\ i # at
  BY <1>1, <1>2
<1>10. created' \in {created, created \cup {at}} /\ (at \in created' => v = Content)
  BY <1>4, <1>7, <1>11
<1>12. PromotionType'
  BY <1>1, <1>2, <1>3, <1>6, <1>8, <1>9, <1>10 DEF PromotionType, Contents
<1>13. Content = (IF at = Receipt THEN Whole ELSE out[at]) /\ (at' = at => Content' = Content)
  BY <1>3 DEF Content
<1>14. \A i \in created' : folder'[sequence][i] = IF i = Receipt THEN Whole ELSE out[i]
  <2>1. \A i \in created : folder[sequence][i] = IF i = Receipt THEN Whole ELSE out[i]
    BY <1>1 DEF FolderInv, CreatedInv
  <2>2. \A i \in created : folder'[sequence][i] = folder[sequence][i]
    BY <1>2, <1>6, <1>11
  <2>3. at \in created' => folder'[sequence][at] = IF at = Receipt THEN Whole ELSE out[at]
    BY <1>1, <1>2, <1>6, <1>10, <1>13
  <2>4. QED
    BY <1>10, <2>1, <2>2, <2>3
<1>15. CreatedInv'
  <2>1. manifest.kind = "this"
    BY <1>1 DEF FolderInv, CreatedInv
  <2>2. step' = "discard" => folder'[sequence][at] \in {Partial, Content}
    BY <1>1, <1>2, <1>4, <1>6
  <2>3. step' = "open" => at' \in Names /\ created' = 1..(at' - 1)
    <3>1. step' = "open" => at \in 1..3 /\ at' = at + 1 /\ created' = (1..(at - 1)) \cup {at}
      BY <1>1, <1>7
    <3>2. step' = "open" => created' = 1..at /\ at' - 1 = at
      <4>1. (1..(at - 1)) \cup {at} = 1..at
        BY <1>1
      <4>2. step' = "open" => created' = 1..at
        BY <3>1, <4>1, Zenon
      <4>3. step' = "open" => at' - 1 = at
        BY <3>1
      <4>4. QED
        BY <4>2, <4>3
    <3>3. step' = "open" => at' \in Names
      BY <3>1
    <3>4. step' = "open" => created' = 1..(at' - 1)
      BY <3>2, Zenon
    <3>5. QED
      BY <3>3, <3>4
  <2>4. step' = "discard" => at' = at /\ created' = created
    BY <1>7
  <2>5. step' = "sync" => at' = Receipt /\ created' = Names
    <3>1. step' = "sync" => at = Receipt /\ at' = at /\ created' = (1..(at - 1)) \cup {at}
      BY <1>1, <1>7
    <3>2. QED
      BY <3>1
  <2>6. step' = "unpublish" => at' \in 0..4
    BY <1>7
  <2>7. QED
    BY <1>1, <1>3, <1>9, <1>13, <1>14, <2>1, <2>2, <2>3, <2>4, <2>5, <2>6 DEF CreatedInv
<1>16. ReceiptInv'
  <2>1. CASE at = Receipt
    <3>1. /\ step' \in {"sync", "discard", "unpublish"} /\ at' = Receipt
          /\ step' = "unpublish" => sequence \in stuck'
      BY <1>7, <2>1
    <3>2. sequence' = sequence /\ step' \notin {"open", "fill"}
      BY <1>3, <3>1
    <3>3. QED
      BY <3>1, <3>2, Zenon DEF ReceiptInv
  <2>2. CASE at # Receipt
    <3>1. folder'[sequence][Receipt] # Whole
      BY <1>1, <1>2, <1>6, <2>2
    <3>2. QED
      BY <1>3, <3>1 DEF ReceiptInv
  <2>3. QED
    BY <2>1, <2>2
<1>17. ReceiptMeansWhole'
  <2> SUFFICES ASSUME NEW k \in 1..Basenames, k \notin stuck', folder'[k][Receipt] = Whole
               PROVE  /\ \A r \in Roles : folder'[k][r] \in Written \cup {Altered}
                      /\ \A r, s \in Roles : Altered \notin {folder'[k][r], folder'[k][s]} =>
                                               folder'[k][r] = folder'[k][s]
    BY DEF ReceiptMeansWhole
  <2>1. CASE k # sequence
    <3>1. \A i \in Names : folder'[k][i] = folder[k][i]
      BY <1>6, <2>1
    <3>2. k \notin stuck
      BY <1>8
    <3>3. QED
      BY <1>1, <3>1, <3>2 DEF FolderInv, ReceiptMeansWhole
  <2>2. CASE k = sequence
    <3>1. at = Receipt
      BY <1>1, <1>6, <2>2
    <3>2. \A r \in Roles : r \in created /\ r # Receipt /\ r \in Names
      BY <1>1, <3>1
    <3>3. \A r \in Roles : folder'[k][r] = out[r]
      BY <1>1, <1>6, <2>2, <3>1, <3>2 DEF FolderInv, CreatedInv
    <3>4. QED
      BY <1>1, <3>3, CopiesAreSealed
  <2>3. QED
    BY <2>1, <2>2
<1>18. QED
  BY <1>12, <1>15, <1>16, <1>17 DEF FolderInv

\* So does its removal, also when that fails.
LEMMA DiscardKeeps ==
    ASSUME IInv, Discard
    PROVE  PromotionType' /\ FolderInv'
<1> USE DEF Names, Receipt, Roles, Gone, Altered, Partial, Foreign, Whole, Written, Generations
<1>1. /\ at \in Names /\ created = 1..(at - 1) /\ step = "discard" /\ FolderInv
      /\ manifest.kind = "this"
  BY DEF IInv, Discard, FolderInv, CreatedInv
<1>2. /\ folder \in [1..Basenames -> [Names -> Contents]]
      /\ sequence \in 1..Basenames /\ created \subseteq Names
      /\ promotions \in 0..MaxPromotions /\ stuck \subseteq 1..Basenames
  BY DEF IInv, TypeOK, PromotionType, Contents
<1>3. /\ UNCHANGED <<sequence, manifest, out, promotions, created>>
      /\ step' = "unpublish" /\ at' = Receipt
      /\ stuck' \in {stuck, stuck \cup {sequence}}
  BY DEF Discard, Abandon, files
<1>4. \A i \in created : i \in Names /\ i # at
  BY <1>1, <1>2
<1>5. CASE folder' = [folder EXCEPT ![sequence][at] = Gone]
  <2>1. /\ folder' \in [1..Basenames -> [Names -> Contents]]
        /\ \A k \in 1..Basenames, i \in Names :
               folder'[k][i] = IF k = sequence /\ i = at THEN Gone ELSE folder[k][i]
    BY <1>1, <1>2, <1>5, OneFile DEF Contents
  <2>2. PromotionType'
    BY <1>2, <1>3, <2>1 DEF PromotionType, Contents
  <2>3. CreatedInv'
    <3>1. \A i \in created : folder'[sequence][i] = IF i = Receipt THEN Whole ELSE out[i]
      BY <1>1, <1>2, <1>4, <2>1 DEF FolderInv, CreatedInv
    <3>2. QED
      BY <1>1, <1>3, <3>1 DEF CreatedInv
  <2>4. folder'[sequence][Receipt] # Whole
    BY <1>1, <1>2, <2>1 DEF FolderInv, ReceiptInv
  <2>5. ReceiptInv'
    BY <1>3, <2>4 DEF ReceiptInv
  <2>6. ReceiptMeansWhole'
    BY <1>1, <1>2, <1>3, <2>1, <2>4 DEF FolderInv, ReceiptMeansWhole
  <2>7. QED
    BY <2>2, <2>3, <2>5, <2>6 DEF FolderInv
<1>6. CASE UNCHANGED folder /\ (folder[sequence][at] = Whole => sequence \in stuck')
  <2>1. PromotionType'
    BY <1>2, <1>3, <1>6 DEF PromotionType, Contents
  <2>2. CreatedInv'
    BY <1>1, <1>3, <1>6 DEF FolderInv, CreatedInv
  <2>3. folder[sequence][Receipt] = Whole => sequence \in stuck'
    BY <1>1, <1>6 DEF FolderInv, ReceiptInv
  <2>4. ReceiptInv'
    <3>1. sequence' = sequence /\ folder' = folder /\ step' \notin {"open", "fill", "discard"}
      BY <1>3, <1>6
    <3>2. QED
      BY <1>3, <2>3, <3>1, Zenon DEF ReceiptInv
  <2>5. ReceiptMeansWhole'
    BY <1>1, <1>3, <1>6 DEF FolderInv, ReceiptMeansWhole
  <2>6. QED
    BY <2>1, <2>2, <2>4, <2>5 DEF FolderInv
<1>7. QED
  BY <1>5, <1>6 DEF Discard

\* Every step of a promotion, and another program's file, preserves it.
LEMMA FolderStep ==
    ASSUME IInv, Promote \/ PromotionStep \/ PromotionCrash \/ ForeignFile
    PROVE  IInv'
<1> USE BudgetAssumption, PromotionAssumption
    DEF IInv, TypeOK, FinalizationType, TripletType, PromotionType, Contents, Verdicts, Roles,
        Written, Generations, Gone, Altered, Empty, Names, Receipt, files, locals, given,
        triplet, budgets, promotionVars, finalizationVars
<1>1. CASE Promote
  <2>1. FinalizationType'
    BY <1>1 DEF Promote, Steps, Manifests
  <2>2. PromotionType'
    BY <1>1 DEF Promote
  <2>3. RunningInv'
    BY <1>1 DEF Promote, RunningInv
  <2>4. WriterInv'
    BY <1>1 DEF Promote, RunningInv, WriterInv, MovedInv, MoveOldInv, PlaceInv, RollbackInv,
                CommittedInv, TripletRecoverable, OutputsAre
  <2>5. ValidInv' /\ SealedIsTheCapture'
    BY <1>1 DEF Promote, RunningInv, CallInv, ValidInv, SealedIsTheCapture, SourcePcs,
                ArchivePcs
  <2>6. OutputsInv' /\ CleanupInv'
    BY <1>1 DEF Promote, RunningInv, CallInv, ValidInv, OutputsInv, CleanupInv, Sealed,
                OutputsAre, WriterInv, CommittedInv, SourcePcs, ArchivePcs
  <2>7. FolderInv'
    BY <1>1 DEF Promote, RunningInv, FolderInv, CreatedInv, ReceiptInv, ReceiptMeansWhole,
                Names, Receipt, Whole, Foreign, Partial, Altered, Gone, OutputsInv, CallInv,
                Sealed, OutputsAre, Written, Generations, Empty
  <2>8. QED
    BY <2>1, <2>2, <2>3, <2>4, <2>5, <2>6, <2>7 DEF IInv, TypeOK, CallInv
<1>2. CASE Pick
  <2>1. FinalizationType'
    BY <1>2 DEF Pick, Steps, Manifests
  <2>2. PromotionType'
    BY <1>2 DEF Pick
  <2>3. RunningInv'
    BY <1>2 DEF Pick, RunningInv
  <2>4. WriterInv'
    BY <1>2 DEF Pick, RunningInv, WriterInv, MovedInv, MoveOldInv, PlaceInv, RollbackInv,
                CommittedInv, TripletRecoverable, OutputsAre
  <2>5. ValidInv' /\ SealedIsTheCapture'
    BY <1>2 DEF Pick, RunningInv, CallInv, ValidInv, SealedIsTheCapture, SourcePcs, ArchivePcs
  <2>6. OutputsInv' /\ CleanupInv'
    BY <1>2 DEF Pick, RunningInv, CallInv, ValidInv, OutputsInv, CleanupInv, Sealed, OutputsAre,
                WriterInv, CommittedInv, SourcePcs, ArchivePcs
  <2>7. FolderInv'
    <3>1. \A k \in 1..Basenames, i \in Names : folder'[k][i] = folder[k][i]
      BY <1>2 DEF Pick
    <3>2. CreatedInv'
      BY <1>2 DEF Pick, FolderInv, CreatedInv, ReceiptInv, ReceiptMeansWhole, Whole, Foreign,
                  Partial
    <3>3. ReceiptInv'
      BY <1>2 DEF Pick, FolderInv, CreatedInv, ReceiptInv, ReceiptMeansWhole, Whole, Foreign,
                  Partial
    <3>4. ReceiptMeansWhole'
      BY <1>2 DEF Pick, FolderInv, CreatedInv, ReceiptInv, ReceiptMeansWhole, Whole, Foreign,
                  Partial
    <3>5. QED
      BY <3>2, <3>3, <3>4 DEF FolderInv
  <2>8. QED
    BY <2>1, <2>2, <2>3, <2>4, <2>5, <2>6, <2>7 DEF IInv, TypeOK, CallInv
<1>3. CASE Open
  <2>1. FinalizationType'
    BY <1>3 DEF Open, Fault, Abandon, Steps, Manifests
  <2>2. PromotionType'
    <3>1. at \in Names
      BY <1>3 DEF Open, FolderInv, CreatedInv
    <3>2. [folder EXCEPT ![sequence][at] = Partial] \in [1..Basenames -> [Names -> Contents]]
      BY <3>1, OneFile
    <3>3. QED
      BY <1>3, <3>1, <3>2 DEF Open, Abandon
  <2>3. RunningInv'
    BY <1>3 DEF Open, Fault, Abandon, RunningInv
  <2>4. WriterInv'
    BY <1>3 DEF Open, Fault, Abandon, RunningInv, WriterInv, MovedInv, MoveOldInv, PlaceInv,
                RollbackInv, CommittedInv, TripletRecoverable, OutputsAre
  <2>5. ValidInv' /\ SealedIsTheCapture'
    BY <1>3 DEF Open, Fault, Abandon, RunningInv, CallInv, ValidInv, SealedIsTheCapture, SourcePcs,
                ArchivePcs
  <2>6. OutputsInv' /\ CleanupInv'
    BY <1>3 DEF Open, Fault, Abandon, RunningInv, CallInv, ValidInv, OutputsInv, CleanupInv, Sealed,
                OutputsAre, WriterInv, CommittedInv, SourcePcs, ArchivePcs
  <2>7. FolderInv'
    <3>1. /\ at \in Names /\ step = "open" /\ FolderInv
          /\ UNCHANGED <<sequence, created, manifest, out, stuck>>
      BY <1>3 DEF Open, FolderInv, CreatedInv
    <3>2. CASE folder' = [folder EXCEPT ![sequence][at] = Partial] /\ step' = "fill" /\ at' = at
      <4>1. \A k \in 1..Basenames, i \in Names :
                 folder'[k][i] = IF k = sequence /\ i = at THEN Partial ELSE folder[k][i]
        BY <3>1, <3>2
      <4>2. CreatedInv'
        BY <3>1, <3>2, <4>1 DEF CreatedInv, FolderInv
      <4>3. ReceiptInv'
        BY <3>1, <3>2, <4>1 DEF FolderInv, CreatedInv, ReceiptInv, Whole, Partial
      <4>4. ReceiptMeansWhole'
        BY <3>1, <3>2, <4>1 DEF FolderInv, CreatedInv, ReceiptInv, ReceiptMeansWhole, Whole,
                                Foreign, Partial
      <4>5. QED
        BY <4>2, <4>3, <4>4 DEF FolderInv
    <3>3. CASE Abandon /\ UNCHANGED folder
      BY <3>1, <3>3 DEF Abandon, FolderInv, CreatedInv, ReceiptInv, ReceiptMeansWhole, Whole,
                        Foreign, Partial
    <3>4. QED
      BY <1>3, <3>2, <3>3 DEF Open
  <2>8. QED
    BY <2>1, <2>2, <2>3, <2>4, <2>5, <2>6, <2>7 DEF IInv, TypeOK, CallInv
<1>4. CASE Fill
  <2>1. FinalizationType'
    BY <1>4 DEF Fill, Fault, Abandon, Steps, Manifests
  <2>2. PromotionType' /\ FolderInv'
    BY <1>4, FillKeeps
  <2>3. RunningInv'
    BY <1>4 DEF Fill, Fault, Abandon, RunningInv
  <2>4. WriterInv'
    BY <1>4 DEF Fill, Fault, Abandon, RunningInv, WriterInv, MovedInv, MoveOldInv, PlaceInv,
                RollbackInv, CommittedInv, TripletRecoverable, OutputsAre
  <2>5. ValidInv' /\ SealedIsTheCapture'
    BY <1>4 DEF Fill, Fault, Abandon, RunningInv, CallInv, ValidInv, SealedIsTheCapture, SourcePcs,
                ArchivePcs
  <2>6. OutputsInv' /\ CleanupInv'
    BY <1>4 DEF Fill, Fault, Abandon, RunningInv, CallInv, ValidInv, OutputsInv, CleanupInv, Sealed,
                OutputsAre, WriterInv, CommittedInv, SourcePcs, ArchivePcs
  <2>7. QED
    BY <2>1, <2>2, <2>3, <2>4, <2>5, <2>6 DEF IInv, TypeOK, CallInv
<1>9. CASE Discard
  <2>1. FinalizationType'
    BY <1>9 DEF Discard, Fault, Abandon, Steps, Manifests
  <2>2. PromotionType' /\ FolderInv'
    BY <1>9, DiscardKeeps
  <2>3. RunningInv'
    BY <1>9 DEF Discard, Fault, Abandon, RunningInv
  <2>4. WriterInv'
    BY <1>9 DEF Discard, Fault, Abandon, RunningInv, WriterInv, MovedInv, MoveOldInv, PlaceInv,
                RollbackInv, CommittedInv, TripletRecoverable, OutputsAre
  <2>5. ValidInv' /\ SealedIsTheCapture'
    BY <1>9 DEF Discard, Fault, Abandon, RunningInv, CallInv, ValidInv, SealedIsTheCapture, SourcePcs,
                ArchivePcs
  <2>6. OutputsInv' /\ CleanupInv'
    BY <1>9 DEF Discard, Fault, Abandon, RunningInv, CallInv, ValidInv, OutputsInv, CleanupInv, Sealed,
                OutputsAre, WriterInv, CommittedInv, SourcePcs, ArchivePcs
  <2>7. QED
    BY <2>1, <2>2, <2>3, <2>4, <2>5, <2>6 DEF IInv, TypeOK, CallInv
<1>5. CASE Sync
  <2>1. FinalizationType'
    BY <1>5 DEF Sync, Fault, Abandon, Steps, Manifests
  <2>2. PromotionType'
    BY <1>5 DEF Sync, Fault, Abandon
  <2>3. RunningInv'
    BY <1>5 DEF Sync, Fault, Abandon, RunningInv
  <2>4. WriterInv'
    BY <1>5 DEF Sync, Fault, Abandon, RunningInv, WriterInv, MovedInv, MoveOldInv, PlaceInv, RollbackInv,
                CommittedInv, TripletRecoverable, OutputsAre
  <2>5. ValidInv' /\ SealedIsTheCapture'
    BY <1>5 DEF Sync, Fault, Abandon, RunningInv, CallInv, ValidInv, SealedIsTheCapture, SourcePcs,
                ArchivePcs
  <2>6. OutputsInv' /\ CleanupInv'
    BY <1>5 DEF Sync, Fault, Abandon, RunningInv, CallInv, ValidInv, OutputsInv, CleanupInv, Sealed,
                OutputsAre, WriterInv, CommittedInv, SourcePcs, ArchivePcs
  <2>7. FolderInv'
    BY <1>5 DEF Sync, Fault, Abandon, RunningInv, FolderInv, CreatedInv, ReceiptInv, ReceiptMeansWhole,
                Names, Receipt, Whole, Foreign, Partial, Altered, Gone, OutputsInv, CallInv,
                Sealed, OutputsAre, Written, Generations, Empty
  <2>8. QED
    BY <2>1, <2>2, <2>3, <2>4, <2>5, <2>6, <2>7 DEF IInv, TypeOK, CallInv
<1>6. CASE Unpublish
  <2>1. FinalizationType'
    BY <1>6 DEF Unpublish, Fault, Steps, Manifests
  <2>2. PromotionType'
    <3>1. at # 0 => at \in Names
      BY <1>6
    <3>2. at # 0 => \A v \in Contents :
             [folder EXCEPT ![sequence][at] = v] \in [1..Basenames -> [Names -> Contents]]
      BY <3>1, OneFile
    <3>3. at # 0 => (IF at \in created THEN Gone ELSE folder[sequence][at]) \in Contents
      BY <3>1
    <3>4. folder' \in [1..Basenames -> [Names -> Contents]]
      <4>1. CASE folder' = [folder EXCEPT ![sequence][at] =
                                      IF at \in created THEN Gone
                                         ELSE folder[sequence][at]] /\ at # 0
        BY <3>2, <3>3, <4>1
      <4>2. CASE UNCHANGED folder
        BY <4>2
      <4>3. QED
        BY <1>6, <4>1, <4>2 DEF Unpublish
    <3>5. QED
      BY <1>6, <3>1, <3>4 DEF Unpublish
  <2>3. RunningInv'
    BY <1>6 DEF Unpublish, Fault, RunningInv
  <2>4. WriterInv'
    BY <1>6 DEF Unpublish, Fault, RunningInv, WriterInv, MovedInv, MoveOldInv, PlaceInv,
                RollbackInv, CommittedInv, TripletRecoverable, OutputsAre
  <2>5. ValidInv' /\ SealedIsTheCapture'
    BY <1>6 DEF Unpublish, Fault, RunningInv, CallInv, ValidInv, SealedIsTheCapture, SourcePcs,
                ArchivePcs
  <2>6. OutputsInv' /\ CleanupInv'
    BY <1>6 DEF Unpublish, Fault, RunningInv, CallInv, ValidInv, OutputsInv, CleanupInv, Sealed,
                OutputsAre, WriterInv, CommittedInv, SourcePcs, ArchivePcs
  <2>7. FolderInv'
    <3>1. CASE at # 0 /\ folder' = [folder EXCEPT ![sequence][at] =
                                      IF at \in created THEN Gone ELSE folder[sequence][at]]
                 /\ at' = at - 1 /\ UNCHANGED <<step, budgets>>
      <4>1. at \in Names /\ step' = "unpublish" /\ UNCHANGED <<created, sequence, manifest>>
        BY <1>6, <3>1 DEF Unpublish
      <4>2. \A k \in 1..Basenames, i \in Names :
                 folder'[k][i] = IF k = sequence /\ i = at
                                 THEN (IF at \in created THEN Gone ELSE folder[k][i])
                                 ELSE folder[k][i]
        BY <3>1, <4>1
      <4>3. CreatedInv'
        BY <1>6, <3>1, <4>1, <4>2 DEF FolderInv, CreatedInv, Unpublish
      <4>4. ReceiptInv'
        BY <1>6, <3>1, <4>1, <4>2 DEF FolderInv, CreatedInv, ReceiptInv, ReceiptMeansWhole,
                                      Whole, Foreign, Partial, Unpublish
      <4>5. ReceiptMeansWhole'
        BY <1>6, <3>1, <4>1, <4>2 DEF FolderInv, CreatedInv, ReceiptInv, ReceiptMeansWhole,
                                      Whole, Foreign, Partial, Unpublish
      <4>6. QED
        BY <4>3, <4>4, <4>5 DEF FolderInv
    <3>2. CASE step' = "none" /\ UNCHANGED folder
      BY <1>6, <3>2 DEF Unpublish, FolderInv, CreatedInv, ReceiptInv, ReceiptMeansWhole, Whole,
                        Foreign, Partial
    <3>3. QED
      BY <1>6, <3>1, <3>2 DEF Unpublish
  <2>8. QED
    BY <2>1, <2>2, <2>3, <2>4, <2>5, <2>6, <2>7 DEF IInv, TypeOK, CallInv
<1>7. CASE PromotionCrash
  <2>1. FinalizationType'
    BY <1>7 DEF PromotionCrash, Steps, Manifests
  <2>2. PromotionType'
    BY <1>7 DEF PromotionCrash
  <2>3. RunningInv'
    BY <1>7 DEF PromotionCrash, RunningInv
  <2>4. WriterInv'
    BY <1>7 DEF PromotionCrash, RunningInv, WriterInv, MovedInv, MoveOldInv, PlaceInv,
                RollbackInv, CommittedInv, TripletRecoverable, OutputsAre
  <2>5. ValidInv' /\ SealedIsTheCapture'
    BY <1>7 DEF PromotionCrash, RunningInv, CallInv, ValidInv, SealedIsTheCapture, SourcePcs,
                ArchivePcs
  <2>6. OutputsInv' /\ CleanupInv'
    BY <1>7 DEF PromotionCrash, RunningInv, CallInv, ValidInv, OutputsInv, CleanupInv, Sealed,
                OutputsAre, WriterInv, CommittedInv, SourcePcs, ArchivePcs
  <2>7. FolderInv'
    BY <1>7 DEF PromotionCrash, RunningInv, FolderInv, CreatedInv, ReceiptInv,
                ReceiptMeansWhole, Names, Receipt, Whole, Foreign, Partial, Altered, Gone,
                OutputsInv, CallInv, Sealed, OutputsAre, Written, Generations, Empty
  <2>8. QED
    BY <2>1, <2>2, <2>3, <2>4, <2>5, <2>6, <2>7 DEF IInv, TypeOK, CallInv
<1>8. CASE ForeignFile
  <2>1. FinalizationType'
    BY <1>8 DEF ForeignFile, Tampering, Steps, Manifests
  <2>2. PromotionType'
    BY <1>8 DEF ForeignFile, Tampering
  <2>3. RunningInv'
    BY <1>8 DEF ForeignFile, Tampering, RunningInv
  <2>4. WriterInv'
    BY <1>8 DEF ForeignFile, Tampering, RunningInv, WriterInv, MovedInv, MoveOldInv, PlaceInv,
                RollbackInv, CommittedInv, TripletRecoverable, OutputsAre
  <2>5. ValidInv' /\ SealedIsTheCapture'
    BY <1>8 DEF ForeignFile, Tampering, RunningInv, CallInv, ValidInv, SealedIsTheCapture,
                SourcePcs, ArchivePcs
  <2>6. OutputsInv' /\ CleanupInv'
    BY <1>8 DEF ForeignFile, Tampering, RunningInv, CallInv, ValidInv, OutputsInv, CleanupInv,
                Sealed, OutputsAre, WriterInv, CommittedInv, SourcePcs, ArchivePcs
  <2>7. FolderInv'
    <3>1. PICK f \in 1..Basenames, n \in Names :
             folder[f][n] = Gone /\ folder' = [folder EXCEPT ![f][n] = Foreign]
      BY <1>8 DEF ForeignFile
    <3>2. \A k \in 1..Basenames, i \in Names :
                 folder'[k][i] = IF k = f /\ i = n THEN Foreign ELSE folder[k][i]
      BY <3>1
    <3>3. UNCHANGED <<at, created, step, sequence, manifest, out, stuck>>
      BY <1>8 DEF ForeignFile
    <3>4. CreatedInv'
      <4>1. step # "none" => \A r \in Roles : out[r] # Gone
        BY DEF RunningInv, CallInv, OutputsInv, FolderInv, CreatedInv, Manifests, NoManifest
      <4>2. step # "none" => Content' = Content /\ (at \in Names => Content # Gone)
        BY <3>3, <4>1 DEF Content, Whole
      <4>3. QED
        BY <3>1, <3>2, <3>3, <4>1, <4>2 DEF FolderInv, CreatedInv, Whole, Foreign, Partial
    <3>5. ReceiptInv'
      BY <1>8, <3>1, <3>2, <3>3 DEF FolderInv, CreatedInv, ReceiptInv, ReceiptMeansWhole, Whole,
                                    Foreign, Partial
    <3>6. ReceiptMeansWhole'
      BY <1>8, <3>1, <3>2, <3>3 DEF FolderInv, CreatedInv, ReceiptInv, ReceiptMeansWhole, Whole,
                                    Foreign, Partial
    <3>7. QED
      BY <3>4, <3>5, <3>6 DEF FolderInv
  <2>8. QED
    BY <2>1, <2>2, <2>3, <2>4, <2>5, <2>6, <2>7 DEF IInv, TypeOK, CallInv
<1>10. QED
  BY <1>1, <1>2, <1>3, <1>4, <1>5, <1>6, <1>7, <1>8, <1>9 DEF PromotionStep

\* It holds at the start, for every attempt considered.
LEMMA StartsRight == Init => IInv
<1> SUFFICES ASSUME Init
             PROVE  IInv
  OBVIOUS
<1> USE BudgetAssumption, PromotionAssumption
    DEF Init, FinalizationInit, TripletInit, Roles, Written, Generations, Gone, Altered, Empty,
        Names, Receipt, Contents
<1>1. attempt \in Evidence
  BY AttemptFields
<1>2. \A k \in 1..Basenames, i \in Names :
         folder[k][i] \in {Gone, 1, Whole} /\ (folder[k][i] = Whole => i = Receipt)
  BY DEF WithEarlierFrame, Whole
<1>3. folder \in [1..Basenames -> [Names -> Contents]]
  BY DEF WithEarlierFrame, Whole
<1>4. PromotionType
  BY <1>3 DEF PromotionType
<1>5. FinalizationType
  <2>1. saw \in [stream : {"capture", "changed"}, journal : {"capture", "changed"}]
    OBVIOUS
  <2>2. TripletType
    BY DEF TripletType
  <2>3. QED
    BY <1>1, <2>1, <2>2 DEF FinalizationType, Steps, Manifests
<1>6. RunningInv
  BY DEF RunningInv
<1>7. WriterInv
  BY  DEF WriterInv, MovedInv, MoveOldInv, PlaceInv, RollbackInv, CommittedInv,
         TripletRecoverable
<1>8. CallInv
  BY DEF CallInv, ValidInv, OutputsInv, CleanupInv, SealedIsTheCapture, NoManifest,
         SourcePcs, ArchivePcs
<1>9. ReceiptMeansWhole
  BY DEF ReceiptMeansWhole, WithEarlierFrame, Whole
<1>10. FolderInv
  BY <1>9 DEF FolderInv, CreatedInv, ReceiptInv, Whole
<1>11. QED
  BY <1>4, <1>5, <1>6, <1>7, <1>8, <1>10 DEF IInv, TypeOK

\* A step of nothing preserves it.
LEMMA NothingMoves == IInv /\ UNCHANGED vars => IInv'
  BY  DEF IInv, Contents, Verdicts, TypeOK, FinalizationType, TripletType, PromotionType,
         RunningInv, WriterInv,
         MovedInv, MoveOldInv, PlaceInv, RollbackInv, CommittedInv, TripletRecoverable,
         OutputsAre, CallInv, ValidInv, OutputsInv, CleanupInv, SealedIsTheCapture, Sealed,
         FolderInv, CreatedInv, Content, ReceiptInv, ReceiptMeansWhole, vars, finalizationVars,
         promotionVars, files, locals, given, triplet, budgets

\* IInv is an invariant.
LEMMA Invariance == Spec => []IInv
<1>1. Init => IInv
  BY StartsRight
<1>2. IInv /\ [Next]_vars => IInv'
  BY CallStep, FolderStep, NothingMoves DEF Next
<1>3. QED
  BY <1>1, <1>2, PTL DEF Spec

\* Every variable of the writer, the finalization and the promotion keeps its type.
THEOREM PromotionIsTyped == Spec => []TypeOK
<1>1. IInv => TypeOK
  BY DEF IInv
<1>2. QED
  BY <1>1, Invariance, PTL

\* The old triplet's files survive, in place or in a sibling, until the new three
\* are in place, and a complete rollback leaves the targets as they were, at every
\* step and after a crash at any (_commit_tiff_triplet).
THEOREM OldTripletSurvives == Spec => []TripletRecoverable
<1>1. IInv => TripletRecoverable
  BY DEF IInv, WriterInv
<1>2. QED
  BY <1>1, Invariance, PTL

\* A manifest stands only for a whole, validated capture decoded from the bytes that
\* were hashed, and a whole receipt only beside three whole copies of one triplet,
\* unless the call that wrote the receipt failed to remove it again
\* (finalize_attempt, _write_receipt_exclusive, promote_single_pass_frame).
THEOREM SealsVouch == Spec => []SealsAreTrue
<1>1. IInv => SealsAreTrue
  BY DEF IInv, CallInv, FolderInv, SealsAreTrue
<1>2. QED
  BY <1>1, Invariance, PTL

\* The finalizer deletes the raw stream only beside a whole archive, when asked to,
\* and after the sidecar it consumed (finalize_attempt, _resume_committed).
THEOREM RawGoesLast == Spec => RawOutlivesTheArchive
<1> DEFINE A == stream # "absent" /\ stream' = "absent" /\ tampers' = tampers
                => /\ Sealed /\ manifest.requested
                   /\ manifest.used => receipt = "absent" /\ data = "absent"
<1>1. ASSUME IInv, [Next]_vars
      PROVE  A
  <2> USE BudgetAssumption
  <2> SUFFICES ASSUME stream # "absent", stream' = "absent", tampers' = tampers
               PROVE  /\ Sealed /\ manifest.requested
                      /\ manifest.used => receipt = "absent" /\ data = "absent"
    OBVIOUS
  <2>1. DropStream \/ ResumeStream
    <3>1. tampers \in Nat /\ ~Tampering
      BY <1>1 DEF Tampering, IInv, TypeOK, FinalizationType, TripletType
    <3>2. Next
      BY <1>1 DEF vars, finalizationVars, files
    <3>3. FinalizationNext
      BY <3>1, <3>2 DEF Next, Promote, PromotionStep, Pick, Open, Fill, Discard, Sync, Unpublish,
             PromotionCrash, ForeignFile, finalizationVars, files
    <3>4. FinalizeStep
      BY <3>1, <3>3 DEF FinalizationNext, Finalize, Crash, TamperSource, TamperArchive, files
    <3>5. QED
      BY <3>4 DEF FinalizeStep, HashAndValidate, Decode, Recheck, WriteTriplet,
             VerifyOutputs, WriteCheckpoint, WriteManifest, Reverify, LastHash, DropReceipt,
             DropData, ResumeVerify, files
  <2>2. Sealed /\ (manifest.requested /\ manifest.used => receipt = "absent" /\ data = "absent")
    BY <1>1, <2>1 DEF DropStream, ResumeStream, IInv, CallInv, OutputsInv, CleanupInv
  <2>3. manifest.requested
    <3>1. stream \in {"capture", "changed", "absent"} /\ want \in BOOLEAN
      BY <1>1 DEF IInv, TypeOK, FinalizationType
    <3>2. CASE DropStream
      BY <1>1, <3>1, <3>2 DEF DropStream, IInv, CallInv, OutputsInv
    <3>3. CASE ResumeStream
      BY <3>1, <3>3 DEF ResumeStream
    <3>4. QED
      BY <2>1, <3>2, <3>3
  <2>4. QED
    BY <2>2, <2>3
<1>2. IInv /\ [Next]_vars => [A]_finalizationVars
  BY <1>1
<1>3. QED
  BY <1>2, Invariance, PTL DEF Spec, RawOutlivesTheArchive

\* No promotion replaces or removes another program's file or what a finished
\* promotion left (_copy_exclusive, the cleanup of created files only).
THEOREM OthersFilesStay == Spec => FolderIsAppendOnly
<1> DEFINE Kept(k, i) == \/ folder[k][i] = Foreign
                         \/ /\ folder[k][Receipt] = Whole /\ folder[k][i] # Gone
                            /\ ~(step # "none" /\ sequence = k)
           A == \A k \in 1..Basenames, i \in Names : Kept(k, i) => folder'[k][i] = folder[k][i]
<1>1. ASSUME IInv, [Next]_vars
      PROVE  A
  <2> SUFFICES ASSUME NEW k \in 1..Basenames, NEW i \in Names, Kept(k, i)
               PROVE  folder'[k][i] = folder[k][i]
    OBVIOUS
  <2> USE DEF Names, Receipt, Roles, Gone, Partial, Foreign, Whole, Written, Generations,
             Contents
  <2>1. /\ folder \in [1..Basenames -> [Names -> Contents]]
        /\ sequence \in 1..Basenames /\ CreatedInv /\ OutputsInv /\ RunningInv
        /\ manifest \in Manifests
    BY <1>1 DEF IInv, TypeOK, PromotionType, FinalizationType, FolderInv, CallInv
  <2>2. CASE Open
    <3>1. at \in Names
      BY <2>1, <2>2 DEF Open, CreatedInv
    <3>2. CASE folder[sequence][at] = Gone /\ folder' = [folder EXCEPT ![sequence][at] = Partial]
      <4>1. step = "open" /\ ~(k = sequence /\ i = at)
        BY <2>2, <3>2 DEF Open
      <4>2. QED
        BY <2>1, <3>1, <3>2, <4>1
    <3>3. CASE UNCHANGED folder
      BY <3>3
    <3>4. QED
      BY <2>2, <3>2, <3>3 DEF Open
  <2>3. CASE Fill
    <3>1. at \in Names /\ folder[sequence][at] = Partial /\ step = "fill"
      BY <2>1, <2>3 DEF Fill, CreatedInv
    <3>2. ~(k = sequence /\ i = at)
      BY <3>1
    <3>3. PICK v : folder' = [folder EXCEPT ![sequence][at] = v]
      BY <2>3 DEF Fill
    <3>4. QED
      BY <2>1, <3>1, <3>2, <3>3
  <2>10. CASE Discard
    <3>1. at \in Names /\ step = "discard" /\ folder[sequence][at] \in {Partial, Content}
      BY <2>1, <2>10 DEF Discard, CreatedInv
    <3>2. folder[sequence][at] # Foreign
      BY <1>1, <3>1 DEF Content, IInv, TypeOK, FinalizationType, TripletType, Altered
    <3>3. ~(k = sequence /\ i = at)
      BY <3>1, <3>2
    <3>4. CASE folder' = [folder EXCEPT ![sequence][at] = Gone]
      BY <2>1, <3>1, <3>3, <3>4
    <3>5. QED
      BY <2>10, <3>4 DEF Discard
  <2>4. CASE Unpublish
    <3>1. at \in 0..4
      BY <2>1, <2>4 DEF Unpublish, CreatedInv
    <3>2. at \in created => folder[sequence][at] # Foreign
      BY <1>1, <2>1, <2>4 DEF Unpublish, CreatedInv, IInv, TypeOK, FinalizationType, TripletType,
                              PromotionType, Altered
    <3>3. QED
      <4>1. CASE UNCHANGED folder
        BY <4>1
      <4>2. CASE at # 0 /\ folder' = [folder EXCEPT ![sequence][at] =
                                      IF at \in created THEN Gone ELSE folder[sequence][at]]
        BY <2>1, <2>4, <3>1, <3>2, <4>2 DEF Unpublish
      <4>3. QED
        BY <2>4, <4>1, <4>2 DEF Unpublish
  <2>5. CASE ForeignFile
    <3>1. PICK f \in 1..Basenames, n \in Names :
             folder[f][n] = Gone /\ folder' = [folder EXCEPT ![f][n] = Foreign]
      BY <2>5 DEF ForeignFile
    <3>2. ~(k = f /\ i = n)
      BY <3>1
    <3>3. QED
      BY <2>1, <3>1, <3>2
  <2>6. CASE UNCHANGED folder
    BY <2>6
  <2>7. QED
    BY <1>1, <2>2, <2>3, <2>4, <2>5, <2>6, <2>10
       DEF Next, Promote, PromotionStep, Pick, Sync, PromotionCrash, promotionVars, vars
<1>2. IInv /\ [Next]_vars => [A]_vars
  BY <1>1
<1>3. QED
  BY <1>2, Invariance, PTL DEF Spec, FolderIsAppendOnly

===============================================================================
