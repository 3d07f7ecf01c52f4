----------------------------- MODULE Finalization -----------------------------
(***************************************************************************)
(* Finalization of one captured frame (capture/single_pass_workflow.py):   *)
(* the worker's journal and raw stream are validated, the stream is        *)
(* decoded (or the streaming sidecar taken instead), three TIFFs are       *)
(* committed, a completion manifest is published, and only then is the raw *)
(* stream deleted.  The call may be repeated after any failure; a second   *)
(* call finds the manifest and resumes.  The process may die between any   *)
(* two file operations (MaxCrashes), an operation may fail (MaxFaults),    *)
(* and somebody else may change a file (MaxTampers): the sources at any    *)
(* moment, what has been archived only between two calls.                  *)
(***************************************************************************)
EXTENDS TiffTriplet

VARIABLES
    attempt,     \* what the attempt and its journal say: never changes
    smeared,     \* the stopped-transport smear check's verdict of the image
    stream, journal,        \* the worker's files: "capture", "changed" or "absent"
    receipt, data,          \* the streaming sidecar: its commit marker, its array
    checkpoint,  \* scratch-deletion.json
    manifest,    \* manifest.json
    want,        \* delete_scratch of the running call
    saw,         \* the hashes of stream and journal it holds
    used,        \* streamed_consumed
    resuming,    \* the call found a manifest
    image        \* what was decoded: the capture or something else

files == <<stream, journal, receipt, data, checkpoint, manifest>>
locals == <<want, saw, used, resuming, image>>
given == <<attempt, smeared>>

-----------------------------------------------------------------------------
(* The evidence the validators read, grouped by what they compare. *)

Evidence ==
    [ batch : BOOLEAN,                          \* batch_session_id is given
      workerOk : BOOLEAN,                       \* worker_returncode = 0
      counts : {"full", "short"},               \* mode, reads, bytes, preview check
      status : {"complete", "frame-complete", "failed"},
      released : BOOLEAN, retained : BOOLEAN,   \* unit_released, reservation_retained
      session : {"this", "other"},              \* batch_session, continuation plan
      recovery : {"none", "required"},
      output : {"this", "other"},               \* output path and output_sha256
      place : {"this", "other"},                \* slot, offset, native origin, scanner
      roll : {"absent", "matched", "differs"},  \* fingerprint comparison of the roll
      slotMatch : BOOLEAN,                      \* ... and of the selected slot
      automatic : BOOLEAN, review : BOOLEAN,    \* selected.automatic, .manual_review
      accepted : BOOLEAN,                       \* leading-anchor divergence accepted
      approval : {"none", "this", "other"},     \* manual_review_approval
      windows : {"bound", "preflight", "moved"},
      exposure : {"bound", "unbound"},          \* meter result, echo, parity authority
      streaming : BOOLEAN ]                     \* the worker reported an "ok" sidecar

\* Four colour windows at the selected origin, equal before and after SET_WINDOW.
ValidatedWindows(ev) == ev.windows = "bound"

\* Single frames may have no roll identity; with one, both comparisons must have
\* matched, and a selection that is not automatic needs an approval that binds
\* this roll, slot and offset, as does any approval that is there.
ValidatedRollEvidence(ev) ==
    \/ ev.roll = "absent" /\ ~ev.batch
    \/ /\ ev.roll = "matched" /\ ev.slotMatch
       /\ \/ ev.approval = "this"
          \/ /\ ev.approval = "none"
             /\ (ev.automatic /\ ~ev.review) \/ ev.accepted

\* _validate_completed_capture: hashed is the content of the stream just hashed.
ValidatedCapture(ev, hashed) ==
    /\ ev.counts = "full"
    /\ IF ev.batch
       THEN ev.status = "frame-complete" /\ ~ev.released /\ ev.retained /\ ev.session = "this"
       ELSE ev.status = "complete" /\ ev.released /\ ~ev.retained
    /\ ev.recovery = "none"
    /\ ev.output = "this" /\ hashed = "capture"
    /\ ev.place = "this"
    /\ ValidatedRollEvidence(ev)
    /\ ValidatedWindows(ev)
    /\ ev.exposure = "bound"

Frame(batch, automatic, approval) ==
    [ batch |-> batch, workerOk |-> TRUE, counts |-> "full",
      status |-> IF batch THEN "frame-complete" ELSE "complete",
      released |-> ~batch, retained |-> batch, session |-> "this",
      recovery |-> "none", output |-> "this", place |-> "this", roll |-> "matched",
      slotMatch |-> TRUE, automatic |-> automatic, review |-> ~automatic,
      accepted |-> FALSE, approval |-> approval, windows |-> "bound",
      exposure |-> "bound", streaming |-> TRUE ]

Good == Frame(TRUE, FALSE, "this")

\* A single frame of a roll nobody reviewed, without a sidecar.
Single == [Frame(FALSE, TRUE, "none") EXCEPT !.roll = "absent", !.streaming = FALSE]

\* What is wrong, or unusual, about one attempt: one thing at a time.
Attempts ==
    {Good, Single,
     [Frame(TRUE, FALSE, "none") EXCEPT !.accepted = TRUE],
     Frame(TRUE, FALSE, "none"), Frame(TRUE, FALSE, "other"), Frame(FALSE, FALSE, "none"),
     [Single EXCEPT !.retained = TRUE], [Single EXCEPT !.released = FALSE],
     [Good EXCEPT !.workerOk = FALSE], [Good EXCEPT !.counts = "short"],
     [Good EXCEPT !.released = TRUE], [Good EXCEPT !.session = "other"],
     [Good EXCEPT !.recovery = "required"], [Good EXCEPT !.output = "other"],
     [Good EXCEPT !.place = "other"], [Good EXCEPT !.roll = "absent"],
     [Good EXCEPT !.roll = "differs"], [Good EXCEPT !.slotMatch = FALSE],
     [Frame(TRUE, TRUE, "other") EXCEPT !.review = FALSE], [Good EXCEPT !.windows = "moved"],
     [Good EXCEPT !.exposure = "unbound"]}

-----------------------------------------------------------------------------
NoManifest == [kind |-> "absent"]

\* Variant: the evidence of the outputs is taken before they are written.
EvidenceTooEarly(g, del, sidecar, jrn) ==
    [kind |-> "this", outputs |-> Gone, requested |-> del, used |-> sidecar, journal |-> jrn]

\* The completion manifest binds the evidence, the three outputs, the journal,
\* the deletion policy and whether a sidecar was taken.
Manifest(g, del, sidecar, jrn) ==
    [kind |-> "this", outputs |-> g, requested |-> del, used |-> sidecar, journal |-> jrn]

Manifests ==
    {NoManifest, [kind |-> "altered"]}
    \cup [kind : {"this"}, outputs : Written, requested : BOOLEAN, used : BOOLEAN,
          journal : {"capture", "changed"}]

Steps == {"idle", "hash", "decode", "recheck", "temps", "moveOld", "place", "rollback",
          "dropBackups", "verify", "checkpoint", "manifest", "reverify", "lastHash",
          "dropReceipt", "dropData", "dropStream", "resume", "resumeStream"}

FinalizationType ==
    /\ TripletType
    /\ pc \in Steps
    /\ verdict \in {"none", "running", "raised", "rolledBack", "incomplete", "crashed", "done"}
    /\ attempt \in Evidence
    /\ smeared \in BOOLEAN
    /\ stream \in {"capture", "changed", "absent"}
    /\ journal \in {"capture", "changed"}
    /\ receipt \in {"capture", "changed", "absent"}
    /\ data \in {"capture", "changed", "absent"}
    /\ checkpoint \in {"capture", "other", "absent"}
    /\ manifest \in Manifests
    /\ want \in BOOLEAN
    /\ saw \in [stream : {"capture", "changed"}, journal : {"capture", "changed"}]
    /\ used \in BOOLEAN /\ resuming \in BOOLEAN
    /\ image \in {"capture", "changed"}

FinalizationInit ==
    /\ TripletInit
    /\ pc = "idle" /\ verdict = "none"
    /\ attempt \in Attempts
    /\ smeared \in BOOLEAN
    /\ (smeared => attempt = Good)
    /\ stream = "capture" /\ journal = "capture"
    \* without a receipt the array may still be there, left by a frame that failed
    /\ receipt = (IF attempt.streaming THEN "capture" ELSE "absent")
    /\ data = "capture"
    /\ checkpoint = "absent" /\ manifest = NoManifest
    /\ want = FALSE /\ used = FALSE /\ resuming = FALSE
    /\ saw = [stream |-> "capture", journal |-> "capture"]
    /\ image = "changed"

-----------------------------------------------------------------------------
(* The call, up to the writer *)

\* finalize_attempt: with a manifest on disk the call resumes; without one it
\* refuses an attempt whose worker failed.
Finalize ==
    /\ pc = "idle"
    /\ want' \in (IF manifest = NoManifest THEN BOOLEAN ELSE {FALSE})  \* a resume ignores it
    /\ resuming' = (manifest # NoManifest)
    /\ saw' = [stream |-> "capture", journal |-> "capture"] /\ used' = FALSE
    /\ CASE manifest # NoManifest -> pc' = "resume" /\ verdict' = "running"
         [] manifest = NoManifest /\ ~attempt.workerOk -> Raise("raised")
         [] OTHER -> pc' = "hash" /\ verdict' = "running"
    /\ UNCHANGED <<given, files, image, triplet, budgets>>

\* The journal is loaded, the stream hashed, and the one validated against the
\* other.  A journal somebody changed may still be a valid one, or not.
HashAndValidate ==
    /\ pc = "hash"
    /\ \/ /\ stream # "absent"
          /\ ValidatedCapture(attempt, stream)
          /\ saw' = [stream |-> stream, journal |-> journal]
          /\ pc' = "decode" /\ UNCHANGED verdict
       \/ /\ \/ stream = "absent" \/ journal = "changed"
             \/ ~ValidatedCapture(attempt, stream)
          /\ Raise("raised") /\ UNCHANGED saw
    /\ UNCHANGED <<given, files, want, used, resuming, image, triplet, budgets>>

\* A receipt loads if it is a regular file with every field of the schema, and an
\* array if it is the one the receipt describes, before and after reading it.
ReceiptLoads == receipt = "capture"
ArrayLoads == data = "capture"

\* A sidecar bound to this stream is taken; anything else about it, and the raw
\* stream is decoded: _try_consume_streamed_artifact never raises.
Consumable == attempt.streaming /\ ReceiptLoads /\ ArrayLoads

\* The smear check refuses an image that is not clean; it, the clipping and
\* focus telemetry and the decoder may also refuse whatever they cannot read.
Decode ==
    /\ pc = "decode"
    /\ \/ /\ used' = Consumable
          /\ image' = IF Consumable THEN "capture" ELSE stream
          /\ stream # "absent" /\ (image' = "capture" => ~smeared)
          /\ pc' = "recheck" /\ UNCHANGED verdict
       \/ /\ smeared \/ stream # "capture"
          /\ Raise("raised") /\ UNCHANGED <<used, image>>
    /\ UNCHANGED <<given, files, want, saw, resuming, triplet, budgets>>

\* Variant: only the journal is looked at again.
RecheckJournalOnly ==
    /\ pc = "recheck"
    /\ IF journal = saw.journal THEN pc' = "temps" /\ UNCHANGED verdict ELSE Raise("raised")
    /\ UNCHANGED <<given, files, locals, triplet, budgets>>

\* Both sources are hashed again: what was decoded is what was validated.
Recheck ==
    /\ pc = "recheck"
    /\ IF stream = saw.stream /\ journal = saw.journal
       THEN pc' = "temps" /\ UNCHANGED verdict
       ELSE Raise("raised")
    /\ UNCHANGED <<given, files, locals, triplet, budgets>>

WriteTriplet == WriterStep /\ UNCHANGED <<given, files, locals>>

-----------------------------------------------------------------------------
(* From the committed triplet to the committed manifest *)

\* _verify_outputs: hash, size, name and layout of each file against its evidence.
OutputsAre(g) == \A r \in Roles : out[r] = g

\* _verify_cleanup_checkpoint: unchanged, and naming the stream about to go.
CheckpointVerifies == checkpoint = "capture"

\* The manifest's own digest, its identity and its quality evidence verify.
ManifestVerifies == manifest.kind = "this"

VerifyOutputs ==
    /\ pc = "verify"
    /\ IF OutputsAre(gen)
       THEN pc' = (IF want THEN "checkpoint" ELSE "manifest") /\ UNCHANGED verdict
       ELSE Raise("raised")
    /\ UNCHANGED <<given, files, locals, triplet, budgets>>

\* A file is published by linking a finished temporary to its name: it is absent
\* or whole.  A failure before the link leaves no file, one after it leaves the
\* file, and both raise.  An existing name is never replaced.
WriteExclusive(path, content) ==
    \/ path' = content /\ UNCHANGED budgets
    \/ path' \in {path, content} /\ Fault

\* Variant: any checkpoint that is already there is refused.
CheckpointMustBeNew ==
    /\ pc = "checkpoint"
    /\ IF checkpoint # "absent"
       THEN Raise("raised") /\ UNCHANGED <<checkpoint, budgets>>
       ELSE /\ WriteExclusive(checkpoint, "capture")
            /\ IF faults' = faults THEN pc' = "manifest" /\ UNCHANGED verdict ELSE Raise("raised")
    /\ UNCHANGED <<given, stream, journal, receipt, data, manifest, locals, triplet>>

WriteCheckpoint ==
    /\ pc = "checkpoint"
    /\ CASE checkpoint = "capture" -> /\ pc' = "manifest"
                                      /\ UNCHANGED <<verdict, checkpoint, budgets>>
         [] checkpoint = "other" -> Raise("raised") /\ UNCHANGED <<checkpoint, budgets>>
         [] OTHER -> /\ WriteExclusive(checkpoint, "capture")
                     /\ IF faults' = faults THEN pc' = "manifest" /\ UNCHANGED verdict
                                            ELSE Raise("raised")
    /\ UNCHANGED <<given, stream, journal, receipt, data, manifest, locals, triplet>>

WriteManifest ==
    /\ pc = "manifest"
    /\ IF manifest = NoManifest
       THEN /\ WriteExclusive(manifest, Manifest(gen, want, used, saw.journal))
            /\ IF faults' = faults THEN pc' = "reverify" /\ UNCHANGED verdict
                                   ELSE Raise("raised")
       ELSE Raise("raised") /\ UNCHANGED <<manifest, budgets>>
    /\ UNCHANGED <<given, stream, journal, receipt, data, checkpoint, locals, triplet>>

\* The manifest is read back, the outputs and the checkpoint are verified again.
Reverify ==
    /\ pc = "reverify"
    /\ CASE ~OutputsAre(manifest.outputs) -> Raise("raised")
         [] OutputsAre(manifest.outputs) /\ ~want -> Raise("done")
         [] OTHER -> IF CheckpointVerifies THEN pc' = "lastHash" /\ UNCHANGED verdict
                                               ELSE Raise("raised")
    /\ UNCHANGED <<given, files, locals, triplet, budgets>>

LastHash ==
    /\ pc = "lastHash"
    /\ IF stream = saw.stream
       THEN pc' = (IF used THEN "dropReceipt" ELSE "dropStream") /\ UNCHANGED verdict
       ELSE Raise("raised")
    /\ UNCHANGED <<given, files, locals, triplet, budgets>>

-----------------------------------------------------------------------------
(* Cleanup: the sidecar's marker, its data, and last of all the raw stream *)

\* One file of the sidecar: absent means an earlier cleanup got this far, a
\* changed one is left alone and stops the cleanup.
DropSidecarFile(path, next) ==
    CASE path = "absent" -> pc' = next /\ UNCHANGED <<verdict, path, budgets>>
      [] path = "changed" -> Raise("raised") /\ UNCHANGED <<path, budgets>>
      [] OTHER -> \/ path' = "absent" /\ pc' = next /\ UNCHANGED <<verdict, budgets>>
                  \/ path' \in {path, "absent"} /\ Raise("raised") /\ Fault

DropReceipt ==
    /\ pc = "dropReceipt"
    /\ DropSidecarFile(receipt, "dropData")
    /\ UNCHANGED <<given, stream, journal, data, checkpoint, manifest, locals, triplet>>

DropData ==
    /\ pc = "dropData"
    /\ DropSidecarFile(data, IF resuming THEN "resumeStream" ELSE "dropStream")
    /\ UNCHANGED <<given, stream, journal, receipt, checkpoint, manifest, locals, triplet>>

DropStream ==
    /\ pc = "dropStream"
    /\ \/ stream # "absent" /\ stream' = "absent" /\ Raise("done") /\ UNCHANGED budgets
       \/ stream = "absent" /\ Raise("raised") /\ UNCHANGED <<stream, budgets>>
       \/ Fault /\ Raise("raised") /\ UNCHANGED stream
    /\ UNCHANGED <<given, journal, receipt, data, checkpoint, manifest, locals, triplet>>

-----------------------------------------------------------------------------
(* _resume_committed *)

\* Variant: the manifest is believed, the outputs are not read.
ResumeWithoutOutputs ==
    /\ pc = "resume"
    /\ IF /\ ManifestVerifies /\ journal = manifest.journal
          /\ manifest.requested => CheckpointVerifies
       THEN /\ pc' = IF manifest.requested /\ manifest.used THEN "dropReceipt" ELSE "resumeStream"
            /\ UNCHANGED verdict
       ELSE Raise("raised")
    /\ UNCHANGED <<given, files, locals, triplet, budgets>>

\* The manifest must bind this attempt and its clean quality check, the outputs
\* and the journal must still be what it binds, and so must the checkpoint if
\* the deletion was requested; then the sidecar it says was taken is cleaned up.
ResumeVerify ==
    /\ pc = "resume"
    /\ IF /\ ManifestVerifies
          /\ OutputsAre(manifest.outputs)
          /\ journal = manifest.journal
          /\ manifest.requested => CheckpointVerifies
       THEN /\ pc' = IF manifest.requested /\ manifest.used THEN "dropReceipt" ELSE "resumeStream"
            /\ UNCHANGED verdict
       ELSE Raise("raised")
    /\ UNCHANGED <<given, files, locals, triplet, budgets>>

\* A stream that is there must be the one the manifest binds, and goes if the
\* deletion was requested; one that is gone was to be deleted.
ResumeStream ==
    /\ pc = "resumeStream"
    /\ CASE stream = "changed" -> Raise("raised") /\ UNCHANGED <<stream, budgets>>
         [] stream = "absent" -> /\ Raise(IF manifest.requested THEN "done" ELSE "raised")
                                 /\ UNCHANGED <<stream, budgets>>
         [] stream = "capture" /\ ~manifest.requested -> Raise("done") /\ UNCHANGED <<stream, budgets>>
         [] OTHER -> \/ stream' = "absent" /\ Raise("done") /\ UNCHANGED budgets
                     \/ Fault /\ Raise("raised") /\ UNCHANGED stream
    /\ UNCHANGED <<given, journal, receipt, data, checkpoint, manifest, locals, triplet>>

-----------------------------------------------------------------------------
(* The environment *)

\* The process dies; what is on disk stays.
Crash ==
    /\ pc # "idle"
    /\ crashes < MaxCrashes
    /\ crashes' = crashes + 1
    /\ Raise("crashed")
    /\ at' = 1 /\ moved' = {} /\ placed' = {}
    /\ want' = FALSE /\ used' = FALSE /\ resuming' = FALSE
    /\ UNCHANGED <<given, files, saw, image, out, bak, before, gen, faults, tampers>>

Tampering == tampers < MaxTampers /\ tampers' = tampers + 1

\* Somebody changes, or deletes, a source, at any moment.
TamperSource ==
    /\ Tampering
    /\ \/ stream = "capture" /\ stream' \in {"changed", "absent"} /\ UNCHANGED <<journal, receipt, data>>
       \/ journal = "capture" /\ journal' = "changed" /\ UNCHANGED <<stream, receipt, data>>
       \/ receipt = "capture" /\ receipt' \in {"changed", "absent"} /\ UNCHANGED <<stream, journal, data>>
       \/ data = "capture" /\ data' \in {"changed", "absent"} /\ UNCHANGED <<stream, journal, receipt>>
    /\ UNCHANGED <<pc, verdict, given, checkpoint, manifest, locals, triplet, faults, crashes>>

\* ... or something of the archive, between two calls.
TamperArchive ==
    /\ pc = "idle" /\ Tampering
    /\ \/ \E r \in Roles : /\ out[r] # Gone
                           /\ out' = [out EXCEPT ![r] = Altered]
                           /\ before' = out' /\ UNCHANGED <<checkpoint, manifest>>
       \/ checkpoint' = "other" /\ UNCHANGED <<out, before, manifest>>
       \/ /\ manifest.kind = "this" /\ manifest' = [kind |-> "altered"]
          /\ UNCHANGED <<out, before, checkpoint>>
    /\ UNCHANGED <<pc, verdict, given, stream, journal, receipt, data, locals,
                   bak, gen, at, moved, placed, faults, crashes>>

FinalizeStep ==
    \/ HashAndValidate \/ Decode \/ Recheck \/ WriteTriplet \/ VerifyOutputs
    \/ WriteCheckpoint \/ WriteManifest \/ Reverify \/ LastHash
    \/ DropReceipt \/ DropData \/ DropStream \/ ResumeVerify \/ ResumeStream

FinalizationNext == Finalize \/ FinalizeStep \/ Crash \/ TamperSource \/ TamperArchive

finalizationVars == <<pc, verdict, given, files, locals, triplet, budgets>>

-----------------------------------------------------------------------------
(* Properties *)

\* The frame's archive is whole: a manifest, and the outputs it binds.
Sealed == manifest.kind = "this" /\ OutputsAre(manifest.outputs)

\* The capture an archive may be made of, stated from what it must mean: read to
\* the end, with the unit left as the kind of attempt leaves it, of the chosen
\* place on the reviewed roll, and approved by a person where the detector was
\* not sure of the frame.
WholeCapture(ev) ==
    /\ ev.workerOk /\ ev.counts = "full" /\ ev.output = "this" /\ ev.place = "this"
    /\ ev.recovery = "none" /\ ev.windows = "bound" /\ ev.exposure = "bound"
    /\ ev.released = ~ev.batch /\ ev.retained = ev.batch
    /\ ev.batch => ev.roll = "matched" /\ ev.session = "this"
    /\ ev.roll # "differs" /\ ev.slotMatch
    /\ ev.roll = "matched" /\ (~ev.automatic \/ ev.review) /\ ~ev.accepted => ev.approval = "this"

\* A completion manifest exists only for such a capture, and what was archived is
\* the decoded capture with a clean smear verdict, even when somebody changes
\* stream, journal or sidecar while the call runs.
\* (finalize_attempt: validation, decode, second hash)
SealedIsTheCapture ==
    manifest.kind = "this" => WholeCapture(attempt) /\ image = "capture" /\ ~smeared

\* The finalizer deletes the raw stream only while the archive that replaces it
\* is whole on disk, was asked to, and has no consumed sidecar left to clean up.
\* (finalize_attempt and _resume_committed: the deletion is the last step)
RawOutlivesTheArchive ==
    [][ stream # "absent" /\ stream' = "absent" /\ tampers' = tampers
        => /\ Sealed /\ manifest.requested
           /\ manifest.used => receipt = "absent" /\ data = "absent" ]_finalizationVars

\* If nobody tampers with the files, a good capture is archived in the end, and
\* its raw stream and sidecar go if the call that archived it was asked to
\* delete them, whatever crashed or failed on the way.
\* (finalize_attempt: "repeat calls safely resume")
Settled ==
    /\ Sealed
    /\ manifest.requested => stream = "absent" /\ (manifest.used => receipt = "absent" /\ data = "absent")

GoodCaptureSettles ==
    ValidatedCapture(attempt, "capture") /\ attempt.workerOk /\ ~smeared
        => <>(tampers > 0 \/ Settled)
=============================================================================
