----------------------------- MODULE LiveWorker -----------------------------
(***************************************************************************)
(* The capture child of a roll batch and the scanner it drives             *)
(* (src/src/coolscanpy/protocol/ls5000_single_pass/worker.py,              *)
(* run_live_capture in batch mode).                                        *)
(*                                                                         *)
(* One child process makes one batch in one reservation of the scanner.    *)
(* It reserves, scans frame after frame, publishes a frame-complete        *)
(* journal for each and waits for the parent's ACK before it goes on, and  *)
(* releases once at the end.  Whatever fails on the way, the exception     *)
(* path decides from the child's own bookkeeping whether another command   *)
(* is safe, cleans the scanner up if it is, and leaves a session receipt   *)
(* that says if the scanner needs a power cycle.                           *)
(*                                                                         *)
(* A command sent to the scanner has three outcomes: it is done, it is     *)
(* refused in good order (SynchronizedProtocolError), or the exchange is   *)
(* lost halfway and nobody knows (a USB error, DesynchronizedProtocolError).*)
(***************************************************************************)
EXTENDS Naturals

CONSTANTS
    NFrames,         \* frames of the batch
    Passes,          \* scans of one frame: meter passes and the fine scan
    UntracedEffects  \* a command refused for an untraced answer may have been
                     \* carried out all the same

ASSUME LiveAssumption ==
    /\ NFrames \in Nat \ {0}
    /\ Passes \in Nat \ {0}
    /\ UntracedEffects \in BOOLEAN

Frames == 1..NFrames

VARIABLES
    \* the scanner: its reservation, its scan, and how often it was sent RELEASE
    unitReserved, scan, releases,
    \* the child: where it is, its frame and the scans made of it, and its
    \* locals reserved, scan_active, ready_required, frame_journal_finalized
    \* and batch_stopped
    child, frame, scans, reserved, scanActive, readyRequired, finalized,
    batchStopped,
    \* its exception path: synchronized, and what the cleanup came to
    sync, releaseTried, cleaned,
    \* the session journal in memory and on disk, and the exit code
    receipt, disk, returncode,
    \* per frame: its journal on disk, and the parent's ACK
    journal, ack

scannerVars == <<unitReserved, scan, releases>>
localVars   == <<reserved, scanActive, readyRequired>>
cleanupVars == <<releaseTried, cleaned>>
sessionVars == <<receipt, disk>>
childVars   == <<child, frame, scans, localVars, finalized, batchStopped, sync,
                 cleanupVars, sessionVars, returncode, journal>>
workerVars  == <<scannerVars, childVars, ack>>

Statuses == {"none", "capturing", "awaiting-parent-ack", "releasing",
             "complete", "stopped", "failed"}
Recoveries == {"unset", "none", "power-cycle"}
Receipts == [status : Statuses, completed : 0..NFrames, acquired : BOOLEAN,
             attempts : {0, 1}, released : BOOLEAN, recovery : Recoveries]

\* "spoiled" is a "failed" journal written over a frame-complete one.
Journals == {"none", "open", "complete", "failed", "spoiled"}

\* Where an error of a later frame's capture is caught by the frame first.
FramePcs == {"ready", "reissue", "reading", "settling", "captured"}
ChildPcs == FramePcs \cup
    {"unborn", "start", "connect", "reserve", "book", "await", "open",
     "prepare", "release", "report", "spoil", "except", "cancel", "settle",
     "giveBack", "fail", "exited"}

ScannerTypeOK ==
    /\ unitReserved \in BOOLEAN /\ scan \in {"idle", "active", "settling"}
    /\ releases \in Nat
PlaceTypeOK == child \in ChildPcs /\ frame \in Frames /\ scans \in 0..Passes
FlagTypeOK ==
    /\ reserved \in BOOLEAN /\ scanActive \in BOOLEAN /\ readyRequired \in BOOLEAN
    /\ finalized \in BOOLEAN /\ batchStopped \in BOOLEAN /\ sync \in BOOLEAN
    /\ releaseTried \in BOOLEAN /\ cleaned \in BOOLEAN
SessionTypeOK == receipt \in Receipts /\ disk \in Receipts
FileTypeOK ==
    /\ returncode \in {"running", "ok", "failed", "bootstrap"}
    /\ journal \in [Frames -> Journals]
    /\ ack \in [Frames -> {"none", "continue", "stop"}]
WorkerTypeOK ==
    ScannerTypeOK /\ PlaceTypeOK /\ FlagTypeOK /\ SessionTypeOK /\ FileTypeOK

NoReceipt == [status |-> "none", completed |-> 0, acquired |-> FALSE,
              attempts |-> 0, released |-> FALSE, recovery |-> "unset"]

WorkerInit ==
    /\ unitReserved = FALSE /\ scan = "idle" /\ releases = 0
    /\ child = "unborn" /\ frame = 1 /\ scans = 0
    /\ reserved = FALSE /\ scanActive = FALSE /\ readyRequired = FALSE
    /\ finalized = FALSE /\ batchStopped = FALSE /\ sync = TRUE
    /\ releaseTried = FALSE /\ cleaned = FALSE
    /\ receipt = NoReceipt /\ disk = NoReceipt /\ returncode = "running"
    /\ journal = [f \in Frames |-> "none"]
    /\ ack = [f \in Frames |-> "none"]

-----------------------------------------------------------------------------
(* Errors and journal writes.                                              *)

\* An exception, at a transaction boundary (or a refusal in good order) or
\* not.  A later frame's own handler runs first.
Raise(synchronized) ==
    /\ sync' = synchronized
    /\ child' = IF frame > 1 /\ child \in FramePcs THEN "spoil" ELSE "except"

GoOn(p) == child' = p /\ UNCHANGED sync

\* _write_journal of the session: it may fail before the file is replaced, or
\* after, while the directory is synced.
Persist(new, next) ==
    /\ receipt' = new
    /\ \/ disk' = new /\ GoOn(next)
       \/ disk' \in {disk, new} /\ Raise(TRUE)

\* _write_journal of the active frame.
PersistFrame(status, next) ==
    LET new == [journal EXCEPT ![frame] = status] IN
    \/ journal' = new /\ GoOn(next)
    \/ journal' \in {journal, new} /\ Raise(TRUE)

Exit(code) == child' = "exited" /\ returncode' = code

\* The scan after a command was refused that would have made it s.
Refused(s) == IF UntracedEffects THEN {scan, s} ELSE {scan}

-----------------------------------------------------------------------------
(* Startup and reservation.                                                *)

\* The launcher, main() and run_live_capture up to its try: failures here
\* leave whatever was written and no exception path.
ChildStarts ==
    LET first == [NoReceipt EXCEPT !.status = "capturing"] IN
    /\ child = "start"
    /\ \/ Exit("bootstrap") /\ UNCHANGED <<sessionVars, journal, sync>>
       \/ /\ Exit("failed")
          /\ receipt' = first /\ disk' \in {disk, first}
          /\ UNCHANGED <<journal, sync>>
       \/ /\ receipt' = first /\ disk' = first
          /\ journal' = [journal EXCEPT ![1] = "open"]
          /\ GoOn("connect")
          /\ UNCHANGED returncode
    /\ UNCHANGED <<scannerVars, frame, scans, localVars, finalized, batchStopped,
                   cleanupVars, ack>>

\* Find the exact scanner, record its address, run the commands that precede
\* RESERVE.
Connect ==
    /\ child = "connect"
    /\ \/ Persist(receipt, "reserve")
       \/ \E s \in BOOLEAN : Raise(s) /\ UNCHANGED sessionVars
    /\ UNCHANGED <<scannerVars, frame, scans, localVars, finalized, batchStopped,
                   cleanupVars, returncode, journal, ack>>

Reserve ==
    /\ child = "reserve"
    /\ \/ /\ unitReserved' = TRUE
          /\ reserved' = TRUE
          /\ Persist([receipt EXCEPT !.acquired = TRUE], "ready")
       \/ Raise(TRUE) /\ UNCHANGED <<unitReserved, reserved, sessionVars>>
       \/ /\ Raise(FALSE)
          /\ unitReserved' \in BOOLEAN
          /\ UNCHANGED <<reserved, sessionVars>>
    /\ UNCHANGED <<scan, releases, frame, scans, scanActive, readyRequired,
                   finalized, batchStopped, cleanupVars, returncode, journal, ack>>

-----------------------------------------------------------------------------
(* One frame.                                                              *)

\* A command that arms no scan, a validation, a file or a journal fails: at
\* a boundary or not, with the scan as it was.
FrameFails ==
    /\ child \in FramePcs
    /\ \E s \in BOOLEAN : (child = "captured" => s) /\ Raise(s)
    /\ UNCHANGED <<scannerVars, frame, scans, localVars, finalized, batchStopped,
                   cleanupVars, sessionVars, returncode, journal, ack>>

\* SCAN.  The plan knows which arms of a reissue chain the scanner rejects
\* ("ready") and which one it accepts ("reissue"); any other answer is
\* refused before the bookkeeping is brought up to date.
ArmScan ==
    /\ child \in {"ready", "reissue"}
    /\ \/ /\ child = "ready"
          /\ GoOn("reissue")
          /\ scanActive' = FALSE
          /\ UNCHANGED <<scan, readyRequired>>
       \/ /\ child = "reissue"
          /\ scan' = "active"
          /\ scanActive' = TRUE /\ readyRequired' = FALSE
          /\ GoOn("reading")
       \/ /\ Raise(TRUE)
          /\ scan' \in Refused("active")
          /\ UNCHANGED <<scanActive, readyRequired>>
       \/ /\ Raise(FALSE)
          /\ scan' \in {scan, "active"}
          /\ UNCHANGED <<scanActive, readyRequired>>
    /\ UNCHANGED <<unitReserved, releases, frame, scans, reserved, finalized,
                   batchStopped, cleanupVars, sessionVars, returncode, journal, ack>>

\* The READ that drains the scan.
DrainScan ==
    /\ child = "reading"
    /\ \/ /\ scan' = "settling"
          /\ scanActive' = FALSE /\ readyRequired' = TRUE
          /\ GoOn("settling")
       \/ /\ Raise(TRUE)
          /\ scan' \in Refused("settling")
          /\ UNCHANGED <<scanActive, readyRequired>>
       \/ /\ Raise(FALSE)
          /\ scan' \in {scan, "settling"}
          /\ UNCHANGED <<scanActive, readyRequired>>
    /\ UNCHANGED <<unitReserved, releases, frame, scans, reserved, finalized,
                   batchStopped, cleanupVars, sessionVars, returncode, journal, ack>>

\* The TEST UNIT READY polls after a scan; a lost poll may have come too late.
\* (OneScanTooMany: a variant that counts its passes one too far.)
OneScanTooMany ==
    /\ child = "settling"
    /\ scan' = "idle"
    /\ readyRequired' = FALSE
    /\ scans' = scans + 1
    /\ GoOn(IF scans = Passes THEN "captured" ELSE "ready")
    /\ UNCHANGED <<unitReserved, releases, frame, reserved, scanActive, finalized,
                   batchStopped, cleanupVars, sessionVars, returncode, journal, ack>>
WaitReady ==
    /\ child = "settling"
    /\ \/ /\ scan' = "idle"
          /\ readyRequired' = FALSE
          /\ scans' = scans + 1
          /\ GoOn(IF scans + 1 = Passes THEN "captured" ELSE "ready")
       \/ /\ \E s \in BOOLEAN : Raise(s)
          /\ scan' \in {scan, "idle"}
          /\ UNCHANGED <<readyRequired, scans>>
    /\ UNCHANGED <<unitReserved, releases, frame, reserved, scanActive, finalized,
                   batchStopped, cleanupVars, sessionVars, returncode, journal, ack>>

\* The frame-complete journal hands the frame to the parent.
PublishFrame ==
    /\ child = "captured"
    /\ PersistFrame("complete", "book")
    /\ finalized' = (finalized \/ child' = "book")
    /\ UNCHANGED <<scannerVars, frame, scans, localVars, batchStopped, cleanupVars,
                   sessionVars, returncode, ack>>

BookFrame ==
    /\ child = "book"
    /\ Persist([receipt EXCEPT !.completed = @ + 1,
                               !.status = "awaiting-parent-ack"], "await")
    /\ UNCHANGED <<scannerVars, frame, scans, localVars, finalized, batchStopped,
                   cleanupVars, returncode, journal, ack>>

-----------------------------------------------------------------------------
(* Waiting for the parent.                                                 *)

LastFrame == frame = NFrames

NextFrame ==
    /\ frame' = frame + 1 /\ scans' = 0
    /\ Persist([receipt EXCEPT !.status = "capturing"], "open")
    /\ UNCHANGED batchStopped

EndFrames(stopped) ==
    /\ batchStopped' = stopped
    /\ GoOn("prepare")
    /\ UNCHANGED <<frame, scans, sessionVars>>

\* wait_for_parent_ack.  The deadline may pass although an ACK is there: the
\* file was looked for first.
AckTimeout ==
    /\ Raise(TRUE)
    /\ UNCHANGED <<frame, scans, batchStopped, sessionVars>>

\* (ContinueUnasked: a variant that takes silence for consent.)
ContinueUnasked ==
    /\ child = "await"
    /\ IF LastFrame THEN EndFrames(FALSE) ELSE NextFrame
    /\ UNCHANGED <<scannerVars, localVars, finalized, cleanupVars, returncode,
                   journal, ack>>
AwaitAck ==
    /\ child = "await"
    /\ \/ ack[frame] = "continue" /\ ~LastFrame /\ NextFrame
       \/ ack[frame] = "continue" /\ LastFrame /\ EndFrames(FALSE)
       \/ ack[frame] = "stop" /\ EndFrames(TRUE)
       \/ AckTimeout
    /\ UNCHANGED <<scannerVars, localVars, finalized, cleanupVars, returncode,
                   journal, ack>>

\* A later frame starts its journal before its own handler is in place.
OpenFrame ==
    /\ child = "open"
    /\ PersistFrame("open", "ready")
    /\ UNCHANGED <<scannerVars, frame, scans, localVars, finalized, batchStopped,
                   cleanupVars, sessionVars, returncode, ack>>

-----------------------------------------------------------------------------
(* The release.                                                            *)

\* The attempt is recorded before the command is sent.
PrepareRelease ==
    /\ child = "prepare"
    /\ Persist([receipt EXCEPT !.status = "releasing", !.attempts = 1], "release")
    /\ UNCHANGED <<scannerVars, frame, scans, localVars, finalized, batchStopped,
                   cleanupVars, returncode, journal, ack>>

Release ==
    /\ child = "release"
    /\ releases' = releases + 1
    /\ \/ /\ unitReserved' = FALSE
          /\ reserved' = FALSE
          /\ GoOn("report")
       \/ Raise(TRUE) /\ UNCHANGED <<unitReserved, reserved>>
       \/ Raise(FALSE) /\ unitReserved' \in BOOLEAN /\ UNCHANGED reserved
    /\ UNCHANGED <<scan, frame, scans, scanActive, readyRequired, finalized,
                   batchStopped, cleanupVars, sessionVars, returncode, journal, ack>>

\* The final receipt; freeing the USB interface may still fail the exit.
Report ==
    /\ child = "report"
    /\ Persist([receipt EXCEPT !.released = TRUE, !.recovery = "none",
                   !.status = IF batchStopped THEN "stopped" ELSE "complete"],
               "exited")
    /\ returncode' \in IF child' = "exited" THEN {"ok", "failed"} ELSE {returncode}
    /\ UNCHANGED <<scannerVars, frame, scans, localVars, finalized, batchStopped,
                   cleanupVars, journal, ack>>

-----------------------------------------------------------------------------
(* The exception path.                                                     *)

\* The active frame's journal is rewritten as failed: by a later frame's own
\* handler before the cleanup, by the first frame's after it.
Spoil ==
    /\ child = "spoil"
    /\ LET failed == IF journal[frame] = "complete" THEN "spoiled" ELSE "failed" IN
       journal' \in {journal, [journal EXCEPT ![frame] = failed]}
    /\ IF frame = 1 THEN Exit("failed")
                    ELSE child' = "except" /\ UNCHANGED returncode
    /\ UNCHANGED <<scannerVars, frame, scans, localVars, finalized, batchStopped,
                   sync, cleanupVars, sessionVars, ack>>

Held == reserved \/ scanActive \/ readyRequired

\* Only a synchronized child that has not tried to release may send more.
\* (CleansUpAgain: a variant that forgets the attempt.)
CleansUpAgain == sync /\ Held
MayCleanUp == sync /\ receipt.attempts = 0 /\ Held

\* _cleanup_synchronized: CANCEL a scan, wait for READY, RELEASE.
StartCleanup ==
    /\ child = "except"
    /\ child' = IF ~MayCleanUp THEN "fail"
                ELSE IF scanActive THEN "cancel"
                ELSE IF readyRequired THEN "settle"
                ELSE "giveBack"
    /\ UNCHANGED <<scannerVars, frame, scans, localVars, finalized, batchStopped,
                   sync, cleanupVars, sessionVars, returncode, journal, ack>>

CleanupCancel ==
    /\ child = "cancel"
    /\ \/ scan' = "settling" /\ child' = "settle"
       \/ scan' \in {scan, "settling"} /\ child' = "fail"
    /\ UNCHANGED <<unitReserved, releases, frame, scans, localVars, finalized,
                   batchStopped, sync, cleanupVars, sessionVars, returncode,
                   journal, ack>>

CleanupSettle ==
    /\ child = "settle"
    /\ \/ /\ scan' = "idle"
          /\ child' = IF reserved THEN "giveBack" ELSE "fail"
          /\ cleaned' = ~reserved
       \/ /\ scan' \in {scan, "idle"}
          /\ child' = "fail"
          /\ UNCHANGED cleaned
    /\ UNCHANGED <<unitReserved, releases, frame, scans, localVars, finalized,
                   batchStopped, sync, releaseTried, sessionVars, returncode,
                   journal, ack>>

CleanupRelease ==
    /\ child = "giveBack"
    /\ releases' = releases + 1
    /\ releaseTried' = TRUE
    /\ child' = "fail"
    /\ \/ unitReserved' = FALSE /\ cleaned' = TRUE
       \/ unitReserved' \in {unitReserved, FALSE} /\ UNCHANGED cleaned
    /\ UNCHANGED <<scan, frame, scans, localVars, finalized, batchStopped, sync,
                   sessionVars, returncode, journal, ack>>

\* recovery_required.
\* (RecoveryIfSynchronized: a variant that forgets how the cleanup went.)
RecoveryIfSynchronized == IF sync THEN "none" ELSE "power-cycle"
Recovery ==
    IF sync /\ (cleaned \/ ~Held) /\ ~(receipt.attempts = 1 /\ reserved)
    THEN "none" ELSE "power-cycle"

\* The failed receipt; an error of this write is swallowed.
ReportFailure ==
    /\ child = "fail"
    /\ receipt' = [receipt EXCEPT !.status = "failed", !.recovery = Recovery,
                      !.attempts = IF releaseTried THEN 1 ELSE @,
                      !.released = IF releaseTried THEN cleaned ELSE @]
    /\ disk' \in {disk, receipt'}
    /\ IF finalized THEN Exit("failed") ELSE child' = "spoil" /\ UNCHANGED returncode
    /\ UNCHANGED <<scannerVars, frame, scans, localVars, finalized, batchStopped,
                   sync, cleanupVars, journal, ack>>

\* The process is killed.
ChildKilled ==
    /\ child \notin {"unborn", "exited"}
    /\ Exit("failed")
    /\ UNCHANGED <<scannerVars, frame, scans, localVars, finalized, batchStopped,
                   sync, cleanupVars, sessionVars, journal, ack>>

ChildSteps ==
    \/ ChildStarts \/ Connect \/ Reserve
    \/ FrameFails \/ ArmScan \/ DrainScan \/ WaitReady \/ PublishFrame \/ BookFrame
    \/ AwaitAck \/ OpenFrame \/ PrepareRelease \/ Release \/ Report
    \/ Spoil \/ StartCleanup \/ CleanupCancel \/ CleanupSettle \/ CleanupRelease
    \/ ReportFailure

=============================================================================
