---------------------------- MODULE BatchSession ----------------------------
(***************************************************************************)
(* One call of run_batch_session: the parent (capture_process.py), the     *)
(* capture child it launches (LiveWorker) and the files between them.      *)
(*                                                                         *)
(* The parent polls for the journal of the next frame, has its handler     *)
(* consume the frame and only then publishes the ACK that lets the child   *)
(* go on.  It never signals the child: when anything goes wrong it waits   *)
(* for the child to give up by itself, and reads the session receipt the   *)
(* child left.  A stop may be requested at any time.                       *)
(***************************************************************************)
EXTENDS LiveWorker, FiniteSets

VARIABLES
    parent,        \* where run_batch_session is
    stopRequested, \* _stop_requested
    handled,       \* frames given to the handler
    action,        \* the handler's decision about the last one
    stopped,       \* the parent ended the batch with a STOP
    refused,       \* ... for a frame it would not give to the handler
    handlerError, monitorError,
    outcome,       \* what the call returned or raised
    late           \* frames completed after the stop was requested

parentVars == <<parent, stopRequested, handled, action, stopped, refused,
                handlerError, monitorError, outcome>>
vars == <<workerVars, parentVars, late>>

ParentPcs == {"launch", "journal", "receipt", "poll", "handler", "ack", "join",
              "returned", "gone"}
Outcomes == {"complete", "synchronized-refusal", "bootstrap-failed",
             "recovery-required", "not-launched"}

TypeOK ==
    /\ WorkerTypeOK
    /\ parent \in ParentPcs
    /\ stopRequested \in BOOLEAN
    /\ handled \in 0..NFrames
    /\ action \in {"continue", "stop"}
    /\ stopped \in BOOLEAN /\ refused \in BOOLEAN
    /\ handlerError \in BOOLEAN /\ monitorError \in BOOLEAN
    /\ outcome \in Outcomes \cup {"pending"}
    /\ late \in Nat

Init ==
    /\ WorkerInit
    /\ parent = "launch"
    /\ stopRequested \in BOOLEAN
    /\ handled = 0 /\ action = "continue"
    /\ stopped = FALSE /\ refused = FALSE
    /\ handlerError = FALSE /\ monitorError = FALSE
    /\ outcome = "pending"
    /\ late = 0

-----------------------------------------------------------------------------
(* The parent.                                                             *)

\* The last look at the stop and the launch are one step under the stop gate.
Launch ==
    /\ parent = "launch"
    /\ \/ /\ ~stopRequested
          /\ child' = "start" /\ parent' = "journal"
          /\ UNCHANGED outcome
       \/ /\ outcome' = "not-launched" /\ parent' = "returned"
          /\ UNCHANGED child
    /\ UNCHANGED <<scannerVars, frame, scans, localVars, finalized, batchStopped,
                   sync, cleanupVars, sessionVars, returncode, journal, ack,
                   stopRequested, handled, action, stopped, refused, handlerError,
                   monitorError, late>>

Watched == handled + 1
PublishAck(f, a) == ack' = [ack EXCEPT ![f] = a]

\* _wait_for_batch_frame looks for three things in turn.  First the journal
\* of the next frame: once complete the frame goes to the handler, or is
\* refused with a STOP, or cannot even be identified and is left without ACK.
WatchJournal ==
    /\ parent = "journal"
    /\ \/ /\ journal[Watched] # "complete"
          /\ parent' = "receipt"
          /\ UNCHANGED <<ack, stopped, refused, monitorError>>
       \/ /\ journal[Watched] = "complete"
          /\ parent' = "handler"
          /\ UNCHANGED <<ack, stopped, refused, monitorError>>
       \/ /\ journal[Watched] = "complete"
          /\ PublishAck(Watched, "stop")
          /\ stopped' = TRUE /\ refused' = TRUE /\ monitorError' = TRUE
          /\ parent' = "join"
       \/ /\ journal[Watched] = "complete"
          /\ monitorError' = TRUE
          /\ parent' = "join"
          /\ UNCHANGED <<ack, stopped, refused>>
    /\ UNCHANGED <<scannerVars, childVars, stopRequested, handled, action,
                   handlerError, outcome, late>>

\* Then a receipt that tells of a failure ...
WatchReceipt ==
    /\ parent = "receipt"
    /\ parent' = IF disk.status = "failed" THEN "join" ELSE "poll"
    /\ UNCHANGED <<workerVars, stopRequested, handled, action, stopped, refused,
                   handlerError, monitorError, outcome, late>>

\* ... and last the exit of the child.
\* (PollsForEver: a variant that does not ask for it.)
PollsForEver ==
    /\ parent = "poll"
    /\ parent' = "journal"
    /\ UNCHANGED <<workerVars, stopRequested, handled, action, stopped, refused,
                   handlerError, monitorError, outcome, late>>
WatchExit ==
    /\ parent = "poll"
    /\ parent' = IF child = "exited" THEN "join" ELSE "journal"
    /\ monitorError' = (monitorError \/ child = "exited")
    /\ UNCHANGED <<workerVars, stopRequested, handled, action, stopped, refused,
                   handlerError, outcome, late>>

\* frame_handler returns its decision, or raises: then the batch is stopped.
Handle ==
    /\ parent = "handler"
    /\ parent' = "ack"
    /\ handled' = handled + 1
    /\ \/ action' \in {"continue", "stop"} /\ UNCHANGED handlerError
       \/ action' = "stop" /\ handlerError' = TRUE
    /\ UNCHANGED <<workerVars, stopRequested, stopped, refused, monitorError,
                   outcome, late>>

\* Under the stop gate: a requested stop overrides the decision, and the ACK
\* is published, or fails to be.
\* (AckOutsideGate: a variant whose stop comes too late for this ACK.)
AckOutsideGate ==
    /\ parent = "ack"
    /\ PublishAck(handled, action)
    /\ stopped' = (action = "stop")
    /\ parent' = IF action = "stop" \/ handled = NFrames THEN "join" ELSE "journal"
    /\ UNCHANGED <<scannerVars, childVars, stopRequested, handled, action, refused,
                   handlerError, monitorError, outcome, late>>
Acknowledge ==
    LET decided == IF stopRequested THEN "stop" ELSE action IN
    /\ parent = "ack"
    /\ \/ /\ PublishAck(handled, decided)
          /\ stopped' = (decided = "stop")
          /\ parent' = IF decided = "stop" \/ handled = NFrames THEN "join"
                                                              ELSE "journal"
          /\ UNCHANGED monitorError
       \/ /\ monitorError' = TRUE
          /\ parent' = "join"
          /\ UNCHANGED <<ack, stopped>>
    /\ UNCHANGED <<scannerVars, childVars, stopRequested, handled, action, refused,
                   handlerError, outcome, late>>

-----------------------------------------------------------------------------
(* The verdict.                                                            *)

ExpectedCompleted == handled + (IF refused THEN 1 ELSE 0)

SuccessReceipt ==
    /\ disk.status = (IF stopped THEN "stopped" ELSE "complete")
    /\ disk.acquired /\ disk.attempts = 1 /\ disk.released
    /\ disk.recovery = "none"

FailureReceipt ==
    /\ disk.status = "failed"
    /\ ~disk.acquired => disk.completed = 0 /\ disk.attempts = 0 /\ ~disk.released
    /\ disk.acquired /\ disk.released => disk.attempts = 1 /\ disk.recovery = "none"
    /\ disk.acquired /\ ~disk.released => disk.recovery = "power-cycle"

\* _load_and_validate_batch_session_journal.
Trusted ==
    /\ disk.status # "none"
    /\ disk.completed = ExpectedCompleted
    /\ disk.recovery # "unset"
    /\ IF returncode = "ok" THEN SuccessReceipt ELSE FailureReceipt

\* The receipt decides, except that only an undisturbed batch is complete.
\* (VerdictByExit: a variant that goes by the exit code.)
VerdictByExit ==
    IF returncode = "bootstrap" THEN "bootstrap-failed"
    ELSE IF ~Trusted THEN "recovery-required"
    ELSE IF returncode = "ok" THEN "complete"
    ELSE IF disk.recovery = "none" THEN "synchronized-refusal"
    ELSE "recovery-required"
Verdict ==
    IF returncode = "bootstrap" THEN "bootstrap-failed"
    ELSE IF ~Trusted THEN "recovery-required"
    ELSE IF returncode = "ok" /\ ~monitorError /\ ~handlerError THEN "complete"
    ELSE IF disk.recovery = "none" THEN "synchronized-refusal"
    ELSE "recovery-required"

\* The parent waits for the child's exit before it says anything.
JoinChild ==
    /\ parent = "join" /\ child = "exited"
    /\ outcome' = Verdict
    /\ parent' = "returned"
    /\ UNCHANGED <<workerVars, stopRequested, handled, action, stopped, refused,
                   handlerError, monitorError, late>>

ParentSteps ==
    \/ Launch \/ WatchJournal \/ WatchReceipt \/ WatchExit
    \/ Handle \/ Acknowledge \/ JoinChild

-----------------------------------------------------------------------------
(* The environment, and the whole.                                         *)

RequestStop ==
    /\ ~stopRequested
    /\ stopRequested' = TRUE
    /\ UNCHANGED <<workerVars, parent, handled, action, stopped, refused,
                   handlerError, monitorError, outcome, late>>

\* The application is gone; its child runs in a session of its own.
ParentDies ==
    /\ parent \notin {"launch", "returned", "gone"}
    /\ parent' = "gone"
    /\ UNCHANGED <<workerVars, stopRequested, handled, action, stopped, refused,
                   handlerError, monitorError, outcome, late>>

\* The child steps, and a frame completed after the stop is counted.
Child ==
    /\ ChildSteps
    /\ late' = IF stopRequested /\ child = "captured" /\ journal'[frame] = "complete"
               THEN late + 1 ELSE late
    /\ UNCHANGED parentVars

Killed == ChildKilled /\ UNCHANGED <<parentVars, late>>

\* The session is over and its child gone.
Ended ==
    /\ parent \in {"returned", "gone"} /\ child \in {"unborn", "exited"}
    /\ UNCHANGED vars

Next == Child \/ ParentSteps \/ RequestStop \/ ParentDies \/ Killed \/ Ended

Spec == Init /\ [][Next]_vars

\* Both processes keep running; the child's commands and its wait for an ACK
\* all have deadlines.
FairSpec == Spec /\ WF_vars(Child) /\ WF_vars(ParentSteps)

-----------------------------------------------------------------------------
(* Properties.                                                             *)

ScannerFree == ~unitReserved /\ scan = "idle"

\* A session receipt that asks for no recovery tells the truth: whatever
\* failed, and wherever, the scanner is neither reserved nor scanning.
HonestReceipt == disk.recovery = "none" => ScannerFree

\* A verdict that lets the caller use the scanner again is given when the
\* child is gone and the scanner is free, even if the child was killed.
HonestVerdict ==
    outcome \in Outcomes \ {"recovery-required"} =>
        ScannerFree /\ child \in {"unborn", "exited"}

\* Who is told that the scanner is usable may use it.
Honest == HonestReceipt /\ HonestVerdict

\* RELEASE is sent at most once, by the normal end or by the cleanup ("the
\* exception path must never retry it").
SingleRelease == releases <= 1

\* The cleanup cancels only a scan that is running ("never send an idle
\* CANCEL") and nobody releases in the middle of one.
CleanupOrder ==
    /\ child = "cancel" => scan = "active"
    /\ child \in {"release", "giveBack"} => scan = "idle"

\* The scanner is given back once, and not in the middle of a scan.
CleanupSound == SingleRelease /\ CleanupOrder

\* The child is never ahead of its parent: while it works on a frame, the
\* parent has consumed every earlier one.
ParentConsumesFirst ==
    child \in FramePcs \cup {"open", "book", "await"} => handled >= frame - 1

\* Only an undisturbed batch is called complete: every frame the child made
\* was consumed, and all were made unless the batch was stopped.
CompleteIsWhole ==
    outcome = "complete" =>
        /\ \A f \in Frames : journal[f] # "none" => f <= handled
        /\ \A f \in 1..handled : journal[f] = "complete"
        /\ ~handlerError
        /\ ~stopped => handled = NFrames

\* From the moment a stop is requested no CONTINUE is published any more.
StopWinsTheGate ==
    [][stopRequested => \A f \in Frames : ack[f] = "none" => ack'[f] # "continue"]_vars

\* The session keeps its contract.
Contract == INSTANCE BatchContract WITH
    made <- Cardinality({f \in Frames : journal[f] \in {"complete", "spoiled"}}),
    consumed <- handled,
    stopped <- stopRequested \/ stopped,
    busy <- ~ScannerFree,
    verdict <- outcome

KeepsContract == Contract!ContractSpec

\* A launched session ends: no answer the two processes wait for from each
\* other is waited for without end.
SessionEnds == parent = "journal" ~> parent \in {"returned", "gone"}

\* A child whose parent died gives up by itself.
OrphanExits == parent = "gone" ~> child = "exited"

\* Neither process waits for the other for ever.
BothSidesEnd == SessionEnds /\ OrphanExits

\* "A frame-complete journal is an immutable parent/child handoff" (the
\* comment in run_live_capture's exception path).
HandoffImmutable ==
    [][\A f \in Frames : journal[f] = "complete" => journal'[f] = "complete"]_vars

=============================================================================
