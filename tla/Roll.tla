-------------------------------- MODULE Roll --------------------------------
(***************************************************************************)
(* Ownership of the scanner by the public facade: one Device and the one   *)
(* Roll open on it (src/src/coolscanpy/_device.py, _roll.py).              *)
(*                                                                         *)
(* A Device has one in-process hardware lane (Device._lock).  A roll batch *)
(* takes it when scan_many() returns, before any hardware is touched, and  *)
(* gives it back when its iterator finishes.  Behind the iterator a        *)
(* generator starts a worker thread; the worker runs the capture child and *)
(* hands finished frames back through a queue of one.  Several user        *)
(* threads may call next(), close(), safe_stop(), Roll.close(), preview()  *)
(* and the Device operations at the same time.  Every action is one        *)
(* critical section, or one step between two of them.                      *)
(***************************************************************************)
EXTENDS Naturals, Sequences

CONSTANTS
    Threads,         \* the application's threads
    CallbackThread,  \* the worker thread while it runs a progress callback
    Batches,         \* the batches that may be reserved, at most
    NFrames,         \* frames each batch asks for
    NoThread, NoBatch, Free, PreviewOp, DeviceOp,
    RetryAfterBusy,  \* callers call next() again on an iterator whose generator
                     \* ended with DeviceBusy, its worker still running
    CallbackCloses   \* progress callbacks call close() on their own iterator

Actors == Threads \cup {CallbackThread}

ASSUME RollAssumption ==
    /\ NFrames \in Nat \ {0}
    /\ RetryAfterBusy \in BOOLEAN
    /\ CallbackCloses \in BOOLEAN
    /\ CallbackThread \notin Threads
    /\ NoThread \notin Actors
    /\ NoBatch \notin Batches
    /\ {Free, PreviewOp, DeviceOp} \cap Batches = {}
    /\ Free # PreviewOp /\ Free # DeviceOp /\ PreviewOp # DeviceOp

VARIABLES
    \* Device: the lane's holder, _roll_lock, _closed and _faulted_reason
    lane, rollLock, devClosed, faulted,
    \* Roll
    closing, closed, stopEvent, previewActive, active, uncertainBatch,
    \* _OwnedRollBatchIterator, per batch
    executing, itClosing, itClosed, released, uncertain, dropped,
    \* the generator _scan_many and its worker thread, per batch
    gen, wk, produced, outcome, queue, late,
    \* the call each thread is in, the batch it is about, and whether
    \* Roll.close() made it
    pc, bt, viaRoll

devVars  == <<lane, rollLock, devClosed, faulted>>
rollVars == <<closing, closed, stopEvent, previewActive, active, uncertainBatch>>
itVars   == <<executing, itClosing, itClosed, released, uncertain, dropped>>
wkVars   == <<wk, produced, outcome, queue, late>>
thVars   == <<pc, bt, viaRoll>>
vars     == <<devVars, rollVars, itVars, gen, wkVars, thVars>>

Outcomes == {"complete", "stopped", "error"}
Items    == {"frame"} \cup Outcomes

\* The worker stages in which the capture child may hold the USB reservation.
LiveStages == {"scan", "callback", "put", "check", "ackContinue", "ackStop", "exit"}
Stages     == {"none", "starting", "terminal", "dying", "dead"} \cup LiveStages

NextPcs    == {"nextGen", "get", "nextJoin", "nextReturn"}
ReleasePcs == {"release", "finish", "end"}
ClosePcs   == {"closeWait", "closeGen", "drain", "closeJoin", "retain"}
RollPcs    == {"rcQueue", "rcPreview", "rcReach", "rcBatch", "rcFail", "rcFinish", "rcEnd"}
PreviewPcs == {"pvAcquire", "pvRun", "pvEnd"}
Pcs        == {"idle", "device"} \cup NextPcs \cup ReleasePcs \cup ClosePcs
                  \cup RollPcs \cup PreviewPcs

DevTypeOK ==
    /\ lane \in {Free, PreviewOp, DeviceOp} \cup Batches
    /\ rollLock \in BOOLEAN /\ devClosed \in BOOLEAN /\ faulted \in BOOLEAN

RollTypeOK ==
    /\ closing \in BOOLEAN /\ closed \in BOOLEAN /\ stopEvent \in BOOLEAN
    /\ previewActive \in BOOLEAN
    /\ active \in Batches \cup {NoBatch}
    /\ uncertainBatch \in Batches \cup {NoBatch}

ItTypeOK ==
    /\ executing \in [Batches -> Actors \cup {NoThread}]
    /\ itClosing \in [Batches -> Actors \cup {NoThread}]
    /\ itClosed \in [Batches -> BOOLEAN]
    /\ released \in [Batches -> BOOLEAN]
    /\ uncertain \in [Batches -> BOOLEAN]
    /\ dropped \in [Batches -> BOOLEAN]

GenTypeOK ==
    gen \in [Batches -> {"none", "fresh", "running", "suspended", "finished"}]

\* frame_queue holds one item at most.
WkTypeOK ==
    /\ wk \in [Batches -> Stages]
    /\ produced \in [Batches -> Nat]
    /\ outcome \in [Batches -> Outcomes]
    /\ queue \in [Batches -> Seq(Items)]
    /\ \A b \in Batches : Len(queue[b]) <= 1
    /\ late \in [Batches -> Nat]

ThTypeOK ==
    /\ pc \in [Actors -> Pcs]
    /\ bt \in [Actors -> Batches \cup {NoBatch}]
    /\ viaRoll \in [Actors -> BOOLEAN]

TypeOK ==
    DevTypeOK /\ RollTypeOK /\ ItTypeOK /\ GenTypeOK /\ WkTypeOK /\ ThTypeOK

Init ==
    /\ lane = Free /\ rollLock = TRUE /\ devClosed = FALSE /\ faulted = FALSE
    /\ closing = FALSE /\ closed = FALSE /\ stopEvent = FALSE
    /\ previewActive = FALSE /\ active = NoBatch /\ uncertainBatch = NoBatch
    /\ executing = [b \in Batches |-> NoThread]
    /\ itClosing = [b \in Batches |-> NoThread]
    /\ itClosed = [b \in Batches |-> FALSE]
    /\ released = [b \in Batches |-> FALSE]
    /\ uncertain = [b \in Batches |-> FALSE]
    /\ dropped = [b \in Batches |-> FALSE]
    /\ gen = [b \in Batches |-> "none"]
    /\ wk = [b \in Batches |-> "none"]
    /\ produced = [b \in Batches |-> 0]
    /\ outcome = [b \in Batches |-> "error"]
    /\ queue = [b \in Batches |-> <<>>]
    /\ late = [b \in Batches |-> 0]
    /\ pc = [t \in Actors |-> "idle"]
    /\ bt = [t \in Actors |-> NoBatch]
    /\ viaRoll = [t \in Actors |-> FALSE]

-----------------------------------------------------------------------------
(* Threads and their calls.                                                *)

\* A thread between calls.  The worker calls in only from its own callback.
CanCall(t) ==
    /\ pc[t] = "idle"
    /\ t = CallbackThread => \E b \in Batches : wk[b] = "callback"

GoTo(t, p) == pc' = [pc EXCEPT ![t] = p]

\* The call returns to the application.
Return(t) ==
    /\ GoTo(t, "idle")
    /\ bt' = [bt EXCEPT ![t] = NoBatch]
    /\ viaRoll' = [viaRoll EXCEPT ![t] = FALSE]

\* The end of a call about a batch: it returns, or is back in Roll.close(),
\* which goes on after a clean close and gives up after DeviceBusy.
ReturnTo(t, p) ==
    IF viaRoll[t]
    THEN GoTo(t, p) /\ bt' = [bt EXCEPT ![t] = NoBatch] /\ UNCHANGED viaRoll
    ELSE Return(t)
ReturnClosed(t) == ReturnTo(t, "rcFinish")
ReturnBusy(t)   == ReturnTo(t, "rcFail")

\* Device._acquire_io_lock, refused when closed, faulted or taken.
LaneUsable == ~devClosed /\ ~faulted /\ lane = Free
AcquireLane(owner) ==
    /\ LaneUsable
    /\ lane' = owner
    /\ UNCHANGED <<rollLock, devClosed, faulted>>

-----------------------------------------------------------------------------
(* scan_many(), next() and the generator.                                  *)

\* _require_mutable_review_locked: open, not closing, nothing else active.
MutableReview == ~closed /\ ~closing /\ active = NoBatch /\ ~previewActive

\* scan_many: reserve the lane and the Roll before the iterator is returned.
Reserve(t, b) ==
    /\ CanCall(t) /\ gen[b] = "none"
    /\ MutableReview
    /\ AcquireLane(b)
    /\ active' = b
    /\ uncertainBatch' = NoBatch
    /\ stopEvent' = FALSE
    /\ gen' = [gen EXCEPT ![b] = "fresh"]
    /\ UNCHANGED <<closing, closed, previewActive, itVars, wkVars, thVars>>

\* An iterator some thread can still reach.
Reachable(b) == gen[b] # "none" /\ ~dropped[b]

\* __next__, first critical section.  It looks at _closed, _closing_thread
\* and _executing_thread, and not at _ownership_uncertain.
NextAdmitted(b) ==
    ~itClosed[b] /\ itClosing[b] = NoThread /\ executing[b] = NoThread

NextBegin(t, b) ==
    /\ t \in Threads /\ CanCall(t) /\ Reachable(b)
    /\ uncertain[b] /\ gen[b] = "finished" => RetryAfterBusy
    /\ NextAdmitted(b)
    /\ executing' = [executing EXCEPT ![b] = t]
    /\ bt' = [bt EXCEPT ![t] = b]
    /\ GoTo(t, "nextGen")
    /\ UNCHANGED <<devVars, rollVars, itClosing, itClosed, released, uncertain,
                   dropped, gen, wkVars, viaRoll>>

\* The generator runs: a fresh one refuses after a stop or starts its worker,
\* a suspended one goes back to the queue, a finished one is exhausted.
NextGen(t) ==
    LET b == bt[t] IN
    /\ pc[t] = "nextGen"
    /\ \/ /\ gen[b] = "fresh" /\ ~stopEvent
          /\ gen' = [gen EXCEPT ![b] = "running"]
          /\ wk' = [wk EXCEPT ![b] = "starting"]
          /\ GoTo(t, "get")
       \/ /\ gen[b] = "suspended"
          /\ gen' = [gen EXCEPT ![b] = "running"]
          /\ GoTo(t, "get")
          /\ UNCHANGED wk
       \/ /\ gen[b] = "finished" \/ (gen[b] = "fresh" /\ stopEvent)
          /\ gen' = [gen EXCEPT ![b] = "finished"]
          /\ GoTo(t, "release")
          /\ UNCHANGED wk
    /\ UNCHANGED <<devVars, rollVars, itVars, produced, outcome, queue, late,
                   bt, viaRoll>>

\* frame_queue.get(): a frame is yielded, a terminal item ends the generator,
\* which first joins its worker.
NextGet(t) ==
    LET b == bt[t] IN
    /\ pc[t] = "get" /\ queue[b] # <<>>
    /\ queue' = [queue EXCEPT ![b] = <<>>]
    /\ \/ /\ Head(queue[b]) = "frame"
          /\ gen' = [gen EXCEPT ![b] = "suspended"]
          /\ GoTo(t, "nextReturn")
       \/ /\ Head(queue[b]) # "frame"
          /\ GoTo(t, "nextJoin")
          /\ UNCHANGED gen
    /\ UNCHANGED <<devVars, rollVars, itVars, wk, produced, outcome, late,
                   bt, viaRoll>>

\* worker_thread.join(): the worker is gone, and the batch ends for good.
NextJoined(t) ==
    LET b == bt[t] IN
    /\ pc[t] = "nextJoin" /\ wk[b] = "dead"
    /\ gen' = [gen EXCEPT ![b] = "finished"]
    /\ GoTo(t, "release")
    /\ UNCHANGED <<devVars, rollVars, itVars, wkVars, bt, viaRoll>>

\* The join times out: _BatchWorkerStillActive, ownership is uncertain.
NextJoinTimeout(t) ==
    LET b == bt[t] IN
    /\ pc[t] = "nextJoin" /\ wk[b] # "dead"
    /\ gen' = [gen EXCEPT ![b] = "finished"]
    /\ uncertain' = [uncertain EXCEPT ![b] = TRUE]
    /\ GoTo(t, "retain")
    /\ UNCHANGED <<devVars, rollVars, executing, itClosing, itClosed, released,
                   dropped, wkVars, bt, viaRoll>>

\* __next__, the finally of a call that did not end the batch.
NextReturn(t) ==
    LET b == bt[t] IN
    /\ pc[t] = "nextReturn"
    /\ executing' = [executing EXCEPT ![b] = NoThread]
    /\ Return(t)
    /\ UNCHANGED <<devVars, rollVars, itClosing, itClosed, released, uncertain,
                   dropped, gen, wkVars>>

-----------------------------------------------------------------------------
(* Giving the reservation back.                                            *)

\* _release_roll_once: only the first caller goes on to _batch_finished.
ReleaseOnce(t) ==
    LET b == bt[t] IN
    /\ pc[t] = "release"
    /\ released' = [released EXCEPT ![b] = TRUE]
    /\ GoTo(t, IF released[b] THEN "end" ELSE "finish")
    /\ UNCHANGED <<devVars, rollVars, executing, itClosing, itClosed, uncertain,
                   dropped, gen, wkVars, bt, viaRoll>>

\* _batch_finished: it lets go of the Roll and the lane of this batch alone.
BatchFinished(t) ==
    LET b == bt[t] IN
    /\ pc[t] = "finish"
    /\ GoTo(t, "end")
    /\ IF active = b
       THEN /\ active' = NoBatch
            /\ uncertainBatch' = NoBatch
            /\ lane' = Free
       ELSE UNCHANGED <<active, uncertainBatch, lane>>
    /\ UNCHANGED <<rollLock, devClosed, faulted, closing, closed, stopEvent,
                   previewActive, itVars, gen, wkVars, bt, viaRoll>>

\* The last critical section of a final next() or close(): mark it closed.
MarkClosed(t) ==
    LET b == bt[t] IN
    /\ pc[t] = "end"
    /\ itClosed' = [itClosed EXCEPT ![b] = TRUE]
    /\ executing' = [executing EXCEPT ![b] = IF @ = t THEN NoThread ELSE @]
    /\ itClosing' = [itClosing EXCEPT ![b] = IF @ = t THEN NoThread ELSE @]
    /\ ReturnClosed(t)
    /\ UNCHANGED <<devVars, rollVars, released, uncertain, dropped, gen, wkVars>>

-----------------------------------------------------------------------------
(* close() on the iterator.                                                *)

Idle(b) == executing[b] = NoThread /\ itClosing[b] = NoThread

\* The first critical section of close() by thread t on batch b.  A call on a
\* closed or uncertain iterator returns at once (ReturnClosed, ReturnBusy).
EnterClose(t, b) ==
    /\ ~uncertain[b] /\ ~itClosed[b]
    /\ executing[b] # t /\ itClosing[b] # t
    /\ stopEvent' = TRUE
    /\ itClosing' = [itClosing EXCEPT ![b] = IF Idle(b) THEN t ELSE @]
    /\ GoTo(t, IF Idle(b) THEN "closeGen" ELSE "closeWait")

CloseBegin(t, b) ==
    /\ CanCall(t) /\ Reachable(b)
    /\ t = CallbackThread => CallbackCloses /\ wk[b] = "callback"
    /\ EnterClose(t, b)
    /\ bt' = [bt EXCEPT ![t] = b]
    /\ UNCHANGED <<devVars, closing, closed, previewActive, active, uncertainBatch,
                   executing, itClosed, released, uncertain, dropped, gen, wkVars,
                   viaRoll>>

\* The condition wait of close() ends with nobody left inside.
CloseResume(t) ==
    LET b == bt[t] IN
    /\ pc[t] = "closeWait" /\ Idle(b)
    /\ IF uncertain[b] THEN ReturnBusy(t) /\ UNCHANGED itClosing
       ELSE IF itClosed[b] THEN ReturnClosed(t) /\ UNCHANGED itClosing
       ELSE /\ itClosing' = [itClosing EXCEPT ![b] = t]
            /\ GoTo(t, "closeGen")
            /\ UNCHANGED <<bt, viaRoll>>
    /\ UNCHANGED <<devVars, rollVars, executing, itClosed, released, uncertain,
                   dropped, gen, wkVars>>

\* The deadline passes with somebody inside: ownership becomes uncertain.
CloseTimeout(t) ==
    LET b == bt[t] IN
    /\ pc[t] = "closeWait" /\ ~Idle(b)
    /\ uncertain' = [uncertain EXCEPT ![b] = TRUE]
    /\ GoTo(t, "retain")
    /\ UNCHANGED <<devVars, rollVars, executing, itClosing, itClosed, released,
                   dropped, gen, wkVars, bt, viaRoll>>

\* generator.close(): a generator that never ran or has ended does nothing; a
\* suspended one gets GeneratorExit, asks for the stop again and drains.
CloseGen(t) ==
    LET b == bt[t] IN
    /\ pc[t] = "closeGen"
    /\ \/ /\ gen[b] \in {"fresh", "finished"}
          /\ gen' = [gen EXCEPT ![b] = "finished"]
          /\ GoTo(t, "release")
          /\ UNCHANGED stopEvent
       \/ /\ gen[b] = "suspended"
          /\ gen' = [gen EXCEPT ![b] = "running"]
          /\ stopEvent' = TRUE
          /\ GoTo(t, "drain")
    /\ UNCHANGED <<devVars, closing, closed, previewActive, active, uncertainBatch,
                   itVars, wkVars, bt, viaRoll>>

\* _drain_abandoned_scan_queue: frames are thrown away; a terminal item, a
\* dead worker behind an empty queue, or the deadline ends it.
Drain(t) ==
    LET b == bt[t] IN
    /\ pc[t] = "drain"
    /\ \/ /\ queue[b] # <<>>
          /\ queue' = [queue EXCEPT ![b] = <<>>]
          /\ IF Head(queue[b]) = "frame" THEN UNCHANGED pc
                                           ELSE GoTo(t, "closeJoin")
       \/ /\ queue[b] = <<>> /\ wk[b] = "dead"
          /\ GoTo(t, "closeJoin")
          /\ UNCHANGED queue
    /\ UNCHANGED <<devVars, rollVars, itVars, gen, wk, produced, outcome, late,
                   bt, viaRoll>>

DrainTimeout(t) ==
    /\ pc[t] = "drain"
    /\ GoTo(t, "closeJoin")
    /\ UNCHANGED <<devVars, rollVars, itVars, gen, wkVars, bt, viaRoll>>

\* The join of an abandoned generator.  The worker cannot join itself: called
\* from its own callback, join() raises RuntimeError and close() treats that
\* as a definite end.
\* (CloseJoinedBlindly: a variant that does not ask whether it is alive.)
CloseJoinedBlindly(t) ==
    /\ pc[t] = "closeJoin"
    /\ gen' = [gen EXCEPT ![bt[t]] = "finished"]
    /\ GoTo(t, "release")
    /\ UNCHANGED <<devVars, rollVars, itVars, wkVars, bt, viaRoll>>
CloseJoined(t) ==
    LET b == bt[t] IN
    /\ pc[t] = "closeJoin"
    /\ wk[b] = "dead" \/ t = CallbackThread
    /\ gen' = [gen EXCEPT ![b] = "finished"]
    /\ GoTo(t, "release")
    /\ UNCHANGED <<devVars, rollVars, itVars, wkVars, bt, viaRoll>>

CloseJoinTimeout(t) ==
    LET b == bt[t] IN
    /\ pc[t] = "closeJoin" /\ wk[b] # "dead" /\ t # CallbackThread
    /\ gen' = [gen EXCEPT ![b] = "finished"]
    /\ itClosed' = [itClosed EXCEPT ![b] = FALSE]
    /\ uncertain' = [uncertain EXCEPT ![b] = TRUE]
    /\ itClosing' = [itClosing EXCEPT ![b] = NoThread]
    /\ GoTo(t, "retain")
    /\ UNCHANGED <<devVars, rollVars, executing, released, dropped, wkVars,
                   bt, viaRoll>>

\* _retain_uncertain_batch: a strong reference keeps the owner reachable.
\* (RetainNothing: a variant without it.)
RetainNothing(t) ==
    /\ pc[t] = "retain"
    /\ IF executing[bt[t]] = t
       THEN GoTo(t, "nextReturn") /\ UNCHANGED <<bt, viaRoll>>
       ELSE ReturnBusy(t)
    /\ UNCHANGED <<devVars, rollVars, itVars, gen, wkVars>>
Retain(t) ==
    LET b == bt[t] IN
    /\ pc[t] = "retain"
    /\ uncertainBatch' = IF active = b THEN b ELSE uncertainBatch
    /\ IF executing[b] = t THEN GoTo(t, "nextReturn") /\ UNCHANGED <<bt, viaRoll>>
                           ELSE ReturnBusy(t)
    /\ UNCHANGED <<devVars, closing, closed, stopEvent, previewActive, active,
                   itVars, gen, wkVars>>

\* The last application reference goes away: __del__ closes the iterator,
\* unless the Roll retains it.
DropIterator(t, b) ==
    /\ t \in Threads /\ CanCall(t) /\ Reachable(b) /\ ~itClosed[b]
    /\ \A u \in Actors : pc[u] # "idle" => bt[u] # b
    /\ dropped' = [dropped EXCEPT ![b] = TRUE]
    /\ IF uncertain[b]
       THEN UNCHANGED <<stopEvent, itClosing, thVars>>
       ELSE /\ EnterClose(t, b)
            /\ bt' = [bt EXCEPT ![t] = b]
            /\ UNCHANGED viaRoll
    /\ UNCHANGED <<devVars, closing, closed, previewActive, active, uncertainBatch,
                   executing, itClosed, released, uncertain, gen, wkVars>>

\* safe_stop() from any thread or callback.
SafeStop ==
    /\ stopEvent' = TRUE
    /\ UNCHANGED <<devVars, closing, closed, previewActive, active, uncertainBatch,
                   itVars, gen, wkVars, thVars>>

-----------------------------------------------------------------------------
(* Roll.close().                                                           *)

\* Where Roll.close() goes once no preview is active, under the state lock:
\* to the active batch, to waiting until it can be reached (a weak reference
\* to an iterator in __del__ may or may not still answer), or to the release.
LocateBatch(t) ==
    \/ active = NoBatch /\ GoTo(t, "rcFinish") /\ UNCHANGED bt
    \/ /\ active # NoBatch
       /\ GoTo(t, "rcBatch")
       /\ bt' = [bt EXCEPT ![t] = IF uncertainBatch = NoBatch THEN active
                                                             ELSE uncertainBatch]
    \/ /\ active # NoBatch /\ uncertainBatch = NoBatch /\ dropped[active]
       /\ GoTo(t, "rcReach")
       /\ UNCHANGED bt

\* Its first critical section: it claims the close and stops the batch.
EnterRollClose(t) ==
    /\ closing' = TRUE
    /\ stopEvent' = TRUE
    /\ IF previewActive THEN GoTo(t, "rcPreview") /\ UNCHANGED bt
                        ELSE LocateBatch(t)

\* A callback's thread is refused before anything else.
InCallback(t) == t = CallbackThread

RollCloseBegin(t) ==
    /\ CanCall(t) /\ ~InCallback(t) /\ ~closed
    /\ viaRoll' = [viaRoll EXCEPT ![t] = TRUE]
    /\ IF closing THEN GoTo(t, "rcQueue") /\ UNCHANGED <<closing, stopEvent, bt>>
                  ELSE EnterRollClose(t)
    /\ UNCHANGED <<devVars, closed, previewActive, active, uncertainBatch,
                   itVars, gen, wkVars>>

\* Another Roll.close() was first: wait for it, up to the deadline.
RollCloseTurn(t) ==
    /\ pc[t] = "rcQueue" /\ (~closing \/ closed)
    /\ IF closed THEN Return(t) /\ UNCHANGED <<closing, stopEvent>>
                 ELSE EnterRollClose(t) /\ UNCHANGED viaRoll
    /\ UNCHANGED <<devVars, closed, previewActive, active, uncertainBatch,
                   itVars, gen, wkVars>>

RollCloseQueueTimeout(t) ==
    /\ pc[t] = "rcQueue" /\ closing /\ ~closed
    /\ Return(t)
    /\ UNCHANGED <<devVars, rollVars, itVars, gen, wkVars>>

\* The preview is over, or the batch has become reachable or finished.
RollCloseLocate(t) ==
    /\ \/ pc[t] = "rcPreview" /\ ~previewActive
       \/ pc[t] = "rcReach" /\ (active = NoBatch \/ uncertainBatch # NoBatch)
    /\ LocateBatch(t)
    /\ UNCHANGED <<devVars, rollVars, itVars, gen, wkVars, viaRoll>>

\* The deadline passes first: give up the close, keep the reservation.
RollCloseTimeout(t) ==
    /\ \/ pc[t] = "rcPreview" /\ previewActive
       \/ pc[t] = "rcReach" /\ active # NoBatch /\ uncertainBatch = NoBatch
    /\ closing' = FALSE
    /\ Return(t)
    /\ UNCHANGED <<devVars, closed, stopEvent, previewActive, active,
                   uncertainBatch, itVars, gen, wkVars>>

\* active.close() from Roll.close().
RollCloseBatch(t) ==
    LET b == bt[t] IN
    /\ pc[t] = "rcBatch"
    /\ IF uncertain[b] \/ itClosed[b]
       THEN /\ IF uncertain[b] THEN ReturnBusy(t) ELSE ReturnClosed(t)
            /\ UNCHANGED <<stopEvent, itClosing>>
       ELSE EnterClose(t, b) /\ UNCHANGED <<bt, viaRoll>>
    /\ UNCHANGED <<devVars, closing, closed, previewActive, active, uncertainBatch,
                   executing, itClosed, released, uncertain, dropped, gen, wkVars>>

\* The batch refused to close: so does the Roll.
RollCloseFail(t) ==
    /\ pc[t] = "rcFail"
    /\ closing' = FALSE
    /\ Return(t)
    /\ UNCHANGED <<devVars, closed, stopEvent, previewActive, active,
                   uncertainBatch, itVars, gen, wkVars>>

\* Device._release_roll_lock, then the Roll is closed.
RollCloseRelease(t) ==
    /\ pc[t] = "rcFinish"
    /\ rollLock' = FALSE
    /\ GoTo(t, "rcEnd")
    /\ UNCHANGED <<lane, devClosed, faulted, rollVars, itVars, gen, wkVars,
                   bt, viaRoll>>

RollCloseEnd(t) ==
    /\ pc[t] = "rcEnd"
    /\ closed' = TRUE
    /\ closing' = FALSE
    /\ Return(t)
    /\ UNCHANGED <<devVars, stopEvent, previewActive, active, uncertainBatch,
                   itVars, gen, wkVars>>

-----------------------------------------------------------------------------
(* preview() and the Device's own operations.                              *)

PreviewBegin(t) ==
    /\ CanCall(t) /\ MutableReview
    /\ previewActive' = TRUE
    /\ GoTo(t, "pvAcquire")
    /\ UNCHANGED <<devVars, closing, closed, stopEvent, active, uncertainBatch,
                   itVars, gen, wkVars, bt, viaRoll>>

\* The lane for the whole attempt, or DeviceBusy and the preview is over.
PreviewAcquire(t) ==
    /\ pc[t] = "pvAcquire"
    /\ \/ AcquireLane(PreviewOp) /\ GoTo(t, "pvRun")
       \/ ~LaneUsable /\ GoTo(t, "pvEnd") /\ UNCHANGED devVars
    /\ UNCHANGED <<rollVars, itVars, gen, wkVars, bt, viaRoll>>

\* The capture child has run and exited; first the lane is released ...
PreviewRelease(t) ==
    /\ pc[t] = "pvRun"
    /\ lane' = Free
    /\ GoTo(t, "pvEnd")
    /\ UNCHANGED <<rollLock, devClosed, faulted, rollVars, itVars, gen, wkVars,
                   bt, viaRoll>>

\* ... then the Roll learns that no preview is active.
PreviewEnd(t) ==
    /\ pc[t] = "pvEnd"
    /\ previewActive' = FALSE
    /\ GoTo(t, "idle")
    /\ UNCHANGED <<devVars, closing, closed, stopEvent, active, uncertainBatch,
                   itVars, gen, wkVars, bt, viaRoll>>

\* Device.scan, eject or film_present.
DeviceBegin(t) ==
    /\ CanCall(t)
    /\ AcquireLane(DeviceOp)
    /\ GoTo(t, "device")
    /\ UNCHANGED <<rollVars, itVars, gen, wkVars, bt, viaRoll>>

\* A SaneCleanupError faults the Device before the lane is released.
DeviceEnd(t) ==
    /\ pc[t] = "device"
    /\ lane' = Free
    /\ faulted' \in {faulted, TRUE}
    /\ GoTo(t, "idle")
    /\ UNCHANGED <<rollLock, devClosed, rollVars, itVars, gen, wkVars, bt, viaRoll>>

\* Device.close: refused while a Roll is open or the lane is taken.
DeviceClose(t) ==
    /\ CanCall(t) /\ ~devClosed /\ ~rollLock /\ lane = Free
    /\ devClosed' = TRUE
    /\ UNCHANGED <<lane, rollLock, faulted, rollVars, itVars, gen, wkVars, thVars>>

-----------------------------------------------------------------------------
(* The worker thread of a batch and the capture child it waits for.        *)

WorkerGoTo(b, s) == wk' = [wk EXCEPT ![b] = s]

\* A frame starts; late counts those that start with the stop already set.
StartFrame(b) ==
    /\ WorkerGoTo(b, "scan")
    /\ late' = [late EXCEPT ![b] = IF stopEvent THEN @ + 1 ELSE @]

\* run_batch_session launches the child, or fails before it owns anything.
WorkerLaunch(b) ==
    /\ wk[b] = "starting"
    /\ \/ StartFrame(b)
       \/ WorkerGoTo(b, "terminal") /\ UNCHANGED late
    /\ UNCHANGED <<devVars, rollVars, itVars, gen, produced, outcome, queue, thVars>>

\* The child's frame is complete and finalized: report progress.
WorkerFrame(b) ==
    /\ wk[b] = "scan"
    /\ produced' = [produced EXCEPT ![b] = @ + 1]
    /\ WorkerGoTo(b, "callback")
    /\ UNCHANGED <<devVars, rollVars, itVars, gen, outcome, queue, late, thVars>>

\* The child refused or failed, the finalization failed, or the callback
\* raised: no further frame, wait for the child to release and exit.
\* (WorkerFailsSilently: a variant whose error never reaches the queue.)
WorkerFailsSilently(b) ==
    /\ wk[b] \in {"scan", "callback"}
    /\ wk[b] = "callback" => pc[CallbackThread] = "idle"
    /\ WorkerGoTo(b, "dead")
    /\ UNCHANGED <<devVars, rollVars, itVars, gen, produced, outcome, queue, late,
                   thVars>>
WorkerFail(b) ==
    /\ wk[b] \in {"scan", "callback"}
    /\ wk[b] = "callback" => pc[CallbackThread] = "idle"
    /\ WorkerGoTo(b, "exit")
    /\ UNCHANGED <<devVars, rollVars, itVars, gen, produced, outcome, queue, late,
                   thVars>>

WorkerCallbackReturns(b) ==
    /\ wk[b] = "callback" /\ pc[CallbackThread] = "idle"
    /\ WorkerGoTo(b, "put")
    /\ UNCHANGED <<devVars, rollVars, itVars, gen, produced, outcome, queue, late,
                   thVars>>

\* frame_queue.put blocks while the queue's one place is taken.
\* (RoomForever: a variant with an unbounded queue.)
RoomForever(b) == b \in Batches
QueueHasRoom(b) == queue[b] = <<>>

WorkerPut(b) ==
    /\ wk[b] = "put" /\ QueueHasRoom(b)
    /\ queue' = [queue EXCEPT ![b] = Append(@, "frame")]
    /\ WorkerGoTo(b, "check")
    /\ UNCHANGED <<devVars, rollVars, itVars, gen, produced, outcome, late, thVars>>

\* frame_handler reads the stop event once to choose the ACK ...
\* (WorkerIgnoresStop: a variant that does not.)
WorkerIgnoresStop(b) ==
    /\ wk[b] = "check"
    /\ WorkerGoTo(b, "ackContinue")
    /\ UNCHANGED <<devVars, rollVars, itVars, gen, produced, outcome, queue, late,
                   thVars>>
WorkerCheckStop(b) ==
    /\ wk[b] = "check"
    /\ WorkerGoTo(b, IF stopEvent THEN "ackStop" ELSE "ackContinue")
    /\ UNCHANGED <<devVars, rollVars, itVars, gen, produced, outcome, queue, late,
                   thVars>>

\* ... and the adapter publishes it afterwards: the next frame starts, or the
\* batch ends complete or stopped.
WorkerAck(b) ==
    /\ wk[b] \in {"ackContinue", "ackStop"}
    /\ \/ /\ wk[b] = "ackContinue" /\ produced[b] < NFrames
          /\ StartFrame(b)
          /\ UNCHANGED outcome
       \/ /\ wk[b] = "ackStop" \/ produced[b] = NFrames
          /\ WorkerGoTo(b, "exit")
          /\ outcome' = [outcome EXCEPT ![b] =
                            IF wk[b] = "ackStop" THEN "stopped" ELSE "complete"]
          /\ UNCHANGED late
    /\ UNCHANGED <<devVars, rollVars, itVars, gen, produced, queue, thVars>>

\* The child has exited; its receipt may still turn the outcome into an error.
WorkerChildExits(b) ==
    /\ wk[b] = "exit"
    /\ WorkerGoTo(b, "terminal")
    /\ \E o \in {outcome[b], "error"} : outcome' = [outcome EXCEPT ![b] = o]
    /\ UNCHANGED <<devVars, rollVars, itVars, gen, produced, queue, late, thVars>>

WorkerTerminal(b) ==
    /\ wk[b] = "terminal" /\ QueueHasRoom(b)
    /\ queue' = [queue EXCEPT ![b] = Append(@, outcome[b])]
    /\ WorkerGoTo(b, "dying")
    /\ UNCHANGED <<devVars, rollVars, itVars, gen, produced, outcome, late, thVars>>

WorkerDies(b) ==
    /\ wk[b] = "dying"
    /\ WorkerGoTo(b, "dead")
    /\ UNCHANGED <<devVars, rollVars, itVars, gen, produced, outcome, queue, late,
                   thVars>>

-----------------------------------------------------------------------------

\* What a thread may call.  From a callback only the two closes are of
\* interest: the lane and the Roll are taken, so the rest is refused.
Call(t) ==
    \/ RollCloseBegin(t)
    \/ \E b \in Batches : CloseBegin(t, b)
    \/ /\ t \in Threads
       /\ \/ \E b \in Batches : Reserve(t, b) \/ NextBegin(t, b) \/ DropIterator(t, b)
          \/ PreviewBegin(t) \/ DeviceBegin(t) \/ DeviceClose(t)

\* What a thread inside a call does next without waiting for a deadline.
Continue(t) ==
    \/ NextGen(t) \/ NextGet(t) \/ NextJoined(t) \/ NextReturn(t)
    \/ ReleaseOnce(t) \/ BatchFinished(t) \/ MarkClosed(t)
    \/ CloseResume(t) \/ CloseGen(t) \/ Drain(t) \/ CloseJoined(t) \/ Retain(t)
    \/ RollCloseTurn(t) \/ RollCloseLocate(t) \/ RollCloseBatch(t)
    \/ RollCloseFail(t) \/ RollCloseRelease(t) \/ RollCloseEnd(t)
    \/ PreviewAcquire(t) \/ PreviewEnd(t)

\* The hardware attempt of a preview or a Device operation returns.
HardwareReturns(t) == PreviewRelease(t) \/ DeviceEnd(t)

Timeout(t) ==
    \/ NextJoinTimeout(t) \/ CloseTimeout(t) \/ DrainTimeout(t)
    \/ CloseJoinTimeout(t) \/ RollCloseQueueTimeout(t) \/ RollCloseTimeout(t)

Worker(b) ==
    \/ WorkerLaunch(b) \/ WorkerFrame(b) \/ WorkerFail(b)
    \/ WorkerCallbackReturns(b) \/ WorkerPut(b) \/ WorkerCheckStop(b)
    \/ WorkerAck(b) \/ WorkerChildExits(b) \/ WorkerTerminal(b) \/ WorkerDies(b)

Next ==
    \/ \E t \in Actors : Call(t) \/ Continue(t) \/ HardwareReturns(t) \/ Timeout(t)
    \/ \E b \in Batches : Worker(b)
    \/ SafeStop

Spec == Init /\ [][Next]_vars

\* Threads keep running and deadlines pass; the worker may hang.
FairSpec ==
    Spec /\ \A t \in Actors : WF_vars(Continue(t) \/ Timeout(t))
                              /\ WF_vars(HardwareReturns(t))

\* No capture, callback or child hangs.
WorkersRun == \A b \in Batches : WF_vars(Worker(b))

-----------------------------------------------------------------------------
(* Properties.                                                             *)

\* A batch whose worker, or the capture child behind it, may use the scanner.
Live(b) == wk[b] \in LiveStages \cup {"starting"}

\* Everything that may talk to the scanner at this moment.
HardwareUsers ==
    {b \in Batches : Live(b)} \cup {t \in Actors : pc[t] \in {"pvRun", "device"}}

\* The lane belongs to whoever may use the scanner, through every close,
\* timeout and abandoned iterator: a batch's until its worker is past the
\* child's exit, a preview's and a Device operation's until they return.
LaneOwned ==
    /\ \A b \in Batches : Live(b) => lane = b
    /\ \A t \in Actors : /\ pc[t] = "pvRun" => lane = PreviewOp
                         /\ pc[t] = "device" => lane = DeviceOp

\* No two activities use the scanner at the same time.
ExclusiveHardware == \A x, y \in HardwareUsers : x = y

\* The scanner has one user at a time, and the lane is that user's.
LaneIsExclusive == LaneOwned /\ ExclusiveHardware

\* A closed Roll has nothing running behind it, and a closed Device nothing
\* at all: Roll.close() releases the Roll lock only after the preview and the
\* batch are over, whatever timed out on the way.
QuietWhenClosed ==
    /\ closed => /\ active = NoBatch /\ ~previewActive
                 /\ \A b \in Batches : ~Live(b)
    /\ devClosed => HardwareUsers = {}

\* A reservation nobody can reach any more is being closed by the thread that
\* dropped it, or retained by the Roll: Roll.close() can always find it.
NoOrphanedReservation ==
    active # NoBatch /\ dropped[active] =>
        \/ uncertainBatch = active
        \/ \E t \in Actors : bt[t] = active /\ pc[t] \in ClosePcs \cup ReleasePcs

\* Whatever times out or is collected, nothing runs behind a closed object and no
\* reservation is out of reach of Roll.close().
NothingOrphaned == QuietWhenClosed /\ NoOrphanedReservation

\* After safe_stop() at most one frame of a batch starts, whatever thread calls it
\* when: the stop is looked at once when the batch begins and once per frame, and
\* the one look whose answer it overtakes lets one more frame start.
\* (_scan_many, frame_handler; it is one more than the docstring promises)
OneLateFrame == \A b \in Batches : late[b] <= 1

\* What safe_stop says of itself: "The frame in flight always finishes; the next one
\* raises ``SafeStopRequested`` instead of starting."  (_roll.py:974-976)
NoFrameAfterStop == \A b \in Batches : late[b] = 0

\* Every close() and Roll.close() returns even if the worker hangs: no wait
\* in them is without a deadline.
CloseReturns ==
    \A t \in Actors : pc[t] \in ClosePcs \cup ReleasePcs \cup RollPcs ~> pc[t] = "idle"

\* An abandoned iterator gives its reservation back or is retained as
\* uncertain, even if the worker hangs.
AbandonedIsSettled == \A b \in Batches : dropped[b] ~> (active # b \/ uncertain[b])

\* If nothing hangs, a consumer inside next() gets a frame or the end.
NextReturns ==
    WorkersRun => \A t \in Threads : pc[t] \in NextPcs ~> pc[t] = "idle"

\* Every call of a batch comes back, and a batch without a consumer is settled.
CallsReturn == CloseReturns /\ AbandonedIsSettled /\ NextReturns

\* The Roll keeps an uncertain batch and its lane until its worker is known
\* to have ended ("USB ownership is retained", _retain_uncertain_batch).
UncertainRetained ==
    [][\A b \in Batches : uncertain[b] /\ Live(b) /\ lane = b => lane' = b]_vars

\* A close() that finds a next() executing requests the stop of that batch,
\* never of a later one ("an executing next cannot concurrently finish/release
\* this batch and let a later batch clear the event before this write").
StopsOwnBatch ==
    [][\A t \in Actors :
           pc[t] = "idle" /\ pc'[t] = "closeWait" /\ executing[bt'[t]] # NoThread
               => active' \in {bt'[t], NoBatch}]_vars

=============================================================================
