--------------------------- MODULE BatchContract ---------------------------
(***************************************************************************)
(* What run_batch_session promises its caller, whatever child, files and   *)
(* USB do (src/src/coolscanpy/protocol/ls5000_single_pass/                 *)
(* capture_process.py): frames are made one at a time, each consumed       *)
(* before the next is begun; a stop lets at most one more be made; and the *)
(* verdict comes when nothing runs any more, never calling a scanner       *)
(* usable that is still reserved or scanning.                              *)
(***************************************************************************)
EXTENDS Naturals

CONSTANT NFrames  \* frames of the batch, at least one

VARIABLES
    made,      \* frames published by the child
    consumed,  \* frames the caller's handler was given
    stopped,   \* a stop was requested
    late,      \* frames made after it
    busy,      \* the scanner is reserved or scanning
    verdict    \* what the call returned or raised

contractVars == <<made, consumed, stopped, late, busy, verdict>>

\* The verdicts after which the scanner is free for the next attempt.
Usable == {"complete", "synchronized-refusal", "bootstrap-failed", "not-launched"}

ContractInit ==
    /\ made = 0 /\ consumed = 0 /\ late = 0
    /\ stopped \in BOOLEAN
    /\ busy = FALSE /\ verdict = "pending"

Pending == verdict = "pending"

\* The next frame, once every earlier one is consumed.
Make ==
    /\ Pending
    /\ made < NFrames /\ consumed = made
    /\ stopped => late = 0
    /\ made' = made + 1
    /\ late' = IF stopped THEN late + 1 ELSE late
    /\ UNCHANGED <<consumed, stopped, busy, verdict>>

Consume ==
    /\ Pending /\ consumed < made
    /\ consumed' = consumed + 1
    /\ UNCHANGED <<made, stopped, late, busy, verdict>>

RequestStop ==
    /\ stopped' = TRUE
    /\ UNCHANGED <<made, consumed, late, busy, verdict>>

\* The scanner is taken, armed, idled or released.
UseScanner ==
    /\ Pending
    /\ busy' \in BOOLEAN
    /\ UNCHANGED <<made, consumed, stopped, late, verdict>>

Finish ==
    /\ Pending
    /\ verdict' \in Usable \cup {"recovery-required"}
    /\ verdict' \in Usable => ~busy
    /\ verdict' = "complete" => consumed = made /\ (stopped \/ made = NFrames)
    /\ verdict' \in {"bootstrap-failed", "not-launched"} => made = 0
    /\ UNCHANGED <<made, consumed, stopped, late, busy>>

ContractNext == Make \/ Consume \/ RequestStop \/ UseScanner \/ Finish

ContractSpec == ContractInit /\ [][ContractNext]_contractVars

=============================================================================
