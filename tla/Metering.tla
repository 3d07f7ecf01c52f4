------------------------------- MODULE Metering -------------------------------
(***************************************************************************)
(* The exposure metering of one frame: the controller of meter.py and the  *)
(* worker's loop around it (run_live_capture, _run_live_continuation_frame *)
(* in src/src/coolscanpy/protocol/ls5000_single_pass/worker.py).           *)
(*                                                                         *)
(* Three low-resolution passes are taken.  Each is exposed as the plan's   *)
(* window commands say, which the scanner must echo; its samples are made  *)
(* durable before the journal claims them; from what it shows, and from    *)
(* the pass before, the controller proposes the exposures of the next one  *)
(* or refuses the frame.  After the third the exposures of the fine scan   *)
(* are fixed, and the fine scan is armed.                                  *)
(*                                                                         *)
(* A pass is abstracted to two numbers per channel, in thousandths of the  *)
(* usable range: the robust highlight inside the frame (central_signal)    *)
(* and the highest value of the whole raster (full_high); and to one       *)
(* judgement of its pixels.  Exposures are the ticks of the wire.          *)
(***************************************************************************)
EXTENDS Integers, Sequences

CONSTANTS
    Channels,    \* CHANNELS
    Infrared,    \* the one among them that the film's dyes let through
    Default,     \* DEFAULT_EXPOSURES
    Sights       \* what a channel shows at Unit ticks: [core, peak] per channel

ASSUME MeterAssumption ==
    /\ Infrared \in Channels
    /\ Default \in [Channels -> Nat]
    /\ Sights \subseteq [Channels -> [core : Nat, peak : Nat]]
    /\ \A s \in Sights, c \in Channels : s[c].core <= s[c].peak

Passes == 3
Unit == 100000
ExposureMin == 50000
ExposureMax == 400000
Ceiling == 950             \* CEILING_FRACTION
ReviewedHigh == 990        \* NIKON_PARITY_REVIEWED_HIGH_THRESHOLD
Target(c) == IF c = Infrared THEN 840 ELSE 850
ParityTarget == 987        \* NIKON_PARITY_TARGET_FRACTIONS

VARIABLES
    \* the step of the frame that is next
    step,
    \* the exposures patched into the next group of window commands of the plan
    contract,
    \* the exposures each pass was commanded with, as the scanner echoed them
    commanded,
    \* the passes in the meter file, and how many of them are durable
    raw, synced,
    \* what the journal claims: durable passes, complete evidence
    journal,
    \* final_wire_exposures, once the controller has accepted
    final

meterVars == <<step, contract, commanded, raw, synced, journal, final>>

None == [c \in {} |-> 0]
Steps == {"window", "read", "sync", "record", "decide", "stop", "arm", "armed", "failed"}
Exposures == [Channels -> Nat]

MeterTypeOK ==
    /\ step \in Steps
    /\ contract \in Exposures
    /\ commanded \in Seq(Exposures)
    /\ raw \in Seq([sight : Sights, clear : BOOLEAN])
    /\ synced \in 0..Passes
    /\ journal \in [durable : 0..Passes, complete : BOOLEAN]
    /\ final \in Exposures \cup {None}

\* The frame is bound and its first window commands carry the seed.
MeterInit ==
    /\ step = "window"
    /\ contract = Default
    /\ commanded = <<>>
    /\ raw = <<>> /\ synced = 0
    /\ journal = [durable |-> 0, complete |-> FALSE]
    /\ final = None

-----------------------------------------------------------------------------
(* What the controller makes of a pass.                                    *)

LeastOf(a, b) == IF a < b THEN a ELSE b
GreatestOf(a, b) == IF a > b THEN a ELSE b
Clip(x, low, high) == LeastOf(GreatestOf(x, low), high)

\* round() of a quotient, ties to even.
Rounded(a, b) ==
    LET q == a \div b
        r == a % b
    IN  IF 2 * r > b \/ (2 * r = b /\ q % 2 = 1) THEN q + 1 ELSE q

\* One observation: the exposures as echoed, and the samples.
Observation(p) ==
    [exposures |-> commanded[p], sight |-> raw[p].sight, clear |-> raw[p].clear]
Before(p) == IF p = 1 THEN {} ELSE {Observation(p - 1)}

\* The scanner saturates.
Core(o, c) == LeastOf(1000, (o.exposures[c] * o.sight[c].core) \div Unit)
Peak(o, c) == LeastOf(1000, (o.exposures[c] * o.sight[c].peak) \div Unit)

\* Half to twice the exposure, towards the target ...
Wanted(o, c) ==
    LET e == o.exposures[c]
        aim == IF Core(o, c) = 0 THEN 2 * e ELSE Rounded(e * Target(c), Core(o, c))
    IN  Clip(Clip(aim, Rounded(e, 2), 2 * e), ExposureMin, ExposureMax)

\* ... but an increase not beyond what is predicted to stay below the ceiling.
\* (ProposedUncapped: a variant without the prediction.)
ProposedUncapped(o) == [c \in Channels |-> Wanted(o, c)]
Proposed(o) ==
    [c \in Channels |->
        LET e == o.exposures[c]
        IN  IF Wanted(o, c) > e /\ Peak(o, c) > 0
            THEN LeastOf(Wanted(o, c), GreatestOf(e, (e * Ceiling) \div Peak(o, c)))
            ELSE Wanted(o, c)]

\* Out of bounds, too dark, without texture, or clipped and still too dark.
Unsafe(o, c) ==
    \/ o.exposures[c] \notin ExposureMin..ExposureMax
    \/ Core(o, c) < 20
    \/ ~o.clear
    \/ Peak(o, c) >= Ceiling /\ Proposed(o)[c] > o.exposures[c]

\* The samples followed the exposure from one pass to the next within a tenth:
\* what is left of the gain is the change of what is seen.
Linear(previous, o, c) ==
    LET then == previous.sight[c].core
        now == o.sight[c].core
    IN  /\ 10 * (now - then) <= then
        /\ 10 * (then - now) <= then

\* "previous" holds the observation before, if there is one.
Accepted(o, previous) ==
    \A c \in Channels : ~Unsafe(o, c) /\ \A q \in previous : Linear(q, o, c)

\* The last update is at most a twentieth.
Converged(o) ==
    \A c \in Channels :
        LET e == o.exposures[c]
        IN  /\ 20 * (Proposed(o)[c] - e) <= e
            /\ 20 * (e - Proposed(o)[c]) <= e

\* verify_final_convergence.
Verified(o, previous) == previous # {} /\ Accepted(o, previous) /\ Converged(o)

\* The visible channels of the fine scan: brighter than the controller's target,
\* but below the reviewed high as the last pass predicts it.
Guarded(o, c) ==
    LET candidate == Rounded(Proposed(o)[c] * ParityTarget, Core(o, c))
        cap == (o.exposures[c] * ReviewedHigh) \div Peak(o, c)
    IN  Clip(LeastOf(candidate, cap), ExposureMin, ExposureMax)

\* Infrared passes through from the controller.
FineExposures(o) ==
    [c \in Channels |-> IF c = Infrared THEN Proposed(o)[c] ELSE Guarded(o, c)]

-----------------------------------------------------------------------------
(* The frame, step by step.                                                *)

Taken == Len(raw)

\* What a scanner answers that did not take the new windows over.
Stale == IF commanded = <<>> THEN Default ELSE commanded[Len(commanded)]

\* _validate_live_meter_windows: each window of a pass is echoed as the plan has it.
PassEchoed(echo) == echo = contract

\* _validate_live_fine_windows, of what is sent and of what is echoed.
FineEchoed(echo) == contract = final /\ echo = contract

\* _patch_exposure_contract: the commands and the echoes expected of them, together.
Patch(exposures) == contract' = exposures

\* The pass is commanded and its GET_WINDOW echoes are read; only the echo of
\* what was commanded is journalled, anything else fails the frame.
\* (WindowsOnTrust: a variant that takes any echo.)
WindowsOnTrust ==
    /\ step = "window"
    /\ \E echo \in {contract, Stale} :
          /\ commanded' = Append(commanded, echo)
          /\ step' = "read"
    /\ UNCHANGED <<contract, raw, synced, journal, final>>
EchoWindows ==
    /\ step = "window"
    /\ \E echo \in {contract, Stale} :
          \/ PassEchoed(echo) /\ commanded' = Append(commanded, echo) /\ step' = "read"
          \/ ~PassEchoed(echo) /\ step' = "failed" /\ UNCHANGED commanded
    /\ UNCHANGED <<contract, raw, synced, journal, final>>

\* Its samples are written to the meter file as they come, and all came.
ReadPass ==
    /\ step = "read"
    /\ \E sight \in Sights, clear \in BOOLEAN :
          raw' = Append(raw, [sight |-> sight, clear |-> clear])
    /\ step' = "sync"
    /\ UNCHANGED <<contract, commanded, synced, journal, final>>

\* flush, fsync of the file and of its directory.
SyncPass ==
    /\ step = "sync"
    /\ synced' = Taken
    /\ step' = "record"
    /\ UNCHANGED <<contract, commanded, raw, journal, final>>

\* durable_completed_passes.
RecordPass ==
    /\ step = "record"
    /\ journal' = [journal EXCEPT !.durable = Taken]
    /\ step' = "decide"
    /\ UNCHANGED <<contract, commanded, raw, synced, final>>

\* After the first and the second pass: the next group of windows.
ProposeNext ==
    /\ step = "decide" /\ Taken < Passes
    /\ \/ /\ Accepted(Observation(Taken), Before(Taken))
          /\ Patch(Proposed(Observation(Taken)))
          /\ step' = "window"
       \/ /\ ~Accepted(Observation(Taken), Before(Taken))
          /\ step' = "failed"
          /\ UNCHANGED contract
    /\ UNCHANGED <<commanded, raw, synced, journal, final>>

\* After the third: the exposures of the fine scan.
SolveFine ==
    /\ step = "decide" /\ Taken = Passes
    /\ \/ /\ Verified(Observation(Taken), Before(Taken))
          /\ final' = FineExposures(Observation(Taken))
          /\ Patch(FineExposures(Observation(Taken)))
          /\ step' = "stop"
       \/ /\ ~Verified(Observation(Taken), Before(Taken))
          /\ step' = "failed"
          /\ UNCHANGED <<final, contract>>
    /\ UNCHANGED <<commanded, raw, synced, journal>>

\* The evidence is complete, synced once more, and journalled before the fine
\* scan is armed.
StopMetering ==
    /\ step = "stop"
    /\ synced' = Taken
    /\ journal' = [durable |-> Taken, complete |-> TRUE]
    /\ step' = "arm"
    /\ UNCHANGED <<contract, commanded, raw, final>>

\* The fine windows are sent only as the accepted result, and must be echoed.
ArmFine ==
    /\ step = "arm"
    /\ \E echo \in {contract, Stale} :
          step' = IF final # None /\ journal.complete /\ FineEchoed(echo)
                  THEN "armed" ELSE "failed"
    /\ UNCHANGED <<contract, commanded, raw, synced, journal, final>>

\* A command, a short read or a write of the file or the journal fails.
MeteringFails ==
    /\ step \notin {"armed", "failed"}
    /\ step' = "failed"
    /\ UNCHANGED <<contract, commanded, raw, synced, journal, final>>

MeterNext ==
    \/ EchoWindows \/ ReadPass \/ SyncPass \/ RecordPass \/ ProposeNext
    \/ SolveFine \/ StopMetering \/ ArmFine \/ MeteringFails

-----------------------------------------------------------------------------
(* Properties.                                                             *)

\* evaluate_meter_sequence: the three recorded passes judged afterwards, from
\* the evidence alone.
EvidenceAccepts ==
    /\ Len(raw) = Passes /\ Len(commanded) = Passes
    /\ \A p \in 1..Passes : Accepted(Observation(p), Before(p))
    /\ \A p \in 1..(Passes - 1) : commanded[p + 1] = Proposed(Observation(p))
    /\ Converged(Observation(Passes))

\* The journal never claims a pass that a crash could take back; and whenever
\* the fine scan is armed, complete evidence is durable that, judged afterwards,
\* is accepted and solves for the infrared exposure that was commanded.
\* ("fine SET_WINDOW reached before raw meter evidence was durably persisted")
ArmedOnEvidence ==
    /\ journal.durable <= synced /\ synced <= Taken
    /\ step = "armed" =>
          /\ journal = [durable |-> Passes, complete |-> TRUE]
          /\ EvidenceAccepts
          /\ final[Infrared] = Proposed(Observation(Passes))[Infrared]

\* What the last pass predicts for a channel at some exposure.
Predicted(p, c, exposure, limit) ==
    exposure * Peak(Observation(p), c) <= limit * commanded[p][c]

\* No pass and no fine scan is exposed outside the device's bounds; no increase is
\* predicted to pass the ceiling, nor a visible channel of the fine scan the
\* reviewed high unless the device could not expose it less.
\* (the predictive cap of propose_next_exposures, the guard of the parity candidate)
NothingOverexposed ==
    /\ \A p \in 2..Len(commanded), c \in Channels :
          /\ commanded[p][c] \in ExposureMin..ExposureMax
          /\ commanded[p][c] > commanded[p - 1][c]
                => Predicted(p - 1, c, commanded[p][c], Ceiling)
    /\ final # None => \A c \in Channels :
          /\ final[c] \in ExposureMin..ExposureMax
          /\ c # Infrared =>
                \/ Predicted(Passes, c, final[c], ReviewedHigh)
                \/ final[c] = ExposureMin
          /\ c = Infrared /\ final[c] > commanded[Passes][c]
                => Predicted(Passes, c, final[c], Ceiling)
=============================================================================
