-------------------------------- MODULE Evidence --------------------------------
(***************************************************************************)
(* What the child's journal of one frame says of the film it was scanned   *)
(* from, and the two checks that are made of it: by the parent in          *)
(* capture_process.py, before it lets the child go on, and by the          *)
(* finalization in single_pass_workflow.py.  Each is coded on its own and  *)
(* sees only the journal and the request; neither calls the comparisons of *)
(* Traversal again.                                                        *)
(*                                                                         *)
(* That a field is there and has its type is left out of both checks: the  *)
(* child always writes them.                                               *)
(***************************************************************************)
EXTENDS Traversal

CONSTANT None

\* A frame's request: its slot and boundary offset, the operator's approval if there
\* is one, and the capture whose fingerprint was reviewed.

\* A leading anchor that lies apart was accepted without an approval; the journal
\* then records by how much.
AcceptedResidual(request, base) ==
    IF ~Automatic(base) /\ request.approval = None /\ NarrowlyLeading(base)
    THEN {base.residual} ELSE {}

\* The flags are those of the selected origin, the accepted residual is the slot's own.
Journal(request, reviewed, fresh) ==
    LET base == Origin(fresh, request.slot)
        selected == Bound(fresh, request.slot, request.offset)
        roll == Comparisons[<<reviewed, fresh>>]
        frame == SelectedComparison(Reviewed(reviewed), Fresh(fresh), request.slot) IN
    [request |-> request,
     roll |-> roll, rollMatches |-> Matches(roll),
     frame |-> frame, frameMatches |-> SelectedMatches(frame),
     applied |-> selected.row - base.row,
     automatic |-> Automatic(selected),
     accepted |-> AcceptedResidual(request, base)]

-----------------------------------------------------------------------------
(* The parent *)

\* The minimum is derived from the frames that were compared, not from those of the roll.
ParentProvesRoll(c) ==
    /\ c.compared \in 1..40
    /\ c.minimum = Least(MinDiscriminative, c.compared)
    /\ 1 <= c.minimum /\ c.minimum <= c.discriminative /\ c.discriminative <= c.compared
    /\ c.hamming2 <= 2 * MaxMedianHamming /\ c.hammingP90 <= MaxP90Hamming
    /\ c.start2 <= 2 * MaxStartMedian /\ c.startMost <= MaxStart
    /\ c.origin2 <= 2 * MaxOriginMedian /\ c.originMost <= MaxOrigin

ParentProvesFrame(c, slot) ==
    /\ c.slot = slot
    /\ c.maximum = MaxSelectedHamming /\ c.hamming \in 0..c.maximum
    /\ c.freshTells /\ c.reviewedTells

ParentAccepts(journal, request) ==
    /\ journal.request = request
    /\ journal.rollMatches /\ ParentProvesRoll(journal.roll)
    /\ journal.frameMatches /\ ParentProvesFrame(journal.frame, request.slot)

-----------------------------------------------------------------------------
(* The finalization *)

FinalizationProvesRoll(c) ==
    /\ c.compared \in 1..40
    /\ c.minimum = Least(MinDiscriminative, c.compared)
    /\ c.minimum \in 1..c.discriminative /\ c.discriminative <= c.compared
    /\ c.hamming2 <= 2 * MaxMedianHamming /\ c.hammingP90 <= MaxP90Hamming
    /\ c.start2 <= 2 * MaxStartMedian /\ c.startMost <= MaxStart
    /\ c.origin2 <= 2 * MaxOriginMedian /\ c.originMost <= MaxOrigin

FinalizationProvesFrame(c, slot) ==
    /\ c.slot = slot
    /\ c.maximum = MaxSelectedHamming /\ c.hamming \in 0..c.maximum
    /\ c.reviewedTells /\ c.freshTells

\* Five rows is a number of the finalization's own.
DivergenceAccepted(journal) == \E rows \in journal.accepted : Abs(rows) <= 5

\* Variant: the acceptance of a leading anchor is not known to the finalization.
AuthorizedByApproval(journal, slot, offset) ==
    LET approval == journal.request.approval IN
    ~journal.automatic \/ approval # None
        => approval = [capture |-> journal.request.capture, slot |-> slot, offset |-> offset]

\* An approval is checked where it is present, not only where it is needed.
Authorized(journal, slot, offset) ==
    LET approval == journal.request.approval IN
    (~journal.automatic /\ ~DivergenceAccepted(journal)) \/ approval # None
        => approval = [capture |-> journal.request.capture, slot |-> slot, offset |-> offset]

\* The row that was applied is the row that was requested, the evidence proves roll and
\* frame, and the origin speaks for itself or somebody speaks for it.
FinalizationAccepts(journal, slot, offset) ==
    /\ journal.request.slot = slot /\ journal.request.offset = offset
    /\ journal.applied = offset
    /\ journal.rollMatches /\ FinalizationProvesRoll(journal.roll)
    /\ journal.frameMatches /\ FinalizationProvesFrame(journal.frame, slot)
    /\ Authorized(journal, slot, offset)

=============================================================================
