------------------------------ MODULE ReviewedRoll ------------------------------
(***************************************************************************)
(* The review of a roll and the batch that relies on it: preview, restored *)
(* previews, boundary offsets and approvals of _roll.py and                *)
(* preview_session.py, the request and job of capture_process.py, and the  *)
(* child that traverses the film again, binds every frame to what it finds *)
(* and scans; then the checks that the parent and the finalization make of *)
(* each journal, which are Evidence.                                       *)
(*                                                                         *)
(* Between any two calls the film may be changed, the scanner plugged in   *)
(* elsewhere, the saved artifacts altered and the application restarted;   *)
(* MaxDisturbances bounds how often.  The locks and threads around these   *)
(* calls are Roll, the processes and their receipts BatchSession.          *)
(***************************************************************************)
EXTENDS Evidence

CONSTANTS
    Feeds,              \* how a film may lie in the feeder: film and load
    Ports,              \* USB addresses
    MaxPreviews, MaxJobs, MaxDisturbances

ASSUME ReviewedRollAssumption ==
    /\ MaxPreviews \in Nat /\ MaxJobs \in Nat /\ MaxDisturbances \in Nat

VARIABLES
    feed,           \* the film in the feeder
    port,           \* the address the scanner is at
    device,         \* the address the open roll names
    session,        \* the reviewed preview: its capture, reading and offsets
    approvals,      \* per slot, the approval the roll holds
    looked,         \* the slots approved since what they show last changed (history)
    saved,          \* a serialized session, with what its capture read (history)
    altered,        \* the saved capture's artifacts are no longer what was captured
    job,            \* the reserved batch
    scanned,        \* the frames the last batch scanned fine
    outcome,        \* how it ended
    captures, jobs, disturbances

review == <<session, approvals, looked>>
disk == <<saved, altered>>
batch == <<job, scanned, outcome>>
counts == <<captures, jobs, disturbances>>
vars == <<feed, port, device, review, disk, batch, counts>>

NoOffsets == [s \in Acted |-> 0]
NoApprovals == [s \in Acted |-> None]
Approvals == [capture : 1..MaxPreviews, slot : Acted, offset : Offsets]

Sessions == [capture : 1..MaxPreviews, port : Ports, reading : Readings,
             offsets : [Acted -> Offsets]]
Outcomes == {"refused", "complete", "rejected", "unbound", "unidentified"}

\* No approval, and no outcome yet, are told from an approval and an outcome.
ASSUME NoneAssumption == None \notin Approvals /\ None \notin Outcomes

\* A batch from its reservation on; "fresh" is the child's own traversal.
Jobs == [capture : 1..MaxPreviews, port : Ports, reading : Readings, request : Requests,
         approvals : [Acted -> Approvals \cup {None}],
         flagged : SUBSET Acted, looked : SUBSET Acted,
         fresh : Readings \cup {None}, left : SUBSET Acted]
Scans == [slot : Acted, reviewed : Pictures, picture : Pictures, chosen : Offsets, at : Int,
          rebased : BOOLEAN, accepted : BOOLEAN]

TypeOK ==
    /\ feed \in Feeds /\ port \in Ports /\ device \in Ports
    /\ session \in Sessions \cup {None}
    /\ approvals \in [Acted -> Approvals \cup {None}]
    /\ looked \subseteq Acted
    /\ saved \in Sessions \cup {None} /\ altered \in BOOLEAN
    /\ job \in Jobs \cup {None}
    /\ scanned \subseteq Scans
    /\ outcome \in Outcomes \cup {None}
    /\ captures \in 0..MaxPreviews /\ jobs \in 0..MaxJobs
    /\ disturbances \in 0..MaxDisturbances

Init ==
    /\ feed \in Feeds /\ port \in Ports /\ device = port
    /\ session = None /\ approvals = NoApprovals /\ looked = {}
    /\ saved = None /\ altered = FALSE
    /\ job = None /\ scanned = {} /\ outcome = None
    /\ captures = 0 /\ jobs = 0 /\ disturbances = 0

\* What the scanner may read of the film that is in it.
Readable == {r \in Readings : r.film = feed.film /\ r.load = feed.load}

\* The scanner is found and claimed at the address that is named.
Connected(named) == port = named

-----------------------------------------------------------------------------
(* The review *)

\* A batch freezes the reviewed session and its approvals.
Mutable == job = None

Reviewing == Mutable /\ session # None
InSession(s) == s \in Acted /\ s <= Slots(session.reading)

Show(new) ==
    /\ session' = new
    /\ approvals' = NoApprovals
    /\ looked' = {}

\* The preview reads the device the roll names.
Preview ==
    /\ Mutable /\ captures < MaxPreviews /\ Connected(device)
    /\ captures' = captures + 1
    /\ \E r \in Readable :
           Show([capture |-> captures', port |-> device, reading |-> r, offsets |-> NoOffsets])
    /\ UNCHANGED <<feed, port, device, disk, batch, jobs, disturbances>>

\* A capture that fails, or whose lattice cannot be trusted, leaves the old review.
PreviewFails ==
    /\ Mutable /\ captures < MaxPreviews
    /\ captures' = captures + 1
    /\ UNCHANGED <<feed, port, device, review, disk, batch, jobs, disturbances>>

\* One payload is kept; a later one would be another.
Save ==
    /\ session # None /\ saved = None
    /\ saved' = session
    /\ UNCHANGED <<feed, port, device, review, altered, batch, counts>>

\* The artifacts decoded again; whoever changed them made another roll of them.
OnDisk ==
    IF altered THEN CHOOSE r \in Readings : r.film # saved.reading.film ELSE saved.reading

RestoredBy(checked) ==
    /\ Mutable /\ saved # None
    /\ checked
    /\ saved.port = device
    /\ Show([saved EXCEPT !.reading = OnDisk])
    /\ UNCHANGED <<feed, port, device, disk, batch, counts>>

\* Variant: the artifacts are decoded, their digests not compared.
RestoreUnverified == RestoredBy(TRUE)

\* Journal, preview and table are digested and decoded again; no approval is restored.
Restore == RestoredBy(~altered)

\* Variant: an approval names its offset, so it is left to be checked later.
SetOffsetOnly(s, offset) ==
    /\ Reviewing /\ InSession(s)
    /\ session' = [session EXCEPT !.offsets[s] = offset]
    /\ looked' = looked \ {s}
    /\ UNCHANGED <<feed, port, device, approvals, disk, batch, counts>>

SetOffset(s, offset) ==
    /\ Reviewing /\ InSession(s)
    /\ session' = [session EXCEPT !.offsets[s] = offset]
    /\ approvals' = [approvals EXCEPT ![s] = None]
    /\ looked' = looked \ {s}
    /\ UNCHANGED <<feed, port, device, disk, batch, counts>>

\* The receipt binds the capture, the slot with its thumbnail, and the record it shows.
Receipt(s) == [capture |-> session.capture, slot |-> s, offset |-> session.offsets[s]]

Approve(s) ==
    /\ Reviewing /\ InSession(s)
    /\ Flagged(session.reading, s)
    /\ approvals' = [approvals EXCEPT ![s] = Receipt(s)]
    /\ looked' = looked \cup {s}
    /\ UNCHANGED <<feed, port, device, session, disk, batch, counts>>

-----------------------------------------------------------------------------
(* The batch *)

Unreviewed(s) == Flagged(session.reading, s) /\ approvals[s] # Receipt(s)

\* An approval of another capture, slot or offset does not make a request, needed or not.
Requestable(s) == approvals[s] \in {None, Receipt(s)}

Reserve(S) ==
    job' = [capture |-> session.capture, port |-> session.port, reading |-> session.reading,
            request |-> [s \in S |-> session.offsets[s]],
            approvals |-> [s \in Acted |-> IF s \in S THEN approvals[s] ELSE None],
            flagged |-> {s \in S : Flagged(session.reading, s)}, looked |-> S \cap looked,
            fresh |-> None, left |-> S]

\* Variant: a request for no slot is not refused.
ScanManyOfNone(S) ==
    /\ Reviewing /\ jobs < MaxJobs
    /\ \A s \in S : InSession(s) /\ ~Unreviewed(s) /\ Requestable(s)
    /\ jobs' = jobs + 1
    /\ Reserve(S)
    /\ scanned' = {} /\ outcome' = None
    /\ UNCHANGED <<feed, port, device, review, disk, captures, disturbances>>

ScanMany(S) ==
    /\ Reviewing /\ jobs < MaxJobs
    /\ S # {} /\ \A s \in S : InSession(s)
    /\ \A s \in S : ~Unreviewed(s) /\ Requestable(s)
    /\ jobs' = jobs + 1
    /\ Reserve(S)
    /\ scanned' = {} /\ outcome' = None
    /\ UNCHANGED <<feed, port, device, review, disk, captures, disturbances>>

End(how) == job' = None /\ outcome' = how

\* The slots the job carries an approval for.
Approved == {s \in Acted : job.approvals[s] # None}

\* The job cannot be used, the scanner is not where it was, or the fresh traversal
\* is not the reviewed roll.
Refuse ==
    /\ job # None /\ job.fresh = None
    /\ \/ ~Connected(job.port)
       \/ \E r \in Readable : ~Selected(job.reading, r, job.request, Approved)
    /\ End("refused")
    /\ UNCHANGED <<feed, port, device, review, disk, scanned, counts>>

Bind ==
    /\ job # None /\ job.fresh = None /\ Connected(job.port)
    /\ \E r \in Readable :
           /\ Selected(job.reading, r, job.request, Approved)
           /\ job' = [job EXCEPT !.fresh = r]
    /\ UNCHANGED <<feed, port, device, review, disk, scanned, outcome, counts>>

Turn == CHOOSE s \in job.left : \A t \in job.left : s <= t
TurnOrigin == Bound(job.fresh, Turn, job.request[Turn])
Applied(s) == Bound(job.fresh, s, job.request[s]).row - Start(job.fresh, s)

\* A later frame is scanned only when its binding applied what was requested.
Unbound ==
    /\ job # None /\ job.fresh # None /\ job.left # {}
    /\ job.left # DOMAIN job.request
    /\ Applied(Turn) # job.request[Turn]
    /\ End("unbound")
    /\ UNCHANGED <<feed, port, device, review, disk, scanned, counts>>

\* What the batch asks of a slot.
Asked(s) ==
    [slot |-> s, offset |-> job.request[s], approval |-> job.approvals[s],
     capture |-> job.capture]

\* One fine scan; the parent's check of its journal before the child goes on, and then
\* the finalization.
FineScan ==
    /\ job # None /\ job.fresh # None /\ job.left # {}
    /\ job.left # DOMAIN job.request => Applied(Turn) = job.request[Turn]
    /\ LET s == Turn
           journal == Journal(Asked(s), job.reading, job.fresh)
           passed == ParentAccepts(journal, Asked(s))
           good == passed /\ FinalizationAccepts(journal, s, job.request[s]) IN
       /\ scanned' = scanned \cup
              {[slot |-> s,
                reviewed |-> Picture(job.reading, s), picture |-> Picture(job.fresh, s),
                chosen |-> job.request[s], at |-> TurnOrigin.native \div Scale - Start(job.fresh, s),
                rebased |-> Rebased(job.fresh, s, job.request[s]), accepted |-> good]}
       /\ IF good THEN job' = [job EXCEPT !.left = @ \ {s}] /\ UNCHANGED outcome
          ELSE End(IF passed THEN "unidentified" ELSE "rejected")
    /\ UNCHANGED <<feed, port, device, review, disk, counts>>

Complete ==
    /\ job # None /\ job.left = {}
    /\ End("complete")
    /\ UNCHANGED <<feed, port, device, review, disk, scanned, counts>>

-----------------------------------------------------------------------------
(* What happens to the roll meanwhile *)

Disturb ==
    /\ disturbances < MaxDisturbances
    /\ disturbances' = disturbances + 1
    /\ UNCHANGED <<captures, jobs>>

\* While the child holds the scanner the film stays and the cable too.
Idle == job # None => job.fresh = None

ChangeFilm ==
    /\ Disturb /\ Idle
    /\ feed' \in Feeds \ {feed}
    /\ UNCHANGED <<port, device, review, disk, batch>>

Replug ==
    /\ Disturb /\ Idle
    /\ port' \in Ports \ {port}
    /\ UNCHANGED <<feed, device, review, disk, batch>>

Alter ==
    /\ Disturb /\ saved # None /\ ~altered
    /\ altered' = TRUE
    /\ UNCHANGED <<feed, port, device, review, saved, batch>>

\* Another process opens the roll; what was only in memory is gone.
Reopen ==
    /\ Disturb /\ Mutable
    /\ device' = port
    /\ Show(None)
    /\ UNCHANGED <<feed, port, disk, batch>>

Next ==
    \/ Preview \/ PreviewFails \/ Save \/ Restore
    \/ \E s \in Acted : Approve(s)
    \/ \E s \in Acted, offset \in Offsets : SetOffset(s, offset)
    \/ \E S \in SUBSET Acted : ScanMany(S)
    \/ Refuse \/ Bind \/ Unbound \/ FineScan \/ Complete
    \/ ChangeFilm \/ Replug \/ Alter \/ Reopen

Spec == Init /\ [][Next]_vars

-----------------------------------------------------------------------------
(* Properties *)

\* An accepted fine scan shows the picture the operator reviewed in that slot, and
\* lies where the operator put it: within the two rows an automatic origin may be off
\* the line, or the five of a leading anchor.
FineScanIsReviewed ==
    \A f \in scanned : f.accepted =>
        /\ f.picture = f.reviewed
        /\ Abs(f.at - f.chosen) <= IF f.slot = 1 THEN MaxLeadingError ELSE MaxInteriorError

\* What tells the frames of two traversals apart: their places, when it is one film that
\* lies less than a pitch further in; or else their hashes.
SamePlace(a, b) == a.film = b.film /\ Abs(a.load - b.load) + MaxStart < Pitch

ToldApart(a, b) ==
    \A i \in 1..Len(Films[a.film]), j \in 1..Len(Films[b.film]) :
        Distance(Films[a.film][i], Films[b.film][j]) <= MaxSelectedHamming
            => Films[a.film][i] = Films[b.film][j]

TellsFramesApart == \A a, b \in Readings : SamePlace(a, b) \/ ToldApart(a, b)

\* A batch takes a slot the review flagged only after an approval of what the slot
\* shows now: "Calling preview() again ... clears any recorded approvals", "Restoring
\* never carries approvals forward", an offset "invalidates any existing approval".
\* So a slot without approval was automatic in the review, as the child infers.
ReviewIsCurrent ==
    job # None => job.flagged \subseteq job.looked \cap Approved

\* The session in use is what a capture read: also when it was restored after its
\* files were changed, and only on the device it was captured with.
RestoredIsCaptured ==
    session # None =>
        /\ session.port = device
        /\ saved # None /\ saved.capture = session.capture => session.reading = saved.reading

\* The child, the parent and the finalization judge alike: of what the child scans
\* under a binding that was not rebased nothing is refused afterwards.
JudgedAlike ==
    /\ outcome # "rejected"
    /\ \A f \in scanned : f.accepted \/ f.rebased

\* A batch whose bindings were all accepted before its first fine scan is not refused
\* for one of them later: "Boundary-offset application rebases a frame-1 leading origin
\* ... instead of raising" (CHANGELOG).
BindingHolds == outcome \notin {"unbound", "unidentified"}

=============================================================================
