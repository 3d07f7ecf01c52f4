------------------------------- MODULE Traversal -------------------------------
(***************************************************************************)
(* What one traversal of the film says, and what two of them must agree on *)
(* before a frame may be scanned fine: the transport mapping of            *)
(* roll_index.py, the reviewed fingerprint and its comparisons of          *)
(* capture_process.py, and the selection of batch frames in worker.py.     *)
(*                                                                         *)
(* A reading is the film, the rows by which it lies further in than it     *)
(* might, and what was odd in this traversal: a set of pairs <<kind,       *)
(* slot>>.  Everything the program derives from the preview's pixels and   *)
(* the 0x8e table is an operator of the reading.  Rows are preview rows; a *)
(* native origin counts Scale units a row, as the table's ramp does.       *)
(***************************************************************************)
EXTENDS Integers, Sequences, FiniteSets

CONSTANTS
    Films,              \* per film, its pictures in order
    Readings,           \* the traversals the scanner may make
    Distance(_, _),     \* the bits in which the hashes of two pictures differ (external)
    Blank,              \* a picture without contrast: its hash says nothing
    Pitch,              \* preview rows from a frame to the next
    SlotCapacity,       \* records of the startup table
    Height,             \* preview rows of the index
    Page,               \* the origins of the 37 records of Nikon's own SEND(0x8f) page (external)
    Acted,              \* the slots the operator works on
    Offsets             \* the boundary offsets the operator tries

Scale == 42             \* native units a preview row (minimum_scale..maximum_scale)
FineHeight == 5959      \* native units of a fine window
PageRecords == 37       \* records of a SEND(0x8f) page

\* roll_index.py and capture_process.py
MaxInteriorError == 2
MaxLeadingError == 5
MaxMedianHamming == 24
MaxP90Hamming == 48
MaxSelectedHamming == 48
MinDiscriminative == 3
MaxStartMedian == 16
MaxStart == 32
MaxOriginMedian == 128
MaxOrigin == 256

\* The kinds of oddity:
\* "missed"   the first frame is not found, the second is slot 1
\* "cut"      the last frame is not found
\* "sliver"   the film's end shows as one more interval, too short to sign
\* "vague"    the lattice's confidence is medium
\* "leading"  the first gap's record is four rows from the others' line
\* "broad"    the gap before a slot is no direct anchor; its origin is inferred
\* "clamped"  likewise, and no record near it fits the line
\* "beyond"   the slot lies past the advisory end of the content
\* "astray"   the records near the slot, other than its own, are four rows off the line
\* "lost"     likewise, nine rows
\* "tail"     the transport's terminal tail begins with the slot
SlotKinds == {"missed", "cut", "sliver", "vague", "leading", "broad", "clamped", "beyond",
              "astray", "lost", "tail"}

Abs(i) == IF i < 0 THEN -i ELSE i
Least(i, j) == IF i < j THEN i ELSE j

Pictures == UNION {{Films[f][p] : p \in DOMAIN Films[f]} : f \in DOMAIN Films}

ASSUME TraversalAssumption ==
    /\ \A r \in Readings :
           /\ DOMAIN r = {"film", "load", "odd"}
           /\ r.film \in DOMAIN Films /\ r.load \in Nat
           /\ \A o \in r.odd : o[1] \in SlotKinds /\ o[2] \in 1..Len(Films[r.film])
    /\ \A f \in DOMAIN Films : Films[f] \in Seq(Pictures) /\ Len(Films[f]) \in 3..40
    /\ \A p, q \in Pictures : Distance(p, q) \in 0..256
    /\ Pitch \in Nat \ {0} /\ SlotCapacity \in 2..40 /\ Height \in Nat
    /\ Page \in [1..PageRecords -> Nat]
    /\ \A k \in 2..PageRecords : Page[k - 1] < Page[k]
    /\ Acted \subseteq 1..40 /\ 0 \in Offsets /\ Offsets \subseteq Nat

Shows(r, kind, s) == <<kind, s>> \in r.odd
Somewhere(r, kind) == \E o \in r.odd : o[1] = kind

-----------------------------------------------------------------------------
(* The lattice *)

First(r) == IF Somewhere(r, "missed") THEN 2 ELSE 1
Signed(r) == Len(Films[r.film]) - First(r) + 1 - (IF Somewhere(r, "cut") THEN 1 ELSE 0)

\* The trailing sliver stays a slot: it is covered, only short.
Intervals(r) == Signed(r) + (IF Somewhere(r, "sliver") THEN 1 ELSE 0)
Picture(r, s) == Films[r.film][First(r) + s - 1]
Start(r, s) == r.load + Pitch * (First(r) + s - 2)

\* The first row of the maximal suffix of high-bit records.
TailRow(r) ==
    IF Somewhere(r, "tail")
    THEN Start(r, CHOOSE s \in 1..Len(Films[r.film]) : Shows(r, "tail", s))
    ELSE Height

-----------------------------------------------------------------------------
(* The transport mapping *)

\* How far the record at an offset from a slot's row is from the line through
\* the interior anchors, in rows.
Residual(r, s, offset) ==
    IF offset = 0
    THEN IF s = 1 /\ Shows(r, "leading", 1) THEN 4
         ELSE IF Shows(r, "clamped", s) THEN 9 ELSE 0
    ELSE IF Shows(r, "astray", s) THEN 4
         ELSE IF Shows(r, "lost", s) THEN 9 ELSE 0

RecordOrigin(r, s, offset) == Scale * (Start(r, s) + offset - Residual(r, s, offset))

InTail(r, s) == Start(r, s) >= TailRow(r)
Clamped(r, s) ==
    InTail(r, s) \/ (s # 1 /\ Abs(Residual(r, s, 0)) > MaxInteriorError)
LeadingApart(r) == Abs(Residual(r, 1, 0)) > MaxInteriorError

\* One origin of the mapping.  What is clamped keeps the record's identity but
\* takes the line's own prediction for its origin.
Origin(r, s) ==
    [row |-> Start(r, s),
     native |-> IF Clamped(r, s) THEN Scale * Start(r, s) ELSE RecordOrigin(r, s, 0),
     residual |-> IF Clamped(r, s) THEN 0 ELSE Residual(r, s, 0),
     method |-> IF Shows(r, "broad", s) \/ Shows(r, "clamped", s) THEN "inferred" ELSE "direct",
     identity |-> ~Clamped(r, s),
     reasons |-> {k \in {"broad"} : Shows(r, "broad", s) \/ Shows(r, "clamped", s)}
         \cup {k \in {"leading"} : s = 1 /\ LeadingApart(r)}
         \cup {k \in {"tail"} : InTail(r, s)}
         \cup {k \in {"clamped"} : Clamped(r, s)}]

Automatic(origin) == origin.reasons = {}

\* Frame 1 alone, and only because its leading record is apart, within five rows.
NarrowlyLeading(origin) ==
    origin.reasons = {"leading"} /\ Abs(origin.residual) <= MaxLeadingError

Mapping(r) == [s \in 1..Intervals(r) |-> Origin(r, s)]

-----------------------------------------------------------------------------
(* The reviewed slots *)

Slots(r) == Least(SlotCapacity, Intervals(r))
Flagged(r, s) == ~Automatic(Origin(r, s)) \/ Shows(r, "beyond", s)

-----------------------------------------------------------------------------
(* Fingerprints *)

\* What is too short to sign is skipped, and can only be the last interval.
SignedSlots(r, slots) == 1..Least(slots, Signed(r))

Fingerprint(r, slots) ==
    [pictures |-> [s \in SignedSlots(r, slots) |-> Picture(r, s)],
     starts |-> [s \in SignedSlots(r, slots) |-> Start(r, s)],
     origins |-> [s \in SignedSlots(r, slots) |-> Origin(r, s).native]]

Reviewed(r) == Fingerprint(r, Slots(r))
Fresh(r) == Fingerprint(r, Intervals(r))

\* The k-th smallest of the values a function takes on a set, with repetition.
KthLeast(f, S, k) ==
    CHOOSE v \in {f[s] : s \in S} :
        /\ Cardinality({s \in S : f[s] < v}) < k
        /\ Cardinality({s \in S : f[s] <= v}) >= k

\* Twice the median, which may lie between two values.
Median2(f, S) ==
    LET n == Cardinality(S) IN
    KthLeast(f, S, (n + 1) \div 2) + KthLeast(f, S, n \div 2 + 1)

Largest(f, S) == KthLeast(f, S, Cardinality(S))
P90(f, S) == KthLeast(f, S, LET k == (9 * Cardinality(S) + 9) \div 10 IN IF k < 1 THEN 1 ELSE k)

Telling(a, b) ==
    {s \in DOMAIN a.pictures : a.pictures[s] # Blank /\ b.pictures[s] # Blank}
Hamming(a, b) == [s \in DOMAIN a.pictures |-> Distance(a.pictures[s], b.pictures[s])]

Apart(f, g) == [s \in DOMAIN f |-> Abs(f[s] - g[s])]

\* What is measured of two traversals that sign the same number of frames, some of
\* which tell: a RollFingerprintComparison.  Medians are doubled.
Comparison(a, b) ==
    LET told == Telling(a, b)
        all == DOMAIN a.pictures
        bits == Hamming(a, b)
        rows == Apart(a.starts, b.starts)
        units == Apart(a.origins, b.origins) IN
    [compared |-> Cardinality(told), discriminative |-> Cardinality(told),
     minimum |-> Least(MinDiscriminative, Len(a.pictures)),
     hamming2 |-> Median2(bits, told), hammingP90 |-> P90(bits, told),
     start2 |-> Median2(rows, all), startMost |-> Largest(rows, all),
     origin2 |-> Median2(units, all), originMost |-> Largest(units, all)]

Matches(c) ==
    /\ c.discriminative >= c.minimum
    /\ c.hamming2 <= 2 * MaxMedianHamming /\ c.hammingP90 <= MaxP90Hamming
    /\ c.start2 <= 2 * MaxStartMedian /\ c.startMost <= MaxStart
    /\ c.origin2 <= 2 * MaxOriginMedian /\ c.originMost <= MaxOrigin

SameRoll(a, b) ==
    /\ Len(a.pictures) = Len(b.pictures)
    /\ Telling(a, b) # {}
    /\ Matches(Comparison(a, b))

\* Variant: slots count from one, hashes from nought.
ComparesNextSlot(a, b, s) ==
    [slot |-> s, hamming |-> Distance(a.pictures[s + 1], b.pictures[s + 1]),
     maximum |-> MaxSelectedHamming,
     reviewedTells |-> a.pictures[s + 1] # Blank, freshTells |-> b.pictures[s + 1] # Blank]

\* What is measured of one slot of them: a SelectedRollFingerprintComparison.
SelectedComparison(a, b, s) ==
    [slot |-> s, hamming |-> Distance(a.pictures[s], b.pictures[s]),
     maximum |-> MaxSelectedHamming,
     reviewedTells |-> a.pictures[s] # Blank, freshTells |-> b.pictures[s] # Blank]

SelectedMatches(c) == c.reviewedTells /\ c.freshTells /\ c.hamming <= c.maximum

Comparable(a, b, s) == Len(a.pictures) = Len(b.pictures) /\ s <= Len(a.pictures)

\* The aggregates tolerate one frame in ten; the selected one must match itself.
SameFrame(a, b, s) ==
    Comparable(a, b, s) /\ SelectedMatches(SelectedComparison(a, b, s))

\* The comparisons of a reviewed with a fresh traversal, tabulated.
Matching ==
    {ab \in {<<a, b>> : a \in Readings, b \in Readings} :
        SameRoll(Reviewed(ab[1]), Fresh(ab[2]))}
MatchingFrames ==
    {abs \in {<<a, b, s>> : a \in Readings, b \in Readings, s \in Acted} :
        SameFrame(Reviewed(abs[1]), Fresh(abs[2]), abs[3])}
Comparisons == [ab \in Matching |-> Comparison(Reviewed(ab[1]), Fresh(ab[2]))]

-----------------------------------------------------------------------------
(* The selection of a batch.  A request is a function from slots to their     *)
(* boundary offsets, with the slots whose origin an operator approved.        *)

\* The fresh origin speaks for itself, or somebody speaks for it: an approval, or
\* the reviewed session that called an apart leading anchor automatic.
OriginAllowed(r, s, approved) ==
    LET base == Origin(r, s) IN
    /\ "tail" \notin base.reasons
    /\ Automatic(base) \/ s \in approved \/ NarrowlyLeading(base)

Rebased(r, s, offset) == Abs(Residual(r, s, offset)) > MaxInteriorError

\* The record at the offset is on the line, or near enough to fall back on the
\* slot's own origin.
OffsetResolves(r, s, offset) ==
    /\ Start(r, s) + offset \in 0..(Height - 1)
    /\ Start(r, s) + offset < TailRow(r)
    /\ Abs(Residual(r, s, offset)) <= MaxLeadingError

Bound(r, s, offset) ==
    LET base == Origin(r, s)
        moved == IF offset = 0 THEN base.method ELSE "moved" IN
    IF Rebased(r, s, offset)
    THEN [base EXCEPT !.method = moved]
    ELSE [base EXCEPT !.row = Start(r, s) + offset,
                      !.native = RecordOrigin(r, s, offset),
                      !.residual = Residual(r, s, offset),
                      !.identity = TRUE,
                      !.method = moved]

\* Every requested offset is applied to one mapping.
Combined(r, request) ==
    [s \in 1..Intervals(r) |->
        IF s \in DOMAIN request THEN Bound(r, s, request[s]) ELSE Origin(r, s)]

LeadingPrefix(s, origin) ==
    /\ s = 1 /\ origin.method = "direct"
    /\ "leading" \in origin.reasons

AddressableOrigin(s, origin) ==
    /\ "tail" \notin origin.reasons
    /\ Abs(origin.residual) <=
           IF LeadingPrefix(s, origin) THEN MaxLeadingError ELSE MaxInteriorError

\* The physical prefix that the scanner can address.
Addressable(mapping) ==
    {s \in DOMAIN mapping : \A t \in 1..s : AddressableOrigin(t, mapping[t])}

\* The records of SEND(0x8f) reproduce their origins, in increasing order: the first 37
\* of the prefix, and after a shorter one the rest of Nikon's own page.
TableFits(mapping) ==
    LET prefix == Cardinality(Addressable(mapping)) IN
    /\ prefix >= 2
    /\ \A s \in 1..Least(prefix, PageRecords) :
           /\ mapping[s].identity
           /\ s > 1 => mapping[s - 1].native < mapping[s].native
    /\ prefix < PageRecords => mapping[prefix].native < Page[prefix + 1]

WindowsFit(mapping) ==
    \A s \in Addressable(mapping) : mapping[s].native + FineHeight <= Scale * Height

FirstOf(request) == CHOOSE s \in DOMAIN request : \A t \in DOMAIN request : s <= t

Requests == UNION {[S -> Offsets] : S \in (SUBSET Acted) \ {{}}}

\* How many frames can be scanned under one mapping, none when it gives no table.
Reach(r, request) ==
    LET mapping == Combined(r, request) IN
    IF TableFits(mapping) /\ WindowsFit(mapping)
    THEN Cardinality(Addressable(mapping)) ELSE 0

\* _derive_live_batch_selections settles everything before the first fine scan: first
\* what no approval can change.
Selectable(reviewed, r, request) ==
    /\ ~Somewhere(r, "vague")
    /\ <<reviewed, r>> \in Matching
    /\ \A s \in DOMAIN request :
           /\ s <= Intervals(r)
           /\ <<reviewed, r, s>> \in MatchingFrames
           /\ OffsetResolves(r, s, request[s])
    /\ OffsetResolves(r, FirstOf(request), 0)      \* the zero-offset selection of the first
    /\ LET reach == Reach(r, request) IN
       /\ DOMAIN request \subseteq 1..reach
       /\ reach <= Cardinality(SignedSlots(reviewed, Slots(reviewed))) + 1

Selections ==
    {c \in {<<a, r, request>> : a \in Readings, r \in Readings, request \in Requests} :
        Selectable(c[1], c[2], c[3])}

Selected(reviewed, r, request, approved) ==
    /\ <<reviewed, r, request>> \in Selections
    /\ \A s \in DOMAIN request : OriginAllowed(r, s, approved)

=============================================================================
