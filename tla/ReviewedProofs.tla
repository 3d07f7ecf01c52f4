----------------------------- MODULE ReviewedProofs -----------------------------
(***************************************************************************)
(* The theorems of ReviewedRoll.                                           *)
(*                                                                         *)
(* The inductive invariant follows the evidence through the batch.  The    *)
(* review: a session's capture is one of those counted, so the next is     *)
(* told from the one saved, and a slot is approved only if it was looked   *)
(* at since it changed.  The reserved job copies both.  Once it is bound,  *)
(* the fresh traversal has been selected against the reviewed one, which   *)
(* says of each slot of the request that its frame matches and where its   *)
(* origin lies; the lemmas on Traversal's operators turn this into what    *)
(* the fine scan shows and where it points.                                *)
(***************************************************************************)
EXTENDS ReviewedRoll, FiniteSetTheorems, SequenceTheorems, WellFoundedInduction, TLAPS

(* Traversal's operators *)

\* A set of natural numbers that is not empty has a least element: the order in which
\* a batch takes its slots is defined.
LEMMA LeastSlot ==
    ASSUME NEW S, S \subseteq Nat, S # {}
    PROVE  \E m \in S : \A t \in S : m <= t
PROOF
<1> DEFINE Below == {ss \in Nat \X Nat : ss[1] < ss[2]}
<1>1. IsWellFoundedOn(Below, Nat)
  BY NatLessThanWellFounded DEF OpToRel
<1>2. PICK m \in S : \A t \in S : ~(<<t, m>> \in Below)
  <2> HIDE DEF Below
  <2> QED BY <1>1, WFMin
<1>3. ASSUME NEW t \in Nat, t < m PROVE <<t, m>> \in Below
  <2>1. <<t, m>> \in Nat \X Nat
    OBVIOUS
  <2>2. <<t, m>>[1] < <<t, m>>[2]
    BY <1>3
  <2> QED BY <2>1, <2>2
<1>4. \A t \in S : ~(t < m)
  <2> HIDE DEF Below
  <2> QED BY <1>2, <1>3
<1> QED BY <1>4

\* What a reading signs lies within the film, and its lattice has a number of slots.
LEMMA ReadingIsLaid ==
    ASSUME NEW r \in Readings
    PROVE  /\ r.film \in DOMAIN Films /\ r.load \in Nat
           /\ Films[r.film] \in Seq(Pictures) /\ Len(Films[r.film]) \in 3..40
           /\ First(r) \in {1, 2}
           /\ Signed(r) \in Nat
           /\ First(r) + Signed(r) - 1 <= Len(Films[r.film])
           /\ Intervals(r) \in Nat /\ Slots(r) \in Nat
PROOF
<1>1. /\ r.film \in DOMAIN Films /\ r.load \in Nat
      /\ Films[r.film] \in Seq(Pictures) /\ Len(Films[r.film]) \in 3..40
  BY TraversalAssumption
<1>2. First(r) \in {1, 2}
  BY DEF First
<1>3. /\ Signed(r) \in Nat
      /\ First(r) + Signed(r) - 1 <= Len(Films[r.film])
  <2> DEFINE length == Len(Films[r.film])
             cut == IF Somewhere(r, "cut") THEN 1 ELSE 0
  <2>1. length \in 3..40 /\ cut \in {0, 1} /\ Signed(r) = length - First(r) + 1 - cut
    BY <1>1 DEF Signed
  <2> HIDE DEF length, cut
  <2>2. Signed(r) \in Nat /\ First(r) + Signed(r) - 1 <= length
    BY <1>2, <2>1
  <2> QED BY <2>2 DEF length
<1>4. Intervals(r) \in Nat
  BY <1>3 DEF Intervals
<1>5. Slots(r) \in Nat
  BY <1>4, TraversalAssumption DEF Slots, Least
<1> QED BY <1>1, <1>2, <1>3, <1>4, <1>5

\* The slot of a reading that is signed shows a picture.
LEMMA PictureIsTaken ==
    ASSUME NEW r \in Readings, NEW s \in 1..Signed(r)
    PROVE  Picture(r, s) \in Pictures
PROOF
<1>1. /\ r.film \in DOMAIN Films
      /\ Films[r.film] \in Seq(Pictures) /\ Len(Films[r.film]) \in 3..40
      /\ First(r) \in {1, 2} /\ Signed(r) \in Nat
      /\ First(r) + Signed(r) - 1 <= Len(Films[r.film])
  BY ReadingIsLaid
<1>2. First(r) + s - 1 \in 1..Len(Films[r.film])
  BY <1>1
<1>3. Films[r.film] \in [1..Len(Films[r.film]) -> Pictures]
  BY <1>1, LenProperties
<1> QED BY <1>2, <1>3 DEF Picture

\* The row a slot starts at is an integer.
LEMMA StartIsInt ==
    ASSUME NEW r \in Readings, NEW s \in Nat
    PROVE  Start(r, s) \in Int
PROOF
<1>1. r.load \in Nat /\ First(r) \in {1, 2}
  BY ReadingIsLaid
<1>2. First(r) + s - 2 \in Int
  BY <1>1
<1>3. Pitch * (First(r) + s - 2) \in Int
  <2> DEFINE n == First(r) + s - 2
  <2>1. n \in Int
    BY <1>2
  <2>2. Pitch \in Int
    BY TraversalAssumption
  <2> HIDE DEF n
  <2>3. Pitch * n \in Int
    BY <2>1, <2>2
  <2> QED BY <2>3 DEF n
<1> QED BY <1>1, <1>3 DEF Start

\* A fingerprint signs the first slots, each with the picture it shows.
LEMMA SignsWhatIsTaken ==
    ASSUME NEW r \in Readings, NEW slots \in Nat
    PROVE  LET n == Least(slots, Signed(r)) IN
           /\ n \in Nat /\ n <= Signed(r)
           /\ Len(Fingerprint(r, slots).pictures) = n
           /\ \A s \in 1..n : Fingerprint(r, slots).pictures[s] = Picture(r, s)
PROOF
<1> DEFINE n == Least(slots, Signed(r))
           pictures == [s \in 1..n |-> Picture(r, s)]
<1>1. n \in Nat /\ n <= Signed(r)
  BY ReadingIsLaid DEF Least
<1>2. Fingerprint(r, slots).pictures = pictures
  BY DEF Fingerprint, SignedSlots
<1>3. pictures \in [1..n -> Pictures]
  <2>1. \A s \in 1..n : Picture(r, s) \in Pictures
    <3> TAKE s \in 1..n
    <3>1. s \in 1..Signed(r)
      BY <1>1, ReadingIsLaid
    <3> QED BY <3>1, PictureIsTaken
  <2> QED BY <2>1
<1>4. Len(pictures) = n
  <2> HIDE DEF pictures, n
  <2>1. pictures \in Seq(Pictures)
    BY <1>1, <1>3, SeqDef
  <2>2. Len(pictures) \in Nat /\ DOMAIN pictures = 1..Len(pictures)
    BY <2>1, LenProperties
  <2>3. 1..Len(pictures) = 1..n
    BY <1>3, <2>2
  <2>4. n \in 1..n \/ n = 0
    BY <1>1
  <2> DEFINE k == Len(pictures)
  <2>5. k \in 1..k \/ k = 0
    <3>1. k \in Nat
      BY <2>2
    <3> HIDE DEF k
    <3> QED BY <3>1
  <2>6. k \in Nat /\ 1..k = 1..n
    BY <2>2, <2>3
  <2> HIDE DEF k
  <2>7. k = n
    BY <1>1, <2>4, <2>5, <2>6
  <2> QED BY <2>7 DEF k
<1> QED BY <1>1, <1>2, <1>4

\* Two rolls that match sign the same number of frames, so a selected frame that matches
\* itself is signed in both, and its two hashes are close.
LEMMA MatchedFrame ==
    ASSUME NEW a \in Readings, NEW b \in Readings, NEW s \in Acted,
           <<a, b>> \in Matching, <<a, b, s>> \in MatchingFrames
    PROVE  /\ s \in 1..Signed(a) /\ s \in 1..Signed(b)
           /\ Distance(Picture(a, s), Picture(b, s)) <= MaxSelectedHamming
PROOF
<1> DEFINE m == Least(Slots(a), Signed(a))
           n == Least(Intervals(b), Signed(b))
<1>1. SameRoll(Reviewed(a), Fresh(b))
  BY DEF Matching
<1>2. SameFrame(Reviewed(a), Fresh(b), s)
  BY DEF MatchingFrames
<1>3. /\ m \in Nat /\ m <= Signed(a) /\ Len(Reviewed(a).pictures) = m
      /\ \A t \in 1..m : Reviewed(a).pictures[t] = Picture(a, t)
  BY ReadingIsLaid, SignsWhatIsTaken DEF Reviewed
<1>4. /\ n \in Nat /\ n <= Signed(b) /\ Len(Fresh(b).pictures) = n
      /\ \A t \in 1..n : Fresh(b).pictures[t] = Picture(b, t)
  BY ReadingIsLaid, SignsWhatIsTaken DEF Fresh
<1> HIDE DEF m, n
<1>5. s \in 1..m /\ m = n
  <2>1. s \in 1..40
    BY TraversalAssumption
  <2>2. m = n
    BY <1>1, <1>3, <1>4 DEF SameRoll
  <2>3. s <= m
    BY <1>2, <1>3 DEF SameFrame, Comparable
  <2> QED BY <1>3, <2>1, <2>2, <2>3
<1>6. Distance(Picture(a, s), Picture(b, s)) <= MaxSelectedHamming
  BY <1>2, <1>3, <1>4, <1>5 DEF SameFrame, SelectedMatches, SelectedComparison
<1>7. Signed(a) \in Nat /\ Signed(b) \in Nat
  BY ReadingIsLaid
<1> QED BY <1>3, <1>4, <1>5, <1>6, <1>7

\* What a settled selection says of each slot of its request.
LEMMA SelectedSlot ==
    ASSUME NEW a, NEW r, NEW request, NEW approved,
           Selected(a, r, request, approved),
           NEW s \in DOMAIN request
    PROVE  /\ a \in Readings /\ r \in Readings /\ request \in Requests
           /\ <<a, r>> \in Matching /\ <<a, r, s>> \in MatchingFrames
           /\ OffsetResolves(r, s, request[s])
           /\ OriginAllowed(r, s, approved)
PROOF
<1>1. <<a, r, request>> \in Selections
  BY DEF Selected
<1>2. /\ a \in Readings /\ r \in Readings /\ request \in Requests
      /\ Selectable(a, r, request)
  BY <1>1 DEF Selections
<1>3. OriginAllowed(r, s, approved)
  BY DEF Selected
<1> QED BY <1>2, <1>3 DEF Selectable

\* What the child measured of two rolls that match passes both checks: the minimum that
\* they derive from the frames that tell is the one derived from the frames of the roll.
LEMMA RollProvesTwice ==
    ASSUME NEW a \in Readings, NEW b \in Readings, NEW s \in Acted,
           <<a, b>> \in Matching, <<a, b, s>> \in MatchingFrames
    PROVE  LET c == Comparisons[<<a, b>>] IN
           Matches(c) /\ ParentProvesRoll(c) /\ FinalizationProvesRoll(c)
PROOF
<1> DEFINE c == Comparisons[<<a, b>>]
           m == Least(Slots(a), Signed(a))
           told == Telling(Reviewed(a), Fresh(b))
<1>1. /\ SameRoll(Reviewed(a), Fresh(b))
      /\ c = Comparison(Reviewed(a), Fresh(b))
  BY DEF Matching, Comparisons
<1>2. m \in Nat /\ m <= 40 /\ Len(Reviewed(a).pictures) = m
  <2>1. m \in Nat /\ m <= Signed(a) /\ Len(Reviewed(a).pictures) = m
    BY ReadingIsLaid, SignsWhatIsTaken DEF Reviewed
  <2> HIDE DEF m
  <2> DEFINE length == Len(Films[a.film])
  <2>2. /\ Signed(a) \in Nat /\ length \in 3..40 /\ First(a) \in {1, 2}
        /\ First(a) + Signed(a) - 1 <= length
    BY ReadingIsLaid
  <2> HIDE DEF length
  <2>3. Signed(a) <= 40
    BY <2>2
  <2> QED BY <2>1, <2>2, <2>3
<1>3. told \subseteq 1..m /\ told # {}
  <2>1. DOMAIN Reviewed(a).pictures = 1..m
    BY DEF Reviewed, Fingerprint, SignedSlots
  <2> QED BY <1>1, <2>1 DEF SameRoll, Telling
<1>4. Cardinality(told) \in 1..m
  <2> HIDE DEF told, m
  <2>1. IsFiniteSet(1..m) /\ Cardinality(1..m) = m
    BY <1>2, FS_Interval
  <2>2. IsFiniteSet(told) /\ Cardinality(told) <= m
    BY <1>3, <2>1, FS_Subset
  <2>3. Cardinality(told) \in Nat /\ Cardinality(told) # 0
    BY <1>3, <2>2, FS_CardinalityType, FS_EmptySet
  <2> QED BY <1>2, <2>2, <2>3
<1>5. /\ c.compared = Cardinality(told) /\ c.discriminative = Cardinality(told)
      /\ c.minimum = Least(MinDiscriminative, m)
  BY <1>1, <1>2 DEF Comparison
<1>6. Matches(c)
  BY <1>1 DEF SameRoll
<1> HIDE DEF c, m, told
<1>7. /\ c.compared \in 1..40 /\ c.discriminative = c.compared
      /\ c.minimum = Least(MinDiscriminative, c.compared)
      /\ 1 <= c.minimum /\ c.minimum <= c.discriminative
      /\ c.minimum \in 1..c.discriminative
  <2> DEFINE n == Cardinality(told)
  <2>1. n \in 1..m /\ m \in Nat /\ m <= 40
    BY <1>2, <1>4
  <2>2. c.compared = n /\ c.discriminative = n /\ c.minimum = Least(3, m) /\ n >= Least(3, m)
    BY <1>5, <1>6 DEF Matches, MinDiscriminative
  <2> HIDE DEF n
  <2>3. /\ n \in 1..40 /\ Least(3, m) = Least(3, n)
        /\ Least(3, n) \in 1..n
    BY <2>1, <2>2 DEF Least
  <2> QED BY <2>2, <2>3 DEF MinDiscriminative
<1>8. c.discriminative <= c.compared
  BY <1>7
<1>9. ParentProvesRoll(c)
  BY <1>6, <1>7, <1>8 DEF Matches, ParentProvesRoll
<1>10. FinalizationProvesRoll(c)
  BY <1>6, <1>7, <1>8 DEF Matches, FinalizationProvesRoll
<1> QED BY <1>6, <1>9, <1>10 DEF c

\* So does what it measured of a slot that matches.
LEMMA FrameProvesTwice ==
    ASSUME NEW a \in Readings, NEW b \in Readings, NEW s \in Acted,
           <<a, b>> \in Matching, <<a, b, s>> \in MatchingFrames
    PROVE  LET c == SelectedComparison(Reviewed(a), Fresh(b), s) IN
           SelectedMatches(c) /\ ParentProvesFrame(c, s) /\ FinalizationProvesFrame(c, s)
PROOF
<1> DEFINE c == SelectedComparison(Reviewed(a), Fresh(b), s)
           m == Least(Slots(a), Signed(a))
           n == Least(Intervals(b), Signed(b))
<1>1. SelectedMatches(c)
  BY DEF MatchingFrames, SameFrame
<1>2. s \in 1..m /\ s \in 1..n
  <2>1. Len(Reviewed(a).pictures) = m /\ Len(Fresh(b).pictures) = n /\ m \in Nat /\ n \in Nat
    BY ReadingIsLaid, SignsWhatIsTaken DEF Reviewed, Fresh
  <2>2. s \in 1..40
    BY TraversalAssumption
  <2>3. Comparable(Reviewed(a), Fresh(b), s)
    BY DEF MatchingFrames, SameFrame
  <2> HIDE DEF m, n
  <2>4. m = n /\ s <= m
    BY <2>1, <2>3 DEF Comparable
  <2> QED BY <2>1, <2>2, <2>4
<1>3. Distance(Reviewed(a).pictures[s], Fresh(b).pictures[s]) \in 0..256
  <2>1. Reviewed(a).pictures[s] = Picture(a, s) /\ Fresh(b).pictures[s] = Picture(b, s)
    BY <1>2, ReadingIsLaid, SignsWhatIsTaken DEF Reviewed, Fresh
  <2>2. Picture(a, s) \in Pictures /\ Picture(b, s) \in Pictures
    <3>1. s \in 1..Signed(a) /\ s \in 1..Signed(b)
      BY MatchedFrame
    <3> QED BY <3>1, PictureIsTaken
  <2>3. \A p, q \in Pictures : Distance(p, q) \in 0..256
    BY TraversalAssumption
  <2>4. Distance(Picture(a, s), Picture(b, s)) \in 0..256
    BY <2>2, <2>3
  <2> QED BY <2>1, <2>4
<1>4. /\ c.slot = s /\ c.maximum = MaxSelectedHamming
      /\ c.hamming = Distance(Reviewed(a).pictures[s], Fresh(b).pictures[s])
  BY DEF SelectedComparison
<1> HIDE DEF c
<1>5. c.hamming \in 0..c.maximum
  BY <1>1, <1>3, <1>4 DEF SelectedMatches, MaxSelectedHamming
<1> QED BY <1>1, <1>4, <1>5 DEF SelectedMatches, ParentProvesFrame, FinalizationProvesFrame, c

\* A binding keeps the review flags of its slot.
LEMMA FlagsAreKept ==
    ASSUME NEW r, NEW s, NEW offset
    PROVE  Automatic(Bound(r, s, offset)) <=> Automatic(Origin(r, s))
PROOF
<1> DEFINE base == Origin(r, s)
<1>1. Bound(r, s, offset).reasons = base.reasons
  BY DEF Bound, Origin
<1> QED BY <1>1 DEF Automatic

\* A binding that was not rebased lies at the offset requested, one that was at the slot.
LEMMA RowApplied ==
    ASSUME NEW r \in Readings, NEW s \in Nat, NEW offset \in Nat
    PROVE  /\ Residual(r, s, offset) \in {0, 4, 9}
           /\ Rebased(r, s, offset) => Bound(r, s, offset).row = Start(r, s)
           /\ ~Rebased(r, s, offset) => Bound(r, s, offset).row - Start(r, s) = offset
PROOF
<1>1. Residual(r, s, offset) \in {0, 4, 9}
  BY DEF Residual
<1>2. Rebased(r, s, offset) => Bound(r, s, offset).row = Start(r, s)
  BY DEF Bound, Origin
<1>3. ~Rebased(r, s, offset) => Bound(r, s, offset).row = Start(r, s) + offset
  BY DEF Bound, Origin
<1>4. Start(r, s) \in Int
  BY StartIsInt
<1> QED BY <1>1, <1>2, <1>3, <1>4

\* Where a binding points the scanner: at the offset requested, within two rows, or five
\* for a leading anchor, whenever it applied that offset.
LEMMA WhereItLies ==
    ASSUME NEW r \in Readings, NEW s \in Nat, NEW offset \in Nat
    PROVE  LET at == Bound(r, s, offset).native \div Scale - Start(r, s) IN
           /\ at \in Int
           /\ OffsetResolves(r, s, offset)
              /\ Bound(r, s, offset).row - Start(r, s) = offset
              => Abs(at - offset) <= IF s = 1 THEN MaxLeadingError ELSE MaxInteriorError
PROOF
<1> DEFINE native == Bound(r, s, offset).native
           at == native \div Scale - Start(r, s)
           start == Start(r, s)
<1>1. start \in Int
  BY StartIsInt
<1>2. /\ Residual(r, s, offset) \in {0, 4, 9}
      /\ Residual(r, s, 0) \in {0, 4, 9}
  BY RowApplied
<1>3. Scale = 42
  BY DEF Scale
<1>4. CASE ~Rebased(r, s, offset)
  <2> DEFINE residual == Residual(r, s, offset)
  <2>1. native = 42 * (start + offset - residual)
    BY <1>3, <1>4 DEF Bound, Origin, RecordOrigin
  <2>2. residual \in {0, 4, 9} /\ Abs(residual) <= 2
    BY <1>2, <1>4 DEF Rebased, MaxInteriorError, Abs
  <2> HIDE DEF residual, native, start
  <2>3. native \div 42 = start + offset - residual
    BY <1>1, <2>1, <2>2
  <2>4. at = offset - residual
    BY <1>1, <1>3, <2>2, <2>3 DEF start
  <2>5. residual = 0
    BY <2>2 DEF Abs
  <2> QED BY <2>4, <2>5 DEF Abs, MaxLeadingError, MaxInteriorError, native, start
<1>5. CASE Rebased(r, s, offset)
  <2> DEFINE residual == Residual(r, s, 0)
  <2>1. native = Origin(r, s).native
    BY <1>5 DEF Bound
  <2>2. CASE Clamped(r, s)
    <3>1. native = 42 * start
      BY <1>3, <2>1, <2>2 DEF Origin
    <3> HIDE DEF native, start
    <3>2. native \div 42 = start
      BY <1>1, <3>1
    <3>3. at = 0
      BY <1>1, <1>3, <3>2 DEF start
    <3>4. Bound(r, s, offset).row - start = offset => offset = 0
      BY <1>1, <1>5, RowApplied DEF start
    <3>5. Abs(0) = 0
      BY DEF Abs
    <3> QED BY <3>3, <3>4, <3>5 DEF MaxLeadingError, MaxInteriorError, native, start
  <2>3. CASE ~Clamped(r, s)
    <3>1. native = 42 * (start - residual)
      BY <1>1, <1>2, <1>3, <2>1, <2>3 DEF Origin, RecordOrigin
    <3>2. residual \in {0, 4, 9}
      BY <1>2
    <3>3. s # 1 => Abs(residual) <= 2
      BY <1>2, <2>3 DEF Clamped, MaxInteriorError, Abs
    <3>4. OffsetResolves(r, s, offset) /\ offset = 0 => Abs(residual) <= 5
      BY DEF OffsetResolves, MaxLeadingError
    <3>6. Bound(r, s, offset).row - start = offset => offset = 0
      BY <1>1, <1>5, RowApplied DEF start
    <3> HIDE DEF native, start, residual
    <3>7. native \div 42 = start - residual
      BY <1>1, <3>1, <3>2
    <3>8. at = -residual
      BY <1>1, <1>3, <3>2, <3>7 DEF start
    <3>9. Abs(-residual - 0) = Abs(residual)
      BY <3>2 DEF Abs
    <3> QED BY <3>2, <3>3, <3>4, <3>6, <3>8, <3>9 DEF MaxLeadingError, MaxInteriorError,
           native, start
  <2> QED BY <2>2, <2>3
<1> QED BY <1>4, <1>5
\* The largest of equal differences is their value.
LEMMA LargestOfEqual ==
    ASSUME NEW n \in Nat \ {0}, NEW f, NEW c \in Int, \A s \in 1..n : f[s] = c
    PROVE  Largest(f, 1..n) = c
PROOF
<1>1. IsFiniteSet(1..n) /\ Cardinality(1..n) = n
  BY FS_Interval
<1>2. {f[s] : s \in 1..n} = {c}
  <2>1. 1 \in 1..n
    OBVIOUS
  <2> QED BY <2>1
<1>3. {s \in 1..n : f[s] < c} = {}
  OBVIOUS
<1>4. {s \in 1..n : f[s] <= c} = 1..n
  OBVIOUS
<1>5. Cardinality({s \in 1..n : f[s] < c}) < n
  BY <1>3, FS_EmptySet
<1>6. Cardinality({s \in 1..n : f[s] <= c}) >= n
  <2> DEFINE Q == {s \in 1..n : f[s] <= c}
  <2>1. Cardinality(Q) = n
    <3>1. Q = 1..n
      BY <1>4
    <3> HIDE DEF Q
    <3> QED BY <1>1, <3>1
  <2> HIDE DEF Q
  <2>2. Cardinality(Q) >= n
    BY <2>1
  <2> QED BY <2>2 DEF Q
<1> DEFINE P(v) == /\ Cardinality({s \in 1..n : f[s] < v}) < n
                   /\ Cardinality({s \in 1..n : f[s] <= v}) >= n
<1>7. P(c)
  BY <1>5, <1>6
<1>8. KthLeast(f, 1..n, n) = CHOOSE v \in {f[s] : s \in 1..n} : P(v)
  BY DEF KthLeast
<1> HIDE DEF P
<1>9. (CHOOSE v \in {c} : P(v)) = c
  BY <1>7
<1> QED BY <1>1, <1>2, <1>8, <1>9 DEF Largest

\* A reading that misses the first frame puts every slot one pitch further in.
LEMMA OnePitchApart ==
    ASSUME NEW a \in Readings, NEW b \in Readings, NEW s \in Nat
    PROVE  /\ First(a) = 1 /\ First(b) = 2 =>
                  Start(a, s) - Start(b, s) = a.load - b.load - Pitch
           /\ First(a) = 2 /\ First(b) = 1 =>
                  Start(a, s) - Start(b, s) = a.load - b.load + Pitch
PROOF
<1>1. a.load \in Nat /\ b.load \in Nat /\ Pitch \in Int
  BY ReadingIsLaid, TraversalAssumption
<1>2. \A p \in Int : p * (1 + s - 2) = p * s - p
  OBVIOUS
<1>3. \A p \in Int : p * (2 + s - 2) = p * s
  OBVIOUS
<1>4. \A p \in Int : p * s \in Int
  OBVIOUS
<1> DEFINE x == Pitch * s
<1>5. x \in Int
  BY <1>1, <1>4
<1>6. \A r \in Readings : /\ First(r) = 1 => Start(r, s) = r.load + (x - Pitch)
                          /\ First(r) = 2 => Start(r, s) = r.load + x
  BY <1>1, <1>2, <1>3 DEF Start
<1> HIDE DEF x
<1> QED BY <1>1, <1>5, <1>6

\* So two readings of one film that lies less than a pitch further in, one of which misses
\* the first frame, do not match: the largest difference of their starts is too large.
LEMMA PlaceTellsFrame ==
    ASSUME NEW a \in Readings, NEW b \in Readings, NEW s \in Acted,
           <<a, b>> \in Matching, <<a, b, s>> \in MatchingFrames,
           SamePlace(a, b)
    PROVE  Picture(a, s) = Picture(b, s)
PROOF
<1> SUFFICES ASSUME First(a) # First(b) PROVE FALSE
  BY DEF SamePlace, Picture
<1> DEFINE m == Least(Slots(a), Signed(a))
           n == Least(Intervals(b), Signed(b))
           c == Abs(a.load - b.load + (IF First(a) = 1 THEN -Pitch ELSE Pitch))
           f == Reviewed(a).starts
           g == Fresh(b).starts
           delta == [t \in DOMAIN f |-> Abs(f[t] - g[t])]
<1>1. SameRoll(Reviewed(a), Fresh(b)) /\ SameFrame(Reviewed(a), Fresh(b), s)
  BY DEF Matching, MatchingFrames
<1>2. /\ m \in Nat /\ Len(Reviewed(a).pictures) = m
      /\ n \in Nat /\ Len(Fresh(b).pictures) = n
  BY ReadingIsLaid, SignsWhatIsTaken DEF Reviewed, Fresh
<1>3. m = n /\ m \in Nat \ {0}
  <2>1. s \in 1..40
    BY TraversalAssumption
  <2> HIDE DEF m, n
  <2>2. m = n
    BY <1>1, <1>2 DEF SameRoll
  <2>3. s <= m
    BY <1>1, <1>2 DEF SameFrame, Comparable
  <2> QED BY <1>2, <2>1, <2>2, <2>3
<1>4. f = [t \in 1..m |-> Start(a, t)] /\ g = [t \in 1..n |-> Start(b, t)]
  BY DEF Reviewed, Fresh, Fingerprint, SignedSlots
<1>5. a.load \in Nat /\ b.load \in Nat /\ Pitch \in Nat /\ First(a) \in {1, 2}
         /\ First(b) \in {1, 2}
  BY ReadingIsLaid, TraversalAssumption
<1>6. c \in Int /\ c > MaxStart
  BY <1>5 DEF SamePlace, Abs, MaxStart
<1>7. \A t \in 1..m : delta[t] = c
  <2> TAKE t \in 1..m
  <2> HIDE DEF m, n, c, f, g
  <2>1. f[t] = Start(a, t) /\ g[t] = Start(b, t) /\ DOMAIN f = 1..m
    BY <1>3, <1>4
  <2>2. Start(a, t) - Start(b, t) = a.load - b.load + (IF First(a) = 1 THEN -Pitch ELSE Pitch)
    <3>1. t \in Nat
      BY <1>3
    <3>2. /\ First(a) = 1 /\ First(b) = 2 =>
                  Start(a, t) - Start(b, t) = a.load - b.load - Pitch
          /\ First(a) = 2 /\ First(b) = 1 =>
                  Start(a, t) - Start(b, t) = a.load - b.load + Pitch
      BY <3>1, OnePitchApart
    <3> QED BY <1>5, <3>2
  <2> QED BY <2>1, <2>2 DEF c
<1>8. Largest(delta, DOMAIN Reviewed(a).pictures) <= MaxStart
  BY <1>1 DEF SameRoll, Matches, Comparison, Apart
<1>9. DOMAIN Reviewed(a).pictures = 1..m
  BY DEF Reviewed, Fingerprint, SignedSlots
<1> HIDE DEF m, n, c, f, g, delta
<1>10. Largest(delta, 1..m) = c
  BY <1>3, <1>6, <1>7, LargestOfEqual
<1> QED BY <1>6, <1>8, <1>9, <1>10 DEF MaxStart

\* Where places or hashes tell frames apart, a frame that was selected is the reviewed one.
LEMMA SelectedIsReviewed ==
    ASSUME TellsFramesApart,
           NEW a \in Readings, NEW b \in Readings, NEW s \in Acted,
           <<a, b>> \in Matching, <<a, b, s>> \in MatchingFrames
    PROVE  Picture(a, s) = Picture(b, s)
PROOF
<1>1. CASE SamePlace(a, b)
  BY <1>1, PlaceTellsFrame
<1>2. CASE ToldApart(a, b)
  <2>1. /\ s \in 1..Signed(a) /\ s \in 1..Signed(b)
        /\ Distance(Picture(a, s), Picture(b, s)) <= MaxSelectedHamming
    BY MatchedFrame
  <2>2. /\ First(a) \in {1, 2} /\ Signed(a) \in Nat
        /\ Len(Films[a.film]) \in Nat
        /\ First(a) + Signed(a) - 1 <= Len(Films[a.film])
    BY ReadingIsLaid
  <2>3. /\ First(b) \in {1, 2} /\ Signed(b) \in Nat
        /\ Len(Films[b.film]) \in Nat
        /\ First(b) + Signed(b) - 1 <= Len(Films[b.film])
    BY ReadingIsLaid
  <2>4. First(a) + s - 1 \in 1..Len(Films[a.film])
    BY <2>1, <2>2
  <2>5. First(b) + s - 1 \in 1..Len(Films[b.film])
    BY <2>1, <2>3
  <2> QED BY <1>2, <2>1, <2>4, <2>5 DEF ToldApart, Picture
<1> QED BY <1>1, <1>2 DEF TellsFramesApart

-----------------------------------------------------------------------------
(* The invariant *)

\* The captures in use are among those made, so a new one is told from the saved.
CapturesAreCounted ==
    /\ session # None => session.capture <= captures
    /\ saved # None => saved.capture <= captures

\* The slots that are approved were looked at since what they show changed.
ApprovedIsLookedAt == \A s \in Acted : approvals[s] # None => s \in looked

\* A batch takes its slots from its request, was selected when it has been bound, and has
\* only approvals of what it requests.
JobIsSettled ==
    job # None =>
        /\ job.left \subseteq DOMAIN job.request
        /\ job.fresh # None => Selected(job.reading, job.fresh, job.request, Approved)
        /\ \A s \in DOMAIN job.request :
               job.approvals[s] \in
                   {None, [capture |-> job.capture, slot |-> s, offset |-> job.request[s]]}

\* An accepted fine scan hashes like the picture reviewed in its slot, and lies where the
\* operator put it.
ScansMatch ==
    \A f \in scanned : f.accepted =>
        /\ Distance(f.reviewed, f.picture) <= MaxSelectedHamming
        /\ Abs(f.at - f.chosen) <= IF f.slot = 1 THEN MaxLeadingError ELSE MaxInteriorError

IInv ==
    /\ TypeOK /\ CapturesAreCounted /\ RestoredIsCaptured
    /\ ApprovedIsLookedAt /\ ReviewIsCurrent /\ JobIsSettled
    /\ ScansMatch /\ JudgedAlike

-----------------------------------------------------------------------------
(* Its steps *)

\* The fields of a session, and that setting an offset or a reading leaves a session.
LEMMA SessionsHold ==
    ASSUME NEW w \in Sessions
    PROVE  /\ w.capture \in 1..MaxPreviews /\ w.port \in Ports /\ w.reading \in Readings
           /\ w.offsets \in [Acted -> Offsets]
           /\ \A s \in Acted, o \in Offsets : [w EXCEPT !.offsets[s] = o] \in Sessions
           /\ \A r \in Readings : [w EXCEPT !.reading = r] \in Sessions
           /\ [w EXCEPT !.reading = w.reading] = w
BY DEF Sessions

\* The fields of a job, and that binding it and taking a slot off it leave a job.
LEMMA JobsHold ==
    ASSUME NEW j \in Jobs
    PROVE  /\ j.capture \in 1..MaxPreviews /\ j.port \in Ports /\ j.reading \in Readings
           /\ j.request \in Requests /\ j.approvals \in [Acted -> Approvals \cup {None}]
           /\ j.flagged \subseteq Acted /\ j.looked \subseteq Acted
           /\ j.fresh \in Readings \cup {None} /\ j.left \subseteq Acted
           /\ \A r \in Readings : [j EXCEPT !.fresh = r] \in Jobs
           /\ \A s : [j EXCEPT !.left = @ \ {s}] \in Jobs
BY DEF Jobs

\* A request is for slots the operator works on, at offsets the operator tries.
LEMMA RequestIsTyped ==
    ASSUME NEW q \in Requests
    PROVE  DOMAIN q \subseteq Acted /\ DOMAIN q # {} /\ \A s \in DOMAIN q : q[s] \in Offsets
BY DEF Requests

\* The slot whose turn it is is one of those left.
LEMMA TurnIsLeft ==
    ASSUME NEW j \in Jobs, job = j, job.left # {}
    PROVE  Turn \in job.left
PROOF
<1>1. job.left \subseteq Nat
  <2>1. job.left \subseteq Acted
    BY JobsHold
  <2>2. Acted \subseteq Nat
    BY TraversalAssumption
  <2> QED BY <2>1, <2>2
<1>2. \E s \in job.left : \A t \in job.left : s <= t
  BY <1>1, LeastSlot
<1> QED BY <1>2 DEF Turn

\* The invariant holds at first.
LEMMA StartsSettled == Init => IInv
PROOF
<1> SUFFICES ASSUME Init PROVE IInv
  OBVIOUS
<1>1. TypeOK
  <2>1. NoApprovals \in [Acted -> Approvals \cup {None}]
    BY DEF NoApprovals
  <2>2. 0 \in 0..MaxPreviews /\ 0 \in 0..MaxJobs /\ 0 \in 0..MaxDisturbances
    BY ReviewedRollAssumption
  <2>3. /\ approvals \in [Acted -> Approvals \cup {None}]
        /\ captures \in 0..MaxPreviews /\ jobs \in 0..MaxJobs
        /\ disturbances \in 0..MaxDisturbances
    BY <2>1, <2>2 DEF Init
  <2>4. /\ feed \in Feeds /\ port \in Ports /\ device \in Ports
        /\ session \in Sessions \cup {None} /\ saved \in Sessions \cup {None}
        /\ looked \subseteq Acted /\ altered \in BOOLEAN /\ scanned \subseteq Scans
        /\ job \in Jobs \cup {None} /\ outcome \in Outcomes \cup {None}
    BY DEF Init
  <2> QED BY <2>3, <2>4 DEF TypeOK
<1> QED BY <1>1, NoneAssumption DEF Outcomes, Init, IInv, CapturesAreCounted,
       RestoredIsCaptured, ApprovedIsLookedAt,
      ReviewIsCurrent, JobIsSettled, ScansMatch, JudgedAlike, NoApprovals

\* A preview counts its capture and drops what was approved of the last one.
LEMMA PreviewKeeps == ASSUME IInv, Preview PROVE IInv'
PROOF
<1>1. PICK r \in Readable :
          Show([capture |-> captures', port |-> device, reading |-> r, offsets |-> NoOffsets])
  BY DEF Preview
<1>2. session' = [capture |-> captures + 1, port |-> device, reading |-> r,
         offsets |-> NoOffsets]
  BY <1>1 DEF Preview, Show
<1>3. captures' = captures + 1 /\ captures' \in 1..MaxPreviews
  BY ReviewedRollAssumption DEF Preview, IInv, TypeOK
<1>4. session' \in Sessions
  BY <1>2, <1>3, TraversalAssumption DEF Sessions, IInv, TypeOK, Readable, NoOffsets
<1>5. TypeOK'
  BY <1>1, <1>3, <1>4 DEF IInv, TypeOK, Preview, Show, NoApprovals, disk, batch
<1>6. CapturesAreCounted' /\ RestoredIsCaptured'
  <2>1. saved # None => saved.capture \in Nat
    BY SessionsHold, ReviewedRollAssumption DEF IInv, TypeOK
  <2> QED BY <1>2, <1>3, <2>1, ReviewedRollAssumption DEF IInv, CapturesAreCounted,
         RestoredIsCaptured, Preview, disk, TypeOK
<1>7. ApprovedIsLookedAt' /\ ReviewIsCurrent' /\ JobIsSettled' /\ ScansMatch' /\ JudgedAlike'
  BY <1>1 DEF IInv, ApprovedIsLookedAt, ReviewIsCurrent, JobIsSettled, Approved, ScansMatch,
     JudgedAlike, Preview, Show, NoApprovals, batch
<1> QED BY <1>5, <1>6, <1>7 DEF IInv

\* A restored session is the one saved, for its artifacts are unaltered.
LEMMA RestoreKeeps == ASSUME IInv, Restore PROVE IInv'
PROOF
<1>1. /\ ~altered /\ saved # None /\ saved.port = device
      /\ Show([saved EXCEPT !.reading = OnDisk])
      /\ UNCHANGED <<feed, port, device, disk, batch, counts>>
  BY DEF Restore, RestoredBy
<1>2. saved \in Sessions /\ session' = saved
  BY <1>1, SessionsHold DEF Show, OnDisk, IInv, TypeOK
<1>3. TypeOK'
  BY <1>1, <1>2 DEF IInv, TypeOK, Show, NoApprovals, disk, batch, counts
<1>4. CapturesAreCounted' /\ RestoredIsCaptured'
  BY <1>1, <1>2 DEF IInv, CapturesAreCounted, RestoredIsCaptured, disk, counts
<1>5. ApprovedIsLookedAt' /\ ReviewIsCurrent' /\ JobIsSettled' /\ ScansMatch' /\ JudgedAlike'
  BY <1>1 DEF IInv, ApprovedIsLookedAt, ReviewIsCurrent, JobIsSettled, Approved, ScansMatch,
     JudgedAlike, Show, NoApprovals, batch
<1> QED BY <1>3, <1>4, <1>5 DEF IInv

\* An offset takes back the approval of its slot.
LEMMA SetOffsetKeeps ==
    ASSUME IInv, NEW s \in Acted, NEW offset \in Offsets, SetOffset(s, offset) PROVE IInv'
PROOF
<1>1. /\ session \in Sessions
      /\ session' = [session EXCEPT !.offsets[s] = offset]
      /\ approvals' = [approvals EXCEPT ![s] = None]
      /\ looked' = looked \ {s}
      /\ UNCHANGED <<feed, port, device, disk, batch, counts>>
  BY DEF SetOffset, Reviewing, IInv, TypeOK
<1>2. /\ session' \in Sessions
      /\ session'.capture = session.capture /\ session'.port = session.port
      /\ session'.reading = session.reading
  BY <1>1, SessionsHold DEF Sessions
<1>3. TypeOK'
  BY <1>1, <1>2 DEF IInv, TypeOK, disk, batch, counts
<1>4. CapturesAreCounted' /\ RestoredIsCaptured'
  BY <1>1, <1>2 DEF IInv, CapturesAreCounted, RestoredIsCaptured, disk, counts, SetOffset,
                    Reviewing
<1>5. ApprovedIsLookedAt' /\ ReviewIsCurrent' /\ JobIsSettled' /\ ScansMatch' /\ JudgedAlike'
  BY <1>1 DEF IInv, TypeOK, ApprovedIsLookedAt, ReviewIsCurrent, JobIsSettled, Approved, ScansMatch,
              JudgedAlike,
     batch
<1> QED BY <1>3, <1>4, <1>5 DEF IInv

\* A receipt is an approval.
LEMMA ReceiptIsApproval ==
    ASSUME IInv, session # None, NEW s \in Acted
    PROVE  /\ Receipt(s) \in Approvals /\ Receipt(s) # None
           /\ Receipt(s) = [capture |-> session.capture, slot |-> s,
                            offset |-> session.offsets[s]]
BY SessionsHold, NoneAssumption DEF Receipt, Approvals, IInv, TypeOK

\* An approval is of what the slot shows now.
LEMMA ApproveKeeps ==
    ASSUME IInv, NEW s \in Acted, Approve(s) PROVE IInv'
PROOF
<1>1. /\ approvals' = [approvals EXCEPT ![s] = Receipt(s)]
      /\ looked' = looked \cup {s}
      /\ UNCHANGED <<feed, port, device, session, disk, batch, counts>>
  BY DEF Approve
<1>2. Receipt(s) \in Approvals
  BY ReceiptIsApproval DEF Approve, Reviewing
<1>3. TypeOK'
  BY <1>1, <1>2 DEF IInv, TypeOK, disk, batch, counts
<1>4. CapturesAreCounted' /\ RestoredIsCaptured'
  BY <1>1 DEF IInv, CapturesAreCounted, RestoredIsCaptured, disk, counts
<1>5. ApprovedIsLookedAt' /\ ReviewIsCurrent' /\ JobIsSettled' /\ ScansMatch' /\ JudgedAlike'
  BY <1>1 DEF IInv, TypeOK, ApprovedIsLookedAt, ReviewIsCurrent, JobIsSettled, Approved, ScansMatch,
              JudgedAlike,
     batch
<1> QED BY <1>3, <1>4, <1>5 DEF IInv

\* What a batch takes was approved if the review flagged it.
LEMMA ScanManyKeeps ==
    ASSUME IInv, NEW S \in SUBSET Acted, ScanMany(S) PROVE IInv'
PROOF
<1>1. /\ session \in Sessions /\ jobs' = jobs + 1 /\ jobs < MaxJobs
      /\ S # {} /\ \A s \in S : ~Unreviewed(s) /\ Requestable(s)
      /\ Reserve(S)
      /\ scanned' = {} /\ outcome' = None
      /\ UNCHANGED <<feed, port, device, review, disk, captures, disturbances>>
  BY DEF ScanMany, Reviewing, IInv, TypeOK
<1> DEFINE request == [s \in S |-> session.offsets[s]]
<1>2. request \in Requests
  <2>1. request \in [S -> Offsets]
    BY <1>1, SessionsHold
  <2>2. S \in (SUBSET Acted) \ {{}}
    BY <1>1
  <2> QED BY <2>1, <2>2 DEF Requests
<1>3. /\ job' \in Jobs
      /\ job'.left = S /\ DOMAIN job'.request = S /\ job'.fresh = None
      /\ job'.approvals = [s \in Acted |-> IF s \in S THEN approvals[s] ELSE None]
      /\ job'.capture = session.capture /\ job'.request = request
      /\ job'.flagged = {s \in S : Flagged(session.reading, s)}
      /\ job'.looked = S \cap looked
  <2> HIDE DEF request
  <2>1. job' = [capture |-> session.capture, port |-> session.port, reading |-> session.reading,
                request |-> request,
                approvals |-> [s \in Acted |-> IF s \in S THEN approvals[s] ELSE None],
                flagged |-> {s \in S : Flagged(session.reading, s)}, looked |-> S \cap looked,
                fresh |-> None, left |-> S]
    BY <1>1 DEF Reserve, request
  <2>2. job' \in Jobs
    <3>1. [s \in Acted |-> IF s \in S THEN approvals[s] ELSE None]
              \in [Acted -> Approvals \cup {None}]
      BY DEF IInv, TypeOK
    <3>2. looked \subseteq Acted
      BY DEF IInv, TypeOK
    <3> QED BY <1>1, <1>2, <2>1, <3>1, <3>2, SessionsHold DEF Jobs
  <2>3. DOMAIN request = S
    BY DEF request
  <2> QED BY <2>1, <2>2, <2>3
<1>4. job'.flagged \subseteq job'.looked \cap Approved'
  <2> SUFFICES ASSUME NEW s \in S, Flagged(session.reading, s)
               PROVE  s \in looked /\ approvals[s] # None
    BY <1>3 DEF Approved
  <2>1. approvals[s] = Receipt(s)
    BY <1>1 DEF Unreviewed
  <2>2. Receipt(s) # None
    BY ReceiptIsApproval DEF ScanMany, Reviewing
  <2> QED BY <2>1, <2>2 DEF IInv, ApprovedIsLookedAt
<1>5. TypeOK'
  BY <1>1, <1>3, ReviewedRollAssumption DEF IInv, TypeOK, review, disk
<1>6. CapturesAreCounted' /\ RestoredIsCaptured' /\ ApprovedIsLookedAt'
  BY <1>1 DEF IInv, CapturesAreCounted, RestoredIsCaptured, ApprovedIsLookedAt, review, disk
<1>7. JobIsSettled'
  <2>1. \A s \in S : /\ job'.approvals[s] = approvals[s]
                     /\ job'.request[s] = session.offsets[s]
    BY <1>3
  <2>2. \A s \in S : approvals[s] \in
            {None, [capture |-> session.capture, slot |-> s, offset |-> session.offsets[s]]}
    BY <1>1 DEF Requestable, Receipt
  <2> HIDE DEF request
  <2> QED BY <1>3, <2>1, <2>2 DEF JobIsSettled
<1>8. ReviewIsCurrent' /\ ScansMatch' /\ JudgedAlike'
  BY <1>1, <1>3, <1>4, NoneAssumption DEF Outcomes, ReviewIsCurrent, ScansMatch, JudgedAlike
<1> QED BY <1>5, <1>6, <1>7, <1>8 DEF IInv

\* A batch that ends scans nothing more.
LEMMA EndKeeps ==
    ASSUME IInv, NEW how \in {"refused", "complete", "unbound"}, End(how),
           UNCHANGED <<feed, port, device, review, disk, scanned, counts>>
    PROVE  IInv'
PROOF
<1>1. TypeOK'
  BY DEF IInv, TypeOK, End, Outcomes, review, disk, counts
<1>2. CapturesAreCounted' /\ RestoredIsCaptured' /\ ApprovedIsLookedAt'
  BY DEF IInv, CapturesAreCounted, RestoredIsCaptured, ApprovedIsLookedAt, review, disk, counts
<1>3. ReviewIsCurrent' /\ JobIsSettled' /\ ScansMatch' /\ JudgedAlike'
  BY DEF IInv, ReviewIsCurrent, JobIsSettled, ScansMatch, JudgedAlike, End
<1> QED BY <1>1, <1>2, <1>3 DEF IInv

\* A fresh traversal is bound only when it was selected.
LEMMA BindKeeps == ASSUME IInv, Bind PROVE IInv'
PROOF
<1>1. PICK r \in Readings :
          /\ Selected(job.reading, r, job.request, Approved)
          /\ job' = [job EXCEPT !.fresh = r]
  BY DEF Bind, Readable
<1>2. /\ job \in Jobs /\ job # None
      /\ UNCHANGED <<feed, port, device, review, disk, scanned, outcome, counts>>
  BY DEF Bind, IInv, TypeOK
<1>3. /\ job' \in Jobs /\ job'.fresh = r
      /\ job'.reading = job.reading /\ job'.request = job.request
      /\ job'.approvals = job.approvals /\ job'.left = job.left /\ job'.capture = job.capture
      /\ job'.flagged = job.flagged /\ job'.looked = job.looked
  BY <1>1, <1>2, JobsHold DEF Jobs
<1>4. TypeOK'
  BY <1>2, <1>3 DEF IInv, TypeOK, review, disk, counts
<1>5. CapturesAreCounted' /\ RestoredIsCaptured' /\ ApprovedIsLookedAt'
  BY <1>2 DEF IInv, CapturesAreCounted, RestoredIsCaptured, ApprovedIsLookedAt, review, disk,
              counts
<1>6. ReviewIsCurrent' /\ JobIsSettled'
  BY <1>1, <1>2, <1>3 DEF IInv, ReviewIsCurrent, JobIsSettled, Approved
<1>7. ScansMatch' /\ JudgedAlike'
  BY <1>2 DEF IInv, ScansMatch, JudgedAlike
<1> QED BY <1>4, <1>5, <1>6, <1>7 DEF IInv

\* The journal of a frame that was selected and is authorized as its request says passes
\* the parent's check; and the finalization's too when the requested offset was applied.
LEMMA JudgedTwice ==
    ASSUME job.reading \in Readings, job.fresh \in Readings,
           NEW s \in Acted, s \in Nat, job.request[s] \in Nat,
           <<job.reading, job.fresh>> \in Matching,
           <<job.reading, job.fresh, s>> \in MatchingFrames,
           OriginAllowed(job.fresh, s, Approved),
           job.approvals[s] \in
               {None, [capture |-> job.capture, slot |-> s, offset |-> job.request[s]]}
    PROVE  LET journal == Journal(Asked(s), job.reading, job.fresh)
               passed == ParentAccepts(journal, Asked(s))
               good == passed /\ FinalizationAccepts(journal, s, job.request[s]) IN
           /\ passed
           /\ good \/ Rebased(job.fresh, s, job.request[s])
           /\ good => Applied(s) = job.request[s]
PROOF
<1> DEFINE journal == Journal(Asked(s), job.reading, job.fresh)
           base == Origin(job.fresh, s)
<1>1. /\ journal.request = Asked(s)
      /\ Asked(s).slot = s /\ Asked(s).offset = job.request[s]
      /\ Asked(s).approval = job.approvals[s] /\ Asked(s).capture = job.capture
  BY DEF Journal, Asked
<1>2. /\ journal.roll = Comparisons[<<job.reading, job.fresh>>]
      /\ journal.rollMatches = Matches(journal.roll)
      /\ journal.frame = SelectedComparison(Reviewed(job.reading), Fresh(job.fresh), s)
      /\ journal.frameMatches = SelectedMatches(journal.frame)
  BY <1>1 DEF Journal
<1>3. /\ journal.applied = Applied(s)
      /\ journal.automatic = Automatic(Bound(job.fresh, s, job.request[s]))
      /\ journal.accepted = AcceptedResidual(Asked(s), base)
  <2>1. base.row = Start(job.fresh, s)
    BY DEF Origin
  <2> HIDE DEF base
  <2> QED BY <1>1, <2>1 DEF Journal, Applied, base
<1> HIDE DEF journal
<1>4. /\ journal.rollMatches /\ ParentProvesRoll(journal.roll)
      /\ FinalizationProvesRoll(journal.roll)
  BY <1>2, RollProvesTwice
<1>5. /\ journal.frameMatches /\ ParentProvesFrame(journal.frame, s)
      /\ FinalizationProvesFrame(journal.frame, s)
  BY <1>2, FrameProvesTwice
<1>6. ParentAccepts(journal, Asked(s))
  BY <1>1, <1>4, <1>5 DEF ParentAccepts
<1>7. Authorized(journal, s, job.request[s])
  <2>1. CASE job.approvals[s] # None
    BY <1>1, <2>1 DEF Authorized
  <2>2. CASE job.approvals[s] = None /\ Automatic(base)
    <3>1. journal.automatic
      BY <1>3, <2>2, FlagsAreKept
    <3> QED BY <1>1, <2>2, <3>1 DEF Authorized
  <2>3. CASE job.approvals[s] = None /\ ~Automatic(base)
    <3>1. NarrowlyLeading(base)
      BY <2>3 DEF OriginAllowed, Approved
    <3> HIDE DEF base
    <3>2. journal.accepted = {base.residual}
      BY <1>1, <1>3, <2>3, <3>1 DEF AcceptedResidual
    <3>3. DivergenceAccepted(journal)
      BY <3>1, <3>2 DEF NarrowlyLeading, MaxLeadingError, DivergenceAccepted
    <3> QED BY <1>1, <2>3, <3>3 DEF Authorized
  <2> QED BY <2>1, <2>2, <2>3
<1>8. ASSUME ~Rebased(job.fresh, s, job.request[s])
      PROVE  FinalizationAccepts(journal, s, job.request[s])
  <2>1. Applied(s) = job.request[s]
    BY <1>8, RowApplied DEF Applied
  <2> QED BY <1>1, <1>3, <1>4, <1>5, <1>7, <2>1 DEF FinalizationAccepts
<1>9. FinalizationAccepts(journal, s, job.request[s]) => Applied(s) = job.request[s]
  BY <1>3 DEF FinalizationAccepts
<1> QED BY <1>6, <1>8, <1>9 DEF journal

\* A fine scan is of a frame that was selected: it matches, and it is refused later only
\* if its binding was rebased.
LEMMA FineScanKeeps == ASSUME IInv, FineScan PROVE IInv'
PROOF
<1> DEFINE s == Turn
           journal == Journal(Asked(s), job.reading, job.fresh)
           passed == ParentAccepts(journal, Asked(s))
           good == passed /\ FinalizationAccepts(journal, s, job.request[s])
           scan == [slot |-> s,
                    reviewed |-> Picture(job.reading, s), picture |-> Picture(job.fresh, s),
                    chosen |-> job.request[s],
                    at |-> TurnOrigin.native \div Scale - Start(job.fresh, s),
                    rebased |-> Rebased(job.fresh, s, job.request[s]), accepted |-> good]
<1>1. /\ job \in Jobs /\ job # None /\ job.fresh # None /\ job.left # {}
      /\ scanned' = scanned \cup {scan}
      /\ IF good THEN job' = [job EXCEPT !.left = @ \ {s}] /\ UNCHANGED outcome
         ELSE End(IF passed THEN "unidentified" ELSE "rejected")
      /\ UNCHANGED <<feed, port, device, review, disk, counts>>
  BY DEF FineScan, IInv, TypeOK
<1>2. s \in job.left /\ s \in DOMAIN job.request
  BY <1>1, TurnIsLeft DEF IInv, JobIsSettled
<1>3. /\ s \in Acted /\ s \in Nat /\ job.request[s] \in Offsets /\ job.request[s] \in Nat
      /\ job.reading \in Readings /\ job.fresh \in Readings
  <2>1. s \in Acted /\ job.request \in Requests /\ job.reading \in Readings
           /\ job.fresh \in Readings
    BY <1>1, <1>2, JobsHold
  <2>2. job.request[s] \in Offsets
    BY <1>2, <2>1, RequestIsTyped
  <2> HIDE DEF s
  <2>3. s \in 1..40 /\ job.request[s] \in Nat
    BY <2>1, <2>2, TraversalAssumption
  <2> QED BY <2>1, <2>2, <2>3
<1>4. Selected(job.reading, job.fresh, job.request, Approved)
  BY <1>1 DEF IInv, JobIsSettled
<1>5. /\ <<job.reading, job.fresh>> \in Matching
      /\ <<job.reading, job.fresh, s>> \in MatchingFrames
      /\ OffsetResolves(job.fresh, s, job.request[s])
      /\ OriginAllowed(job.fresh, s, Approved)
  <2> HIDE DEF s
  <2> QED BY <1>2, <1>4, SelectedSlot
<1>6. /\ passed
      /\ good \/ Rebased(job.fresh, s, job.request[s])
      /\ good => Applied(s) = job.request[s]
  <2>1. job.approvals[s] \in
            {None, [capture |-> job.capture, slot |-> s, offset |-> job.request[s]]}
    BY <1>1, <1>2 DEF IInv, JobIsSettled
  <2> HIDE DEF s, journal
  <2> QED BY <1>3, <1>5, <2>1, JudgedTwice DEF journal
<1>7. /\ Picture(job.reading, s) \in Pictures /\ Picture(job.fresh, s) \in Pictures
      /\ Distance(Picture(job.reading, s), Picture(job.fresh, s)) <= MaxSelectedHamming
  <2> HIDE DEF s
  <2>1. /\ s \in 1..Signed(job.reading) /\ s \in 1..Signed(job.fresh)
        /\ Distance(Picture(job.reading, s), Picture(job.fresh, s)) <= MaxSelectedHamming
    BY <1>3, <1>5, MatchedFrame
  <2> QED BY <1>3, <2>1, PictureIsTaken
<1>8. /\ scan.at \in Int
      /\ good => Abs(scan.at - scan.chosen)
                     <= IF s = 1 THEN MaxLeadingError ELSE MaxInteriorError
  <2> HIDE DEF s
  <2>1. TurnOrigin = Bound(job.fresh, s, job.request[s])
    BY DEF TurnOrigin, s
  <2>2. good => Bound(job.fresh, s, job.request[s]).row - Start(job.fresh, s) = job.request[s]
    BY <1>6 DEF Applied
  <2> HIDE DEF good
  <2> QED BY <1>3, <1>5, <2>1, <2>2, WhereItLies
<1>9. /\ scan \in Scans /\ scan.accepted = good
      /\ scan.rebased = Rebased(job.fresh, s, job.request[s])
      /\ scan.slot = s
      /\ scan.reviewed = Picture(job.reading, s) /\ scan.picture = Picture(job.fresh, s)
  <2>1. good \in BOOLEAN /\ Rebased(job.fresh, s, job.request[s]) \in BOOLEAN
    BY DEF Rebased, ParentAccepts, FinalizationAccepts
  <2>2. scan.at \in Int
    BY <1>8
  <2> HIDE DEF s, good
  <2> QED BY <1>3, <1>7, <2>1, <2>2 DEF Scans
<1> HIDE DEF s, journal, passed, good, scan
<1>10. ScansMatch'
  BY <1>1, <1>7, <1>8, <1>9 DEF IInv, ScansMatch
<1>11. JudgedAlike'
  <2>1. outcome' # "rejected"
    BY <1>1, <1>6 DEF End, IInv, JudgedAlike
  <2> QED BY <1>1, <1>6, <1>9, <2>1 DEF IInv, JudgedAlike
<1>12. \/ job' = None
       \/ /\ job' \in Jobs
          /\ job'.reading = job.reading /\ job'.request = job.request
          /\ job'.approvals = job.approvals /\ job'.left \subseteq job.left
          /\ job'.capture = job.capture
          /\ job'.flagged = job.flagged /\ job'.looked = job.looked
          /\ job'.fresh = job.fresh
  BY <1>1, JobsHold DEF End, Jobs
<1>13. TypeOK'
  <2>1. outcome' \in Outcomes \cup {None} /\ scanned' \subseteq Scans
    BY <1>1, <1>6, <1>9 DEF IInv, TypeOK, End, Outcomes
  <2> QED BY <1>1, <1>12, <2>1 DEF IInv, TypeOK, review, disk, counts
<1>14. CapturesAreCounted' /\ RestoredIsCaptured' /\ ApprovedIsLookedAt'
  BY <1>1 DEF IInv, CapturesAreCounted, RestoredIsCaptured, ApprovedIsLookedAt, review, disk,
              counts
<1>15. ReviewIsCurrent' /\ JobIsSettled'
  BY <1>1, <1>4, <1>12 DEF IInv, ReviewIsCurrent, JobIsSettled, Approved
<1> QED BY <1>10, <1>11, <1>13, <1>14, <1>15 DEF IInv

\* What is saved is the session.
LEMMA SaveKeeps == ASSUME IInv, Save PROVE IInv'
PROOF
<1>1. TypeOK'
  BY DEF IInv, TypeOK, Save, review, batch, counts
<1>2. CapturesAreCounted' /\ RestoredIsCaptured' /\ ApprovedIsLookedAt'
  BY DEF IInv, CapturesAreCounted, RestoredIsCaptured, ApprovedIsLookedAt, Save, review, counts
<1>3. ReviewIsCurrent' /\ JobIsSettled' /\ ScansMatch' /\ JudgedAlike'
  BY DEF IInv, ReviewIsCurrent, JobIsSettled, Approved, ScansMatch, JudgedAlike, Save, batch
<1> QED BY <1>1, <1>2, <1>3 DEF IInv

\* A failed preview counts, and changes nothing else.
LEMMA PreviewFailsKeeps == ASSUME IInv, PreviewFails PROVE IInv'
PROOF
<1>1. TypeOK'
  BY ReviewedRollAssumption DEF IInv, TypeOK, PreviewFails, review, disk, batch
<1>2. CapturesAreCounted'
  <2>1. /\ session # None => session.capture \in Nat
        /\ saved # None => saved.capture \in Nat
    BY SessionsHold, ReviewedRollAssumption DEF IInv, TypeOK
  <2> QED BY <2>1, ReviewedRollAssumption DEF IInv, TypeOK, CapturesAreCounted,
         PreviewFails, review, disk
<1>3. RestoredIsCaptured' /\ ApprovedIsLookedAt'
  BY DEF IInv, RestoredIsCaptured, ApprovedIsLookedAt, PreviewFails, review, disk
<1>4. ReviewIsCurrent' /\ JobIsSettled' /\ ScansMatch' /\ JudgedAlike'
  BY DEF IInv, ReviewIsCurrent, JobIsSettled, Approved, ScansMatch, JudgedAlike, PreviewFails, batch
<1> QED BY <1>1, <1>2, <1>3, <1>4 DEF IInv

\* What happens to the film, the cable and the files is not in the review.
LEMMA DisturbedKeeps ==
    ASSUME IInv, ChangeFilm \/ Replug \/ Alter
    PROVE  IInv'
PROOF
<1>1. TypeOK'
  <2>1. disturbances' \in 0..MaxDisturbances
    BY ReviewedRollAssumption DEF IInv, TypeOK, ChangeFilm, Replug, Alter, Disturb
  <2>2. /\ feed' \in Feeds /\ port' \in Ports /\ altered' \in BOOLEAN
        /\ UNCHANGED <<device, review, saved, batch, captures, jobs>>
    BY DEF IInv, TypeOK, ChangeFilm, Replug, Alter, Disturb, review, disk, batch
  <2> QED BY <2>1, <2>2 DEF IInv, TypeOK, review, batch
<1>2. CapturesAreCounted' /\ RestoredIsCaptured' /\ ApprovedIsLookedAt'
  BY  DEF IInv, CapturesAreCounted, RestoredIsCaptured, ApprovedIsLookedAt, ChangeFilm, Replug,
         Alter,
     Disturb, review, disk
<1>3. ReviewIsCurrent' /\ JobIsSettled' /\ ScansMatch' /\ JudgedAlike'
  BY DEF IInv, ReviewIsCurrent, JobIsSettled, Approved, ScansMatch, JudgedAlike, ChangeFilm, Replug,
         Alter, batch
<1> QED BY <1>1, <1>2, <1>3 DEF IInv

\* A roll opened again has no review.
LEMMA ReopenKeeps == ASSUME IInv, Reopen PROVE IInv'
PROOF
<1>1. TypeOK'
  BY ReviewedRollAssumption DEF IInv, TypeOK, Reopen, Disturb, Show, NoApprovals, disk, batch
<1>2. CapturesAreCounted' /\ RestoredIsCaptured' /\ ApprovedIsLookedAt'
  BY  DEF IInv, CapturesAreCounted, RestoredIsCaptured, ApprovedIsLookedAt, Reopen, Disturb,
         Show,
     NoApprovals, disk
<1>3. ReviewIsCurrent' /\ JobIsSettled' /\ ScansMatch' /\ JudgedAlike'
  BY DEF IInv, ReviewIsCurrent, JobIsSettled, Approved, ScansMatch, JudgedAlike, Reopen, batch
<1> QED BY <1>1, <1>2, <1>3 DEF IInv

\* Every step keeps the invariant.
LEMMA StepKeeps == IInv /\ [Next]_vars => IInv'
PROOF
<1> SUFFICES ASSUME IInv, [Next]_vars PROVE IInv'
  OBVIOUS
<1>1. CASE Preview
  BY <1>1, PreviewKeeps
<1>2. CASE PreviewFails
  BY <1>2, PreviewFailsKeeps
<1>3. CASE Save
  BY <1>3, SaveKeeps
<1>4. CASE Restore
  BY <1>4, RestoreKeeps
<1>5. CASE \E s \in Acted : Approve(s)
  BY <1>5, ApproveKeeps
<1>6. CASE \E s \in Acted, offset \in Offsets : SetOffset(s, offset)
  BY <1>6, SetOffsetKeeps
<1>7. CASE \E S \in SUBSET Acted : ScanMany(S)
  BY <1>7, ScanManyKeeps
<1>8. CASE Refuse \/ Unbound \/ Complete
  BY <1>8, EndKeeps DEF Refuse, Unbound, Complete
<1>9. CASE Bind
  BY <1>9, BindKeeps
<1>10. CASE FineScan
  BY <1>10, FineScanKeeps
<1>11. CASE ChangeFilm \/ Replug \/ Alter
  BY <1>11, DisturbedKeeps
<1>12. CASE Reopen
  BY <1>12, ReopenKeeps
<1>13. CASE UNCHANGED vars
  <2>1. TypeOK'
    BY <1>13 DEF IInv, TypeOK, vars, review, disk, batch, counts
  <2>2. CapturesAreCounted' /\ RestoredIsCaptured' /\ ApprovedIsLookedAt'
    BY <1>13 DEF IInv, CapturesAreCounted, RestoredIsCaptured, ApprovedIsLookedAt, vars, review,
                 disk, counts
  <2>3. ReviewIsCurrent' /\ JobIsSettled' /\ ScansMatch' /\ JudgedAlike'
    BY <1>13 DEF IInv, ReviewIsCurrent, JobIsSettled, Approved, ScansMatch, JudgedAlike, vars, batch
  <2> QED BY <2>1, <2>2, <2>3 DEF IInv
<1> QED BY <1>1, <1>2, <1>3, <1>4, <1>5, <1>6, <1>7, <1>8, <1>9, <1>10, <1>11, <1>12,
       <1>13 DEF Next

\* The invariant of every reachable state.
LEMMA AlwaysSettled == Spec => []IInv
BY StartsSettled, StepKeeps, PTL DEF Spec

\* An accepted scan shows the picture that was reviewed.
PicturesMatch == \A f \in scanned : f.accepted => f.picture = f.reviewed

\* Only a fine scan adds to what was scanned, and it is of a selected frame.
LEMMA PictureStep ==
    ASSUME TellsFramesApart, IInv, PicturesMatch, [Next]_vars
    PROVE  PicturesMatch'
PROOF
<1>1. CASE FineScan
  <2> DEFINE s == Turn
             journal == Journal(Asked(s), job.reading, job.fresh)
             passed == ParentAccepts(journal, Asked(s))
             good == passed /\ FinalizationAccepts(journal, s, job.request[s])
             scan == [slot |-> s,
                      reviewed |-> Picture(job.reading, s), picture |-> Picture(job.fresh, s),
                      chosen |-> job.request[s],
                      at |-> TurnOrigin.native \div Scale - Start(job.fresh, s),
                      rebased |-> Rebased(job.fresh, s, job.request[s]), accepted |-> good]
  <2>1. scanned' = scanned \cup {scan}
    BY <1>1 DEF FineScan
  <2>2. /\ job \in Jobs /\ job.fresh \in Readings /\ job.reading \in Readings
        /\ job.left # {} /\ job.left \subseteq Acted
    BY <1>1, JobsHold DEF FineScan, IInv, TypeOK
  <2>3. s \in Acted
    BY <2>2, TurnIsLeft
  <2>4. <<job.reading, job.fresh>> \in Matching /\ <<job.reading, job.fresh, s>> \in MatchingFrames
    <3>1. s \in job.left /\ job.left \subseteq DOMAIN job.request
      BY <1>1, <2>2, TurnIsLeft DEF IInv, JobIsSettled, FineScan
    <3>2. Selected(job.reading, job.fresh, job.request, Approved)
      BY <1>1 DEF IInv, JobIsSettled, FineScan
    <3> HIDE DEF s
    <3> QED BY <3>1, <3>2, SelectedSlot
  <2>5. scan.picture = Picture(job.fresh, s) /\ scan.reviewed = Picture(job.reading, s)
    OBVIOUS
  <2> HIDE DEF s, scan
  <2>6. scan.accepted => scan.picture = scan.reviewed
    BY <2>2, <2>3, <2>4, <2>5, SelectedIsReviewed
  <2> QED BY <2>1, <2>6 DEF PicturesMatch
<1>2. CASE ~FineScan
  <2>1. scanned' = scanned \/ scanned' = {}
    BY <1>2 DEF Next, Preview, PreviewFails, Save, Restore, RestoredBy, Approve, SetOffset,
       ScanMany, Refuse, Bind, Unbound, Complete, ChangeFilm, Replug, Alter, Reopen, batch, vars
  <2> QED BY <2>1 DEF PicturesMatch
<1> QED BY <1>1, <1>2

-----------------------------------------------------------------------------
(* The theorems *)

\* Type correctness of the review, the batch and what it scanned.
THEOREM ReviewIsTyped == Spec => []TypeOK
PROOF
<1>1. IInv => TypeOK
  BY DEF IInv
<1> QED BY <1>1, AlwaysSettled, PTL

\* An accepted fine scan hashes like the picture the operator reviewed in its slot and
\* lies where the operator put it, whatever the films.
THEOREM FineScansMatch == Spec => []ScansMatch
PROOF
<1>1. IInv => ScansMatch
  BY DEF IInv
<1> QED BY <1>1, AlwaysSettled, PTL

\* So where places or hashes tell the frames of any two readings apart, an accepted fine
\* scan shows the picture that was reviewed (FineScanIsReviewed).  No comparison tells a
\* series of one motif from the same series fed a pitch further in.
THEOREM FineScansAreReviewed ==
    ASSUME TellsFramesApart
    PROVE  Spec => []FineScanIsReviewed
PROOF
<1>1. Init => PicturesMatch
  BY DEF Init, PicturesMatch
<1>2. IInv /\ PicturesMatch /\ [Next]_vars => PicturesMatch'
  BY PictureStep
<1>3. IInv /\ PicturesMatch => FineScanIsReviewed
  BY DEF IInv, ScansMatch, PicturesMatch, FineScanIsReviewed
<1> QED BY <1>1, <1>2, <1>3, AlwaysSettled, PTL DEF Spec

\* A batch takes a flagged slot only after an approval of what it shows now
\* (ReviewIsCurrent): no preview, restored session, offset or reopening in between
\* leaves an older approval standing.
THEOREM ReviewsStayCurrent == Spec => []ReviewIsCurrent
PROOF
<1>1. IInv => ReviewIsCurrent
  BY DEF IInv
<1> QED BY <1>1, AlwaysSettled, PTL

\* The session in use is what a capture of this device read (RestoredIsCaptured).
THEOREM RestoresWhatWasCaptured == Spec => []RestoredIsCaptured
PROOF
<1>1. IInv => RestoredIsCaptured
  BY DEF IInv
<1> QED BY <1>1, AlwaysSettled, PTL

\* The parent rejects nothing the child selected, and the finalization only what was
\* rebased (JudgedAlike).
THEOREM TheyJudgeAlike == Spec => []JudgedAlike
PROOF
<1>1. IInv => JudgedAlike
  BY DEF IInv
<1> QED BY <1>1, AlwaysSettled, PTL

=============================================================================
