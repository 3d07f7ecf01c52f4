----------------------------- MODULE FrameProofs -----------------------------
(***************************************************************************)
(* Proofs about FineFrame: a frame runs the sidecar as StreamSidecar says, *)
(* and is armed and exposed as Metering promises, for every film, every    *)
(* seed and every number of records.                                       *)
(***************************************************************************)
EXTENDS FineFrame, StreamProofs

-----------------------------------------------------------------------------
(* The controller's arithmetic.                                            *)

Obs == [exposures : Exposures, sight : Sights, clear : BOOLEAN]

LEMMA BoundsAreNat ==
    ExposureMin \in Nat /\ ExposureMax \in Nat /\ ExposureMin <= ExposureMax
  BY DEF ExposureMin, ExposureMax

LEMMA ChoosingIsNat ==
    ASSUME NEW a \in Nat, NEW b \in Nat
    PROVE  /\ LeastOf(a, b) \in Nat /\ LeastOf(a, b) <= a /\ LeastOf(a, b) <= b
           /\ GreatestOf(a, b) \in Nat /\ GreatestOf(a, b) >= a
  BY DEF LeastOf, GreatestOf

LEMMA ClipIsBounded ==
    ASSUME NEW x \in Nat, NEW low \in Nat, NEW high \in Nat, low <= high
    PROVE  /\ Clip(x, low, high) \in Nat
           /\ Clip(x, low, high) \in low..high
           /\ Clip(x, low, high) <= x \/ Clip(x, low, high) = low
  BY DEF Clip, LeastOf, GreatestOf

LEMMA QuotientIsNat ==
    ASSUME NEW a \in Nat, NEW b \in Nat \ {0}
    PROVE  /\ a \div b \in Nat /\ a % b \in Nat
           /\ b * (a \div b) <= a
  OBVIOUS

LEMMA RoundedIsNat ==
    ASSUME NEW a \in Nat, NEW b \in Nat \ {0}
    PROVE  Rounded(a, b) \in Nat
  BY QuotientIsNat DEF Rounded

LEMMA Scaled ==
    ASSUME NEW a \in Nat, NEW b \in Nat, NEW e \in Nat, a <= b
    PROVE  /\ e * a \in Nat /\ e * b \in Nat /\ e * a <= e * b
           /\ a * e = e * a /\ b * e = e * b
  OBVIOUS

\* What is seen of a pass; a raster's high is not below the high of its inside.
LEMMA SignalsAreNat ==
    ASSUME NEW o \in Obs, NEW c \in Channels
    PROVE  /\ o.exposures[c] \in Nat
           /\ Core(o, c) \in Nat /\ Peak(o, c) \in Nat
           /\ Core(o, c) > 0 => Peak(o, c) > 0
<1> DEFINE e == o.exposures[c]
           core == o.sight[c].core
           peak == o.sight[c].peak
<1>1. e \in Nat /\ core \in Nat /\ peak \in Nat /\ core <= peak
  BY MeterAssumption DEF Obs, Exposures
<1>2. e * core \in Nat /\ e * peak \in Nat /\ e * core <= e * peak
  BY <1>1, Scaled
<1> HIDE DEF e, core, peak
<1>3. /\ (e * core) \div Unit \in Nat /\ (e * peak) \div Unit \in Nat
      /\ (e * core) \div Unit <= (e * peak) \div Unit
  BY <1>2 DEF Unit
<1>4. /\ Core(o, c) = LeastOf(1000, (e * core) \div Unit)
      /\ Peak(o, c) = LeastOf(1000, (e * peak) \div Unit)
  BY DEF Core, Peak, e, core, peak
<1>5. QED
  BY <1>1, <1>3, <1>4 DEF LeastOf, e

LEMMA WantedIsBounded ==
    ASSUME NEW o \in Obs, NEW c \in Channels
    PROVE  Wanted(o, c) \in Nat /\ Wanted(o, c) \in ExposureMin..ExposureMax
<1> DEFINE e == o.exposures[c]
           aim == IF Core(o, c) = 0 THEN 2 * e ELSE Rounded(e * Target(c), Core(o, c))
<1>1. e \in Nat /\ Core(o, c) \in Nat
  BY SignalsAreNat
<1>2. e * Target(c) \in Nat
  BY <1>1 DEF Target
<1>3. aim \in Nat /\ Rounded(e, 2) \in Nat /\ 2 * e \in Nat
  BY <1>1, <1>2, RoundedIsNat
<1>4. Rounded(e, 2) <= 2 * e
  BY <1>1 DEF Rounded
<1> HIDE DEF e, aim
<1>5. Clip(aim, Rounded(e, 2), 2 * e) \in Nat
  BY <1>3, <1>4, ClipIsBounded
<1>6. Wanted(o, c) = Clip(Clip(aim, Rounded(e, 2), 2 * e), ExposureMin, ExposureMax)
  BY DEF Wanted, e, aim
<1> DEFINE inner == Clip(aim, Rounded(e, 2), 2 * e)
<1> HIDE DEF inner
<1>7. inner \in Nat
  BY <1>5 DEF inner
<1>8. /\ Clip(inner, ExposureMin, ExposureMax) \in Nat
      /\ Clip(inner, ExposureMin, ExposureMax) \in ExposureMin..ExposureMax
  BY <1>7, BoundsAreNat, ClipIsBounded
<1>9. QED
  BY <1>6, <1>8 DEF inner

LEMMA Between ==
    ASSUME NEW low \in Nat, NEW high \in Nat, NEW e \in low..high, NEW w \in low..high,
           NEW p \in Nat, p <= w, p >= e \/ p = w
    PROVE  p \in low..high
  OBVIOUS

\* A proposal from a safe exposure is safe, and stays below the ceiling.
LEMMA ProposalIsSafe ==
    ASSUME NEW o \in Obs, NEW c \in Channels
    PROVE  /\ Proposed(o)[c] \in Nat
           /\ o.exposures[c] \in ExposureMin..ExposureMax =>
                Proposed(o)[c] \in ExposureMin..ExposureMax
           /\ Proposed(o)[c] > o.exposures[c] =>
                Proposed(o)[c] * Peak(o, c) <= Ceiling * o.exposures[c]
<1> DEFINE e == o.exposures[c]
           peak == Peak(o, c)
           cap == (e * Ceiling) \div peak
           p == Proposed(o)[c]
<1>1. e \in Nat /\ peak \in Nat
  BY SignalsAreNat
<1>2. Wanted(o, c) \in Nat /\ Wanted(o, c) \in ExposureMin..ExposureMax
  BY WantedIsBounded
<1>3. p = IF Wanted(o, c) > e /\ peak > 0
          THEN LeastOf(Wanted(o, c), GreatestOf(e, cap)) ELSE Wanted(o, c)
  BY DEF Proposed
<1>4. ASSUME Wanted(o, c) > e /\ peak > 0
      PROVE  /\ p \in Nat
             /\ e \in ExposureMin..ExposureMax => p \in ExposureMin..ExposureMax
             /\ p > e => p * peak <= Ceiling * e
  <2>1. e * Ceiling \in Nat /\ peak \in Nat \ {0}
    BY <1>1, <1>4 DEF Ceiling
  <2>2. cap \in Nat /\ peak * cap <= e * Ceiling
    BY <2>1, QuotientIsNat
  <2> HIDE DEF e, peak, cap, p
  <2>3. p >= e \/ p = Wanted(o, c)
    BY <1>1, <1>2, <1>3, <1>4, <2>2 DEF LeastOf, GreatestOf
  <2>4. p \in Nat /\ p <= Wanted(o, c)
    BY <1>1, <1>2, <1>3, <1>4, <2>2 DEF LeastOf, GreatestOf
  <2>5. p > e => p <= cap
    BY <1>1, <1>2, <1>3, <1>4, <2>2 DEF LeastOf, GreatestOf
  <2>6. p > e => p * peak <= Ceiling * e
    <3> SUFFICES ASSUME p > e PROVE p * peak <= Ceiling * e
      OBVIOUS
    <3>1. peak * p <= peak * cap /\ p * peak = peak * p
      BY <1>1, <2>2, <2>4, <2>5, Scaled
    <3>2. Ceiling * e = e * Ceiling
      BY <1>1 DEF Ceiling
    <3>3. QED
      BY <1>1, <2>1, <2>2, <2>4, <3>1, <3>2, Scaled
  <2>7. e \in ExposureMin..ExposureMax => p \in ExposureMin..ExposureMax
    BY <1>1, <1>2, <2>3, <2>4, Between, BoundsAreNat
  <2>8. QED
    BY <2>4, <2>6, <2>7
<1>5. CASE Wanted(o, c) > e /\ peak = 0
  BY <1>1, <1>2, <1>3, <1>5 DEF Ceiling
<1>6. CASE ~(Wanted(o, c) > e)
  BY <1>1, <1>2, <1>3, <1>6
<1>7. QED
  BY <1>1, <1>4, <1>5, <1>6

\* What the controller accepts is inside the bounds, and is not dark.
LEMMA AcceptedIsSafe ==
    ASSUME NEW o \in Obs, NEW previous, Accepted(o, previous), NEW c \in Channels
    PROVE  /\ o.exposures[c] \in ExposureMin..ExposureMax
           /\ Core(o, c) \in Nat \ {0} /\ Peak(o, c) \in Nat \ {0}
<1>1. o.exposures[c] \in ExposureMin..ExposureMax /\ ~(Core(o, c) < 20)
  BY DEF Accepted, Unsafe
<1>2. QED
  BY <1>1, SignalsAreNat

\* The fine exposure of a visible channel stays below the reviewed high.
LEMMA GuardedIsSafe ==
    ASSUME NEW o \in Obs, NEW c \in Channels,
           Core(o, c) \in Nat \ {0}, Peak(o, c) \in Nat \ {0}
    PROVE  /\ Guarded(o, c) \in Nat
           /\ Guarded(o, c) \in ExposureMin..ExposureMax
           /\ \/ Guarded(o, c) * Peak(o, c) <= ReviewedHigh * o.exposures[c]
              \/ Guarded(o, c) = ExposureMin
<1> DEFINE e == o.exposures[c]
           peak == Peak(o, c)
           candidate == Rounded(Proposed(o)[c] * ParityTarget, Core(o, c))
           cap == (e * ReviewedHigh) \div peak
           least == LeastOf(candidate, cap)
           g == Clip(least, ExposureMin, ExposureMax)
<1>1. Guarded(o, c) = g
  BY DEF Guarded
<1>2. e \in Nat /\ Proposed(o)[c] \in Nat
  BY SignalsAreNat, ProposalIsSafe
<1>3. e * ReviewedHigh \in Nat /\ Proposed(o)[c] * ParityTarget \in Nat
      /\ e * ReviewedHigh = ReviewedHigh * e /\ ReviewedHigh * e \in Nat
  BY <1>2 DEF ReviewedHigh, ParityTarget
<1>4. candidate \in Nat
  BY <1>3, RoundedIsNat
<1>5. cap \in Nat /\ peak * cap <= e * ReviewedHigh
  BY <1>3, QuotientIsNat
<1> HIDE DEF e, peak, candidate, cap
<1>6. least \in Nat /\ least <= cap
  BY <1>4, <1>5, ChoosingIsNat
<1> HIDE DEF least
<1>7. g \in Nat /\ g \in ExposureMin..ExposureMax /\ (g <= least \/ g = ExposureMin)
  BY <1>6, BoundsAreNat, ClipIsBounded
<1> HIDE DEF g
<1>8. ASSUME g <= least
      PROVE  g * peak <= ReviewedHigh * e
  <2>1. peak \in Nat
    BY DEF peak
  <2>2. g <= cap
    BY <1>5, <1>6, <1>7, <1>8
  <2>3. peak * g \in Nat /\ peak * cap \in Nat /\ peak * g <= peak * cap
        /\ g * peak = peak * g
    BY <1>5, <1>7, <2>1, <2>2, Scaled
  <2>4. QED
    BY <1>3, <1>5, <2>3
<1>9. QED
  BY <1>1, <1>7, <1>8 DEF e, peak

-----------------------------------------------------------------------------
(* The inductive invariant of the metering.                                *)

\* A pass is commanded before it is read.
CountInv ==
    /\ Taken <= Len(commanded) /\ Len(commanded) <= Taken + 1
    /\ Len(commanded) <= Passes
    /\ step = "window" => Len(commanded) = Taken /\ Taken < Passes
    /\ step = "read" => Len(commanded) = Taken + 1
    /\ step \in {"sync", "record", "decide"} => Len(commanded) = Taken /\ Taken > 0

\* The journal is behind the file, and the file behind the passes.
DurableInv ==
    /\ journal.durable <= synced /\ synced <= Taken
    /\ step \in {"record", "decide"} => synced = Taken
    /\ step \in {"arm", "armed"} => journal = [durable |-> Passes, complete |-> TRUE]

\* Pass p was accepted, and the exposures after it are what it proposed.
Follows(p, exposures) ==
    Accepted(Observation(p), Before(p)) /\ exposures = Proposed(Observation(p))
ChainInv ==
    /\ \A p \in 1..(Len(commanded) - 1) : Follows(p, commanded[p + 1])
    /\ step = "window" /\ Taken > 0 => Follows(Taken, contract)

\* There are fine exposures only as the third pass solves for them.
Solved ==
    /\ Taken = Passes /\ Len(commanded) = Passes
    /\ Verified(Observation(Passes), Before(Passes))
    /\ final = FineExposures(Observation(Passes))
SolvedInv ==
    /\ final # None => Solved
    /\ step \in {"stop", "arm", "armed"} => Solved

MInv == MeterTypeOK /\ CountInv /\ DurableInv /\ ChainInv /\ SolvedInv

-----------------------------------------------------------------------------
(* Observations.                                                           *)

LEMMA Element ==
    ASSUME NEW S, NEW s \in Seq(S), NEW i \in 1..Len(s)
    PROVE  s[i] \in S
  OBVIOUS

LEMMA Appended ==
    ASSUME NEW S, NEW s \in Seq(S), NEW x \in S
    PROVE  /\ Append(s, x) \in Seq(S)
           /\ Len(Append(s, x)) = Len(s) + 1 /\ Len(s) \in Nat
           /\ \A i \in 1..Len(s) : Append(s, x)[i] = s[i]
           /\ Append(s, x)[Len(s) + 1] = x
  OBVIOUS

LEMMA ObservationIsObs ==
    ASSUME MeterTypeOK, NEW p \in 1..Len(commanded), p <= Taken
    PROVE  Observation(p) \in Obs /\ Observation(p).exposures = commanded[p]
<1>1. Len(commanded) \in Nat /\ Taken \in Nat
  BY DEF MeterTypeOK, Taken
<1>2. p \in 1..Len(raw)
  BY <1>1 DEF Taken
<1>3. commanded[p] \in Exposures
  BY DEF MeterTypeOK
<1>4. raw[p] \in [sight : Sights, clear : BOOLEAN]
  BY <1>2, Element DEF MeterTypeOK
<1>5. QED
  BY <1>3, <1>4 DEF Observation, Obs

\* What has been observed stays as it is.
LEMMA ObservationStays ==
    ASSUME MeterTypeOK, NEW p \in 1..Len(commanded), p <= Taken,
           \/ commanded' = commanded
           \/ \E x \in Exposures : commanded' = Append(commanded, x),
           \/ raw' = raw
           \/ \E x \in [sight : Sights, clear : BOOLEAN] : raw' = Append(raw, x)
    PROVE  Observation(p)' = Observation(p) /\ Before(p)' = Before(p)
           /\ commanded'[p] = commanded[p]
<1>1. Len(commanded) \in Nat /\ Taken \in Nat
  BY DEF MeterTypeOK, Taken
<1>2. \A q \in 1..Len(commanded) : commanded'[q] = commanded[q]
  <2>1. CASE commanded' = commanded
    BY <2>1
  <2>2. CASE \E x \in Exposures : commanded' = Append(commanded, x)
    <3>1. PICK x \in Exposures : commanded' = Append(commanded, x)
      BY <2>2
    <3>2. commanded \in Seq(Exposures)
      BY DEF MeterTypeOK
    <3>3. QED
      BY <3>1, <3>2, Appended
  <2>3. QED
    BY <2>1, <2>2
<1>3. \A q \in 1..Len(raw) : raw'[q] = raw[q]
  <2>1. CASE raw' = raw
    BY <2>1
  <2>2. CASE \E x \in [sight : Sights, clear : BOOLEAN] : raw' = Append(raw, x)
    <3>1. PICK x \in [sight : Sights, clear : BOOLEAN] : raw' = Append(raw, x)
      BY <2>2
    <3>2. raw \in Seq([sight : Sights, clear : BOOLEAN])
      BY DEF MeterTypeOK
    <3>3. QED
      BY <3>1, <3>2, Appended
  <2>3. QED
    BY <2>1, <2>2
<1>4. \A q \in 1..Len(commanded) : q <= Taken => Observation(q)' = Observation(q)
  BY <1>1, <1>2, <1>3 DEF Observation, Taken
<1>5. Before(p)' = Before(p)
  <2>1. CASE p = 1
    BY <2>1 DEF Before
  <2>2. CASE p # 1
    <3>1. p - 1 \in 1..Len(commanded) /\ p - 1 <= Taken
      BY <1>1, <2>2
    <3>2. Observation(p - 1)' = Observation(p - 1)
      BY <1>4, <3>1
    <3>3. QED
      BY <2>2, <3>2 DEF Before
  <2>3. QED
    BY <2>1, <2>2
<1>6. QED
  BY <1>2, <1>4, <1>5

LEMMA NothingSeenAnew ==
    ASSUME UNCHANGED <<commanded, raw>>
    PROVE  /\ Taken' = Taken
           /\ \A p : Observation(p)' = Observation(p) /\ Before(p)' = Before(p)
  BY DEF Taken, Observation, Before

LEMMA ChainUntouched ==
    ASSUME UNCHANGED <<commanded, raw>>
    PROVE  \A p : Follows(p, commanded[p + 1])' <=> Follows(p, commanded[p + 1])
  BY NothingSeenAnew DEF Follows

LEMMA SolutionUntouched ==
    ASSUME UNCHANGED <<commanded, raw, final>>
    PROVE  Solved' <=> Solved
  BY NothingSeenAnew DEF Solved

LEMMA ExposuresAreTyped ==
    ASSUME NEW o \in Obs
    PROVE  /\ Proposed(o) \in Exposures
           /\ \A previous : Accepted(o, previous) => FineExposures(o) \in Exposures
<1>1. \A c \in Channels : Proposed(o)[c] \in Nat
  BY ProposalIsSafe
<1>2. Proposed(o) \in Exposures
  BY <1>1 DEF Proposed, Exposures
<1>3. ASSUME NEW previous, Accepted(o, previous)
      PROVE  FineExposures(o) \in Exposures
  <2>1. \A c \in Channels : Guarded(o, c) \in Nat
    BY <1>3, AcceptedIsSafe, GuardedIsSafe
  <2>2. QED
    BY <1>1, <2>1 DEF FineExposures, Exposures
<1>4. QED
  BY <1>2, <1>3

\* The observation of the last pass, when it has been read.
LEMMA LastIsObs ==
    ASSUME MeterTypeOK, Len(commanded) = Taken, Taken > 0
    PROVE  Observation(Taken) \in Obs
<1>1. Taken \in Nat
  BY DEF MeterTypeOK, Taken
<1>2. Taken \in 1..Len(commanded)
  BY <1>1
<1>3. QED
  BY <1>1, <1>2, ObservationIsObs

-----------------------------------------------------------------------------
(* Steps of the metering.                                                  *)

LEMMA LengthsAreNat ==
    ASSUME MeterTypeOK
    PROVE  Len(commanded) \in Nat /\ Taken \in Nat /\ Passes \in Nat
  BY DEF MeterTypeOK, Taken, Passes

\* A frame that fails keeps its evidence.
LEMMA FailStep ==
    ASSUME MInv, step' = "failed",
           UNCHANGED <<contract, commanded, raw, synced, journal, final>>
    PROVE  MInv'
<1>1. MeterTypeOK'
  BY DEF MInv, MeterTypeOK, Steps
<1>2. CountInv'
  BY DEF MInv, CountInv, Taken
<1>3. DurableInv'
  BY DEF MInv, DurableInv, Taken
<1>4. ChainInv'
  BY ChainUntouched DEF MInv, ChainInv
<1>5. SolvedInv'
  BY SolutionUntouched DEF MInv, SolvedInv, None
<1>6. QED
  BY <1>1, <1>2, <1>3, <1>4, <1>5 DEF MInv

\* There are no fine exposures before the third pass is read.
LEMMA NotSolvedYet ==
    ASSUME MInv, step \in {"window", "read"}
    PROVE  final = None
<1>1. ~Solved
  BY LengthsAreNat DEF MInv, CountInv, Solved
<1>2. QED
  BY <1>1 DEF MInv, SolvedInv

LEMMA EchoStep ==
    ASSUME MInv, EchoWindows
    PROVE  MInv'
<1>1. CASE step' = "failed"
  <2>1. UNCHANGED <<contract, commanded, raw, synced, journal, final>>
    BY <1>1 DEF EchoWindows
  <2>2. QED
    BY <1>1, <2>1, FailStep
<1>2. CASE step' # "failed"
  <2>1. /\ step = "window" /\ step' = "read"
        /\ commanded' = Append(commanded, contract)
        /\ UNCHANGED <<contract, raw, synced, journal, final>>
    BY <1>2 DEF EchoWindows, PassEchoed
  <2>2. contract \in Exposures /\ commanded \in Seq(Exposures)
    BY DEF MInv, MeterTypeOK
  <2>3. /\ commanded' \in Seq(Exposures)
        /\ Len(commanded') = Len(commanded) + 1
        /\ commanded'[Len(commanded) + 1] = contract
        /\ \A i \in 1..Len(commanded) : commanded'[i] = commanded[i]
    BY <2>1, <2>2, Appended
  <2>4. Len(commanded) = Taken /\ Taken < Passes /\ Taken' = Taken /\ Taken \in Nat
        /\ Passes \in Nat
    BY <2>1, LengthsAreNat DEF MInv, CountInv, Taken
  <2>5. MeterTypeOK'
    BY <2>1, <2>3 DEF MInv, MeterTypeOK, Steps
  <2>6. CountInv'
    BY <2>1, <2>3, <2>4 DEF MInv, CountInv
  <2>7. DurableInv'
    BY <2>1, <2>4 DEF MInv, DurableInv
  <2>8. ChainInv'
    <3>1. ASSUME NEW p \in 1..(Len(commanded') - 1)
          PROVE  Follows(p, commanded[p + 1])'
      <4>1. p \in 1..Len(commanded) /\ p <= Taken
        BY <2>3, <2>4
      <4>2. Observation(p)' = Observation(p) /\ Before(p)' = Before(p)
        BY <2>1, <2>2, <4>1, ObservationStays DEF MInv
      <4>3. CASE p = Taken
        <5>1. Follows(Taken, contract) /\ commanded'[p + 1] = contract
          BY <2>1, <2>3, <2>4, <4>1, <4>3 DEF MInv, ChainInv
        <5>2. QED
          BY <4>2, <4>3, <5>1 DEF Follows
      <4>4. CASE p # Taken
        <5>1. p \in 1..(Len(commanded) - 1) /\ p + 1 \in 1..Len(commanded)
          BY <2>4, <4>1, <4>4
        <5>2. Follows(p, commanded[p + 1]) /\ commanded'[p + 1] = commanded[p + 1]
          BY <2>3, <5>1 DEF MInv, ChainInv
        <5>3. QED
          BY <4>2, <5>2 DEF Follows
      <4>5. QED
        BY <4>3, <4>4
    <3>2. QED
      BY <2>1, <3>1 DEF ChainInv
  <2>9. SolvedInv'
    BY <2>1, NotSolvedYet DEF SolvedInv, None
  <2>10. QED
    BY <2>5, <2>6, <2>7, <2>8, <2>9 DEF MInv
<1>3. QED
  BY <1>1, <1>2

LEMMA ReadStep ==
    ASSUME MInv, ReadPass
    PROVE  MInv'
<1> DEFINE Pass == [sight : Sights, clear : BOOLEAN]
<1>1. PICK x \in Pass : raw' = Append(raw, x)
  BY DEF ReadPass
<1>2. /\ step = "read" /\ step' = "sync"
      /\ UNCHANGED <<contract, commanded, synced, journal, final>>
  BY DEF ReadPass
<1>3. raw \in Seq(Pass)
  BY DEF MInv, MeterTypeOK
<1>4. raw' \in Seq(Pass) /\ Len(raw') = Len(raw) + 1
  BY <1>1, <1>3, Appended
<1>5. Taken' = Taken + 1 /\ Len(commanded) = Taken + 1 /\ Taken \in Nat /\ Passes \in Nat
  BY <1>2, <1>4, LengthsAreNat DEF MInv, CountInv, Taken
<1>6. MeterTypeOK'
  BY <1>2, <1>4 DEF MInv, MeterTypeOK, Steps
<1>7. CountInv'
  BY <1>2, <1>5 DEF MInv, CountInv
<1>8. DurableInv'
  BY <1>2, <1>5 DEF MInv, DurableInv, MeterTypeOK
<1>9. ChainInv'
  <2>1. ASSUME NEW p \in 1..(Len(commanded) - 1)
        PROVE  Follows(p, commanded[p + 1])'
    <3>1. p \in 1..Len(commanded) /\ p <= Taken
      BY <1>5
    <3>2. Observation(p)' = Observation(p) /\ Before(p)' = Before(p)
      BY <1>1, <1>2, <3>1, ObservationStays DEF MInv
    <3>3. Follows(p, commanded[p + 1])
      BY DEF MInv, ChainInv
    <3>4. QED
      BY <1>2, <3>2, <3>3 DEF Follows
  <2>2. QED
    BY <1>2, <2>1 DEF ChainInv
<1>10. SolvedInv'
  BY <1>2, NotSolvedYet DEF SolvedInv, None
<1>11. QED
  BY <1>6, <1>7, <1>8, <1>9, <1>10 DEF MInv

\* Syncing, journalling and closing the metering leave the evidence alone.
LEMMA FileStep ==
    ASSUME MInv, SyncPass \/ RecordPass \/ StopMetering
    PROVE  MInv'
<1>1. UNCHANGED <<contract, commanded, raw, final>> /\ Taken' = Taken
  BY DEF SyncPass, RecordPass, StopMetering, Taken
<1>2. Taken \in Nat /\ Taken <= Len(commanded) /\ Len(commanded) <= Passes
      /\ Len(commanded) \in Nat /\ Passes \in Nat
  BY LengthsAreNat DEF MInv, CountInv
<1>3. Taken \in 0..Passes
  BY <1>2
<1>4. MeterTypeOK'
  <2>1. CASE SyncPass
    BY <1>1, <1>3, <2>1 DEF MInv, MeterTypeOK, Steps, SyncPass
  <2>2. CASE RecordPass
    BY <1>1, <1>3, <2>2 DEF MInv, MeterTypeOK, Steps, RecordPass
  <2>3. CASE StopMetering
    BY <1>1, <1>3, <2>3 DEF MInv, MeterTypeOK, Steps, StopMetering
  <2>4. QED
    BY <2>1, <2>2, <2>3
<1>5. CountInv'
  BY <1>1 DEF MInv, CountInv, SyncPass, RecordPass, StopMetering
<1>6. DurableInv'
  <2>1. CASE SyncPass
    BY <1>1, <1>2, <2>1 DEF MInv, DurableInv, SyncPass, MeterTypeOK
  <2>2. CASE RecordPass
    BY <1>1, <1>2, <2>2 DEF MInv, DurableInv, RecordPass, MeterTypeOK
  <2>3. CASE StopMetering
    BY <1>1, <1>2, <2>3 DEF MInv, DurableInv, SolvedInv, Solved, StopMetering
  <2>4. QED
    BY <2>1, <2>2, <2>3
<1>7. ChainInv'
  BY <1>1, ChainUntouched DEF MInv, ChainInv, SyncPass, RecordPass, StopMetering
<1>8. SolvedInv'
  BY <1>1, SolutionUntouched
     DEF MInv, SolvedInv, None, SyncPass, RecordPass, StopMetering
<1>9. QED
  BY <1>4, <1>5, <1>6, <1>7, <1>8 DEF MInv

LEMMA ProposeStep ==
    ASSUME MInv, ProposeNext
    PROVE  MInv'
<1>1. CASE step' = "failed"
  BY <1>1, FailStep DEF ProposeNext, Patch
<1>2. CASE step' # "failed"
  <2>1. /\ step = "decide" /\ step' = "window" /\ Taken < Passes
        /\ Accepted(Observation(Taken), Before(Taken))
        /\ contract' = Proposed(Observation(Taken))
        /\ UNCHANGED <<commanded, raw, synced, journal, final>>
    BY <1>2 DEF ProposeNext, Patch
  <2>2. Len(commanded) = Taken /\ Taken > 0 /\ Taken' = Taken
    BY <2>1, NothingSeenAnew DEF MInv, CountInv
  <2>3. Observation(Taken) \in Obs
    BY <2>2, LastIsObs DEF MInv
  <2>4. contract' \in Exposures
    BY <2>1, <2>3, ExposuresAreTyped
  <2>5. MeterTypeOK'
    BY <2>1, <2>4 DEF MInv, MeterTypeOK, Steps
  <2>6. CountInv'
    BY <2>1, <2>2 DEF MInv, CountInv
  <2>7. DurableInv'
    BY <2>1, <2>2 DEF MInv, DurableInv
  <2>8. Follows(Taken, contract)'
    <3>1. Observation(Taken)' = Observation(Taken) /\ Before(Taken)' = Before(Taken)
      BY <2>1, <2>2 DEF Observation, Before
    <3>2. QED
      BY <2>1, <3>1 DEF Follows
  <2>9. ChainInv'
    BY <2>1, <2>8, ChainUntouched DEF MInv, ChainInv
  <2>10. SolvedInv'
    BY <2>1, SolutionUntouched DEF MInv, SolvedInv, None
  <2>11. QED
    BY <2>5, <2>6, <2>7, <2>9, <2>10 DEF MInv
<1>3. QED
  BY <1>1, <1>2

LEMMA SolveStep ==
    ASSUME MInv, SolveFine
    PROVE  MInv'
<1>1. CASE step' = "failed"
  BY <1>1, FailStep DEF SolveFine, Patch
<1>2. CASE step' # "failed"
  <2>1. /\ step = "decide" /\ step' = "stop" /\ Taken = Passes
        /\ Verified(Observation(Taken), Before(Taken))
        /\ final' = FineExposures(Observation(Taken))
        /\ contract' = FineExposures(Observation(Taken))
        /\ UNCHANGED <<commanded, raw, synced, journal>>
    BY <1>2 DEF SolveFine, Patch
  <2>2. Len(commanded) = Taken /\ Taken > 0 /\ Taken' = Taken
    BY <2>1, NothingSeenAnew DEF MInv, CountInv
  <2>3. Observation(Taken) \in Obs
    BY <2>2, LastIsObs DEF MInv
  <2>4. FineExposures(Observation(Taken)) \in Exposures
    BY <2>1, <2>3, ExposuresAreTyped DEF Verified
  <2>5. MeterTypeOK'
    BY <2>1, <2>4 DEF MInv, MeterTypeOK, Steps
  <2>6. CountInv'
    BY <2>1, <2>2 DEF MInv, CountInv
  <2>7. DurableInv'
    BY <2>1, <2>2 DEF MInv, DurableInv
  <2>8. ChainInv'
    BY <2>1, ChainUntouched DEF MInv, ChainInv
  <2>9. SolvedInv'
    <3>1. /\ Taken' = Passes /\ Len(commanded') = Passes
          /\ Observation(Passes)' = Observation(Passes) /\ Before(Passes)' = Before(Passes)
      BY <2>1, <2>2, NothingSeenAnew DEF Passes
    <3>2. Solved'
      BY <2>1, <3>1 DEF Solved
    <3>3. QED
      BY <3>2 DEF SolvedInv
  <2>10. QED
    BY <2>5, <2>6, <2>7, <2>8, <2>9 DEF MInv
<1>3. QED
  BY <1>1, <1>2

LEMMA ArmStep ==
    ASSUME MInv, ArmFine
    PROVE  MInv'
<1>1. /\ step = "arm" /\ step' \in {"armed", "failed"}
      /\ UNCHANGED <<contract, commanded, raw, synced, journal, final>>
  BY DEF ArmFine
<1>2. CASE step' = "failed"
  BY <1>1, <1>2, FailStep
<1>3. CASE step' = "armed"
  <2>1. MeterTypeOK'
    BY <1>1, <1>3 DEF MInv, MeterTypeOK, Steps
  <2>2. CountInv'
    BY <1>1, <1>3 DEF MInv, CountInv, Taken
  <2>3. DurableInv'
    BY <1>1, <1>3 DEF MInv, DurableInv, Taken
  <2>4. ChainInv'
    BY <1>1, <1>3, ChainUntouched DEF MInv, ChainInv
  <2>5. SolvedInv'
    BY <1>1, <1>3, SolutionUntouched DEF MInv, SolvedInv, None
  <2>6. QED
    BY <2>1, <2>2, <2>3, <2>4, <2>5 DEF MInv
<1>4. QED
  BY <1>1, <1>2, <1>3

LEMMA MeterStep ==
    ASSUME MInv, MeterNext
    PROVE  MInv'
<1>1. CASE MeteringFails
  BY <1>1, FailStep DEF MeteringFails
<1>2. QED
  BY <1>1, EchoStep, ReadStep, FileStep, ProposeStep, SolveStep, ArmStep DEF MeterNext

-----------------------------------------------------------------------------
(* The frame.                                                              *)

LEMMA MeterInitially == MeterInit => MInv
<1> SUFFICES ASSUME MeterInit PROVE MInv
  OBVIOUS
<1>1. Len(commanded) = 0 /\ Taken = 0
  BY DEF MeterInit, Taken
<1>2. MeterTypeOK
  BY MeterAssumption DEF MeterInit, MeterTypeOK, Steps, Exposures, Passes
<1>3. CountInv /\ DurableInv
  BY <1>1 DEF MeterInit, CountInv, DurableInv, Passes
<1>4. ChainInv
  BY <1>1 DEF MeterInit, ChainInv
<1>5. SolvedInv
  BY DEF MeterInit, SolvedInv
<1>6. QED
  BY <1>2, <1>3, <1>4, <1>5 DEF MInv

LEMMA MeterStutter ==
    ASSUME MInv, UNCHANGED meterVars
    PROVE  MInv'
<1>1. UNCHANGED <<step, contract, commanded, raw, synced, journal, final>>
  BY DEF meterVars
<1>2. MeterTypeOK' /\ CountInv' /\ DurableInv'
  BY <1>1 DEF MInv, MeterTypeOK, CountInv, DurableInv, Taken
<1>3. ChainInv'
  <2>1. Follows(Taken, contract)' <=> Follows(Taken, contract)
    BY <1>1, NothingSeenAnew DEF Follows, Observation, Before
  <2>2. QED
    BY <1>1, <2>1, ChainUntouched, NothingSeenAnew DEF MInv, ChainInv
<1>4. SolvedInv'
  BY <1>1, SolutionUntouched DEF MInv, SolvedInv, None
<1>5. QED
  BY <1>2, <1>3, <1>4 DEF MInv

LEMMA MeterInductive == FrameSpec => []MInv
<1>1. FrameInit => MInv
  BY MeterInitially DEF FrameInit
<1>2. MInv /\ [FrameNext]_frameVars => MInv'
  <2> SUFFICES ASSUME MInv, [FrameNext]_frameVars PROVE MInv'
    OBVIOUS
  <2>1. CASE Meter
    BY <2>1, MeterStep DEF Meter
  <2>2. CASE UNCHANGED meterVars
    BY <2>2, MeterStutter
  <2>3. QED
    BY <2>1, <2>2 DEF FrameNext, Stream, ProcessDies, frameVars
<1>3. QED
  BY <1>1, <1>2, PTL DEF FrameSpec

\* The frame with its metering is a capture with a sidecar: whatever is metered,
\* the sidecar sees one of its own steps or none.
\* (the stream is opened after the fine windows, worker.py run_live_capture)
THEOREM FrameRunsStream == FrameSpec => Spec
<1>1. FrameInit => Init
  BY DEF FrameInit
<1>2. [FrameNext]_frameVars => [Next]_vars
  BY DEF FrameNext, Meter, Stream, ProcessDies, frameVars, Next, vars
<1>3. QED
  BY <1>1, <1>2, PTL DEF FrameSpec, Spec

\* Every variable of a frame keeps its type.
THEOREM FrameTypeCorrect == FrameSpec => []FrameTypeOK
<1>1. MInv => MeterTypeOK
  BY DEF MInv
<1>2. QED
  BY <1>1, MeterInductive, FrameRunsStream, StreamTypeCorrect, PTL DEF FrameTypeOK

\* The sidecar is as safe within a frame as by itself: the live mapping is not
\* touched, what is committed is whole, and foreign files stay.
\* (FineStreamSession._abandon, _defer_cleanup, finish, _publish_receipt)
THEOREM FrameKeepsSidecarSafe ==
    FrameSpec => []LiveMappingUntouched /\ []CommitIsWhole /\ ForeignSurvives
  BY FrameRunsStream, MappingIsSafe, CommitsAreWhole, ForeignFilesSurvive, PTL

\* The fine scan is armed on complete durable evidence that judged afterwards
\* is accepted, whatever the film shows.
\* (the guard before the fine SET_WINDOW, evaluate_meter_sequence)
THEOREM EvidenceComesFirst == FrameSpec => []ArmedOnEvidence
<1>1. MInv => ArmedOnEvidence
  <2> SUFFICES ASSUME MInv PROVE ArmedOnEvidence
    OBVIOUS
  <2>1. journal.durable <= synced /\ synced <= Taken
    BY DEF MInv, DurableInv
  <2>2. ASSUME step = "armed"
        PROVE  /\ journal = [durable |-> Passes, complete |-> TRUE]
               /\ EvidenceAccepts
               /\ final[Infrared] = Proposed(Observation(Passes))[Infrared]
    <3>1. Solved /\ journal = [durable |-> Passes, complete |-> TRUE]
      BY <2>2 DEF MInv, SolvedInv, DurableInv
    <3>2. Accepted(Observation(Passes), Before(Passes)) /\ Converged(Observation(Passes))
      BY <3>1 DEF Solved, Verified
    <3>3. \A p \in 1..(Passes - 1) : Follows(p, commanded[p + 1])
      BY <3>1 DEF MInv, ChainInv, Solved
    <3>4. \A p \in 1..Passes : p = Passes \/ p \in 1..(Passes - 1)
      BY DEF Passes
    <3>5. EvidenceAccepts
      BY <3>1, <3>2, <3>3, <3>4 DEF EvidenceAccepts, Follows, Solved, Taken
    <3>6. final[Infrared] = Proposed(Observation(Passes))[Infrared]
      BY <3>1, MeterAssumption DEF Solved, FineExposures
    <3>7. QED
      BY <3>1, <3>5, <3>6
  <2>3. QED
    BY <2>1, <2>2 DEF ArmedOnEvidence
<1>2. QED
  BY <1>1, MeterInductive, PTL

\* No pass and no fine scan is exposed beyond the device's bounds, nor beyond
\* what the pass before it predicts to be safe, whatever the film shows.
\* (propose_next_exposures, the guarded parity candidate)
THEOREM NeverOverexposed == FrameSpec => []NothingOverexposed
<1>1. MInv => NothingOverexposed
  <2> SUFFICES ASSUME MInv PROVE NothingOverexposed
    OBVIOUS
  <2>1. ASSUME NEW p \in 2..Len(commanded), NEW c \in Channels
        PROVE  /\ commanded[p][c] \in ExposureMin..ExposureMax
               /\ commanded[p][c] > commanded[p - 1][c]
                     => Predicted(p - 1, c, commanded[p][c], Ceiling)
    <3> DEFINE q == p - 1
    <3>1. Len(commanded) \in Nat /\ Taken \in Nat /\ Len(commanded) <= Taken + 1
      BY LengthsAreNat DEF MInv, CountInv
    <3>2. q \in 1..(Len(commanded) - 1) /\ q \in 1..Len(commanded) /\ q <= Taken
          /\ p = q + 1
      BY <3>1
    <3>3. Follows(q, commanded[q + 1])
      BY <3>2 DEF MInv, ChainInv
    <3>4. Observation(q) \in Obs /\ Observation(q).exposures = commanded[q]
      BY <3>2, ObservationIsObs DEF MInv
    <3> HIDE DEF q
    <3>5. /\ Accepted(Observation(q), Before(q))
          /\ commanded[p] = Proposed(Observation(q))
      BY <3>2, <3>3 DEF Follows
    <3>6. commanded[q][c] \in ExposureMin..ExposureMax
      BY <3>4, <3>5, AcceptedIsSafe
    <3>7. /\ commanded[p][c] \in ExposureMin..ExposureMax
          /\ commanded[p][c] > commanded[q][c] =>
                commanded[p][c] * Peak(Observation(q), c) <= Ceiling * commanded[q][c]
      BY <3>4, <3>5, <3>6, ProposalIsSafe
    <3>8. QED
      BY <3>7 DEF Predicted, q
  <2>2. ASSUME final # None, NEW c \in Channels
        PROVE  /\ final[c] \in ExposureMin..ExposureMax
               /\ c # Infrared =>
                     \/ Predicted(Passes, c, final[c], ReviewedHigh)
                     \/ final[c] = ExposureMin
               /\ c = Infrared /\ final[c] > commanded[Passes][c]
                     => Predicted(Passes, c, final[c], Ceiling)
    <3> DEFINE o == Observation(Passes)
    <3>1. Solved
      BY <2>2 DEF MInv, SolvedInv
    <3>2. Passes \in 1..Len(commanded) /\ Passes <= Taken
      BY <3>1 DEF Solved, Passes
    <3>3. o \in Obs /\ o.exposures = commanded[Passes]
      BY <3>2, ObservationIsObs DEF MInv
    <3>4. Accepted(o, Before(Passes)) /\ final = FineExposures(o)
      BY <3>1 DEF Solved, Verified
    <3>5. final[c] = IF c = Infrared THEN Proposed(o)[c] ELSE Guarded(o, c)
      BY <3>4 DEF FineExposures
    <3> HIDE DEF o
    <3>6. /\ o.exposures[c] \in ExposureMin..ExposureMax
          /\ Core(o, c) \in Nat \ {0} /\ Peak(o, c) \in Nat \ {0}
      BY <3>3, <3>4, AcceptedIsSafe
    <3>7. CASE c = Infrared
      BY <3>3, <3>5, <3>6, <3>7, ProposalIsSafe DEF Predicted, o
    <3>8. CASE c # Infrared
      BY <3>3, <3>5, <3>6, <3>8, GuardedIsSafe DEF Predicted, o
    <3>9. QED
      BY <3>7, <3>8
  <2>3. QED
    BY <2>1, <2>2 DEF NothingOverexposed
<1>2. QED
  BY <1>1, MeterInductive, PTL
=============================================================================
