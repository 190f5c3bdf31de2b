------------------------- MODULE DelightGateProofs -------------------------
(* For every size of window and period and for all rates in the proportions  *)
(* of GateAssumption: the relaxing branch is never taken, and the threshold   *)
(* is a score of the window that lets through no more than the ceiling.       *)
EXTENDS DelightGate, FiniteSetTheorems, WellFoundedInduction, TLAPS

\* Every full period of scores behind the last threshold was completed by a
\* score that did not compute one: a forced, hence accepted, score.  And no
\* score is missing from a window that is not full.
PeriodsAreForced ==
  \A k \in Nat : k * Period <= total_count => k <= accepted_count

WindowCatchesUp ==
  Len(recent_scores) >= total_count \/ Len(recent_scores) >= WindowSize

FloorInv ==
  /\ recent_scores \in Seq(Delights)
  /\ total_count \in Nat
  /\ accepted_count \in Nat
  /\ PeriodsAreForced
  /\ WindowCatchesUp

\* A multiple is a number of periods.
LEMMA Multiple ==
  ASSUME NEW n \in Nat, NEW p \in Nat \ {0}, n % p = 0
  PROVE  \E k \in Nat : n = k * p
<1>1. n = (p * (n \div p)) + (n % p) /\ n \div p \in Nat
  OBVIOUS
<1>2. n = (n \div p) * p
  BY <1>1
<1> QED  BY <1>1, <1>2

LEMMA PeriodsCounted ==
  ASSUME total_count \in Nat, PeriodEnds
  PROVE  \E k \in Nat : total_count + 1 = k * Period
<1> DEFINE n == total_count + 1
<1>1. n \in Nat /\ Period \in Nat \ {0} /\ n % Period = 0
  BY GateAssumption DEF PeriodEnds
<1> HIDE DEF n
<1>2. \E k \in Nat : n = k * Period
  BY <1>1, Multiple, Zenon
<1> QED  BY <1>2 DEF n

LEMMA RecordedWindow ==
  ASSUME NEW delight \in Delights, recent_scores \in Seq(Delights)
  PROVE  /\ Recorded(delight) \in Seq(Delights)
         /\ \/ Len(Recorded(delight)) = Len(recent_scores) + 1
            \/ /\ Len(Recorded(delight)) = Len(recent_scores)
               /\ Len(recent_scores) >= WindowSize
  BY GateAssumption DEF Recorded

\* The window after a score still holds all scores since the last threshold,
\* or is full.
LEMMA WindowKeepsUp ==
  ASSUME FloorInv, NEW delight \in Delights
  PROVE  \/ Len(Recorded(delight)) >= total_count + 1
         \/ Len(Recorded(delight)) >= WindowSize
  BY RecordedWindow, GateAssumption DEF FloorInv, WindowCatchesUp

\* A score that completes a period finds a window large enough for a threshold.
LEMMA WindowSuffices ==
  ASSUME FloorInv, NEW delight \in Delights, PeriodEnds
  PROVE  Len(Recorded(delight)) >= MinWindow
<1>1. PICK k \in Nat : total_count + 1 = k * Period
  BY PeriodsCounted DEF FloorInv
<1>2. k >= 1
  BY <1>1, GateAssumption DEF FloorInv
<1>3. k * Period >= Period
  BY <1>2, GateAssumption
<1>4. Len(Recorded(delight)) \in Nat
  BY RecordedWindow DEF FloorInv
<1> QED  BY <1>1, <1>3, <1>4, WindowKeepsUp, GateAssumption DEF FloorInv

LEMMA InitFloor == GateInit => FloorInv
<1> SUFFICES ASSUME GateInit PROVE FloorInv
  OBVIOUS
<1>1. \A k \in Nat : k * Period <= 0 => k <= 0
  BY GateAssumption
<1> QED  BY <1>1 DEF GateInit, FloorInv, PeriodsAreForced, WindowCatchesUp

LEMMA FilterFloor ==
  ASSUME FloorInv, NEW delight \in Delights, should_buffer(delight)
  PROVE  FloorInv'
<1> DEFINE window == Recorded(delight)
           accepted == accepted_count + (IF delight > threshold THEN 1 ELSE 0)
<1>1. recent_scores' = window /\ window \in Seq(Delights)
  BY RecordedWindow DEF should_buffer, FloorInv
<1>2. accepted \in Nat /\ accepted >= accepted_count
  BY DEF FloorInv
<1>3. CASE PeriodEnds
  <2>1. total_count' = 0 /\ accepted_count' = 0
    BY <1>3, WindowSuffices DEF should_buffer, PeriodEnds, recompute_threshold
  <2>2. \A k \in Nat : k * Period <= 0 => k <= 0
    BY GateAssumption
  <2>3. Len(window) \in Nat
    BY <1>1
  <2> HIDE DEF window
  <2> QED  BY <1>1, <2>1, <2>2, <2>3 DEF FloorInv, PeriodsAreForced, WindowCatchesUp
<1>4. CASE ~PeriodEnds
  <2>1. total_count' = total_count + 1 /\ accepted_count' = accepted
    BY <1>4 DEF should_buffer, PeriodEnds
  <2>2. ASSUME NEW k \in Nat, k * Period <= total_count + 1
        PROVE  k <= accepted
    <3>1. k * Period \in Nat
      BY GateAssumption
    <3>2. CASE k * Period = total_count + 1
      <4>1. (k * Period) % Period = 0
        BY GateAssumption
      <4> QED  BY <1>4, <3>2, <4>1 DEF PeriodEnds
    <3>3. CASE k * Period <= total_count
      BY <3>3, <1>2 DEF FloorInv, PeriodsAreForced
    <3> QED  BY <2>2, <3>1, <3>2, <3>3 DEF FloorInv
  <2>3. Len(window) >= total_count + 1 \/ Len(window) >= WindowSize
    BY WindowKeepsUp
  <2> HIDE DEF window, accepted
  <2> QED  BY <1>1, <1>2, <2>1, <2>2, <2>3
           DEF FloorInv, PeriodsAreForced, WindowCatchesUp
<1> QED  BY <1>3, <1>4

LEMMA ForcedFloor ==
  ASSUME FloorInv, NEW delight \in Delights, force_accept(delight)
  PROVE  FloorInv'
<1>1. recent_scores' = Recorded(delight) /\ Recorded(delight) \in Seq(Delights)
  BY RecordedWindow DEF force_accept, FloorInv
<1>2. total_count' = total_count + 1 /\ accepted_count' = accepted_count + 1
  BY DEF force_accept
<1>3. ASSUME NEW k \in Nat, k * Period <= total_count + 1
      PROVE  k <= accepted_count + 1
  <2>1. CASE k = 0
    BY <2>1 DEF FloorInv
  <2>2. CASE k # 0
    <3>1. k - 1 \in Nat /\ (k - 1) * Period = k * Period - Period
      BY <2>2, GateAssumption
    <3>2. (k - 1) * Period <= total_count
      BY <1>3, <3>1, GateAssumption DEF FloorInv
    <3> QED  BY <3>1, <3>2 DEF FloorInv, PeriodsAreForced
  <2> QED  BY <2>1, <2>2
<1> QED  BY <1>1, <1>2, <1>3, WindowKeepsUp
         DEF FloorInv, PeriodsAreForced, WindowCatchesUp

LEMMA NextFloor == FloorInv /\ [GateNext]_gateVars => FloorInv'
<1> SUFFICES ASSUME FloorInv, [GateNext]_gateVars PROVE FloorInv'
  OBVIOUS
<1>1. ASSUME NEW delight \in Delights, should_buffer(delight) PROVE FloorInv'
  BY <1>1, FilterFloor
<1>2. ASSUME NEW delight \in Delights, force_accept(delight) PROVE FloorInv'
  BY <1>2, ForcedFloor
<1>3. CASE UNCHANGED gateVars
  BY <1>3 DEF gateVars, FloorInv, PeriodsAreForced, WindowCatchesUp
<1> QED  BY <1>1, <1>2, <1>3 DEF GateNext

\* A period longer than RelaxAfter spans at least three periods, and all but the
\* last were completed by accepted scores: two in three, against a floor of at
\* most two thirds of one per period.
LEMMA FloorFollows == FloorInv => FloorNeverBinds
<1> SUFFICES ASSUME FloorInv, PeriodEnds, total_count + 1 > RelaxAfter
             PROVE  ~TooFew(accepted_count, total_count + 1)
  BY DEF FloorNeverBinds
<1>1. PICK k \in Nat : total_count + 1 = k * Period
  BY PeriodsCounted DEF FloorInv
<1>2. k >= 3
  <2>1. k * Period > 2 * Period
    BY <1>1, GateAssumption DEF FloorInv
  <2>2. CASE k <= 2
    <3>1. k * Period <= 2 * Period
      BY <2>2, GateAssumption
    <3> QED  BY <2>1, <3>1, GateAssumption
  <2> QED  BY <2>2
<1>3. k - 1 <= accepted_count
  <2>1. k - 1 \in Nat /\ (k - 1) * Period = k * Period - Period
    BY <1>2, GateAssumption
  <2>2. (k - 1) * Period <= total_count
    BY <1>1, <2>1, GateAssumption DEF FloorInv
  <2> QED  BY <2>1, <2>2 DEF FloorInv, PeriodsAreForced
<1> DEFINE x == MinRate * Period
<1>4. x \in Nat /\ RateUnit \in Nat /\ 3 * x <= 2 * RateUnit
  BY GateAssumption
<1>5. k * x <= (k - 1) * RateUnit
  <2>1. PICK j \in Nat : k = j + 3
    BY <1>2
  <2>2. x <= RateUnit
    BY <1>4
  <2>3. j * x <= j * RateUnit
    BY <2>2, <1>4
  <2>4. k * x = j * x + 3 * x /\ (k - 1) * RateUnit = j * RateUnit + 2 * RateUnit
    BY <2>1, <1>4
  <2>5. j * x \in Nat /\ j * RateUnit \in Nat
    BY <1>4
  <2> HIDE DEF x
  <2> QED  BY <2>3, <2>4, <2>5, <1>4
<1>6. (k - 1) * RateUnit <= accepted_count * RateUnit
  BY <1>2, <1>3, <1>4 DEF FloorInv
<1>7. MinRate * (total_count + 1) = k * x
  BY <1>1, GateAssumption
<1>8. MinRate * (total_count + 1) <= accepted_count * RateUnit
  <2>1. k * x \in Nat /\ (k - 1) * RateUnit \in Nat /\ accepted_count * RateUnit \in Nat
    BY <1>2, <1>4 DEF FloorInv
  <2> HIDE DEF x
  <2> QED  BY <1>5, <1>6, <1>7, <2>1
<1>9. MinRate * (total_count + 1) \in Nat /\ accepted_count * RateUnit \in Nat
  BY GateAssumption DEF FloorInv
<1> QED  BY <1>8, <1>9 DEF TooFew

\* FloorNeverBinds, of every history of the gate: the relaxing branch of
\* recompute_threshold is dead code for the rates the default gate has.
THEOREM FloorHolds == GateSpec => []FloorNeverBinds
<1>1. GateInit => FloorInv
  BY InitFloor
<1>2. FloorInv /\ [GateNext]_gateVars => FloorInv'
  BY NextFloor
<1>3. FloorInv => FloorNeverBinds
  BY FloorFollows
<1> QED  BY <1>1, <1>2, <1>3, PTL DEF GateSpec
-----------------------------------------------------------------------------
(* The threshold.                                                          *)

LEMMA Least ==
  ASSUME NEW T, T \subseteq Nat, T # {}
  PROVE  \E x \in T : \A y \in T : x <= y
<1>1. IsWellFoundedOn(OpToRel(<, Nat), Nat)
  BY NatLessThanWellFounded
<1>2. PICK x \in T : \A y \in T : ~ (<<y, x>> \in OpToRel(<, Nat))
  BY <1>1, WFMin, Zenon
<1>3. \A y \in T : ~ (y < x)
  BY <1>2 DEF OpToRel
<1> QED  BY <1>3

\* Positions of a window are finitely many, however they are selected.
LEMMA PositionsFinite ==
  ASSUME NEW window \in Seq(Delights), NEW S \in SUBSET (DOMAIN window)
  PROVE  /\ Cardinality(S) \in Nat
         /\ Cardinality(DOMAIN window) = Len(window)
<1>1. DOMAIN window = 1..Len(window) /\ Len(window) \in Nat
  OBVIOUS
<1>2. IsFiniteSet(DOMAIN window) /\ Cardinality(DOMAIN window) = Len(window)
  <2>1. /\ IsFiniteSet(1..Len(window))
        /\ Cardinality(1..Len(window))
             = IF 1 > Len(window) THEN 0 ELSE Len(window) - 1 + 1
    BY <1>1, FS_Interval
  <2> QED  BY <1>1, <2>1
<1>3. IsFiniteSet(S)
  BY <1>2, FS_Subset
<1> QED  BY <1>2, <1>3, FS_CardinalityType

\* Every rank of a window is held by one of its scores: the least level with no
\* more than index scores above it.
LEMMA RankedExists ==
  ASSUME NEW window \in Seq(Delights), NEW index \in Nat, index < Len(window)
  PROVE  /\ Ranked(window, index) \in Delights
         /\ Cardinality(Above(window, Ranked(window, index))) <= index
<1> DEFINE AtLeast(level) == {i \in DOMAIN window : window[i] >= level}
           T == {level \in Delights : Cardinality(Above(window, level)) <= index}
<1>1. \A i \in DOMAIN window : window[i] \in Delights
  OBVIOUS
<1>2. MaxDelight \in T
  <2>1. Above(window, MaxDelight) = {}
    BY <1>1, GateAssumption DEF Above, Delights
  <2> QED  BY <2>1, FS_EmptySet, GateAssumption DEF Delights
<1>3. PICK level \in T : \A y \in T : level <= y
  <2>1. T \subseteq Nat /\ T # {}
    BY <1>2, GateAssumption DEF Delights
  <2> HIDE DEF T
  <2> QED  BY <2>1, Least
<1>4. Cardinality(AtLeast(level)) > index
  <2>1. CASE level = 0
    <3>1. AtLeast(level) = DOMAIN window
      <4>1. \A i \in DOMAIN window : window[i] >= level
        BY <1>1, <2>1 DEF Delights
      <4> QED  BY <4>1
    <3>2. Cardinality(DOMAIN window) = Len(window)
      BY PositionsFinite
    <3> QED  BY <3>1, <3>2
  <2>2. CASE level # 0
    <3>1. level - 1 \in Delights /\ ~ (level <= level - 1)
      BY <2>2, GateAssumption DEF Delights
    <3>2. ~ (Cardinality(Above(window, level - 1)) <= index)
      BY <3>1, <1>3
    <3>3. Above(window, level - 1) = AtLeast(level)
      BY <1>1, <3>1, GateAssumption DEF Above, Delights
    <3>4. Cardinality(AtLeast(level)) \in Nat
      <4>1. \A S \in SUBSET (DOMAIN window) : Cardinality(S) \in Nat
        BY PositionsFinite
      <4>2. AtLeast(level) \in SUBSET (DOMAIN window)
        OBVIOUS
      <4> HIDE DEF AtLeast
      <4> QED  BY <4>1, <4>2, Zenon
    <3> HIDE DEF AtLeast
    <3> QED  BY <3>2, <3>3, <3>4
  <2> QED  BY <2>1, <2>2
<1>5. \E i \in DOMAIN window : window[i] = level
  <2>1. SUFFICES ASSUME \A i \in DOMAIN window : window[i] # level PROVE FALSE
    OBVIOUS
  <2>2. AtLeast(level) = Above(window, level)
    BY <1>1, <2>1, GateAssumption DEF Above, Delights
  <2>3. Cardinality(Above(window, level)) \in Nat
    BY PositionsFinite DEF Above
  <2>4. Cardinality(Above(window, level)) <= index
    BY <1>3
  <2> HIDE DEF AtLeast, T
  <2> QED  BY <1>4, <2>2, <2>3, <2>4
<1>6. \E l \in Delights :
        /\ \E i \in DOMAIN window : window[i] = l
        /\ Cardinality(Above(window, l)) <= index
        /\ Cardinality({i \in DOMAIN window : window[i] >= l}) > index
  BY <1>3, <1>4, <1>5
<1> QED  BY <1>6 DEF Ranked

\* target_index is a position of the window, and at most the ceiling's share.
LEMMA IndexBounded ==
  ASSUME NEW accepted, NEW total, NEW length \in Nat \ {0}
  PROVE  LET index == TargetIndex(TwiceEffectiveRate(accepted, total), length)
         IN  /\ index \in Nat
             /\ index < length
             /\ index * RateUnit <= MaxRate * length
<1> DEFINE rate2 == TwiceEffectiveRate(accepted, total)
           q == (rate2 * length) \div (2 * RateUnit)
           index == TargetIndex(rate2, length)
<1>1. rate2 \in Nat /\ rate2 <= 2 * MaxRate
  <2>1. rate2 \in {TargetRate + MaxRate, TargetRate + MinRate, 2 * TargetRate}
    BY DEF TwiceEffectiveRate
  <2> HIDE DEF rate2
  <2> QED  BY <2>1, GateAssumption
<1> HIDE DEF rate2
<1>2. rate2 * length \in Nat /\ 2 * RateUnit \in Nat \ {0}
  BY <1>1, GateAssumption
<1>3. q \in Nat /\ q * (2 * RateUnit) <= rate2 * length
  <2>1. ASSUME NEW a \in Nat, NEW b \in Nat \ {0}
        PROVE  a \div b \in Nat /\ (a \div b) * b <= a
    OBVIOUS
  <2> QED  BY <1>2, <2>1
<1> HIDE DEF q
<1>4. index \in Nat /\ index < length /\ index <= q
  BY <1>3 DEF TargetIndex, q
<1> HIDE DEF index
<1>5. index * (2 * RateUnit) <= q * (2 * RateUnit)
  BY <1>2, <1>3, <1>4
<1>6. rate2 * length <= (2 * MaxRate) * length
  BY <1>1, GateAssumption
<1>7. index * (2 * RateUnit) = 2 * (index * RateUnit)
  BY <1>4, GateAssumption
<1>8. (2 * MaxRate) * length = 2 * (MaxRate * length)
  BY GateAssumption
<1>9. index * RateUnit \in Nat /\ MaxRate * length \in Nat
  BY <1>4, GateAssumption
<1>10. q * (2 * RateUnit) \in Nat
  BY <1>2, <1>3
<1>11. index * RateUnit <= MaxRate * length
  BY <1>2, <1>3, <1>5, <1>6, <1>7, <1>8, <1>9, <1>10
<1> QED  BY <1>4, <1>11 DEF index, rate2

GateInv == FloorInv /\ GateTypeOK

LEMMA RecordedBounded ==
  ASSUME recent_scores \in Seq(Delights), Len(recent_scores) <= WindowSize,
         NEW delight \in Delights
  PROVE  Len(Recorded(delight)) <= WindowSize
  BY GateAssumption DEF Recorded

\* A threshold that is computed is a level and keeps to the ceiling.
LEMMA ThresholdComputed ==
  ASSUME NEW window \in Seq(Delights), Len(window) >= MinWindow,
         NEW accepted, NEW total, recompute_threshold(window, accepted, total)
  PROVE  /\ threshold' \in Delights
         /\ Cardinality(Above(window, threshold')) * RateUnit
              <= MaxRate * Len(window)
<1> DEFINE index == TargetIndex(TwiceEffectiveRate(accepted, total), Len(window))
<1>1. Len(window) \in Nat \ {0}
  BY GateAssumption
<1>2. index \in Nat /\ index < Len(window) /\ index * RateUnit <= MaxRate * Len(window)
  BY <1>1, IndexBounded
<1> HIDE DEF index
<1>3. threshold' = Ranked(window, index)
  BY DEF recompute_threshold, index
<1>4. /\ threshold' \in Delights
      /\ Cardinality(Above(window, threshold')) <= index
  BY <1>2, <1>3, RankedExists
<1>5. Cardinality(Above(window, threshold')) \in Nat
  BY PositionsFinite DEF Above
<1>6. Cardinality(Above(window, threshold')) * RateUnit <= index * RateUnit
  BY <1>2, <1>4, <1>5, GateAssumption
<1>7. /\ Cardinality(Above(window, threshold')) * RateUnit \in Nat
      /\ index * RateUnit \in Nat
      /\ MaxRate * Len(window) \in Nat
  BY <1>1, <1>2, <1>5, GateAssumption
<1> QED  BY <1>2, <1>4, <1>6, <1>7

LEMMA GateInvInit == GateInit => GateInv
  BY InitFloor, GateAssumption DEF GateInit, GateInv, GateTypeOK, Delights

\* A score either ends a period with a new threshold or is only counted.
LEMMA FilterGate ==
  ASSUME GateInv, NEW delight \in Delights, should_buffer(delight)
  PROVE  /\ GateInv'
         /\ total_count' = 0 =>
              Cardinality(Above(recent_scores', threshold')) * RateUnit
                <= MaxRate * Len(recent_scores')
<1> DEFINE window == Recorded(delight)
           accepted == accepted_count + (IF delight > threshold THEN 1 ELSE 0)
<1>1. /\ recent_scores' = window /\ window \in Seq(Delights)
      /\ Len(window) <= WindowSize
  BY RecordedWindow, RecordedBounded DEF should_buffer, GateInv, GateTypeOK
<1>2. FloorInv'
  BY FilterFloor DEF GateInv
<1>3. accepted \in 0..(total_count + 1)
  BY DEF GateInv, GateTypeOK
<1>4. CASE PeriodEnds
  <2>1. recompute_threshold(window, accepted, total_count + 1)
    BY <1>4, WindowSuffices DEF should_buffer, PeriodEnds, GateInv
  <2>2. Len(window) >= MinWindow
    BY <1>4, WindowSuffices DEF GateInv
  <2> HIDE DEF window, accepted
  <2>3. /\ threshold' \in Delights
        /\ Cardinality(Above(window, threshold')) * RateUnit <= MaxRate * Len(window)
    BY <1>1, <2>1, <2>2, ThresholdComputed
  <2>4. total_count' = 0 /\ accepted_count' = 0
    BY <2>1 DEF recompute_threshold
  <2> QED  BY <1>1, <1>2, <2>3, <2>4 DEF GateInv, GateTypeOK
<1>5. CASE ~PeriodEnds
  <2>1. /\ total_count' = total_count + 1 /\ accepted_count' = accepted
        /\ threshold' = threshold
    BY <1>5 DEF should_buffer, PeriodEnds
  <2> HIDE DEF window, accepted
  <2>2. GateTypeOK'
    BY <1>1, <1>3, <2>1 DEF GateInv, GateTypeOK
  <2>3. total_count' # 0
    BY <2>1 DEF GateInv, GateTypeOK
  <2> QED  BY <1>2, <2>2, <2>3 DEF GateInv
<1> QED  BY <1>4, <1>5

LEMMA ForcedGate ==
  ASSUME GateInv, NEW delight \in Delights, force_accept(delight)
  PROVE  GateInv' /\ total_count' # 0
<1>1. FloorInv'
  BY ForcedFloor DEF GateInv
<1>2. /\ recent_scores' = Recorded(delight) /\ Recorded(delight) \in Seq(Delights)
      /\ Len(Recorded(delight)) <= WindowSize
  BY RecordedWindow, RecordedBounded DEF force_accept, GateInv, GateTypeOK
<1>3. GateTypeOK' /\ total_count' # 0
  BY <1>2 DEF force_accept, GateInv, GateTypeOK
<1> QED  BY <1>1, <1>3 DEF GateInv

LEMMA GateInvNext ==
  ASSUME GateInv, [GateNext]_gateVars
  PROVE  /\ GateInv'
         /\ \/ UNCHANGED gateVars
            \/ total_count' = 0 =>
                 Cardinality(Above(recent_scores', threshold')) * RateUnit
                   <= MaxRate * Len(recent_scores')
<1>1. ASSUME UNCHANGED gateVars PROVE GateInv'
  BY <1>1 DEF gateVars, GateInv, GateTypeOK, FloorInv, PeriodsAreForced, WindowCatchesUp
<1> QED  BY <1>1, FilterGate, ForcedGate DEF GateNext

\* GateTypeOK: in particular the window never exceeds its size, and every rank that
\* a rate asks for is held by a score of the window.
THEOREM GateTypeCorrect == GateSpec => []GateTypeOK
<1>1. GateInit => GateInv
  BY GateInvInit
<1>2. GateInv /\ [GateNext]_gateVars => GateInv'
  BY GateInvNext
<1>3. GateInv => GateTypeOK
  BY DEF GateInv
<1> QED  BY <1>1, <1>2, <1>3, PTL DEF GateSpec

\* CeilingHolds: no threshold would let more than the ceiling of its window
\* through, whatever rate the period asked for and however the scores tie.
THEOREM CeilingKept == GateSpec => CeilingHolds
<1>1. GateInit => GateInv
  BY GateInvInit
<1>2. GateInv /\ [GateNext]_gateVars => GateInv'
  BY GateInvNext
<1>3. GateInv /\ [GateNext]_gateVars =>
        [total_count' = 0 =>
           Cardinality(Above(recent_scores', threshold')) * RateUnit
             <= MaxRate * Len(recent_scores')]_gateVars
  BY GateInvNext
<1> QED  BY <1>1, <1>2, <1>3, PTL DEF GateSpec, CeilingHolds
=============================================================================
