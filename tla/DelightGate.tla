---------------------------- MODULE DelightGate ----------------------------
(* The adaptive gate in front of the training buffer (starbridge-core,       *)
(* delight.rs): a rolling window of delight scores, a threshold taken from   *)
(* it once per period, and the two counters of the period.  Delights are     *)
(* levels 0..MaxDelight, rates are counts per RateUnit.                      *)
EXTENDS Naturals, Sequences, FiniteSets

CONSTANTS
  MaxDelight,   \* the highest level a score can have
  WindowSize,   \* scores the window keeps (500)
  Period,       \* scores between two thresholds (50)
  MinWindow,    \* scores a threshold needs (20)
  RelaxAfter,   \* scores before an empty period relaxes the gate (100)
  RateUnit,     \* rates below are per RateUnit (1000)
  TargetRate,   \* target_rate (30)
  MinRate,      \* min_rate, the floor (10)
  MaxRate,      \* max_rate, the ceiling (100)
  MaxScores     \* bound: scores of one period that TLC explores

\* The sizes of DelightGate::default() satisfy all of these; the last line asks
\* that the floor be low against the period, as 0.01 is against 1/50.
ASSUME GateAssumption ==
  /\ MaxDelight \in Nat /\ MaxScores \in Nat
  /\ TargetRate \in Nat /\ MinRate \in Nat /\ MaxRate \in Nat
  /\ WindowSize \in Nat \ {0} /\ Period \in Nat \ {0} /\ MinWindow \in Nat \ {0}
  /\ RelaxAfter \in Nat \ {0} /\ RateUnit \in Nat \ {0}
  /\ MinWindow <= Period /\ MinWindow <= WindowSize
  /\ 2 * Period <= RelaxAfter
  /\ MinRate <= TargetRate /\ TargetRate <= MaxRate /\ MaxRate <= RateUnit
  /\ 3 * (MinRate * Period) <= 2 * RateUnit

VARIABLES
  recent_scores,   \* the window, oldest first
  threshold,       \* scores above it pass
  accepted_count,  \* accepted since the threshold was last computed
  total_count      \* seen since the threshold was last computed

gateVars == <<recent_scores, threshold, accepted_count, total_count>>

Delights == 0..MaxDelight

GateInit ==
  /\ recent_scores = <<>>
  /\ threshold = 0
  /\ accepted_count = 0
  /\ total_count = 0

\* The window after one more score: a full one loses its oldest.
Recorded(delight) ==
  IF Len(recent_scores) >= WindowSize
  THEN Append(Tail(recent_scores), delight)
  ELSE Append(recent_scores, delight)

\* Positions of a window whose score is above a level.
Above(window, level) == {i \in DOMAIN window : window[i] > level}

\* sorted[index] of the window sorted in descending order.
Ranked(window, index) ==
  CHOOSE level \in Delights :
    /\ \E i \in DOMAIN window : window[i] = level
    /\ Cardinality(Above(window, level)) <= index
    /\ Cardinality({i \in DOMAIN window : window[i] >= level}) > index

TooFew(accepted, total) == accepted * RateUnit < MinRate * total

TooMany(accepted, total) == accepted * RateUnit > MaxRate * total

\* Twice the effective rate, to stay with whole numbers.
TwiceEffectiveRate(accepted, total) ==
  CASE TooFew(accepted, total) /\ total > RelaxAfter -> TargetRate + MaxRate
    [] TooMany(accepted, total) -> TargetRate + MinRate
    [] OTHER -> 2 * TargetRate

\* Slip: rounds the index up, as a gate that wants at least its rate would.
TargetIndexAbove(rate2, length) ==
  LET index == (rate2 * length + 2 * RateUnit) \div (2 * RateUnit)
  IN  IF index < length - 1 THEN index ELSE length - 1

\* target_index: rounded down, and no further than the last score.
TargetIndex(rate2, length) ==
  LET index == (rate2 * length) \div (2 * RateUnit)
  IN  IF index < length - 1 THEN index ELSE length - 1

recompute_threshold(window, accepted, total) ==
  /\ threshold' = Ranked(window, TargetIndex(TwiceEffectiveRate(accepted, total),
                                             Len(window)))
  /\ accepted_count' = 0
  /\ total_count' = 0

\* A score is judged by the old threshold and counts for the next one.
should_buffer(delight) ==
  LET window == Recorded(delight)
      total == total_count + 1
      accepted == accepted_count + (IF delight > threshold THEN 1 ELSE 0)
  IN /\ recent_scores' = window
     /\ IF total % Period = 0 /\ Len(window) >= MinWindow
        THEN recompute_threshold(window, accepted, total)
        ELSE /\ total_count' = total
             /\ accepted_count' = accepted
             /\ UNCHANGED threshold

\* Operator feedback: accepted whatever the threshold, and never the occasion
\* of a new one, so that a period may be longer than Period.
force_accept(delight) ==
  /\ recent_scores' = Recorded(delight)
  /\ total_count' = total_count + 1
  /\ accepted_count' = accepted_count + 1
  /\ UNCHANGED threshold

GateNext ==
  /\ total_count < MaxScores
  /\ \E delight \in Delights : should_buffer(delight) \/ force_accept(delight)

GateSpec == GateInit /\ [][GateNext]_gateVars
-----------------------------------------------------------------------------
(* Properties.                                                             *)

\* The window is never longer than its size, the threshold is a level, and no
\* more is accepted than seen.
GateTypeOK ==
  /\ recent_scores \in Seq(Delights)
  /\ Len(recent_scores) <= WindowSize
  /\ threshold \in Delights
  /\ total_count \in Nat
  /\ accepted_count \in 0..total_count

\* The next score, if it is due for a threshold, completes the period.
PeriodEnds == (total_count + 1) % Period = 0

\* The condition under which recompute_threshold relaxes a starved gate is never
\* met, which is why StarvedGateRelaxes of MCDelightGate fails.  The counters are
\* reset with every threshold, so when one is due either no more than RelaxAfter
\* scores were counted or enough of them were accepted.  A period only grows past
\* Period through feedback at its end, and each of those counts as accepted.
FloorNeverBinds ==
  PeriodEnds /\ total_count + 1 > RelaxAfter =>
    ~TooFew(accepted_count, total_count + 1)

\* Whatever the period brought, a new threshold would let through at most the
\* ceiling of the scores it was computed from.
CeilingHolds ==
  [][total_count' = 0 =>
       Cardinality(Above(recent_scores', threshold')) * RateUnit
         <= MaxRate * Len(recent_scores')]_gateVars
=============================================================================
