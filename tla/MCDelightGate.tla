--------------------------- MODULE MCDelightGate ---------------------------
(* A small gate for TLC, watched for how long it has accepted nothing.  The  *)
(* proportions are those of the default gate: the window holds several       *)
(* periods, the floor is half of one per period.                             *)
EXTENDS DelightGate

VARIABLE
  dry   \* auxiliary: scores since one was accepted, up to RelaxAfter + 1

StarvingInit == GateInit /\ dry = 0

\* Whatever is accepted, by its score or by feedback, ends a dry spell.
StarvingNext ==
  /\ total_count < MaxScores
  /\ \E delight \in Delights :
       \/ /\ should_buffer(delight)
          /\ dry' = IF delight > threshold THEN 0
                   ELSE IF dry > RelaxAfter THEN dry ELSE dry + 1
       \/ force_accept(delight) /\ dry' = 0

StarvingSpec == StarvingInit /\ [][StarvingNext]_<<gateVars, dry>>

\* A threshold that is taken after nothing was accepted for longer than
\* RelaxAfter is no higher than the one of the relaxed rate, as the comment in
\* recompute_threshold has it ("Buffer has been empty too long - relax toward
\* max_rate").
StarvedGateRelaxes ==
  [][total_count' = 0 /\ dry' > RelaxAfter =>
       threshold' <= Ranked(recent_scores',
                            TargetIndex(TargetRate + MaxRate, Len(recent_scores')))
    ]_<<gateVars, dry>>
=============================================================================
