------------------------- MODULE MCScheduleDispatch -------------------------
(* Small instances of ScheduleDispatch for TLC. *)
EXTENDS ScheduleDispatch, TLC

CONSTANTS cloud, local

\* Every pass works for the cloud control plane.
OnePlane == [c \in Passes |-> cloud]

\* The claims run: every schedule is served all the time.
AllServed == {ScheduleIds}

\* The liveness run: manifests come and go.
AnyServed == SUBSET ScheduleIds

\* Passes of one plane are interchangeable, job ids always are.
JobSymmetry == Permutations(JobIds)
Symmetry == JobSymmetry \cup Permutations(Passes)
=============================================================================
