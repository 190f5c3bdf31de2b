-------------------------- MODULE MCWorkflowStore --------------------------
(* Small instances of WorkflowStore for TLC. *)
EXTENDS WorkflowStore, TLC

\* Ids that only appear in equality tests are interchangeable.
Symmetry == Permutations(RunIds) \cup Permutations(ApprovalIds)
              \cup Permutations(Runners) \cup Permutations(TaskIds)
=============================================================================
