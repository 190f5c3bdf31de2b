SPECIFICATION Spec
CONSTANTS
  AgentIds = {a1}
  ThreadIds = {t1}
  EventIds = {e1}
  RunIds = {r1, r2}
  StepIds = {s1}
  ApprovalIds = {p1, p2}
  TaskIds = {k1}
  Owners = {o1}
  Runners = {w1, w2}
  Stages = {"route", "gather", "act", "verify", "learn"}
  ClientStages = {"learn"}
  NONE = NONE
SYMMETRY Symmetry
INVARIANTS
  TypeOK StepWaitsAreAnswerable CompletionStamp RunWaitsAreAnswerable ReferentialIntegrity
PROPERTIES
  RunningStepKeepsRunner BrowserTaskClaimedOnce RowsAreNeverReaddressed
CHECK_DEADLOCK FALSE
