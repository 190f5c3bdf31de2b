SPECIFICATION FairSpec
CONSTANTS
  r1 = r1
  r2 = r2
  r3 = r3
  a1 = a1
  a2 = a2
  Runs <- MCRuns
  Agents <- MCAgents
  AgentOf <- MCAgentOf
  Workers = {w1, w2}
  MaxRetrieved = 1
  MaxExecutions = 3
  NONE = NONE
INVARIANTS
  EmbeddingsResolve RetrievedIsThere NotesNeedCompletions
PROPERTY
  LearnedIsRemembered
CHECK_DEADLOCK FALSE
