---------------------------- MODULE MCRunMemory ----------------------------
(* Small instances of RunMemory for TLC: two runs of one agent, one of       *)
(* another.                                                                  *)
EXTENDS RunMemory

CONSTANTS r1, r2, r3, a1, a2

MCRuns == {r1, r2, r3}
MCAgents == {a1, a2}
MCAgentOf == [r \in MCRuns |-> IF r = r3 THEN a2 ELSE a1]
=============================================================================
