-------------------------- MODULE OccurrenceLedger --------------------------
(***************************************************************************)
(* What the schedules of the control planes promise: an occurrence, that   *)
(* is a schedule and a time it was due at, is turned into a job at most    *)
(* once, and a job serves at most one occurrence, whoever dispatches.      *)
(***************************************************************************)
CONSTANTS Schedules, Times, Jobs

VARIABLE ledger   \* triples <<schedule, due time, job>>

Init == ledger = {}

Dispatch(s, t, j) ==
  /\ \A entry \in ledger : entry[3] # j /\ (entry[1] # s \/ entry[2] # t)
  /\ ledger' = ledger \cup {<<s, t, j>>}

Next == \E s \in Schedules, t \in Times, j \in Jobs : Dispatch(s, t, j)

Spec == Init /\ [][Next]_ledger
=============================================================================
