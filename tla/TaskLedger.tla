----------------------------- MODULE TaskLedger -----------------------------
(* What the Control Plane promises about tasks, whatever its leases, agents,*)
(* backend failures and restarts do: a task that was accepted is open until *)
(* it ends once, in one outcome that never changes.  Several tasks can end  *)
(* together (a node is revoked), and no step both accepts and ends tasks.   *)
CONSTANTS Tasks, Outcomes

VARIABLE ledger

TypeOK == ledger \in [Tasks -> {"absent", "open"} \cup Outcomes]

Init == ledger = [t \in Tasks |-> "absent"]

Accept(t) ==
  /\ ledger[t] = "absent"
  /\ ledger' = [ledger EXCEPT ![t] = "open"]

\* The tasks in ending end with the same outcome.
Finish(ending, outcome) ==
  /\ \A t \in ending : ledger[t] = "open"
  /\ ledger' = [t \in Tasks |-> IF t \in ending THEN outcome ELSE ledger[t]]

Next ==
  \/ \E t \in Tasks : Accept(t)
  \/ \E ending \in SUBSET Tasks, outcome \in Outcomes : Finish(ending, outcome)

Spec == Init /\ [][Next]_ledger
=============================================================================
