---------------------------- MODULE MCAgentLoop ----------------------------
(* Two tasks of an agent for TLC: the first takes longer than the lease of  *)
(* the second, which is handed out in the same poll.                        *)
EXTENDS AgentLoop

Uneven == [t \in 1..TaskCount |-> IF t = 1 THEN 3 ELSE 1]
Long == [t \in 1..TaskCount |-> 2]
Short == [t \in 1..TaskCount |-> 1]
=============================================================================
