------------------------------ MODULE MCFront ------------------------------
(* A small instance of Front for TLC: one node, one task, one grant.        *)
EXTENDS Front

AsIs == [k \in Keys |-> k]

\* One plain request: no key, no approval.
OneRequest ==
  {[node |-> n, actor |-> actor, ability |-> "system.inspect", payload |-> p,
    key |-> None, timeout_ms |-> 1] :
     n \in Nodes, actor \in Actors, p \in Payloads}

\* An agent offers all it can do.
FullOffer == {SUPPORTED_ABILITIES}

AllAbilities == SUPPORTED_ABILITIES
DefaultApprovalRequired == {"task.exec", "file.write"}
=============================================================================
