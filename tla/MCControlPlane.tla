--------------------------- MODULE MCControlPlane ---------------------------
(* Small instances of ControlPlane for TLC.  Each run takes the requests    *)
(* and heartbeats below that its question needs.                            *)
EXTENDS ControlPlane, TLC

Req(n, actor, ability, p, key, timeout) ==
  [actor |-> actor, ability |-> ability, key |-> key, node |-> n,
   payload |-> p, timeout_ms |-> timeout]

\* One plain request per node: no key, no approval.
PlainRequests ==
  {Req(n, actor, "system.inspect", p, None, 1) :
     n \in Nodes, actor \in Actors, p \in Payloads}

\* Requests with every key, and without one, that need an approval.
ExecRequests ==
  {Req(n, actor, "task.exec", p, key, 1) :
     n \in Nodes, actor \in Actors, p \in Payloads, key \in Keys \cup {None}}

\* What clean does to keys without and with tabs; a request with a key that
\* it changes.
AsIs == [k \in Keys |-> k]
AllAlike == [k \in Keys |-> CHOOSE l \in Keys : TRUE]

TabbedRequests ==
  {Req(n, actor, "system.inspect", p, key, 1) :
     n \in Nodes, actor \in Actors, p \in Payloads,
     key \in {k \in Keys : Cleaned[k] # k}}

\* No request: the runs about nodes and grants.
NoRequests == {}

FullOffer == {SUPPORTED_ABILITIES}
OffersWithUnknown == {SUPPORTED_ABILITIES, {"camera.use"}}
NoOffers == {}

AllAbilities == SUPPORTED_ABILITIES
DefaultApprovalRequired == {"task.exec", "file.write"}

Symmetry == Permutations(TaskIds) \cup Permutations(GrantCodes)
              \cup Permutations(ApprovalIds)
=============================================================================
