------------------------------- MODULE Store -------------------------------
(* The data the Control Plane keeps: struct Store and the records in it.    *)
(*                                                                          *)
(* The Rust vectors are keyed by an identifier that is never reused, so     *)
(* each is a function over the identifiers, in which an entry whose status  *)
(* is "absent" stands for an identifier that is not in the vector.  Audit   *)
(* records are kept as a set: what they say matters here, not their order.  *)
EXTENDS Integers, FiniteSets

CONSTANTS
  Nodes,        \* node identifiers
  Actors,       \* authenticated operators
  Payloads,     \* what a task runs: its program and argument together
  Keys,         \* non-empty idempotency keys
  DataClasses,  \* administrator-assigned data classes of nodes
  TaskIds,      \* values of new_id("task")
  GrantCodes,   \* values of random_token() used as grant codes
  ApprovalIds,  \* values of new_id("approval")
  None,         \* Option::None
  Cleaned       \* what clean makes of each key: tabs and line ends to blanks

ASSUME CleanedTwiceIsCleaned ==
  /\ Cleaned \in [Keys -> Keys]
  /\ \A k \in Keys : Cleaned[Cleaned[k]] = Cleaned[k]
ASSUME NoneIsNoName == None \notin Nodes \cup TaskIds \cup ApprovalIds \cup Keys

SUPPORTED_ABILITIES == {"file.read", "file.write", "task.exec", "system.inspect"}

TerminalStates == {"succeeded", "failed", "cancelled", "timed_out"}

\* What POST /v1/tasks says, and what the stored task repeats of it.
Request == [node : Nodes, actor : Actors, ability : SUPPORTED_ABILITIES,
            payload : Payloads, key : Keys \cup {None}, timeout_ms : Nat]

\* What an approval record is bound to.
Scope == [node : Nodes, actor : Actors, ability : SUPPORTED_ABILITIES,
          payload : Payloads]

ScopeOf(req) == [node |-> req.node, actor |-> req.actor,
                 ability |-> req.ability, payload |-> req.payload]

\* The flags online and revoked are one status, as in the stored node line:
\* a node goes offline only by being revoked.
Node == [status : {"absent", "online", "revoked"}, credential : Nat,
         abilities : SUBSET SUPPORTED_ABILITIES,
         data_class : DataClasses \cup {None}, last_seen : Nat]

NoTask == [state |-> "absent", request |-> None, lease_until |-> 0,
           lease_token |-> 0]

Task == {NoTask} \cup
        [state : {"queued", "dispatched"} \cup TerminalStates,
         request : Request, lease_until : Nat, lease_token : Nat]

NoGrant == [status |-> "absent", revoked |-> FALSE, expires_at |-> 0]

Grant == {NoGrant} \cup
         [status : {"unused", "used"}, revoked : BOOLEAN, expires_at : Nat]

NoApproval == [status |-> "absent", scope |-> None, expires_at |-> 0]

Approval == {NoApproval} \cup
            [status : {"unused", "used"}, scope : Scope, expires_at : Nat]

\* The actor and the timestamp of an audit record are left out.  The second
\* subject of "approval.consumed" is the approval, as in the code.
Activity == [event : {"node.created", "grant.redeemed", "node.revoked",
                      "node.credential_rotated", "node.heartbeat",
                      "grant.created", "grant.revoked",
                      "approval.created", "approval.consumed",
                      "task.accepted", "policy.allowed", "task.dispatched",
                      "task.completed", "task.cancelled",
                      "task.cancelled_by_node_revoke"},
             node : Nodes \cup {None},
             subject : TaskIds \cup ApprovalIds \cup {None}]

StoreType == [nodes : [Nodes -> Node], tasks : [TaskIds -> Task],
              grants : [GrantCodes -> Grant],
              approvals : [ApprovalIds -> Approval], audit : SUBSET Activity]

Record(event, n, x) == [event |-> event, node |-> n, subject |-> x]

\* Store::default()
EmptyStore ==
  [nodes |-> [n \in Nodes |->
               [status |-> "absent", credential |-> 0, abilities |-> {},
                data_class |-> None, last_seen |-> 0]],
   tasks |-> [t \in TaskIds |-> NoTask],
   grants |-> [g \in GrantCodes |-> NoGrant],
   approvals |-> [a \in ApprovalIds |-> NoApproval],
   audit |-> {}]

KnownTasks(s) == {t \in TaskIds : s.tasks[t].state # "absent"}

OpenTasks(s) == {t \in TaskIds : s.tasks[t].state \in {"queued", "dispatched"}}

\* What comes back of a store that is written and read again: all fields are
\* written in hex or are plain names, but the idempotency key is cleaned.
clean(key) == IF key = None THEN None ELSE Cleaned[key]

SavedRequest(req) == [req EXCEPT !.key = clean(@)]

SavedTask(task) ==
  IF task.state = "absent" THEN task
  ELSE [task EXCEPT !.request = SavedRequest(@)]

Saved(s) == [s EXCEPT !.tasks = [t \in TaskIds |-> SavedTask(s.tasks[t])]]

(****************************************************************************)
(* What history a store holds, and when one store's history continues       *)
(* another's: nothing recorded in s is missing from u or reversed in it, but *)
(* that a key may have been cleaned.                                        *)
(****************************************************************************)
NodesContinue(s, u) ==
  \A n \in Nodes :
    /\ s.nodes[n].status # "absent" => u.nodes[n].status # "absent"
    /\ s.nodes[n].status = "revoked" => u.nodes[n].status = "revoked"

TasksContinue(s, u) ==
  \A t \in TaskIds :
    /\ s.tasks[t].state # "absent" =>
         /\ u.tasks[t].state # "absent"
         /\ u.tasks[t].request \in {s.tasks[t].request,
                                    SavedRequest(s.tasks[t].request)}
    /\ s.tasks[t].state \in TerminalStates =>
         u.tasks[t].state = s.tasks[t].state

GrantsContinue(s, u) ==
  \A g \in GrantCodes :
    /\ s.grants[g].status # "absent" => u.grants[g].status # "absent"
    /\ s.grants[g].revoked => u.grants[g].revoked
    /\ s.grants[g].revoked /\ s.grants[g].status = "unused" =>
         u.grants[g].status = "unused"

ApprovalsContinue(s, u) ==
  \A a \in ApprovalIds :
    /\ s.approvals[a].status # "absent" =>
         /\ u.approvals[a].status # "absent"
         /\ u.approvals[a].scope = s.approvals[a].scope
    /\ s.approvals[a].status = "used" => u.approvals[a].status = "used"

Continues(s, u) ==
  /\ NodesContinue(s, u)
  /\ TasksContinue(s, u)
  /\ GrantsContinue(s, u)
  /\ ApprovalsContinue(s, u)
  /\ s.audit \subseteq u.audit
=============================================================================
