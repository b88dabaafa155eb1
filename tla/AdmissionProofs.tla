--------------------------- MODULE AdmissionProofs ---------------------------
(* What the Control Plane promises about admission and enrolment: approvals *)
(* and grants are spent once, the audit trail accounts for the state, an    *)
(* idempotency key has one task, and the tasks follow the abstract ledger.  *)
(*                                                                          *)
(* One lemma says what any step may do: the store a handler writes differs  *)
(* from memory by one of the few changes below.  Each property then has to  *)
(* be carried across those changes only, not across every action.           *)
EXTENDS ControlPlaneProofs, FiniteSetTheorems

-----------------------------------------------------------------------------
(* What may change from one store to another                                *)

\* The status of the nodes in ns becomes status, other nodes keep theirs.
NodesTurn(s, u, ns, status) ==
  \A n \in Nodes :
    u.nodes[n].status = IF n \in ns THEN status ELSE s.nodes[n].status

\* The grants in gs become used.
GrantsSpent(s, u, gs) ==
  \A g \in GrantCodes :
    u.grants[g].status = "used" <=> s.grants[g].status = "used" \/ g \in gs

\* The approvals in as become used; what was used keeps its scope.
ApprovalsSpent(s, u, as) ==
  \A a \in ApprovalIds :
    /\ u.approvals[a].status = "used" <=> s.approvals[a].status = "used" \/ a \in as
    /\ s.approvals[a].status = "used" \/ a \in as =>
         u.approvals[a].scope = s.approvals[a].scope

\* The task t is the same, but that its key may have been cleaned.
TaskKept(s, u, t) ==
  /\ u.tasks[t].state = s.tasks[t].state
  /\ u.tasks[t].lease_token = s.tasks[t].lease_token
  /\ u.tasks[t].lease_until = s.tasks[t].lease_until
  /\ s.tasks[t].state # "absent" =>
       u.tasks[t].request \in {s.tasks[t].request, SavedRequest(s.tasks[t].request)}

\* Records that say nothing of what a node, grant, approval or task became.
Bystander == {"node.credential_rotated", "node.heartbeat", "grant.created",
              "grant.revoked", "approval.created", "policy.allowed",
              "task.dispatched"}

\* Nothing changed of what nodes, grants, approvals and tasks have become.
Alike(s, u) ==
  /\ NodesTurn(s, u, {}, "absent")
  /\ GrantsSpent(s, u, {})
  /\ ApprovalsSpent(s, u, {})
  /\ \A t \in TaskIds : TaskKept(s, u, t)
  /\ s.audit \subseteq u.audit
  /\ \A r \in u.audit \ s.audit : r.event \in Bystander

\* Node n was enrolled by an administrator, or with grant g.
Enrols(s, u, n) ==
  /\ s.nodes[n].status = "absent"
  /\ NodesTurn(s, u, {n}, "online")
  /\ GrantsSpent(s, u, {})
  /\ ApprovalsSpent(s, u, {})
  /\ \A t \in TaskIds : TaskKept(s, u, t)
  /\ u.audit = s.audit \cup {Record("node.created", n, None)}

Redeems(s, u, g, n) ==
  /\ s.nodes[n].status = "absent"
  /\ s.grants[g].status # "used"
  /\ NodesTurn(s, u, {n}, "online")
  /\ GrantsSpent(s, u, {g})
  /\ ApprovalsSpent(s, u, {})
  /\ \A t \in TaskIds : TaskKept(s, u, t)
  /\ u.audit = s.audit \cup {Record("grant.redeemed", n, None)}

\* Grant g was spent and no node enrolled.
Spends(s, u, g) ==
  /\ NodesTurn(s, u, {}, "absent")
  /\ GrantsSpent(s, u, {g})
  /\ ApprovalsSpent(s, u, {})
  /\ \A t \in TaskIds : TaskKept(s, u, t)
  /\ u.audit = s.audit

\* Task t is new, and was requested by req.
TaskAdmitted(s, u, t, req) ==
  /\ s.tasks[t].state = "absent"
  /\ u.tasks[t] = [state |-> "queued", request |-> req, lease_until |-> 0,
                   lease_token |-> 0]
  /\ \A v \in TaskIds \ {t} : TaskKept(s, u, v)
  /\ KeyIsFree(s, req)

\* Task t was admitted and needed no approval record.
Admits(s, u, t, req) ==
  /\ ~NeedsRecord(req.ability)
  /\ TaskAdmitted(s, u, t, req)
  /\ NodesTurn(s, u, {}, "absent")
  /\ GrantsSpent(s, u, {})
  /\ ApprovalsSpent(s, u, {})
  /\ u.audit = s.audit \cup {Record("task.accepted", req.node, t),
                             Record("policy.allowed", req.node, t)}

\* Task t was admitted on the approval a.
AdmitsApproved(s, u, t, req, a) ==
  /\ s.approvals[a].status # "used"
  /\ s.approvals[a].scope = ScopeOf(req)
  /\ TaskAdmitted(s, u, t, req)
  /\ NodesTurn(s, u, {}, "absent")
  /\ GrantsSpent(s, u, {})
  /\ ApprovalsSpent(s, u, {a})
  /\ u.audit = s.audit \cup {Record("approval.consumed", req.node, a),
                             Record("task.accepted", req.node, t),
                             Record("policy.allowed", req.node, t)}

\* The open tasks in ts end with the same outcome and keep their lease tokens.
TasksEnd(s, u, ts, outcome) ==
  /\ ts \subseteq OpenTasks(s)
  /\ outcome \in TerminalStates
  /\ \A t \in ts : /\ u.tasks[t].state = outcome
                   /\ u.tasks[t].request = s.tasks[t].request
                   /\ u.tasks[t].lease_token = s.tasks[t].lease_token
  /\ \A t \in TaskIds \ ts : TaskKept(s, u, t)

\* Task t was ended by a result or an operator.
Ends(s, u, t, outcome, event) ==
  /\ event \in {"task.completed", "task.cancelled"}
  /\ TasksEnd(s, u, {t}, outcome)
  /\ NodesTurn(s, u, {}, "absent")
  /\ GrantsSpent(s, u, {})
  /\ ApprovalsSpent(s, u, {})
  /\ \E n \in Nodes : u.audit = s.audit \cup {Record(event, n, t)}

\* Node n was revoked and with it went its open tasks.
Revokes(s, u, n, ts) ==
  /\ s.nodes[n].status # "absent"
  /\ TasksEnd(s, u, ts, "cancelled")
  /\ NodesTurn(s, u, {n}, "revoked")
  /\ GrantsSpent(s, u, {})
  /\ ApprovalsSpent(s, u, {})
  /\ u.audit = s.audit \cup {Record("node.revoked", n, None)}
                       \cup {Record("task.cancelled_by_node_revoke", n, t) : t \in ts}

\* The tasks in ts are due, and were handed out under new leases.
Dispatches(s, u, ts) ==
  /\ \A t \in ts : /\ t \in OpenTasks(s)
                   /\ s.tasks[t].state = "dispatched" => s.tasks[t].lease_until <= now
                   /\ u.tasks[t] = DispatchedTask(s.tasks[t])
                   /\ u.tasks[t].state = "dispatched"
                   /\ u.tasks[t].request = s.tasks[t].request
  /\ \A t \in TaskIds \ ts : TaskKept(s, u, t)
  /\ NodesTurn(s, u, {}, "absent")
  /\ GrantsSpent(s, u, {})
  /\ ApprovalsSpent(s, u, {})
  /\ s.audit \subseteq u.audit
  /\ \A r \in u.audit \ s.audit : r.event \in Bystander

Changes(s, u) ==
  \/ Alike(s, u)
  \/ \E n \in Nodes : Enrols(s, u, n)
  \/ \E g \in GrantCodes, n \in Nodes : Redeems(s, u, g, n)
  \/ \E g \in GrantCodes : Spends(s, u, g)
  \/ \E t \in TaskIds, req \in Requests : Admits(s, u, t, req)
  \/ \E t \in TaskIds, req \in Requests, a \in ApprovalIds :
       AdmitsApproved(s, u, t, req, a)
  \/ \E t \in TaskIds, outcome \in TerminalStates,
        event \in {"task.completed", "task.cancelled"} :
       Ends(s, u, t, outcome, event)
  \/ \E n \in Nodes, ts \in SUBSET TaskIds : Revokes(s, u, n, ts)
  \/ \E ts \in SUBSET TaskIds : Dispatches(s, u, ts)

\* A change that is written, or is refused and rolled back in memory.
Written(new) == Persisted(new) \/ Refused(new)

\* A change of memory alone, which leaves the audit trail and the phases of
\* the tasks as they are.
Slipped(new) ==
  /\ mem' = new
  /\ disk' = disk
  /\ new.audit = mem.audit
  /\ LedgerOf(new) = LedgerOf(mem)

\* Memory is what disk had, after a restart.
Reloaded == mem' = disk /\ disk' = disk

StepIsChange ==
  \/ Reloaded
  \/ \E new \in StoreType : Changes(mem, new) /\ (Written(new) \/ Slipped(new))

-----------------------------------------------------------------------------
(* Every step is such a change                                              *)

\* A store that differs from memory in audit records of no consequence, and
\* in fields of nodes, grants and approvals that are not what they became.
LEMMA AlikeMemory ==
  ASSUME IInv, NEW new, new.tasks = mem.tasks,
         NodesTurn(mem, new, {}, "absent"), GrantsSpent(mem, new, {}),
         ApprovalsSpent(mem, new, {}),
         NEW event \in Bystander, NEW n, NEW x,
         new.audit = mem.audit \cup {Record(event, n, x)}
  PROVE  Alike(mem, new)
BY DEF Alike, TaskKept, Record

\* What an unchanged part of a store satisfies.
LEMMA Unchanged ==
  ASSUME NEW s, NEW u
  PROVE  /\ u.nodes = s.nodes => NodesTurn(s, u, {}, "absent")
         /\ u.grants = s.grants => GrantsSpent(s, u, {})
         /\ u.approvals = s.approvals => ApprovalsSpent(s, u, {})
         /\ u.tasks = s.tasks => \A t \in TaskIds : TaskKept(s, u, t)
BY DEF NodesTurn, GrantsSpent, ApprovalsSpent, TaskKept

\* The handlers that only write nodes and grants.
LEMMA NodeStepsAreChanges ==
  ASSUME IInv, NEW n \in Nodes,
         \/ \E class \in DataClasses : CreateNode(n, class)
         \/ \E g \in GrantCodes, class \in DataClasses : RedeemGrant(g, n, class)
         \/ RotateNode(n)
         \/ \E offer \in Offers : Heartbeat(n, offer)
         \/ \E offer \in Offers : HeartbeatUnsupported(n, offer)
  PROVE  StepIsChange
<1>1. mem \in StoreType /\ \A m \in Nodes : mem.nodes[m] \in Node
  BY MemoryTyped
<1>2. ASSUME NEW class \in DataClasses, CreateNode(n, class)
      PROVE  StepIsChange
  <2> DEFINE new == Logged(Enrolled(mem, n, class), {Record("node.created", n, None)})
  <2>1. /\ NodesTurn(mem, new, {n}, "online")
        /\ new.grants = mem.grants /\ new.approvals = mem.approvals
        /\ new.tasks = mem.tasks
        /\ new.audit = mem.audit \cup {Record("node.created", n, None)}
    BY <1>1 DEF Logged, Enrolled, StoreType, NodesTurn
  <2>2. new \in StoreType
    BY <1>2, CreateNodeSound DEF Sound
  <2>3. Written(new) /\ mem.nodes[n].status = "absent"
    BY <1>2 DEF CreateNode, persist_or_rollback, Written
  <2> HIDE DEF new
  <2>4. Enrols(mem, new, n)
    BY <2>1, <2>3, Unchanged DEF Enrols
  <2> QED
    BY <2>2, <2>3, <2>4 DEF StepIsChange, Changes
<1>3. ASSUME NEW g \in GrantCodes, NEW class \in DataClasses, RedeemGrant(g, n, class)
      PROVE  StepIsChange
  <2> DEFINE new == Logged(Enrolled(GrantUsed(mem, g), n, class),
                           {Record("grant.redeemed", n, None)})
  <2>1. /\ NodesTurn(mem, new, {n}, "online")
        /\ GrantsSpent(mem, new, {g}) /\ new.approvals = mem.approvals
        /\ new.tasks = mem.tasks
        /\ new.audit = mem.audit \cup {Record("grant.redeemed", n, None)}
    <3>1. mem.grants[g] \in Grant
      BY MemoryTyped
    <3> QED
      BY <1>1, <3>1 DEF Logged, Enrolled, GrantUsed, StoreType, NodesTurn, GrantsSpent,
                        Grant, NoGrant
  <2>2. new \in StoreType
    BY <1>3, RedeemGrantSound DEF Sound
  <2>3. /\ Written(new) /\ mem.nodes[n].status = "absent"
        /\ mem.grants[g].status # "used"
    BY <1>3 DEF RedeemGrant, GrantRedeemable, persist_or_rollback, Written
  <2> HIDE DEF new
  <2>4. Redeems(mem, new, g, n)
    BY <2>1, <2>3, Unchanged DEF Redeems
  <2> QED
    BY <2>2, <2>3, <2>4 DEF StepIsChange, Changes
<1>4. CASE RotateNode(n)
  <2> DEFINE new == Logged([mem EXCEPT !.nodes[n].credential = NewToken],
                           {Record("node.credential_rotated", n, None)})
  <2>1. /\ NodesTurn(mem, new, {}, "absent")
        /\ new.grants = mem.grants /\ new.approvals = mem.approvals
        /\ new.tasks = mem.tasks
        /\ new.audit = mem.audit \cup {Record("node.credential_rotated", n, None)}
    BY <1>1 DEF Logged, StoreType, NodesTurn, Node
  <2>2. new \in StoreType
    BY <1>4, RotateNodeSound DEF Sound
  <2>3. Written(new)
    BY <1>4 DEF RotateNode, persist_or_rollback, Written
  <2> HIDE DEF new
  <2>4. Alike(mem, new)
    BY <2>1, Unchanged, AlikeMemory DEF Bystander
  <2> QED
    BY <2>2, <2>3, <2>4 DEF StepIsChange, Changes
<1>5. ASSUME NEW offer \in Offers, Heartbeat(n, offer)
      PROVE  StepIsChange
  <2> DEFINE new == Logged([mem EXCEPT !.nodes[n] =
                              [@ EXCEPT !.last_seen = now, !.abilities = offer]],
                           {Record("node.heartbeat", n, None)})
  <2>1. /\ NodesTurn(mem, new, {}, "absent")
        /\ new.grants = mem.grants /\ new.approvals = mem.approvals
        /\ new.tasks = mem.tasks
        /\ new.audit = mem.audit \cup {Record("node.heartbeat", n, None)}
    BY <1>1 DEF Logged, StoreType, NodesTurn, Node
  <2>2. new \in StoreType
    BY <1>5, HeartbeatSound DEF Sound
  <2>3. Written(new)
    BY <1>5 DEF Heartbeat, persist_or_rollback, Written
  <2> HIDE DEF new
  <2>4. Alike(mem, new)
    BY <2>1, Unchanged, AlikeMemory DEF Bystander
  <2> QED
    BY <2>2, <2>3, <2>4 DEF StepIsChange, Changes
<1>6. ASSUME NEW offer \in Offers, HeartbeatUnsupported(n, offer)
      PROVE  StepIsChange
  <2>1. /\ NodesTurn(mem, mem', {}, "absent")
        /\ mem'.grants = mem.grants /\ mem'.approvals = mem.approvals
        /\ mem'.tasks = mem.tasks /\ mem'.audit = mem.audit
    BY <1>1, <1>6 DEF HeartbeatUnsupported, StoreType, NodesTurn, Node
  <2>2. mem' \in StoreType
    BY <1>6, StepKeeps DEF Kept, Next, NodeStep
  <2>3. Alike(mem, mem')
    BY <2>1, Unchanged DEF Alike
  <2>4. Slipped(mem')
    BY <1>6, <2>1 DEF HeartbeatUnsupported, Slipped, LedgerOf
  <2> QED
    BY <2>2, <2>3, <2>4 DEF StepIsChange, Changes
<1> QED
  BY <1>2, <1>3, <1>4, <1>5, <1>6

\* The handlers that only write grants and approvals.
LEMMA GrantAndApprovalStepsAreChanges ==
  ASSUME IInv,
         \/ \E g \in GrantCodes : GrantStep(g)
         \/ \E a \in ApprovalIds, req \in Requests : CreateApproval(a, ScopeOf(req))
  PROVE  StepIsChange
<1>1. mem \in StoreType /\ \A g \in GrantCodes : mem.grants[g] \in Grant
  BY MemoryTyped
<1>2. ASSUME NEW g \in GrantCodes, CreateGrant(g)
      PROVE  StepIsChange
  <2> DEFINE new == Logged([mem EXCEPT !.grants[g] =
                              [status |-> "unused", revoked |-> FALSE,
                               expires_at |-> now + GrantTTL]],
                           {Record("grant.created", None, None)})
  <2>1. /\ GrantsSpent(mem, new, {})
        /\ new.nodes = mem.nodes /\ new.approvals = mem.approvals
        /\ new.tasks = mem.tasks
        /\ new.audit = mem.audit \cup {Record("grant.created", None, None)}
    BY <1>1, <1>2 DEF CreateGrant, Logged, StoreType, GrantsSpent
  <2>2. new \in StoreType
    BY <1>2, CreateGrantSound DEF Sound
  <2>3. Written(new)
    BY <1>2 DEF CreateGrant, persist_or_rollback, Written
  <2> HIDE DEF new
  <2>4. Alike(mem, new)
    BY <2>1, Unchanged, AlikeMemory DEF Bystander
  <2> QED
    BY <2>2, <2>3, <2>4 DEF StepIsChange, Changes
<1>3. ASSUME NEW g \in GrantCodes, RevokeGrant(g)
      PROVE  StepIsChange
  <2> DEFINE new == Logged([mem EXCEPT !.grants[g].revoked = TRUE],
                           {Record("grant.revoked", None, None)})
  <2>1. /\ GrantsSpent(mem, new, {})
        /\ new.nodes = mem.nodes /\ new.approvals = mem.approvals
        /\ new.tasks = mem.tasks
        /\ new.audit = mem.audit \cup {Record("grant.revoked", None, None)}
    BY <1>1 DEF Logged, StoreType, GrantsSpent, Grant, NoGrant
  <2>2. new \in StoreType
    BY <1>3, RevokeGrantSound DEF Sound
  <2>3. Written(new)
    BY <1>3 DEF RevokeGrant, persist_or_rollback, Written
  <2> HIDE DEF new
  <2>4. Alike(mem, new)
    BY <2>1, Unchanged, AlikeMemory DEF Bystander
  <2> QED
    BY <2>2, <2>3, <2>4 DEF StepIsChange, Changes
<1>4. ASSUME NEW g \in GrantCodes, RedeemGrantRandomFails(g)
      PROVE  StepIsChange
  <2>1. /\ GrantsSpent(mem, mem', {g})
        /\ mem'.nodes = mem.nodes /\ mem'.approvals = mem.approvals
        /\ mem'.tasks = mem.tasks /\ mem'.audit = mem.audit
    BY <1>1, <1>4 DEF RedeemGrantRandomFails, GrantUsed, StoreType, GrantsSpent,
                      Grant, NoGrant
  <2>2. mem' \in StoreType
    BY <1>4, StepKeeps DEF Kept, Next, GrantStep
  <2>3. Spends(mem, mem', g)
    BY <2>1, Unchanged DEF Spends
  <2>4. Slipped(mem')
    BY <1>4, <2>1 DEF RedeemGrantRandomFails, Slipped, LedgerOf
  <2> QED
    BY <2>2, <2>3, <2>4 DEF StepIsChange, Changes
<1>5. ASSUME NEW a \in ApprovalIds, NEW req \in Requests, CreateApproval(a, ScopeOf(req))
      PROVE  StepIsChange
  <2> DEFINE new == Logged([mem EXCEPT !.approvals[a] =
                              [status |-> "unused", scope |-> ScopeOf(req),
                               expires_at |-> now + ApprovalTTL]],
                           {Record("approval.created", ScopeOf(req).node, a)})
  <2>1. /\ ApprovalsSpent(mem, new, {})
        /\ new.nodes = mem.nodes /\ new.grants = mem.grants
        /\ new.tasks = mem.tasks
        /\ new.audit = mem.audit \cup {Record("approval.created", ScopeOf(req).node, a)}
    BY <1>1, <1>5 DEF CreateApproval, Logged, StoreType, ApprovalsSpent
  <2>2. new \in StoreType
    BY <1>5, CreateApprovalSound DEF Sound
  <2>3. Written(new)
    BY <1>5 DEF CreateApproval, persist_or_rollback, Written
  <2> HIDE DEF new
  <2>4. Alike(mem, new)
    BY <2>1, Unchanged, AlikeMemory DEF Bystander
  <2> QED
    BY <2>2, <2>3, <2>4 DEF StepIsChange, Changes
<1> QED
  BY <1>2, <1>3, <1>4, <1>5 DEF GrantStep

\* A revocation, with the tasks it cancels.
LEMMA RevokeIsChange ==
  ASSUME IInv, NEW n \in Nodes, RevokeNode(n)
  PROVE  StepIsChange
<1> DEFINE u == [mem EXCEPT !.nodes[n].status = "revoked"]
           ts == QueuedOrDispatched(mem, n)
           w == Cancelled(u, ts)
           new == Revoked(mem, n)
<1>1. mem \in StoreType /\ (\A m \in Nodes : mem.nodes[m] \in Node)
      /\ (\A t \in TaskIds : mem.tasks[t] \in Task)
  BY MemoryTyped
<1>2. ts \subseteq OpenTasks(mem) /\ ts \subseteq TaskIds
  BY DEF QueuedOrDispatched, OpenTasks
<1>3. /\ NodesTurn(mem, u, {n}, "revoked")
      /\ u.tasks = mem.tasks /\ u.approvals = mem.approvals
      /\ u.grants = mem.grants /\ u.audit = mem.audit
      /\ DOMAIN u = DOMAIN mem
  BY <1>1 DEF StoreType, NodesTurn, Node
<1>4. /\ w.nodes = u.nodes /\ w.approvals = mem.approvals
      /\ w.grants = mem.grants /\ w.audit = mem.audit
      /\ w.tasks = [t \in TaskIds |-> IF t \in ts THEN CancelledTask(mem.tasks[t])
                                      ELSE mem.tasks[t]]
      /\ DOMAIN w = DOMAIN mem
  BY <1>1, <1>3 DEF Cancelled, StoreType
<1>5. /\ new.nodes = u.nodes /\ new.approvals = mem.approvals
      /\ new.grants = mem.grants /\ new.tasks = w.tasks
      /\ new.audit = mem.audit \cup {Record("node.revoked", n, None)}
           \cup {Record("task.cancelled_by_node_revoke", n, t) : t \in ts}
  BY <1>1, <1>4 DEF Revoked, Logged, StoreType
<1>6. TasksEnd(mem, new, ts, "cancelled")
  <2>1. \A t \in ts : /\ CancelledTask(mem.tasks[t]).state = "cancelled"
                       /\ CancelledTask(mem.tasks[t]).request = mem.tasks[t].request
                       /\ CancelledTask(mem.tasks[t]).lease_token = mem.tasks[t].lease_token
    <3> SUFFICES ASSUME NEW t \in ts
                 PROVE  /\ CancelledTask(mem.tasks[t]).state = "cancelled"
                        /\ CancelledTask(mem.tasks[t]).request = mem.tasks[t].request
                        /\ CancelledTask(mem.tasks[t]).lease_token
                             = mem.tasks[t].lease_token
      OBVIOUS
    <3>1. mem.tasks[t] \in [state : {"queued", "dispatched"} \cup TerminalStates,
                            request : Request, lease_until : Nat, lease_token : Nat]
      BY <1>1, <1>2, KnownTask DEF OpenTasks
    <3> QED
      BY <3>1 DEF CancelledTask
  <2> QED
    BY <1>2, <1>4, <1>5, <2>1 DEF TasksEnd, TaskKept, TerminalStates
<1>7. new \in StoreType /\ Written(new) /\ mem.nodes[n].status # "absent"
  BY <1>1, RevokedSound DEF RevokeNode, Sound, persist_or_rollback, Written
<1>8. NodesTurn(mem, new, {n}, "revoked")
  BY <1>3, <1>5 DEF NodesTurn
<1> HIDE DEF new, u, w, ts
<1>9. Revokes(mem, new, n, ts)
  BY <1>5, <1>6, <1>7, <1>8, Unchanged DEF Revokes
<1> QED
  BY <1>2, <1>7, <1>9 DEF StepIsChange, Changes

\* A poll that hands out what is due, or some of it before a draw fails.
LEMMA DispatchIsChange ==
  ASSUME IInv, NEW n \in Nodes, AgentTasks(n) \/ AgentTasksRandomFails(n)
  PROVE  StepIsChange
<1>1. mem \in StoreType /\ now \in Nat /\ issued \in Nat
  BY MemoryTyped
<1>2. \A ts \in SUBSET Due(mem, n) :
        ts \in SUBSET OpenTasks(mem) /\ ts \in SUBSET TaskIds
  BY DEF Due, QueuedOrDispatched, OpenTasks
<1>3. ASSUME NEW ts \in SUBSET Due(mem, n), NEW new,
             new.tasks = Dispatched(mem, ts).tasks, new.nodes = mem.nodes,
             new.grants = mem.grants, new.approvals = mem.approvals,
             mem.audit \subseteq new.audit,
             \A r \in new.audit \ mem.audit : r.event \in Bystander
      PROVE  Dispatches(mem, new, ts)
  <2>1. \A t \in ts : mem.tasks[t].state = "dispatched" => mem.tasks[t].lease_until <= now
    BY DEF Due
  <2>2. \A t \in ts : /\ t \in OpenTasks(mem)
                       /\ new.tasks[t] = DispatchedTask(mem.tasks[t])
                       /\ new.tasks[t].state = "dispatched"
                       /\ new.tasks[t].request = mem.tasks[t].request
    BY <1>1, <1>2, <1>3, DispatchedSound
  <2>3. \A t \in TaskIds \ ts : TaskKept(mem, new, t)
    BY <1>1, <1>2, <1>3, DispatchedSound DEF TaskKept
  <2> QED
    BY <1>3, <2>1, <2>2, <2>3, Unchanged DEF Dispatches
<1>4. CASE AgentTasks(n)
  <2> DEFINE ts == Due(mem, n)
             d == Dispatched(mem, ts)
             new == Logged(d, {Record("task.dispatched", n, None)})
  <2>1. new \in StoreType /\ d \in StoreType
    BY <1>1, <1>2, AgentTasksSound, DispatchedSound DEF Sound
  <2>2. /\ d.nodes = mem.nodes /\ d.grants = mem.grants
        /\ d.approvals = mem.approvals /\ d.audit = mem.audit
    BY <1>1, <1>2, DispatchedSound
  <2>3. /\ new.tasks = d.tasks /\ new.nodes = mem.nodes
        /\ new.grants = mem.grants /\ new.approvals = mem.approvals
        /\ new.audit = mem.audit \cup {Record("task.dispatched", n, None)}
    BY <2>1, <2>2 DEF Logged, StoreType
  <2>4. Written(new)
    BY <1>4 DEF AgentTasks, Written
  <2>5. ts \in SUBSET TaskIds
    BY <1>2
  <2> HIDE DEF new, d, ts
  <2>6. \A r \in new.audit \ mem.audit : r.event \in Bystander
    BY <2>3 DEF Record, Bystander
  <2>7. Dispatches(mem, new, ts)
    BY <1>3, <2>3, <2>6 DEF ts, d
  <2> QED
    BY <2>1, <2>4, <2>5, <2>7 DEF StepIsChange, Changes
<1>5. CASE AgentTasksRandomFails(n)
  <2>1. PICK ts \in SUBSET Due(mem, n) \ {{}, Due(mem, n)} : mem' = Dispatched(mem, ts)
    BY <1>5 DEF AgentTasksRandomFails
  <2>2. /\ mem'.nodes = mem.nodes /\ mem'.grants = mem.grants
        /\ mem'.approvals = mem.approvals /\ mem'.audit = mem.audit
    BY <1>1, <1>2, <2>1, DispatchedSound
  <2>3. Dispatches(mem, mem', ts)
    BY <1>3, <2>1, <2>2
  <2>4. mem' \in StoreType
    BY <1>5, StepKeeps DEF Kept, Next, NodeStep
  <2>5. LedgerOf(mem') = LedgerOf(mem)
    <3>1. \A t \in TaskIds : Phase(mem'.tasks[t].state) = Phase(mem.tasks[t].state)
      BY <2>3 DEF Dispatches, TaskKept, OpenTasks, Phase
    <3> QED
      BY <3>1 DEF LedgerOf
  <2>6. Slipped(mem')
    BY <1>5, <2>2, <2>5 DEF AgentTasksRandomFails, Slipped
  <2>7. ts \in SUBSET TaskIds
    BY <1>2, <2>1
  <2> QED
    BY <2>3, <2>4, <2>6, <2>7 DEF StepIsChange, Changes
<1> QED
  BY <1>4, <1>5

\* The admission of a task.
LEMMA CreateTaskIsChange ==
  ASSUME IInv, NEW t \in TaskIds, NEW req \in Requests, NEW a \in ApprovalIds \cup {None},
         CreateTask(t, req, a)
  PROVE  StepIsChange
<1>1. mem \in StoreType /\ (\A b \in ApprovalIds : mem.approvals[b] \in Approval)
  BY MemoryTyped
<1>2. mem.tasks[t].state = "absent" /\ KeyIsFree(mem, req)
  BY DEF CreateTask
<1>3. ASSUME NEW u, DOMAIN u = DOMAIN mem, u.tasks = mem.tasks
      PROVE  /\ TaskAdmitted(mem, Accepted(u, t, req), t, req)
             /\ Accepted(u, t, req).nodes = u.nodes
             /\ Accepted(u, t, req).grants = u.grants
             /\ Accepted(u, t, req).approvals = u.approvals
             /\ Accepted(u, t, req).audit = u.audit \cup
                  {Record("task.accepted", req.node, t), Record("policy.allowed", req.node, t)}
  <2> DEFINE new == Accepted(u, t, req)
             task == [state |-> "queued", request |-> req, lease_until |-> 0,
                      lease_token |-> 0]
  <2>1. /\ new.tasks = [mem.tasks EXCEPT ![t] = task]
        /\ new.nodes = u.nodes /\ new.grants = u.grants /\ new.approvals = u.approvals
        /\ new.audit = u.audit \cup
             {Record("task.accepted", req.node, t), Record("policy.allowed", req.node, t)}
    BY <1>1, <1>3 DEF Accepted, Logged, StoreType
  <2>2. \A v \in TaskIds : new.tasks[v] = IF v = t THEN task ELSE mem.tasks[v]
    BY <1>1, <2>1 DEF StoreType
  <2>3. \A v \in TaskIds \ {t} : TaskKept(mem, new, v)
    BY <2>2 DEF TaskKept
  <2>4. TaskAdmitted(mem, new, t, req)
    BY <1>2, <2>2, <2>3 DEF TaskAdmitted
  <2> QED
    BY <2>1, <2>4
<1>4. CASE /\ NeedsRecord(req.ability)
           /\ a \in ApprovalIds
           /\ ApprovalUsable(mem.approvals[a], req)
           /\ persist_or_rollback(Accepted(ApprovalConsumed(mem, a, req), t, req))
  <2> DEFINE u == ApprovalConsumed(mem, a, req)
             new == Accepted(u, t, req)
  <2>1. /\ DOMAIN u = DOMAIN mem /\ u.tasks = mem.tasks /\ u.nodes = mem.nodes
        /\ u.grants = mem.grants
        /\ u.approvals = [mem.approvals EXCEPT ![a] = [mem.approvals[a] EXCEPT !.status = "used"]]
        /\ u.audit = mem.audit \cup {Record("approval.consumed", req.node, a)}
    BY <1>1 DEF ApprovalConsumed, Logged, StoreType
  <2>2. /\ mem.approvals[a].status = "unused" /\ mem.approvals[a].scope = ScopeOf(req)
        /\ mem.approvals[a] \in [status : {"unused", "used"}, scope : Scope,
                                 expires_at : Nat]
    BY <1>1, <1>4 DEF ApprovalUsable, Approval, NoApproval
  <2>3. ApprovalsSpent(mem, u, {a})
    BY <1>1, <1>4, <2>1, <2>2 DEF ApprovalsSpent, StoreType
  <2>4. new \in StoreType /\ Written(new)
    BY <1>4, CreateTaskSound DEF Sound, persist_or_rollback, Written
  <2> HIDE DEF u
  <2>5. /\ TaskAdmitted(mem, new, t, req)
        /\ new.nodes = mem.nodes /\ new.grants = mem.grants /\ new.approvals = u.approvals
        /\ new.audit = mem.audit \cup {Record("approval.consumed", req.node, a),
             Record("task.accepted", req.node, t), Record("policy.allowed", req.node, t)}
    BY <1>3, <2>1
  <2> HIDE DEF new
  <2>6. ApprovalsSpent(mem, new, {a})
    BY <2>3, <2>5 DEF ApprovalsSpent
  <2>7. AdmitsApproved(mem, new, t, req, a)
    BY <2>2, <2>5, <2>6, Unchanged DEF AdmitsApproved
  <2> QED
    BY <1>4, <2>4, <2>7 DEF StepIsChange, Changes
<1>5. CASE /\ ~NeedsRecord(req.ability)
           /\ persist_or_rollback(Accepted(mem, t, req))
  <2> DEFINE new == Accepted(mem, t, req)
  <2>1. new \in StoreType /\ Written(new)
    BY <1>5, CreateTaskSound DEF Sound, persist_or_rollback, Written
  <2>2. /\ TaskAdmitted(mem, new, t, req)
        /\ new.nodes = mem.nodes /\ new.grants = mem.grants
        /\ new.approvals = mem.approvals
        /\ new.audit = mem.audit \cup
             {Record("task.accepted", req.node, t), Record("policy.allowed", req.node, t)}
    BY <1>3
  <2> HIDE DEF new
  <2>3. Admits(mem, new, t, req)
    BY <1>5, <2>2, Unchanged DEF Admits
  <2> QED
    BY <2>1, <2>3 DEF StepIsChange, Changes
<1> QED
  BY <1>4, <1>5 DEF CreateTask

\* A task ends: an operator cancels it or an agent reports.
LEMMA EndIsChange ==
  ASSUME IInv,
         \/ \E t \in TaskIds, by \in Actors \cup {None} : CancelTask(t, by)
         \/ \E l \in held, state \in Outcomes : AgentResult(l, state)
  PROVE  StepIsChange
<1>1. mem \in StoreType /\ (\A t \in TaskIds : mem.tasks[t] \in Task)
  BY MemoryTyped
<1>2. ASSUME NEW t \in TaskIds, NEW by, CancelTask(t, by)
      PROVE  StepIsChange
  <2> DEFINE n == mem.tasks[t].request.node
             new == Logged(Cancelled(mem, {t}), {Record("task.cancelled", n, t)})
  <2>1. t \in OpenTasks(mem)
    BY <1>2 DEF CancelTask, Cancellable, OpenTasks
  <2>2. mem.tasks[t] \in [state : {"queued", "dispatched"} \cup TerminalStates,
                          request : Request, lease_until : Nat, lease_token : Nat]
    BY <1>1, <2>1, KnownTask DEF OpenTasks
  <2>3. /\ new.nodes = mem.nodes /\ new.grants = mem.grants
        /\ new.approvals = mem.approvals
        /\ new.audit = mem.audit \cup {Record("task.cancelled", n, t)}
        /\ new.tasks = [v \in TaskIds |-> IF v \in {t} THEN CancelledTask(mem.tasks[v])
                                          ELSE mem.tasks[v]]
    BY <1>1 DEF Cancelled, Logged, StoreType
  <2>4. new \in StoreType /\ Written(new) /\ n \in Nodes
    BY <1>2, <2>2, CancelTaskSound
    DEF Sound, CancelTask, persist_or_rollback, Written, Request
  <2> HIDE DEF new
  <2>5. TasksEnd(mem, new, {t}, "cancelled")
    BY <2>1, <2>2, <2>3 DEF TasksEnd, TaskKept, CancelledTask, TerminalStates
  <2>6. Ends(mem, new, t, "cancelled", "task.cancelled")
    BY <2>3, <2>4, <2>5, Unchanged DEF Ends
  <2> QED
    BY <2>4, <2>6 DEF StepIsChange, Changes, TerminalStates
<1>3. ASSUME NEW l \in held, NEW state \in Outcomes, AgentResult(l, state)
      PROVE  StepIsChange
  <2> DEFINE t == l.task
             n == mem.tasks[t].request.node
             new == Completed(mem, t, state)
  <2>1. t \in TaskIds /\ state \in TerminalStates
    BY InputsAreTyped DEF IInv, TypeOK, Lease
  <2>2. t \in OpenTasks(mem)
    BY <1>3, <2>1 DEF AgentResult, ResultAcceptable, OpenTasks
  <2>3. mem.tasks[t] \in [state : {"queued", "dispatched"} \cup TerminalStates,
                          request : Request, lease_until : Nat, lease_token : Nat]
    BY <1>1, <2>1, <2>2, KnownTask DEF OpenTasks
  <2>4. /\ new.nodes = mem.nodes /\ new.grants = mem.grants
        /\ new.approvals = mem.approvals
        /\ new.audit = mem.audit \cup {Record("task.completed", n, t)}
        /\ new.tasks = [mem.tasks EXCEPT ![t] = [mem.tasks[t] EXCEPT !.state = state]]
    BY <1>1 DEF Completed, Logged, StoreType
  <2>5. new \in StoreType /\ Written(new) /\ n \in Nodes
    BY <1>3, <2>3, AgentResultSound DEF Sound, AgentResult, Written, Request
  <2> HIDE DEF new, t
  <2>6. TasksEnd(mem, new, {t}, state)
    <3>1. \A v \in TaskIds \ {t} : new.tasks[v] = mem.tasks[v]
      BY <1>1, <2>4 DEF StoreType
    <3>2. new.tasks[t] = [mem.tasks[t] EXCEPT !.state = state]
      BY <1>1, <2>1, <2>4 DEF StoreType
    <3> QED
      BY <2>1, <2>2, <2>3, <3>1, <3>2 DEF TasksEnd, TaskKept
  <2>7. Ends(mem, new, t, state, "task.completed")
    BY <2>4, <2>5, <2>6, Unchanged DEF Ends
  <2> QED
    BY <2>1, <2>5, <2>7 DEF StepIsChange, Changes
<1> QED
  BY <1>2, <1>3

\* Every step changes memory and disk by one of the changes above.
LEMMA StepsAreChanges ==
  ASSUME IInv, [Next]_vars
  PROVE  StepIsChange
<1>1. CASE Restart
  BY <1>1 DEF Restart, StepIsChange, Reloaded
<1>2. CASE Tick \/ UNCHANGED vars
  <2>1. mem' = mem /\ disk' = disk /\ mem \in StoreType
    BY <1>2, MemoryTyped DEF Tick, vars
  <2>2. Alike(mem, mem)
    BY Unchanged DEF Alike
  <2> QED
    BY <2>1, <2>2 DEF StepIsChange, Changes, Slipped
<1> QED
  BY <1>1, <1>2, NodeStepsAreChanges, GrantAndApprovalStepsAreChanges, RevokeIsChange,
     DispatchIsChange, CreateTaskIsChange, EndIsChange
  DEF Next, NodeStep, TaskStep

\* A task that is written and read again is the same, but for its key.
LEMMA SavedTasks ==
  ASSUME NEW u \in StoreType, NEW t \in TaskIds
  PROVE  /\ TaskKept(u, Saved(u), t)
         /\ Saved(u).tasks[t].state = u.tasks[t].state
<1>1. u.tasks[t] \in Task /\ Saved(u).tasks[t] = SavedTask(u.tasks[t])
  BY DEF StoreType, Saved
<1>2. CASE u.tasks[t].state = "absent"
  BY <1>1, <1>2 DEF SavedTask, TaskKept
<1>3. CASE u.tasks[t].state # "absent"
  <2>1. u.tasks[t] \in [state : {"queued", "dispatched"} \cup TerminalStates,
                        request : Request, lease_until : Nat, lease_token : Nat]
    BY <1>1, <1>3, KnownTask
  <2> QED
    BY <1>1, <1>3, <2>1 DEF SavedTask, TaskKept
<1> QED
  BY <1>2, <1>3

\* What comes back of a store that is written and read again differs from it
\* in nothing that matters here.
LEMMA SavedAlike ==
  ASSUME NEW u \in StoreType
  PROVE  Changes(u, Saved(u))
<1>1. /\ Saved(u).nodes = u.nodes /\ Saved(u).grants = u.grants
      /\ Saved(u).approvals = u.approvals /\ Saved(u).audit = u.audit
  BY DEF Saved, StoreType
<1>2. Alike(u, Saved(u))
  BY <1>1, SavedTasks, Unchanged DEF Alike
<1> QED
  BY <1>2 DEF Changes

\* Where memory and disk end up, each a change or two away from where one of
\* them was: what such changes preserve, every step preserves.
LEMMA StoresFollowChanges ==
  ASSUME IInv, [Next]_vars
  PROVE  /\ mem' \in {mem, disk} \/ Changes(mem, mem')
         /\ \/ disk' = disk
            \/ \E new \in StoreType : Changes(mem, new) /\ Changes(new, disk')
         /\ mem \in StoreType /\ disk \in StoreType
         /\ mem' \in StoreType /\ disk' \in StoreType
<1>1. /\ mem \in StoreType /\ disk \in StoreType
      /\ mem' \in StoreType /\ disk' \in StoreType
  BY MemoryTyped, StepKeeps DEF Kept
<1>2. CASE Reloaded
  BY <1>1, <1>2 DEF Reloaded
<1>3. ASSUME NEW new \in StoreType, Changes(mem, new), Written(new) \/ Slipped(new)
      PROVE  /\ mem' \in {mem, disk} \/ Changes(mem, mem')
             /\ disk' = disk \/ Changes(new, disk')
  BY <1>3, SavedAlike, RefusedIsEither DEF Written, Slipped, Persisted
<1> QED
  BY <1>1, <1>2, <1>3, StepsAreChanges DEF StepIsChange

-----------------------------------------------------------------------------
(* The sets that are counted                                                *)

UsedApprovals(s) == {a \in ApprovalIds : s.approvals[a].status = "used"}

UsedGrants(s) == {g \in GrantCodes : s.grants[g].status = "used"}

RedeemedNodes(s) == {n \in Nodes : Record("grant.redeemed", n, None) \in s.audit}

\* There may be infinitely many identifiers; a store holds finitely many.
FinitelyMany(s) ==
  /\ IsFiniteSet(KnownTasks(s))
  /\ IsFiniteSet(UsedApprovals(s))
  /\ IsFiniteSet(UsedGrants(s))
  /\ IsFiniteSet(RedeemedNodes(s))

\* What each change does to the counted sets.
LEMMA ChangeCounts ==
  ASSUME NEW s, NEW u, Changes(s, u)
  PROVE  /\ \/ KnownTasks(u) = KnownTasks(s)
            \/ \E t \in TaskIds : KnownTasks(u) = KnownTasks(s) \cup {t}
         /\ \/ UsedApprovals(u) = UsedApprovals(s)
            \/ \E a \in ApprovalIds : UsedApprovals(u) = UsedApprovals(s) \cup {a}
         /\ \/ UsedGrants(u) = UsedGrants(s) /\ RedeemedNodes(u) = RedeemedNodes(s)
            \/ \E g \in GrantCodes :
                 UsedGrants(u) = UsedGrants(s) \cup {g} /\ RedeemedNodes(u) = RedeemedNodes(s)
            \/ \E g \in GrantCodes \ UsedGrants(s), n \in Nodes :
                 /\ UsedGrants(u) = UsedGrants(s) \cup {g}
                 /\ RedeemedNodes(u) = RedeemedNodes(s) \cup {n}
<1>1. (\A t \in TaskIds : TaskKept(s, u, t)) => KnownTasks(u) = KnownTasks(s)
  BY DEF KnownTasks, TaskKept
<1>2. /\ \A a : ApprovalsSpent(s, u, {a}) /\ a \in ApprovalIds =>
                  UsedApprovals(u) = UsedApprovals(s) \cup {a}
      /\ ApprovalsSpent(s, u, {}) => UsedApprovals(u) = UsedApprovals(s)
  BY DEF UsedApprovals, ApprovalsSpent
<1>3. /\ \A g : GrantsSpent(s, u, {g}) /\ g \in GrantCodes =>
                  UsedGrants(u) = UsedGrants(s) \cup {g}
      /\ GrantsSpent(s, u, {}) => UsedGrants(u) = UsedGrants(s)
  BY DEF UsedGrants, GrantsSpent
<1>4. s.audit \subseteq u.audit
        /\ (\A r \in u.audit \ s.audit : r.event # "grant.redeemed")
        => RedeemedNodes(u) = RedeemedNodes(s)
  <2>1. \A n : Record("grant.redeemed", n, None).event = "grant.redeemed"
    BY DEF Record
  <2> QED
    BY <2>1 DEF RedeemedNodes
<1>5. CASE Alike(s, u)
  BY <1>1, <1>2, <1>3, <1>4, <1>5 DEF Alike, Bystander
<1>6. ASSUME NEW n \in Nodes, Enrols(s, u, n)
      PROVE  /\ KnownTasks(u) = KnownTasks(s) /\ UsedApprovals(u) = UsedApprovals(s)
             /\ UsedGrants(u) = UsedGrants(s) /\ RedeemedNodes(u) = RedeemedNodes(s)
  BY <1>1, <1>2, <1>3, <1>4, <1>6 DEF Enrols, Record
<1>7. ASSUME NEW g \in GrantCodes, NEW n \in Nodes, Redeems(s, u, g, n)
      PROVE  /\ KnownTasks(u) = KnownTasks(s) /\ UsedApprovals(u) = UsedApprovals(s)
             /\ UsedGrants(u) = UsedGrants(s) \cup {g} /\ g \notin UsedGrants(s)
             /\ RedeemedNodes(u) = RedeemedNodes(s) \cup {n}
  <2>1. RedeemedNodes(u) = RedeemedNodes(s) \cup {n}
    BY <1>7 DEF Redeems, RedeemedNodes, Record
  <2> QED
    BY <1>1, <1>2, <1>3, <1>7, <2>1 DEF Redeems, UsedGrants
<1>8. ASSUME NEW g \in GrantCodes, Spends(s, u, g)
      PROVE  /\ KnownTasks(u) = KnownTasks(s) /\ UsedApprovals(u) = UsedApprovals(s)
             /\ UsedGrants(u) = UsedGrants(s) \cup {g}
             /\ RedeemedNodes(u) = RedeemedNodes(s)
  BY <1>1, <1>2, <1>3, <1>4, <1>8 DEF Spends
<1>9. ASSUME NEW t \in TaskIds, NEW req \in Requests, TaskAdmitted(s, u, t, req)
      PROVE  KnownTasks(u) = KnownTasks(s) \cup {t}
  BY <1>9 DEF TaskAdmitted, KnownTasks, TaskKept
<1>10. ASSUME NEW t \in TaskIds, NEW req \in Requests, Admits(s, u, t, req)
       PROVE  /\ KnownTasks(u) = KnownTasks(s) \cup {t}
              /\ UsedApprovals(u) = UsedApprovals(s)
              /\ UsedGrants(u) = UsedGrants(s) /\ RedeemedNodes(u) = RedeemedNodes(s)
  BY <1>2, <1>3, <1>4, <1>9, <1>10 DEF Admits, Record
<1>11. ASSUME NEW t \in TaskIds, NEW req \in Requests, NEW a \in ApprovalIds,
              AdmitsApproved(s, u, t, req, a)
       PROVE  /\ KnownTasks(u) = KnownTasks(s) \cup {t}
              /\ UsedApprovals(u) = UsedApprovals(s) \cup {a}
              /\ UsedGrants(u) = UsedGrants(s) /\ RedeemedNodes(u) = RedeemedNodes(s)
  BY <1>2, <1>3, <1>4, <1>9, <1>11 DEF AdmitsApproved, Record
<1>12. ASSUME NEW ts, NEW outcome, TasksEnd(s, u, ts, outcome)
       PROVE  KnownTasks(u) = KnownTasks(s)
  BY <1>12 DEF TasksEnd, KnownTasks, OpenTasks, TaskKept, TerminalStates
<1>13. ASSUME NEW t \in TaskIds, NEW outcome \in TerminalStates,
              NEW event \in {"task.completed", "task.cancelled"},
              Ends(s, u, t, outcome, event)
       PROVE  /\ KnownTasks(u) = KnownTasks(s) /\ UsedApprovals(u) = UsedApprovals(s)
              /\ UsedGrants(u) = UsedGrants(s) /\ RedeemedNodes(u) = RedeemedNodes(s)
  BY <1>2, <1>3, <1>4, <1>12, <1>13 DEF Ends, Record
<1>14. ASSUME NEW n \in Nodes, NEW ts \in SUBSET TaskIds, Revokes(s, u, n, ts)
       PROVE  /\ KnownTasks(u) = KnownTasks(s) /\ UsedApprovals(u) = UsedApprovals(s)
              /\ UsedGrants(u) = UsedGrants(s) /\ RedeemedNodes(u) = RedeemedNodes(s)
  BY <1>2, <1>3, <1>4, <1>12, <1>14 DEF Revokes, Record
<1>15. ASSUME NEW ts \in SUBSET TaskIds, Dispatches(s, u, ts)
       PROVE  /\ KnownTasks(u) = KnownTasks(s) /\ UsedApprovals(u) = UsedApprovals(s)
              /\ UsedGrants(u) = UsedGrants(s) /\ RedeemedNodes(u) = RedeemedNodes(s)
  <2>1. KnownTasks(u) = KnownTasks(s)
    BY <1>15 DEF Dispatches, KnownTasks, OpenTasks, TaskKept
  <2> QED
    BY <1>2, <1>3, <1>4, <1>15, <2>1 DEF Dispatches, Bystander
<1> QED
  BY <1>5, <1>6, <1>7, <1>8, <1>10, <1>11, <1>13, <1>14, <1>15 DEF Changes

\* The counted sets stay finite.
LEMMA ChangeStaysFinite ==
  ASSUME NEW s, NEW u, Changes(s, u), FinitelyMany(s)
  PROVE  FinitelyMany(u)
BY ChangeCounts, FS_AddElement DEF FinitelyMany

\* A grant that enrols a node is one more grant that is used.
LEMMA ChangeRedeems ==
  ASSUME NEW s, NEW u, Changes(s, u), FinitelyMany(s), RedeemedWithin(s)
  PROVE  RedeemedWithin(u)
<1> DEFINE nodes == Cardinality(RedeemedNodes(s))
           grants == Cardinality(UsedGrants(s))
<1>1. \A v : RedeemedWithin(v) <=>
               Cardinality(RedeemedNodes(v)) <= Cardinality(UsedGrants(v))
  BY DEF RedeemedWithin, RedeemedNodes, UsedGrants
<1>2. /\ IsFiniteSet(RedeemedNodes(s)) /\ nodes \in Nat
      /\ IsFiniteSet(UsedGrants(s)) /\ grants \in Nat
      /\ nodes <= grants
  BY <1>1, FS_CardinalityType DEF FinitelyMany
<1>3. \A g : Cardinality(UsedGrants(s) \cup {g}) =
               IF g \in UsedGrants(s) THEN grants ELSE grants + 1
  BY <1>2, FS_AddElement
<1>4. \A n : Cardinality(RedeemedNodes(s) \cup {n}) =
               IF n \in RedeemedNodes(s) THEN nodes ELSE nodes + 1
  BY <1>2, FS_AddElement
<1> HIDE DEF nodes, grants
<1>5. Cardinality(RedeemedNodes(u)) <= Cardinality(UsedGrants(u))
  BY <1>2, <1>3, <1>4, ChangeCounts DEF nodes, grants
<1> QED
  BY <1>1, <1>5

-----------------------------------------------------------------------------
(* Approvals                                                                *)

BackedTasks(s, scope) == {t \in KnownTasks(s) : ScopeOf(s.tasks[t].request) = scope}

SpentOn(s, scope) ==
  {a \in ApprovalIds : s.approvals[a].status = "used" /\ s.approvals[a].scope = scope}

\* Cleaning a key is no change of scope.
LEMMA SameScope ==
  ASSUME NEW s \in StoreType, NEW u, NEW t \in TaskIds, s.tasks[t].state # "absent",
         u.tasks[t].request \in {s.tasks[t].request, SavedRequest(s.tasks[t].request)}
  PROVE  ScopeOf(u.tasks[t].request) = ScopeOf(s.tasks[t].request)
<1>1. s.tasks[t].request \in Request
  BY KnownTask DEF StoreType
<1> QED
  BY <1>1 DEF SavedRequest, ScopeOf, Request

\* Where an approval record is needed, a task more is an approval less.
LEMMA ChangeBacks ==
  ASSUME NEW s \in StoreType, NEW u, Changes(s, u),
         NEW scope, NeedsRecord(scope.ability)
  PROVE  \/ /\ BackedTasks(u, scope) = BackedTasks(s, scope)
            /\ SpentOn(u, scope) = SpentOn(s, scope)
         \/ \E t \in TaskIds \ KnownTasks(s), a \in ApprovalIds \ UsedApprovals(s) :
              /\ BackedTasks(u, scope) = BackedTasks(s, scope) \cup {t}
              /\ SpentOn(u, scope) = SpentOn(s, scope) \cup {a}
<1>1. ASSUME \A t \in TaskIds :
               /\ u.tasks[t].state # "absent" <=> s.tasks[t].state # "absent"
               /\ s.tasks[t].state # "absent" =>
                    u.tasks[t].request \in {s.tasks[t].request,
                                            SavedRequest(s.tasks[t].request)}
      PROVE  BackedTasks(u, scope) = BackedTasks(s, scope)
  BY <1>1, SameScope DEF BackedTasks, KnownTasks
<1>2. ApprovalsSpent(s, u, {}) => SpentOn(u, scope) = SpentOn(s, scope)
  BY DEF ApprovalsSpent, SpentOn
<1>3. (\A t \in TaskIds : TaskKept(s, u, t)) => BackedTasks(u, scope) = BackedTasks(s, scope)
  BY <1>1 DEF TaskKept
<1>4. ASSUME NEW ts, NEW outcome, TasksEnd(s, u, ts, outcome)
      PROVE  BackedTasks(u, scope) = BackedTasks(s, scope)
  BY <1>1, <1>4 DEF TasksEnd, OpenTasks, TaskKept, TerminalStates
<1>5. ASSUME NEW ts, Dispatches(s, u, ts)
      PROVE  BackedTasks(u, scope) = BackedTasks(s, scope)
  BY <1>1, <1>5 DEF Dispatches, OpenTasks, TaskKept
<1>6. ASSUME NEW t \in TaskIds, NEW req \in Requests, TaskAdmitted(s, u, t, req)
      PROVE  /\ t \notin KnownTasks(s)
             /\ BackedTasks(u, scope) = IF ScopeOf(req) = scope
                                        THEN BackedTasks(s, scope) \cup {t}
                                        ELSE BackedTasks(s, scope)
  <2>1. /\ s.tasks[t].state = "absent" /\ u.tasks[t].state # "absent"
        /\ u.tasks[t].request = req
        /\ \A v \in TaskIds \ {t} : TaskKept(s, u, v)
    BY <1>6 DEF TaskAdmitted
  <2>2. \A v \in TaskIds \ {t} :
          v \in BackedTasks(u, scope) <=> v \in BackedTasks(s, scope)
    BY <2>1, SameScope DEF TaskKept, BackedTasks, KnownTasks
  <2>3. t \notin BackedTasks(s, scope)
        /\ (t \in BackedTasks(u, scope) <=> ScopeOf(req) = scope)
    BY <2>1 DEF BackedTasks, KnownTasks
  <2>4. BackedTasks(u, scope) \subseteq TaskIds /\ BackedTasks(s, scope) \subseteq TaskIds
    BY DEF BackedTasks, KnownTasks
  <2> QED
    BY <2>1, <2>2, <2>3, <2>4 DEF KnownTasks
<1>7. ASSUME NEW t \in TaskIds, NEW req \in Requests, Admits(s, u, t, req)
      PROVE  /\ BackedTasks(u, scope) = BackedTasks(s, scope)
             /\ SpentOn(u, scope) = SpentOn(s, scope)
  <2>1. ScopeOf(req) # scope
    BY <1>7 DEF Admits, ScopeOf
  <2> QED
    BY <1>2, <1>6, <1>7, <2>1 DEF Admits
<1>8. ASSUME NEW t \in TaskIds, NEW req \in Requests, NEW a \in ApprovalIds,
             AdmitsApproved(s, u, t, req, a)
      PROVE  /\ t \notin KnownTasks(s) /\ a \notin UsedApprovals(s)
             /\ \/ /\ ScopeOf(req) = scope
                   /\ BackedTasks(u, scope) = BackedTasks(s, scope) \cup {t}
                   /\ SpentOn(u, scope) = SpentOn(s, scope) \cup {a}
                \/ /\ BackedTasks(u, scope) = BackedTasks(s, scope)
                   /\ SpentOn(u, scope) = SpentOn(s, scope)
  <2>1. /\ s.approvals[a].status # "used" /\ s.approvals[a].scope = ScopeOf(req)
        /\ ApprovalsSpent(s, u, {a}) /\ TaskAdmitted(s, u, t, req)
    BY <1>8 DEF AdmitsApproved
  <2>2. SpentOn(u, scope) = IF ScopeOf(req) = scope THEN SpentOn(s, scope) \cup {a}
                            ELSE SpentOn(s, scope)
    BY <2>1 DEF SpentOn, ApprovalsSpent
  <2> QED
    BY <1>6, <2>1, <2>2 DEF UsedApprovals
<1> QED
  BY <1>2, <1>3, <1>4, <1>5, <1>7, <1>8
  DEF Changes, Alike, Enrols, Redeems, Spends, Ends, Revokes, Dispatches

\* Approvals and the tasks they back are counted up together.
LEMMA ChangeBalances ==
  ASSUME NEW s \in StoreType, NEW u, Changes(s, u), FinitelyMany(s), Balanced(s)
  PROVE  Balanced(u)
<1> SUFFICES ASSUME NEW scope \in {ScopeOf(req) : req \in Requests},
                    NeedsRecord(scope.ability)
             PROVE  Cardinality(BackedTasks(u, scope)) = Cardinality(SpentOn(u, scope))
  BY DEF Balanced, BackedTasks, SpentOn
<1>1. Cardinality(BackedTasks(s, scope)) = Cardinality(SpentOn(s, scope))
  BY DEF Balanced, BackedTasks, SpentOn
<1>2. BackedTasks(s, scope) \subseteq KnownTasks(s) /\ SpentOn(s, scope) \subseteq UsedApprovals(s)
  BY DEF BackedTasks, SpentOn, UsedApprovals
<1>3. IsFiniteSet(BackedTasks(s, scope)) /\ IsFiniteSet(SpentOn(s, scope))
  BY <1>2, FS_Subset DEF FinitelyMany
<1>4. CASE /\ BackedTasks(u, scope) = BackedTasks(s, scope)
           /\ SpentOn(u, scope) = SpentOn(s, scope)
  BY <1>1, <1>4
<1>5. ASSUME NEW t \in TaskIds \ KnownTasks(s), NEW a \in ApprovalIds \ UsedApprovals(s),
             BackedTasks(u, scope) = BackedTasks(s, scope) \cup {t},
             SpentOn(u, scope) = SpentOn(s, scope) \cup {a}
      PROVE  Cardinality(BackedTasks(u, scope)) = Cardinality(SpentOn(u, scope))
  <2>1. t \notin BackedTasks(s, scope) /\ a \notin SpentOn(s, scope)
    BY <1>2
  <2>2. Cardinality(BackedTasks(u, scope)) = Cardinality(BackedTasks(s, scope)) + 1
    BY <1>3, <1>5, <2>1, FS_AddElement
  <2>3. Cardinality(SpentOn(u, scope)) = Cardinality(SpentOn(s, scope)) + 1
    BY <1>3, <1>5, <2>1, FS_AddElement
  <2> QED
    BY <1>1, <2>2, <2>3
<1> QED
  BY <1>4, <1>5, ChangeBacks

-----------------------------------------------------------------------------
(* The audit trail                                                          *)

\* The three parts of Accounted.
NodesAccounted(s) ==
  \A n \in Nodes :
    /\ s.nodes[n].status # "absent" <=>
         \E e \in {"node.created", "grant.redeemed"} : Record(e, n, None) \in s.audit
    /\ s.nodes[n].status = "revoked" <=> Record("node.revoked", n, None) \in s.audit

ApprovalsAccounted(s) ==
  \A a \in ApprovalIds : s.approvals[a].status = "used" <=>
    \E n \in Nodes : Record("approval.consumed", n, a) \in s.audit

TasksAccounted(s) ==
  \A t \in TaskIds :
    /\ s.tasks[t].state # "absent" <=>
         \E n \in Nodes : Record("task.accepted", n, t) \in s.audit
    /\ s.tasks[t].state \in TerminalStates <=>
         \E n \in Nodes, e \in {"task.completed", "task.cancelled",
                                "task.cancelled_by_node_revoke"} :
           Record(e, n, t) \in s.audit

LEMMA AccountedParts ==
  ASSUME NEW s
  PROVE  Accounted(s) <=> NodesAccounted(s) /\ ApprovalsAccounted(s) /\ TasksAccounted(s)
BY DEF Accounted, NodesAccounted, ApprovalsAccounted, TasksAccounted, KnownTasks

\* The trail of u says of the events in es what that of s says.
SaysAlike(s, u, es) ==
  \A e \in es : \A n, x :
    Record(e, n, x) \in u.audit <=> Record(e, n, x) \in s.audit

NodeEvents == {"node.created", "grant.redeemed", "node.revoked"}
TaskEvents == {"task.accepted", "task.completed", "task.cancelled",
               "task.cancelled_by_node_revoke"}

\* Records of other events say nothing of those in es.
LEMMA OtherEvents ==
  ASSUME NEW s, NEW u, NEW es, s.audit \subseteq u.audit,
         \A r \in u.audit \ s.audit : r.event \notin es
  PROVE  SaysAlike(s, u, es)
<1>1. \A e, n, x : Record(e, n, x).event = e
  BY DEF Record
<1> QED
  BY <1>1 DEF SaysAlike

\* What an admission adds to the trail, with an approval or without.
LEMMA AdmissionRecords ==
  ASSUME NEW s, NEW u, NEW t, NEW req,
         Admits(s, u, t, req) \/ \E a \in ApprovalIds : AdmitsApproved(s, u, t, req, a)
  PROVE  /\ s.audit \subseteq u.audit
         /\ \A r \in u.audit \ s.audit :
              \/ r = Record("task.accepted", req.node, t)
              \/ r.event \in {"approval.consumed", "policy.allowed"}
         /\ Record("task.accepted", req.node, t) \in u.audit
         /\ TaskAdmitted(s, u, t, req)
         /\ NodesTurn(s, u, {}, "absent")
<1>1. CASE Admits(s, u, t, req)
  BY <1>1 DEF Admits, Record
<1>2. ASSUME NEW a \in ApprovalIds, AdmitsApproved(s, u, t, req, a)
      PROVE  /\ s.audit \subseteq u.audit
             /\ \A r \in u.audit \ s.audit :
                  \/ r = Record("task.accepted", req.node, t)
                  \/ r.event \in {"approval.consumed", "policy.allowed"}
             /\ Record("task.accepted", req.node, t) \in u.audit
             /\ TaskAdmitted(s, u, t, req)
             /\ NodesTurn(s, u, {}, "absent")
  BY <1>2 DEF AdmitsApproved, Record
<1> QED
  BY <1>1, <1>2

\* What an enrolment, or an attempt at one, adds to the trail.
LEMMA EnrolmentRecords ==
  ASSUME NEW s, NEW u,
         \/ \E n \in Nodes : Enrols(s, u, n)
         \/ \E g \in GrantCodes, n \in Nodes : Redeems(s, u, g, n)
         \/ \E g \in GrantCodes : Spends(s, u, g)
  PROVE  /\ s.audit \subseteq u.audit
         /\ \A r \in u.audit \ s.audit : r.event \in {"node.created", "grant.redeemed"}
         /\ \A t \in TaskIds : TaskKept(s, u, t)
<1> DEFINE G == /\ s.audit \subseteq u.audit
                /\ \A r \in u.audit \ s.audit :
                     r.event \in {"node.created", "grant.redeemed"}
                /\ \A t \in TaskIds : TaskKept(s, u, t)
<1>1. ASSUME NEW n \in Nodes, Enrols(s, u, n)
      PROVE  G
  BY <1>1 DEF Enrols, Record
<1>2. ASSUME NEW g \in GrantCodes, NEW n \in Nodes, Redeems(s, u, g, n)
      PROVE  G
  BY <1>2 DEF Redeems, Record
<1>3. ASSUME NEW g \in GrantCodes, Spends(s, u, g)
      PROVE  G
  BY <1>3 DEF Spends
<1> QED
  BY <1>1, <1>2, <1>3

\* What a change says of nodes is what they become.
LEMMA ChangeAccountsNodes ==
  ASSUME NEW s, NEW u, Changes(s, u), NodesAccounted(s)
  PROVE  NodesAccounted(u)
<1>1. ASSUME NodesTurn(s, u, {}, "absent"), SaysAlike(s, u, NodeEvents)
      PROVE  NodesAccounted(u)
  BY <1>1 DEF NodesTurn, SaysAlike, NodeEvents, NodesAccounted
<1>2. CASE Alike(s, u) \/ \E ts \in SUBSET TaskIds : Dispatches(s, u, ts)
  <2>1. SaysAlike(s, u, NodeEvents)
    BY <1>2, OtherEvents DEF Alike, Dispatches, Bystander, NodeEvents
  <2> QED
    BY <1>1, <1>2, <2>1 DEF Alike, Dispatches
<1>3. ASSUME NEW n \in Nodes, Enrols(s, u, n) \/ \E g \in GrantCodes : Redeems(s, u, g, n)
      PROVE  NodesAccounted(u)
  <2>1. /\ s.nodes[n].status = "absent"
        /\ NodesTurn(s, u, {n}, "online")
        /\ \E e \in {"node.created", "grant.redeemed"} :
             u.audit = s.audit \cup {Record(e, n, None)}
    BY <1>3 DEF Enrols, Redeems
  <2> QED
    BY <2>1 DEF NodesTurn, NodesAccounted, Record
<1>4. CASE \E g \in GrantCodes : Spends(s, u, g)
  BY <1>1, <1>4 DEF Spends, SaysAlike
<1>5. ASSUME NEW t \in TaskIds, NEW req \in Requests,
             \/ Admits(s, u, t, req)
             \/ \E a \in ApprovalIds : AdmitsApproved(s, u, t, req, a)
      PROVE  NodesAccounted(u)
  <2>1. /\ s.audit \subseteq u.audit
        /\ \A r \in u.audit \ s.audit :
             \/ r = Record("task.accepted", req.node, t)
             \/ r.event \in {"approval.consumed", "policy.allowed"}
        /\ Record("task.accepted", req.node, t) \in u.audit
        /\ TaskAdmitted(s, u, t, req)
        /\ NodesTurn(s, u, {}, "absent")
    BY <1>5, AdmissionRecords
  <2>2. \A r \in u.audit \ s.audit : r.event \notin NodeEvents
    BY <2>1 DEF NodeEvents, Record
  <2>3. SaysAlike(s, u, NodeEvents)
    BY <2>1, <2>2, OtherEvents
  <2> QED
    BY <1>1, <2>1, <2>3
<1>6. ASSUME NEW t \in TaskIds, NEW outcome \in TerminalStates,
             NEW event \in {"task.completed", "task.cancelled"},
             Ends(s, u, t, outcome, event)
      PROVE  NodesAccounted(u)
  <2>1. SaysAlike(s, u, NodeEvents)
    BY <1>6, OtherEvents DEF Ends, NodeEvents, Record
  <2> QED
    BY <1>1, <1>6, <2>1 DEF Ends
<1>7. ASSUME NEW n \in Nodes, NEW ts \in SUBSET TaskIds, Revokes(s, u, n, ts)
      PROVE  NodesAccounted(u)
  <2>1. /\ s.nodes[n].status # "absent"
        /\ NodesTurn(s, u, {n}, "revoked")
        /\ \A e \in NodeEvents : \A m : Record(e, m, None) \in u.audit <=>
             Record(e, m, None) \in s.audit \/ (e = "node.revoked" /\ m = n)
    BY <1>7 DEF Revokes, NodeEvents, Record
  <2> QED
    BY <2>1 DEF NodesTurn, NodesAccounted, NodeEvents
<1> QED
  BY <1>2, <1>3, <1>4, <1>5, <1>6, <1>7 DEF Changes

\* What a change says of approvals is what they become.
LEMMA ChangeAccountsApprovals ==
  ASSUME NEW s, NEW u, Changes(s, u), ApprovalsAccounted(s)
  PROVE  ApprovalsAccounted(u)
<1>1. ASSUME ApprovalsSpent(s, u, {}), SaysAlike(s, u, {"approval.consumed"})
      PROVE  ApprovalsAccounted(u)
  BY <1>1 DEF ApprovalsSpent, SaysAlike, ApprovalsAccounted
<1>2. ASSUME NEW t \in TaskIds, NEW req \in Requests, NEW a \in ApprovalIds,
             AdmitsApproved(s, u, t, req, a)
      PROVE  ApprovalsAccounted(u)
  <2>1. req.node \in Nodes
    BY InputsAreTyped DEF Request
  <2>2. /\ ApprovalsSpent(s, u, {a})
        /\ \A n, b : Record("approval.consumed", n, b) \in u.audit <=>
             Record("approval.consumed", n, b) \in s.audit \/ (n = req.node /\ b = a)
    BY <1>2 DEF AdmitsApproved, Record
  <2> QED
    BY <2>1, <2>2 DEF ApprovalsSpent, ApprovalsAccounted
<1>3. CASE ~\E t \in TaskIds, req \in Requests, a \in ApprovalIds :
              AdmitsApproved(s, u, t, req, a)
  <2>1. ApprovalsSpent(s, u, {})
    BY <1>3 DEF Changes, Alike, Enrols, Redeems, Spends, Admits, Ends, Revokes, Dispatches
  <2>2. CASE Alike(s, u) \/ \E ts \in SUBSET TaskIds : Dispatches(s, u, ts)
    BY <1>1, <2>1, <2>2, OtherEvents DEF Alike, Dispatches, Bystander
  <2>3. CASE \/ \E n \in Nodes : Enrols(s, u, n)
             \/ \E g \in GrantCodes, n \in Nodes : Redeems(s, u, g, n)
             \/ \E g \in GrantCodes : Spends(s, u, g)
    <3>1. /\ s.audit \subseteq u.audit
          /\ \A r \in u.audit \ s.audit : r.event \in {"node.created", "grant.redeemed"}
      BY <2>3, EnrolmentRecords
    <3> QED
      BY <1>1, <2>1, <3>1, OtherEvents
  <2>4. ASSUME NEW t \in TaskIds, NEW req \in Requests, Admits(s, u, t, req)
        PROVE  ApprovalsAccounted(u)
    BY <1>1, <2>1, <2>4, OtherEvents DEF Admits, Record
  <2>5. ASSUME NEW t \in TaskIds, NEW outcome \in TerminalStates,
               NEW event \in {"task.completed", "task.cancelled"},
               Ends(s, u, t, outcome, event)
        PROVE  ApprovalsAccounted(u)
    BY <1>1, <2>1, <2>5, OtherEvents DEF Ends, Record
  <2>6. ASSUME NEW n \in Nodes, NEW ts \in SUBSET TaskIds, Revokes(s, u, n, ts)
        PROVE  ApprovalsAccounted(u)
    BY <1>1, <2>1, <2>6, OtherEvents DEF Revokes, Record
  <2> QED
    BY <1>3, <2>2, <2>3, <2>4, <2>5, <2>6 DEF Changes
<1> QED
  BY <1>2, <1>3

\* What a change says of tasks is what they become.
LEMMA ChangeAccountsTasks ==
  ASSUME NEW s \in StoreType, NEW u, Changes(s, u), TasksAccounted(s)
  PROVE  TasksAccounted(u)
<1>1. ASSUME \A t \in TaskIds :
               /\ u.tasks[t].state # "absent" <=> s.tasks[t].state # "absent"
               /\ u.tasks[t].state \in TerminalStates <=>
                    s.tasks[t].state \in TerminalStates,
             SaysAlike(s, u, TaskEvents)
      PROVE  TasksAccounted(u)
  BY <1>1 DEF SaysAlike, TasksAccounted, TaskEvents
<1>2. CASE Alike(s, u) \/ \E ts \in SUBSET TaskIds : Dispatches(s, u, ts)
  <2>1. SaysAlike(s, u, TaskEvents)
    <3>1. s.audit \subseteq u.audit /\ \A r \in u.audit \ s.audit : r.event \in Bystander
      BY <1>2 DEF Alike, Dispatches
    <3>2. \A r \in u.audit \ s.audit : r.event \notin TaskEvents
      BY <3>1 DEF Bystander, TaskEvents
    <3> QED
      BY <3>1, <3>2, OtherEvents
  <2>2. \A t \in TaskIds :
          /\ u.tasks[t].state # "absent" <=> s.tasks[t].state # "absent"
          /\ u.tasks[t].state \in TerminalStates <=> s.tasks[t].state \in TerminalStates
    BY <1>2 DEF Alike, Dispatches, TaskKept, OpenTasks, TerminalStates
  <2> QED
    BY <1>1, <2>1, <2>2
<1>3. CASE \/ \E n \in Nodes : Enrols(s, u, n)
           \/ \E g \in GrantCodes, n \in Nodes : Redeems(s, u, g, n)
           \/ \E g \in GrantCodes : Spends(s, u, g)
  <2>1. /\ s.audit \subseteq u.audit
        /\ \A r \in u.audit \ s.audit : r.event \in {"node.created", "grant.redeemed"}
        /\ \A t \in TaskIds : TaskKept(s, u, t)
    BY <1>3, EnrolmentRecords
  <2>2. \A r \in u.audit \ s.audit : r.event \notin TaskEvents
    BY <2>1 DEF TaskEvents
  <2>3. SaysAlike(s, u, TaskEvents)
    BY <2>1, <2>2, OtherEvents
  <2> QED
    BY <1>1, <2>1, <2>3 DEF TaskKept
<1>4. ASSUME NEW t \in TaskIds, NEW req \in Requests,
             \/ Admits(s, u, t, req)
             \/ \E a \in ApprovalIds : AdmitsApproved(s, u, t, req, a)
      PROVE  TasksAccounted(u)
  <2>1. req.node \in Nodes
    BY InputsAreTyped DEF Request
  <2>5. /\ s.audit \subseteq u.audit
        /\ \A r \in u.audit \ s.audit :
             \/ r = Record("task.accepted", req.node, t)
             \/ r.event \in {"approval.consumed", "policy.allowed"}
        /\ Record("task.accepted", req.node, t) \in u.audit
        /\ TaskAdmitted(s, u, t, req)
        /\ NodesTurn(s, u, {}, "absent")
    BY <1>4, AdmissionRecords
  <2>2. /\ s.tasks[t].state = "absent" /\ u.tasks[t].state = "queued"
        /\ \A v \in TaskIds \ {t} : u.tasks[v].state = s.tasks[v].state
    BY <2>5 DEF TaskAdmitted, TaskKept
  <2>3. \A e \in TaskEvents : \A n, v : Record(e, n, v) \in u.audit <=>
          Record(e, n, v) \in s.audit \/ (e = "task.accepted" /\ n = req.node /\ v = t)
    BY <2>5 DEF TaskEvents, Record
  <2> QED
    BY <2>1, <2>2, <2>3 DEF TasksAccounted, TaskEvents, TerminalStates
<1>5. ASSUME NEW ts \in SUBSET TaskIds, NEW outcome, TasksEnd(s, u, ts, outcome)
      PROVE  \A t \in TaskIds :
               /\ u.tasks[t].state # "absent" <=> s.tasks[t].state # "absent"
               /\ u.tasks[t].state \in TerminalStates <=>
                    s.tasks[t].state \in TerminalStates \/ t \in ts
  BY <1>5 DEF TasksEnd, OpenTasks, TaskKept, TerminalStates
<1>6. ASSUME NEW t \in TaskIds, NEW outcome \in TerminalStates,
             NEW event \in {"task.completed", "task.cancelled"},
             Ends(s, u, t, outcome, event)
      PROVE  TasksAccounted(u)
  <2>1. PICK n \in Nodes : u.audit = s.audit \cup {Record(event, n, t)}
    BY <1>6 DEF Ends
  <2>2. \A e \in TaskEvents : \A m, v : Record(e, m, v) \in u.audit <=>
          Record(e, m, v) \in s.audit \/ (e = event /\ m = n /\ v = t)
    BY <2>1 DEF Record
  <2>3. TasksEnd(s, u, {t}, outcome)
    BY <1>6 DEF Ends
  <2> QED
    BY <1>5, <2>2, <2>3 DEF TasksAccounted, TaskEvents
<1>7. ASSUME NEW n \in Nodes, NEW ts \in SUBSET TaskIds, Revokes(s, u, n, ts)
      PROVE  TasksAccounted(u)
  <2>1. \A e \in TaskEvents : \A m, v : Record(e, m, v) \in u.audit <=>
          \/ Record(e, m, v) \in s.audit
          \/ e = "task.cancelled_by_node_revoke" /\ m = n /\ v \in ts
    BY <1>7 DEF Revokes, TaskEvents, Record
  <2>2. TasksEnd(s, u, ts, "cancelled")
    BY <1>7 DEF Revokes
  <2> QED
    BY <1>5, <2>1, <2>2 DEF TasksAccounted, TaskEvents
<1> QED
  BY <1>2, <1>3, <1>4, <1>6, <1>7 DEF Changes

LEMMA ChangeAccounts ==
  ASSUME NEW s \in StoreType, NEW u, Changes(s, u), Accounted(s)
  PROVE  Accounted(u)
BY AccountedParts, ChangeAccountsNodes, ChangeAccountsApprovals, ChangeAccountsTasks

-----------------------------------------------------------------------------
(* Idempotency keys                                                         *)

\* No request carries a key that clean would change.
CleanKeys == \A req \in Requests : clean(req.key) = req.key

\* The keys of known tasks are clean: they survive a restart as they are.
KeysClean(s) == \A t \in KnownTasks(s) : clean(s.tasks[t].request.key) = s.tasks[t].request.key

\* A key is looked up among all known tasks before one is admitted with it,
\* and a clean key is found again.
LEMMA ChangeKeepsKeys ==
  ASSUME NEW s \in StoreType, NEW u, Changes(s, u), CleanKeys, KeysClean(s), KeyUnique(s)
  PROVE  KeysClean(u) /\ KeyUnique(u)
<1> DEFINE SameKeys(ts) == \A t \in ts :
             /\ u.tasks[t].state # "absent" <=> s.tasks[t].state # "absent"
             /\ s.tasks[t].state # "absent" =>
                  u.tasks[t].request.key = s.tasks[t].request.key
<1>1. \A t \in TaskIds : s.tasks[t].state # "absent" =>
        SavedRequest(s.tasks[t].request).key = s.tasks[t].request.key
  <2>1. \A t \in TaskIds : s.tasks[t].state # "absent" => s.tasks[t].request \in Request
    BY KnownTask DEF StoreType
  <2> QED
    BY <2>1 DEF SavedRequest, Request, KeysClean, KnownTasks
<1>2. \A ts \in SUBSET TaskIds : (\A t \in ts : TaskKept(s, u, t)) => SameKeys(ts)
  BY <1>1 DEF TaskKept
<1>3. ASSUME SameKeys(TaskIds)
      PROVE  KeysClean(u) /\ KeyUnique(u)
  BY <1>3 DEF KeysClean, KeyUnique, KnownTasks
<1>4. ASSUME NEW ts \in SUBSET TaskIds, NEW outcome, TasksEnd(s, u, ts, outcome)
      PROVE  SameKeys(TaskIds)
  <2>1. SameKeys(TaskIds \ ts)
    BY <1>2, <1>4 DEF TasksEnd
  <2>2. SameKeys(ts)
    BY <1>4 DEF TasksEnd, OpenTasks, TerminalStates
  <2> QED
    BY <2>1, <2>2
<1>5. ASSUME NEW ts \in SUBSET TaskIds, Dispatches(s, u, ts)
      PROVE  SameKeys(TaskIds)
  <2>1. SameKeys(TaskIds \ ts)
    BY <1>2, <1>5 DEF Dispatches
  <2>2. SameKeys(ts)
    BY <1>5 DEF Dispatches, OpenTasks
  <2> QED
    BY <2>1, <2>2
<1>6. ASSUME NEW t \in TaskIds, NEW req \in Requests, TaskAdmitted(s, u, t, req)
      PROVE  KeysClean(u) /\ KeyUnique(u)
  <2>1. /\ s.tasks[t].state = "absent" /\ u.tasks[t].state # "absent"
        /\ u.tasks[t].request.key = req.key
        /\ SameKey(s, req) = {}
        /\ \A v \in TaskIds \ {t} : TaskKept(s, u, v)
    BY <1>6 DEF TaskAdmitted, KeyIsFree
  <2>2. \A v \in KnownTasks(s) : req.key # None => s.tasks[v].request.key # req.key
    BY <2>1 DEF SameKey
  <2>3. clean(req.key) = req.key
    BY DEF CleanKeys
  <2>4. \A v \in TaskIds \ {t} :
          /\ u.tasks[v].state # "absent" <=> s.tasks[v].state # "absent"
          /\ s.tasks[v].state # "absent" =>
               u.tasks[v].request.key = s.tasks[v].request.key
    BY <1>2, <2>1
  <2>5. KeysClean(u)
    BY <2>1, <2>3, <2>4 DEF KeysClean, KnownTasks
  <2>6. KeyUnique(u)
    BY <2>1, <2>2, <2>4 DEF KeyUnique, KnownTasks
  <2> QED
    BY <2>5, <2>6
<1>7. (\A t \in TaskIds : TaskKept(s, u, t)) => SameKeys(TaskIds)
  BY <1>2
<1> HIDE DEF SameKeys
<1> QED
  BY <1>3, <1>4, <1>5, <1>6, <1>7
  DEF Changes, Alike, Enrols, Redeems, Spends, Admits, AdmitsApproved, Ends, Revokes

-----------------------------------------------------------------------------
(* The theorems                                                             *)

\* What holds of memory and of disk.
StoreInv(s) ==
  FinitelyMany(s) /\ Balanced(s) /\ RedeemedWithin(s) /\ Accounted(s)

AdmissionInv == IInv /\ StoreInv(mem) /\ StoreInv(disk)

LEMMA EmptyStoreInv == StoreInv(EmptyStore)
<1>1. /\ KnownTasks(EmptyStore) = {} /\ UsedApprovals(EmptyStore) = {}
      /\ UsedGrants(EmptyStore) = {} /\ RedeemedNodes(EmptyStore) = {}
  BY DEF EmptyStore, NoTask, NoApproval, NoGrant, KnownTasks, UsedApprovals, UsedGrants,
         RedeemedNodes
<1>2. \A scope : BackedTasks(EmptyStore, scope) = {} /\ SpentOn(EmptyStore, scope) = {}
  BY <1>1 DEF BackedTasks, SpentOn, UsedApprovals
<1>3. Balanced(EmptyStore)
  BY <1>2 DEF Balanced, BackedTasks, SpentOn
<1>4. RedeemedWithin(EmptyStore)
  <2>1. Cardinality(RedeemedNodes(EmptyStore)) <= Cardinality(UsedGrants(EmptyStore))
    BY <1>1, FS_EmptySet
  <2> QED
    BY <2>1 DEF RedeemedWithin, RedeemedNodes, UsedGrants
<1>5. Accounted(EmptyStore)
  BY DEF Accounted, EmptyStore, NoTask, NoApproval, KnownTasks, TerminalStates
<1> QED
  BY <1>1, <1>3, <1>4, <1>5, FS_EmptySet DEF StoreInv, FinitelyMany

\* The first write is such a change of the empty store.
LEMMA FirstStoreIsChange ==
  ASSUME NEW s, NEW drawn, FirstStore(s, drawn)
  PROVE  EmptyStore \in StoreType /\ Changes(EmptyStore, s)
<1>1. EmptyStore \in StoreType
  BY DEF EmptyStore, StoreType, Node, Task, Grant, Approval
<1>2. CASE s = EmptyStore
  BY <1>1, <1>2, Unchanged DEF Alike, Changes
<1>3. ASSUME NEW n \in Nodes, NEW class \in DataClasses, s = FirstNode(n, class)
      PROVE  Changes(EmptyStore, s)
  <2>1. /\ NodesTurn(EmptyStore, s, {n}, "online")
        /\ EmptyStore.nodes[n].status = "absent"
        /\ s.tasks = EmptyStore.tasks /\ s.grants = EmptyStore.grants
        /\ s.approvals = EmptyStore.approvals
        /\ s.audit = EmptyStore.audit \cup {Record("node.created", n, None)}
    BY <1>3 DEF FirstNode, Logged, EmptyStore, NodesTurn
  <2>2. Enrols(EmptyStore, s, n)
    BY <2>1, Unchanged DEF Enrols
  <2> QED
    BY <2>2 DEF Changes
<1>4. ASSUME NEW g \in GrantCodes, s = FirstGrant(g)
      PROVE  Changes(EmptyStore, s)
  <2>1. /\ GrantsSpent(EmptyStore, s, {})
        /\ s.tasks = EmptyStore.tasks /\ s.nodes = EmptyStore.nodes
        /\ s.approvals = EmptyStore.approvals
        /\ s.audit = EmptyStore.audit \cup {Record("grant.created", None, None)}
    BY <1>4 DEF FirstGrant, Logged, EmptyStore, GrantsSpent, NoGrant
  <2>2. Alike(EmptyStore, s)
    BY <2>1, Unchanged DEF Alike, Record, Bystander
  <2> QED
    BY <2>2 DEF Changes
<1>5. ASSUME NEW a \in ApprovalIds, NEW req \in Requests,
             s = FirstApproval(a, ScopeOf(req))
      PROVE  Changes(EmptyStore, s)
  <2>1. /\ ApprovalsSpent(EmptyStore, s, {})
        /\ s.tasks = EmptyStore.tasks /\ s.nodes = EmptyStore.nodes
        /\ s.grants = EmptyStore.grants
        /\ s.audit = EmptyStore.audit
                       \cup {Record("approval.created", ScopeOf(req).node, a)}
    BY <1>5 DEF FirstApproval, Logged, EmptyStore, ApprovalsSpent, NoApproval
  <2>2. Alike(EmptyStore, s)
    BY <2>1, Unchanged DEF Alike, Record, Bystander
  <2> QED
    BY <2>2 DEF Changes
<1> QED
  BY <1>1, <1>2, <1>3, <1>4, <1>5 DEF FirstStore, FirstWritten

LEMMA ChangeKeepsStoreInv ==
  ASSUME NEW s \in StoreType, NEW u, Changes(s, u), StoreInv(s)
  PROVE  StoreInv(u)
BY ChangeStaysFinite, ChangeBalances, ChangeRedeems, ChangeAccounts DEF StoreInv

\* What holds of memory and disk still holds of them after any step.
LEMMA AdmissionStep == AdmissionInv /\ [Next]_vars => AdmissionInv'
<1> SUFFICES ASSUME AdmissionInv, [Next]_vars
             PROVE  AdmissionInv'
  OBVIOUS
<1>1. IInv /\ StoreInv(mem) /\ StoreInv(disk) /\ IInv'
  BY Inductive DEF AdmissionInv
<1>2. StoreInv(mem')
  BY <1>1, StoresFollowChanges, ChangeKeepsStoreInv
<1>3. StoreInv(disk')
  BY <1>1, StoresFollowChanges, ChangeKeepsStoreInv
<1> QED
  BY <1>1, <1>2, <1>3 DEF AdmissionInv, StoreInv, FinitelyMany, Balanced, RedeemedWithin,
    Accounted, KnownTasks, UsedApprovals, UsedGrants, RedeemedNodes

LEMMA AlwaysAdmissionInv == Spec => []AdmissionInv
<1>1. Init => AdmissionInv
  <2> SUFFICES ASSUME Init PROVE AdmissionInv
    OBVIOUS
  <2>1. disk = mem /\ Changes(EmptyStore, mem) /\ EmptyStore \in StoreType
    BY InitialStore, FirstStoreIsChange
  <2>2. StoreInv(mem)
    BY <2>1, EmptyStoreInv, ChangeKeepsStoreInv
  <2> QED
    BY <2>1, <2>2, InitEstablishes DEF AdmissionInv
<1> QED
  BY <1>1, AdmissionStep, PTL DEF Spec

\* However requests are repeated, refused, or cut off by a restart, no approval
\* backs two tasks and no task that needs one goes without.
THEOREM ApprovalsAreSpentOnce == Spec => []ApprovalsSpentOnce
<1>1. AdmissionInv => ApprovalsSpentOnce
  BY DEF AdmissionInv, StoreInv, ApprovalsSpentOnce
<1> QED
  BY AlwaysAdmissionInv, <1>1, PTL

\* No grant ever enrols a second node, in memory or in what a restart loads.
THEOREM GrantsEnrolOnce == Spec => []GrantEnrollsOnce
<1>1. AdmissionInv => GrantEnrollsOnce
  BY DEF AdmissionInv, StoreInv, GrantEnrollsOnce
<1> QED
  BY AlwaysAdmissionInv, <1>1, PTL

\* What nodes, approvals and tasks have become is what the audit trail says,
\* whichever writes were refused and whenever the process was restarted.
THEOREM AuditAccounts == Spec => []AuditAccountsForState
<1>1. AdmissionInv => AuditAccountsForState
  BY DEF AdmissionInv, StoreInv, AuditAccountsForState
<1> QED
  BY AlwaysAdmissionInv, <1>1, PTL

\* The inductive invariant behind OneTaskPerKey.
KeyInv == IInv /\ OneTaskPerKey /\ KeysClean(mem) /\ KeysClean(disk)

LEMMA KeyStep ==
  ASSUME CleanKeys, KeyInv, [Next]_vars
  PROVE  KeyInv'
<1>1. /\ IInv /\ KeysClean(mem) /\ KeyUnique(mem) /\ KeysClean(disk) /\ KeyUnique(disk)
      /\ IInv'
  BY Inductive DEF KeyInv, OneTaskPerKey
<1>2. KeysClean(mem') /\ KeyUnique(mem')
  BY <1>1, StoresFollowChanges, ChangeKeepsKeys
<1>3. KeysClean(disk') /\ KeyUnique(disk')
  BY <1>1, StoresFollowChanges, ChangeKeepsKeys
<1> QED
  BY <1>1, <1>2, <1>3 DEF KeyInv, OneTaskPerKey, KeyUnique, KeysClean, KnownTasks

\* Where clean leaves the keys of all requests as they are, a key has one task
\* at most, however often it is submitted.  (Where it does not, a restart
\* makes a second task possible: the finding of the run key_cleaned.)
THEOREM CleanKeysHaveOneTask ==
  ASSUME CleanKeys
  PROVE  Spec => []OneTaskPerKey
<1>1. Init => KeyInv
  BY InitEstablishes, InitialStore
  DEF Fresh, KeyInv, OneTaskPerKey, KeyUnique, KeysClean, KnownTasks, EmptyStore, NoTask
<1>2. KeyInv /\ [Next]_vars => KeyInv'
  BY KeyStep
<1>3. KeyInv => OneTaskPerKey
  BY DEF KeyInv
<1> QED
  BY <1>1, <1>2, <1>3, PTL DEF Spec

-----------------------------------------------------------------------------
(* Refused writes                                                           *)

\* Stores with the same ledger have the same tasks known and open.
LEMMA LedgerPhases ==
  ASSUME NEW s \in StoreType, NEW u \in StoreType, LedgerOf(s) = LedgerOf(u),
         NEW t \in TaskIds
  PROVE  /\ s.tasks[t].state # "absent" <=> u.tasks[t].state # "absent"
         /\ s.tasks[t].state \in {"queued", "dispatched"} <=>
              u.tasks[t].state \in {"queued", "dispatched"}
<1>1. Phase(s.tasks[t].state) = Phase(u.tasks[t].state)
  <2>1. LedgerOf(s)[t] = Phase(s.tasks[t].state) /\ LedgerOf(u)[t] = Phase(u.tasks[t].state)
    BY DEF LedgerOf
  <2> QED
    BY <2>1
<1>2. /\ s.tasks[t].state \in {"absent", "queued", "dispatched"} \cup TerminalStates
      /\ u.tasks[t].state \in {"absent", "queued", "dispatched"} \cup TerminalStates
  BY DEF StoreType, Task, NoTask
<1> QED
  BY <1>1, <1>2 DEF Phase, TerminalStates

\* On sqlite, whose transaction leaves the old snapshot when it fails, disk
\* agrees with memory on what has happened and on which tasks exist and are
\* open, after any number of refused writes and failed draws.  (On the other
\* backends it need not: the finding of the run snapshot_refusal.)
THEOREM SqliteLeavesNoTrace ==
  ASSUME Backend = "sqlite"
  PROVE  Spec => []RefusalLeavesNoTrace
<1>1. Init => RefusalLeavesNoTrace
  BY InitialStore DEF RefusalLeavesNoTrace, KnownTasks, OpenTasks
<1>2. ASSUME IInv, RefusalLeavesNoTrace, [Next]_vars
      PROVE  RefusalLeavesNoTrace'
  <2> DEFINE Agree(s, u) == /\ u.audit = s.audit
                            /\ \A t \in TaskIds :
                                 /\ u.tasks[t].state # "absent" <=> s.tasks[t].state # "absent"
                                 /\ u.tasks[t].state \in {"queued", "dispatched"} <=>
                                      s.tasks[t].state \in {"queued", "dispatched"}
  <2>1. Agree(mem, disk)
    BY <1>2 DEF RefusalLeavesNoTrace, KnownTasks, OpenTasks
  <2>2. ASSUME Reloaded
        PROVE  Agree(mem', disk')
    BY <2>2 DEF Reloaded
  <2>3. ASSUME NEW new \in StoreType, Persisted(new)
        PROVE  Agree(mem', disk')
    <3>1. \A t \in TaskIds : Saved(new).tasks[t].state = new.tasks[t].state
      BY SavedTasks
    <3>2. Saved(new).audit = new.audit
      BY DEF Saved, StoreType
    <3> QED
      BY <2>3, <3>1, <3>2 DEF Persisted
  <2>4. ASSUME NEW new \in StoreType, Refused(new)
        PROVE  Agree(mem', disk')
    BY <1>2, <2>1, <2>4, RefusedIsEither
  <2>5. ASSUME NEW new \in StoreType, Slipped(new)
        PROVE  Agree(mem', disk')
    <3>1. LedgerOf(new) = LedgerOf(mem) /\ mem \in StoreType
      BY <1>2, <2>5, MemoryTyped DEF Slipped
    <3> QED
      BY <2>1, <2>5, <3>1, LedgerPhases DEF Slipped
  <2>6. Agree(mem', disk')
    BY <1>2, <2>2, <2>3, <2>4, <2>5, StepsAreChanges DEF StepIsChange, Written
  <2>7. /\ disk'.audit = mem'.audit
        /\ KnownTasks(disk') = KnownTasks(mem')
        /\ OpenTasks(disk') = OpenTasks(mem')
    BY <2>6 DEF KnownTasks, OpenTasks
  <2> QED
    BY <2>7 DEF RefusalLeavesNoTrace, KnownTasks, OpenTasks
<1> QED
  BY <1>1, <1>2, AlwaysIInv, PTL DEF Spec

-----------------------------------------------------------------------------
(* The ledger of tasks                                                      *)

\* One step of the ledger, or none.
LedgerMoves(a, b) ==
  \/ b = a
  \/ \E t \in TaskIds : a[t] = "absent" /\ b = [a EXCEPT ![t] = "open"]
  \/ \E ending \in SUBSET TaskIds, outcome \in TerminalStates :
       /\ \A t \in ending : a[t] = "open"
       /\ b = [t \in TaskIds |-> IF t \in ending THEN outcome ELSE a[t]]

\* A change moves the ledger by one step, or leaves it.
LEMMA ChangeMovesLedger ==
  ASSUME NEW s, NEW u, Changes(s, u)
  PROVE  LedgerMoves(LedgerOf(s), LedgerOf(u))
<1> DEFINE a == LedgerOf(s)
           b == LedgerOf(u)
<1>1. /\ a = [t \in TaskIds |-> Phase(s.tasks[t].state)]
      /\ b = [t \in TaskIds |-> Phase(u.tasks[t].state)]
  BY DEF LedgerOf
<1>2. (\A t \in TaskIds : TaskKept(s, u, t)) => b = a
  BY <1>1 DEF TaskKept
<1>3. ASSUME NEW t \in TaskIds, NEW req \in Requests, TaskAdmitted(s, u, t, req)
      PROVE  a[t] = "absent" /\ b = [a EXCEPT ![t] = "open"]
  BY <1>1, <1>3 DEF TaskAdmitted, TaskKept, Phase
<1>4. ASSUME NEW ts \in SUBSET TaskIds, NEW outcome \in TerminalStates,
             TasksEnd(s, u, ts, outcome)
      PROVE  /\ \A t \in ts : a[t] = "open"
             /\ b = [t \in TaskIds |-> IF t \in ts THEN outcome ELSE a[t]]
  <2>1. \A t \in ts : Phase(s.tasks[t].state) = "open"
    BY <1>4 DEF TasksEnd, OpenTasks, Phase
  <2>2. \A t \in TaskIds : Phase(u.tasks[t].state)
                             = IF t \in ts THEN outcome ELSE Phase(s.tasks[t].state)
    BY <1>4 DEF TasksEnd, TaskKept, Phase, TerminalStates
  <2> QED
    BY <1>1, <2>1, <2>2
<1>5. ASSUME NEW ts \in SUBSET TaskIds, Dispatches(s, u, ts)
      PROVE  b = a
  <2>1. \A t \in TaskIds : Phase(u.tasks[t].state) = Phase(s.tasks[t].state)
    BY <1>5 DEF Dispatches, OpenTasks, TaskKept, Phase
  <2> QED
    BY <1>1, <2>1
<1> HIDE DEF a, b
<1>6. CASE Alike(s, u) \/ \E n \in Nodes : Enrols(s, u, n)
  BY <1>2, <1>6 DEF Alike, Enrols, LedgerMoves, a, b
<1>7. CASE \/ \E g \in GrantCodes, n \in Nodes : Redeems(s, u, g, n)
           \/ \E g \in GrantCodes : Spends(s, u, g)
  BY <1>2, <1>7 DEF Redeems, Spends, LedgerMoves, a, b
<1>8. CASE \/ \E t \in TaskIds, req \in Requests : Admits(s, u, t, req)
           \/ \E t \in TaskIds, req \in Requests, x \in ApprovalIds :
                AdmitsApproved(s, u, t, req, x)
  BY <1>3, <1>8 DEF Admits, AdmitsApproved, LedgerMoves, a, b
<1>9. CASE \/ \E t \in TaskIds, outcome \in TerminalStates,
                 event \in {"task.completed", "task.cancelled"} :
                Ends(s, u, t, outcome, event)
           \/ \E n \in Nodes, ts \in SUBSET TaskIds : Revokes(s, u, n, ts)
  <2>1. \E ts \in SUBSET TaskIds, outcome \in TerminalStates : TasksEnd(s, u, ts, outcome)
    BY <1>9 DEF Ends, Revokes, TerminalStates
  <2> QED
    BY <1>4, <2>1 DEF LedgerMoves, a, b
<1>10. CASE \E ts \in SUBSET TaskIds : Dispatches(s, u, ts)
  BY <1>5, <1>10 DEF LedgerMoves, a, b
<1> QED
  BY <1>6, <1>7, <1>8, <1>9, <1>10 DEF Changes

\* Disk is where memory is, or one step of the ledger ahead: a write that was
\* refused and stuck.  A restart then takes that step.
LedgerInv == IInv /\ LedgerMoves(LedgerOf(mem), LedgerOf(disk))

LEMMA LedgerStep ==
  ASSUME LedgerInv, [Next]_vars
  PROVE  LedgerInv' /\ LedgerMoves(LedgerOf(mem), LedgerOf(mem)')
<1>1. IInv /\ LedgerMoves(LedgerOf(mem), LedgerOf(disk)) /\ IInv'
  BY Inductive DEF LedgerInv
<1>2. \A s : LedgerMoves(LedgerOf(s), LedgerOf(s))
  BY DEF LedgerMoves
<1>3. \A s \in StoreType : LedgerOf(Saved(s)) = LedgerOf(s)
  BY SavedTasks DEF LedgerOf
<1>4. ASSUME Reloaded
      PROVE  /\ LedgerMoves(LedgerOf(mem'), LedgerOf(disk'))
             /\ LedgerMoves(LedgerOf(mem), LedgerOf(mem'))
  BY <1>1, <1>2, <1>4 DEF Reloaded
<1>5. ASSUME NEW new \in StoreType, Changes(mem, new), Written(new) \/ Slipped(new)
      PROVE  /\ LedgerMoves(LedgerOf(mem'), LedgerOf(disk'))
             /\ LedgerMoves(LedgerOf(mem), LedgerOf(mem'))
  <2>1. LedgerMoves(LedgerOf(mem), LedgerOf(new))
    BY <1>5, ChangeMovesLedger
  <2>2. CASE Persisted(new)
    BY <1>2, <1>3, <2>1, <2>2 DEF Persisted
  <2>3. CASE Refused(new)
    BY <1>1, <1>2, <1>3, <2>1, <2>3, RefusedIsEither
  <2>4. CASE Slipped(new)
    BY <1>1, <1>2, <2>4 DEF Slipped
  <2> QED
    BY <1>5, <2>2, <2>3, <2>4 DEF Written
<1>6. /\ LedgerMoves(LedgerOf(mem'), LedgerOf(disk'))
      /\ LedgerMoves(LedgerOf(mem), LedgerOf(mem'))
  BY <1>1, <1>4, <1>5, StepsAreChanges DEF StepIsChange
<1> QED
  BY <1>1, <1>6 DEF LedgerInv, LedgerOf

\* The Control Plane implements the ledger of tasks: through refused writes
\* that stick, dispatches, expired leases and restarts, a task is accepted
\* once and ends once.
THEOREM ControlPlaneImplementsLedger == Spec => ImplementsLedger
<1>1. Init => LedgerInv
  BY InitEstablishes, InitialStore DEF LedgerInv, LedgerMoves
<1>2. LedgerInv /\ [Next]_vars => LedgerInv'
  BY LedgerStep
<1>3. Init => Ledger!Init
  BY InitialStore DEF Fresh, EmptyStore, NoTask, LedgerOf, Phase, Ledger!Init
<1>4. LedgerInv /\ [Next]_vars => [Ledger!Next]_(LedgerOf(mem))
  BY LedgerStep DEF LedgerMoves, Ledger!Next, Ledger!Accept, Ledger!Finish
<1> QED
  BY <1>1, <1>2, <1>3, <1>4, PTL DEF Spec, ImplementsLedger, Ledger!Spec
=============================================================================
