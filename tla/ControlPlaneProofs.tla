------------------------- MODULE ControlPlaneProofs -------------------------
(* Theorems of ControlPlane for all values of its constants.                *)
(*                                                                          *)
(* A handler builds a new store from the one in memory and persists it.     *)
(* The lemmas show that every new store is of the right type, continues the *)
(* history of the old one and leaves revoked nodes quiet; the theorems then *)
(* only have to look at where memory and disk end up.                       *)
EXTENDS ControlPlane, TLAPS

\* What every handler owes to the store it changes.
Sound(s, u) ==
  /\ u \in StoreType
  /\ Continues(s, u)
  /\ Quiesced(s) => Quiesced(u)

\* Continuing a store's history is reflexive: a step that changes nothing
\* reverses nothing.
LEMMA ContinuesReflexive ==
  ASSUME NEW s \in StoreType
  PROVE  Continues(s, s)
BY DEF Continues, NodesContinue, TasksContinue, GrantsContinue, ApprovalsContinue

\* Appending audit records keeps a store sound.
LEMMA LoggedSound ==
  ASSUME NEW s, NEW u, Sound(s, u), NEW records \in SUBSET Activity
  PROVE  Sound(s, Logged(u, records))
<1> DEFINE w == Logged(u, records)
<1>1. w \in StoreType
  BY DEF Logged, StoreType, Sound
<1>2. /\ w.nodes = u.nodes /\ w.tasks = u.tasks /\ w.grants = u.grants
      /\ w.approvals = u.approvals /\ w.audit = u.audit \cup records
  BY DEF Logged, StoreType, Sound
<1>3. Continues(s, w)
  BY <1>2 DEF Sound, Continues, NodesContinue, TasksContinue, GrantsContinue,
              ApprovalsContinue
<1>4. Quiesced(u) => Quiesced(w)
  BY <1>2 DEF Quiesced, QueuedOrDispatched, OpenTasks
<1> QED
  BY <1>1, <1>3, <1>4 DEF Sound

-----------------------------------------------------------------------------
(* The new stores of the handlers, one lemma per shape of change            *)

\* Writing one node: an absent node may become anything that is not revoked,
\* a known one keeps its status.
LEMMA NodeWriteSound ==
  ASSUME NEW s, NEW u, Sound(s, u), NEW n \in Nodes, NEW node \in Node,
         \/ node.status = u.nodes[n].status
         \/ u.nodes[n].status = "absent" /\ node.status = "online"
  PROVE  Sound(s, [u EXCEPT !.nodes[n] = node])
<1> DEFINE w == [u EXCEPT !.nodes[n] = node]
<1>1. w \in StoreType
  BY DEF StoreType, Sound
<1>2. /\ w.nodes = [u.nodes EXCEPT ![n] = node]
      /\ w.tasks = u.tasks /\ w.grants = u.grants
      /\ w.approvals = u.approvals /\ w.audit = u.audit
  BY DEF StoreType, Sound
<1>3. \A m \in Nodes : w.nodes[m] = IF m = n THEN node ELSE u.nodes[m]
  BY <1>2 DEF StoreType, Sound
<1>4. NodesContinue(s, w)
  BY <1>3 DEF Sound, Continues, NodesContinue
<1>5. Continues(s, w)
  BY <1>2, <1>4 DEF Sound, Continues, TasksContinue, GrantsContinue, ApprovalsContinue
<1>6. Quiesced(u) => Quiesced(w)
  BY <1>2, <1>3 DEF Quiesced, QueuedOrDispatched, OpenTasks
<1> QED
  BY <1>1, <1>5, <1>6 DEF Sound

\* Writing one grant, when the write continues the history of that grant.
LEMMA GrantWriteSound ==
  ASSUME NEW s, NEW u, Sound(s, u), NEW g \in GrantCodes, NEW grant \in Grant,
         s.grants[g].status # "absent" => grant.status # "absent",
         s.grants[g].revoked => grant.revoked,
         s.grants[g].revoked /\ s.grants[g].status = "unused"
           => grant.status = "unused"
  PROVE  Sound(s, [u EXCEPT !.grants[g] = grant])
<1> DEFINE w == [u EXCEPT !.grants[g] = grant]
<1>1. w \in StoreType
  BY DEF StoreType, Sound
<1>2. /\ w.grants = [u.grants EXCEPT ![g] = grant]
      /\ w.tasks = u.tasks /\ w.nodes = u.nodes
      /\ w.approvals = u.approvals /\ w.audit = u.audit
  BY DEF StoreType, Sound
<1>3. \A h \in GrantCodes : w.grants[h] = IF h = g THEN grant ELSE u.grants[h]
  BY <1>2 DEF StoreType, Sound
<1>4. GrantsContinue(s, w)
  BY <1>3 DEF Sound, Continues, GrantsContinue
<1>5. Continues(s, w)
  BY <1>2, <1>4 DEF Sound, Continues, NodesContinue, TasksContinue, ApprovalsContinue
<1>6. Quiesced(u) => Quiesced(w)
  BY <1>2 DEF Quiesced, QueuedOrDispatched, OpenTasks
<1> QED
  BY <1>1, <1>5, <1>6 DEF Sound

\* Writing one approval, when the write continues the history of that
\* approval.
LEMMA ApprovalWriteSound ==
  ASSUME NEW s, NEW u, Sound(s, u), NEW a \in ApprovalIds,
         NEW approval \in Approval,
         s.approvals[a].status # "absent" =>
           approval.status # "absent" /\ approval.scope = s.approvals[a].scope,
         s.approvals[a].status = "used" => approval.status = "used"
  PROVE  Sound(s, [u EXCEPT !.approvals[a] = approval])
<1> DEFINE w == [u EXCEPT !.approvals[a] = approval]
<1>1. w \in StoreType
  BY DEF StoreType, Sound
<1>2. /\ w.approvals = [u.approvals EXCEPT ![a] = approval]
      /\ w.tasks = u.tasks /\ w.nodes = u.nodes
      /\ w.grants = u.grants /\ w.audit = u.audit
  BY DEF StoreType, Sound
<1>3. \A b \in ApprovalIds :
        w.approvals[b] = IF b = a THEN approval ELSE u.approvals[b]
  BY <1>2 DEF StoreType, Sound
<1>4. ApprovalsContinue(s, w)
  BY <1>3 DEF Sound, Continues, ApprovalsContinue
<1>5. Continues(s, w)
  BY <1>2, <1>4 DEF Sound, Continues, NodesContinue, TasksContinue, GrantsContinue
<1>6. Quiesced(u) => Quiesced(w)
  BY <1>2 DEF Quiesced, QueuedOrDispatched, OpenTasks
<1> QED
  BY <1>1, <1>5, <1>6 DEF Sound

\* Writing the tasks: known ones keep their request, finished ones their
\* state, and a task is only open if it was, or if its node is not revoked.
LEMMA TasksWriteSound ==
  ASSUME NEW s, NEW u, Sound(s, u), NEW tasks \in [TaskIds -> Task],
         \A t \in TaskIds :
           /\ s.tasks[t].state # "absent" =>
                tasks[t].state # "absent" /\ tasks[t].request = s.tasks[t].request
           /\ s.tasks[t].state \in TerminalStates =>
                tasks[t].state = s.tasks[t].state
           /\ tasks[t].state \in {"queued", "dispatched"} =>
                \/ /\ u.tasks[t].state \in {"queued", "dispatched"}
                   /\ tasks[t].request = u.tasks[t].request
                \/ u.nodes[tasks[t].request.node].status # "revoked"
  PROVE  Sound(s, [u EXCEPT !.tasks = tasks])
<1> DEFINE w == [u EXCEPT !.tasks = tasks]
<1>1. w \in StoreType
  BY DEF StoreType, Sound
<1>2. /\ w.tasks = tasks /\ w.approvals = u.approvals /\ w.nodes = u.nodes
      /\ w.grants = u.grants /\ w.audit = u.audit
  BY DEF StoreType, Sound
<1>3. TasksContinue(s, w)
  BY <1>2 DEF TasksContinue
<1>4. Continues(s, w)
  BY <1>2, <1>3 DEF Sound, Continues, NodesContinue, ApprovalsContinue, GrantsContinue
<1>5. Quiesced(u) => Quiesced(w)
  BY <1>2 DEF Quiesced, QueuedOrDispatched, OpenTasks
<1> QED
  BY <1>1, <1>4, <1>5 DEF Sound

\* A known task is a full record.
LEMMA KnownTask ==
  ASSUME NEW task \in Task, task.state # "absent"
  PROVE  task \in [state : {"queued", "dispatched"} \cup TerminalStates,
                   request : Request, lease_until : Nat, lease_token : Nat]
BY DEF Task, NoTask

\* The cancelling of one task.
LEMMA CancelledTaskType ==
  ASSUME NEW task \in Task, task.state \in {"queued", "dispatched"}
  PROVE  /\ CancelledTask(task) \in Task
         /\ CancelledTask(task).state = "cancelled"
         /\ CancelledTask(task).request = task.request
<1>1. task \in [state : {"queued", "dispatched"} \cup TerminalStates,
                request : Request, lease_until : Nat, lease_token : Nat]
  BY KnownTask
<1> QED
  BY <1>1 DEF CancelledTask, Task, TerminalStates

\* The cancelling of a set of open tasks.
LEMMA CancelledSound ==
  ASSUME NEW s \in StoreType, NEW u, Sound(s, u), NEW tasks \in SUBSET TaskIds,
         \A t \in tasks : s.tasks[t].state \in {"queued", "dispatched"},
         u.tasks = s.tasks
  PROVE  /\ Sound(s, Cancelled(u, tasks))
         /\ \A t \in tasks : Cancelled(u, tasks).tasks[t].state = "cancelled"
<1> DEFINE new == [t \in TaskIds |-> IF t \in tasks
                                   THEN CancelledTask(u.tasks[t])
                                   ELSE u.tasks[t]]
<1>1. \A t \in TaskIds : u.tasks[t] \in Task
  BY DEF Sound, StoreType
<1>2. \A t \in TaskIds :
        /\ new[t] \in Task
        /\ t \in tasks => /\ new[t].state = "cancelled"
                           /\ new[t].request = s.tasks[t].request
        /\ t \notin tasks => new[t] = s.tasks[t]
  BY <1>1, CancelledTaskType
<1>3. new \in [TaskIds -> Task]
  BY <1>2
<1>4. Sound(s, [u EXCEPT !.tasks = new])
  BY <1>2, <1>3, TasksWriteSound DEF TerminalStates
<1>5. Cancelled(u, tasks) = [u EXCEPT !.tasks = new]
  BY DEF Cancelled
<1>6. [u EXCEPT !.tasks = new].tasks = new
  BY DEF Sound, StoreType
<1> QED
  BY <1>2, <1>4, <1>5, <1>6

\* A revocation cancels all that would keep the node from being quiet.
LEMMA RevokedSound ==
  ASSUME NEW s \in StoreType, NEW n \in Nodes, s.nodes[n].status # "absent"
  PROVE  Sound(s, Revoked(s, n))
<1> DEFINE u == [s EXCEPT !.nodes[n].status = "revoked"]
           tasks == QueuedOrDispatched(s, n)
           ended == [t \in TaskIds |-> IF t \in tasks THEN CancelledTask(s.tasks[t])
                                                     ELSE s.tasks[t]]
           w == Cancelled(u, tasks)
           records == {Record("node.revoked", n, None)}
                        \cup {Record("task.cancelled_by_node_revoke", n, t) : t \in tasks}
<1>1. /\ u.nodes = [s.nodes EXCEPT ![n] = [s.nodes[n] EXCEPT !.status = "revoked"]]
      /\ u.tasks = s.tasks /\ u.approvals = s.approvals
      /\ u.grants = s.grants /\ u.audit = s.audit
  BY DEF StoreType
<1>2. u \in StoreType
  <2>1. s.nodes[n] \in Node /\ s.nodes \in [Nodes -> Node]
    BY DEF StoreType
  <2>2. [s.nodes[n] EXCEPT !.status = "revoked"] \in Node
    BY <2>1 DEF Node
  <2>3. u.nodes \in [Nodes -> Node]
    BY <1>1, <2>1, <2>2
  <2>4. u = [s EXCEPT !.nodes = u.nodes]
    BY <1>1 DEF StoreType
  <2> QED
    BY <2>3, <2>4 DEF StoreType
<1>3. \A t \in tasks : t \in TaskIds /\ s.tasks[t].state \in {"queued", "dispatched"}
  BY DEF QueuedOrDispatched, OpenTasks
<1>4. \A t \in TaskIds :
        /\ ended[t] \in Task
        /\ t \in tasks => /\ ended[t].state = "cancelled"
                           /\ ended[t].request = s.tasks[t].request
        /\ t \notin tasks => ended[t] = s.tasks[t]
  <2>1. \A t \in TaskIds : s.tasks[t] \in Task
    BY DEF StoreType
  <2> QED
    BY <1>3, <2>1, CancelledTaskType
<1>5. /\ w \in StoreType
      /\ w.nodes = u.nodes /\ w.approvals = s.approvals
      /\ w.grants = s.grants /\ w.audit = s.audit
      /\ w.tasks = ended
  <2>1. ended \in [TaskIds -> Task]
    BY <1>4
  <2>2. w = [u EXCEPT !.tasks = ended]
    BY <1>1 DEF Cancelled
  <2> QED
    BY <1>1, <1>2, <2>1, <2>2 DEF StoreType
<1>6. \A m \in Nodes : w.nodes[m].status = IF m = n THEN "revoked" ELSE s.nodes[m].status
  BY <1>1, <1>5 DEF StoreType, Node
<1>7. Continues(s, w)
  BY <1>3, <1>4, <1>5, <1>6
  DEF Continues, NodesContinue, TasksContinue, GrantsContinue, ApprovalsContinue,
      TerminalStates
<1>8. Quiesced(s) => Quiesced(w)
  <2> SUFFICES ASSUME Quiesced(s), NEW m \in Nodes, w.nodes[m].status = "revoked",
                      NEW t \in QueuedOrDispatched(w, m)
               PROVE  FALSE
    BY DEF Quiesced
  <2>1. /\ t \in TaskIds
        /\ ended[t].state \in {"queued", "dispatched"}
        /\ ended[t].request.node = m
    BY <1>5 DEF QueuedOrDispatched, OpenTasks
  <2>2. t \notin tasks /\ t \in QueuedOrDispatched(s, m)
    BY <1>4, <2>1 DEF QueuedOrDispatched, OpenTasks
  <2> QED
    BY <1>6, <2>2 DEF Quiesced
<1>9. records \in SUBSET Activity
  BY DEF Record, Activity, QueuedOrDispatched, OpenTasks
<1>10. Sound(s, w)
  BY <1>5, <1>7, <1>8 DEF Sound
<1> QED
  BY <1>9, <1>10, LoggedSound DEF Revoked

\* The end of a lease is a time.
LEMMA LeaseEndType ==
  ASSUME NEW req \in Request, now \in Nat
  PROVE  LeaseEnd(req) \in Nat
BY TimesAreNaturals DEF LeaseEnd, Larger, Request

\* The dispatch of one task.
LEMMA DispatchedTaskType ==
  ASSUME NEW task \in Task, task.state \in {"queued", "dispatched"},
         now \in Nat, issued \in Nat
  PROVE  /\ DispatchedTask(task) \in Task
         /\ DispatchedTask(task).state = "dispatched"
         /\ DispatchedTask(task).request = task.request
<1>1. task \in [state : {"queued", "dispatched"} \cup TerminalStates,
                request : Request, lease_until : Nat, lease_token : Nat]
  BY KnownTask
<1>2. LeaseEnd(task.request) \in Nat /\ NewToken \in Nat
  BY <1>1, LeaseEndType DEF NewToken
<1> QED
  BY <1>1, <1>2 DEF DispatchedTask, Task

\* The dispatch of a set of open tasks: they stay open, all else stays.
LEMMA DispatchedSound ==
  ASSUME NEW s \in StoreType, NEW tasks \in SUBSET OpenTasks(s),
         now \in Nat, issued \in Nat
  PROVE  /\ Sound(s, Dispatched(s, tasks))
         /\ \A t \in TaskIds :
              /\ t \in tasks => Dispatched(s, tasks).tasks[t] = DispatchedTask(s.tasks[t])
              /\ t \notin tasks => Dispatched(s, tasks).tasks[t] = s.tasks[t]
         /\ \A t \in tasks :
              /\ t \in TaskIds
              /\ s.tasks[t].state \in {"queued", "dispatched"}
              /\ DispatchedTask(s.tasks[t]) \in Task
              /\ DispatchedTask(s.tasks[t]).state = "dispatched"
              /\ DispatchedTask(s.tasks[t]).request = s.tasks[t].request
         /\ Dispatched(s, tasks).nodes = s.nodes
         /\ Dispatched(s, tasks).grants = s.grants
         /\ Dispatched(s, tasks).approvals = s.approvals
         /\ Dispatched(s, tasks).audit = s.audit
<1> DEFINE new == [t \in TaskIds |-> IF t \in tasks THEN DispatchedTask(s.tasks[t])
                                                   ELSE s.tasks[t]]
<1>1. \A t \in TaskIds : s.tasks[t] \in Task
  BY DEF StoreType
<1>2. \A t \in tasks :
        /\ t \in TaskIds
        /\ s.tasks[t].state \in {"queued", "dispatched"}
        /\ DispatchedTask(s.tasks[t]) \in Task
        /\ DispatchedTask(s.tasks[t]).state = "dispatched"
        /\ DispatchedTask(s.tasks[t]).request = s.tasks[t].request
  BY <1>1, DispatchedTaskType DEF OpenTasks
<1>3. new \in [TaskIds -> Task]
  BY <1>1, <1>2
<1>4. Sound(s, s)
  BY ContinuesReflexive DEF Sound
<1>5. Sound(s, [s EXCEPT !.tasks = new])
  BY <1>2, <1>3, <1>4, TasksWriteSound DEF TerminalStates
<1>6. Dispatched(s, tasks) = [s EXCEPT !.tasks = new]
  BY DEF Dispatched
<1>7. /\ [s EXCEPT !.tasks = new].tasks = new
      /\ [s EXCEPT !.tasks = new].nodes = s.nodes
      /\ [s EXCEPT !.tasks = new].grants = s.grants
      /\ [s EXCEPT !.tasks = new].approvals = s.approvals
      /\ [s EXCEPT !.tasks = new].audit = s.audit
  BY DEF StoreType
<1>8. \A t \in TaskIds :
        /\ t \in tasks => new[t] = DispatchedTask(s.tasks[t])
        /\ t \notin tasks => new[t] = s.tasks[t]
  OBVIOUS
<1> HIDE DEF new
<1> QED
  BY <1>2, <1>5, <1>6, <1>7, <1>8

\* The admission of a task for a node that is not revoked.
LEMMA AcceptedSound ==
  ASSUME NEW s, NEW u, Sound(s, u), NEW t \in TaskIds, NEW req \in Request,
         s.tasks[t].state = "absent", u.tasks = s.tasks,
         u.nodes[req.node].status # "revoked", s \in StoreType
  PROVE  Sound(s, Accepted(u, t, req))
<1> DEFINE task == [state |-> "queued", request |-> req, lease_until |-> 0,
                    lease_token |-> 0]
           new == [u.tasks EXCEPT ![t] = task]
<1>1. \A v \in TaskIds : u.tasks[v] \in Task
  BY DEF Sound, StoreType
<1>2. task \in Task
  BY DEF Task
<1>3. new \in [TaskIds -> Task]
  BY <1>1, <1>2 DEF Sound, StoreType
<1>4. \A v \in TaskIds : new[v] = IF v = t THEN task ELSE s.tasks[v]
  BY DEF Sound, StoreType
<1>5. Sound(s, [u EXCEPT !.tasks = new])
  BY <1>3, <1>4, TasksWriteSound DEF TerminalStates
<1>6. {Record("task.accepted", req.node, t), Record("policy.allowed", req.node, t)}
        \in SUBSET Activity
  BY DEF Record, Activity, Request
<1> QED
  BY <1>5, <1>6, LoggedSound DEF Accepted

\* The end of a dispatched task by a result.
LEMMA CompletedSound ==
  ASSUME NEW s \in StoreType, NEW t \in TaskIds, s.tasks[t].state = "dispatched",
         NEW state \in TerminalStates
  PROVE  Sound(s, Completed(s, t, state))
<1> DEFINE task == [s.tasks[t] EXCEPT !.state = state]
           new == [s.tasks EXCEPT ![t] = task]
<1>1. \A v \in TaskIds : s.tasks[v] \in Task
  BY DEF StoreType
<1>2. s.tasks[t] \in [state : {"queued", "dispatched"} \cup TerminalStates,
                      request : Request, lease_until : Nat, lease_token : Nat]
  BY <1>1, KnownTask
<1>3. task \in Task /\ task.state = state /\ task.request = s.tasks[t].request
  BY <1>2 DEF Task
<1>4. new \in [TaskIds -> Task]
  BY <1>1, <1>3 DEF StoreType
<1>5. \A v \in TaskIds : new[v] = IF v = t THEN task ELSE s.tasks[v]
  BY DEF StoreType
<1>6. Sound(s, s)
  BY ContinuesReflexive DEF Sound
<1>7. Sound(s, [s EXCEPT !.tasks = new])
  BY <1>3, <1>4, <1>5, <1>6, TasksWriteSound DEF TerminalStates
<1>8. {Record("task.completed", s.tasks[t].request.node, t)} \in SUBSET Activity
  BY <1>2 DEF Record, Activity, Request
<1> QED
  BY <1>7, <1>8, LoggedSound DEF Completed

-----------------------------------------------------------------------------
(* Memory and disk                                                          *)

\* Writing a store and reading it again loses nothing but what clean does to
\* keys, and that happens once.
LEMMA SavedSound ==
  ASSUME NEW s \in StoreType, NEW u, Sound(s, u)
  PROVE  Sound(s, Saved(u))
<1> DEFINE new == [t \in TaskIds |-> SavedTask(u.tasks[t])]
           w == [u EXCEPT !.tasks = new]
<1>1. /\ \A t \in TaskIds : s.tasks[t] \in Task /\ u.tasks[t] \in Task
      /\ Continues(s, u) /\ u \in StoreType
  BY DEF Sound, StoreType
<1>2. \A req \in Request :
        /\ SavedRequest(req) \in Request
        /\ SavedRequest(SavedRequest(req)) = SavedRequest(req)
        /\ SavedRequest(req).node = req.node
  BY CleanedTwiceIsCleaned, NoneIsNoName DEF SavedRequest, clean, Request
<1>3. \A t \in TaskIds :
        /\ new[t] \in Task
        /\ new[t].state = u.tasks[t].state
        /\ u.tasks[t].state # "absent" =>
             /\ u.tasks[t].request \in Request
             /\ new[t].request = SavedRequest(u.tasks[t].request)
  <2> SUFFICES ASSUME NEW t \in TaskIds
               PROVE  /\ SavedTask(u.tasks[t]) \in Task
                      /\ SavedTask(u.tasks[t]).state = u.tasks[t].state
                      /\ u.tasks[t].state # "absent" =>
                           /\ u.tasks[t].request \in Request
                           /\ SavedTask(u.tasks[t]).request
                                = SavedRequest(u.tasks[t].request)
    OBVIOUS
  <2>1. CASE u.tasks[t].state = "absent"
    BY <1>1, <2>1 DEF SavedTask
  <2>2. CASE u.tasks[t].state # "absent"
    <3>1. u.tasks[t] \in [state : {"queued", "dispatched"} \cup TerminalStates,
                          request : Request, lease_until : Nat, lease_token : Nat]
      BY <1>1, <2>2, KnownTask
    <3>2. SavedRequest(u.tasks[t].request) \in Request
      BY <1>2, <3>1
    <3> QED
      BY <2>2, <3>1, <3>2 DEF SavedTask, Task
  <2> QED
    BY <2>1, <2>2
<1>4. w \in StoreType /\ w = Saved(u)
  BY <1>1, <1>3 DEF StoreType, Saved
<1>5. /\ w.tasks = new /\ w.nodes = u.nodes /\ w.grants = u.grants
      /\ w.approvals = u.approvals /\ w.audit = u.audit
  BY <1>1 DEF StoreType
<1> HIDE DEF new
<1>6. TasksContinue(s, w)
  <2> SUFFICES ASSUME NEW t \in TaskIds
               PROVE  /\ s.tasks[t].state # "absent" =>
                           /\ new[t].state # "absent"
                           /\ new[t].request \in {s.tasks[t].request,
                                                  SavedRequest(s.tasks[t].request)}
                      /\ s.tasks[t].state \in TerminalStates =>
                           new[t].state = s.tasks[t].state
    BY <1>5 DEF TasksContinue
  <2>1. /\ s.tasks[t].state # "absent" =>
             /\ u.tasks[t].state # "absent"
             /\ u.tasks[t].request \in {s.tasks[t].request,
                                        SavedRequest(s.tasks[t].request)}
        /\ s.tasks[t].state \in TerminalStates => u.tasks[t].state = s.tasks[t].state
    BY <1>1 DEF Continues, TasksContinue
  <2>2. s.tasks[t].state # "absent" => s.tasks[t].request \in Request
    BY <1>1, KnownTask
  <2> QED
    BY <1>2, <1>3, <2>1, <2>2
<1>7. Continues(s, w)
  BY <1>1, <1>5, <1>6 DEF Continues, NodesContinue, GrantsContinue, ApprovalsContinue
<1>8. Quiesced(u) => Quiesced(w)
  <2> SUFFICES ASSUME Quiesced(u), NEW m \in Nodes, w.nodes[m].status = "revoked",
                      NEW t \in QueuedOrDispatched(w, m)
               PROVE  FALSE
    BY DEF Quiesced
  <2>1. /\ t \in TaskIds /\ new[t].state \in {"queued", "dispatched"}
        /\ new[t].request.node = m
    BY <1>5 DEF QueuedOrDispatched, OpenTasks
  <2>2. t \in QueuedOrDispatched(u, m)
    BY <1>2, <1>3, <2>1 DEF QueuedOrDispatched, OpenTasks
  <2> QED
    BY <1>5, <2>2 DEF Quiesced
<1> QED
  BY <1>4, <1>7, <1>8 DEF Sound

\* Where memory and disk are after a step that kept all that is proved here.
Kept ==
  /\ mem' \in StoreType /\ disk' \in StoreType
  /\ Quiesced(mem') /\ Quiesced(disk')
  /\ Continues(mem', disk')
  /\ Continues(mem, mem')

\* From the first store.snapshot on, a refused write leaves the old store or
\* the new one: disk has the audit records of memory, so it has a snapshot.
LEMMA RefusedIsEither ==
  ASSUME IInv, NEW new, Refused(new)
  PROVE  /\ mem' = mem /\ disk' \in {disk, Saved(new)}
         /\ Backend = "sqlite" => disk' = disk
<1>1. Backend = "snapshot" => TablesLeft(new) = {}
  BY DEF IInv, Begun, DiskContinuesMemory, Continues, TablesLeft, SnapshotExists
<1> QED
  BY <1>1, InputsAreTyped DEF Refused, RefusedDisks, EitherStore

\* Whether the write of a sound store is accepted or refused, and whether or
\* not a refused one sticks, everything is kept.
LEMMA WriteKeeps ==
  ASSUME IInv, NEW new, Sound(mem, new), Persisted(new) \/ Refused(new)
  PROVE  Kept
<1>1. Sound(mem, Saved(new)) /\ Continues(mem, mem) /\ Continues(new, Saved(new))
  <2>1. Sound(new, new) /\ new \in StoreType
    BY ContinuesReflexive DEF Sound
  <2>2. Sound(new, Saved(new)) /\ Sound(mem, Saved(new))
    BY <2>1, SavedSound DEF IInv, TypeOK
  <2> QED
    BY <2>2, ContinuesReflexive DEF IInv, TypeOK, Sound
<1>2. /\ mem \in StoreType /\ disk \in StoreType /\ new \in StoreType
      /\ Quiesced(mem) /\ Quiesced(disk) /\ Quiesced(new)
      /\ Continues(mem, disk) /\ Continues(mem, new)
      /\ Saved(new) \in StoreType /\ Quiesced(Saved(new)) /\ Continues(mem, Saved(new))
  BY <1>1 DEF IInv, TypeOK, RevokedQuiesced, DiskContinuesMemory, Sound
<1>3. CASE Persisted(new)
  BY <1>1, <1>2, <1>3 DEF Persisted, Kept
<1>4. CASE Refused(new)
  <2>1. mem' = mem /\ disk' \in {disk, Saved(new)}
    BY <1>4, RefusedIsEither
  <2>2. CASE disk' = disk
    BY <1>1, <1>2, <2>1, <2>2 DEF Kept
  <2>3. CASE disk' = Saved(new)
    BY <1>1, <1>2, <2>1, <2>3 DEF Kept
  <2> QED
    BY <2>1, <2>2, <2>3
<1> QED
  BY <1>3, <1>4

\* A change of memory alone that disk still continues.
LEMMA MemoryOnlyKeeps ==
  ASSUME IInv, Sound(mem, mem'), Continues(mem', disk), UNCHANGED disk
  PROVE  Kept
BY DEF IInv, TypeOK, RevokedQuiesced, DiskContinuesMemory, Sound, Kept

-----------------------------------------------------------------------------
(* What each handler writes is sound                                        *)

\* What the invariant says of memory, field by field.
LEMMA MemoryTyped ==
  ASSUME IInv
  PROVE  /\ mem \in StoreType /\ disk \in StoreType /\ now \in Nat /\ issued \in Nat
         /\ \A n \in Nodes : mem.nodes[n] \in Node
         /\ \A t \in TaskIds : mem.tasks[t] \in Task
         /\ \A g \in GrantCodes : mem.grants[g] \in Grant
         /\ \A a \in ApprovalIds : mem.approvals[a] \in Approval
         /\ Sound(mem, mem) /\ Continues(disk, disk)
BY ContinuesReflexive DEF IInv, TypeOK, StoreType, Sound

\* What create_node_as writes.
LEMMA CreateNodeSound ==
  ASSUME IInv, NEW n \in Nodes, NEW class \in DataClasses, CreateNode(n, class)
  PROVE  Sound(mem, Logged(Enrolled(mem, n, class), {Record("node.created", n, None)}))
<1> DEFINE node == [status |-> "online", credential |-> NewToken,
                    abilities |-> SUPPORTED_ABILITIES, data_class |-> class,
                    last_seen |-> now]
<1>1. node \in Node
  BY MemoryTyped DEF Node, NewToken
<1>2. Sound(mem, Enrolled(mem, n, class))
  BY <1>1, MemoryTyped, NodeWriteSound DEF Enrolled, CreateNode
<1>3. {Record("node.created", n, None)} \in SUBSET Activity
  BY DEF Record, Activity
<1> QED
  BY <1>2, <1>3, LoggedSound

\* What redeem_grant writes.
LEMMA RedeemGrantSound ==
  ASSUME IInv, NEW n \in Nodes, NEW g \in GrantCodes, NEW class \in DataClasses,
         RedeemGrant(g, n, class)
  PROVE  Sound(mem, Logged(Enrolled(GrantUsed(mem, g), n, class),
                           {Record("grant.redeemed", n, None)}))
<1> DEFINE node == [status |-> "online", credential |-> NewToken,
                    abilities |-> SUPPORTED_ABILITIES, data_class |-> class,
                    last_seen |-> now]
           grant == [mem.grants[g] EXCEPT !.status = "used"]
           u == GrantUsed(mem, g)
<1>1. node \in Node
  BY MemoryTyped DEF Node, NewToken
<1>2. grant \in Grant /\ grant.status = "used" /\ grant.revoked = mem.grants[g].revoked
  BY MemoryTyped DEF RedeemGrant, GrantRedeemable, Grant, NoGrant
<1>3. ~mem.grants[g].revoked /\ mem.nodes[n].status = "absent"
  BY DEF RedeemGrant, GrantRedeemable
<1>4. u = [mem EXCEPT !.grants[g] = grant]
  BY DEF GrantUsed
<1>5. Sound(mem, u) /\ u.nodes = mem.nodes
  <2>1. Sound(mem, [mem EXCEPT !.grants[g] = grant])
    BY <1>2, <1>3, MemoryTyped, GrantWriteSound
  <2> QED
    BY <1>4, <2>1, MemoryTyped DEF StoreType
<1>6. Sound(mem, Enrolled(u, n, class))
  BY <1>1, <1>3, <1>5, NodeWriteSound DEF Enrolled
<1>7. {Record("grant.redeemed", n, None)} \in SUBSET Activity
  BY DEF Record, Activity
<1> QED
  BY <1>6, <1>7, LoggedSound

\* What rotate_node writes.
LEMMA RotateNodeSound ==
  ASSUME IInv, NEW n \in Nodes, RotateNode(n)
  PROVE  Sound(mem, Logged([mem EXCEPT !.nodes[n].credential = NewToken],
                           {Record("node.credential_rotated", n, None)}))
<1> DEFINE node == [mem.nodes[n] EXCEPT !.credential = NewToken]
           u == [mem EXCEPT !.nodes[n].credential = NewToken]
<1>1. node \in Node /\ node.status = mem.nodes[n].status
  BY MemoryTyped DEF Node, NewToken
<1>2. u = [mem EXCEPT !.nodes[n] = node]
  OBVIOUS
<1>3. Sound(mem, u)
  BY <1>1, <1>2, MemoryTyped, NodeWriteSound
<1>4. {Record("node.credential_rotated", n, None)} \in SUBSET Activity
  BY DEF Record, Activity
<1> QED
  BY <1>3, <1>4, LoggedSound

\* What heartbeat writes.
LEMMA HeartbeatSound ==
  ASSUME IInv, NEW n \in Nodes, NEW offer, Heartbeat(n, offer)
  PROVE  Sound(mem, Logged([mem EXCEPT !.nodes[n] =
                              [@ EXCEPT !.last_seen = now, !.abilities = offer]],
                           {Record("node.heartbeat", n, None)}))
<1> DEFINE node == [mem.nodes[n] EXCEPT !.last_seen = now, !.abilities = offer]
           u == [mem EXCEPT !.nodes[n] = [@ EXCEPT !.last_seen = now,
                                                   !.abilities = offer]]
<1>1. node \in Node /\ node.status = mem.nodes[n].status
  BY MemoryTyped DEF Node, Heartbeat, Negotiable
<1>2. u = [mem EXCEPT !.nodes[n] = node]
  OBVIOUS
<1>3. Sound(mem, u)
  BY <1>1, <1>2, MemoryTyped, NodeWriteSound
<1>4. {Record("node.heartbeat", n, None)} \in SUBSET Activity
  BY DEF Record, Activity
<1> QED
  BY <1>3, <1>4, LoggedSound

\* What agent_tasks writes.
LEMMA AgentTasksSound ==
  ASSUME IInv, NEW n \in Nodes
  PROVE  Sound(mem, Logged(Dispatched(mem, Due(mem, n)),
                           {Record("task.dispatched", n, None)}))
<1>1. Due(mem, n) \in SUBSET OpenTasks(mem)
  BY DEF Due, QueuedOrDispatched
<1>2. Sound(mem, Dispatched(mem, Due(mem, n)))
  BY <1>1, MemoryTyped, DispatchedSound
<1>3. {Record("task.dispatched", n, None)} \in SUBSET Activity
  BY DEF Record, Activity
<1> QED
  BY <1>2, <1>3, LoggedSound

\* What create_grant writes.
LEMMA CreateGrantSound ==
  ASSUME IInv, NEW g \in GrantCodes, CreateGrant(g)
  PROVE  Sound(mem, Logged([mem EXCEPT !.grants[g] =
                              [status |-> "unused", revoked |-> FALSE,
                               expires_at |-> now + GrantTTL]],
                           {Record("grant.created", None, None)}))
<1> DEFINE grant == [status |-> "unused", revoked |-> FALSE,
                     expires_at |-> now + GrantTTL]
           u == [mem EXCEPT !.grants[g] = grant]
<1>1. grant \in Grant
  BY MemoryTyped, TimesAreNaturals DEF Grant
<1>2. mem.grants[g].status = "absent" /\ ~mem.grants[g].revoked
  BY MemoryTyped DEF CreateGrant, Grant, NoGrant
<1>3. Sound(mem, u)
  BY <1>1, <1>2, MemoryTyped, GrantWriteSound
<1>4. {Record("grant.created", None, None)} \in SUBSET Activity
  BY DEF Record, Activity
<1> QED
  BY <1>3, <1>4, LoggedSound

\* What revoke_grant writes.
LEMMA RevokeGrantSound ==
  ASSUME IInv, NEW g \in GrantCodes, RevokeGrant(g)
  PROVE  Sound(mem, Logged([mem EXCEPT !.grants[g].revoked = TRUE],
                           {Record("grant.revoked", None, None)}))
<1> DEFINE grant == [mem.grants[g] EXCEPT !.revoked = TRUE]
           u == [mem EXCEPT !.grants[g].revoked = TRUE]
<1>1. grant \in Grant /\ grant.status = mem.grants[g].status /\ grant.revoked
  <2>1. mem.grants[g] \in [status : {"unused", "used"}, revoked : BOOLEAN,
                           expires_at : Nat]
    BY MemoryTyped DEF RevokeGrant, Grant, NoGrant
  <2> QED
    BY <2>1 DEF Grant
<1>2. u = [mem EXCEPT !.grants[g] = grant]
  OBVIOUS
<1>3. Sound(mem, u)
  BY <1>1, <1>2, MemoryTyped, GrantWriteSound
<1>4. {Record("grant.revoked", None, None)} \in SUBSET Activity
  BY DEF Record, Activity
<1> QED
  BY <1>3, <1>4, LoggedSound

\* What create_approval_as writes.
LEMMA CreateApprovalSound ==
  ASSUME IInv, NEW a \in ApprovalIds, NEW req \in Requests,
         CreateApproval(a, ScopeOf(req))
  PROVE  Sound(mem, Logged([mem EXCEPT !.approvals[a] =
                              [status |-> "unused", scope |-> ScopeOf(req),
                               expires_at |-> now + ApprovalTTL]],
                           {Record("approval.created", ScopeOf(req).node, a)}))
<1> DEFINE scope == ScopeOf(req)
           approval == [status |-> "unused", scope |-> scope,
                        expires_at |-> now + ApprovalTTL]
           u == [mem EXCEPT !.approvals[a] = approval]
<1>1. scope \in Scope
  BY InputsAreTyped DEF ScopeOf, Scope, Request
<1>2. approval \in Approval
  BY <1>1, MemoryTyped, TimesAreNaturals DEF Approval
<1>3. mem.approvals[a].status = "absent"
  BY DEF CreateApproval
<1>4. Sound(mem, u)
  BY <1>2, <1>3, MemoryTyped, ApprovalWriteSound
<1>5. {Record("approval.created", scope.node, a)} \in SUBSET Activity
  BY <1>1 DEF Record, Activity, Scope
<1> QED
  BY <1>4, <1>5, LoggedSound

\* What create_task writes, with and without an approval record.
LEMMA CreateTaskSound ==
  ASSUME IInv, NEW t \in TaskIds, NEW req \in Requests, NEW a, CreateTask(t, req, a)
  PROVE  /\ a \in ApprovalIds /\ ApprovalUsable(mem.approvals[a], req) =>
              Sound(mem, Accepted(ApprovalConsumed(mem, a, req), t, req))
         /\ Sound(mem, Accepted(mem, t, req))
<1>1. req \in Request /\ req.node \in Nodes
  BY InputsAreTyped DEF Request
<1>2. mem.tasks[t].state = "absent" /\ mem.nodes[req.node].status # "revoked"
  BY DEF CreateTask, node_is_fresh
<1>3. ASSUME a \in ApprovalIds, ApprovalUsable(mem.approvals[a], req)
      PROVE  Sound(mem, Accepted(ApprovalConsumed(mem, a, req), t, req))
  <2> DEFINE approval == [mem.approvals[a] EXCEPT !.status = "used"]
             u == [mem EXCEPT !.approvals[a].status = "used"]
             records == {Record("approval.consumed", req.node, a)}
  <2>1. mem.approvals[a] \in [status : {"unused", "used"}, scope : Scope,
                              expires_at : Nat]
    BY <1>3, MemoryTyped DEF ApprovalUsable, Approval, NoApproval
  <2>2. /\ approval \in Approval /\ approval.status = "used"
        /\ approval.scope = mem.approvals[a].scope
    BY <2>1 DEF Approval
  <2>3. u = [mem EXCEPT !.approvals[a] = approval]
    OBVIOUS
  <2>4. Sound(mem, u)
    BY <1>3, <2>2, <2>3, MemoryTyped, ApprovalWriteSound
  <2>5. records \in SUBSET Activity
    BY <1>1, <1>3 DEF Record, Activity
  <2>6. Sound(mem, ApprovalConsumed(mem, a, req))
    BY <2>4, <2>5, LoggedSound DEF ApprovalConsumed
  <2>7. /\ ApprovalConsumed(mem, a, req).tasks = mem.tasks
        /\ ApprovalConsumed(mem, a, req).nodes = mem.nodes
    BY MemoryTyped DEF ApprovalConsumed, Logged, StoreType
  <2> QED
    BY <1>1, <1>2, <2>6, <2>7, MemoryTyped, AcceptedSound
<1>4. Sound(mem, Accepted(mem, t, req))
  BY <1>1, <1>2, MemoryTyped, AcceptedSound
<1> QED
  BY <1>3, <1>4

\* What cancel_task writes.
LEMMA CancelTaskSound ==
  ASSUME IInv, NEW t \in TaskIds, NEW by, CancelTask(t, by)
  PROVE  Sound(mem, Logged(Cancelled(mem, {t}),
                           {Record("task.cancelled", mem.tasks[t].request.node, t)}))
<1> DEFINE records == {Record("task.cancelled", mem.tasks[t].request.node, t)}
<1>1. mem.tasks[t].state \in {"queued", "dispatched"}
  BY DEF CancelTask, Cancellable
<1>2. Sound(mem, Cancelled(mem, {t}))
  BY <1>1, MemoryTyped, CancelledSound
<1>3. records \in SUBSET Activity
  <2>1. mem.tasks[t].request \in Request
    BY <1>1, MemoryTyped, KnownTask
  <2> QED
    BY <2>1 DEF Record, Activity, Request
<1> QED
  BY <1>2, <1>3, LoggedSound

\* What agent_result writes.
LEMMA AgentResultSound ==
  ASSUME IInv, NEW l \in held, NEW state \in Outcomes, AgentResult(l, state)
  PROVE  Sound(mem, Completed(mem, l.task, state))
<1>1. l.task \in TaskIds /\ state \in TerminalStates
  BY InputsAreTyped DEF IInv, TypeOK, Lease
<1>2. mem.tasks[l.task].state = "dispatched"
  BY DEF AgentResult, ResultAcceptable
<1> QED
  BY <1>1, <1>2, MemoryTyped, CompletedSound

\* Every step keeps it.
LEMMA StepKeeps ==
  ASSUME IInv, [Next]_vars
  PROVE  Kept
<1>1. mem \in StoreType /\ disk \in StoreType
  BY MemoryTyped
<1>2. Sound(mem, mem) /\ Continues(disk, disk)
  BY MemoryTyped
<1>3. ASSUME NEW n \in Nodes, NodeStep(n)
      PROVE  Kept
  <2>1. ASSUME NEW class \in DataClasses, CreateNode(n, class)
        PROVE  Kept
    BY <2>1, CreateNodeSound, WriteKeeps DEF CreateNode, persist_or_rollback
  <2>2. ASSUME NEW g \in GrantCodes, NEW class \in DataClasses, RedeemGrant(g, n, class)
        PROVE  Kept
    BY <2>2, RedeemGrantSound, WriteKeeps DEF RedeemGrant, persist_or_rollback
  <2>3. CASE RotateNode(n)
    BY <2>3, RotateNodeSound, WriteKeeps DEF RotateNode, persist_or_rollback
  <2>4. CASE RevokeNode(n)
    BY <1>1, <2>4, RevokedSound, WriteKeeps DEF RevokeNode, persist_or_rollback
  <2>5. ASSUME NEW offer, Heartbeat(n, offer)
        PROVE  Kept
    BY <2>5, HeartbeatSound, WriteKeeps DEF Heartbeat, persist_or_rollback
  <2>6. ASSUME NEW offer, HeartbeatUnsupported(n, offer)
        PROVE  Kept
    <3> DEFINE node == [mem.nodes[n] EXCEPT !.last_seen = now]
    <3>1. node \in Node /\ node.status = mem.nodes[n].status
      BY MemoryTyped DEF Node
    <3>2. mem' = [mem EXCEPT !.nodes[n] = node]
      BY <2>6 DEF HeartbeatUnsupported
    <3>3. Sound(mem, mem')
      BY <1>2, <3>1, <3>2, NodeWriteSound
    <3>4. /\ \A m \in Nodes : mem'.nodes[m].status = mem.nodes[m].status
          /\ mem'.tasks = mem.tasks /\ mem'.grants = mem.grants
          /\ mem'.approvals = mem.approvals /\ mem'.audit = mem.audit
      BY <1>1, <3>1, <3>2 DEF StoreType
    <3>5. Continues(mem', disk)
      BY <3>4 DEF IInv, DiskContinuesMemory, Continues, NodesContinue, TasksContinue,
                  GrantsContinue, ApprovalsContinue
    <3> QED
      BY <2>6, <3>3, <3>5, MemoryOnlyKeeps DEF HeartbeatUnsupported
  <2>7. CASE AgentTasks(n)
    BY <2>7, AgentTasksSound, WriteKeeps DEF AgentTasks
  <2>8. CASE AgentTasksRandomFails(n)
    <3>1. PICK done \in SUBSET Due(mem, n) \ {{}, Due(mem, n)} :
            mem' = Dispatched(mem, done)
      BY <2>8 DEF AgentTasksRandomFails
    <3>2. done \in SUBSET OpenTasks(mem)
      BY <3>1 DEF Due, QueuedOrDispatched
    <3>3. /\ Sound(mem, mem')
          /\ \A t \in done : /\ mem.tasks[t].state \in {"queued", "dispatched"}
                              /\ mem'.tasks[t].state = "dispatched"
                              /\ mem'.tasks[t].request = mem.tasks[t].request
          /\ \A t \in TaskIds \ done : mem'.tasks[t] = mem.tasks[t]
          /\ mem'.nodes = mem.nodes /\ mem'.grants = mem.grants
          /\ mem'.approvals = mem.approvals /\ mem'.audit = mem.audit
      BY <3>1, <3>2, MemoryTyped, DispatchedSound
    <3>4. Continues(mem, disk)
      BY DEF IInv, DiskContinuesMemory
    <3>5. TasksContinue(mem', disk)
      BY <3>3, <3>4 DEF Continues, TasksContinue, TerminalStates
    <3>6. Continues(mem', disk)
      BY <3>3, <3>4, <3>5 DEF Continues, NodesContinue, GrantsContinue, ApprovalsContinue
    <3> QED
      BY <2>8, <3>3, <3>6, MemoryOnlyKeeps DEF AgentTasksRandomFails
  <2> QED
    BY <1>3, <2>1, <2>2, <2>3, <2>4, <2>5, <2>6, <2>7, <2>8 DEF NodeStep
<1>4. ASSUME NEW g \in GrantCodes, GrantStep(g)
      PROVE  Kept
  <2>1. CASE CreateGrant(g)
    BY <2>1, CreateGrantSound, WriteKeeps DEF CreateGrant, persist_or_rollback
  <2>2. CASE RevokeGrant(g)
    BY <2>2, RevokeGrantSound, WriteKeeps DEF RevokeGrant, persist_or_rollback
  <2>3. CASE RedeemGrantRandomFails(g)
    <3> DEFINE grant == [mem.grants[g] EXCEPT !.status = "used"]
    <3>1. grant \in Grant /\ grant.status = "used" /\ grant.revoked = mem.grants[g].revoked
      BY <2>3, MemoryTyped DEF RedeemGrantRandomFails, GrantRedeemable, Grant, NoGrant
    <3>2. mem' = [mem EXCEPT !.grants[g] = grant]
      BY <2>3 DEF RedeemGrantRandomFails, GrantUsed
    <3>3. ~mem.grants[g].revoked /\ mem.grants[g].status = "unused"
      BY <2>3 DEF RedeemGrantRandomFails, GrantRedeemable
    <3>4. Sound(mem, mem')
      BY <1>2, <3>1, <3>2, <3>3, GrantWriteSound
    <3>5. /\ \A h \in GrantCodes :
               mem'.grants[h] = IF h = g THEN grant ELSE mem.grants[h]
          /\ mem'.tasks = mem.tasks /\ mem'.nodes = mem.nodes
          /\ mem'.approvals = mem.approvals /\ mem'.audit = mem.audit
      BY <1>1, <3>2 DEF StoreType
    <3>6. Continues(mem', disk)
      <4>1. Continues(mem, disk)
        BY DEF IInv, DiskContinuesMemory
      <4>2. \A h \in GrantCodes :
              /\ mem'.grants[h].status # "absent" => mem.grants[h].status # "absent"
              /\ mem'.grants[h].revoked = mem.grants[h].revoked
              /\ mem'.grants[h].status = "unused" => mem.grants[h].status = "unused"
        BY <3>1, <3>3, <3>5
      <4>3. GrantsContinue(mem', disk)
        BY <4>1, <4>2 DEF Continues, GrantsContinue
      <4> QED
        BY <3>5, <4>1, <4>3 DEF Continues, NodesContinue, TasksContinue, ApprovalsContinue
    <3> QED
      BY <2>3, <3>4, <3>6, MemoryOnlyKeeps DEF RedeemGrantRandomFails
  <2> QED
    BY <1>4, <2>1, <2>2, <2>3 DEF GrantStep
<1>5. ASSUME NEW a \in ApprovalIds, NEW req \in Requests, CreateApproval(a, ScopeOf(req))
      PROVE  Kept
  BY <1>5, CreateApprovalSound, WriteKeeps DEF CreateApproval, persist_or_rollback
<1>6. ASSUME NEW t \in TaskIds, NEW req \in Requests, NEW a, CreateTask(t, req, a)
      PROVE  Kept
  BY <1>6, CreateTaskSound, WriteKeeps DEF CreateTask, persist_or_rollback
<1>7. ASSUME NEW t \in TaskIds, NEW by, CancelTask(t, by)
      PROVE  Kept
  BY <1>7, CancelTaskSound, WriteKeeps DEF CancelTask, persist_or_rollback
<1>8. ASSUME NEW l \in held, NEW state \in Outcomes, AgentResult(l, state)
      PROVE  Kept
  BY <1>8, AgentResultSound, WriteKeeps DEF AgentResult
<1>9. CASE Restart
  BY <1>1, <1>2, <1>9 DEF Restart, Kept, IInv, RevokedQuiesced, DiskContinuesMemory
<1>10. CASE Tick \/ UNCHANGED vars
  BY <1>1, <1>2, <1>10
  DEF Tick, vars, Kept, IInv, RevokedQuiesced, DiskContinuesMemory, Sound
<1> QED
  BY <1>3, <1>4, <1>5, <1>6, <1>7, <1>8, <1>9, <1>10 DEF Next, TaskStep

\* The store a start finds: with the one record that the first write made, or
\* empty.
FirstWritten(s, drawn) ==
  \/ \E n \in Nodes, class \in DataClasses : s = FirstNode(n, class) /\ drawn = 1
  \/ \E g \in GrantCodes : s = FirstGrant(g) /\ drawn = 0
  \/ \E a \in ApprovalIds, req \in Requests :
       s = FirstApproval(a, ScopeOf(req)) /\ drawn = 0

FirstStore(s, drawn) ==
  \/ FirstWritten(s, drawn)
  \/ s = EmptyStore /\ drawn = 0

\* Such a store has no task and no revoked node, and its credentials are drawn.
Fresh(s, drawn) ==
  /\ s \in StoreType
  /\ s.tasks = EmptyStore.tasks
  /\ drawn \in Nat
  /\ \A n \in Nodes : /\ s.nodes[n].status # "revoked"
                     /\ s.nodes[n].credential <= drawn

LEMMA FirstStoresAreFresh ==
  ASSUME NEW s, NEW drawn, FirstStore(s, drawn)
  PROVE  /\ Fresh(s, drawn)
         /\ FirstWritten(s, drawn) => s.audit # {}
<1>1. /\ EmptyStore \in StoreType
      /\ \A n \in Nodes : /\ EmptyStore.nodes[n].status = "absent"
                         /\ EmptyStore.nodes[n].credential = 0
  BY DEF EmptyStore, StoreType, Node, Task, Grant, Approval
<1>2. s = EmptyStore /\ drawn = 0 => Fresh(s, drawn)
  BY <1>1 DEF Fresh
<1>3. ASSUME NEW n \in Nodes, NEW class \in DataClasses,
             s = FirstNode(n, class), drawn = 1
      PROVE  Fresh(s, drawn) /\ s.audit # {}
  <2> DEFINE node == [status |-> "online", credential |-> 1,
                      abilities |-> SUPPORTED_ABILITIES, data_class |-> class,
                      last_seen |-> 0]
  <2>1. node \in Node /\ {Record("node.created", n, None)} \in SUBSET Activity
    BY DEF Node, Record, Activity
  <2>2. /\ s = [nodes |-> [EmptyStore.nodes EXCEPT ![n] = node],
                tasks |-> EmptyStore.tasks, grants |-> EmptyStore.grants,
                approvals |-> EmptyStore.approvals,
                audit |-> {Record("node.created", n, None)}]
    BY <1>3 DEF FirstNode, Logged, EmptyStore
  <2> QED
    BY <1>1, <1>3, <2>1, <2>2 DEF StoreType, Fresh
<1>4. ASSUME NEW g \in GrantCodes, s = FirstGrant(g), drawn = 0
      PROVE  Fresh(s, drawn) /\ s.audit # {}
  <2> DEFINE grant == [status |-> "unused", revoked |-> FALSE, expires_at |-> GrantTTL]
  <2>1. grant \in Grant /\ {Record("grant.created", None, None)} \in SUBSET Activity
    BY TimesAreNaturals DEF Grant, Record, Activity
  <2>2. /\ s = [nodes |-> EmptyStore.nodes, tasks |-> EmptyStore.tasks,
                grants |-> [EmptyStore.grants EXCEPT ![g] = grant],
                approvals |-> EmptyStore.approvals,
                audit |-> {Record("grant.created", None, None)}]
    BY <1>4 DEF FirstGrant, Logged, EmptyStore
  <2> QED
    BY <1>1, <1>4, <2>1, <2>2 DEF StoreType, Fresh
<1>5. ASSUME NEW a \in ApprovalIds, NEW req \in Requests,
             s = FirstApproval(a, ScopeOf(req)), drawn = 0
      PROVE  Fresh(s, drawn) /\ s.audit # {}
  <2> DEFINE approval == [status |-> "unused", scope |-> ScopeOf(req),
                          expires_at |-> ApprovalTTL]
             record == Record("approval.created", ScopeOf(req).node, a)
  <2>1. approval \in Approval /\ record \in Activity
    BY TimesAreNaturals, InputsAreTyped
    DEF Approval, Scope, ScopeOf, Request, Record, Activity
  <2>2. /\ s = [nodes |-> EmptyStore.nodes, tasks |-> EmptyStore.tasks,
                grants |-> EmptyStore.grants,
                approvals |-> [EmptyStore.approvals EXCEPT ![a] = approval],
                audit |-> {record}]
    BY <1>5 DEF FirstApproval, Logged, EmptyStore
  <2> HIDE DEF record
  <2> QED
    BY <1>1, <1>5, <2>1, <2>2 DEF StoreType, Fresh
<1> QED
  BY <1>2, <1>3, <1>4, <1>5 DEF FirstStore, FirstWritten

\* What Init says, however the first write came about.
LEMMA InitialStore ==
  ASSUME Init
  PROVE  /\ FirstStore(mem, issued) /\ Fresh(mem, issued)
         /\ disk = mem /\ now = 0 /\ held = {} /\ reported = {}
         /\ Backend = "snapshot" => mem.audit # {}
<1>1. CASE EmptyInit /\ Backend # "snapshot"
  BY <1>1, FirstStoresAreFresh DEF EmptyInit, BeginsWith, FirstStore
<1>2. CASE FirstWrite
  <2>1. /\ FirstWritten(mem, issued)
        /\ disk = mem /\ now = 0 /\ held = {} /\ reported = {}
    BY <1>2 DEF FirstWrite, BeginsWith, FirstWritten
  <2>2. FirstStore(mem, issued)
    BY <2>1 DEF FirstStore
  <2> QED
    BY <2>1, <2>2, FirstStoresAreFresh
<1> QED
  BY <1>1, <1>2 DEF Init

\* Such a store satisfies the invariant.
LEMMA InitEstablishes == Init => IInv
<1> SUFFICES ASSUME Init PROVE IInv
  OBVIOUS
<1>1. /\ Fresh(mem, issued) /\ Continues(mem, mem)
      /\ disk = mem /\ now = 0 /\ held = {} /\ reported = {}
      /\ Backend = "snapshot" => mem.audit # {}
  BY InitialStore, ContinuesReflexive DEF Fresh
<1>2. Quiesced(mem)
  BY <1>1 DEF Fresh, Quiesced
<1> QED
  BY <1>1, <1>2 DEF Fresh, IInv, TypeOK, RevokedQuiesced, DiskContinuesMemory, Begun

\* The variables besides memory and disk keep their types.
LEMMA StepTypes ==
  ASSUME IInv, [Next]_vars, mem' \in StoreType, disk' \in StoreType
  PROVE  TypeOK'
<1>1. now \in Nat /\ issued \in Nat /\ held \subseteq Lease /\ reported \subseteq Report
  BY DEF IInv, TypeOK
<1>2. now' \in {now, now + 1} /\ issued' \in {issued, issued + 1}
  <2>1. ASSUME NEW n \in Nodes, NodeStep(n)
        PROVE  now' = now /\ issued' \in {issued, issued + 1}
    BY <2>1 DEF NodeStep, CreateNode, RedeemGrant, RotateNode, RevokeNode, Heartbeat,
      HeartbeatUnsupported, AgentTasks, AgentTasksRandomFails, random_token
  <2>2. ASSUME NEW g \in GrantCodes, GrantStep(g)
        PROVE  now' = now /\ issued' = issued
    BY <2>2 DEF GrantStep, CreateGrant, RevokeGrant, RedeemGrantRandomFails
  <2>3. ASSUME NEW t \in TaskIds, TaskStep(t)
        PROVE  now' = now /\ issued' = issued
    BY <2>3 DEF TaskStep, CreateTask, CancelTask
  <2>4. ASSUME NEW a \in ApprovalIds, NEW req \in Requests,
               CreateApproval(a, ScopeOf(req))
        PROVE  now' = now /\ issued' = issued
    BY <2>4 DEF CreateApproval
  <2>5. ASSUME NEW l \in held, NEW state \in Outcomes, AgentResult(l, state)
        PROVE  now' = now /\ issued' = issued
    BY <2>5 DEF AgentResult
  <2>6. CASE Tick \/ Restart \/ UNCHANGED vars
    BY <2>6 DEF Tick, Restart, vars
  <2> QED
    BY <2>1, <2>2, <2>3, <2>4, <2>5, <2>6 DEF Next
<1>3. now' \in Nat /\ issued' \in Nat
  BY <1>1, <1>2
<1>4. held' \subseteq Lease
  <2>1. ASSUME NEW n \in Nodes, AgentTasks(n)
        PROVE  held' \subseteq Lease
    <3> DEFINE due == Due(mem, n)
               d == Dispatched(mem, due)
               new == Logged(d, {Record("task.dispatched", n, None)})
    <3>1. held' = held \/ held' = held \cup LeasesOf(new, due)
      BY <2>1 DEF AgentTasks
    <3>2. mem \in StoreType /\ due \in SUBSET OpenTasks(mem)
      BY DEF IInv, TypeOK, Due, QueuedOrDispatched
    <3>3. d \in StoreType
          /\ \A t \in due : t \in TaskIds /\ d.tasks[t].state = "dispatched"
      BY <1>1, <3>2, DispatchedSound DEF Sound, IInv, TypeOK
    <3>4. new.tasks = d.tasks
      BY <3>3 DEF Logged, StoreType
    <3>5. \A t \in due : /\ t \in TaskIds
                         /\ new.tasks[t].lease_token \in Nat
                         /\ new.tasks[t].lease_until \in Nat
      <4>1. \A t \in due : d.tasks[t] \in Task /\ d.tasks[t].state # "absent"
        BY <3>3 DEF StoreType
      <4> QED
        BY <3>3, <3>4, <4>1, KnownTask
    <3> HIDE DEF new, due, d
    <3>6. LeasesOf(new, due) \subseteq Lease
      BY <3>5 DEF LeasesOf, Lease
    <3> QED
      BY <1>1, <3>1, <3>6
  <2> QED
    BY <1>1, <2>1 DEF Next, NodeStep, GrantStep, TaskStep, CreateNode, RedeemGrant,
      RotateNode, RevokeNode, Heartbeat, HeartbeatUnsupported, AgentTasksRandomFails,
      CreateGrant, RevokeGrant, RedeemGrantRandomFails, CreateApproval, CreateTask,
      CancelTask, AgentResult, Tick, Restart, vars
<1>5. reported' \subseteq Report
  <2>1. ASSUME NEW l \in held, NEW state \in Outcomes, AgentResult(l, state)
        PROVE  reported' \subseteq Report
    <3>1. [task |-> l.task, token |-> l.token, state |-> state] \in Report
      BY <1>1, InputsAreTyped DEF Lease, Report
    <3> QED
      BY <1>1, <2>1, <3>1 DEF AgentResult
  <2> QED
    BY <1>1, <2>1 DEF Next, NodeStep, GrantStep, TaskStep, CreateNode, RedeemGrant,
      RotateNode, RevokeNode, Heartbeat, HeartbeatUnsupported, AgentTasks,
      AgentTasksRandomFails, CreateGrant, RevokeGrant, RedeemGrantRandomFails,
      CreateApproval, CreateTask, CancelTask, Tick, Restart, vars
<1> QED
  BY <1>3, <1>4, <1>5 DEF TypeOK

\* The invariant is inductive.
LEMMA Inductive == IInv /\ [Next]_vars => IInv'
<1> SUFFICES ASSUME IInv, [Next]_vars
             PROVE  IInv'
  OBVIOUS
<1>1. Kept /\ TypeOK'
  BY StepKeeps, StepTypes DEF Kept
<1>2. Begun'
  BY <1>1 DEF Kept, Continues, IInv, Begun
<1> QED
  BY <1>1, <1>2 DEF Kept, IInv, RevokedQuiesced, DiskContinuesMemory

\* The invariant holds throughout.
LEMMA AlwaysIInv == Spec => []IInv
BY InitEstablishes, Inductive, PTL DEF Spec

-----------------------------------------------------------------------------
\* Memory, disk and what agents know are of their types in every reachable
\* state: known tasks carry a whole request, no handler stores an unknown
\* ability or a negative lease.
THEOREM TypeCorrect == Spec => []TypeOK
BY AlwaysIInv, PTL DEF IInv

\* However admissions, polls, refused writes and restarts interleave, a
\* revoked node has no task left to run, in memory or on disk.
THEOREM RevokedStayQuiet == Spec => []RevokedQuiesced
BY AlwaysIInv, PTL DEF IInv

\* What a restart would load never lacks what memory has recorded.
THEOREM DiskIsNeverBehind == Spec => []DiskContinuesMemory
BY AlwaysIInv, PTL DEF IInv

\* No step, a restart included, forgets a record or reverses a revocation, a
\* used approval or the outcome of a task.
THEOREM HistoryOnlyGrows == Spec => HistoryGrows
<1>1. IInv /\ [Next]_vars => [Continues(mem, mem')]_vars
  BY StepKeeps DEF Kept
<1> QED
  BY AlwaysIInv, <1>1, PTL DEF Spec, HistoryGrows

\* New leases and accepted results are for tasks that are open before or
\* after the step, and a revoked node has no open task.
LEMMA SilentStep ==
  ASSUME IInv, Next
  PROVE  \A x \in (held' \ held) \cup (reported' \ reported) :
           mem.nodes[mem.tasks[x.task].request.node].status # "revoked"
<1>1. held \subseteq Lease /\ reported \subseteq Report
  BY DEF IInv, TypeOK
<1>2. ASSUME NEW n \in Nodes, AgentTasks(n), NEW x \in held' \ held
      PROVE  mem.nodes[mem.tasks[x.task].request.node].status # "revoked"
  <2> DEFINE due == Due(mem, n)
             new == Logged(Dispatched(mem, due), {Record("task.dispatched", n, None)})
  <2>1. x \in LeasesOf(new, due) /\ mem.nodes[n].status = "online"
    BY <1>2 DEF AgentTasks, node_is_fresh
  <2> HIDE DEF new
  <2>2. x.task \in due
    BY <2>1 DEF LeasesOf
  <2>3. mem.tasks[x.task].request.node = n
    BY <2>2 DEF Due, QueuedOrDispatched
  <2> QED
    BY <2>1, <2>3
<1>3. ASSUME NEW l \in held, NEW state \in Outcomes, AgentResult(l, state),
             NEW x \in reported' \ reported
      PROVE  mem.nodes[mem.tasks[x.task].request.node].status # "revoked"
  <2>1. x = [task |-> l.task, token |-> l.token, state |-> state]
    BY <1>3 DEF AgentResult
  <2>2. l.task \in TaskIds
    BY <1>1 DEF Lease
  <2>3. mem.tasks[l.task].state = "dispatched"
    BY <1>3 DEF AgentResult, ResultAcceptable
  <2>4. mem.tasks[l.task].request.node \in Nodes
    BY <2>2, <2>3, KnownTask DEF IInv, TypeOK, StoreType, Request
  <2>5. l.task \in QueuedOrDispatched(mem, mem.tasks[l.task].request.node)
    BY <2>2, <2>3 DEF QueuedOrDispatched, OpenTasks
  <2>6. Quiesced(mem)
    BY DEF IInv, RevokedQuiesced
  <2> QED
    BY <2>1, <2>4, <2>5, <2>6 DEF Quiesced
<1>4. ASSUME NEW x \in held' \ held
      PROVE  \E n \in Nodes : AgentTasks(n)
  BY <1>4 DEF Next, NodeStep, GrantStep, TaskStep, CreateNode, RedeemGrant,
    RotateNode, RevokeNode, Heartbeat, HeartbeatUnsupported, AgentTasksRandomFails,
    CreateGrant, RevokeGrant, RedeemGrantRandomFails, CreateApproval, CreateTask,
    CancelTask, AgentResult, Tick, Restart
<1>5. ASSUME NEW x \in reported' \ reported
      PROVE  \E l \in held, state \in Outcomes : AgentResult(l, state)
  BY <1>5 DEF Next, NodeStep, GrantStep, TaskStep, CreateNode, RedeemGrant,
    RotateNode, RevokeNode, Heartbeat, HeartbeatUnsupported, AgentTasks,
    AgentTasksRandomFails, CreateGrant, RevokeGrant, RedeemGrantRandomFails,
    CreateApproval, CreateTask, CancelTask, Tick, Restart
<1> QED
  BY <1>2, <1>3, <1>4, <1>5

\* Whatever is under way when a node is revoked, nobody is told of a lease on
\* one of its tasks afterwards, and no result of one is accepted.
THEOREM RevokedNodesAreSilent == Spec => RevokedIsSilent
<1>1. IInv /\ [Next]_vars =>
        [\A x \in (held' \ held) \cup (reported' \ reported) :
           mem.nodes[mem.tasks[x.task].request.node].status # "revoked"]_vars
  BY SilentStep
<1> QED
  BY AlwaysIInv, <1>1, PTL DEF Spec, RevokedIsSilent

-----------------------------------------------------------------------------
(* Credentials                                                              *)

\* A store in which every credential is that of memory or newly drawn.
Renewed(s) ==
  \A n \in Nodes :
    s.nodes[n].credential \in {mem.nodes[n].credential, NewToken}

\* A store in which every credential is that of memory.
SameCredentials(s) ==
  \A n \in Nodes : s.nodes[n].credential = mem.nodes[n].credential

\* What a step other than a restart does to the credentials.
CredentialsKept == CredentialsDrawn' /\ Renewed(mem')

\* Whether a write is accepted or refused, memory keeps its credentials or
\* takes the new ones, and disk is not behind it.
LEMMA WriteRenews ==
  ASSUME IInv, CredentialsDrawn, Kept, NEW new, Persisted(new) \/ Refused(new),
         \/ issued' = issued + 1 /\ Renewed(new)
         \/ issued' = issued /\ SameCredentials(new)
  PROVE  CredentialsKept
<1>1. /\ issued \in Nat
      /\ \A n \in Nodes : /\ mem.nodes[n].credential \in Nat
                          /\ disk.nodes[n].credential \in Nat
  BY DEF IInv, TypeOK, StoreType, Node
<1>2. disk' = Saved(new) => disk'.nodes = new.nodes
  BY DEF Kept, StoreType, Saved
<1>3. Renewed(new)
  BY DEF Renewed, SameCredentials
<1>4. CASE Persisted(new)
  BY <1>1, <1>2, <1>3, <1>4
  DEF Persisted, Renewed, SameCredentials, CredentialsDrawn, CredentialsKept, NewToken
<1>5. CASE Refused(new)
  <2>1. mem' = mem /\ (disk' = disk \/ disk'.nodes = new.nodes)
    BY <1>2, <1>5, RefusedIsEither
  <2> QED
    BY <1>1, <1>3, <2>1
    DEF Renewed, SameCredentials, CredentialsDrawn, CredentialsKept, NewToken
<1> QED
  BY <1>4, <1>5

\* Enrolment and rotation are all that changes a credential.
LEMMA StepRenews ==
  ASSUME IInv, CredentialsDrawn, [Next]_vars, ~Restart
  PROVE  CredentialsKept
<1>1. mem \in StoreType /\ Kept
  BY StepKeeps DEF IInv, TypeOK
<1>2. \A n \in Nodes : mem.nodes[n] \in Node
  BY <1>1 DEF StoreType
<1>3. \A s : s.nodes = mem.nodes => SameCredentials(s)
  BY DEF SameCredentials
<1>4. \A tasks, records :
        /\ Logged(Cancelled(mem, tasks), records).nodes = mem.nodes
        /\ Logged(Dispatched(mem, tasks), records).nodes = mem.nodes
        /\ Dispatched(mem, tasks).nodes = mem.nodes
  BY <1>1 DEF Logged, Cancelled, Dispatched, StoreType
<1>5. ASSUME NEW n \in Nodes, NEW class \in DataClasses, CreateNode(n, class)
      PROVE  CredentialsKept
  <2> DEFINE new == Logged(Enrolled(mem, n, class), {Record("node.created", n, None)})
  <2>1. Renewed(new)
    BY <1>1, <1>2 DEF Logged, Enrolled, Renewed, StoreType
  <2> HIDE DEF new
  <2> QED
    BY <1>1, <1>5, <2>1, WriteRenews
    DEF new, CreateNode, random_token, persist_or_rollback
<1>6. ASSUME NEW n \in Nodes, NEW g \in GrantCodes, NEW class \in DataClasses,
             RedeemGrant(g, n, class)
      PROVE  CredentialsKept
  <2> DEFINE new == Logged(Enrolled(GrantUsed(mem, g), n, class),
                           {Record("grant.redeemed", n, None)})
  <2>1. Renewed(new)
    BY <1>1, <1>2 DEF Logged, Enrolled, GrantUsed, Renewed, StoreType
  <2> HIDE DEF new
  <2> QED
    BY <1>1, <1>6, <2>1, WriteRenews
    DEF new, RedeemGrant, random_token, persist_or_rollback
<1>7. ASSUME NEW n \in Nodes, RotateNode(n)
      PROVE  CredentialsKept
  <2> DEFINE new == Logged([mem EXCEPT !.nodes[n].credential = NewToken],
                           {Record("node.credential_rotated", n, None)})
  <2>1. Renewed(new)
    BY <1>1, <1>2 DEF Logged, Renewed, StoreType, Node
  <2> HIDE DEF new
  <2> QED
    BY <1>1, <1>7, <2>1, WriteRenews
    DEF new, RotateNode, random_token, persist_or_rollback
<1>8. ASSUME NEW n \in Nodes, RevokeNode(n)
      PROVE  CredentialsKept
  <2> DEFINE new == Revoked(mem, n)
  <2>1. SameCredentials(new)
    BY <1>1, <1>2 DEF Revoked, Cancelled, Logged, SameCredentials, StoreType, Node
  <2> HIDE DEF new
  <2> QED
    BY <1>1, <1>8, <2>1, WriteRenews DEF new, RevokeNode, persist_or_rollback
<1>9. ASSUME NEW n \in Nodes, NEW offer, Heartbeat(n, offer)
      PROVE  CredentialsKept
  <2> DEFINE new == Logged([mem EXCEPT !.nodes[n] =
                              [@ EXCEPT !.last_seen = now, !.abilities = offer]],
                           {Record("node.heartbeat", n, None)})
  <2>1. SameCredentials(new)
    BY <1>1, <1>2 DEF Logged, SameCredentials, StoreType, Node
  <2> HIDE DEF new
  <2> QED
    BY <1>1, <1>9, <2>1, WriteRenews DEF new, Heartbeat, persist_or_rollback
<1>10. ASSUME NEW n \in Nodes, NEW offer, HeartbeatUnsupported(n, offer)
       PROVE  CredentialsKept
  <2>1. SameCredentials(mem')
    BY <1>1, <1>2, <1>10 DEF HeartbeatUnsupported, SameCredentials, StoreType, Node
  <2> QED
    BY <1>10, <2>1
    DEF HeartbeatUnsupported, SameCredentials, Renewed, CredentialsDrawn, CredentialsKept
<1>11. ASSUME NEW n \in Nodes, AgentTasks(n)
       PROVE  CredentialsKept
  <2> DEFINE new == Logged(Dispatched(mem, Due(mem, n)),
                           {Record("task.dispatched", n, None)})
  <2>1. Renewed(new)
    BY <1>4 DEF Renewed
  <2> HIDE DEF new
  <2> QED
    BY <1>1, <1>11, <2>1, WriteRenews DEF new, AgentTasks, random_token
<1>12. ASSUME NEW n \in Nodes, AgentTasksRandomFails(n)
       PROVE  CredentialsKept
  <2>1. mem'.nodes = mem.nodes
    BY <1>4, <1>12 DEF AgentTasksRandomFails
  <2>2. /\ issued' = issued + 1 /\ disk' = disk /\ issued \in Nat
        /\ \A m \in Nodes : disk.nodes[m].credential \in Nat
    BY <1>12 DEF AgentTasksRandomFails, random_token, IInv, TypeOK, StoreType, Node
  <2> QED
    BY <2>1, <2>2 DEF Renewed, SameCredentials, CredentialsDrawn, CredentialsKept
<1>13. ASSUME NEW g \in GrantCodes, CreateGrant(g) \/ RevokeGrant(g)
       PROVE  CredentialsKept
  <2> DEFINE created == Logged([mem EXCEPT !.grants[g] =
                                  [status |-> "unused", revoked |-> FALSE,
                                   expires_at |-> now + GrantTTL]],
                               {Record("grant.created", None, None)})
             revoked == Logged([mem EXCEPT !.grants[g].revoked = TRUE],
                               {Record("grant.revoked", None, None)})
  <2>1. created.nodes = mem.nodes /\ revoked.nodes = mem.nodes
    BY <1>1 DEF Logged, StoreType
  <2> HIDE DEF created, revoked
  <2> QED
    BY <1>1, <1>3, <1>13, <2>1, WriteRenews
    DEF created, revoked, CreateGrant, RevokeGrant, persist_or_rollback
<1>14. ASSUME NEW g \in GrantCodes, RedeemGrantRandomFails(g)
       PROVE  CredentialsKept
  <2>1. mem'.nodes = mem.nodes
    BY <1>1, <1>14 DEF RedeemGrantRandomFails, GrantUsed, StoreType
  <2> QED
    BY <1>14, <2>1
    DEF RedeemGrantRandomFails, Renewed, SameCredentials, CredentialsDrawn, CredentialsKept
<1>15. ASSUME NEW a \in ApprovalIds, NEW req \in Requests, CreateApproval(a, ScopeOf(req))
       PROVE  CredentialsKept
  <2> DEFINE new == Logged([mem EXCEPT !.approvals[a] =
                              [status |-> "unused", scope |-> ScopeOf(req),
                               expires_at |-> now + ApprovalTTL]],
                           {Record("approval.created", ScopeOf(req).node, a)})
  <2>1. new.nodes = mem.nodes
    BY <1>1 DEF Logged, StoreType
  <2> HIDE DEF new
  <2> QED
    BY <1>1, <1>3, <1>15, <2>1, WriteRenews DEF new, CreateApproval, persist_or_rollback
<1>16. ASSUME NEW t \in TaskIds, NEW req \in Requests, NEW a, CreateTask(t, req, a)
       PROVE  CredentialsKept
  <2>1. /\ Accepted(ApprovalConsumed(mem, a, req), t, req).nodes = mem.nodes
        /\ Accepted(mem, t, req).nodes = mem.nodes
    BY <1>1 DEF Accepted, ApprovalConsumed, Logged, StoreType
  <2> QED
    BY <1>1, <1>3, <1>16, <2>1, WriteRenews DEF CreateTask, persist_or_rollback
<1>17. ASSUME NEW t \in TaskIds, NEW by, CancelTask(t, by)
       PROVE  CredentialsKept
  BY <1>1, <1>3, <1>4, <1>17, WriteRenews DEF CancelTask, persist_or_rollback
<1>18. ASSUME NEW l \in held, NEW state \in Outcomes, AgentResult(l, state)
       PROVE  CredentialsKept
  <2>1. Completed(mem, l.task, state).nodes = mem.nodes
    BY <1>1 DEF Completed, Logged, StoreType
  <2> QED
    BY <1>1, <1>3, <1>18, <2>1, WriteRenews DEF AgentResult
<1>19. CASE Tick \/ UNCHANGED vars
  BY <1>19
  DEF Tick, vars, Renewed, SameCredentials, CredentialsDrawn, CredentialsKept
<1> QED
  BY <1>5, <1>6, <1>7, <1>8, <1>9, <1>10, <1>11, <1>12, <1>13, <1>14, <1>15,
     <1>16, <1>17, <1>18, <1>19
  DEF Next, NodeStep, GrantStep, TaskStep

\* No step brings back an older credential, a restart included: what it loads
\* is not behind memory.
LEMMA CredentialsStep ==
  ASSUME IInv, CredentialsDrawn, [Next]_vars
  PROVE  /\ CredentialsDrawn'
         /\ \A n \in Nodes : mem'.nodes[n].credential >= mem.nodes[n].credential
<1>1. /\ issued \in Nat
      /\ \A n \in Nodes : /\ mem.nodes[n].credential \in Nat
                          /\ disk.nodes[n].credential \in Nat
  BY DEF IInv, TypeOK, StoreType, Node
<1>2. CASE Restart
  BY <1>1, <1>2 DEF Restart, CredentialsDrawn
<1>3. CASE ~Restart
  BY <1>1, <1>3, StepRenews DEF CredentialsDrawn, CredentialsKept, Renewed, NewToken
<1> QED
  BY <1>2, <1>3

LEMMA DrawnInitially == Init => CredentialsDrawn
BY InitialStore, InitEstablishes
DEF Fresh, CredentialsDrawn, IInv, TypeOK, StoreType, Node

\* Credentials are drawn in memory and on disk, and disk is not behind.
LEMMA AlwaysDrawn == Spec => [](IInv /\ CredentialsDrawn)
<1>1. IInv /\ CredentialsDrawn /\ [Next]_vars => CredentialsDrawn'
  BY CredentialsStep
<1> QED
  BY InitEstablishes, DrawnInitially, Inductive, <1>1, PTL DEF Spec

\* A rotated credential is never the current one again, whatever write is
\* refused and whenever the process is restarted.
THEOREM OldCredentialsStayInvalid == Spec => CredentialsNeverReturn
<1>1. IInv /\ CredentialsDrawn /\ [Next]_vars =>
        [\A n \in Nodes : mem'.nodes[n].credential >= mem.nodes[n].credential]_vars
  BY CredentialsStep
<1> QED
  BY AlwaysDrawn, <1>1, PTL DEF Spec, CredentialsNeverReturn
=============================================================================
