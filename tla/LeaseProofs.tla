----------------------------- MODULE LeaseProofs -----------------------------
(* What the Control Plane promises to its agents: of the leases told for a  *)
(* task at most one is running, and a result that was accepted stands.      *)
EXTENDS AdmissionProofs

\* What memory and disk know of the leases that agents were told of: the task
\* is still dispatched or has ended, its lease token is that of the lease or
\* of a later one, and while it is dispatched it is so for as long.
LeasesKnown(s) ==
  \A l \in held :
    /\ s.tasks[l.task].state \in {"dispatched"} \cup TerminalStates
    /\ l.token <= s.tasks[l.task].lease_token
    /\ s.tasks[l.task].state = "dispatched" => l.until <= s.tasks[l.task].lease_until

\* The inductive invariant: OneLiveLease rests on a task not being due while
\* a lease of it runs, ResultsStand on tokens that grow with every dispatch.
LeaseInv ==
  /\ IInv
  /\ LeasesKnown(mem)
  /\ LeasesKnown(disk)
  /\ \A l \in held : l.token <= issued
  /\ OneLiveLease
  /\ ResultsStand

-----------------------------------------------------------------------------
(* The stores                                                               *)

\* A dispatch gives a task a new token and a lease that ends after now.
LEMMA DispatchRenewsLease ==
  ASSUME NEW task \in Task, task.state \in {"queued", "dispatched"},
         now \in Nat, issued \in Nat
  PROVE  /\ DispatchedTask(task).state = "dispatched"
         /\ DispatchedTask(task).lease_token = issued + 1
         /\ DispatchedTask(task).lease_until = LeaseEnd(task.request)
         /\ LeaseEnd(task.request) \in Nat
         /\ LeaseEnd(task.request) >= now
<1>1. task \in [state : {"queued", "dispatched"} \cup TerminalStates,
                request : Request, lease_until : Nat, lease_token : Nat]
  BY KnownTask
<1>2. /\ DispatchedTask(task).state = "dispatched"
      /\ DispatchedTask(task).lease_token = issued + 1
      /\ DispatchedTask(task).lease_until = LeaseEnd(task.request)
  BY <1>1 DEF DispatchedTask, NewToken
<1>3. LeaseEnd(task.request) \in Nat /\ LeaseEnd(task.request) >= now
  BY <1>1, TimesAreNaturals DEF LeaseEnd, Larger, Request
<1> QED
  BY <1>2, <1>3

\* No change of a store forgets a lease that an agent was told of: only a task
\* whose lease is over is dispatched again.
LEMMA ChangeKeepsLeases ==
  ASSUME IInv, \A l \in held : l.token <= issued,
         NEW s \in StoreType, NEW u \in StoreType, Changes(s, u), LeasesKnown(s)
  PROVE  LeasesKnown(u)
<1> SUFFICES ASSUME NEW l \in held
             PROVE  /\ u.tasks[l.task].state \in {"dispatched"} \cup TerminalStates
                    /\ l.token <= u.tasks[l.task].lease_token
                    /\ u.tasks[l.task].state = "dispatched" =>
                         l.until <= u.tasks[l.task].lease_until
  BY DEF LeasesKnown
<1> DEFINE t == l.task
<1>1. /\ t \in TaskIds /\ l.token \in Nat /\ l.until \in Nat
      /\ l.token <= issued /\ issued \in Nat /\ now \in Nat
  BY DEF IInv, TypeOK, Lease
<1>2. /\ s.tasks[t].state \in {"dispatched"} \cup TerminalStates
      /\ l.token <= s.tasks[t].lease_token
      /\ s.tasks[t].state = "dispatched" => l.until <= s.tasks[t].lease_until
  BY DEF LeasesKnown
<1>3. s.tasks[t] \in Task /\ s.tasks[t].state # "absent"
  BY <1>1, <1>2 DEF StoreType, TerminalStates
<1>4. s.tasks[t] \in [state : {"queued", "dispatched"} \cup TerminalStates,
                      request : Request, lease_until : Nat, lease_token : Nat]
  BY <1>3, KnownTask
<1> HIDE DEF t
<1>5. CASE TaskKept(s, u, t)
  BY <1>2, <1>5 DEF TaskKept, t
<1>6. ASSUME NEW ts, NEW outcome, TasksEnd(s, u, ts, outcome), t \in ts
      PROVE  /\ u.tasks[t].state \in TerminalStates
             /\ u.tasks[t].lease_token = s.tasks[t].lease_token
  BY <1>6 DEF TasksEnd
<1>7. ASSUME NEW ts, NEW outcome, TasksEnd(s, u, ts, outcome), ~TaskKept(s, u, t)
      PROVE  t \in ts
  BY <1>1, <1>7 DEF TasksEnd
<1>8. CASE \E ts, outcome : TasksEnd(s, u, ts, outcome)
  BY <1>2, <1>5, <1>6, <1>7, <1>8 DEF TerminalStates, t
<1>9. ASSUME NEW ts, Dispatches(s, u, ts), ~TaskKept(s, u, t)
      PROVE  /\ u.tasks[t].state = "dispatched"
             /\ l.token <= u.tasks[t].lease_token
             /\ l.until <= u.tasks[t].lease_until
  <2>1. /\ t \in ts /\ s.tasks[t].state \in {"queued", "dispatched"}
        /\ s.tasks[t].state = "dispatched" => s.tasks[t].lease_until <= now
        /\ u.tasks[t] = DispatchedTask(s.tasks[t])
    BY <1>1, <1>9 DEF Dispatches, OpenTasks
  <2>2. s.tasks[t].lease_until <= now /\ l.until <= s.tasks[t].lease_until
    BY <1>2, <2>1 DEF TerminalStates
  <2>3. /\ u.tasks[t].state = "dispatched"
        /\ u.tasks[t].lease_token = issued + 1
        /\ u.tasks[t].lease_until \in Nat
        /\ u.tasks[t].lease_until >= now
    BY <1>1, <1>3, <2>1, DispatchRenewsLease
  <2> QED
    BY <1>1, <1>4, <2>2, <2>3
<1>10. CASE \E ts : Dispatches(s, u, ts)
  BY <1>5, <1>9, <1>10 DEF t
<1>11. ASSUME NEW v \in TaskIds, NEW req, TaskAdmitted(s, u, v, req)
       PROVE  TaskKept(s, u, t)
  BY <1>1, <1>3, <1>11 DEF TaskAdmitted
<1> QED
  BY <1>1, <1>5, <1>8, <1>10, <1>11
  DEF Changes, Alike, Enrols, Redeems, Spends, Admits, AdmitsApproved, Ends, Revokes

-----------------------------------------------------------------------------
(* What agents are told                                                     *)

\* Time and the number of tokens drawn do not go back.
LEMMA ClockAndDraws ==
  ASSUME IInv, [Next]_vars
  PROVE  /\ now \in Nat /\ now' \in {now, now + 1}
         /\ issued \in Nat /\ issued' \in {issued, issued + 1}
<1>1. now \in Nat /\ issued \in Nat
  BY MemoryTyped
<1>2. now' \in {now, now + 1} /\ issued' \in {issued, issued + 1}
  BY DEF Next, NodeStep, GrantStep, TaskStep, CreateNode, RedeemGrant, RotateNode,
    RevokeNode, Heartbeat, HeartbeatUnsupported, AgentTasks, AgentTasksRandomFails,
    CreateGrant, RevokeGrant, RedeemGrantRandomFails, CreateApproval, CreateTask,
    CancelTask, AgentResult, Tick, Restart, random_token, vars
<1> QED
  BY <1>1, <1>2

\* Leases are told by a poll alone, when it has been persisted: each is of a
\* task that was due, and is what memory and disk then say.
Told(x) ==
  /\ x.task \in OpenTasks(mem)
  /\ mem.tasks[x.task].state = "dispatched" => mem.tasks[x.task].lease_until <= now
  /\ x = [task |-> x.task, token |-> issued + 1,
          until |-> LeaseEnd(mem.tasks[x.task].request)]
  /\ \A s \in {mem', disk'} : /\ s.tasks[x.task].state = "dispatched"
                              /\ s.tasks[x.task].lease_token = x.token
                              /\ s.tasks[x.task].lease_until = x.until

LEMMA TellingLeases ==
  ASSUME IInv, NEW n \in Nodes, AgentTasks(n)
  PROVE  /\ held \subseteq held' /\ \A x \in held' \ held : Told(x)
         /\ issued' = issued + 1 /\ now' = now /\ reported' = reported
<1> DEFINE due == Due(mem, n)
           new == Logged(Dispatched(mem, due), {Record("task.dispatched", n, None)})
<1>1. /\ issued' = issued + 1 /\ now' = now /\ reported' = reported
      /\ \/ held' = held
         \/ /\ Persisted(new) /\ held' = held \cup LeasesOf(new, due)
  BY DEF AgentTasks, random_token
<1>2. due \in SUBSET OpenTasks(mem)
  BY DEF Due, QueuedOrDispatched
<1>3. new \in StoreType
  BY AgentTasksSound DEF Sound
<1>4. \A t \in due : /\ t \in TaskIds /\ mem.tasks[t] \in Task
                     /\ mem.tasks[t].state \in {"queued", "dispatched"}
                     /\ new.tasks[t] = DispatchedTask(mem.tasks[t])
  <2>1. Dispatched(mem, due) \in StoreType
    BY <1>2, MemoryTyped, DispatchedSound DEF Sound
  <2>2. new.tasks = Dispatched(mem, due).tasks
    BY <2>1 DEF Logged, StoreType
  <2> QED
    BY <1>2, <2>2, MemoryTyped, DispatchedSound
<1> HIDE DEF new
<1>5. ASSUME Persisted(new), NEW x \in LeasesOf(new, due)
      PROVE  Told(x)
  <2>1. PICK t \in due : x = [task |-> t, token |-> new.tasks[t].lease_token,
                              until |-> new.tasks[t].lease_until]
    BY <1>5 DEF LeasesOf
  <2>2. /\ new.tasks[t].state = "dispatched"
        /\ new.tasks[t].lease_token = issued + 1
        /\ new.tasks[t].lease_until = LeaseEnd(mem.tasks[t].request)
    BY <1>4, <2>1, MemoryTyped, DispatchRenewsLease
  <2>3. TaskKept(new, Saved(new), t)
    BY <1>3, <1>4, <2>1, SavedTasks
  <2>4. mem.tasks[t].state = "dispatched" => mem.tasks[t].lease_until <= now
    BY <2>1 DEF Due
  <2> QED
    BY <1>2, <1>5, <2>1, <2>2, <2>3, <2>4 DEF Told, TaskKept, Persisted
<1> QED
  BY <1>1, <1>5

\* Results are accepted from the lease whose token the task has.
LEMMA AcceptingResults ==
  ASSUME IInv, NEW l \in held, NEW state \in Outcomes, AgentResult(l, state)
  PROVE  /\ held' = held /\ now' = now
         /\ \/ reported' = reported
            \/ /\ reported' = reported \cup
                    {[task |-> l.task, token |-> l.token, state |-> state]}
               /\ mem.tasks[l.task].lease_token = l.token
               /\ mem'.tasks[l.task].state = state
<1>1. l.task \in TaskIds /\ mem \in StoreType
  BY MemoryTyped DEF IInv, TypeOK, Lease
<1>2. Completed(mem, l.task, state).tasks
        = [mem.tasks EXCEPT ![l.task] = [mem.tasks[l.task] EXCEPT !.state = state]]
  BY <1>1 DEF Completed, Logged, StoreType
<1>3. mem.tasks[l.task] \in Task /\ mem.tasks[l.task].state = "dispatched"
  BY <1>1 DEF AgentResult, ResultAcceptable, StoreType
<1>4. mem.tasks[l.task] \in [state : {"queued", "dispatched"} \cup TerminalStates,
                             request : Request, lease_until : Nat, lease_token : Nat]
  BY <1>3, KnownTask
<1>5. Completed(mem, l.task, state).tasks[l.task].state = state
  BY <1>1, <1>2, <1>4 DEF StoreType
<1> QED
  BY <1>5 DEF AgentResult, ResultAcceptable, Persisted

-----------------------------------------------------------------------------
(* Every step                                                               *)

\* A step tells leases, accepts a result, or leaves both as they were.
LEMMA AgentsLearn ==
  ASSUME IInv, [Next]_vars
  PROVE  \/ held' = held /\ reported' = reported
         \/ \E n \in Nodes : AgentTasks(n)
         \/ \E l \in held, state \in Outcomes : AgentResult(l, state)
BY DEF Next, NodeStep, GrantStep, TaskStep, CreateNode, RedeemGrant, RotateNode,
  RevokeNode, Heartbeat, HeartbeatUnsupported, AgentTasksRandomFails, CreateGrant,
  RevokeGrant, RedeemGrantRandomFails, CreateApproval, CreateTask, CancelTask, Tick,
  Restart, vars

\* The leases an agent already had stay known.
LEMMA OldLeasesStayKnown ==
  ASSUME LeaseInv, [Next]_vars, NEW l \in held, NEW s \in {mem', disk'}
  PROVE  /\ s.tasks[l.task].state \in {"dispatched"} \cup TerminalStates
         /\ l.token <= s.tasks[l.task].lease_token
         /\ s.tasks[l.task].state = "dispatched" => l.until <= s.tasks[l.task].lease_until
<1>1. IInv /\ LeasesKnown(mem) /\ LeasesKnown(disk) /\ \A k \in held : k.token <= issued
  BY DEF LeaseInv
<1>2. LeasesKnown(mem')
  BY <1>1, StoresFollowChanges, ChangeKeepsLeases
<1>3. LeasesKnown(disk')
  BY <1>1, StoresFollowChanges, ChangeKeepsLeases
<1> QED
  BY <1>2, <1>3 DEF LeasesKnown

\* A task with a lease that still runs is not due, so a lease that is told is
\* of a task whose earlier leases are over.
LEMMA ToldIsAlone ==
  ASSUME LeaseInv, NEW x, Told(x), NEW l \in held, l.task = x.task
  PROVE  l.until <= now
<1>1. /\ mem.tasks[l.task].state \in {"dispatched"} \cup TerminalStates
      /\ mem.tasks[l.task].state = "dispatched" => l.until <= mem.tasks[l.task].lease_until
  BY DEF LeaseInv, LeasesKnown
<1>2. /\ mem.tasks[l.task].state = "dispatched"
      /\ mem.tasks[l.task].lease_until <= now
  BY <1>1 DEF Told, OpenTasks, TerminalStates
<1>3. l.until \in Nat /\ now \in Nat /\ l.task \in TaskIds /\ mem.tasks[l.task] \in Task
  BY MemoryTyped DEF LeaseInv, IInv, TypeOK, Lease
<1>4. mem.tasks[l.task].lease_until \in Nat
  BY <1>2, <1>3, KnownTask
<1> QED
  BY <1>1, <1>2, <1>3, <1>4

LEMMA LeaseStep == LeaseInv /\ [Next]_vars => LeaseInv'
<1> SUFFICES ASSUME LeaseInv, [Next]_vars
             PROVE  LeaseInv'
  OBVIOUS
<1>1. IInv /\ IInv' /\ (\A l \in held : l.token <= issued) /\ OneLiveLease /\ ResultsStand
  BY Inductive DEF LeaseInv
<1>2. /\ now \in Nat /\ now' \in {now, now + 1}
      /\ issued \in Nat /\ issued' \in {issued, issued + 1}
  BY <1>1, ClockAndDraws
<1>3. /\ \A l \in held : /\ l.task \in TaskIds /\ l.token \in Nat /\ l.until \in Nat
      /\ \A r \in reported : r.task \in TaskIds /\ r.token \in Nat
                             /\ r.state \in TerminalStates
  BY <1>1 DEF IInv, TypeOK, Lease, Report
<1>4. \A r \in reported : mem'.tasks[r.task].state = r.state
  <2>1. Continues(mem, mem')
    BY <1>1, StepKeeps DEF Kept
  <2> QED
    BY <1>1, <1>3, <2>1 DEF ResultsStand, Continues, TasksContinue
<1>5. ASSUME held' = held
      PROVE  /\ LeasesKnown(mem)' /\ LeasesKnown(disk)'
             /\ (\A l \in held : l.token <= issued)'
             /\ OneLiveLease'
  <2>1. \A s \in {mem', disk'} : \A l \in held :
          /\ s.tasks[l.task].state \in {"dispatched"} \cup TerminalStates
          /\ l.token <= s.tasks[l.task].lease_token
          /\ s.tasks[l.task].state = "dispatched" => l.until <= s.tasks[l.task].lease_until
    BY OldLeasesStayKnown
  <2>2. LeasesKnown(mem)' /\ LeasesKnown(disk)'
    BY <1>5, <2>1 DEF LeasesKnown
  <2>3. \A l \in held : l.token <= issued'
    BY <1>1, <1>2, <1>3
  <2>4. \A l, k \in held : l.task = k.task /\ l.until > now' /\ k.until > now' => l = k
    BY <1>1, <1>2, <1>3 DEF OneLiveLease
  <2> QED
    BY <1>5, <2>2, <2>3, <2>4 DEF OneLiveLease
<1>6. CASE held' = held /\ reported' = reported
  <2>1. ResultsStand'
    BY <1>1, <1>4, <1>6 DEF ResultsStand
  <2> QED
    BY <1>1, <1>5, <1>6, <2>1 DEF LeaseInv
<1>7. ASSUME NEW n \in Nodes, AgentTasks(n)
      PROVE  LeaseInv'
  <2>1. /\ held \subseteq held' /\ \A x \in held' \ held : Told(x)
        /\ issued' = issued + 1 /\ now' = now /\ reported' = reported
    BY <1>1, <1>7, TellingLeases
  <2>2. \A s \in {mem', disk'} : \A l \in held' :
          /\ s.tasks[l.task].state \in {"dispatched"} \cup TerminalStates
          /\ l.token <= s.tasks[l.task].lease_token
          /\ s.tasks[l.task].state = "dispatched" => l.until <= s.tasks[l.task].lease_until
    <3> SUFFICES ASSUME NEW s \in {mem', disk'}, NEW l \in held'
                 PROVE  /\ s.tasks[l.task].state \in {"dispatched"} \cup TerminalStates
                        /\ l.token <= s.tasks[l.task].lease_token
                        /\ s.tasks[l.task].state = "dispatched" =>
                             l.until <= s.tasks[l.task].lease_until
      OBVIOUS
    <3>1. CASE l \in held
      BY <3>1, OldLeasesStayKnown
    <3>2. CASE l \notin held
      <4>1. /\ s.tasks[l.task].state = "dispatched"
            /\ s.tasks[l.task].lease_token = l.token
            /\ s.tasks[l.task].lease_until = l.until
        BY <2>1, <3>2 DEF Told
      <4>2. l.token \in Nat /\ l.until \in Nat
        BY <1>1 DEF IInv, TypeOK, Lease
      <4> QED
        BY <4>1, <4>2
    <3> QED
      BY <3>1, <3>2
  <2>3. LeasesKnown(mem)' /\ LeasesKnown(disk)'
    BY <2>2 DEF LeasesKnown
  <2>4. \A l \in held' : l.token <= issued'
    <3>1. \A l \in held' \ held : l.token = issued + 1
      BY <2>1 DEF Told
    <3> QED
      BY <1>1, <1>2, <1>3, <2>1, <3>1
  <2>5. ASSUME NEW l \in held', NEW k \in held', l.task = k.task,
               l.until > now, k.until > now
        PROVE  l = k
    <3>1. CASE l \in held /\ k \in held
      BY <1>1, <2>5, <3>1 DEF OneLiveLease
    <3>2. CASE l \notin held /\ k \notin held
      BY <2>1, <2>5, <3>2 DEF Told
    <3>3. CASE l \in held /\ k \notin held
      <4>1. l.until <= now /\ l.until \in Nat
        BY <1>3, <2>1, <2>5, <3>3, ToldIsAlone
      <4> QED
        BY <1>2, <2>5, <4>1
    <3>4. CASE l \notin held /\ k \in held
      <4>1. k.until <= now /\ k.until \in Nat
        BY <1>3, <2>1, <2>5, <3>4, ToldIsAlone
      <4> QED
        BY <1>2, <2>5, <4>1
    <3> QED
      BY <3>1, <3>2, <3>3, <3>4
  <2>6. OneLiveLease'
    BY <2>1, <2>5 DEF OneLiveLease
  <2>7. \A r \in reported : \A l \in held' : l.task = r.task => l.token <= r.token
    <3>1. \A r \in reported, x \in held' \ held : x.task # r.task
      BY <1>1, <1>3, <2>1 DEF Told, OpenTasks, ResultsStand, TerminalStates
    <3> QED
      BY <1>1, <3>1 DEF ResultsStand
  <2>8. ResultsStand'
    BY <1>4, <2>1, <2>7 DEF ResultsStand
  <2> QED
    BY <1>1, <2>3, <2>4, <2>6, <2>8 DEF LeaseInv
<1>8. ASSUME NEW l \in held, NEW state \in Outcomes, AgentResult(l, state)
      PROVE  LeaseInv'
  <2>1. /\ held' = held /\ now' = now
        /\ \/ reported' = reported
           \/ /\ reported' = reported \cup
                   {[task |-> l.task, token |-> l.token, state |-> state]}
              /\ mem.tasks[l.task].lease_token = l.token
              /\ mem'.tasks[l.task].state = state
    BY <1>1, <1>8, AcceptingResults
  <2>2. \A k \in held : k.task = l.task => k.token <= mem.tasks[l.task].lease_token
    BY DEF LeaseInv, LeasesKnown
  <2>3. \A r \in reported' : /\ mem'.tasks[r.task].state = r.state
                             /\ \A k \in held : k.task = r.task => k.token <= r.token
    BY <1>1, <1>4, <2>1, <2>2 DEF ResultsStand
  <2>4. ResultsStand'
    BY <2>1, <2>3 DEF ResultsStand
  <2> QED
    BY <1>1, <1>5, <2>1, <2>4 DEF LeaseInv
<1> QED
  BY <1>1, <1>6, <1>7, <1>8, AgentsLearn

LEMMA AlwaysLeaseInv == Spec => []LeaseInv
<1>1. Init => LeaseInv
  BY InitEstablishes, InitialStore
  DEF LeaseInv, LeasesKnown, OneLiveLease, ResultsStand
<1> QED
  BY <1>1, LeaseStep, PTL DEF Spec

-----------------------------------------------------------------------------
\* Whatever polls are answered, lost, refused or cut off by a restart, no two
\* agents hold running leases of one task.
THEOREM NoTwoLiveLeases == Spec => []OneLiveLease
<1>1. LeaseInv => OneLiveLease
  BY DEF LeaseInv
<1> QED
  BY AlwaysLeaseInv, <1>1, PTL

\* A result that was answered with 200 stands for ever, and came from the
\* newest lease that was told: never the late answer of an earlier one.
THEOREM AcceptedResultsStand == Spec => []ResultsStand
<1>1. LeaseInv => ResultsStand
  BY DEF LeaseInv
<1> QED
  BY AlwaysLeaseInv, <1>1, PTL
=============================================================================
