---------------------------- MODULE ControlPlane ----------------------------
(* The NodeWe Control Plane (src/control-plane/src/main.rs): nodes enrol,   *)
(* operators submit tasks under policy and approval, agents poll for tasks  *)
(* under a lease and report results.  Each handler holds the store mutex    *)
(* from its first read to its answer, so a handler is one action.  A        *)
(* request that is answered with an error and leaves the store alone is not *)
(* a step; one that is answered with an error and does change it is.        *)
EXTENDS Store

CONSTANTS
  NODE_ONLINE_TTL_MS, DEFAULT_TASK_TIMEOUT_MS,  \* in ticks of now
  LeaseGrace,       \* the 5_000 ms added to a lease
  GrantTTL,         \* the 300_000 ms a grant lives
  ApprovalTTL,      \* the 300_000 ms an approval lives
  AllowedAbilities, ApprovalRequired,           \* policy: exact sets
  AllowedActors, AllowedCommands,               \* policy: {} allows all
  AllowedPaths,     \* the payloads whose path has an allowed prefix
  AllowedDataClasses,
  RequireApprovalRecords,  \* NODEWE_REQUIRE_APPROVAL_RECORDS=1
  Backend,          \* NODEWE_STORAGE_BACKEND
  PersistFails,     \* whether the backend may refuse a write
  RandomFails,      \* whether random_token() may fail
  Requests,         \* the task requests operators send
  Offers,           \* the ability lists heartbeats carry
  Outcomes,         \* the states agents report
  MaxTime, MaxTokens  \* bounds on now and on issued

ASSUME TimesAreNaturals ==
  /\ {NODE_ONLINE_TTL_MS, DEFAULT_TASK_TIMEOUT_MS, LeaseGrace, GrantTTL,
      ApprovalTTL, MaxTime, MaxTokens} \subseteq Nat
ASSUME InputsAreTyped ==
  /\ Requests \subseteq Request
  /\ Outcomes \subseteq TerminalStates
  /\ Backend \in {"snapshot", "sqlite", "postgres"}
  /\ {PersistFails, RandomFails, RequireApprovalRecords} \subseteq BOOLEAN

VARIABLES
  mem,      \* the Store behind the mutex
  disk,     \* the store a restart would load
  now,      \* the wall clock
  issued,   \* how many random tokens have been drawn
  held,     \* the leases that agents have been told of
  reported  \* the results answered with 200

vars == <<mem, disk, now, issued, held, reported>>

Lease == [task : TaskIds, token : Nat, until : Nat]
Report == [task : TaskIds, token : Nat, state : TerminalStates]

TypeOK ==
  /\ mem \in StoreType
  /\ disk \in StoreType
  /\ now \in Nat
  /\ issued \in Nat
  /\ held \subseteq Lease
  /\ reported \subseteq Report

-----------------------------------------------------------------------------
(* Persistence.  The sqlite transaction either commits or leaves the old    *)
(* snapshot, and a postgres COMMIT can take effect although its answer is   *)
(* lost.  The snapshot backend replaces nodes.tsv, tasks.tsv and then       *)
(* store.snapshot, which is what a start loads: the rest of the files       *)
(* follows it, so a write can fail with store.snapshot in place already.    *)

\* What load_legacy_store makes of a line of tasks.tsv.  It expects an older
\* form of it: the actor it reads is the request id, the time-out and the
\* lease token are not found.
LegacyTask(task) ==
  IF task.state = "absent" THEN task
  ELSE [SavedTask(task) EXCEPT !.lease_token = 0, !.request.actor = None,
                               !.request.timeout_ms = DEFAULT_TASK_TIMEOUT_MS]

\* Every write that goes through leaves an audit record, and only
\* store.snapshot is read with its audit.
SnapshotExists == disk.audit # {}

\* Where there is no store.snapshot yet a start takes the tables for a store
\* of the older form: nodes.tsv, and tasks.tsv if the write came so far.
TablesLeft(new) ==
  IF SnapshotExists THEN {}
  ELSE {[disk EXCEPT !.nodes = new.nodes],
        [disk EXCEPT !.nodes = new.nodes,
                     !.tasks = [t \in TaskIds |-> LegacyTask(new.tasks[t])]]}

EitherStore(new) == {disk, Saved(new)}

RefusedDisks(new) ==
  CASE Backend = "sqlite" -> {disk}
    [] Backend = "postgres" -> EitherStore(new)
    [] OTHER -> EitherStore(new) \cup TablesLeft(new)

Persisted(new) == mem' = new /\ disk' = Saved(new)

\* persist_or_rollback on an error: *store = before, and 503.
Refused(new) ==
  /\ PersistFails
  /\ mem' = mem
  /\ disk' \in RefusedDisks(new)

\* A bug: the store is changed in memory only, as if persist were skipped.
Bug_persist_skipped(new) == mem' = new /\ disk' = disk

\* A bug: a refused write is not rolled back.
Bug_no_rollback(new) == Persisted(new) \/ (PersistFails /\ mem' = new /\ UNCHANGED disk)

persist_or_rollback(new) == Persisted(new) \/ Refused(new)

\* random_token(): 32 random bytes, never drawn twice.
random_token ==
  /\ issued < MaxTokens
  /\ issued' = issued + 1

NewToken == issued + 1

node_is_fresh(node) ==
  /\ node.status = "online"
  /\ node.last_seen + NODE_ONLINE_TTL_MS >= now

Logged(s, records) == [s EXCEPT !.audit = @ \cup records]

-----------------------------------------------------------------------------
(* Nodes and pairing grants                                                 *)

\* The node record that create_node_as and redeem_grant both build.
Enrolled(s, n, class) ==
  [s EXCEPT !.nodes[n] =
     [status |-> "online", credential |-> NewToken,
      abilities |-> SUPPORTED_ABILITIES, data_class |-> class,
      last_seen |-> now]]

CreateNode(n, class) ==
  /\ mem.nodes[n].status = "absent"
  /\ random_token
  /\ persist_or_rollback(
       Logged(Enrolled(mem, n, class), {Record("node.created", n, None)}))
  /\ UNCHANGED <<now, held, reported>>

CreateGrant(g) ==
  /\ mem.grants[g].status = "absent"
  /\ disk.grants[g].status = "absent"
  /\ persist_or_rollback(
       Logged([mem EXCEPT !.grants[g] =
                 [status |-> "unused", revoked |-> FALSE,
                  expires_at |-> now + GrantTTL]],
              {Record("grant.created", None, None)}))
  /\ UNCHANGED <<now, issued, held, reported>>

RevokeGrant(g) ==
  /\ mem.grants[g].status # "absent"
  /\ persist_or_rollback(
       Logged([mem EXCEPT !.grants[g].revoked = TRUE],
              {Record("grant.revoked", None, None)}))
  /\ UNCHANGED <<now, issued, held, reported>>

\* A bug: the revocation flag is not consulted.
Bug_redeem_revoked(grant) ==
  grant.status = "unused" /\ grant.expires_at > now

GrantRedeemable(grant) ==
  /\ grant.status = "unused"
  /\ ~grant.revoked
  /\ grant.expires_at > now

\* A bug: the grant is not marked as used.
Bug_grant_reusable(s, g) == s

GrantUsed(s, g) == [s EXCEPT !.grants[g].status = "used"]

RedeemGrant(g, n, class) ==
  /\ mem.nodes[n].status = "absent"
  /\ GrantRedeemable(mem.grants[g])
  /\ random_token
  /\ persist_or_rollback(
       Logged(Enrolled(GrantUsed(mem, g), n, class),
              {Record("grant.redeemed", n, None)}))
  /\ UNCHANGED <<now, held, reported>>

\* redeem_grant marks the grant before it draws the credential, and answers
\* 500 without undoing that when the draw fails.
RedeemGrantRandomFails(g) ==
  /\ RandomFails
  /\ \E n \in Nodes : mem.nodes[n].status = "absent"
  /\ GrantRedeemable(mem.grants[g])
  /\ mem' = GrantUsed(mem, g)
  /\ UNCHANGED <<disk, now, issued, held, reported>>

RotateNode(n) ==
  /\ mem.nodes[n].status = "online"
  /\ random_token
  /\ persist_or_rollback(
       Logged([mem EXCEPT !.nodes[n].credential = NewToken],
              {Record("node.credential_rotated", n, None)}))
  /\ UNCHANGED <<now, held, reported>>

\* The tasks of n that a revocation cancels.
QueuedOrDispatched(s, n) ==
  {t \in OpenTasks(s) : s.tasks[t].request.node = n}

CancelledTask(task) == [task EXCEPT !.state = "cancelled", !.lease_until = 0]

Cancelled(s, tasks) ==
  [s EXCEPT !.tasks = [t \in TaskIds |-> IF t \in tasks
                         THEN CancelledTask(s.tasks[t]) ELSE s.tasks[t]]]

\* A bug: a revocation only cancels what has not been dispatched.
Bug_revoke_queued_only(s, n) ==
  Logged(Cancelled([s EXCEPT !.nodes[n].status = "revoked"],
                   {t \in QueuedOrDispatched(s, n) : s.tasks[t].state = "queued"}),
         {Record("node.revoked", n, None)}
           \cup {Record("task.cancelled_by_node_revoke", n, t) :
                   t \in QueuedOrDispatched(s, n)})

\* A bug: cancelled tasks are not audited.
Bug_revoke_unaudited(s, n) ==
  Logged(Cancelled([s EXCEPT !.nodes[n].status = "revoked"],
                   QueuedOrDispatched(s, n)),
         {Record("node.revoked", n, None)})

Revoked(s, n) ==
  Logged(Cancelled([s EXCEPT !.nodes[n].status = "revoked"],
                   QueuedOrDispatched(s, n)),
         {Record("node.revoked", n, None)}
           \cup {Record("task.cancelled_by_node_revoke", n, t) :
                   t \in QueuedOrDispatched(s, n)})

RevokeNode(n) ==
  /\ mem.nodes[n].status # "absent"
  /\ persist_or_rollback(Revoked(mem, n))
  /\ UNCHANGED <<now, issued, held, reported>>

\* A bug: unknown abilities are not refused.
Bug_negotiates_unknown(offer) == offer # {}

\* normalize_abilities: every name is known and there is at least one.
Negotiable(offer) == offer # {} /\ offer \subseteq SUPPORTED_ABILITIES

Heartbeat(n, offer) ==
  /\ mem.nodes[n].status = "online"
  /\ Negotiable(offer)
  /\ persist_or_rollback(
       Logged([mem EXCEPT !.nodes[n] =
                 [@ EXCEPT !.last_seen = now, !.abilities = offer]],
              {Record("node.heartbeat", n, None)}))
  /\ UNCHANGED <<now, issued, held, reported>>

\* last_seen is assigned before the abilities are negotiated, and 422
\* unsupported_ability is answered without restoring it.
HeartbeatUnsupported(n, offer) ==
  /\ mem.nodes[n].status = "online"
  /\ ~Negotiable(offer)
  /\ mem' = [mem EXCEPT !.nodes[n].last_seen = now]
  /\ UNCHANGED <<disk, now, issued, held, reported>>

-----------------------------------------------------------------------------
(* Approvals and the admission of tasks                                     *)

\* create_approval_as accepts the ability task.exec and no other.
CreateApproval(a, scope) ==
  /\ scope.ability = "task.exec"
  /\ mem.approvals[a].status = "absent"
  /\ disk.approvals[a].status = "absent"
  /\ persist_or_rollback(
       Logged([mem EXCEPT !.approvals[a] =
                 [status |-> "unused", scope |-> scope,
                  expires_at |-> now + ApprovalTTL]],
              {Record("approval.created", scope.node, a)}))
  /\ UNCHANGED <<now, issued, held, reported>>

Unrestricted(allowed, x) == allowed = {} \/ x \in allowed

PolicyAllows(req, class) ==
  /\ req.ability \in AllowedAbilities
  /\ Unrestricted(AllowedActors, req.actor)
  /\ req.ability = "task.exec" => Unrestricted(AllowedCommands, req.payload)
  /\ req.ability \in {"file.read", "file.write"} =>
       Unrestricted(AllowedPaths, req.payload)
  /\ Unrestricted(AllowedDataClasses, class)

NeedsApproval(ability) ==
  ability = "task.exec" \/ ability \in ApprovalRequired

NeedsRecord(ability) == NeedsApproval(ability) /\ RequireApprovalRecords

\* A bug: used approvals are accepted again.
Bug_approval_reusable(approval, req) ==
  /\ approval.status # "absent"
  /\ approval.scope = ScopeOf(req)
  /\ approval.expires_at > now

ApprovalUsable(approval, req) ==
  /\ approval.status = "unused"
  /\ approval.scope = ScopeOf(req)
  /\ approval.expires_at > now

ApprovalConsumed(s, a, req) ==
  Logged([s EXCEPT !.approvals[a].status = "used"],
         {Record("approval.consumed", req.node, a)})

Accepted(s, t, req) ==
  Logged([s EXCEPT !.tasks[t] = [state |-> "queued", request |-> req,
                                 lease_until |-> 0, lease_token |-> 0]],
         {Record("task.accepted", req.node, t),
          Record("policy.allowed", req.node, t)})

SameKey(s, req) ==
  {t \in KnownTasks(s) :
     req.key # None /\ s.tasks[t].request.key = req.key}

\* A bug: the key is only looked up among tasks that are still open.
Bug_key_free_once_done(s, req) == SameKey(s, req) \cap OpenTasks(s) = {}

KeyIsFree(s, req) == SameKey(s, req) = {}

\* A repeated key is answered with the existing task, or with 409 where the
\* request is another; neither changes the store.
\* a is the approval record that is consumed, None when none is asked for
\* (then the caller says approved:true where the ability needs it).
CreateTask(t, req, a) ==
  /\ KeyIsFree(mem, req)
  /\ node_is_fresh(mem.nodes[req.node])
  /\ PolicyAllows(req, mem.nodes[req.node].data_class)
  /\ req.ability \in mem.nodes[req.node].abilities
  /\ mem.tasks[t].state = "absent"
  /\ disk.tasks[t].state = "absent"
  /\ \/ /\ NeedsRecord(req.ability)
        /\ a \in ApprovalIds
        /\ ApprovalUsable(mem.approvals[a], req)
        /\ persist_or_rollback(Accepted(ApprovalConsumed(mem, a, req), t, req))
     \/ /\ ~NeedsRecord(req.ability)
        /\ a = None
        /\ persist_or_rollback(Accepted(mem, t, req))
  /\ UNCHANGED <<now, issued, held, reported>>

\* A bug: a finished task can still be cancelled.
Bug_cancel_terminal(task) == task.state # "absent"

Cancellable(task) == task.state \in {"queued", "dispatched"}

\* by is the authenticated operator, None for an administrator.
CancelTask(t, by) ==
  /\ Cancellable(mem.tasks[t])
  /\ by \in {None, mem.tasks[t].request.actor}
  /\ persist_or_rollback(
       Logged(Cancelled(mem, {t}),
              {Record("task.cancelled", mem.tasks[t].request.node, t)}))
  /\ UNCHANGED <<now, issued, held, reported>>

-----------------------------------------------------------------------------
(* Agents: leases and results                                               *)

Larger(x, y) == IF x > y THEN x ELSE y

LeaseEnd(req) ==
  now + Larger(req.timeout_ms, DEFAULT_TASK_TIMEOUT_MS) + LeaseGrace

\* A bug: a dispatched task is handed to every poll.
Bug_due_while_leased(s, n) == QueuedOrDispatched(s, n)

Due(s, n) ==
  {t \in QueuedOrDispatched(s, n) :
     s.tasks[t].state = "dispatched" => s.tasks[t].lease_until <= now}

DispatchedTask(task) ==
  [task EXCEPT !.state = "dispatched", !.lease_until = LeaseEnd(task.request),
               !.lease_token = NewToken]

Dispatched(s, tasks) ==
  [s EXCEPT !.tasks = [t \in TaskIds |-> IF t \in tasks
                         THEN DispatchedTask(s.tasks[t]) ELSE s.tasks[t]]]

LeasesOf(s, tasks) ==
  {[task |-> t, token |-> s.tasks[t].lease_token,
    until |-> s.tasks[t].lease_until] : t \in tasks}

\* A poll of n.  One number stands for the tokens drawn by one poll: a token
\* is only ever compared with that of the same task.  The answer that tells
\* the agent of its leases may be lost.
AgentTasks(n) ==
  LET due == Due(mem, n)
      new == Logged(Dispatched(mem, due), {Record("task.dispatched", n, None)})
  IN /\ node_is_fresh(mem.nodes[n])
     /\ due # {}
     /\ random_token
     /\ \/ /\ Persisted(new)
           /\ held' \in {held, held \cup LeasesOf(new, due)}
        \/ /\ Refused(new)
           /\ UNCHANGED held
     /\ UNCHANGED <<now, reported>>

\* random_token() fails after the loop has dispatched some of the tasks: 500,
\* without a roll-back and without persisting.
AgentTasksRandomFails(n) ==
  /\ RandomFails
  /\ node_is_fresh(mem.nodes[n])
  /\ random_token
  /\ \E done \in SUBSET Due(mem, n) \ {{}, Due(mem, n)} :
       mem' = Dispatched(mem, done)
  /\ UNCHANGED <<disk, now, held, reported>>

\* A bug: the lease token is not compared.
Bug_any_token(task, token) ==
  task.state = "dispatched" /\ task.lease_until >= now

ResultAcceptable(task, token) ==
  /\ task.state = "dispatched"
  /\ task.lease_until >= now
  /\ task.lease_token # 0
  /\ task.lease_token = token

Completed(s, t, state) ==
  Logged([s EXCEPT !.tasks[t].state = state],
         {Record("task.completed", s.tasks[t].request.node, t)})

\* An agent reports on a lease it holds, at any time and any number of times.
AgentResult(l, state) ==
  LET new == Completed(mem, l.task, state)
  IN /\ ResultAcceptable(mem.tasks[l.task], l.token)
     /\ \/ /\ Persisted(new)
           /\ reported' = reported \cup
                {[task |-> l.task, token |-> l.token, state |-> state]}
        \/ /\ Refused(new)
           /\ UNCHANGED reported
     /\ UNCHANGED <<now, issued, held>>

-----------------------------------------------------------------------------
Tick ==
  /\ now < MaxTime
  /\ now' = now + 1
  /\ UNCHANGED <<mem, disk, issued, held, reported>>

\* The process is killed and started again: main loads the stored snapshot.
Restart ==
  /\ mem' = disk
  /\ UNCHANGED <<disk, now, issued, held, reported>>

NodeStep(n) ==
  \/ \E class \in DataClasses : CreateNode(n, class)
  \/ \E g \in GrantCodes, class \in DataClasses : RedeemGrant(g, n, class)
  \/ RotateNode(n)
  \/ RevokeNode(n)
  \/ \E offer \in Offers : Heartbeat(n, offer)
  \/ \E offer \in Offers : HeartbeatUnsupported(n, offer)
  \/ AgentTasks(n)
  \/ AgentTasksRandomFails(n)

GrantStep(g) ==
  \/ CreateGrant(g)
  \/ RevokeGrant(g)
  \/ RedeemGrantRandomFails(g)

TaskStep(t) ==
  \/ \E req \in Requests, a \in ApprovalIds \cup {None} : CreateTask(t, req, a)
  \/ \E by \in Actors \cup {None} : CancelTask(t, by)

\* The store that the first write to go through can leave.
FirstNode(n, class) ==
  Logged([EmptyStore EXCEPT !.nodes[n] =
            [status |-> "online", credential |-> 1,
             abilities |-> SUPPORTED_ABILITIES, data_class |-> class,
             last_seen |-> 0]],
         {Record("node.created", n, None)})

FirstGrant(g) ==
  Logged([EmptyStore EXCEPT !.grants[g] =
            [status |-> "unused", revoked |-> FALSE, expires_at |-> GrantTTL]],
         {Record("grant.created", None, None)})

FirstApproval(a, scope) ==
  Logged([EmptyStore EXCEPT !.approvals[a] =
            [status |-> "unused", scope |-> scope, expires_at |-> ApprovalTTL]],
         {Record("approval.created", scope.node, a)})

BeginsWith(s, drawn) ==
  /\ mem = s
  /\ disk = s
  /\ now = 0
  /\ issued = drawn
  /\ held = {}
  /\ reported = {}

FirstWrite ==
  \/ \E n \in Nodes, class \in DataClasses : BeginsWith(FirstNode(n, class), 1)
  \/ \E g \in GrantCodes : BeginsWith(FirstGrant(g), 0)
  \/ \E a \in ApprovalIds, req \in Requests :
       /\ req.ability = "task.exec"
       /\ BeginsWith(FirstApproval(a, ScopeOf(req)), 0)

\* Nothing was ever written.
EmptyInit == BeginsWith(EmptyStore, 0)

\* A data directory is looked at from its first store.snapshot on: see
\* EmptySpec for what can be before.  A database starts empty.
Init == IF Backend = "snapshot" THEN FirstWrite ELSE EmptyInit

Next ==
  \/ \E n \in Nodes : NodeStep(n)
  \/ \E g \in GrantCodes : GrantStep(g)
  \/ \E a \in ApprovalIds, req \in Requests : CreateApproval(a, ScopeOf(req))
  \/ \E t \in TaskIds : TaskStep(t)
  \/ \E l \in held, state \in Outcomes : AgentResult(l, state)
  \/ Tick
  \/ Restart

Spec == Init /\ [][Next]_vars

\* A data directory that may have no store.snapshot yet.  A first write that is
\* refused between its tables and the snapshot breaks AuditAccountsForState and
\* RevokedQuiesced, which are therefore promised by Spec alone.
EmptySpec == EmptyInit /\ [][Next]_vars

-----------------------------------------------------------------------------
(* What holds of a store, in memory and on disk                             *)

\* A revoked node has nothing left to run: no interleaving of admission,
\* polls, refused writes and restarts leaves it a queued or dispatched task.
Quiesced(s) ==
  \A n \in Nodes : s.nodes[n].status = "revoked" => QueuedOrDispatched(s, n) = {}

RevokedQuiesced == Quiesced(mem) /\ Quiesced(disk)

\* "Submitting an idempotency key again must not create a second task"
\* (task-state-machine.md), also when the first answer was lost, was a 503,
\* or the process restarted in between.
KeyUnique(s) ==
  \A t, u \in KnownTasks(s) :
    /\ s.tasks[t].request.key # None
    /\ s.tasks[t].request.key = s.tasks[u].request.key
    => t = u

OneTaskPerKey == KeyUnique(mem) /\ KeyUnique(disk)

\* Approvals are spent one for one: for every scope there are exactly as many
\* used approvals as tasks that had to be backed by one.
Balanced(s) ==
  \A scope \in {ScopeOf(req) : req \in Requests} :
    NeedsRecord(scope.ability) =>
      Cardinality({t \in KnownTasks(s) : ScopeOf(s.tasks[t].request) = scope})
        = Cardinality({a \in ApprovalIds :
                         /\ s.approvals[a].status = "used"
                         /\ s.approvals[a].scope = scope})

ApprovalsSpentOnce == Balanced(mem) /\ Balanced(disk)

\* A grant enrols at most one node: no more nodes were ever redeemed than
\* there are grants marked as used.
RedeemedWithin(s) ==
  Cardinality({n \in Nodes : Record("grant.redeemed", n, None) \in s.audit})
    <= Cardinality({g \in GrantCodes : s.grants[g].status = "used"})

GrantEnrollsOnce == RedeemedWithin(mem) /\ RedeemedWithin(disk)

\* The audit trail accounts for the state: what a node, an approval or a task
\* has become is what the records say, wherever a write was refused or a
\* restart came.  That is true of a data directory from its first store.snapshot
\* on, and of EmptySpec it is not.
Accounted(s) ==
  /\ \A n \in Nodes :
       /\ s.nodes[n].status # "absent" <=>
            \E e \in {"node.created", "grant.redeemed"} :
              Record(e, n, None) \in s.audit
       /\ s.nodes[n].status = "revoked" <=>
            Record("node.revoked", n, None) \in s.audit
  /\ \A a \in ApprovalIds : s.approvals[a].status = "used" <=>
       \E n \in Nodes : Record("approval.consumed", n, a) \in s.audit
  /\ \A t \in TaskIds :
       /\ t \in KnownTasks(s) <=>
            \E n \in Nodes : Record("task.accepted", n, t) \in s.audit
       /\ s.tasks[t].state \in TerminalStates <=>
            \E n \in Nodes, e \in {"task.completed", "task.cancelled",
                                   "task.cancelled_by_node_revoke"} :
              Record(e, n, t) \in s.audit

AuditAccountsForState == Accounted(mem) /\ Accounted(disk)

\* A result that was answered with 200 stands for ever, restarts included,
\* and it came from the newest lease any agent was told of: the late result
\* of an agent whose task was dispatched again is never the one recorded.
ResultsStand ==
  \A r \in reported :
    /\ mem.tasks[r.task].state = r.state
    /\ \A l \in held : l.task = r.task => l.token <= r.token

\* Of the leases agents were told of for one task, at most one is running:
\* no expiry, lost answer, refused write or restart lets two agents hold the
\* same task at one time.
OneLiveLease ==
  \A l, k \in held :
    l.task = k.task /\ l.until > now /\ k.until > now => l = k

-----------------------------------------------------------------------------
(* What no step may do                                                      *)

\* History only grows: no handler, refused write, failed random draw or
\* restart forgets a node, task, grant, approval or audit record, takes back
\* a revocation, frees a used approval or changes the state of a finished
\* task ("state transitions are one-way and auditable").
HistoryGrows == [][Continues(mem, mem')]_vars

\* "The old credential is invalid" after a rotation (control-plane-api.md), for
\* good: tokens are numbered as they are drawn, and no refused write and no
\* restart brings an older one back.
CredentialsNeverReturn ==
  [][\A n \in Nodes :
       mem'.nodes[n].credential >= mem.nodes[n].credential]_vars

\* What that rests on: disk has the credential of memory or a newer one, and
\* none that was not drawn.
CredentialsDrawn ==
  \A n \in Nodes :
    /\ mem.nodes[n].credential <= disk.nodes[n].credential
    /\ disk.nodes[n].credential <= issued

\* A revoked node is silent: no agent is told of a lease, and no result is
\* accepted, for a task of a node that was revoked, although agent_result
\* looks at the task and its lease only, not at the node.
RevokedIsSilent ==
  [][\A x \in (held' \ held) \cup (reported' \ reported) :
       mem.nodes[mem.tasks[x.task].request.node].status # "revoked"]_vars

\* The store a restart would load never lacks anything memory has recorded.
DiskContinuesMemory == Continues(mem, disk)

\* The store was written before, so that a refused write leaves no tables
\* without a snapshot.
Begun == Backend = "snapshot" => mem.audit # {}

\* The inductive invariant behind RevokedQuiesced and HistoryGrows: a restart
\* puts disk in the place of memory, so what is claimed of memory has to hold
\* of disk too, and disk has to continue the history of memory.
IInv == TypeOK /\ RevokedQuiesced /\ DiskContinuesMemory /\ Begun

-----------------------------------------------------------------------------
(* What the documents, comments and tests say and the code does not do      *)

\* A change that was refused with 503 has been rolled back: what a restart
\* would load agrees with memory on what has happened and on which tasks
\* exist and are open.
RefusalLeavesNoTrace ==
  /\ disk.audit = mem.audit
  /\ KnownTasks(disk) = KnownTasks(mem)
  /\ OpenTasks(disk) = OpenTasks(mem)

-----------------------------------------------------------------------------
(* The Control Plane implements the ledger of tasks                         *)

Phase(state) ==
  CASE state = "absent" -> "absent"
    [] state \in {"queued", "dispatched"} -> "open"
    [] OTHER -> state

LedgerOf(s) == [t \in TaskIds |-> Phase(s.tasks[t].state)]

Ledger == INSTANCE TaskLedger WITH Tasks <- TaskIds,
                                   Outcomes <- TerminalStates,
                                   ledger <- LedgerOf(mem)

\* Every behaviour of the Control Plane, with its refused writes, expired
\* leases and restarts, is one of the abstract ledger.
ImplementsLedger == Ledger!Spec
=============================================================================
