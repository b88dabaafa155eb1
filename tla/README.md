# NodeWe in TLA+

Specifications of NodeWe, a control plane that runs tasks on enrolled nodes:
TLA+ modules translated from the Rust sources, TLC configurations that check
them on small instances, and theorems checked by TLAPS for all instances.
File names below are relative to the repository; CP is
`control-plane/src/main.rs`, NR is `node-runtime/src/main.rs`, LIB is
`node-runtime/src/lib.rs` and CLI is `cli/src/main.rs`. Numbers after them are
lines. `PROJECT.json` has the lines of every definition.

## The system

| Component | State | Operations | Interaction | What is hard | What makes it correct |
|---|---|---|---|---|---|
| Control Plane store (CP) | nodes, tasks, grants, approvals, audit behind one mutex | one handler per request | HTTP and WebSocket threads call the handlers; every change goes through `persist_or_rollback` | refused writes, restarts, expiring leases, retries, two operators or agents at once | history only grows, one task per key, one task per approval, one node per grant, one live lease, revoked nodes stay quiet, audit accounts for state |
| Persistence (CP) | sqlite row, postgres row or six files | persist, load | called under the mutex | a write that fails half-way or whose answer is lost | what a restart loads continues what was served |
| Start-up (CP) | `store.lock` | acquire, validate, load | once per process | killed process, a key that comes later | exactly one process owns the directory, and a restart can own it |
| HTTP, TLS, JSON (CP) | none | read request, answer | handlers | limits | stateless |
| Connection ceiling (CP) | an atomic counter | accept, guard drop | a thread per connection | early returns, a spawn that fails | the counter is the number of places taken, the ceiling is kept, a plain connection ends |
| Authentication (CP) | node credentials, OIDC secret | authenticate, then route | takes the mutex before the handler does | rotation between the two | a rotated credential has one last effect at most and never comes back |
| WebSocket endpoint and session (CP, NR) | session buffers, back-off | heartbeat, tasks, result, reconnect | calls the handlers | reconnects, time-outs | results reach the store |
| Audit chain and export (CP, `scripts/export-audit.sh`) | hash chain, exported file | seal, export, rotate | read from the store | rotation | the chain verifies |
| Policy (CP) | immutable after start | load | consulted by admission | none | parameter |
| Agent loop (NR) | credential, back-off | enrol, heartbeat, poll, execute, report | HTTP to the handlers | lost answers, late results | a task that can run ends |
| Agent library (LIB) | none | `Scope.resolve`, `TaskState` | used by the agent | links inside paths | nothing outside the roots |
| CLI group run (CLI) | shared queue, results | worker threads | HTTP to `POST /v1/tasks` | failure policy against running workers | every node accounted for |
| CLI local task and stores (CLI) | TSV files, task records, `audit.jsonl` | read, change, write; append | other CLI processes, the workers of a group run | two commands at once, one stopped half-way | an update is lost only where two met, a revocation is seen, the audit accounts for the work |
| SDK, adapters, deployment, cryptography | none or external | | | | |

The files `deploy/*.sh`, `scripts/*.sh`, the SDK and the adapters keep no
state of the program's own.

## Modules

| Module | What it models |
|---|---|
| `Store` | `struct Store` and its records (CP 189-266), what `clean` changes when a store is written (CP 3459), and when one store continues the history of another |
| `ControlPlane` | the handlers, what a write leaves behind per backend, the clock and restarts |
| `TaskLedger` | the abstract promise: a task is accepted once, is open, and ends once |
| `Front` | what stands before the handlers: `main`'s accept loop with its counter, the threads, authentication, plain requests and WebSockets |
| `AgentLoop` | the agent of one node and the leases it works under, over HTTP or a WebSocket |
| `GroupRun` | `nodewe group run`: worker threads, a shared queue, child processes |
| `LocalStores` | the CLI's state directory under a group run and other commands at once |
| `DataDirectory` | the files of the snapshot backend, `store.lock`, and what a start makes of them |
| `MCControlPlane`, `MCFront`, `MCAgentLoop`, `MCLocalStores` | the requests, time-outs and so on that TLC's configurations choose from |
| `ControlPlaneProofs`, `FrontProofs`, `AgentLoopProofs`, `GroupRunProofs`, `LocalStoresProofs`, `DataDirectoryProofs` | the theorems about the module they are named for |
| `AdmissionProofs` | theorems about `ControlPlane`: approvals, grants, the audit, idempotency keys, the ledger of tasks; and what any step may change in a store |
| `LeaseProofs` | theorems about `ControlPlane`: leases and results |

`ControlPlane` is `Store` with handlers, `Front` is `ControlPlane` with
connections, `LocalStores` is `GroupRun` with the files it works on. The two
compositions are shown to implement what they are composed of
(`ServesControlPlane`, `RefinesGroupRun`): the store sees the handlers one at
a time whatever the threads do, and a group run is the one of `GroupRun`
whatever other commands do to its files, so what is checked and proved of the
parts holds of the whole. Both `ControlPlane` and `AgentLoop`
are shown to implement `TaskLedger`: one from the side of the store, with
agents reduced to the leases they hold, the other from the side of the agent,
with the store reduced to the states and leases of its tasks. `DataDirectory`
is the inside of what `ControlPlane` calls `Persisted`, `Refused` and
`Restart` on the snapshot backend. Operators named `Bug_...` are mistakes the
code could have made; no specification uses them. They are there to show that
each property can tell such a mistake.

### ControlPlane and the code

`mem` is the `Store` behind `State.store`; `disk` is the store that
`load_store`, `load_sqlite_store` or `load_postgres_store` would return.
`now` is the wall clock, `issued` counts `random_token`. `held` and `reported`
are what the outside knows: leases told to agents and results answered 200.
An identifier is never reused (`new_id`, random codes), so a Rust vector is a
function from identifiers, with status "absent" for what is not in the vector.

| Action | Code |
|---|---|
| `CreateNode`, `RotateNode`, `RevokeNode` | `create_node_as`, `rotate_node_as`, `revoke_node_as` |
| `CreateGrant`, `RevokeGrant`, `RedeemGrant` | `create_grant_as`, `revoke_grant_as`, `redeem_grant` |
| `RedeemGrantRandomFails` | the 500 of `redeem_grant` after `grant.used = true` |
| `Heartbeat`, `HeartbeatUnsupported` | `heartbeat`: 200, and 422 after `last_seen = now()` |
| `CreateApproval`, `CreateTask`, `CancelTask` | `create_approval_as`, `create_task_as`, `cancel_task_as` |
| `AgentTasks`, `AgentTasksRandomFails` | `agent_tasks`: the poll, and its 500 in the middle of the loop |
| `AgentResult` | `agent_result` |
| `Tick`, `Restart` | time; a kill at any moment and the load in `main` |

Each handler holds the mutex from its first read to its answer, so it is one
action. `persist_or_rollback(new)` is `Persisted` (memory and disk become new)
or `Refused` (503: memory is restored; disk keeps the old store, and with the
snapshot or postgres backend may hold the new one: `store.snapshot` is renamed
before the files that follow it, and a COMMIT's answer can be lost). As long as
a directory has no `store.snapshot` at all, there is a third outcome: the tables
were written and the snapshot was not, and a start reads the tables as
a store of the older form (`TablesLeft`), with no audit and with what
`load_legacy_store` makes of the fields of a task (`LegacyTask`).

So much does that outcome break that there are two specifications. `Spec` looks
at a data directory from its first `store.snapshot` on: its `Init` is
one of the writes that can come first, gone through. On sqlite and postgres it is the
empty store. `EmptySpec` is the same machine from an empty directory. With it in
the place of `Spec`, TLC finds two properties violated on the snapshot backend:

- `AuditAccountsForState`: the creation of a node is refused after `nodes.tsv`,
  and after a restart the node is served with no audit record. Every later
  snapshot keeps it so.
- `RevokedQuiesced`: such a node after the restart, a task that is refused
  after `tasks.tsv`, and a revocation that is refused after `nodes.tsv` leave a
  revoked node with a queued task on disk.

`SnapshotRefusal.cfg` with `EmptySpec` and one of them for its property has both.

Abstractions. A payload is program and argument together. Display metadata,
timestamps and actors of audit records, task output and request ids are left
out. One number stands for all the tokens one poll draws, as a token is only
compared with that of its own task. In `AgentTasksRandomFails` any proper part
of the due tasks may have been reached; the code reaches a prefix of them, in
an order the model does not keep. The credential check in front of the
handlers is `Front`'s; without it the model does more than the code.
`AllowedPaths` is the set of payloads whose path the policy admits: that the
code compares prefixes (CP 686) is a matter of which payloads are in it. A poll or a
result of a node that does not exist is not a step. Read-only handlers are not
steps.

### Front and the code

`active` is `state.active_connections`. `conn` is the thread of each
connection: its `stage`, whether it is a WebSocket (`session`) and the caller
it was authenticated as, with the credential that was presented. A thread is
"leaving" when its `ConnectionGuard` was dropped and it still exists. `stale`
counts the effects a connection had under a credential that was replaced in
the meantime; the code has no such counter, `OneLastWord` is about it.

| Action | Code |
|---|---|
| `Count`, `TurnAway` | `fetch_add`, the comparison with `MAX_CONNECTIONS`, and the `fetch_sub` of main (CP 440-445) |
| `Spawn`, `SpawnFails` | `thread::spawn`, which panics in main when there is no thread to be had (CP 449, 463) |
| `Authenticate`, `Upgrade` | `handle` up to `authenticate_request`, and the switch to a WebSocket for a node's credential (CP 784-809) |
| `Message` | `websocket_message` up to its check of the credential (CP 1079-1093) |
| `Handle`, `HandleInVain` | the handler of `route_with_actor` or `websocket_message`, which is an action of `ControlPlane`, or one that refuses or reads |
| `Leave`, `Gone` | every return from `handle`, the guard, the end of the thread |
| `StartAgain` | the process is ended and started: `Restart` of `ControlPlane`, no connection, a counter of 0 |

Between `Authenticate` or `Message` and `Handle` any other thread may come in:
the code takes the mutex twice. What a grant's redemption needs is in the
request itself, so its caller is "anyone". The routes of agents ask for a
caller that is known, of whatever kind, as in `route_with_actor`. An agent
reports and sends heartbeats for the node its credential was compared with.
Its plain poll is another matter: the credential is that of the node in the
body, if there is one, and the poll is for the node in the path (CP 3488, 3523),
so `Routes` lets it poll for any node; over a WebSocket it is for its own.
`TasksMax` is the limit of the service unit
(`deploy/nodewe-control-plane.service:37`), and threads that are leaving count
against it but not against the ceiling.

### AgentLoop and the code

`state` and `left` are what the Control Plane knows of a task: its state, and
how long its lease still lasts. Keeping the time that is left instead of a
clock means nothing has to be bounded. `batch` is the vector `tasks` of the
agent, `fresh` the part of it whose `lease_token` is still that of the store.
`latePolls` and `lateResults` are requests the agent gave up on that the
Control Plane still handles.

| Action | Code |
|---|---|
| `HeartbeatAnswered`, `CallFails` | the heartbeat of `connect_polling` / `connect_websocket`, and any call of theirs that ends in an error |
| `PollAnswered`, `PollAnswerLost`, `PollAbandoned`, `LatePoll` | `agent_tasks` (CP) with the agent's end of it: answered; handled and unheard of; given up and handled later |
| `Start`, `Returns`, `TimeOut` | `execute_task_with_limit`: a command (`Commands`, `task.exec`) is spawned, waited for and killed at its deadline; a file operation returns when it returns (`FileReturns`), whatever its time-out says |
| `ReportAnswered`, `ReportRefused`, `ReportUnanswered`, `ReportAnswerLost`, `ReportAbandoned`, `ArrivesLate` | the report in either transport, `agent_result` (CP) at the other end, and the two limits in between: 64 KiB for a request (`Oversized`), 15 s of silence for a WebSocket (`Silence`) |
| `RoundEnds`, `Wake`, `Crash` | the sleep between rounds, the back-off, a restart by the service manager |
| `Submit`, `Cancel` | `create_task_as`, `cancel_task_as` and `revoke_node_as` as far as an agent notices |

The two transports differ in `Unanswered` (a polling agent logs and goes on
with its batch, a WebSocket session ends and its batch with it) and in
`Connected`.

### GroupRun and the code

The queue is a vector that is only popped, so `left`, the number of nodes in
it, is all of it. `outcome` is the state `run_task` writes into the task
record of a node; `failures` are the vectors the threads return. Whether a
node is online is left open: `LocalStores` settles it.

| Action | Code |
|---|---|
| `Take`, `QueueEmpty` | the pop under the mutex (CLI 602-607) |
| `Refuse`, `Spawn` | `run_task` up to the child: a node that is not online, a Scope, a command, a failing write, a failing spawn |
| `ChildExits`, `NotRecorded`, `TimeOut`, `WorkerPanics` | the wait loop, the deadline, the record, the audit line, `println!`; an error of the wait or of a pipe (CLI 918, 943) or of a write, after which nothing says how the command ended |
| `Join` | the joins and the answer of `run_group` |

### LocalStores and the code

`tsv` has the entries of `nodes.tsv`, `groups.tsv` and `grants.tsv`. A process
is one command, its `job`; `copy` is what it will write back. `record` has the
files of `tasks/`, `audit` the events of `audit.jsonl`. `calm` are the files
whose changes have not met: no command read one or appended to it while
another held a copy it had yet to write, and none was stopped with the file
emptied. It is there for the properties only. The code of a new grant is
drawn for it, so a plan appends no entry that is there already, nor one twice
(`IsNewGrant`): an appended line for a grant that was revoked would undo the
revocation, and nothing else in the code keeps that from happening.

| Action | Code |
|---|---|
| `Reject`, `ReadFile` | `node pair`, `node enroll`, `node revoke`, `group create`, `grant revoke` up to the change of what they read |
| `EmptyFile`, `WriteFile` | the two halves of `fs::write` in `write_nodes`, `write_groups` and their like; lines of another writer behind the end of the copy remain |
| `AppendLine` | `grant create`, which appends and reads nothing |
| `AuditChange`, `Stop` | `append_audit`; a kill or an error anywhere in between |
| `CheckNode`, `RefuseTask`, `SpawnTask` | `run_task`: the look at `nodes.tsv`, what is refused, the child |
| `EndTask`, `KillTask` | its end or deadline with `persist_task` (two files, of which the second may fail where the state cannot be written) and `append_audit`; where the wait or a pipe failed, nothing is written (`Unrecorded`) |

### DataDirectory and the code

What a file holds is the set of changes written to it, so that it can be seen
which changes a file has and which it lacks; its form is "plain" or, under a
key, "sealed".

| Action | Code |
|---|---|
| `Start`, `LockWriteFails` | `acquire_store_lock`: `create_new`, then the write and sync that may fail with the lock in place |
| `Load`, `StartRefused` | `validate_store_startup`, `load_store`, `load_legacy_store`; `expect` unwinds and so drops the `StoreLock` |
| `Begin`, `WriteFile`, `Answer`, `WriteFails` | `persist_snapshot` under `persist_or_rollback`, one step per file: `nodes.tsv`, `tasks.tsv`, the backup, the snapshot, `grants.tsv`, `approvals.tsv`, `audit.jsonl` |
| `Kill` | any signal: the process handles none and its accept loop never ends |
| `ClearLock` | someone who makes sure that no process is left and removes the lock |

## Runs

Passing runs:

| Run | Module | Shows |
|---|---|---|
| `enrollment` | `MCControlPlane` | `GrantEnrollsOnce`, `RefusalLeavesNoTrace`, `HistoryGrows` with two nodes, two grants, refused writes, failing random draws and heartbeats with unknown abilities, on the transactional backend |
| `dispatch` | `MCControlPlane` | `RevokedQuiesced`, `RevokedIsSilent`, `ResultsStand`, `OneLiveLease`, `DiskContinuesMemory`, `CredentialsNeverReturn` with two tasks, rotation, leases that expire, lost answers, revocation, on the snapshot backend |
| `admission` | `MCControlPlane` | `OneTaskPerKey`, `ApprovalsSpentOnce`, `AuditAccountsForState`, `ImplementsLedger` with two actors, one key, two approvals, on the snapshot backend |
| `front` | `MCFront` | `PlacesTaken`, `WithinCeiling`, `OneLastWord`, `PlainEnds`, `ServesControlPlane` with two connections, a ceiling of two and a thread limit of three, while a credential is rotated and a node revoked |
| `agent` | `MCAgentLoop` | `RecordedWasRun`, `OneRunPerLease`, `EndsOnce`, `EveryTaskEnds`, `KeepsReconnecting` over both transports |
| `group` | `MCLocalStores` | `SharedOut`, `LeftOnlyByErrors`, `WithinConcurrency`, `SuccessAnswersForAll`, `RunEnds` under both policies, by itself and beside two commands that change one file: `LostOnlyToOverlap`, `AuditMatchesWork`, `RevokedIsNotCleared`, `RefinesGroupRun` |
| `data_directory` | `DataDirectory` | `OneOwner`, `AcknowledgedSurvives`, `BackupLagsByOne`, `StaysSealed`, `NoNewTears`, `ServesAgain` with two processes, kills and failed writes, with and without a key |

Five further runs each show a place where the code does not do what a document,
comment or test of the repository says; the findings of `PROJECT.json` quote
both sides.

| Run | What it ends with |
|---|---|
| `snapshot_refusal` | a change refused with 503 that is in `store.snapshot` and comes back with a restart |
| `key_cleaned` | a second task for one idempotency key: the key was rewritten on disk and no longer equals the key of the retry |
| `agent_reports` | a task that is run and handed out again for ever: its output may have 1 MiB, its report 64 KiB. With `Oversized = {}` the same comes of a WebSocket that is closed after 15 s of silence, while a command may run for 300 s |
| `group_stops_after_failed_command` | a worker that goes on under `stop` after a command failed |
| `lock_left` | a Control Plane that was killed and can never start again: its `store.lock` is still there |

Seen while modelling, and not given a run of its own:

- a heartbeat refused with 422 has already refreshed `last_seen`, and so keeps
  its node in schedule (CP 2280, `HeartbeatUnsupported`);
- a repeated key with another `output_limit` is answered with the old task
  instead of a conflict (CP 2012);
- a poll does not look at the node's abilities: a task admitted for one that
  the node has since dropped is still handed out (CP 3536);
- the unit allows the process 256 tasks (`TasksMax=256`), main included, and
  the ceiling 256 connections: with 255 threads the next connection, which the
  ceiling admits, makes `thread::spawn` panic in main and ends the process
  with all connections and, as other threads hold the `State`, with
  `store.lock` left behind (CP 449, `SpawnFails`);
- what has a `node.revoked` between its authentication and its handler is
  refused by the handler; what has a rotation there is not (CP 865). So a
  replaced credential may have one last effect, and no more (`OneLastWord`);
- of two CLI commands that change one TSV file at once, one change can be
  lost, and a command stopped inside `fs::write` leaves the file empty
  (CLI 1343). `LostOnlyToOverlap` says that this is all that loses a change;
- `writeln!` on an unbuffered file writes an audit event and its line end
  apart, so two workers can leave two events on one line (CLI 1508);
- a command past its deadline is reported as failed, though the task state
  machine has timed_out for it (NR 990); the back-off of a WebSocket session is
  never reset (NR 238);
- a poll that fails while drawing a token has dispatched tasks in memory
  without an audit record (CP 3540, `AgentTasksRandomFails`);
- a very first write that fails or is killed before `store.snapshot` exists
  leaves tables that the next start takes for the older format (CP 2878): the
  change is served without an audit record, and more comes of it (`EmptySpec`,
  above). That is why `NoNewTears` speaks of directories with a snapshot;
- `file.read` and `file.write` of the agent have no deadline: a file that
  blocks, such as a FIFO, keeps it from its next heartbeat (NR 1189);
- the key file is read again for every file written (CP 3291): replaced under
  a running process it seals two files of one write with two keys.

### Bounds, and why they are enough

- Core: `MaxTime` and `MaxTokens` bound the clock and the random draws; both
  let a lease (time-out 1, grace 1) run out and be drawn again. Two tasks,
  nodes, grants or approvals are what a race needs; a third would repeat what
  the second does to the first. Symmetry is over the identifiers that no
  property names; these runs check no liveness. `Admission` and `Dispatch` use
  the snapshot backend because it allows more than sqlite, and begin with each of
  the writes that can come first; `enrollment` uses
  sqlite because `RefusalLeavesNoTrace` is what only a transaction gives.
- `agent`: two tasks, the first of which is a command and runs longer than the lease of the
  second, handed out in the same poll; the second is a file
  operation, without a deadline. Failures that leave nothing behind
  (no connection, an error, a refused report) are unbounded; `MaxFaults` bounds
  those that do (lost answers, late requests, kills). One is enough for every
  late arrival to meet every state. The theorems have no bound.
- `front`: two connections for a ceiling of two are the smallest that meet
  the ceiling and still race; the thread limit of three is met while a thread
  is leaving, so `SpawnFails` happens below the ceiling. One node with a poll,
  a result, a rotation and a revocation; after one tick a node that was not
  heard of is offline and a grant has expired. Two tokens allow a rotation, or
  a lease and its result, but not both: `dispatch` has both, without the front.
  Refused writes and failing draws (`PersistFails`, `RandomFails`) are the
  core's matter, as no property of the front depends on them. The theorems have
  no such bound.
- `group`: three nodes and two workers, so that one worker takes two nodes
  while the other fails, panics or waits. The plans are a group run by itself,
  and one beside two commands that collide on `nodes.tsv`, `grants.tsv`, or
  on two files of which one reads the other.
- `data_directory`: two processes; three changes, so that the backup can fall
  behind by two; three kills or failed writes, each between any two files.

Deadlock is checked wherever a state without a step would be a fault. It is
not for `group`, where the run ends, and for `data_directory`, where a server
without requests and without a failure left to happen waits for ever.

### Fairness

- The core has none: what it promises is safety, and no request has to come.
- `Front`: main goes on with a connection it has (`WF MainStep`), threads are
  scheduled, and a read or write on a plain connection ends within
  `CONNECTION_TIMEOUT` (`WF ThreadStep`). Nothing is assumed of a WebSocket
  that waits for its next message, which is why `PlainEnds` exempts sessions.
- `GroupRun`, `LocalStores`: threads are scheduled. Nothing is assumed of the
  other commands, nor of children, which may never exit: the wait loop looks at the deadline every
  turn.
- `AgentLoop`: the agent's thread is scheduled, and every call returns, as
  reads and writes have time-outs (`WF AgentStep`). Time passes (`SF Tick`).
  Calls do not fail for ever: a heartbeat, a poll that has something to hand
  out and a report that would be accepted are answered at some time if they
  are tried again and again (`SF`). Nothing is assumed of commands. A file
  operation, which has no deadline, is assumed to return, and not to be slower than
  the time-out of its task every time (`WF` and `SF` of `FileReturns`): that is
  for the operator's files to justify and not for the code, which would wait
  for a FIFO for ever. A report
  that nobody accepts, or a poll of nothing, is not assumed to happen.
- `DataDirectory`: a process that starts or writes goes on. The service manager
  starts the service again (`Restart=on-failure`), sooner or later with the key
  and without `NODEWE_REQUIRE_ENCRYPTED_STORE` (`SF` of that start): a
  directory that has a sealed file can be served in no other way, and one that
  has a plain file is refused under strict. `OperatorClears` says whether
  someone removes a lock that was left; `lock_left` is the run without.

## Proofs

TLAPS proves, for all values of the constants:

| Module | Theorem | States |
|---|---|---|
| `ControlPlaneProofs` | `TypeCorrect` | `Spec => []TypeOK` |
| | `RevokedStayQuiet` | `Spec => []RevokedQuiesced` |
| | `DiskIsNeverBehind` | `Spec => []DiskContinuesMemory` |
| | `HistoryOnlyGrows` | `Spec => HistoryGrows` |
| | `RevokedNodesAreSilent` | `Spec => RevokedIsSilent` |
| | `OldCredentialsStayInvalid` | `Spec => CredentialsNeverReturn` |
| `AdmissionProofs` | `ApprovalsAreSpentOnce` | `Spec => []ApprovalsSpentOnce` |
| | `GrantsEnrolOnce` | `Spec => []GrantEnrollsOnce` |
| | `AuditAccounts` | `Spec => []AuditAccountsForState` |
| | `CleanKeysHaveOneTask` | `CleanKeys` gives `Spec => []OneTaskPerKey` |
| | `SqliteLeavesNoTrace` | `Backend = "sqlite"` gives `Spec => []RefusalLeavesNoTrace` |
| | `ControlPlaneImplementsLedger` | `Spec => ImplementsLedger`, the refinement of `TaskLedger` |
| `LeaseProofs` | `NoTwoLiveLeases` | `Spec => []OneLiveLease` |
| | `AcceptedResultsStand` | `Spec => []ResultsStand` |
| `FrontProofs` | `FrontTypeCorrect` | `FrontSpec => []FrontTypeOK` |
| | `CounterCounts` | `FrontSpec => []PlacesTaken` |
| | `CeilingKept` | `FrontSpec => []WithinCeiling` |
| | `OneWordAfterRotation` | `FrontSpec => []OneLastWord` |
| | `ServesOneAtATime` | `FrontSpec => ServesControlPlane`, the refinement of `ControlPlane` |
| | `PromisesHoldBehindConnections` | six of the invariants above, of `FrontSpec` |
| | `PlainConnectionsAdvance` | every step of a thread on a plain connection brings it nearer to its end |
| `AgentLoopProofs` | `AgentTypeCorrect` | `Spec => []TypeOK` |
| | `RecordsAreRuns` | `Spec => []RecordedWasRun` |
| | `LeaseIsOneRun` | `Spec => OneRunPerLease` |
| | `AgentEndsTasksOnce` | `Spec => EndsOnce`, the refinement of `TaskLedger` |
| `GroupRunProofs` | `NodesSharedOut` | `Spec => []SharedOut` |
| | `LeftUntriedOnlyByErrors` | `Spec => []LeftOnlyByErrors` |
| | `SuccessIsComplete` | `Spec => []SuccessAnswersForAll` |
| | `ConcurrencyIsBounded` | `Spec => []WithinConcurrency` |
| | `RunsOut` | the steps a run may still take are finitely many, and every step takes one of them away |
| `LocalStoresProofs` | `StoresImplementGroupRun` | `StoresSpec => RefinesGroupRun`, the refinement of `GroupRun` |
| | `GroupRunsShareOut` | the four invariants of `GroupRun`, of `StoresSpec` |
| | `StoresTypeCorrect` | `StoresSpec => []StoresTypeOK` |
| | `ChangesAreLostOnlyToOverlap` | `StoresSpec => []LostOnlyToOverlap` |
| | `AuditIsComplete` | `StoresSpec => []AuditMatchesWork` |
| | `RevokedStaysRevoked` | `StoresSpec => RevokedIsNotCleared` |
| `DataDirectoryProofs` | `DirectoryTypeCorrect` | `Spec => []TypeOK` |
| | `DirectoryHasOneOwner` | `Spec => []OneOwner` |
| | `NothingAcknowledgedIsLost` | `Spec => []AcknowledgedSurvives` |
| | `OneWriteSeals` | `Spec => []StaysSealed` |
| | `BackupIsOneBehind` | `Spec => []BackupLagsByOne` |
| | `NothingIsTornAnew` | `Spec => NoNewTears` |
| | `DiskIsMemoryOrNext` | with a snapshot, a start loads the store that is served, or that store with one unanswered change more |

`Spec`, and with it `FrontSpec`, begins for the snapshot backend with the first
`store.snapshot`: nothing is proved of a directory whose first write was refused
half-way, and the two violations under `EmptySpec` are why.

So every safety property that a passing run checks is a theorem, and what TLC
alone says is liveness. Two theorems have a hypothesis, and in both cases the
program does not do what the theorem says without it:

- `CleanKeysHaveOneTask` supposes `CleanKeys`: no request carries a key that
  `clean` would change when the store is written. The run `key_cleaned` is
  what happens with such a key. It holds of keys without tabs and line ends.
- `SqliteLeavesNoTrace` supposes the sqlite backend. The run
  `snapshot_refusal` is what the snapshot backend does instead.

The type invariants of `Front`, `AgentLoop` and `DataDirectory` are proved and
no run repeats them; those of `ControlPlane` and of the group run with its
local stores (`StoresTypeOK`) are checked as well.

The assumptions are the named `ASSUME`s of the modules: times are naturals,
inputs have their types, `None` names nothing, there is a node and a worker,
cleaning a key twice is cleaning it once, and the code of a new grant is new.

The inductive invariants are called `IInv`, that of `Front` `FrontIInv`; where
a second one rests on it, it is named for what it is about.

- `ControlPlane`: `TypeOK /\ RevokedQuiesced /\ DiskContinuesMemory`, and
  on the snapshot backend that disk has a snapshot (`Begun`), which rules
  `TablesLeft` out (`RefusedIsEither`).
  `RevokedQuiesced` is about memory and disk because a restart puts disk in
  memory's place; `HistoryGrows` alone does not follow for the restart step,
  which needs that disk continues memory; that in turn must survive the two
  handlers that change memory without writing. The proof splits accordingly: a
  handler's new store is `Sound` (typed, continues the old one, keeps revoked
  nodes quiet; one lemma per shape of write), a sound write keeps everything
  whether it is accepted, refused or refused and kept (`WriteKeeps`, with
  `SavedSound` for the rewritten keys), and `MemoryOnlyKeeps` covers the rest.
  `RevokedIsSilent` follows, as a new lease or result is for a task that was
  open. `CredentialsNeverReturn` needs one more conjunct, `CredentialsDrawn`:
  disk has the credential of memory or a newer one, and none that was not
  drawn; only enrolment and rotation change one, and they draw it
  (`StepRenews`).
- What else `ControlPlane` promises rests on one lemma, `StepIsChange`: the
  store a handler writes differs from memory by one of nine changes (`Changes`:
  alike but for what nobody counts, a node enrols, a grant is redeemed or spent
  in vain, a task is admitted, with an approval or without, a task ends, a node is
  revoked with its tasks, tasks are dispatched). `StoresFollowChanges` says
  what that does to memory and disk, in a step, a refused write or a restart.
  After that a property is carried across nine changes of one store and not
  across every handler with every fate of its write. The first write is one of
  these changes of the empty store (`FirstStoreIsChange`).
  - `AdmissionInv` counts. `OneTaskPerKey` apart, what a handler checks is a
    status, and the property counts tasks, nodes or records: so for each scope
    there are as many tasks that needed an approval as approvals were used
    (`Balanced`), no more redeemed nodes than used grants (`RedeemedWithin`),
    and a record in the audit for what has become of everything (`Accounted`).
    The counts are of finite sets that grow by one (`FinitelyMany`,
    `ChangeCounts`), on disk as in memory, since a restart exchanges them.
  - `KeyInv` has the keys clean on both sides, so that what a restart loads
    is still compared equal with the key of a retry.
  - `LedgerInv`: disk is where memory is in the ledger, or one step of it
    ahead, a write that was refused and stuck; a restart then takes that step.
  - `LeaseInv`: a lease that an agent was told of is known to both stores, which
    have its token or a later one, and, while the task is dispatched, a lease
    that ends no earlier. So a task is not due while a lease of it runs
    (`OneLiveLease`), and as every dispatch draws a later token, a result that
    is accepted is that of the newest (`ResultsStand`). Answers that were lost
    are told to nobody, and so weaken nothing.
- `Front`: `FrontIInv` adds to it that the counter is right, and `CallersKnown`:
  a caller's credential is that of its node or an older one, and a connection
  that had its last word is closing, or is a WebSocket whose credential is
  replaced and so cannot pass `Message` again. That it stays replaced is
  `CredentialsNeverReturn`. `StoreStep` maps every step onto one of
  `ControlPlane` or none, so that its invariants are cited and not proved again.
- `AgentLoop`: what is recorded was run, what is on its way was run, a batch
  only lasts while it is worked through, and the only task of it that may have
  been started under the token in hand is the current one. Without the last
  part nothing keeps `Start` from running a task twice under one lease.
- `GroupRun`: a worker ended on an empty queue or on an error, every refused
  or timed-out node is in the failures of some worker, and an answer is given
  only when all workers are done. `WithinConcurrency` then follows, as
  the busy workers map onto the nodes whose command runs.
- `LocalStores`: `StoresImplementGroupRun` maps every step onto one of
  `GroupRun` or none, which brings `IInv` along. `StoresInv` adds what holds of
  the files. `OneByOne` is about each file that is still calm: at most one process is about to write it back, its copy holds its own change and all
  that were made before, and so does the file while it is not emptied. A
  change cannot undo another there, as a new entry must not be in the file and
  one that is revoked stays so; only an appended grant is not compared with
  the file, which is what `GrantsAreNew` is for. `AuditedIsOver`: no worker
  holds a node that the audit names, so none writes its record again.
- `RunsOut` and `PlainConnectionsAdvance` are the variants with which
  `RunEnds` and `PlainEnds` hold: a set of steps that are left and a rank of
  stages, which every step makes smaller. That there is a next step, and that
  fairness has it taken, is TLC's part.
- `DataDirectory`: the owner has the lock, holds all that was acknowledged in
  memory, and from the fifth file of a write on the snapshot is what its memory
  will be (`WriteProgress`); while it has a key, the files it has been through
  are not plain (`SealProgress`); what was acknowledged or sealed has a
  snapshot (`SnapshotBefore`), without which a start would load older files.
  `WriteInv` rests on it: from the fourth file on the backup has all that was
  answered (`BackupCaughtUp`), and what is torn in memory is torn on disk, the
  change under way being new to every part (`TornOnDisk`). `MemoryOrNext`
  ties the module to `ControlPlane`: while there is a snapshot, what its
  `Persisted` and `Refused` say of disk is all that a start can make of the
  files; before there is one, `TablesLeft` says the rest, and is not proved.

Every strengthened invariant was first checked by TLC on the instance of the
run that has its property.

Only model-checked:

- `EveryTaskEnds`, `KeepsReconnecting`, `RunEnds`, `ServesAgain`, `PlainEnds`:
  liveness under fairness, and with it ENABLED, is out of the prover's reach, as is
  induction over data.

## Not modelled

- HTTP, TLS, JSON and WebSocket framing: they keep no state between requests.
  `Front` has the places where a thread leaves on what it reads.
- Whether an OIDC token is valid: a pure function of the token and the clock.
- Cryptography: SHA-256, HMAC and AES-GCM are pure; a token is a fresh value.
- The audit chain: sealing is a pure function of the records, made anew for
  every answer (CP 2473). That the records it is made of are never lost is
  `HistoryGrows`; their order, and the pages of `export_audit`, are left out.
- Read-only handlers, remote commands of the CLI, SDK, adapters: no state.
- Which abilities, paths and programs the local policy of an agent admits, the
  resolution of paths in `Scope`.
- The enrolment command of the agent, which redeems a grant and writes the
  credential to a file: one request and one file.
- The isolation of sqlite and postgres, which is taken as given, and what
  `load_legacy_store` reads besides the two tables a refused first write leaves.
- A change of the store key: no document describes one.
- The panic of a thread that holds the store mutex, which would poison it.
- `auth login` and `auth logout` of the CLI: one file that no other command
  changes.

## Plan

Modelled and checked so far: the core, the front, the agent, group runs with
the CLI's files, the data directory. What is left, in this order:

1. `AuditChain`: the records in their order, sealing with the previous hash,
   pages read while records are appended and the process is restarted, and what
   the verifier of `scripts/export-audit.sh` accepts.
2. A composition of `AgentLoop` with the handlers of `ControlPlane`, two agents
   and one store, in place of the two halves that meet in `TaskLedger`.
3. `ScopePolicy`: `Scope.resolve` and `TaskState` (LIB) as operators against a
   reference definition, over small trees with links.
4. `Deployment`: the replace-and-roll-back of `deploy/upgrade-nodewe.sh` and
   the swap of `deploy/rotate-tls.sh`, killed between two steps.

Theorems, with the modules they need: the composition of 2. implements both
`ControlPlane` and `AgentLoop`, so that the theorems of the two halves hold of
one system; the audit chain of 1. accepts no page that lacks a record; a
variant for `EveryTaskEnds` between two faults.
