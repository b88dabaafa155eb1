----------------------------- MODULE AgentLoop -----------------------------
(* An agent (src/node-runtime/src/main.rs, connect_polling and              *)
(* connect_websocket) and the leases of its node in the Control Plane: it   *)
(* sends a heartbeat, polls, runs what it was handed one task after the     *)
(* other, reports each outcome once, and sleeps.  Calls fail, answers are   *)
(* lost, requests are handled after the agent gave up on them, the agent is *)
(* killed and started again.                                                *)
(*                                                                          *)
(* ControlPlane has the store in full and the agents as a set of leases;    *)
(* here the agent is in full and the store is what an agent can tell of it. *)
(* Time is the time left on each lease, so that no clock has to be bounded: *)
(* it passes while the agent sleeps or runs a command, and the grace of a   *)
(* lease stands for all the rest.                                           *)
EXTENDS Integers, FiniteSets

CONSTANTS
  TaskCount,       \* how many tasks are ever accepted for the node
  Timeout,         \* timeout_ms of each task, in ticks
  DefaultTimeout,  \* DEFAULT_TASK_TIMEOUT_MS
  Grace,           \* the 5_000 ms added to a lease
  Silence,         \* CONNECTION_TIMEOUT
  Commands,        \* tasks whose ability is task.exec; others work on files
  Oversized,       \* tasks whose output is larger than what a call may carry
  Transports,      \* the values --transport may have
  MaxFaults        \* bound on the failures that leave something behind

Tasks == 1..TaskCount

ASSUME AgentLoopAssumption ==
  /\ TaskCount \in Nat
  /\ Timeout \in [Tasks -> Nat \ {0}]
  /\ {DefaultTimeout, Grace, Silence, MaxFaults} \subseteq Nat
  /\ Commands \subseteq Tasks
  /\ Oversized \subseteq Tasks
  /\ Transports \subseteq {"polling", "websocket"}

Ended == {"succeeded", "failed", "cancelled"}

VARIABLES
  state,      \* of each task, in the store
  left,       \* lease_until - now of each dispatched task, -1 if past
  transport,  \* --transport
  pc,         \* where the agent is
  batch,      \* what the agent was handed and has not yet reported
  fresh,      \* the tasks of batch whose lease token is the one in the store
  current,    \* the task whose command runs or ran last, 0 if none
  spent,      \* how long the command that runs has run
  outcome,    \* what the command that ran last came to
  latePolls,    \* polls the agent gave up on that will still be handled
  lateResults,  \* and results
  faults,     \* how many failures have left something behind
  ran,        \* which outcomes of which tasks the agent has seen
  used        \* the tasks that were started under their latest lease

store == <<state, left>>
agent == <<pc, batch, current, spent, outcome>>
ghosts == <<ran, used>>
vars == <<state, left, transport, pc, batch, fresh, current, spent, outcome,
          latePolls, lateResults, faults, ran, used>>

LeaseOf(t) ==
  (IF Timeout[t] > DefaultTimeout THEN Timeout[t] ELSE DefaultTimeout) + Grace

LateResult == [task : Tasks, state : {"succeeded", "failed"}, fresh : BOOLEAN]

TypeOK ==
  /\ state \in [Tasks -> {"absent", "queued", "dispatched"} \cup Ended]
  /\ left \in [Tasks -> Nat \cup {-1}]
  /\ transport \in Transports
  /\ pc \in {"heartbeat", "poll", "next", "running", "report", "asleep"}
  /\ batch \subseteq Tasks
  /\ fresh \subseteq batch
  /\ current \in Tasks \cup {0}
  /\ spent \in Nat
  /\ outcome \in {"succeeded", "failed"}
  /\ latePolls \in Nat
  /\ lateResults \subseteq LateResult
  /\ faults \in Nat
  /\ ran \subseteq Tasks \X {"succeeded", "failed"}
  /\ used \subseteq Tasks

Init ==
  /\ state = [t \in Tasks |-> "absent"]
  /\ left = [t \in Tasks |-> -1]
  /\ transport \in Transports
  /\ pc = "heartbeat"
  /\ batch = {}
  /\ fresh = {}
  /\ current = 0
  /\ spent = 0
  /\ outcome = "failed"
  /\ latePolls = 0
  /\ lateResults = {}
  /\ faults = 0
  /\ ran = {}
  /\ used = {}

-----------------------------------------------------------------------------
(* The store.  Tasks are numbered in the order of the vector store.tasks.   *)

Submit(t) ==
  /\ state[t] = "absent"
  /\ \A u \in Tasks : u < t => state[u] # "absent"
  /\ state' = [state EXCEPT ![t] = "queued"]
  /\ UNCHANGED <<left, transport, agent, fresh, latePolls, lateResults, faults,
                 ghosts>>

\* By an operator, or as its node is revoked.
Cancel(t) ==
  /\ state[t] \in {"queued", "dispatched"}
  /\ state' = [state EXCEPT ![t] = "cancelled"]
  /\ left' = [left EXCEPT ![t] = -1]
  /\ UNCHANGED <<transport, agent, fresh, latePolls, lateResults, faults, ghosts>>

\* A bug: a task that was handed out once is never handed out again.
Bug_no_reclaim == {t \in Tasks : state[t] = "queued"}

Due ==
  {t \in Tasks : \/ state[t] = "queued"
                 \/ state[t] = "dispatched" /\ left[t] <= 0}

\* agent_tasks: what is due gets a new lease and a new token, which makes
\* every token handed out for it before a stale one.
Dispatch ==
  /\ state' = [t \in Tasks |-> IF t \in Due THEN "dispatched" ELSE state[t]]
  /\ left' = [t \in Tasks |-> IF t \in Due THEN LeaseOf(t) ELSE left[t]]
  /\ lateResults' = {[r EXCEPT !.fresh = @ /\ r.task \notin Due] : r \in lateResults}
  /\ used' = used \ Due

\* A bug: the state is not looked at, only the lease and its token.
Bug_any_state(t, isFresh) == isFresh /\ (state[t] = "cancelled" \/ left[t] >= 0)

Acceptable(t, isFresh) ==
  /\ state[t] = "dispatched"
  /\ left[t] >= 0
  /\ isFresh

\* agent_result, for a result that may be refused.
Result(t, s, isFresh) ==
  \/ /\ Acceptable(t, isFresh)
     /\ state' = [state EXCEPT ![t] = s]
     /\ left' = [left EXCEPT ![t] = -1]
  \/ /\ ~Acceptable(t, isFresh)
     /\ UNCHANGED store

-----------------------------------------------------------------------------
(* The agent                                                                *)

\* What the agent knows of one run is gone with the turn of its loop.
Forget == current' = 0 /\ spent' = 0 /\ outcome' = "failed"

Drop ==
  /\ pc' = "asleep"
  /\ batch' = {}
  /\ fresh' = {}
  /\ Forget

\* The end of a back-off, of the pause between rounds, of a restart.
Wake ==
  /\ pc = "asleep"
  /\ pc' = "heartbeat"
  /\ UNCHANGED <<store, transport, batch, fresh, current, spent, outcome,
                 latePolls, lateResults, faults, ghosts>>

HeartbeatAnswered ==
  /\ pc = "heartbeat"
  /\ pc' = "poll"
  /\ UNCHANGED <<store, transport, batch, fresh, current, spent, outcome,
                 latePolls, lateResults, faults, ghosts>>

\* No connection, no answer, or an error: nothing is handed out.  The answer
\* to a heartbeat that is not what the agent needs counts as one; it ends a
\* polling agent, which its service manager starts again.
CallFails ==
  /\ pc \in {"heartbeat", "poll"}
  /\ Drop
  /\ UNCHANGED <<store, transport, latePolls, lateResults, faults, ghosts>>

PollAnswered ==
  /\ pc = "poll"
  /\ Dispatch
  /\ pc' = "next"
  /\ batch' = Due
  /\ fresh' = Due
  /\ UNCHANGED <<transport, current, spent, outcome, latePolls, faults, ran>>

\* A failure that leaves something behind in the store or on the way there.
Fault ==
  /\ faults < MaxFaults
  /\ faults' = faults + 1

\* The poll is handled, its answer is lost: leases that nobody knows of.
PollAnswerLost ==
  /\ pc = "poll"
  /\ Fault
  /\ Dispatch
  /\ Drop
  /\ UNCHANGED <<transport, latePolls, ran>>

\* The agent's time-out comes before the Control Plane gets to the poll.
PollAbandoned ==
  /\ pc = "poll"
  /\ Fault
  /\ latePolls' = latePolls + 1
  /\ Drop
  /\ UNCHANGED <<store, transport, lateResults, ghosts>>

StillFresh == fresh \ Due

LatePoll ==
  /\ latePolls > 0
  /\ latePolls' = latePolls - 1
  /\ Dispatch
  /\ fresh' = StillFresh
  /\ UNCHANGED <<transport, agent, faults, ran>>

RoundEnds ==
  /\ pc = "next"
  /\ batch = {}
  /\ Drop
  /\ UNCHANGED <<store, transport, latePolls, lateResults, faults, ghosts>>

\* The batch is run in the order of the answer, which is that of the store.
Start(t) ==
  /\ pc = "next"
  /\ t \in batch
  /\ \A u \in batch : t <= u
  /\ pc' = "running"
  /\ current' = t
  /\ used' = used \cup ({t} \cap fresh)
  /\ UNCHANGED <<store, transport, batch, fresh, spent, outcome, latePolls,
                 lateResults, faults, ran>>

\* A bug: the exit code is not looked at.
Bug_exit_code_ignored(s) == "succeeded"

\* code == 0 is a success; another code and every error are a failure.
Outcome(s) == s

Exits(s) ==
  /\ pc' = "report"
  /\ outcome' = Outcome(s)
  /\ ran' = ran \cup {<<current, s>>}
  /\ UNCHANGED <<store, transport, batch, fresh, current, spent, latePolls,
                 lateResults, faults, used>>

\* The command exits, or the file operation returns, with an error or not.
Returns(s) == pc = "running" /\ Exits(s)

FileReturns(t) ==
  /\ current = t
  /\ t \notin Commands
  /\ \E s \in {"succeeded", "failed"} : Returns(s)

\* A bug: there is no deadline.
Bug_no_deadline == FALSE

DeadlinePassed == spent >= Timeout[current]

\* execute kills the child and returns Err("task_timeout"), which is reported
\* as a failure like every other error.  file.read and file.write have no
\* deadline.
TimeOut ==
  /\ pc = "running"
  /\ current \in Commands
  /\ DeadlinePassed
  /\ Exits("failed")

\* A WebSocket whose peer has been silent for CONNECTION_TIMEOUT is closed by
\* the Control Plane; a polling agent connects for every call.
Connected == transport = "polling" \/ spent < Silence

\* A bug: the result is sent again, by way of running the task again.
Bug_run_again ==
  /\ pc' = "next"
  /\ Forget
  /\ UNCHANGED <<batch, fresh>>

\* The agent goes on to the next task, whatever became of this result.
Onwards ==
  /\ pc' = "next"
  /\ batch' = batch \ {current}
  /\ fresh' = fresh \ {current}
  /\ Forget

\* A result without an answer is only logged by the polling agent; it ends
\* the session of the other, and with it the batch.
Unanswered == IF transport = "polling" THEN Onwards ELSE Drop

Reporting ==
  /\ pc = "report"
  /\ UNCHANGED <<transport, ran, used>>

Deliverable == Connected /\ current \notin Oversized

ReportAnswered ==
  /\ Reporting
  /\ Deliverable
  /\ Result(current, outcome, current \in fresh)
  /\ Onwards
  /\ UNCHANGED <<latePolls, lateResults, faults>>

\* The answer is an error: the write was refused with 503, or the request is
\* too large, of which an agent with a WebSocket gets no answer.
ReportRefused ==
  /\ Reporting
  /\ Connected
  /\ current \in Oversized => transport = "polling"
  /\ Onwards
  /\ UNCHANGED <<store, latePolls, lateResults, faults>>

ReportUnanswered ==
  /\ Reporting
  /\ Unanswered
  /\ UNCHANGED <<store, latePolls, lateResults, faults>>

ReportAnswerLost ==
  /\ Reporting
  /\ Deliverable
  /\ Fault
  /\ Result(current, outcome, current \in fresh)
  /\ Unanswered
  /\ UNCHANGED <<latePolls, lateResults>>

ReportAbandoned ==
  /\ Reporting
  /\ Deliverable
  /\ Fault
  /\ lateResults' = lateResults \cup
       {[task |-> current, state |-> outcome, fresh |-> current \in fresh]}
  /\ Unanswered
  /\ UNCHANGED <<store, latePolls>>

ArrivesLate(r) ==
  /\ Result(r.task, r.state, r.fresh)
  /\ lateResults' = lateResults \ {r}
  /\ UNCHANGED <<transport, agent, fresh, latePolls, faults, ghosts>>

\* The agent is killed, and started again by its service manager.
Crash ==
  /\ pc # "asleep"
  /\ Fault
  /\ Drop
  /\ UNCHANGED <<store, transport, latePolls, lateResults, ghosts>>

\* Past both it makes no difference how long a file operation has taken.
Counted == spent < Timeout[current] \/ spent < Silence

\* While the agent sleeps, while its command runs, up to the deadline, and
\* while it is at a file, for as long as that takes.
Tick ==
  /\ \/ pc = "asleep" /\ UNCHANGED spent
     \/ /\ pc = "running"
        /\ current \in Commands => ~DeadlinePassed
        /\ spent' = IF Counted THEN spent + 1 ELSE spent
  /\ left' = [t \in Tasks |-> IF left[t] = -1 THEN -1 ELSE left[t] - 1]
  /\ UNCHANGED <<state, transport, pc, batch, fresh, current, outcome, latePolls,
                 lateResults, faults, ghosts>>

-----------------------------------------------------------------------------
\* What the agent does by itself: every call it makes returns, with an answer
\* or with an error, as reads and writes have a time-out.
AgentStep ==
  \/ Wake
  \/ HeartbeatAnswered \/ CallFails
  \/ PollAnswered \/ PollAnswerLost \/ PollAbandoned
  \/ RoundEnds \/ (\E t \in Tasks : Start(t)) \/ TimeOut
  \/ ReportAnswered \/ ReportRefused \/ ReportUnanswered
  \/ ReportAnswerLost \/ ReportAbandoned

Next ==
  \/ \E t \in Tasks : Submit(t) \/ Cancel(t)
  \/ AgentStep
  \/ \E s \in {"succeeded", "failed"} : Returns(s)
  \/ LatePoll
  \/ \E r \in lateResults : ArrivesLate(r)
  \/ Crash
  \/ Tick

\* Time passes and the agent's thread is scheduled.  Of the calls it is only
\* assumed that they do not fail for ever: one that is tried again and again
\* is answered at some time.  Nothing is assumed of commands.  A file operation
\* is assumed to return, and not to take longer than timeout_ms every time it
\* is tried: so it is with regular files on a disk that answers, but the code
\* has no deadline for it and opens a FIFO without O_NONBLOCK.
Fairness ==
  /\ WF_vars(AgentStep)
  /\ SF_vars(Tick)
  /\ SF_vars(HeartbeatAnswered)
  /\ SF_vars(PollAnswered /\ Due # {})
  /\ SF_vars(ReportAnswered /\ Acceptable(current, current \in fresh))
  /\ \A t \in Tasks \ Commands :
       /\ WF_vars(FileReturns(t))
       /\ SF_vars(FileReturns(t) /\ spent < Timeout[t])

Spec == Init /\ [][Next]_vars /\ Fairness

-----------------------------------------------------------------------------
\* One lease is worth one run: however calls fail, no command is started
\* twice under the same lease.
OneRunPerLease ==
  [][pc = "next" /\ pc' = "running" /\ current' \in fresh => current' \notin used]_vars

\* What the store records of a task is what one of its own runs came to,
\* however late the result arrived.
RecordedWasRun ==
  \A t \in Tasks : state[t] \in {"succeeded", "failed"} => <<t, state[t]>> \in ran

\* The inductive invariant behind these two: a batch only lasts while it is
\* worked through, the one task of it that may have been started under the
\* token in hand is the current one, and every outcome that is still on its
\* way to the store was seen.
IInv ==
  /\ TypeOK
  /\ RecordedWasRun
  /\ pc \in {"heartbeat", "poll", "asleep"} => batch = {}
  /\ pc \in {"running", "report"} <=> current # 0
  /\ current # 0 => current \in batch
  /\ fresh \cap used \subseteq {current}
  /\ pc = "report" => <<current, outcome>> \in ran
  /\ \A r \in lateResults : <<r.task, r.state>> \in ran

\* "A failed report does not end the agent; it relies on lease and reclaim to
\* deal with unfinished tasks" (node-protocol.md): every task ends.
EveryTaskEnds == \A t \in Tasks : state[t] = "queued" ~> state[t] \in Ended

\* Nothing that fails, and no command that hangs, keeps the agent from trying
\* again.
KeepsReconnecting == []<>(pc = "heartbeat")

\* The store an agent sees is a ledger too: late results, late polls and
\* lost answers never change how a task ended.
Phase(s) == IF s \in {"queued", "dispatched"} THEN "open" ELSE s

Ledger == INSTANCE TaskLedger WITH Outcomes <- Ended,
                                   ledger <- [t \in Tasks |-> Phase(state[t])]

EndsOnce == Ledger!Spec
=============================================================================
