------------------------------ MODULE GroupRun ------------------------------
(* `nodewe group run` (cli/src/main.rs, run_group and run_task): worker     *)
(* threads take the nodes of a group from a shared queue and run a command  *)
(* for each.  Whether nodes.tsv lets a node be used is left open here, and  *)
(* LocalStores settles it: this module holds whatever that file says.       *)
(*                                                                          *)
(* The queue is a vector that is only ever popped, so what is left of it is *)
(* a prefix of the group: node i is the i-th of the group, and the queue    *)
(* holds 1..left.                                                           *)
EXTENDS Integers, FiniteSets

CONSTANTS
  NodeCount,       \* how many nodes the group lists
  MaxConcurrency,  \* --max-concurrency, 1 if it says less
  StdoutOpen       \* whether println! works; it panics where it does not

ASSUME GroupRunAssumption ==
  /\ NodeCount \in Nat \ {0}
  /\ MaxConcurrency \in Nat \ {0}
  /\ StdoutOpen \in BOOLEAN

Nodes == 1..NodeCount

\* A bug: a thread for every node.
Bug_thread_per_node == Nodes

Workers ==
  1..(IF MaxConcurrency < NodeCount THEN MaxConcurrency ELSE NodeCount)

VARIABLES
  left,      \* how many nodes the queue still holds
  pc,        \* where each worker is
  current,   \* the node each worker last took, 0 before the first
  outcome,   \* what became of each node's command
  failures,  \* the nodes in each worker's failures vector
  status,    \* what run_group has answered
  policy     \* --failure-policy, given at the start

vars == <<left, pc, current, outcome, failures, status, policy>>

TypeOK ==
  /\ left \in 0..NodeCount
  /\ pc \in [Workers -> {"looking", "starting", "running", "ended", "panicked"}]
  /\ current \in [Workers -> 0..NodeCount]
  /\ outcome \in [Nodes -> {"Untried", "Refused", "Running", "Succeeded",
                            "Failed", "TimedOut"}]
  /\ failures \in [Workers -> SUBSET Nodes]
  /\ status \in {"none", "succeeded", "failed"}
  /\ policy \in {"stop", "continue"}

Init ==
  /\ left = NodeCount
  /\ pc = [w \in Workers |-> "looking"]
  /\ current = [w \in Workers |-> 0]
  /\ outcome = [n \in Nodes |-> "Untried"]
  /\ failures = [w \in Workers |-> {}]
  /\ status = "none"
  /\ policy \in {"stop", "continue"}

-----------------------------------------------------------------------------
\* A bug: one pop too many.
Bug_pop_past_end == left >= 0

QueueHolds == left > 0

\* A bug: the node is read under one lock and removed under another.
Bug_pop_not_atomic(w) == UNCHANGED left

Pop(w) == left' = left - 1

Take(w) ==
  /\ pc[w] = "looking"
  /\ QueueHolds
  /\ Pop(w)
  /\ current' = [current EXCEPT ![w] = left]
  /\ pc' = [pc EXCEPT ![w] = "starting"]
  /\ UNCHANGED <<outcome, failures, status, policy>>

QueueEmpty(w) ==
  /\ pc[w] = "looking"
  /\ left = 0
  /\ pc' = [pc EXCEPT ![w] = "ended"]
  /\ UNCHANGED <<left, current, outcome, failures, status, policy>>

\* A bug: a failure ends the worker under either policy.
Bug_always_stop(w) == "ended"

AfterError(w) == IF policy = "stop" THEN "ended" ELSE "looking"

\* run_task returned Err to worker w.
TaskError(w) ==
  /\ failures' = [failures EXCEPT ![w] = @ \cup {current[w]}]
  /\ pc' = [pc EXCEPT ![w] = AfterError(w)]

\* run_task returned Ok.
TaskDone(w) ==
  /\ pc' = [pc EXCEPT ![w] = "looking"]
  /\ UNCHANGED failures

\* A node that nodes.tsv does not list as online, a Scope, a command or a spawn that fails: an
\* error before there is a child, whatever the reason.
Refuse(w) ==
  /\ pc[w] = "starting"
  /\ outcome' = [outcome EXCEPT ![current[w]] = "Refused"]
  /\ TaskError(w)
  /\ UNCHANGED <<left, current, status, policy>>

Spawn(w) ==
  /\ pc[w] = "starting"
  /\ outcome' = [outcome EXCEPT ![current[w]] = "Running"]
  /\ pc' = [pc EXCEPT ![w] = "running"]
  /\ UNCHANGED <<left, current, failures, status, policy>>

\* The child exits, with success or without; run_task returns Ok either way.
ChildExits(w, state) ==
  /\ pc[w] = "running"
  /\ outcome' = [outcome EXCEPT ![current[w]] = state]
  /\ TaskDone(w)
  /\ UNCHANGED <<left, current, status, policy>>

\* The child exits, and its status or its output cannot be had (try_wait, wait
\* or join_pipe fails), or the record or the audit line cannot be written.
\* waitpid fails for a child only when that is gone.
NotRecorded(w, state) ==
  /\ pc[w] = "running"
  /\ outcome' = [outcome EXCEPT ![current[w]] = state]
  /\ TaskError(w)
  /\ UNCHANGED <<left, current, status, policy>>

\* The child exits, all is written, and println! panics.
WorkerPanics(w, state) ==
  /\ ~StdoutOpen
  /\ pc[w] = "running"
  /\ outcome' = [outcome EXCEPT ![current[w]] = state]
  /\ pc' = [pc EXCEPT ![w] = "panicked"]
  /\ UNCHANGED <<left, current, failures, status, policy>>

\* A bug: there is no deadline.
Bug_no_deadline(w) == FALSE

DeadlinePassed(w) == pc[w] = "running"

\* Past the deadline the child is killed, waited for, and an error returned.
TimeOut(w) ==
  /\ DeadlinePassed(w)
  /\ outcome' = [outcome EXCEPT ![current[w]] = "TimedOut"]
  /\ TaskError(w)
  /\ UNCHANGED <<left, current, status, policy>>

\* A bug: a worker that panicked counts as one without failures.
Bug_panic_is_fine == \A w \in Workers : failures[w] = {}

NoFailures ==
  \A w \in Workers : pc[w] # "panicked" /\ failures[w] = {}

Join ==
  /\ status = "none"
  /\ \A w \in Workers : pc[w] \in {"ended", "panicked"}
  /\ status' = IF NoFailures THEN "succeeded" ELSE "failed"
  /\ UNCHANGED <<left, pc, current, outcome, failures, policy>>

WorkerStep(w) ==
  \/ Take(w)
  \/ QueueEmpty(w)
  \/ Refuse(w)
  \/ Spawn(w)
  \/ TimeOut(w)

ChildStep(w) ==
  \E state \in {"Succeeded", "Failed"} :
    ChildExits(w, state) \/ NotRecorded(w, state) \/ WorkerPanics(w, state)

Next ==
  \/ \E w \in Workers : WorkerStep(w) \/ ChildStep(w)
  \/ Join

\* Threads are scheduled and the wait loop looks at the deadline again and
\* again; nothing is assumed of the children, which may never exit.
Fairness ==
  /\ \A w \in Workers : WF_vars(WorkerStep(w))
  /\ WF_vars(Join)

Spec == Init /\ [][Next]_vars /\ Fairness

-----------------------------------------------------------------------------
\* The workers share the nodes out: what is in the queue is untried and held
\* by nobody, and no two workers ever hold the same node, so no interleaving
\* of pops runs a command twice on one node or drops a node.
Holding(w) == pc[w] \in {"starting", "running"}

SharedOut ==
  /\ \A w \in Workers : Holding(w) => current[w] \in left+1..NodeCount
  /\ \A v, w \in Workers :
       v # w /\ Holding(v) /\ Holding(w) => current[v] # current[w]
  /\ \A n \in Nodes : outcome[n] = "Running" <=>
       \E w \in Workers : pc[w] = "running" /\ current[w] = n
  /\ \A n \in Nodes : outcome[n] = "Untried" <=>
       \/ n <= left
       \/ \E w \in Workers : pc[w] = "starting" /\ current[w] = n

\* "Parallel tasks must not exceed the declared concurrency"
\* (multi-node-orchestration.md): counted in children, not in threads.
WithinConcurrency ==
  Cardinality({n \in Nodes : outcome[n] = "Running"}) <= MaxConcurrency

\* Nodes are only left untried when every single worker met an error under
\* the policy stop, or panicked; under continue a run answers for them all.
LeftOnlyByErrors ==
  status # "none" /\ left > 0 =>
    \A w \in Workers :
      pc[w] = "panicked" \/ (policy = "stop" /\ failures[w] # {})

\* Success is answered only when the command of every node was run to its
\* exit: none was refused, timed out, is untried or still running.
SuccessAnswersForAll ==
  status = "succeeded" =>
    \A n \in Nodes : outcome[n] \in {"Succeeded", "Failed"}

\* The inductive invariant behind the three above: a worker ends on an empty
\* queue or, under stop, on an error; every error is in a failures vector; and
\* an answer is only given when all workers are done.
Ended(w) == left = 0 \/ (policy = "stop" /\ failures[w] # {})

IInv ==
  /\ TypeOK
  /\ SharedOut
  /\ \A w \in Workers : pc[w] = "ended" => Ended(w)
  /\ \A n \in Nodes : outcome[n] \in {"Refused", "TimedOut"} =>
       \E w \in Workers : n \in failures[w]
  /\ status # "none" => \A w \in Workers : pc[w] \in {"ended", "panicked"}
  /\ status = "succeeded" => NoFailures

\* A run ends, whatever its children do.
RunEnds == <>(status # "none")

-----------------------------------------------------------------------------
(* What cli-contract.md says the policy decides, and the code does not do   *)

\* stop: after the command of one node failed no other node is taken up.
StopsAfterFailedCommand ==
  [][policy = "stop" /\ (\E n \in Nodes : outcome[n] = "Failed")
       => left' = left]_vars
=============================================================================
