--------------------------- MODULE GroupRunProofs ---------------------------
(* Theorems of GroupRun for any number of nodes and workers.                *)
EXTENDS GroupRun, FiniteSetTheorems, TLAPS

\* There is a worker, and no more workers than was asked for.
LEMMA WorkersRange ==
  /\ Workers \subseteq Nat \ {0}
  /\ 1 \in Workers
  /\ Workers \subseteq 1..MaxConcurrency
BY GroupRunAssumption DEF Workers

\* The invariant holds when the workers start.
LEMMA InitEstablishes == Init => IInv
BY GroupRunAssumption DEF Init, IInv, TypeOK, SharedOut, Holding, Nodes, NoFailures

\* What the answers of a worker's steps have in common: the worker is not
\* done, so nothing has been answered.
LEMMA NotAnswered ==
  ASSUME IInv, NEW w \in Workers, pc[w] \in {"looking", "starting", "running"}
  PROVE  status = "none"
BY DEF IInv, TypeOK

\* A worker that is handed an error keeps the invariant, if it held a node
\* whose command it leaves in the state o.
LEMMA ErrorKeeps ==
  ASSUME IInv, NEW w \in Workers, Holding(w),
         NEW o \in {"Refused", "TimedOut", "Succeeded", "Failed"},
         outcome' = [outcome EXCEPT ![current[w]] = o], TaskError(w),
         UNCHANGED <<left, current, status, policy>>
  PROVE  IInv'
<1> USE DEF Holding
<1>1. status = "none" /\ status' = "none"
  BY NotAnswered
<1>2. /\ current[w] \in Nodes /\ left \in 0..NodeCount /\ current[w] > left
      /\ outcome[current[w]] # "Untried" \/ pc[w] = "starting"
  BY GroupRunAssumption DEF IInv, SharedOut, TypeOK, Nodes
<1>3. /\ pc'[w] \in {"looking", "ended"}
      /\ pc'[w] = "ended" => policy = "stop"
      /\ \A v \in Workers \ {w} : pc'[v] = pc[v] /\ failures'[v] = failures[v]
      /\ failures'[w] = failures[w] \cup {current[w]}
  BY DEF TaskError, AfterError, IInv, TypeOK
<1>4. TypeOK'
  BY <1>1, <1>2 DEF IInv, TypeOK, TaskError, AfterError
<1>5. \A n \in Nodes : outcome'[n] = IF n = current[w] THEN o ELSE outcome[n]
  BY DEF IInv, TypeOK
<1>6. SharedOut'
  <2>1. \A v \in Workers : Holding(v)' => v # w /\ Holding(v)
    BY <1>3
  <2>2. \A v \in Workers : v # w /\ Holding(v) => current[v] # current[w]
    BY DEF IInv, SharedOut
  <2>3. \A n \in Nodes : (outcome[n] = "Running")' <=>
          \E v \in Workers : pc'[v] = "running" /\ current'[v] = n
    BY <1>3, <1>5, <2>1, <2>2 DEF IInv, SharedOut
  <2>4. \A n \in Nodes : (outcome[n] = "Untried")' <=>
          \/ n <= left'
          \/ \E v \in Workers : pc'[v] = "starting" /\ current'[v] = n
    BY <1>2, <1>3, <1>5, <2>1, <2>2 DEF IInv, SharedOut
  <2> QED
    BY <2>1, <2>3, <2>4 DEF IInv, SharedOut
<1>7. \A v \in Workers : (pc[v] = "ended" => Ended(v))'
  BY <1>3 DEF IInv, Ended
<1>8. \A n \in Nodes : outcome'[n] \in {"Refused", "TimedOut"} =>
        \E v \in Workers : n \in failures'[v]
  BY <1>3, <1>5 DEF IInv
<1> QED
  BY <1>1, <1>4, <1>6, <1>7, <1>8 DEF IInv

\* A worker whose command exited keeps the invariant, wherever it goes on.
LEMMA ExitKeeps ==
  ASSUME IInv, NEW w \in Workers, pc[w] = "running",
         NEW o \in {"Succeeded", "Failed"}, NEW next \in {"looking", "panicked"},
         outcome' = [outcome EXCEPT ![current[w]] = o],
         pc' = [pc EXCEPT ![w] = next],
         UNCHANGED <<left, current, failures, status, policy>>
  PROVE  IInv'
<1> USE DEF Holding
<1>1. status = "none" /\ status' = "none"
  BY NotAnswered
<1>2. current[w] \in Nodes /\ left \in 0..NodeCount /\ current[w] > left
  BY GroupRunAssumption DEF IInv, SharedOut, TypeOK, Nodes
<1>3. /\ \A v \in Workers : pc'[v] = IF v = w THEN next ELSE pc[v]
      /\ \A n \in Nodes : outcome'[n] = IF n = current[w] THEN o ELSE outcome[n]
  BY DEF IInv, TypeOK
<1>4. TypeOK'
  BY <1>1, <1>2 DEF IInv, TypeOK
<1>5. SharedOut'
  <2>1. \A v \in Workers : Holding(v)' => v # w /\ Holding(v)
    BY <1>3
  <2>2. \A v \in Workers : v # w /\ Holding(v) => current[v] # current[w]
    BY DEF IInv, SharedOut
  <2>3. \A n \in Nodes : (outcome[n] = "Running")' <=>
          \E v \in Workers : pc'[v] = "running" /\ current'[v] = n
    BY <1>3, <2>1, <2>2 DEF IInv, SharedOut
  <2>4. \A n \in Nodes : (outcome[n] = "Untried")' <=>
          \/ n <= left'
          \/ \E v \in Workers : pc'[v] = "starting" /\ current'[v] = n
    BY <1>2, <1>3, <2>1, <2>2 DEF IInv, SharedOut
  <2> QED
    BY <2>1, <2>3, <2>4 DEF IInv, SharedOut
<1>6. \A v \in Workers : (pc[v] = "ended" => Ended(v))'
  BY <1>3 DEF IInv, Ended
<1>7. \A n \in Nodes : outcome'[n] \in {"Refused", "TimedOut"} =>
        \E v \in Workers : n \in failures'[v]
  BY <1>3 DEF IInv
<1> QED
  BY <1>1, <1>4, <1>5, <1>6, <1>7 DEF IInv

\* Every step keeps the invariant.
LEMMA Inductive == IInv /\ [Next]_vars => IInv'
<1> SUFFICES ASSUME IInv, [Next]_vars PROVE IInv'
  OBVIOUS
<1>1. ASSUME NEW w \in Workers, Take(w)
      PROVE  IInv'
  <2>1. status = "none" /\ status' = "none"
    BY <1>1, NotAnswered DEF Take
  <2>2. /\ left \in 1..NodeCount /\ left' = left - 1 /\ left \in Nodes
        /\ outcome' = outcome /\ failures' = failures /\ policy' = policy
        /\ \A v \in Workers : /\ pc'[v] = IF v = w THEN "starting" ELSE pc[v]
                              /\ current'[v] = IF v = w THEN left ELSE current[v]
    BY <1>1, GroupRunAssumption DEF Take, Pop, QueueHolds, IInv, TypeOK, Nodes
  <2>3. TypeOK'
    BY <1>1, <2>2, GroupRunAssumption DEF Take, IInv, TypeOK
  <2>4. SharedOut'
    <3>1. \A v \in Workers : Holding(v) => v # w /\ current[v] > left /\ current[v] \in 1..NodeCount
      BY <1>1, <2>2, GroupRunAssumption DEF Take, Holding, IInv, SharedOut
    <3>2. \A v \in Workers : Holding(v)' <=> v = w \/ Holding(v)
      BY <2>2 DEF Holding
    <3>3. \A v \in Workers : Holding(v)' => current'[v] \in left'+1..NodeCount
      BY <2>2, <3>1, <3>2, GroupRunAssumption
    <3>4. \A v, u \in Workers : v # u /\ Holding(v)' /\ Holding(u)' =>
            current'[v] # current'[u]
      <4> SUFFICES ASSUME NEW v \in Workers, NEW u \in Workers, v # u,
                          Holding(v)', Holding(u)'
                   PROVE  current'[v] # current'[u]
        OBVIOUS
      <4>1. CASE v = w \/ u = w
        BY <2>2, <3>1, <3>2, <4>1
      <4>2. CASE v # w /\ u # w
        BY <2>2, <3>2, <4>2 DEF IInv, SharedOut
      <4> QED
        BY <4>1, <4>2
    <3>5. \A n \in Nodes : (outcome[n] = "Running")' <=>
            \E v \in Workers : pc'[v] = "running" /\ current'[v] = n
      BY <1>1, <2>2 DEF Take, IInv, SharedOut
    <3>6. \A n \in Nodes : (outcome[n] = "Untried")' <=>
            \/ n <= left'
            \/ \E v \in Workers : pc'[v] = "starting" /\ current'[v] = n
      <4> SUFFICES ASSUME NEW n \in Nodes
                   PROVE  (outcome[n] = "Untried")' <=>
                            \/ n <= left'
                            \/ \E v \in Workers : pc'[v] = "starting" /\ current'[v] = n
        OBVIOUS
      <4>1. outcome[n] = "Untried" <=>
              \/ n <= left
              \/ \E v \in Workers : pc[v] = "starting" /\ current[v] = n
        BY DEF IInv, SharedOut
      <4>2. n <= left <=> n <= left' \/ n = left
        BY <2>2 DEF Nodes
      <4>3. (\E v \in Workers : pc'[v] = "starting" /\ current'[v] = n) <=>
              \/ n = left
              \/ \E v \in Workers : pc[v] = "starting" /\ current[v] = n
        BY <1>1, <2>2 DEF Take
      <4> QED
        BY <2>2, <4>1, <4>2, <4>3
    <3> QED
      BY <3>3, <3>4, <3>5, <3>6 DEF SharedOut
  <2>5. \A v \in Workers : (pc[v] = "ended" => Ended(v))'
    BY <2>2 DEF IInv, Ended, TypeOK
  <2> QED
    BY <2>1, <2>2, <2>3, <2>4, <2>5 DEF IInv
<1>2. ASSUME NEW w \in Workers, QueueEmpty(w)
      PROVE  IInv'
  <2>1. status = "none" /\ status' = "none"
    BY <1>2, NotAnswered DEF QueueEmpty
  <2>2. \A v \in Workers : pc'[v] = IF v = w THEN "ended" ELSE pc[v]
    BY <1>2 DEF QueueEmpty, IInv, TypeOK
  <2>3. TypeOK'
    BY <1>2 DEF QueueEmpty, IInv, TypeOK
  <2>4. SharedOut'
    BY <1>2, <2>2 DEF QueueEmpty, IInv, SharedOut, Holding
  <2>5. \A v \in Workers : (pc[v] = "ended" => Ended(v))'
    BY <1>2, <2>2 DEF QueueEmpty, IInv, Ended
  <2> QED
    BY <1>2, <2>1, <2>3, <2>4, <2>5 DEF QueueEmpty, IInv
<1>3. ASSUME NEW w \in Workers, Refuse(w)
      PROVE  IInv'
  BY <1>3, ErrorKeeps DEF Refuse, Holding
<1>4. ASSUME NEW w \in Workers, Spawn(w)
      PROVE  IInv'
  <2>1. status = "none" /\ status' = "none"
    BY <1>4, NotAnswered DEF Spawn
  <2>2. current[w] \in Nodes /\ left \in 0..NodeCount /\ current[w] > left
    BY <1>4, GroupRunAssumption DEF Spawn, Holding, IInv, SharedOut, TypeOK, Nodes
  <2>3. /\ \A v \in Workers : pc'[v] = IF v = w THEN "running" ELSE pc[v]
        /\ \A n \in Nodes : outcome'[n] = IF n = current[w] THEN "Running" ELSE outcome[n]
        /\ left' = left /\ current' = current /\ failures' = failures /\ policy' = policy
    BY <1>4 DEF Spawn, IInv, TypeOK
  <2>4. TypeOK'
    BY <1>4, <2>2 DEF Spawn, IInv, TypeOK
  <2>5. SharedOut'
    <3>1. \A v \in Workers : v # w /\ Holding(v) => current[v] # current[w]
      BY <1>4 DEF Spawn, Holding, IInv, SharedOut
    <3>2. \A v \in Workers : Holding(v)' <=> Holding(v)
      BY <1>4, <2>3 DEF Spawn, Holding
    <3>3. \A n \in Nodes : (outcome[n] = "Running")' <=>
            \E v \in Workers : pc'[v] = "running" /\ current'[v] = n
      BY <1>4, <2>3, <3>1 DEF Spawn, Holding, IInv, SharedOut
    <3>4. \A n \in Nodes : (outcome[n] = "Untried")' <=>
            \/ n <= left'
            \/ \E v \in Workers : pc'[v] = "starting" /\ current'[v] = n
      BY <1>4, <2>2, <2>3, <3>1 DEF Spawn, Holding, IInv, SharedOut
    <3> QED
      BY <2>3, <3>2, <3>3, <3>4 DEF IInv, SharedOut
  <2>6. \A v \in Workers : (pc[v] = "ended" => Ended(v))'
    BY <2>3 DEF IInv, Ended
  <2>7. \A n \in Nodes : outcome'[n] \in {"Refused", "TimedOut"} =>
          \E v \in Workers : n \in failures'[v]
    BY <2>3 DEF IInv
  <2> QED
    BY <2>1, <2>4, <2>5, <2>6, <2>7 DEF IInv
<1>5. ASSUME NEW w \in Workers, NEW state \in {"Succeeded", "Failed"}, ChildExits(w, state)
      PROVE  IInv'
  BY <1>5, ExitKeeps DEF ChildExits, TaskDone
<1>6. ASSUME NEW w \in Workers, NEW state \in {"Succeeded", "Failed"}, WorkerPanics(w, state)
      PROVE  IInv'
  BY <1>6, ExitKeeps DEF WorkerPanics
<1>7. ASSUME NEW w \in Workers, NEW state \in {"Succeeded", "Failed"}, NotRecorded(w, state)
      PROVE  IInv'
  BY <1>7, ErrorKeeps DEF NotRecorded, Holding
<1>8. ASSUME NEW w \in Workers, TimeOut(w)
      PROVE  IInv'
  BY <1>8, ErrorKeeps DEF TimeOut, DeadlinePassed, Holding
<1>9. CASE Join
  BY <1>9 DEF Join, IInv, TypeOK, SharedOut, Holding, Ended, NoFailures
<1>10. CASE UNCHANGED vars
  BY <1>10 DEF vars, IInv, TypeOK, SharedOut, Holding, Ended, NoFailures
<1> QED
  BY <1>1, <1>2, <1>3, <1>4, <1>5, <1>6, <1>7, <1>8, <1>9, <1>10
  DEF Next, WorkerStep, ChildStep

\* The invariant holds throughout.
LEMMA AlwaysIInv == Spec => []IInv
BY InitEstablishes, Inductive, PTL DEF Spec

-----------------------------------------------------------------------------
\* For any group and any number of workers, no node is dropped by the queue
\* or run twice.
THEOREM NodesSharedOut == Spec => []SharedOut
BY AlwaysIInv, PTL DEF IInv

\* A worker that is done and did not panic found the queue empty or met an
\* error under stop.
LEMMA LeftOnlyByErrorsFollows == IInv => LeftOnlyByErrors
BY DEF IInv, TypeOK, LeftOnlyByErrors, Ended

\* Nodes are only left untried when every worker met an error under stop or
\* panicked.
THEOREM LeftUntriedOnlyByErrors == Spec => []LeftOnlyByErrors
BY AlwaysIInv, LeftOnlyByErrorsFollows, PTL

\* Without a failure every worker found the queue empty, and no node is held.
LEMMA SuccessFollows == IInv => SuccessAnswersForAll
<1>1. ASSUME IInv, status = "succeeded", NEW n \in Nodes
      PROVE  outcome[n] \in {"Succeeded", "Failed"}
  <2>1. \A w \in Workers : pc[w] = "ended" /\ failures[w] = {}
    BY <1>1 DEF IInv, NoFailures
  <2>2. left = 0
    BY <1>1, <2>1, WorkersRange DEF IInv, Ended
  <2>3. outcome[n] \notin {"Untried", "Running"}
    BY <1>1, <2>1, <2>2, GroupRunAssumption DEF IInv, SharedOut, Nodes
  <2>4. outcome[n] \notin {"Refused", "TimedOut"}
    BY <1>1, <2>1 DEF IInv
  <2> QED
    BY <1>1, <2>3, <2>4 DEF IInv, TypeOK
<1> QED
  BY <1>1 DEF SuccessAnswersForAll

\* The answer succeeded is only given when every command was run to its exit.
THEOREM SuccessIsComplete == Spec => []SuccessAnswersForAll
BY AlwaysIInv, SuccessFollows, PTL

\* Every command that runs has a worker of its own.
LEMMA ConcurrencyFollows ==
  ASSUME IInv
  PROVE  WithinConcurrency
<1> DEFINE children == {n \in Nodes : outcome[n] = "Running"}
           busy == {w \in Workers : pc[w] = "running"}
           f == [w \in busy |-> current[w]]
<1>1. IsFiniteSet(1..MaxConcurrency) /\ Cardinality(1..MaxConcurrency) = MaxConcurrency
  BY FS_Interval, GroupRunAssumption
<1>2. /\ IsFiniteSet(busy)
      /\ Cardinality(busy) <= MaxConcurrency
  <2>1. busy \in SUBSET (1..MaxConcurrency)
    BY WorkersRange
  <2> QED
    BY <1>1, <2>1, FS_Subset
<1>3. f \in Surjection(busy, children)
  <2>1. \A w \in busy : current[w] \in children
    BY GroupRunAssumption DEF IInv, TypeOK, SharedOut, Holding, Nodes
  <2>2. \A n \in children : \E w \in busy : current[w] = n
    BY DEF IInv, SharedOut
  <2>3. f \in [busy -> children]
    BY <2>1
  <2>4. \A n \in children : \E w \in busy : f[w] = n
    BY <2>2
  <2> QED
    BY <2>3, <2>4 DEF Surjection
<1>4. IsFiniteSet(children) /\ Cardinality(children) <= Cardinality(busy)
  BY <1>2, <1>3, FS_Surjection
<1>5. Cardinality(children) \in Nat /\ Cardinality(busy) \in Nat
  BY <1>2, <1>4, FS_CardinalityType
<1> QED
  BY <1>2, <1>4, <1>5, GroupRunAssumption DEF WithinConcurrency

\* No more commands run at once than --max-concurrency says.
THEOREM ConcurrencyIsBounded == Spec => []WithinConcurrency
BY AlwaysIInv, ConcurrencyFollows, PTL

-----------------------------------------------------------------------------
(* Why a run ends: the half of RunEnds that needs no fairness                *)

\* The steps a run may still take: a pop for every node of the queue, a start
\* for every node that is untried, an end for every node whose command has no
\* outcome, the end of every worker, and the answer.
StepsLeft ==
  ({"pop"} \X (1..left))
    \cup ({"start"} \X {n \in Nodes : outcome[n] = "Untried"})
    \cup ({"end"} \X {n \in Nodes : outcome[n] \in {"Untried", "Running"}})
    \cup ({"leave"} \X {w \in Workers : pc[w] \notin {"ended", "panicked"}})
    \cup ({"answer"} \X {n \in {0} : status = "none"})

\* There are finitely many.
LEMMA StepsLeftFinite == IInv => IsFiniteSet(StepsLeft)
<1> SUFFICES ASSUME IInv PROVE IsFiniteSet(StepsLeft)
  OBVIOUS
<1> DEFINE kinds == {"pop", "start", "end", "leave", "answer"}
           numbers == 0..(NodeCount + MaxConcurrency)
           all == kinds \X numbers
<1>1. IsFiniteSet(kinds)
  <2>1. IsFiniteSet({"pop"})
    BY FS_Singleton
  <2>2. IsFiniteSet({"pop", "start"})
    BY <2>1, FS_AddElement, {"pop", "start"} = {"pop"} \cup {"start"}
  <2>3. IsFiniteSet({"pop", "start", "end"})
    BY <2>2, FS_AddElement, {"pop", "start", "end"} = {"pop", "start"} \cup {"end"}
  <2>4. IsFiniteSet({"pop", "start", "end", "leave"})
    BY <2>3, FS_AddElement,
       {"pop", "start", "end", "leave"} = {"pop", "start", "end"} \cup {"leave"}
  <2> QED
    BY <2>4, FS_AddElement,
       {"pop", "start", "end", "leave", "answer"} =
         {"pop", "start", "end", "leave"} \cup {"answer"}
<1>2. IsFiniteSet(numbers)
  BY FS_Interval, GroupRunAssumption
<1>3. IsFiniteSet(all)
  BY <1>1, <1>2, FS_Product
<1>4. StepsLeft \subseteq all
  <2>1. Nodes \subseteq numbers /\ Workers \subseteq numbers /\ 0 \in numbers
    BY GroupRunAssumption, WorkersRange DEF Nodes
  <2>2. 1..left \subseteq numbers
    BY GroupRunAssumption DEF IInv, TypeOK
  <2> HIDE DEF numbers
  <2> QED
    BY <2>1, <2>2 DEF StepsLeft
<1> QED
  BY <1>3, <1>4, FS_Subset

\* Every step is one of them and opens no other, under either policy and
\* whatever the children do: no run takes more than three steps for a node,
\* one for a worker and one for the answer, and none goes round in a circle.
THEOREM RunsOut ==
  Spec => /\ []IsFiniteSet(StepsLeft)
          /\ [][StepsLeft' \subseteq StepsLeft /\ StepsLeft' # StepsLeft]_vars
<1>1. ASSUME IInv, NEW w \in Workers, Take(w)
      PROVE  StepsLeft' \subseteq StepsLeft /\ <<"pop", left>> \in StepsLeft \ StepsLeft'
  <2>1. left \in Nat /\ left > 0 /\ left' = left - 1
    BY <1>1 DEF Take, Pop, QueueHolds, IInv, TypeOK
  <2>2. \A v \in Workers : pc'[v] \notin {"ended", "panicked"} =>
          pc[v] \notin {"ended", "panicked"}
    BY <1>1 DEF Take, IInv, TypeOK
  <2> QED
    BY <1>1, <2>1, <2>2 DEF Take, StepsLeft
<1>2. ASSUME IInv, NEW w \in Workers, QueueEmpty(w)
      PROVE  StepsLeft' \subseteq StepsLeft /\ <<"leave", w>> \in StepsLeft \ StepsLeft'
  BY <1>2 DEF QueueEmpty, StepsLeft, IInv, TypeOK
<1>3. ASSUME IInv, NEW w \in Workers, Spawn(w)
      PROVE  /\ StepsLeft' \subseteq StepsLeft
             /\ <<"start", current[w]>> \in StepsLeft \ StepsLeft'
  <2>1. current[w] \in Nodes /\ outcome[current[w]] = "Untried"
    BY <1>3, GroupRunAssumption DEF Spawn, IInv, TypeOK, SharedOut, Holding, Nodes
  <2> QED
    BY <1>3, <2>1 DEF Spawn, StepsLeft, IInv, TypeOK
<1>4. ASSUME IInv, NEW w \in Workers, Holding(w), UNCHANGED <<left, status>>,
             NEW o \in {"Refused", "TimedOut", "Succeeded", "Failed"},
             outcome' = [outcome EXCEPT ![current[w]] = o],
             \A v \in Workers : v # w => pc'[v] = pc[v]
      PROVE  /\ StepsLeft' \subseteq StepsLeft
             /\ <<"end", current[w]>> \in StepsLeft \ StepsLeft'
  <2>1. current[w] \in Nodes /\ outcome[current[w]] \in {"Untried", "Running"}
    BY <1>4, GroupRunAssumption DEF IInv, TypeOK, SharedOut, Holding, Nodes
  <2>2. \A v \in Workers : pc'[v] \notin {"ended", "panicked"} =>
          pc[v] \notin {"ended", "panicked"}
    BY <1>4 DEF Holding
  <2>3. \A n \in Nodes : outcome'[n] = IF n = current[w] THEN o ELSE outcome[n]
    BY <1>4 DEF IInv, TypeOK
  <2> QED
    BY <1>4, <2>1, <2>2, <2>3 DEF StepsLeft
<1>5. ASSUME IInv, Join
      PROVE  StepsLeft' \subseteq StepsLeft /\ <<"answer", 0>> \in StepsLeft \ StepsLeft'
  BY <1>5 DEF Join, StepsLeft
<1>6. ASSUME IInv, NEW w \in Workers, Refuse(w) \/ TimeOut(w) \/ ChildStep(w)
      PROVE  StepsLeft' \subseteq StepsLeft /\ StepsLeft' # StepsLeft
  <2>1. \A v \in Workers : v # w => pc'[v] = pc[v]
    BY <1>6 DEF Refuse, TimeOut, ChildStep, ChildExits, NotRecorded, WorkerPanics,
                TaskError, TaskDone, IInv, TypeOK
  <2>2. Holding(w) /\ UNCHANGED <<left, status>>
    BY <1>6 DEF Refuse, TimeOut, DeadlinePassed, ChildStep, ChildExits, NotRecorded,
                WorkerPanics, Holding
  <2>3. \E o \in {"Refused", "TimedOut", "Succeeded", "Failed"} :
          outcome' = [outcome EXCEPT ![current[w]] = o]
    BY <1>6 DEF Refuse, TimeOut, ChildStep, ChildExits, NotRecorded, WorkerPanics
  <2> QED
    BY <1>4, <1>6, <2>1, <2>2, <2>3
<1>7. IInv /\ [Next]_vars =>
        [StepsLeft' \subseteq StepsLeft /\ StepsLeft' # StepsLeft]_vars
  BY <1>1, <1>2, <1>3, <1>5, <1>6 DEF Next, WorkerStep
<1> QED
  BY AlwaysIInv, StepsLeftFinite, <1>7, PTL DEF Spec
=============================================================================
