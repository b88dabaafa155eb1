--------------------------- MODULE AgentLoopProofs ---------------------------
(* Theorems of AgentLoop for any number of tasks, failures and late calls.  *)
EXTENDS AgentLoop, TLAPS

\* A lease is a natural number of ticks.
LEMMA LeaseIsNat == \A t \in Tasks : LeaseOf(t) \in Nat
BY AgentLoopAssumption DEF LeaseOf

\* The invariant holds when the agent starts for the first time.
LEMMA InitEstablishes == Init => IInv
BY AgentLoopAssumption DEF Init, IInv, TypeOK, RecordedWasRun, Ended, LateResult

-----------------------------------------------------------------------------
(* What the store does                                                      *)

\* Handing out tasks keeps their types and what is recorded of them.
LEMMA DispatchKeeps ==
  ASSUME IInv, Dispatch, UNCHANGED ran
  PROVE  /\ state' \in [Tasks -> {"absent", "queued", "dispatched"} \cup Ended]
         /\ left' \in [Tasks -> Nat \cup {-1}]
         /\ lateResults' \subseteq LateResult
         /\ used' \subseteq Tasks
         /\ RecordedWasRun'
         /\ \A r \in lateResults' : <<r.task, r.state>> \in ran'
<1>1. /\ state' \in [Tasks -> {"absent", "queued", "dispatched"} \cup Ended]
      /\ left' \in [Tasks -> Nat \cup {-1}]
      /\ used' \subseteq Tasks
  BY LeaseIsNat DEF IInv, TypeOK, Dispatch
<1>2. RecordedWasRun'
  BY DEF IInv, RecordedWasRun, Dispatch
<1>3. /\ lateResults' \subseteq LateResult
      /\ \A r \in lateResults' : <<r.task, r.state>> \in ran'
  BY DEF IInv, TypeOK, LateResult, Dispatch
<1> QED
  BY <1>1, <1>2, <1>3

\* A result keeps the types, and what is recorded is what was run, if it was.
LEMMA ResultKeeps ==
  ASSUME IInv, NEW t \in Tasks, NEW s \in {"succeeded", "failed"},
         NEW isFresh \in BOOLEAN, Result(t, s, isFresh), <<t, s>> \in ran,
         UNCHANGED ran
  PROVE  /\ state' \in [Tasks -> {"absent", "queued", "dispatched"} \cup Ended]
         /\ left' \in [Tasks -> Nat \cup {-1}]
         /\ RecordedWasRun'
BY DEF IInv, TypeOK, RecordedWasRun, Result, store, Ended

\* So does the result that the agent reports.
LEMMA ReportKeeps ==
  ASSUME IInv, pc = "report", Result(current, outcome, current \in fresh),
         UNCHANGED ran
  PROVE  /\ current \in Tasks
         /\ state' \in [Tasks -> {"absent", "queued", "dispatched"} \cup Ended]
         /\ left' \in [Tasks -> Nat \cup {-1}]
         /\ RecordedWasRun'
<1>1. current \in Tasks /\ outcome \in {"succeeded", "failed"} /\ <<current, outcome>> \in ran
  BY DEF IInv, TypeOK
<1>2. CASE UNCHANGED store
  BY <1>1, <1>2 DEF IInv, TypeOK, RecordedWasRun, store
<1>3. CASE /\ state' = [state EXCEPT ![current] = outcome]
           /\ left' = [left EXCEPT ![current] = -1]
  BY <1>1, <1>3 DEF IInv, TypeOK, RecordedWasRun, Ended
<1> QED
  BY <1>1, <1>2, <1>3 DEF Result

\* Wherever the agent goes on, it has done with the task it reported.
LEMMA Unhanded ==
  ASSUME IInv, pc = "report", Onwards \/ Drop, UNCHANGED used
  PROVE  /\ pc' \in {"next", "asleep"}
         /\ pc' = "asleep" => batch' = {}
         /\ batch' \subseteq Tasks
         /\ fresh' \subseteq batch'
         /\ fresh' \cap used' = {}
         /\ current' = 0 /\ spent' = 0 /\ outcome' = "failed"
<1>1. CASE Onwards
  BY <1>1 DEF IInv, TypeOK, Onwards, Forget
<1>2. CASE Drop
  BY <1>2 DEF IInv, TypeOK, Drop, Forget
<1> QED
  BY <1>1, <1>2

\* A store that is left alone keeps what is recorded of it.
LEMMA NothingRecorded ==
  ASSUME IInv, UNCHANGED state, ran \subseteq ran'
  PROVE  RecordedWasRun'
BY DEF IInv, RecordedWasRun

-----------------------------------------------------------------------------
\* Every step keeps the invariant.
LEMMA Inductive == IInv /\ [Next]_vars => IInv'
<1> SUFFICES ASSUME IInv, [Next]_vars PROVE IInv'
  OBVIOUS
<1> USE DEF IInv, TypeOK, store, agent, ghosts, Drop, Forget, Onwards
<1>1. ASSUME NEW t \in Tasks, Submit(t) PROVE IInv'
  BY <1>1 DEF Submit, RecordedWasRun
<1>2. ASSUME NEW t \in Tasks, Cancel(t) PROVE IInv'
  BY <1>2 DEF Cancel, RecordedWasRun, Ended
<1>3. CASE Wake
  BY <1>3, NothingRecorded DEF Wake
<1>4. CASE HeartbeatAnswered
  BY <1>4, NothingRecorded DEF HeartbeatAnswered
<1>5. CASE CallFails
  BY <1>5, NothingRecorded DEF CallFails
<1>6. CASE PollAnswered
  BY <1>6, DispatchKeeps DEF PollAnswered, Due, Dispatch
<1>7. CASE PollAnswerLost
  BY <1>7, DispatchKeeps DEF PollAnswerLost, Fault
<1>8. CASE PollAbandoned
  BY <1>8, NothingRecorded DEF PollAbandoned, Fault
<1>9. CASE RoundEnds
  BY <1>9, NothingRecorded DEF RoundEnds
<1>10. ASSUME NEW t \in Tasks, Start(t) PROVE IInv'
  BY <1>10, NothingRecorded DEF Start, Tasks
<1>11. ASSUME NEW s \in {"succeeded", "failed"}, pc = "running", Exits(s) PROVE IInv'
  BY <1>11, NothingRecorded DEF Exits, Outcome
<1>12. CASE ReportAnswered
  <2>1. pc = "report" /\ Result(current, outcome, current \in fresh) /\ UNCHANGED ran
    BY <1>12 DEF ReportAnswered, Reporting
  <2>2. /\ current \in Tasks
        /\ state' \in [Tasks -> {"absent", "queued", "dispatched"} \cup Ended]
        /\ left' \in [Tasks -> Nat \cup {-1}]
        /\ RecordedWasRun'
    BY <2>1, ReportKeeps
  <2> HIDE DEF RecordedWasRun, Result
  <2> QED
    BY <1>12, <2>1, <2>2 DEF ReportAnswered, Reporting, Tasks
<1>13. CASE ReportRefused
  BY <1>13, NothingRecorded DEF ReportRefused, Reporting
<1>14. CASE ReportUnanswered
  BY <1>14, NothingRecorded DEF ReportUnanswered, Reporting, Unanswered
<1>15. CASE ReportAnswerLost
  <2>1. pc = "report" /\ Result(current, outcome, current \in fresh) /\ UNCHANGED ran
    BY <1>15 DEF ReportAnswerLost, Reporting
  <2>2. /\ current \in Tasks
        /\ state' \in [Tasks -> {"absent", "queued", "dispatched"} \cup Ended]
        /\ left' \in [Tasks -> Nat \cup {-1}]
        /\ RecordedWasRun'
    BY <2>1, ReportKeeps
  <2>3. (Onwards \/ Drop) /\ UNCHANGED used
    BY <1>15 DEF ReportAnswerLost, Reporting, Unanswered
  <2>4. /\ UNCHANGED <<transport, latePolls, lateResults, ran, used>>
        /\ faults' = faults + 1
    BY <1>15 DEF ReportAnswerLost, Reporting, Fault
  <2> QED
    BY <2>1, <2>2, <2>3, <2>4, Unhanded
<1>16. CASE ReportAbandoned
  <2> DEFINE r0 == [task |-> current, state |-> outcome, fresh |-> current \in fresh]
  <2>1. current \in Tasks /\ <<current, outcome>> \in ran /\ UNCHANGED <<ran, used>>
    BY <1>16 DEF ReportAbandoned, Reporting
  <2>2. (current \in fresh) \in BOOLEAN
    OBVIOUS
  <2>3. r0 \in LateResult /\ r0.task = current /\ r0.state = outcome
    BY <2>1, <2>2 DEF LateResult
  <2>4. lateResults' = lateResults \cup {r0}
    BY <1>16 DEF ReportAbandoned
  <2>5. /\ lateResults' \subseteq LateResult
        /\ \A r \in lateResults' : <<r.task, r.state>> \in ran'
    BY <2>1, <2>3, <2>4
  <2>6. RecordedWasRun'
    BY <1>16, NothingRecorded DEF ReportAbandoned, Reporting
  <2>7. (Onwards \/ Drop) /\ UNCHANGED used /\ pc = "report"
    BY <1>16 DEF ReportAbandoned, Reporting, Unanswered
  <2>8. UNCHANGED <<state, left, transport, latePolls, ran, used>> /\ faults' = faults + 1
    BY <1>16 DEF ReportAbandoned, Reporting, Fault
  <2> HIDE DEF r0
  <2> QED
    BY <2>5, <2>6, <2>7, <2>8, Unhanded
<1>17. CASE LatePoll
  BY <1>17, DispatchKeeps DEF LatePoll, StillFresh, Dispatch
<1>18. ASSUME NEW r \in lateResults, ArrivesLate(r) PROVE IInv'
  <2>1. r.task \in Tasks /\ r.state \in {"succeeded", "failed"} /\ r.fresh \in BOOLEAN
    BY DEF LateResult
  <2> QED
    BY <1>18, <2>1, ResultKeeps DEF ArrivesLate
<1>19. CASE Crash
  BY <1>19, NothingRecorded DEF Crash, Fault
<1>20. CASE Tick
  <2>1. left' \in [Tasks -> Nat \cup {-1}]
    BY <1>20 DEF Tick
  <2>2. spent' \in Nat
    BY <1>20 DEF Tick
  <2> QED
    BY <1>20, <2>1, <2>2, NothingRecorded DEF Tick
<1>21. CASE UNCHANGED vars
  BY <1>21, NothingRecorded DEF vars
<1> QED
  BY <1>1, <1>2, <1>3, <1>4, <1>5, <1>6, <1>7, <1>8, <1>9, <1>10, <1>11, <1>12,
     <1>13, <1>14, <1>15, <1>16, <1>17, <1>18, <1>19, <1>20, <1>21
  DEF Next, AgentStep, Returns, TimeOut

\* The invariant holds throughout.
LEMMA AlwaysIInv == Spec => []IInv
BY InitEstablishes, Inductive, PTL DEF Spec

-----------------------------------------------------------------------------
\* The tasks, the agent and what is on its way keep their types.
THEOREM AgentTypeCorrect == Spec => []TypeOK
BY AlwaysIInv, PTL DEF IInv

\* What the store records of a task is what one of its own runs came to.
THEOREM RecordsAreRuns == Spec => []RecordedWasRun
BY AlwaysIInv, PTL DEF IInv

\* No command is started twice under one lease.
THEOREM LeaseIsOneRun == Spec => OneRunPerLease
<1>1. ASSUME IInv, [Next]_vars
      PROVE  [pc = "next" /\ pc' = "running" /\ current' \in fresh
                => current' \notin used]_vars
  <2> SUFFICES ASSUME Next, pc = "next", pc' = "running", current' \in fresh
               PROVE  current' \notin used
    BY <1>1
  <2>1. current = 0 /\ 0 \notin fresh
    BY <1>1 DEF IInv, TypeOK, Tasks
  <2>2. fresh \cap used = {}
    BY <1>1, <2>1 DEF IInv
  <2> QED
    BY <2>2
<1> QED
  BY <1>1, AlwaysIInv, PTL DEF Spec, OneRunPerLease

-----------------------------------------------------------------------------
(* The store an agent sees implements the ledger                            *)

Board == [t \in Tasks |-> Phase(state[t])]

\* A store that keeps its states keeps the ledger, and so does handing out.
LEMMA HandingOut ==
  ASSUME IInv, Dispatch \/ UNCHANGED state
  PROVE  UNCHANGED Board
BY DEF IInv, TypeOK, Board, Phase, Dispatch, Due

\* A task that ends in the store ends in the ledger.
LEMMA Ending ==
  ASSUME IInv, NEW t \in Tasks, NEW o \in Ended,
         state[t] \in {"queued", "dispatched"},
         state' = [state EXCEPT ![t] = o]
  PROVE  Ledger!Next
<1>1. \A u \in {t} : Board[u] = "open"
  BY DEF Board, Phase
<1>2. Board' = [u \in Tasks |-> IF u \in {t} THEN o ELSE Board[u]]
  BY DEF IInv, TypeOK, Board, Phase, Ended
<1>3. Ledger!Finish({t}, o)
  BY <1>1, <1>2 DEF Ledger!Finish, Board
<1> QED
  BY <1>3 DEF Ledger!Next

\* A result ends a task or leaves the ledger alone.
LEMMA ResultInLedger ==
  ASSUME IInv, NEW t \in Tasks, NEW s \in {"succeeded", "failed"}, NEW f,
         Result(t, s, f)
  PROVE  Ledger!Next \/ UNCHANGED Board
<1>1. CASE state' = [state EXCEPT ![t] = s] /\ Acceptable(t, f)
  BY <1>1, Ending DEF Acceptable, Ended
<1>2. CASE UNCHANGED store
  BY <1>2, HandingOut DEF store
<1> QED
  BY <1>1, <1>2 DEF Result

\* Whatever fails and whatever comes late, a task ends once.
THEOREM AgentEndsTasksOnce == Spec => EndsOnce
<1>1. Init => Ledger!Init
  BY DEF Init, Ledger!Init, Phase
<1>2. ASSUME IInv, [Next]_vars
      PROVE  Ledger!Next \/ UNCHANGED Board
  <2>1. ASSUME NEW t \in Tasks, Submit(t)
        PROVE  Ledger!Next
    <3>1. Board[t] = "absent" /\ Board' = [Board EXCEPT ![t] = "open"]
      BY <1>2, <2>1 DEF Submit, IInv, TypeOK, Board, Phase
    <3> QED
      BY <3>1 DEF Ledger!Next, Ledger!Accept, Board
  <2>2. ASSUME NEW t \in Tasks, Cancel(t)
        PROVE  Ledger!Next
    BY <1>2, <2>2, Ending DEF Cancel, Ended
  <2>3. CASE PollAnswered \/ PollAnswerLost \/ LatePoll
    BY <1>2, <2>3, HandingOut DEF PollAnswered, PollAnswerLost, LatePoll
  <2>4. CASE ReportAnswered \/ ReportAnswerLost
    <3>1. current \in Tasks /\ outcome \in {"succeeded", "failed"}
      BY <1>2, <2>4 DEF IInv, TypeOK, ReportAnswered, ReportAnswerLost, Reporting
    <3>2. Result(current, outcome, current \in fresh)
      BY <2>4 DEF ReportAnswered, ReportAnswerLost
    <3> QED
      BY <1>2, <3>1, <3>2, ResultInLedger
  <2>5. ASSUME NEW r \in lateResults, ArrivesLate(r)
        PROVE  Ledger!Next \/ UNCHANGED Board
    <3>1. r.task \in Tasks /\ r.state \in {"succeeded", "failed"}
      BY <1>2 DEF IInv, TypeOK, LateResult
    <3> QED
      BY <1>2, <2>5, <3>1, ResultInLedger DEF ArrivesLate
  <2>6. ASSUME UNCHANGED state
        PROVE  UNCHANGED Board
    BY <1>2, <2>6, HandingOut
  <2>7. \/ UNCHANGED state
        \/ \E t \in Tasks : Submit(t) \/ Cancel(t)
        \/ PollAnswered \/ PollAnswerLost \/ LatePoll
        \/ ReportAnswered \/ ReportAnswerLost
        \/ \E r \in lateResults : ArrivesLate(r)
    BY <1>2
    DEF Next, AgentStep, Returns, TimeOut, Exits, Wake, HeartbeatAnswered,
        CallFails, PollAbandoned, RoundEnds, Start, ReportRefused,
        ReportUnanswered, ReportAbandoned, Crash, Tick, store, vars
  <2> QED
    BY <2>1, <2>2, <2>3, <2>4, <2>5, <2>6, <2>7
<1>3. IInv /\ [Next]_vars => [Ledger!Next]_Board
  BY <1>2
<1> QED
  BY <1>1, <1>3, AlwaysIInv, PTL DEF Spec, EndsOnce, Ledger!Spec, Board
=============================================================================
