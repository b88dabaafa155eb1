------------------------- MODULE LocalStoresProofs -------------------------
(* Theorems of LocalStores, for any group, any number of workers and other   *)
(* commands, and whatever these are asked for.                               *)
EXTENDS LocalStores, GroupRunProofs

-----------------------------------------------------------------------------
(* What a step of the whole is to the group run                              *)

\* Reading and writing the files leaves the group run alone, and a step of a
\* worker is one that GroupRun has.
LEMMA StepRefines == [StoresNext]_<<vars, stores>> => [Next]_vars
<1>1. ASSUME NEW w \in Workers, TaskStep(w)
      PROVE  [Next]_vars
  BY <1>1 DEF TaskStep, CheckNode, RefuseTask, SpawnTask, KillTask, Next, WorkerStep
<1>2. ASSUME NEW w \in Workers, EndTask(w)
      PROVE  Next
  BY <1>2 DEF EndTask, Next, ChildStep
<1>3. ASSUME NEW p \in DOMAIN job, Command(p)
      PROVE  UNCHANGED vars
  BY <1>3 DEF Command
<1> QED
  BY <1>1, <1>2, <1>3 DEF StoresNext, Next

\* With its files, and with other commands at work on them, a group run is the
\* one of GroupRun.
THEOREM StoresImplementGroupRun == StoresSpec => RefinesGroupRun
BY StepRefines, PTL DEF StoresSpec, StoresInit, RefinesGroupRun

\* So the inductive invariant of GroupRun holds here.
LEMMA GroupInvariant == RefinesGroupRun => []IInv
BY InitEstablishes, Inductive, PTL DEF RefinesGroupRun

-----------------------------------------------------------------------------
(* The invariants, which TLC has checked on the instance of MCLocalStores     *)

\* What p changed is in these contents of its file.
HoldsIn(p, contents) ==
  IF job[p].change = "add" THEN contents[job[p].name] # "absent"
  ELSE contents[job[p].name] = "revoked"

Changed(p) == step[p] \in {"written", "done"}

Emptied(f) == \E q \in DOMAIN job : step[q] = "emptied" /\ File(q) = f

\* The changes of a file came one by one.  At most one process is about to
\* write it back; what was changed before is in its copy and, but for the time
\* the file is empty, in the file.
InTurn(f) ==
  /\ \A p, q \in DOMAIN job :
       InWindow(p) /\ InWindow(q) /\ File(p) = f /\ File(q) = f => p = q
  /\ Emptied(f) => tsv[f] = Empty
  /\ \A p \in DOMAIN job : Changed(p) /\ File(p) = f =>
       /\ Emptied(f) \/ HoldsIn(p, tsv[f])
       /\ \A q \in DOMAIN job : InWindow(q) /\ File(q) = f => HoldsIn(p, copy[q])
  /\ \A p \in DOMAIN job : InWindow(p) /\ File(p) = f => HoldsIn(p, copy[p])

OneByOne == \A f \in calm : InTurn(f)

\* A grant that is yet to be appended is in no file and no copy, so that its
\* line does not undo a revocation.
GrantsAreNew ==
  \A p \in DOMAIN job : Appends(p) =>
    /\ \A q \in DOMAIN job \ {p} : job[q] # job[p]
    /\ step[p] = "start" =>
         /\ tsv["grants"][job[p].name] = "absent"
         /\ \A q \in DOMAIN job : InWindow(q) /\ File(q) = "grants" =>
              copy[q][job[p].name] = "absent"

\* A task that the audit names has come to its end: no worker holds its node
\* any more, and none will write its record again.
AuditedIsOver ==
  \A n \in Nodes : <<"task", n>> \in audit =>
    outcome[n] \in {"Succeeded", "Failed", "TimedOut"}

StoresInv ==
  /\ StoresTypeOK
  /\ OneByOne /\ GrantsAreNew
  /\ AuditMatchesWork /\ AuditedIsOver

-----------------------------------------------------------------------------
(* The commands                                                              *)

\* What is known of a command.
LEMMA JobsTyped ==
  ASSUME StoresTypeOK, NEW p \in DOMAIN job
  PROVE  /\ p \in Processes
         /\ File(p) \in Files /\ job[p].name \in Names
         /\ job[p].change \in {"add", "revoke"}
         /\ Goal(p) \in {"listed", "revoked"}
         /\ tsv[File(p)] \in [Names -> Lines] /\ copy[p] \in [Names -> Lines]
BY DEF StoresTypeOK, Jobs, File, Goal

\* A step of a command is its own, and it ends no calm but that of its file.
LEMMA OwnStep ==
  ASSUME StoresTypeOK, NEW p \in DOMAIN job, Command(p)
  PROVE  /\ job' = job
         /\ step' = [step EXCEPT ![p] = step'[p]]
         /\ calm' \subseteq calm /\ calm \ {File(p)} \subseteq calm'
         /\ \A q \in DOMAIN job \ {p} : copy'[q] = copy[q]
         /\ \A f \in Files \ {File(p)} : tsv'[f] = tsv[f]
<1> USE JobsTyped DEF StoresTypeOK
<1>1. CASE Reject(p)
  BY <1>1 DEF Reject
<1>2. CASE ReadFile(p)
  BY <1>2 DEF ReadFile, Disturb
<1>3. CASE EmptyFile(p)
  BY <1>3 DEF EmptyFile
<1>4. CASE WriteFile(p)
  BY <1>4 DEF WriteFile
<1>5. CASE AppendLine(p)
  BY <1>5 DEF AppendLine, Disturb
<1>6. CASE AuditChange(p)
  BY <1>6 DEF AuditChange
<1>7. CASE Stop(p)
  BY <1>7 DEF Stop, Disturb
<1> QED
  BY <1>1, <1>2, <1>3, <1>4, <1>5, <1>6, <1>7 DEF Command

\* The file as a command will write it holds its change.
LEMMA CopyHoldsChange ==
  ASSUME StoresTypeOK, NEW p \in DOMAIN job
  PROVE  LET new == [tsv[File(p)] EXCEPT ![job[p].name] = Goal(p)]
         IN  new \in [Names -> Lines] /\ HoldsIn(p, new)
BY JobsTyped DEF HoldsIn, Goal, Lines

\* A change that is made does not undo one that was made before: a new entry
\* is not in the file yet, and what is revoked stays revoked.
LEMMA NextChangeKeepsOthers ==
  ASSUME StoresTypeOK, NEW p \in DOMAIN job, ~Appends(p), ~Rejected(p),
         NEW q \in DOMAIN job, File(q) = File(p), HoldsIn(q, tsv[File(p)])
  PROVE  HoldsIn(q, [tsv[File(p)] EXCEPT ![job[p].name] = Goal(p)])
BY JobsTyped DEF HoldsIn, Rejected, Found, Goal

\* What is written to a file that was emptied is what is in it.
LEMMA EmptyIsOverwritten ==
  ASSUME NEW new \in [Names -> Lines], NEW contents \in Overwritten(Empty, new)
  PROVE  contents = new
<1>1. {n \in Names : Empty[n] # "absent"} = {}
  BY DEF Empty
<1>2. PICK kept \in SUBSET {} : contents =
        [n \in Names |-> IF n \in kept THEN Either(Empty[n], new[n]) ELSE new[n]]
  BY <1>1 DEF Overwritten
<1> QED
  BY <1>2

\* Whatever is overwritten, the entries are entries.
LEMMA OverwrittenTyped ==
  ASSUME NEW old \in [Names -> Lines], NEW new \in [Names -> Lines],
         NEW contents \in Overwritten(old, new)
  PROVE  /\ contents \in [Names -> Lines]
         /\ \A n \in Names : old[n] = "absent" /\ new[n] = "absent" =>
              contents[n] = "absent"
BY DEF Overwritten, Either, Lines

\* Every command keeps the types.
LEMMA CommandTyped ==
  ASSUME StoresTypeOK, NEW p \in DOMAIN job, Command(p)
  PROVE  StoresTypeOK'
<1> DEFINE Typed == /\ tsv' \in [Files -> [Names -> Lines]]
                    /\ copy' \in [Processes -> [Names -> Lines]]
                    /\ step'[p] \in {"start", "read", "emptied", "written", "done",
                                     "refused", "stopped"}
                    /\ cleared' = cleared /\ record' = record
                    /\ audit' \subseteq audit \cup {<<"command", p>>}
<1> USE DEF StoresTypeOK
<1>1. ASSUME Reject(p) PROVE Typed
  BY <1>1, JobsTyped DEF Reject
<1>2. ASSUME ReadFile(p) PROVE Typed
  BY <1>2, JobsTyped, CopyHoldsChange DEF ReadFile, Contents
<1>3. ASSUME EmptyFile(p) PROVE Typed
  BY <1>3, JobsTyped DEF EmptyFile, Empty, Lines
<1>4. ASSUME WriteFile(p) PROVE Typed
  <2>1. PICK contents \in Overwritten(tsv[File(p)], copy[p]) :
          tsv' = [tsv EXCEPT ![File(p)] = contents]
    BY <1>4 DEF WriteFile
  <2>2. contents \in [Names -> Lines]
    BY JobsTyped, OverwrittenTyped
  <2> QED
    BY <1>4, <2>1, <2>2, JobsTyped DEF WriteFile
<1>5. ASSUME AppendLine(p) PROVE Typed
  BY <1>5, JobsTyped DEF AppendLine, Lines
<1>6. ASSUME AuditChange(p) PROVE Typed
  BY <1>6, JobsTyped DEF AuditChange, append_audit
<1>7. ASSUME Stop(p) PROVE Typed
  BY <1>7, JobsTyped DEF Stop
<1>8. Typed
  BY <1>1, <1>2, <1>3, <1>4, <1>5, <1>6, <1>7 DEF Command
<1>9. TypeOK'
  BY DEF Command, vars, TypeOK
<1>10. /\ DOMAIN job' \subseteq Processes /\ \A q \in DOMAIN job' : job'[q] \in Jobs
       /\ calm' \subseteq Files
  BY OwnStep
<1>11. step' \in [Processes -> {"start", "read", "emptied", "written", "done",
                                "refused", "stopped"}]
  BY <1>8, OwnStep, JobsTyped
<1>12. audit' \subseteq ({"command"} \X Processes) \cup ({"task"} \X Nodes)
  BY <1>8, JobsTyped
<1> HIDE DEF StoresTypeOK
<1> QED
  BY <1>8, <1>9, <1>10, <1>11, <1>12 DEF StoresTypeOK

\* A command does nothing to the other files.
LEMMA OtherFilesInTurn ==
  ASSUME StoresTypeOK, NEW p \in DOMAIN job, Command(p),
         NEW f \in Files, f # File(p), InTurn(f)
  PROVE  InTurn(f)'
<1>1. \A q \in DOMAIN job : File(q) = f =>
        q # p /\ step'[q] = step[q] /\ copy'[q] = copy[q]
  BY OwnStep, JobsTyped DEF StoresTypeOK
<1>2. job' = job /\ tsv'[f] = tsv[f]
  BY OwnStep
<1> QED
  BY <1>1, <1>2 DEF InTurn, InWindow, Changed, Emptied, HoldsIn, File

\* A file that stays calm is changed in turn.
LEMMA OwnFileInTurn ==
  ASSUME StoresTypeOK, OneByOne, GrantsAreNew, NEW p \in DOMAIN job, Command(p),
         NEW f, f = File(p), f \in calm'
  PROVE  InTurn(f)'
<1>1. /\ job' = job /\ p \in Processes /\ f \in Files
      /\ f \in calm /\ InTurn(f)
      /\ \A q \in DOMAIN job : /\ q \in Processes
                               /\ q # p => step'[q] = step[q] /\ copy'[q] = copy[q]
  BY OwnStep, JobsTyped DEF OneByOne, StoresTypeOK
<1>2. CASE Reject(p)
  <2>1. step[p] = "start" /\ step'[p] = "refused" /\ tsv' = tsv /\ copy' = copy
    BY <1>1, <1>2 DEF Reject, StoresTypeOK
  <2> QED
    BY <1>1, <2>1 DEF InTurn, InWindow, Changed, Emptied, HoldsIn, File
<1>3. CASE ReadFile(p)
  <2> DEFINE new == [tsv[f] EXCEPT ![job[p].name] = Goal(p)]
  <2>1. /\ step[p] = "start" /\ step'[p] = "read" /\ tsv' = tsv
        /\ copy'[p] = new
    BY <1>1, <1>3 DEF ReadFile, Contents, StoresTypeOK
  <2>2. \A q \in DOMAIN job : InWindow(q) => File(q) # f
    BY <1>1, <1>3, <2>1 DEF ReadFile, Disturb, Met, InWindow
  <2>3. HoldsIn(p, new)
    BY CopyHoldsChange
  <2>4. \A q \in DOMAIN job : Changed(q) /\ File(q) = f =>
          HoldsIn(q, tsv[f]) /\ HoldsIn(q, new)
    BY <1>1, <1>3, <2>2, NextChangeKeepsOthers DEF InTurn, Emptied, InWindow, ReadFile
  <2> HIDE DEF new
  <2> QED
    BY <1>1, <2>1, <2>2, <2>3, <2>4 DEF InTurn, InWindow, Changed, Emptied, HoldsIn, File
<1>4. CASE EmptyFile(p)
  <2>1. /\ step[p] = "read" /\ step'[p] = "emptied" /\ tsv'[f] = Empty /\ copy' = copy
    BY <1>1, <1>4 DEF EmptyFile, StoresTypeOK
  <2> QED
    BY <1>1, <2>1 DEF InTurn, InWindow, Changed, Emptied, HoldsIn, File
<1>5. CASE WriteFile(p)
  <2>1. step[p] = "emptied" /\ step'[p] = "written" /\ copy' = copy
    BY <1>1, <1>5 DEF WriteFile, StoresTypeOK
  <2>2. tsv[f] = Empty /\ copy[p] \in [Names -> Lines]
    BY <1>1, <2>1, JobsTyped DEF InTurn, Emptied
  <2>3. tsv'[f] = copy[p]
    BY <1>1, <1>5, <2>2, EmptyIsOverwritten DEF WriteFile, StoresTypeOK
  <2>4. \A q \in DOMAIN job \ {p} : InWindow(q) => File(q) # f
    BY <1>1, <2>1 DEF InTurn, InWindow
  <2> QED
    BY <1>1, <2>1, <2>3, <2>4 DEF InTurn, InWindow, Changed, Emptied, HoldsIn, File
<1>6. CASE AppendLine(p)
  <2>1. /\ step[p] = "start" /\ step'[p] = "written" /\ copy' = copy
        /\ tsv'[f] = [tsv[f] EXCEPT ![job[p].name] = "listed"]
        /\ f = "grants" /\ job[p].change = "add"
    BY <1>1, <1>6 DEF AppendLine, Appends, StoresTypeOK
  <2>2. \A q \in DOMAIN job : InWindow(q) => File(q) # f
    BY <1>1, <1>6, <2>1 DEF AppendLine, Disturb, Met, InWindow
  <2>3. \A q \in DOMAIN job : Changed(q) /\ File(q) = f => HoldsIn(q, tsv[f])
    BY <1>1, <2>2 DEF InTurn, Emptied, InWindow
  <2>4. tsv[f][job[p].name] = "absent"
    BY <1>6, <2>1 DEF AppendLine, GrantsAreNew
  <2>5. HoldsIn(p, tsv'[f])
    BY <2>1, JobsTyped DEF HoldsIn
  <2>6. ASSUME NEW q \in DOMAIN job, HoldsIn(q, tsv[f])
        PROVE  HoldsIn(q, tsv'[f])
    BY <2>1, <2>4, <2>6, JobsTyped DEF HoldsIn
  <2> QED
    BY <1>1, <2>1, <2>2, <2>3, <2>5, <2>6
    DEF InTurn, InWindow, Changed, Emptied, HoldsIn, File
<1>7. CASE AuditChange(p)
  <2>1. step[p] = "written" /\ step'[p] = "done" /\ tsv' = tsv /\ copy' = copy
    BY <1>1, <1>7 DEF AuditChange, StoresTypeOK
  <2> QED
    BY <1>1, <2>1 DEF InTurn, InWindow, Changed, Emptied, HoldsIn, File
<1>8. CASE Stop(p)
  <2>1. /\ step[p] \in {"read", "written"} /\ step'[p] = "stopped"
        /\ tsv' = tsv /\ copy' = copy
    BY <1>1, <1>8 DEF Stop, Disturb, StoresTypeOK
  <2> QED
    BY <1>1, <2>1 DEF InTurn, InWindow, Changed, Emptied, HoldsIn, File
<1> QED
  BY <1>2, <1>3, <1>4, <1>5, <1>6, <1>7, <1>8 DEF Command

\* What a command writes to the file of grants names no grant that is yet to
\* be appended.
LEMMA CommandKeepsGrantsNew ==
  ASSUME StoresTypeOK, GrantsAreNew, NEW p \in DOMAIN job, Command(p)
  PROVE  GrantsAreNew'
<1> SUFFICES ASSUME NEW g \in DOMAIN job, Appends(g), step'[g] = "start"
             PROVE  /\ tsv'["grants"][job[g].name] = "absent"
                    /\ \A q \in DOMAIN job : step'[q] \in {"read", "emptied"} /\ File(q) = "grants" =>
                         copy'[q][job[g].name] = "absent"
  BY OwnStep DEF GrantsAreNew, Appends, File, InWindow
<1> DEFINE n == job[g].name
<1>1. /\ g \in Processes /\ job[g] \in Jobs /\ n \in Names
      /\ p \in Processes /\ job[p] \in Jobs
      /\ \A q \in DOMAIN job : /\ q \in Processes
                               /\ q # p => step'[q] = step[q] /\ copy'[q] = copy[q]
  BY OwnStep, JobsTyped DEF StoresTypeOK
<1>2. step'[p] # "start"
  BY <1>1 DEF Command, Reject, ReadFile, EmptyFile, WriteFile, AppendLine, AuditChange,
              Stop, StoresTypeOK
<1>3. g # p /\ step[g] = "start"
  BY <1>1, <1>2
<1>4. /\ tsv["grants"][n] = "absent"
      /\ \A q \in DOMAIN job : InWindow(q) /\ File(q) = "grants" => copy[q][n] = "absent"
  BY <1>3 DEF GrantsAreNew
<1>5. CASE File(p) # "grants"
  <2>1. tsv'["grants"] = tsv["grants"]
    BY <1>5, OwnStep DEF Files
  <2> QED
    BY <1>1, <1>4, <1>5, <2>1 DEF InWindow
<1>6. CASE File(p) = "grants" /\ ReadFile(p)
  <2>1. /\ tsv' = tsv
        /\ copy'[p] = [tsv["grants"] EXCEPT ![job[p].name] = Goal(p)]
        /\ job[p].change = "revoke" /\ Found(p)
    BY <1>1, <1>6 DEF ReadFile, Contents, Appends, Rejected, File, Jobs, StoresTypeOK
  <2>2. job[p].name # n
    BY <1>4, <1>6, <2>1 DEF Found
  <2>3. copy'[p][n] = "absent"
    BY <1>1, <1>4, <2>1, <2>2, JobsTyped DEF StoresTypeOK, Files
  <2> QED
    BY <1>1, <1>4, <2>1, <2>3 DEF InWindow
<1>7. CASE File(p) = "grants" /\ EmptyFile(p)
  <2>1. step[p] = "read" /\ tsv'["grants"] = Empty /\ copy' = copy
    BY <1>1, <1>7 DEF EmptyFile, StoresTypeOK, Files
  <2> QED
    BY <1>1, <1>4, <1>7, <2>1 DEF InWindow, Empty
<1>8. CASE File(p) = "grants" /\ WriteFile(p)
  <2>1. PICK contents \in Overwritten(tsv["grants"], copy[p]) : tsv'["grants"] = contents
    BY <1>8 DEF WriteFile, StoresTypeOK, Files
  <2>2. step[p] = "emptied" /\ copy' = copy /\ step'[p] = "written"
    BY <1>1, <1>8 DEF WriteFile, StoresTypeOK
  <2>3. contents[n] = "absent"
    BY <1>1, <1>4, <1>8, <2>1, <2>2, JobsTyped, OverwrittenTyped
    DEF InWindow, StoresTypeOK, Files
  <2> QED
    BY <1>1, <1>4, <2>1, <2>2, <2>3 DEF InWindow
<1>9. CASE File(p) = "grants" /\ AppendLine(p)
  <2>1. /\ step'[p] = "written" /\ copy' = copy /\ job[p].change = "add"
        /\ tsv'["grants"] = [tsv["grants"] EXCEPT ![job[p].name] = "listed"]
    BY <1>1, <1>9 DEF AppendLine, Appends, StoresTypeOK, Files
  <2>2. job[p].name # n
    BY <1>1, <1>3, <1>9, <2>1 DEF GrantsAreNew, Appends, File, Jobs
  <2> QED
    BY <1>1, <1>4, <2>1, <2>2 DEF InWindow
<1>10. CASE Reject(p) \/ AuditChange(p) \/ Stop(p)
  <2>1. tsv' = tsv /\ copy' = copy /\ step'[p] \notin {"read", "emptied"}
    BY <1>1, <1>10 DEF Reject, AuditChange, Stop, StoresTypeOK
  <2> QED
    BY <1>1, <1>4, <2>1 DEF InWindow
<1> QED
  BY <1>5, <1>6, <1>7, <1>8, <1>9, <1>10 DEF Command

\* The events of the commands are those of the ones that answered, and no
\* other event is touched.
LEMMA CommandKeepsAudit ==
  ASSUME StoresTypeOK, AuditMatchesWork, AuditedIsOver, NEW p \in DOMAIN job, Command(p)
  PROVE  AuditMatchesWork' /\ AuditedIsOver'
<1>1. /\ job' = job /\ record' = record
      /\ outcome' = outcome /\ failures' = failures
      /\ p \in Processes
      /\ \A q \in DOMAIN job : q \in Processes /\ (q # p => step'[q] = step[q])
  BY OwnStep, JobsTyped DEF StoresTypeOK, Command, vars, Reject, ReadFile, EmptyFile,
     WriteFile, AppendLine, AuditChange, Stop
<1>2. \/ step[p] # "done" /\ step'[p] # "done" /\ audit' = audit
      \/ step'[p] = "done" /\ audit' = audit \cup {<<"command", p>>}
  BY <1>1 DEF Command, Reject, ReadFile, EmptyFile, WriteFile, AppendLine, AuditChange,
              Stop, append_audit, StoresTypeOK
<1> QED
  BY <1>1, <1>2 DEF AuditMatchesWork, AuditedIsOver

-----------------------------------------------------------------------------
(* The workers                                                               *)

\* A step of the group run leaves the files and the commands alone.
LEMMA GroupStepsLeaveFiles ==
  ASSUME \/ \E w \in Workers : TaskStep(w) \/ EndTask(w)
         \/ Join /\ UNCHANGED stores
         \/ UNCHANGED <<vars, stores>>
  PROVE  UNCHANGED <<tsv, job, step, copy, calm>>
BY DEF TaskStep, CheckNode, RefuseTask, SpawnTask, KillTask, EndTask, stores

\* While the files and the commands stay as they are, so does their invariant.
LEMMA FilesKept ==
  ASSUME OneByOne, GrantsAreNew, UNCHANGED <<tsv, job, step, copy, calm>>
  PROVE  OneByOne' /\ GrantsAreNew'
BY DEF OneByOne, InTurn, GrantsAreNew, InWindow, Changed, Emptied, HoldsIn, File, Appends

\* The node that a worker holds has no outcome yet.
LEMMA HeldIsOpen ==
  ASSUME IInv, NEW w \in Workers, Holding(w)
  PROVE  current[w] \in Nodes /\ outcome[current[w]] \in {"Untried", "Running"}
BY GroupRunAssumption DEF IInv, SharedOut, Holding, TypeOK, Nodes

\* The record and the event of a task that came to its end, with or without an
\* error for the worker.
LEMMA EndIsAudited ==
  ASSUME StoresTypeOK, IInv, AuditMatchesWork, AuditedIsOver,
         NEW w \in Workers, pc[w] = "running",
         NEW o \in {"Succeeded", "Failed", "TimedOut"},
         outcome' = [outcome EXCEPT ![current[w]] = o],
         Recorded(w), UNCHANGED <<job, step>>,
         \A v \in Workers : failures[v] \subseteq failures'[v]
  PROVE  AuditMatchesWork' /\ AuditedIsOver'
<1>1. /\ current[w] \in Nodes
      /\ audit' = audit \cup {<<"task", current[w]>>}
      /\ \A n \in Nodes : /\ outcome'[n] = IF n = current[w] THEN o ELSE outcome[n]
                          /\ record'[n] = IF n = current[w] THEN TaskFiles ELSE record[n]
  BY HeldIsOpen DEF Holding, Recorded, append_audit, StoresTypeOK, TypeOK
<1>2. AuditedIsOver'
  BY <1>1 DEF AuditedIsOver
<1>3. \A p \in DOMAIN job' : <<"command", p>> \in audit' <=> step'[p] = "done"
  BY <1>1 DEF AuditMatchesWork
<1>4. \A n \in Nodes : /\ outcome'[n] \in {"Succeeded", "Failed"}
                       /\ \A v \in Workers : n \notin failures'[v]
                       => <<"task", n>> \in audit'
  BY <1>1 DEF AuditMatchesWork
<1>5. \A n \in Nodes : <<"task", n>> \in audit' => record'[n] = TaskFiles
  BY <1>1 DEF AuditMatchesWork
<1> QED
  BY <1>2, <1>3, <1>4, <1>5 DEF AuditMatchesWork

\* A task whose record or event was not written is an error to its
\* worker, and its node is one that the audit does not name.
LEMMA HalfRecordIsError ==
  ASSUME StoresTypeOK, IInv, AuditMatchesWork, AuditedIsOver,
         NEW w \in Workers, pc[w] = "running",
         NEW o \in {"Succeeded", "Failed", "TimedOut"},
         outcome' = [outcome EXCEPT ![current[w]] = o],
         Unrecorded \/ HalfRecorded(w), TaskError(w), UNCHANGED <<job, step>>
  PROVE  AuditMatchesWork' /\ AuditedIsOver'
<1>1. /\ current[w] \in Nodes /\ outcome[current[w]] \in {"Untried", "Running"}
      /\ audit' = audit
      /\ current[w] \in failures'[w]
      /\ \A v \in Workers : failures[v] \subseteq failures'[v]
      /\ \A n \in Nodes : n # current[w] => outcome'[n] = outcome[n] /\ record'[n] = record[n]
  BY HeldIsOpen DEF Holding, Unrecorded, HalfRecorded, TaskError, StoresTypeOK, TypeOK
<1>2. <<"task", current[w]>> \notin audit
  BY <1>1 DEF AuditedIsOver
<1> QED
  BY <1>1, <1>2 DEF AuditMatchesWork, AuditedIsOver

\* A node that is refused or started is one that the audit does not name.
LEMMA StartIsNotAudited ==
  ASSUME StoresTypeOK, IInv, AuditMatchesWork, AuditedIsOver,
         NEW w \in Workers, pc[w] = "starting", NEW o \in {"Refused", "Running"},
         outcome' = [outcome EXCEPT ![current[w]] = o],
         UNCHANGED <<job, step, record, audit>>,
         \A v \in Workers : failures[v] \subseteq failures'[v]
  PROVE  AuditMatchesWork' /\ AuditedIsOver'
<1>1. /\ current[w] \in Nodes /\ outcome[current[w]] \in {"Untried", "Running"}
      /\ \A n \in Nodes : outcome'[n] = IF n = current[w] THEN o ELSE outcome[n]
  BY HeldIsOpen DEF Holding, StoresTypeOK, TypeOK
<1>2. <<"task", current[w]>> \notin audit
  BY <1>1 DEF AuditedIsOver
<1> QED
  BY <1>1, <1>2 DEF AuditMatchesWork, AuditedIsOver

\* An error is added to what a worker has met before.
LEMMA FailuresGrow ==
  ASSUME TypeOK, NEW w \in Workers, TaskError(w) \/ TaskDone(w)
  PROVE  \A v \in Workers : failures[v] \subseteq failures'[v]
BY DEF TypeOK, TaskError, TaskDone

\* Every step of the group run keeps the types and what the audit says.
LEMMA GroupStepSound ==
  ASSUME StoresTypeOK, IInv, IInv', AuditMatchesWork, AuditedIsOver,
         \/ \E w \in Workers : TaskStep(w) \/ EndTask(w)
         \/ Join /\ UNCHANGED stores
         \/ UNCHANGED <<vars, stores>>
  PROVE  StoresTypeOK' /\ AuditMatchesWork' /\ AuditedIsOver'
<1>1. TypeOK /\ TypeOK' /\ UNCHANGED <<tsv, job, step, copy, calm>>
  BY GroupStepsLeaveFiles DEF IInv
<1> DEFINE Typed == /\ cleared' \subseteq Workers
                    /\ record' \in [Nodes -> SUBSET TaskFiles]
                    /\ audit' \subseteq ({"command"} \X Processes) \cup ({"task"} \X Nodes)
           Sound == Typed /\ AuditMatchesWork' /\ AuditedIsOver'
<1>2. ASSUME UNCHANGED <<cleared, record, audit, outcome, failures>>
      PROVE  Sound
  BY <1>1, <1>2 DEF StoresTypeOK, AuditMatchesWork, AuditedIsOver
<1>3. ASSUME NEW w \in Workers, CheckNode(w)
      PROVE  Sound
  BY <1>1, <1>3 DEF CheckNode, vars, StoresTypeOK, AuditMatchesWork, AuditedIsOver
<1>4. ASSUME NEW w \in Workers, RefuseTask(w)
      PROVE  Sound
  <2>1. AuditMatchesWork' /\ AuditedIsOver'
    BY <1>1, <1>4, StartIsNotAudited, FailuresGrow DEF RefuseTask, Refuse
  <2> QED
    BY <1>4, <2>1 DEF RefuseTask, StoresTypeOK
<1>5. ASSUME NEW w \in Workers, SpawnTask(w)
      PROVE  Sound
  <2>1. AuditMatchesWork' /\ AuditedIsOver'
    BY <1>1, <1>5, StartIsNotAudited DEF SpawnTask, Spawn
  <2> QED
    BY <1>5, <2>1 DEF SpawnTask, StoresTypeOK
<1>6. ASSUME NEW w \in Workers, pc[w] = "running", UNCHANGED cleared,
             Recorded(w) \/ Unrecorded \/ HalfRecorded(w)
      PROVE  Typed
  <2>1. current[w] \in Nodes
    BY <1>6, HeldIsOpen DEF Holding
  <2>2. <<"task", current[w]>> \in {"task"} \X Nodes
    BY <2>1
  <2>3. /\ record' \in [Nodes -> SUBSET TaskFiles]
        /\ audit' \subseteq audit \cup {<<"task", current[w]>>}
    BY <1>6, <2>1 DEF Recorded, Unrecorded, HalfRecorded, append_audit, TaskFiles,
                      StoresTypeOK
  <2> QED
    BY <1>6, <2>2, <2>3 DEF StoresTypeOK
<1>7. ASSUME NEW w \in Workers, KillTask(w)
      PROVE  Sound
  <2>1. AuditMatchesWork' /\ AuditedIsOver'
    BY <1>1, <1>7, EndIsAudited, HalfRecordIsError, FailuresGrow
    DEF KillTask, TimeOut, DeadlinePassed
  <2> QED
    BY <1>6, <1>7, <2>1 DEF KillTask, TimeOut, DeadlinePassed
<1>8. ASSUME NEW w \in Workers, EndTask(w)
      PROVE  Sound
  <2> PICK state \in {"Succeeded", "Failed"} :
        \/ (ChildExits(w, state) \/ WorkerPanics(w, state)) /\ Recorded(w)
        \/ NotRecorded(w, state) /\ (Unrecorded \/ HalfRecorded(w))
    BY <1>8 DEF EndTask
  <2>1. AuditMatchesWork' /\ AuditedIsOver'
    BY <1>1, EndIsAudited, HalfRecordIsError, FailuresGrow
    DEF ChildExits, WorkerPanics, NotRecorded
  <2>2. Typed
    BY <1>6, <1>8 DEF EndTask, ChildExits, WorkerPanics, NotRecorded
  <2> QED
    BY <2>1, <2>2
<1>9. Sound
  BY <1>2, <1>3, <1>4, <1>5, <1>7, <1>8 DEF TaskStep, Take, QueueEmpty, Join, vars, stores
<1> QED
  BY <1>1, <1>9 DEF StoresTypeOK

-----------------------------------------------------------------------------
(* The theorems                                                              *)

\* The invariants hold when the group run and the commands begin: no change is
\* made, no copy is held, and every grant that is to be appended is new.
LEMMA StoresBegin == StoresInit => StoresInv
<1> SUFFICES ASSUME StoresInit PROVE StoresInv
  OBVIOUS
<1>1. IInv
  BY InitEstablishes DEF StoresInit
<1> PICK plan \in Plans :
      /\ job = plan.jobs
      /\ tsv = [f \in Files |->
                  [n \in Names |-> IF n \in plan.listed THEN "listed" ELSE "absent"]]
  BY DEF StoresInit
<1>2. /\ DOMAIN job \subseteq Processes
      /\ \A p \in DOMAIN job :
           /\ job[p] \in Jobs
           /\ Appends(p) => IsNewGrant(plan, p)
  BY LocalStoresAssumption DEF Appends, File
<1>3. StoresTypeOK
  BY <1>1, <1>2 DEF StoresInit, StoresTypeOK, IInv, Lines, Empty
<1>4. \A p \in DOMAIN job : step[p] = "start"
  BY <1>2 DEF StoresInit
<1>5. OneByOne
  BY <1>4 DEF OneByOne, InTurn, InWindow, Changed, Emptied
<1>6. GrantsAreNew
  <2>1. \A p \in DOMAIN job : Appends(p) => tsv["grants"][job[p].name] = "absent"
    BY <1>2 DEF IsNewGrant, Files, Jobs
  <2> QED
    BY <1>2, <1>4, <2>1 DEF GrantsAreNew, IsNewGrant, InWindow
<1>7. AuditMatchesWork /\ AuditedIsOver
  BY <1>4 DEF StoresInit, Init, AuditMatchesWork, AuditedIsOver
<1> QED
  BY <1>3, <1>5, <1>6, <1>7 DEF StoresInv

\* Every step keeps the invariants, that of the group run given.
LEMMA StoresInductive ==
  ASSUME StoresInv, IInv, IInv', [StoresNext]_<<vars, stores>>
  PROVE  StoresInv'
<1>1. CASE \/ \E w \in Workers : TaskStep(w) \/ EndTask(w)
           \/ Join /\ UNCHANGED stores
           \/ UNCHANGED <<vars, stores>>
  BY <1>1, GroupStepsLeaveFiles, FilesKept, GroupStepSound DEF StoresInv
<1>2. ASSUME NEW p \in DOMAIN job, Command(p)
      PROVE  StoresInv'
  <2>1. OneByOne'
    <3> SUFFICES ASSUME NEW f \in calm' PROVE InTurn(f)'
      BY DEF OneByOne
    <3>1. f \in Files /\ f \in calm
      BY <1>2, OwnStep DEF StoresInv, StoresTypeOK
    <3>2. CASE f = File(p)
      BY <1>2, <3>2, OwnFileInTurn DEF StoresInv
    <3>3. CASE f # File(p)
      BY <1>2, <3>1, <3>3, OtherFilesInTurn DEF StoresInv, OneByOne
    <3> QED
      BY <3>2, <3>3
  <2> QED
    BY <1>2, <2>1, CommandTyped, CommandKeepsGrantsNew, CommandKeepsAudit DEF StoresInv
<1> QED
  BY <1>1, <1>2 DEF StoresNext

\* The invariants hold throughout, beside that of the group run.
LEMMA AlwaysStoresInv == StoresSpec => [](StoresInv /\ IInv)
<1>1. StoresInv /\ IInv /\ IInv' /\ [StoresNext]_<<vars, stores>> => StoresInv'
  BY StoresInductive
<1>2. StoresSpec => []IInv
  BY StoresImplementGroupRun, GroupInvariant, PTL
<1> QED
  BY <1>1, <1>2, StoresBegin, PTL DEF StoresSpec

\* What is proved of GroupRun holds of a group run among other commands: no
\* node is run twice, and the answer counts them all.
THEOREM GroupRunsShareOut ==
  StoresSpec => [](SharedOut /\ LeftOnlyByErrors /\ SuccessAnswersForAll
                   /\ WithinConcurrency)
<1>1. IInv => SharedOut
  BY DEF IInv
<1> QED
  BY AlwaysStoresInv, <1>1, LeftOnlyByErrorsFollows, SuccessFollows, ConcurrencyFollows, PTL

\* Every file keeps its form, and the audit names only commands and tasks
\* there are.
THEOREM StoresTypeCorrect == StoresSpec => []StoresTypeOK
BY AlwaysStoresInv, PTL DEF StoresInv

\* For any number of commands, none of their changes is lost, nor a revocation
\* undone, in a file whose changes never met each other.
THEOREM ChangesAreLostOnlyToOverlap == StoresSpec => []LostOnlyToOverlap
<1>1. StoresInv => LostOnlyToOverlap
  BY DEF StoresInv, OneByOne, InTurn, Changed, Emptied, HoldsIn, LostOnlyToOverlap,
         Holds, Found
<1> QED
  BY AlwaysStoresInv, <1>1, PTL

\* The audit loses no event of a change or a command that was answered, and
\* names no task whose record is incomplete.
THEOREM AuditIsComplete == StoresSpec => []AuditMatchesWork
BY AlwaysStoresInv, PTL DEF StoresInv

\* No worker clears a node whose revocation is in nodes.tsv: while the file is
\* being written back by another command it is empty, which clears none.
THEOREM RevokedStaysRevoked == StoresSpec => RevokedIsNotCleared
<1> DEFINE Guarded ==
      \A w \in cleared' \ cleared, p \in DOMAIN job :
        "nodes" \in calm /\ step[p] \in {"written", "done"} =>
          job[p] # [file |-> "nodes", change |-> "revoke", name |-> current[w]]
<1>1. ASSUME StoresInv, IInv, StoresNext,
             NEW w \in cleared' \ cleared, NEW p \in DOMAIN job,
             "nodes" \in calm, step[p] \in {"written", "done"},
             job[p] = [file |-> "nodes", change |-> "revoke", name |-> current[w]]
      PROVE  FALSE
  <2>1. CheckNode(w)
    BY <1>1 DEF StoresNext, TaskStep, CheckNode, RefuseTask, SpawnTask, KillTask, EndTask,
       Command, Reject, ReadFile, EmptyFile, WriteFile, AppendLine, AuditChange, Stop,
       stores
  <2>2. tsv["nodes"][current[w]] = "listed"
    BY <2>1 DEF CheckNode, Online
  <2>3. InTurn("nodes") /\ Changed(p) /\ File(p) = "nodes"
    BY <1>1 DEF StoresInv, OneByOne, Changed, File
  <2>4. current[w] \in Names
    BY <1>1, JobsTyped DEF StoresInv
  <2>5. CASE Emptied("nodes")
    BY <2>2, <2>3, <2>4, <2>5 DEF InTurn, Empty
  <2>6. CASE ~Emptied("nodes")
    BY <1>1, <2>2, <2>3, <2>6 DEF InTurn, HoldsIn
  <2> QED
    BY <2>5, <2>6
<1>2. StoresInv /\ IInv /\ [StoresNext]_<<vars, stores>> => [Guarded]_<<vars, stores>>
  BY <1>1
<1> QED
  BY AlwaysStoresInv, <1>2, PTL DEF StoresSpec, RevokedIsNotCleared
=============================================================================
