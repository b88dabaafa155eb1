---------------------------- MODULE LocalStores ----------------------------
(* The CLI's state directory (cli/src/main.rs) under several commands at    *)
(* once: `group run` with its workers, beside commands that change          *)
(* nodes.tsv, groups.tsv and grants.tsv.  No file is locked.  A change      *)
(* reads the whole file, empties it (fs::write) and writes it back; a new   *)
(* grant, and every event of audit.jsonl, is appended.  An appended line    *)
(* and its end are written apart, so that two of them may end up on one     *)
(* line; here they stay two.                                                *)
(*                                                                          *)
(* The entries of a file have numbers for names, node n of the group has    *)
(* the name n.  Entry 0 is one that no file lists at first.                 *)
EXTENDS GroupRun

CONSTANTS
  StateWritable,  \* whether the state directory takes every write
  Processes,      \* the other commands, one process each
  Plans           \* what there is at first, and what the commands are asked for

Names == 0..NodeCount
Files == {"nodes", "groups", "grants"}

Jobs == [file : Files, change : {"add", "revoke"}, name : Names]

\* The id of a grant is drawn for it: no line of the file has it yet, and no
\* other command draws it.
IsNewGrant(plan, p) ==
  /\ plan.jobs[p].name \notin plan.listed
  /\ \A q \in DOMAIN plan.jobs \ {p} :
       plan.jobs[q] # plan.jobs[p]

ASSUME LocalStoresAssumption ==
  /\ StateWritable \in BOOLEAN
  /\ \A plan \in Plans :
       /\ plan.listed \subseteq Nodes
       /\ DOMAIN plan.jobs \subseteq Processes
       /\ \A p \in DOMAIN plan.jobs :
            /\ plan.jobs[p] \in Jobs
            /\ plan.jobs[p].file = "grants" /\ plan.jobs[p].change = "add" =>
                 IsNewGrant(plan, p)

VARIABLES
  tsv,      \* the entries of each file: absent, listed or revoked
  job,      \* what each process was asked to change
  step,     \* how far each process is
  copy,     \* the file as each process will write it
  calm,     \* the files whose changes never met each other: see LostOnlyToOverlap
  cleared,  \* the workers that found their node online in nodes.tsv
  record,   \* the files tasks/ holds of the task of each node
  audit     \* the events of audit.jsonl

stores == <<tsv, job, step, copy, calm, cleared, record, audit>>

Lines == {"absent", "listed", "revoked"}
Empty == [n \in Names |-> "absent"]
TaskFiles == {"output", "meta"}

StoresTypeOK ==
  /\ TypeOK
  /\ tsv \in [Files -> [Names -> Lines]]
  /\ DOMAIN job \subseteq Processes /\ \A p \in DOMAIN job : job[p] \in Jobs
  /\ step \in [Processes -> {"start", "read", "emptied", "written", "done",
                             "refused", "stopped"}]
  /\ copy \in [Processes -> [Names -> Lines]]
  /\ calm \subseteq Files
  /\ cleared \subseteq Workers
  /\ record \in [Nodes -> SUBSET TaskFiles]
  /\ audit \subseteq ({"command"} \X Processes) \cup ({"task"} \X Nodes)

StoresInit ==
  /\ Init
  /\ \E plan \in Plans :
       /\ job = plan.jobs
       /\ tsv = [f \in Files |->
                   [n \in Names |-> IF n \in plan.listed THEN "listed" ELSE "absent"]]
  /\ step = [p \in Processes |-> "start"]
  /\ copy = [p \in Processes |-> Empty]
  /\ calm = Files
  /\ cleared = {}
  /\ record = [n \in Nodes |-> {}]
  /\ audit = {}

-----------------------------------------------------------------------------
(* The commands that change a file                                          *)

File(p) == job[p].file
Found(p) == tsv[File(p)][job[p].name] # "absent"
Goal(p) == IF job[p].change = "add" THEN "listed" ELSE "revoked"

\* `grant create` reads nothing.
Appends(p) == File(p) = "grants" /\ job[p].change = "add"

\* A process holds a copy that it has yet to write back.
InWindow(p) == step[p] \in {"read", "emptied"}

Met(p) == \E q \in DOMAIN job \ {p} : InWindow(q) /\ File(q) = File(p)

\* p's change met another one, or left the file in pieces.
Disturb(p, met) == calm' = IF met THEN calm \ {File(p)} ELSE calm

\* Already exists, not found, or a group whose selector matches no node.
Rejected(p) ==
  \/ job[p].change = "add" /\ Found(p)
  \/ job[p].change = "revoke" /\ ~Found(p)
  \/ File(p) = "groups" /\ tsv["nodes"] = Empty

Reject(p) ==
  /\ step[p] = "start"
  /\ ~Appends(p) /\ Rejected(p)
  /\ step' = [step EXCEPT ![p] = "refused"]
  /\ UNCHANGED <<tsv, job, copy, calm, cleared, record, audit>>

\* A bug: revoked nodes are left out of what is read.
Bug_revoked_skipped(p) ==
  [n \in Names |-> IF tsv[File(p)][n] = "listed" THEN "listed" ELSE "absent"]

Contents(p) == tsv[File(p)]

ReadFile(p) ==
  /\ step[p] = "start"
  /\ ~Appends(p) /\ ~Rejected(p)
  /\ copy' = [copy EXCEPT ![p] = [Contents(p) EXCEPT ![job[p].name] = Goal(p)]]
  /\ step' = [step EXCEPT ![p] = "read"]
  /\ Disturb(p, Met(p))
  /\ UNCHANGED <<tsv, job, cleared, record, audit>>

\* fs::write opens the file and empties it.
EmptyFile(p) ==
  /\ step[p] = "read"
  /\ tsv' = [tsv EXCEPT ![File(p)] = Empty]
  /\ step' = [step EXCEPT ![p] = "emptied"]
  /\ UNCHANGED <<job, copy, calm, cleared, record, audit>>

\* What a file says of an entry that two of its lines name: it is online if
\* one of them says so.
Either(a, b) ==
  IF "listed" \in {a, b} THEN "listed"
  ELSE IF "revoked" \in {a, b} THEN "revoked" ELSE "absent"

\* fs::write writes from the start of the file.  What another process wrote
\* to it meanwhile is overwritten as far as the copy reaches; the lines behind
\* that remain, and which they are is left open.
Overwritten(old, new) ==
  {[n \in Names |-> IF n \in kept THEN Either(old[n], new[n]) ELSE new[n]] :
     kept \in SUBSET {n \in Names : old[n] # "absent"}}

WriteFile(p) ==
  /\ step[p] = "emptied"
  /\ \E contents \in Overwritten(tsv[File(p)], copy[p]) :
       tsv' = [tsv EXCEPT ![File(p)] = contents]
  /\ step' = [step EXCEPT ![p] = "written"]
  /\ UNCHANGED <<job, copy, calm, cleared, record, audit>>

\* `grant create`: a line of its own at the end of the file.
AppendLine(p) ==
  /\ step[p] = "start"
  /\ Appends(p)
  /\ tsv' = [tsv EXCEPT ![File(p)][job[p].name] = "listed"]
  /\ step' = [step EXCEPT ![p] = "written"]
  /\ Disturb(p, Met(p))
  /\ UNCHANGED <<job, copy, cleared, record, audit>>

\* A bug: the file is opened without append, which empties it.
Bug_audit_rewritten(event) == audit' = {event}

append_audit(event) == audit' = audit \cup {event}

AuditChange(p) ==
  /\ step[p] = "written"
  /\ append_audit(<<"command", p>>)
  /\ step' = [step EXCEPT ![p] = "done"]
  /\ UNCHANGED <<tsv, job, copy, calm, cleared, record>>

\* The process is killed, or a write fails and it answers with the error.
Stop(p) ==
  /\ step[p] \in {"read", "emptied", "written"}
  /\ step' = [step EXCEPT ![p] = "stopped"]
  /\ Disturb(p, step[p] = "emptied")
  /\ UNCHANGED <<tsv, job, copy, cleared, record, audit>>

Command(p) ==
  /\ \/ Reject(p)    \/ ReadFile(p)   \/ EmptyFile(p) \/ WriteFile(p)
     \/ AppendLine(p) \/ AuditChange(p) \/ Stop(p)
  /\ UNCHANGED vars

-----------------------------------------------------------------------------
(* run_task, in the steps between which other processes come in             *)

\* A bug: the node need not be online.
Bug_revoked_is_paired(n) == tsv["nodes"][n] # "absent"

Online(n) == tsv["nodes"][n] = "listed"

CheckNode(w) ==
  /\ pc[w] = "starting" /\ w \notin cleared
  /\ Online(current[w])
  /\ cleared' = cleared \cup {w}
  /\ UNCHANGED vars
  /\ UNCHANGED <<tsv, job, step, copy, calm, record, audit>>

\* The node is not online, or after that the Scope, the command or the spawn
\* is refused.
RefuseTask(w) ==
  /\ w \in cleared \/ ~Online(current[w])
  /\ Refuse(w)
  /\ cleared' = cleared \ {w}
  /\ UNCHANGED <<tsv, job, step, copy, calm, record, audit>>

SpawnTask(w) ==
  /\ w \in cleared
  /\ Spawn(w)
  /\ cleared' = cleared \ {w}
  /\ UNCHANGED <<tsv, job, step, copy, calm, record, audit>>

\* persist_task writes the output files and then the meta file; the event of
\* the audit follows.
Recorded(w) ==
  /\ record' = [record EXCEPT ![current[w]] = TaskFiles]
  /\ append_audit(<<"task", current[w]>>)

\* A write that fails leaves out all that comes after it, at last the event.
HalfRecorded(w) ==
  /\ ~StateWritable
  /\ \E files \in {{}, {"output"}, TaskFiles} :
       record' = [record EXCEPT ![current[w]] = files]
  /\ UNCHANGED audit

\* The status or the output of the child cannot be had: nothing is written.
Unrecorded == UNCHANGED <<record, audit>>

\* The child exits, and run_task returns.
EndTask(w) ==
  /\ \E state \in {"Succeeded", "Failed"} :
       \/ (ChildExits(w, state) \/ WorkerPanics(w, state)) /\ Recorded(w)
       \/ NotRecorded(w, state) /\ (Unrecorded \/ HalfRecorded(w))
  /\ UNCHANGED <<tsv, job, step, copy, calm, cleared>>

\* A bug: a task that timed out is recorded and returned like any other.
Bug_timeout_is_no_error(w) ==
  /\ pc[w] = "running"
  /\ outcome' = [outcome EXCEPT ![current[w]] = "TimedOut"]
  /\ TaskDone(w)
  /\ Recorded(w)
  /\ UNCHANGED <<left, current, status, policy, tsv, job, step, copy, calm, cleared>>

\* The child is killed at its deadline.
KillTask(w) ==
  /\ TimeOut(w)
  /\ Recorded(w) \/ HalfRecorded(w)
  /\ UNCHANGED <<tsv, job, step, copy, calm, cleared>>

TaskStep(w) ==
  \/ (Take(w) \/ QueueEmpty(w)) /\ UNCHANGED stores
  \/ CheckNode(w) \/ RefuseTask(w) \/ SpawnTask(w) \/ KillTask(w)

StoresNext ==
  \/ \E w \in Workers : TaskStep(w) \/ EndTask(w)
  \/ Join /\ UNCHANGED stores
  \/ \E p \in DOMAIN job : Command(p)

\* As in GroupRun: threads are scheduled, children may never exit.
StoresFairness ==
  /\ \A w \in Workers : WF_<<vars, stores>>(TaskStep(w))
  /\ WF_<<vars, stores>>(Join /\ UNCHANGED stores)

StoresSpec == StoresInit /\ [][StoresNext]_<<vars, stores>> /\ StoresFairness

-----------------------------------------------------------------------------
\* With its files, and with other commands at work on them, a group run is
\* still the one of GroupRun: what is proved there holds here.
RefinesGroupRun == Init /\ [][Next]_vars

\* p's change is in the file.
Holds(p) ==
  IF job[p].change = "add" THEN Found(p)
  ELSE tsv[File(p)][job[p].name] = "revoked"

\* What a command changed is never lost, nor a revocation undone, but where a
\* change met another one of the same file: read it or appended to it while a
\* copy was about to be written back, or was stopped with the file emptied.
\* Without that it is only out of sight while the file is being written back.
LostOnlyToOverlap ==
  \A p \in DOMAIN job :
    step[p] \in {"written", "done"} /\ File(p) \in calm =>
      \/ Holds(p)
      \/ \E q \in DOMAIN job : step[q] = "emptied" /\ File(q) = File(p)

\* Once a revocation is in nodes.tsv no worker clears the node, unless changes
\* of that file met each other.
RevokedIsNotCleared ==
  [][\A w \in cleared' \ cleared, p \in DOMAIN job :
       "nodes" \in calm /\ step[p] \in {"written", "done"} =>
         job[p] # [file |-> "nodes", change |-> "revoke", name |-> current[w]]
    ]_<<vars, stores>>

\* The audit never loses an event, however many processes and threads append:
\* every change that was answered is in it, and so is every command that the
\* group run does not count as failed.  It names nothing that was not done: a
\* task that it names has its complete record, whatever could not be written.
AuditMatchesWork ==
  /\ \A p \in DOMAIN job : <<"command", p>> \in audit <=> step[p] = "done"
  /\ \A n \in Nodes :
       /\ outcome[n] \in {"Succeeded", "Failed"}
       /\ \A w \in Workers : n \notin failures[w]
       => <<"task", n>> \in audit
  /\ \A n \in Nodes : <<"task", n>> \in audit => record[n] = TaskFiles
=============================================================================
