--------------------------- MODULE DataDirectory ---------------------------
(* The data directory of the snapshot backend                               *)
(* (src/control-plane/src/main.rs): store.lock, the files one write         *)
(* replaces one after the other, and what a start makes of them when an     *)
(* earlier process was killed, or failed, between two of them.              *)
(*                                                                          *)
(* What a file holds is the set of the changes written to it.  A file is    *)
(* written under another name, synced and renamed, so it is replaced as a   *)
(* whole; files left under other names are never read.                      *)
EXTENDS Integers

CONSTANTS
  Processes,       \* Control Planes that may be started on the directory
  Changes,         \* requests that change the store
  None,
  OperatorClears,  \* whether someone removes the lock of a dead process
  MaxFaults        \* bound on kills and failed writes

ASSUME ConstantsAreTyped ==
  /\ None \notin Changes
  /\ OperatorClears \in BOOLEAN
  /\ MaxFaults \in Nat

\* The vectors of a Store, each with a file of its own.
Parts == {"nodes", "tasks", "grants", "approvals", "audit"}

StoreType == [Parts -> SUBSET Changes]

VARIABLES
  locked,        \* whether store.lock exists
  table,         \* nodes.tsv, tasks.tsv, grants.tsv, approvals.tsv, audit.jsonl
  snapshot,      \* store.snapshot
  backup,        \* store.snapshot.bak
  proc,          \* the processes
  faults,
  acknowledged,  \* the changes answered with 2xx
  sealedOnce     \* whether one was, by a process that has a key

files == <<table, snapshot, backup>>
vars == <<locked, table, snapshot, backup, proc, faults, acknowledged,
          sealedOnce>>

\* A file is plain text or, under a key, sealed.
File(content) == [form : {"absent", "plain", "sealed"}, holds : content]

NoFile(nothing) == [form |-> "absent", holds |-> nothing]

Exists(file) == file.form # "absent"

EmptyStore == [p \in Parts |-> {}]

\* store: the Store behind the mutex, without the change under way.
\* change, step: the change being written, and the next file to replace.
Down == [phase |-> "down", keyed |-> FALSE, strict |-> FALSE,
         store |-> EmptyStore, change |-> None, step |-> 0]

Starting(is_keyed, is_strict) ==
  [phase |-> "starting", keyed |-> is_keyed, strict |-> is_strict,
   store |-> EmptyStore, change |-> None, step |-> 0]

Serving(process, mem) ==
  [phase |-> "serving", keyed |-> process.keyed, strict |-> process.strict,
   store |-> mem, change |-> None, step |-> 0]

Writing(process, c, next) ==
  [phase |-> "writing", keyed |-> process.keyed, strict |-> process.strict,
   store |-> process.store, change |-> c, step |-> next]

Process == [phase : {"down", "starting", "serving", "writing"},
            keyed : BOOLEAN, strict : BOOLEAN, store : StoreType,
            change : Changes \cup {None}, step : 0..8]

TypeOK ==
  /\ locked \in BOOLEAN
  /\ table \in [Parts -> File(SUBSET Changes)]
  /\ snapshot \in File(StoreType)
  /\ backup \in File(StoreType)
  /\ proc \in [Processes -> Process]
  /\ \A p \in Processes : proc[p].phase = "writing" <=> proc[p].change # None
  /\ faults \in 0..MaxFaults
  /\ acknowledged \in SUBSET Changes
  /\ sealedOnce \in BOOLEAN

Init ==
  /\ locked = FALSE
  /\ table = [p \in Parts |-> NoFile({})]
  /\ snapshot = NoFile(EmptyStore)
  /\ backup = NoFile(EmptyStore)
  /\ proc = [p \in Processes |-> Down]
  /\ faults = 0
  /\ acknowledged = {}
  /\ sealedOnce = FALSE

-----------------------------------------------------------------------------
(* The start of a process                                                   *)

\* A bug: the lock is opened where it already exists.
Bug_lock_shared == TRUE

\* create_new(true)
LockFree == ~locked

\* acquire_store_lock.  keyed: NODEWE_STORE_KEY is set; strict:
\* NODEWE_REQUIRE_ENCRYPTED_STORE=1.
Start(p, keyed, strict) ==
  /\ proc[p].phase = "down"
  /\ LockFree
  /\ locked' = TRUE
  /\ proc' = [proc EXCEPT ![p] = Starting(keyed, strict)]
  /\ UNCHANGED <<files, faults, acknowledged, sealedOnce>>

\* The lock is created and then cannot be written or synced: the process
\* ends without a StoreLock that could remove it.
LockWriteFails(p) ==
  /\ proc[p].phase = "down"
  /\ LockFree
  /\ faults < MaxFaults
  /\ faults' = faults + 1
  /\ locked' = TRUE
  /\ UNCHANGED <<files, proc, acknowledged, sealedOnce>>

Forms == {table[p].form : p \in Parts} \cup {snapshot.form, backup.form}

\* A bug: with a key, plain files are refused even where they are allowed.
Bug_no_migration(keyed, strict) ==
  /\ strict => keyed
  /\ IF keyed THEN "plain" \notin Forms ELSE "sealed" \notin Forms

\* validate_store_startup: with no key no file may be sealed, and under strict
\* there has to be a key and no file may be plain.
validate_store_startup(keyed, strict) ==
  /\ strict => keyed /\ "plain" \notin Forms
  /\ "sealed" \in Forms => keyed

\* load_legacy_store, which is for a directory without a snapshot: there is no
\* audit.jsonl in it, and a file that cannot be read is skipped.  What it makes
\* of the fields of a line (LegacyTask in ControlPlane) is no matter here,
\* where a part is the changes that are in it.
load_legacy_store ==
  [p \in Parts |-> IF p = "audit" THEN {} ELSE table[p].holds]

\* A bug: the store comes from the files of its parts while there are any.
Bug_legacy_first ==
  IF Exists(table["nodes"]) THEN load_legacy_store ELSE snapshot.holds

\* A bug: the backup is read before the snapshot.
Bug_backup_first ==
  IF Exists(backup) THEN backup.holds
  ELSE IF Exists(snapshot) THEN snapshot.holds ELSE load_legacy_store

load_store ==
  IF Exists(snapshot) THEN snapshot.holds ELSE load_legacy_store

Load(p) ==
  /\ proc[p].phase = "starting"
  /\ validate_store_startup(proc[p].keyed, proc[p].strict)
  /\ proc' = [proc EXCEPT ![p] = Serving(@, load_store)]
  /\ UNCHANGED <<locked, files, faults, acknowledged, sealedOnce>>

\* expect() unwinds main, which drops the StoreLock and so removes the lock.
StartRefused(p) ==
  /\ proc[p].phase = "starting"
  /\ ~validate_store_startup(proc[p].keyed, proc[p].strict)
  /\ proc' = [proc EXCEPT ![p] = Down]
  /\ locked' = FALSE
  /\ UNCHANGED <<files, faults, acknowledged, sealedOnce>>

-----------------------------------------------------------------------------
(* A write: persist_snapshot, under the mutex of the store                  *)

Added(store, c) == [p \in Parts |-> store[p] \cup {c}]

\* A handler that changes the store.  A refused request can be sent again.
Begin(p, c) ==
  /\ proc[p].phase = "serving"
  /\ c \notin acknowledged
  /\ \A part \in Parts : c \notin proc[p].store[part]
  /\ proc' = [proc EXCEPT ![p] = Writing(@, c, 1)]
  /\ UNCHANGED <<locked, files, faults, acknowledged, sealedOnce>>

Written(content, keyed) ==
  [form |-> IF keyed THEN "sealed" ELSE "plain", holds |-> content]

\* A bug: the old snapshot is copied as it is.
Bug_backup_plaintext(keyed) == IF Exists(snapshot) THEN snapshot ELSE backup

\* A bug: the backup is made once, and later only sealed.
Bug_backup_once(keyed) ==
  IF Exists(backup) THEN Written(backup.holds, keyed \/ backup.form = "sealed")
  ELSE IF Exists(snapshot)
       THEN Written(snapshot.holds, keyed \/ snapshot.form = "sealed")
       ELSE backup

\* atomic_write_with_backup: the old snapshot, sealed if there is a key.
Replaced(keyed) ==
  IF Exists(snapshot)
  THEN Written(snapshot.holds, keyed \/ snapshot.form = "sealed") ELSE backup

\* The files of a write in the order of persist_snapshot.
Order == <<"nodes", "tasks", "backup", "snapshot", "grants", "approvals", "audit">>

WriteFile(p) ==
  LET step == proc[p].step
      new == Added(proc[p].store, proc[p].change)
      keyed == proc[p].keyed
  IN /\ proc[p].phase = "writing"
     /\ step \in 1..7
     /\ proc' = [proc EXCEPT ![p] = Writing(@, @.change, step + 1)]
     /\ \/ /\ Order[step] \in Parts
           /\ table' = [table EXCEPT ![Order[step]] =
                          Written(new[Order[step]], keyed)]
           /\ UNCHANGED <<snapshot, backup>>
        \/ /\ Order[step] = "backup"
           /\ backup' = Replaced(keyed)
           /\ UNCHANGED <<table, snapshot>>
        \/ /\ Order[step] = "snapshot"
           /\ snapshot' = Written(new, keyed)
           /\ UNCHANGED <<table, backup>>
     /\ UNCHANGED <<locked, faults, acknowledged, sealedOnce>>

\* All files are written: 2xx.
Answer(p) ==
  /\ proc[p].phase = "writing"
  /\ proc[p].step = 8
  /\ proc' = [proc EXCEPT ![p] = Serving(@, Added(@.store, @.change))]
  /\ acknowledged' = acknowledged \cup {proc[p].change}
  /\ sealedOnce' = (sealedOnce \/ proc[p].keyed)
  /\ UNCHANGED <<locked, files, faults>>

\* persist_or_rollback on an error: *store = before, and 503.
WriteFails(p) ==
  /\ proc[p].phase = "writing"
  /\ proc[p].step < 8
  /\ faults < MaxFaults
  /\ faults' = faults + 1
  /\ proc' = [proc EXCEPT ![p] = Serving(@, @.store)]
  /\ UNCHANGED <<locked, files, acknowledged, sealedOnce>>

-----------------------------------------------------------------------------
\* SIGTERM or SIGKILL at any moment: no handler removes store.lock, and the
\* accept loop never ends, so this is how every process that serves ends.
Kill(p) ==
  /\ proc[p].phase # "down"
  /\ faults < MaxFaults
  /\ faults' = faults + 1
  /\ proc' = [proc EXCEPT ![p] = Down]
  /\ UNCHANGED <<locked, files, acknowledged, sealedOnce>>

\* Someone removes the lock, having made sure that no process is left.
ClearLock ==
  /\ OperatorClears
  /\ locked
  /\ \A p \in Processes : proc[p].phase = "down"
  /\ locked' = FALSE
  /\ UNCHANGED <<files, proc, faults, acknowledged, sealedOnce>>

ProcessStep(p) == Load(p) \/ StartRefused(p) \/ WriteFile(p) \/ Answer(p)

Next ==
  \/ \E p \in Processes :
       \/ \E keyed, strict \in BOOLEAN : Start(p, keyed, strict)
       \/ LockWriteFails(p)
       \/ ProcessStep(p)
       \/ \E c \in Changes : Begin(p, c)
       \/ WriteFails(p)
       \/ Kill(p)
  \/ ClearLock

Spec == Init /\ [][Next]_vars

\* Processes run; the service manager starts them again and again, sooner or
\* later with a key and without demanding that every file is sealed already;
\* and where someone clears the lock, that is done.
Fairness ==
  /\ \A p \in Processes : WF_vars(ProcessStep(p))
  /\ SF_vars(\E p \in Processes : Start(p, TRUE, FALSE))
  /\ WF_vars(ClearLock)

FairSpec == Spec /\ Fairness

-----------------------------------------------------------------------------
\* Two Control Planes never have the directory at one time, whatever becomes
\* of the lock when one is killed, refuses to start or cannot write it
\* ("prevents two Control Plane processes from concurrently mutating the
\* snapshot", production-readiness.md).
OneOwner ==
  \A p, q \in Processes :
    proc[p].phase # "down" /\ proc[q].phase # "down" => p = q

\* What was answered with 2xx is in what the next start loads, in every part
\* of the store, wherever later writes failed or processes were killed.
AcknowledgedSurvives ==
  \A part \in Parts : acknowledged \subseteq load_store[part]

\* The changes of which a store has some parts only.
Torn(store) ==
  {c \in Changes : \E p, q \in Parts : c \in store[p] /\ c \notin store[q]}

\* Once there is a snapshot no kill and no failed write leaves half a change:
\* a change is only torn where there was no snapshot yet.
NoNewTears == [][Exists(snapshot) => Torn(load_store') \subseteq Torn(load_store)]_vars

\* The backup is good for going back by one change: no sequence of failed
\* writes, kills and retries lets it fall behind by two.
BackupLagsByOne ==
  Exists(backup) =>
    \A c, d \in acknowledged \ backup.holds["audit"] : c = d

\* One write under a key seals the directory for good: whatever mixture of
\* sealed and plain files failures and kills left before or leave after, a
\* start that demands encryption is accepted from then on.
StaysSealed == sealedOnce => "plain" \notin Forms

\* The inductive invariant behind OneOwner, AcknowledgedSurvives and
\* StaysSealed: who owns the lock, what the owner has in memory, and what of
\* the write under way is on disk already.
Owner(p) == proc[p].phase # "down"
Up(p) == proc[p].phase \in {"serving", "writing"}

MemoryHolds ==
  \A p \in Processes : Up(p) =>
    \A part \in Parts : acknowledged \subseteq proc[p].store[part]

\* From the fifth file on, the snapshot is what memory will be.
WriteProgress ==
  \A p \in Processes :
    /\ proc[p].phase = "writing" <=> proc[p].step # 0
    /\ proc[p].step > 4 =>
         /\ Exists(snapshot)
         /\ snapshot.holds = Added(proc[p].store, proc[p].change)

SealProgress ==
  \A p \in Processes : Up(p) =>
    /\ sealedOnce => proc[p].keyed
    /\ proc[p].keyed =>
         /\ \A i \in 1..7 : i < proc[p].step /\ Order[i] \in Parts =>
              table[Order[i]].form # "plain"
         /\ proc[p].step > 3 => backup.form # "plain"
         /\ proc[p].step > 4 => snapshot.form # "plain"

SnapshotBefore ==
  acknowledged # {} \/ sealedOnce \/ Exists(backup) => Exists(snapshot)

IInv ==
  /\ TypeOK
  /\ OneOwner
  /\ (\E p \in Processes : Owner(p)) => locked
  /\ SnapshotBefore
  /\ MemoryHolds
  /\ AcknowledgedSurvives
  /\ WriteProgress
  /\ SealProgress
  /\ StaysSealed

Served == \E p \in Processes : Up(p)

\* A directory that was served is served again: no mixture of files that
\* failures, kills and a change of the key setting leave behind, and no lock,
\* keeps every later start out (lock "is released on shutdown",
\* store_lock_prevents_concurrent_snapshot_writers; Restart=on-failure).
ServesAgain == <>Served => []<>Served
=============================================================================
