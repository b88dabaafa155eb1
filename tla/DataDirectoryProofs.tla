------------------------ MODULE DataDirectoryProofs ------------------------
(* What TLAPS proves of the data directory, for any number of processes,    *)
(* changes and faults.                                                      *)
EXTENDS DataDirectory, TLAPS

\* A process that owns the directory is the only one that is not down, and
\* while there is no lock all are down.
LEMMA Alone ==
  ASSUME IInv
  PROVE  /\ \A p, q \in Processes : Owner(p) /\ q # p => proc[q].phase = "down"
         /\ ~locked => \A p \in Processes : proc[p].phase = "down"
BY DEF IInv, OneOwner, Owner

\* In the initial state nothing is running and nothing is written.
LEMMA InitIInv == Init => IInv
<1> SUFFICES ASSUME Init PROVE IInv
  OBVIOUS
<1> USE ConstantsAreTyped DEF Init
<1>1. Down \in Process /\ Down.phase = "down" /\ Down.change = None /\ Down.step = 0
  BY DEF Down, Process, StoreType, EmptyStore
<1>2. TypeOK
  <2>1. /\ NoFile(EmptyStore) \in File(StoreType)
        /\ NoFile({}) \in File(SUBSET Changes)
    BY DEF File, NoFile, StoreType, EmptyStore
  <2>2. faults \in 0..MaxFaults
    OBVIOUS
  <2> QED
    BY <1>1, <2>1, <2>2 DEF TypeOK
<1>3. \A p \in Processes : proc[p].phase = "down"
  BY <1>1
<1>4. OneOwner /\ ~(\E p \in Processes : Owner(p)) /\ MemoryHolds
        /\ WriteProgress /\ SealProgress
  BY <1>1, <1>3 DEF OneOwner, Owner, Up, MemoryHolds, WriteProgress, SealProgress
<1>5. SnapshotBefore /\ AcknowledgedSurvives /\ StaysSealed
  BY DEF SnapshotBefore, AcknowledgedSurvives, StaysSealed, NoFile, Exists, Forms,
         load_store, load_legacy_store
<1> QED
  BY <1>2, <1>4, <1>5 DEF IInv

\* What is on disk, and the promises about it, do not change while neither a
\* file nor what was answered does.
LEMMA DiskUnchanged ==
  ASSUME IInv, UNCHANGED <<table, snapshot, backup, acknowledged, sealedOnce>>
  PROVE  SnapshotBefore' /\ AcknowledgedSurvives' /\ StaysSealed'
BY DEF IInv, SnapshotBefore, AcknowledgedSurvives, StaysSealed, load_store,
       load_legacy_store, Forms

\* A process goes down, and the lock stays or goes with it.
LEMMA GoesDown ==
  ASSUME IInv, NEW p \in Processes, Owner(p),
         proc' = [proc EXCEPT ![p] = Down],
         locked' \in {FALSE, locked},
         faults' \in 0..MaxFaults,
         UNCHANGED <<table, snapshot, backup, acknowledged, sealedOnce>>
  PROVE  IInv'
<1> USE ConstantsAreTyped
<1>1. Down \in Process /\ Down.phase = "down" /\ Down.change = None /\ Down.step = 0
  BY DEF Down, Process, StoreType, EmptyStore
<1>2. \A q \in Processes : proc'[q].phase = "down" /\ proc'[q].step = 0
  BY <1>1, Alone DEF IInv, TypeOK, WriteProgress
<1>3. TypeOK'
  BY <1>1 DEF IInv, TypeOK
<1>4. /\ OneOwner' /\ ~(\E q \in Processes : Owner(q)') /\ MemoryHolds'
      /\ WriteProgress' /\ SealProgress'
  BY <1>2 DEF OneOwner, Owner, Up, MemoryHolds, WriteProgress, SealProgress
<1>5. SnapshotBefore' /\ AcknowledgedSurvives' /\ StaysSealed'
  BY DiskUnchanged
<1> QED
  BY <1>3, <1>4, <1>5 DEF IInv

\* The lock is made or removed while all processes are down.
LEMMA LockChanges ==
  ASSUME IInv, \A p \in Processes : proc[p].phase = "down",
         locked' \in BOOLEAN, faults' \in 0..MaxFaults,
         UNCHANGED <<table, snapshot, backup, proc, acknowledged, sealedOnce>>
  PROVE  IInv'
<1>1. TypeOK'
  BY DEF IInv, TypeOK
<1>2. /\ OneOwner' /\ ~(\E q \in Processes : Owner(q)') /\ MemoryHolds'
      /\ WriteProgress' /\ SealProgress'
  BY DEF IInv, OneOwner, Owner, Up, MemoryHolds, WriteProgress, SealProgress
<1>3. SnapshotBefore' /\ AcknowledgedSurvives' /\ StaysSealed'
  BY DiskUnchanged
<1> QED
  BY <1>1, <1>2, <1>3 DEF IInv

\* A process takes the lock and has nothing yet.
LEMMA StartKeeps ==
  ASSUME IInv, NEW p \in Processes, NEW keyed \in BOOLEAN, NEW strict \in BOOLEAN,
         Start(p, keyed, strict)
  PROVE  IInv'
<1> USE ConstantsAreTyped DEF Start, files
<1> DEFINE started == Starting(keyed, strict)
<1>1. /\ started \in Process /\ started.phase = "starting"
      /\ started.change = None /\ started.step = 0
  <2>1. EmptyStore \in StoreType
    BY DEF EmptyStore, StoreType
  <2> QED
    BY <2>1 DEF Starting, Process
<1> HIDE DEF started
<1>2. /\ proc'[p] = started
      /\ \A q \in Processes : q # p => proc'[q] = proc[q] /\ proc[q].phase = "down"
  BY Alone DEF IInv, TypeOK, LockFree, started
<1>3. TypeOK'
  BY <1>1, <1>2 DEF IInv, TypeOK
<1>4. OneOwner' /\ MemoryHolds' /\ WriteProgress' /\ SealProgress'
  BY <1>1, <1>2 DEF IInv, OneOwner, Owner, Up, MemoryHolds, WriteProgress,
                    SealProgress
<1>5. SnapshotBefore' /\ AcknowledgedSurvives' /\ StaysSealed'
  BY DiskUnchanged
<1> QED
  BY <1>3, <1>4, <1>5 DEF IInv

\* A process takes what is on disk, which holds what was acknowledged, into
\* memory; with a sealed directory it has a key.
LEMMA LoadKeeps ==
  ASSUME IInv, NEW p \in Processes, Load(p)
  PROVE  IInv'
<1> USE ConstantsAreTyped DEF Load, files
<1>1. load_store \in StoreType
  <2>1. CASE Exists(snapshot)
    BY <2>1 DEF IInv, TypeOK, File, load_store
  <2>2. CASE ~Exists(snapshot)
    <3>1. \A part \in Parts : table[part].holds \in SUBSET Changes
      BY DEF IInv, TypeOK, File
    <3> QED
      BY <2>2, <3>1 DEF load_store, load_legacy_store, StoreType
  <2> QED
    BY <2>1, <2>2
<1> DEFINE loaded == Serving(proc[p], load_store)
<1>2. /\ loaded \in Process /\ loaded.phase = "serving" /\ loaded.change = None
      /\ loaded.step = 0 /\ loaded.store = load_store
      /\ loaded.keyed = proc[p].keyed
  <2>1. proc[p] \in Process
    BY DEF IInv, TypeOK
  <2> QED
    BY <1>1, <2>1 DEF Serving, Process
<1> HIDE DEF loaded
<1>3. /\ proc'[p] = loaded
      /\ \A q \in Processes : q # p => proc'[q] = proc[q] /\ proc[q].phase = "down"
  BY Alone DEF IInv, TypeOK, Owner, loaded
<1>4. TypeOK'
  BY <1>2, <1>3 DEF IInv, TypeOK, loaded
<1>5. OneOwner' /\ locked'
  BY <1>3 DEF IInv, OneOwner, Owner
<1>6. MemoryHolds' /\ WriteProgress'
  BY <1>2, <1>3 DEF IInv, MemoryHolds, AcknowledgedSurvives, WriteProgress, Up
<1>7. sealedOnce => proc[p].keyed
  <2> SUFFICES ASSUME sealedOnce PROVE proc[p].keyed
    OBVIOUS
  <2>1. snapshot.form = "sealed"
    BY DEF IInv, SnapshotBefore, StaysSealed, Forms, Exists, TypeOK, File
  <2> QED
    BY <2>1 DEF validate_store_startup, Forms
<1>8. SealProgress'
  BY <1>2, <1>3, <1>7 DEF SealProgress, Up
<1>9. SnapshotBefore' /\ AcknowledgedSurvives' /\ StaysSealed'
  BY DiskUnchanged
<1> QED
  BY <1>4, <1>5, <1>6, <1>8, <1>9 DEF IInv

\* The owner moves on: nobody else is disturbed.
LEMMA OwnerMoves ==
  ASSUME IInv, NEW p \in Processes, Owner(p), NEW next \in Process,
         next.phase \in {"serving", "writing"},
         next.phase = "writing" <=> next.change # None,
         next.phase = "writing" <=> next.step # 0,
         proc' = [proc EXCEPT ![p] = next], UNCHANGED locked
  PROVE  /\ proc'[p] = next
         /\ \A q \in Processes : q # p =>
              proc'[q].phase = "down" /\ proc'[q].step = 0
         /\ proc' \in [Processes -> Process]
         /\ \A q \in Processes : proc'[q].phase = "writing" <=> proc'[q].change # None
         /\ OneOwner'
         /\ locked'
<1>1. /\ proc'[p] = next
      /\ \A q \in Processes : q # p => proc'[q] = proc[q]
      /\ proc' \in [Processes -> Process]
  BY DEF IInv, TypeOK
<1>2. \A q \in Processes : q # p => proc[q].phase = "down" /\ proc[q].step = 0
  BY Alone DEF IInv, WriteProgress
<1>3. \A q \in Processes : proc'[q].phase = "writing" <=> proc'[q].change # None
  BY <1>1 DEF IInv, TypeOK
<1>4. OneOwner' /\ locked'
  BY <1>1, <1>2 DEF IInv, OneOwner, Owner
<1> QED
  BY <1>1, <1>2, <1>3, <1>4

\* A write begins, or fails and is rolled back in memory.
LEMMA BeginKeeps ==
  ASSUME IInv, NEW p \in Processes, NEW c \in Changes, Begin(p, c)
  PROVE  IInv'
<1> USE ConstantsAreTyped DEF Begin, files
<1> DEFINE next == Writing(proc[p], c, 1)
<1>1. /\ next \in Process /\ next.phase = "writing" /\ next.change = c
      /\ next.step = 1 /\ next.store = proc[p].store /\ next.keyed = proc[p].keyed
  <2>1. proc[p] \in Process
    BY DEF IInv, TypeOK
  <2> QED
    BY <2>1 DEF Writing, Process
<1>2. proc' = [proc EXCEPT ![p] = next] /\ Owner(p) /\ Up(p)
  BY DEF Owner, Up, next
<1> HIDE DEF next
<1>3. /\ proc'[p] = next
      /\ \A q \in Processes : q # p =>
           proc'[q].phase = "down" /\ proc'[q].step = 0
      /\ proc' \in [Processes -> Process]
      /\ \A q \in Processes : proc'[q].phase = "writing" <=> proc'[q].change # None
      /\ OneOwner' /\ locked'
  <2>1. /\ next.phase \in {"serving", "writing"}
        /\ next.phase = "writing" <=> next.change # None
        /\ next.phase = "writing" <=> next.step # 0
    BY <1>1
  <2>2. UNCHANGED locked
    OBVIOUS
  <2> QED
    BY <1>1, <1>2, <2>1, <2>2, OwnerMoves
<1>4. TypeOK'
  BY <1>3 DEF IInv, TypeOK
<1>5. MemoryHolds' /\ WriteProgress'
  BY <1>1, <1>2, <1>3 DEF IInv, MemoryHolds, WriteProgress, Up
<1>6. SealProgress'
  <2> SUFFICES ASSUME next.keyed
               PROVE  \A i \in 1..7 : i < 1 /\ Order[i] \in Parts =>
                        table[Order[i]].form # "plain"
    BY <1>1, <1>2, <1>3 DEF IInv, SealProgress, Up
  <2> QED
    OBVIOUS
<1>7. SnapshotBefore' /\ AcknowledgedSurvives' /\ StaysSealed'
  BY DiskUnchanged
<1> QED
  BY <1>3, <1>4, <1>5, <1>6, <1>7 DEF IInv

LEMMA WriteFailsKeeps ==
  ASSUME IInv, NEW p \in Processes, WriteFails(p)
  PROVE  IInv'
<1> USE ConstantsAreTyped DEF WriteFails, files
<1> DEFINE next == Serving(proc[p], proc[p].store)
<1>1. /\ next \in Process /\ next.phase = "serving" /\ next.change = None
      /\ next.step = 0 /\ next.store = proc[p].store /\ next.keyed = proc[p].keyed
  <2>1. proc[p] \in Process
    BY DEF IInv, TypeOK
  <2> QED
    BY <2>1 DEF Serving, Process
<1>2. proc' = [proc EXCEPT ![p] = next] /\ Owner(p) /\ Up(p)
  BY DEF Owner, Up, next
<1> HIDE DEF next
<1>3. /\ proc'[p] = next
      /\ \A q \in Processes : q # p =>
           proc'[q].phase = "down" /\ proc'[q].step = 0
      /\ proc' \in [Processes -> Process]
      /\ \A q \in Processes : proc'[q].phase = "writing" <=> proc'[q].change # None
      /\ OneOwner' /\ locked'
  <2>1. /\ next.phase \in {"serving", "writing"}
        /\ next.phase = "writing" <=> next.change # None
        /\ next.phase = "writing" <=> next.step # 0
    BY <1>1
  <2>2. UNCHANGED locked
    OBVIOUS
  <2> QED
    BY <1>1, <1>2, <2>1, <2>2, OwnerMoves
<1>4. TypeOK'
  <2>1. faults' \in 0..MaxFaults
    BY DEF IInv, TypeOK
  <2> QED
    BY <1>3, <2>1 DEF IInv, TypeOK
<1>5. MemoryHolds' /\ WriteProgress'
  BY <1>1, <1>2, <1>3 DEF IInv, MemoryHolds, WriteProgress, Up
<1>6. SealProgress'
  BY <1>1, <1>2, <1>3 DEF IInv, SealProgress, Up
<1>7. SnapshotBefore' /\ AcknowledgedSurvives' /\ StaysSealed'
  BY DiskUnchanged
<1> QED
  BY <1>3, <1>4, <1>5, <1>6, <1>7 DEF IInv

\* All files are written: the snapshot is what memory becomes, and under a
\* key no file has been left plain.
LEMMA AnswerKeeps ==
  ASSUME IInv, NEW p \in Processes, Answer(p)
  PROVE  IInv'
<1> USE ConstantsAreTyped DEF Answer, files
<1> DEFINE new == Added(proc[p].store, proc[p].change)
           next == Serving(proc[p], new)
<1>1. proc[p] \in Process /\ proc[p].change \in Changes /\ proc[p].step = 8
  BY DEF IInv, TypeOK, Process
<1>2. /\ new \in StoreType
      /\ \A part \in Parts : new[part] = proc[p].store[part] \cup {proc[p].change}
  BY <1>1 DEF Added, StoreType, Process
<1>3. /\ next \in Process /\ next.phase = "serving" /\ next.change = None
      /\ next.step = 0 /\ next.store = new /\ next.keyed = proc[p].keyed
  BY <1>1, <1>2 DEF Serving, Process
<1>4. proc' = [proc EXCEPT ![p] = next] /\ Owner(p) /\ Up(p)
  BY DEF Owner, Up
<1> HIDE DEF next
<1>5. /\ proc'[p] = next
      /\ \A q \in Processes : q # p =>
           proc'[q].phase = "down" /\ proc'[q].step = 0
      /\ proc' \in [Processes -> Process]
      /\ \A q \in Processes : proc'[q].phase = "writing" <=> proc'[q].change # None
      /\ OneOwner' /\ locked'
  BY <1>3, <1>4, OwnerMoves
<1>6. Exists(snapshot) /\ snapshot.holds = new
  BY <1>1 DEF IInv, WriteProgress
<1>7. TypeOK'
  <2>1. sealedOnce' \in BOOLEAN
    BY Zenon DEF IInv, TypeOK
  <2>2. acknowledged' \in SUBSET Changes
    BY <1>1 DEF IInv, TypeOK
  <2> QED
    BY <1>5, <2>1, <2>2 DEF IInv, TypeOK
<1>8. \A part \in Parts : acknowledged' \subseteq new[part]
  BY <1>2, <1>4 DEF IInv, MemoryHolds
<1>9. /\ MemoryHolds' /\ WriteProgress' /\ AcknowledgedSurvives'
      /\ SnapshotBefore'
  BY <1>3, <1>5, <1>6, <1>8 DEF MemoryHolds, WriteProgress, Up,
     AcknowledgedSurvives, SnapshotBefore, load_store, Exists
<1>10. proc[p].keyed => "plain" \notin Forms
  <2> SUFFICES ASSUME proc[p].keyed PROVE "plain" \notin Forms
    OBVIOUS
  <2>1. \A i \in 1..7 : Order[i] \in Parts => table[Order[i]].form # "plain"
    BY <1>1, <1>4 DEF IInv, SealProgress
  <2>2. backup.form # "plain" /\ snapshot.form # "plain"
    BY <1>1, <1>4 DEF IInv, SealProgress
  <2>3. \A part \in Parts : \E i \in 1..7 : Order[i] = part
    BY DEF Parts, Order
  <2> QED
    BY <2>1, <2>2, <2>3 DEF Forms
<1>11. SealProgress' /\ StaysSealed'
  BY <1>1, <1>3, <1>4, <1>5, <1>10 DEF IInv, SealProgress, StaysSealed, Up, Forms,
     Process
<1> QED
  BY <1>5, <1>7, <1>9, <1>11 DEF IInv

\* Which step of a write replaces which file.
LEMMA OrderOfFiles ==
  /\ Order[3] = "backup" /\ Order[4] = "snapshot"
  /\ \A i \in 1..7 : i # 3 /\ i # 4 => Order[i] \in Parts
  /\ "backup" \notin Parts /\ "snapshot" \notin Parts
BY DEF Order, Parts

\* One more file is written.  What was acknowledged is in the snapshot that is
\* there, or in the new one; with no snapshot nothing was acknowledged yet.
LEMMA WriteFileKeeps ==
  ASSUME IInv, NEW p \in Processes, WriteFile(p)
  PROVE  IInv'
<1> USE ConstantsAreTyped DEF WriteFile, files
<1> DEFINE step == proc[p].step
           keyed == proc[p].keyed
           new == Added(proc[p].store, proc[p].change)
           next == Writing(proc[p], proc[p].change, step + 1)
<1>1. /\ proc[p] \in Process /\ proc[p].phase = "writing"
      /\ proc[p].change \in Changes /\ step \in 1..7 /\ keyed \in BOOLEAN
  BY DEF IInv, TypeOK, Process
<1>2. /\ new \in StoreType
      /\ \A part \in Parts : new[part] = proc[p].store[part] \cup {proc[p].change}
  BY <1>1 DEF Added, StoreType, Process
<1>3. /\ next \in Process /\ next.phase = "writing" /\ next.change = proc[p].change
      /\ next.step = step + 1 /\ next.store = proc[p].store /\ next.keyed = keyed
  BY <1>1 DEF Writing, Process
<1>4. proc' = [proc EXCEPT ![p] = next] /\ Owner(p) /\ Up(p)
  BY DEF Owner, Up
<1> HIDE DEF next
<1>5. /\ proc'[p] = next
      /\ \A q \in Processes : q # p =>
           proc'[q].phase = "down" /\ proc'[q].step = 0
      /\ proc' \in [Processes -> Process]
      /\ \A q \in Processes : proc'[q].phase = "writing" <=> proc'[q].change # None
      /\ OneOwner' /\ locked'
  <2>1. /\ next.phase \in {"serving", "writing"}
        /\ next.phase = "writing" <=> next.change # None
        /\ next.phase = "writing" <=> next.step # 0
    BY <1>1, <1>3
  <2>2. UNCHANGED locked
    OBVIOUS
  <2> QED
    BY <1>3, <1>4, <2>1, <2>2, OwnerMoves
<1>6. \A part \in Parts : acknowledged' \subseteq new[part]
  BY <1>2, <1>4 DEF IInv, MemoryHolds
<1>7. MemoryHolds'
  BY <1>3, <1>4, <1>5 DEF IInv, MemoryHolds, Up
<1>8. sealedOnce => keyed
  BY <1>4 DEF IInv, SealProgress
<1>9. CASE Order[step] \in Parts
  <2>1. /\ step # 3 /\ step # 4
        /\ table' = [table EXCEPT ![Order[step]] = Written(new[Order[step]], keyed)]
        /\ UNCHANGED <<snapshot, backup, acknowledged, sealedOnce, faults>>
    BY <1>9, OrderOfFiles
  <2>2. Written(new[Order[step]], keyed) \in File(SUBSET Changes)
    BY <1>2, <1>9 DEF Written, File, StoreType
  <2>3. TypeOK'
    BY <1>5, <2>1, <2>2 DEF IInv, TypeOK
  <2>4. SnapshotBefore' /\ AcknowledgedSurvives'
    BY <2>1 DEF IInv, SnapshotBefore, AcknowledgedSurvives, Exists, load_store,
                load_legacy_store
  <2>5. WriteProgress'
    BY <1>1, <1>3, <1>4, <1>5, <2>1 DEF IInv, WriteProgress, Exists
  <2>6. keyed => \A part \in Parts :
                   table'[part].form \in {"sealed", table[part].form}
    BY <1>9, <2>1 DEF IInv, TypeOK, Written
  <2>7. keyed => table'[Order[step]].form = "sealed"
    BY <1>9, <2>1 DEF IInv, TypeOK, Written
  <2>8. ASSUME keyed
        PROVE  /\ \A i \in 1..7 : i < step + 1 /\ Order[i] \in Parts =>
                     table'[Order[i]].form # "plain"
               /\ step + 1 > 3 => backup'.form # "plain"
               /\ step + 1 > 4 => snapshot'.form # "plain"
    <3>1. /\ \A i \in 1..7 : i < step /\ Order[i] \in Parts =>
                table[Order[i]].form # "plain"
          /\ step > 3 => backup.form # "plain"
          /\ step > 4 => snapshot.form # "plain"
      BY <1>4, <2>8 DEF IInv, SealProgress
    <3>2. \A i \in 1..7 : i < step + 1 => i < step \/ i = step
      BY <1>1
    <3>3. ASSUME NEW i \in 1..7, i < step + 1, Order[i] \in Parts
          PROVE  table'[Order[i]].form # "plain"
      <4>1. table'[Order[i]].form \in {"sealed", table[Order[i]].form}
        BY <2>6, <2>8, <3>3
      <4>2. CASE i = step
        BY <2>7, <2>8, <4>2
      <4>3. CASE i < step
        BY <3>1, <3>3, <4>1, <4>3
      <4> QED
        BY <3>2, <3>3, <4>2, <4>3
    <3>4. (step + 1 > 3 => step > 3) /\ (step + 1 > 4 => step > 4)
      BY <1>1, <2>1
    <3> QED
      BY <2>1, <3>1, <3>3, <3>4
  <2>9. SealProgress'
    <3> SUFFICES ASSUME NEW q \in Processes, Up(q)'
                 PROVE  /\ sealedOnce' => proc'[q].keyed
                        /\ proc'[q].keyed =>
                             /\ \A i \in 1..7 : i < proc'[q].step /\ Order[i] \in Parts =>
                                  table'[Order[i]].form # "plain"
                             /\ proc'[q].step > 3 => backup'.form # "plain"
                             /\ proc'[q].step > 4 => snapshot'.form # "plain"
      BY DEF SealProgress
    <3>1. q = p
      BY <1>5 DEF Up
    <3>2. proc'[q].keyed = keyed /\ proc'[q].step = step + 1
      BY <1>3, <1>5, <3>1
    <3>3. sealedOnce' => proc'[q].keyed
      <4> SUFFICES ASSUME sealedOnce' PROVE proc'[q].keyed
        OBVIOUS
      <4>1. sealedOnce
        BY <2>1
      <4>2. keyed = TRUE
        BY <1>1, <1>8, <4>1
      <4> QED
        BY <3>2, <4>2
    <3>4. ASSUME proc'[q].keyed
          PROVE  /\ \A i \in 1..7 : i < proc'[q].step /\ Order[i] \in Parts =>
                      table'[Order[i]].form # "plain"
                 /\ proc'[q].step > 3 => backup'.form # "plain"
                 /\ proc'[q].step > 4 => snapshot'.form # "plain"
      <4>1. keyed
        BY Zenon, <3>2, <3>4
      <4> QED
        BY <2>8, <3>2, <4>1
    <3> QED
      BY <3>3, <3>4
  <2>10. StaysSealed'
    <3> SUFFICES ASSUME sealedOnce' PROVE "plain" \notin Forms'
      BY DEF StaysSealed
    <3>1. "plain" \notin Forms /\ keyed
      BY <1>8, <2>1 DEF IInv, StaysSealed
    <3>2. /\ snapshot'.form # "plain" /\ backup'.form # "plain"
          /\ \A part \in Parts : table[part].form # "plain"
      BY <2>1, <3>1 DEF Forms
    <3>3. \A part \in Parts : table'[part].form # "plain"
      BY <2>6, <3>1, <3>2
    <3> QED
      BY <3>2, <3>3 DEF Forms
  <2> QED
    BY <1>5, <1>7, <2>3, <2>4, <2>5, <2>9, <2>10 DEF IInv
<1>10. CASE Order[step] = "backup"
  <2>1. /\ step = 3 /\ backup' = Replaced(keyed)
        /\ UNCHANGED <<table, snapshot, acknowledged, sealedOnce, faults>>
    BY <1>1, <1>10, OrderOfFiles
  <2>2. backup' \in File(StoreType)
    BY <2>1 DEF IInv, TypeOK, Replaced, Written, File
  <2>3. TypeOK'
    BY <1>5, <2>1, <2>2 DEF IInv, TypeOK
  <2>4. SnapshotBefore' /\ AcknowledgedSurvives'
    <3>1. load_store' = load_store
      BY <2>1 DEF load_store, load_legacy_store, Exists
    <3>2. Exists(backup)' => Exists(backup) \/ Exists(snapshot)
      BY <2>1 DEF Replaced, Exists
    <3> QED
      BY <2>1, <3>1, <3>2 DEF IInv, SnapshotBefore, AcknowledgedSurvives, Exists
  <2>5. WriteProgress'
    BY <1>1, <1>3, <1>5, <2>1 DEF WriteProgress
  <2>6. keyed => backup'.form # "plain"
    BY <2>1 DEF IInv, SnapshotBefore, Exists, Replaced, Written
  <2>7. SealProgress'
    <3>1. \A i \in 1..7 : i < 4 /\ Order[i] \in Parts => i < 3
      BY OrderOfFiles
    <3>2. keyed => \A i \in 1..7 : i < 3 /\ Order[i] \in Parts =>
                      table[Order[i]].form # "plain"
      BY <1>4, <2>1 DEF IInv, SealProgress
    <3> QED
      BY <1>3, <1>5, <1>8, <2>1, <2>6, <3>1, <3>2 DEF SealProgress, Up
  <2>8. StaysSealed'
    BY <1>8, <2>1, <2>6 DEF IInv, StaysSealed, Forms
  <2> QED
    BY <1>5, <1>7, <2>3, <2>4, <2>5, <2>7, <2>8 DEF IInv
<1>11. CASE Order[step] = "snapshot"
  <2>1. /\ step = 4 /\ snapshot' = Written(new, keyed)
        /\ UNCHANGED <<table, backup, acknowledged, sealedOnce, faults>>
    BY <1>1, <1>11, OrderOfFiles
  <2>2. /\ snapshot' \in File(StoreType) /\ snapshot'.holds = new
        /\ snapshot'.form # "absent" /\ (keyed => snapshot'.form # "plain")
    BY <1>2, <2>1 DEF Written, File
  <2>3. TypeOK'
    BY <1>5, <2>1, <2>2 DEF IInv, TypeOK
  <2>4. SnapshotBefore' /\ AcknowledgedSurvives'
    BY <1>6, <2>2 DEF SnapshotBefore, AcknowledgedSurvives, Exists, load_store
  <2>5. WriteProgress'
    BY <1>1, <1>3, <1>5, <2>1, <2>2 DEF WriteProgress, Exists
  <2>6. SealProgress'
    <3>1. \A i \in 1..7 : i < 5 /\ Order[i] \in Parts => i < 4
      BY OrderOfFiles
    <3>2. keyed => /\ \A i \in 1..7 : i < 4 /\ Order[i] \in Parts =>
                         table[Order[i]].form # "plain"
                   /\ backup.form # "plain"
      BY <1>4, <2>1 DEF IInv, SealProgress
    <3> QED
      BY <1>3, <1>5, <1>8, <2>1, <2>2, <3>1, <3>2 DEF SealProgress, Up
  <2>7. StaysSealed'
    BY <1>8, <2>1, <2>2 DEF IInv, StaysSealed, Forms
  <2> QED
    BY <1>5, <1>7, <2>3, <2>4, <2>5, <2>6, <2>7 DEF IInv
<1> QED
  BY <1>1, <1>9, <1>10, <1>11

\* Every step keeps the invariant.
LEMMA StepKeeps == IInv /\ [Next]_vars => IInv'
<1> SUFFICES ASSUME IInv, [Next]_vars PROVE IInv'
  OBVIOUS
<1> USE ConstantsAreTyped
<1>1. CASE UNCHANGED vars
  <2>1. TypeOK' /\ OneOwner' /\ MemoryHolds' /\ WriteProgress' /\ SealProgress'
    BY <1>1 DEF IInv, vars, TypeOK, OneOwner, MemoryHolds, WriteProgress,
                SealProgress, Up, Exists
  <2>2. (\E q \in Processes : Owner(q)') => locked'
    BY <1>1 DEF IInv, vars, Owner
  <2>3. SnapshotBefore' /\ AcknowledgedSurvives' /\ StaysSealed'
    BY <1>1, DiskUnchanged DEF vars
  <2> QED
    BY <2>1, <2>2, <2>3 DEF IInv
<1>2. ASSUME NEW p \in Processes, NEW keyed \in BOOLEAN, NEW strict \in BOOLEAN,
             Start(p, keyed, strict)
      PROVE  IInv'
  BY <1>2, StartKeeps
<1>3. ASSUME NEW p \in Processes, LockWriteFails(p) PROVE IInv'
  <2>1. faults' \in 0..MaxFaults /\ locked' \in BOOLEAN
    BY <1>3 DEF LockWriteFails, IInv, TypeOK
  <2>2. \A q \in Processes : proc[q].phase = "down"
    BY <1>3, Alone DEF LockWriteFails, LockFree
  <2> QED
    BY <1>3, <2>1, <2>2, LockChanges DEF LockWriteFails, files
<1>4. ASSUME NEW p \in Processes, ProcessStep(p) PROVE IInv'
  <2>1. CASE StartRefused(p)
    <3>1. faults' \in 0..MaxFaults /\ Owner(p)
      BY <2>1 DEF StartRefused, IInv, TypeOK, Owner
    <3> QED
      BY <2>1, <3>1, GoesDown DEF StartRefused, files
  <2> QED
    BY <1>4, <2>1, LoadKeeps, WriteFileKeeps, AnswerKeeps DEF ProcessStep
<1>5. ASSUME NEW p \in Processes, NEW c \in Changes, Begin(p, c) PROVE IInv'
  BY <1>5, BeginKeeps
<1>6. ASSUME NEW p \in Processes, WriteFails(p) PROVE IInv'
  BY <1>6, WriteFailsKeeps
<1>7. ASSUME NEW p \in Processes, Kill(p) PROVE IInv'
  <2>1. faults' \in 0..MaxFaults /\ Owner(p)
    BY <1>7 DEF Kill, IInv, TypeOK, Owner
  <2> QED
    BY <1>7, <2>1, GoesDown DEF Kill, files
<1>8. CASE ClearLock
  BY <1>8, LockChanges DEF ClearLock, files, IInv, TypeOK
<1> QED
  BY <1>1, <1>2, <1>3, <1>4, <1>5, <1>6, <1>7, <1>8 DEF Next

-----------------------------------------------------------------------------
\* The data directory is typed, and what IInv says of it holds at all times.
LEMMA Invariant == Spec => []IInv
<1> QED
  BY InitIInv, StepKeeps, PTL DEF Spec

\* The processes, the files and what was acknowledged keep their types.
THEOREM DirectoryTypeCorrect == Spec => []TypeOK
<1>1. IInv => TypeOK
  BY DEF IInv
<1> QED
  BY <1>1, Invariant, PTL

\* Two processes never own the directory at one time, however many there are
\* (acquire_store_lock).
THEOREM DirectoryHasOneOwner == Spec => []OneOwner
<1>1. IInv => OneOwner
  BY DEF IInv
<1> QED
  BY <1>1, Invariant, PTL

\* Nothing that was answered with 2xx is ever missing from what a start would
\* load (persist_snapshot, load_store).
THEOREM NothingAcknowledgedIsLost == Spec => []AcknowledgedSurvives
<1>1. IInv => AcknowledgedSurvives
  BY DEF IInv
<1> QED
  BY <1>1, Invariant, PTL

\* One write answered by a process with a key leaves no plain file behind, and
\* none comes back (atomic_write, atomic_write_with_backup,
\* validate_store_startup).
THEOREM OneWriteSeals == Spec => []StaysSealed
<1>1. IInv => StaysSealed
  BY DEF IInv
<1> QED
  BY <1>1, Invariant, PTL

-----------------------------------------------------------------------------
(* The backup, and the changes of which half is kept                         *)

\* From the fourth file of a write on, the backup has all that was answered
\* before it.
BackupCaughtUp ==
  \A p \in Processes : proc[p].step > 3 /\ Exists(backup) =>
    acknowledged \subseteq backup.holds["audit"]

\* The change under way is new to every part of the store; and what is torn in
\* memory is torn on disk, once there is a snapshot.
TornOnDisk ==
  \A p \in Processes : Up(p) =>
    /\ proc[p].phase = "writing" =>
         \A part \in Parts : proc[p].change \notin proc[p].store[part]
    /\ Exists(snapshot) => Torn(proc[p].store) \subseteq Torn(snapshot.holds)

WriteInv == BackupCaughtUp /\ BackupLagsByOne /\ TornOnDisk

\* What a process does is its own: the others are down, at no file of a write.
LEMMA OthersAreDown ==
  ASSUME IInv, NEW p \in Processes, Owner(p) \/ ~locked,
         \A q \in Processes : q # p => proc'[q] = proc[q]
  PROVE  \A q \in Processes : q # p =>
           proc'[q].phase = "down" /\ proc'[q].step = 0
BY Alone DEF IInv, TypeOK, WriteProgress

\* A process that goes down or has yet to load is at no write.
LEMMA NotUpKeeps ==
  ASSUME IInv, WriteInv, NEW p \in Processes, Owner(p) \/ ~locked,
         \A q \in Processes : q # p => proc'[q] = proc[q],
         proc'[p].phase \in {"down", "starting"}, proc'[p].step = 0,
         UNCHANGED <<files, acknowledged>>
  PROVE  WriteInv'
<1>1. \A q \in Processes : proc'[q].phase \in {"down", "starting"} /\ proc'[q].step = 0
  BY OthersAreDown
<1> QED
  BY <1>1 DEF WriteInv, BackupCaughtUp, BackupLagsByOne, TornOnDisk, Up, files, Exists

\* A process with a store in memory goes on, and no file is replaced.
LEMMA InMemoryKeeps ==
  ASSUME IInv, WriteInv, NEW p \in Processes, Owner(p),
         \A q \in Processes : q # p => proc'[q] = proc[q],
         proc'[p].step \in 0..1,
         proc'[p].phase = "writing" => \A part \in Parts : proc'[p].change \notin proc'[p].store[part],
         Exists(snapshot) => Torn(proc'[p].store) \subseteq Torn(snapshot.holds),
         UNCHANGED <<files, acknowledged>>
  PROVE  WriteInv'
<1>1. \A q \in Processes : q # p => proc'[q].phase = "down" /\ proc'[q].step = 0
  BY OthersAreDown
<1>2. UNCHANGED <<snapshot, backup>>
  BY DEF files
<1>3. BackupCaughtUp' /\ BackupLagsByOne'
  BY <1>1, <1>2 DEF WriteInv, BackupCaughtUp, BackupLagsByOne, Exists
<1>4. TornOnDisk'
  BY <1>1, <1>2 DEF TornOnDisk, Up, Exists
<1> QED
  BY <1>3, <1>4 DEF WriteInv

\* A change that is in every part is not torn, and tears no other.
LEMMA AddedIsWhole ==
  ASSUME NEW store \in StoreType, NEW c \in Changes
  PROVE  /\ Torn(Added(store, c)) \subseteq Torn(store)
         /\ (\A part \in Parts : c \notin store[part]) =>
              Torn(store) \subseteq Torn(Added(store, c))
<1>1. \A part \in Parts : Added(store, c)[part] = store[part] \cup {c}
  BY DEF Added
<1> QED
  BY <1>1 DEF Torn

\* The next file of a write: the backup takes what the snapshot has, which is
\* all that was answered; the snapshot tears nothing.
LEMMA WriteFileKeepsBackup ==
  ASSUME IInv, WriteInv, NEW p \in Processes, WriteFile(p)
  PROVE  WriteInv'
<1> DEFINE next == Writing(proc[p], proc[p].change, proc[p].step + 1)
           new == Added(proc[p].store, proc[p].change)
<1>1. /\ proc[p] \in Process /\ proc[p].phase = "writing" /\ proc[p].step \in 1..7
      /\ proc[p].change \in Changes /\ proc[p].store \in StoreType
  BY DEF WriteFile, IInv, TypeOK, Process
<1>2. /\ proc'[p] = next
      /\ \A q \in Processes : q # p => proc'[q].phase = "down" /\ proc'[q].step = 0
  <2>1. /\ Owner(p) /\ proc'[p] = next
        /\ \A q \in Processes : q # p => proc'[q] = proc[q]
    BY <1>1 DEF WriteFile, Owner, IInv, TypeOK
  <2> QED
    BY <2>1, OthersAreDown
<1>3. /\ next.phase = "writing" /\ next.step = proc[p].step + 1
      /\ next.change = proc[p].change /\ next.store = proc[p].store
  BY DEF Writing
<1> HIDE DEF next
<1>4. /\ acknowledged' = acknowledged
      /\ \A part \in Parts : proc[p].change \notin proc[p].store[part]
      /\ Exists(snapshot) => Torn(proc[p].store) \subseteq Torn(snapshot.holds)
  BY <1>1 DEF WriteFile, WriteInv, TornOnDisk, Up
<1>5. CASE proc[p].step \notin {3, 4}
  <2>1. snapshot' = snapshot /\ backup' = backup
    BY <1>1, <1>5, OrderOfFiles DEF WriteFile
  <2>2. BackupCaughtUp' /\ BackupLagsByOne'
    BY <1>1, <1>2, <1>3, <1>4, <1>5, <2>1
    DEF WriteInv, BackupCaughtUp, BackupLagsByOne, Exists
  <2>3. TornOnDisk'
    BY <1>2, <1>3, <1>4, <2>1 DEF TornOnDisk, Up, Exists
  <2> QED
    BY <2>2, <2>3 DEF WriteInv
<1>6. CASE proc[p].step = 3
  <2>1. snapshot' = snapshot /\ backup' = Replaced(proc[p].keyed)
    BY <1>6, OrderOfFiles DEF WriteFile
  <2>2. Exists(backup') => acknowledged \subseteq backup'.holds["audit"]
    <3> SUFFICES ASSUME Exists(backup') PROVE acknowledged \subseteq backup'.holds["audit"]
      OBVIOUS
    <3>1. Exists(snapshot)
      BY <2>1 DEF IInv, SnapshotBefore, Replaced
    <3>2. acknowledged \subseteq snapshot.holds["audit"]
      BY <3>1 DEF IInv, AcknowledgedSurvives, load_store, Parts
    <3> QED
      BY <2>1, <3>1, <3>2 DEF Replaced, Written
  <2>3. BackupCaughtUp' /\ BackupLagsByOne'
    BY <1>4, <2>2 DEF BackupCaughtUp, BackupLagsByOne
  <2>4. TornOnDisk'
    BY <1>2, <1>3, <1>4, <2>1 DEF TornOnDisk, Up, Exists
  <2> QED
    BY <2>3, <2>4 DEF WriteInv
<1>7. CASE proc[p].step = 4
  <2>1. backup' = backup /\ snapshot'.holds = new
    BY <1>7, OrderOfFiles DEF WriteFile, Written
  <2>2. BackupCaughtUp' /\ BackupLagsByOne'
    BY <1>2, <1>3, <1>4, <1>7, <2>1 DEF WriteInv, BackupCaughtUp, BackupLagsByOne
  <2>3. Torn(proc[p].store) \subseteq Torn(new)
    BY <1>1, <1>4, AddedIsWhole
  <2>4. TornOnDisk'
    BY <1>2, <1>3, <1>4, <2>1, <2>3 DEF TornOnDisk, Up
  <2> QED
    BY <2>2, <2>4 DEF WriteInv
<1> QED
  BY <1>5, <1>6, <1>7

\* An answer adds one change to those that the backup, which is caught up, may
\* not have.
LEMMA AnswerKeepsBackup ==
  ASSUME IInv, WriteInv, NEW p \in Processes, Answer(p)
  PROVE  WriteInv'
<1> DEFINE new == Added(proc[p].store, proc[p].change)
           next == Serving(proc[p], new)
<1>1. /\ proc[p] \in Process /\ proc[p].phase = "writing" /\ proc[p].step = 8
      /\ proc[p].change \in Changes /\ proc[p].store \in StoreType
  BY DEF Answer, IInv, TypeOK, Process
<1>2. /\ proc'[p] = next
      /\ \A q \in Processes : q # p => proc'[q].phase = "down" /\ proc'[q].step = 0
  <2>1. /\ Owner(p) /\ proc'[p] = next
        /\ \A q \in Processes : q # p => proc'[q] = proc[q]
    BY <1>1 DEF Answer, Owner, IInv, TypeOK
  <2> QED
    BY <2>1, OthersAreDown
<1>3. next.phase = "serving" /\ next.step = 0 /\ next.store = new
  BY DEF Serving
<1> HIDE DEF next
<1>4. /\ UNCHANGED <<snapshot, backup>>
      /\ acknowledged' = acknowledged \cup {proc[p].change}
  BY DEF Answer, files
<1>5. Exists(backup) => acknowledged \subseteq backup.holds["audit"]
  BY <1>1 DEF WriteInv, BackupCaughtUp
<1>6. BackupCaughtUp' /\ BackupLagsByOne'
  BY <1>2, <1>3, <1>4, <1>5 DEF BackupCaughtUp, BackupLagsByOne, Exists
<1>7. Exists(snapshot) => Torn(new) \subseteq Torn(snapshot.holds)
  BY <1>1, AddedIsWhole DEF WriteInv, TornOnDisk, Up
<1>8. TornOnDisk'
  BY <1>2, <1>3, <1>4, <1>7 DEF TornOnDisk, Up, Exists
<1> QED
  BY <1>6, <1>8 DEF WriteInv

\* Every step keeps the two.
LEMMA StepKeepsBackup == IInv /\ WriteInv /\ [Next]_vars => WriteInv'
<1> SUFFICES ASSUME IInv, WriteInv, [Next]_vars PROVE WriteInv'
  OBVIOUS
<1>1. ASSUME UNCHANGED <<files, proc, acknowledged>>
      PROVE  WriteInv'
  BY <1>1 DEF WriteInv, BackupCaughtUp, BackupLagsByOne, TornOnDisk, Up, files, Exists
<1>2. ASSUME NEW p \in Processes, NEW keyed \in BOOLEAN, NEW strict \in BOOLEAN,
             Start(p, keyed, strict)
      PROVE  WriteInv'
  <2>1. /\ proc'[p].phase = "starting" /\ proc'[p].step = 0
        /\ \A q \in Processes : q # p => proc'[q] = proc[q]
        /\ ~locked /\ UNCHANGED <<files, acknowledged>>
    BY <1>2 DEF Start, LockFree, Starting, IInv, TypeOK
  <2> QED
    BY <2>1, NotUpKeeps
<1>3. ASSUME NEW p \in Processes, StartRefused(p) \/ Kill(p)
      PROVE  WriteInv'
  <2>1. /\ proc'[p].phase = "down" /\ proc'[p].step = 0
        /\ \A q \in Processes : q # p => proc'[q] = proc[q]
        /\ Owner(p) /\ UNCHANGED <<files, acknowledged>>
    BY <1>3 DEF StartRefused, Kill, Owner, Down, IInv, TypeOK
  <2> QED
    BY <2>1, NotUpKeeps
<1>4. ASSUME NEW p \in Processes, Load(p)
      PROVE  WriteInv'
  <2> DEFINE loaded == Serving(proc[p], load_store)
  <2>1. loaded.step = 0 /\ loaded.phase = "serving" /\ loaded.store = load_store
    BY DEF Serving
  <2>2. /\ Owner(p) /\ proc'[p] = loaded /\ UNCHANGED <<files, acknowledged>>
        /\ \A q \in Processes : q # p => proc'[q] = proc[q]
    BY <1>4 DEF Load, Owner, IInv, TypeOK
  <2>3. Exists(snapshot) => loaded.store = snapshot.holds
    BY <2>1 DEF load_store
  <2> HIDE DEF loaded
  <2> QED
    BY <2>1, <2>2, <2>3, InMemoryKeeps
<1>5. ASSUME NEW p \in Processes, NEW c \in Changes, Begin(p, c)
      PROVE  WriteInv'
  <2> DEFINE begun == Writing(proc[p], c, 1)
  <2>1. begun.step = 1 /\ begun.store = proc[p].store /\ begun.change = c
    BY DEF Writing
  <2>2. /\ Owner(p) /\ proc'[p] = begun /\ UNCHANGED <<files, acknowledged>>
        /\ \A q \in Processes : q # p => proc'[q] = proc[q]
        /\ \A part \in Parts : c \notin proc[p].store[part]
    BY <1>5 DEF Begin, Owner, IInv, TypeOK
  <2>3. Exists(snapshot) => Torn(proc[p].store) \subseteq Torn(snapshot.holds)
    BY <1>5 DEF WriteInv, TornOnDisk, Begin, Up
  <2> HIDE DEF begun
  <2> QED
    BY <2>1, <2>2, <2>3, InMemoryKeeps
<1>6. ASSUME NEW p \in Processes, WriteFails(p)
      PROVE  WriteInv'
  <2> DEFINE back == Serving(proc[p], proc[p].store)
  <2>1. back.step = 0 /\ back.phase = "serving" /\ back.store = proc[p].store
    BY DEF Serving
  <2>2. /\ Owner(p) /\ proc'[p] = back /\ UNCHANGED <<files, acknowledged>>
        /\ \A q \in Processes : q # p => proc'[q] = proc[q]
    BY <1>6 DEF WriteFails, Owner, IInv, TypeOK
  <2>3. Exists(snapshot) => Torn(proc[p].store) \subseteq Torn(snapshot.holds)
    BY <1>6 DEF WriteInv, TornOnDisk, WriteFails, Up
  <2> HIDE DEF back
  <2> QED
    BY <2>1, <2>2, <2>3, InMemoryKeeps
<1> QED
  BY <1>1, <1>2, <1>3, <1>4, <1>5, <1>6, WriteFileKeepsBackup, AnswerKeepsBackup
  DEF Next, ProcessStep, LockWriteFails, ClearLock, vars, files

\* Nothing is written yet.
LEMMA InitWriteInv == Init => WriteInv
BY DEF Init, WriteInv, BackupCaughtUp, BackupLagsByOne, TornOnDisk, Up, Down, NoFile, Exists

LEMMA WriteInvariant == Spec => []WriteInv
BY Invariant, InitWriteInv, StepKeepsBackup, PTL DEF Spec

\* The backup is never behind by two changes, however often writes failed or
\* processes were killed between two files (atomic_write_with_backup).
THEOREM BackupIsOneBehind == Spec => []BackupLagsByOne
<1>1. WriteInv => BackupLagsByOne
  BY DEF WriteInv
<1> QED
  BY <1>1, WriteInvariant, PTL

\* Once there is a snapshot no step, kills and failed writes between any two
\* files included, leaves half a change for the next start (persist_snapshot,
\* load_store).
THEOREM NothingIsTornAnew == Spec => NoNewTears
<1>1. ASSUME IInv, WriteInv, Next, Exists(snapshot)
      PROVE  Torn(load_store') \subseteq Torn(load_store)
  <2>1. CASE UNCHANGED snapshot
    BY <1>1, <2>1 DEF load_store, Exists
  <2>2. ASSUME NEW p \in Processes, WriteFile(p), ~UNCHANGED snapshot
        PROVE  Torn(load_store') \subseteq Torn(load_store)
    <3>1. /\ snapshot'.holds = Added(proc[p].store, proc[p].change)
          /\ Exists(snapshot')
      BY <2>2 DEF WriteFile, Written, Exists
    <3>2. proc[p].change \in Changes /\ proc[p].store \in StoreType
      BY <1>1, <2>2 DEF WriteFile, IInv, TypeOK, Process
    <3>3. Torn(proc[p].store) \subseteq Torn(snapshot.holds)
      BY <1>1, <2>2 DEF WriteFile, WriteInv, TornOnDisk, Up
    <3> QED
      BY <1>1, <3>1, <3>2, <3>3, AddedIsWhole DEF load_store, Exists
  <2> QED
    BY <1>1, <2>1, <2>2 DEF Next, ProcessStep, Start, LockWriteFails, Load, StartRefused,
       Answer, Begin, WriteFails, Kill, ClearLock, files
<1>2. IInv /\ WriteInv /\ [Next]_vars =>
        [Exists(snapshot) => Torn(load_store') \subseteq Torn(load_store)]_vars
  BY <1>1
<1> QED
  BY <1>2, Invariant, WriteInvariant, PTL DEF Spec, NoNewTears

-----------------------------------------------------------------------------
(* What ControlPlane says of a write, seen from the files                    *)

\* While a process has a store in memory, a start would load that store, or
\* that store with one change more, whose write has not been answered or was
\* refused.
MemoryOrNext ==
  \A p \in Processes : Up(p) /\ Exists(snapshot) =>
    \/ load_store = proc[p].store
    \/ \E c \in Changes \ acknowledged : load_store = Added(proc[p].store, c)

\* A step that leaves the snapshot and what was answered alone keeps this, if
\* every store in memory afterwards was there before or is the one on disk.
LEMMA StoreKeptInMemory ==
  ASSUME MemoryOrNext, UNCHANGED <<snapshot, acknowledged>>,
         \A p \in Processes : Up(p)' =>
           \/ proc'[p].store = load_store
           \/ Up(p) /\ proc'[p].store = proc[p].store
  PROVE  MemoryOrNext'
<1>1. Exists(snapshot) => load_store' = load_store
  BY DEF load_store
<1> QED
  BY <1>1 DEF MemoryOrNext, Exists

\* Every step keeps it: the fourth file puts the next store on disk, and the
\* answer puts it in memory.
LEMMA StepKeepsNext == IInv /\ WriteInv /\ MemoryOrNext /\ [Next]_vars => MemoryOrNext'
<1> SUFFICES ASSUME IInv, WriteInv, MemoryOrNext, [Next]_vars PROVE MemoryOrNext'
  OBVIOUS
<1>1. proc \in [Processes -> Process]
  BY DEF IInv, TypeOK
<1>2. ASSUME UNCHANGED <<files, proc, acknowledged>>
      PROVE  MemoryOrNext'
  BY <1>2, StoreKeptInMemory DEF files, Up
<1>3. ASSUME NEW p \in Processes,
             \/ \E keyed, strict \in BOOLEAN : Start(p, keyed, strict)
             \/ StartRefused(p) \/ Kill(p)
      PROVE  MemoryOrNext'
  <2>1. \A q \in Processes : Up(q)' => Up(q) /\ proc'[q].store = proc[q].store
    BY <1>1, <1>3 DEF Start, Starting, StartRefused, Kill, Down, Up
  <2>2. UNCHANGED <<snapshot, acknowledged>>
    BY <1>3 DEF Start, StartRefused, Kill, files
  <2> QED
    BY <2>1, <2>2, StoreKeptInMemory
<1>4. ASSUME NEW p \in Processes,
             Load(p) \/ WriteFails(p) \/ \E c \in Changes : Begin(p, c)
      PROVE  MemoryOrNext'
  <2>1. \A q \in Processes : Up(q)' =>
          \/ proc'[q].store = load_store
          \/ Up(q) /\ proc'[q].store = proc[q].store
    BY <1>1, <1>4 DEF Load, Begin, WriteFails, Serving, Writing, Up
  <2>2. UNCHANGED <<snapshot, acknowledged>>
    BY <1>4 DEF Load, Begin, WriteFails, files
  <2> QED
    BY <2>1, <2>2, StoreKeptInMemory
<1>5. ASSUME NEW p \in Processes, WriteFile(p)
      PROVE  MemoryOrNext'
  <2>1. /\ proc'[p].store = proc[p].store /\ acknowledged' = acknowledged
        /\ \A q \in Processes : q # p => proc'[q].phase = "down"
    <3>1. Owner(p) /\ \A q \in Processes : q # p => proc'[q] = proc[q]
      BY <1>1, <1>5 DEF WriteFile, Owner
    <3> QED
      BY <1>1, <1>5, <3>1, OthersAreDown DEF WriteFile, Writing
  <2>2. Up(p) /\ proc[p].phase = "writing" /\ proc[p].step \in 1..7
    BY <1>5 DEF WriteFile, Up
  <2>3. CASE proc[p].step # 4
    <3>1. UNCHANGED snapshot
      BY <1>5, <2>2, <2>3, OrderOfFiles DEF WriteFile
    <3> QED
      BY <2>1, <2>2, <3>1, StoreKeptInMemory DEF Up
  <2>4. CASE proc[p].step = 4
    <3>1. /\ snapshot'.holds = Added(proc[p].store, proc[p].change)
          /\ Exists(snapshot')
      BY <1>5, <2>4, OrderOfFiles DEF WriteFile, Written, Exists
    <3>2. proc[p].change \in Changes
      BY <1>1, <2>2 DEF IInv, TypeOK, Process
    <3>3. proc[p].change \notin acknowledged
      BY <2>2 DEF IInv, MemoryHolds, WriteInv, TornOnDisk, Parts
    <3>4. load_store' = Added(proc[p].store, proc[p].change)
      BY <3>1 DEF load_store
    <3> QED
      BY <2>1, <3>2, <3>3, <3>4 DEF MemoryOrNext, Up, Added
  <2> QED
    BY <2>3, <2>4
<1>6. ASSUME NEW p \in Processes, Answer(p)
      PROVE  MemoryOrNext'
  <2>1. /\ proc'[p].store = Added(proc[p].store, proc[p].change)
        /\ \A q \in Processes : q # p => proc'[q].phase = "down"
    <3>1. Owner(p) /\ \A q \in Processes : q # p => proc'[q] = proc[q]
      BY <1>1, <1>6 DEF Answer, Owner
    <3> QED
      BY <1>1, <1>6, <3>1, OthersAreDown DEF Answer, Serving
  <2>2. load_store' = Added(proc[p].store, proc[p].change)
    <3>1. Exists(snapshot) /\ snapshot.holds = Added(proc[p].store, proc[p].change)
      BY <1>6 DEF Answer, IInv, WriteProgress
    <3> QED
      BY <1>6, <3>1 DEF Answer, files, load_store
  <2> QED
    BY <2>1, <2>2 DEF MemoryOrNext, Up
<1> QED
  BY <1>2, <1>3, <1>4, <1>5, <1>6
  DEF Next, ProcessStep, LockWriteFails, ClearLock, vars, files

\* What ControlPlane calls Persisted and Refused is all that the files can come
\* to, once there is a snapshot (persist_snapshot, persist_or_rollback): however
\* writes fail and processes are killed between them, what a restart would load
\* is what is served or one unanswered change ahead of it, and never behind.
THEOREM DiskIsMemoryOrNext == Spec => []MemoryOrNext
<1>1. Init => MemoryOrNext
  BY DEF Init, MemoryOrNext, Up, Down
<1> QED
  BY <1>1, Invariant, WriteInvariant, StepKeepsNext, PTL DEF Spec
=============================================================================
