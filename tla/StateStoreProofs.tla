-------------------------- MODULE StateStoreProofs --------------------------
(***************************************************************************)
(* The state file survives, for any number of processes, cycles, kills,    *)
(* power losses and failed calls: AcknowledgedSurvives and RollbackIsExact *)
(* as long as nobody reads without the lock and the previous release is    *)
(* not started in between; TypeOK (with mutual exclusion) and              *)
(* RollbackAvailable with those two as well.                               *)
(***************************************************************************)
EXTENDS StateStore, TLAPS

(* What the steps of a save rely on.  Only the process that holds the lock *)
(* is not down, so each line is about one process at a time.               *)
InLoad == {"down", "load", "quarantine"}
HasTemp == {"preserve", "snapwrite", "snaplink", "snapsync", "snapclean", "rename"}
Snapshotting == {"snapwrite", "snaplink", "snapsync", "snapclean"}

ProcessInv(p) ==
  /\ pc[p] = "quarantine" => dir.state.kind = "torn"
  /\ pc[p] \notin InLoad => mem[p] >= acked
  /\ pc[p] \in HasTemp => dir.temp[p] = File("current", mem[p])
  /\ pc[p] \in Snapshotting => dir.state.kind = "old"
  /\ pc[p] \in {"snapwrite", "snaplink"} => ~Exists(dir.snapshot)
  /\ pc[p] = "snaplink" => dir.snaptemp[p] = dir.state
  /\ pc[p] \in {"snapsync", "snapclean"} => dir.snapshot.kind = "old"
  /\ pc[p] = "rename" =>
       \/ dir.state.kind \in {"absent", "current"}
       \/ dir.state.kind = "old" /\ dir.snapshot.kind = "old"
  /\ pc[p] = "dirsync" => dir.state = File("current", mem[p])

(* The directories a power loss may leave, each by itself.                 *)
Replaced(d) ==
  Exists(replaced) =>
    IF d.state.kind = "current" THEN d.snapshot = replaced ELSE d.state = replaced

Acknowledged(d) ==
  acked > 0 => Parses(d.state) /\ d.state.data >= acked

DirInv(d) ==
  /\ d.state.synced /\ d.snapshot.synced
  /\ d.state.kind = "old" /\ d.snapshot.kind = "old" => d.snapshot = d.state
  /\ Replaced(d)
  /\ Acknowledged(d)

(* Before the first current save, all of them hold the same older file.    *)
SameOld ==
  ~Exists(replaced) =>
    \A d, e \in durables : d.state.kind = "old" => e.state = d.state

SInv ==
  /\ TypeOK
  /\ \A p \in Pids : ProcessInv(p)
  /\ \A d \in durables : DirInv(d)
  /\ SameOld
  /\ Exists(replaced) => replaced.kind = "old"
  /\ reader = "idle"

-----------------------------------------------------------------------------
LEMMA FileTypes ==
  /\ Absent \in Files /\ ~Exists(Absent) /\ Absent.synced
  /\ \A n \in Nat : /\ File("current", n) \in Files
                    /\ File("current", n).kind = "current"
                    /\ File("current", n).data = n
                    /\ File("current", n).synced
  /\ \A kind \in Kinds, n \in Nat : File(kind, n) \in Files /\ File(kind, n).synced
BY DEF Absent, File, Files, Kinds, Exists

LEMMA FileFields ==
  ASSUME NEW f \in Files
  PROVE  f.kind \in Kinds /\ f.data \in Nat /\ f.synced \in BOOLEAN
BY DEF Files

(* The directory operations a step makes, and what they leave alone.       *)
LEMMA TempUpdate ==
  ASSUME NEW d \in Dirs, NEW p \in Pids, NEW f \in Files
  PROVE  LET e == [d EXCEPT !.temp[p] = f]
         IN  /\ e \in Dirs /\ e.state = d.state /\ e.snapshot = d.snapshot
             /\ e.temp[p] = f /\ e.snaptemp = d.snaptemp
BY DEF Dirs

LEMMA SnaptempUpdate ==
  ASSUME NEW d \in Dirs, NEW p \in Pids, NEW f \in Files
  PROVE  LET e == [d EXCEPT !.snaptemp[p] = f]
         IN  /\ e \in Dirs /\ e.state = d.state /\ e.snapshot = d.snapshot
             /\ e.snaptemp[p] = f /\ e.temp = d.temp
BY DEF Dirs

LEMMA StateUpdate ==
  ASSUME NEW d \in Dirs, NEW f \in Files
  PROVE  LET e == [d EXCEPT !.state = f]
         IN  e \in Dirs /\ e.state = f /\ e.snapshot = d.snapshot
BY DEF Dirs

LEMMA SnapshotUpdate ==
  ASSUME NEW d \in Dirs, NEW f \in Files
  PROVE  LET e == [d EXCEPT !.snapshot = f]
         IN  e \in Dirs /\ e.state = d.state /\ e.snapshot = f
             /\ e.temp = d.temp /\ e.snaptemp = d.snaptemp
BY DEF Dirs

LEMMA DirFields ==
  ASSUME NEW d \in Dirs, NEW p \in Pids
  PROVE  /\ d.state \in Files /\ d.snapshot \in Files
         /\ d.temp[p] \in Files /\ d.snaptemp[p] \in Files
BY DEF Dirs

(* The lock excludes: while one process runs every other one is down.      *)
LEMMA OnlyHolder ==
  ASSUME TypeOK, NEW p \in Pids, pc[p] # "down"
  PROVE  lock = p /\ \A q \in Pids \ {p} : pc[q] = "down"
BY DEF TypeOK

LEMMA DownInv ==
  ASSUME NEW q \in Pids, pc[q] = "down"
  PROVE  ProcessInv(q)
BY DEF ProcessInv, InLoad, HasTemp, Snapshotting

-----------------------------------------------------------------------------
LEMMA StoreInit == Init => SInv
<1> SUFFICES ASSUME Init PROVE SInv
  OBVIOUS
<1>1. PICK kind \in Initial, snap \in Snapshots :
       /\ dir = [state |-> IF kind \in {"old", "current"} THEN File(kind, 1) ELSE File(kind, 0),
                 snapshot |-> File(snap, 0),
                 temp |-> [p \in Pids |-> Absent],
                 snaptemp |-> [p \in Pids |-> Absent]]
       /\ acked = IF kind \in {"old", "current"} THEN 1 ELSE 0
  BY DEF Init
<1>2. kind \in Kinds /\ snap \in Kinds /\ snap # "old"
  BY StoreAssumption
<1>3. dir \in Dirs
  BY <1>1, <1>2, FileTypes DEF Dirs
<1>4. TypeOK
  BY <1>1, <1>3, FileTypes, StoreAssumption DEF Init, TypeOK
<1>5. \A p \in Pids : ProcessInv(p)
  BY DownInv DEF Init
<1>6. durables = {dir} /\ ~Exists(replaced) /\ reader = "idle"
  BY FileTypes DEF Init
<1>7. DirInv(dir)
  BY <1>1, <1>2, <1>6 DEF DirInv, Replaced, Acknowledged, Parses, File
<1> QED BY <1>4, <1>5, <1>6, <1>7 DEF SInv, SameOld

(* A step of the holder p that leaves every file but its temporaries alone *)
(* and keeps what was acknowledged keeps the invariants of directories.    *)
LEMMA TempStep ==
  ASSUME SInv, dir' \in Dirs, dir'.state = dir.state, dir'.snapshot = dir.snapshot,
         durables' = durables \cup {dir'}, UNCHANGED <<acked, replaced>>
  PROVE  (\A d \in durables' : DirInv(d)') /\ SameOld'
<1>1. DirInv(dir)
  BY DEF SInv, TypeOK
<1>2. DirInv(dir)'
  BY <1>1 DEF DirInv, Replaced, Acknowledged
<1>3. \A d \in durables : DirInv(d)'
  BY DEF SInv, DirInv, Replaced, Acknowledged
<1>4. SameOld'
  BY DEF SInv, TypeOK, SameOld
<1> QED BY <1>2, <1>3, <1>4

(* A step after which every process is down.                               *)
LEMMA EndStep ==
  ASSUME SInv, NEW p \in Pids, pc[p] # "down", Exit(p),
         dir' \in Dirs, dir'.state = dir.state, dir'.snapshot = dir.snapshot,
         durables' = durables \cup {dir'}, faults' \in Nat,
         UNCHANGED <<reader, acked, replaced>>
  PROVE  SInv'
<1>1. \A q \in Pids : pc'[q] = "down"
  BY OnlyHolder DEF SInv, TypeOK, Exit, Goto
<1>2. TypeOK'
  BY <1>1, StoreAssumption DEF SInv, TypeOK, Exit, Goto
<1>3. \A q \in Pids : ProcessInv(q)'
  BY <1>1 DEF ProcessInv, InLoad, HasTemp, Snapshotting
<1>4. (\A d \in durables' : DirInv(d)') /\ SameOld'
  BY TempStep
<1> QED BY <1>2, <1>3, <1>4 DEF SInv

LEMMA SaveErrorInv ==
  ASSUME SInv, NEW p \in Pids, pc[p] # "down", SaveError(p), UNCHANGED <<reader, acked, replaced, faults>>
  PROVE  SInv'
<1>1. dir \in Dirs /\ faults \in Nat
  BY DEF SInv, TypeOK
<1>2. dir' \in Dirs /\ dir'.state = dir.state /\ dir'.snapshot = dir.snapshot
  BY <1>1, TempUpdate, FileTypes DEF SaveError, Change
<1> QED BY <1>1, <1>2, EndStep DEF SaveError, Change

(* A step of the holder that moves it on and changes only temporaries.     *)
LEMMA MoveStep ==
  ASSUME SInv, NEW p \in Pids, pc[p] # "down", lock' = lock, faults' = faults,
         NEW next, next \in {"quarantine", "ready", "write", "preserve", "snapwrite",
                             "snaplink", "snapsync", "snapclean", "rename", "dirsync"},
         pc' = [pc EXCEPT ![p] = next],
         mem' \in [Pids -> Nat], dir' \in Dirs, dir' \in durables', durables' \subseteq Dirs,
         acked' \in Nat, replaced' \in Files, reader' = reader,
         ProcessInv(p)',
         \A d \in durables' : DirInv(d)', SameOld', Exists(replaced') => replaced'.kind = "old"
  PROVE  SInv'
<1>1. lock = p /\ \A q \in Pids \ {p} : pc[q] = "down"
  BY OnlyHolder DEF SInv
<1>2. pc'[p] = next /\ next # "down" /\ \A q \in Pids \ {p} : pc'[q] = "down"
  BY <1>1 DEF SInv, TypeOK
<1>3. TypeOK'
  BY <1>1, <1>2 DEF SInv, TypeOK
<1>4. \A q \in Pids : ProcessInv(q)'
  BY <1>2 DEF ProcessInv, InLoad, HasTemp, Snapshotting
<1> QED BY <1>3, <1>4 DEF SInv

-----------------------------------------------------------------------------
LEMMA StartInv ==
  ASSUME SInv, NEW p \in Pids, Start(p)
  PROVE  SInv'
<1> USE DEF Start, Goto
<1>1. \A q \in Pids : pc[q] = "down"
  BY StoreAssumption DEF SInv, TypeOK
<1>2. pc'[p] = "load" /\ \A q \in Pids \ {p} : pc'[q] = "down"
  BY <1>1 DEF SInv, TypeOK
<1>3. TypeOK'
  BY <1>2 DEF SInv, TypeOK
<1>4. \A q \in Pids : ProcessInv(q)'
  BY <1>2 DEF ProcessInv, InLoad, HasTemp, Snapshotting
<1>5. (\A d \in durables' : DirInv(d)') /\ SameOld'
  BY DEF SInv, DirInv, Replaced, Acknowledged, SameOld
<1> QED BY <1>3, <1>4, <1>5 DEF SInv

(* Steps that touch neither the directory nor the histories.               *)
LEMMA QuietStep ==
  ASSUME SInv, UNCHANGED <<dir, durables, acked, replaced>>
  PROVE  /\ dir' \in Dirs /\ dir' \in durables' /\ durables' \subseteq Dirs
         /\ acked' \in Nat /\ replaced' \in Files
         /\ (\A d \in durables' : DirInv(d)') /\ SameOld'
         /\ Exists(replaced') => replaced'.kind = "old"
BY DEF SInv, TypeOK, DirInv, Replaced, Acknowledged, SameOld

LEMMA LoadInv ==
  ASSUME SInv, NEW p \in Pids, Load(p)
  PROVE  SInv'
<1> USE DEF Load, Goto
<1>1. DirInv(dir) /\ dir.state \in Files /\ acked \in Nat
  BY DirFields DEF SInv, TypeOK
<1>2. CASE dir.state.kind = "torn"
  <2>1. ProcessInv(p)'
    BY <1>2 DEF SInv, TypeOK, ProcessInv, InLoad, HasTemp, Snapshotting
  <2> QED BY <1>2, <2>1, QuietStep, MoveStep DEF SInv, TypeOK
<1>3. CASE dir.state.kind # "torn"
  <2>1. dir.state.data \in Nat /\ dir.state.data >= acked
    BY <1>1, FileFields DEF DirInv, Acknowledged
  <2>2. pc'[p] = "ready" /\ mem'[p] = dir.state.data /\ mem' \in [Pids -> Nat]
    BY <1>3, <2>1 DEF SInv, TypeOK
  <2>3. ProcessInv(p)'
    BY <2>1, <2>2 DEF ProcessInv, InLoad, HasTemp, Snapshotting
  <2> QED BY <1>3, <2>2, <2>3, QuietStep, MoveStep
<1> QED BY <1>2, <1>3

LEMMA QuarantineInv ==
  ASSUME SInv, NEW p \in Pids, Quarantine(p)
  PROVE  SInv'
<1>1. pc[p] = "quarantine" /\ dir.state.kind = "torn" /\ dir \in Dirs /\ dir \in durables
  BY DEF Quarantine, SInv, TypeOK, ProcessInv
<1>2. /\ dir' = [dir EXCEPT !.state = Absent] /\ durables' = durables \cup {dir'}
      /\ pc' = [pc EXCEPT ![p] = "ready"]
      /\ UNCHANGED <<lock, mem, reader, acked, replaced, faults>>
  BY <1>1 DEF Quarantine, Exists, Change, Goto
<1>3. dir' \in Dirs /\ dir'.state = Absent /\ dir'.snapshot = dir.snapshot
  BY <1>1, <1>2, StateUpdate, FileTypes
<1>4. acked = 0 /\ ~Exists(replaced)
  <2>1. DirInv(dir) /\ acked \in Nat
    BY <1>1 DEF SInv, TypeOK
  <2>2. acked = 0
    BY <1>1, <2>1 DEF DirInv, Acknowledged, Parses
  <2>3. ~Exists(replaced)
    BY <1>1, <2>1 DEF DirInv, Replaced, SInv, Exists
  <2> QED BY <2>2, <2>3
<1>5. ProcessInv(p)'
  BY <1>1, <1>2, <1>4 DEF SInv, TypeOK, ProcessInv, InLoad, HasTemp, Snapshotting
<1>6. \A d \in durables' : DirInv(d)'
  <2>1. DirInv(dir)'
    BY <1>1, <1>2, <1>3, <1>4, FileTypes DEF SInv, DirInv, Replaced, Acknowledged, Absent, File
  <2>2. \A d \in durables : DirInv(d)'
    BY <1>2 DEF SInv, DirInv, Replaced, Acknowledged
  <2> QED BY <1>2, <2>1, <2>2
<1>7. SameOld'
  <2>1. \A d \in durables : d.state.kind # "old"
    BY <1>1, <1>4 DEF SInv, SameOld
  <2>2. dir'.state.kind = "absent"
    BY <1>3 DEF Absent, File
  <2>3. \A d \in durables' : d.state.kind # "old"
    BY <1>2, <2>1, <2>2
  <2> QED BY <2>3 DEF SameOld
<1> QED BY <1>1, <1>2, <1>3, <1>5, <1>6, <1>7, MoveStep DEF SInv, TypeOK

LEMMA CycleInv ==
  ASSUME SInv, NEW p \in Pids, Cycle(p)
  PROVE  SInv'
<1> USE DEF Cycle, Goto
<1>1. mem' \in [Pids -> Nat] /\ mem'[p] >= mem[p] /\ mem[p] >= acked /\ acked \in Nat
  BY StoreAssumption DEF SInv, TypeOK, ProcessInv, InLoad
<1>2. pc'[p] = "write" /\ mem'[p] >= acked
  BY <1>1 DEF SInv, TypeOK
<1>3. ProcessInv(p)'
  BY <1>2 DEF ProcessInv, InLoad, HasTemp, Snapshotting
<1> QED BY <1>1, <1>3, QuietStep, MoveStep

LEMMA WriteTempInv ==
  ASSUME SInv, NEW p \in Pids, WriteTemp(p)
  PROVE  SInv'
<1>1. CASE Exists(dir.temp[p])
  BY <1>1, SaveErrorInv DEF WriteTemp, SaveError
<1>2. CASE ~Exists(dir.temp[p])
  <2>1. /\ pc[p] = "write" /\ pc' = [pc EXCEPT ![p] = "preserve"]
        /\ dir' = [dir EXCEPT !.temp[p] = File("current", mem[p])]
        /\ durables' = durables \cup {dir'}
        /\ UNCHANGED <<lock, mem, reader, acked, replaced, faults>>
    BY <1>2 DEF WriteTemp, Change, Goto
  <2>2. /\ dir' \in Dirs /\ dir'.state = dir.state /\ dir'.snapshot = dir.snapshot
        /\ dir'.temp[p] = File("current", mem[p])
    BY <2>1, TempUpdate, FileTypes DEF SInv, TypeOK
  <2>3. ProcessInv(p)'
    BY <2>1, <2>2 DEF SInv, TypeOK, ProcessInv, InLoad, HasTemp, Snapshotting
  <2>4. (\A d \in durables' : DirInv(d)') /\ SameOld'
    BY <2>1, <2>2, TempStep
  <2> QED BY <2>1, <2>2, <2>3, <2>4, MoveStep DEF SInv, TypeOK
<1> QED BY <1>1, <1>2

LEMMA PreserveInv ==
  ASSUME SInv, NEW p \in Pids, Preserve(p)
  PROVE  SInv'
<1> USE DEF Preserve, Goto
<1>1. pc[p] = "preserve"
  OBVIOUS
<1>2. CASE /\ dir.state.kind \in {"absent", "current"} \/ (dir.state.kind = "old" /\ dir.snapshot.kind = "old")
           /\ Goto(p, "rename") /\ UNCHANGED <<dir, durables, lock, mem>>
  <2>1. ProcessInv(p)'
    BY <1>1, <1>2 DEF SInv, TypeOK, ProcessInv, InLoad, HasTemp, Snapshotting
  <2> QED BY <1>1, <1>2, <2>1, QuietStep, MoveStep DEF SInv, TypeOK
<1>3. CASE /\ dir.state.kind = "old" /\ ~Exists(dir.snapshot)
           /\ Goto(p, "snapwrite") /\ UNCHANGED <<dir, durables, lock, mem>>
  <2>1. ProcessInv(p)'
    BY <1>1, <1>3 DEF SInv, TypeOK, ProcessInv, InLoad, HasTemp, Snapshotting
  <2> QED BY <1>1, <1>3, <2>1, QuietStep, MoveStep DEF SInv, TypeOK
<1>4. CASE SaveError(p)
  BY <1>1, <1>4, SaveErrorInv
<1> QED BY <1>2, <1>3, <1>4

LEMMA SnapshotWriteInv ==
  ASSUME SInv, NEW p \in Pids, SnapshotWrite(p)
  PROVE  SInv'
<1>1. CASE Exists(dir.snaptemp[p])
  BY <1>1, SaveErrorInv DEF SnapshotWrite
<1>2. CASE ~Exists(dir.snaptemp[p])
  <2>1. /\ pc[p] = "snapwrite" /\ pc' = [pc EXCEPT ![p] = "snaplink"]
        /\ dir' = [dir EXCEPT !.snaptemp[p] = dir.state]
        /\ durables' = durables \cup {dir'}
        /\ UNCHANGED <<lock, mem, reader, acked, replaced, faults>>
    BY <1>2 DEF SnapshotWrite, Change, Goto
  <2>2. /\ dir' \in Dirs /\ dir'.state = dir.state /\ dir'.snapshot = dir.snapshot
        /\ dir'.snaptemp[p] = dir.state /\ dir'.temp = dir.temp
    <3>1. dir \in Dirs /\ dir.state \in Files
      BY DirFields DEF SInv, TypeOK
    <3> QED BY <2>1, <3>1, SnaptempUpdate
  <2>3. ProcessInv(p)'
    BY <2>1, <2>2 DEF SInv, TypeOK, ProcessInv, InLoad, HasTemp, Snapshotting
  <2>4. (\A d \in durables' : DirInv(d)') /\ SameOld'
    BY <2>1, <2>2, TempStep
  <2> QED BY <2>1, <2>2, <2>3, <2>4, MoveStep DEF SInv, TypeOK
<1> QED BY <1>1, <1>2

(* Publishing the copy: the snapshot becomes the older file still there.   *)
LEMMA SnapshotLinkInv ==
  ASSUME SInv, NEW p \in Pids, SnapshotLink(p)
  PROVE  SInv'
<1>1. /\ pc[p] = "snaplink" /\ ~Exists(dir.snapshot)
      /\ dir.snaptemp[p] = dir.state /\ dir.state.kind = "old"
      /\ dir \in Dirs /\ dir \in durables /\ DirInv(dir)
  BY DEF SnapshotLink, SInv, TypeOK, ProcessInv, Snapshotting
<1>2. /\ pc' = [pc EXCEPT ![p] = "snapsync"]
      /\ dir' = [dir EXCEPT !.snapshot = dir.state]
      /\ durables' = durables \cup {dir'}
      /\ UNCHANGED <<lock, mem, reader, acked, replaced, faults>>
  BY <1>1 DEF SnapshotLink, Change, Goto
<1>3. /\ dir' \in Dirs /\ dir'.state = dir.state /\ dir'.snapshot = dir.state
      /\ dir'.temp = dir.temp /\ dir'.snaptemp = dir.snaptemp
  BY <1>1, <1>2, SnapshotUpdate, DirFields
<1>4. ProcessInv(p)'
  BY <1>1, <1>2, <1>3 DEF SInv, TypeOK, ProcessInv, InLoad, HasTemp, Snapshotting
<1>5. \A d \in durables' : DirInv(d)'
  <2>1. DirInv(dir)'
    BY <1>1, <1>2, <1>3 DEF DirInv, Replaced, Acknowledged
  <2>2. \A d \in durables : DirInv(d)'
    BY <1>2 DEF SInv, DirInv, Replaced, Acknowledged
  <2> QED BY <1>2, <2>1, <2>2
<1>6. SameOld'
  BY <1>1, <1>2, <1>3 DEF SInv, SameOld
<1> QED BY <1>1, <1>2, <1>3, <1>4, <1>5, <1>6, MoveStep DEF SInv, TypeOK

LEMMA SyncStep ==
  ASSUME SInv, dir' = dir, durables' = {dir}, UNCHANGED replaced
  PROVE  SameOld' /\ dir' \in Dirs /\ dir' \in durables' /\ durables' \subseteq Dirs
BY DEF SInv, TypeOK, SameOld

LEMMA SnapshotSyncInv ==
  ASSUME SInv, NEW p \in Pids, SnapshotSync(p)
  PROVE  SInv'
<1> USE DEF SnapshotSync, Goto
<1>1. ProcessInv(p)'
  BY DEF SInv, TypeOK, ProcessInv, InLoad, HasTemp, Snapshotting
<1>2. \A d \in durables' : DirInv(d)'
  BY DEF SInv, TypeOK, DirInv, Replaced, Acknowledged
<1> QED BY <1>1, <1>2, SyncStep, MoveStep DEF SInv, TypeOK

LEMMA SnapshotCleanInv ==
  ASSUME SInv, NEW p \in Pids, SnapshotClean(p)
  PROVE  SInv'
<1>1. /\ pc[p] = "snapclean" /\ pc' = [pc EXCEPT ![p] = "rename"]
      /\ dir' = [dir EXCEPT !.snaptemp[p] = Absent]
      /\ durables' = durables \cup {dir'}
      /\ UNCHANGED <<lock, mem, reader, acked, replaced, faults>>
  BY DEF SnapshotClean, Change, Goto
<1>2. /\ dir' \in Dirs /\ dir'.state = dir.state /\ dir'.snapshot = dir.snapshot
      /\ dir'.temp = dir.temp
  BY <1>1, SnaptempUpdate, FileTypes DEF SInv, TypeOK
<1>3. ProcessInv(p)'
  BY <1>1, <1>2 DEF SInv, TypeOK, ProcessInv, InLoad, HasTemp, Snapshotting
<1>4. (\A d \in durables' : DirInv(d)') /\ SameOld'
  BY <1>1, <1>2, TempStep
<1> QED BY <1>1, <1>2, <1>3, <1>4, MoveStep DEF SInv, TypeOK

(* The rename: the first current state takes the place of an older one     *)
(* only when exactly that one is the snapshot.                             *)
LEMMA RenameInv ==
  ASSUME SInv, NEW p \in Pids, Rename(p)
  PROVE  SInv'
<1> DEFINE new == File("current", mem[p])
<1>1. /\ pc[p] = "rename" /\ dir.temp[p] = new /\ mem[p] \in Nat /\ mem[p] >= acked
      /\ \/ dir.state.kind \in {"absent", "current"}
         \/ dir.state.kind = "old" /\ dir.snapshot.kind = "old"
      /\ dir \in Dirs /\ dir \in durables /\ DirInv(dir)
  BY DEF Rename, SInv, TypeOK, ProcessInv, HasTemp, InLoad
<1>2. /\ pc' = [pc EXCEPT ![p] = "dirsync"]
      /\ dir' = [dir EXCEPT !.state = new, !.temp[p] = Absent]
      /\ durables' = durables \cup {dir'}
      /\ replaced' = IF dir.state.kind = "old" /\ ~Exists(replaced) THEN dir.state ELSE replaced
      /\ UNCHANGED <<lock, mem, reader, acked, faults>>
  BY <1>1 DEF Rename, Change, Goto
<1>3. new \in Files /\ new.kind = "current" /\ new.data = mem[p] /\ new.synced
  BY <1>1, FileTypes
<1> HIDE DEF new
<1>4. dir' \in Dirs /\ dir'.state = new /\ dir'.snapshot = dir.snapshot
  <2>1. Absent \in Files
    BY FileTypes
  <2> QED BY <1>1, <1>2, <1>3, <2>1 DEF Dirs
<1>5. ProcessInv(p)'
  BY <1>1, <1>2, <1>4 DEF SInv, TypeOK, ProcessInv, InLoad, HasTemp, Snapshotting, new
<1>6. replaced' \in Files /\ (Exists(replaced') => replaced'.kind = "old")
  BY <1>1, <1>2, DirFields DEF SInv, TypeOK
<1>7. \A d \in durables : DirInv(d)'
  <2> SUFFICES ASSUME NEW d \in durables PROVE Replaced(d)'
    BY <1>2 DEF SInv, DirInv, Acknowledged
  <2>1. CASE dir.state.kind = "old" /\ ~Exists(replaced)
    <3>1. dir.state = d.state \/ d.state.kind # "old"
      BY <1>1, <2>1 DEF SInv, SameOld
    <3>2. d.state = dir.state
      BY <1>1, <2>1 DEF SInv, SameOld
    <3> QED BY <1>2, <2>1, <3>2 DEF Replaced
  <2>2. CASE ~(dir.state.kind = "old" /\ ~Exists(replaced))
    BY <1>2, <2>2 DEF SInv, DirInv, Replaced
  <2> QED BY <2>1, <2>2
<1>8. DirInv(dir)'
  <2>1. Replaced(dir)'
    <3>1. CASE dir.state.kind = "old" /\ ~Exists(replaced)
      BY <1>1, <1>2, <1>3, <1>4, <3>1 DEF DirInv, Replaced
    <3>2. CASE dir.state.kind = "old" /\ Exists(replaced)
      BY <1>1, <1>2, <1>3, <1>4, <3>2 DEF DirInv, Replaced
    <3>3. CASE dir.state.kind # "old"
      BY <1>1, <1>2, <1>3, <1>4, <3>3 DEF DirInv, Replaced, SInv, Exists
    <3> QED BY <3>1, <3>2, <3>3
  <2>2. Acknowledged(dir)'
    BY <1>1, <1>2, <1>3, <1>4 DEF Acknowledged, Parses
  <2> QED BY <1>1, <1>3, <1>4, <2>1, <2>2 DEF DirInv
<1>9. SameOld'
  <2> SUFFICES ASSUME ~Exists(replaced'), NEW d \in durables', NEW e \in durables',
                      d.state.kind = "old"
               PROVE  e.state = d.state
    BY DEF SameOld
  <2>1. ~Exists(replaced) /\ dir.state.kind # "old"
    BY <1>1, <1>2 DEF Exists
  <2>2. d \in durables
    BY <1>2, <1>3, <1>4
  <2>3. dir.state = d.state
    BY <1>1, <2>1, <2>2 DEF SInv, SameOld
  <2> QED BY <2>1, <2>3
<1>10. \A d \in durables' : DirInv(d)'
  BY <1>2, <1>7, <1>8
<1>11. /\ mem' \in [Pids -> Nat] /\ acked' \in Nat /\ faults' = faults /\ reader' = reader
       /\ dir' \in durables' /\ durables' \subseteq Dirs
  BY <1>2, <1>4 DEF SInv, TypeOK
<1> QED BY <1>1, <1>2, <1>4, <1>5, <1>6, <1>9, <1>10, <1>11, MoveStep

LEMMA DirectorySyncInv ==
  ASSUME SInv, NEW p \in Pids, DirectorySync(p)
  PROVE  SInv'
<1>1. /\ pc[p] = "dirsync" /\ dir.state = File("current", mem[p]) /\ mem[p] \in Nat
      /\ dir \in durables /\ DirInv(dir)
  BY DEF DirectorySync, SInv, TypeOK, ProcessInv
<1>2. /\ pc' = [pc EXCEPT ![p] = "ready"] /\ durables' = {dir} /\ acked' = mem[p]
      /\ UNCHANGED <<dir, lock, mem, reader, replaced, faults>>
  BY DEF DirectorySync, Goto
<1>3. ProcessInv(p)'
  BY <1>1, <1>2 DEF SInv, TypeOK, ProcessInv, InLoad, HasTemp, Snapshotting
<1>4. Acknowledged(dir)'
  BY <1>1, <1>2, FileTypes DEF Acknowledged, Parses
<1>5. \A d \in durables' : DirInv(d)'
  BY <1>1, <1>2, <1>4 DEF DirInv, Replaced
<1> QED BY <1>1, <1>2, <1>3, <1>5, SyncStep, MoveStep DEF SInv, TypeOK

-----------------------------------------------------------------------------
LEMMA SaveFailsInv ==
  ASSUME SInv, NEW p \in Pids, SaveFails(p)
  PROVE  SInv'
<1>1. pc[p] # "down" /\ Exit(p) /\ faults' \in Nat /\ UNCHANGED <<reader, acked, replaced>>
  BY DEF SaveFails, Faulty, SInv, TypeOK
<1> DEFINE left == IF pc[p] \in {"snaplink", "snapsync"} THEN Absent ELSE dir.snaptemp[p]
<1>2. /\ dir' = [dir EXCEPT !.temp[p] = Absent, !.snaptemp[p] = left]
      /\ durables' = durables \cup {dir'}
  BY DEF SaveFails, Change
<1>3. dir \in Dirs /\ left \in Files
  BY DirFields, FileTypes DEF SInv, TypeOK
<1> HIDE DEF left
<1>4. dir' \in Dirs /\ dir'.state = dir.state /\ dir'.snapshot = dir.snapshot
  <2>1. Absent \in Files
    BY FileTypes
  <2> QED BY <1>2, <1>3, <2>1 DEF Dirs
<1> QED BY <1>1, <1>2, <1>4, EndStep

LEMMA KilledInv ==
  ASSUME SInv, NEW p \in Pids, Killed(p)
  PROVE  SInv'
<1>1. /\ pc[p] # "down" /\ Exit(p) /\ faults' \in Nat
      /\ UNCHANGED <<dir, durables, reader, acked, replaced>>
  BY DEF Killed, Faulty, SInv, TypeOK
<1>2. dir' \in Dirs /\ durables' = durables \cup {dir'}
  BY <1>1 DEF SInv, TypeOK
<1> QED BY <1>1, <1>2, EndStep

(* A synced file comes back whole.                                         *)
LEMMA PowerLossInv ==
  ASSUME SInv, PowerLoss
  PROVE  SInv'
<1>1. PICK d \in durables : dir' = [d EXCEPT !.state = Torn(@), !.snapshot = Torn(@)]
  BY DEF PowerLoss
<1>2. d \in Dirs /\ DirInv(d)
  BY DEF SInv, TypeOK
<1>3. dir' = d
  BY <1>1, <1>2 DEF Dirs, DirInv, Torn
<1>4. /\ durables' = {d} /\ lock' = Nobody
      /\ pc' = [p \in Pids |-> "down"] /\ mem' = [p \in Pids |-> 0] /\ reader' = "idle"
      /\ faults' \in Nat /\ UNCHANGED <<acked, replaced>>
  BY <1>3 DEF PowerLoss, Faulty, SInv, TypeOK
<1>5. TypeOK'
  BY <1>2, <1>3, <1>4, StoreAssumption DEF SInv, TypeOK
<1>6. \A p \in Pids : ProcessInv(p)'
  BY <1>4 DEF ProcessInv, InLoad, HasTemp, Snapshotting
<1>7. (\A e \in durables' : DirInv(e)') /\ SameOld'
  BY <1>2, <1>4 DEF DirInv, Replaced, Acknowledged, SameOld
<1> QED BY <1>4, <1>5, <1>6, <1>7 DEF SInv

LEMMA StoreStutter == SInv /\ UNCHANGED vars => SInv'
BY DEF SInv, TypeOK, vars, ProcessInv, DirInv, Replaced, Acknowledged, SameOld

LEMMA StoreNext ==
  ASSUME Faults \subseteq {"kill", "power", "io"}
  PROVE  SInv /\ [Next]_vars => SInv'
<1> SUFFICES ASSUME SInv, Next PROVE SInv'
  BY StoreStutter
<1>1. ASSUME NEW p \in Pids, Start(p) \/ Step(p) \/ SaveFails(p) \/ Killed(p) PROVE SInv'
  <2>1. CASE Step(p)
    BY <2>1, LoadInv, QuarantineInv, CycleInv, WriteTempInv, PreserveInv, SnapshotWriteInv,
       SnapshotLinkInv, SnapshotSyncInv, SnapshotCleanInv, RenameInv, DirectorySyncInv DEF Step
  <2> QED BY <1>1, <2>1, StartInv, SaveFailsInv, KilledInv
<1>2. CASE PowerLoss
  BY <1>2, PowerLossInv
<1>3. ~ReaderLoad /\ ~OldBinaryRuns /\ ~RestoreSnapshot
  BY DEF ReaderLoad, OldBinaryRuns, RestoreSnapshot
<1>4. ~ReaderQuarantine
  BY DEF ReaderQuarantine, SInv
<1> QED BY <1>1, <1>2, <1>3, <1>4 DEF Next

(* plan 729: whatever a power loss leaves, the newest acknowledged state,  *)
(* or a newer one, is there and parses.                                    *)
THEOREM AcknowledgedStateSurvives ==
  ASSUME Faults \subseteq {"kill", "power", "io"}
  PROVE  Spec => []AcknowledgedSurvives
<1>1. SInv => AcknowledgedSurvives
  BY DEF SInv, DirInv, Acknowledged, AcknowledgedSurvives
<1> QED BY <1>1, StoreInit, StoreNext, PTL DEF Spec

(* README 81: wherever a v8 state has replaced an older file, the snapshot *)
(* is exactly that file.                                                   *)
THEOREM RollbackStateIsExact ==
  ASSUME Faults \subseteq {"kill", "power", "io"}
  PROVE  Spec => []RollbackIsExact
<1>1. SInv => RollbackIsExact
  BY DEF SInv, DirInv, Replaced, RollbackIsExact
<1> QED BY <1>1, StoreInit, StoreNext, PTL DEF Spec

-----------------------------------------------------------------------------
(* With the previous release started in between and peers reading, SInv    *)
(* does not hold: the state may go back to an older one, or be moved       *)
(* aside.  What remains is which files a directory may hold.  Either there *)
(* never was an older state, or every directory since has a state that     *)
(* parses, and an older one to go back to wherever that is a current one.  *)
KeptProcess(p) ==
  /\ pc[p] \in HasTemp => dir.temp[p].kind = "current" /\ dir.temp[p].synced
  /\ pc[p] \in Snapshotting => dir.state.kind = "old"
  /\ pc[p] = "snaplink" => dir.snaptemp[p] = dir.state
  /\ pc[p] = "snaplink" => ~Exists(dir.snapshot)
  /\ pc[p] = "snapwrite" => ~Exists(dir.snapshot)
  /\ pc[p] \in {"snapsync", "snapclean"} => dir.snapshot.kind = "old"
  /\ pc[p] = "rename" => dir.state.kind # "old" \/ dir.snapshot.kind = "old"

Whole(d) == d.state.synced /\ d.snapshot.synced
NoneOld(d) == d.state.kind # "old" /\ d.snapshot.kind # "old"
OldKept(d) == Parses(d.state) /\ (d.state.kind = "current" => d.snapshot.kind = "old")

NeverOld == ~Exists(replaced) /\ \A d \in durables : NoneOld(d)
AlwaysKept ==
  /\ reader = "idle"
  /\ \A p \in Pids : pc[p] # "quarantine"
  /\ \A d \in durables : OldKept(d)

KInv ==
  /\ TypeOK
  /\ \A p \in Pids : KeptProcess(p)
  /\ \A d \in durables : Whole(d)
  /\ NeverOld \/ AlwaysKept

LEMMA KeptInit == Init => KInv
<1> SUFFICES ASSUME Init PROVE KInv
  OBVIOUS
<1>1. TypeOK
  BY StoreInit DEF SInv
<1>2. PICK kind \in Initial, snap \in Snapshots :
       dir = [state |-> IF kind \in {"old", "current"} THEN File(kind, 1) ELSE File(kind, 0),
              snapshot |-> File(snap, 0),
              temp |-> [p \in Pids |-> Absent],
              snaptemp |-> [p \in Pids |-> Absent]]
  BY DEF Init
<1>3. dir.state.kind = kind /\ dir.snapshot.kind = snap /\ snap # "old" /\ Whole(dir)
  BY <1>2, StoreAssumption DEF File, Whole
<1>4. \A p \in Pids : pc[p] = "down" /\ KeptProcess(p)
  BY DEF Init, KeptProcess, HasTemp, Snapshotting
<1>5. durables = {dir} /\ reader = "idle" /\ ~Exists(replaced)
  BY FileTypes DEF Init
<1>6. CASE kind = "old"
  BY <1>1, <1>3, <1>4, <1>5, <1>6 DEF KInv, AlwaysKept, OldKept, Parses
<1>7. CASE kind # "old"
  BY <1>1, <1>3, <1>4, <1>5, <1>7 DEF KInv, NeverOld, NoneOld
<1> QED BY <1>6, <1>7

(* The holder p of the lock moves on to next; no other process runs.       *)
LEMMA MoveTypes ==
  ASSUME TypeOK, NEW p \in Pids, pc[p] # "down", lock' = lock, faults' = faults,
         NEW next, next \in {"quarantine", "ready", "write", "preserve", "snapwrite",
                             "snaplink", "snapsync", "snapclean", "rename", "dirsync"},
         pc' = [pc EXCEPT ![p] = next],
         mem' \in [Pids -> Nat], dir' \in Dirs, dir' \in durables', durables' \subseteq Dirs,
         acked' \in Nat, replaced' \in Files, reader' = reader
  PROVE  TypeOK' /\ pc'[p] = next /\ \A q \in Pids \ {p} : pc'[q] = "down"
<1>1. lock = p /\ \A q \in Pids \ {p} : pc[q] = "down"
  BY OnlyHolder
<1>2. pc'[p] = next /\ next # "down" /\ \A q \in Pids \ {p} : pc'[q] = "down"
  BY <1>1 DEF TypeOK
<1> QED BY <1>1, <1>2 DEF TypeOK

(* A step that shows no new state or snapshot and forgets no old one.      *)
LEMMA KeptMove ==
  ASSUME KInv, NEW p \in Pids, pc[p] # "down", lock' = lock, faults' = faults,
         NEW next, next \in {"quarantine", "ready", "write", "preserve", "snapwrite",
                             "snaplink", "snapsync", "snapclean", "rename", "dirsync"},
         next = "quarantine" => dir.state.kind = "torn",
         pc' = [pc EXCEPT ![p] = next],
         mem' \in [Pids -> Nat], acked' \in Nat, reader' = reader, replaced' = replaced,
         dir' \in Dirs, dir' \in durables', dir'.state = dir.state, dir'.snapshot = dir.snapshot,
         durables' \subseteq durables \cup {dir'},
         KeptProcess(p)'
  PROVE  KInv'
<1>1. dir \in durables /\ durables \subseteq Dirs /\ replaced \in Files
  BY DEF KInv, TypeOK
<1>2. TypeOK' /\ pc'[p] = next /\ \A q \in Pids \ {p} : pc'[q] = "down"
  BY <1>1, MoveTypes DEF KInv
<1>3. \A q \in Pids : KeptProcess(q)'
  BY <1>2 DEF KeptProcess, HasTemp, Snapshotting
<1>4. \A d \in durables' : Whole(d)
  BY <1>1 DEF KInv, Whole
<1>5. CASE NeverOld
  <2>1. NeverOld'
    BY <1>1, <1>5 DEF NeverOld, NoneOld
  <2> QED BY <1>2, <1>3, <1>4, <2>1 DEF KInv
<1>6. CASE AlwaysKept
  <2>1. next # "quarantine"
    BY <1>1, <1>6 DEF AlwaysKept, OldKept, Parses
  <2>2. AlwaysKept'
    BY <1>1, <1>2, <1>6, <2>1 DEF AlwaysKept, OldKept
  <2> QED BY <1>2, <1>3, <1>4, <2>2 DEF KInv
<1> QED BY <1>5, <1>6 DEF KInv

(* The holder ends, or the previous release or a reader runs while no      *)
(* governor does: then nothing is said of a process.                       *)
LEMMA KeptEnd ==
  ASSUME KInv, NEW p \in Pids, pc[p] # "down", Exit(p),
         dir' \in Dirs, dir'.state = dir.state, dir'.snapshot = dir.snapshot,
         durables' = durables \cup {dir'}, faults' \in Nat,
         UNCHANGED <<reader, acked, replaced>>
  PROVE  KInv'
<1>1. \A q \in Pids : pc'[q] = "down"
  BY OnlyHolder DEF KInv, TypeOK, Exit, Goto
<1>2. TypeOK'
  BY <1>1, StoreAssumption DEF KInv, TypeOK, Exit, Goto
<1>3. \A q \in Pids : KeptProcess(q)'
  BY <1>1 DEF KeptProcess, HasTemp, Snapshotting
<1>4. dir \in durables
  BY DEF KInv, TypeOK
<1>5. \A d \in durables' : Whole(d)
  BY <1>4 DEF KInv, Whole
<1>6. CASE NeverOld
  BY <1>2, <1>3, <1>4, <1>5, <1>6 DEF KInv, NeverOld, NoneOld
<1>7. CASE AlwaysKept
  BY <1>1, <1>2, <1>3, <1>4, <1>5, <1>7 DEF KInv, AlwaysKept, OldKept
<1> QED BY <1>6, <1>7 DEF KInv

LEMMA KeptSaveError ==
  ASSUME KInv, NEW p \in Pids, pc[p] # "down", SaveError(p),
         UNCHANGED <<reader, acked, replaced, faults>>
  PROVE  KInv'
<1>1. dir \in Dirs /\ faults \in Nat
  BY DEF KInv, TypeOK
<1>2. dir' \in Dirs /\ dir'.state = dir.state /\ dir'.snapshot = dir.snapshot
  BY <1>1, TempUpdate, FileTypes DEF SaveError, Change
<1> QED BY <1>1, <1>2, KeptEnd DEF SaveError, Change

-----------------------------------------------------------------------------
LEMMA KeptStart ==
  ASSUME KInv, NEW p \in Pids, Start(p)
  PROVE  KInv'
<1> USE DEF Start, Goto
<1>1. \A q \in Pids : pc[q] = "down"
  BY StoreAssumption DEF KInv, TypeOK
<1>2. pc'[p] = "load" /\ \A q \in Pids \ {p} : pc'[q] = "down"
  BY <1>1 DEF KInv, TypeOK
<1>3. TypeOK'
  BY <1>2 DEF KInv, TypeOK
<1>4. \A q \in Pids : KeptProcess(q)'
  BY <1>2 DEF KeptProcess, HasTemp, Snapshotting
<1>5. NeverOld => NeverOld'
  BY DEF NeverOld, NoneOld
<1>6. AlwaysKept => AlwaysKept'
  BY <1>2 DEF AlwaysKept, OldKept
<1> QED BY <1>3, <1>4, <1>5, <1>6 DEF KInv, Whole

LEMMA KeptLoad ==
  ASSUME KInv, NEW p \in Pids, Load(p)
  PROVE  KInv'
<1> USE DEF Load, Goto
<1>1. /\ dir \in Dirs /\ dir \in durables /\ dir.state \in Files /\ acked \in Nat
      /\ mem \in [Pids -> Nat] /\ dir.state.data \in Nat
  BY DirFields, FileFields DEF KInv, TypeOK
<1>2. pc'[p] \in {"quarantine", "ready"}
  BY DEF KInv, TypeOK
<1>3. KeptProcess(p)'
  BY <1>2 DEF KeptProcess, HasTemp, Snapshotting
<1>4. CASE dir.state.kind = "torn"
  BY <1>1, <1>3, <1>4, KeptMove
<1>5. CASE dir.state.kind # "torn"
  BY <1>1, <1>3, <1>5, KeptMove
<1> QED BY <1>4, <1>5

(* A process quarantines only where there never was an older state.        *)
LEMMA KeptQuarantine ==
  ASSUME KInv, NEW p \in Pids, Quarantine(p)
  PROVE  KInv'
<1>1. pc[p] = "quarantine" /\ dir \in Dirs /\ dir \in durables
  BY DEF Quarantine, KInv, TypeOK
<1>2. NeverOld
  BY <1>1 DEF KInv, AlwaysKept
<1>3. CASE Exists(dir.state)
  <2>1. /\ dir' = [dir EXCEPT !.state = Absent] /\ durables' = durables \cup {dir'}
        /\ pc' = [pc EXCEPT ![p] = "ready"]
        /\ UNCHANGED <<lock, mem, reader, acked, replaced, faults>>
    BY <1>3 DEF Quarantine, Change, Goto
  <2>2. dir' \in Dirs /\ dir'.state = Absent /\ dir'.snapshot = dir.snapshot
    BY <1>1, <2>1, StateUpdate, FileTypes
  <2>3. Absent.kind # "old" /\ Absent.synced
    BY DEF Absent, File
  <2>4. TypeOK' /\ pc'[p] = "ready" /\ \A q \in Pids \ {p} : pc'[q] = "down"
    BY <1>1, <2>1, <2>2, MoveTypes DEF KInv, TypeOK
  <2>5. \A q \in Pids : KeptProcess(q)'
    BY <2>4 DEF KeptProcess, HasTemp, Snapshotting
  <2>6. NeverOld' /\ \A d \in durables' : Whole(d)
    BY <1>1, <1>2, <2>1, <2>2, <2>3 DEF KInv, NeverOld, NoneOld, Whole
  <2> QED BY <2>4, <2>5, <2>6 DEF KInv
<1>4. CASE ~Exists(dir.state)
  <2>1. Exit(p) /\ UNCHANGED <<dir, durables, reader, acked, replaced, faults>>
    BY <1>4 DEF Quarantine
  <2>2. durables' = durables \cup {dir'} /\ faults' \in Nat
    BY <1>1, <2>1 DEF KInv, TypeOK
  <2> QED BY <1>1, <2>1, <2>2, KeptEnd
<1> QED BY <1>3, <1>4

LEMMA KeptCycle ==
  ASSUME KInv, NEW p \in Pids, Cycle(p)
  PROVE  KInv'
<1> USE DEF Cycle, Goto
<1>1. pc'[p] = "write" /\ mem' \in [Pids -> Nat] /\ dir \in Dirs /\ dir \in durables /\ acked \in Nat
  BY StoreAssumption DEF KInv, TypeOK
<1>2. KeptProcess(p)'
  BY <1>1 DEF KeptProcess, HasTemp, Snapshotting
<1> QED BY <1>1, <1>2, KeptMove

LEMMA KeptWriteTemp ==
  ASSUME KInv, NEW p \in Pids, WriteTemp(p)
  PROVE  KInv'
<1>1. CASE Exists(dir.temp[p])
  BY <1>1, KeptSaveError DEF WriteTemp, SaveError
<1>2. CASE ~Exists(dir.temp[p])
  <2>1. /\ pc[p] = "write" /\ pc' = [pc EXCEPT ![p] = "preserve"]
        /\ dir' = [dir EXCEPT !.temp[p] = File("current", mem[p])]
        /\ durables' = durables \cup {dir'}
        /\ UNCHANGED <<lock, mem, reader, acked, replaced, faults>>
    BY <1>2 DEF WriteTemp, Change, Goto
  <2>2. /\ dir' \in Dirs /\ dir'.state = dir.state /\ dir'.snapshot = dir.snapshot
        /\ dir'.temp[p] = File("current", mem[p])
    BY <2>1, TempUpdate, FileTypes DEF KInv, TypeOK
  <2>3. dir'.temp[p].kind = "current" /\ dir'.temp[p].synced /\ pc'[p] = "preserve"
    BY <2>1, <2>2 DEF KInv, TypeOK, File
  <2>4. KeptProcess(p)'
    BY <2>3 DEF KeptProcess, HasTemp, Snapshotting
  <2> QED BY <2>1, <2>2, <2>4, KeptMove DEF KInv, TypeOK
<1> QED BY <1>1, <1>2

LEMMA KeptPreserve ==
  ASSUME KInv, NEW p \in Pids, Preserve(p)
  PROVE  KInv'
<1> USE DEF Preserve, Goto
<1>1. /\ pc[p] = "preserve" /\ dir.temp[p].kind = "current" /\ dir.temp[p].synced
      /\ dir \in Dirs /\ dir \in durables /\ acked \in Nat /\ mem \in [Pids -> Nat]
  BY DEF KInv, TypeOK, KeptProcess, HasTemp
<1>2. CASE /\ dir.state.kind \in {"absent", "current"} \/ (dir.state.kind = "old" /\ dir.snapshot.kind = "old")
           /\ Goto(p, "rename") /\ UNCHANGED <<dir, durables, lock, mem>>
  <2>1. pc'[p] = "rename"
    BY <1>2 DEF KInv, TypeOK
  <2>2. KeptProcess(p)'
    BY <1>1, <1>2, <2>1 DEF KeptProcess, HasTemp, Snapshotting
  <2> QED BY <1>1, <1>2, <2>2, KeptMove
<1>3. CASE /\ dir.state.kind = "old" /\ ~Exists(dir.snapshot)
           /\ Goto(p, "snapwrite") /\ UNCHANGED <<dir, durables, lock, mem>>
  <2>1. pc'[p] = "snapwrite"
    BY <1>3 DEF KInv, TypeOK
  <2>2. KeptProcess(p)'
    BY <1>1, <1>3, <2>1 DEF KeptProcess, HasTemp, Snapshotting
  <2> QED BY <1>1, <1>3, <2>2, KeptMove
<1>4. CASE SaveError(p)
  BY <1>1, <1>4, KeptSaveError
<1> QED BY <1>2, <1>3, <1>4

LEMMA KeptSnapshotWrite ==
  ASSUME KInv, NEW p \in Pids, SnapshotWrite(p)
  PROVE  KInv'
<1>1. CASE Exists(dir.snaptemp[p])
  BY <1>1, KeptSaveError DEF SnapshotWrite
<1>2. CASE ~Exists(dir.snaptemp[p])
  <2>1. /\ pc[p] = "snapwrite" /\ pc' = [pc EXCEPT ![p] = "snaplink"]
        /\ dir' = [dir EXCEPT !.snaptemp[p] = dir.state]
        /\ durables' = durables \cup {dir'}
        /\ UNCHANGED <<lock, mem, reader, acked, replaced, faults>>
    BY <1>2 DEF SnapshotWrite, Change, Goto
  <2>2. /\ dir' \in Dirs /\ dir'.state = dir.state /\ dir'.snapshot = dir.snapshot
        /\ dir'.snaptemp[p] = dir.state /\ dir'.temp = dir.temp
    <3>1. dir \in Dirs /\ dir.state \in Files
      BY DirFields DEF KInv, TypeOK
    <3> QED BY <2>1, <3>1, SnaptempUpdate
  <2>3. pc'[p] = "snaplink"
    BY <2>1 DEF KInv, TypeOK
  <2>4. KeptProcess(p)'
    BY <2>1, <2>2, <2>3 DEF KInv, KeptProcess, HasTemp, Snapshotting
  <2> QED BY <2>1, <2>2, <2>4, KeptMove DEF KInv, TypeOK
<1> QED BY <1>1, <1>2

(* A step that shows a new directory of a lineage with an older state.     *)
LEMMA KeptShown ==
  ASSUME KInv, NEW p \in Pids, pc[p] # "down", lock' = lock, faults' = faults,
         NEW next, next \in {"snapsync", "dirsync"},
         pc' = [pc EXCEPT ![p] = next],
         UNCHANGED <<mem, acked, reader>>, replaced' \in Files,
         dir' \in Dirs, durables' = durables \cup {dir'}, Whole(dir'),
         KeptProcess(p)',
         \/ NeverOld /\ NoneOld(dir') /\ replaced' = replaced
         \/ AlwaysKept /\ OldKept(dir')
  PROVE  KInv'
<1>1. TypeOK' /\ pc'[p] = next /\ \A q \in Pids \ {p} : pc'[q] = "down"
  BY MoveTypes DEF KInv, TypeOK
<1>2. \A q \in Pids : KeptProcess(q)'
  BY <1>1 DEF KeptProcess, HasTemp, Snapshotting
<1>3. \A d \in durables' : Whole(d)
  BY DEF KInv
<1>4. NeverOld' \/ AlwaysKept'
  BY <1>1 DEF NeverOld, AlwaysKept
<1> QED BY <1>1, <1>2, <1>3, <1>4 DEF KInv

(* A snapshot is only published next to the older state it copies.         *)
LEMMA KeptSnapshotLink ==
  ASSUME KInv, NEW p \in Pids, SnapshotLink(p)
  PROVE  KInv'
<1>1. /\ pc[p] = "snaplink" /\ ~Exists(dir.snapshot)
      /\ dir.snaptemp[p] = dir.state /\ dir.state.kind = "old"
      /\ dir.temp[p].kind = "current" /\ dir.temp[p].synced
      /\ dir \in Dirs /\ dir \in durables
  BY DEF SnapshotLink, KInv, TypeOK, KeptProcess, HasTemp, Snapshotting
<1>2. /\ pc' = [pc EXCEPT ![p] = "snapsync"]
      /\ dir' = [dir EXCEPT !.snapshot = dir.state]
      /\ durables' = durables \cup {dir'}
      /\ UNCHANGED <<lock, mem, reader, acked, replaced, faults>>
  BY <1>1 DEF SnapshotLink, Change, Goto
<1>3. /\ dir' \in Dirs /\ dir'.state = dir.state /\ dir'.snapshot = dir.state
      /\ dir'.temp = dir.temp /\ dir'.snaptemp = dir.snaptemp
  BY <1>1, <1>2, SnapshotUpdate, DirFields
<1>4. pc'[p] = "snapsync" /\ replaced \in Files
  BY <1>2 DEF KInv, TypeOK
<1>5. KeptProcess(p)'
  BY <1>1, <1>3, <1>4 DEF KeptProcess, HasTemp, Snapshotting
<1>6. AlwaysKept /\ OldKept(dir')
  BY <1>1, <1>3 DEF KInv, NeverOld, NoneOld, AlwaysKept, OldKept, Parses
<1>7. Whole(dir')
  BY <1>1, <1>3 DEF KInv, Whole
<1> QED BY <1>1, <1>2, <1>3, <1>4, <1>5, <1>6, <1>7, KeptShown

LEMMA KeptSnapshotSync ==
  ASSUME KInv, NEW p \in Pids, SnapshotSync(p)
  PROVE  KInv'
<1> USE DEF SnapshotSync, Goto
<1>1. /\ pc'[p] = "snapclean" /\ dir \in Dirs /\ dir \in durables /\ acked \in Nat
      /\ mem \in [Pids -> Nat]
  BY DEF KInv, TypeOK
<1>2. KeptProcess(p)'
  BY <1>1 DEF KInv, KeptProcess, HasTemp, Snapshotting
<1> QED BY <1>1, <1>2, KeptMove

LEMMA KeptSnapshotClean ==
  ASSUME KInv, NEW p \in Pids, SnapshotClean(p)
  PROVE  KInv'
<1>1. /\ pc[p] = "snapclean" /\ pc' = [pc EXCEPT ![p] = "rename"]
      /\ dir' = [dir EXCEPT !.snaptemp[p] = Absent]
      /\ durables' = durables \cup {dir'}
      /\ UNCHANGED <<lock, mem, reader, acked, replaced, faults>>
  BY DEF SnapshotClean, Change, Goto
<1>2. /\ dir' \in Dirs /\ dir'.state = dir.state /\ dir'.snapshot = dir.snapshot
      /\ dir'.temp = dir.temp
  BY <1>1, SnaptempUpdate, FileTypes DEF KInv, TypeOK
<1>3. pc'[p] = "rename"
  BY <1>1 DEF KInv, TypeOK
<1>4. KeptProcess(p)'
  BY <1>1, <1>2, <1>3 DEF KInv, KeptProcess, HasTemp, Snapshotting
<1> QED BY <1>1, <1>2, <1>4, KeptMove DEF KInv, TypeOK

(* The rename replaces an older state only when there is a snapshot.       *)
LEMMA KeptRename ==
  ASSUME KInv, NEW p \in Pids, Rename(p)
  PROVE  KInv'
<1>1. /\ pc[p] = "rename" /\ dir.temp[p].kind = "current" /\ dir.temp[p].synced
      /\ dir.state.kind # "old" \/ dir.snapshot.kind = "old"
      /\ dir \in Dirs /\ dir \in durables
  BY DEF Rename, KInv, TypeOK, KeptProcess, HasTemp
<1>2. /\ pc' = [pc EXCEPT ![p] = "dirsync"]
      /\ dir' = [dir EXCEPT !.state = dir.temp[p], !.temp[p] = Absent]
      /\ durables' = durables \cup {dir'}
      /\ replaced' = IF dir.state.kind = "old" /\ ~Exists(replaced) THEN dir.state ELSE replaced
      /\ UNCHANGED <<lock, mem, reader, acked, faults>>
  BY DEF Rename, Change, Goto
<1>3. dir.temp[p] \in Files /\ dir.state \in Files /\ Absent \in Files
  BY <1>1, DirFields, FileTypes
<1>4. dir' \in Dirs /\ dir'.state = dir.temp[p] /\ dir'.snapshot = dir.snapshot
  BY <1>1, <1>2, <1>3 DEF Dirs
<1>5. pc'[p] = "dirsync" /\ replaced' \in Files
  BY <1>2, <1>3 DEF KInv, TypeOK
<1>6. KeptProcess(p)'
  BY <1>5 DEF KeptProcess, HasTemp, Snapshotting
<1>7. Whole(dir')
  BY <1>1, <1>4 DEF KInv, Whole
<1>8. CASE NeverOld
  <2>1. replaced' = replaced /\ NoneOld(dir')
    BY <1>1, <1>2, <1>4, <1>8 DEF NeverOld, NoneOld
  <2> QED BY <1>1, <1>2, <1>4, <1>5, <1>6, <1>7, <1>8, <2>1, KeptShown
<1>9. CASE AlwaysKept
  <2>1. OldKept(dir')
    BY <1>1, <1>4, <1>9 DEF AlwaysKept, OldKept, Parses
  <2> QED BY <1>1, <1>2, <1>4, <1>5, <1>6, <1>7, <1>9, <2>1, KeptShown
<1> QED BY <1>8, <1>9 DEF KInv

LEMMA KeptDirectorySync ==
  ASSUME KInv, NEW p \in Pids, DirectorySync(p)
  PROVE  KInv'
<1> USE DEF DirectorySync, Goto
<1>1. /\ pc'[p] = "ready" /\ dir \in Dirs /\ dir \in durables /\ mem \in [Pids -> Nat]
      /\ acked' \in Nat
  BY DEF KInv, TypeOK
<1>2. KeptProcess(p)'
  BY <1>1 DEF KeptProcess, HasTemp, Snapshotting
<1> QED BY <1>1, <1>2, KeptMove

-----------------------------------------------------------------------------
LEMMA KeptSaveFails ==
  ASSUME KInv, NEW p \in Pids, SaveFails(p)
  PROVE  KInv'
<1>1. pc[p] # "down" /\ Exit(p) /\ faults' \in Nat /\ UNCHANGED <<reader, acked, replaced>>
  BY DEF SaveFails, Faulty, KInv, TypeOK
<1> DEFINE left == IF pc[p] \in {"snaplink", "snapsync"} THEN Absent ELSE dir.snaptemp[p]
<1>2. /\ dir' = [dir EXCEPT !.temp[p] = Absent, !.snaptemp[p] = left]
      /\ durables' = durables \cup {dir'}
  BY DEF SaveFails, Change
<1>3. dir \in Dirs /\ left \in Files
  BY DirFields, FileTypes DEF KInv, TypeOK
<1> HIDE DEF left
<1>4. dir' \in Dirs /\ dir'.state = dir.state /\ dir'.snapshot = dir.snapshot
  <2>1. Absent \in Files
    BY FileTypes
  <2> QED BY <1>2, <1>3, <2>1 DEF Dirs
<1> QED BY <1>1, <1>2, <1>4, KeptEnd

LEMMA KeptKilled ==
  ASSUME KInv, NEW p \in Pids, Killed(p)
  PROVE  KInv'
<1>1. /\ pc[p] # "down" /\ Exit(p) /\ faults' \in Nat
      /\ UNCHANGED <<dir, durables, reader, acked, replaced>>
  BY DEF Killed, Faulty, KInv, TypeOK
<1>2. dir' \in Dirs /\ durables' = durables \cup {dir'}
  BY <1>1 DEF KInv, TypeOK
<1> QED BY <1>1, <1>2, KeptEnd

LEMMA KeptPowerLoss ==
  ASSUME KInv, PowerLoss
  PROVE  KInv'
<1>1. PICK d \in durables : dir' = [d EXCEPT !.state = Torn(@), !.snapshot = Torn(@)]
  BY DEF PowerLoss
<1>2. d \in Dirs /\ Whole(d)
  BY DEF KInv, TypeOK
<1>3. dir' = d
  BY <1>1, <1>2 DEF Dirs, Whole, Torn
<1>4. /\ durables' = {d} /\ lock' = Nobody
      /\ pc' = [p \in Pids |-> "down"] /\ mem' = [p \in Pids |-> 0] /\ reader' = "idle"
      /\ faults' \in Nat /\ UNCHANGED <<acked, replaced>>
  BY <1>3 DEF PowerLoss, Faulty, KInv, TypeOK
<1>5. TypeOK'
  BY <1>2, <1>3, <1>4, StoreAssumption DEF KInv, TypeOK
<1>6. \A p \in Pids : pc'[p] = "down" /\ KeptProcess(p)'
  BY <1>4 DEF KeptProcess, HasTemp, Snapshotting
<1>7. NeverOld => NeverOld'
  BY <1>4 DEF NeverOld, NoneOld
<1>8. AlwaysKept => AlwaysKept'
  BY <1>4, <1>6 DEF AlwaysKept, OldKept
<1> QED BY <1>2, <1>4, <1>5, <1>6, <1>7, <1>8 DEF KInv, Whole

(* A reader finds a torn file, and moves one aside, only where there never *)
(* was an older state: no save can be at its snapshot.                     *)
LEMMA KeptReader ==
  ASSUME KInv, ReaderLoad \/ ReaderQuarantine
  PROVE  KInv'
<1>1. dir \in Dirs /\ dir \in durables
  BY DEF KInv, TypeOK
<1>2. CASE ReaderLoad
  <2>1. NeverOld
    BY <1>1, <1>2 DEF ReaderLoad, KInv, AlwaysKept, OldKept, Parses
  <2>2. NeverOld' /\ TypeOK' /\ \A p \in Pids : KeptProcess(p)'
    BY <1>2, <2>1 DEF ReaderLoad, KInv, TypeOK, NeverOld, NoneOld, KeptProcess
  <2> QED BY <1>2, <2>2 DEF ReaderLoad, KInv, Whole
<1>3. CASE ReaderQuarantine
  <2>1. NeverOld
    BY <1>3 DEF ReaderQuarantine, KInv, AlwaysKept
  <2>2. /\ dir' = [dir EXCEPT !.state = Absent] /\ durables' = durables \cup {dir'}
        /\ reader' = "idle" /\ UNCHANGED <<lock, pc, mem, acked, replaced, faults>>
    BY <1>3 DEF ReaderQuarantine, Change
  <2>3. /\ dir' \in Dirs /\ dir'.state = Absent /\ dir'.snapshot = dir.snapshot
        /\ dir'.temp = dir.temp
    BY <1>1, <2>2, StateUpdate, FileTypes DEF Dirs
  <2>4. Absent.kind # "old" /\ Absent.synced
    BY DEF Absent, File
  <2>5. TypeOK'
    BY <2>2, <2>3 DEF KInv, TypeOK
  <2>6. ASSUME NEW p \in Pids PROVE KeptProcess(p)'
    <3>1. KeptProcess(p) /\ pc[p] \notin Snapshotting
      BY <1>1, <2>1 DEF KInv, KeptProcess, NeverOld, NoneOld
    <3> QED BY <2>2, <2>3, <2>4, <3>1 DEF KeptProcess, HasTemp, Snapshotting
  <2>7. NeverOld' /\ \A d \in durables' : Whole(d)
    BY <1>1, <2>1, <2>2, <2>3, <2>4 DEF KInv, NeverOld, NoneOld, Whole
  <2> QED BY <2>5, <2>6, <2>7 DEF KInv
<1> QED BY <1>2, <1>3

(* Only while no governor runs does the previous release write the state,  *)
(* or the snapshot come back.                                              *)
LEMMA KeptOldRelease ==
  ASSUME KInv, OldBinaryRuns \/ RestoreSnapshot
  PROVE  KInv'
<1>1. dir \in Dirs /\ dir \in durables /\ dir.state \in Files /\ dir.snapshot \in Files
  BY DEF KInv, TypeOK, Dirs
<1>2. /\ dir' \in Dirs /\ durables' = {dir'} /\ dir'.snapshot = dir.snapshot
      /\ dir'.state.kind = "old" /\ dir'.state.synced /\ acked' \in Nat
      /\ UNCHANGED <<lock, pc, mem, reader, replaced, faults>>
  <2>1. CASE OldBinaryRuns
    <3>1. /\ dir' = [dir EXCEPT !.state = [dir.state EXCEPT !.data = dir.state.data + 1]]
          /\ dir.state.kind = "old" /\ durables' = {dir'} /\ acked' = dir'.state.data
          /\ UNCHANGED <<lock, pc, mem, reader, replaced, faults>>
      BY <1>1, <2>1 DEF OldBinaryRuns
    <3> DEFINE new == [dir.state EXCEPT !.data = dir.state.data + 1]
    <3>2. new \in Files /\ new.kind = dir.state.kind /\ new.synced = dir.state.synced
      BY <1>1 DEF Files
    <3>3. new.data \in Nat /\ dir.state.synced
      BY <1>1, <3>2, FileFields DEF KInv, Whole
    <3>4. dir' = [dir EXCEPT !.state = new]
      BY <3>1
    <3> HIDE DEF new
    <3>5. dir' \in Dirs /\ dir'.state = new /\ dir'.snapshot = dir.snapshot
      BY <1>1, <3>2, <3>4, StateUpdate
    <3> QED BY <3>1, <3>2, <3>3, <3>5
  <2>2. CASE RestoreSnapshot
    <3>1. dir' \in Dirs /\ dir'.state = dir.snapshot /\ dir'.snapshot = dir.snapshot
      BY <1>1, <2>2, StateUpdate DEF RestoreSnapshot
    <3> QED BY <1>1, <2>2, <3>1, FileFields DEF RestoreSnapshot, KInv, Whole
  <2> QED BY <2>1, <2>2
<1>3. \A p \in Pids : pc[p] = "down"
  BY StoreAssumption DEF OldBinaryRuns, RestoreSnapshot, KInv, TypeOK
<1>4. TypeOK'
  BY <1>2 DEF KInv, TypeOK
<1>5. \A p \in Pids : KeptProcess(p)'
  BY <1>2, <1>3 DEF KeptProcess, HasTemp, Snapshotting
<1>6. AlwaysKept
  BY <1>1 DEF KInv, NeverOld, NoneOld, OldBinaryRuns, RestoreSnapshot
<1>7. AlwaysKept' /\ \A d \in durables' : Whole(d)
  BY <1>1, <1>2, <1>6 DEF KInv, AlwaysKept, OldKept, Parses, Whole
<1> QED BY <1>4, <1>5, <1>7 DEF KInv

LEMMA KeptNext == KInv /\ [Next]_vars => KInv'
<1>1. KInv /\ UNCHANGED vars => KInv'
  BY DEF KInv, TypeOK, vars, KeptProcess, NeverOld, AlwaysKept
<1> SUFFICES ASSUME KInv, Next PROVE KInv'
  BY <1>1
<1>2. ASSUME NEW p \in Pids, Start(p) \/ Step(p) \/ SaveFails(p) \/ Killed(p) PROVE KInv'
  <2>1. CASE Step(p)
    BY <2>1, KeptLoad, KeptQuarantine, KeptCycle, KeptWriteTemp, KeptPreserve, KeptSnapshotWrite,
       KeptSnapshotLink, KeptSnapshotSync, KeptSnapshotClean, KeptRename, KeptDirectorySync DEF Step
  <2> QED BY <1>2, <2>1, KeptStart, KeptSaveFails, KeptKilled
<1> QED BY <1>2, KeptPowerLoss, KeptReader, KeptOldRelease DEF Next

(* Whatever fails, and whoever reads or rolls back, the lock excludes and  *)
(* the types hold.                                                         *)
THEOREM StoreTypeCorrect == Spec => []TypeOK
<1>1. KInv => TypeOK
  BY DEF KInv
<1> QED BY <1>1, KeptInit, KeptNext, PTL DEF Spec

(* README 81: with the previous release started in between and peers       *)
(* reading the file, once a v8 state has replaced an older one an older    *)
(* state to go back to is on disk, whatever a power loss leaves.           *)
THEOREM RollbackStaysAvailable == Spec => []RollbackAvailable
<1>1. KInv => RollbackAvailable
  BY DEF KInv, NeverOld, AlwaysKept, OldKept, Whole, RollbackAvailable
<1> QED BY <1>1, KeptInit, KeptNext, PTL DEF Spec
=============================================================================
