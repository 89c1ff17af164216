----------------------------- MODULE StateStore -----------------------------
(***************************************************************************)
(* The governor's state file: StateLock, State::load with its quarantine,  *)
(* State::save with the one-time copy of a pre-v8 file, step by step, with *)
(* the process killed, the power lost or a system call failing in between. *)
(*                                                                         *)
(* A process is named by its pid, which is part of its temporary file      *)
(* names; a pid may be used again.  The directory is what processes see.   *)
(* Until the directory is synced a power loss may bring back any of the    *)
(* directories since the last sync (a journal keeps them in order), and a  *)
(* file that was not synced comes back torn.                               *)
(*                                                                         *)
(* The contents of a state file are abstracted to its schema ("old",       *)
(* "current", or "torn" when it does not parse; a newer schema is only     *)
(* ever refused and is left out) and to a number that grows with every     *)
(* cycle.  mem is the state a governor holds in memory.                    *)
(***************************************************************************)
EXTENDS Naturals

CONSTANTS
  Pids,       \* process ids of governor processes
  Initial,    \* kinds of state file the installation may start with
  Snapshots,  \* kinds of rollback snapshot it may start with
  MaxData,    \* bound on the number of recorded cycles
  MaxFaults,  \* bound on kills, power losses and failed calls
  Faults      \* subset of AllFaults

(* "kill", "power", "io" as above; "reader": a peer runs `peer-state`;     *)
(* "oldbinary": the previous release is started on the same file.          *)
AllFaults == {"kill", "power", "io", "reader", "oldbinary"}

Kinds == {"absent", "torn", "old", "current"}

Nobody == "nobody"

ASSUME StoreAssumption ==
  /\ Nobody \notin Pids
  /\ Initial \subseteq Kinds /\ Snapshots \subseteq Kinds \ {"old"}
  /\ MaxData \in Nat /\ MaxFaults \in Nat
  /\ Faults \subseteq AllFaults

VARIABLES
  dir,      \* the state directory
  durables, \* directories a power loss may leave
  lock,     \* holder of the state lock, or Nobody
  pc, mem,  \* per governor process
  reader,   \* what the unlocked reader is about to do
  acked,    \* history: newest cycle whose save was reported done
  replaced, \* history: the old file the first current save replaced
  faults    \* faults so far

vars == <<dir, durables, lock, pc, mem, reader, acked, replaced, faults>>

File(kind, data) == [kind |-> kind, data |-> data, synced |-> TRUE]
Absent == File("absent", 0)
Exists(f) == f.kind # "absent"
Parses(f) == f.kind \in {"old", "current"}

Init ==
  /\ \E kind \in Initial, snap \in Snapshots :
       /\ dir = [state |-> IF kind \in {"old", "current"} THEN File(kind, 1) ELSE File(kind, 0),
                 snapshot |-> File(snap, 0),
                 temp |-> [p \in Pids |-> Absent],
                 snaptemp |-> [p \in Pids |-> Absent]]
       /\ acked = IF kind \in {"old", "current"} THEN 1 ELSE 0
  /\ durables = {dir}
  /\ lock = Nobody
  /\ pc = [p \in Pids |-> "down"]
  /\ mem = [p \in Pids |-> 0]
  /\ reader = "idle"
  /\ replaced = Absent
  /\ faults = 0

Goto(p, next) == pc' = [pc EXCEPT ![p] = next]

(* A directory operation is visible at once and durable some time later.   *)
Change(newDir) == dir' = newDir /\ durables' = durables \cup {newDir}

(* The process ends: its memory is gone and the kernel drops the lock.     *)
Exit(p) ==
  /\ Goto(p, "down")
  /\ mem' = [mem EXCEPT ![p] = 0]
  /\ lock' = Nobody

-----------------------------------------------------------------------------
(* StateLock::acquire; a process that finds the lock held just exits.      *)
Start(p) ==
  /\ pc[p] = "down"
  /\ lock = Nobody
  /\ lock' = p
  /\ Goto(p, "load")
  /\ UNCHANGED <<dir, durables, mem, reader, acked, replaced, faults>>

(* State::load: a missing file is a first run, an older schema is adopted, *)
(* a file that does not parse is about to be moved aside.                  *)
LoadCurrentOnly(p) ==  \* variant: does not migrate an older schema
  /\ pc[p] = "load"
  /\ IF dir.state.kind = "current"
     THEN mem' = [mem EXCEPT ![p] = dir.state.data] /\ Goto(p, "ready") /\ lock' = lock
     ELSE Exit(p)
  /\ UNCHANGED <<dir, durables, reader, acked, replaced, faults>>

Load(p) ==
  /\ pc[p] = "load"
  /\ IF dir.state.kind = "torn"
     THEN Goto(p, "quarantine") /\ mem' = mem
     ELSE Goto(p, "ready") /\ mem' = [mem EXCEPT ![p] = dir.state.data]
  /\ UNCHANGED <<dir, durables, lock, reader, acked, replaced, faults>>

(* The rename moves whatever now has the name; a missing file is an error. *)
Quarantine(p) ==
  /\ pc[p] = "quarantine"
  /\ IF Exists(dir.state)
     THEN /\ Change([dir EXCEPT !.state = Absent])
          /\ Goto(p, "ready")
          /\ UNCHANGED <<mem, lock>>
     ELSE Exit(p) /\ UNCHANGED <<dir, durables>>
  /\ UNCHANGED <<reader, acked, replaced, faults>>

(* run_cycle changes the state in memory; run then saves it.               *)
Cycle(p) ==
  /\ pc[p] = "ready"
  /\ mem' = [mem EXCEPT ![p] = IF @ < MaxData THEN @ + 1 ELSE @]
  /\ Goto(p, "write")
  /\ UNCHANGED <<dir, durables, lock, reader, acked, replaced, faults>>

-----------------------------------------------------------------------------
(* State::save.  Creating, writing and syncing the temporary file is one   *)
(* step: what a kill leaves of it is never read.  create_new refuses a     *)
(* leftover of the same pid; the error path then removes it.               *)
WriteTemp(p) ==
  /\ pc[p] = "write"
  /\ IF Exists(dir.temp[p])
     THEN /\ Change([dir EXCEPT !.temp[p] = Absent])
          /\ Exit(p)
     ELSE /\ Change([dir EXCEPT !.temp[p] = File("current", mem[p])])
          /\ Goto(p, "preserve")
          /\ UNCHANGED <<lock, mem>>
  /\ UNCHANGED <<reader, acked, replaced, faults>>

(* save's error path, and run's: the temporary file goes, run returns.     *)
SaveError(p) ==
  /\ Change([dir EXCEPT !.temp[p] = Absent])
  /\ Exit(p)

PreserveParsed(p) ==  \* variant: trusts the defaulted schema version
  /\ pc[p] = "preserve"
  /\ Goto(p, "rename")
  /\ UNCHANGED <<dir, durables, lock, mem, reader, acked, replaced, faults>>

(* preserve_pre_migration_state: nothing to keep for a missing or current  *)
(* file; an older one needs a snapshot, and a published one is accepted    *)
(* when it is itself an older state.                                       *)
Preserve(p) ==
  /\ pc[p] = "preserve"
  /\ \/ /\ dir.state.kind \in {"absent", "current"} \/ (dir.state.kind = "old" /\ dir.snapshot.kind = "old")
        /\ Goto(p, "rename")
        /\ UNCHANGED <<dir, durables, lock, mem>>
     \/ /\ dir.state.kind = "old" /\ ~Exists(dir.snapshot)
        /\ Goto(p, "snapwrite")
        /\ UNCHANGED <<dir, durables, lock, mem>>
     \/ /\ dir.state.kind = "torn" \/ (dir.state.kind = "old" /\ dir.snapshot.kind \in {"torn", "current"})
        /\ SaveError(p)
  /\ UNCHANGED <<reader, acked, replaced, faults>>

SnapshotOfNew(p) ==  \* variant: copies the file being saved
  /\ pc[p] = "snapwrite"
  /\ Change([dir EXCEPT !.snaptemp[p] = dir.temp[p]])
  /\ Goto(p, "snaplink")
  /\ UNCHANGED <<lock, mem, reader, acked, replaced, faults>>

(* A leftover snapshot temporary of the same pid is an error, and stays.   *)
SnapshotWrite(p) ==
  /\ pc[p] = "snapwrite"
  /\ IF Exists(dir.snaptemp[p])
     THEN SaveError(p)
     ELSE /\ Change([dir EXCEPT !.snaptemp[p] = dir.state])
          /\ Goto(p, "snaplink")
          /\ UNCHANGED <<lock, mem>>
  /\ UNCHANGED <<reader, acked, replaced, faults>>

(* hard_link publishes the synced copy unless a snapshot is there already. *)
SnapshotLink(p) ==
  /\ pc[p] = "snaplink"
  /\ IF Exists(dir.snapshot)
     THEN Goto(p, "snapclean") /\ UNCHANGED <<dir, durables>>
     ELSE Goto(p, "snapsync") /\ Change([dir EXCEPT !.snapshot = dir.snaptemp[p]])
  /\ UNCHANGED <<lock, mem, reader, acked, replaced, faults>>

SnapshotSync(p) ==
  /\ pc[p] = "snapsync"
  /\ durables' = {dir}
  /\ Goto(p, "snapclean")
  /\ UNCHANGED <<dir, lock, mem, reader, acked, replaced, faults>>

SnapshotClean(p) ==
  /\ pc[p] = "snapclean"
  /\ Change([dir EXCEPT !.snaptemp[p] = Absent])
  /\ Goto(p, "rename")
  /\ UNCHANGED <<lock, mem, reader, acked, replaced, faults>>

(* The rename replaces the state file by the synced temporary file.        *)
Rename(p) ==
  /\ pc[p] = "rename"
  /\ Change([dir EXCEPT !.state = dir.temp[p], !.temp[p] = Absent])
  /\ replaced' = IF dir.state.kind = "old" /\ ~Exists(replaced) THEN dir.state ELSE replaced
  /\ Goto(p, "dirsync")
  /\ UNCHANGED <<lock, mem, reader, acked, faults>>

(* sync_directory, after which save returns Ok.                            *)
AckWithoutSync(p) ==  \* variant: the directory is not synced
  /\ pc[p] = "dirsync"
  /\ acked' = mem[p]
  /\ Goto(p, "ready")
  /\ UNCHANGED <<dir, durables, lock, mem, reader, replaced, faults>>

DirectorySync(p) ==
  /\ pc[p] = "dirsync"
  /\ durables' = {dir}
  /\ acked' = mem[p]
  /\ Goto(p, "ready")
  /\ UNCHANGED <<dir, lock, mem, reader, replaced, faults>>

-----------------------------------------------------------------------------
Faulty(f) == f \in Faults /\ faults < MaxFaults /\ faults' = faults + 1

(* A call of save fails: both temporaries this save created are removed.   *)
SaveFails(p) ==
  /\ Faulty("io")
  /\ pc[p] \in {"write", "preserve", "snapwrite", "snaplink", "snapsync", "rename",
                "dirsync"}
  /\ Change([dir EXCEPT !.temp[p] = Absent,
                        !.snaptemp[p] = IF pc[p] \in {"snaplink", "snapsync"}
                                        THEN Absent ELSE @])
  /\ Exit(p)
  /\ UNCHANGED <<reader, acked, replaced>>

Killed(p) ==
  /\ Faulty("kill")
  /\ pc[p] # "down"
  /\ Exit(p)
  /\ UNCHANGED <<dir, durables, reader, acked, replaced>>

Torn(f) == IF f.synced THEN f ELSE File("torn", 0)

PowerLoss ==
  /\ Faulty("power")
  /\ \E d \in durables : dir' = [d EXCEPT !.state = Torn(@), !.snapshot = Torn(@)]
  /\ durables' = {dir'}
  /\ lock' = Nobody
  /\ pc' = [p \in Pids |-> "down"]
  /\ mem' = [p \in Pids |-> 0]
  /\ reader' = "idle"
  /\ UNCHANGED <<acked, replaced>>

(* `subgov peer-state` loads the state without the lock, quarantine        *)
(* included.                                                               *)
ReaderLoad ==
  /\ "reader" \in Faults
  /\ reader = "idle"
  /\ dir.state.kind = "torn"
  /\ reader' = "quarantine"
  /\ UNCHANGED <<dir, durables, lock, pc, mem, acked, replaced, faults>>

ReaderQuarantine ==
  /\ reader = "quarantine"
  /\ Change([dir EXCEPT !.state = Absent])
  /\ reader' = "idle"
  /\ UNCHANGED <<lock, pc, mem, acked, replaced, faults>>

(* While no governor runs, the previous release may be started again: it   *)
(* runs a cycle on an old file and saves it durably.                       *)
OldBinaryRuns ==
  /\ "oldbinary" \in Faults
  /\ lock = Nobody
  /\ dir.state.kind = "old" /\ dir.state.data < MaxData
  /\ dir' = [dir EXCEPT !.state.data = @ + 1]
  /\ durables' = {dir'}
  /\ acked' = dir'.state.data
  /\ UNCHANGED <<lock, pc, mem, reader, replaced, faults>>

(* The documented rollback: with the governor stopped, the snapshot is     *)
(* copied back.                                                            *)
RestoreSnapshot ==
  /\ "oldbinary" \in Faults
  /\ lock = Nobody
  /\ dir.snapshot.kind = "old" /\ dir.state.kind = "current"
  /\ dir' = [dir EXCEPT !.state = dir.snapshot]
  /\ durables' = {dir'}
  /\ acked' = dir.snapshot.data
  /\ UNCHANGED <<lock, pc, mem, reader, replaced, faults>>

Step(p) ==
  \/ Load(p)
  \/ Quarantine(p)
  \/ Cycle(p)
  \/ WriteTemp(p)
  \/ Preserve(p)
  \/ SnapshotWrite(p)
  \/ SnapshotLink(p)
  \/ SnapshotSync(p)
  \/ SnapshotClean(p)
  \/ Rename(p)
  \/ DirectorySync(p)

Next ==
  \/ \E p \in Pids : Start(p) \/ Step(p) \/ SaveFails(p) \/ Killed(p)
  \/ PowerLoss
  \/ ReaderLoad
  \/ ReaderQuarantine
  \/ OldBinaryRuns
  \/ RestoreSnapshot

Spec == Init /\ [][Next]_vars

(* A running governor goes on, and the service manager restarts one that   *)
(* ended, sooner or later under each pid.                                  *)
FairSpec ==
  Spec /\ \A p \in Pids : WF_vars(Step(p)) /\ SF_vars(Start(p))

-----------------------------------------------------------------------------
Files == [kind : Kinds, data : Nat, synced : BOOLEAN]
Dirs == [state : Files, snapshot : Files, temp : [Pids -> Files], snaptemp : [Pids -> Files]]

(* The types, and that the lock's holder is the one process that runs.     *)
TypeOK ==
  /\ dir \in Dirs
  /\ dir \in durables /\ durables \subseteq Dirs
  /\ lock \in Pids \cup {Nobody}
  /\ pc \in [Pids -> {"down", "load", "quarantine", "ready", "write", "preserve", "snapwrite",
                      "snaplink", "snapsync", "snapclean", "rename", "dirsync"}]
  /\ \A p \in Pids : pc[p] # "down" <=> lock = p
  /\ mem \in [Pids -> Nat]
  /\ reader \in {"idle", "quarantine"}
  /\ acked \in Nat /\ faults \in Nat
  /\ replaced \in Files

(* plan 729: whatever the power leaves, the newest acknowledged state, or  *)
(* a newer one, is there and parses.                                       *)
AcknowledgedSurvives ==
  \A d \in durables :
    acked > 0 => Parses(d.state) /\ d.state.synced /\ d.state.data >= acked

(* README 81: before a v8 state first takes the place of an older file,    *)
(* exactly that older file is kept, and stays kept whatever the power      *)
(* leaves.                                                                 *)
RollbackIsExact ==
  \A d \in durables :
    d.state.kind = "current" /\ Exists(replaced) => d.snapshot = replaced

(* Weaker, but also with the previous release started in between and peers *)
(* reading: once a v8 state has replaced an older one, an older state to   *)
(* go back to is always on disk.                                           *)
RollbackAvailable ==
  \A d \in durables :
    d.state.kind = "current" /\ Exists(replaced) => d.snapshot.kind = "old" /\ d.snapshot.synced

(* However often the governor was killed or failed, its restarts get       *)
(* through: in the end the file is a current one that holds every cycle.   *)
(* (A snapshot that is no older state blocks the migration by design.)     *)
SaveCompletes ==
  dir.snapshot.kind \in {"absent", "old"} =>
    <>[](dir.state.kind = "current" /\ dir.state.data = MaxData)
=============================================================================
