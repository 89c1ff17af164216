---------------------------- MODULE ChildProcess ----------------------------
(***************************************************************************)
(* How the governor runs an external command, in its three forms:          *)
(*   "read"    reads stdout to its end within the timeout, then waits for  *)
(*             the exit status (command quota sources and observers);      *)
(*   "capture" the same, with a timeout on the wait as well (tmux);        *)
(*   "wait"    reads nothing and polls for the exit (actuators, needle).   *)
(*                                                                         *)
(* The command is the leader of a new process group.  It may fork a member *)
(* of the group, which may become a daemon: close its stdout and leave the *)
(* group (setsid).  ChildFaults adds a leader that closes its stdout and   *)
(* goes on, and a daemon that keeps the pipe.                              *)
(***************************************************************************)
EXTENDS Naturals

CONSTANTS
  Runners,     \* the forms in use
  ChildFaults  \* subset of {"leader_closes", "daemon_keeps"}

Processes == {"leader", "member"}

ASSUME ChildAssumption ==
  /\ Runners \subseteq {"read", "capture", "wait"}
  /\ ChildFaults \subseteq {"leader_closes", "daemon_keeps"}

VARIABLES
  runner,   \* the form of the call in progress
  call,     \* "idle", "reading", "joining" (after a kill) or "waiting"
  result,   \* of the last call: "none", "ok", "failed", "timed_out", "too_large"
  alive,    \* the processes of the last call that still run
  group,    \* those of them that a signal to the group reaches
  writers   \* those that hold the stdout pipe open

childVars == <<runner, call, result, alive, group, writers>>

ChildInit ==
  /\ runner = "wait" /\ call = "idle" /\ result = "none"
  /\ alive = {} /\ group = {} /\ writers = {}

Reads == runner \in {"read", "capture"}

(* new_process_group_command and spawn.  What an earlier call left behind  *)
(* is not tracked any further.                                             *)
Spawn(r) ==
  /\ call = "idle"
  /\ runner' = r
  /\ call' = IF r = "wait" THEN "waiting" ELSE "reading"
  /\ result' = "none"
  /\ alive' = {"leader"} /\ group' = {"leader"}
  /\ writers' = IF r = "wait" THEN {} ELSE {"leader"}

(* The reader thread saw the end of the output: nobody can write to it.    *)
OutputEnds ==
  /\ call = "reading" /\ writers = {}
  /\ call' = "waiting"
  /\ UNCHANGED <<runner, result, alive, group, writers>>

KillLeader ==  \* variant: only the immediate child is killed
  /\ alive' = alive \ {"leader"}
  /\ group' = group \ {"leader"}
  /\ writers' = writers \ {"leader"}

(* kill_child_tree: the group is killed and the leader is reaped.          *)
KillTree ==
  /\ alive' = alive \ group
  /\ group' = {}
  /\ writers' = writers \ group

(* read_bounded stopped at its limit: the reader is done, the tree goes.   *)
OutputTooLarge ==
  /\ call = "reading" /\ writers # {}
  /\ KillTree
  /\ result' = "too_large" /\ call' = "idle"
  /\ UNCHANGED runner

(* The deadline passes while the output is still open: the tree is killed  *)
(* and the reader thread is joined, which returns when the pipe is closed. *)
ReadTimesOut ==
  /\ call = "reading" /\ writers # {}
  /\ KillTree
  /\ result' = "timed_out" /\ call' = "joining"
  /\ UNCHANGED runner

ReaderJoined ==
  /\ call = "joining" /\ writers = {}
  /\ call' = "idle"
  /\ UNCHANGED <<runner, result, alive, group, writers>>

(* child.wait or wait_with_timeout returns: the leader has exited.         *)
Reaped ==
  /\ call = "waiting" /\ "leader" \notin alive
  /\ call' = "idle"
  /\ result' \in {"ok", "failed"}
  /\ UNCHANGED <<runner, alive, group, writers>>

(* wait_with_timeout gives up; the "read" form waits without a deadline.   *)
WaitTimesOut ==
  /\ call = "waiting" /\ runner # "read" /\ "leader" \in alive
  /\ KillTree
  /\ result' = "timed_out" /\ call' = "idle"
  /\ UNCHANGED runner

-----------------------------------------------------------------------------
(* The command and its children.                                           *)
Forks ==
  /\ "leader" \in alive /\ "member" \notin alive
  /\ alive' = alive \cup {"member"}
  /\ group' = group \cup {"member"}
  /\ writers' = writers \cup (IF "leader" \in writers THEN {"member"} ELSE {})
  /\ UNCHANGED <<runner, call, result>>

Exits(p) ==
  /\ p \in alive
  /\ alive' = alive \ {p} /\ group' = group \ {p} /\ writers' = writers \ {p}
  /\ UNCHANGED <<runner, call, result>>

ClosesStdout(p) ==
  /\ p \in writers
  /\ p = "member" \/ "leader_closes" \in ChildFaults
  /\ writers' = writers \ {p}
  /\ UNCHANGED <<runner, call, result, alive, group>>

LeavesGroup ==
  /\ "member" \in group
  /\ "member" \notin writers \/ "daemon_keeps" \in ChildFaults
  /\ group' = group \ {"member"}
  /\ UNCHANGED <<runner, call, result, alive, writers>>

CommandSteps ==
  \/ Forks \/ LeavesGroup
  \/ \E p \in Processes : Exits(p) \/ ClosesStdout(p)

(* The governor's own steps: never blocked except by the conditions above. *)
CallSteps ==
  \/ OutputEnds \/ OutputTooLarge \/ ReadTimesOut \/ ReaderJoined
  \/ Reaped \/ WaitTimesOut

-----------------------------------------------------------------------------
(* A call that was cut off leaves nothing of its process group running:    *)
(* a timed-out or oversized command cannot go on acting behind the         *)
(* governor's back (kill_child_tree: "kill the complete child process      *)
(* group").                                                                *)
CutOffLeavesNothing ==
  call = "idle" /\ result \in {"timed_out", "too_large"} => group = {}

(* The timeout is a ceiling on how long a command and everything it spawns *)
(* may keep the governor: every call ends.                                 *)
CommandEnds == (call # "idle") ~> (call = "idle")
=============================================================================
