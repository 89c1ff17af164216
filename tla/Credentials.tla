---------------------------- MODULE Credentials ----------------------------
(***************************************************************************)
(* The OAuth credentials file that governors and Claude Code share         *)
(* (obtain_access_token and what it calls).  A governor locks the file it  *)
(* opened, reads it, and either returns the fresh access token or spends   *)
(* the refresh token at the provider, reads the file again, and installs   *)
(* the answer with a rename unless another process rotated it meanwhile.   *)
(*                                                                         *)
(* The lock belongs to the open inode, and every rename makes a new one.   *)
(* Claude Code is external and takes no lock; the provider is external and *)
(* accepts a refresh token once, answering with its successor.             *)
(***************************************************************************)
EXTENDS Naturals

CONSTANTS
  Governors,  \* processes (or accounts) sharing the file
  MaxToken,   \* bound: token numbers after which nothing expires any more
  MaxCrashes, \* bound: crashes of governors
  Faults      \* subset of {"crash", "io", "lost", "refused", "login"}

ASSUME CredentialsAssumption ==
  /\ MaxToken \in Nat /\ MaxCrashes \in Nat
  /\ Faults \subseteq {"crash", "io", "lost", "refused", "login"}

Phases == {"idle", "waiting", "locked", "requesting", "answered", "installing", "fetching"}
Critical == {"locked", "requesting", "answered", "installing"}
NoToken == 0

VARIABLES
  file,    \* the credentials at the path: [inode, refresh, fresh]
  phase,   \* where each governor is in its poll
  opened,  \* the inode it opened, the one its lock is on
  used,    \* the refresh token it read and spends
  new,     \* the refresh token the provider answered
  seen,    \* the refresh token it found when it read the file again
  claude,  \* Claude Code's unwritten rotation: [used, new]
  live,    \* the refresh tokens the provider accepts
  next,    \* the last token issued
  inodes,  \* the last inode created
  crashes, \* how many governors have crashed
  lost     \* the successor of the token in the file was lost

provider == <<live, next>>
credentialVars == <<file, phase, opened, used, new, seen, claude, live, next, inodes, crashes, lost>>

NotHolding == [used |-> NoToken, new |-> NoToken]

CredentialInit ==
  /\ file \in [inode : {0}, refresh : {1}, fresh : BOOLEAN]
  /\ phase = [g \in Governors |-> "idle"]
  /\ opened = [g \in Governors |-> 0]
  /\ used = [g \in Governors |-> NoToken]
  /\ new = [g \in Governors |-> NoToken]
  /\ seen = [g \in Governors |-> NoToken]
  /\ claude = NotHolding
  /\ live = {1} /\ next = 1 /\ inodes = 0 /\ crashes = 0 /\ lost = FALSE

-----------------------------------------------------------------------------
(* Whose successor the file waits for: g spent the token the file holds.   *)
Owes(g) == phase[g] \in {"answered", "installing"} /\ used[g] = file.refresh

(* The poll ends, with a token or an error; the lock goes with it.  A      *)
(* rotation that was not installed is forgotten.                           *)
Leave(g, to) ==
  /\ phase' = [phase EXCEPT ![g] = to]
  /\ used' = [used EXCEPT ![g] = NoToken]
  /\ new' = [new EXCEPT ![g] = NoToken]
  /\ seen' = [seen EXCEPT ![g] = NoToken]
  /\ opened' = [opened EXCEPT ![g] = 0]

Enter(g, to) == phase' = [phase EXCEPT ![g] = to]

(* obtain_access_token opens the path it is given.                         *)
Open(g) ==
  /\ phase[g] = "idle"
  /\ Enter(g, "waiting")
  /\ opened' = [opened EXCEPT ![g] = file.inode]
  /\ UNCHANGED <<file, used, new, seen, claude, live, next, inodes, crashes, lost>>

LockHeld(g) ==
  \E h \in Governors \ {g} : phase[h] \in Critical /\ opened[h] = opened[g]

(* lock_exclusive_bounded.                                                 *)
Lock(g) ==
  /\ phase[g] = "waiting" /\ ~LockHeld(g)
  /\ Enter(g, "locked")
  /\ UNCHANGED <<file, opened, used, new, seen, claude, live, next, inodes, crashes, lost>>

LockTimesOut(g) ==
  /\ phase[g] = "waiting" /\ LockHeld(g)
  /\ Leave(g, "idle")
  /\ UNCHANGED <<file, claude, live, next, inodes, crashes, lost>>

(* The file is read by its path; fresh_access_token, required_refresh_token. *)
ReadFresh(g) ==
  /\ phase[g] = "locked" /\ file.fresh
  /\ Leave(g, "fetching")
  /\ UNCHANGED <<file, claude, live, next, inodes, crashes, lost>>

ReadExpired(g) ==
  /\ phase[g] = "locked" /\ ~file.fresh
  /\ Enter(g, "requesting")
  /\ used' = [used EXCEPT ![g] = file.refresh]
  /\ UNCHANGED <<file, opened, new, seen, claude, live, next, inodes, crashes, lost>>

-----------------------------------------------------------------------------
(* refresh_anthropic: the provider spends the token and issues another.    *)
Rotate(token) ==
  /\ token \in live
  /\ next' = next + 1
  /\ live' = (live \ {token}) \cup {next'}

RefreshAnswered(g) ==
  /\ phase[g] = "requesting"
  /\ Rotate(used[g])
  /\ Enter(g, "answered")
  /\ new' = [new EXCEPT ![g] = next']
  /\ UNCHANGED <<file, opened, used, seen, claude, inodes, crashes, lost>>

(* The answer never arrives, is a redirect, or cannot be read.             *)
RefreshAnswerLost(g) ==
  /\ "lost" \in Faults /\ phase[g] = "requesting"
  /\ Rotate(used[g])
  /\ lost' = (lost \/ used[g] = file.refresh)
  /\ Leave(g, "idle")
  /\ UNCHANGED <<file, claude, inodes, crashes>>

(* The request is refused: a spent token, or a provider that is down.      *)
RefreshRefused(g) ==
  /\ phase[g] = "requesting"
  /\ used[g] \notin live \/ "refused" \in Faults
  /\ Leave(g, "idle")
  /\ UNCHANGED <<file, claude, live, next, inodes, crashes, lost>>

-----------------------------------------------------------------------------
InstallsAnyway(g) == TRUE  \* variant: written without looking

(* apply_refreshed_credentials: the file is read again.                    *)
MayInstall(g) == file.refresh = used[g]

UnchangedFile(g) ==
  /\ phase[g] = "answered" /\ MayInstall(g)
  /\ Enter(g, "installing")
  /\ seen' = [seen EXCEPT ![g] = file.refresh]
  /\ UNCHANGED <<file, opened, used, new, claude, live, next, inodes, crashes, lost>>

(* Another process rotated the token: its access token, or an error.       *)
ConcurrentRefresh(g) ==
  /\ phase[g] = "answered" /\ ~MayInstall(g)
  /\ Leave(g, IF file.fresh THEN "fetching" ELSE "idle")
  /\ UNCHANGED <<file, claude, live, next, inodes, crashes, lost>>

AccessTokenOnly(inode, token) ==  \* variant: the new refresh token is not stored
  [file EXCEPT !.inode = inode, !.fresh = TRUE]

(* What write_json_atomic renames over the path.                           *)
Refreshed(inode, token) == [inode |-> inode, refresh |-> token, fresh |-> TRUE]

(* The poll fails all the same when the directory cannot be synced.        *)
Install(g) ==
  /\ phase[g] = "installing"
  /\ inodes' = inodes + 1
  /\ file' = Refreshed(inodes', new[g])
  /\ lost' = FALSE
  /\ \E to \in {"fetching"} \cup (IF "io" \in Faults THEN {"idle"} ELSE {}) : Leave(g, to)
  /\ UNCHANGED <<claude, live, next, crashes>>

(* The temporary file cannot be written, owned or renamed.                 *)
InstallFails(g) ==
  /\ "io" \in Faults /\ phase[g] = "installing"
  /\ lost' = (lost \/ Owes(g))
  /\ Leave(g, "idle")
  /\ UNCHANGED <<file, claude, live, next, inodes, crashes>>

(* collect_anthropic: the usage request, with or without a usable answer.  *)
Fetch(g) ==
  /\ phase[g] = "fetching"
  /\ Leave(g, "idle")
  /\ UNCHANGED <<file, claude, live, next, inodes, crashes, lost>>

Crash(g) ==
  /\ "crash" \in Faults /\ crashes < MaxCrashes /\ phase[g] # "idle"
  /\ crashes' = crashes + 1
  /\ lost' = (lost \/ Owes(g))
  /\ Leave(g, "idle")
  /\ UNCHANGED <<file, claude, live, next, inodes>>

-----------------------------------------------------------------------------
(* Claude Code: refreshes on its own, in place or with a new inode.        *)
ClaudeRotates ==
  /\ claude = NotHolding /\ ~file.fresh
  /\ Rotate(file.refresh)
  /\ claude' = [used |-> file.refresh, new |-> next']
  /\ UNCHANGED <<file, phase, opened, used, new, seen, inodes, crashes, lost>>

Overwrite(token) ==
  /\ inodes' \in {inodes, inodes + 1}
  /\ file' = Refreshed(IF inodes' = inodes THEN file.inode ELSE inodes', token)
  /\ lost' = FALSE
  /\ UNCHANGED <<phase, opened, used, new, seen, crashes>>

ClaudeWrites ==
  /\ claude # NotHolding
  /\ claude' = NotHolding
  /\ Overwrite(claude.new)
  /\ UNCHANGED provider

(* The user logs in again: an independent chain of tokens.                 *)
Login ==
  /\ "login" \in Faults /\ next < MaxToken
  /\ next' = next + 1 /\ live' = live \cup {next'}
  /\ Overwrite(next')
  /\ UNCHANGED claude

AccessTokenExpires ==
  /\ file.fresh /\ next < MaxToken
  /\ file' = [file EXCEPT !.fresh = FALSE]
  /\ UNCHANGED <<phase, opened, used, new, seen, claude, live, next, inodes, crashes, lost>>

-----------------------------------------------------------------------------
ObtainAndFetch(g) ==
  \/ Open(g) \/ Lock(g) \/ LockTimesOut(g) \/ ReadFresh(g) \/ ReadExpired(g)
  \/ RefreshAnswered(g) \/ RefreshRefused(g)
  \/ UnchangedFile(g) \/ ConcurrentRefresh(g) \/ Install(g) \/ Fetch(g)

CredentialNext ==
  \/ \E g \in Governors :
       ObtainAndFetch(g) \/ RefreshAnswerLost(g) \/ InstallFails(g) \/ Crash(g)
  \/ ClaudeRotates \/ ClaudeWrites \/ Login \/ AccessTokenExpires

-----------------------------------------------------------------------------
(* However governors, Claude Code, logins and failures interleave, and     *)
(* although the lock does not survive a rename: the file holds a refresh   *)
(* token the provider accepts, or some process is about to install its     *)
(* successor, or that successor was lost in a crash, a failed write or a   *)
(* lost answer.  No order of the steps strands the account by itself.      *)
NotStranded ==
  \/ file.refresh \in live
  \/ \E g \in Governors : Owes(g)
  \/ claude.used = file.refresh
  \/ lost

(* Where a governor replaces the token it found on its second reading,     *)
(* that token is spent: a login or a rotation that was there to be seen is *)
(* never overwritten (apply_refreshed_credentials).                        *)
SeenLoginIsKept ==
  \A g \in Governors :
    phase[g] = "installing" /\ file.refresh = seen[g] => file.refresh \notin live

(* An expired access token is replaced, unless its successor was lost.     *)
Recovers == (~file.fresh) ~> (file.fresh \/ lost)
=============================================================================
