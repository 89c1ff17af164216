------------------------------ MODULE Sources ------------------------------
(***************************************************************************)
(* run_cycle collects its accounts one after the other on one thread.      *)
(* Here a command source (or a command observer, an actuator, a tmux call) *)
(* and a Codex source take turns, while the app-server, the children and   *)
(* time go on by themselves.  An installation with OAuth accounts is       *)
(* looked at by itself: the governors that share the credentials file are  *)
(* processes of their own, and nothing else touches it.                    *)
(***************************************************************************)
EXTENDS ChildProcess, CodexSession, Credentials

VARIABLE turn  \* whose poll comes next, "command" or "codex"; or "oauth"

vars == <<turn, childVars, codexVars, credentialVars>>
sessionVars == <<childVars, codexVars>>

Init ==
  /\ ChildInit /\ CodexInit /\ CredentialInit
  /\ \/ turn = "command" /\ file.fresh
     \/ turn = "oauth" /\ ~file.fresh

RunCommand ==
  /\ turn = "command" /\ turn' = "codex"
  /\ \E r \in Runners : Spawn(r)
  /\ UNCHANGED <<codexVars, credentialVars>>

(* The thread reaches the next account only when the call has returned.    *)
PollCodex ==
  /\ turn = "codex" /\ call = "idle" /\ turn' = "command"
  /\ Poll
  /\ UNCHANGED <<childVars, credentialVars>>

CommandGoesOn == CallSteps /\ UNCHANGED <<turn, codexVars, credentialVars>>
CommandRuns == CommandSteps /\ UNCHANGED <<turn, codexVars, credentialVars>>
TimeGoesOn == turn # "oauth" /\ TimePasses /\ UNCHANGED <<turn, childVars, credentialVars>>
SessionEvents ==
  /\ turn # "oauth"
  /\ Push \/ ServerExits \/ Shutdown \/ BecomeHealthy
  /\ UNCHANGED <<turn, childVars, credentialVars>>

(* A step of the OAuth accounts.                                           *)
OAuth(A) == turn = "oauth" /\ A /\ UNCHANGED <<turn, sessionVars>>

Next ==
  \/ RunCommand \/ PollCodex \/ CommandGoesOn \/ CommandRuns
  \/ TimeGoesOn \/ SessionEvents
  \/ OAuth(CredentialNext)

(* The run loop goes on, and so does time; children and the app-server owe *)
(* nobody anything.  Governors poll for ever and their calls return; the   *)
(* provider is not out of reach for ever, nor the disk full; Claude Code   *)
(* writes what it has been given.                                          *)
Spec ==
  /\ Init /\ [][Next]_vars
  /\ WF_vars(RunCommand) /\ WF_vars(PollCodex) /\ WF_vars(CommandGoesOn)
  /\ WF_vars(TimeGoesOn)
  /\ \A g \in Governors : /\ WF_vars(OAuth(ObtainAndFetch(g)))
                          /\ SF_vars(OAuth(RefreshAnswered(g)))
                          /\ SF_vars(OAuth(Install(g)))
  /\ WF_vars(OAuth(ClaudeWrites))
=============================================================================
