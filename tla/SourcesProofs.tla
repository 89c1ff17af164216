---------------------------- MODULE SourcesProofs ----------------------------
(***************************************************************************)
(* The safety properties of the quota sources: NotStranded and             *)
(* SeenLoginIsKept of the shared credentials file, CutOffLeavesNothing of  *)
(* external commands, DriftBounded and StampErrorBounded of the app-server *)
(* session; for any number of governors, tokens, crashes and faults, any   *)
(* payloads and any intervals.  And those of what is remembered of their   *)
(* readings: EstimatesWithinTruth, BaselineKept and ShownRateIsTrue of the *)
(* burn history; for any burn, resets, jitter, windows and poll times.     *)
(*                                                                         *)
(* None of them is inductive.  That a rename cannot strand the account     *)
(* rests on who knows a refresh token: one that was issued and not yet     *)
(* installed is accepted by the provider and known to its holder alone     *)
(* (Private).  That a cut-off command leaves nothing rests on the leader   *)
(* never leaving its group.  That figures are no older than the reconcile  *)
(* interval rests on an update never being older than the session's clock. *)
(* That an estimate is true rests on every sample, in whichever memory and *)
(* in whichever of the dashboard's two files, having once been read under  *)
(* the reset time of its own generation (HistoryInv).                      *)
(*                                                                         *)
(* The last section is about when the run loop polls: for any interval,    *)
(* any work and any number of turns.                                       *)
(***************************************************************************)
EXTENDS Sources, BurnHistory, CountLemmas, SequenceTheorems

CONSTANTS Slice, JitterCap   \* of RunLoop

Loop == INSTANCE RunLoop

-----------------------------------------------------------------------------
(* External commands.                                                      *)
CutOff == {"timed_out", "too_large"}

ChildInv ==
  /\ "leader" \in alive => "leader" \in group
  /\ result \in CutOff => group = {}

LEMMA ChildInitInv == ChildInit => ChildInv
BY DEF ChildInit, ChildInv, CutOff

LEMMA SpawnInv == ASSUME ChildInv, NEW r, Spawn(r) PROVE ChildInv'
BY DEF ChildInv, CutOff, Spawn

LEMMA CallStepsInv == ChildInv /\ CallSteps => ChildInv'
<1> SUFFICES ASSUME ChildInv, CallSteps PROVE ChildInv'
  OBVIOUS
<1> USE DEF ChildInv, CutOff
<1>1. CASE OutputEnds
  BY <1>1 DEF OutputEnds
<1>2. CASE OutputTooLarge
  BY <1>2 DEF OutputTooLarge, KillTree
<1>3. CASE ReadTimesOut
  BY <1>3 DEF ReadTimesOut, KillTree
<1>4. CASE ReaderJoined
  BY <1>4 DEF ReaderJoined
<1>5. CASE Reaped
  BY <1>5 DEF Reaped
<1>6. CASE WaitTimesOut
  BY <1>6 DEF WaitTimesOut, KillTree
<1> QED BY <1>1, <1>2, <1>3, <1>4, <1>5, <1>6 DEF CallSteps

LEMMA CommandStepsInv == ChildInv /\ CommandSteps => ChildInv'
<1> SUFFICES ASSUME ChildInv, CommandSteps PROVE ChildInv'
  OBVIOUS
<1> USE DEF ChildInv, CutOff
<1>1. CASE Forks
  BY <1>1 DEF Forks
<1>2. CASE LeavesGroup
  BY <1>2 DEF LeavesGroup
<1>3. ASSUME NEW p \in Processes, Exits(p) PROVE ChildInv'
  BY <1>3 DEF Exits
<1>4. ASSUME NEW p \in Processes, ClosesStdout(p) PROVE ChildInv'
  BY <1>4 DEF ClosesStdout
<1> QED BY <1>1, <1>2, <1>3, <1>4 DEF CommandSteps

-----------------------------------------------------------------------------
(* The app-server session.                                                 *)
Caches == [payload : Payloads, age : Nat, stamp : Nat]
Sessions == [cache : Caches, reconciled : Nat, up : BOOLEAN]
Updates == [payload : Payloads, age : Nat]

(* The figures are no older than the last full read, and an update that    *)
(* waits is younger than that and came after the last poll.                *)
CodexInv ==
  /\ since \in 0 .. PollEvery
  /\ session # NoSession =>
       /\ session \in Sessions
       /\ session.cache.age <= session.reconciled
       /\ session.cache.age <= session.cache.stamp + PollEvery
  /\ pushed # Nothing =>
       /\ pushed \in Updates
       /\ pushed.age <= since
       /\ session # NoSession => pushed.age <= session.reconciled
  /\ answer.ok => answer.age < Reconcile /\ answer.age <= answer.stamp + PollEvery

LEMMA TickNat ==
  ASSUME NEW n \in Nat
  PROVE  Tick(n) \in Nat /\ Tick(n) <= n + 1 /\ Tick(n) <= Reconcile
BY CodexAssumption DEF Tick, Min2

LEMMA TickMonotonic ==
  ASSUME NEW m \in Nat, NEW n \in Nat, NEW k \in Nat, m <= n + k
  PROVE  Tick(m) <= Tick(n) + k
BY CodexAssumption DEF Tick, Min2

LEMMA CodexInitInv == CodexInit => CodexInv
BY CodexAssumption DEF CodexInit, CodexInv, NoSession, Nothing, RefusedPoll

LEMMA FullReadInv ==
  ASSUME NEW p \in Payloads
  PROVE  LET s == FullRead(p)
         IN  /\ s \in Sessions /\ s.cache.age = 0 /\ s.cache.stamp = 0 /\ s.reconciled = 0
BY DEF FullRead, Session, Cached, Sessions, Caches

(* What a poll answers from a cache that is young enough.                  *)
LEMMA AnswerInv ==
  ASSUME NEW c \in Caches, c.age < Reconcile, c.age <= c.stamp + PollEvery
  PROVE  Answer(c).ok =>
           Answer(c).age < Reconcile /\ Answer(c).age <= Answer(c).stamp + PollEvery
BY DEF Answer, RefusedPoll, Caches

LEMMA CaptureInv ==
  ASSUME CodexInv, session # NoSession
  PROVE  LET s == Capture(session)
         IN  /\ s \in Sessions /\ s.cache.age <= s.reconciled
             /\ s.cache.age <= s.cache.stamp + PollEvery
<1>1. CASE pushed = Nothing
  BY <1>1 DEF Capture, CodexInv
<1>2. CASE pushed # Nothing
  <2> DEFINE c == Cached(pushed.payload, pushed.age, 0)
  <2>1. c \in Caches /\ c.age = pushed.age /\ c.stamp = 0
    BY <1>2 DEF CodexInv, Updates, Cached, Caches
  <2>2. Capture(session) = [session EXCEPT !.cache = c]
    BY <1>2 DEF Capture
  <2> HIDE DEF c
  <2>3. pushed.age <= session.reconciled /\ pushed.age <= 0 + PollEvery
    BY <1>2, CodexAssumption DEF CodexInv, Updates
  <2> QED BY <2>1, <2>2, <2>3 DEF CodexInv, Sessions
<1> QED BY <1>1, <1>2

LEMMA RestartInv ==
  ASSUME NEW payloads \in SUBSET Payloads, Restart(payloads)
  PROVE  /\ session' # NoSession => /\ session' \in Sessions
                                    /\ session'.cache.age <= session'.reconciled
                                    /\ session'.cache.age <= session'.cache.stamp + PollEvery
         /\ answer'.ok => answer'.age < Reconcile /\ answer'.age <= answer'.stamp + PollEvery
<1>1. CASE RestartRefused \/ RestartFails
  BY <1>1 DEF RestartRefused, RestartFails, RefusedPoll
<1>2. ASSUME NEW p \in payloads, RestartSucceeds(p)
      PROVE  /\ session' \in Sessions /\ session'.cache.age = 0 /\ session'.reconciled = 0
             /\ session'.cache.stamp = 0 /\ answer' = Answer(session'.cache)
  BY <1>2, FullReadInv DEF RestartSucceeds
<1>3. ASSUME NEW p \in payloads, RestartSucceeds(p)
      PROVE  answer'.ok => answer'.age < Reconcile /\ answer'.age <= answer'.stamp + PollEvery
  BY <1>2, <1>3, AnswerInv, CodexAssumption DEF Sessions
<1> QED BY <1>1, <1>2, <1>3, CodexAssumption DEF Restart

LEMMA PollInv == CodexInv /\ Poll => CodexInv'
<1> SUFFICES ASSUME CodexInv, Poll PROVE CodexInv'
  OBVIOUS
<1> DEFINE payloads == IF healthy THEN GoodPayloads ELSE Payloads
           drained == Capture(session)
<1>1. pushed' = Nothing /\ since' = 0 /\ payloads \in SUBSET Payloads
  BY DEF Poll, GoodPayloads
<1>2. /\ session' # NoSession => /\ session' \in Sessions
                                 /\ session'.cache.age <= session'.reconciled
                                 /\ session'.cache.age <= session'.cache.stamp + PollEvery
      /\ answer'.ok => answer'.age < Reconcile /\ answer'.age <= answer'.stamp + PollEvery
  <2>1. CASE session # NoSession /\ CacheUsable(drained)
    <3>1. session' = drained /\ answer' = Answer(drained.cache)
      BY <2>1 DEF Poll
    <3>2. /\ drained \in Sessions /\ drained.cache.age <= drained.reconciled
          /\ drained.cache.age <= drained.cache.stamp + PollEvery
      BY <2>1, CaptureInv
    <3> HIDE DEF drained
    <3>3. drained.cache \in Caches /\ drained.cache.age < Reconcile
      BY <2>1, <3>2, CodexAssumption DEF CacheUsable, Sessions, Caches
    <3> QED BY <3>1, <3>2, <3>3, AnswerInv
  <2>2. ASSUME NEW p \in payloads, ReadsLive(p)
        PROVE  /\ session' \in Sessions /\ session'.cache.age = 0 /\ session'.reconciled = 0
               /\ session'.cache.stamp = 0 /\ answer' = Answer(session'.cache)
    BY <1>1, <2>2, FullReadInv DEF ReadsLive
  <2>3. ASSUME NEW p \in payloads, ReadsLive(p)
        PROVE  answer'.ok => answer'.age < Reconcile /\ answer'.age <= answer'.stamp + PollEvery
    BY <2>2, <2>3, AnswerInv, CodexAssumption DEF Sessions
  <2>4. CASE ~(session # NoSession /\ CacheUsable(drained))
    <3>1. (\E p \in payloads : ReadsLive(p)) \/ Restart(payloads)
      BY <2>4 DEF Poll
    <3> HIDE DEF payloads
    <3> QED BY <1>1, <2>2, <2>3, <3>1, RestartInv, CodexAssumption
  <2> QED BY <2>1, <2>4
<1> QED BY <1>1, <1>2, CodexAssumption DEF CodexInv

LEMMA TimePassesInv == CodexInv /\ TimePasses => CodexInv'
<1> SUFFICES ASSUME CodexInv, TimePasses PROVE CodexInv'
  OBVIOUS
<1>1. since' = since + 1 /\ since' \in 0 .. PollEvery
  BY CodexAssumption DEF TimePasses, CodexInv
<1>2. ASSUME session # NoSession
      PROVE  /\ session' \in Sessions
             /\ session'.reconciled = Tick(session.reconciled)
             /\ session'.cache.age = Tick(session.cache.age)
             /\ session'.cache.stamp = Tick(session.cache.stamp)
  <2> DEFINE c == Aged(session.cache)
  <2>1. session.cache \in Caches /\ session.reconciled \in Nat
    BY <1>2 DEF CodexInv, Sessions
  <2>2. c \in Caches /\ c.age = Tick(session.cache.age) /\ c.stamp = Tick(session.cache.stamp)
    BY <2>1, TickNat DEF Aged, Caches
  <2>3. session' = [session EXCEPT !.cache = c, !.reconciled = Tick(@)]
    BY <1>2 DEF TimePasses
  <2> HIDE DEF c
  <2> QED BY <1>2, <2>1, <2>2, <2>3, TickNat DEF CodexInv, Sessions
<1>3. ASSUME pushed # Nothing
      PROVE  pushed' \in Updates /\ pushed'.age = Tick(pushed.age)
  BY <1>3, TickNat DEF CodexInv, Updates, TimePasses
<1>4. session = NoSession => session' = NoSession
  BY DEF TimePasses
<1>5. pushed = Nothing => pushed' = Nothing
  BY DEF TimePasses
<1>6. session # NoSession => /\ session'.cache.age <= session'.reconciled
                             /\ session'.cache.age <= session'.cache.stamp + PollEvery
  <2> SUFFICES ASSUME session # NoSession
               PROVE  /\ Tick(session.cache.age) <= Tick(session.reconciled)
                      /\ Tick(session.cache.age) <= Tick(session.cache.stamp) + PollEvery
    BY <1>2
  <2>1. /\ session.cache.age \in Nat /\ session.cache.stamp \in Nat /\ session.reconciled \in Nat
        /\ session.cache.age <= session.reconciled
        /\ session.cache.age <= session.cache.stamp + PollEvery
    BY DEF CodexInv, Sessions, Caches
  <2>2. Tick(session.cache.age) <= Tick(session.reconciled) + 0
    BY <2>1, TickMonotonic
  <2>3. Tick(session.cache.age) <= Tick(session.cache.stamp) + PollEvery
    BY <2>1, TickMonotonic, CodexAssumption
  <2> QED BY <2>1, <2>2, <2>3, TickNat
<1>7. ASSUME pushed # Nothing
      PROVE  /\ pushed'.age <= since'
             /\ session # NoSession => pushed'.age <= session'.reconciled
  <2>1. pushed.age \in Nat /\ pushed.age <= since /\ since \in Nat
    BY <1>7 DEF CodexInv, Updates
  <2>2. Tick(pushed.age) <= since'
    BY <1>1, <2>1, TickNat
  <2>3. ASSUME session # NoSession
        PROVE  Tick(pushed.age) <= Tick(session.reconciled)
    <3>1. session.reconciled \in Nat /\ pushed.age <= session.reconciled
      BY <1>7, <2>3 DEF CodexInv, Sessions
    <3>2. Tick(pushed.age) <= Tick(session.reconciled) + 0
      BY <2>1, <3>1, TickMonotonic
    <3> QED BY <3>1, <3>2, TickNat
  <2> QED BY <1>2, <1>3, <1>7, <2>2, <2>3
<1>8. answer' = answer
  BY DEF TimePasses
<1> QED BY <1>1, <1>2, <1>3, <1>4, <1>5, <1>6, <1>7, <1>8 DEF CodexInv

LEMMA SessionEventsInv == CodexInv /\ (Push \/ ServerExits \/ Shutdown \/ BecomeHealthy) => CodexInv'
<1> SUFFICES ASSUME CodexInv, Push \/ ServerExits \/ Shutdown \/ BecomeHealthy PROVE CodexInv'
  OBVIOUS
<1>1. CASE Push
  <2>1. PICK p \in Payloads : pushed' = [payload |-> p, age |-> 0]
    BY <1>1 DEF Push, GoodPayloads
  <2> QED BY <1>1, <2>1 DEF Push, CodexInv, Updates, Sessions
<1>2. CASE ServerExits
  BY <1>2 DEF ServerExits, CodexInv, Sessions
<1>3. CASE Shutdown
  BY <1>3 DEF Shutdown, CodexInv
<1>4. CASE BecomeHealthy
  BY <1>4 DEF BecomeHealthy, CodexInv
<1> QED BY <1>1, <1>2, <1>3, <1>4

-----------------------------------------------------------------------------
(* The credentials file.                                                   *)
Tokens == 0 .. next

CredentialTypes ==
  /\ next \in Nat /\ live \subseteq 1 .. next
  /\ file.refresh \in 1 .. next
  /\ phase \in [Governors -> Phases]
  /\ used \in [Governors -> Tokens] /\ new \in [Governors -> Tokens]
  /\ seen \in [Governors -> Tokens]
  /\ claude \in [used : Tokens, new : Tokens]
  /\ lost \in BOOLEAN

(* A token that its holder alone knows: neither the file nor anyone who    *)
(* will spend a token has it, and the provider accepts it.                 *)
Private(t) ==
  /\ t \in live /\ t # file.refresh /\ t # claude.used
  /\ \A h \in Governors : used[h] # t

Holding(g) == phase[g] \in {"answered", "installing"}

GovernorInv(g) ==
  /\ Holding(g) => Private(new[g]) /\ used[g] \notin live
  /\ phase[g] = "installing" => seen[g] = used[g]
  /\ \A h \in Governors \ {g} : Holding(g) /\ Holding(h) => new[g] # new[h]
  /\ Holding(g) => new[g] # claude.new

CredentialInv ==
  /\ CredentialTypes
  /\ \A g \in Governors : GovernorInv(g)
  /\ claude # NotHolding => Private(claude.new)
  /\ NotStranded

USE DEF NotHolding, NoToken

LEMMA CredentialInitInv == CredentialInit => CredentialInv
<1> SUFFICES ASSUME CredentialInit PROVE CredentialInv
  OBVIOUS
<1>1. file.refresh = 1 /\ live = {1} /\ next = 1
  BY DEF CredentialInit
<1>2. CredentialTypes
  <2>1. claude \in [used : Tokens, new : Tokens]
    BY <1>1 DEF CredentialInit, Tokens
  <2>2. lost \in BOOLEAN
    BY DEF CredentialInit
  <2> QED BY <1>1, <2>1, <2>2 DEF CredentialInit, CredentialTypes, Tokens, Phases
<1>3. \A g \in Governors : GovernorInv(g)
  BY DEF CredentialInit, GovernorInv, Holding
<1>4. NotStranded /\ claude = NotHolding
  BY <1>1 DEF NotStranded, CredentialInit
<1> QED BY <1>2, <1>3, <1>4 DEF CredentialInv

(* A step that changes neither the file nor the provider and in which g    *)
(* only leaves its poll or goes on to a phase without a new token.         *)
LEMMA QuietStep ==
  ASSUME CredentialInv, NEW g \in Governors, NEW to \in Phases,
         to \notin {"answered", "installing"},
         UNCHANGED <<file, claude, live, next>>,
         phase' = [phase EXCEPT ![g] = to],
         used' \in [Governors -> Tokens],
         used'[g] \in {used[g], NoToken, file.refresh},
         \A h \in Governors \ {g} : used'[h] = used[h] /\ new'[h] = new[h] /\ seen'[h] = seen[h],
         new' \in [Governors -> Tokens], seen' \in [Governors -> Tokens],
         lost' \in BOOLEAN, lost => lost', Owes(g) => lost'
  PROVE  CredentialInv'
<1>1. CredentialTypes'
  BY DEF CredentialInv, CredentialTypes, Tokens
<1>2. claude' # NotHolding => Private(claude.new)'
  BY DEF CredentialInv, CredentialTypes, Private
<1>3. ASSUME NEW h \in Governors
      PROVE  /\ Holding(h)' => h # g /\ Holding(h) /\ new'[h] = new[h] /\ used'[h] = used[h]
             /\ phase'[h] = "installing" => phase[h] = "installing" /\ seen'[h] = seen[h]
  BY DEF CredentialInv, CredentialTypes, Holding
<1>4. \A h \in Governors : GovernorInv(h)'
  BY <1>3 DEF CredentialInv, CredentialTypes, GovernorInv, Private
<1>5. NotStranded'
  BY DEF CredentialInv, CredentialTypes, NotStranded, Owes
<1> QED BY <1>1, <1>2, <1>4, <1>5 DEF CredentialInv

(* The steps in which nothing is spent, issued or installed.               *)
LEMMA QuietSteps ==
  ASSUME CredentialInv, NEW g \in Governors,
         \/ Open(g) \/ Lock(g) \/ LockTimesOut(g) \/ ReadFresh(g) \/ ReadExpired(g)
         \/ RefreshRefused(g) \/ ConcurrentRefresh(g) \/ InstallFails(g) \/ Fetch(g) \/ Crash(g)
  PROVE  CredentialInv'
<1>0. /\ used \in [Governors -> Tokens] /\ new \in [Governors -> Tokens]
      /\ seen \in [Governors -> Tokens] /\ lost \in BOOLEAN /\ file.refresh \in Tokens
      /\ NoToken \in Tokens
  BY DEF CredentialInv, CredentialTypes, Tokens
<1>1. ASSUME NEW to \in Phases \ {"answered", "installing"}, Leave(g, to),
             UNCHANGED <<file, claude, live, next>>,
             lost' \in BOOLEAN, lost => lost', Owes(g) => lost'
      PROVE  CredentialInv'
  BY <1>0, <1>1, QuietStep DEF Leave
<1>2. CASE Open(g)
  BY <1>0, <1>2, QuietStep DEF Open, Enter, Phases, Owes
<1>3. CASE Lock(g)
  BY <1>0, <1>3, QuietStep DEF Lock, Enter, Phases, Owes
<1>4. CASE LockTimesOut(g)
  BY <1>0, <1>1, <1>4 DEF LockTimesOut, Phases, Owes
<1>5. CASE ReadFresh(g)
  BY <1>0, <1>1, <1>5 DEF ReadFresh, Phases, Owes
<1>6. CASE ReadExpired(g)
  BY <1>0, <1>6, QuietStep DEF ReadExpired, Enter, Phases, Owes
<1>7. CASE RefreshRefused(g)
  BY <1>0, <1>1, <1>7 DEF RefreshRefused, Phases, Owes
<1>8. CASE ConcurrentRefresh(g)
  BY <1>0, <1>1, <1>8 DEF ConcurrentRefresh, MayInstall, Phases, Owes
<1>9. CASE InstallFails(g)
  BY <1>0, <1>1, <1>9 DEF InstallFails, Phases, Owes
<1>10. CASE Fetch(g)
  BY <1>0, <1>1, <1>10 DEF Fetch, Phases, Owes
<1>11. CASE Crash(g)
  BY <1>0, <1>1, <1>11 DEF Crash, Phases, Owes
<1> QED BY <1>2, <1>3, <1>4, <1>5, <1>6, <1>7, <1>8, <1>9, <1>10, <1>11

(* What a rotation does to the tokens: the spent one is gone for good, the *)
(* new one was known to nobody.                                            *)
LEMMA RotateFacts ==
  ASSUME CredentialTypes, NEW t \in Tokens, Rotate(t)
  PROVE  /\ next' = next + 1 /\ next' \in Nat /\ live' \subseteq 1 .. next'
         /\ next' \in live' /\ t \notin live' /\ next' \notin Tokens
         /\ \A u : u \in live /\ u # t => u \in live'
         /\ \A u : u \in Tokens /\ u \notin live => u \notin live'
         /\ Tokens \subseteq Tokens' /\ next' \in Tokens'
BY DEF CredentialTypes, Rotate, Tokens

LEMMA RefreshAnsweredInv ==
  ASSUME CredentialInv, NEW g \in Governors, RefreshAnswered(g)
  PROVE  CredentialInv'
<1> USE DEF RefreshAnswered, Enter
<1>0. /\ CredentialTypes /\ used[g] \in Tokens /\ Rotate(used[g])
      /\ file.refresh \in Tokens /\ claude.used \in Tokens /\ claude.new \in Tokens
      /\ \A h \in Governors : used[h] \in Tokens /\ new[h] \in Tokens
  BY DEF CredentialInv, CredentialTypes, Tokens
<1>1. CredentialTypes'
  BY <1>0, RotateFacts DEF CredentialTypes, Tokens, Phases
<1>2. ASSUME NEW h \in Governors, h # g
      PROVE  /\ Holding(h)' = Holding(h) /\ new'[h] = new[h] /\ phase'[h] = phase[h]
  BY <1>0, <1>2 DEF CredentialTypes, Holding
<1>3. phase'[g] = "answered" /\ new'[g] = next'
  BY <1>0 DEF CredentialTypes
<1>4. \A h \in Governors : GovernorInv(h)'
  <2>1. GovernorInv(g)'
    BY <1>0, <1>2, <1>3, RotateFacts DEF CredentialInv, GovernorInv, Private, Holding
  <2>2. ASSUME NEW h \in Governors, h # g PROVE GovernorInv(h)'
    BY <1>0, <1>2, <1>3, <2>2, RotateFacts DEF CredentialInv, GovernorInv, Private, Holding
  <2> QED BY <2>1, <2>2
<1>5. claude' # NotHolding => Private(claude.new)'
  BY <1>0, RotateFacts DEF CredentialInv, Private
<1>6. NotStranded'
  <2>1. CASE used[g] = file.refresh
    BY <1>3, <2>1 DEF NotStranded, Owes
  <2>2. CASE used[g] # file.refresh
    <3>1. file.refresh \in live => file.refresh \in live'
      BY <1>0, <2>2, RotateFacts
    <3>2. ASSUME NEW h \in Governors, Owes(h) PROVE Owes(h)'
      BY <1>0, <2>2, <3>2 DEF Owes, CredentialTypes
    <3> QED BY <3>1, <3>2 DEF CredentialInv, NotStranded
  <2> QED BY <2>1, <2>2
<1> QED BY <1>1, <1>4, <1>5, <1>6 DEF CredentialInv

LEMMA RefreshAnswerLostInv ==
  ASSUME CredentialInv, NEW g \in Governors, RefreshAnswerLost(g)
  PROVE  CredentialInv'
<1> USE DEF RefreshAnswerLost, Leave
<1>0. /\ CredentialTypes /\ used[g] \in Tokens /\ Rotate(used[g])
      /\ file.refresh \in Tokens /\ claude.used \in Tokens /\ claude.new \in Tokens
      /\ \A h \in Governors : used[h] \in Tokens /\ new[h] \in Tokens
  BY DEF CredentialInv, CredentialTypes, Tokens
<1>1. CredentialTypes'
  BY <1>0, RotateFacts DEF CredentialTypes, Tokens, Phases
<1>2. ASSUME NEW h \in Governors
      PROVE  /\ Holding(h)' => h # g /\ Holding(h) /\ new'[h] = new[h] /\ used'[h] = used[h]
             /\ phase'[h] = "installing" => phase[h] = "installing" /\ seen'[h] = seen[h]
             /\ used'[h] \in {used[h], NoToken}
  BY <1>0 DEF CredentialTypes, Holding
<1>3. NoToken \notin live
  BY <1>0 DEF CredentialTypes
<1>4. \A h \in Governors : GovernorInv(h)'
  BY <1>0, <1>2, <1>3, RotateFacts DEF CredentialInv, GovernorInv, Private
<1>5. claude' # NotHolding => Private(claude.new)'
  BY <1>0, <1>2, <1>3, RotateFacts DEF CredentialInv, Private
<1>6. NotStranded'
  <2>1. CASE used[g] = file.refresh
    BY <2>1 DEF NotStranded
  <2>2. CASE used[g] # file.refresh
    <3>1. file.refresh \in live => file.refresh \in live'
      BY <1>0, <2>2, RotateFacts
    <3>2. ASSUME NEW h \in Governors, Owes(h) PROVE Owes(h)'
      BY <1>0, <2>2, <3>2 DEF Owes, CredentialTypes
    <3>3. lost => lost'
      OBVIOUS
    <3> QED BY <3>1, <3>2, <3>3 DEF CredentialInv, NotStranded
  <2> QED BY <2>1, <2>2
<1> QED BY <1>1, <1>4, <1>5, <1>6 DEF CredentialInv

LEMMA UnchangedFileInv ==
  ASSUME CredentialInv, NEW g \in Governors, UnchangedFile(g)
  PROVE  CredentialInv'
<1> USE DEF UnchangedFile, Enter
<1>1. CredentialTypes'
  BY DEF CredentialInv, CredentialTypes, Tokens, Phases
<1>2. \A h \in Governors : GovernorInv(h)'
  BY DEF CredentialInv, CredentialTypes, GovernorInv, Private, Holding, MayInstall
<1>3. claude' # NotHolding => Private(claude.new)'
  BY DEF CredentialInv, Private
<1>4. NotStranded'
  BY DEF CredentialInv, CredentialTypes, NotStranded, Owes
<1> QED BY <1>1, <1>2, <1>3, <1>4 DEF CredentialInv

LEMMA InstallInv ==
  ASSUME CredentialInv, NEW g \in Governors, Install(g)
  PROVE  CredentialInv'
<1>0. PICK to \in {"fetching", "idle"} : Leave(g, to)
  BY DEF Install
<1>1. /\ file'.refresh = new[g] /\ lost' \in BOOLEAN /\ phase[g] = "installing"
      /\ UNCHANGED <<claude, live, next>>
  BY DEF Install, Refreshed
<1>2. new[g] \in live /\ new[g] \in 1 .. next /\ CredentialTypes
  BY <1>1 DEF CredentialInv, CredentialTypes, GovernorInv, Holding, Private
<1>3. CredentialTypes'
  BY <1>0, <1>1, <1>2 DEF CredentialTypes, Tokens, Phases, Leave
<1>4. ASSUME NEW h \in Governors
      PROVE  /\ Holding(h)' => h # g /\ Holding(h) /\ new'[h] = new[h] /\ used'[h] = used[h]
             /\ phase'[h] = "installing" => phase[h] = "installing" /\ seen'[h] = seen[h]
             /\ used'[h] \in {used[h], NoToken}
  BY <1>0, <1>2 DEF CredentialTypes, Holding, Leave
<1>5. Holding(g) /\ NoToken \notin live
  BY <1>1, <1>2 DEF Holding, CredentialTypes
<1>6. \A h \in Governors : GovernorInv(h)'
  <2> SUFFICES ASSUME NEW h \in Governors PROVE GovernorInv(h)'
    OBVIOUS
  <2>1. Holding(h)' => Private(new[h])'
    BY <1>1, <1>4, <1>5 DEF CredentialInv, GovernorInv, Private
  <2>2. Holding(h)' => used'[h] \notin live'
    BY <1>1, <1>4 DEF CredentialInv, GovernorInv
  <2>3. phase'[h] = "installing" => seen'[h] = used'[h]
    BY <1>4 DEF CredentialInv, GovernorInv, Holding
  <2>4. ASSUME NEW k \in Governors \ {h}, Holding(h)', Holding(k)' PROVE new'[h] # new'[k]
    BY <1>4, <2>4 DEF CredentialInv, GovernorInv
  <2>5. Holding(h)' => new'[h] # claude'.new
    BY <1>1, <1>4 DEF CredentialInv, GovernorInv
  <2> QED BY <2>1, <2>2, <2>3, <2>4, <2>5 DEF GovernorInv
<1>7. claude' # NotHolding => Private(claude.new)'
  BY <1>1, <1>4, <1>5 DEF CredentialInv, GovernorInv, Private
<1>8. NotStranded'
  BY <1>1, <1>2 DEF NotStranded
<1> QED BY <1>3, <1>6, <1>7, <1>8 DEF CredentialInv

LEMMA ClaudeRotatesInv ==
  ASSUME CredentialInv, ClaudeRotates
  PROVE  CredentialInv'
<1> USE DEF ClaudeRotates
<1>0. /\ CredentialTypes /\ file.refresh \in Tokens /\ Rotate(file.refresh)
      /\ \A h \in Governors : used[h] \in Tokens /\ new[h] \in Tokens
  BY DEF CredentialInv, CredentialTypes, Tokens
<1>1. claude'.used = file.refresh /\ claude'.new = next'
  OBVIOUS
<1>2. CredentialTypes'
  <2>1. claude' \in [used : Tokens', new : Tokens']
    BY <1>0, RotateFacts
  <2> QED BY <1>0, <2>1, RotateFacts DEF CredentialTypes, Tokens
<1>3. \A h \in Governors : GovernorInv(h)'
  BY <1>0, <1>1, RotateFacts DEF CredentialInv, GovernorInv, Private, Holding
<1>4. Private(claude.new)'
  BY <1>0, <1>1, RotateFacts DEF Private
<1>5. NotStranded'
  BY <1>1 DEF NotStranded
<1> QED BY <1>2, <1>3, <1>4, <1>5 DEF CredentialInv

LEMMA ClaudeWritesInv ==
  ASSUME CredentialInv, ClaudeWrites
  PROVE  CredentialInv'
<1>1. /\ file'.refresh = claude.new /\ lost' \in BOOLEAN /\ claude # NotHolding
      /\ claude' = NotHolding
      /\ UNCHANGED <<live, next, phase, used, new, seen>>
  BY DEF ClaudeWrites, Overwrite, Refreshed, provider
<1>2. Private(claude.new) /\ claude.new \in 1 .. next /\ CredentialTypes
  BY <1>1 DEF CredentialInv, CredentialTypes, Private
<1>3. CredentialTypes'
  BY <1>1, <1>2 DEF CredentialTypes, Tokens
<1>4. \A h \in Governors : GovernorInv(h)'
  BY <1>1, <1>2 DEF CredentialInv, CredentialTypes, GovernorInv, Private, Holding
<1>5. NotStranded'
  BY <1>1, <1>2 DEF NotStranded, Private
<1> QED BY <1>1, <1>3, <1>4, <1>5 DEF CredentialInv

LEMMA LoginInv ==
  ASSUME CredentialInv, Login
  PROVE  CredentialInv'
<1>1. /\ file'.refresh = next + 1 /\ lost' \in BOOLEAN /\ next' = next + 1
      /\ live' = live \cup {next + 1}
      /\ UNCHANGED <<claude, phase, used, new, seen>>
  BY DEF Login, Overwrite, Refreshed
<1>2. /\ CredentialTypes /\ next + 1 \notin Tokens /\ Tokens \subseteq Tokens'
      /\ claude.used \in Tokens /\ claude.new \in Tokens
      /\ \A h \in Governors : used[h] \in Tokens /\ new[h] \in Tokens
  BY <1>1 DEF CredentialInv, CredentialTypes, Tokens
<1>3. CredentialTypes'
  BY <1>1, <1>2 DEF CredentialTypes, Tokens
<1>4. \A h \in Governors : GovernorInv(h)'
  BY <1>1, <1>2 DEF CredentialInv, GovernorInv, Private, Holding
<1>5. claude' # NotHolding => Private(claude.new)'
  BY <1>1, <1>2 DEF CredentialInv, Private
<1>6. NotStranded'
  BY <1>1 DEF NotStranded
<1> QED BY <1>3, <1>4, <1>5, <1>6 DEF CredentialInv

(* Steps that leave every token where it is.                               *)
LEMMA SameTokens ==
  ASSUME CredentialInv, file'.refresh = file.refresh,
         UNCHANGED <<phase, used, new, seen, claude, live, next, lost>>
  PROVE  CredentialInv'
<1>1. CredentialTypes'
  BY DEF CredentialInv, CredentialTypes, Tokens
<1>2. \A h \in Governors : GovernorInv(h)'
  BY DEF CredentialInv, GovernorInv, Private, Holding
<1>3. claude' # NotHolding => Private(claude.new)'
  BY DEF CredentialInv, Private
<1>4. NotStranded'
  BY DEF CredentialInv, NotStranded, Owes
<1> QED BY <1>1, <1>2, <1>3, <1>4 DEF CredentialInv

LEMMA CredentialNextInv == CredentialInv /\ CredentialNext => CredentialInv'
<1> SUFFICES ASSUME CredentialInv, CredentialNext PROVE CredentialInv'
  OBVIOUS
<1>1. ASSUME NEW g \in Governors,
             ObtainAndFetch(g) \/ RefreshAnswerLost(g) \/ InstallFails(g) \/ Crash(g)
      PROVE  CredentialInv'
  BY <1>1, QuietSteps, RefreshAnsweredInv, RefreshAnswerLostInv, UnchangedFileInv, InstallInv
     DEF ObtainAndFetch
<1>2. CASE AccessTokenExpires
  <2>1. file'.refresh = file.refresh
    BY <1>2 DEF AccessTokenExpires
  <2> QED BY <1>2, <2>1, SameTokens DEF AccessTokenExpires
<1> QED BY <1>1, <1>2, ClaudeRotatesInv, ClaudeWritesInv, LoginInv DEF CredentialNext

-----------------------------------------------------------------------------
(* The sources together.                                                   *)
SourcesInv == ChildInv /\ CodexInv /\ CredentialInv

LEMMA SourcesInitInv == Init => SourcesInv
BY ChildInitInv, CodexInitInv, CredentialInitInv DEF Init, SourcesInv

LEMMA ChildUnchanged == ChildInv /\ UNCHANGED childVars => ChildInv'
BY DEF ChildInv, childVars

LEMMA CodexUnchanged == CodexInv /\ UNCHANGED codexVars => CodexInv'
BY DEF CodexInv, codexVars

LEMMA CredentialUnchanged == CredentialInv /\ UNCHANGED credentialVars => CredentialInv'
BY SameTokens DEF credentialVars

LEMMA SourcesNextInv == SourcesInv /\ [Next]_vars => SourcesInv'
<1> SUFFICES ASSUME SourcesInv, [Next]_vars PROVE SourcesInv'
  OBVIOUS
<1> USE ChildUnchanged, CodexUnchanged, CredentialUnchanged DEF SourcesInv
<1>1. CASE RunCommand
  BY <1>1, SpawnInv DEF RunCommand
<1>2. CASE PollCodex
  BY <1>2, PollInv DEF PollCodex
<1>3. CASE CommandGoesOn
  BY <1>3, CallStepsInv DEF CommandGoesOn
<1>4. CASE CommandRuns
  BY <1>4, CommandStepsInv DEF CommandRuns
<1>5. CASE TimeGoesOn
  BY <1>5, TimePassesInv DEF TimeGoesOn
<1>6. CASE SessionEvents
  BY <1>6, SessionEventsInv DEF SessionEvents
<1>7. CASE OAuth(CredentialNext)
  BY <1>7, CredentialNextInv DEF OAuth, sessionVars
<1>8. CASE UNCHANGED vars
  BY <1>8 DEF vars
<1> QED BY <1>1, <1>2, <1>3, <1>4, <1>5, <1>6, <1>7, <1>8 DEF Next

LEMMA SourcesInvariant == Spec => []SourcesInv
<1>1. Spec => Init /\ [][Next]_vars
  BY PTL DEF Spec
<1> QED BY <1>1, SourcesInitInv, SourcesNextInv, PTL

(* source.rs 455: however many governors share the credentials file, and   *)
(* wherever they crash, no order of their steps leaves it with a spent     *)
(* refresh token unless its successor was lost.                            *)
THEOREM AccountNotStranded == Spec => []NotStranded
<1>1. SourcesInv => NotStranded
  BY DEF SourcesInv, CredentialInv
<1> QED BY <1>1, SourcesInvariant, PTL

(* apply_refreshed_credentials never overwrites a login it has seen.       *)
THEOREM LoginKept == Spec => []SeenLoginIsKept
<1>1. SourcesInv => SeenLoginIsKept
  BY DEF SourcesInv, CredentialInv, GovernorInv, Holding, SeenLoginIsKept
<1> QED BY <1>1, SourcesInvariant, PTL

(* kill_child_tree: a command that was cut off leaves nothing of its       *)
(* process group behind, whatever it forked and whenever it did.           *)
THEOREM CutOffIsComplete == Spec => []CutOffLeavesNothing
<1>1. SourcesInv => CutOffLeavesNothing
  BY DEF SourcesInv, ChildInv, CutOff, CutOffLeavesNothing
<1> QED BY <1>1, SourcesInvariant, PTL

(* The figures a poll reports are younger than the reconcile interval.     *)
THEOREM DriftIsBounded == Spec => []DriftBounded
<1>1. SourcesInv => DriftBounded
  BY DEF SourcesInv, CodexInv, DriftBounded
<1> QED BY <1>1, SourcesInvariant, PTL

(* Their time stamp flatters them by at most the time between two polls.   *)
THEOREM StampErrorIsBounded == Spec => []StampErrorBounded
<1>1. SourcesInv => StampErrorBounded
  BY DEF SourcesInv, CodexInv, StampErrorBounded
<1> QED BY <1>1, SourcesInvariant, PTL
-----------------------------------------------------------------------------
(* The burn history.  The invariant says of everything that was written    *)
(* down, wherever it was copied to, that it was once read: a sample is the *)
(* provider's figure of its tick, under the reset time of that tick's      *)
(* generation give or take the jitter.                                     *)
Ticks == [burned : Nat, began : Nat, before : Nat]
Samples == [at : Nat, used : Nat, resets : Nat, workers : Nat]
Snapshots == [at : Nat, used : Nat, resets : Nat]
Memories ==
  [window : Seq(Samples),
   history : [resets : Nat, samples : Seq(Samples), peak : Nat],
   aggregate : Seq(Samples)]

(* Ticks a and b are of one generation, or b's began after a.              *)
InOrderOfGenerations(a, b) ==
  \/ truth[a].began = truth[b].began /\ truth[a].before = truth[b].before
  \/ /\ truth[a].began + MinReset <= truth[b].began
     /\ a < truth[b].began
     /\ truth[a].burned <= truth[b].before

TruthInv ==
  /\ truth \in Seq(Ticks) /\ Now >= 1
  /\ \A t \in 1 .. Now :
       /\ truth[t].began \in 1 .. t
       /\ truth[t].before <= truth[t].burned
  /\ \A a, b \in 1 .. Now :
       a <= b => truth[a].burned <= truth[b].burned /\ InOrderOfGenerations(a, b)

AnnouncedBy(began) == {began + Period + jitter : jitter \in Jitter}

Announced(t) == AnnouncedBy(truth[t].began)

(* A reading of its tick.                                                  *)
WasRead(sample) ==
  /\ sample.at \in 1 .. Now
  /\ sample.used = (truth[sample.at].burned - truth[sample.at].before) \div Quantum
  /\ sample.resets \in Announced(sample.at)

AllRead(samples) == \A i \in 1 .. Len(samples) : WasRead(samples[i])

MemoryRead(m) ==
  /\ m \in Memories
  /\ AllRead(m.window) /\ AllRead(m.history.samples) /\ AllRead(m.aggregate)
  /\ \A i \in 1 .. Len(m.history.samples) : m.history.resets \in Announced(m.history.samples[i].at)

SnapshotRead ==
  snapshot # <<>> => snapshot = <<snapshot[1]>> /\ snapshot[1] \in Snapshots /\ WasRead(snapshot[1])

DashboardRead ==
  reading # NotReading => MemoryRead(reading[1].memory) /\ reading[1].now \in Nat

ReadingsInv == SnapshotRead /\ MemoryRead(memory) /\ DashboardRead

(* Aggregate samples are in the order of their times and spaced; the last  *)
(* one is no newer than the snapshot, and is its reading if it is as new.  *)
Spaced(samples) ==
  \A i \in 1 .. Len(samples) - 1 :
    samples[i].at < samples[i + 1].at /\ SpacedFrom(samples[i], samples[i + 1])

AggregateInv ==
  /\ Spaced(memory.aggregate)
  /\ memory.aggregate # <<>> =>
       LET last == Last(memory.aggregate)
       IN  /\ snapshot # <<>>
           /\ last.at <= snapshot[1].at
           /\ last.at = snapshot[1].at => last.resets = snapshot[1].resets

HistoryInv == TruthInv /\ ReadingsInv /\ AggregateInv

(* The parameters are natural numbers.                                     *)
LEMMA HistoryConstants ==
  /\ Tolerance \in Nat /\ Quantum \in Nat \ {0} /\ Period \in Nat /\ MinReset \in Nat \ {0}
  /\ Baseline \in Nat \ {0} /\ MinInterval \in Nat \ {0}
  /\ MaxSamples \in Nat \ {0} /\ MaxHistory \in Nat \ {0}
  /\ Lookback \in Nat /\ StaleAfter \in Nat /\ Window \in Nat
  /\ Burns \subseteq Nat /\ Jitter \subseteq Nat /\ Workers \subseteq Nat
BY EstimatorAssumption, DashboardAssumption, HistoryAssumption

(* What was true of a tick stays so.                                       *)
TruthGrows == Now' \in Nat /\ Now <= Now' /\ \A t \in 1 .. Now : truth'[t] = truth[t]

(* The recorded truth of a tick is three natural numbers.                  *)
LEMMA TickTypes ==
  ASSUME TruthInv
  PROVE  /\ Now \in Nat /\ Now >= 1
         /\ \A t \in 1 .. Now :
              truth[t].burned \in Nat /\ truth[t].began \in Nat /\ truth[t].before \in Nat
<1>1. /\ truth \in Seq(Ticks) /\ Now \in Nat /\ Len(truth) = Now
      /\ \A t \in 1 .. Now : truth[t] \in Ticks
  BY DEF TruthInv, Now
<1> QED BY <1>1 DEF TruthInv, Ticks

(* A step of the program leaves the provider's count alone.                *)
LEMMA TruthSame == ASSUME TruthInv, UNCHANGED truth PROVE TruthInv' /\ TruthGrows
<1>1. Now' = Now /\ truth' = truth /\ Now \in Nat
  BY TickTypes DEF Now
<1>2. TruthGrows
  <2>1. Now <= Now
    BY <1>1
  <2> QED BY <1>1, <2>1 DEF TruthGrows
<1>3. TruthInv'
  BY Zenon, <1>1 DEF TruthInv, InOrderOfGenerations
<1> QED BY <1>2, <1>3

(* The provider counts on; what it counted and when it reset stays true.   *)
LEMMA TruthStep == ASSUME TruthInv, ProviderCounts PROVE TruthInv' /\ TruthGrows
<1> DEFINE last == truth[Now]
<1>0. /\ Quantum \in Nat /\ MinReset \in Nat /\ Burns \subseteq Nat
  BY HistoryConstants
<1>1. PICK units \in Burns, reset \in {FALSE} \cup {Now + 1 - last.began >= MinReset} :
        truth' = Append(truth, [burned |-> last.burned + units,
                                began |-> IF reset THEN Now + 1 ELSE last.began,
                                before |-> IF reset THEN last.burned ELSE last.before])
  BY DEF ProviderCounts
<1> DEFINE made == [burned |-> last.burned + units,
                    began |-> IF reset THEN Now + 1 ELSE last.began,
                    before |-> IF reset THEN last.burned ELSE last.before]
<1>2. /\ truth \in Seq(Ticks) /\ Now \in Nat /\ Now >= 1 /\ Len(truth) = Now
      /\ \A t \in 1 .. Now : truth[t] \in Ticks
  BY DEF TruthInv, Now
<1>3. /\ last \in Ticks /\ last.burned \in Nat /\ last.began \in Nat /\ last.before \in Nat
      /\ last.began \in 1 .. Now /\ last.before <= last.burned
  BY <1>2 DEF TruthInv, Ticks
<1>4. made \in Ticks /\ units \in Nat
  BY <1>0, <1>2, <1>3 DEF Ticks
<1>5. /\ made.burned = last.burned + units
      /\ made.began = IF reset THEN Now + 1 ELSE last.began
      /\ made.before = IF reset THEN last.burned ELSE last.before
      /\ reset => Now + 1 - last.began >= MinReset
  OBVIOUS
<1>6. truth' = Append(truth, made)
  BY <1>1
<1> HIDE DEF last, made
<1>7. /\ truth' \in Seq(Ticks) /\ Len(truth') = Now + 1 /\ truth'[Now + 1] = made
      /\ \A t \in 1 .. Now : truth'[t] = truth[t]
  BY <1>2, <1>4, <1>6
<1>8. TruthGrows
  BY <1>2, <1>7 DEF TruthGrows, Now
<1>9. /\ truth'[Now + 1].began \in 1 .. Now + 1
      /\ truth'[Now + 1].before <= truth'[Now + 1].burned
  BY <1>2, <1>3, <1>4, <1>5, <1>7
<1>10. ASSUME NEW a \in 1 .. Now
       PROVE  /\ truth[a].burned <= made.burned
              /\ \/ truth[a].began = made.began /\ truth[a].before = made.before
                 \/ /\ truth[a].began + MinReset <= made.began
                    /\ a < made.began
                    /\ truth[a].burned <= made.before
  <2>1. /\ truth[a].burned \in Nat /\ truth[a].began \in Nat /\ truth[a].before \in Nat
    BY <1>2 DEF Ticks
  <2>2. truth[a].burned <= last.burned /\ InOrderOfGenerations(a, Now)
    BY <1>2 DEF TruthInv, last
  <2>3. \/ truth[a].began = last.began /\ truth[a].before = last.before
        \/ /\ truth[a].began + MinReset <= last.began
           /\ a < last.began
           /\ truth[a].burned <= last.before
    BY <2>2 DEF InOrderOfGenerations, last
  <2>4. CASE reset
    BY SMTT(30), <1>0, <1>2, <1>3, <1>4, <1>5, <2>1, <2>2, <2>3, <2>4
  <2>5. CASE ~reset
    BY <1>0, <1>2, <1>3, <1>4, <1>5, <2>1, <2>2, <2>3, <2>5
  <2> QED BY <2>4, <2>5
<1>11. Len(truth') = Now'
  BY DEF Now
<1>12. ASSUME NEW a \in 1 .. Now', NEW b \in 1 .. Now', a <= b
       PROVE  truth'[a].burned <= truth'[b].burned /\ InOrderOfGenerations(a, b)'
  <2>1. CASE b \in 1 .. Now
    <3>1. a \in 1 .. Now /\ truth[a].burned <= truth[b].burned /\ InOrderOfGenerations(a, b)
      BY <1>2, <1>12, <2>1 DEF TruthInv
    <3> QED BY <1>7, <2>1, <3>1 DEF InOrderOfGenerations
  <2>2. CASE b = Now + 1 /\ a \in 1 .. Now
    BY <1>7, <1>10, <2>2 DEF InOrderOfGenerations
  <2>3. CASE b = Now + 1 /\ a = Now + 1
    BY <1>4, <1>7, <2>3 DEF InOrderOfGenerations, Ticks
  <2> QED BY <1>2, <1>7, <1>11, <1>12, <2>1, <2>2, <2>3
<1>13. ASSUME NEW t \in 1 .. Now'
       PROVE  truth'[t].began \in 1 .. t /\ truth'[t].before <= truth'[t].burned
  <2>1. CASE t \in 1 .. Now
    BY <1>7, <2>1 DEF TruthInv
  <2>2. CASE t = Now + 1
    BY <1>9, <2>2
  <2> QED BY <1>2, <1>7, <1>11, <1>13, <2>1, <2>2
<1> QED
  <2>1. Now' >= 1
    BY <1>2, <1>7, <1>11
  <2> QED BY <1>7, <1>8, <1>12, <1>13, <2>1 DEF TruthInv

(* A figure that was read stays a figure that was read.                    *)
LEMMA ReadStaysRead ==
  ASSUME TruthGrows, Now \in Nat, NEW sample, WasRead(sample)
  PROVE  WasRead(sample)'
<1>1. sample.at \in 1 .. Now /\ sample.at \in 1 .. Now' /\ truth'[sample.at] = truth[sample.at]
  BY DEF TruthGrows, WasRead
<1> QED BY <1>1 DEF WasRead, Announced

(* So does everything a memory holds.                                      *)
LEMMA MemoryStaysRead ==
  ASSUME TruthGrows, Now \in Nat, NEW m, MemoryRead(m)
  PROVE  MemoryRead(m)'
<1>1. ASSUME NEW samples, AllRead(samples)
      PROVE  AllRead(samples)'
  BY <1>1, ReadStaysRead DEF AllRead
<1>2. ASSUME NEW i \in 1 .. Len(m.history.samples)
      PROVE  m.history.resets \in Announced(m.history.samples[i].at)'
  <2>1. WasRead(m.history.samples[i])
    BY DEF MemoryRead, AllRead
  <2>2. m.history.samples[i].at \in 1 .. Now
    BY <2>1 DEF WasRead
  <2>3. truth'[m.history.samples[i].at] = truth[m.history.samples[i].at]
    BY <2>2 DEF TruthGrows
  <2> QED BY <2>3 DEF Announced, MemoryRead
<1> QED BY <1>1, <1>2 DEF MemoryRead

(* Two reset times are taken for one generation exactly when they are.     *)
LEMMA SameIsSame ==
  ASSUME TruthInv, NEW a \in 1 .. Now, NEW b \in 1 .. Now,
         NEW x \in Announced(a), NEW y \in Announced(b)
  PROVE  /\ SameGeneration(x, y) => truth[a].began = truth[b].began
         /\ truth[a].began = truth[b].began => SameGeneration(x, y)
<1>0. /\ Tolerance \in Nat /\ Period \in Nat /\ MinReset \in Nat /\ Jitter \subseteq Nat
      /\ \A i, j \in Jitter : i - j \in -Tolerance .. Tolerance /\ MinReset + i - j > Tolerance
  BY HistoryConstants, HistoryAssumption
<1>1. PICK i \in Jitter : x = truth[a].began + Period + i
  BY DEF Announced, AnnouncedBy
<1>2. PICK j \in Jitter : y = truth[b].began + Period + j
  BY DEF Announced, AnnouncedBy
<1>3. /\ i \in Nat /\ j \in Nat /\ i - j \in -Tolerance .. Tolerance
      /\ MinReset + i - j > Tolerance /\ MinReset + j - i > Tolerance
  BY <1>0
<1>4. /\ truth[a].began \in Nat /\ truth[b].began \in Nat /\ Now \in Nat
  BY TickTypes
<1>5. \/ truth[a].began = truth[b].began
      \/ truth[a].began + MinReset <= truth[b].began
      \/ truth[b].began + MinReset <= truth[a].began
  <2>1. a <= b => InOrderOfGenerations(a, b)
    BY DEF TruthInv
  <2>2. b <= a => InOrderOfGenerations(b, a)
    BY DEF TruthInv
  <2>3. a <= b \/ b <= a
    BY <1>4
  <2> QED BY <2>1, <2>2, <2>3 DEF InOrderOfGenerations
<1> QED BY <1>0, <1>1, <1>2, <1>3, <1>4, <1>5 DEF SameGeneration

-----------------------------------------------------------------------------
(* Recording.                                                              *)
LEMMA NotEmpty == \A s : Len(s) > 0 => s # <<>>
OBVIOUS

(* The newest n elements are the same without the oldest d.                *)
LEMMA NewestFrom ==
  ASSUME NEW S, NEW s \in Seq(S), NEW n \in Nat, n > 0
  PROVE  /\ Newest(s, n) \in Seq(S)
         /\ s # <<>> => Newest(s, n) # <<>> /\ Last(Newest(s, n)) = Last(s)
         /\ \E d \in Nat :
              /\ Len(s) = Len(Newest(s, n)) + d
              /\ \A i \in 1 .. Len(Newest(s, n)) : Newest(s, n)[i] = s[i + d]
<1>1. Len(s) \in Nat
  OBVIOUS
<1>2. CASE Len(s) > n
  <2> DEFINE d == Len(s) - n
             t == SubSeq(s, Len(s) - n + 1, Len(s))
  <2>1. Newest(s, n) = t
    BY <1>2 DEF Newest
  <2>2. /\ d \in Nat /\ t \in Seq(S) /\ Len(t) = n
        /\ \A i \in 1 .. n : t[i] = s[i + d]
    BY <1>1, <1>2
  <2>3. Last(t) = t[n] /\ Last(s) = s[Len(s)]
    BY <2>2 DEF Last
  <2>4. n \in 1 .. n /\ n + d = Len(s)
    BY <1>1
  <2>5. t # <<>>
    BY <2>2, NotEmpty
  <2> HIDE DEF d, t
  <2> QED BY <2>1, <2>2, <2>3, <2>4, <2>5, <1>1
<1>3. CASE ~(Len(s) > n)
  <2>1. Newest(s, n) = s
    BY <1>3 DEF Newest
  <2>2. Len(s) = Len(s) + 0 /\ \A i \in 1 .. Len(s) : s[i] = s[i + 0]
    BY <1>1
  <2> QED BY <2>1, <2>2
<1> QED BY <1>2, <1>3

(* t is what is left of s without its first d elements.                    *)
Without(s, d, t) == Len(s) = Len(t) + d /\ \A i \in 1 .. Len(t) : t[i] = s[i + d]

COROLLARY NewestShifts ==
  ASSUME NEW S, NEW s \in Seq(S), NEW n \in Nat, n > 0
  PROVE  \E d \in Nat : Without(s, d, Newest(s, n))
BY NewestFrom DEF Without

(* Each of the newest elements is an element.                              *)
LEMMA NewestAll ==
  ASSUME NEW S, NEW s \in Seq(S), NEW n \in Nat, n > 0
  PROVE  \A i \in 1 .. Len(Newest(s, n)) : \E j \in 1 .. Len(s) : Newest(s, n)[i] = s[j]
<1>1. PICK d \in Nat : Without(s, d, Newest(s, n))
  BY NewestShifts
<1>2. Len(Newest(s, n)) \in Nat
  BY NewestFrom
<1>3. ASSUME NEW i \in 1 .. Len(Newest(s, n))
      PROVE  i + d \in 1 .. Len(s) /\ Newest(s, n)[i] = s[i + d]
  BY <1>1, <1>2 DEF Without
<1> QED BY <1>3

(* A new sample at the end of a history keeps it true.                     *)
LEMMA AppendRead ==
  ASSUME NEW samples \in Seq(Samples), AllRead(samples), NEW sample \in Samples, WasRead(sample)
  PROVE  Append(samples, sample) \in Seq(Samples) /\ AllRead(Append(samples, sample))
<1>1. /\ Append(samples, sample) \in Seq(Samples) /\ Len(Append(samples, sample)) = Len(samples) + 1
      /\ \A i \in 1 .. Len(samples) : Append(samples, sample)[i] = samples[i]
      /\ Append(samples, sample)[Len(samples) + 1] = sample /\ Len(samples) \in Nat
  OBVIOUS
<1>2. ASSUME NEW i \in 1 .. Len(samples) + 1
      PROVE  WasRead(Append(samples, sample)[i])
  <2>1. CASE i \in 1 .. Len(samples)
    BY <1>1, <2>1 DEF AllRead
  <2>2. CASE i = Len(samples) + 1
    BY <1>1, <2>2
  <2> QED BY <1>1, <2>1, <2>2
<1> QED BY <1>1, <1>2 DEF AllRead

(* Dropping the oldest samples keeps readings readings.                    *)
LEMMA NewestRead ==
  ASSUME NEW samples \in Seq(Samples), AllRead(samples), NEW n \in Nat, n > 0
  PROVE  Newest(samples, n) \in Seq(Samples) /\ AllRead(Newest(samples, n))
<1>1. Newest(samples, n) \in Seq(Samples)
  BY NewestFrom
<1>2. \A i \in 1 .. Len(Newest(samples, n)) :
        \E j \in 1 .. Len(samples) : Newest(samples, n)[i] = samples[j]
  BY NewestAll
<1> QED BY <1>1, <1>2 DEF AllRead

Histories == [resets : Nat, samples : Seq(Samples), peak : Nat]

HistoryRead(history) ==
  /\ history \in Histories /\ AllRead(history.samples)
  /\ \A i \in 1 .. Len(history.samples) : history.resets \in Announced(history.samples[i].at)

(* record_burn_history keeps a history of readings.                        *)
LEMMA RecordHistoryRead ==
  ASSUME TruthInv, NEW history, HistoryRead(history), NEW sample \in Samples, WasRead(sample)
  PROVE  HistoryRead(RecordHistory(history, sample))
<1> DEFINE same == history.samples # <<>> /\ SameGeneration(history.resets, sample.resets)
           kept == IF same THEN history ELSE [EmptyHistory EXCEPT !.resets = sample.resets]
           longer == Append(kept.samples, sample)
           made == RecordHistory(history, sample)
<1>0. /\ MaxHistory \in Nat /\ MaxHistory > 0
      /\ sample.at \in Nat /\ sample.used \in Nat /\ sample.resets \in Nat
  BY HistoryConstants DEF Samples
<1>1. /\ history.resets \in Nat /\ history.samples \in Seq(Samples) /\ history.peak \in Nat
      /\ AllRead(history.samples)
  BY DEF HistoryRead, Histories
<1>2. /\ kept.resets = IF same THEN history.resets ELSE sample.resets
      /\ kept.samples = IF same THEN history.samples ELSE <<>>
      /\ kept.peak = IF same THEN history.peak ELSE 0
  BY DEF EmptyHistory
<1>3. /\ kept.resets \in Nat /\ kept.samples \in Seq(Samples) /\ kept.peak \in Nat
      /\ AllRead(kept.samples)
  <2>1. AllRead(<<>>) /\ <<>> \in Seq(Samples)
    BY DEF AllRead
  <2> HIDE DEF kept
  <2>2. CASE same
    BY <1>1, <1>2, <2>2
  <2>3. CASE ~same
    BY <1>0, <1>2, <2>1, <2>3
  <2> QED BY <2>2, <2>3
<1>4. /\ made.resets = kept.resets
      /\ made.samples = Newest(longer, MaxHistory)
      /\ made.peak = IF sample.used > kept.peak THEN sample.used ELSE kept.peak
      /\ made = [resets |-> made.resets, samples |-> made.samples, peak |-> made.peak]
  BY DEF RecordHistory
<1>5. longer \in Seq(Samples) /\ AllRead(longer)
  BY <1>3, AppendRead
<1>6. ASSUME NEW i \in 1 .. Len(longer)
      PROVE  kept.resets \in Announced(longer[i].at)
  <2>1. /\ Len(longer) = Len(kept.samples) + 1 /\ longer[Len(longer)] = sample
        /\ \A j \in 1 .. Len(kept.samples) : longer[j] = kept.samples[j]
        /\ Len(kept.samples) \in Nat
    BY <1>3
  <2>2. CASE same
    <3>1. /\ kept.resets = history.resets /\ kept.samples = history.samples
          /\ SameGeneration(history.resets, sample.resets) /\ 1 \in 1 .. Len(history.samples)
      BY <1>1, <1>2, <2>2
    <3>2. /\ history.samples[1].at \in 1 .. Now /\ sample.at \in 1 .. Now
          /\ history.resets \in Announced(history.samples[1].at)
          /\ sample.resets \in Announced(sample.at)
      BY <3>1 DEF HistoryRead, AllRead, WasRead
    <3>3. truth[history.samples[1].at].began = truth[sample.at].began
      BY <3>1, <3>2, SameIsSame
    <3>4. history.resets \in Announced(sample.at)
      BY <3>2, <3>3 DEF Announced
    <3>5. CASE i \in 1 .. Len(kept.samples)
      BY <2>1, <3>1, <3>5 DEF HistoryRead
    <3>6. CASE i = Len(longer)
      BY <2>1, <3>1, <3>4, <3>6
    <3> HIDE DEF longer, kept
    <3> QED BY <2>1, <3>5, <3>6
  <2>3. CASE ~same
    <3>1. kept.samples = <<>> /\ kept.resets = sample.resets
      BY <1>2, <2>3
    <3>2. i = Len(longer) /\ longer[i] = sample
      BY <2>1, <3>1
    <3> HIDE DEF longer, kept
    <3> QED BY <3>1, <3>2 DEF WasRead
  <2> QED BY <2>2, <2>3
<1>7. Newest(longer, MaxHistory) \in Seq(Samples) /\ AllRead(Newest(longer, MaxHistory))
  <2> HIDE DEF longer
  <2> QED BY <1>0, <1>5, NewestRead
<1>8. ASSUME NEW i \in 1 .. Len(Newest(longer, MaxHistory))
      PROVE  kept.resets \in Announced(Newest(longer, MaxHistory)[i].at)
  <2> HIDE DEF longer
  <2>1. PICK j \in 1 .. Len(longer) : Newest(longer, MaxHistory)[i] = longer[j]
    BY <1>0, <1>5, NewestAll
  <2> QED BY <1>6, <2>1
<1>9. made.peak \in Nat
  BY <1>0, <1>3, <1>4
<1> HIDE DEF made, longer, kept
<1>10. made \in Histories
  BY <1>3, <1>4, <1>7, <1>9 DEF Histories
<1>11. HistoryRead(made)
  BY <1>4, <1>7, <1>8, <1>10 DEF HistoryRead
<1> QED BY <1>11 DEF made

(* The sample is not older than the last of the samples, and its reading   *)
(* if it is as old.                                                        *)
Follows(sample, samples) ==
  samples # <<>> => /\ Last(samples).at <= sample.at
                    /\ Last(samples).at = sample.at => Last(samples).resets = sample.resets

EndsLike(samples, sample, before) ==
  \/ Last(samples) = sample
  \/ before # <<>> /\ Last(samples) = Last(before)

(* A recorded aggregate sample keeps the others spaced.                    *)
LEMMA RecordAggregateSpaced ==
  ASSUME NEW samples \in Seq(Samples), Spaced(samples), AllRead(samples),
         NEW sample \in Samples, WasRead(sample),
         Follows(sample, samples)
  PROVE  /\ RecordAggregate(samples, sample) \in Seq(Samples)
         /\ AllRead(RecordAggregate(samples, sample))
         /\ Spaced(RecordAggregate(samples, sample))
         /\ EndsLike(RecordAggregate(samples, sample), sample, samples)
<1> DEFINE longer == Append(samples, sample)
           n == Len(samples)
           made == Newest(longer, MaxSamples)
<1>0. MinInterval \in Nat /\ MinInterval > 0 /\ MaxSamples \in Nat /\ MaxSamples > 0
  BY HistoryConstants
<1>1. CASE ~(samples = <<>> \/ SpacedFrom(Last(samples), sample))
  BY <1>1 DEF RecordAggregate, EndsLike
<1>2. CASE samples = <<>> \/ SpacedFrom(Last(samples), sample)
  <2>1. RecordAggregate(samples, sample) = made
    BY <1>2 DEF RecordAggregate
  <2>2. /\ longer \in Seq(Samples) /\ Len(longer) = n + 1 /\ longer[n + 1] = sample
        /\ n \in Nat /\ \A i \in 1 .. n : longer[i] = samples[i]
    OBVIOUS
  <2>a. Last(longer) = sample
    BY <2>2 DEF Last
  <2>b. longer # <<>>
    <3> HIDE DEF longer
    <3> QED BY <2>2, NotEmpty
  <2>3. AllRead(longer)
    BY AppendRead
  <2>4. Spaced(longer)
    <3>1. ASSUME NEW i \in 1 .. n
          PROVE  longer[i].at < longer[i + 1].at /\ SpacedFrom(longer[i], longer[i + 1])
      <4>1. CASE i < n
        <5>1. i \in 1 .. n - 1 /\ longer[i] = samples[i] /\ longer[i + 1] = samples[i + 1]
          BY <2>2, <4>1
        <5> HIDE DEF longer
        <5> QED BY <5>1 DEF Spaced
      <4>2. CASE i = n
        <5>1. samples # <<>> /\ longer[i] = Last(samples) /\ longer[i + 1] = sample
          BY <2>2, <4>2 DEF Last
        <5>2. Last(samples) \in Samples
          BY <5>1, <2>2
        <5>3. Last(samples).at \in Nat /\ sample.at \in Nat
          BY <5>2 DEF Samples
        <5>4. SpacedFrom(Last(samples), sample)
          BY <1>2, <5>1
        <5>5. Last(samples).at < sample.at
          BY <1>0, <5>1, <5>3, <5>4 DEF SpacedFrom, Follows
        <5> HIDE DEF longer
        <5> QED BY <5>1, <5>4, <5>5
      <4> QED BY <2>2, <4>1, <4>2
    <3>2. 1 .. Len(longer) - 1 = 1 .. n
      BY <2>2
    <3> HIDE DEF longer
    <3> QED BY <3>1, <3>2 DEF Spaced
  <2> HIDE DEF longer
  <2>5. made \in Seq(Samples) /\ AllRead(made)
    BY <1>0, <2>2, <2>3, NewestRead
  <2>6. made # <<>> /\ Last(made) = sample
    BY <1>0, <2>2, <2>a, <2>b, NewestFrom
  <2>7. PICK d \in Nat : Without(longer, d, made)
    BY <1>0, <2>2, NewestShifts
  <2> HIDE DEF made
  <2>8. Spaced(made)
    <3>1. ASSUME NEW i \in 1 .. Len(made) - 1
          PROVE  made[i].at < made[i + 1].at /\ SpacedFrom(made[i], made[i + 1])
      <4>1. Len(made) \in Nat /\ Len(longer) \in Nat
        BY <2>2, <2>5
      <4>2. i + d \in 1 .. Len(longer) - 1 /\ i \in 1 .. Len(made) /\ i + 1 \in 1 .. Len(made)
        BY <2>7, <4>1 DEF Without
      <4>3. made[i] = longer[i + d] /\ made[i + 1] = longer[(i + 1) + d] /\ (i + 1) + d = (i + d) + 1
        BY SMTT(30), <2>7, <4>2 DEF Without
      <4> QED BY <2>4, <4>2, <4>3 DEF Spaced
    <3> QED BY <3>1 DEF Spaced
  <2>9. EndsLike(made, sample, samples)
    BY <2>6 DEF EndsLike
  <2> QED BY <2>1, <2>5, <2>8, <2>9
<1> QED BY <1>1, <1>2

-----------------------------------------------------------------------------
(* The steps.                                                              *)
LEMMA HistoryInitInv == HistoryInit => HistoryInv
<1> SUFFICES ASSUME HistoryInit PROVE HistoryInv
  OBVIOUS
<1> DEFINE first == [burned |-> 0, began |-> 1, before |-> 0]
<1>1. truth = <<first>> /\ first \in Ticks
  BY DEF HistoryInit, Ticks
<1>2. truth \in Seq(Ticks) /\ Now = 1 /\ truth[1] = first
  BY <1>1 DEF Now
<1>3. /\ first.burned = 0 /\ first.began = 1 /\ first.before = 0
  OBVIOUS
<1> HIDE DEF first
<1>4. TruthInv
  BY <1>2, <1>3 DEF TruthInv, InOrderOfGenerations
<1>5. /\ memory = [window |-> <<>>, history |-> [resets |-> 0, samples |-> <<>>, peak |-> 0],
                   aggregate |-> <<>>]
      /\ snapshot = <<>> /\ reading = NotReading
  BY DEF HistoryInit, EmptyMemory, EmptyHistory
<1>6. MemoryRead(memory)
  BY <1>5 DEF MemoryRead, AllRead, Memories
<1>7. AggregateInv
  BY <1>5 DEF AggregateInv, Spaced
<1> QED BY <1>4, <1>5, <1>6, <1>7 DEF HistoryInv, ReadingsInv, SnapshotRead, DashboardRead

(* What is kept stays read.                                                *)
LEMMA StillRead ==
  ASSUME HistoryInv, TruthGrows
  PROVE  /\ UNCHANGED snapshot => SnapshotRead'
         /\ UNCHANGED memory => MemoryRead(memory)'
         /\ UNCHANGED reading => DashboardRead'
<1>0. Now \in Nat
  BY TickTypes DEF HistoryInv
<1>1. ASSUME NEW s, s = snapshot[1], UNCHANGED snapshot
      PROVE  SnapshotRead'
  <2>1. snapshot' # <<>> => WasRead(s)'
    BY <1>0, <1>1, ReadStaysRead DEF HistoryInv, ReadingsInv, SnapshotRead
  <2>2. snapshot'[1] = s
    BY <1>1
  <2>3. snapshot' # <<>> => snapshot' = <<snapshot'[1]>> /\ snapshot'[1] \in Snapshots
    BY <1>1 DEF HistoryInv, ReadingsInv, SnapshotRead
  <2> QED BY <2>1, <2>2, <2>3 DEF SnapshotRead, WasRead, Announced
<1>2. ASSUME NEW m, m = memory, UNCHANGED memory
      PROVE  MemoryRead(memory)'
  <2>1. MemoryRead(m)'
    BY <1>0, <1>2, MemoryStaysRead DEF HistoryInv, ReadingsInv
  <2>2. memory' = m
    BY <1>2
  <2> QED BY <2>1, <2>2 DEF MemoryRead, AllRead, WasRead, Announced
<1>3. ASSUME NEW m, m = reading[1].memory, UNCHANGED reading
      PROVE  DashboardRead'
  <2>1. reading # NotReading => MemoryRead(m)'
    BY <1>0, <1>3, MemoryStaysRead DEF HistoryInv, ReadingsInv, DashboardRead
  <2>2. reading'[1].memory = m
    BY <1>3
  <2>3. reading' # NotReading => reading # NotReading /\ reading'[1].now \in Nat
    BY <1>3 DEF HistoryInv, ReadingsInv, DashboardRead, NotReading
  <2> QED BY <2>1, <2>2, <2>3 DEF DashboardRead, MemoryRead, AllRead, WasRead, Announced
<1> QED BY <1>1, <1>2, <1>3

(* The invariant is kept while the provider counts.                        *)
LEMMA ProviderCountsInv == ASSUME HistoryInv, ProviderCounts PROVE HistoryInv'
<1>1. TruthInv' /\ TruthGrows
  BY TruthStep DEF HistoryInv
<1>2. UNCHANGED snapshot /\ UNCHANGED memory /\ UNCHANGED reading
  BY DEF ProviderCounts
<1>3. ReadingsInv'
  BY <1>1, <1>2, StillRead DEF ReadingsInv
<1>4. AggregateInv'
  BY <1>2 DEF HistoryInv, AggregateInv
<1> QED BY <1>1, <1>3, <1>4 DEF HistoryInv

(* The last of the aggregate samples.                                      *)
LEMMA LastSample ==
  ASSUME HistoryInv, memory.aggregate # <<>>
  PROVE  Last(memory.aggregate) \in Samples /\ Last(memory.aggregate).at \in Nat
<1>1. memory.aggregate \in Seq(Samples)
  BY DEF HistoryInv, ReadingsInv, MemoryRead, Memories
<1>2. Last(memory.aggregate) \in Samples
  BY <1>1 DEF Last
<1> QED BY <1>2 DEF Samples

(* A poll of the provider is a reading of the present tick.                *)
LEMMA ReadingRead ==
  ASSUME TruthInv, NEW jitter \in Jitter
  PROVE  Reading(jitter) \in Snapshots /\ WasRead(Reading(jitter)) /\ Reading(jitter).at = Now
<1> DEFINE s == Reading(jitter)
           burn == truth[Now].burned - truth[Now].before
<1>1. /\ Now \in Nat /\ Now >= 1 /\ truth[Now].burned \in Nat /\ truth[Now].began \in Nat
      /\ truth[Now].before \in Nat /\ truth[Now].before <= truth[Now].burned
  BY TickTypes DEF TruthInv
<1>2. /\ s.at = Now /\ s.used = burn \div Quantum
      /\ s.resets = truth[Now].began + Period + jitter
      /\ s = [at |-> s.at, used |-> s.used, resets |-> s.resets]
  BY DEF Reading
<1>3. jitter \in Nat /\ Period \in Nat /\ Quantum \in Nat /\ Quantum > 0
  BY HistoryConstants
<1>4. burn \in Nat
  BY <1>1
<1> HIDE DEF s, burn
<1>5. burn \div Quantum \in Nat
  BY <1>3, <1>4, DivisionFloor
<1>6. s \in Snapshots
  BY <1>1, <1>2, <1>3, <1>5 DEF Snapshots
<1>7. WasRead(s)
  BY <1>1, <1>2 DEF WasRead, Announced, AnnouncedBy, burn
<1> QED BY <1>2, <1>6, <1>7 DEF s

(* The invariant is kept by collect, which stores the snapshot it read.    *)
LEMMA CollectInv == ASSUME HistoryInv, Collect PROVE HistoryInv'
<1>1. UNCHANGED truth /\ UNCHANGED memory /\ UNCHANGED reading
  BY DEF Collect
<1>2. PICK s : s \in Snapshots /\ WasRead(s) /\ s.at = Now /\ snapshot' = <<s>>
  BY ReadingRead DEF Collect, HistoryInv
<1>3. TruthInv' /\ TruthGrows /\ Now \in Nat
  BY <1>1, TruthSame, TickTypes DEF HistoryInv
<1>4. SnapshotRead'
  <2>1. snapshot' = <<snapshot'[1]>> /\ snapshot'[1] = s
    BY <1>2
  <2>2. WasRead(s)'
    BY <1>2, <1>3, ReadStaysRead
  <2> QED BY <1>2, <2>1, <2>2 DEF SnapshotRead, WasRead, Announced
<1>5. ReadingsInv'
  BY <1>1, <1>3, <1>4, StillRead DEF ReadingsInv
<1>6. ASSUME memory.aggregate # <<>>
      PROVE  Last(memory.aggregate).at < s.at
  <2>1. /\ snapshot # <<>> /\ Last(memory.aggregate).at <= snapshot[1].at
        /\ snapshot[1].at < Now /\ snapshot[1].at \in Nat
    BY <1>6 DEF Collect, HistoryInv, AggregateInv, ReadingsInv, SnapshotRead, Snapshots
  <2> QED BY <1>2, <1>3, <1>6, <2>1, LastSample
<1>7. AggregateInv'
  <2>1. snapshot' # <<>> /\ snapshot'[1] = s /\ s.at \in Nat
    BY <1>2, <1>3
  <2>2. ASSUME memory.aggregate # <<>>
        PROVE  Last(memory.aggregate).at <= s.at /\ Last(memory.aggregate).at # s.at
    BY <1>6, <2>1, <2>2, LastSample
  <2> QED BY <1>1, <2>1, <2>2 DEF HistoryInv, AggregateInv
<1> QED BY <1>3, <1>5, <1>7 DEF HistoryInv

(* A sample made of a snapshot that was read.                              *)
LEMMA SampledRead ==
  ASSUME HistoryInv, snapshot # <<>>, NEW workers \in Nat
  PROVE  /\ Sampled(workers) \in Samples /\ WasRead(Sampled(workers))
         /\ Sampled(workers).at = snapshot[1].at /\ Sampled(workers).used = snapshot[1].used
         /\ Sampled(workers).resets = snapshot[1].resets
<1> DEFINE s == Sampled(workers)
<1>1. snapshot[1] \in Snapshots /\ WasRead(snapshot[1])
  BY DEF HistoryInv, ReadingsInv, SnapshotRead
<1>2. /\ s.at = snapshot[1].at /\ s.used = snapshot[1].used
      /\ s.resets = snapshot[1].resets /\ s.workers = workers
      /\ s = [at |-> s.at, used |-> s.used, resets |-> s.resets, workers |-> s.workers]
  BY DEF Sampled
<1> HIDE DEF s
<1>3. s \in Samples
  BY <1>1, <1>2 DEF Samples, Snapshots
<1>4. WasRead(s)
  BY <1>1, <1>2 DEF WasRead
<1> QED BY <1>2, <1>3, <1>4 DEF s

(* The invariant is kept by a poll of the governor, all three memories of it. *)
LEMMA GovernorPollsInv == ASSUME HistoryInv, GovernorPolls PROVE HistoryInv'
<1>1. UNCHANGED truth /\ UNCHANGED snapshot /\ UNCHANGED reading /\ snapshot # <<>>
  BY DEF GovernorPolls
<1>2. PICK workers \in Workers : memory' = Record(memory, Sampled(workers))
  BY DEF GovernorPolls
<1>3. workers \in Nat
  BY HistoryConstants
<1>4. PICK s : /\ s = Sampled(workers) /\ s \in Samples /\ WasRead(s)
               /\ s.at = snapshot[1].at /\ s.resets = snapshot[1].resets
  BY <1>1, <1>3, SampledRead
<1>5. /\ TruthInv /\ memory.history \in Histories /\ HistoryRead(memory.history)
      /\ memory.aggregate \in Seq(Samples) /\ AllRead(memory.aggregate)
      /\ Spaced(memory.aggregate)
  BY DEF HistoryInv, ReadingsInv, AggregateInv, MemoryRead, Memories, Histories, HistoryRead
<1>6. PICK h : h = RecordHistory(memory.history, s) /\ HistoryRead(h)
  BY <1>4, <1>5, RecordHistoryRead
<1>7. Follows(s, memory.aggregate)
  BY <1>4 DEF HistoryInv, AggregateInv, Follows
<1>8. PICK a : /\ a = RecordAggregate(memory.aggregate, s)
               /\ a \in Seq(Samples) /\ AllRead(a) /\ Spaced(a)
               /\ \/ Last(a) = s
                  \/ memory.aggregate # <<>> /\ Last(a) = Last(memory.aggregate)
  <2>1. PICK a : a = RecordAggregate(memory.aggregate, s)
    OBVIOUS
  <2>2. a \in Seq(Samples)
    BY <1>4, <1>5, <1>7, <2>1, RecordAggregateSpaced
  <2>3. AllRead(a)
    BY <1>4, <1>5, <1>7, <2>1, RecordAggregateSpaced
  <2>4. Spaced(a)
    BY <1>4, <1>5, <1>7, <2>1, RecordAggregateSpaced
  <2>5. EndsLike(a, s, memory.aggregate)
    BY <1>4, <1>5, <1>7, <2>1, RecordAggregateSpaced
  <2> QED BY <2>1, <2>2, <2>3, <2>4, <2>5 DEF EndsLike
<1>9. memory' = [window |-> <<s>>, history |-> h, aggregate |-> a]
  BY <1>2, <1>4, <1>6, <1>8 DEF Record
<1>10. memory'.window = <<s>> /\ memory'.history = h /\ memory'.aggregate = a
  BY <1>9
<1>11. ASSUME NEW m, m = memory'
       PROVE  MemoryRead(m)
  <2>1. <<s>> \in Seq(Samples) /\ AllRead(<<s>>)
    BY <1>4 DEF AllRead
  <2>2. h \in Histories /\ AllRead(h.samples)
    BY <1>6 DEF HistoryRead
  <2>3. m \in Memories
    BY <1>8, <1>9, <1>11, <2>1, <2>2 DEF Memories, Histories
  <2>4. AllRead(m.window) /\ AllRead(m.history.samples) /\ AllRead(m.aggregate)
    BY <1>8, <1>10, <1>11, <2>1, <2>2
  <2> QED BY <1>6, <1>10, <1>11, <2>3, <2>4 DEF MemoryRead, HistoryRead
<1>12. TruthInv' /\ TruthGrows /\ Now \in Nat
  BY <1>1, TruthSame, TickTypes DEF HistoryInv
<1>13. MemoryRead(memory)'
  <2>1. ASSUME NEW m, memory' = m
        PROVE  MemoryRead(memory)'
    <3>1. MemoryRead(m)'
      BY <1>11, <1>12, <2>1, MemoryStaysRead
    <3> QED BY <2>1, <3>1 DEF MemoryRead, AllRead, WasRead, Announced
  <2> QED BY <2>1
<1>14. ReadingsInv'
  BY <1>1, <1>12, <1>13, StillRead DEF ReadingsInv
<1>15. AggregateInv'
  <2>1. Spaced(memory.aggregate)'
    BY <1>8, <1>10 DEF Spaced, SpacedFrom
  <2>2. /\ Last(a).at <= snapshot[1].at
        /\ Last(a).at = snapshot[1].at => Last(a).resets = snapshot[1].resets
    <3>0. s.at \in Nat
      BY <1>4 DEF Samples
    <3>1. CASE Last(a) = s
      BY <1>4, <3>0, <3>1
    <3>2. CASE memory.aggregate # <<>> /\ Last(a) = Last(memory.aggregate)
      BY <1>1, <1>4, <3>2 DEF HistoryInv, AggregateInv
    <3> QED BY <1>8, <3>1, <3>2
  <2> QED BY <1>1, <1>10, <2>1, <2>2 DEF AggregateInv
<1> QED BY <1>12, <1>14, <1>15 DEF HistoryInv

(* The invariant is kept by the dashboard, which only reads.               *)
LEMMA DashboardInv ==
  ASSUME HistoryInv, DashboardReadsState \/ DashboardShows \/ UNCHANGED historyVars
  PROVE  HistoryInv'
<1>1. UNCHANGED truth /\ UNCHANGED snapshot /\ UNCHANGED memory
  BY DEF DashboardReadsState, DashboardShows, historyVars
<1>2. TruthInv' /\ TruthGrows /\ Now \in Nat
  BY <1>1, TruthSame, TickTypes DEF HistoryInv
<1>3. AggregateInv'
  BY <1>1 DEF HistoryInv, AggregateInv
<1>4. DashboardRead'
  <2>1. CASE DashboardReadsState
    <3>1. PICK m : m = memory /\ MemoryRead(m)
      BY DEF HistoryInv, ReadingsInv
    <3>2. reading' = <<[now |-> Now, memory |-> m]>>
      BY <2>1, <3>1 DEF DashboardReadsState
    <3>3. reading'[1].memory = m /\ reading'[1].now \in Nat
      BY <1>2, <3>2
    <3>4. MemoryRead(m)'
      BY <1>2, <3>1, MemoryStaysRead
    <3> QED BY <3>3, <3>4 DEF DashboardRead, MemoryRead, AllRead, WasRead, Announced
  <2>2. CASE DashboardShows
    BY <2>2 DEF DashboardShows, DashboardRead, NotReading
  <2>3. CASE UNCHANGED historyVars
    BY <1>2, <2>3, StillRead DEF historyVars
  <2> QED BY <2>1, <2>2, <2>3
<1>5. ReadingsInv'
  BY <1>1, <1>2, <1>4, StillRead DEF ReadingsInv
<1> QED BY <1>2, <1>3, <1>5 DEF HistoryInv

(* Every figure the governor or the dashboard holds was once read, of a    *)
(* tick that had the reset time it is stored under.                        *)
THEOREM HistoryIsTrue == HistorySpec => []HistoryInv
<1>1. HistoryInv /\ [HistoryNext]_historyVars => HistoryInv'
  BY ProviderCountsInv, CollectInv, GovernorPollsInv, DashboardInv DEF HistoryNext
<1> QED BY <1>1, HistoryInitInv, PTL DEF HistorySpec

-----------------------------------------------------------------------------
(* Estimates.  A sum of measured quanta telescopes, with the units that    *)
(* the provider had counted and not yet reported at either end.            *)
LEMMA DivisionRemainder ==
  ASSUME NEW n \in Nat, NEW t \in Nat, t > 0
  PROVE  n \div t \in Nat /\ n - t * (n \div t) \in 0 .. t - 1
OBVIOUS

Unreported(sample) ==
  truth[sample.at].burned - truth[sample.at].before - Quantum * sample.used

(* A figure leaves less than a quantum of the true burn unreported.        *)
LEMMA UnreportedRange ==
  ASSUME TruthInv, NEW sample, WasRead(sample)
  PROVE  sample.used \in Nat /\ Unreported(sample) \in 0 .. Quantum - 1
<1>1. Quantum \in Nat /\ Quantum > 0
  BY HistoryConstants
<1>2. sample.at \in 1 .. Now
  BY DEF WasRead
<1> DEFINE n == truth[sample.at].burned - truth[sample.at].before
<1>3. n \in Nat
  BY <1>2, TickTypes DEF TruthInv
<1>4. sample.used = n \div Quantum
  BY DEF WasRead
<1>5. Unreported(sample) = n - Quantum * sample.used
  BY DEF Unreported
<1> HIDE DEF n
<1> QED BY <1>1, <1>3, <1>4, <1>5, DivisionRemainder

(* Nonlinear steps, for numbers.                                           *)
Covers(q, b, before, u) == b - before - q * u \in 0 .. q - 1
StepExact(q, b, c, before, u, v) ==
  (v - u) * q <= (c - b) + (b - before - q * u) - (c - before - q * v)

(* Within a generation the burn between two figures is exact up to what    *)
(* they leave unreported.                                                  *)
LEMMA SameStep ==
  ASSUME NEW q \in Nat, q > 0, NEW b \in Nat, NEW c \in Nat, NEW before \in Nat,
         NEW u \in Nat, NEW v \in Nat, b <= c,
         Covers(q, b, before, u), Covers(q, c, before, v)
  PROVE  u <= v /\ StepExact(q, b, c, before, u, v)
<1>1. (v - u) * q = q * v - q * u
  OBVIOUS
<1>2. u > v => q * u >= q * v + q
  <2>1. u > v => u >= v + 1
    OBVIOUS
  <2>2. u >= v + 1 => u * q >= (v + 1) * q
    BY ProductMonotonic
  <2>3. (v + 1) * q = q * v + q /\ u * q = q * u
    OBVIOUS
  <2> QED BY <2>1, <2>2, <2>3
<1> DEFINE x == q * u
           y == q * v
<1>3. x \in Int /\ y \in Int
  OBVIOUS
<1> HIDE DEF x, y
<1>4. u > v => x >= y + q
  BY <1>2 DEF x, y
<1>5. b - before - x \in 0 .. q - 1 /\ c - before - y \in 0 .. q - 1
  BY DEF x, y, Covers
<1>6. u <= v
  BY <1>3, <1>4, <1>5
<1>7. (v - u) * q <= (c - b) + (b - before - x) - (c - before - y)
  <2>1. (v - u) * q = y - x
    BY <1>1 DEF x, y
  <2> QED BY <1>3, <2>1
<1> QED BY <1>6, <1>7 DEF x, y, StepExact

(* What two readings are taken to have burned is, up to what they leave    *)
(* unreported, no more than was burned between them.                       *)
LEMMA BurnedStep ==
  ASSUME TruthInv, NEW p, NEW n, WasRead(p), WasRead(n), p.at <= n.at
  PROVE  /\ Burned(p, n) \in Nat
         /\ Burned(p, n) * Quantum <= TrueBurn(p.at, n.at) + Unreported(p) - Unreported(n)
<1>1. Quantum \in Nat /\ Quantum > 0
  BY HistoryConstants
<1>2. /\ p.at \in 1 .. Now /\ n.at \in 1 .. Now
      /\ p.resets \in Announced(p.at) /\ n.resets \in Announced(n.at)
  BY DEF WasRead
<1>3. /\ p.used \in Nat /\ Unreported(p) \in 0 .. Quantum - 1
      /\ n.used \in Nat /\ Unreported(n) \in 0 .. Quantum - 1
  BY UnreportedRange
<1> DEFINE b == truth[p.at].burned
           c == truth[n.at].burned
           before == truth[n.at].before
<1>4. b \in Nat /\ c \in Nat /\ before \in Nat /\ b <= c /\ truth[p.at].before \in Nat
  BY <1>2, TickTypes DEF TruthInv
<1>5. InOrderOfGenerations(p.at, n.at)
  BY <1>2 DEF TruthInv
<1>6. TrueBurn(p.at, n.at) = c - b
  BY DEF TrueBurn
<1>7. Unreported(n) = c - before - Quantum * n.used
  BY DEF Unreported
<1>8. CASE SameGeneration(p.resets, n.resets)
  <2>1. truth[p.at].began = truth[n.at].began
    BY <1>2, <1>8, SameIsSame
  <2>2. truth[p.at].before = before
    <3>1. MinReset > 0 /\ MinReset \in Nat /\ truth[p.at].began \in Nat
      BY <1>2, HistoryConstants, TickTypes
    <3> QED BY <1>5, <2>1, <3>1 DEF InOrderOfGenerations
  <2>3. Unreported(p) = b - before - Quantum * p.used
    BY <2>2 DEF Unreported
  <2> HIDE DEF b, c, before
  <2>4. p.used <= n.used /\ StepExact(Quantum, b, c, before, p.used, n.used)
    <3>1. Covers(Quantum, b, before, p.used)
      BY <1>3, <2>3 DEF Covers
    <3>2. Covers(Quantum, c, before, n.used)
      BY <1>3, <1>7 DEF Covers
    <3> QED BY <1>1, <1>3, <1>4, <3>1, <3>2, SameStep
  <2>5. Burned(p, n) = n.used - p.used
    BY <1>3, <1>8, <2>4 DEF Burned
  <2>6. Burned(p, n) * Quantum <= TrueBurn(p.at, n.at) + Unreported(p) - Unreported(n)
    BY <1>6, <1>7, <2>3, <2>4, <2>5 DEF StepExact
  <2>7. TrueBurn(p.at, n.at) + Unreported(p) - Unreported(n) \in Int
    BY <1>3, <1>4, <1>6
  <2> QED BY <1>3, <2>4, <2>5, <2>6, <2>7
<1>9. CASE ~SameGeneration(p.resets, n.resets)
  <2>1. truth[p.at].began # truth[n.at].began
    BY <1>2, <1>9, SameIsSame
  <2>2. b <= before
    BY <1>5, <2>1 DEF InOrderOfGenerations
  <2>3. Burned(p, n) = n.used
    BY <1>9 DEF Burned
  <2> HIDE DEF b, c, before
  <2>4. n.used * Quantum = Quantum * n.used
    BY <1>1, <1>3
  <2>5. Quantum * n.used \in Int
    BY <1>1, <1>3
  <2>6. Quantum * n.used <= TrueBurn(p.at, n.at) + Unreported(p) - Unreported(n)
    <3> DEFINE x == Quantum * n.used
    <3>1. x \in Int /\ Unreported(n) = c - before - x
      BY <1>7, <2>5
    <3> HIDE DEF x
    <3>2. x <= TrueBurn(p.at, n.at) + Unreported(p) - Unreported(n)
      BY <1>1, <1>3, <1>4, <1>6, <2>2, <3>1
    <3> QED BY <3>2 DEF x
  <2> QED BY <1>3, <2>3, <2>4, <2>6
<1> QED BY <1>8, <1>9

(* True burn adds up over consecutive spans.                               *)
LEMMA BurnsAdd ==
  ASSUME TruthInv, NEW a \in 1 .. Now, NEW b \in 1 .. Now, NEW c \in 1 .. Now
  PROVE  TrueBurn(a, c) = TrueBurn(a, b) + TrueBurn(b, c)
<1>1. truth[a].burned \in Nat /\ truth[b].burned \in Nat /\ truth[c].burned \in Nat
  BY TickTypes
<1> QED BY <1>1 DEF TrueBurn

(* Readings in the order of their times.                                   *)
Chain(samples) ==
  /\ samples \in Seq(Samples) /\ AllRead(samples)
  /\ \A i \in 1 .. Len(samples) - 1 : samples[i].at < samples[i + 1].at

(* So the sum over the intervals of a chain is within the true burn of the *)
(* whole span: the unreported parts cancel except at its ends.             *)
LEMMA BurnTelescopes ==
  ASSUME TruthInv, NEW samples, Chain(samples), samples # <<>>
  PROVE  LET burned == BurnedOver(Intervals(samples), DOMAIN Intervals(samples))
         IN  /\ burned \in Nat
             /\ burned * Quantum
                  <= TrueBurn(samples[1].at, Last(samples).at)
                       + Unreported(samples[1]) - Unreported(Last(samples))
<1> DEFINE n == Len(samples)
           U == 1 .. n - 1
           f == [i \in U |-> Intervals(samples)[i].burned]
           true(k) == TrueBurn(samples[1].at, samples[k].at)
                        + Unreported(samples[1]) - Unreported(samples[k])
           G == {k \in Nat : k \in 1 .. n => SumOver(f, 1 .. k - 1) * Quantum <= true(k)}
<1>1. /\ n \in Nat /\ n >= 1 /\ IsFiniteSet(U) /\ samples \in Seq(Samples)
      /\ Quantum \in Nat /\ Quantum > 0
  BY HistoryConstants, FS_Interval DEF Chain
<1>2. \A k \in 1 .. n : /\ WasRead(samples[k]) /\ samples[k].at \in 1 .. Now
                        /\ Unreported(samples[k]) \in 0 .. Quantum - 1
                        /\ truth[samples[k].at].burned \in Nat
  BY UnreportedRange, TickTypes DEF Chain, AllRead, WasRead
<1>3. DOMAIN Intervals(samples) = U /\ \A i \in U : f[i] = Burned(samples[i], samples[i + 1])
  BY DEF Intervals
<1>4. ASSUME NEW i \in U
      PROVE  /\ f[i] \in Nat
             /\ f[i] * Quantum <= TrueBurn(samples[i].at, samples[i + 1].at)
                                    + Unreported(samples[i]) - Unreported(samples[i + 1])
  <2>1. /\ i \in 1 .. n /\ i + 1 \in 1 .. n /\ samples[i].at < samples[i + 1].at
        /\ f[i] = Burned(samples[i], samples[i + 1])
    BY <1>1, <1>3 DEF Chain
  <2>2. samples[i].at <= samples[i + 1].at
    BY <1>1, <1>2, <2>1
  <2> HIDE DEF f
  <2> QED BY <1>2, <2>1, <2>2, BurnedStep
<1>5. BurnedOver(Intervals(samples), U) = SumOver(f, U)
  BY DEF BurnedOver
<1> HIDE DEF f
<1>6. \A k \in 1 .. n : true(k) \in Int
  <2>1. 1 \in 1 .. n /\ \A k \in 1 .. n : Unreported(samples[k]) \in Int
    BY <1>1, <1>2
  <2> QED BY <1>2, <2>1 DEF TrueBurn
<1>7. \A k \in 1 .. n : SumOver(f, 1 .. k - 1) \in Nat
  <2>1. \A k \in 1 .. n : 1 .. k - 1 \subseteq U
    BY <1>1
  <2> QED BY <1>1, <1>4, <2>1, SumSubset
<1>8. 0 \in G
  OBVIOUS
<1>9. ASSUME NEW k \in Nat, k \in G
      PROVE  k + 1 \in G
  <2>1. CASE k = 0
    <3>1. 1 .. (k + 1) - 1 = {} /\ k + 1 = 1
      BY <2>1
    <3>2. SumOver(f, 1 .. (k + 1) - 1) * Quantum = 0
      BY <1>1, <3>1, SumEmpty
    <3>3. true(1) = 0
      BY <1>1, <1>2 DEF TrueBurn
    <3> QED BY <3>1, <3>2, <3>3
  <2>2. ASSUME k >= 1, k + 1 \in 1 .. n
        PROVE  SumOver(f, 1 .. (k + 1) - 1) * Quantum <= true(k + 1)
    <3>1. /\ k \in 1 .. n /\ k \in U \ (1 .. k - 1) /\ 1 .. k - 1 \in SUBSET U
          /\ 1 .. (k + 1) - 1 = (1 .. k - 1) \cup {k}
      BY <1>1, <2>2
    <3> DEFINE sum == SumOver(f, 1 .. k - 1)
               step == TrueBurn(samples[k].at, samples[k + 1].at)
                         + Unreported(samples[k]) - Unreported(samples[k + 1])
    <3>2. SumOver(f, 1 .. (k + 1) - 1) = sum + f[k]
      <4>1. ASSUME NEW S \in SUBSET U, NEW x \in U \ S
            PROVE  SumOver(f, S \cup {x}) = SumOver(f, S) + f[x]
        <5>1. \A i \in U : f[i] \in Nat
          BY <1>4
        <5> HIDE DEF U
        <5> QED BY <1>1, <5>1, SumAdd
      <4>2. SumOver(f, (1 .. k - 1) \cup {k}) = SumOver(f, 1 .. k - 1) + f[k]
        BY <3>1, <4>1
      <4> QED BY <3>1, <4>2
    <3>3. sum \in Nat /\ f[k] \in Nat /\ f[k] * Quantum <= step /\ sum * Quantum <= true(k)
      BY <1>4, <1>7, <1>9, <3>1
    <3>4. true(k + 1) = true(k) + step /\ true(k) \in Int /\ step \in Int
      <4>1. /\ truth[samples[1].at].burned \in Nat /\ truth[samples[k].at].burned \in Nat
            /\ truth[samples[k + 1].at].burned \in Nat
            /\ Unreported(samples[1]) \in Int /\ Unreported(samples[k]) \in Int
            /\ Unreported(samples[k + 1]) \in Int
        <5>1. 1 \in 1 .. n /\ k \in 1 .. n /\ k + 1 \in 1 .. n
          BY <1>1, <2>2, <3>1
        <5>2. \A j \in 1 .. n : /\ truth[samples[j].at].burned \in Nat
                                /\ Unreported(samples[j]) \in Int
          BY <1>1, <1>2
        <5> QED BY <5>1, <5>2
      <4>2. TrueBurn(samples[1].at, samples[k + 1].at)
              = TrueBurn(samples[1].at, samples[k].at) + TrueBurn(samples[k].at, samples[k + 1].at)
        <5>1. /\ samples[1].at \in 1 .. Now /\ samples[k].at \in 1 .. Now
              /\ samples[k + 1].at \in 1 .. Now
          <6>1. 1 \in 1 .. n /\ k \in 1 .. n /\ k + 1 \in 1 .. n
            BY <1>1, <2>2, <3>1
          <6> QED BY <1>2, <6>1
        <5> QED BY <5>1, BurnsAdd
      <4>3. /\ TrueBurn(samples[1].at, samples[k].at) \in Int
            /\ TrueBurn(samples[k].at, samples[k + 1].at) \in Int
        BY SMTT(30), <4>1 DEF TrueBurn
      <4> QED BY SMTT(30), <4>1, <4>2, <4>3
    <3> HIDE DEF sum, step, true
    <3>5. (sum + f[k]) * Quantum = sum * Quantum + f[k] * Quantum
      BY <1>1, <3>3
    <3>6. sum * Quantum \in Int /\ f[k] * Quantum \in Int
      BY <1>1, <3>3
    <3> QED BY <3>2, <3>3, <3>4, <3>5, <3>6
  <2> HIDE DEF true
  <2> QED BY <2>1, <2>2
<1> HIDE DEF G
<1>10. Nat \subseteq G
  BY <1>8, <1>9, NatSetInduction
<1>11. SumOver(f, 1 .. n - 1) * Quantum <= true(n)
  <2>1. n \in G /\ n \in 1 .. n
    BY <1>1, <1>10
  <2> QED BY <2>1 DEF G
<1>12. SumOver(f, U) \in Nat
  BY <1>1, <1>7
<1> QED BY <1>3, <1>5, <1>11, <1>12 DEF Last

(* The newest sample of some is found.                                     *)
LEMMA GreatestIndex ==
  ASSUME NEW n \in Nat, NEW S \in SUBSET (1 .. n), S # {}
  PROVE  Max(S) \in S
<1>1. IsFiniteSet(S)
  <2>1. IsFiniteSet(1 .. n)
    BY FS_Interval
  <2> QED BY <2>1, FS_Subset
<1>2. \E x \in S : \A y \in S : x >= y
  BY <1>1, GreatestNatural
<1> QED BY <1>2 DEF Max

(* The suffix that covers a span is itself a chain, to the same last       *)
(* sample, beginning before the span does.                                 *)
LEMMA CoveringChain ==
  ASSUME NEW samples, Chain(samples), NEW now \in Int, NEW span \in Int,
         Covering(samples, now, span) # <<>>
  PROVE  /\ Chain(Covering(samples, now, span))
         /\ Last(Covering(samples, now, span)) = Last(samples)
         /\ Covering(samples, now, span)[1].at <= now - span
<1> DEFINE n == Len(samples)
           old == {i \in DOMAIN samples : samples[i].at <= now - span}
           m == Max(old)
           c == SubSeq(samples, m, n)
<1>1. n \in Nat /\ samples \in Seq(Samples) /\ DOMAIN samples = 1 .. n
  BY DEF Chain
<1>2. old # {} /\ Covering(samples, now, span) = c
  BY DEF Covering
<1>3. m \in old
  BY <1>1, <1>2, GreatestIndex
<1>4. m \in 1 .. n /\ samples[m].at <= now - span
  BY <1>1, <1>3
<1> HIDE DEF m
<1>5. /\ c \in Seq(Samples) /\ Len(c) = n - m + 1
      /\ \A i \in 1 .. n - m + 1 : c[i] = samples[m + i - 1]
  BY SMTT(30), <1>1, <1>4
<1> HIDE DEF c, old
<1>6. ASSUME NEW i \in 1 .. Len(c)
      PROVE  WasRead(c[i])
  <2>1. m + i - 1 \in 1 .. n
    BY <1>1, <1>4, <1>5
  <2> QED BY <1>5, <2>1 DEF Chain, AllRead
<1>7. ASSUME NEW i \in 1 .. Len(c) - 1
      PROVE  c[i].at < c[i + 1].at
  <2>1. /\ m + i - 1 \in 1 .. n - 1 /\ c[i] = samples[m + i - 1]
        /\ c[i + 1] = samples[(m + i - 1) + 1]
    <3>1. i \in 1 .. n - m + 1 /\ i + 1 \in 1 .. n - m + 1 /\ m + (i + 1) - 1 = (m + i - 1) + 1
      BY <1>1, <1>4, <1>5
    <3> QED BY <1>1, <1>4, <1>5, <3>1
  <2> QED BY <2>1 DEF Chain
<1>8. Last(c) = Last(samples)
  <2>1. Len(c) \in 1 .. n - m + 1 /\ m + Len(c) - 1 = n
    BY <1>1, <1>4, <1>5
  <2>2. c[Len(c)] = samples[n]
    BY <1>5, <2>1
  <2> QED BY <2>2 DEF Last
<1>9. c[1].at <= now - span
  <2>1. 1 \in 1 .. n - m + 1 /\ m + 1 - 1 = m
    BY <1>1, <1>4
  <2> QED BY <1>4, <1>5, <2>1
<1> QED BY <1>2, <1>5, <1>6, <1>7, <1>8, <1>9 DEF Chain, AllRead

(* A later reading at the end of a chain, or any reading alone.            *)
LEMMA ChainAppend ==
  ASSUME NEW samples, Chain(samples), NEW sample \in Samples, WasRead(sample),
         samples # <<>> => Last(samples).at < sample.at
  PROVE  Chain(Append(samples, sample)) /\ Last(Append(samples, sample)) = sample
<1> DEFINE longer == Append(samples, sample)
           n == Len(samples)
<1>1. samples \in Seq(Samples) /\ AllRead(samples)
  BY DEF Chain
<1>2. longer \in Seq(Samples) /\ AllRead(longer)
  BY <1>1, AppendRead
<1>3. /\ Len(longer) = n + 1 /\ longer[n + 1] = sample /\ n \in Nat
      /\ \A i \in 1 .. n : longer[i] = samples[i]
  BY <1>1
<1> HIDE DEF longer
<1>4. ASSUME NEW i \in 1 .. Len(longer) - 1
      PROVE  longer[i].at < longer[i + 1].at
  <2>1. CASE i < n
    <3>1. i \in 1 .. n - 1 /\ longer[i] = samples[i] /\ longer[i + 1] = samples[i + 1]
      BY <1>3, <2>1
    <3> QED BY <3>1 DEF Chain
  <2>2. CASE i = n
    <3>1. longer[i] = samples[n] /\ longer[i + 1] = sample /\ samples # <<>>
      BY <1>3, <2>2
    <3> QED BY <3>1 DEF Last
  <2> QED BY <1>3, <2>1, <2>2
<1>5. Last(longer) = sample
  BY <1>3 DEF Last
<1> QED BY <1>2, <1>4, <1>5 DEF Chain, longer

(* Nothing measured is not more than the truth.                            *)
LEMMA NothingIsTrue ==
  ASSUME TruthInv, NEW t \in 1 .. Now
  PROVE  NotMoreThanTrue(0, t - 0, t)
<1>1. truth[t].burned \in Nat /\ Quantum \in Nat /\ Quantum > 0
  BY TickTypes, HistoryConstants
<1>2. t - 0 = t
  BY TickTypes
<1> QED BY <1>1, <1>2 DEF NotMoreThanTrue, TrueBurn

(* A chain of readings never shows more than a quantum above what was burned. *)
LEMMA ChainIsTrue ==
  ASSUME TruthInv, NEW samples, Chain(samples), samples # <<>>
  PROVE  LET intervals == Intervals(samples)
         IN  NotMoreThanTrue(BurnedOver(intervals, DOMAIN intervals),
                             samples[1].at, Last(samples).at)
<1> DEFINE burned == BurnedOver(Intervals(samples), DOMAIN Intervals(samples))
           true == TrueBurn(samples[1].at, Last(samples).at)
<1>1. /\ burned \in Nat
      /\ burned * Quantum <= true + Unreported(samples[1]) - Unreported(Last(samples))
  BY BurnTelescopes
<1>2. Quantum \in Nat /\ Quantum > 0
  BY HistoryConstants
<1>3. /\ WasRead(samples[1]) /\ WasRead(Last(samples))
      /\ samples[1].at \in 1 .. Now /\ Last(samples).at \in 1 .. Now
  <2>1. Len(samples) \in Nat /\ Len(samples) >= 1
    BY DEF Chain
  <2> QED BY <2>1 DEF Chain, AllRead, WasRead, Last
<1>4. /\ Unreported(samples[1]) \in 0 .. Quantum - 1
      /\ Unreported(Last(samples)) \in 0 .. Quantum - 1
  BY <1>3, UnreportedRange
<1>5. true \in Int
  BY <1>3, TickTypes DEF TrueBurn
<1>6. burned * Quantum \in Int
  <2> HIDE DEF burned
  <2> QED BY <1>1, <1>2
<1>7. burned * Quantum < true + Quantum
  <2> HIDE DEF burned, true
  <2> QED BY <1>1, <1>2, <1>4, <1>5, <1>6
<1> QED BY <1>7 DEF NotMoreThanTrue

(* The aggregate samples with the current one are a chain.                 *)
LEMMA AggregateChain ==
  ASSUME HistoryInv
  PROVE  Chain(memory.aggregate)
BY DEF HistoryInv, ReadingsInv, MemoryRead, Memories, AggregateInv, Spaced, Chain

(* controller.rs 735: what the aggregate estimator measures.               *)
LEMMA AggregateWithinTruth ==
  ASSUME HistoryInv, snapshot # <<>>
  PROVE  LET current == Sampled(1)
             aggregate == MeasuredBurn(BaselineSamples(memory.aggregate, current))
         IN  NotMoreThanTrue(aggregate.burned, current.at - aggregate.elapsed, current.at)
<1>1. PICK current : /\ current = Sampled(1) /\ current \in Samples /\ WasRead(current)
                     /\ current.at = snapshot[1].at /\ current.at \in 1 .. Now
  BY SampledRead DEF WasRead
<1> DEFINE samples == memory.aggregate
           all == IF samples = <<>> \/ Last(samples).at < current.at
                  THEN Append(samples, current) ELSE samples
           baseline == BaselineSamples(samples, current)
           measured == MeasuredBurn(baseline)
<1>2. TruthInv /\ Chain(samples) /\ Now \in Nat
  BY <1>1, AggregateChain, TickTypes DEF HistoryInv
<1>3. Chain(all) /\ all # <<>> /\ Last(all).at = current.at
  <2>1. CASE samples = <<>> \/ Last(samples).at < current.at
    <3>1. all = Append(samples, current)
      BY <2>1
    <3>2. Append(samples, current) # <<>>
      <4>1. Len(Append(samples, current)) = Len(samples) + 1 /\ Len(samples) \in Nat
        BY <1>1, <1>2 DEF Chain
      <4> QED BY SMTT(30), <4>1, NotEmpty
    <3>3. Chain(Append(samples, current)) /\ Last(Append(samples, current)) = current
      <4> HIDE DEF samples
      <4> QED BY <1>1, <1>2, <2>1, ChainAppend
    <3> QED BY <3>1, <3>2, <3>3
  <2>2. CASE samples # <<>> /\ ~(Last(samples).at < current.at)
    <3>1. Last(samples).at \in Nat /\ Last(samples).at <= current.at
      BY <1>1, <2>2, LastSample DEF HistoryInv, AggregateInv
    <3> QED BY <1>1, <1>2, <2>2, <3>1
  <2> QED BY <2>1, <2>2
<1>4. CASE measured.burned = 0 /\ measured.elapsed = 0
  BY <1>1, <1>2, <1>4, NothingIsTrue
<1>5. CASE ~(measured.burned = 0 /\ measured.elapsed = 0)
  <2>1. /\ baseline # <<>>
        /\ measured.burned = BurnedOver(Intervals(baseline), DOMAIN Intervals(baseline))
        /\ measured.elapsed = Last(baseline).at - baseline[1].at
    BY <1>5 DEF MeasuredBurn
  <2>2. baseline = Covering(all, current.at, Baseline)
    BY <2>1 DEF BaselineSamples
  <2> HIDE DEF all, measured, baseline
  <2>3. Chain(baseline) /\ Last(baseline) = Last(all)
    <3>1. Baseline \in Int /\ current.at \in Int
      BY <1>1, HistoryConstants
    <3> QED BY <1>3, <2>1, <2>2, <3>1, CoveringChain
  <2>4. NotMoreThanTrue(measured.burned, baseline[1].at, Last(baseline).at)
    BY <1>2, <2>1, <2>3, ChainIsTrue
  <2>5. current.at - measured.elapsed = baseline[1].at /\ Last(baseline).at = current.at
    <3>1. Len(baseline) >= 1 /\ baseline \in Seq(Samples)
      BY <2>1, <2>3 DEF Chain
    <3>2. baseline[1].at \in Int
      <4>1. baseline[1] \in Samples
        BY <3>1
      <4> QED BY <4>1 DEF Samples
    <3> QED BY <1>1, <1>3, <2>1, <2>3, <3>2
  <2> QED BY <2>4, <2>5, <1>1 DEF measured, baseline
<1> QED BY <1>1, <1>4, <1>5

(* controller.rs 919: what the rolling estimator measures, between two     *)
(* readings of one generation.                                             *)
LEMMA PairIsTrue ==
  ASSUME TruthInv, NEW p, NEW n, WasRead(p), WasRead(n), p.at <= n.at,
         SameGeneration(p.resets, n.resets)
  PROVE  /\ truth[p.at].began = truth[n.at].began
         /\ p.used <= n.used
         /\ NotMoreThanTrue(n.used - p.used, p.at, n.at)
         /\ TrueBurn(p.at, n.at) < (n.used - p.used + 1) * Quantum
<1>1. Quantum \in Nat /\ Quantum > 0
  BY HistoryConstants
<1>2. /\ p.at \in 1 .. Now /\ n.at \in 1 .. Now
      /\ p.resets \in Announced(p.at) /\ n.resets \in Announced(n.at)
  BY DEF WasRead
<1>3. /\ p.used \in Nat /\ Unreported(p) \in 0 .. Quantum - 1
      /\ n.used \in Nat /\ Unreported(n) \in 0 .. Quantum - 1
  BY UnreportedRange
<1>4. truth[p.at].began = truth[n.at].began
  BY <1>2, SameIsSame
<1>5. truth[p.at].before = truth[n.at].before /\ truth[p.at].burned <= truth[n.at].burned
  <2>1. InOrderOfGenerations(p.at, n.at) /\ truth[p.at].burned <= truth[n.at].burned
    BY <1>2 DEF TruthInv
  <2>2. MinReset > 0 /\ MinReset \in Nat /\ truth[p.at].began \in Nat
    BY <1>2, HistoryConstants, TickTypes
  <2> QED BY <1>4, <2>1, <2>2 DEF InOrderOfGenerations
<1> DEFINE b == truth[p.at].burned
           c == truth[n.at].burned
           before == truth[n.at].before
           x == Quantum * p.used
           y == Quantum * n.used
<1>6. b \in Nat /\ c \in Nat /\ before \in Nat /\ b <= c
  BY <1>2, <1>5, TickTypes
<1>7. Unreported(p) = b - before - x /\ Unreported(n) = c - before - y
  BY <1>5 DEF Unreported
<1>8. TrueBurn(p.at, n.at) = c - b /\ x \in Int /\ y \in Int
  BY <1>1, <1>3 DEF TrueBurn
<1>9. (n.used - p.used) * Quantum = y - x /\ (n.used - p.used + 1) * Quantum = y - x + Quantum
  BY <1>1, <1>3
<1>10. p.used <= n.used
  <2>1. Covers(Quantum, b, before, p.used) /\ Covers(Quantum, c, before, n.used)
    BY <1>3, <1>7 DEF Covers
  <2> HIDE DEF b, c, before
  <2> QED BY SMTT(30), <1>1, <1>3, <1>6, <2>1, SameStep
<1> HIDE DEF b, c, before, x, y
<1>11. c - b < y - x + Quantum /\ y - x < c - b + Quantum
  BY <1>1, <1>3, <1>6, <1>7, <1>8
<1>12. NotMoreThanTrue(n.used - p.used, p.at, n.at)
  BY <1>8, <1>9, <1>11 DEF NotMoreThanTrue
<1>13. TrueBurn(p.at, n.at) < (n.used - p.used + 1) * Quantum
  BY <1>8, <1>9, <1>11
<1> QED BY <1>4, <1>10, <1>12, <1>13

(* The window estimate counts only burn of the generation it is shown for. *)
LEMMA WindowWithinTruth ==
  ASSUME HistoryInv, snapshot # <<>>
  PROVE  LET current == Sampled(1)
             window == EstimateWindow(memory.aggregate, current, Window, StaleAfter)
         IN  /\ NotMoreThanTrue(window.burned, current.at - window.elapsed, current.at)
             /\ truth[current.at - window.elapsed].began = truth[current.at].began
<1>1. PICK current : /\ current = Sampled(1) /\ current \in Samples /\ WasRead(current)
                     /\ current.at = snapshot[1].at /\ current.at \in 1 .. Now
  BY SampledRead DEF WasRead
<1> DEFINE covering == Covering(memory.aggregate, current.at, Window)
           all == Append(covering, current)
           window == EstimateWindow(memory.aggregate, current, Window, StaleAfter)
<1>2. TruthInv /\ Chain(memory.aggregate) /\ Now \in Nat
  BY <1>1, AggregateChain, TickTypes DEF HistoryInv
<1>3. CASE window.burned = 0 /\ window.elapsed = 0
  <2>1. current.at - 0 = current.at
    BY <1>1, <1>2
  <2> QED BY <1>1, <1>2, <1>3, <2>1, NothingIsTrue
<1>4. CASE ~(window.burned = 0 /\ window.elapsed = 0)
  <2>1. /\ covering # <<>>
        /\ \A i \in DOMAIN all : SameGeneration(all[i].resets, current.resets)
        /\ window.burned = current.used - all[1].used
        /\ window.elapsed = current.at - all[1].at
    BY <1>4 DEF EstimateWindow
  <2> HIDE DEF window
  <2>2. Chain(covering) /\ covering[1].at <= current.at - Window
    <3>1. Window \in Int /\ current.at \in Int
      BY <1>1, HistoryConstants
    <3> HIDE DEF covering
    <3> QED BY <1>2, <2>1, <3>1, CoveringChain DEF covering
  <2> HIDE DEF covering
  <2>3. /\ covering \in Seq(Samples) /\ Len(covering) >= 1 /\ Len(covering) \in Nat
        /\ WasRead(covering[1])
    BY <2>1, <2>2 DEF Chain, AllRead
  <2>4. all[1] = covering[1] /\ 1 \in DOMAIN all
    BY <1>1, <2>3
  <2> HIDE DEF all
  <2>5. PICK p : p = covering[1] /\ WasRead(p) /\ p.at \in 1 .. Now /\ p.at <= current.at
    <3>1. WasRead(covering[1]) /\ covering[1].at \in 1 .. Now
      BY <2>3 DEF WasRead
    <3>2. covering[1].at <= current.at
      BY <1>1, <1>2, <2>2, <3>1, HistoryConstants
    <3> QED BY <3>1, <3>2
  <2>6. SameGeneration(p.resets, current.resets)
    BY <2>1, <2>4, <2>5
  <2>7. /\ NotMoreThanTrue(current.used - p.used, p.at, current.at)
        /\ truth[p.at].began = truth[current.at].began
    BY <1>1, <1>2, <2>5, <2>6, PairIsTrue
  <2>8. current.at - window.elapsed = p.at /\ window.burned = current.used - p.used
    BY <1>1, <1>2, <2>1, <2>4, <2>5
  <2> QED BY <1>1, <2>7, <2>8 DEF window
<1> QED BY <1>1, <1>3, <1>4

(* controller.rs 735: the estimates never exceed what was really burned.   *)
THEOREM EstimatesAreWithinTruth == HistorySpec => []EstimatesWithinTruth
<1>1. HistoryInv => EstimatesWithinTruth
  BY AggregateWithinTruth, WindowWithinTruth DEF EstimatesWithinTruth
<1> QED BY <1>1, HistoryIsTrue, PTL

-----------------------------------------------------------------------------
(* The baseline.  Between two samples of different generations a reset     *)
(* took place, and resets are apart; all other samples are spaced.         *)
JitterPair(samples) ==
  \E i \in 1 .. Len(samples) - 1 :
    /\ samples[i].resets # samples[i + 1].resets
    /\ SameGeneration(samples[i].resets, samples[i + 1].resets)

(* After k samples with n resets between them.                             *)
Reaches(samples, k, n) ==
  /\ samples[1].at <= samples[k].at
  /\ samples[1].at + (k - 1) * MinInterval - n * (MinInterval - 1) <= samples[k].at
  /\ n > 0 => samples[1].at + 1 + (n - 1) * MinReset <= truth[samples[k].at].began

(* Each further sample of a chain is a minimum interval later or opens a   *)
(* new generation, and generations are MinReset apart.                     *)
LEMMA ReachesStep ==
  ASSUME TruthInv, NEW samples, Chain(samples), Spaced(samples), ~JitterPair(samples),
         NEW k \in 1 .. Len(samples) - 1, NEW n \in Nat, Reaches(samples, k, n)
  PROVE  Reaches(samples, k + 1, n) \/ Reaches(samples, k + 1, n + 1)
<1> DEFINE first == samples[1].at
           a == samples[k].at
           b == samples[k + 1].at
           x == truth[a].began
           y == truth[b].began
           spread == (k - 1) * MinInterval
           slip == n * (MinInterval - 1)
           resets == (n - 1) * MinReset
<1>0. /\ MinInterval \in Nat /\ MinInterval >= 1 /\ MinReset \in Nat /\ MinReset >= 1
      /\ Len(samples) \in Nat
  BY HistoryConstants DEF Chain
<1>1. /\ 1 \in 1 .. Len(samples) /\ k \in 1 .. Len(samples) /\ k + 1 \in 1 .. Len(samples)
      /\ a < b /\ SpacedFrom(samples[k], samples[k + 1])
  BY <1>0 DEF Spaced
<1>2. /\ WasRead(samples[1]) /\ WasRead(samples[k]) /\ WasRead(samples[k + 1])
      /\ first \in 1 .. Now /\ a \in 1 .. Now /\ b \in 1 .. Now
      /\ samples[k].resets \in Announced(a) /\ samples[k + 1].resets \in Announced(b)
  BY <1>1 DEF Chain, AllRead, WasRead
<1>3. /\ Now \in Nat /\ x \in Nat /\ y \in Nat /\ x \in 1 .. a /\ y \in 1 .. b
  BY <1>2, TickTypes DEF TruthInv
<1>4. InOrderOfGenerations(a, b)
  BY SMTT(30), <1>1, <1>2, <1>3 DEF TruthInv
<1>5. /\ first <= a
      /\ first + spread - slip <= a
      /\ n > 0 => first + 1 + resets <= x
  BY DEF Reaches
<1>6. /\ ((k + 1) - 1) * MinInterval = spread + MinInterval
      /\ (n + 1) * (MinInterval - 1) = slip + (MinInterval - 1)
      /\ ((n + 1) - 1) * MinReset = resets + MinReset
      /\ spread \in Int /\ slip \in Nat /\ resets \in Int
  BY <1>0
<1>7. n = 0 => resets + MinReset = 0
  <2>1. n = 0 => ((n + 1) - 1) * MinReset = 0
    BY <1>0
  <2> QED BY <1>6, <2>1
<1>8. CASE samples[k].resets = samples[k + 1].resets
  <2>0. first <= b
    <3> HIDE DEF first, a, b
    <3> QED BY <1>1, <1>2, <1>5
  <2>1. b - a >= MinInterval
    BY <1>1, <1>8 DEF SpacedFrom
  <2>2. x <= y
    BY <1>0, <1>3, <1>4 DEF InOrderOfGenerations
  <2>3. first + (spread + MinInterval) - slip <= b
    <3> HIDE DEF first, a, b, x, y, spread, slip, resets
    <3> QED BY <1>0, <1>2, <1>5, <1>6, <2>1
  <2>4. n > 0 => first + 1 + resets <= y
    <3> HIDE DEF first, a, b, x, y, spread, slip, resets
    <3> QED BY <1>2, <1>3, <1>5, <1>6, <2>2
  <2>5. Reaches(samples, k + 1, n)
    BY <1>6, <2>0, <2>3, <2>4 DEF Reaches
  <2> QED BY <2>5
<1>9. CASE samples[k].resets # samples[k + 1].resets
  <2>0. first <= b
    <3> HIDE DEF first, a, b
    <3> QED BY <1>1, <1>2, <1>5
  <2>1. ~SameGeneration(samples[k].resets, samples[k + 1].resets)
    BY <1>9 DEF JitterPair
  <2>2. x # y
    BY <1>2, <2>1, SameIsSame
  <2>3. x + MinReset <= y /\ a < y
    BY <1>4, <2>2 DEF InOrderOfGenerations
  <2> HIDE DEF first, a, b, x, y, spread, slip, resets
  <2>5. first + (spread + MinInterval) - (slip + (MinInterval - 1)) <= b
    BY <1>0, <1>1, <1>2, <1>5, <1>6
  <2>6. first + 1 + (resets + MinReset) <= y
    BY <1>0, <1>2, <1>3, <1>5, <1>6, <1>7, <2>3
  <2>7. Reaches(samples, k + 1, n + 1)
    BY <1>6, <2>0, <2>5, <2>6 DEF Reaches, first, b, y, spread, slip, resets
  <2> QED BY <2>7
<1> QED BY <1>8, <1>9

(* So the first k samples reach as far as their count and their resets say. *)
LEMMA ReachesAll ==
  ASSUME TruthInv, NEW samples, Chain(samples), Spaced(samples), ~JitterPair(samples),
         NEW k \in 1 .. Len(samples)
  PROVE  \E n \in Nat : Reaches(samples, k, n)
<1> DEFINE G == {j \in Nat : j + 1 \in 1 .. Len(samples) => \E n \in Nat : Reaches(samples, j + 1, n)}
<1>0. Len(samples) \in Nat /\ samples \in Seq(Samples) /\ MinInterval \in Nat
  BY HistoryConstants DEF Chain
<1>1. 0 \in G
  <2>1. samples[1].at \in Int
    <3>1. 1 \in 1 .. Len(samples)
      BY <1>0
    <3>2. samples[1] \in Samples
      BY <1>0, <3>1
    <3> QED BY <3>2 DEF Samples
  <2>2. Reaches(samples, 1, 0)
    BY <1>0, <2>1 DEF Reaches
  <2> QED BY <2>2
<1>2. ASSUME NEW j \in Nat, j \in G
      PROVE  j + 1 \in G
  <2>1. ASSUME (j + 1) + 1 \in 1 .. Len(samples)
        PROVE  \E n \in Nat : Reaches(samples, (j + 1) + 1, n)
    <3>1. j + 1 \in 1 .. Len(samples) - 1 /\ j + 1 \in 1 .. Len(samples)
      BY <1>0, <2>1
    <3>2. PICK n \in Nat : Reaches(samples, j + 1, n)
      BY <1>2, <3>1
    <3>3. Reaches(samples, (j + 1) + 1, n) \/ Reaches(samples, (j + 1) + 1, n + 1)
      BY <3>1, <3>2, ReachesStep
    <3>4. n + 1 \in Nat
      OBVIOUS
    <3> QED BY <3>2, <3>3, <3>4
  <2> QED BY <2>1
<1> HIDE DEF G
<1>3. Nat \subseteq G
  BY <1>1, <1>2, NatSetInduction
<1>4. k - 1 \in G /\ (k - 1) + 1 = k
  BY <1>0, <1>3
<1> QED BY <1>4 DEF G

(* As many resets as fit into less than a baseline leave it covered.       *)
LEMMA FewResets ==
  ASSUME NEW n \in Nat, NEW m \in Nat, m > 0, NEW e \in Nat, n > 0, (n - 1) * m < e
  PROVE  n <= 1 + (e - 1) \div m
<1> DEFINE q == (e - 1) \div m
<1>1. e > 0 /\ e - 1 \in Nat
  <2>1. (n - 1) * m \in Nat
    OBVIOUS
  <2> QED BY <2>1
<1>2. q \in Nat /\ (e - 1) - m * q \in 0 .. m - 1
  BY <1>1, DivisionRemainder
<1> HIDE DEF q
<1>3. SUFFICES ASSUME n - 1 >= q + 1 PROVE FALSE
  BY <1>2 DEF q
<1>4. (n - 1) * m >= (q + 1) * m
  BY <1>2, <1>3, ProductMonotonic
<1>5. (q + 1) * m = m * q + m
  BY <1>2
<1> DEFINE x == m * q
           y == (n - 1) * m
<1>6. x \in Int /\ y \in Int /\ y >= x + m /\ y < e /\ (e - 1) - x \in 0 .. m - 1
  BY <1>2, <1>4, <1>5
<1> HIDE DEF x, y
<1> QED BY <1>6

(* A full memory with room for its resets spans the baseline.              *)
LEMMA BaselineCovered ==
  ASSUME TruthInv, NEW samples, Chain(samples), Spaced(samples), ~JitterPair(samples),
         Len(samples) = MaxSamples
  PROVE  Last(samples).at - samples[1].at >= Baseline
<1> DEFINE d == (Baseline - 1) \div MinReset
           first == samples[1].at
           last == samples[MaxSamples].at
<1>0. /\ MinInterval \in Nat /\ MinInterval >= 1 /\ MinReset \in Nat /\ MinReset >= 1
      /\ Baseline \in Nat /\ Baseline >= 1 /\ MaxSamples \in Nat /\ MaxSamples >= 1
      /\ (MaxSamples - 1) * MinInterval >= Baseline
  BY HistoryConstants, EstimatorAssumption
<1>1. d \in Nat
  <2>1. Baseline - 1 \in Nat
    BY <1>0
  <2> QED BY <1>0, <2>1, DivisionRemainder
<1>2. PICK n \in Nat : Reaches(samples, MaxSamples, n)
  BY <1>0, ReachesAll
<1>3. Last(samples).at = last
  BY DEF Last
<1>4. /\ first \in Nat /\ last \in 1 .. Now /\ Now \in Nat
      /\ truth[last].began \in 1 .. last
  <2>1. WasRead(samples[1]) /\ WasRead(samples[MaxSamples])
    BY <1>0 DEF Chain, AllRead
  <2>2. first \in 1 .. Now /\ last \in 1 .. Now
    BY <2>1 DEF WasRead
  <2> QED BY <2>2, TickTypes DEF TruthInv
<1>5. /\ first + (MaxSamples - 1) * MinInterval - n * (MinInterval - 1) <= last
      /\ n > 0 => first + 1 + (n - 1) * MinReset <= truth[last].began
  BY <1>2 DEF Reaches
<1> HIDE DEF first, last, d
<1>6. CASE n = 0
  <2>1. n * (MinInterval - 1) = 0
    BY <1>0, <1>6
  <2> DEFINE wide == (MaxSamples - 1) * MinInterval
  <2>2. wide \in Int /\ wide >= Baseline /\ first + wide <= last
    BY <1>0, <1>4, <1>5, <2>1
  <2> HIDE DEF wide
  <2> QED BY <1>0, <1>3, <1>4, <2>2 DEF first
<1>7. CASE n > 0 /\ last - first < Baseline
  <2> DEFINE apart == (n - 1) * MinReset
  <2>1. apart \in Nat
    BY <1>0, <1>7
  <2>2. apart < Baseline
    <3> HIDE DEF apart
    <3>1. first + 1 + apart <= truth[last].began
      BY <1>5, <1>7 DEF apart
    <3> QED BY <1>0, <1>4, <1>7, <2>1, <3>1
  <2>3. n <= 1 + d
    BY <1>0, <1>7, <2>2, FewResets DEF d
  <2>4. (1 + d) * (MinInterval - 1) >= n * (MinInterval - 1)
    BY <1>0, <1>1, <2>3, ProductMonotonic
  <2>5. (MaxSamples - 1) * MinInterval - (MinInterval - 1) * (1 + d) >= Baseline
    BY RoomForResets DEF d
  <2> DEFINE wide == (MaxSamples - 1) * MinInterval
             most == (1 + d) * (MinInterval - 1)
             slip == n * (MinInterval - 1)
  <2>6. (MinInterval - 1) * (1 + d) = most
    BY <1>0, <1>1
  <2>7. wide \in Int /\ most \in Int /\ slip \in Int
    BY <1>0, <1>1
  <2>8. wide - most >= Baseline /\ most >= slip /\ first + wide - slip <= last
    BY <1>5, <2>4, <2>5, <2>6
  <2> HIDE DEF wide, most, slip
  <2> QED BY <1>0, <1>4, <1>7, <2>7, <2>8
<1>8. CASE last - first >= Baseline
  BY <1>3, <1>8 DEF first
<1> QED BY <1>0, <1>4, <1>6, <1>7, <1>8

(* state.rs 50: a full aggregate history reaches back a whole baseline, or *)
(* two of its samples differ by the jitter of the reset time alone.        *)
THEOREM BaselineIsKept == HistorySpec => []BaselineKept
<1>1. HistoryInv => BaselineKept
  <2> SUFFICES ASSUME HistoryInv, Len(memory.aggregate) = MaxSamples,
                      Last(memory.aggregate).at - memory.aggregate[1].at < Baseline
               PROVE  JitterPair(memory.aggregate)
    BY DEF BaselineKept, JitterPair
  <2>1. TruthInv /\ Spaced(memory.aggregate) /\ Chain(memory.aggregate)
    BY AggregateChain DEF HistoryInv, AggregateInv
  <2>2. Baseline \in Nat /\ MaxSamples >= 1 /\ memory.aggregate \in Seq(Samples)
    BY <2>1, HistoryConstants DEF Chain
  <2>3. /\ Last(memory.aggregate) \in Samples /\ memory.aggregate[1] \in Samples
    BY <2>2 DEF Last
  <2>4. Last(memory.aggregate).at \in Nat /\ memory.aggregate[1].at \in Nat
    BY <2>3 DEF Samples
  <2> QED BY <2>1, <2>2, <2>4, BaselineCovered
<1> QED BY <1>1, HistoryIsTrue, PTL

-----------------------------------------------------------------------------
(* The dashboard.  The runs that compatible_history goes through exist,    *)
(* and each begins with a reading of the generation that is shown.         *)
RunsOver(run, samples, current, now, last) ==
  run = [time \in 0 .. last |->
           IF time = 0 THEN <<>> ELSE RunAt(run[time - 1], samples, time, current, now)]

(* The recursive function that cuts a history into runs is defined.        *)
LEMMA RunsExist ==
  ASSUME NEW samples, NEW current, NEW now, NEW last \in Nat
  PROVE  \E run : RunsOver(run, samples, current, now, last)
<1> DEFINE G == {n \in Nat : \E run : RunsOver(run, samples, current, now, n)}
<1>1. 0 \in G
  <2> DEFINE run == [time \in 0 .. 0 |-> <<>>]
  <2>1. run = [time \in 0 .. 0 |->
                 IF time = 0 THEN <<>> ELSE RunAt(run[time - 1], samples, time, current, now)]
    OBVIOUS
  <2> QED BY <2>1 DEF RunsOver
<1>2. ASSUME NEW n \in Nat, n \in G
      PROVE  n + 1 \in G
  <2>1. PICK run : RunsOver(run, samples, current, now, n)
    BY <1>2
  <2>2. \A time \in 0 .. n : run[time] =
          IF time = 0 THEN <<>> ELSE RunAt(run[time - 1], samples, time, current, now)
    BY <2>1 DEF RunsOver
  <2> DEFINE more == [time \in 0 .. n + 1 |->
                        IF time <= n THEN run[time]
                        ELSE RunAt(run[time - 1], samples, time, current, now)]
  <2>3. ASSUME NEW time \in 0 .. n + 1
        PROVE  more[time] =
                 IF time = 0 THEN <<>> ELSE RunAt(more[time - 1], samples, time, current, now)
    <3>1. CASE time = 0
      BY <2>2, <3>1
    <3>2. CASE time # 0
      <4>1. time - 1 \in 0 .. n /\ more[time - 1] = run[time - 1]
        BY <3>2
      <4>2. more[time] = RunAt(run[time - 1], samples, time, current, now)
        BY <2>2, <3>2
      <4> HIDE DEF more
      <4> QED BY <3>2, <4>1, <4>2
    <3> QED BY <3>1, <3>2
  <2>4. more = [time \in 0 .. n + 1 |->
                  IF time = 0 THEN <<>> ELSE RunAt(more[time - 1], samples, time, current, now)]
    BY <2>3
  <2> HIDE DEF more
  <2>5. RunsOver(more, samples, current, now, n + 1)
    BY <2>4 DEF RunsOver
  <2> QED BY <2>5
<1> HIDE DEF G
<1>3. Nat \subseteq G
  BY <1>1, <1>2, NatSetInduction
<1> QED BY <1>3 DEF G

(* The least of some numbers is one of them.                               *)
LEMMA LeastIndex ==
  ASSUME NEW S \in SUBSET Nat, S # {}
  PROVE  Min(S) \in S
<1>1. \E x \in S : \A y \in S : x <= y
  BY LeastNatural
<1> QED BY <1>1 DEF Min

(* A run begins with a reading of the generation of current.               *)
BeginsWell(run, current) ==
  /\ run \in Seq(Samples)
  /\ run # <<>> => /\ WasRead(run[1]) /\ run[1].at <= current.at
                   /\ SameGeneration(run[1].resets, current.resets)

(* An empty run begins well.                                               *)
LEMMA EmptyBeginsWell == ASSUME NEW current PROVE BeginsWell(<<>>, current)
<1>1. <<>> \in Seq(Samples)
  OBVIOUS
<1> QED BY <1>1 DEF BeginsWell

(* So does a run of one reading of the present generation.                 *)
LEMMA AloneBeginsWell ==
  ASSUME NEW current, NEW sample \in Samples, WasRead(sample), sample.at <= current.at,
         SameGeneration(sample.resets, current.resets)
  PROVE  BeginsWell(<<sample>>, current)
<1>1. PICK run : run = <<sample>>
  OBVIOUS
<1>2. run \in Seq(Samples) /\ run[1] = sample
  BY <1>1
<1>3. WasRead(run[1]) /\ run[1].at <= current.at /\ SameGeneration(run[1].resets, current.resets)
  BY <1>2
<1>4. BeginsWell(run, current)
  BY <1>2, <1>3 DEF BeginsWell
<1> QED BY <1>1, <1>4

(* A run that is carried on, or begun anew, begins well.                   *)
LEMMA RunOnBeginsWell ==
  ASSUME NEW run, NEW current, BeginsWell(run, current), NEW now,
         NEW sample \in Samples, WasRead(sample), sample.at <= current.at
  PROVE  BeginsWell(RunOn(run, sample, current, now), current)
<1> DEFINE made == RunOn(run, sample, current, now)
<1>1. ASSUME made = <<>> PROVE BeginsWell(made, current)
  <2> HIDE DEF made
  <2> QED BY <1>1, EmptyBeginsWell
<1>2. ASSUME made # <<>> PROVE BeginsWell(made, current)
  <2>1. /\ SameGeneration(sample.resets, current.resets)
        /\ \/ made = <<sample>>
           \/ made = Append(run, sample)
    BY <1>2 DEF RunOn
  <2> HIDE DEF made
  <2>2. run \in Seq(Samples)
    BY DEF BeginsWell
  <2>3. CASE made = <<sample>>
    BY <2>1, <2>3, AloneBeginsWell
  <2>4. CASE made = Append(run, sample) /\ run = <<>>
    <3>1. made = <<sample>>
      BY <2>4
    <3> QED BY <2>1, <3>1, AloneBeginsWell
  <2>5. CASE made = Append(run, sample) /\ run # <<>>
    <3>1. made \in Seq(Samples) /\ made[1] = run[1]
      BY <2>2, <2>5
    <3>2. /\ WasRead(run[1]) /\ run[1].at <= current.at
          /\ SameGeneration(run[1].resets, current.resets)
      BY <2>5 DEF BeginsWell
    <3>3. /\ WasRead(made[1]) /\ made[1].at <= current.at
          /\ SameGeneration(made[1].resets, current.resets)
      BY <3>1, <3>2
    <3> QED BY <3>1, <3>3 DEF BeginsWell
  <2> QED BY <2>1, <2>3, <2>4, <2>5
<1> QED BY <1>1, <1>2

(* So does every run compatible_history builds.                            *)
LEMMA RunsBeginWell ==
  ASSUME NEW samples, samples \in Seq(Samples), AllRead(samples),
         NEW current, current.at \in Nat, NEW now, NEW run,
         RunsOver(run, samples, current, now, current.at)
  PROVE  BeginsWell(run[current.at], current)
<1> DEFINE G == {n \in Nat : n <= current.at => BeginsWell(run[n], current)}
<1>0. \A time \in 0 .. current.at : run[time] =
        IF time = 0 THEN <<>> ELSE RunAt(run[time - 1], samples, time, current, now)
  BY DEF RunsOver
<1>1. 0 \in G
  <2>1. run[0] = <<>>
    BY <1>0
  <2> QED BY <2>1, EmptyBeginsWell
<1>2. ASSUME NEW n \in Nat, n \in G
      PROVE  n + 1 \in G
  <2>1. ASSUME n + 1 <= current.at
        PROVE  BeginsWell(run[n + 1], current)
    <3> DEFINE here == {i \in DOMAIN samples : samples[i].at = n + 1}
    <3>1. BeginsWell(run[n], current)
      BY <1>2, <2>1
    <3>2. run[n + 1] = RunAt(run[n], samples, n + 1, current, now)
      <4>1. n + 1 \in 0 .. current.at /\ n + 1 # 0 /\ (n + 1) - 1 = n
        BY <2>1
      <4> QED BY <1>0, <4>1
    <3>3. CASE here = {}
      BY <3>1, <3>2, <3>3 DEF RunAt
    <3>4. CASE here # {}
      <4>1. here \in SUBSET Nat /\ DOMAIN samples = 1 .. Len(samples)
        OBVIOUS
      <4>2. Min(here) \in here
        <5> HIDE DEF here
        <5> QED BY <3>4, <4>1, LeastIndex
      <4>3. PICK i \in 1 .. Len(samples) : i = Min(here) /\ samples[i].at = n + 1
        BY <4>1, <4>2
      <4>4. samples[i] \in Samples /\ WasRead(samples[i]) /\ samples[i].at <= current.at
        BY <2>1, <4>3 DEF AllRead
      <4>5. run[n + 1] = RunOn(run[n], samples[i], current, now)
        BY <3>2, <3>4, <4>3 DEF RunAt
      <4> QED BY <3>1, <4>4, <4>5, RunOnBeginsWell
    <3> QED BY <3>3, <3>4
  <2> QED BY <2>1
<1> HIDE DEF G
<1>3. Nat \subseteq G
  BY <1>1, <1>2, NatSetInduction
<1>4. current.at \in G
  BY <1>3
<1> QED BY <1>4 DEF G

(* Every sample that compatible_history goes through was read.             *)
StampedOf(m) ==
  [i \in DOMAIN m.history.samples |-> [m.history.samples[i] EXCEPT !.resets = m.history.resets]]

(* The samples the dashboard gathers from a memory were all read.          *)
LEMMA GatheredRead ==
  ASSUME NEW m, MemoryRead(m), NEW current \in Samples, WasRead(current)
  PROVE  /\ m.aggregate \o StampedOf(m) \o <<current>> \in Seq(Samples)
         /\ AllRead(m.aggregate \o StampedOf(m) \o <<current>>)
<1> DEFINE a == m.aggregate
           h == m.history.samples
           s == StampedOf(m)
           c == <<current>>
<1>1. /\ a \in Seq(Samples) /\ h \in Seq(Samples) /\ m.history.resets \in Nat
      /\ AllRead(a) /\ AllRead(h)
      /\ \A i \in 1 .. Len(h) : m.history.resets \in Announced(h[i].at)
  BY DEF MemoryRead, Memories
<1>2. DOMAIN h = 1 .. Len(h) /\ Len(h) \in Nat /\ \A i \in 1 .. Len(h) : h[i] \in Samples
  BY <1>1
<1>3. ASSUME NEW i \in 1 .. Len(h)
      PROVE  s[i] \in Samples /\ WasRead(s[i])
  <2>1. s[i] = [h[i] EXCEPT !.resets = m.history.resets] /\ h[i] \in Samples /\ WasRead(h[i])
    BY <1>1, <1>2 DEF StampedOf, AllRead
  <2>2. /\ s[i] \in Samples /\ s[i].at = h[i].at /\ s[i].used = h[i].used
        /\ s[i].resets = m.history.resets
    BY <1>1, <2>1 DEF Samples
  <2> QED BY <1>1, <2>1, <2>2 DEF WasRead
<1>4. s \in Seq(Samples) /\ Len(s) = Len(h)
  <2>1. s \in [1 .. Len(h) -> Samples]
    BY <1>2, <1>3 DEF StampedOf
  <2> HIDE DEF s, h
  <2> QED BY <1>2, <2>1
<1> HIDE DEF s, a, h
<1>5. AllRead(s)
  BY <1>3, <1>4 DEF AllRead
<1>6. ASSUME NEW p \in Seq(Samples), NEW q \in Seq(Samples), AllRead(p), AllRead(q)
      PROVE  p \o q \in Seq(Samples) /\ AllRead(p \o q)
  <2>1. /\ p \o q \in Seq(Samples) /\ Len(p \o q) = Len(p) + Len(q)
        /\ Len(p) \in Nat /\ Len(q) \in Nat
        /\ \A i \in 1 .. Len(p) + Len(q) :
             (p \o q)[i] = IF i <= Len(p) THEN p[i] ELSE q[i - Len(p)]
    BY ConcatProperties
  <2>2. ASSUME NEW i \in 1 .. Len(p) + Len(q)
        PROVE  WasRead((p \o q)[i])
    <3>1. CASE i <= Len(p)
      <4>1. i \in 1 .. Len(p) /\ (p \o q)[i] = p[i]
        BY <2>1, <3>1
      <4> QED BY <1>6, <4>1 DEF AllRead
    <3>2. CASE ~(i <= Len(p))
      <4>1. i - Len(p) \in 1 .. Len(q) /\ (p \o q)[i] = q[i - Len(p)]
        BY <2>1, <3>2
      <4> QED BY <1>6, <4>1 DEF AllRead
    <3> QED BY <3>1, <3>2
  <2> QED BY <2>1, <2>2 DEF AllRead
<1>7. c \in Seq(Samples) /\ AllRead(c)
  BY DEF AllRead
<1> HIDE DEF c
<1>8. a \o s \in Seq(Samples) /\ AllRead(a \o s)
  BY <1>1, <1>4, <1>5, <1>6
<1>9. (a \o s) \o c \in Seq(Samples) /\ AllRead((a \o s) \o c)
  BY <1>6, <1>7, <1>8
<1> QED BY <1>9 DEF a, s, c

(* compatible_history begins with a reading of the generation it is shown  *)
(* for.                                                                    *)
LEMMA CompatibleBeginsWell ==
  ASSUME NEW m, MemoryRead(m), NEW current \in Samples, WasRead(current), NEW now
  PROVE  BeginsWell(CompatibleHistory(m, current, now), current)
<1> DEFINE samples == m.aggregate \o StampedOf(m) \o <<current>>
           run == CHOOSE run : RunsOver(run, samples, current, now, current.at)
<1>1. samples \in Seq(Samples) /\ AllRead(samples) /\ current.at \in Nat
  BY GatheredRead DEF Samples
<1>2. CompatibleHistory(m, current, now) = run[current.at]
  BY DEF CompatibleHistory, StampedOf, RunsOver
<1> HIDE DEF samples
<1>3. RunsOver(run, samples, current, now, current.at)
  BY <1>1, RunsExist
<1> HIDE DEF run
<1> QED BY <1>1, <1>2, <1>3, RunsBeginWell

(* dashboard.rs 589: what a card shows is measured between two readings of *)
(* one generation, whichever of the two files the newer one is from.       *)
LEMMA CardIsTrue ==
  ASSUME HistoryInv, reading # NotReading, NEW disk \in {snapshot, <<>>},
         NEW card, card = WindowCard(reading[1].memory, disk, reading[1].now), card # NoMeasure
  PROVE  /\ truth[card.base].began = truth[card.at].began
         /\ NotMoreThanTrue(card.burned, card.base, card.at)
         /\ TrueBurn(card.base, card.at) < (card.burned + 1) * Quantum
<1>1. PICK m, now : /\ m = reading[1].memory /\ now = reading[1].now
                    /\ MemoryRead(m) /\ now \in Nat
  BY DEF HistoryInv, ReadingsInv, DashboardRead
<1> DEFINE shown == ShownSample(m, disk)
<1>2. shown # <<>> /\ card = MeasuredRate(m, shown[1], now)
  BY <1>1 DEF WindowCard
<1>3. shown[1] \in Samples /\ WasRead(shown[1])
  <2>1. CASE shown = m.window
    <3>1. m.window \in Seq(Samples) /\ m.window # <<>> /\ AllRead(m.window)
      BY <1>1, <1>2, <2>1 DEF MemoryRead, Memories
    <3>2. 1 \in 1 .. Len(m.window)
      BY <3>1
    <3> HIDE DEF shown
    <3> QED BY <2>1, <3>1, <3>2 DEF AllRead
  <2>2. CASE shown # m.window
    <3> DEFINE s == [at |-> snapshot[1].at, used |-> snapshot[1].used,
                     resets |-> snapshot[1].resets, workers |-> 0]
    <3>1. shown = <<s>> /\ snapshot # <<>>
      BY <2>2 DEF ShownSample
    <3>2. snapshot[1] \in Snapshots /\ WasRead(snapshot[1])
      BY <3>1 DEF HistoryInv, ReadingsInv, SnapshotRead
    <3>3. s \in Samples
      BY <3>2 DEF Samples, Snapshots
    <3>4. /\ s.at = snapshot[1].at /\ s.used = snapshot[1].used
          /\ s.resets = snapshot[1].resets
      OBVIOUS
    <3> HIDE DEF s, shown
    <3>5. WasRead(s)
      BY <3>2, <3>4 DEF WasRead
    <3> QED BY <3>1, <3>3, <3>5
  <2> QED BY <2>1, <2>2
<1> HIDE DEF shown
<1>4. PICK current : current = shown[1] /\ current \in Samples /\ WasRead(current)
  BY <1>3
<1> DEFINE run == CompatibleHistory(m, current, now)
<1>5. /\ run # <<>>
      /\ card = [burned |-> current.used - run[1].used, base |-> run[1].at, at |-> current.at]
  BY <1>2, <1>4 DEF MeasuredRate
<1>6. BeginsWell(run, current)
  BY <1>1, <1>4, CompatibleBeginsWell
<1> HIDE DEF run
<1>7. PICK p : /\ p = run[1] /\ WasRead(p) /\ p.at <= current.at
               /\ SameGeneration(p.resets, current.resets)
  BY <1>5, <1>6 DEF BeginsWell
<1>8. /\ card.burned = current.used - p.used /\ card.base = p.at /\ card.at = current.at
  BY <1>5, <1>7
<1>9. TruthInv
  BY DEF HistoryInv
<1> QED BY <1>4, <1>7, <1>8, <1>9, PairIsTrue

(* The rate on the dashboard is the account's own, although the two files  *)
(* it is made of are read at different moments.                            *)
THEOREM ShownRateIsMeasured == HistorySpec => []ShownRateIsTrue
<1>1. HistoryInv => ShownRateIsTrue
  BY CardIsTrue DEF ShownRateIsTrue
<1> QED BY <1>1, HistoryIsTrue, PTL

-----------------------------------------------------------------------------
(* The schedule of the run loop.                                           *)

(* A history of the run loop: turn k works, sleeps with a jitter, and is   *)
(* resumed late.                                                           *)
TurnType == [anchor : Nat, scheduled : SUBSET Nat, started : Nat]
History(turns, interval, works, jitters, overs) ==
  /\ turns \in [Nat -> TurnType] /\ turns[0] = Loop!FirstTurn
  /\ works \in [Nat -> Nat] /\ overs \in [Nat -> Nat]
  /\ \A k \in Nat :
       /\ jitters[k] \in Loop!bounded_jitter(interval)
       /\ turns[k + 1] = Loop!NextTurn(turns[k], interval, works[k], jitters[k], overs[k])

(* The jitter is at most a tenth of the interval.                          *)
LEMMA JitterBound ==
  ASSUME NEW interval \in Nat, JitterCap \in Nat
  PROVE  /\ Loop!max_bounded_jitter(interval) \in Nat
         /\ 10 * Loop!max_bounded_jitter(interval) <= interval
<1> DEFINE S == {interval \div 10, JitterCap}
<1>1. S \in SUBSET Nat /\ S # {}
  OBVIOUS
<1>2. \E n \in S : \A m \in S : n <= m
  <2> HIDE DEF S
  <2> QED BY <1>1, LeastNatural
<1>3. Loop!max_bounded_jitter(interval) = CHOOSE n \in S : \A m \in S : n <= m
  BY DEF Loop!max_bounded_jitter, Loop!Min
<1> HIDE DEF S
<1>4. Loop!max_bounded_jitter(interval) \in S
      /\ \A m \in S : Loop!max_bounded_jitter(interval) <= m
  BY <1>2, <1>3
<1>5. Loop!max_bounded_jitter(interval) \in Nat /\ Loop!max_bounded_jitter(interval) <= interval \div 10
  BY <1>1, <1>4 DEF S
<1> QED BY <1>5

(* One turn: it starts when its schedule says, plus the jitter and what    *)
(* the host adds; the schedule moves by an interval or to the end of work. *)
LapFollows(after, lap, interval, work, jitter, over) ==
  /\ lap.started + work < lap.anchor + interval => after.anchor = lap.anchor + interval
  /\ lap.started + work >= lap.anchor + interval => after.anchor = lap.started + work
  /\ after.started = after.anchor + jitter + over
  /\ after.scheduled = {after.anchor}

(* NextTurn is such a turn.                                                *)
LEMMA OneTurn ==
  ASSUME NEW lap \in TurnType, NEW interval \in Nat, NEW work \in Nat, NEW jitter \in Nat, NEW over \in Nat
  PROVE  LapFollows(Loop!NextTurn(lap, interval, work, jitter, over), lap, interval, work, jitter, over)
<1> DEFINE after == Loop!NextTurn(lap, interval, work, jitter, over)
           now == lap.started + work
<1> SUFFICES LapFollows(after, lap, interval, work, jitter, over)
  OBVIOUS
<1>1. lap.anchor \in Nat /\ lap.started \in Nat
  BY DEF TurnType
<1>2. \A t, d \in Nat : Loop!interruptible_sleep(t, d, {}) = t + d
  BY DEF Loop!interruptible_sleep
<1>3. after.scheduled = {after.anchor}
  BY DEF Loop!NextTurn
<1>4. CASE now < lap.anchor + interval
  <2> DEFINE left == lap.anchor + interval - now
  <2>1. Loop!advance_schedule(lap.anchor, interval, now) = [anchor |-> lap.anchor + interval, sleep |-> left]
    BY <1>1, <1>4 DEF Loop!advance_schedule
  <2>2. left \in Nat /\ now \in Nat
    BY <1>1, <1>4
  <2>3. Loop!interruptible_sleep(now, left + jitter, {}) = now + (left + jitter)
    <3> HIDE DEF left, now
    <3> QED BY <1>2, <2>2
  <2>4. after.anchor = lap.anchor + interval
        /\ after.started = Loop!interruptible_sleep(now, left + jitter, {}) + over
    <3> HIDE DEF left
    <3> QED BY <2>1 DEF Loop!NextTurn
  <2>5. after.started = after.anchor + jitter + over
    <3> HIDE DEF after
    <3> QED BY <1>1, <1>4, <2>3, <2>4
  <2> HIDE DEF after
  <2> QED BY <1>1, <1>3, <1>4, <2>4, <2>5 DEF LapFollows
<1>5. CASE ~(now < lap.anchor + interval)
  <2>1. Loop!advance_schedule(lap.anchor, interval, now) = [anchor |-> now, sleep |-> 0]
    BY <1>1, <1>5 DEF Loop!advance_schedule
  <2>2. now \in Nat
    BY <1>1
  <2>3. Loop!interruptible_sleep(now, 0 + jitter, {}) = now + (0 + jitter)
    <3> HIDE DEF now
    <3> QED BY <1>2, <2>2
  <2>4. after.anchor = now /\ after.started = Loop!interruptible_sleep(now, 0 + jitter, {}) + over
    BY <2>1 DEF Loop!NextTurn
  <2>5. after.started = after.anchor + jitter + over
    <3> HIDE DEF after
    <3> QED BY <1>1, <2>3, <2>4
  <2> HIDE DEF after
  <2> QED BY <1>1, <1>3, <1>5, <2>4, <2>5 DEF LapFollows
<1> QED BY <1>4, <1>5

(* A start is between its schedule and the jitter and oversleep after it.  *)
LEMMA StartNearAnchor ==
  ASSUME JitterCap \in Nat, NEW interval \in Nat, NEW turns, NEW works, NEW jitters, NEW overs,
         History(turns, interval, works, jitters, overs), NEW k \in Nat
  PROVE  turns[k + 1].started \in
           turns[k + 1].anchor .. turns[k + 1].anchor + Loop!max_bounded_jitter(interval) + overs[k]
<1>1. turns[k] \in TurnType /\ turns[k + 1] \in TurnType /\ works[k] \in Nat /\ overs[k] \in Nat
  BY DEF History
<1>2. jitters[k] \in 0 .. Loop!max_bounded_jitter(interval)
  BY DEF History, Loop!bounded_jitter
<1>3. Loop!max_bounded_jitter(interval) \in Nat /\ jitters[k] \in Nat
  BY <1>2, JitterBound
<1>4. turns[k + 1] = Loop!NextTurn(turns[k], interval, works[k], jitters[k], overs[k])
  BY DEF History
<1>5. turns[k].anchor \in Nat /\ turns[k].started \in Nat
  BY <1>1 DEF TurnType
<1>6. turns[k + 1].started = turns[k + 1].anchor + jitters[k] + overs[k]
  <2>1. LapFollows(turns[k + 1], turns[k], interval, works[k], jitters[k], overs[k])
    BY <1>1, <1>3, <1>4, OneTurn
  <2> QED BY <2>1 DEF LapFollows
<1>7. turns[k + 1].anchor \in Nat
  BY <1>1 DEF TurnType
<1> QED BY <1>1, <1>2, <1>3, <1>6, <1>7

(* main.rs 1083: two starts are never closer than an interval, less a      *)
(* jitter and what the host overslept before the first of them: a slow     *)
(* cycle is not followed by a burst of catching up.                        *)
THEOREM NoBurst ==
  ASSUME JitterCap \in Nat, NEW interval \in Nat, NEW turns, NEW works, NEW jitters, NEW overs,
         History(turns, interval, works, jitters, overs), NEW k \in Nat
  PROVE  turns[k + 2].started - turns[k + 1].started
           >= interval - Loop!max_bounded_jitter(interval) - overs[k]
<1>1. turns[k + 1] \in TurnType /\ turns[k + 2] \in TurnType /\ works[k + 1] \in Nat
      /\ overs[k] \in Nat /\ overs[k + 1] \in Nat
  BY DEF History
<1>2. jitters[k + 1] \in Nat /\ Loop!max_bounded_jitter(interval) \in Nat
  <2>1. jitters[k + 1] \in 0 .. Loop!max_bounded_jitter(interval)
    BY DEF History, Loop!bounded_jitter
  <2>2. Loop!max_bounded_jitter(interval) \in Nat
    BY JitterBound
  <2> QED BY <2>1, <2>2
<1>3. turns[k + 2] = Loop!NextTurn(turns[k + 1], interval, works[k + 1], jitters[k + 1], overs[k + 1])
  <2>1. (k + 1) + 1 = k + 2
    OBVIOUS
  <2> QED BY <2>1 DEF History
<1>4. turns[k + 1].started \in
        turns[k + 1].anchor .. turns[k + 1].anchor + Loop!max_bounded_jitter(interval) + overs[k]
  BY StartNearAnchor
<1>5. turns[k + 1].anchor \in Nat /\ turns[k + 1].started \in Nat
  BY <1>1 DEF TurnType
<1>6. turns[k + 2].started >= turns[k + 1].anchor + interval
  <2>1. LapFollows(turns[k + 2], turns[k + 1], interval, works[k + 1], jitters[k + 1], overs[k + 1])
    BY <1>1, <1>2, <1>3, OneTurn
  <2> QED BY <1>1, <1>2, <1>5, <2>1 DEF LapFollows
<1>7. turns[k + 2].started \in Nat
  BY <1>1 DEF TurnType
<1> QED BY <1>1, <1>2, <1>4, <1>5, <1>6, <1>7

(* main.rs 1080: cycles that fit into the interval start at whole          *)
(* intervals, give or take one jitter, for ever.                           *)
THEOREM NoDrift ==
  ASSUME JitterCap \in Nat, NEW interval \in Nat, NEW turns, NEW works, NEW jitters, NEW overs,
         History(turns, interval, works, jitters, overs),
         \A k \in Nat : overs[k] = 0 /\ turns[k].started + works[k] < turns[k].anchor + interval
  PROVE  \A k \in Nat : turns[k + 1].started \in
           (k + 1) * interval .. (k + 1) * interval + Loop!max_bounded_jitter(interval)
<1> DEFINE G == {k \in Nat : turns[k].anchor = k * interval}
<1>1. 0 \in G
  <2>1. turns[0].anchor = 0
    BY DEF History, Loop!FirstTurn
  <2> QED BY <2>1
<1>2. ASSUME NEW k \in Nat, k \in G
      PROVE  k + 1 \in G
  <2>1. turns[k] \in TurnType /\ works[k] \in Nat /\ overs[k] \in Nat
    BY DEF History
  <2>2. jitters[k] \in Nat
    <3>1. jitters[k] \in 0 .. Loop!max_bounded_jitter(interval)
      BY DEF History, Loop!bounded_jitter
    <3>2. Loop!max_bounded_jitter(interval) \in Nat
      BY JitterBound
    <3> QED BY <3>1, <3>2
  <2>3. turns[k + 1] = Loop!NextTurn(turns[k], interval, works[k], jitters[k], overs[k])
    BY DEF History
  <2>4. LapFollows(turns[k + 1], turns[k], interval, works[k], jitters[k], overs[k])
    BY <2>1, <2>2, <2>3, OneTurn
  <2>5. turns[k + 1].anchor = turns[k].anchor + interval
    BY <2>4 DEF LapFollows
  <2>6. (k + 1) * interval = k * interval + interval
    OBVIOUS
  <2> QED BY <1>2, <2>5, <2>6
<1>3. Nat \subseteq G
  <2> HIDE DEF G
  <2> QED BY <1>1, <1>2, NatSetInduction
<1> TAKE k \in Nat
<1>4. k + 1 \in G
  BY <1>3
<1>5. turns[k + 1].started \in
        turns[k + 1].anchor .. turns[k + 1].anchor + Loop!max_bounded_jitter(interval) + overs[k]
  BY StartNearAnchor
<1>6. Loop!max_bounded_jitter(interval) \in Nat
  BY JitterBound
<1> DEFINE due == (k + 1) * interval
<1>7. turns[k + 1].anchor = due /\ overs[k] = 0 /\ due \in Nat
  BY <1>4
<1> HIDE DEF due
<1>8. turns[k + 1].started \in due .. due + Loop!max_bounded_jitter(interval)
  BY <1>5, <1>6, <1>7
<1> QED BY <1>8 DEF due

(* main.rs 1121: the late and skipped metrics are silent unless the host   *)
(* resumes a sleep late, whatever the cycles took, and a delay beyond the  *)
(* longest jitter is always late.                                          *)
THEOREM OnlyOversleepIsLate ==
  ASSUME JitterCap \in Nat, NEW interval \in Nat \ {0}, NEW turns, NEW works, NEW jitters, NEW overs,
         History(turns, interval, works, jitters, overs), NEW k \in Nat
  PROVE  /\ overs[k] = 0 => Loop!Reported(turns[k + 1], interval) = [late |-> FALSE, skipped |-> 0]
         /\ overs[k] > Loop!max_bounded_jitter(interval) => Loop!Reported(turns[k + 1], interval).late
<1> DEFINE most == Loop!max_bounded_jitter(interval)
           lap == turns[k + 1]
           drift == lap.started - lap.anchor
<1>1. most \in Nat /\ most < interval
  <2>1. most \in Nat
    BY JitterBound
  <2>2. 10 * most <= interval
    BY JitterBound
  <2> HIDE DEF most
  <2> QED BY <2>1, <2>2
<1>2. lap \in TurnType /\ turns[k] \in TurnType /\ works[k] \in Nat /\ overs[k] \in Nat
  BY DEF History
<1>3. jitters[k] \in 0 .. most
  BY DEF History, Loop!bounded_jitter
<1>4. LapFollows(lap, turns[k], interval, works[k], jitters[k], overs[k])
  <2>1. lap = Loop!NextTurn(turns[k], interval, works[k], jitters[k], overs[k])
    BY DEF History
  <2>2. jitters[k] \in Nat
    BY <1>1, <1>3
  <2> HIDE DEF lap
  <2> QED BY <1>2, <2>1, <2>2, OneTurn
<1>5. lap.scheduled = {lap.anchor} /\ lap.started = lap.anchor + jitters[k] + overs[k]
  BY <1>4 DEF LapFollows
<1>6. lap.anchor \in Nat /\ lap.started \in Nat
  BY <1>2 DEF TurnType
<1>7. drift = jitters[k] + overs[k] /\ drift \in Nat
  BY <1>1, <1>2, <1>3, <1>5, <1>6
<1>8. Loop!Reported(lap, interval) = [late |-> drift > most, skipped |-> drift \div interval]
  <2>1. (CHOOSE t \in {lap.anchor} : TRUE) = lap.anchor
    OBVIOUS
  <2>2. Loop!Saturating(lap.started, lap.anchor) = drift
    BY <1>6, <1>7 DEF Loop!Saturating
  <2> HIDE DEF lap, drift, most
  <2> QED BY <1>5, <2>1, <2>2 DEF Loop!Reported, Loop!schedule_drift, most
<1>9. ASSUME overs[k] = 0
      PROVE  drift <= most /\ drift \div interval = 0
  <2>1. drift <= most
    BY <1>1, <1>3, <1>7, <1>9
  <2> HIDE DEF drift, most
  <2> QED BY <1>1, <1>7, <2>1
<1>10. overs[k] > most => drift > most
  BY <1>1, <1>2, <1>3, <1>7
<1> HIDE DEF lap, drift, most
<1>11. overs[k] = 0 => Loop!Reported(lap, interval) = [late |-> FALSE, skipped |-> 0]
  <2> SUFFICES ASSUME overs[k] = 0
               PROVE  Loop!Reported(lap, interval) = [late |-> FALSE, skipped |-> 0]
    OBVIOUS
  <2>1. (drift > most) = FALSE
    BY <1>1, <1>7, <1>9
  <2> QED BY <1>8, <1>9, <2>1
<1>12. overs[k] > most => Loop!Reported(lap, interval).late
  <2> SUFFICES ASSUME overs[k] > most
               PROVE  Loop!Reported(lap, interval).late
    OBVIOUS
  <2>1. (drift > most) = TRUE
    BY <1>1, <1>7, <1>10
  <2>2. Loop!Reported(lap, interval) = [late |-> TRUE, skipped |-> drift \div interval]
    BY <1>8, <2>1
  <2> QED BY <2>2
<1> QED BY <1>11, <1>12 DEF lap, most
=============================================================================
