---------------------------- MODULE CodexSession ----------------------------
(***************************************************************************)
(* The supervised Codex app-server session of source.rs: a child process   *)
(* kept between polls, a cache fed by full reads and by pushed updates, a  *)
(* reconcile interval that forces a full read, and a capped, jittered      *)
(* backoff between restarts.                                               *)
(*                                                                         *)
(* Time advances in ticks and is kept as ages.  A rate-limit payload is    *)
(* the used percentage of each window, Null where a window is absent or    *)
(* malformed; it carries the age of the figures, which the code cannot     *)
(* see.  Only the newest undrained push matters, since draining overwrites *)
(* the cache with each one in turn; other frames are ignored.              *)
(***************************************************************************)
EXTENDS StepLimits

CONSTANTS
  Payloads,      \* functions from window ids to percentages (or Null)
  Percent,       \* the percentage that is 100 %
  Reconcile,     \* CODEX_RECONCILE_INTERVAL in ticks
  BackoffBase, BackoffMax,  \* CODEX_RESTART_BACKOFF_BASE and _MAX in ticks
  PollEvery      \* bound: ticks between two polls

Null == -1

ASSUME CodexAssumption ==
  /\ Reconcile \in Nat \ {0} /\ BackoffBase \in Nat \ {0} /\ BackoffMax \in Nat
  /\ BackoffBase <= BackoffMax /\ PollEvery \in Nat \ {0} /\ Percent \in Nat
  /\ \A p \in Payloads : \A w \in DOMAIN p : p[w] \in Nat \cup {Null}

VARIABLES
  session,   \* NoSession, or the live session
  pushed,    \* the newest update waiting in the channel, or Nothing
  backoff,   \* CodexRestartBackoff: consecutive failures and the time left
  answer,    \* outcome of the last poll: [ok, age, stamp]
  since,     \* ticks since the last poll
  healthy    \* TRUE once the app-server works for good

codexVars == <<session, pushed, backoff, answer, since, healthy>>

-----------------------------------------------------------------------------
(* parse_codex_rate_limits keeps the well-formed windows; validate_snapshot *)
(* refuses an empty list and a fraction above one.                         *)
ParsedWindows(payload) == {w \in DOMAIN payload : payload[w] # Null}
ValidSnapshot(payload) ==
  /\ ParsedWindows(payload) # {}
  /\ \A w \in ParsedWindows(payload) : payload[w] <= Percent

GoodPayloads == {p \in Payloads : ValidSnapshot(p)}

-----------------------------------------------------------------------------
Nothing == <<>>
NoSession == <<>>

(* age: how old the figures are; stamp: how old last_observed_at says they *)
(* are; reconciled: time since the last full read.                         *)
Cached(payload, age, stamp) == [payload |-> payload, age |-> age, stamp |-> stamp]
Session(cache, reconciled) == [cache |-> cache, reconciled |-> reconciled, up |-> TRUE]

Tick(n) == Min2(n + 1, Reconcile)
Aged(cache) == [cache EXCEPT !.age = Tick(@), !.stamp = Tick(@)]

RefusedPoll == [ok |-> FALSE, age |-> 0, stamp |-> 0]

CodexInit ==
  /\ session = NoSession
  /\ pushed = Nothing
  /\ backoff = [failures |-> 0, left |-> 0]
  /\ answer = RefusedPoll
  /\ since = 0
  /\ healthy = FALSE

CaptureReconciles(s) ==  \* variant: an update counts as a full read
  IF pushed = Nothing THEN s ELSE Session(Cached(pushed.payload, pushed.age, 0), 0)

(* capture_codex_notification: the update replaces the cache, stamped with *)
(* the moment it is drained; the reconcile clock is left alone.            *)
Capture(s) ==
  IF pushed = Nothing THEN s ELSE [s EXCEPT !.cache = Cached(pushed.payload, pushed.age, 0)]

CacheAlways(s) == TRUE  \* variant: no reconcile interval

(* codex_cache_is_usable.                                                  *)
CacheUsable(s) == s.reconciled < Reconcile

AnswerRestamped(cache) ==  \* variant: a cached answer is stamped when it is handed out
  IF ValidSnapshot(cache.payload)
  THEN [ok |-> TRUE, age |-> cache.age, stamp |-> 0] ELSE RefusedPoll

(* A poll's answer from what the session now holds; an unusable payload    *)
(* fails the poll and stays in the cache.                                  *)
Answer(cache) ==
  IF ValidSnapshot(cache.payload)
  THEN [ok |-> TRUE, age |-> cache.age, stamp |-> cache.stamp] ELSE RefusedPoll

FullRead(payload) == Session(Cached(payload, 0, 0), 0)

(* codex_restart_backoff_delay: doubling from the base, capped, with full  *)
(* jitter.  Failures are counted up to the point where the cap is reached. *)
BackoffCap(failures) == Min2(BackoffBase * 2 ^ (failures - 1), BackoffMax)
CountFailure(failures) ==
  IF failures > 0 /\ BackoffCap(failures) = BackoffMax THEN failures ELSE failures + 1

Delays(failures) == 0 .. BackoffCap(failures)

(* A read of the existing session succeeds with this payload.              *)
ReadsLive(payload) ==
  /\ session.up
  /\ session' = FullRead(payload)
  /\ answer' = Answer(session'.cache)
  /\ UNCHANGED backoff

(* restart_codex_session: refused while backing off; otherwise a spawn,    *)
(* handshake and first read that succeed together or fail together.        *)
RestartRefused ==
  /\ backoff.left > 0
  /\ session' = NoSession
  /\ answer' = RefusedPoll
  /\ UNCHANGED backoff

RestartSucceeds(payload) ==
  /\ backoff.left = 0
  /\ session' = FullRead(payload)
  /\ answer' = Answer(session'.cache)
  /\ backoff' = [failures |-> 0, left |-> 0]

RestartFails ==
  /\ backoff.left = 0 /\ ~healthy
  /\ session' = NoSession
  /\ answer' = RefusedPoll
  /\ LET failures == CountFailure(backoff.failures)
     IN  \E left \in Delays(failures) : backoff' = [failures |-> failures, left |-> left]

Restart(payloads) ==
  RestartRefused \/ RestartFails \/ \E p \in payloads : RestartSucceeds(p)

(* collect_codex: drain, answer from the cache, or read; a failed read     *)
(* drops the session and goes on to a restart in the same poll.            *)
Poll ==
  LET payloads == IF healthy THEN GoodPayloads ELSE Payloads
      drained == Capture(session)
  IN  /\ IF session # NoSession /\ CacheUsable(drained)
         THEN /\ session' = drained
              /\ answer' = Answer(drained.cache)
              /\ UNCHANGED backoff
         ELSE IF session # NoSession
              THEN \/ \E p \in payloads : ReadsLive(p)
                   \/ (~healthy \/ ~session.up) /\ Restart(payloads)
              ELSE Restart(payloads)
      /\ pushed' = Nothing
      /\ since' = 0
      /\ UNCHANGED healthy

-----------------------------------------------------------------------------
Push ==
  /\ session # NoSession /\ session.up
  /\ \E p \in IF healthy THEN GoodPayloads ELSE Payloads :
       pushed' = [payload |-> p, age |-> 0]
  /\ UNCHANGED <<session, backoff, answer, since, healthy>>

(* The app-server exits; what it pushed before stays readable.             *)
ServerExits ==
  /\ session # NoSession /\ session.up /\ ~healthy
  /\ session' = [session EXCEPT !.up = FALSE]
  /\ UNCHANGED <<pushed, backoff, answer, since, healthy>>

(* shutdown_codex_sessions, or a restart of the governor.                  *)
Shutdown ==
  /\ session # NoSession \/ backoff.failures > 0
  /\ ~healthy
  /\ session' = NoSession /\ pushed' = Nothing
  /\ backoff' = [failures |-> 0, left |-> 0]
  /\ UNCHANGED <<answer, since, healthy>>

TimePasses ==
  /\ since < PollEvery
  /\ since' = since + 1
  /\ session' = IF session = NoSession THEN session
                ELSE [session EXCEPT !.cache = Aged(@), !.reconciled = Tick(@)]
  /\ pushed' = IF pushed = Nothing THEN pushed ELSE [pushed EXCEPT !.age = Tick(@)]
  /\ backoff' = [backoff EXCEPT !.left = SaturatingSub(@, 1)]
  /\ UNCHANGED <<answer, healthy>>

BecomeHealthy ==
  /\ ~healthy /\ healthy' = TRUE
  /\ UNCHANGED <<session, pushed, backoff, answer, since>>

-----------------------------------------------------------------------------
(* The figures a poll reports are never older than the reconcile interval, *)
(* however the session, its pushes and its crashes interleave: a missed    *)
(* update can drift the reported quota for at most that long.              *)
DriftBounded == answer.ok => answer.age < Reconcile

(* last_observed_at is the moment the figures were received, "never the    *)
(* moment a cached answer is later handed back to a poll": a reported time *)
(* is not younger than the figures.  The code does not keep this: a pushed *)
(* update is stamped when the next poll drains it.                         *)
HonestStamp == answer.ok => answer.stamp >= answer.age

(* What the code gives instead: the stamp flatters the figures by at most  *)
(* the time between two polls.                                             *)
StampErrorBounded == answer.ok => answer.age <= answer.stamp + PollEvery

(* A working app-server is found again: after crashes, refused restarts    *)
(* and unusable updates, polls succeed and go on succeeding.               *)
HealthyAnswers == healthy ~> [](since = 0 => answer.ok)
=============================================================================
