---- MODULE MCSources ----
EXTENDS Sources, TLC

CONSTANTS g1, g2

(* A usable payload, one without a usable window, one above 100 percent.   *)
MCPayloads == {[primary |-> 1, secondary |-> Null], [primary |-> Null, secondary |-> Null],
               [primary |-> 1, secondary |-> 3]}

-----------------------------------------------------------------------------
(* Facts about the parsers, over answers with every combination of missing *)
(* and out-of-range fields.                                                *)
Snap == INSTANCE Snapshots WITH Full <- 2, Blank <- {" "}, MaxBytes <- 3

Optional(values) == {{}} \cup {{v} : v \in values}
Entries ==
  {[is_active |-> a, utilization |-> u, percent |-> u, resets_at |-> r, kind |-> k] :
     a \in Optional(BOOLEAN), u \in Optional({1, 2, 3}), r \in Optional({7}),
     k \in Optional({<<"five_hour">>, <<"spend">>, <<>>})}
NamedEntries == {e \in Entries : e.kind = {}}
LimitEntries == {e \in Entries : e.is_active # {TRUE}}
Anthropic(entry, limits) ==
  [kind |-> "anthropic", answer |-> [windows |-> <<"five_hour">> :> entry, limits |-> limits]]
AnthropicAnswers ==
  {Anthropic(e, limits) : e \in NamedEntries,
     limits \in {<<>>} \cup {<<l>> : l \in LimitEntries} \cup
       {<<l, m>> : l \in {x \in LimitEntries : x.resets_at # {} /\ x.kind # {<<>>}}, m \in LimitEntries}}

Shown(entry) == entry.is_active # {FALSE} /\ entry.resets_at # {} /\ entry.percent # {}
(* The figure that counts for an id: the last usable limit of that kind,   *)
(* else the usable entry by that name.                                     *)
Figure(sent, id) ==
  LET given == {i \in DOMAIN sent.limits : sent.limits[i].kind = {id} /\ Shown(sent.limits[i])}
  IN  IF given # {} THEN sent.limits[Snap!Max(given)].percent
      ELSE UNION {sent.windows[w].percent : w \in {w \in DOMAIN sent.windows \cap {id} :
                                                      Shown(sent.windows[w])}}
Figures(sent) ==
  UNION {{<<id, figure>> : figure \in Figure(sent, id)} : id \in {<<"five_hour">>, <<"spend">>, <<>>}}

(* parse_anthropic_usage: an account has one window under an id, and a     *)
(* hidden or unusable limit does not hide the usable window by its name;   *)
(* one figure out of range, or one without an id, costs the whole answer.  *)
ASSUME OneFigurePerWindow ==
  \A source \in AnthropicAnswers :
    LET figures == Figures(source.answer)
        good == figures # {} /\ \A f \in figures : f[1] # <<>> /\ f[2] \in 0 .. 2
    IN  {{<<w.id, w.used_fraction>> : w \in Snap!ToSet(s.windows)} : s \in Snap!Collected(source)}
          = IF good THEN {figures} ELSE {}

CodexWindows ==
  {[used_percent |-> u, resets_at |-> r] : u \in Optional({1, 2, 3}), r \in Optional({7})}
Buckets == [{"primary", "secondary"} -> CodexWindows]
SomeBuckets == {b \in Buckets : b["secondary"].used_percent # {1}}
CreditRows == Optional({<<>>, <<[id |-> <<"a">>]>>, <<[id |-> <<" ">>], [id |-> <<"a">>]>>})
CodexAnswers ==
  {[kind |-> "codex",
    answer |-> [by_limit_id |-> m, rate_limits |-> old, available_count |-> n, credits |-> rows]] :
     m \in Optional({<<>>} \cup {"a" :> b : b \in SomeBuckets} \cup
                    {"a" :> b @@ "b" :> b : b \in SomeBuckets}),
     old \in Optional({[w \in {"primary"} |-> [used_percent |-> {u}, resets_at |-> {7}]] : u \in {1, 3}}),
     n \in Optional({0, 2}), rows \in CreditRows}

(* model.rs 91: the count of banked resets is the provider's, whatever     *)
(* becomes of the detail rows, and a row without an id costs nothing else. *)
ASSUME CountIsAuthoritative ==
  \A source \in CodexAnswers :
    LET sent == source.answer
        bare == [source EXCEPT !.answer = [sent EXCEPT !.credits = {}]]
    IN  /\ (Snap!Collected(source) = {}) = (Snap!Collected(bare) = {})
        /\ \A s \in Snap!Collected(source) :
             {c.available_count : c \in s.reset_credits} = sent.available_count

(* QuotaWindow: a window of a built-in source is reached exactly when its  *)
(* quota is used up to the last unit; beyond that there is no snapshot.    *)
ASSUME ReachedMeansFull ==
  \A source \in CodexAnswers \cup AnthropicAnswers :
    \A s \in Snap!Collected(source) :
      \A w \in Snap!ToSet(s.windows) : w.reached <=> w.used_fraction = 2

(* parse_codex_rate_limits: the older form of the answer counts only where *)
(* the map of limits is missing; an empty map is an answer without windows.*)
ASSUME OldFormIsAFallback ==
  \A source \in CodexAnswers :
    source.answer.by_limit_id # {} =>
      Snap!Collected(source) = Snap!Collected([source EXCEPT !.answer.rate_limits = {}])

Normalized(size, content) == [kind |-> "normalized", answer |-> [size |-> size, content |-> {content}]]

(* validate_snapshot, ResourceSnapshot: a normalized document counts as a  *)
(* whole or not at all: over the bound, with one id twice, or with figures *)
(* that contradict each other it gives nothing.                            *)
ASSUME WholeOrNothing ==
  \A size \in 3 .. 4, ids \in [1 .. 2 -> {<<"a">>, <<"b">>, <<>>}], requests, attempts \in 0 .. 1 :
    LET content == [windows |-> [i \in 1 .. 2 |-> Snap!QuotaWindow(ids[i], 1, 7)], reset_credits |-> {},
                    saturation |-> {[completed_requests |-> requests, attempts |-> attempts,
                                     upstream_concurrency_fraction |-> {1}]},
                    backpressure |-> {[upstream_429_fraction |-> {}]}]
        host == [host_id |-> ids[1], cpu_available_fraction |-> size - 2,
                 mem_available_mb |-> requests, mem_total_mb |-> attempts]
    IN  /\ Snap!Collected(Normalized(size, content)) =
             IF size = 3 /\ {ids[1], ids[2]} = {<<"a">>, <<"b">>} /\ requests <= attempts
             THEN {content} ELSE {}
        /\ Snap!collect_resource(Normalized(size, host)) =
             IF size = 3 /\ ids[1] # <<>> /\ requests <= attempts THEN {host} ELSE {}
====
