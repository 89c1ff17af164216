----------------------------- MODULE Snapshots -----------------------------
(***************************************************************************)
(* What the quota and resource sources make of an answer: the parsers of   *)
(* source.rs for the two built-in providers, and the validation every      *)
(* snapshot passes (model.rs).                                             *)
(*                                                                         *)
(* A field that may be missing or of the wrong type is a set, empty or     *)
(* with its one value.  Fractions are numbers of Full; text is a sequence  *)
(* of marks.  JSON has no infinity and no NaN, so is_finite always holds.  *)
(***************************************************************************)
EXTENDS Integers, Sequences, SequencesExt

CONSTANTS Full,       \* the whole quota
          Blank,      \* the marks trim() drops
          MaxBytes    \* MAX_GENERIC_INPUT_BYTES

QuotaWindow(id, used, resets) ==
  [id |-> id, used_fraction |-> used, resets_at |-> resets, reached |-> used >= Full]
NoSnapshot == {}

-----------------------------------------------------------------------------
(* Anthropic: three windows by name, then a list of limits by kind.  Only  *)
(* an explicit is_active = false hides an entry.                           *)
AnthropicWindows == {<<"five_hour">>, <<"seven_day">>, <<"weekly_scoped">>}

parse_anthropic_window(id, entry) ==
  {QuotaWindow(id, used, resets) :
     used \in IF entry.is_active = {FALSE} THEN {} ELSE entry.utilization,
     resets \in entry.resets_at}

parse_anthropic_limit(id, entry) ==
  {QuotaWindow(id, used, resets) :
     used \in IF entry.is_active = {FALSE} THEN {} ELSE entry.percent,
     resets \in entry.resets_at}

(* A window inserted under an id replaces the one it had.                  *)
InsertAll(windows, found) == {w \in windows : \A f \in found : f.id # w.id} \cup found

parse_anthropic_usage(payload) ==
  LET named == UNION {parse_anthropic_window(id, payload.windows[id]) :
                        id \in AnthropicWindows \cap DOMAIN payload.windows}
      windows == FoldLeft(LAMBDA all, limit :
                            InsertAll(all, UNION {parse_anthropic_limit(id, limit) : id \in limit.kind}),
                          named, payload.limits)
  IN  IF windows = {} THEN NoSnapshot
      ELSE {[windows |-> SetToSeq(windows), reset_credits |-> {}, saturation |-> {}, backpressure |-> {}]}

-----------------------------------------------------------------------------
(* Codex: buckets by limit id, or, where the answer has no such map, the   *)
(* one bucket of the older form.                                           *)
parse_codex_bucket(limit, bucket) ==
  UNION {{QuotaWindow(<<limit, name>>, used, resets) :
            used \in bucket[name].used_percent, resets \in bucket[name].resets_at} : name \in DOMAIN bucket}

Trimmed(text) == SelectSeq(text, LAMBDA mark : mark \notin Blank)

(* A row without a usable id is dropped; the count stays as it was sent.   *)
parse_reset_credits(result) ==
  {[available_count |-> count,
    credits |-> IF result.credits = {} THEN <<>>
                ELSE SelectSeq(CHOOSE rows \in result.credits : TRUE, LAMBDA row : Trimmed(row.id) # <<>>)] :
     count \in result.available_count}

parse_codex_rate_limits(result) ==
  LET windows ==
        IF result.by_limit_id # {}
        THEN UNION {UNION {parse_codex_bucket(limit, by_id[limit]) : limit \in DOMAIN by_id} :
                      by_id \in result.by_limit_id}
        ELSE UNION {parse_codex_bucket("default", bucket) : bucket \in result.rate_limits}
  IN  IF windows = {} THEN NoSnapshot
      ELSE {[windows |-> SetToSeq(windows), reset_credits |-> parse_reset_credits(result),
             saturation |-> {}, backpressure |-> {}]}

-----------------------------------------------------------------------------
ValidFraction(f) == f \in 0 .. Full
ValidSaturation(s) ==
  s.completed_requests <= s.attempts /\ \A f \in s.upstream_concurrency_fraction : ValidFraction(f)
ValidBackpressure(b) == \A f \in b.upstream_429_fraction : ValidFraction(f)

validate_snapshot(snapshot) ==
  LET windows == snapshot.windows
  IN  /\ windows # <<>>
      /\ \A i \in DOMAIN windows :
           /\ windows[i].id # <<>>
           /\ ValidFraction(windows[i].used_fraction)
           /\ \A j \in 1 .. i - 1 : windows[j].id # windows[i].id
      /\ \A credits \in snapshot.reset_credits :
           \A i \in DOMAIN credits.credits : Trimmed(credits.credits[i].id) # <<>>
      /\ \A s \in snapshot.saturation : ValidSaturation(s)
      /\ \A b \in snapshot.backpressure : ValidBackpressure(b)

(* A document over the bound fails; it is never cut short.                 *)
read_bounded(document) == {document.content : size \in {document.size} \cap 0 .. MaxBytes}

(* A normalized source says everything itself, reached included.           *)
Collected(source) ==
  {s \in CASE source.kind = "anthropic" -> parse_anthropic_usage(source.answer)
           [] source.kind = "codex" -> parse_codex_rate_limits(source.answer)
           [] source.kind = "normalized" -> UNION read_bounded(source.answer) :
     validate_snapshot(s)}

ValidResource(r) ==
  r.host_id # <<>> /\ ValidFraction(r.cpu_available_fraction) /\ r.mem_available_mb <= r.mem_total_mb
collect_resource(source) ==
  {r \in IF source.kind = "normalized" THEN UNION read_bounded(source.answer) ELSE {} : ValidResource(r)}
=============================================================================
