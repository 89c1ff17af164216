------------------------------ MODULE Identity ------------------------------
(***************************************************************************)
(* Worker identity.  A worker's name is its pool's prefix and a number, so *)
(* which instance counts, launches and retires a worker is decided by      *)
(* prefixes alone.  A text is a sequence of characters.  No variables.     *)
(***************************************************************************)
EXTENDS Integers, SequencesExt

CONSTANTS Lower, Upper, Digit   \* the letters and digits of texts

Separator == <<"-">>
Stem == <<"s", "g", "-">>

(* The stem and the trailing separator are both optional.                  *)
pool_of_prefix(prefix) ==
  LET pool == IF IsPrefix(Stem, prefix) THEN SubSeq(prefix, 4, Len(prefix)) ELSE prefix
  IN  IF IsSuffix(Separator, pool) THEN Front(pool) ELSE pool

effective_prefix(configured, host_id, primary) ==
  IF primary \/ IsSuffix(Separator \o host_id \o Separator, configured) THEN configured
  ELSE Stem \o pool_of_prefix(configured) \o Separator \o host_id \o Separator

matches_worker_prefix(prefix, worker_id) ==
  /\ IsStrictPrefix(prefix, worker_id)
  /\ Range(SubSeq(worker_id, Len(prefix) + 1, Len(worker_id))) \subseteq Digit

(* Texts that become part of session names, heartbeat files and units.     *)
NameCharacters == Lower \cup Upper \cup Digit \cup {".", "_", "-"}

validate_host_id(host_id) ==
  host_id # <<>> /\ Range(host_id) \subseteq Lower \cup Digit \cup {"-"}

(* prefix: the set of the configured prefix, empty when there is none.     *)
validate_identifier_prefix(prefix) ==
  \A p \in prefix : /\ Len(p) \in 1 .. 32
                    /\ Range(p) \subseteq Lower \cup Digit \cup {"-", "_"}

ValidName(name) == name # <<>> /\ Range(name) \subseteq NameCharacters

validate_takeover_identity(name) ==
  ValidName(name) /\ name[1] \notin {".", "_", "-"}
=============================================================================
