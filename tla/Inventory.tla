----------------------------- MODULE Inventory -----------------------------
(***************************************************************************)
(* The preflight inventory: which controllers exist on which hosts, and    *)
(* whether two of them would actuate one account or one fleet.  Texts are  *)
(* sequences of characters.  No variables.                                 *)
(***************************************************************************)
EXTENDS Integers, SequencesExt

CONSTANTS Blank,     \* white space
          LowerOf    \* the ASCII lower case of each character

Lowered(text) == [i \in DOMAIN text |-> LowerOf[text[i]]]
AllBlank(text) == Range(text) \subseteq Blank
Canonical(text) == text # <<>> /\ Range(text) \cap Blank = {}

ValidController(c) ==
  /\ \A text \in {c.name, c.host, c.account_id, c.fleet_id} : Canonical(text)
  /\ ~AllBlank(c.evidence)
  /\ c.mode # "unknown"
  /\ c.mode = "actuating" => \E destination \in c.actuator : ~AllBlank(destination)

(* Names are compared without case, so one controller is listed once.      *)
validate(inventory) ==
  /\ inventory.version = 1
  /\ ~AllBlank(inventory.observed_at)
  /\ inventory.controllers # <<>>
  /\ \A i \in DOMAIN inventory.controllers :
       /\ ValidController(inventory.controllers[i])
       /\ \A j \in 1 .. i - 1 :
            Lowered(inventory.controllers[i].name) # Lowered(inventory.controllers[j].name)

SharedAccount(a, b) == Lowered(a.account_id) = Lowered(b.account_id)
SharedFleet(a, b) == Lowered(a.fleet_id) = Lowered(b.fleet_id)

(* Every pair of actuating controllers once, by their record numbers.      *)
check(controllers) ==
  LET actuating == {i \in DOMAIN controllers : controllers[i].mode = "actuating"}
      pairs == {p \in actuating \X actuating : p[1] < p[2]}
  IN  {[left |-> p[1], right |-> p[2],
        shared_account |-> SharedAccount(controllers[p[1]], controllers[p[2]]),
        shared_fleet |-> SharedFleet(controllers[p[1]], controllers[p[2]])] :
         p \in {q \in pairs : \/ SharedAccount(controllers[q[1]], controllers[q[2]])
                              \/ SharedFleet(controllers[q[1]], controllers[q[2]])}}

(* preflight::run: the command succeeds.                                   *)
Passes(inventory) == validate(inventory) /\ check(inventory.controllers) = {}
=============================================================================
