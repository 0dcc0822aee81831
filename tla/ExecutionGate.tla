---------------------------- MODULE ExecutionGate ----------------------------
(***************************************************************************)
(* What guarded execution promises of an agent's actions, whatever the     *)
(* handlers, tables and jobs behind it: each action gets one verdict; a    *)
(* held action is opened by a human's approval; only open actions have     *)
(* effects.                                                                *)
(***************************************************************************)
CONSTANT Runs

VARIABLES
  verdict,   (* "none", "blocked", "held" or "open", per action            *)
  effects    (* the actions that were executed or reported as executed     *)

gateVars == <<verdict, effects>>

Init ==
  /\ verdict = [r \in Runs |-> "none"]
  /\ effects = {}

Decide(r) ==
  /\ verdict[r] = "none"
  /\ \E v \in {"blocked", "held", "open"} : verdict' = [verdict EXCEPT ![r] = v]
  /\ UNCHANGED effects

Release(r) ==
  /\ verdict[r] = "held"
  /\ verdict' = [verdict EXCEPT ![r] = "open"]
  /\ UNCHANGED effects

TakeEffect(r) ==
  /\ verdict[r] = "open"
  /\ effects' = effects \cup {r}
  /\ UNCHANGED verdict

Next == \E r \in Runs : Decide(r) \/ Release(r) \/ TakeEffect(r)

Spec == Init /\ [][Next]_gateVars
=============================================================================
