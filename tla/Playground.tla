----------------------------- MODULE Playground -----------------------------
(***************************************************************************)
(* The public playground: src/components/PolicyPlayground.tsx evaluates    *)
(* with the built-in rules whatever its visitor picks or edits, in the     *)
(* visitor's browser; its presets are src/lib/playgroundPresets.ts.        *)
(***************************************************************************)
EXTENDS PolicyRules

CONSTANT NoPreset

VARIABLES
  presetId,      (* the preset whose chip is lit, or NoPreset               *)
  draft          (* the action in the form                                  *)

playgroundVars == <<presetId, draft>>

Preset(type, tells, expected) == [actionType |-> type, tells |-> tells, expected |-> expected]

Presets == [
  read_env    |-> Preset("shell_command",   {"secret", "readOnly"}, "block"),
  rm_root     |-> Preset("shell_command",   {"destructive"},        "block"),
  force_push  |-> Preset("shell_command",   {"forcePush"},          "block"),
  deploy      |-> Preset("deploy_action",   {},                     "approval_required"),
  refund      |-> Preset("payment_action",  {},                     "approval_required"),
  npm_install |-> Preset("package_install", {},                     "sandbox_required"),
  edit_auth   |-> Preset("file_access",     {"writes"},             "restore_point_required"),
  git_status  |-> Preset("shell_command",   {"readOnly"},           "allow")]

ToDraft(preset) == [actionType |-> preset.actionType, tells |-> preset.tells]

PlaygroundInit == presetId = "read_env" /\ draft = ToDraft(Presets["read_env"])

(* pick.                                                                   *)
Pick(id) ==
  /\ presetId' = id
  /\ draft' = ToDraft(Presets[id])

(* Faulty variants, here and below, are what a plausible slip in the code  *)
(* would make of the definition that follows: each breaks a property.      *)
EditKeepsThePreset(type, tells) ==
  /\ draft' = [actionType |-> type, tells |-> tells]
  /\ UNCHANGED presetId

(* update: another type, or a text with other tells.  httpMethod finds one *)
(* method or none.                                                         *)
EditDraft(type, tells) ==
  /\ ~{"safeMethod", "otherMethod"} \subseteq tells
  /\ presetId' = NoPreset
  /\ draft' = [actionType |-> type, tells |-> tells]

PlaygroundNext ==
  \/ \E id \in DOMAIN Presets : Pick(id)
  \/ \E type \in ActionTypes : \E tells \in SUBSET PossibleTellsOf(type) : EditDraft(type, tells)

PlaygroundSpec == PlaygroundInit /\ [][PlaygroundNext]_playgroundVars

-----------------------------------------------------------------------------
(* Properties.                                                             *)

Shown == EvaluateAgentAction(draft).decision

(* The rule that comes first in the file is never the wrong one: whatever  *)
(* tells meet in one action, the guarantees of the decision table hold.    *)
GuaranteesHold ==
  /\ MustBlock(draft) => Shown = "block"
  /\ NeedsHuman(draft) => Shown \in {"block", "approval_required"}
  /\ NeedsCare(draft) => Shown # "allow"

(* A lit preset shows the decision that its chip announces, also after     *)
(* edits and picks in any order.                                           *)
PresetsShowWhatTheySay == presetId # NoPreset => Shown = Presets[presetId].expected
=============================================================================
