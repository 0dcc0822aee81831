----------------------------- MODULE Decisions -----------------------------
(***************************************************************************)
(* The built-in policy under its two users: evaluateActionPolicy, with the *)
(* customer's policies on top, and the public playground; and the pages    *)
(* that list what the decisions are made from.                             *)
(***************************************************************************)
EXTENDS ToolCalls, Playground, ListPanels

(* The types of the policies, the requests decided by them and the pages.  *)
TypeOK == PoliciesTypeOK /\ ToolCallsTypeOK /\ ListPanelsTypeOK

(* A decision keeps to its floor: no policy unblocks what the table blocks, *)
(* no policy is left matching everything by accident, the table holds what *)
(* it promises to hold, and the playground shows just that.                *)
DecisionsKeepTheFloor ==
  BlocksSurvivePolicies /\ EveryPolicyConstrains /\ GuaranteesHold /\ PresetsShowWhatTheySay
=============================================================================
