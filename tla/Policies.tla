------------------------------ MODULE Policies ------------------------------
(***************************************************************************)
(* Custom policies and the decisions made from them: src/lib/policyInput.ts, *)
(* the routes v1/policies, the custom policies of src/lib/agentwingStore.ts *)
(* and evaluateActionPolicy of src/lib/actionRunLifecycle.ts, which        *)
(* check-action, execute-action and the MCP tools share.                   *)
(*                                                                         *)
(* A glob, or the text a tool must include, is the set of values that it   *)
(* matches; GlobMatch is about the matching itself.                        *)
(***************************************************************************)
EXTENDS PolicyRules

CONSTANTS
  PolicyIds, Requests, PolicyWorkspaces, Projects,
  PolicyBodies,  (* what clients send to the policy routes                  *)
  Proposals,     (* what agents propose                                     *)
  MaxCreated,    (* bound on the policies created                           *)
  Absent, Empty, Invalid,   (* a field that is missing, "", or refused      *)
  NoPolicy

(* "default" and "none" say which rule decided where no policy did.         *)
ASSUME PolicyBounds == MaxCreated \in Nat /\ {"default", "none"} \cap PolicyIds = {}

(* What the routes let through: a decision is one of the list, a priority  *)
(* a number, enabled a boolean; a pattern is asked only about values that  *)
(* are there.  Of these only text may be empty, the rest is then refused.  *)
ASSUME InputsAreValid ==
  /\ \A body \in PolicyBodies :
       /\ body.decision \in {Absent, Invalid} \cup PolicyDecisions
       /\ body.priority \in {Absent, Invalid} \cup Nat
       /\ body.enabled \in {Absent, Invalid} \cup BOOLEAN
       /\ body.project \in {Absent, Empty, Invalid} \cup Projects
       /\ \A c \in {"tool", "targetPattern", "commandPattern"} :
            body[c] \in {Absent, Empty, Invalid} \/ {Absent, Empty} \cap body[c] = {}
  /\ \A action \in Proposals : action.actionType \in ActionTypes

VARIABLES
  policies,      (* custom_policies                                         *)
  created,       (* created_at of the newest                                *)
  decided        (* per request, what evaluateActionPolicy answered         *)

policyVars == <<policies, created, decided>>

Criteria == {"actionType", "tool", "targetPattern", "commandPattern"}

(* A policy or a body without a criterion has Absent there.                *)
Declared(p) == {c \in Criteria : p[c] \notin {Absent, Empty}}

PoliciesTypeOK ==
  /\ \A i \in PolicyIds : policies[i] # NoPolicy =>
       /\ policies[i].decision \in PolicyDecisions
       /\ policies[i].workspace \in PolicyWorkspaces
       /\ policies[i].project \in Projects \cup {Absent}
       /\ policies[i].priority \in Nat
       /\ policies[i].enabled \in BOOLEAN
       /\ policies[i].createdAt \in 1 .. created
  /\ created \in 0 .. MaxCreated
  /\ \A q \in Requests : decided[q] # Absent =>
       decided[q].decision \in PolicyDecisions \cup {"unavailable"}

PoliciesInit ==
  /\ policies = [i \in PolicyIds |-> NoPolicy]
  /\ created = 0
  /\ decided = [q \in Requests |-> Absent]

-----------------------------------------------------------------------------
(* parsePolicyInput and assertHasCriteria.                                 *)

Fields == Criteria \cup {"decision", "priority", "enabled", "project"}

Refused(body) == \E f \in Fields : body[f] = Invalid

(* Faulty variants, here and below, are what a plausible slip in the code  *)
(* would make of the definition that follows: each breaks a property.      *)
EmptyMeansClear(body) == [f \in Fields |-> body[f]]

(* optionalString: an empty field is a missing one.                        *)
ParsePolicyInput(body) == [f \in Fields |-> IF body[f] = Empty THEN Absent ELSE body[f]]

Or(value, default) == IF value = Absent THEN default ELSE value

(* POST v1/policies and createCustomPolicy.                                *)
CreateCustomPolicy(i, w, body) ==
  LET input == ParsePolicyInput(body)
  IN  /\ policies[i] = NoPolicy
      /\ ~Refused(body) /\ Declared(input) # {}
      /\ created < MaxCreated
      /\ created' = created + 1
      /\ policies' = [policies EXCEPT ![i] =
           [actionType |-> input.actionType, tool |-> input.tool,
            targetPattern |-> input.targetPattern, commandPattern |-> input.commandPattern,
            project |-> input.project, decision |-> Or(input.decision, "allow"),
            priority |-> Or(input.priority, 100), enabled |-> TRUE,
            workspace |-> w, createdAt |-> created + 1]]
      /\ UNCHANGED decided

(* The WHERE of the UPDATE and of the DELETE.                              *)
InWorkspace(i, w) == policies[i] # NoPolicy /\ policies[i].workspace = w

(* PATCH v1/policies/[id] and updateCustomPolicy: what is absent stays,    *)
(* and so does the project.                                                *)
UpdateCustomPolicy(i, w, body) ==
  LET input == ParsePolicyInput(body)
  IN  /\ InWorkspace(i, w) /\ ~Refused(body)
      /\ policies' = [policies EXCEPT ![i] =
           [f \in DOMAIN @ |->
              IF f \in Fields \ {"project"} /\ input[f] # Absent
              THEN IF input[f] = Empty THEN Absent ELSE input[f]
              ELSE @[f]]]
      /\ UNCHANGED <<created, decided>>

DeleteCustomPolicy(i, w) ==
  /\ InWorkspace(i, w)
  /\ policies' = [policies EXCEPT ![i] = NoPolicy]
  /\ UNCHANGED <<created, decided>>

-----------------------------------------------------------------------------
(* Deciding.                                                               *)

(* criterionMatches.                                                       *)
CriterionMatches(pattern, value) ==
  pattern \in {Absent, Empty} \/ (value \notin {Absent, Empty} /\ value \in pattern)

PolicyMatches(p, action) ==
  /\ Declared(p) # {}
  /\ p.actionType \in {Absent, Empty, action.actionType}
  /\ CriterionMatches(p.tool, action.tool)
  /\ CriterionMatches(p.targetPattern, action.target)
  /\ CriterionMatches(p.commandPattern, Or(action.command, action.target))

(* A key without a project gets the policies of every project.             *)
ListedPolicies(w, project) ==
  {i \in PolicyIds :
     /\ policies[i] # NoPolicy
     /\ policies[i].workspace = w
     /\ project # Absent => policies[i].project \in {Absent, project}}

OlderFirst(i, j) ==
  \/ policies[i].priority < policies[j].priority
  \/ policies[i].priority = policies[j].priority /\ policies[i].createdAt < policies[j].createdAt

(* ORDER BY priority ASC, created_at DESC; the sort that follows is stable. *)
Before(i, j) ==
  \/ policies[i].priority < policies[j].priority
  \/ policies[i].priority = policies[j].priority /\ policies[i].createdAt > policies[j].createdAt

(* matchCustomPolicy takes the first of these in that order.               *)
Matching(action, w, project) ==
  {i \in ListedPolicies(w, project) : policies[i].enabled /\ PolicyMatches(policies[i], action)}

First(ids) == CHOOSE i \in ids : \A j \in ids \ {i} : Before(i, j)

ForcePushNotMandatory(evaluation) ==
  /\ evaluation.decision = "block"
  /\ \/ evaluation.risk = "critical"
     \/ evaluation.policy \in {"block-secret-file-access", "block-destructive-database-query"}

IsMandatoryDefaultBlock(evaluation) ==
  /\ evaluation.decision = "block"
  /\ \/ evaluation.risk = "critical"
     \/ evaluation.policy \in {"block-secret-file-access", "block-destructive-shell-command",
          "block-force-push", "block-destructive-database-query", "block-destructive-database-operation"}

Answer(decision, by, action, w, project) ==
  [decision |-> decision, by |-> by, action |-> action, workspace |-> w, project |-> project]

(* evaluateActionPolicy: one SELECT, or none when the block is mandatory.  *)
(* A SELECT that throws leaves the request without a decision (503).       *)
EvaluateActionPolicy(q, action, w, project) ==
  LET default  == EvaluateAgentAction(action)
      matching == Matching(action, w, project)
  IN  /\ decided[q] = Absent
      /\ \/ /\ ~IsMandatoryDefaultBlock(default) /\ matching # {}
            /\ decided' = [decided EXCEPT ![q] =
                 Answer(policies[First(matching)].decision, First(matching), action, w, project)]
         \/ /\ IsMandatoryDefaultBlock(default) \/ matching = {}
            /\ decided' = [decided EXCEPT ![q] = Answer(default.decision, "default", action, w, project)]
         \/ /\ ~IsMandatoryDefaultBlock(default)
            /\ decided' = [decided EXCEPT ![q] = Answer("unavailable", "none", action, w, project)]
      /\ UNCHANGED <<policies, created>>

PolicyAdministration ==
  \E i \in PolicyIds, w \in PolicyWorkspaces :
    \/ \E body \in PolicyBodies : CreateCustomPolicy(i, w, body) \/ UpdateCustomPolicy(i, w, body)
    \/ DeleteCustomPolicy(i, w)

-----------------------------------------------------------------------------
(* Properties.                                                             *)

Decided(q) == decided[q] # Absent /\ decided[q].decision # "unavailable"

(* No policy of a customer unblocks what the decision table blocks: the    *)
(* list of mandatory blocks keeps up with the rules of the other file.     *)
BlocksSurvivePolicies ==
  \A q \in Requests : Decided(q) /\ MustBlock(decided[q].action) => decided[q].decision = "block"

(* After any sequence of creations and partial updates every stored policy *)
(* still constrains something.                                             *)
EveryPolicyConstrains ==
  \A i \in PolicyIds : policies[i] # NoPolicy => Declared(policies[i]) # {}

(* Candidate i for a request: its workspace's, for its project, enabled,   *)
(* and with every declared criterion met by a field the action has.        *)
Candidate(i, a) ==
  /\ policies[i] # NoPolicy /\ policies[i].enabled
  /\ policies[i].workspace = a.workspace
  /\ a.project = Absent \/ policies[i].project \in {Absent, a.project}
  /\ "actionType" \in Declared(policies[i]) => policies[i].actionType = a.action.actionType
  /\ "tool" \in Declared(policies[i]) => a.action.tool \in policies[i].tool
  /\ "targetPattern" \in Declared(policies[i]) => a.action.target \in policies[i].targetPattern
  /\ "commandPattern" \in Declared(policies[i]) =>
       \/ a.action.command \in policies[i].commandPattern
       \/ a.action.command = Absent /\ a.action.target \in policies[i].commandPattern

(* What decides request q is the candidate of the lowest priority, the     *)
(* newest among equals, and the built-in rules only where there is no      *)
(* candidate or the block is beyond policies.                              *)
DecidedByPrecedence(q) ==
  decided'[q] # decided[q] /\ Decided(q)' =>
    LET a == decided'[q]
        rivals == {i \in PolicyIds : Candidate(i, a)}
    IN  IF a.by = "default"
        THEN rivals = {} \/ MustBlock(a.action)
        ELSE /\ a.by \in rivals /\ a.decision = policies[a.by].decision
             /\ \A i \in rivals \ {a.by} :
                  \/ policies[a.by].priority < policies[i].priority
                  \/ /\ policies[a.by].priority = policies[i].priority
                     /\ policies[a.by].createdAt > policies[i].createdAt

(* Every decision is made by the policy that its workspace put first, in   *)
(* whichever order policies come and go around it.                         *)
PrecedenceDecides == [][\A q \in Requests : DecidedByPrecedence(q)]_policyVars
=============================================================================
