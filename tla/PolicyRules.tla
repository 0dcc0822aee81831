----------------------------- MODULE PolicyRules -----------------------------
(***************************************************************************)
(* The built-in policy: evaluateAgentAction of src/lib/agentwingPolicy.ts  *)
(* as the ordered table of rules it is.  What the expressions of that file *)
(* find in the text of an action is the set of its tells; CommandSegments  *)
(* looks into the one of them that is more than an expression.             *)
(***************************************************************************)
EXTENDS Naturals, Sequences, FiniteSets

ActionTypes ==
  {"file_access", "shell_command", "api_call", "network_request", "browser_action",
   "database_query", "database_operation", "message_send", "payment_action", "deploy_action",
   "git_operation", "package_install", "code_execution", "config_change", "agent_spawn",
   "custom_action"}

PolicyDecisions ==
  {"allow", "block", "approval_required", "sandbox_required", "restore_point_required"}

Database == {"database_query", "database_operation"}
ApiCalls == {"api_call", "network_request"}

(* What the matchers may find in an action of a type: isSecretPath,        *)
(* isFileWrite, isExternalMessage, httpMethod and the statement words.     *)
TextTells(type) ==
  CASE type = "file_access" -> {"secret", "writes"}
    [] type = "message_send" -> {"external"}
    [] type \in ApiCalls -> {"safeMethod", "otherMethod"}
    [] type \in Database -> {"dropOrTruncate", "mutates", "select"}
    [] type = "git_operation" -> {"forcePush"}
    [] OTHER -> {}

(* In a shell command: isDestructiveShellCommand, isReadOnlyShellCommand   *)
(* and the expressions of evaluateAgentAction.                             *)
ShellTells(type) ==
  IF type = "shell_command" THEN {"secret", "destructive", "forcePush", "npm", "readOnly"} ELSE {}

PossibleTellsOf(type) == TextTells(type) \cup ShellTells(type)

-----------------------------------------------------------------------------
(* The rules, in the order of the file.  One without a tell applies to its *)
(* types whatever the text says.                                           *)

Always == "always"

Rule(types, tell, decision, risk, policy) ==
  [types |-> types, tell |-> tell, decision |-> decision, risk |-> risk, policy |-> policy]

BlockAndHoldRules == <<
  Rule({"file_access"},   "secret",         "block", "high", "block-secret-file-access"),
  Rule({"shell_command"}, "secret",         "block", "high", "block-secret-file-access"),
  Rule({"shell_command"}, "destructive",    "block", "critical", "block-destructive-shell-command"),
  Rule({"shell_command"}, "forcePush",      "block", "high", "block-force-push"),
  Rule({"message_send"},  "external",       "approval_required", "medium", "approval-external-message"),
  Rule({"payment_action"}, Always,          "approval_required", "high", "approval-payment-action"),
  Rule({"deploy_action"}, Always,           "approval_required", "high", "approval-deploy-action"),
  Rule(Database,          "dropOrTruncate", "block", "high", "block-destructive-database-query"),
  Rule(Database,          "mutates",        "approval_required", "high", "approval-destructive-database-query"),
  Rule({"file_access"},   "writes",         "restore_point_required", "medium", "restore-point-file-write") >>

RemainingRules == <<
  Rule({"shell_command"}, "npm",            "sandbox_required", "medium", "sandbox-node-command"),
  Rule({"shell_command"}, "readOnly",       "allow", "low", "allow-read-only-shell"),
  Rule({"shell_command"}, Always,           "sandbox_required", "medium", "sandbox-unknown-shell-command"),
  Rule(Database,          "select",         "allow", "low", "allow-read-only-database-query"),
  Rule(Database,          "dropOrTruncate", "block", "high", "block-destructive-database-operation"),
  Rule({"git_operation"}, "forcePush",      "block", "high", "block-force-push"),
  Rule({"git_operation"}, Always,           "allow", "low", "allow-git-operation"),
  Rule({"package_install"}, Always,         "sandbox_required", "medium", "sandbox-package-install"),
  Rule({"code_execution"}, Always,          "sandbox_required", "medium", "sandbox-code-execution"),
  Rule({"config_change"}, Always,           "restore_point_required", "medium", "restore-point-config-change"),
  Rule({"agent_spawn"},   Always,           "approval_required", "high", "approval-agent-spawn"),
  Rule(ApiCalls,          "safeMethod",     "allow", "low", "allow-read-only-api-call"),
  Rule(ApiCalls,          "otherMethod",    "approval_required", "medium", "approval-mutating-api-call"),
  Rule(ApiCalls,          Always,           "approval_required", "medium", "approval-unknown-api-method"),
  Rule({"file_access"},   Always,           "allow", "low", "allow-read-only-file-access"),
  Rule(ActionTypes,       Always,           "approval_required", "medium", "approval-unclassified-action") >>

(* Faulty variants, here and below, are what a plausible slip in the code  *)
(* would make of the definition that follows: each breaks a property.      *)
ReadOnlyRulesFirst == RemainingRules \o BlockAndHoldRules

DefaultRules == BlockAndHoldRules \o RemainingRules

Applies(rule, action) ==
  action.actionType \in rule.types /\ (rule.tell = Always \/ rule.tell \in action.tells)

EvaluateAgentAction(action) ==
  DefaultRules[CHOOSE i \in DOMAIN DefaultRules :
                 /\ Applies(DefaultRules[i], action)
                 /\ \A j \in DOMAIN DefaultRules : Applies(DefaultRules[j], action) => i <= j]

-----------------------------------------------------------------------------
(* The contract of tests/policy/decision-table.test.ts, by guarantee.      *)

(* 1 and 2: secrets, destruction and rewritten history are blocked.        *)
MustBlock(action) ==
  \/ action.actionType \in {"file_access", "shell_command"} /\ "secret" \in action.tells
  \/ action.actionType = "shell_command" /\ "destructive" \in action.tells
  \/ action.actionType \in {"shell_command", "git_operation"} /\ "forcePush" \in action.tells
  \/ action.actionType \in Database /\ "dropOrTruncate" \in action.tells

(* 3: a real-world consequence, or nothing known, needs a human.           *)
NeedsHuman(action) ==
  \/ action.actionType \in {"payment_action", "deploy_action", "agent_spawn", "message_send",
                            "browser_action", "custom_action"}
  \/ action.actionType \in Database /\ ("mutates" \in action.tells \/ "select" \notin action.tells)
  \/ action.actionType \in ApiCalls /\ "safeMethod" \notin action.tells

(* 4 and 5: code goes to a sandbox, a mutation waits for a restore point.  *)
NeedsCare(action) ==
  \/ action.actionType \in {"package_install", "code_execution", "config_change"}
  \/ action.actionType = "file_access" /\ "writes" \in action.tells
  \/ action.actionType = "shell_command" /\ ("npm" \in action.tells \/ "readOnly" \notin action.tells)
=============================================================================
