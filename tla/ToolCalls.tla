----------------------------- MODULE ToolCalls -----------------------------
(***************************************************************************)
(* Tool calls on their way to a decision: the hook that a coding agent     *)
(* runs before each call (packages/hook) and the MCP endpoint              *)
(* (src/lib/mcp.ts, api/mcp), beside requests made to check-action         *)
(* directly, all decided by the policies of the workspace.                 *)
(***************************************************************************)
EXTENDS Policies

CONSTANTS
  ToolCallInputs,  (* tool calls that agents make                           *)
  CheckWorkspace, CheckProject   (* those of the key they use               *)

(* What isSecretPath finds in a call that reads or writes a file, it finds  *)
(* in a path or in a command line.                                         *)
ASSUME SecretsAreInPaths ==
  \A call \in ToolCallInputs :
    call.name \in {"write", "read"} /\ "secret" \in call.tells => call.args \cap {"path", "command"} # {}

VARIABLES
  surface,       (* per request: "none", "direct", "hook" or "mcp"          *)
  toolCall,      (* the tool call it is about                               *)
  failOpen,      (* AGENTWING_FAIL = "open"                                 *)
  outcome,       (* what the agent is told                                  *)
  approvalRow    (* the request has a row in approvals                      *)

callVars == <<surface, toolCall, failOpen, outcome, approvalRow>>
toolCallVars == <<policyVars, callVars>>

Outcomes == {"none", "waiting", "allow", "ask", "deny", "unchecked",
             "blocked", "input_required", "content", "error"}

ToolCallsTypeOK ==
  /\ surface \in [Requests -> {"none", "direct", "hook", "mcp"}]
  /\ \A q \in Requests : toolCall[q] \in ToolCallInputs \cup {Absent}
  /\ failOpen \in [Requests -> BOOLEAN]
  /\ outcome \in [Requests -> Outcomes]
  /\ approvalRow \in [Requests -> BOOLEAN]

ToolCallsInit ==
  /\ PoliciesInit
  /\ surface = [q \in Requests |-> "none"]
  /\ toolCall = [q \in Requests |-> Absent]
  /\ failOpen = [q \in Requests |-> FALSE]
  /\ outcome = [q \in Requests |-> "none"]
  /\ approvalRow = [q \in Requests |-> FALSE]

-----------------------------------------------------------------------------
(* A tool call has the kind of name it goes by ("shell", "write", "read",  *)
(* "fetch" or "other"), the arguments it carries and the tells of the text *)
(* of its arguments.                                                       *)

ActionOf(type, tells, call) ==
  [actionType |-> type, tells |-> tells \cap PossibleTellsOf(type), tool |-> call.tool,
   target |-> call.target, command |-> call.command]

(* The method of a request is GET when none is given.                      *)
MethodTells(call) ==
  IF "otherMethod" \in call.tells THEN call.tells ELSE call.tells \cup {"safeMethod"}

(* Faulty variants, here and below, are what a plausible slip in the code  *)
(* would make of the definition that follows: each breaks a property.      *)
UnknownToolsAreReads(call) ==
  ActionOf(CASE call.name = "shell" -> "shell_command"
             [] call.name \in {"write", "read", "other"} -> "file_access"
             [] call.name = "fetch" -> "network_request",
           IF call.name = "write" THEN call.tells \cup {"writes"} ELSE MethodTells(call), call)

(* toAgentAction: the hook goes by the name.                               *)
ToAgentAction(call) ==
  CASE call.name = "shell" -> ActionOf("shell_command", call.tells, call)
    [] call.name = "write" -> ActionOf("file_access", call.tells \cup {"writes"}, call)
    [] call.name = "read"  -> ActionOf("file_access", call.tells, call)
    [] call.name = "fetch" -> ActionOf("network_request", MethodTells(call), call)
    [] OTHER               -> ActionOf("custom_action", {}, call)

(* toolCallToAction: the MCP endpoint goes by the arguments first.         *)
ToolCallToAction(call) ==
  IF "command" \in call.args \/ call.name = "shell" THEN ActionOf("shell_command", call.tells, call)
  ELSE IF "path" \in call.args
  THEN ActionOf("file_access", IF call.name = "write" THEN call.tells \cup {"writes"} ELSE call.tells, call)
  ELSE IF "url" \in call.args THEN ActionOf("network_request", MethodTells(call), call)
  ELSE IF "query" \in call.args THEN ActionOf("database_query", call.tells, call)
  ELSE ActionOf("custom_action", {}, call)

-----------------------------------------------------------------------------
(* check-action called directly, or through the SDK.  The approval is      *)
(* created next; a failure to is not fatal.                                *)
CheckActionDirectly(q, action, w, project) ==
  /\ surface[q] = "none"
  /\ EvaluateActionPolicy(q, action, w, project)
  /\ surface' = [surface EXCEPT ![q] = "direct"]
  /\ approvalRow' \in {approvalRow} \cup
       (IF decided'[q].decision = "approval_required"
        THEN {[approvalRow EXCEPT ![q] = TRUE]} ELSE {})
  /\ UNCHANGED <<toolCall, failOpen, outcome>>

(* main of the hook: no key, or no payload that it can read.               *)
HookCannotCheck(q, call) ==
  /\ surface[q] = "none"
  /\ surface' = [surface EXCEPT ![q] = "hook"]
  /\ toolCall' = [toolCall EXCEPT ![q] = call]
  /\ outcome' = [outcome EXCEPT ![q] = "unchecked"]
  /\ UNCHANGED <<policyVars, failOpen, approvalRow>>

(* checkToolCall sends the call to check-action.                           *)
HookAsks(q, call, open) ==
  /\ surface[q] = "none"
  /\ surface' = [surface EXCEPT ![q] = "hook"]
  /\ toolCall' = [toolCall EXCEPT ![q] = call]
  /\ failOpen' = [failOpen EXCEPT ![q] = open]
  /\ outcome' = [outcome EXCEPT ![q] = "waiting"]
  /\ UNCHANGED <<policyVars, approvalRow>>

(* check-action decides, whether or not the hook still waits.              *)
CheckActionForHook(q) ==
  /\ surface[q] = "hook" /\ outcome[q] # "unchecked"
  /\ EvaluateActionPolicy(q, ToAgentAction(toolCall[q]), CheckWorkspace, CheckProject)
  /\ approvalRow' \in {approvalRow} \cup
       (IF decided'[q].decision = "approval_required"
        THEN {[approvalRow EXCEPT ![q] = TRUE]} ELSE {})
  /\ UNCHANGED <<surface, toolCall, failOpen, outcome>>

AskOnlyForApprovals(decision) ==
  CASE decision = "block" -> "deny" [] decision = "approval_required" -> "ask" [] OTHER -> "allow"

UnmappedPassesThrough(decision) ==
  CASE decision = "allow" -> "allow" [] decision = "block" -> "deny" [] OTHER -> decision

HookBehaviour(decision) ==
  CASE decision = "allow" -> "allow" [] decision = "block" -> "deny" [] OTHER -> "ask"

HookAnswered(q) ==
  /\ surface[q] = "hook" /\ outcome[q] = "waiting"
  /\ decided[q] # Absent /\ decided[q].decision \in PolicyDecisions
  /\ outcome' = [outcome EXCEPT ![q] = HookBehaviour(decided[q].decision)]
  /\ UNCHANGED <<policyVars, surface, toolCall, failOpen, approvalRow>>

(* unreachable: a timeout, a refusal or no network, before or after the    *)
(* decision was made.                                                      *)
HookUnreachable(q) ==
  /\ surface[q] = "hook" /\ outcome[q] = "waiting"
  /\ outcome' = [outcome EXCEPT ![q] = IF failOpen[q] THEN "allow" ELSE "deny"]
  /\ UNCHANGED <<policyVars, surface, toolCall, failOpen, approvalRow>>

(* handlePOST of api/mcp up to the decision: the headers must say what the *)
(* body does.                                                              *)
McpRefuses(q, call) ==
  /\ surface[q] = "none"
  /\ surface' = [surface EXCEPT ![q] = "mcp"]
  /\ toolCall' = [toolCall EXCEPT ![q] = call]
  /\ outcome' = [outcome EXCEPT ![q] = "error"]
  /\ UNCHANGED <<policyVars, failOpen, approvalRow>>

McpOutcome(decision) ==
  CASE decision = "block" -> "blocked"
    [] decision = "approval_required" -> "input_required"
    [] decision = "unavailable" -> "error"
    [] OTHER -> "content"

McpDecides(q, call) ==
  /\ surface[q] = "none"
  /\ EvaluateActionPolicy(q, ToolCallToAction(call), CheckWorkspace, CheckProject)
  /\ surface' = [surface EXCEPT ![q] = "mcp"]
  /\ toolCall' = [toolCall EXCEPT ![q] = call]
  /\ outcome' = [outcome EXCEPT ![q] = McpOutcome(decided'[q].decision)]
  /\ UNCHANGED <<failOpen, approvalRow>>

(* The client asks again; requestState is not read.                        *)
McpRetries(q) ==
  /\ surface[q] = "mcp" /\ outcome[q] = "input_required"
  /\ surface' = [surface EXCEPT ![q] = "none"]
  /\ outcome' = [outcome EXCEPT ![q] = "none"]
  /\ decided' = [decided EXCEPT ![q] = Absent]
  /\ toolCall' = [toolCall EXCEPT ![q] = Absent]
  /\ UNCHANGED <<policies, created, failOpen, approvalRow>>

ToolCallsNext ==
  \/ PolicyAdministration /\ UNCHANGED callVars
  \/ \E q \in Requests, action \in Proposals, w \in PolicyWorkspaces, project \in Projects \cup {Absent} :
       CheckActionDirectly(q, action, w, project)
  \/ \E q \in Requests, call \in ToolCallInputs :
       \/ HookCannotCheck(q, call) \/ McpRefuses(q, call) \/ McpDecides(q, call)
       \/ \E open \in BOOLEAN : HookAsks(q, call, open)
  \/ \E q \in Requests :
       CheckActionForHook(q) \/ HookAnswered(q) \/ HookUnreachable(q) \/ McpRetries(q)

ToolCallsSpec == ToolCallsInit /\ [][ToolCallsNext]_toolCallVars

-----------------------------------------------------------------------------
(* Properties.                                                             *)

(* Whether the tool runs without a human's word.                           *)
RunsUnasked(q) == outcome[q] \in {"allow", "unchecked", "content"}

(* Once the hook has a call, it runs unasked only if check-action allowed  *)
(* it, whatever is late, lost or refused; failing open is the one other    *)
(* way, and a missing key or payload is reported as not checked.           *)
HookPassesOnlyAllowed ==
  \A q \in Requests : surface[q] = "hook" /\ RunsUnasked(q) =>
    \/ outcome[q] = "unchecked"
    \/ failOpen[q]
    \/ decided[q] # Absent /\ decided[q].decision = "allow"

(* What the text of a call must not do, by the name and arguments it came  *)
(* with rather than by the type it was given.                              *)
DestructiveCall(call) ==
  \/ call.name = "shell" /\ call.tells \cap {"secret", "destructive", "forcePush"} # {}
  \/ call.name \in {"write", "read"} /\ "secret" \in call.tells

(* Neither surface lets a destructive call run unasked, whatever policies  *)
(* the customer has written: the two classifications and the list of       *)
(* mandatory blocks agree about what it is.                                *)
DestructiveCallsStop ==
  \A q \in Requests :
    toolCall[q] # Absent /\ DestructiveCall(toolCall[q]) /\ RunsUnasked(q) =>
      outcome[q] = "unchecked" \/ failOpen[q]

(* An unfamiliar tool is never run on a guess: with no policy to say so,   *)
(* the hook asks or refuses.                                               *)
UnfamiliarToolIsHeld ==
  \A q \in Requests :
    surface[q] = "hook" /\ toolCall[q].name = "other" /\ outcome[q] = "allow" =>
      failOpen[q] \/ decided[q].by # "default"

(* A tool call passes the MCP endpoint or the hook unasked only where the  *)
(* policy allowed it, whatever it is called and whatever fails on the way. *)
ToolCallsAreGated == HookPassesOnlyAllowed /\ DestructiveCallsStop /\ UnfamiliarToolIsHeld
=============================================================================
