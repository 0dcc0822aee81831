------------------------------ MODULE Sandboxes ------------------------------
(***************************************************************************)
(* E2B sandboxes outside the run lifecycle: the key a workspace saves, the *)
(* connection test of the dashboard and POST v1/sandbox/run, from          *)
(* src/lib/agentwingStore.ts, src/lib/sandbox/providers/e2b.ts and the     *)
(* routes v1/sandbox.  All calls are served by one isolate, which shares   *)
(* process.env; every await is a step.                                     *)
(***************************************************************************)
EXTENDS Naturals, FiniteSets

CONSTANTS
  Tenants,       (* workspaces, one API key each                            *)
  NoTenant, E2BKeys, NoE2BKey,
  SandboxCalls,  (* requests for a test or a run                            *)
  RunLimit       (* usage.sandbox_run_limit                                 *)

ASSUME SandboxBounds == NoE2BKey \notin E2BKeys /\ RunLimit \in Nat

VARIABLES
  e2bKey,        (* per workspace, the key saved, mode e2b_byok             *)
  lastTest,      (* last_test_status: "none", "success" or "failed"         *)
  runsUsed,      (* usage.sandbox_runs_used                                 *)
  callStage, callKind, tenant,
  callKey,       (* the key a call has read                                 *)
  result,        (* what became of its command                              *)
  accessToken,   (* process.env.E2B_ACCESS_TOKEN: "operator" or "empty"     *)
  tokenBefore,   (* what a call found there                                 *)
  alive,         (* the calls whose sandbox is up                           *)
  leaked,        (* history: kill() failed, or the isolate died             *)
  overlapped,    (* history: two sandboxes were being created at once       *)
  everSaved,     (* history: the keys each workspace has saved              *)
  lateTest       (* history: workspaces whose key was removed during a test *)

sandboxVars == <<e2bKey, lastTest, runsUsed, callStage, callKind, tenant, callKey, result,
                 accessToken, tokenBefore, alive, leaked, overlapped, everSaved, lateTest>>

settingVars == <<e2bKey, lastTest, everSaved, lateTest>>
envVars == <<accessToken, tokenBefore, alive, leaked, overlapped>>

CallStages == {"new", "compare", "decide", "key", "config", "create", "creating",
               "command", "kill", "record", "done"}

SandboxesTypeOK ==
  /\ e2bKey \in [Tenants -> E2BKeys \cup {NoE2BKey}]
  /\ tenant \in [SandboxCalls -> Tenants \cup {NoTenant}]
  /\ lastTest \in [Tenants -> {"none", "success", "failed"}]
  /\ runsUsed \in [Tenants -> Nat]
  /\ callStage \in [SandboxCalls -> CallStages]
  /\ callKind \in [SandboxCalls -> {"none", "test", "run"}]
  /\ callKey \in [SandboxCalls -> E2BKeys \cup {NoE2BKey}]
  /\ result \in [SandboxCalls -> {"none", "success", "failed"}]
  /\ accessToken \in {"operator", "empty"}
  /\ alive \subseteq SandboxCalls

SandboxesInit ==
  /\ e2bKey = [w \in Tenants |-> NoE2BKey]
  /\ lastTest = [w \in Tenants |-> "none"]
  /\ runsUsed = [w \in Tenants |-> 0]
  /\ callStage = [c \in SandboxCalls |-> "new"]
  /\ callKind = [c \in SandboxCalls |-> "none"]
  /\ tenant = [c \in SandboxCalls |-> NoTenant]
  /\ callKey = [c \in SandboxCalls |-> NoE2BKey]
  /\ result = [c \in SandboxCalls |-> "none"]
  /\ accessToken = "operator"
  /\ tokenBefore = [c \in SandboxCalls |-> "operator"]
  /\ alive = {}
  /\ leaked = {}
  /\ overlapped = FALSE
  /\ everSaved = [w \in Tenants |-> {}]
  /\ lateTest = {}

CallTo(c, stage) == callStage' = [callStage EXCEPT ![c] = stage]

InFlight(c) == callStage[c] \notin {"new", "done"}

-----------------------------------------------------------------------------
(* The settings page.                                                      *)

(* saveE2BKey leaves the verdict of the last test where it is.             *)
SaveE2BKey(w, k) ==
  /\ e2bKey' = [e2bKey EXCEPT ![w] = k]
  /\ everSaved' = [everSaved EXCEPT ![w] = @ \cup {k}]
  /\ UNCHANGED <<lastTest, lateTest, runsUsed, callStage, callKind, tenant, callKey, result, envVars>>

RemoveKeepsVerdict(w) ==
  /\ e2bKey' = [e2bKey EXCEPT ![w] = NoE2BKey]
  /\ UNCHANGED <<lastTest, lateTest, everSaved, runsUsed, callStage, callKind, tenant, callKey, result, envVars>>

RemoveE2BKey(w) ==
  /\ e2bKey' = [e2bKey EXCEPT ![w] = NoE2BKey]
  /\ lastTest' = [lastTest EXCEPT ![w] = "none"]
  /\ lateTest' = IF \E c \in SandboxCalls : tenant[c] = w /\ callKind[c] = "test" /\ InFlight(c)
                 THEN lateTest \cup {w} ELSE lateTest
  /\ UNCHANGED <<everSaved, runsUsed, callStage, callKind, tenant, callKey, result, envVars>>

-----------------------------------------------------------------------------
(* The two routes.                                                         *)

(* POST v1/sandbox/test-e2b.                                               *)
TestE2B(c, w) ==
  /\ callStage[c] = "new"
  /\ tenant' = [tenant EXCEPT ![c] = w]
  /\ callKind' = [callKind EXCEPT ![c] = "test"]
  /\ CallTo(c, "key")
  /\ UNCHANGED <<settingVars, runsUsed, callKey, result, envVars>>

(* POST v1/sandbox/run: incrementSandboxRunUsage, then what it reads back. *)
RunInE2B(c, w) ==
  /\ callStage[c] = "new"
  /\ tenant' = [tenant EXCEPT ![c] = w]
  /\ callKind' = [callKind EXCEPT ![c] = "run"]
  /\ runsUsed' = [runsUsed EXCEPT ![w] = @ + 1]
  /\ CallTo(c, "compare")
  /\ UNCHANGED <<settingVars, callKey, result, envVars>>

(* Faulty variants, here and below, are what a plausible slip in the code  *)
(* would make of the definition that follows: each breaks a property.      *)
LimitReachedWhenPassed(w) == runsUsed[w] > RunLimit

RunLimitExceeded(w) == runsUsed[w] >= RunLimit

CompareUsage(c) ==
  /\ callStage[c] = "compare"
  /\ CallTo(c, IF RunLimitExceeded(tenant[c]) THEN "done" ELSE "decide")
  /\ UNCHANGED <<settingVars, runsUsed, callKind, tenant, callKey, result, envVars>>

(* Only allow and sandbox_required go on.                                  *)
DecideSandboxRun(c) ==
  /\ callStage[c] = "decide"
  /\ CallTo(c, "key") \/ CallTo(c, "done")
  /\ UNCHANGED <<settingVars, runsUsed, callKind, tenant, callKey, result, envVars>>

AnyTenantsKey(w) == IF e2bKey[w] = NoE2BKey THEN CHOOSE k \in {e2bKey[v] : v \in Tenants} : TRUE ELSE e2bKey[w]

(* getE2BApiKeyForExecution.  No route saves a key in the older table      *)
(* sandbox_configs, so the two fallbacks to it find none.                  *)
KeyForExecution(w) == e2bKey[w]

ReadKey(c) ==
  /\ callStage[c] = "key"
  /\ callKey' = [callKey EXCEPT ![c] = KeyForExecution(tenant[c])]
  /\ CallTo(c, IF callKind[c] = "test" THEN "config"
               ELSE IF callKey'[c] = NoE2BKey THEN "done" ELSE "create")
  /\ UNCHANGED <<settingVars, runsUsed, callKind, tenant, result, envVars>>

(* The test reads the settings too, and fails unless it found both.        *)
ReadSettings(c) ==
  /\ callStage[c] = "config"
  /\ IF callKey[c] = NoE2BKey \/ e2bKey[tenant[c]] = NoE2BKey
     THEN CallTo(c, "record") /\ result' = [result EXCEPT ![c] = "failed"]
     ELSE CallTo(c, "create") /\ UNCHANGED result
  /\ UNCHANGED <<settingVars, runsUsed, callKind, tenant, callKey, envVars>>

-----------------------------------------------------------------------------
(* runE2BSandbox.                                                          *)

(* createSandboxWithApiKeyOnly, up to the await.                           *)
BeginCreate(c) ==
  /\ callStage[c] = "create"
  /\ tokenBefore' = [tokenBefore EXCEPT ![c] = accessToken]
  /\ accessToken' = "empty"
  /\ overlapped' = (overlapped \/ \E d \in SandboxCalls : callStage[d] = "creating")
  /\ CallTo(c, "creating")
  /\ UNCHANGED <<settingVars, runsUsed, callKind, tenant, callKey, result, alive, leaked>>

SandboxCreated(c) ==
  /\ callStage[c] = "creating"
  /\ accessToken' = tokenBefore[c]
  /\ alive' = alive \cup {c}
  /\ CallTo(c, "command")
  /\ UNCHANGED <<settingVars, runsUsed, callKind, tenant, callKey, result, tokenBefore, leaked, overlapped>>

AfterCommand(c) == IF callKind[c] = "test" THEN "record" ELSE "done"

NoFinallyOnThrow(c) ==
  /\ callStage[c] = "creating"
  /\ result' = [result EXCEPT ![c] = "failed"]
  /\ CallTo(c, AfterCommand(c))
  /\ UNCHANGED <<settingVars, runsUsed, callKind, tenant, callKey, envVars>>

ThrowRecordedAsError(c) ==
  /\ callStage[c] = "creating"
  /\ accessToken' = tokenBefore[c]
  /\ result' = [result EXCEPT ![c] = "error"]
  /\ CallTo(c, AfterCommand(c))
  /\ UNCHANGED <<settingVars, runsUsed, callKind, tenant, callKey, tokenBefore, alive, leaked, overlapped>>

CreateThrows(c) ==
  /\ callStage[c] = "creating"
  /\ accessToken' = tokenBefore[c]
  /\ result' = [result EXCEPT ![c] = "failed"]
  /\ CallTo(c, AfterCommand(c))
  /\ UNCHANGED <<settingVars, runsUsed, callKind, tenant, callKey, tokenBefore, alive, leaked, overlapped>>

KilledOnSuccessOnly(c) ==
  /\ callStage[c] = "command"
  /\ \E r \in {"success", "failed"} :
       /\ result' = [result EXCEPT ![c] = r]
       /\ CallTo(c, IF r = "success" THEN "kill" ELSE AfterCommand(c))
  /\ UNCHANGED <<settingVars, runsUsed, callKind, tenant, callKey, envVars>>

(* commands.run: an exit code, or a throw.                                 *)
RunCommand(c) ==
  /\ callStage[c] = "command"
  /\ \E r \in {"success", "failed"} : result' = [result EXCEPT ![c] = r]
  /\ CallTo(c, "kill")
  /\ UNCHANGED <<settingVars, runsUsed, callKind, tenant, callKey, envVars>>

(* The finally block; a kill that fails is ignored.                        *)
KillSandbox(c) ==
  /\ callStage[c] = "kill"
  /\ \/ alive' = alive \ {c} /\ UNCHANGED leaked
     \/ leaked' = leaked \cup {c} /\ UNCHANGED alive
  /\ CallTo(c, AfterCommand(c))
  /\ UNCHANGED <<settingVars, runsUsed, callKind, tenant, callKey, result, accessToken, tokenBefore, overlapped>>

(* recordE2BTestResult, whatever the row says by now.                      *)
RecordTestResult(c) ==
  /\ callStage[c] = "record"
  /\ lastTest' = [lastTest EXCEPT ![tenant[c]] = result[c]]
  /\ CallTo(c, "done")
  /\ UNCHANGED <<e2bKey, everSaved, lateTest, runsUsed, callKind, tenant, callKey, result, envVars>>

(* timeoutMs of the sandbox, kept by E2B: past the end of its call.        *)
SandboxTimesOut(c) ==
  /\ c \in alive /\ ~InFlight(c)
  /\ alive' = alive \ {c}
  /\ UNCHANGED <<settingVars, runsUsed, callStage, callKind, tenant, callKey, result,
                 accessToken, tokenBefore, leaked, overlapped>>

(* A new isolate has the environment of the deployment.                    *)
IsolateDies ==
  /\ \E c \in SandboxCalls : InFlight(c)
  /\ callStage' = [c \in SandboxCalls |-> IF InFlight(c) THEN "done" ELSE callStage[c]]
  /\ accessToken' = "operator"
  /\ overlapped' = FALSE
  /\ leaked' = leaked \cup {c \in alive : InFlight(c)}
  /\ UNCHANGED <<settingVars, runsUsed, callKind, tenant, callKey, result, tokenBefore, alive>>

SandboxesNext ==
  \/ \E w \in Tenants : RemoveE2BKey(w) \/ \E k \in E2BKeys : SaveE2BKey(w, k)
  \/ \E c \in SandboxCalls :
       \/ \E w \in Tenants : TestE2B(c, w) \/ RunInE2B(c, w)
       \/ CompareUsage(c) \/ DecideSandboxRun(c)
       \/ ReadKey(c) \/ ReadSettings(c)
       \/ BeginCreate(c) \/ SandboxCreated(c) \/ CreateThrows(c)
       \/ RunCommand(c) \/ KillSandbox(c) \/ RecordTestResult(c) \/ SandboxTimesOut(c)
  \/ IsolateDies

SandboxesSpec == SandboxesInit /\ [][SandboxesNext]_sandboxVars

-----------------------------------------------------------------------------
(* Properties.                                                             *)

(* A command runs on a key that its own workspace has saved, whatever is   *)
(* saved and removed while it is on its way.                               *)
RunsOnItsOwnKey ==
  \A c \in SandboxCalls : callKey[c] # NoE2BKey => callKey[c] \in everSaved[tenant[c]]

(* The quota bounds the commands of v1/sandbox/run, however they overlap.  *)
RunQuotaHolds ==
  \A w \in Tenants :
    LET past == {c \in SandboxCalls :
                   tenant[c] = w /\ callKind[c] = "run" /\ callKey[c] # NoE2BKey}
    IN  past # {} => Cardinality(past) < RunLimit

(* A call that has been answered leaves no sandbox behind, unless the kill *)
(* itself failed or the isolate died.                                      *)
NoSandboxLeftBehind == \A c \in alive : InFlight(c) \/ c \in leaked

(* The operator's token comes back to process.env once nobody creates a    *)
(* sandbox; only creations that overlapped can have lost it.               *)
TokenLostOnlyByOverlap ==
  accessToken # "operator" => overlapped \/ \E c \in SandboxCalls : callStage[c] = "creating"

(* A workspace without a key shows no successful test, but for a test that *)
(* was under way when the key was removed.                                 *)
NoVerdictWithoutKey ==
  \A w \in Tenants : e2bKey[w] = NoE2BKey /\ lastTest[w] = "success" => w \in lateTest

(* Calls that share an isolate keep to their workspace's key and quota, and *)
(* what they change around their awaits is put back.                       *)
SandboxCallsAreContained ==
  /\ RunsOnItsOwnKey /\ RunQuotaHolds
  /\ NoSandboxLeftBehind /\ TokenLostOnlyByOverlap /\ NoVerdictWithoutKey
=============================================================================
