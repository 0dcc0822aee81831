----------------------------- MODULE ActionRuns -----------------------------
(***************************************************************************)
(* The life of an action run: src/lib/actionRunLifecycle.ts over the D1    *)
(* tables action_runs, approvals, receipts and usage that                  *)
(* src/lib/agentwingStore.ts reads and writes, and the two jobs of         *)
(* workers/jobs/index.ts that touch the same rows.                         *)
(*                                                                         *)
(* Every HTTP handler is stateless: it reads a run, decides on that        *)
(* snapshot, and writes it back with statements that name only the run's   *)
(* id.  A handler is a request with a program counter; each action below   *)
(* is one awaited D1 statement (or the call to E2B) with the synchronous   *)
(* code that follows it.  An event row is written together with the state  *)
(* change it announces: nothing in a handler reads events back.            *)
(*                                                                         *)
(* The policy verdict is any member of Decisions: custom policies can give *)
(* every verdict to every action.                                          *)
(***************************************************************************)
EXTENDS Naturals, FiniteSets

CONSTANTS
  Requests,        (* HTTP requests; each one is handled once             *)
  Runs,            (* run ids, also the ids of a run's approval and receipt *)
  Actions,         (* agent actions                                        *)
  ShellActions,    (* shell_command, package_install, code_execution       *)
  ReadActions,     (* actions isSafeReadOrCheck accepts                    *)
  CommandActions,  (* actions commandForSandbox finds a command for        *)
  NoAction,
  SandboxLimit     (* usage.sandbox_run_limit of the API key               *)

ASSUME ActionAssumption ==
  /\ ShellActions \subseteq Actions
  /\ ReadActions \subseteq Actions
  /\ CommandActions \subseteq Actions
  /\ ShellActions \cap ReadActions = {}
  /\ NoAction \notin Actions

ASSUME LimitAssumption == SandboxLimit \in Nat

Decisions == {"allow", "block", "approval_required", "sandbox_required",
              "restore_point_required"}

(* actionRunStatuses, without "proposed", which no code path stores.       *)
Statuses == {"checked", "blocked", "waiting_approval", "approved", "rejected",
             "waiting_sandbox", "running", "completed", "failed",
             "restore_point_required", "checkpoint_created",
             "execution_skipped", "external_runner_required"}

(* Faulty variants, here and below, are what a plausible slip in the code    *)
(* would make of the definition that follows: each breaks a property.      *)
ReportFromAnyStatus == Statuses

CanReportExecution == {"approved", "checkpoint_created",
                       "external_runner_required", "restore_point_required"}

ApprovalStates == {"none", "pending", "approved", "rejected", "expired"}
ReceiptStates  == {"none", "issued", "completed", "failed"}
TrailEvents    == {"approval_approved", "approval_rejected", "execution_started"}

(* The stages of runInsideE2B, in order.                                   *)
SandboxStages == {"sandbox", "hold", "reserve", "check_quota", "start",
                  "execute", "record", "finish", "record_error", "finish_error"}
Stages == SandboxStages \cup
  {"idle", "done", "create_approval", "create_run", "skip", "external",
   "resolve_approved", "write_approved", "reread", "resolve_rejected",
   "write_rejected", "resolve_only", "checkpoint", "record_report",
   "finish_report", "touch"}

VARIABLES
  status,       (* action_runs.status, "absent" before the INSERT          *)
  decision,     (* action_runs.decision, "none" before the proposal        *)
  action,       (* action_runs.action_json                                 *)
  approval,     (* approvals.status of the run's approval                  *)
  receipt,      (* the execution result the run's receipt carries          *)
  trail,        (* execution_events of the run                             *)
  ran,          (* the requests that ran the run's command inside E2B      *)
  stale,        (* running runs whose updated_at is past the reaper's cutoff *)
  connected,    (* an E2B key is stored for the workspace                  *)
  used,         (* usage.sandbox_runs_used                                 *)
  pc, job,      (* where a request is, and the run it is about             *)
  seen,         (* the status in the request's latest snapshot of the run  *)
  outcome       (* the execution result the request is recording           *)

runVars   == <<status, stale>>
planVars  == <<decision, action>>
boxVars   == <<connected, used>>
reqVars   == <<pc, job, seen, outcome>>
vars      == <<status, decision, action, approval, receipt, trail, ran, stale,
               connected, used, pc, job, seen, outcome>>

(* One type invariant for the tables and the handlers.                     *)
TypeOK ==
  /\ status \in [Runs -> Statuses \cup {"absent"}]
  /\ decision \in [Runs -> Decisions \cup {"none"}]
  /\ action \in [Runs -> Actions \cup {NoAction}]
  /\ approval \in [Runs -> ApprovalStates]
  /\ receipt \in [Runs -> ReceiptStates]
  /\ trail \in [Runs -> SUBSET TrailEvents]
  /\ ran \in [Runs -> SUBSET Requests]
  /\ stale \in SUBSET Runs
  /\ connected \in BOOLEAN
  /\ used \in Nat
  /\ pc \in [Requests -> Stages]
  /\ job \in [Requests -> Runs \cup {NoAction}]
  /\ seen \in [Requests -> Statuses \cup {"absent"}]
  /\ outcome \in [Requests -> {"none", "completed", "failed"}]

Init ==
  /\ status = [r \in Runs |-> "absent"]
  /\ decision = [r \in Runs |-> "none"]
  /\ action = [r \in Runs |-> NoAction]
  /\ approval = [r \in Runs |-> "none"]
  /\ receipt = [r \in Runs |-> "none"]
  /\ trail = [r \in Runs |-> {}]
  /\ ran = [r \in Runs |-> {}]
  /\ stale = {}
  /\ connected = FALSE
  /\ used = 0
  /\ pc = [q \in Requests |-> "idle"]
  /\ job = [q \in Requests |-> NoAction]
  /\ seen = [q \in Requests |-> "absent"]
  /\ outcome = [q \in Requests |-> "none"]

-----------------------------------------------------------------------------
(* What handlers share.                                                    *)

(* updateActionRun: no guard on the current status, and updated_at moves.  *)
SetStatus(r, s) ==
  /\ status' = [status EXCEPT ![r] = s]
  /\ stale' = stale \ {r}

AddEvent(r, e) == trail' = [trail EXCEPT ![r] = @ \cup {e}]

Goto(q, stage) == pc' = [pc EXCEPT ![q] = stage]

(* Request q reads run r in status s and goes on at stage.                 *)
Snapshot(q, r, s, stage) ==
  /\ Goto(q, stage)
  /\ job' = [job EXCEPT ![q] = r]
  /\ seen' = [seen EXCEPT ![q] = s]

(* resolveApproval: a compare-and-swap on 'pending'.                       *)
Resolve(r, verdict) ==
  approval' = IF approval[r] = "pending"
              THEN [approval EXCEPT ![r] = verdict] ELSE approval

DecisionStoredAsStatus(d) ==
  CASE d = "block"             -> "blocked"
    [] d = "approval_required" -> "waiting_approval"
    [] d = "sandbox_required"  -> "waiting_sandbox"
    [] OTHER                   -> d

InitialStatus(d) ==
  CASE d = "block"                  -> "blocked"
    [] d = "approval_required"      -> "waiting_approval"
    [] d = "sandbox_required"       -> "waiting_sandbox"
    [] d = "restore_point_required" -> "restore_point_required"
    [] d = "allow"                  -> "checked"

SandboxEntry(r) == IF action[r] \in CommandActions THEN "sandbox" ELSE "external"

ShellAlwaysToSandbox(r, s) ==
  IF s \in {"blocked", "rejected"} THEN "done"
  ELSE IF decision[r] = "sandbox_required" \/ action[r] \in ShellActions
       THEN SandboxEntry(r)
  ELSE IF s = "approved" \/ decision[r] = "allow" THEN "external" ELSE "done"

(* continueExecutionForRun: the stage a snapshot of r in status s leads to. *)
ContinueStage(r, s) ==
  IF s \in {"blocked", "rejected"} THEN "done"
  ELSE IF decision[r] = "sandbox_required" \/ (s = "approved" /\ action[r] \in ShellActions)
       THEN SandboxEntry(r)
  ELSE IF decision[r] = "allow"
       THEN IF action[r] \in ReadActions THEN "skip" ELSE "external"
  ELSE IF s = "approved" THEN "external" ELSE "done"

-----------------------------------------------------------------------------
(* POST /execute-action: createExecutionRun.  POST /check-action is the    *)
(* same prefix without the run; it looks like a creator that died before   *)
(* CreateRun.                                                              *)

(* The policy is evaluated and the receipt is written.                     *)
Propose(q) ==
  /\ pc[q] = "idle"
  /\ \E r \in Runs, a \in Actions, d \in Decisions :
       /\ receipt[r] = "none"
       /\ receipt' = [receipt EXCEPT ![r] = "issued"]
       /\ decision' = [decision EXCEPT ![r] = d]
       /\ action' = [action EXCEPT ![r] = a]
       /\ Snapshot(q, r, "absent",
                   IF d = "approval_required" THEN "create_approval" ELSE "create_run")
  /\ UNCHANGED <<runVars, approval, trail, ran, boxVars, outcome>>

(* createApproval: a failed INSERT is swallowed.                           *)
CreateApproval(q) ==
  /\ pc[q] = "create_approval"
  /\ approval' \in {approval, [approval EXCEPT ![job[q]] = "pending"]}
  /\ Goto(q, "create_run")
  /\ UNCHANGED <<runVars, planVars, receipt, trail, ran, boxVars, job, seen, outcome>>

CreateRun(q) ==
  LET r == job[q]
      s == InitialStatus(decision[r])
  IN /\ pc[q] = "create_run"
     /\ SetStatus(r, s)
     /\ Snapshot(q, r, s,
                 IF decision[r] \in {"allow", "sandbox_required"}
                 THEN ContinueStage(r, s) ELSE "done")
     /\ UNCHANGED <<planVars, approval, receipt, trail, ran, boxVars, outcome>>

-----------------------------------------------------------------------------
(* continueExecutionForRun and the paths it takes.                         *)

MarkExecutionSkipped(q) ==
  /\ pc[q] = "skip"
  /\ SetStatus(job[q], "execution_skipped")
  /\ Goto(q, "done")
  /\ UNCHANGED <<planVars, approval, receipt, trail, ran, boxVars, job, seen, outcome>>

MarkExternalRunnerRequired(q) ==
  /\ pc[q] = "external"
  /\ SetStatus(job[q], "external_runner_required")
  /\ Goto(q, "done")
  /\ UNCHANGED <<planVars, approval, receipt, trail, ran, boxVars, job, seen, outcome>>

(* getE2BApiKeyForExecution.                                               *)
ReadE2BKey(q) ==
  /\ pc[q] = "sandbox"
  /\ Goto(q, IF connected THEN "reserve" ELSE "hold")
  /\ UNCHANGED <<runVars, planVars, approval, receipt, trail, ran, boxVars, job, seen, outcome>>

(* No key, or no quota left: the run waits for a sandbox.                  *)
HoldForSandbox(q) ==
  /\ pc[q] = "hold"
  /\ SetStatus(job[q], "waiting_sandbox")
  /\ Goto(q, "done")
  /\ UNCHANGED <<planVars, approval, receipt, trail, ran, boxVars, job, seen, outcome>>

(* incrementSandboxRunUsage: the counter moves before it is compared.      *)
ReserveSandboxRun(q) ==
  /\ pc[q] = "reserve"
  /\ used' = used + 1
  /\ Goto(q, "check_quota")
  /\ UNCHANGED <<runVars, planVars, approval, receipt, trail, ran, connected, job, seen, outcome>>

LimitComparedStrictly == used > SandboxLimit

SandboxRunLimitExceeded == used >= SandboxLimit

CheckSandboxQuota(q) ==
  /\ pc[q] = "check_quota"
  /\ Goto(q, IF SandboxRunLimitExceeded THEN "hold" ELSE "start")
  /\ UNCHANGED <<runVars, planVars, approval, receipt, trail, ran, boxVars, job, seen, outcome>>

StartSandboxRun(q) ==
  /\ pc[q] = "start"
  /\ SetStatus(job[q], "running")
  /\ AddEvent(job[q], "execution_started")
  /\ Goto(q, "execute")
  /\ UNCHANGED <<planVars, approval, receipt, ran, boxVars, job, seen, outcome>>

(* runE2BSandbox: the command ends with a result, or the call throws before *)
(* or after the command ran.                                               *)
RunInSandbox(q) ==
  /\ pc[q] = "execute"
  /\ \E result \in {"completed", "failed"} :
       \/ /\ ran' = [ran EXCEPT ![job[q]] = @ \cup {q}]
          /\ outcome' = [outcome EXCEPT ![q] = result]
          /\ Goto(q, "record")
       \/ /\ result = "failed"
          /\ ran' \in {ran, [ran EXCEPT ![job[q]] = @ \cup {q}]}
          /\ outcome' = [outcome EXCEPT ![q] = "failed"]
          /\ Goto(q, "record_error")
  /\ UNCHANGED <<runVars, planVars, approval, receipt, trail, boxVars, job, seen>>

(* updateReceiptExecutionResult, from the try block and from the catch.    *)
RecordResult(q) ==
  /\ pc[q] \in {"record", "record_error"}
  /\ receipt' = [receipt EXCEPT ![job[q]] = outcome[q]]
  /\ Goto(q, IF pc[q] = "record" THEN "finish" ELSE "finish_error")
  /\ UNCHANGED <<runVars, planVars, approval, trail, ran, boxVars, job, seen, outcome>>

(* The final status.  Its read-back is still inside the try block.         *)
FinishRun(q) ==
  /\ pc[q] \in {"finish", "finish_error"}
  /\ SetStatus(job[q], outcome[q])
  /\ Goto(q, "done")
  /\ UNCHANGED <<planVars, approval, receipt, trail, ran, boxVars, job, seen, outcome>>

(* A statement of the try block fails after the command returned, before   *)
(* or after it took effect: the catch block records a failed execution.    *)
CatchStoreError(q) ==
  /\ pc[q] \in {"record", "finish"}
  /\ \/ UNCHANGED runVars
     \/ pc[q] = "finish" /\ SetStatus(job[q], outcome[q])
  /\ outcome' = [outcome EXCEPT ![q] = "failed"]
  /\ Goto(q, "record_error")
  /\ UNCHANGED <<planVars, approval, receipt, trail, ran, boxVars, job, seen>>

-----------------------------------------------------------------------------
(* A human approves: approveRunAndContinue, from the run's approve route   *)
(* and from PATCH /approvals/:id when the approval has a run.              *)

Approve(q) ==
  /\ pc[q] = "idle"
  /\ \E r \in Runs :
       /\ status[r] # "absent"
       /\ Snapshot(q, r, status[r],
                   IF status[r] = "waiting_approval" THEN "resolve_approved"
                   ELSE ContinueStage(r, status[r]))
  /\ UNCHANGED <<runVars, planVars, approval, receipt, trail, ran, boxVars, outcome>>

ApprovalLeftOpen(q) ==
  /\ pc[q] = "resolve_approved"
  /\ Goto(q, "write_approved")
  /\ UNCHANGED <<runVars, planVars, approval, receipt, trail, ran, boxVars, job, seen, outcome>>

(* The compare-and-swap's verdict is not looked at.                        *)
ResolveApproved(q) ==
  /\ pc[q] = "resolve_approved"
  /\ Resolve(job[q], "approved")
  /\ Goto(q, "write_approved")
  /\ UNCHANGED <<runVars, planVars, receipt, trail, ran, boxVars, job, seen, outcome>>

ApprovedWithoutEvent(q) ==
  /\ pc[q] = "write_approved"
  /\ SetStatus(job[q], "approved")
  /\ Goto(q, "reread")
  /\ UNCHANGED <<planVars, approval, receipt, trail, ran, boxVars, job, seen, outcome>>

WriteApproved(q) ==
  /\ pc[q] = "write_approved"
  /\ AddEvent(job[q], "approval_approved")
  /\ SetStatus(job[q], "approved")
  /\ Goto(q, "reread")
  /\ UNCHANGED <<planVars, approval, receipt, ran, boxVars, job, seen, outcome>>

(* updateActionRun's read-back is what continueExecutionForRun goes by.    *)
RereadApproved(q) ==
  LET r == job[q]
  IN /\ pc[q] = "reread"
     /\ Snapshot(q, r, status[r], ContinueStage(r, status[r]))
     /\ UNCHANGED <<runVars, planVars, approval, receipt, trail, ran, boxVars, outcome>>

(* A human rejects: rejectActionRun.  The run's status decides only whether *)
(* the approval is resolved too.                                           *)
Reject(q) ==
  /\ pc[q] = "idle"
  /\ \E r \in Runs :
       /\ status[r] # "absent"
       /\ Snapshot(q, r, status[r],
                   IF status[r] = "waiting_approval" THEN "resolve_rejected"
                   ELSE "write_rejected")
  /\ UNCHANGED <<runVars, planVars, approval, receipt, trail, ran, boxVars, outcome>>

ResolveRejected(q) ==
  /\ pc[q] = "resolve_rejected"
  /\ Resolve(job[q], "rejected")
  /\ Goto(q, "write_rejected")
  /\ UNCHANGED <<runVars, planVars, receipt, trail, ran, boxVars, job, seen, outcome>>

WriteRejected(q) ==
  /\ pc[q] = "write_rejected"
  /\ AddEvent(job[q], "approval_rejected")
  /\ SetStatus(job[q], "rejected")
  /\ Goto(q, "done")
  /\ UNCHANGED <<planVars, approval, receipt, ran, boxVars, job, seen, outcome>>

(* PATCH /approvals/:id finds no run behind the approval (check-action, or *)
(* a creator that has not inserted its run yet): only the approval moves.  *)
ResolveUnlinked(q) ==
  /\ pc[q] = "idle"
  /\ \E r \in Runs :
       /\ status[r] = "absent" /\ approval[r] # "none"
       /\ Snapshot(q, r, "absent", "resolve_only")
  /\ UNCHANGED <<runVars, planVars, approval, receipt, trail, ran, boxVars, outcome>>

ResolveOnly(q) ==
  /\ pc[q] = "resolve_only"
  /\ \E verdict \in {"approved", "rejected"} : Resolve(job[q], verdict)
  /\ Goto(q, "done")
  /\ UNCHANGED <<runVars, planVars, receipt, trail, ran, boxVars, job, seen, outcome>>

-----------------------------------------------------------------------------
(* POST /action-runs/:id/continue: continueRunFromRunner.                  *)

(* The stage for a body with (or without) restorePointCreated and          *)
(* executionResult; a result that may not be reported is answered 409.     *)
ContinueRequestStage(s, restorePoint, result) ==
  CASE restorePoint /\ s = "restore_point_required"       -> "checkpoint"
    [] ~(restorePoint /\ s = "restore_point_required") /\ result ->
         IF s \in CanReportExecution THEN "record_report" ELSE "done"
    [] OTHER                                               -> "touch"

ContinueRun(q) ==
  /\ pc[q] = "idle"
  /\ \E r \in Runs, restorePoint \in BOOLEAN, result \in {"none", "completed", "failed"} :
       /\ status[r] # "absent"
       /\ Snapshot(q, r, status[r],
                   ContinueRequestStage(status[r], restorePoint, result # "none"))
       /\ outcome' = [outcome EXCEPT ![q] = result]
  /\ UNCHANGED <<runVars, planVars, approval, receipt, trail, ran, boxVars>>

CreateCheckpoint(q) ==
  /\ pc[q] = "checkpoint"
  /\ SetStatus(job[q], "checkpoint_created")
  /\ Goto(q, "done")
  /\ UNCHANGED <<planVars, approval, receipt, trail, ran, boxVars, job, seen, outcome>>

ReportWithoutReceipt(q) ==
  /\ pc[q] = "record_report"
  /\ Goto(q, "finish_report")
  /\ UNCHANGED <<runVars, planVars, approval, receipt, trail, ran, boxVars, job, seen, outcome>>

RecordReport(q) ==
  /\ pc[q] = "record_report"
  /\ receipt' = [receipt EXCEPT ![job[q]] = outcome[q]]
  /\ Goto(q, "finish_report")
  /\ UNCHANGED <<runVars, planVars, approval, trail, ran, boxVars, job, seen, outcome>>

FinishReport(q) ==
  /\ pc[q] = "finish_report"
  /\ SetStatus(job[q], outcome[q])
  /\ Goto(q, "done")
  /\ UNCHANGED <<planVars, approval, receipt, trail, ran, boxVars, job, seen, outcome>>

(* continue_not_supported: next_step and updated_at only.                  *)
TouchRun(q) ==
  /\ pc[q] = "touch"
  /\ stale' = stale \ {job[q]}
  /\ Goto(q, "done")
  /\ UNCHANGED <<status, planVars, approval, receipt, trail, ran, boxVars, job, seen, outcome>>

-----------------------------------------------------------------------------
(* The scheduled jobs, the dashboard's E2B settings, time and crashes.     *)

(* Fifteen minutes pass since a running run was last updated.              *)
Age(r) ==
  /\ status[r] = "running" /\ r \notin stale
  /\ stale' = stale \cup {r}
  /\ UNCHANGED <<status, planVars, approval, receipt, trail, ran, boxVars, reqVars>>

ReapFreshRuns ==
  LET stuck == {r \in Runs \ stale : status[r] = "running"}
  IN /\ stuck # {}
     /\ status' = [r \in Runs |-> IF r \in stuck THEN "failed" ELSE status[r]]
     /\ UNCHANGED <<stale, planVars, approval, receipt, trail, ran, boxVars, reqVars>>

ReapStuckRuns ==
  LET stuck == {r \in stale : status[r] = "running"}
  IN /\ stuck # {}
     /\ status' = [r \in Runs |-> IF r \in stuck THEN "failed" ELSE status[r]]
     /\ stale' = stale \ stuck
     /\ UNCHANGED <<planVars, approval, receipt, trail, ran, boxVars, reqVars>>

(* The pending approvals whose deadline has passed expire together.        *)
ExpireApprovals ==
  /\ \E overdue \in (SUBSET {r \in Runs : approval[r] = "pending"}) \ {{}} :
       approval' = [r \in Runs |-> IF r \in overdue THEN "expired" ELSE approval[r]]
  /\ UNCHANGED <<runVars, planVars, receipt, trail, ran, boxVars, reqVars>>

(* saveE2BKey and removeE2BKey.                                            *)
ChangeE2BKey ==
  /\ connected' = ~connected
  /\ UNCHANGED <<runVars, planVars, approval, receipt, trail, ran, used, reqVars>>

(* The isolate dies, or a D1 statement outside runInsideE2B's try throws:  *)
(* the handler is gone and what it wrote stays.                            *)
Crash(q) ==
  /\ pc[q] \notin {"idle", "done"}
  /\ Goto(q, "done")
  /\ UNCHANGED <<runVars, planVars, approval, receipt, trail, ran, boxVars, job, seen, outcome>>

-----------------------------------------------------------------------------
ExecuteAction(q) == Propose(q) \/ CreateApproval(q) \/ CreateRun(q)

RunInsideE2B(q) ==
  \/ ReadE2BKey(q) \/ HoldForSandbox(q)
  \/ ReserveSandboxRun(q) \/ CheckSandboxQuota(q)
  \/ StartSandboxRun(q) \/ RunInSandbox(q)
  \/ RecordResult(q) \/ FinishRun(q) \/ CatchStoreError(q)

ApproveRun(q) == Approve(q) \/ ResolveApproved(q) \/ WriteApproved(q) \/ RereadApproved(q)

RejectRun(q) == Reject(q) \/ ResolveRejected(q) \/ WriteRejected(q)

ContinueFromRunner(q) ==
  \/ ContinueRun(q) \/ CreateCheckpoint(q)
  \/ RecordReport(q) \/ FinishReport(q) \/ TouchRun(q)

Handler(q) ==
  \/ ExecuteAction(q) \/ RunInsideE2B(q)
  \/ MarkExecutionSkipped(q) \/ MarkExternalRunnerRequired(q)
  \/ ApproveRun(q) \/ RejectRun(q) \/ ContinueFromRunner(q)
  \/ ResolveUnlinked(q) \/ ResolveOnly(q) \/ Crash(q)

Next ==
  \/ \E q \in Requests : Handler(q)
  \/ \E r \in Runs : Age(r)
  \/ ReapStuckRuns
  \/ ExpireApprovals
  \/ ChangeE2BKey

Spec == Init /\ [][Next]_vars

(* The cron trigger keeps firing and clocks keep running.  Nothing is      *)
(* assumed of the handlers: an isolate may die at any await.               *)
Fairness == WF_vars(ReapStuckRuns) /\ \A r \in Runs : WF_vars(Age(r))

FairSpec == Spec /\ Fairness

-----------------------------------------------------------------------------
(* Properties.                                                             *)

Executed(r) == ran[r] # {} \/ receipt[r] \in {"completed", "failed"}

(* The gate in front of r is open: no block, and where a human has to      *)
(* approve, the trail says one did.                                        *)
Cleared(r) ==
  /\ decision[r] \notin {"none", "block"}
  /\ decision[r] = "approval_required" => "approval_approved" \in trail[r]

(* A run the policy blocked is never executed, never gets an execution     *)
(* result on its receipt, and is only ever relabelled "rejected".          *)
BlockedNeverExecutes ==
  \A r \in Runs : decision[r] = "block" =>
    /\ ~Executed(r)
    /\ status[r] \in {"absent", "blocked", "rejected"}

(* An action that needs approval is executed, or released to a runner,     *)
(* only after an approval was recorded in its trail.                       *)
ApprovalPrecedesExecution ==
  \A r \in Runs : decision[r] = "approval_required" =>
    \/ "approval_approved" \in trail[r]
    \/ ~Executed(r) /\ status[r] \in {"absent", "waiting_approval", "rejected"}

(* A command runs in the workspace's sandbox only for an action that has   *)
(* one and whose policy path leads there.                                  *)
SandboxOnlyWhereGated ==
  \A r \in Runs : ran[r] # {} =>
    /\ action[r] \in CommandActions
    /\ \/ decision[r] = "sandbox_required"
       \/ decision[r] = "approval_required" /\ action[r] \in ShellActions

(* Nothing takes effect that the policy path did not release: no execution *)
(* of a blocked run, and no command in the sandbox off the sandbox paths.  *)
EffectsAreReleased == BlockedNeverExecutes /\ SandboxOnlyWhereGated

(* However handlers interleave, the key's sandbox quota bounds the         *)
(* commands that run: the increment is a statement of its own, the         *)
(* comparison a later one, and over-counting is the only error.            *)
SandboxQuota ==
  LET commands == UNION {ran[r] : r \in Runs}
  IN commands # {} => Cardinality(commands) < SandboxLimit

(* A completed run has an execution result on its receipt, whoever wrote   *)
(* the status and whatever raced with it.                                  *)
CompletedHasReceipt ==
  \A r \in Runs : status[r] = "completed" => receipt[r] \in {"completed", "failed"}

(* A pending approval belongs to a run that still waits for it, or is not  *)
(* there yet: however decisions race, expire or die between their two      *)
(* UPDATEs, no decided run leaves an open approval behind.                 *)
PendingApprovalsHoldTheirRun ==
  \A r \in Runs : approval[r] = "pending" => status[r] \in {"absent", "waiting_approval"}

(* A rejection is undone only by a handler that read the run before the    *)
(* rejection landed: nobody who saw "rejected" moves the run on.           *)
RejectionStands ==
  [][\A r \in Runs : status[r] = "rejected" /\ status'[r] # "rejected" =>
       \E q \in Requests : job[q] = r /\ seen[q] # "rejected" /\ pc[q] # pc'[q]]_vars

(* A run whose handler died while it was running does not stay running:    *)
(* the scheduled reaper fails it.                                          *)
StuckRunsAreReaped == \A r \in Runs : status[r] = "running" ~> status[r] # "running"

(* What a comment says and the code does not do.                           *)

(* Two concurrent approvals cannot both succeed: one approval, at most one *)
(* execution of the command (agentwingStore.ts on resolveApproval).        *)
OneExecutionPerApproval ==
  \A r \in Runs : decision[r] = "approval_required" => Cardinality(ran[r]) <= 1

-----------------------------------------------------------------------------
(* What the run lifecycle promises, independently of its steps.            *)

Verdict(r) ==
  IF decision[r] = "none" THEN "none"
  ELSE IF decision[r] = "block" THEN "blocked"
  ELSE IF Cleared(r) THEN "open" ELSE "held"

verdict == [r \in Runs |-> Verdict(r)]

Gate == INSTANCE ExecutionGate WITH effects <- {r \in Runs : Executed(r)}

(* Handlers, jobs and crashes implement the gate: an action takes effect   *)
(* only while its gate is open, and no step closes the question for a      *)
(* blocked one.                                                            *)
GateRefined == Gate!Spec
=============================================================================
