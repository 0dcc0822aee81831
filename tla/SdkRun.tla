------------------------------- MODULE SdkRun -------------------------------
(***************************************************************************)
(* An agent that runs an action through AgentWing, beside the lifecycle    *)
(* itself: executeAction of packages/sdk/src/index.ts, and the loop of     *)
(* examples/guarded-runner, which does the same by hand.  Its requests are *)
(* those of ActionRuns; an answer is what the handler last read back, and  *)
(* it may never arrive.  Repeating the creating call is in Clients.        *)
(***************************************************************************)
EXTENDS ActionRuns

VARIABLES
  agent,        (* "sdk" or "guarded_runner"                                *)
  phase,        (* where the agent is                                       *)
  request,      (* the request it waits for, or NoAction                    *)
  answer,       (* what that request answers, once it is done               *)
  view,         (* the status of its latest copy of the run                 *)
  local,        (* what became of the local callback: none, completed or failed *)
  sawApproved,  (* history: a poll answered with status "approved"          *)
  reportLost    (* history: the report of a local run had no good answer    *)

agentVars == <<agent, phase, request, answer, view, local, sawApproved, reportLost>>
sdkVars == <<vars, agentVars>>

Phases == {"start", "creating", "polling", "checkpoint", "checkpointing", "runnable",
           "report", "reporting", "report_failure", "reporting_failure",
           "ended", "timed_out", "threw"}

SdkRunTypeOK ==
  /\ TypeOK
  /\ agent \in {"sdk", "guarded_runner"}
  /\ phase \in Phases
  /\ request \in Requests \cup {NoAction}
  /\ answer \in Statuses \cup {"none", "refused"}
  /\ view \in Statuses \cup {"none"}
  /\ local \in {"none", "completed", "failed"}
  /\ sawApproved \in BOOLEAN /\ reportLost \in BOOLEAN

SdkRunInit ==
  /\ Init
  /\ agent \in {"sdk", "guarded_runner"}
  /\ phase = "start" /\ request = NoAction
  /\ answer = "none" /\ view = "none" /\ local = "none"
  /\ sawApproved = FALSE /\ reportLost = FALSE

-----------------------------------------------------------------------------
(* The server's side of the agent's request: what the handler has read     *)
(* back when it ends.  A report that may not be made is answered 409.      *)

AnswerOf(q) == IF pc'[q] = "done" THEN status'[job[q]] ELSE "none"

ServeAgent(q) ==
  /\ q = request
  /\ pc[q] # "idle"
  /\ Handler(q)
  /\ answer' = IF Crash(q) THEN "none" ELSE AnswerOf(q)
  /\ UNCHANGED <<agent, phase, request, view, local, sawApproved, reportLost>>

(* Everybody else: people who approve or reject, jobs, the settings page.  *)
ServeOthers ==
  /\ \/ \E q \in Requests \ {request} :
          \/ Approve(q) \/ Reject(q)
          \/ pc[q] # "idle" /\ Handler(q)
     \/ \E r \in Runs : Age(r)
     \/ ReapStuckRuns \/ ExpireApprovals \/ ChangeE2BKey
  /\ UNCHANGED agentVars

-----------------------------------------------------------------------------
(* executeAction.                                                          *)

TheRun == job[request]

Send(q, next) ==
  /\ pc[q] = "idle"
  /\ request' = q
  /\ phase' = next

(* POST execute-action.                                                    *)
SendExecuteAction(q) ==
  /\ phase = "start"
  /\ Propose(q)
  /\ Send(q, "creating")
  /\ answer' = "none"
  /\ UNCHANGED <<agent, view, local, sawApproved, reportLost>>

(* Faulty variants, here and below, are what a plausible slip in the code  *)
(* would make of the definition that follows: each breaks a property.      *)
WaitingForSandboxRunsHere ==
  {"external_runner_required", "checkpoint_created", "approved", "waiting_sandbox"}

Runnable ==
  IF agent = "sdk"
  THEN {"external_runner_required", "checkpoint_created", "approved"}
  ELSE {"external_runner_required", "execution_skipped"}

StillWaiting ==
  IF agent = "sdk"
  THEN {"waiting_approval", "running"}
  ELSE {"waiting_approval", "approved", "running"}

RunWithoutCheckpoint(s) ==
  CASE s \in Runnable \cup {"restore_point_required"} -> "runnable"
    [] OTHER -> "ended"

(* What the agent goes on to with a run that is not waiting any more.      *)
PhaseAfter(s) ==
  CASE s \in Runnable -> "runnable"
    [] s = "restore_point_required" /\ agent = "sdk" -> "checkpoint"
    [] OTHER -> "ended"

(* The answer to the creating call: only a run that waits for approval is  *)
(* polled.                                                                 *)
ReceiveRun ==
  /\ phase = "creating" /\ answer \in Statuses
  /\ view' = answer
  /\ phase' = IF answer = "waiting_approval" THEN "polling" ELSE PhaseAfter(answer)
  /\ UNCHANGED <<agent, vars, request, answer, local, sawApproved, reportLost>>

RunAfterAnyDecision ==
  /\ phase = "polling"
  /\ view' = status[TheRun]
  /\ phase' = IF status[TheRun] \in StillWaiting THEN "polling" ELSE "runnable"
  /\ sawApproved' = (sawApproved \/ status[TheRun] = "approved")
  /\ UNCHANGED <<agent, vars, request, answer, local, reportLost>>

(* waitForDecision and pollRun: GET action-runs/[runId].                   *)
PollRun ==
  /\ phase = "polling"
  /\ view' = status[TheRun]
  /\ phase' = IF status[TheRun] \in StillWaiting THEN "polling" ELSE PhaseAfter(status[TheRun])
  /\ sawApproved' = (sawApproved \/ status[TheRun] = "approved")
  /\ UNCHANGED <<agent, vars, request, answer, local, reportLost>>

(* maxWaitMs.                                                              *)
StopWaiting ==
  /\ agent = "sdk" /\ phase = "polling"
  /\ phase' = "timed_out"
  /\ UNCHANGED <<agent, vars, request, answer, view, local, sawApproved, reportLost>>

(* createRestorePoint, and the continue that tells of it.                  *)
SendCheckpoint(q) ==
  /\ phase = "checkpoint"
  /\ ContinueRun(q)
  /\ job'[q] = TheRun /\ outcome'[q] = "none"
  /\ pc'[q] = ContinueRequestStage(seen'[q], TRUE, FALSE)
  /\ Send(q, "checkpointing")
  /\ answer' = "none"
  /\ UNCHANGED <<agent, view, local, sawApproved, reportLost>>

ReceiveCheckpoint ==
  /\ phase = "checkpointing" /\ answer \in Statuses
  /\ view' = answer
  /\ phase' = IF answer \in Runnable THEN "runnable" ELSE "ended"
  /\ UNCHANGED <<agent, vars, request, answer, local, sawApproved, reportLost>>

(* The caller's localRunner, if there is one: it returns or throws.        *)
RunLocally ==
  /\ phase = "runnable"
  /\ local' \in {"completed", "failed"}
  /\ phase' = IF local' = "completed" THEN "report"
              ELSE IF agent = "sdk" THEN "report_failure" ELSE "threw"
  /\ UNCHANGED <<agent, vars, request, answer, view, sawApproved, reportLost>>

NoLocalRunner ==
  /\ phase = "runnable"
  /\ phase' = "ended"
  /\ UNCHANGED <<agent, vars, request, answer, view, local, sawApproved, reportLost>>

(* continueActionRun with an execution result.                             *)
SendReport(q, result, next) ==
  /\ ContinueRun(q)
  /\ job'[q] = TheRun /\ outcome'[q] = result
  /\ pc'[q] = ContinueRequestStage(seen'[q], FALSE, TRUE)
  /\ Send(q, next)
  /\ answer' = IF pc'[q] = "done" THEN "refused" ELSE "none"
  /\ UNCHANGED <<agent, view, local, sawApproved, reportLost>>

ReportExitCodeOne(q) == phase = "report" /\ SendReport(q, "failed", "reporting")

ReportSuccess(q) == phase = "report" /\ SendReport(q, "completed", "reporting")

ReportFailure(q) == phase = "report_failure" /\ SendReport(q, "failed", "reporting_failure")

ReceiveReportAnswer ==
  /\ phase \in {"reporting", "reporting_failure"} /\ answer \in Statuses
  /\ view' = answer
  /\ phase' = "ended"
  /\ UNCHANGED <<agent, vars, request, answer, local, sawApproved, reportLost>>

(* The loop of the SDK's request goes round again after a lost answer or a *)
(* 5xx, with a request of its own.  The repeated creating call is in       *)
(* Clients.                                                                *)
RepeatRequest ==
  /\ agent = "sdk"
  /\ phase \in {"checkpointing", "reporting", "reporting_failure"} /\ answer # "refused"
  /\ phase' = CASE phase = "checkpointing" -> "checkpoint"
                [] phase = "reporting" -> "report"
                [] phase = "reporting_failure" -> "report_failure"
  /\ reportLost' = (reportLost \/ phase = "reporting")
  /\ UNCHANGED <<agent, vars, request, answer, view, local, sawApproved>>

(* The request throws.  In the SDK the report stands inside the try block  *)
(* of the local runner: its failure is reported as the runner's.           *)
RequestThrows ==
  /\ phase \in {"creating", "polling", "checkpointing", "reporting", "reporting_failure"}
  /\ phase' = IF phase = "reporting" /\ agent = "sdk" THEN "report_failure" ELSE "threw"
  /\ reportLost' = (reportLost \/ phase = "reporting")
  /\ UNCHANGED <<agent, vars, request, answer, view, local, sawApproved>>

SdkRunNext ==
  \/ ServeOthers
  \/ \E q \in Requests :
       \/ ServeAgent(q)
       \/ SendExecuteAction(q) \/ SendCheckpoint(q) \/ ReportSuccess(q) \/ ReportFailure(q)
  \/ ReceiveRun \/ PollRun \/ StopWaiting \/ ReceiveCheckpoint
  \/ RunLocally \/ NoLocalRunner
  \/ ReceiveReportAnswer \/ RepeatRequest \/ RequestThrows

SdkRunSpec == SdkRunInit /\ [][SdkRunNext]_sdkVars

-----------------------------------------------------------------------------
(* Properties.                                                             *)

(* The agent's own machine runs only what the gate let through, whatever   *)
(* was polled, late or lost in between.                                    *)
LocalRunWasCleared == local # "none" => Cleared(TheRun)

(* Where the policy asks for a restore point, nothing runs locally before  *)
(* the lifecycle has recorded one.                                         *)
RestorePointFirst ==
  local # "none" /\ decision[TheRun] = "restore_point_required" =>
    status[TheRun] # "restore_point_required"

(* What runs on the agent's machine was released by the gate, with the     *)
(* restore point it asked for.                                             *)
LocalRunsAreReleased == LocalRunWasCleared /\ RestorePointFirst

(* The receipt tells of a local success as a failure only when the report  *)
(* of it got no good answer, or a sandbox was started for it as well.      *)
MisreportNeedsLostReport ==
  local = "completed" /\ receipt[TheRun] = "failed" =>
    reportLost \/ "execution_started" \in trail[TheRun]

(* An action runs in one place, the sandbox or the agent's machine, unless *)
(* a poll met the run between its approval and what the approval leads to. *)
TwoPlacesNeedApprovedPoll ==
  local # "none" /\ ran[TheRun] # {} => agent = "sdk" /\ sawApproved

(* Both: a wrong report and a double execution each need the one window    *)
(* named here, and no other interleaving opens a second one.               *)
AnomaliesHaveACause == MisreportNeedsLostReport /\ TwoPlacesNeedApprovedPoll
=============================================================================
