-------------------------- MODULE ActionRuns_proofs --------------------------
(***************************************************************************)
(* Theorems about ActionRuns, for any set of requests, runs and actions.   *)
(***************************************************************************)
EXTENDS ActionRuns, FiniteSetTheorems, TLAPS

(* The stages at which a request carries an execution result.              *)
ResultStages == {"record", "finish", "record_error", "finish_error",
                 "record_report", "finish_report"}

(* A request past "idle" names a run, one that creates a run has its       *)
(* verdict, and one that records a result has it.                          *)
JobInv ==
  \A q \in Requests :
    /\ pc[q] # "idle" => job[q] \in Runs
    /\ pc[q] \in {"create_approval", "create_run"} => decision[job[q]] # "none"
    /\ pc[q] \in ResultStages => outcome[q] \in {"completed", "failed"}

LEMMA TypeInit == Init => TypeOK /\ JobInv
<1> SUFFICES ASSUME Init PROVE TypeOK /\ JobInv
  OBVIOUS
<1> USE DEF Init
<1>1. connected \in BOOLEAN
  BY Zenon
<1>2. pc \in [Requests -> Stages] /\ approval \in [Runs -> ApprovalStates] /\ receipt \in [Runs -> ReceiptStates]
  BY DEF Stages, ApprovalStates, ReceiptStates
<1>3. TypeOK
  BY <1>1, <1>2 DEF TypeOK
<1>4. JobInv
  BY DEF JobInv, ResultStages
<1> QED BY <1>3, <1>4

LEMMA TypeStep == TypeOK /\ JobInv /\ [Next]_vars => TypeOK' /\ JobInv'
<1> SUFFICES ASSUME TypeOK, JobInv, [Next]_vars PROVE TypeOK' /\ JobInv'
  OBVIOUS
<1> USE DEF TypeOK, JobInv, ResultStages, Goto, Snapshot, SetStatus, AddEvent, Resolve,
            runVars, planVars, boxVars, reqVars, Stages, SandboxStages
<1>1. ASSUME NEW q \in Requests, ExecuteAction(q) PROVE TypeOK' /\ JobInv'
  <2>1. CASE Propose(q)
    BY <2>1 DEF Propose, Decisions, ReceiptStates, Statuses
  <2>2. CASE CreateApproval(q)
    BY <2>2 DEF CreateApproval, ApprovalStates
  <2>3. CASE CreateRun(q)
    <3>1. InitialStatus(decision[job[q]]) \in Statuses
      BY <2>3 DEF CreateRun, InitialStatus, Decisions, Statuses
    <3> QED BY <2>3, <3>1 DEF CreateRun, ContinueStage, SandboxEntry
  <2> QED BY <1>1, <2>1, <2>2, <2>3 DEF ExecuteAction
<1>2. ASSUME NEW q \in Requests, RunInsideE2B(q) PROVE TypeOK' /\ JobInv'
  <2>1. CASE ReadE2BKey(q) \/ HoldForSandbox(q) \/ ReserveSandboxRun(q) \/ CheckSandboxQuota(q)
    BY <2>1 DEF ReadE2BKey, HoldForSandbox, ReserveSandboxRun, CheckSandboxQuota, Statuses
  <2>2. CASE StartSandboxRun(q)
    BY <2>2 DEF StartSandboxRun, Statuses, TrailEvents
  <2>3. CASE RunInSandbox(q)
    BY <2>3 DEF RunInSandbox
  <2>4. CASE RecordResult(q)
    BY <2>4 DEF RecordResult, ReceiptStates
  <2>5. CASE FinishRun(q)
    BY <2>5 DEF FinishRun, Statuses
  <2>6. CASE CatchStoreError(q)
    BY <2>6 DEF CatchStoreError, Statuses
  <2> QED BY <1>2, <2>1, <2>2, <2>3, <2>4, <2>5, <2>6 DEF RunInsideE2B
<1>3. ASSUME NEW q \in Requests, MarkExecutionSkipped(q) \/ MarkExternalRunnerRequired(q)
      PROVE TypeOK' /\ JobInv'
  BY <1>3 DEF MarkExecutionSkipped, MarkExternalRunnerRequired, Statuses
<1>4. ASSUME NEW q \in Requests, ApproveRun(q) PROVE TypeOK' /\ JobInv'
  BY <1>4 DEF ApproveRun, Approve, ResolveApproved, WriteApproved, RereadApproved,
              ContinueStage, SandboxEntry, ApprovalStates, Statuses, TrailEvents
<1>5. ASSUME NEW q \in Requests, RejectRun(q) PROVE TypeOK' /\ JobInv'
  <2>1. CASE Reject(q) \/ ResolveRejected(q)
    BY <2>1 DEF Reject, ResolveRejected, ApprovalStates
  <2>2. CASE WriteRejected(q)
    BY <2>2 DEF WriteRejected, Statuses, TrailEvents
  <2> QED BY <1>5, <2>1, <2>2 DEF RejectRun
<1>6. ASSUME NEW q \in Requests, ContinueFromRunner(q) PROVE TypeOK' /\ JobInv'
  <2>1. CASE ContinueRun(q)
    BY <2>1 DEF ContinueRun, ContinueRequestStage
  <2>2. CASE CreateCheckpoint(q) \/ FinishReport(q)
    BY <2>2 DEF CreateCheckpoint, FinishReport, Statuses
  <2>3. CASE RecordReport(q) \/ TouchRun(q)
    BY <2>3 DEF RecordReport, TouchRun, ReceiptStates
  <2> QED BY <1>6, <2>1, <2>2, <2>3 DEF ContinueFromRunner
<1>7. ASSUME NEW q \in Requests, ResolveUnlinked(q) \/ ResolveOnly(q) \/ Crash(q)
      PROVE TypeOK' /\ JobInv'
  BY <1>7 DEF ResolveUnlinked, ResolveOnly, Crash, ApprovalStates
<1>8. ASSUME NEW r \in Runs, Age(r) PROVE TypeOK' /\ JobInv'
  BY <1>8 DEF Age
<1>9. CASE ReapStuckRuns
  BY <1>9 DEF ReapStuckRuns, Statuses
<1>10. CASE ExpireApprovals
  BY <1>10 DEF ExpireApprovals, ApprovalStates
<1>11. CASE ChangeE2BKey
  <2>1. connected' \in BOOLEAN
    BY <1>11, Zenon DEF ChangeE2BKey
  <2> QED BY <1>11, <2>1 DEF ChangeE2BKey
<1>12. CASE UNCHANGED vars
  BY <1>12 DEF vars
<1> QED
  BY <1>1, <1>2, <1>3, <1>4, <1>5, <1>6, <1>7, <1>8, <1>9, <1>10, <1>11, <1>12
  DEF Next, Handler

(* Every reachable state is well typed: no handler writes a status, an     *)
(* approval state or a receipt result outside the documented sets.         *)
THEOREM TypeCorrect == Spec => []TypeOK
<1>1. Spec => [](TypeOK /\ JobInv)
  BY TypeInit, TypeStep, PTL DEF Spec
<1> QED BY <1>1, PTL

-----------------------------------------------------------------------------
(* The gate.  The properties are not inductive: a handler acts on a        *)
(* snapshot, so what was true of the run when it was read has to be kept   *)
(* for every stage that follows, whatever the other requests do.           *)

(* A run is created once: its receipt marks the id as taken, its status    *)
(* stays "absent" until its one creator inserts the row, and nothing is    *)
(* executed before that.                                                   *)
Creating(q) == pc[q] \in {"create_approval", "create_run"}

CreationInv ==
  /\ \A r \in Runs : receipt[r] = "none" <=> decision[r] = "none"
  /\ \A r \in Runs : status[r] # "absent" => decision[r] # "none"
  /\ \A r \in Runs : Executed(r) => status[r] # "absent"
  /\ \A q \in Requests : Creating(q) => status[job[q]] = "absent"
  /\ \A p, q \in Requests : Creating(p) /\ Creating(q) /\ job[p] = job[q] => p = q

StatusInv ==
  \A r \in Runs :
    /\ status[r] = "waiting_approval" => decision[r] = "approval_required"
    /\ status[r] = "approved" => /\ decision[r] = "approval_required"
                                 /\ "approval_approved" \in trail[r]

(* Stages only a request whose run is past the gate can be at.             *)
OpenStages == SandboxStages \cup
  {"skip", "external", "checkpoint", "record_report", "finish_report"}

StageInv ==
  \A q \in Requests :
    /\ pc[q] \in OpenStages => Cleared(job[q])
    /\ pc[q] \in {"resolve_approved", "write_approved", "reread"} =>
         decision[job[q]] = "approval_required"
    /\ pc[q] = "reread" => "approval_approved" \in trail[job[q]]
    /\ pc[q] \notin {"idle", "done", "create_approval", "create_run", "resolve_only"} =>
         status[job[q]] # "absent"

SandboxInv ==
  \A q \in Requests : pc[q] \in SandboxStages =>
    /\ action[job[q]] \in CommandActions
    /\ \/ decision[job[q]] = "sandbox_required"
       \/ decision[job[q]] = "approval_required" /\ action[job[q]] \in ShellActions

ReceiptInv ==
  \A q \in Requests : pc[q] \in {"finish", "finish_error", "finish_report"} =>
    receipt[job[q]] \in {"completed", "failed"}

GateInv ==
  /\ TypeOK /\ JobInv
  /\ CreationInv /\ StatusInv /\ StageInv /\ SandboxInv /\ ReceiptInv
  /\ BlockedNeverExecutes /\ ApprovalPrecedesExecution
  /\ SandboxOnlyWhereGated /\ CompletedHasReceipt

LEMMA GateInit == Init => GateInv
<1> SUFFICES ASSUME Init PROVE GateInv
  OBVIOUS
<1>1. TypeOK /\ JobInv
  BY TypeInit
<1>2. CreationInv /\ StatusInv /\ ReceiptInv
  BY DEF Init, CreationInv, StatusInv, ReceiptInv, Executed, Creating
<1>3. StageInv /\ SandboxInv
  <2>1. \A q \in Requests : pc[q] = "idle"
    BY DEF Init
  <2>2. "idle" \notin OpenStages \cup SandboxStages
    BY DEF OpenStages, SandboxStages
  <2> QED BY <2>1, <2>2 DEF StageInv, SandboxInv
<1>4. BlockedNeverExecutes /\ ApprovalPrecedesExecution /\ SandboxOnlyWhereGated /\ CompletedHasReceipt
  BY DEF Init, BlockedNeverExecutes, ApprovalPrecedesExecution, SandboxOnlyWhereGated,
     CompletedHasReceipt, Executed
<1> QED BY <1>1, <1>2, <1>3, <1>4 DEF GateInv

LEMMA GateStep == GateInv /\ [Next]_vars => GateInv'
<1> SUFFICES ASSUME GateInv, [Next]_vars PROVE GateInv'
  OBVIOUS
<1> USE DEF GateInv
<1>0. TypeOK' /\ JobInv'
  BY TypeStep
<1> USE DEF TypeOK, JobInv, CreationInv, StatusInv, StageInv, SandboxInv, ReceiptInv,
     BlockedNeverExecutes, ApprovalPrecedesExecution, SandboxOnlyWhereGated,
     CompletedHasReceipt, Executed, Creating, Cleared, OpenStages, SandboxStages, ResultStages,
     Goto, Snapshot, SetStatus, AddEvent, Resolve, runVars, planVars, boxVars, reqVars
<1>1. ASSUME NEW q \in Requests, Propose(q) PROVE GateInv'
  BY SMTT(60), <1>0, <1>1 DEF Propose, Decisions
<1>2. ASSUME NEW q \in Requests, CreateApproval(q) PROVE GateInv'
  BY <1>0, <1>2 DEF CreateApproval
<1>3. ASSUME NEW q \in Requests, CreateRun(q) PROVE GateInv'
  <2> USE <1>0, <1>3 DEF CreateRun
  <2>1. /\ job[q] \in Runs /\ decision[job[q]] \in Decisions
        /\ status[job[q]] = "absent" /\ ~Executed(job[q])
    OBVIOUS
  <2>2. status'[job[q]] = InitialStatus(decision[job[q]])
    BY SMTT(60)
  <2>3. CreationInv'
    BY SMTT(60), <2>1 DEF InitialStatus, ContinueStage, SandboxEntry, Decisions
  <2>4. StatusInv' /\ BlockedNeverExecutes' /\ ApprovalPrecedesExecution' /\ CompletedHasReceipt'
    BY SMTT(60), <2>1 DEF InitialStatus, Decisions
  <2>5. StageInv'
    BY SMTT(60), <2>1 DEF InitialStatus, ContinueStage, SandboxEntry, Decisions
  <2>6. SandboxInv'
    BY SMTT(60), <2>1 DEF InitialStatus, ContinueStage, SandboxEntry, Decisions
  <2>7. ReceiptInv' /\ SandboxOnlyWhereGated'
    BY SMTT(60), <2>1 DEF InitialStatus, ContinueStage, SandboxEntry, Decisions
  <2> QED BY <2>3, <2>4, <2>5, <2>6, <2>7
<1>4. ASSUME NEW q \in Requests, ReadE2BKey(q) PROVE GateInv'
  BY <1>0, <1>4 DEF ReadE2BKey
<1>5. ASSUME NEW q \in Requests, HoldForSandbox(q) PROVE GateInv'
  BY <1>0, <1>5 DEF HoldForSandbox
<1>6. ASSUME NEW q \in Requests, ReserveSandboxRun(q) PROVE GateInv'
  BY <1>0, <1>6 DEF ReserveSandboxRun
<1>7. ASSUME NEW q \in Requests, CheckSandboxQuota(q) PROVE GateInv'
  BY <1>0, <1>7 DEF CheckSandboxQuota
<1>8. ASSUME NEW q \in Requests, StartSandboxRun(q) PROVE GateInv'
  BY <1>0, <1>8 DEF StartSandboxRun
<1>9. ASSUME NEW q \in Requests, RunInSandbox(q) PROVE GateInv'
  <2> USE <1>0, <1>9 DEF RunInSandbox
  <2>1. job[q] \in Runs /\ Cleared(job[q]) /\ status[job[q]] # "absent"
    OBVIOUS
  <2>2. CreationInv' /\ StatusInv' /\ CompletedHasReceipt'
    BY <2>1
  <2>3. BlockedNeverExecutes' /\ ApprovalPrecedesExecution'
    BY <2>1
  <2>4. SandboxOnlyWhereGated'
    BY <2>1
  <2>5. StageInv' /\ SandboxInv' /\ ReceiptInv'
    BY <2>1
  <2> QED BY <2>2, <2>3, <2>4, <2>5
<1>10. ASSUME NEW q \in Requests, RecordResult(q) PROVE GateInv'
  BY SMTT(60), <1>0, <1>10 DEF RecordResult
<1>11. ASSUME NEW q \in Requests, FinishRun(q) PROVE GateInv'
  BY <1>0, <1>11 DEF FinishRun
<1>12. ASSUME NEW q \in Requests, CatchStoreError(q) PROVE GateInv'
  BY SMTT(60), <1>0, <1>12 DEF CatchStoreError
<1>13. ASSUME NEW q \in Requests, MarkExecutionSkipped(q) PROVE GateInv'
  BY <1>0, <1>13 DEF MarkExecutionSkipped
<1>14. ASSUME NEW q \in Requests, MarkExternalRunnerRequired(q) PROVE GateInv'
  BY <1>0, <1>14 DEF MarkExternalRunnerRequired
<1>15. ASSUME NEW q \in Requests, Approve(q) PROVE GateInv'
  BY <1>0, <1>15 DEF Approve, ContinueStage, SandboxEntry
<1>16. ASSUME NEW q \in Requests, ResolveApproved(q) PROVE GateInv'
  BY <1>0, <1>16 DEF ResolveApproved
<1>17. ASSUME NEW q \in Requests, WriteApproved(q) PROVE GateInv'
  BY <1>0, <1>17 DEF WriteApproved
<1>18. ASSUME NEW q \in Requests, RereadApproved(q) PROVE GateInv'
  BY SMTT(60), <1>0, <1>18 DEF RereadApproved, ContinueStage, SandboxEntry
<1>19. ASSUME NEW q \in Requests, RejectRun(q) PROVE GateInv'
  <2>1. CASE Reject(q)
    BY <1>0, <2>1 DEF Reject
  <2>2. CASE ResolveRejected(q)
    BY <1>0, <2>2 DEF ResolveRejected
  <2>3. CASE WriteRejected(q)
    BY <1>0, <2>3 DEF WriteRejected
  <2> QED BY <1>19, <2>1, <2>2, <2>3 DEF RejectRun
<1>20. ASSUME NEW q \in Requests, ContinueRun(q) PROVE GateInv'
  BY SMTT(60), <1>0, <1>20 DEF ContinueRun, ContinueRequestStage, CanReportExecution
<1>21. ASSUME NEW q \in Requests, CreateCheckpoint(q) PROVE GateInv'
  BY <1>0, <1>21 DEF CreateCheckpoint
<1>22. ASSUME NEW q \in Requests, RecordReport(q) PROVE GateInv'
  BY <1>0, <1>22 DEF RecordReport
<1>23. ASSUME NEW q \in Requests, FinishReport(q) PROVE GateInv'
  BY <1>0, <1>23 DEF FinishReport
<1>24. ASSUME NEW q \in Requests, TouchRun(q) PROVE GateInv'
  BY <1>0, <1>24 DEF TouchRun
<1>25. ASSUME NEW q \in Requests, ResolveUnlinked(q) PROVE GateInv'
  BY <1>0, <1>25 DEF ResolveUnlinked
<1>26. ASSUME NEW q \in Requests, ResolveOnly(q) PROVE GateInv'
  BY <1>0, <1>26 DEF ResolveOnly
<1>27. ASSUME NEW q \in Requests, Crash(q) PROVE GateInv'
  BY <1>0, <1>27 DEF Crash
<1>28. ASSUME NEW r \in Runs, Age(r) PROVE GateInv'
  BY <1>0, <1>28 DEF Age
<1>29. CASE ReapStuckRuns
  BY <1>0, <1>29 DEF ReapStuckRuns
<1>30. CASE ExpireApprovals
  BY <1>0, <1>30 DEF ExpireApprovals
<1>31. CASE ChangeE2BKey
  BY <1>0, <1>31 DEF ChangeE2BKey
<1>32. CASE UNCHANGED vars
  BY <1>0, <1>32 DEF vars
<1> QED
  BY ZenonT(60), <1>1, <1>2, <1>3, <1>4, <1>5, <1>6, <1>7, <1>8, <1>9, <1>10, <1>11, <1>12,
     <1>13, <1>14, <1>15, <1>16, <1>17, <1>18, <1>19, <1>20, <1>21, <1>22, <1>23,
     <1>24, <1>25, <1>26, <1>27, <1>28, <1>29, <1>30, <1>31, <1>32
  DEF Next, Handler, ExecuteAction, RunInsideE2B, ApproveRun, ContinueFromRunner

LEMMA GateInvariant == Spec => []GateInv
BY GateInit, GateStep, PTL DEF Spec

(* A run the policy blocked is never executed and never reported as        *)
(* executed, by any interleaving of handlers, jobs and crashes.            *)
THEOREM BlockedSafety == Spec => []BlockedNeverExecutes
BY GateInvariant, PTL DEF GateInv

(* No action that needs approval is executed or released before an         *)
(* approval is in its trail.                                               *)
THEOREM ApprovalSafety == Spec => []ApprovalPrecedesExecution
BY GateInvariant, PTL DEF GateInv

(* The workspace's sandbox runs only commands whose policy path leads to   *)
(* it.                                                                     *)
THEOREM SandboxSafety == Spec => []SandboxOnlyWhereGated
BY GateInvariant, PTL DEF GateInv

(* Both: no path of the lifecycle has an effect that the policy's verdict  *)
(* did not release, for any requests and runs.                             *)
THEOREM ReleaseSafety == Spec => []EffectsAreReleased
<1>1. BlockedNeverExecutes /\ SandboxOnlyWhereGated => EffectsAreReleased
  BY DEF EffectsAreReleased
<1> QED BY <1>1, BlockedSafety, SandboxSafety, PTL

(* A completed run has an execution result on its receipt.                 *)
THEOREM ReceiptSafety == Spec => []CompletedHasReceipt
BY GateInvariant, PTL DEF GateInv

-----------------------------------------------------------------------------
(* The queue of approvals and the runs.                                    *)

(* Only a run that needs an approval has one, and a handler on its way to  *)
(* any other status than "waiting_approval" has met it resolved.           *)
BeforeResolving == {"idle", "done", "create_approval", "create_run", "resolve_approved",
                    "resolve_rejected", "resolve_only", "touch"}

QueueInv ==
  /\ PendingApprovalsHoldTheirRun
  /\ \A r \in Runs : approval[r] = "pending" => decision[r] = "approval_required"
  /\ \A q \in Requests : pc[q] = "create_approval" => decision[job[q]] = "approval_required"
  /\ \A q \in Requests : pc[q] \notin BeforeResolving => approval[job[q]] # "pending"

LEMMA QueueStep == GateInv /\ QueueInv /\ [Next]_vars => QueueInv'
<1> SUFFICES ASSUME GateInv, QueueInv, [Next]_vars PROVE QueueInv'
  OBVIOUS
<1> USE DEF GateInv, TypeOK, JobInv, CreationInv, Creating, QueueInv, PendingApprovalsHoldTheirRun,
            BeforeResolving, Goto, Snapshot, SetStatus, Resolve, runVars, planVars, reqVars
<1>0. \A q \in Requests : pc[q] \notin BeforeResolving => status[job[q]] # "absent"
  BY DEF StageInv
<1>1. ASSUME NEW q \in Requests, ExecuteAction(q) PROVE QueueInv'
  <2>1. CASE Propose(q)
    BY <2>1 DEF Propose
  <2>2. CASE CreateApproval(q)
    BY <1>0, <2>2 DEF CreateApproval
  <2>3. CASE CreateRun(q)
    BY <1>0, <2>3 DEF CreateRun, InitialStatus, ContinueStage, SandboxEntry
  <2> QED BY <1>1, <2>1, <2>2, <2>3 DEF ExecuteAction
<1>2. ASSUME NEW q \in Requests, RunInsideE2B(q) PROVE QueueInv'
  BY <1>2 DEF RunInsideE2B, ReadE2BKey, HoldForSandbox, ReserveSandboxRun,
              CheckSandboxQuota, StartSandboxRun, RunInSandbox, RecordResult,
              FinishRun, CatchStoreError
<1>3. ASSUME NEW q \in Requests, MarkExecutionSkipped(q) \/ MarkExternalRunnerRequired(q)
      PROVE QueueInv'
  BY <1>3 DEF MarkExecutionSkipped, MarkExternalRunnerRequired
<1>4. ASSUME NEW q \in Requests, ApproveRun(q) PROVE QueueInv'
  <2>1. CASE Approve(q)
    BY <2>1 DEF Approve, ContinueStage, SandboxEntry
  <2>2. CASE ResolveApproved(q)
    BY <2>2 DEF ResolveApproved
  <2>3. CASE WriteApproved(q) \/ RereadApproved(q)
    BY <2>3 DEF WriteApproved, RereadApproved, ContinueStage, SandboxEntry
  <2> QED BY <1>4, <2>1, <2>2, <2>3 DEF ApproveRun
<1>5. ASSUME NEW q \in Requests, RejectRun(q) PROVE QueueInv'
  BY SMTT(60), <1>5 DEF RejectRun, Reject, ResolveRejected, WriteRejected
<1>6. ASSUME NEW q \in Requests, ContinueFromRunner(q) PROVE QueueInv'
  <2>1. CASE ContinueRun(q)
    BY <2>1 DEF ContinueRun, ContinueRequestStage, CanReportExecution
  <2>2. CASE CreateCheckpoint(q) \/ RecordReport(q) \/ FinishReport(q) \/ TouchRun(q)
    BY <2>2 DEF CreateCheckpoint, RecordReport, FinishReport, TouchRun
  <2> QED BY <1>6, <2>1, <2>2 DEF ContinueFromRunner
<1>7. ASSUME NEW q \in Requests, ResolveUnlinked(q) \/ ResolveOnly(q) \/ Crash(q)
      PROVE QueueInv'
  BY <1>7 DEF ResolveUnlinked, ResolveOnly, Crash
<1>8. CASE ReapStuckRuns \/ ExpireApprovals
  BY <1>8 DEF ReapStuckRuns, ExpireApprovals
<1>9. ASSUME UNCHANGED <<status, decision, approval, pc, job>> PROVE QueueInv'
  BY <1>9
<1> QED
  BY <1>1, <1>2, <1>3, <1>4, <1>5, <1>6, <1>7, <1>8, <1>9
  DEF Next, Handler, Age, ChangeE2BKey, vars

LEMMA QueueInvInit == Init => QueueInv
BY DEF Init, QueueInv, PendingApprovalsHoldTheirRun, BeforeResolving

(* Whoever decides, however decisions race, expire or die half-way: an     *)
(* open approval belongs to a run that still waits, or is not there yet.   *)
(* It is what lets a page built from two separate reads offer only what    *)
(* is open.                                                                *)
THEOREM QueueSafety == Spec => []PendingApprovalsHoldTheirRun
<1>1. QueueInv => PendingApprovalsHoldTheirRun
  BY DEF QueueInv
<1> QED
  BY <1>1, QueueInvInit, GateInvariant, QueueStep, PTL DEF Spec

-----------------------------------------------------------------------------
(* Rejections.                                                             *)

(* A handler that goes on past its snapshot did not read "rejected".       *)
SeenInv ==
  \A q \in Requests :
    pc[q] \notin {"idle", "done", "write_rejected", "touch"} => seen[q] # "rejected"

LEMMA SeenStep == GateInv /\ SeenInv /\ [Next]_vars => SeenInv'
<1> SUFFICES ASSUME GateInv, SeenInv, [Next]_vars PROVE SeenInv'
  OBVIOUS
<1> USE DEF GateInv, TypeOK, JobInv, SeenInv, Goto, Snapshot, reqVars
<1>1. ASSUME NEW q \in Requests, ExecuteAction(q) PROVE SeenInv'
  BY <1>1 DEF ExecuteAction, Propose, CreateApproval, CreateRun, InitialStatus, Decisions
<1>2. ASSUME NEW q \in Requests, RunInsideE2B(q) PROVE SeenInv'
  BY <1>2 DEF RunInsideE2B, ReadE2BKey, HoldForSandbox, ReserveSandboxRun,
              CheckSandboxQuota, StartSandboxRun, RunInSandbox, RecordResult,
              FinishRun, CatchStoreError
<1>3. ASSUME NEW q \in Requests, MarkExecutionSkipped(q) \/ MarkExternalRunnerRequired(q)
      PROVE SeenInv'
  BY <1>3 DEF MarkExecutionSkipped, MarkExternalRunnerRequired
<1>4. ASSUME NEW q \in Requests, ApproveRun(q) PROVE SeenInv'
  BY <1>4 DEF ApproveRun, Approve, ResolveApproved, WriteApproved, RereadApproved, ContinueStage
<1>5. ASSUME NEW q \in Requests, RejectRun(q) PROVE SeenInv'
  BY <1>5 DEF RejectRun, Reject, ResolveRejected, WriteRejected
<1>6. ASSUME NEW q \in Requests, ContinueFromRunner(q) PROVE SeenInv'
  BY <1>6 DEF ContinueFromRunner, ContinueRun, ContinueRequestStage, CanReportExecution,
              CreateCheckpoint, RecordReport, FinishReport, TouchRun
<1>7. ASSUME NEW q \in Requests, ResolveUnlinked(q) \/ ResolveOnly(q) \/ Crash(q)
      PROVE SeenInv'
  BY <1>7 DEF ResolveUnlinked, ResolveOnly, Crash
<1>8. ASSUME UNCHANGED reqVars PROVE SeenInv'
  BY <1>8
<1> QED
  BY <1>1, <1>2, <1>3, <1>4, <1>5, <1>6, <1>7, <1>8
  DEF Next, Handler, Age, ReapStuckRuns, ExpireApprovals, ChangeE2BKey, vars

LEMMA RejectionStep ==
  ASSUME GateInv, SeenInv, [Next]_vars,
         NEW r \in Runs, status[r] = "rejected", status'[r] # "rejected"
  PROVE  \E q \in Requests : job[q] = r /\ seen[q] # "rejected" /\ pc[q] # pc'[q]
<1> USE DEF GateInv, TypeOK, JobInv, SeenInv, CreationInv, Creating, Goto, Snapshot, SetStatus
<1>1. ASSUME NEW q \in Requests, Handler(q) PROVE job[q] = r /\ seen[q] # "rejected" /\ pc[q] # pc'[q]
  <2>1. CASE ExecuteAction(q)
    BY <2>1 DEF ExecuteAction, Propose, CreateApproval, CreateRun, runVars
  <2>2. CASE RunInsideE2B(q)
    BY <2>2 DEF RunInsideE2B, ReadE2BKey, HoldForSandbox, ReserveSandboxRun,
                CheckSandboxQuota, StartSandboxRun, RunInSandbox, RecordResult,
                FinishRun, CatchStoreError, runVars
  <2>3. CASE MarkExecutionSkipped(q) \/ MarkExternalRunnerRequired(q)
    BY <2>3 DEF MarkExecutionSkipped, MarkExternalRunnerRequired
  <2>4. CASE ApproveRun(q)
    BY <2>4 DEF ApproveRun, Approve, ResolveApproved, WriteApproved, RereadApproved, runVars
  <2>5. CASE RejectRun(q)
    BY <2>5 DEF RejectRun, Reject, ResolveRejected, WriteRejected, runVars
  <2>6. CASE ContinueFromRunner(q)
    BY <2>6 DEF ContinueFromRunner, ContinueRun, CreateCheckpoint, RecordReport,
                FinishReport, TouchRun, runVars
  <2>7. CASE ResolveUnlinked(q) \/ ResolveOnly(q) \/ Crash(q)
    BY <2>7 DEF ResolveUnlinked, ResolveOnly, Crash, runVars
  <2> QED BY <1>1, <2>1, <2>2, <2>3, <2>4, <2>5, <2>6, <2>7 DEF Handler
<1>2. ASSUME UNCHANGED status PROVE FALSE
  BY <1>2
<1>3. ASSUME ReapStuckRuns PROVE FALSE
  BY <1>3 DEF ReapStuckRuns
<1> QED
  BY <1>1, <1>2, <1>3 DEF Next, Age, ExpireApprovals, ChangeE2BKey, vars, runVars

(* Only a handler that read the run before it was rejected can move a      *)
(* rejected run on.                                                        *)
THEOREM RejectionSafety == Spec => RejectionStands
<1>1. Init => SeenInv
  BY DEF Init, SeenInv
<1>2. Spec => [](GateInv /\ SeenInv)
  BY <1>1, GateInit, GateStep, SeenStep, PTL DEF Spec
<1>3. GateInv /\ SeenInv /\ [Next]_vars =>
        [\A r \in Runs : status[r] = "rejected" /\ status'[r] # "rejected" =>
           \E q \in Requests : job[q] = r /\ seen[q] # "rejected" /\ pc[q] # pc'[q]]_vars
  BY RejectionStep
<1> QED
  BY <1>2, <1>3, PTL DEF Spec, RejectionStands

-----------------------------------------------------------------------------
(* The refinement: the handlers implement ExecutionGate.                   *)

GateUnchanged ==
  /\ decision' = decision
  /\ \A r \in Runs : "approval_approved" \in trail'[r] <=> "approval_approved" \in trail[r]
  /\ \A r \in Runs : (Executed(r)' <=> Executed(r))

LEMMA GateStutter == GateUnchanged => UNCHANGED <<verdict, {r \in Runs : Executed(r)}>>
BY DEF GateUnchanged, verdict, Verdict, Cleared

LEMMA VerdictUpdate ==
  ASSUME NEW r \in Runs, NEW v, Verdict(r)' = v,
         \A s \in Runs \ {r} : Verdict(s)' = Verdict(s)
  PROVE  verdict' = [verdict EXCEPT ![r] = v]
<1>1. verdict = [s \in Runs |-> Verdict(s)] /\ verdict' = [s \in Runs |-> Verdict(s)']
  BY DEF verdict
<1>2. \A s \in Runs : Verdict(s)' = IF s = r THEN v ELSE Verdict(s)
  OBVIOUS
<1> QED BY <1>1, <1>2

(* Stages that give a cleared run its execution result.                    *)
LEMMA GateEffect ==
  ASSUME NEW r \in Runs, Cleared(r), decision' = decision, trail' = trail,
         \A s \in Runs \ {r} : Executed(s)' = Executed(s),
         Executed(r)' \/ Executed(r)' = Executed(r)
  PROVE  [Gate!Next]_<<verdict, {s \in Runs : Executed(s)}>>
<1>1. verdict' = verdict /\ verdict[r] = "open"
  BY DEF verdict, Verdict, Cleared
<1>2. CASE Executed(r)'
  <2>1. {s \in Runs : Executed(s)}' = {s \in Runs : Executed(s)} \cup {r}
    BY <1>2
  <2> QED BY <1>1, <2>1 DEF Gate!Next, Gate!TakeEffect
<1>3. CASE Executed(r)' = Executed(r)
  BY <1>1, <1>3
<1> QED BY <1>2, <1>3

LEMMA GateHandlerStep ==
  ASSUME GateInv, GateInv', NEW q \in Requests, Handler(q)
  PROVE  [Gate!Next]_<<verdict, {r \in Runs : Executed(r)}>>
<1> USE DEF GateInv, TypeOK, JobInv, CreationInv, StageInv, Goto, Snapshot, runVars, planVars
<1>1. CASE Propose(q)
  <2> PICK r \in Runs, a \in Actions, d \in Decisions : Propose(q)!2!(r, a, d)
    BY <1>1 DEF Propose
  <2>1. {s \in Runs : Executed(s)}' = {s \in Runs : Executed(s)}
    BY <1>1 DEF Propose, Executed
  <2>2. verdict[r] = "none"
    BY DEF verdict, Verdict
  <2>3. \E v \in {"blocked", "held", "open"} : verdict' = [verdict EXCEPT ![r] = v]
    <3> DEFINE v == Verdict(r)'
    <3>1. v \in {"blocked", "held", "open"}
      BY DEF verdict, Verdict, Cleared, Decisions
    <3>2. trail' = trail
      BY <1>1 DEF Propose
    <3>3. \A s \in Runs \ {r} : Verdict(s)' = Verdict(s)
      BY <3>2 DEF Verdict, Cleared
    <3>4. verdict' = [verdict EXCEPT ![r] = v]
      BY <3>3, VerdictUpdate
    <3> QED BY <3>1, <3>4
  <2> QED BY <2>1, <2>2, <2>3 DEF Gate!Next, Gate!Decide
<1>2. CASE CreateApproval(q) \/ CreateRun(q)
  BY <1>2, GateStutter DEF CreateApproval, CreateRun, GateUnchanged, Executed
<1>3. CASE RunInSandbox(q)
  <2> PICK r \in Runs : r = job[q]
    BY <1>3 DEF RunInSandbox
  <2>1. Cleared(r)
    BY <1>3 DEF RunInSandbox, OpenStages, SandboxStages
  <2>2. /\ decision' = decision /\ trail' = trail
        /\ \A s \in Runs \ {r} : Executed(s)' = Executed(s)
        /\ Executed(r)' \/ Executed(r)' = Executed(r)
    BY <1>3 DEF RunInSandbox, Executed
  <2> QED BY <2>1, <2>2, GateEffect
<1>4. CASE RecordResult(q) \/ RecordReport(q)
  <2> PICK r \in Runs : r = job[q]
    BY <1>4 DEF RecordResult, RecordReport
  <2>1. Cleared(r)
    BY <1>4 DEF RecordResult, RecordReport, OpenStages, SandboxStages
  <2>2. /\ decision' = decision /\ trail' = trail
        /\ \A s \in Runs \ {r} : Executed(s)' = Executed(s)
        /\ Executed(r)'
    BY <1>4 DEF RecordResult, RecordReport, ResultStages, Executed
  <2> QED BY <2>1, <2>2, GateEffect
<1>5. CASE WriteApproved(q)
  <2> PICK r \in Runs : r = job[q]
    BY <1>5 DEF WriteApproved
  <2>1. decision[r] = "approval_required"
    BY <1>5 DEF WriteApproved
  <2>2. {s \in Runs : Executed(s)}' = {s \in Runs : Executed(s)}
    BY <1>5 DEF WriteApproved, Executed
  <2>3. /\ decision' = decision /\ "approval_approved" \in trail'[r]
        /\ \A s \in Runs \ {r} : trail'[s] = trail[s]
    BY <1>5, <2>1 DEF WriteApproved, AddEvent
  <2>4. verdict' = [verdict EXCEPT ![r] = "open"]
    <3>1. \A s \in Runs \ {r} : Verdict(s)' = Verdict(s)
      BY <2>3 DEF Verdict, Cleared
    <3>2. Verdict(r)' = "open"
      BY <2>1, <2>3 DEF Verdict, Cleared
    <3> QED BY <3>1, <3>2, VerdictUpdate
  <2>5. verdict[r] = "held" \/ verdict' = verdict
    <3>1. CASE "approval_approved" \in trail[r]
      <4>1. GateUnchanged
        BY <1>5, <2>3, <3>1 DEF WriteApproved, GateUnchanged, Executed
      <4> QED BY <4>1, GateStutter
    <3>2. CASE "approval_approved" \notin trail[r]
      BY <2>1, <3>2 DEF verdict, Verdict, Cleared
    <3> QED BY <3>1, <3>2
  <2> QED BY <2>1, <2>2, <2>4, <2>5 DEF Gate!Next, Gate!Release
<1>6. CASE StartSandboxRun(q) \/ WriteRejected(q)
  <2>1. GateUnchanged
    BY <1>6 DEF StartSandboxRun, WriteRejected, AddEvent, GateUnchanged, Executed
  <2> QED BY <2>1, GateStutter
<1>7. ASSUME decision' = decision, trail' = trail, ran' = ran, receipt' = receipt
      PROVE [Gate!Next]_<<verdict, {r \in Runs : Executed(r)}>>
  BY <1>7, GateStutter DEF GateUnchanged, Executed
<1> QED
  BY <1>1, <1>2, <1>3, <1>4, <1>5, <1>6, <1>7
  DEF Handler, ExecuteAction, RunInsideE2B, ApproveRun, RejectRun, ContinueFromRunner,
      ReadE2BKey, HoldForSandbox, ReserveSandboxRun, CheckSandboxQuota, FinishRun,
      CatchStoreError, MarkExecutionSkipped, MarkExternalRunnerRequired, Approve,
      ResolveApproved, RereadApproved, Reject, ResolveRejected, ContinueRun,
      CreateCheckpoint, FinishReport, TouchRun, ResolveUnlinked, ResolveOnly, Crash

(* Handlers, jobs and crashes implement the gate: one verdict per action,  *)
(* a held one opened only by an approval, effects only while it is open.   *)
THEOREM GateRefinement == Spec => GateRefined
<1>1. Init => Gate!Init
  BY DEF Init, Gate!Init, verdict, Verdict, Executed
<1>2. GateInv /\ GateInv' /\ [Next]_vars => [Gate!Next]_<<verdict, {r \in Runs : Executed(r)}>>
  <2> SUFFICES ASSUME GateInv, GateInv', [Next]_vars
               PROVE  [Gate!Next]_<<verdict, {r \in Runs : Executed(r)}>>
    OBVIOUS
  <2>1. ASSUME decision' = decision, trail' = trail, ran' = ran, receipt' = receipt
        PROVE [Gate!Next]_<<verdict, {r \in Runs : Executed(r)}>>
    BY <2>1, GateStutter DEF GateUnchanged, Executed
  <2> QED
    BY <2>1, GateHandlerStep
    DEF Next, Age, ReapStuckRuns, ExpireApprovals, ChangeE2BKey, vars, planVars
<1> QED
  BY <1>1, <1>2, GateInvariant, PTL DEF Spec, GateRefined, Gate!Spec, Gate!gateVars

-----------------------------------------------------------------------------
(* The sandbox quota.  The increment and the comparison are two statements *)
(* with anything in between; the argument is that the counter never runs   *)
(* behind the requests that hold a reservation, and that a request is      *)
(* admitted only while the counter is below the limit.                     *)

Commands == UNION {ran[r] : r \in Runs}
Reserved == Commands \cup {q \in Requests : pc[q] \in {"check_quota", "start", "execute"}}
Admitted == Commands \cup {q \in Requests : pc[q] \in {"start", "execute"}}

QuotaInv ==
  /\ IsFiniteSet(Reserved) /\ Cardinality(Reserved) <= used
  /\ Admitted # {} => Cardinality(Admitted) < SandboxLimit

(* What leaves the counter alone and admits nobody keeps the quota.        *)
LEMMA QuotaShrinks ==
  ASSUME QuotaInv, used \in Nat, used' = used, Reserved' \subseteq Reserved, Admitted' \subseteq Admitted
  PROVE  QuotaInv'
<1> USE LimitAssumption
<1>1. IsFiniteSet(Reserved) /\ Admitted \subseteq Reserved
  BY DEF QuotaInv, Reserved, Admitted
<1>2. IsFiniteSet(Reserved') /\ Cardinality(Reserved') <= Cardinality(Reserved)
  BY <1>1, FS_Subset
<1>3. IsFiniteSet(Admitted) /\ Cardinality(Admitted') <= Cardinality(Admitted)
  BY <1>1, FS_Subset
<1>4. /\ Cardinality(Reserved) \in Nat /\ Cardinality(Reserved') \in Nat
      /\ Cardinality(Admitted) \in Nat /\ Cardinality(Admitted') \in Nat
  BY <1>1, <1>2, <1>3, FS_CardinalityType, FS_Subset
<1>5. Cardinality(Reserved') <= used'
  BY <1>2, <1>4 DEF QuotaInv
<1>6. Admitted' # {} => Cardinality(Admitted') < SandboxLimit
  BY <1>3, <1>4 DEF QuotaInv
<1> QED BY <1>2, <1>5, <1>6 DEF QuotaInv

LEMMA QuotaStep == TypeOK /\ JobInv /\ QuotaInv /\ [Next]_vars => QuotaInv'
<1> SUFFICES ASSUME TypeOK, JobInv, QuotaInv, [Next]_vars PROVE QuotaInv'
  OBVIOUS
<1> USE DEF TypeOK, JobInv
<1>1. ASSUME NEW q \in Requests, ReserveSandboxRun(q) PROVE QuotaInv'
  <2>1. /\ Reserved' = Reserved \cup {q} /\ Admitted' = Admitted /\ used' = used + 1
    BY <1>1 DEF ReserveSandboxRun, Goto, Reserved, Admitted, Commands
  <2>2. /\ IsFiniteSet(Reserved') /\ Cardinality(Reserved) \in Nat
        /\ Cardinality(Reserved') <= Cardinality(Reserved) + 1
    <3>1. IsFiniteSet(Reserved) /\ Cardinality(Reserved) \in Nat
      BY FS_CardinalityType DEF QuotaInv
    <3>2. /\ IsFiniteSet(Reserved \cup {q})
          /\ \/ Cardinality(Reserved \cup {q}) = Cardinality(Reserved)
             \/ Cardinality(Reserved \cup {q}) = Cardinality(Reserved) + 1
      BY <3>1, FS_AddElement
    <3> QED BY <2>1, <3>1, <3>2
  <2>3. Cardinality(Reserved') \in Nat
    BY <2>2, FS_CardinalityType
  <2> QED BY <2>1, <2>2, <2>3 DEF QuotaInv
<1>2. ASSUME NEW q \in Requests, CheckSandboxQuota(q) PROVE QuotaInv'
  <2>1. CASE SandboxRunLimitExceeded
    <3>1. used' = used /\ Reserved' \subseteq Reserved /\ Admitted' \subseteq Admitted
      BY <1>2, <2>1 DEF CheckSandboxQuota, Goto, Reserved, Admitted, Commands, boxVars
    <3> QED BY <3>1, QuotaShrinks
  <2>2. CASE ~SandboxRunLimitExceeded
    <3>1. used' = used /\ Reserved' = Reserved /\ Admitted' \subseteq Reserved
      BY <1>2, <2>2 DEF CheckSandboxQuota, Goto, Reserved, Admitted, Commands, boxVars
    <3>2. IsFiniteSet(Reserved) /\ Cardinality(Reserved) < SandboxLimit
      <4>1. Cardinality(Reserved) \in Nat
        BY FS_CardinalityType DEF QuotaInv
      <4> QED BY <2>2, <4>1, LimitAssumption DEF QuotaInv, SandboxRunLimitExceeded
    <3>3. IsFiniteSet(Admitted') /\ Cardinality(Admitted') <= Cardinality(Reserved)
      BY <3>1, <3>2, FS_Subset
    <3>4. Cardinality(Admitted') \in Nat /\ Cardinality(Reserved) \in Nat
      BY <3>2, <3>3, FS_CardinalityType
    <3>5. Cardinality(Admitted') < SandboxLimit
      BY <3>2, <3>3, <3>4, LimitAssumption
    <3> QED BY <3>1, <3>5 DEF QuotaInv
  <2> QED BY <2>1, <2>2
<1>3. ASSUME NEW q \in Requests, RunInSandbox(q) PROVE QuotaInv'
  <2>1. Commands' \subseteq Commands \cup {q} /\ pc[q] = "execute"
    BY <1>3 DEF RunInSandbox, Commands
  <2>2. used' = used /\ Reserved' \subseteq Reserved /\ Admitted' \subseteq Admitted
    BY <1>3, <2>1 DEF RunInSandbox, Goto, Reserved, Admitted, boxVars
  <2> QED BY <2>2, QuotaShrinks
<1>4. ASSUME used' = used, ran' = ran, pc' = pc PROVE QuotaInv'
  <2>1. Reserved' = Reserved /\ Admitted' = Admitted
    BY <1>4 DEF Reserved, Admitted, Commands
  <2> QED BY <1>4, <2>1, QuotaShrinks
<1>5. ASSUME NEW q \in Requests, NEW stage, Goto(q, stage), used' = used, ran' = ran,
             \/ stage \notin {"check_quota", "start", "execute"}
             \/ stage = "execute" /\ pc[q] = "start"
      PROVE  QuotaInv'
  <2>1. Reserved' \subseteq Reserved /\ Admitted' \subseteq Admitted
    BY <1>5 DEF Goto, Reserved, Admitted, Commands
  <2> QED BY <1>5, <2>1, QuotaShrinks
<1>6. ASSUME NEW q \in Requests, Handler(q) PROVE QuotaInv'
  <2> USE DEF boxVars, Snapshot
  <2>1. CASE ExecuteAction(q)
    BY <1>5, <2>1 DEF ExecuteAction, Propose, CreateApproval, CreateRun, ContinueStage, SandboxEntry
  <2>2. CASE RunInsideE2B(q)
    BY <1>1, <1>2, <1>3, <1>5, <2>2 DEF RunInsideE2B, ReadE2BKey, HoldForSandbox,
       StartSandboxRun, RecordResult, FinishRun, CatchStoreError
  <2>3. CASE MarkExecutionSkipped(q) \/ MarkExternalRunnerRequired(q)
    BY <1>5, <2>3 DEF MarkExecutionSkipped, MarkExternalRunnerRequired
  <2>4. CASE ApproveRun(q)
    BY <1>5, <2>4 DEF ApproveRun, Approve, ResolveApproved, WriteApproved, RereadApproved,
       ContinueStage, SandboxEntry
  <2>5. CASE RejectRun(q)
    BY <1>5, <2>5 DEF RejectRun, Reject, ResolveRejected, WriteRejected
  <2>6. CASE ContinueFromRunner(q)
    BY <1>5, <2>6 DEF ContinueFromRunner, ContinueRun, ContinueRequestStage,
       CreateCheckpoint, RecordReport, FinishReport, TouchRun
  <2>7. CASE ResolveUnlinked(q) \/ ResolveOnly(q) \/ Crash(q)
    BY <1>5, <2>7 DEF ResolveUnlinked, ResolveOnly, Crash
  <2> QED BY <1>6, <2>1, <2>2, <2>3, <2>4, <2>5, <2>6, <2>7 DEF Handler
<1> QED
  BY <1>4, <1>6 DEF Next, Age, ReapStuckRuns, ExpireApprovals, ChangeE2BKey, vars, boxVars, reqVars

(* The number of commands the sandbox ever runs for a key stays below its  *)
(* limit, whatever interleaves with the increment and the comparison.      *)
THEOREM QuotaSafety == Spec => []SandboxQuota
<1>1. Init => QuotaInv
  BY FS_EmptySet, LimitAssumption DEF Init, QuotaInv, Reserved, Admitted, Commands
<1>2. TypeOK /\ QuotaInv => SandboxQuota
  <2> SUFFICES ASSUME TypeOK, QuotaInv, Commands # {} PROVE Cardinality(Commands) < SandboxLimit
    BY DEF SandboxQuota, Commands
  <2>1. Commands \subseteq Admitted /\ Admitted \subseteq Reserved
    BY DEF Admitted, Reserved
  <2>2. IsFiniteSet(Admitted) /\ IsFiniteSet(Commands) /\ Cardinality(Commands) <= Cardinality(Admitted)
    BY <2>1, FS_Subset DEF QuotaInv
  <2>3. Cardinality(Commands) \in Nat /\ Cardinality(Admitted) \in Nat
    BY <2>2, FS_CardinalityType
  <2> QED BY <2>1, <2>2, <2>3, LimitAssumption DEF QuotaInv
<1>3. Spec => [](TypeOK /\ JobInv /\ QuotaInv)
  BY <1>1, TypeInit, TypeStep, QuotaStep, PTL DEF Spec
<1> QED BY <1>2, <1>3, PTL
=============================================================================
