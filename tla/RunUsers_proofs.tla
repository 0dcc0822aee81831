-------------------------- MODULE RunUsers_proofs --------------------------
(***************************************************************************)
(* Those who stand in front of the run lifecycle, for any number of        *)
(* requests and runs: the agent that proposes, polls and reports (SdkRun), *)
(* and the people with their buttons (ApprovalQueue).                      *)
(***************************************************************************)
EXTENDS MCRunUsers, ActionRuns_proofs

(* A page's requests are decisions: they are on their way to write the     *)
(* status, or it is written, or nobody will answer.                        *)
OnTheWay == {"resolve_approved", "write_approved", "resolve_rejected", "write_rejected"}
NoDecision == {"idle", "create_approval", "create_run", "resolve_only", "touch"}

AwaitedInv ==
  \A t \in Tabs, r \in Runs :
    LET q == button[t][r].request
    IN  q # NoAction =>
          /\ job[q] = r /\ pc[q] \notin NoDecision
          /\ pc[q] \in OnTheWay \/ Decided(r) \/ q \in died

(* What was decided when a load began still is, and stays off the page.    *)
LoadInv ==
  \A t \in Tabs :
    /\ \A r \in decided[t] : Decided(r)
    /\ load[t] \in {"none", "approvals"} =>
         (IF load[t] = "none" THEN offered[t] ELSE listed[t]) \cap decided[t] = {}

(* A click that was answered well is behind the load that followed it.     *)
ResultInv ==
  \A t \in Tabs, r \in Runs :
    LET b == button[t][r]
    IN  /\ b.result = "ok" => r \in decided[t]
        /\ b.result = "refused" => b.error \/ screen[t] = "runs"
        /\ b.result = "lost" => b.error \/ screen[t] \in {"runs", "run"}

ServerInv == GateInv /\ QueueInv

PagesInv == QueueTypeOK /\ AwaitedInv /\ LoadInv /\ ResultInv

-----------------------------------------------------------------------------
(* What the server does meanwhile.                                         *)

(* A decision is never taken back into waiting.                            *)
LEMMA DecidedStays ==
  ASSUME GateInv, [Next]_vars, NEW r \in Runs, Decided(r) PROVE Decided(r)'
<1> USE DEF GateInv, TypeOK, JobInv, CreationInv, Creating, ResultStages, Decided, SetStatus, runVars, Statuses
<1>1. ASSUME NEW q \in Requests, ExecuteAction(q) PROVE Decided(r)'
  BY <1>1 DEF ExecuteAction, Propose, CreateApproval, CreateRun
<1>2. ASSUME NEW q \in Requests, RunInsideE2B(q) PROVE Decided(r)'
  BY <1>2 DEF RunInsideE2B, ReadE2BKey, HoldForSandbox, ReserveSandboxRun,
              CheckSandboxQuota, StartSandboxRun, RunInSandbox, RecordResult,
              FinishRun, CatchStoreError
<1>3. ASSUME NEW q \in Requests, MarkExecutionSkipped(q) \/ MarkExternalRunnerRequired(q)
      PROVE Decided(r)'
  BY <1>3 DEF MarkExecutionSkipped, MarkExternalRunnerRequired
<1>4. ASSUME NEW q \in Requests, ApproveRun(q) \/ RejectRun(q) PROVE Decided(r)'
  BY <1>4 DEF ApproveRun, Approve, ResolveApproved, WriteApproved, RereadApproved,
              RejectRun, Reject, ResolveRejected, WriteRejected
<1>5. ASSUME NEW q \in Requests, ContinueFromRunner(q) PROVE Decided(r)'
  BY <1>5 DEF ContinueFromRunner, ContinueRun, CreateCheckpoint, RecordReport, FinishReport, TouchRun
<1>6. CASE ReapStuckRuns
  BY <1>6 DEF ReapStuckRuns
<1>7. CASE UNCHANGED status
  BY <1>7
<1> QED
  BY <1>1, <1>2, <1>3, <1>4, <1>5, <1>6, <1>7
  DEF Next, Handler, ResolveUnlinked, ResolveOnly, Crash, Age, ExpireApprovals, ChangeE2BKey, vars

(* A handler keeps its run, and one that decides goes on to decide.        *)
LEMMA HandlerGoesOn ==
  ASSUME GateInv, [Next]_vars, NEW q \in Requests, pc[q] \notin NoDecision
  PROVE  /\ job'[q] = job[q] /\ pc'[q] \notin NoDecision
         /\ pc[q] \in OnTheWay => pc'[q] \in OnTheWay \/ Decided(job[q])' \/ Crash(q)
         /\ pc[q] = "done" => pc'[q] = "done"
<1> DEFINE Goal == /\ job'[q] = job[q] /\ pc'[q] \notin NoDecision
                   /\ pc[q] \in OnTheWay => pc'[q] \in OnTheWay \/ Decided(job[q])' \/ Crash(q)
                   /\ pc[q] = "done" => pc'[q] = "done"
<1> USE DEF GateInv, TypeOK, JobInv, NoDecision, OnTheWay, Decided, SetStatus, Goto, Snapshot, reqVars
<1>1. ASSUME NEW p \in Requests, ExecuteAction(p) PROVE Goal
  BY <1>1 DEF ExecuteAction, Propose, CreateApproval, CreateRun
<1>2. ASSUME NEW p \in Requests, RunInsideE2B(p) PROVE Goal
  BY <1>2 DEF RunInsideE2B, ReadE2BKey, HoldForSandbox, ReserveSandboxRun,
              CheckSandboxQuota, StartSandboxRun, RunInSandbox, RecordResult,
              FinishRun, CatchStoreError
<1>3. ASSUME NEW p \in Requests, MarkExecutionSkipped(p) \/ MarkExternalRunnerRequired(p)
      PROVE Goal
  BY <1>3 DEF MarkExecutionSkipped, MarkExternalRunnerRequired
<1>4. ASSUME NEW p \in Requests, ApproveRun(p) PROVE Goal
  BY <1>4 DEF ApproveRun, Approve, ResolveApproved, WriteApproved, RereadApproved,
              ContinueStage, SandboxEntry
<1>5. ASSUME NEW p \in Requests, RejectRun(p) PROVE Goal
  BY <1>5 DEF RejectRun, Reject, ResolveRejected, WriteRejected
<1>6. ASSUME NEW p \in Requests, ContinueFromRunner(p) PROVE Goal
  BY <1>6 DEF ContinueFromRunner, ContinueRun, ContinueRequestStage, CreateCheckpoint,
              RecordReport, FinishReport, TouchRun
<1>7. ASSUME NEW p \in Requests, ResolveUnlinked(p) \/ ResolveOnly(p) PROVE Goal
  BY <1>7 DEF ResolveUnlinked, ResolveOnly
<1>8. ASSUME NEW p \in Requests, Crash(p) PROVE Goal
  <2>1. CASE p = q
    <3>1. /\ job' = job /\ pc'[q] = "done"
      BY <1>8, <2>1 DEF Crash
    <3> QED BY <1>8, <2>1, <3>1
  <2>2. CASE p # q
    <3>1. job' = job /\ pc'[q] = pc[q]
      BY <1>8, <2>2 DEF Crash
    <3> QED BY <3>1
  <2> QED BY <2>1, <2>2
<1>9. CASE UNCHANGED reqVars
  BY <1>9
<1> QED
  BY <1>1, <1>2, <1>3, <1>4, <1>5, <1>6, <1>7, <1>8, <1>9
  DEF Next, Handler, Age, ReapStuckRuns, ExpireApprovals, ChangeE2BKey, vars
-----------------------------------------------------------------------------
(* What a page does.                                                       *)

(* A click's request is a step of the server's.                            *)
LEMMA ArriveServes ==
  ASSUME NEW t \in Tabs, NEW r \in Runs, NEW q \in Requests, Arrive(t, r, q)
  PROVE  Next
<1>1. Approve(q) \/ Reject(q)
  BY DEF Arrive
<1> QED BY <1>1 DEF Next, Handler, ApproveRun, RejectRun

LEMMA QueueServes == QueueNext => [Next]_vars
<1> SUFFICES ASSUME QueueNext PROVE [Next]_vars
  OBVIOUS
<1>1. ASSUME NEW t \in Tabs, OpenPage(t) \/ ReadApprovals(t) \/ ReadRuns(t) \/ ReadStatuses(t)
      PROVE  UNCHANGED vars
  BY <1>1 DEF OpenPage, ReadApprovals, ReadRuns, ReadStatuses
<1>2. ASSUME NEW t \in Tabs, NEW r \in Runs,
             Click(t, r) \/ Succeed(t, r) \/ Refuse(t, r) \/ LoseAnswer(t, r)
      PROVE  UNCHANGED vars
  BY <1>2 DEF Click, Succeed, Refuse, LoseAnswer, Settle
<1> QED BY <1>1, <1>2, ArriveServes DEF QueueNext, ServeAll

Rec == [busy : {"no", "approve", "reject"}, request : Requests \cup {NoAction},
        result : {"none", "ok", "refused", "lost"}, error : BOOLEAN]

LEMMA FreshIsButton == Fresh \in Rec
BY DEF Fresh, Rec

LEMMA ServeStep ==
  ASSUME ServerInv, PagesInv, ServeAll PROVE PagesInv'
<1> USE DEF ServeAll, pageVars
<1>1. TypeOK'
  BY TypeStep DEF ServerInv, GateInv
<1>2. QueueTypeOK'
  BY <1>1 DEF PagesInv, QueueTypeOK
<1>3. \A r \in Runs : Decided(r) => Decided(r)'
  BY DecidedStays DEF ServerInv
<1>4. LoadInv' /\ ResultInv'
  BY <1>3 DEF PagesInv, LoadInv, ResultInv, QueueTypeOK
<1>5. AwaitedInv'
  <2> SUFFICES ASSUME NEW t \in Tabs, NEW r \in Runs, button[t][r].request # NoAction
               PROVE  LET q == button[t][r].request
                      IN  /\ job'[q] = r /\ pc'[q] \notin NoDecision
                          /\ pc'[q] \in OnTheWay \/ Decided(r)' \/ q \in died'
    BY DEF AwaitedInv
  <2> DEFINE q == button[t][r].request
  <2>1. q \in Requests
    BY DEF PagesInv, QueueTypeOK
  <2>2. /\ job[q] = r /\ pc[q] \notin NoDecision
        /\ pc[q] \in OnTheWay \/ Decided(r) \/ q \in died
    BY DEF PagesInv, AwaitedInv
  <2> HIDE DEF q
  <2>3. /\ job'[q] = r /\ pc'[q] \notin NoDecision
        /\ pc[q] \in OnTheWay => pc'[q] \in OnTheWay \/ Decided(r)' \/ Crash(q)
    BY <2>1, <2>2, HandlerGoesOn DEF ServerInv
  <2>4. Crash(q) \/ q \in died => q \in died'
    BY <2>1
  <2>5. pc'[q] \in OnTheWay \/ Decided(r)' \/ q \in died'
    BY <1>3, <2>2, <2>3, <2>4
  <2> QED BY <2>3, <2>5 DEF q
<1> QED BY <1>2, <1>4, <1>5 DEF PagesInv

LEMMA OpenStep ==
  ASSUME ServerInv, PagesInv, NEW t \in Tabs, OpenPage(t) PROVE PagesInv'
<1> USE DEF PagesInv, QueueTypeOK, OpenPage, Begin, Fresh
<1>1. TypeOK'
  BY DEF TypeOK, vars
<1>2. QueueTypeOK'
  BY <1>1 DEF Screens
<1>3. AwaitedInv'
  BY DEF AwaitedInv, Decided, vars
<1>4. LoadInv'
  BY DEF LoadInv, Decided, vars
<1>5. ResultInv'
  BY DEF ResultInv
<1> QED BY <1>2, <1>3, <1>4, <1>5

(* The rows a page is rendered from hold nothing that was decided before.  *)
LEMMA RenderStep ==
  ASSUME PagesInv, NEW t \in Tabs, NEW rows \in SUBSET Runs, rows \cap decided[t] = {},
         Render(t, rows), UNCHANGED <<vars, screen, decided, died>>
  PROVE  PagesInv'
<1> USE DEF PagesInv, QueueTypeOK, Render
<1>1. TypeOK'
  BY DEF TypeOK, vars
<1>2. \A u \in Tabs, r \in Runs : button'[u][r] \in {button[u][r], Fresh}
  OBVIOUS
<1>3. button' \in [Tabs -> [Runs -> Rec]]
  BY FreshIsButton DEF Rec
<1>4. QueueTypeOK'
  BY <1>1, <1>3 DEF Rec
<1>5. AwaitedInv'
  BY <1>2 DEF AwaitedInv, Decided, vars, Fresh
<1>6. LoadInv'
  BY DEF LoadInv, Decided, vars
<1>7. ResultInv'
  BY <1>2 DEF ResultInv, Fresh
<1> QED BY <1>4, <1>5, <1>6, <1>7

LEMMA ListStep ==
  ASSUME ServerInv, PagesInv, NEW t \in Tabs, ReadApprovals(t) \/ ReadRuns(t) \/ ReadStatuses(t)
  PROVE  PagesInv'
<1>0. /\ UNCHANGED <<vars, screen, decided, died>>
      /\ \A r \in decided[t] : Decided(r)
  BY DEF ReadApprovals, ReadRuns, ReadStatuses, PagesInv, LoadInv
<1>1. ASSUME NEW rows \in SUBSET Runs, NEW name \in {"approvals", "runs"},
             name = "approvals" => rows \cap decided[t] = {},
             load[t] = "begun", load' = [load EXCEPT ![t] = name],
             listed' = [listed EXCEPT ![t] = rows], UNCHANGED <<offered, button>>
      PROVE  PagesInv'
  <2> USE <1>0, <1>1 DEF PagesInv, QueueTypeOK
  <2>1. TypeOK'
    BY DEF TypeOK, vars
  <2>2. QueueTypeOK'
    BY <2>1
  <2>3. AwaitedInv' /\ ResultInv'
    BY DEF AwaitedInv, ResultInv, Decided, vars
  <2>4. LoadInv'
    BY DEF LoadInv, Decided, vars
  <2> QED BY <2>2, <2>3, <2>4
<1>2. CASE ReadApprovals(t)
  <2>1. PICK rows \in SUBSET {r \in Runs : approval[r] = "pending"} : ReadList(t, "approvals", rows)
    BY <1>2 DEF ReadApprovals
  <2>2. rows \in SUBSET Runs /\ rows \cap decided[t] = {}
    BY <1>0, <2>1 DEF ServerInv, QueueInv, PendingApprovalsHoldTheirRun, Decided
  <2>3. CASE load[t] \notin {"none", "begun", "approvals"} /\ Render(t, listed[t] \cap rows)
    BY <1>0, <2>2, <2>3, RenderStep
  <2> QED BY <1>1, <2>1, <2>2, <2>3 DEF ReadList
<1>3. CASE ReadRuns(t)
  <2>1. PICK rows \in SUBSET {r \in Runs : status[r] # "absent"} : ReadList(t, "runs", rows)
    BY <1>3 DEF ReadRuns
  <2>2. CASE load[t] \notin {"none", "begun", "runs"} /\ Render(t, listed[t] \cap rows)
    <3>1. load[t] = "approvals"
      BY <2>2 DEF PagesInv, QueueTypeOK
    <3>2. listed[t] \cap rows \in SUBSET Runs /\ (listed[t] \cap rows) \cap decided[t] = {}
      BY <2>1, <3>1 DEF PagesInv, LoadInv
    <3> QED BY <1>0, <2>2, <3>2, RenderStep
  <2> QED BY <1>1, <2>1, <2>2 DEF ReadList
<1>4. CASE ReadStatuses(t)
  <2>1. PICK rows \in SUBSET {r \in Runs : status[r] = "waiting_approval"} : Render(t, rows)
    BY <1>4 DEF ReadStatuses
  <2>2. rows \in SUBSET Runs /\ rows \cap decided[t] = {}
    BY <1>0, <2>1 DEF Decided
  <2> QED BY <1>0, <2>1, <2>2, RenderStep
<1> QED BY <1>2, <1>3, <1>4
LEMMA ButtonSet ==
  ASSUME button \in [Tabs -> [Runs -> Rec]], NEW t \in Tabs, NEW r \in Runs, NEW b \in Rec,
         button' = [button EXCEPT ![t][r] = b]
  PROVE  /\ button' \in [Tabs -> [Runs -> Rec]]
         /\ \A u \in Tabs, x \in Runs :
              button'[u][x] = IF u = t /\ x = r THEN b ELSE button[u][x]
<1>1. button' = [u \in Tabs |-> IF u = t THEN [button[t] EXCEPT ![r] = b] ELSE button[u]]
  OBVIOUS
<1> HIDE DEF Rec
<1>2. \A u \in Tabs : button[u] \in [Runs -> Rec]
  OBVIOUS
<1>3. [button[t] EXCEPT ![r] = b] \in [Runs -> Rec]
  BY <1>2
<1> QED BY <1>1, <1>2, <1>3

LEMMA TypedButtons == QueueTypeOK => button \in [Tabs -> [Runs -> Rec]]
BY DEF QueueTypeOK, Rec

LEMMA ClickStep ==
  ASSUME PagesInv, NEW t \in Tabs, NEW r \in Runs, Click(t, r) PROVE PagesInv'
<1>1. UNCHANGED <<vars, screen, offered, load, listed, decided, died>>
  BY DEF Click
<1>2. PICK b \in Rec : /\ button' = [button EXCEPT ![t][r] = b]
                       /\ b.request = NoAction /\ b.result = "none"
  <2>1. PICK verb \in {"approve", "reject"} :
          button' = [button EXCEPT ![t][r] = [Fresh EXCEPT !.busy = verb]]
    BY DEF Click
  <2> DEFINE b == [Fresh EXCEPT !.busy = verb]
  <2>2. b \in Rec /\ b.request = NoAction /\ b.result = "none"
    BY DEF Fresh, Rec
  <2> QED BY <2>1, <2>2
<1>3. /\ button' \in [Tabs -> [Runs -> Rec]]
      /\ \A u \in Tabs, x \in Runs : button'[u][x] = IF u = t /\ x = r THEN b ELSE button[u][x]
  BY <1>2, ButtonSet, TypedButtons DEF PagesInv
<1>4. QueueTypeOK'
  BY <1>1, <1>3 DEF PagesInv, QueueTypeOK, TypeOK, Rec, vars
<1>5. AwaitedInv' /\ ResultInv' /\ LoadInv'
  BY <1>1, <1>2, <1>3 DEF PagesInv, AwaitedInv, ResultInv, LoadInv, Decided, vars
<1> QED BY <1>4, <1>5 DEF PagesInv

(* The request that a click sends reads the run, and decides.              *)
LEMMA ArriveStep ==
  ASSUME ServerInv, PagesInv, NEW t \in Tabs, NEW r \in Runs, NEW q \in Requests, Arrive(t, r, q)
  PROVE  PagesInv'
<1>0. Next
  BY ArriveServes
<1>1. TypeOK /\ TypeOK'
  BY <1>0, TypeStep DEF ServerInv, GateInv
<1>2. /\ Approve(q) \/ Reject(q)
      /\ job'[q] = r
      /\ UNCHANGED <<screen, offered, load, listed, decided, died>>
  BY DEF Arrive
<1>3. PICK b \in Rec : /\ button' = [button EXCEPT ![t][r] = b]
                       /\ b.request = q /\ b.result = button[t][r].result
                       /\ b.error = button[t][r].error
  <2> DEFINE b == [button[t][r] EXCEPT !.request = q]
  <2>1. button[t][r] \in Rec
    BY TypedButtons DEF PagesInv
  <2>2. /\ b \in Rec /\ b.request = q /\ b.result = button[t][r].result
        /\ b.error = button[t][r].error
    BY <2>1 DEF Rec
  <2>3. button' = [button EXCEPT ![t][r] = b]
    BY DEF Arrive
  <2> QED BY <2>2, <2>3
<1>4. /\ button' \in [Tabs -> [Runs -> Rec]]
      /\ \A u \in Tabs, x \in Runs : button'[u][x] = IF u = t /\ x = r THEN b ELSE button[u][x]
  BY <1>3, ButtonSet, TypedButtons DEF PagesInv
<1>5. QueueTypeOK'
  BY <1>1, <1>2, <1>4 DEF PagesInv, QueueTypeOK, Rec
<1>6. pc[q] = "idle" /\ \A x \in Runs : Decided(x) => Decided(x)'
  BY <1>0, <1>2, DecidedStays DEF Approve, Reject, ServerInv
<1>7. LoadInv' /\ ResultInv'
  <2>1. LoadInv'
    BY <1>2, <1>6 DEF PagesInv, QueueTypeOK, LoadInv
  <2>2. \A u \in Tabs, x \in Runs : /\ button'[u][x].result = button[u][x].result
                                    /\ button'[u][x].error = button[u][x].error
    BY <1>3, <1>4
  <2>3. ResultInv'
    BY <1>2, <2>2 DEF PagesInv, ResultInv
  <2> QED BY <2>1, <2>3
<1>8. pc'[q] \notin NoDecision /\ (pc'[q] \in OnTheWay \/ Decided(r)')
  BY <1>1, <1>2 DEF Approve, Reject, Snapshot, Goto, ContinueStage, SandboxEntry, NoDecision,
         OnTheWay, Decided, TypeOK, runVars
<1>9. \A p \in Requests : p # q => pc'[p] = pc[p] /\ job'[p] = job[p]
  BY <1>1, <1>2 DEF Approve, Reject, Snapshot, Goto, TypeOK
<1>10. \A u \in Tabs, x \in Runs :
         button[u][x].request # NoAction => button[u][x].request \in Requests \ {q}
  BY <1>6 DEF PagesInv, QueueTypeOK, AwaitedInv, NoDecision
<1>11. AwaitedInv'
  BY <1>2, <1>3, <1>4, <1>6, <1>8, <1>9, <1>10 DEF PagesInv, AwaitedInv
<1> QED BY <1>5, <1>7, <1>11 DEF PagesInv

(* A click ends: a good answer means that the run is decided by now.       *)
LEMMA SettleStep ==
  ASSUME PagesInv, NEW t \in Tabs, NEW r \in Runs, NEW result \in {"ok", "refused", "lost"},
         Settle(t, r, result), result = "ok" => Decided(r)
  PROVE  PagesInv'
<1>1. UNCHANGED <<vars, screen, offered, died>>
  BY DEF Settle
<1>2. PICK b \in Rec : /\ button' = [button EXCEPT ![t][r] = b]
                       /\ b.request = NoAction /\ b.result = result
                       /\ b.error = Tells(screen[t], result)
  <2> DEFINE b == [Fresh EXCEPT !.result = result, !.error = Tells(screen[t], result)]
  <2>1. /\ b \in Rec /\ b.request = NoAction /\ b.result = result
        /\ b.error = Tells(screen[t], result)
    BY DEF Fresh, Rec, Tells
  <2>2. button' = [button EXCEPT ![t][r] = b]
    BY DEF Settle
  <2> QED BY <2>1, <2>2
<1>3. /\ button' \in [Tabs -> [Runs -> Rec]]
      /\ \A u \in Tabs, x \in Runs : button'[u][x] = IF u = t /\ x = r THEN b ELSE button[u][x]
  BY <1>2, ButtonSet, TypedButtons DEF PagesInv
<1>4. \/ Begin(t)
      \/ result # "ok" /\ UNCHANGED <<load, listed, decided>>
  BY DEF Settle, Refreshes
<1>5. /\ load' \in [Tabs -> {"none", "begun", "approvals", "runs"}]
      /\ listed' \in [Tabs -> SUBSET Runs] /\ decided' \in [Tabs -> SUBSET Runs]
  <2>1. /\ load \in [Tabs -> {"none", "begun", "approvals", "runs"}]
        /\ listed \in [Tabs -> SUBSET Runs] /\ decided \in [Tabs -> SUBSET Runs]
    BY DEF PagesInv, QueueTypeOK
  <2>2. CASE Begin(t)
    <3>1. {x \in Runs : Decided(x)} \in SUBSET Runs
      OBVIOUS
    <3> QED BY <2>1, <2>2, <3>1 DEF Begin
  <2>3. CASE UNCHANGED <<load, listed, decided>>
    BY <2>1, <2>3
  <2> QED BY <1>4, <2>2, <2>3
<1>6. QueueTypeOK'
  BY <1>1, <1>3, <1>5 DEF PagesInv, QueueTypeOK, TypeOK, Rec, vars
<1>7. AwaitedInv'
  BY <1>1, <1>2, <1>3 DEF PagesInv, AwaitedInv, Decided, vars
<1>8. LoadInv' /\ \A u \in Tabs : decided[u] \subseteq decided'[u]
  <2>1. CASE UNCHANGED <<load, listed, decided>>
    BY <1>1, <2>1 DEF PagesInv, LoadInv, Decided, vars
  <2>2. CASE Begin(t)
    <3>1. /\ load'[t] = "begun" /\ decided'[t] = {x \in Runs : Decided(x)}
          /\ \A u \in Tabs : u # t => /\ load'[u] = load[u] /\ listed'[u] = listed[u]
                                     /\ decided'[u] = decided[u]
      BY <2>2 DEF PagesInv, QueueTypeOK, Begin
    <3>2. \A x \in Runs : Decided(x)' <=> Decided(x)
      BY <1>1 DEF Decided, vars
    <3>3. \A u \in Tabs : decided[u] \subseteq Runs
      BY DEF PagesInv, QueueTypeOK
    <3>4. \A u \in Tabs : decided[u] \subseteq decided'[u] /\ \A x \in decided'[u] : Decided(x)'
      BY <3>1, <3>2, <3>3 DEF PagesInv, LoadInv
    <3>5. LoadInv'
      BY <1>1, <3>1, <3>4 DEF PagesInv, LoadInv
    <3> QED BY <3>4, <3>5
  <2> QED BY <1>4, <2>1, <2>2
<1>9. result = "ok" => r \in decided'[t]
  BY <1>4 DEF PagesInv, QueueTypeOK, Begin
<1>10. ResultInv'
  <2>1. screen[t] \in Screens
    BY DEF PagesInv, QueueTypeOK
  <2>2. /\ result = "refused" => b.error \/ screen[t] = "runs"
        /\ result = "lost" => b.error \/ screen[t] \in {"runs", "run"}
    BY <1>2, <2>1 DEF Tells, Screens
  <2> SUFFICES ASSUME NEW u \in Tabs, NEW x \in Runs
               PROVE  /\ button'[u][x].result = "ok" => x \in decided'[u]
                      /\ button'[u][x].result = "refused" => button'[u][x].error \/ screen'[u] = "runs"
                      /\ button'[u][x].result = "lost" =>
                           button'[u][x].error \/ screen'[u] \in {"runs", "run"}
    BY DEF ResultInv
  <2>3. CASE u = t /\ x = r
    BY <1>1, <1>2, <1>3, <1>9, <2>2, <2>3
  <2>4. CASE ~(u = t /\ x = r)
    BY <1>1, <1>3, <1>8, <2>4 DEF PagesInv, ResultInv
  <2> QED BY <2>3, <2>4
<1> QED BY <1>6, <1>7, <1>8, <1>10 DEF PagesInv

LEMMA PagesStep ==
  ServerInv /\ PagesInv /\ [QueueNext]_<<vars, queueVars>> => PagesInv'
<1> SUFFICES ASSUME ServerInv, PagesInv, [QueueNext]_<<vars, queueVars>> PROVE PagesInv'
  OBVIOUS
<1>1. ASSUME NEW t \in Tabs, NEW r \in Runs, Succeed(t, r) PROVE PagesInv'
  <2>1. Decided(r) /\ Settle(t, r, "ok")
    BY <1>1 DEF Succeed, PagesInv, AwaitedInv, OnTheWay
  <2> QED BY <2>1, SettleStep
<1>2. ASSUME NEW t \in Tabs, NEW r \in Runs, Refuse(t, r) \/ LoseAnswer(t, r) PROVE PagesInv'
  BY <1>2, SettleStep DEF Refuse, LoseAnswer
<1>3. CASE UNCHANGED <<vars, queueVars>>
  BY <1>3 DEF PagesInv, QueueTypeOK, AwaitedInv, LoadInv, ResultInv, TypeOK, Decided,
              vars, queueVars, pageVars
<1> QED
  BY <1>1, <1>2, <1>3, ServeStep, OpenStep, ListStep, ClickStep, ArriveStep DEF QueueNext

LEMMA PagesInit == QueueInit => ServerInv /\ PagesInv
<1> SUFFICES ASSUME QueueInit PROVE ServerInv /\ PagesInv
  OBVIOUS
<1>1. ServerInv
  BY GateInit, QueueInvInit DEF QueueInit, ServerInv
<1>2. QueueTypeOK
  BY TypeInit, FreshIsButton DEF QueueInit, QueueTypeOK, Screens, Rec
<1>3. AwaitedInv /\ LoadInv /\ ResultInv
  BY DEF QueueInit, AwaitedInv, LoadInv, ResultInv, Fresh
<1> QED BY <1>1, <1>2, <1>3 DEF PagesInv

LEMMA PagesInvariant == QueueSpec => [](ServerInv /\ PagesInv)
<1>1. ServerInv /\ [QueueNext]_<<vars, queueVars>> => ServerInv'
  <2> SUFFICES ASSUME ServerInv, [QueueNext]_<<vars, queueVars>> PROVE ServerInv'
    OBVIOUS
  <2>1. [Next]_vars
    BY QueueServes
  <2> QED BY <2>1, GateStep, QueueStep DEF ServerInv
<1> QED BY <1>1, PagesInit, PagesStep, PTL DEF QueueSpec

-----------------------------------------------------------------------------
(* Pages, buttons and the server's tables keep their types.                *)
THEOREM QueueTypeCorrect == QueueSpec => []QueueTypeOK
<1>1. PagesInv => QueueTypeOK
  BY DEF PagesInv
<1> QED BY <1>1, PagesInvariant, PTL

(* Whatever loads, clicks, decisions and lost answers interleave: a page   *)
(* loaded after a decision does not ask for it again, no open approval     *)
(* outlives its run's wait, and a row that is there after a click that     *)
(* failed says so, where its buttons have anything to say it with.         *)
THEOREM ButtonSafety == QueueSpec => []ApprovalButtonsAreTrue
<1>1. ServerInv => PendingApprovalsHoldTheirRun
  BY DEF ServerInv, QueueInv
<1>2. PagesInv => DecidedRunsAreNotOffered
  BY DEF PagesInv, LoadInv, DecidedRunsAreNotOffered
<1>3. PagesInv => RowsThatReappearSayWhy
  BY DEF PagesInv, QueueTypeOK, LoadInv, ResultInv, RowsThatReappearSayWhy, Screens
<1>4. ServerInv /\ PagesInv => ApprovalButtonsAreTrue
  BY <1>1, <1>2, <1>3 DEF ApprovalButtonsAreTrue
<1> QED BY <1>4, PagesInvariant, PTL

-----------------------------------------------------------------------------
(* The agent.  What the lifecycle says of a run's path: which runs can     *)
(* reach the sandbox, and which statuses those never have.                 *)
SandboxBound(r) ==
  /\ action[r] \in CommandActions
  /\ \/ decision[r] = "sandbox_required"
     \/ decision[r] = "approval_required" /\ action[r] \in ShellActions

Launched == {"execute", "record", "finish", "record_error", "finish_error"}

PathInv ==
  /\ \A r \in Runs :
       /\ status[r] = "restore_point_required" => decision[r] = "restore_point_required"
       /\ status[r] \in {"external_runner_required", "execution_skipped", "checkpoint_created"} =>
            ~SandboxBound(r)
  /\ \A q \in Requests :
       /\ pc[q] = "external" => ~SandboxBound(job[q])
       /\ pc[q] = "skip" => decision[job[q]] = "allow"
       /\ pc[q] = "checkpoint" => decision[job[q]] = "restore_point_required"
       /\ pc[q] \in Launched => "execution_started" \in trail[job[q]]

LEMMA PathInit == Init => PathInv
BY DEF Init, PathInv, Launched

LEMMA PathStep == GateInv /\ PathInv /\ [Next]_vars => PathInv'
<1> SUFFICES ASSUME GateInv, PathInv, [Next]_vars PROVE PathInv'
  OBVIOUS
<1> USE DEF GateInv, TypeOK, JobInv, PathInv, SandboxBound, Launched, SetStatus, AddEvent, Goto,
            Snapshot, runVars, planVars, boxVars, reqVars
<1>0. TypeOK' /\ JobInv'
  BY TypeStep
<1>1. ASSUME NEW q \in Requests, ExecuteAction(q) PROVE PathInv'
  <2>1. CASE Propose(q)
    <3>1. PICK r \in Runs : /\ receipt[r] = "none" /\ job'[q] = r
                           /\ \A x \in Runs : x # r => decision'[x] = decision[x] /\ action'[x] = action[x]
      BY <2>1 DEF Propose
    <3>2. status[r] = "absent"
      BY <3>1 DEF CreationInv
    <3>3. \A p \in Requests : pc[p] \in Launched \cup {"external", "skip", "checkpoint"} => job[p] # r
      BY <3>2 DEF StageInv
    <3>4. /\ pc'[q] \in {"create_approval", "create_run"} /\ UNCHANGED <<status, trail>>
          /\ \A p \in Requests : p # q => pc'[p] = pc[p] /\ job'[p] = job[p]
      BY <2>1 DEF Propose
    <3> QED BY <3>1, <3>2, <3>3, <3>4
  <2>2. CASE CreateApproval(q)
    BY <1>0, <2>2 DEF CreateApproval
  <2>3. CASE CreateRun(q)
    <3>1. job[q] \in Runs /\ decision[job[q]] \in Decisions /\ status[job[q]] = "absent"
      BY <2>3 DEF CreateRun, CreationInv, Creating
    <3>2. status' = [status EXCEPT ![job[q]] = InitialStatus(decision[job[q]])]
      BY <2>3 DEF CreateRun
    <3>3. \A r \in Runs :
            /\ status'[r] = "restore_point_required" => decision[r] = "restore_point_required"
            /\ status'[r] \in {"external_runner_required", "execution_skipped", "checkpoint_created"} =>
                 ~SandboxBound(r)
      BY <3>1, <3>2 DEF InitialStatus, Decisions
    <3>4. pc'[q] \in {"sandbox", "external", "skip", "done"}
          /\ (pc'[q] = "external" => ~SandboxBound(job[q]))
          /\ (pc'[q] = "skip" => decision[job[q]] = "allow")
      BY <2>3, <3>1 DEF CreateRun, ContinueStage, SandboxEntry, InitialStatus, Decisions
    <3>5. \A p \in Requests : job'[p] = job[p] /\ (p # q => pc'[p] = pc[p])
      BY <2>3 DEF CreateRun
    <3>6. UNCHANGED <<action, decision, trail>>
      BY <2>3 DEF CreateRun
    <3> QED BY <3>3, <3>4, <3>5, <3>6
  <2> QED BY <1>1, <2>1, <2>2, <2>3 DEF ExecuteAction
<1>2. ASSUME NEW q \in Requests, RunInsideE2B(q) PROVE PathInv'
  BY <1>0, <1>2 DEF RunInsideE2B, ReadE2BKey, HoldForSandbox, ReserveSandboxRun,
              CheckSandboxQuota, StartSandboxRun, RunInSandbox, RecordResult,
              FinishRun, CatchStoreError, ResultStages
<1>3. ASSUME NEW q \in Requests, MarkExecutionSkipped(q) \/ MarkExternalRunnerRequired(q)
      PROVE PathInv'
  BY <1>0, <1>3 DEF MarkExecutionSkipped, MarkExternalRunnerRequired
<1>4. ASSUME NEW q \in Requests, ApproveRun(q) PROVE PathInv'
  <2>1. CASE Approve(q)
    BY <1>0, <2>1 DEF Approve, ContinueStage, SandboxEntry
  <2>2. CASE ResolveApproved(q)
    BY <1>0, <2>2 DEF ResolveApproved
  <2>3. CASE WriteApproved(q)
    BY <1>0, <2>3 DEF WriteApproved
  <2>4. CASE RereadApproved(q)
    BY <1>0, <2>4 DEF RereadApproved, ContinueStage, SandboxEntry
  <2> QED BY <1>4, <2>1, <2>2, <2>3, <2>4 DEF ApproveRun
<1>5. ASSUME NEW q \in Requests, RejectRun(q) PROVE PathInv'
  BY <1>0, <1>5 DEF RejectRun, Reject, ResolveRejected, WriteRejected
<1>6. ASSUME NEW q \in Requests, ContinueFromRunner(q) PROVE PathInv'
  BY <1>0, <1>6 DEF ContinueFromRunner, ContinueRun, ContinueRequestStage, CreateCheckpoint,
              RecordReport, FinishReport, TouchRun, ResultStages
<1>7. ASSUME NEW q \in Requests, ResolveUnlinked(q) \/ ResolveOnly(q) \/ Crash(q) PROVE PathInv'
  BY <1>0, <1>7 DEF ResolveUnlinked, ResolveOnly, Crash
<1>8. CASE ReapStuckRuns
  BY <1>0, <1>8 DEF ReapStuckRuns
<1>9. CASE UNCHANGED <<status, decision, action, trail, pc, job>>
  BY <1>9
<1> QED
  BY <1>1, <1>2, <1>3, <1>4, <1>5, <1>6, <1>7, <1>8, <1>9
  DEF Next, Handler, Age, ExpireApprovals, ChangeE2BKey, vars

(* A run the agent may execute itself.                                     *)
Ready(r) ==
  /\ status[r] # "absent" /\ Cleared(r)
  /\ decision[r] = "restore_point_required" => status[r] # "restore_point_required"

(* The stages of a request that creates a run.                             *)
CreatorStages == SandboxStages \cup {"create_approval", "create_run", "skip", "external", "done"}

(* A verdict is for good, a run never goes back to having none, and to     *)
(* waiting for its restore point only by being created so.                 *)
LEMMA RunsGoOn ==
  ASSUME GateInv, [Next]_vars, NEW r \in Runs
  PROVE  /\ decision[r] # "none" => decision'[r] = decision[r] /\ action'[r] = action[r]
         /\ trail[r] \subseteq trail'[r]
         /\ status[r] # "absent" => status'[r] # "absent"
         /\ status[r] \notin {"absent", "restore_point_required"} =>
              status'[r] # "restore_point_required"
<1> DEFINE Goal ==
       /\ decision[r] # "none" => decision'[r] = decision[r] /\ action'[r] = action[r]
       /\ trail[r] \subseteq trail'[r]
       /\ status[r] # "absent" => status'[r] # "absent"
       /\ status[r] \notin {"absent", "restore_point_required"} =>
            status'[r] # "restore_point_required"
<1> USE DEF GateInv, TypeOK, JobInv, CreationInv, Creating, ResultStages, SetStatus, AddEvent,
            runVars, planVars
<1>1. ASSUME NEW q \in Requests, ExecuteAction(q) PROVE Goal
  BY <1>1 DEF ExecuteAction, Propose, CreateApproval, CreateRun
<1>2. ASSUME NEW q \in Requests, RunInsideE2B(q) PROVE Goal
  BY <1>2 DEF RunInsideE2B, ReadE2BKey, HoldForSandbox, ReserveSandboxRun,
              CheckSandboxQuota, StartSandboxRun, RunInSandbox, RecordResult,
              FinishRun, CatchStoreError
<1>3. ASSUME NEW q \in Requests, MarkExecutionSkipped(q) \/ MarkExternalRunnerRequired(q)
      PROVE Goal
  BY <1>3 DEF MarkExecutionSkipped, MarkExternalRunnerRequired
<1>4. ASSUME NEW q \in Requests, ApproveRun(q) \/ RejectRun(q) PROVE Goal
  BY <1>4 DEF ApproveRun, Approve, ResolveApproved, WriteApproved, RereadApproved,
              RejectRun, Reject, ResolveRejected, WriteRejected
<1>5. ASSUME NEW q \in Requests, ContinueFromRunner(q) PROVE Goal
  BY <1>5 DEF ContinueFromRunner, ContinueRun, CreateCheckpoint, RecordReport, FinishReport, TouchRun
<1>6. CASE ReapStuckRuns
  BY <1>6 DEF ReapStuckRuns
<1>7. CASE UNCHANGED <<status, decision, action, trail>>
  BY <1>7
<1> QED
  BY <1>1, <1>2, <1>3, <1>4, <1>5, <1>6, <1>7
  DEF Next, Handler, ResolveUnlinked, ResolveOnly, Crash, Age, ExpireApprovals, ChangeE2BKey, vars

LEMMA ReadyStays ==
  ASSUME GateInv, [Next]_vars, NEW r \in Runs, Ready(r)
  PROVE  Ready(r)' /\ (SandboxBound(r)' <=> SandboxBound(r))
<1>1. decision[r] # "none"
  BY DEF Ready, Cleared
<1>2. decision'[r] = decision[r] /\ action'[r] = action[r] /\ trail[r] \subseteq trail'[r]
  BY <1>1, RunsGoOn
<1>3. status'[r] # "absent" /\ (status[r] # "restore_point_required" => status'[r] # "restore_point_required")
  BY RunsGoOn DEF Ready
<1> QED BY <1>2, <1>3 DEF Ready, Cleared, SandboxBound

(* What the status of a run says when somebody reads it.                   *)
LEMMA StatusSays ==
  ASSUME GateInv, PathInv, NEW r \in Runs
  PROVE  /\ status[r] \in CanReportExecution \cup {"execution_skipped"} =>
              status[r] = "restore_point_required" \/ Ready(r)
         /\ status[r] \in {"external_runner_required", "execution_skipped", "checkpoint_created"} =>
              ~SandboxBound(r)
         /\ status[r] = "restore_point_required" => decision[r] = "restore_point_required"
BY DEF GateInv, TypeOK, CreationInv, BlockedNeverExecutes, ApprovalPrecedesExecution, PathInv, Ready,
       Cleared, CanReportExecution

(* A request that is under way keeps its run and stays what it is.         *)
LEMMA RequestsGoOn ==
  ASSUME GateInv, [Next]_vars, NEW q \in Requests, pc[q] # "idle"
  PROVE  /\ job'[q] = job[q] /\ pc'[q] # "idle"
         /\ pc'[q] = "resolve_only" => pc[q] = "resolve_only"
         /\ pc[q] \in CreatorStages => pc'[q] \in CreatorStages
         /\ pc'[q] = "record_report" => pc[q] = "record_report" /\ outcome'[q] = outcome[q]
<1> DEFINE Goal == /\ job'[q] = job[q] /\ pc'[q] # "idle"
                   /\ pc'[q] = "resolve_only" => pc[q] = "resolve_only"
                   /\ pc[q] \in CreatorStages => pc'[q] \in CreatorStages
                   /\ pc'[q] = "record_report" => pc[q] = "record_report" /\ outcome'[q] = outcome[q]
<1> USE DEF GateInv, TypeOK, CreatorStages, SandboxStages, Goto, Snapshot, reqVars
<1>1. ASSUME NEW p \in Requests, ExecuteAction(p) PROVE Goal
  BY <1>1 DEF ExecuteAction, Propose, CreateApproval, CreateRun, ContinueStage, SandboxEntry
<1>2. ASSUME NEW p \in Requests, RunInsideE2B(p) PROVE Goal
  BY <1>2 DEF RunInsideE2B, ReadE2BKey, HoldForSandbox, ReserveSandboxRun,
              CheckSandboxQuota, StartSandboxRun, RunInSandbox, RecordResult,
              FinishRun, CatchStoreError
<1>3. ASSUME NEW p \in Requests, MarkExecutionSkipped(p) \/ MarkExternalRunnerRequired(p)
      PROVE Goal
  BY <1>3 DEF MarkExecutionSkipped, MarkExternalRunnerRequired
<1>4. ASSUME NEW p \in Requests, ApproveRun(p) PROVE Goal
  BY <1>4 DEF ApproveRun, Approve, ResolveApproved, WriteApproved, RereadApproved,
              ContinueStage, SandboxEntry
<1>5. ASSUME NEW p \in Requests, RejectRun(p) PROVE Goal
  BY <1>5 DEF RejectRun, Reject, ResolveRejected, WriteRejected
<1>6. ASSUME NEW p \in Requests, ContinueFromRunner(p) PROVE Goal
  BY <1>6 DEF ContinueFromRunner, ContinueRun, ContinueRequestStage, CreateCheckpoint,
              RecordReport, FinishReport, TouchRun
<1>7. ASSUME NEW p \in Requests, ResolveUnlinked(p) \/ ResolveOnly(p) PROVE Goal
  BY <1>7 DEF ResolveUnlinked, ResolveOnly
<1>8. ASSUME NEW p \in Requests, Crash(p) PROVE Goal
  <2>1. job' = job /\ outcome' = outcome /\ pc'[q] = (IF q = p THEN "done" ELSE pc[q])
    BY <1>8 DEF Crash
  <2> QED BY <2>1
<1>9. CASE UNCHANGED reqVars
  BY <1>9
<1> QED
  BY <1>1, <1>2, <1>3, <1>4, <1>5, <1>6, <1>7, <1>8, <1>9
  DEF Next, Handler, Age, ReapStuckRuns, ExpireApprovals, ChangeE2BKey, vars

(* A request that ends otherwise than by dying leaves a run with a status, *)
(* and one that created it never the status of an approval.                *)
LEMMA EndsWithStatus ==
  ASSUME GateInv, NEW q \in Requests, Handler(q), pc[q] \notin {"idle", "resolve_only"},
         pc'[q] = "done", ~Crash(q)
  PROVE  /\ status'[job[q]] \in Statuses
         /\ pc[q] \in CreatorStages => status'[job[q]] # "approved"
<1> DEFINE Goal == /\ status'[job[q]] \in Statuses
                   /\ pc[q] \in CreatorStages => status'[job[q]] # "approved"
<1> USE DEF GateInv, TypeOK, JobInv, StageInv, CreatorStages, SandboxStages, ResultStages, SetStatus, Goto,
            Snapshot, runVars, planVars, reqVars
<1>0. TypeOK' /\ job[q] \in Runs
  BY TypeStep DEF Next
<1>1. CASE ExecuteAction(q)
  <2>1. CASE CreateRun(q)
    <3>1. decision[job[q]] \in Decisions
      BY <1>0, <2>1 DEF CreateRun
    <3>2. status'[job[q]] = InitialStatus(decision[job[q]])
      BY <1>0, <2>1 DEF CreateRun
    <3> QED BY <3>1, <3>2 DEF InitialStatus, Decisions, Statuses
  <2> QED BY <1>1, <2>1 DEF ExecuteAction, Propose, CreateApproval
<1>2. CASE RunInsideE2B(q)
  BY <1>0, <1>2 DEF RunInsideE2B, ReadE2BKey, HoldForSandbox, ReserveSandboxRun,
              CheckSandboxQuota, StartSandboxRun, RunInSandbox, RecordResult,
              FinishRun, CatchStoreError, Statuses
<1>3. CASE MarkExecutionSkipped(q) \/ MarkExternalRunnerRequired(q)
  BY <1>0, <1>3 DEF MarkExecutionSkipped, MarkExternalRunnerRequired, Statuses
<1>4. CASE ApproveRun(q) \/ RejectRun(q)
  BY <1>0, <1>4 DEF ApproveRun, Approve, ResolveApproved, WriteApproved, RereadApproved,
              ContinueStage, SandboxEntry, RejectRun, Reject, ResolveRejected, WriteRejected, Statuses
<1>5. CASE ContinueFromRunner(q)
  BY <1>0, <1>5 DEF ContinueFromRunner, ContinueRun, CreateCheckpoint, RecordReport, FinishReport,
              TouchRun, Statuses
<1> QED BY <1>1, <1>2, <1>3, <1>4, <1>5 DEF Handler, ResolveUnlinked, ResolveOnly

(* A receipt is marked as failed by the sandbox, which has been started by *)
(* then, or by a report.                                                   *)
LEMMA FailureHasAuthor ==
  ASSUME GateInv, PathInv, [Next]_vars, NEW r \in Runs, receipt'[r] = "failed"
  PROVE  \/ receipt[r] = "failed"
         \/ "execution_started" \in trail[r]
         \/ \E q \in Requests : pc[q] = "record_report" /\ outcome[q] = "failed"
<1> USE DEF GateInv, TypeOK, JobInv, ResultStages
<1>1. ASSUME NEW q \in Requests, Propose(q) PROVE receipt[r] = "failed"
  BY <1>1 DEF Propose
<1>2. ASSUME NEW q \in Requests, RecordResult(q)
      PROVE  receipt[r] = "failed" \/ "execution_started" \in trail[r]
  BY <1>2 DEF RecordResult, PathInv, Launched
<1>3. ASSUME NEW q \in Requests, RecordReport(q)
      PROVE  receipt[r] = "failed" \/ (pc[q] = "record_report" /\ outcome[q] = "failed")
  BY <1>3 DEF RecordReport
<1>4. CASE UNCHANGED receipt
  BY <1>4
<1>5. ASSUME NEW q \in Requests, Handler(q), ~Propose(q), ~RecordResult(q), ~RecordReport(q)
      PROVE  UNCHANGED receipt
  BY <1>5 DEF Handler, ExecuteAction, CreateApproval, CreateRun, RunInsideE2B, ReadE2BKey,
      HoldForSandbox, ReserveSandboxRun, CheckSandboxQuota, StartSandboxRun, RunInSandbox, FinishRun,
      CatchStoreError, MarkExecutionSkipped, MarkExternalRunnerRequired, ApproveRun, Approve,
      ResolveApproved, WriteApproved, RereadApproved, RejectRun, Reject, ResolveRejected, WriteRejected,
      ContinueFromRunner, ContinueRun, CreateCheckpoint, FinishReport, TouchRun,
      ResolveUnlinked, ResolveOnly, Crash
<1> QED
  BY <1>1, <1>2, <1>3, <1>4, <1>5
  DEF Next, Age, ReapStuckRuns, ExpireApprovals, ChangeE2BKey, vars

-----------------------------------------------------------------------------
(* The agent waits for a request of its own, whose answer says something   *)
(* of its run that stays true however late it is looked at.                *)
BeforeRunning == {"start", "creating", "polling", "checkpoint", "checkpointing", "runnable"}
Running == {"runnable", "report", "reporting", "report_failure", "reporting_failure"}

RequestInv ==
  /\ phase = "start" => answer = "none" /\ (request \in Requests => pc[request] = "idle")
  /\ phase # "start" => request \in Requests /\ pc[request] \notin {"idle", "resolve_only"}
  /\ phase = "creating" => pc[request] \in CreatorStages /\ answer # "approved"
  /\ phase \in {"checkpoint", "checkpointing"} => decision[TheRun] = "restore_point_required"
  /\ phase = "polling" => status[TheRun] # "absent"

AnswerInv ==
  answer \in Statuses =>
    /\ status[TheRun] # "absent"
    /\ answer \in CanReportExecution \cup {"execution_skipped"} =>
         answer = "restore_point_required" \/ Ready(TheRun)
    /\ answer \in {"external_runner_required", "execution_skipped", "checkpoint_created"} =>
         ~SandboxBound(TheRun)
    /\ answer = "restore_point_required" => decision[TheRun] = "restore_point_required"

(* What the agent runs is ready to be run, and goes to the sandbox as well *)
(* only if it was polled between its approval and what that leads to.      *)
LocalInv ==
  /\ phase \in BeforeRunning => local = "none"
  /\ phase \in Running \/ local # "none" =>
       /\ Ready(TheRun)
       /\ SandboxBound(TheRun) => agent = "sdk" /\ sawApproved

(* Who reports a failure had one, or lost the answer to its success.       *)
FailureExplained == local = "failed" \/ reportLost

ReportInv ==
  /\ phase \in {"report", "reporting"} => local = "completed"
  /\ phase \in {"report_failure", "reporting_failure"} => local # "none" /\ FailureExplained
  /\ \A q \in Requests : pc[q] = "record_report" =>
       local # "none" /\ (outcome[q] = "failed" => FailureExplained)
  /\ \A r \in Runs : receipt[r] = "failed" => "execution_started" \in trail[r] \/ FailureExplained

AgentInv == SdkRunTypeOK /\ RequestInv /\ AnswerInv /\ LocalInv /\ ReportInv

LifecycleInv == GateInv /\ PathInv

LEMMA AgentInit == SdkRunInit => LifecycleInv /\ AgentInv
<1> SUFFICES ASSUME SdkRunInit PROVE LifecycleInv /\ AgentInv
  OBVIOUS
<1>1. LifecycleInv /\ TypeOK
  BY GateInit, PathInit DEF SdkRunInit, LifecycleInv, GateInv
<1>2. SdkRunTypeOK
  BY <1>1 DEF SdkRunInit, SdkRunTypeOK, Phases
<1>3. RequestInv /\ AnswerInv /\ LocalInv /\ ReportInv
  BY DEF SdkRunInit, Init, RequestInv, AnswerInv, LocalInv, ReportInv, BeforeRunning, Running, Statuses
<1> QED BY <1>1, <1>2, <1>3 DEF AgentInv

(* What the agent does is one of the lifecycle's steps, or none.           *)
LEMMA AgentServes == SdkRunNext => [Next]_vars
<1> SUFFICES ASSUME SdkRunNext PROVE [Next]_vars
  OBVIOUS
<1>1. CASE ServeOthers
  BY <1>1 DEF ServeOthers, Next, Handler, ApproveRun, RejectRun
<1>2. ASSUME NEW q \in Requests,
             ServeAgent(q) \/ SendExecuteAction(q) \/ SendCheckpoint(q) \/ ReportSuccess(q) \/ ReportFailure(q)
      PROVE  Next
  BY <1>2 DEF ServeAgent, SendExecuteAction, SendCheckpoint, ReportSuccess, ReportFailure, SendReport,
              Next, Handler, ExecuteAction, ContinueFromRunner
<1>3. ASSUME ReceiveRun \/ PollRun \/ StopWaiting \/ ReceiveCheckpoint \/ RunLocally \/ NoLocalRunner
             \/ ReceiveReportAnswer \/ RepeatRequest \/ RequestThrows
      PROVE  UNCHANGED vars
  BY <1>3 DEF ReceiveRun, PollRun, StopWaiting, ReceiveCheckpoint, RunLocally, NoLocalRunner,
              ReceiveReportAnswer, RepeatRequest, RequestThrows
<1> QED BY <1>1, <1>2, <1>3, Zenon DEF SdkRunNext

(* While the agent waits, its run and its request only go on.              *)
LEMMA AgentWaits ==
  ASSUME LifecycleInv, AgentInv, [Next]_vars, UNCHANGED <<phase, request>>, phase # "start"
  PROVE  /\ TheRun \in Runs /\ TheRun' = TheRun
         /\ pc'[request] \notin {"idle", "resolve_only"}
         /\ pc[request] \in CreatorStages => pc'[request] \in CreatorStages
         /\ status[TheRun] # "absent" => status'[TheRun] # "absent"
         /\ decision[TheRun] = "restore_point_required" => decision'[TheRun] = "restore_point_required"
         /\ Ready(TheRun) => Ready(TheRun)' /\ (SandboxBound(TheRun)' <=> SandboxBound(TheRun))
<1>1. request \in Requests /\ pc[request] \notin {"idle", "resolve_only"} /\ TheRun \in Runs
  BY DEF LifecycleInv, GateInv, JobInv, AgentInv, RequestInv, TheRun
<1>2. /\ job'[request] = job[request] /\ pc'[request] \notin {"idle", "resolve_only"}
      /\ pc[request] \in CreatorStages => pc'[request] \in CreatorStages
  BY <1>1, RequestsGoOn DEF LifecycleInv
<1>3. TheRun' = TheRun
  BY <1>2 DEF TheRun
<1> DEFINE r == TheRun
<1>4. /\ status[r] # "absent" => status'[r] # "absent"
      /\ decision[r] = "restore_point_required" => decision'[r] = "restore_point_required"
      /\ Ready(r) => Ready(r)' /\ (SandboxBound(r)' <=> SandboxBound(r))
  <2> HIDE DEF r
  <2>1. ASSUME NEW x \in Runs
        PROVE  /\ status[x] # "absent" => status'[x] # "absent"
               /\ decision[x] = "restore_point_required" => decision'[x] = "restore_point_required"
               /\ Ready(x) => Ready(x)' /\ (SandboxBound(x)' <=> SandboxBound(x))
    BY RunsGoOn, ReadyStays DEF LifecycleInv
  <2>2. r \in Runs /\ r' = r
    BY <1>1, <1>3 DEF r
  <2> QED BY <2>1, <2>2 DEF Ready, Cleared, SandboxBound
<1> QED BY <1>1, <1>2, <1>3, <1>4

(* A handler moves its own request only.                                   *)
LEMMA OthersStand ==
  ASSUME GateInv, NEW p \in Requests, NEW q \in Requests, p # q, Handler(q)
  PROVE  pc'[p] = pc[p]
<1> USE DEF GateInv, TypeOK, Goto, Snapshot, reqVars
<1>1. CASE ExecuteAction(q) \/ RunInsideE2B(q) \/ MarkExecutionSkipped(q) \/ MarkExternalRunnerRequired(q)
  BY <1>1 DEF ExecuteAction, Propose,
       CreateApproval, CreateRun, RunInsideE2B, ReadE2BKey, HoldForSandbox,
       ReserveSandboxRun, CheckSandboxQuota, StartSandboxRun, RunInSandbox, RecordResult, FinishRun,
       CatchStoreError, MarkExecutionSkipped, MarkExternalRunnerRequired
<1>2. CASE ApproveRun(q) \/ RejectRun(q)
  BY <1>2 DEF ApproveRun, Approve, ResolveApproved,
       WriteApproved, RereadApproved, RejectRun, Reject, ResolveRejected, WriteRejected
<1>3. CASE ContinueFromRunner(q) \/ ResolveUnlinked(q) \/ ResolveOnly(q) \/ Crash(q)
  BY <1>3 DEF ContinueFromRunner,
       ContinueRun, CreateCheckpoint, RecordReport, FinishReport, TouchRun,
       ResolveUnlinked, ResolveOnly, Crash
<1> QED BY <1>1, <1>2, <1>3 DEF Handler

(* The parts of ReportInv that the server can disturb.                     *)
LEMMA ReportsAreExplained ==
  ASSUME LifecycleInv, AgentInv, [Next]_vars, UNCHANGED <<local, reportLost>>,
         \A q \in Requests : pc'[q] = "record_report" =>
           pc[q] = "record_report" /\ outcome'[q] = outcome[q]
  PROVE  /\ \A q \in Requests : pc'[q] = "record_report" =>
              local' # "none" /\ (outcome'[q] = "failed" => FailureExplained')
         /\ \A r \in Runs : receipt'[r] = "failed" => "execution_started" \in trail'[r] \/ FailureExplained'
<1>1. FailureExplained' <=> FailureExplained
  BY DEF FailureExplained
<1>2. ASSUME NEW r \in Runs, receipt'[r] = "failed"
      PROVE  "execution_started" \in trail'[r] \/ FailureExplained'
  <2>1. trail[r] \subseteq trail'[r]
    BY RunsGoOn DEF LifecycleInv
  <2>2. \/ receipt[r] = "failed" \/ "execution_started" \in trail[r]
        \/ \E q \in Requests : pc[q] = "record_report" /\ outcome[q] = "failed"
    BY <1>2, FailureHasAuthor DEF LifecycleInv
  <2> QED BY <1>1, <2>1, <2>2 DEF AgentInv, ReportInv
<1>3. ASSUME NEW q \in Requests, pc'[q] = "record_report"
      PROVE  local' # "none" /\ (outcome'[q] = "failed" => FailureExplained')
  BY <1>1, <1>3 DEF AgentInv, ReportInv
<1> QED BY <1>2, <1>3

LEMMA ServersTypeOK ==
  ASSUME LifecycleInv, AgentInv, [Next]_vars,
         UNCHANGED <<agent, phase, request, view, local, sawApproved, reportLost>>,
         answer' \in Statuses \cup {"none", "refused"}
  PROVE  SdkRunTypeOK'
BY TypeStep DEF LifecycleInv, GateInv, AgentInv, SdkRunTypeOK

(* Before the agent has sent anything no handler is its request's.         *)
LEMMA ServeOthersStep ==
  ASSUME LifecycleInv, AgentInv, ServeOthers PROVE AgentInv'
<1>1. [Next]_vars /\ UNCHANGED <<agent, phase, request, answer, view, local, sawApproved, reportLost>>
  BY DEF ServeOthers, Next, Handler, ApproveRun, RejectRun, agentVars
<1>2. SdkRunTypeOK'
  BY <1>1, ServersTypeOK DEF AgentInv, SdkRunTypeOK
<1>3. ASSUME phase = "start" PROVE RequestInv' /\ AnswerInv' /\ LocalInv'
  <2>1. ASSUME request \in Requests PROVE pc'[request] = "idle"
    <3>1. pc[request] = "idle"
      BY <1>3, <2>1 DEF AgentInv, RequestInv
    <3>2. ASSUME NEW q \in Requests \ {request}, Handler(q) PROVE pc'[request] = pc[request]
      BY <2>1, <3>2, OthersStand DEF LifecycleInv
    <3> QED BY <3>1, <3>2 DEF ServeOthers, Handler, ApproveRun, RejectRun,
               Age, ReapStuckRuns, ExpireApprovals, ChangeE2BKey, reqVars
  <2> QED BY <1>1, <1>3, <2>1
           DEF AgentInv, RequestInv, AnswerInv, LocalInv, BeforeRunning, Running, Statuses
<1>4. ASSUME phase # "start" PROVE RequestInv' /\ AnswerInv' /\ LocalInv'
  <2>1. /\ TheRun \in Runs /\ TheRun' = TheRun
        /\ pc'[request] \notin {"idle", "resolve_only"}
        /\ pc[request] \in CreatorStages => pc'[request] \in CreatorStages
        /\ status[TheRun] # "absent" => status'[TheRun] # "absent"
        /\ decision[TheRun] = "restore_point_required" => decision'[TheRun] = "restore_point_required"
        /\ Ready(TheRun) => Ready(TheRun)' /\ (SandboxBound(TheRun)' <=> SandboxBound(TheRun))
    BY <1>1, <1>4, AgentWaits
  <2>2. RequestInv'
    BY <1>1, <1>4, <2>1 DEF AgentInv, RequestInv
  <2>3. LocalInv'
    BY <1>1, <1>4, <2>1 DEF AgentInv, LocalInv
  <2>4. AnswerInv'
    BY <1>1, <1>4, <2>1 DEF AgentInv, AnswerInv, CanReportExecution
  <2> QED BY <2>2, <2>3, <2>4
<1>5. RequestInv' /\ AnswerInv' /\ LocalInv'
  BY <1>3, <1>4
<1>6. \A q \in Requests : pc'[q] = "record_report" => pc[q] = "record_report" /\ outcome'[q] = outcome[q]
  <2> SUFFICES ASSUME NEW q \in Requests, pc'[q] = "record_report"
               PROVE  pc[q] = "record_report" /\ outcome'[q] = outcome[q]
    OBVIOUS
  <2>1. CASE pc[q] # "idle"
    BY <1>1, <2>1, RequestsGoOn DEF LifecycleInv
  <2>2. CASE pc[q] = "idle"
    <3>1. ASSUME NEW p \in Requests, p # q, Handler(p) PROVE FALSE
      BY <2>2, <3>1, OthersStand DEF LifecycleInv
    <3>2. CASE Approve(q) \/ Reject(q)
      BY <3>2 DEF LifecycleInv, GateInv, TypeOK, Approve, Reject, Snapshot, Goto, ContinueStage, SandboxEntry
    <3> QED BY <2>2, <3>1, <3>2 DEF ServeOthers, Handler, ApproveRun, RejectRun,
               Age, ReapStuckRuns, ExpireApprovals, ChangeE2BKey, reqVars
  <2> QED BY <2>1, <2>2
<1>7. ReportInv'
  BY <1>1, <1>6, ReportsAreExplained DEF AgentInv, ReportInv, FailureExplained
<1> QED BY <1>2, <1>5, <1>7 DEF AgentInv

LEMMA ServeAgentStep ==
  ASSUME LifecycleInv, AgentInv, NEW q \in Requests, ServeAgent(q) PROVE AgentInv'
<1>1. /\ q = request /\ pc[q] # "idle" /\ Handler(q) /\ Next
      /\ UNCHANGED <<agent, phase, request, view, local, sawApproved, reportLost>>
      /\ answer' = IF Crash(q) THEN "none" ELSE AnswerOf(q)
  BY DEF ServeAgent, Next
<1>2. phase # "start" /\ pc[q] # "resolve_only"
  BY <1>1 DEF AgentInv, RequestInv
<1>3. LifecycleInv'
  BY <1>1, GateStep, PathStep DEF LifecycleInv
<1>4. /\ TheRun \in Runs /\ TheRun' = TheRun /\ TheRun = job[q]
      /\ pc'[request] \notin {"idle", "resolve_only"}
      /\ pc[request] \in CreatorStages => pc'[request] \in CreatorStages
      /\ status[TheRun] # "absent" => status'[TheRun] # "absent"
      /\ decision[TheRun] = "restore_point_required" => decision'[TheRun] = "restore_point_required"
      /\ Ready(TheRun) => Ready(TheRun)' /\ (SandboxBound(TheRun)' <=> SandboxBound(TheRun))
  BY <1>1, <1>2, AgentWaits DEF TheRun
<1>5. \/ answer' = "none"
      \/ /\ answer' = status'[TheRun] /\ answer' \in Statuses
         /\ pc[q] \in CreatorStages => answer' # "approved"
  BY <1>1, <1>2, <1>4, EndsWithStatus DEF AnswerOf, LifecycleInv
<1>6. SdkRunTypeOK'
  BY <1>1, <1>5, ServersTypeOK
<1>7. AnswerInv'
  <2>1. CASE answer' = "none"
    BY <2>1 DEF AnswerInv, Statuses
  <2>2. CASE answer' = status'[TheRun] /\ answer' \in Statuses
    <3>1. ASSUME NEW r \in Runs
          PROVE  /\ status'[r] \in CanReportExecution \cup {"execution_skipped"} =>
                      status'[r] = "restore_point_required" \/ Ready(r)'
                 /\ status'[r] \in {"external_runner_required", "execution_skipped", "checkpoint_created"} =>
                      ~SandboxBound(r)'
                 /\ status'[r] = "restore_point_required" => decision'[r] = "restore_point_required"
      <4>1. LifecycleInv => GateInv /\ PathInv
        BY DEF LifecycleInv
      <4>2. GateInv' /\ PathInv'
        BY <1>3, <4>1 DEF LifecycleInv
      <4> QED BY <4>2 DEF GateInv, TypeOK, CreationInv, BlockedNeverExecutes, ApprovalPrecedesExecution,
                 PathInv, Ready, Cleared, CanReportExecution, SandboxBound
    <3> DEFINE r == TheRun
    <3>2. r \in Runs /\ r' = r /\ answer' = status'[r]
      BY <1>4, <2>2
    <3>3. answer' # "absent"
      BY <2>2 DEF Statuses
    <3>4. AnswerInv' <=>
            (answer' \in Statuses =>
              /\ status'[r] # "absent"
              /\ answer' \in CanReportExecution \cup {"execution_skipped"} =>
                   answer' = "restore_point_required" \/ Ready(r)'
              /\ answer' \in {"external_runner_required", "execution_skipped", "checkpoint_created"} =>
                   ~SandboxBound(r)'
              /\ answer' = "restore_point_required" => decision'[r] = "restore_point_required")
      BY <3>2 DEF AnswerInv
    <3> HIDE DEF r
    <3> QED BY <3>1, <3>2, <3>3, <3>4 DEF Ready, Cleared, SandboxBound
  <2> QED BY <1>5, <2>1, <2>2
<1>8. RequestInv' /\ LocalInv'
  BY <1>1, <1>2, <1>4, <1>5 DEF AgentInv, RequestInv, LocalInv
<1>9. \A p \in Requests : pc'[p] = "record_report" => pc[p] = "record_report" /\ outcome'[p] = outcome[p]
  <2> SUFFICES ASSUME NEW p \in Requests, pc'[p] = "record_report"
               PROVE  pc[p] = "record_report" /\ outcome'[p] = outcome[p]
    OBVIOUS
  <2>1. CASE pc[p] # "idle"
    BY <1>1, <2>1, RequestsGoOn DEF LifecycleInv
  <2>2. CASE pc[p] = "idle"
    BY <1>1, <2>2, OthersStand DEF LifecycleInv
  <2> QED BY <2>1, <2>2
<1>10. ReportInv'
  BY <1>1, <1>9, ReportsAreExplained DEF AgentInv, ReportInv, FailureExplained
<1> QED BY <1>6, <1>7, <1>8, <1>10 DEF AgentInv

LEMMA SendExecuteActionStep ==
  ASSUME LifecycleInv, AgentInv, NEW q \in Requests, SendExecuteAction(q) PROVE AgentInv'
<1>1. /\ phase = "start" /\ phase' = "creating" /\ request' = q /\ answer' = "none" /\ Propose(q) /\ Next
      /\ UNCHANGED <<agent, view, local, sawApproved, reportLost>>
  BY DEF SendExecuteAction, Send, Next, Handler, ExecuteAction
<1>2. SdkRunTypeOK'
  BY <1>1, TypeStep DEF LifecycleInv, GateInv, AgentInv, SdkRunTypeOK, Phases
<1>3. pc'[q] \in {"create_approval", "create_run"} /\ \A p \in Requests : p # q => pc'[p] = pc[p]
  BY <1>1 DEF Propose, Snapshot, Goto, LifecycleInv, GateInv, TypeOK
<1>4. RequestInv' /\ AnswerInv' /\ LocalInv'
  BY <1>1, <1>3
  DEF AgentInv, RequestInv, AnswerInv, LocalInv, BeforeRunning, Running, Statuses, CreatorStages
<1>5. outcome' = outcome
  BY <1>1 DEF Propose
<1>6. ReportInv'
  BY <1>1, <1>3, <1>5, ReportsAreExplained DEF AgentInv, ReportInv
<1> QED BY <1>2, <1>4, <1>6 DEF AgentInv

(* A request that continues the run is one of the run's requests.          *)
LEMMA ContinueIsOwn ==
  ASSUME LifecycleInv, AgentInv, NEW q \in Requests, ContinueRun(q), job'[q] = TheRun, request' = q,
         phase # "start"
  PROVE  /\ Next /\ TheRun \in Runs /\ TheRun' = TheRun
         /\ status[TheRun] # "absent" /\ seen'[q] = status[TheRun]
         /\ \A p \in Requests : p # q => pc'[p] = pc[p]
         /\ \A p \in Requests : p # q => outcome'[p] = outcome[p]
         /\ Ready(TheRun) => Ready(TheRun)' /\ (SandboxBound(TheRun)' <=> SandboxBound(TheRun))
         /\ decision'[TheRun] = decision[TheRun]
<1>1. Next
  BY DEF Next, Handler, ContinueFromRunner
<1>2. TheRun \in Runs
  BY DEF LifecycleInv, GateInv, JobInv, AgentInv, RequestInv, TheRun
<1>3. TheRun' = TheRun
  BY DEF TheRun
<1>4. /\ status[TheRun] # "absent" /\ seen'[q] = status[TheRun]
      /\ \A p \in Requests : p # q => pc'[p] = pc[p]
      /\ \A p \in Requests : p # q => outcome'[p] = outcome[p]
      /\ UNCHANGED <<status, decision, action, trail>>
  BY <1>2 DEF ContinueRun, Snapshot, Goto, LifecycleInv, GateInv, TypeOK, runVars, planVars
<1>5. Ready(TheRun) => Ready(TheRun)' /\ (SandboxBound(TheRun)' <=> SandboxBound(TheRun))
  BY <1>3, <1>4 DEF Ready, Cleared, SandboxBound
<1> QED BY <1>1, <1>2, <1>3, <1>4, <1>5

LEMMA SendCheckpointStep ==
  ASSUME LifecycleInv, AgentInv, NEW q \in Requests, SendCheckpoint(q) PROVE AgentInv'
<1>1. /\ phase = "checkpoint" /\ phase' = "checkpointing" /\ request' = q /\ answer' = "none"
      /\ ContinueRun(q) /\ job'[q] = TheRun /\ outcome'[q] = "none"
      /\ pc'[q] \in {"checkpoint", "touch"}
      /\ UNCHANGED <<agent, view, local, sawApproved, reportLost>>
  BY DEF SendCheckpoint, Send, ContinueRequestStage
<1>2. /\ Next /\ TheRun \in Runs /\ TheRun' = TheRun
      /\ \A p \in Requests : p # q => pc'[p] = pc[p]
      /\ \A p \in Requests : p # q => outcome'[p] = outcome[p]
      /\ decision'[TheRun] = decision[TheRun]
  BY <1>1, ContinueIsOwn
<1>3. SdkRunTypeOK'
  BY <1>1, <1>2, TypeStep DEF LifecycleInv, GateInv, AgentInv, SdkRunTypeOK, Phases
<1>4. RequestInv' /\ AnswerInv' /\ LocalInv'
  BY <1>1, <1>2
  DEF AgentInv, RequestInv, AnswerInv, LocalInv, BeforeRunning, Running, Statuses
<1>5. ReportInv'
  BY <1>1, <1>2, ReportsAreExplained DEF AgentInv, ReportInv
<1> QED BY <1>3, <1>4, <1>5 DEF AgentInv

LEMMA SendReportStep ==
  ASSUME LifecycleInv, AgentInv, NEW q \in Requests, ReportSuccess(q) \/ ReportFailure(q)
  PROVE  AgentInv'
<1>1. PICK result \in {"completed", "failed"}, next \in {"reporting", "reporting_failure"} :
        /\ SendReport(q, result, next)
        /\ \/ phase = "report" /\ result = "completed" /\ next = "reporting"
           \/ phase = "report_failure" /\ result = "failed" /\ next = "reporting_failure"
  BY DEF ReportSuccess, ReportFailure
<1>2. /\ phase' = next /\ request' = q /\ answer' \in {"none", "refused"}
      /\ ContinueRun(q) /\ job'[q] = TheRun /\ outcome'[q] = result
      /\ UNCHANGED <<agent, view, local, sawApproved, reportLost>>
  BY <1>1 DEF SendReport, Send
<1>3. pc'[q] \in {"record_report", "done"}
  BY <1>1 DEF SendReport, ContinueRequestStage
<1>4. /\ Next /\ TheRun \in Runs /\ TheRun' = TheRun
      /\ \A p \in Requests : p # q => pc'[p] = pc[p]
      /\ \A p \in Requests : p # q => outcome'[p] = outcome[p]
      /\ Ready(TheRun) => Ready(TheRun)' /\ (SandboxBound(TheRun)' <=> SandboxBound(TheRun))
  BY <1>1, <1>2, ContinueIsOwn
<1>5. SdkRunTypeOK'
  BY <1>1, <1>2, <1>4, TypeStep DEF LifecycleInv, GateInv, AgentInv, SdkRunTypeOK, Phases
<1>6. RequestInv' /\ AnswerInv'
  BY <1>1, <1>2, <1>3, <1>4 DEF AgentInv, RequestInv, AnswerInv, Statuses
<1>7. LocalInv'
  BY <1>1, <1>2, <1>4 DEF AgentInv, LocalInv, BeforeRunning, Running
<1>8. FailureExplained' <=> FailureExplained
  BY <1>2 DEF FailureExplained
<1>9. ASSUME NEW p \in Requests, pc'[p] = "record_report"
      PROVE  local' # "none" /\ (outcome'[p] = "failed" => FailureExplained')
  <2>1. CASE p = q
    BY <1>1, <1>2, <1>8, <2>1 DEF AgentInv, ReportInv, FailureExplained, LocalInv, RequestInv
  <2>2. CASE p # q
    BY <1>2, <1>4, <1>8, <1>9, <2>2 DEF AgentInv, ReportInv
  <2> QED BY <2>1, <2>2
<1>10. UNCHANGED <<receipt, trail>>
  BY <1>2 DEF ContinueRun
<1>11. ReportInv'
  BY <1>1, <1>2, <1>8, <1>9, <1>10 DEF AgentInv, ReportInv
<1> QED BY <1>5, <1>6, <1>7, <1>11 DEF AgentInv

(* The rest is between the agent and its answer: nothing is served.        *)
LEMMA AgentAloneStep ==
  ASSUME LifecycleInv, AgentInv,
         \/ ReceiveRun \/ PollRun \/ StopWaiting \/ ReceiveCheckpoint \/ RunLocally \/ NoLocalRunner
         \/ ReceiveReportAnswer \/ RepeatRequest \/ RequestThrows
  PROVE  AgentInv'
<1>1. UNCHANGED <<vars, request, answer, agent>> /\ (reportLost => reportLost') /\ (sawApproved => sawApproved')
  <2>1. CASE RepeatRequest \/ RequestThrows
    <3>1. UNCHANGED <<vars, request, answer, agent, sawApproved>>
      BY <2>1 DEF RepeatRequest, RequestThrows
    <3>2. reportLost' = (reportLost \/ phase = "reporting")
      BY <2>1, Zenon DEF RepeatRequest, RequestThrows
    <3> QED BY <3>1, <3>2, Zenon
  <2>2. CASE PollRun
    <3>1. UNCHANGED <<vars, request, answer, agent, reportLost>>
      BY <2>2 DEF PollRun
    <3>2. sawApproved' = (sawApproved \/ status[TheRun] = "approved")
      BY <2>2, Zenon DEF PollRun
    <3> QED BY <3>1, <3>2, Zenon
  <2>3. CASE ReceiveRun \/ StopWaiting \/ ReceiveCheckpoint \/ RunLocally \/ NoLocalRunner
             \/ ReceiveReportAnswer
    BY <2>3 DEF ReceiveRun, StopWaiting, ReceiveCheckpoint, RunLocally, NoLocalRunner,
       ReceiveReportAnswer
  <2> QED BY <2>1, <2>2, <2>3
<1>2. phase # "start"
  BY DEF ReceiveRun, PollRun, StopWaiting, ReceiveCheckpoint, RunLocally, NoLocalRunner,
         ReceiveReportAnswer, RepeatRequest, RequestThrows
<1>3. /\ TheRun \in Runs /\ TheRun' = TheRun
      /\ Ready(TheRun)' <=> Ready(TheRun)
      /\ SandboxBound(TheRun)' <=> SandboxBound(TheRun)
      /\ status' = status /\ decision' = decision
  BY <1>1, <1>2 DEF LifecycleInv, GateInv, JobInv, AgentInv, RequestInv, TheRun, Ready, Cleared, SandboxBound,
                    vars
<1>4. AnswerInv'
  BY <1>1, <1>3 DEF AgentInv, AnswerInv
<1>5. TypeOK'
  BY <1>1, TypeStep DEF LifecycleInv, GateInv
<1>6. FailureExplained /\ local' = local => FailureExplained'
  BY <1>1 DEF FailureExplained
<1> DEFINE Rest == SdkRunTypeOK' /\ RequestInv' /\ LocalInv' /\ ReportInv'
<1> USE DEF AgentInv, RequestInv, LocalInv, ReportInv, SdkRunTypeOK, Phases, BeforeRunning, Running
<1>7. ASSUME ReceiveRun \/ ReceiveCheckpoint PROVE Rest
  <2> USE DEF ReceiveRun, ReceiveCheckpoint
  <2>1. /\ status[TheRun] # "absent"
        /\ answer \in Runnable => Ready(TheRun) /\ ~(answer # "approved" /\ SandboxBound(TheRun))
        /\ answer = "restore_point_required" => decision[TheRun] = "restore_point_required"
    BY <1>7 DEF AnswerInv, Runnable, CanReportExecution
  <2>2. phase' = "runnable" => Ready(TheRun) /\ ~SandboxBound(TheRun)
    BY <1>7, <2>1 DEF PhaseAfter, SandboxBound, Runnable
  <2>3. phase' = "checkpoint" => decision[TheRun] = "restore_point_required"
    BY <1>7, <2>1 DEF PhaseAfter
  <2>4. phase' \in {"runnable", "checkpoint", "ended", "polling"} /\ local' = local /\ view' \in Statuses
        /\ UNCHANGED <<sawApproved, reportLost>> /\ local = "none"
    BY <1>7 DEF PhaseAfter
  <2>5. SdkRunTypeOK'
    BY <1>1, <1>5, <2>4
  <2>6. RequestInv'
    BY <1>1, <1>2, <1>3, <2>1, <2>3, <2>4 DEF vars
  <2>7. LocalInv'
    BY <1>1, <1>3, <2>2, <2>4
  <2>8. ReportInv'
    BY <1>1, <1>6, <2>4 DEF vars
  <2> QED BY <2>5, <2>6, <2>7, <2>8
<1>8. ASSUME PollRun PROVE Rest
  <2> USE DEF PollRun
  <2>1. /\ status[TheRun] \in Statuses
        /\ status[TheRun] \in Runnable =>
             Ready(TheRun) /\ (SandboxBound(TheRun) => agent = "sdk" /\ status[TheRun] = "approved")
        /\ status[TheRun] = "restore_point_required" => decision[TheRun] = "restore_point_required"
    BY <1>3, <1>8, StatusSays DEF LifecycleInv, GateInv, TypeOK, Runnable, CanReportExecution
  <2>2. phase' = "runnable" => Ready(TheRun) /\ (SandboxBound(TheRun) => agent = "sdk" /\ sawApproved')
    BY <1>8, <2>1 DEF PhaseAfter
  <2>3. phase' = "checkpoint" => decision[TheRun] = "restore_point_required"
    BY <1>8, <2>1 DEF PhaseAfter
  <2>4. phase' \in {"runnable", "checkpoint", "ended", "polling"} /\ local' = local /\ view' \in Statuses
        /\ reportLost' = reportLost /\ local = "none" /\ sawApproved' \in BOOLEAN
    BY <1>8, <2>1 DEF PhaseAfter
  <2>5. SdkRunTypeOK'
    BY <1>1, <1>5, <2>4
  <2>6. RequestInv'
    BY <1>1, <1>2, <1>3, <2>1, <2>3, <2>4 DEF vars, Statuses
  <2>7. LocalInv'
    BY <1>1, <1>3, <2>2, <2>4
  <2>8. ReportInv'
    BY <1>1, <1>6, <2>4 DEF vars
  <2> QED BY <2>5, <2>6, <2>7, <2>8
<1>9. ASSUME RunLocally PROVE Rest
  <2>1. /\ phase = "runnable" /\ local = "none" /\ local' \in {"completed", "failed"}
        /\ phase' \in {"report", "report_failure", "threw"}
        /\ phase' = "report" => local' = "completed"
        /\ phase' = "report_failure" => local' = "failed"
        /\ UNCHANGED <<view, sawApproved, reportLost>>
    BY <1>9 DEF RunLocally
  <2>2. SdkRunTypeOK'
    BY <1>1, <1>5, <2>1
  <2>3. RequestInv' /\ LocalInv'
    BY <1>1, <1>3, <2>1 DEF vars
  <2>4. FailureExplained => FailureExplained'
    BY <2>1 DEF FailureExplained
  <2>5. ReportInv'
    BY <1>1, <2>1, <2>4 DEF vars, FailureExplained
  <2> QED BY <2>2, <2>3, <2>5
<1>10. ASSUME StopWaiting \/ NoLocalRunner \/ ReceiveReportAnswer PROVE Rest
  <2>1. /\ phase' \in {"ended", "timed_out"} /\ view' \in Statuses \cup {"none"}
        /\ UNCHANGED <<local, sawApproved, reportLost>>
    BY <1>10 DEF StopWaiting, NoLocalRunner, ReceiveReportAnswer
  <2>2. SdkRunTypeOK'
    BY <1>1, <1>5, <2>1
  <2>3. RequestInv' /\ LocalInv'
    BY <1>1, <1>2, <1>3, <2>1 DEF vars
  <2>4. ReportInv'
    BY <1>1, <1>6, <2>1 DEF vars
  <2> QED BY <2>2, <2>3, <2>4
<1>11. ASSUME RepeatRequest \/ RequestThrows PROVE Rest
  <2>1. /\ UNCHANGED <<local, view, sawApproved>> /\ reportLost' \in BOOLEAN
        /\ phase' \in {"checkpoint", "report", "report_failure", "threw"}
        /\ phase' = "checkpoint" => phase = "checkpointing"
        /\ phase' = "report" => phase = "reporting"
        /\ phase' = "report_failure" => phase = "reporting_failure" \/ (phase = "reporting" /\ reportLost')
    BY <1>11 DEF RepeatRequest, RequestThrows
  <2>2. SdkRunTypeOK'
    BY <1>1, <1>5, <2>1
  <2>3. RequestInv'
    BY <1>1, <1>2, <1>3, <2>1 DEF vars
  <2>4. LocalInv'
    BY <1>1, <1>3, <2>1
  <2>5. ReportInv'
    BY <1>1, <1>6, <2>1 DEF vars, FailureExplained
  <2> QED BY <2>2, <2>3, <2>4, <2>5
<1> QED BY <1>4, <1>7, <1>8, <1>9, <1>10, <1>11

LEMMA AgentStep == LifecycleInv /\ AgentInv /\ [SdkRunNext]_sdkVars => LifecycleInv' /\ AgentInv'
<1> SUFFICES ASSUME LifecycleInv, AgentInv, [SdkRunNext]_sdkVars PROVE LifecycleInv' /\ AgentInv'
  OBVIOUS
<1>1. [Next]_vars
  BY AgentServes DEF sdkVars
<1>2. LifecycleInv'
  BY <1>1, GateStep, PathStep DEF LifecycleInv
<1>3. ASSUME UNCHANGED sdkVars PROVE AgentInv'
  <2>1. UNCHANGED <<vars, agentVars>>
    BY <1>3 DEF sdkVars
  <2> QED BY <2>1 DEF vars, agentVars, AgentInv, SdkRunTypeOK, TypeOK, RequestInv, AnswerInv, LocalInv,
             ReportInv, FailureExplained, TheRun, Ready, Cleared, SandboxBound
<1> QED
  BY <1>2, <1>3, ServeOthersStep, ServeAgentStep, SendExecuteActionStep, SendCheckpointStep,
     SendReportStep, AgentAloneStep DEF SdkRunNext

LEMMA AgentInvariant == SdkRunSpec => [](LifecycleInv /\ AgentInv)
BY AgentInit, AgentStep, PTL DEF SdkRunSpec

(* Whatever is polled, late, lost or repeated, the agent's own machine     *)
(* runs only what the gate let through, and after its restore point.       *)
THEOREM LocalRunSafety == SdkRunSpec => []LocalRunsAreReleased
<1>1. LifecycleInv /\ AgentInv => LocalRunsAreReleased
  BY DEF LifecycleInv, AgentInv, LocalInv, Ready, LocalRunsAreReleased, LocalRunWasCleared, RestorePointFirst
<1> QED BY <1>1, AgentInvariant, PTL

(* A success on the agent's machine that the receipt calls a failure had a *)
(* lost report or a sandbox beside it; a double execution needs the one    *)
(* window between an approval and what it leads to, met by a poll.         *)
THEOREM AnomalySafety == SdkRunSpec => []AnomaliesHaveACause
<1>1. LifecycleInv /\ AgentInv => AnomaliesHaveACause
  <2> SUFFICES ASSUME LifecycleInv, AgentInv, local # "none" PROVE AnomaliesHaveACause
    BY DEF AnomaliesHaveACause, MisreportNeedsLostReport, TwoPlacesNeedApprovedPoll
  <2>1. phase # "start"
    BY DEF AgentInv, LocalInv, BeforeRunning
  <2>2. TheRun \in Runs
    BY <2>1 DEF LifecycleInv, GateInv, JobInv, AgentInv, RequestInv, TheRun
  <2>3. MisreportNeedsLostReport
    BY <2>2 DEF MisreportNeedsLostReport, AgentInv, ReportInv, FailureExplained
  <2>4. TwoPlacesNeedApprovedPoll
    BY <2>2 DEF TwoPlacesNeedApprovedPoll, AgentInv, LocalInv, LifecycleInv, GateInv, SandboxOnlyWhereGated,
       SandboxBound
  <2> QED BY <2>3, <2>4 DEF AnomaliesHaveACause
<1> QED BY <1>1, AgentInvariant, PTL

-----------------------------------------------------------------------------
(* The instance TLC checks drives one of the two and lets the other rest.  *)
PartsInv ==
  /\ part \in {"agent", "people"}
  /\ part = "agent" => LifecycleInv /\ AgentInv
  /\ part = "people" => ServerInv /\ PagesInv

(* Agent, pages, handlers and tables keep their types, whichever is driven. *)
THEOREM UsersTypeCorrect == UsersSpec => []UsersTypeOK
<1>1. UsersInit => PartsInv
  BY AgentInit, PagesInit DEF UsersInit, PartsInv
<1>2. PartsInv /\ [UsersNext]_<<part, sdkVars, queueVars>> => PartsInv'
  <2> SUFFICES ASSUME PartsInv, [UsersNext]_<<part, sdkVars, queueVars>> PROVE PartsInv'
    OBVIOUS
  <2>1. part' = part
    BY DEF UsersNext
  <2>2. CASE part = "agent"
    <3>1. [SdkRunNext]_sdkVars
      BY <2>2 DEF UsersNext
    <3> QED BY <2>1, <2>2, <3>1, AgentStep DEF PartsInv
  <2>3. CASE part = "people"
    <3>1. QueueNext \/ UNCHANGED <<sdkVars, queueVars>>
      BY <2>3 DEF UsersNext
    <3>2. [QueueNext]_<<vars, queueVars>>
      BY <3>1 DEF sdkVars
    <3> QED BY <2>1, <2>3, <3>2, PagesStep, QueueServes, GateStep, QueueStep DEF PartsInv, ServerInv
  <2> QED BY <2>2, <2>3 DEF PartsInv
<1>3. PartsInv => UsersTypeOK
  BY DEF PartsInv, UsersTypeOK, LifecycleInv, GateInv, AgentInv, ServerInv, PagesInv
<1> QED BY <1>1, <1>2, <1>3, PTL DEF UsersSpec
=============================================================================
