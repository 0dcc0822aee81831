---------------------------- MODULE ApprovalQueue ----------------------------
(***************************************************************************)
(* The people in front of the run lifecycle: the dashboard's approvals     *)
(* queue, its list of runs and the page of one run, each with its own pair *)
(* of approve and reject buttons.  A page is rendered from rows read a     *)
(* moment ago, the queue from two lists that are read side by side; the    *)
(* click it invites is a request of ActionRuns, and its answer may be bad, *)
(* late or lost.  Everybody else (agents, jobs, other people) goes on      *)
(* meanwhile.                                                              *)
(***************************************************************************)
EXTENDS ActionRuns

CONSTANT Tabs

VARIABLES
  screen,    (* the page a tab shows                                        *)
  offered,   (* the runs it shows with buttons                              *)
  load,      (* what of the page under way has been read                    *)
  listed,    (* the rows of the list that was read first                    *)
  button,    (* the component of a tab and a run: busy, the request it      *)
             (* waits for, how its last click ended, and whether it says so *)
  decided,   (* history: runs already decided when the last load began      *)
  died       (* requests whose handler is gone without an answer            *)

pageVars == <<screen, offered, load, listed, button, decided>>
queueVars == <<pageVars, died>>

Screens == {"approvals", "runs", "run"}

Fresh == [busy |-> "no", request |-> NoAction, result |-> "none", error |-> FALSE]

QueueTypeOK ==
  /\ TypeOK
  /\ screen \in [Tabs -> Screens]
  /\ offered \in [Tabs -> SUBSET Runs] /\ listed \in [Tabs -> SUBSET Runs]
  /\ load \in [Tabs -> {"none", "begun", "approvals", "runs"}]
  /\ button \in [Tabs -> [Runs -> [busy : {"no", "approve", "reject"},
                                   request : Requests \cup {NoAction},
                                   result : {"none", "ok", "refused", "lost"},
                                   error : BOOLEAN]]]
  /\ decided \in [Tabs -> SUBSET Runs]
  /\ died \subseteq Requests

QueueInit ==
  /\ Init
  /\ screen = [t \in Tabs |-> "approvals"]
  /\ offered = [t \in Tabs |-> {}] /\ listed = [t \in Tabs |-> {}]
  /\ load = [t \in Tabs |-> "none"]
  /\ button = [t \in Tabs |-> [r \in Runs |-> Fresh]]
  /\ decided = [t \in Tabs |-> {}]
  /\ died = {}

Decided(r) == status[r] \notin {"absent", "waiting_approval"}

-----------------------------------------------------------------------------
(* Loading a page.                                                         *)

Begin(t) ==
  /\ load' = [load EXCEPT ![t] = "begun"]
  /\ listed' = [listed EXCEPT ![t] = {}]
  /\ decided' = [decided EXCEPT ![t] = {r \in Runs : Decided(r)}]

(* A component that is no longer on the page forgets its state.            *)
Render(t, rows) ==
  /\ offered' = [offered EXCEPT ![t] = rows]
  /\ button' = [button EXCEPT ![t] = [r \in Runs |-> IF r \in rows THEN @[r] ELSE Fresh]]
  /\ load' = [load EXCEPT ![t] = "none"]
  /\ listed' = [listed EXCEPT ![t] = {}]

OpenPage(t) ==
  /\ \E s \in Screens : screen' = [screen EXCEPT ![t] = s]
  /\ offered' = [offered EXCEPT ![t] = {}]
  /\ button' = [button EXCEPT ![t] = [r \in Runs |-> Fresh]]
  /\ Begin(t)
  /\ UNCHANGED <<vars, died>>

(* The queue needs both its lists, in whichever order they come.           *)
ReadList(t, name, rows) ==
  \/ /\ load[t] = "begun"
     /\ load' = [load EXCEPT ![t] = name]
     /\ listed' = [listed EXCEPT ![t] = rows]
     /\ UNCHANGED <<offered, button>>
  \/ /\ load[t] \notin {"none", "begun", name}
     /\ Render(t, listed[t] \cap rows)

(* Faulty variants, here and below, are what a plausible slip in the code  *)
(* would make of the definition that follows: each breaks a property.      *)
ReadEveryApproval(t) ==
  /\ screen[t] = "approvals"
  /\ \E rows \in SUBSET {r \in Runs : approval[r] # "none"} : ReadList(t, "approvals", rows)
  /\ UNCHANGED <<vars, screen, decided, died>>

(* listApprovals: pending ones among the newest 100, or none when the read *)
(* fails.                                                                  *)
ReadApprovals(t) ==
  /\ screen[t] = "approvals"
  /\ \E rows \in SUBSET {r \in Runs : approval[r] = "pending"} : ReadList(t, "approvals", rows)
  /\ UNCHANGED <<vars, screen, decided, died>>

(* listActionRuns: the newest 200, whatever their status.                  *)
ReadRuns(t) ==
  /\ screen[t] = "approvals"
  /\ \E rows \in SUBSET {r \in Runs : status[r] # "absent"} : ReadList(t, "runs", rows)
  /\ UNCHANGED <<vars, screen, decided, died>>

(* The other two pages go by the status of the run alone; one that is not  *)
(* among the newest 100, or a read that throws, shows no buttons.          *)
ReadStatuses(t) ==
  /\ screen[t] \in {"runs", "run"} /\ load[t] = "begun"
  /\ \E rows \in SUBSET {r \in Runs : status[r] = "waiting_approval"} : Render(t, rows)
  /\ UNCHANGED <<vars, screen, decided, died>>

-----------------------------------------------------------------------------
(* resolve: a click and what becomes of it.                                *)

Click(t, r) ==
  /\ r \in offered[t] /\ button[t][r].busy = "no"
  /\ \E verb \in {"approve", "reject"} : button' = [button EXCEPT ![t][r] = [Fresh EXCEPT !.busy = verb]]
  /\ UNCHANGED <<vars, screen, offered, load, listed, decided, died>>

Arrive(t, r, q) ==
  /\ button[t][r].busy # "no" /\ button[t][r].request = NoAction
  /\ IF button[t][r].busy = "approve" THEN Approve(q) ELSE Reject(q)
  /\ job'[q] = r
  /\ button' = [button EXCEPT ![t][r].request = q]
  /\ UNCHANGED <<screen, offered, load, listed, decided, died>>

SwallowsFailures(s, result) == s = "run" /\ result = "refused"

(* Which component says which failure.                                     *)
Tells(s, result) ==
  \/ s = "approvals" /\ result \in {"refused", "lost"}
  \/ s = "run" /\ result = "refused"

(* Which component reloads its page; that of the list whatever the answer. *)
Refreshes(s, result) == result = "ok" \/ (s = "runs" /\ result = "refused")

Settle(t, r, result) ==
  /\ button' = [button EXCEPT ![t][r] = [Fresh EXCEPT !.result = result, !.error = Tells(screen[t], result)]]
  /\ IF Refreshes(screen[t], result) THEN Begin(t) ELSE UNCHANGED <<load, listed, decided>>
  /\ UNCHANGED <<vars, screen, offered, died>>

Waits(t, r) == button[t][r].busy # "no"

Succeed(t, r) ==
  LET q == button[t][r].request
  IN Waits(t, r) /\ q # NoAction /\ pc[q] = "done" /\ q \notin died /\ Settle(t, r, "ok")

(* Refused before the run is read (401, 403, 5xx), or the handler threw.   *)
Refuse(t, r) ==
  /\ Waits(t, r) /\ button[t][r].request \in {NoAction} \cup died
  /\ Settle(t, r, "refused")

(* fetch throws: nothing is known of the request.                          *)
LoseAnswer(t, r) == Waits(t, r) /\ Settle(t, r, "lost")

-----------------------------------------------------------------------------
ServeAll ==
  /\ Next
  /\ died' = died \cup {q \in Requests : Crash(q)}
  /\ UNCHANGED pageVars

QueueNext ==
  \/ ServeAll
  \/ \E t \in Tabs :
       \/ OpenPage(t) \/ ReadApprovals(t) \/ ReadRuns(t) \/ ReadStatuses(t)
       \/ \E r \in Runs :
            \/ Click(t, r) \/ Succeed(t, r) \/ Refuse(t, r) \/ LoseAnswer(t, r)
            \/ \E q \in Requests : Arrive(t, r, q)

QueueSpec == QueueInit /\ [][QueueNext]_<<vars, queueVars>>

-----------------------------------------------------------------------------
(* Properties.                                                             *)

(* However the two lists of the queue and the decision interleave, a page  *)
(* that began to load after a run was decided does not ask for it again.   *)
DecidedRunsAreNotOffered ==
  \A t \in Tabs : load[t] = "none" => offered[t] \cap decided[t] = {}

(* A row that is still there, or back, after a click says why, as the      *)
(* comment on the queue's buttons promises.  The buttons of the runs list  *)
(* never say it, those of the run's page not when the request is lost.     *)
RowsThatReappearSayWhy ==
  \A t \in Tabs : \A r \in offered[t] :
    load[t] = "none" /\ button[t][r].result # "none" =>
      \/ button[t][r].error
      \/ screen[t] = "runs"
      \/ screen[t] = "run" /\ button[t][r].result = "lost"

(* What the buttons offer is open, and what they could not do they say.    *)
ApprovalButtonsAreTrue ==
  PendingApprovalsHoldTheirRun /\ DecidedRunsAreNotOffered /\ RowsThatReappearSayWhy
=============================================================================
