----------------------------- MODULE MCRunUsers -----------------------------
(***************************************************************************)
(* An instance for TLC of the two modules that stand in front of the run   *)
(* lifecycle: SdkRun, the agent that proposes and polls, and ApprovalQueue, *)
(* the people who decide.  Each lets everybody else do as they like, so a  *)
(* behaviour picks one and leaves the other at rest.                       *)
(***************************************************************************)
EXTENDS SdkRun, ApprovalQueue, TLC

VARIABLE part

UsersInit ==
  /\ part \in {"agent", "people"}
  /\ SdkRunInit /\ QueueInit
  /\ part = "people" => agent = "sdk"

(* A request reads the sandbox key once: it is there for good from some    *)
(* moment on.  Removing it again is left to the runs of ActionRuns.        *)
KeyStays == connected => connected'

(* What a page shows depends on the run's status, not on its command.      *)
HeldShellRuns ==
  \A r \in Runs : decision'[r] \in {"none", "approval_required"}
                  /\ action'[r] \in {NoAction} \cup ShellActions

UsersNext ==
  /\ UNCHANGED part
  /\ \/ part = "agent" /\ SdkRunNext /\ UNCHANGED queueVars
     \/ part = "people" /\ QueueNext /\ HeldShellRuns /\ UNCHANGED agentVars
  /\ KeyStays

UsersSpec == UsersInit /\ [][UsersNext]_<<part, sdkVars, queueVars>>

UsersTypeOK ==
  TypeOK /\ (part = "agent" => SdkRunTypeOK) /\ (part = "people" => QueueTypeOK)

(* Nothing orders or names a request.                                      *)
Interchangeable == Permutations(Requests)
=============================================================================
