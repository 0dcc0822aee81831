---------------------------- MODULE RunnerTokens ----------------------------
(***************************************************************************)
(* One-time tokens with which a runner may approve a held run:             *)
(* createRunnerApprovalToken and consumeRunnerApprovalToken of             *)
(* src/lib/agentwingStore.ts, and expireRunnerTokens of workers/jobs.  One *)
(* run, which others decide meanwhile.                                     *)
(***************************************************************************)
EXTENDS Naturals, FiniteSets

CONSTANTS
  RunnerTokenIds,
  Consumers      (* calls of consumeRunnerApprovalToken                     *)

VARIABLES
  runStatus,     (* action_runs.status: "waiting_approval", or what it was  *)
                 (* decided to be                                           *)
  runnerToken,   (* the rows: "none", "unused", "used" or "gone"            *)
  tokenExpired,  (* the tokens whose expires_at has come                    *)
  consumer,      (* stage of each call: "new", "run", "use", "ok", "failed" *)
  presented,     (* the token it was called with, once the row is read      *)
  seenStatus     (* history: the run as the call read it                    *)

consumerVars == <<consumer, presented, seenStatus>>
runnerTokenVars == <<runStatus, runnerToken, tokenExpired, consumerVars>>

RunnerTokensTypeOK ==
  /\ runStatus \in {"waiting_approval", "approved", "rejected"}
  /\ runnerToken \in [RunnerTokenIds -> {"none", "unused", "used", "gone"}]
  /\ tokenExpired \in SUBSET RunnerTokenIds
  /\ consumer \in [Consumers -> {"new", "run", "use", "ok", "failed"}]
  /\ presented \in [Consumers -> SUBSET RunnerTokenIds]
  /\ seenStatus \in [Consumers -> {"unread", "waiting_approval", "approved", "rejected"}]

RunnerTokensInit ==
  /\ runStatus = "waiting_approval"
  /\ runnerToken = [t \in RunnerTokenIds |-> "none"]
  /\ tokenExpired = {}
  /\ consumer = [c \in Consumers |-> "new"]
  /\ presented = [c \in Consumers |-> {}]
  /\ seenStatus = [c \in Consumers |-> "unread"]

CreateRunnerApprovalToken(t) ==
  /\ runnerToken[t] = "none"
  /\ runnerToken' = [runnerToken EXCEPT ![t] = "unused"]
  /\ UNCHANGED <<runStatus, tokenExpired, consumerVars>>

TokenExpires(t) ==
  /\ runnerToken[t] # "none"
  /\ tokenExpired' = tokenExpired \cup {t}
  /\ UNCHANGED <<runStatus, runnerToken, consumerVars>>

(* The job that deletes expired rows, used or not.                         *)
SweepRunnerToken(t) ==
  /\ t \in tokenExpired /\ runnerToken[t] \in {"unused", "used"}
  /\ runnerToken' = [runnerToken EXCEPT ![t] = "gone"]
  /\ UNCHANGED <<runStatus, tokenExpired, consumerVars>>

(* Somebody decides the run in the dashboard.                              *)
RunDecided ==
  /\ runStatus = "waiting_approval"
  /\ runStatus' \in {"approved", "rejected"}
  /\ UNCHANGED <<runnerToken, tokenExpired, consumerVars>>

ConsumerAt(c, s) == consumer' = [consumer EXCEPT ![c] = s]

(* The SELECT, and what is refused at once: no row, used, expired.         *)
ReadToken(c, t) ==
  /\ consumer[c] = "new"
  /\ presented' = [presented EXCEPT ![c] = {t}]
  /\ ConsumerAt(c, IF runnerToken[t] = "unused" /\ t \notin tokenExpired THEN "run" ELSE "failed")
  /\ UNCHANGED <<runStatus, runnerToken, tokenExpired, seenStatus>>

(* getActionRun.                                                           *)
ReadRun(c) ==
  /\ consumer[c] = "run"
  /\ seenStatus' = [seenStatus EXCEPT ![c] = runStatus]
  /\ ConsumerAt(c, IF runStatus = "waiting_approval" THEN "use" ELSE "failed")
  /\ UNCHANGED <<runStatus, runnerToken, tokenExpired, presented>>

(* Faulty variants are what a plausible slip in the code would make of the *)
(* definition that follows: each breaks a property.                        *)
UsedWhateverTheRowSays(c, t) ==
  /\ consumer[c] = "use" /\ t \in presented[c]
  /\ runnerToken' = [runnerToken EXCEPT ![t] = "used"]
  /\ ConsumerAt(c, "ok")
  /\ UNCHANGED <<runStatus, tokenExpired, presented, seenStatus>>

(* UPDATE ... WHERE used_at IS NULL, of a row that may be swept by now.    *)
UseToken(c, t) ==
  /\ consumer[c] = "use" /\ t \in presented[c]
  /\ runnerToken' = [runnerToken EXCEPT ![t] = IF @ = "unused" THEN "used" ELSE @]
  /\ ConsumerAt(c, IF runnerToken[t] = "unused" THEN "ok" ELSE "failed")
  /\ UNCHANGED <<runStatus, tokenExpired, presented, seenStatus>>

RunnerTokensNext ==
  \/ \E t \in RunnerTokenIds : CreateRunnerApprovalToken(t) \/ TokenExpires(t) \/ SweepRunnerToken(t)
  \/ RunDecided
  \/ \E c \in Consumers : ReadRun(c) \/ \E t \in RunnerTokenIds : ReadToken(c, t) \/ UseToken(c, t)

RunnerTokensSpec == RunnerTokensInit /\ [][RunnerTokensNext]_runnerTokenVars

-----------------------------------------------------------------------------
(* A token approves once, however many calls present it at the same time,  *)
(* and it is spent only by a call that saw the run waiting.                *)
TokenSpentOnce ==
  \A t \in RunnerTokenIds :
    LET winners == {c \in Consumers : consumer[c] = "ok" /\ t \in presented[c]}
    IN  /\ Cardinality(winners) <= 1
        /\ runnerToken[t] = "used" => winners # {}
        /\ \A c \in winners : seenStatus[c] = "waiting_approval"
=============================================================================
