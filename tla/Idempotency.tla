---------------------------- MODULE Idempotency ----------------------------
(***************************************************************************)
(* Idempotency keys of POST /execute-action: src/lib/idempotency.ts as     *)
(* src/app/api/v1/execute-action/route.ts uses it, and the sweep of        *)
(* workers/jobs/index.ts.  One workspace.  A fingerprint is the body it is *)
(* taken of; the run a call creates is named by the call.                  *)
(***************************************************************************)
EXTENDS Naturals, FiniteSets

CONSTANTS Calls, Keys, Bodies, NoRow, NoReply, Refused, Conflict

ASSUME RepliesAreDistinct ==
  {NoReply, Refused, Conflict} \cap Calls = {} /\ NoReply # Conflict

ASSUME NoRowIsNoRow == NoRow \notin [fingerprint : Bodies, run : Calls, live : BOOLEAN]

VARIABLES
  stored,     (* idempotency_keys                                           *)
  created,    (* the calls that created a run                               *)
  pc, key, body, reply,
  kept,       (* history: the calls whose row was inserted and has not lapsed *)
  after       (* history: per call, those already kept when it came         *)

callVars == <<pc, key, body, reply>>
vars == <<stored, created, pc, key, body, reply, kept, after>>

Rows == [fingerprint : Bodies, run : Calls, live : BOOLEAN]

TypeOK ==
  /\ stored \in [Keys -> Rows \cup {NoRow}]
  /\ created \in SUBSET Calls
  /\ pc \in [Calls -> {"new", "execute", "remember", "done"}]
  /\ key \in [Calls -> Keys \cup {NoReply}]
  /\ body \in [Calls -> Bodies \cup {NoReply}]
  /\ reply \in [Calls -> Calls \cup {NoReply, Refused, Conflict}]
  /\ kept \in SUBSET Calls
  /\ after \in [Calls -> SUBSET Calls]

Init ==
  /\ stored = [k \in Keys |-> NoRow]
  /\ created = {}
  /\ pc = [c \in Calls |-> "new"]
  /\ key = [c \in Calls |-> NoReply]
  /\ body = [c \in Calls |-> NoReply]
  /\ reply = [c \in Calls |-> NoReply]
  /\ kept = {}
  /\ after = [c \in Calls |-> {}]

Goto(c, stage) == pc' = [pc EXCEPT ![c] = stage]
Reply(c, r) == reply' = [reply EXCEPT ![c] = r]

(* Faulty variants, here and below, are what a plausible slip in the code  *)
(* would make of the definition that follows: each breaks a property.      *)
ReplayOfAnyBody(row, b) ==
  IF row = NoRow THEN NoReply ELSE IF ~row.live THEN NoReply ELSE row.run

ReplayOfLapsedRows(row, b) ==
  IF row = NoRow THEN NoReply
  ELSE IF row.live THEN NoReply
  ELSE IF row.fingerprint # b THEN Conflict ELSE row.run

(* findReplay: nothing, the stored run, or a conflict.                     *)
Replay(row, b) ==
  IF row = NoRow THEN NoReply
  ELSE IF ~row.live THEN NoReply
  ELSE IF row.fingerprint # b THEN Conflict ELSE row.run

(* A call with key k and body b arrives and looks its key up.              *)
FindReplay(c) ==
  /\ pc[c] = "new"
  /\ \E k \in Keys, b \in Bodies :
       /\ key' = [key EXCEPT ![c] = k]
       /\ body' = [body EXCEPT ![c] = b]
       /\ Reply(c, Replay(stored[k], b))
       /\ Goto(c, IF Replay(stored[k], b) = NoReply THEN "execute" ELSE "done")
  /\ after' = [after EXCEPT ![c] = kept]
  /\ UNCHANGED <<stored, created, kept>>

(* createExecutionRun: a run, or an early answer (limit, policies not      *)
(* readable), or an exception before or after the run was inserted.        *)
CreateExecutionRun(c) ==
  /\ pc[c] = "execute"
  /\ \/ created' = created \cup {c} /\ Goto(c, "remember") /\ UNCHANGED reply
     \/ created' \in {created, created \cup {c}} /\ Goto(c, "done") /\ Reply(c, Refused)
  /\ UNCHANGED <<stored, key, body, kept, after>>

(* rememberResponse: INSERT OR IGNORE, which a row that has lapsed and is  *)
(* not swept yet also turns into nothing.                                  *)
RememberResponse(c) ==
  /\ pc[c] = "remember"
  /\ IF stored[key[c]] = NoRow
     THEN /\ stored' = [stored EXCEPT ![key[c]] =
                          [fingerprint |-> body[c], run |-> c, live |-> TRUE]]
          /\ kept' = kept \cup {c}
     ELSE UNCHANGED <<stored, kept>>
  /\ Reply(c, c) /\ Goto(c, "done")
  /\ UNCHANGED <<created, key, body, after>>

(* The INSERT throws; the route swallows it and answers.                   *)
RememberFails(c) ==
  /\ pc[c] = "remember"
  /\ Reply(c, c) /\ Goto(c, "done")
  /\ UNCHANGED <<stored, created, key, body, kept, after>>

(* The isolate dies.                                                       *)
Crash(c) ==
  /\ pc[c] \in {"execute", "remember"}
  /\ Goto(c, "done")
  /\ UNCHANGED <<stored, created, key, body, reply, kept, after>>

(* Twenty-four hours pass over a key: what was answered before them lapses. *)
Lapse(k) ==
  /\ stored[k] # NoRow /\ stored[k].live
  /\ stored' = [stored EXCEPT ![k].live = FALSE]
  /\ kept' = {c \in kept : key[c] # k}
  /\ UNCHANGED <<created, callVars, after>>

(* sweepExpiredKeys, from the scheduled job.                               *)
SweepExpiredKey(k) ==
  /\ stored[k] # NoRow /\ ~stored[k].live
  /\ stored' = [stored EXCEPT ![k] = NoRow]
  /\ UNCHANGED <<created, callVars, kept, after>>

Next ==
  \/ \E c \in Calls : FindReplay(c) \/ CreateExecutionRun(c) \/ RememberResponse(c)
                      \/ RememberFails(c) \/ Crash(c)
  \/ \E k \in Keys : Lapse(k) \/ SweepExpiredKey(k)

Spec == Init /\ [][Next]_vars

-----------------------------------------------------------------------------
(* Properties.                                                             *)

SameRequest(c, d) == key[c] = key[d] /\ body[c] = body[d]

(* A caller is only ever told of a run that exists and that was created    *)
(* for exactly its own request, whatever reused, raced or lapsed.          *)
RepliesMatchRequests ==
  \A c \in Calls : reply[c] \in Calls => reply[c] \in created /\ SameRequest(c, reply[c])

(* While a key's row stands, no later call under the key creates a run.    *)
NoSecondRunWhileKept ==
  \A c \in created : \A d \in after[c] : key[d] # key[c]
=============================================================================
