------------------------------ MODULE Clients ------------------------------
(***************************************************************************)
(* Idempotency keys with the clients that rely on them: request of         *)
(* packages/sdk/src/http.ts, which repeats executeAction under one key     *)
(* after a timeout, a network error or a status worth retrying, beside     *)
(* callers of the API that do as they like.  An attempt is a call of       *)
(* Idempotency; it may arrive after its client has given up on it.         *)
(***************************************************************************)
EXTENDS Idempotency, Sequences

CONSTANTS Clients, MaxRetries

ASSUME AtLeastOneAttempt == MaxRetries \in Nat \ {0}

VARIABLES
  request,    (* per client, the key and body of its executeAction          *)
  attempts,   (* per client, the calls it has sent, in order                *)
  awaited,    (* the call it waits for, or NoReply                          *)
  result,     (* NoReply, a run, Conflict, or Refused for any other error   *)
  abandoned   (* history: calls given up before they were answered          *)

clientVars == <<request, attempts, awaited, result, abandoned>>
allVars == <<vars, clientVars>>

ClientsInit ==
  /\ Init
  /\ request = [x \in Clients |-> NoReply]
  /\ attempts = [x \in Clients |-> <<>>]
  /\ awaited = [x \in Clients |-> NoReply]
  /\ result = [x \in Clients |-> NoReply]
  /\ abandoned = {}

CallsOf(x) == {attempts[x][i] : i \in DOMAIN attempts[x]}

Sent == UNION {CallsOf(x) : x \in Clients}

-----------------------------------------------------------------------------
(* One turn of the loop of request, for the client x.                      *)

ExecuteAction(x) ==
  /\ request[x] = NoReply
  /\ \E k \in Keys, b \in Bodies : request' = [request EXCEPT ![x] = [key |-> k, body |-> b]]
  /\ UNCHANGED <<vars, attempts, awaited, result, abandoned>>

Attempt(x, c) ==
  /\ request[x] # NoReply /\ result[x] = NoReply /\ awaited[x] = NoReply
  /\ Len(attempts[x]) < MaxRetries
  /\ pc[c] = "new" /\ c \notin Sent
  /\ attempts' = [attempts EXCEPT ![x] = Append(@, c)]
  /\ awaited' = [awaited EXCEPT ![x] = c]
  /\ UNCHANGED <<vars, request, result, abandoned>>

(* What the loop does after an attempt without a usable answer.            *)
TryAgainOrFail(x) ==
  /\ awaited' = [awaited EXCEPT ![x] = NoReply]
  /\ result' = [result EXCEPT ![x] = IF Len(attempts[x]) = MaxRetries THEN Refused ELSE NoReply]

(* 2xx, the conflict of another body (422), or an answer worth a retry.    *)
ReceiveAnswer(x) ==
  LET c == awaited[x]
  IN  /\ c # NoReply /\ pc[c] = "done"
      /\ \/ /\ reply[c] \in Calls \cup {Conflict}
            /\ result' = [result EXCEPT ![x] = reply[c]]
            /\ awaited' = [awaited EXCEPT ![x] = NoReply]
         \/ /\ reply[c] = Refused
            /\ TryAgainOrFail(x)
      /\ UNCHANGED <<vars, request, attempts, abandoned>>

(* An answer that will not be retried.                                     *)
ReceiveRefusal(x) ==
  LET c == awaited[x]
  IN  /\ c # NoReply /\ pc[c] = "done" /\ reply[c] = Refused
      /\ result' = [result EXCEPT ![x] = Refused]
      /\ awaited' = [awaited EXCEPT ![x] = NoReply]
      /\ UNCHANGED <<vars, request, attempts, abandoned>>

(* The timeout of the attempt, or a network error on its way there, while  *)
(* it is served, or on the way back.                                       *)
GiveUp(x) ==
  /\ awaited[x] # NoReply
  /\ abandoned' = IF pc[awaited[x]] = "done" THEN abandoned ELSE abandoned \cup {awaited[x]}
  /\ TryAgainOrFail(x)
  /\ UNCHANGED <<vars, request, attempts>>

(* Faulty variants, here and below, are what a plausible slip in the code  *)
(* would make of the definition that follows: each breaks a property.      *)
NewKeyPerAttempt(x, c) ==
  /\ c \in CallsOf(x)
  /\ FindReplay(c)
  /\ body'[c] = request[x].body
  /\ UNCHANGED clientVars

(* An attempt reaches the route with the client's key and body.            *)
AttemptArrives(x, c) ==
  /\ c \in CallsOf(x)
  /\ FindReplay(c)
  /\ key'[c] = request[x].key /\ body'[c] = request[x].body
  /\ UNCHANGED clientVars

ClientsNext ==
  \/ \E x \in Clients :
       \/ ExecuteAction(x) \/ ReceiveAnswer(x) \/ ReceiveRefusal(x) \/ GiveUp(x)
       \/ \E c \in Calls : Attempt(x, c) \/ AttemptArrives(x, c)
  \/ \E c \in Calls \ Sent : FindReplay(c) /\ UNCHANGED clientVars
  \/ \E c \in Calls : (CreateExecutionRun(c) \/ RememberResponse(c) \/ RememberFails(c) \/ Crash(c))
                      /\ UNCHANGED clientVars
  \/ \E k \in Keys : (Lapse(k) \/ SweepExpiredKey(k)) /\ UNCHANGED clientVars

ClientsSpec == ClientsInit /\ [][ClientsNext]_allVars

-----------------------------------------------------------------------------
(* Properties.                                                             *)

(* One executeAction, however often it is retried, creates no second run   *)
(* once an attempt was answered and its row stands, even when the answer   *)
(* was lost: only attempts given up while they were served can.            *)
RetriesRunOnce ==
  \A x \in Clients : \A i, j \in DOMAIN attempts[x] :
    i < j /\ attempts[x][i] \in kept \ abandoned => attempts[x][j] \notin created

(* What a client ends with is the run of its own request.                  *)
ClientsGetTheirOwnRun ==
  \A x \in Clients : result[x] \in Calls =>
    /\ result[x] \in created
    /\ key[result[x]] = request[x].key /\ body[result[x]] = request[x].body

(* Retrying is safe behind an idempotency key: no second run, and no other *)
(* client's answer.                                                        *)
RetriesAreSafe == RetriesRunOnce /\ ClientsGetTheirOwnRun
=============================================================================
