------------------------- MODULE Idempotency_proofs -------------------------
(***************************************************************************)
(* Idempotency keys for any number of calls, keys and bodies, and the      *)
(* clients that retry behind them, any number of those with any number of  *)
(* attempts.                                                               *)
(***************************************************************************)
EXTENDS Clients, TLAPS

(* A row names a run that was created for its key and its fingerprint.     *)
RowsAreOwn ==
  \A k \in Keys : stored[k] # NoRow =>
    /\ stored[k].run \in created
    /\ key[stored[k].run] = k /\ body[stored[k].run] = stored[k].fingerprint

(* Only a call that has arrived creates, is kept or is answered.           *)
Arrived ==
  \A c \in Calls :
    /\ pc[c] = "new" => c \notin created /\ c \notin kept /\ reply[c] = NoReply
    /\ pc[c] = "remember" => c \in created

KeptRowsStand == \A d \in kept : stored[key[d]] # NoRow /\ stored[key[d]].live

(* A call that went past the lookup found no standing row under its key.   *)
Passed ==
  \A c \in Calls : \A d \in after[c] :
    /\ pc[d] # "new"
    /\ c \in created \/ pc[c] \in {"execute", "remember"} => key[d] # key[c]

(* What a call brought is known from its arrival on.                       *)
Addressed == \A c \in Calls : pc[c] # "new" => key[c] \in Keys /\ body[c] \in Bodies

(* The inductive invariants of the two theorems.                           *)
ReplyInv == RowsAreOwn /\ Arrived /\ RepliesMatchRequests
KeptInv == Arrived /\ KeptRowsStand /\ Passed

ArrivesWith(c, k, b) ==
  /\ pc[c] = "new"
  /\ key' = [key EXCEPT ![c] = k] /\ body' = [body EXCEPT ![c] = b]
  /\ reply' = [reply EXCEPT ![c] = Replay(stored[k], b)]
  /\ pc' = [pc EXCEPT ![c] = IF Replay(stored[k], b) = NoReply THEN "execute" ELSE "done"]
  /\ stored' = stored /\ created' = created /\ kept' = kept
  /\ after' = [after EXCEPT ![c] = kept]

LEMMA Arrival ==
  ASSUME NEW c \in Calls, FindReplay(c)
  PROVE  \E k \in Keys, b \in Bodies : ArrivesWith(c, k, b)
BY DEF FindReplay, ArrivesWith, Goto, Reply

(* The INSERT either lands in an empty place or does nothing.              *)
Lands(c) ==
  /\ stored[key[c]] = NoRow
  /\ stored' = [stored EXCEPT ![key[c]] = [fingerprint |-> body[c], run |-> c, live |-> TRUE]]
  /\ kept' = kept \cup {c}

LEMMA Insertion ==
  ASSUME NEW c \in Calls, RememberResponse(c)
  PROVE  /\ pc[c] = "remember" /\ pc' = [pc EXCEPT ![c] = "done"]
         /\ reply' = [reply EXCEPT ![c] = c]
         /\ created' = created /\ key' = key /\ body' = body /\ after' = after
         /\ \/ Lands(c)
            \/ stored' = stored /\ kept' = kept
<1>1. CASE stored[key[c]] = NoRow
  BY <1>1 DEF RememberResponse, Lands, Goto, Reply
<1>2. CASE stored[key[c]] # NoRow
  BY <1>2 DEF RememberResponse, Goto, Reply
<1> QED BY <1>1, <1>2

LEMMA TypeInit == Init => TypeOK /\ Addressed
BY DEF Init, TypeOK, Addressed

LEMMA TypeStep == TypeOK /\ Addressed /\ [Next]_vars => TypeOK' /\ Addressed'
<1> SUFFICES ASSUME TypeOK, Addressed, [Next]_vars PROVE TypeOK' /\ Addressed'
  OBVIOUS
<1> USE DEF TypeOK, Addressed, Rows, callVars, Goto, Reply
<1>1. ASSUME NEW c \in Calls, FindReplay(c) PROVE TypeOK' /\ Addressed'
  <2>1. PICK k \in Keys, b \in Bodies : ArrivesWith(c, k, b)
    BY <1>1, Arrival
  <2>2. Replay(stored[k], b) \in Calls \cup {NoReply, Refused, Conflict}
    <3>1. stored[k] \in Rows \cup {NoRow}
      OBVIOUS
    <3> QED BY <3>1 DEF Replay
  <2> QED BY <2>1, <2>2 DEF ArrivesWith
<1>2. ASSUME NEW c \in Calls, CreateExecutionRun(c) PROVE TypeOK' /\ Addressed'
  BY <1>2 DEF CreateExecutionRun
<1>3. ASSUME NEW c \in Calls, RememberResponse(c) PROVE TypeOK' /\ Addressed'
  <2>1. pc[c] = "remember" /\ key[c] \in Keys /\ body[c] \in Bodies
    BY <1>3, Insertion
  <2>2. [fingerprint |-> body[c], run |-> c, live |-> TRUE] \in Rows
    BY <2>1
  <2>3. stored' \in [Keys -> Rows \cup {NoRow}] /\ kept' \in SUBSET Calls
    <3>1. CASE Lands(c)
      <4>1. stored' = [stored EXCEPT ![key[c]] = [fingerprint |-> body[c], run |-> c, live |-> TRUE]]
        BY <3>1 DEF Lands
      <4>2. stored' \in [Keys -> Rows \cup {NoRow}]
        BY <2>1, <2>2, <4>1
      <4> QED BY <3>1, <4>2 DEF Lands
    <3>2. CASE stored' = stored /\ kept' = kept
      BY <3>2
    <3> QED BY <1>3, <3>1, <3>2, Insertion
  <2> QED BY <1>3, <2>1, <2>3, Insertion
<1>4. ASSUME NEW c \in Calls, RememberFails(c) PROVE TypeOK' /\ Addressed'
  BY <1>4 DEF RememberFails
<1>5. ASSUME NEW c \in Calls, Crash(c) PROVE TypeOK' /\ Addressed'
  BY <1>5 DEF Crash
<1>6. ASSUME NEW k \in Keys, Lapse(k) PROVE TypeOK' /\ Addressed'
  <2>1. stored[k] \in Rows
    BY <1>6 DEF Lapse
  <2>2. [stored[k] EXCEPT !.live = FALSE] \in Rows
    BY <2>1
  <2>3. stored' = [stored EXCEPT ![k] = [stored[k] EXCEPT !.live = FALSE]]
    BY <1>6 DEF Lapse
  <2>4. stored' \in [Keys -> Rows \cup {NoRow}]
    BY <2>2, <2>3
  <2> QED BY <1>6, <2>4 DEF Lapse
<1>7. ASSUME NEW k \in Keys, SweepExpiredKey(k) PROVE TypeOK' /\ Addressed'
  BY <1>7 DEF SweepExpiredKey
<1>8. CASE UNCHANGED vars
  BY <1>8 DEF vars
<1> QED BY <1>1, <1>2, <1>3, <1>4, <1>5, <1>6, <1>7, <1>8 DEF Next

-----------------------------------------------------------------------------
(* The table, the locals of a call and the history keep their types.       *)
THEOREM TypeCorrect == Spec => []TypeOK
<1>1. Spec => [](TypeOK /\ Addressed)
  BY TypeInit, TypeStep, PTL DEF Spec
<1> QED BY <1>1, PTL

LEMMA ReplyInit == Init => ReplyInv
BY RepliesAreDistinct DEF Init, ReplyInv, RowsAreOwn, Arrived, RepliesMatchRequests

LEMMA ReplyStep == TypeOK /\ Addressed /\ ReplyInv /\ [Next]_vars => ReplyInv'
<1> SUFFICES ASSUME TypeOK, Addressed, ReplyInv, [Next]_vars PROVE ReplyInv'
  OBVIOUS
<1> USE RepliesAreDistinct DEF TypeOK, Addressed, Rows, ReplyInv, RowsAreOwn, Arrived,
        RepliesMatchRequests, SameRequest, callVars, Goto, Reply
<1>1. ASSUME NEW c \in Calls, FindReplay(c) PROVE ReplyInv'
  <2>1. PICK k \in Keys, b \in Bodies : ArrivesWith(c, k, b)
    BY <1>1, Arrival
  <2>2. c \notin created /\ pc[c] = "new"
    BY <2>1 DEF ArrivesWith
  <2>3. Replay(stored[k], b) \in Calls =>
          /\ Replay(stored[k], b) \in created
          /\ key[Replay(stored[k], b)] = k /\ body[Replay(stored[k], b)] = b
    BY DEF Replay
  <2> USE DEF ArrivesWith
  <2>4. RowsAreOwn'
    BY <2>1, <2>2
  <2>5. Arrived'
    BY <2>1, <2>2
  <2>6. RepliesMatchRequests'
    BY <2>1, <2>2, <2>3
  <2> QED BY <2>4, <2>5, <2>6
<1>2. ASSUME NEW c \in Calls, CreateExecutionRun(c) PROVE ReplyInv'
  BY <1>2 DEF CreateExecutionRun
<1>3. ASSUME NEW c \in Calls, RememberResponse(c) PROVE ReplyInv'
  <2>1. pc[c] = "remember" /\ c \in created /\ key[c] \in Keys
    BY <1>3, Insertion
  <2>2. RowsAreOwn'
    <3>1. CASE Lands(c)
      <4>1. stored' = [stored EXCEPT ![key[c]] = [fingerprint |-> body[c], run |-> c, live |-> TRUE]]
        BY <3>1 DEF Lands
      <4>2. stored'[key[c]].run = c /\ stored'[key[c]].fingerprint = body[c]
        BY <2>1, <4>1
      <4>3. \A k \in Keys \ {key[c]} : stored'[k] = stored[k]
        BY <4>1
      <4> QED BY <1>3, <2>1, <4>2, <4>3, Insertion
    <3>2. CASE stored' = stored
      BY <1>3, <3>2, Insertion
    <3> QED BY <1>3, <3>1, <3>2, Insertion
  <2>3. Arrived'
    <3>1. pc' = [pc EXCEPT ![c] = "done"] /\ created' = created /\ kept' \subseteq kept \cup {c}
      BY <1>3, Insertion DEF Lands
    <3>2. reply' = [reply EXCEPT ![c] = c]
      BY <1>3, Insertion
    <3> QED BY <2>1, <3>1, <3>2
  <2>4. RepliesMatchRequests'
    BY <1>3, <2>1, Insertion
  <2> QED BY <2>2, <2>3, <2>4
<1>4. ASSUME NEW c \in Calls, RememberFails(c) PROVE ReplyInv'
  BY <1>4 DEF RememberFails
<1>5. ASSUME NEW c \in Calls, Crash(c) PROVE ReplyInv'
  BY <1>5 DEF Crash
<1>6. ASSUME NEW k \in Keys, Lapse(k) PROVE ReplyInv'
  BY <1>6 DEF Lapse
<1>7. ASSUME NEW k \in Keys, SweepExpiredKey(k) PROVE ReplyInv'
  BY <1>7 DEF SweepExpiredKey
<1>8. CASE UNCHANGED vars
  BY <1>8 DEF vars
<1> QED BY <1>1, <1>2, <1>3, <1>4, <1>5, <1>6, <1>7, <1>8 DEF Next

(* A caller is only told of a run created for its own key and body.        *)
THEOREM ReplySafety == Spec => []RepliesMatchRequests
<1>1. Init => TypeOK /\ Addressed /\ ReplyInv
  BY TypeInit, ReplyInit
<1>2. TypeOK /\ Addressed /\ ReplyInv /\ [Next]_vars => TypeOK' /\ Addressed' /\ ReplyInv'
  BY TypeStep, ReplyStep
<1>3. ReplyInv => RepliesMatchRequests
  BY DEF ReplyInv
<1> QED BY <1>1, <1>2, <1>3, PTL DEF Spec

-----------------------------------------------------------------------------
LEMMA KeptInit == Init => KeptInv
BY DEF Init, KeptInv, Arrived, KeptRowsStand, Passed

LEMMA KeptStep == TypeOK /\ Addressed /\ KeptInv /\ [Next]_vars => KeptInv'
<1> SUFFICES ASSUME TypeOK, Addressed, KeptInv, [Next]_vars PROVE KeptInv'
  OBVIOUS
<1> USE DEF TypeOK, Addressed, KeptInv, Arrived, KeptRowsStand, Passed, callVars, Goto, Reply
<1>1. ASSUME NEW c \in Calls, FindReplay(c) PROVE KeptInv'
  <2>1. PICK k \in Keys, b \in Bodies : ArrivesWith(c, k, b)
    BY <1>1, Arrival
  <2>2. pc[c] = "new" /\ c \notin created /\ c \notin kept
    BY <2>1 DEF ArrivesWith
  <2>3. ASSUME pc'[c] = "execute", NEW d \in kept PROVE key[d] # k
    <3>1. stored[key[d]] # NoRow /\ stored[key[d]].live
      OBVIOUS
    <3>2. Replay(stored[k], b) = NoReply
      BY <2>1, <2>3 DEF ArrivesWith
    <3>3. CASE key[d] = k
      <4>1. stored[k] \in Rows /\ stored[k] # NoRow /\ stored[k].live
        BY <3>1, <3>3
      <4> QED BY <3>2, <4>1, RepliesAreDistinct DEF Replay, Rows
    <3> QED BY <3>3
  <2>4. Arrived'
    BY <2>1, <2>2 DEF ArrivesWith
  <2>5. KeptRowsStand'
    BY <2>1, <2>2 DEF ArrivesWith
  <2>6. Passed'
    <3> SUFFICES ASSUME NEW e \in Calls, NEW d \in after'[e]
                 PROVE  /\ pc'[d] # "new"
                        /\ e \in created \/ pc'[e] \in {"execute", "remember"} => key'[d] # key'[e]
      BY <2>1 DEF ArrivesWith
    <3>1. CASE e = c
      BY <2>1, <2>2, <2>3, <3>1 DEF ArrivesWith
    <3>2. CASE e # c
      BY <2>1, <2>2, <3>2 DEF ArrivesWith
    <3> QED BY <3>1, <3>2
  <2> QED BY <2>4, <2>5, <2>6
<1>2. ASSUME NEW c \in Calls, CreateExecutionRun(c) PROVE KeptInv'
  BY <1>2 DEF CreateExecutionRun
<1>3. ASSUME NEW c \in Calls, RememberResponse(c) PROVE KeptInv'
  <2>1. pc[c] = "remember" /\ c \in created /\ key[c] \in Keys
    BY <1>3, Insertion
  <2>2. Arrived'
    <3>1. pc' = [pc EXCEPT ![c] = "done"] /\ created' = created /\ kept' \subseteq kept \cup {c}
      BY <1>3, Insertion DEF Lands
    <3>2. reply' = [reply EXCEPT ![c] = c]
      BY <1>3, Insertion
    <3> QED BY <2>1, <3>1, <3>2
  <2>3. KeptRowsStand'
    <3>1. CASE Lands(c)
      <4> DEFINE row == [fingerprint |-> body[c], run |-> c, live |-> TRUE]
      <4>1. row # NoRow /\ row.live
        <5>1. row \in [fingerprint : Bodies, run : Calls, live : BOOLEAN]
          BY <2>1, <1>3, Insertion
        <5> QED BY <5>1, NoRowIsNoRow
      <4>2. stored'[key[c]] = row /\ kept' = kept \cup {c} /\ stored[key[c]] = NoRow
        BY <2>1, <3>1 DEF Lands
      <4>3. \A k \in Keys \ {key[c]} : stored'[k] = stored[k]
        BY <3>1 DEF Lands
      <4>4. ASSUME NEW d \in kept PROVE key[d] \in Keys \ {key[c]}
        BY <4>2
      <4> HIDE DEF row
      <4> QED BY <1>3, <4>1, <4>2, <4>3, <4>4, Insertion
    <3>2. CASE stored' = stored /\ kept' = kept
      BY <1>3, <3>2, Insertion
    <3> QED BY <1>3, <3>1, <3>2, Insertion
  <2>4. Passed'
    BY <1>3, <2>1, Insertion
  <2> QED BY <2>2, <2>3, <2>4
<1>4. ASSUME NEW c \in Calls, RememberFails(c) PROVE KeptInv'
  BY <1>4 DEF RememberFails
<1>5. ASSUME NEW c \in Calls, Crash(c) PROVE KeptInv'
  BY <1>5 DEF Crash
<1>6. ASSUME NEW k \in Keys, Lapse(k) PROVE KeptInv'
  BY <1>6 DEF Lapse
<1>7. ASSUME NEW k \in Keys, SweepExpiredKey(k) PROVE KeptInv'
  BY <1>7 DEF SweepExpiredKey
<1>8. CASE UNCHANGED vars
  BY <1>8 DEF vars
<1> QED BY <1>1, <1>2, <1>3, <1>4, <1>5, <1>6, <1>7, <1>8 DEF Next

(* While a key's row stands, no later call under the key creates a run.    *)
THEOREM KeptSafety == Spec => []NoSecondRunWhileKept
<1>1. Init => TypeOK /\ Addressed /\ KeptInv
  BY TypeInit, KeptInit
<1>2. TypeOK /\ Addressed /\ KeptInv /\ [Next]_vars => TypeOK' /\ Addressed' /\ KeptInv'
  BY TypeStep, KeptStep
<1>3. TypeOK /\ KeptInv => NoSecondRunWhileKept
  <2> SUFFICES ASSUME TypeOK, KeptInv, NEW c \in created, NEW d \in after[c]
               PROVE  key[d] # key[c]
    BY DEF NoSecondRunWhileKept
  <2>1. c \in Calls
    BY DEF TypeOK
  <2> QED BY <2>1 DEF KeptInv, Passed
<1> QED BY <1>1, <1>2, <1>3, PTL DEF Spec

-----------------------------------------------------------------------------
(* The clients.  Whatever they do, the server takes its own steps.         *)

ServerInv == TypeOK /\ Addressed /\ ReplyInv /\ KeptInv

LEMMA ServerStep == ClientsNext => [Next]_vars
BY DEF ClientsNext, Next, ExecuteAction, Attempt, ReceiveAnswer, ReceiveRefusal, GiveUp,
       AttemptArrives

LEMMA ServerInvStep == ServerInv /\ [ClientsNext]_allVars => ServerInv'
<1>1. [ClientsNext]_allVars => [Next]_vars
  BY ServerStep DEF allVars, vars
<1> QED BY <1>1, TypeStep, ReplyStep, KeptStep DEF ServerInv

(* A call is done for good, and what it brought and made stays.            *)
LEMMA CallsGoOn ==
  ASSUME ServerInv, [Next]_vars, NEW c \in Calls, pc[c] # "new"
  PROVE  /\ pc'[c] # "new" /\ key'[c] = key[c] /\ body'[c] = body[c] /\ after'[c] = after[c]
         /\ pc[c] = "done" => pc'[c] = "done"
         /\ c \in created => c \in created'
<1> USE DEF ServerInv, TypeOK, Goto, Reply, callVars
<1>1. ASSUME NEW d \in Calls, FindReplay(d)
      PROVE  /\ d # c /\ pc'[c] = pc[c] /\ key'[c] = key[c] /\ body'[c] = body[c]
             /\ after'[c] = after[c] /\ created' = created
  BY <1>1, Arrival DEF ArrivesWith
<1>2. ASSUME NEW d \in Calls, RememberResponse(d)
      PROVE  /\ pc[d] = "remember" /\ pc' = [pc EXCEPT ![d] = "done"]
             /\ key' = key /\ body' = body /\ after' = after /\ created' = created
  BY <1>2, Insertion
<1> QED BY <1>1, <1>2 DEF Next, CreateExecutionRun, RememberFails, Crash, Lapse, SweepExpiredKey, vars

ClientsTypeOK ==
  /\ attempts \in [Clients -> Seq(Calls)]
  /\ awaited \in [Clients -> Calls \cup {NoReply}]
  /\ result \in [Clients -> Calls \cup {NoReply, Refused, Conflict}]
  /\ request \in [Clients -> [key : Keys, body : Bodies] \cup {NoReply}]
  /\ abandoned \in SUBSET Calls

(* A call is an attempt of one client, once.                               *)
OneOwner ==
  \A x, y \in Clients : \A i \in DOMAIN attempts[x], j \in DOMAIN attempts[y] :
    attempts[x][i] = attempts[y][j] => x = y /\ i = j

(* It carries its client's key and body, from its arrival on.              *)
OwnRequest ==
  \A x \in Clients : \A i \in DOMAIN attempts[x] :
    /\ request[x] # NoReply
    /\ pc[attempts[x][i]] # "new" =>
         key[attempts[x][i]] = request[x].key /\ body[attempts[x][i]] = request[x].body

(* A client waits for its latest attempt, and has dealt with the others;   *)
(* it ends with something after one attempt at least.                      *)
LatestIsAwaited ==
  \A x \in Clients :
    /\ result[x] # NoReply => attempts[x] # <<>>
    /\ awaited[x] # NoReply => attempts[x] # <<>> /\ awaited[x] = attempts[x][Len(attempts[x])]
    /\ \A i \in DOMAIN attempts[x] :
         i < Len(attempts[x]) \/ awaited[x] = NoReply =>
           pc[attempts[x][i]] = "done" \/ attempts[x][i] \in abandoned

(* An attempt comes after those whose row stands, unless they overlapped.  *)
KeptBefore ==
  \A x \in Clients : \A i, j \in DOMAIN attempts[x] :
    i < j /\ attempts[x][i] \in kept \ abandoned /\ pc[attempts[x][j]] # "new" =>
      attempts[x][i] \in after[attempts[x][j]]

ClientInv ==
  /\ ClientsTypeOK /\ OneOwner /\ OwnRequest /\ LatestIsAwaited /\ KeptBefore
  /\ ClientsGetTheirOwnRun

LEMMA ClientInit == ClientsInit => ServerInv /\ ClientInv
<1> SUFFICES ASSUME ClientsInit PROVE ServerInv /\ ClientInv
  OBVIOUS
<1>1. ServerInv
  BY TypeInit, ReplyInit, KeptInit DEF ClientsInit, ServerInv
<1>2. ClientInv
  BY RepliesAreDistinct DEF ClientsInit, ClientInv, ClientsTypeOK, OneOwner, OwnRequest,
     LatestIsAwaited, KeptBefore, ClientsGetTheirOwnRun
<1> QED BY <1>1, <1>2

(* A new attempt is one call more at the end.                              *)
LEMMA AttemptIsLast ==
  ASSUME ClientsTypeOK, NEW x \in Clients, NEW c \in Calls, Attempt(x, c)
  PROVE  /\ attempts' \in [Clients -> Seq(Calls)]
         /\ \A y \in Clients \ {x} : attempts'[y] = attempts[y]
         /\ Len(attempts'[x]) = Len(attempts[x]) + 1
         /\ attempts'[x][Len(attempts[x]) + 1] = c
         /\ \A i \in DOMAIN attempts'[x] :
              i # Len(attempts[x]) + 1 => i \in DOMAIN attempts[x] /\ attempts'[x][i] = attempts[x][i]
<1>1. attempts[x] \in Seq(Calls) /\ attempts' = [attempts EXCEPT ![x] = Append(attempts[x], c)]
  BY DEF ClientsTypeOK, Attempt
<1>2. attempts'[x] = Append(attempts[x], c)
  BY <1>1 DEF ClientsTypeOK
<1>3. Append(attempts[x], c) \in Seq(Calls)
  BY <1>1
<1> QED BY <1>1, <1>2, <1>3 DEF ClientsTypeOK

LEMMA ClientTypeStep ==
  ASSUME ServerInv, ClientsTypeOK, ClientsNext PROVE ClientsTypeOK'
<1> USE DEF ClientsTypeOK, clientVars, TryAgainOrFail
<1>1. ASSUME NEW x \in Clients, ExecuteAction(x) PROVE ClientsTypeOK'
  BY <1>1 DEF ExecuteAction
<1>2. ASSUME NEW x \in Clients, NEW c \in Calls, Attempt(x, c) PROVE ClientsTypeOK'
  <2>1. attempts' \in [Clients -> Seq(Calls)]
    BY <1>2, AttemptIsLast
  <2> QED BY <1>2, <2>1 DEF Attempt
<1>3. ASSUME NEW x \in Clients, ReceiveAnswer(x) \/ ReceiveRefusal(x) PROVE ClientsTypeOK'
  BY <1>3 DEF ReceiveAnswer, ReceiveRefusal
<1>4. ASSUME NEW x \in Clients, GiveUp(x) PROVE ClientsTypeOK'
  BY <1>4 DEF GiveUp
<1>5. CASE UNCHANGED clientVars
  BY <1>5
<1> QED BY <1>1, <1>2, <1>3, <1>4, <1>5 DEF ClientsNext, AttemptArrives

(* What an answered client was told of stays its own: runs are not undone, *)
(* and the calls that made them came before.                               *)
LEMMA ResultsStay ==
  ASSUME ServerInv, ClientsGetTheirOwnRun, [Next]_vars, NEW x \in Clients,
         result[x] \in Calls, result'[x] = result[x], request'[x] = request[x]
  PROVE  /\ result'[x] \in created'
         /\ key'[result'[x]] = request'[x].key /\ body'[result'[x]] = request'[x].body
<1>1. result[x] \in created /\ pc[result[x]] # "new"
  BY DEF ClientsGetTheirOwnRun, ServerInv, ReplyInv, Arrived
<1> QED BY <1>1, CallsGoOn DEF ClientsGetTheirOwnRun

LEMMA ArrivalStep ==
  ASSUME ServerInv, ClientInv, NEW x \in Clients, NEW c \in Calls, AttemptArrives(x, c)
  PROVE  ClientInv'
<1> USE DEF ClientInv, ClientsTypeOK
<1>1. PICK i \in DOMAIN attempts[x] : c = attempts[x][i]
  BY DEF AttemptArrives, CallsOf
<1>2. PICK k \in Keys, b \in Bodies : ArrivesWith(c, k, b)
  BY Arrival DEF AttemptArrives
<1>3. key'[c] = request[x].key /\ body'[c] = request[x].body /\ UNCHANGED clientVars
  BY DEF AttemptArrives
<1> USE DEF clientVars
<1>4. [Next]_vars
  BY DEF AttemptArrives, Next
<1>5. pc[c] = "new" /\ \A d \in Calls \ {c} : pc'[d] = pc[d] /\ key'[d] = key[d] /\ body'[d] = body[d] /\ after'[d] = after[d]
  BY <1>2 DEF ArrivesWith, ServerInv, TypeOK
<1>6. pc'[c] # "new" /\ after'[c] = kept /\ kept' = kept
  BY <1>2 DEF ArrivesWith, ServerInv, TypeOK
<1>7. \A y \in Clients : \A j \in DOMAIN attempts[y] : attempts[y][j] \in Calls
  OBVIOUS
<1>8. OwnRequest'
  <2> SUFFICES ASSUME NEW y \in Clients, NEW j \in DOMAIN attempts[y]
               PROVE  /\ request[y] # NoReply
                      /\ pc'[attempts[y][j]] # "new" =>
                           key'[attempts[y][j]] = request[y].key /\ body'[attempts[y][j]] = request[y].body
    BY <1>3 DEF OwnRequest
  <2>1. CASE attempts[y][j] = c
    BY <1>1, <1>3, <2>1 DEF OwnRequest, OneOwner
  <2>2. CASE attempts[y][j] # c
    BY ZenonT(60), <1>5, <1>7, <2>2 DEF OwnRequest
  <2> QED BY <2>1, <2>2
<1>9. LatestIsAwaited'
  BY ZenonT(60), <1>3, <1>5, <1>7 DEF LatestIsAwaited
<1>10. KeptBefore'
  BY <1>3, <1>5, <1>6, <1>7 DEF KeptBefore
<1>11. ClientsGetTheirOwnRun'
  BY <1>3, <1>4, ResultsStay DEF ClientsGetTheirOwnRun
<1> QED BY <1>3, <1>8, <1>9, <1>10, <1>11 DEF OneOwner

LEMMA AttemptStep ==
  ASSUME ServerInv, ClientInv, NEW x \in Clients, NEW c \in Calls, Attempt(x, c)
  PROVE  ClientInv'
<1> USE DEF ClientInv
<1>1. /\ \A y \in Clients \ {x} : attempts'[y] = attempts[y]
      /\ Len(attempts'[x]) = Len(attempts[x]) + 1
      /\ attempts'[x][Len(attempts[x]) + 1] = c
      /\ \A i \in DOMAIN attempts'[x] :
           i # Len(attempts[x]) + 1 => i \in DOMAIN attempts[x] /\ attempts'[x][i] = attempts[x][i]
  BY AttemptIsLast
<1>2. /\ ClientsTypeOK'
  BY ClientTypeStep DEF ClientsNext
<1>3. /\ pc[c] = "new" /\ request[x] # NoReply /\ awaited[x] = NoReply
      /\ \A y \in Clients : \A i \in DOMAIN attempts[y] : attempts[y][i] # c
      /\ awaited' = [awaited EXCEPT ![x] = c]
      /\ UNCHANGED <<vars, request, result, abandoned>>
  BY DEF Attempt, Sent, CallsOf
<1>4. /\ attempts[x] \in Seq(Calls) /\ attempts'[x] \in Seq(Calls)
      /\ awaited'[x] = c /\ \A y \in Clients \ {x} : awaited'[y] = awaited[y]
  BY <1>2, <1>3 DEF ClientsTypeOK
<1>5. OneOwner'
  <2> SUFFICES ASSUME NEW y \in Clients, NEW z \in Clients, NEW i \in DOMAIN attempts'[y],
                      NEW j \in DOMAIN attempts'[z], attempts'[y][i] = attempts'[z][j]
               PROVE  y = z /\ i = j
    BY DEF OneOwner
  <2> DEFINE fresh(w, n) == w = x /\ n = Len(attempts[x]) + 1
  <2>1. \A w \in Clients : \A n \in DOMAIN attempts'[w] :
          IF fresh(w, n) THEN attempts'[w][n] = c
          ELSE n \in DOMAIN attempts[w] /\ attempts'[w][n] = attempts[w][n] /\ attempts[w][n] # c
    BY <1>1, <1>3
  <2>2. fresh(y, i) <=> fresh(z, j)
    BY <2>1
  <2> QED BY <2>1, <2>2 DEF OneOwner
<1>6. OwnRequest'
  BY <1>1, <1>3 DEF OwnRequest, vars, callVars
<1>7. LatestIsAwaited'
  <2> SUFFICES ASSUME NEW y \in Clients
               PROVE  LatestIsAwaited!(y)'
    BY DEF LatestIsAwaited
  <2>1. CASE y = x
    <3>1. \A i \in DOMAIN attempts'[x] : i < Len(attempts'[x]) => i \in DOMAIN attempts[x] /\ attempts'[x][i] = attempts[x][i]
      BY <1>1, <1>4
    <3>2. c # NoReply
      BY RepliesAreDistinct
    <3>3. attempts'[x] # <<>>
      BY <1>1, <1>4
    <3> QED BY <1>1, <1>3, <1>4, <2>1, <3>1, <3>2, <3>3 DEF LatestIsAwaited, vars, callVars
  <2>2. CASE y # x
    BY <1>1, <1>3, <1>4, <2>2 DEF LatestIsAwaited, vars, callVars
  <2> QED BY <2>1, <2>2
<1>8. KeptBefore'
  <2> SUFFICES ASSUME NEW y \in Clients, NEW i \in DOMAIN attempts'[y], NEW j \in DOMAIN attempts'[y],
                      i < j, attempts'[y][i] \in kept \ abandoned, pc[attempts'[y][j]] # "new"
               PROVE  attempts'[y][i] \in after[attempts'[y][j]]
    BY <1>3 DEF KeptBefore, vars, callVars
  <2>1. CASE y = x
    <3>1. j # Len(attempts[x]) + 1
      BY <1>1, <1>3, <2>1
    <3>2. i # Len(attempts[x]) + 1
      BY <1>1, <1>4, <2>1
    <3> QED BY <1>1, <2>1, <3>1, <3>2 DEF KeptBefore
  <2>2. CASE y # x
    BY <1>1, <2>2 DEF KeptBefore
  <2> QED BY <2>1, <2>2
<1>9. ClientsGetTheirOwnRun'
  BY <1>3 DEF ClientsGetTheirOwnRun, vars, callVars
<1> QED BY <1>2, <1>5, <1>6, <1>7, <1>8, <1>9

LEMMA AnswerStep ==
  ASSUME ServerInv, ClientInv, NEW x \in Clients,
         ExecuteAction(x) \/ ReceiveAnswer(x) \/ ReceiveRefusal(x) \/ GiveUp(x)
  PROVE  ClientInv'
<1> USE DEF ClientInv
<1>1. ClientsTypeOK' /\ attempts' = attempts /\ UNCHANGED vars
  BY ClientTypeStep DEF ClientsNext, ExecuteAction, ReceiveAnswer, ReceiveRefusal, GiveUp
<1> USE DEF ClientsTypeOK, vars, callVars
<1>2. abandoned \subseteq abandoned'
  BY DEF ExecuteAction, ReceiveAnswer, ReceiveRefusal, GiveUp
<1>3. \A y \in Clients \ {x} : request'[y] = request[y] /\ awaited'[y] = awaited[y] /\ result'[y] = result[y]
  BY DEF ExecuteAction, ReceiveAnswer, ReceiveRefusal, GiveUp, TryAgainOrFail
<1>4. OwnRequest'
  <2>1. CASE ExecuteAction(x)
    <3>1. DOMAIN attempts[x] = {}
      BY <2>1 DEF ExecuteAction, OwnRequest
    <3> QED BY <1>1, <1>3, <3>1 DEF OwnRequest
  <2>2. CASE request' = request
    BY <1>1, <2>2 DEF OwnRequest
  <2> QED BY <2>1, <2>2 DEF ReceiveAnswer, ReceiveRefusal, GiveUp
<1>5. LatestIsAwaited'
  <2>0. result'[x] # NoReply => attempts[x] # <<>>
    BY DEF LatestIsAwaited, ExecuteAction, ReceiveAnswer, ReceiveRefusal, GiveUp, TryAgainOrFail
  <2>1. CASE awaited'[x] = awaited[x]
    BY <1>1, <1>2, <1>3, <2>1, <2>0 DEF LatestIsAwaited
  <2>2. CASE awaited[x] # NoReply /\ awaited'[x] = NoReply /\ (pc[awaited[x]] = "done" \/ awaited[x] \in abandoned')
    <3>1. ASSUME NEW i \in DOMAIN attempts[x] PROVE pc[attempts[x][i]] = "done" \/ attempts[x][i] \in abandoned'
      <4>1. i < Len(attempts[x]) \/ attempts[x][i] = awaited[x]
        BY <2>2 DEF LatestIsAwaited
      <4> QED BY <1>2, <2>2, <4>1 DEF LatestIsAwaited
    <3> QED BY <1>1, <1>2, <1>3, <2>2, <2>0, <3>1 DEF LatestIsAwaited
  <2> QED BY <2>1, <2>2 DEF ExecuteAction, ReceiveAnswer, ReceiveRefusal, GiveUp, TryAgainOrFail
<1>6. KeptBefore'
  BY <1>1, <1>2 DEF KeptBefore
<1>7. ClientsGetTheirOwnRun'
  <2> SUFFICES ASSUME result'[x] \in Calls
               PROVE  /\ result'[x] \in created
                      /\ key[result'[x]] = request'[x].key /\ body[result'[x]] = request'[x].body
    <3>1. created' = created /\ key' = key /\ body' = body
      BY <1>1
    <3>2. ASSUME NEW y \in Clients \ {x}, result'[y] \in Calls
          PROVE  /\ result'[y] \in created
                 /\ key[result'[y]] = request'[y].key /\ body[result'[y]] = request'[y].body
      <4>1. result'[y] = result[y] /\ request'[y] = request[y]
        BY <1>3
      <4>2. ClientsGetTheirOwnRun
        OBVIOUS
      <4> HIDE DEF ClientsTypeOK, ClientInv, vars, callVars
      <4> QED BY <3>2, <4>1, <4>2 DEF ClientsGetTheirOwnRun
    <3> HIDE DEF ClientsTypeOK, ClientInv, vars, callVars
    <3> QED BY <3>1, <3>2 DEF ClientsGetTheirOwnRun
  <2>1. CASE result'[x] = result[x] /\ request'[x] = request[x]
    BY <2>1 DEF ClientsGetTheirOwnRun
  <2>2. CASE ExecuteAction(x)
    <3>1. result' = result /\ DOMAIN attempts[x] = {}
      BY <2>2 DEF ExecuteAction, OwnRequest
    <3>2. 1 \in DOMAIN attempts[x]
      BY <3>1, RepliesAreDistinct DEF LatestIsAwaited
    <3> QED BY <3>1, <3>2
  <2>3. CASE ReceiveAnswer(x) /\ result'[x] = reply[awaited[x]] /\ pc[awaited[x]] = "done" /\ awaited[x] # NoReply
    <3>1. attempts[x] \in Seq(Calls) /\ attempts[x] # <<>> /\ awaited[x] = attempts[x][Len(attempts[x])]
      BY <2>3 DEF LatestIsAwaited
    <3>2. Len(attempts[x]) \in DOMAIN attempts[x]
      BY <3>1
    <3>3. key[awaited[x]] = request[x].key /\ body[awaited[x]] = request[x].body
      BY <2>3, <3>1, <3>2 DEF OwnRequest
    <3>4. awaited[x] \in Calls /\ request' = request
      BY <2>3 DEF ReceiveAnswer
    <3> QED BY <2>3, <3>3, <3>4 DEF ServerInv, ReplyInv, RepliesMatchRequests, SameRequest
  <2>4. Refused \notin Calls /\ NoReply \notin Calls
    BY RepliesAreDistinct
  <2> QED BY <2>1, <2>2, <2>3, <2>4 DEF ReceiveAnswer, ReceiveRefusal, GiveUp, TryAgainOrFail
<1> QED BY <1>1, <1>4, <1>5, <1>6, <1>7 DEF OneOwner

(* The steps of the server that are not an attempt's arrival.              *)
LEMMA ServerSideStep ==
  ASSUME ServerInv, ClientInv, UNCHANGED clientVars,
         \/ \E c \in Calls \ Sent : FindReplay(c)
         \/ \E c \in Calls : CreateExecutionRun(c) \/ RememberResponse(c) \/ RememberFails(c) \/ Crash(c)
         \/ \E k \in Keys : Lapse(k) \/ SweepExpiredKey(k)
  PROVE  ClientInv'
<1> USE DEF ClientInv, clientVars
<1>1. [Next]_vars
  BY DEF Next
<1>2. \A y \in Clients : \A i \in DOMAIN attempts[y] :
        attempts[y][i] \in Calls /\ attempts[y][i] \in Sent
  BY DEF ClientsTypeOK, Sent, CallsOf
<1>3. ASSUME NEW c \in Calls, pc[c] = "new", pc'[c] # "new" PROVE c \notin Sent
  BY <1>3, Arrival, Insertion DEF CreateExecutionRun, RememberFails, Crash, Lapse, SweepExpiredKey,
     ArrivesWith, ServerInv, TypeOK, Goto, callVars
<1>4. \A c \in Calls \cap Sent :
        /\ (pc'[c] # "new") = (pc[c] # "new")
        /\ pc[c] # "new" => key'[c] = key[c] /\ body'[c] = body[c] /\ after'[c] = after[c]
        /\ pc[c] = "done" => pc'[c] = "done"
  BY <1>1, <1>3, CallsGoOn
<1>5. \A c \in kept' \ kept : c \in Calls /\ pc[c] = "remember"
  <2>1. ASSUME NEW d \in Calls, FindReplay(d) PROVE kept' = kept
    BY <2>1, Arrival DEF ArrivesWith
  <2>2. ASSUME NEW d \in Calls, CreateExecutionRun(d) \/ RememberFails(d) \/ Crash(d) PROVE kept' = kept
    BY <2>2 DEF CreateExecutionRun, RememberFails, Crash
  <2>3. ASSUME NEW d \in Calls, RememberResponse(d)
        PROVE  pc[d] = "remember" /\ kept' \subseteq kept \cup {d}
    BY <2>3, Insertion DEF Lands
  <2>4. ASSUME NEW k \in Keys, Lapse(k) \/ SweepExpiredKey(k) PROVE kept' \subseteq kept
    BY <2>4 DEF Lapse, SweepExpiredKey
  <2> QED BY <2>1, <2>2, <2>3, <2>4
<1>6. OwnRequest'
  BY <1>2, <1>4 DEF OwnRequest
<1>7. LatestIsAwaited'
  BY <1>2, <1>4 DEF LatestIsAwaited
<1>8. KeptBefore'
  <2> SUFFICES ASSUME NEW y \in Clients, NEW i \in DOMAIN attempts[y], NEW j \in DOMAIN attempts[y],
                      i < j, attempts[y][i] \in kept' \ abandoned, pc'[attempts[y][j]] # "new"
               PROVE  attempts[y][i] \in after'[attempts[y][j]]
    BY DEF KeptBefore
  <2>1. i < Len(attempts[y])
    BY DEF ClientsTypeOK
  <2>2. attempts[y][i] \in kept
    BY <1>2, <1>5, <2>1 DEF LatestIsAwaited
  <2> QED BY <1>2, <1>4, <2>2 DEF KeptBefore
<1>9. ClientsGetTheirOwnRun'
  BY <1>1, ResultsStay DEF ClientsGetTheirOwnRun
<1> QED BY <1>6, <1>7, <1>8, <1>9 DEF OneOwner, ClientsTypeOK

LEMMA ClientInvStep == ServerInv /\ ClientInv /\ [ClientsNext]_allVars => ClientInv'
<1> SUFFICES ASSUME ServerInv, ClientInv, [ClientsNext]_allVars PROVE ClientInv'
  OBVIOUS
<1>1. CASE ClientsNext
  BY <1>1, AttemptStep, AnswerStep, ArrivalStep, ServerSideStep DEF ClientsNext
<1>2. CASE UNCHANGED allVars
  BY <1>2 DEF allVars, vars, callVars, clientVars, ClientInv, ClientsTypeOK, OneOwner, OwnRequest,
     LatestIsAwaited, KeptBefore, ClientsGetTheirOwnRun
<1> QED BY <1>1, <1>2

(* However many clients retry however often: an attempt after one that was *)
(* answered makes no second run while the row stands, and a client is told *)
(* of a run made for its own key and body.                                 *)
THEOREM RetrySafety == ClientsSpec => []RetriesAreSafe
<1>1. ServerInv /\ ClientInv => RetriesAreSafe
  <2> SUFFICES ASSUME ServerInv, ClientInv, NEW x \in Clients,
                      NEW i \in DOMAIN attempts[x], NEW j \in DOMAIN attempts[x],
                      i < j, attempts[x][i] \in kept \ abandoned, attempts[x][j] \in created
               PROVE  FALSE
    BY DEF RetriesAreSafe, RetriesRunOnce, ClientInv
  <2>1. attempts[x][i] \in Calls /\ attempts[x][j] \in Calls
    BY DEF ClientInv, ClientsTypeOK
  <2>2. pc[attempts[x][i]] # "new" /\ pc[attempts[x][j]] # "new"
    BY <2>1 DEF ServerInv, ReplyInv, Arrived
  <2>3. attempts[x][i] \in after[attempts[x][j]]
    BY <2>2 DEF ClientInv, KeptBefore
  <2>4. key[attempts[x][i]] = key[attempts[x][j]]
    BY <2>2 DEF ClientInv, OwnRequest
  <2> QED BY <2>1, <2>3, <2>4 DEF ServerInv, KeptInv, Passed
<1> QED BY <1>1, ClientInit, ServerInvStep, ClientInvStep, PTL DEF ClientsSpec
=============================================================================
