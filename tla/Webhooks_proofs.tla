-------------------------- MODULE Webhooks_proofs --------------------------
(***************************************************************************)
(* What the records of webhook deliveries say, for any number of           *)
(* endpoints, events and overlapping deliverers, and any retry limit.      *)
(***************************************************************************)
EXTENDS Webhooks, FiniteSetTheorems, TLAPS

Holds(d, i) ==
  \/ \E s \in batch[d] : s.id = i
  \/ sent[d] # Nothing /\ sent[d].id = i

(* The counters: what a deliverer read or is about to write is never more  *)
(* than the requests that were made, and a row in retry has one left.      *)
CountersAreSound ==
  /\ \A i \in Deliveries :
       /\ attempts[i] <= sends[i]
       /\ status[i] = "pending" => attempts[i] < MaxAttempts
  /\ \A d \in Deliverers : \A s \in batch[d] :
       s.attempts < MaxAttempts /\ s.attempts <= sends[s.id]
  /\ \A d \in Deliverers : sent[d] # Nothing =>
       /\ sent[d].attempts <= MaxAttempts /\ sent[d].attempts <= sends[sent[d].id]
       /\ sent[d].answer = "accepted" => accepted[sent[d].id] > 0
       /\ sent[d].answer = "refused" => sent[d].id \in refused

(* A row that was not inserted yet has not been worked on.                 *)
UnqueuedIsUntouched ==
  /\ \A v \in Events, e \in Endpoints :
       toQueue[v] = Nothing \/ e \in toQueue[v] => status[<<e, v>>] = "none"
  /\ \A i \in Deliveries : status[i] = "none" =>
       attempts[i] = 0 /\ accepted[i] = 0 /\ \A d \in Deliverers : ~Holds(d, i)

(* A delivery that only one deliverer at a time has held, and none dropped.*)
Undisturbed(i) ==
  /\ accepted[i] <= 1
  /\ \A d \in Deliverers : Holds(d, i) =>
       status[i] = "pending" /\ \A other \in Deliverers : Holds(other, i) => other = d
  /\ \A d \in Deliverers : \A s \in batch[d] : s.id = i =>
       /\ accepted[i] = 0
       /\ sent[d] = Nothing \/ sent[d].id # i
       /\ \A t \in batch[d] : t.id = i => t = s
  /\ \A d \in Deliverers : sent[d] # Nothing /\ sent[d].id = i =>
       (sent[d].answer # "accepted" => accepted[i] = 0)
  /\ status[i] = "pending" /\ (\A d \in Deliverers : ~Holds(d, i)) => accepted[i] = 0

UndisturbedAreInOrder == \A i \in Deliveries : i \notin disturbed => Undisturbed(i)

WebhooksInv ==
  /\ WebhooksTypeOK /\ CountersAreSound /\ UnqueuedIsUntouched
  /\ UndisturbedAreInOrder /\ SettledTruthfully

LEMMA HoldsIsHeldBy ==
  ASSUME NEW d, NEW i
  PROVE  Holds(d, i) <=> i \in HeldBy(d)
BY DEF Holds, HeldBy

LEMMA WebhooksInvInit == WebhooksInit => WebhooksInv
<1> SUFFICES ASSUME WebhooksInit PROVE WebhooksInv
  OBVIOUS
<1> USE WebhookBounds DEF WebhooksInit
<1>1. WebhooksTypeOK
  <2>1. endpoint \in [Endpoints -> {"absent", "enabled", "disabled", "deleted"}]
    OBVIOUS
  <2>5. toQueue \in [Events -> (SUBSET Endpoints) \cup {Nothing}]
    BY Zenon
  <2>6. status \in [Deliveries -> {"none", "pending", "delivered", "dead"}]
    OBVIOUS
  <2>2. /\ due \in SUBSET Deliveries /\ older \in SUBSET (Deliveries \X Deliveries)
        /\ refused \in SUBSET Deliveries /\ disturbed \in SUBSET Deliveries
    OBVIOUS
  <2>3. /\ batch \in [Deliverers -> SUBSET Snapshots]
        /\ sent \in [Deliverers -> Attempts \cup {Nothing}]
    OBVIOUS
  <2>4. /\ attempts \in [Deliveries -> 0 .. MaxAttempts] /\ crashes \in 0 .. MaxCrashes
        /\ sends \in [Deliveries -> 0 .. MaxAttempts] /\ accepted \in [Deliveries -> 0 .. 2]
    OBVIOUS
  <2> QED BY <2>1, <2>2, <2>3, <2>4, <2>5, <2>6 DEF WebhooksTypeOK
<1>2. CountersAreSound /\ SettledTruthfully
  BY DEF CountersAreSound, SettledTruthfully
<1>3. \A d \in Deliverers, i \in Deliveries : ~Holds(d, i)
  BY DEF Holds
<1>4. UnqueuedIsUntouched
  BY <1>3 DEF UnqueuedIsUntouched, Deliveries
<1>5. UndisturbedAreInOrder
  BY <1>3 DEF UndisturbedAreInOrder, Undisturbed
<1> QED BY <1>1, <1>2, <1>4, <1>5 DEF WebhooksInv

LEMMA WebhooksTypeStep ==
  WebhooksTypeOK /\ CountersAreSound /\ [WebhooksNext]_webhookVars => WebhooksTypeOK'
<1> SUFFICES ASSUME WebhooksTypeOK, CountersAreSound, [WebhooksNext]_webhookVars PROVE WebhooksTypeOK'
  OBVIOUS
<1> USE WebhookBounds DEF WebhooksTypeOK, deliveryVars, workVars, history
<1>1. ASSUME NEW e \in Endpoints, CreateEndpoint(e) \/ DeleteEndpoint(e) PROVE WebhooksTypeOK'
  BY <1>1 DEF CreateEndpoint, DeleteEndpoint
<1>2. CASE DisableFailingEndpoints
  BY <1>2 DEF DisableFailingEndpoints
<1>3. ASSUME NEW v \in Events, EmitEvent(v) PROVE WebhooksTypeOK'
  BY <1>3 DEF EmitEvent
<1>4. ASSUME NEW v \in Events, EmitFails(v) PROVE WebhooksTypeOK'
  BY <1>4 DEF EmitFails
<1>5. ASSUME NEW v \in Events, NEW e \in Endpoints, QueueDelivery(v, e) PROVE WebhooksTypeOK'
  <2>1. <<e, v>> \in Deliveries
    BY DEF Deliveries
  <2> QED BY <1>5, <2>1 DEF QueueDelivery, BecomeDue
<1>6. ASSUME NEW i \in Deliveries, BackoffElapses(i) PROVE WebhooksTypeOK'
  BY <1>6 DEF BackoffElapses, BecomeDue
<1>7. ASSUME NEW d \in Deliverers, SelectDue(d) PROVE WebhooksTypeOK'
  <2>1. PICK taken \in SUBSET Selectable :
          /\ batch' = [batch EXCEPT ![d] = {[id |-> i, attempts |-> attempts[i]] : i \in taken}]
          /\ disturbed' = disturbed \cup (taken \cap UNION {HeldBy(other) : other \in Deliverers \ {d}})
    BY <1>7 DEF SelectDue
  <2>2. taken \subseteq Deliveries
    BY <2>1 DEF Selectable
  <2>3. {[id |-> i, attempts |-> attempts[i]] : i \in taken} \in SUBSET Snapshots
    BY <2>2 DEF Snapshots
  <2>4. disturbed' \in SUBSET Deliveries
    BY <2>1, <2>2
  <2> QED BY <1>7, <2>1, <2>3, <2>4 DEF SelectDue
<1>8. ASSUME NEW d \in Deliverers, Attempt(d) PROVE WebhooksTypeOK'
  <2>1. PICK s \in batch[d], answer \in {"accepted", "refused", "failed"} :
          /\ batch' = [batch EXCEPT ![d] = @ \ {s}]
          /\ sent' = [sent EXCEPT ![d] = [id |-> s.id, attempts |-> s.attempts + 1, answer |-> answer]]
          /\ sends' = [sends EXCEPT ![s.id] = CountUpTo(@, MaxAttempts)]
          /\ accepted' = IF answer = "accepted" THEN [accepted EXCEPT ![s.id] = CountUpTo(@, 2)] ELSE accepted
          /\ refused' = IF answer = "refused" THEN refused \cup {s.id} ELSE refused
    BY <1>8 DEF Attempt
  <2>2. s.id \in Deliveries /\ s.attempts \in Nat
    BY DEF Snapshots
  <2>3. [id |-> s.id, attempts |-> s.attempts + 1, answer |-> answer] \in Attempts
    BY <2>2 DEF Attempts
  <2>4. sends' \in [Deliveries -> 0 .. MaxAttempts] /\ accepted' \in [Deliveries -> 0 .. 2]
    BY <2>1, <2>2 DEF CountUpTo
  <2> QED BY <1>8, <2>1, <2>2, <2>3, <2>4 DEF Attempt
<1>9. ASSUME NEW d \in Deliverers, RecordOutcome(d) PROVE WebhooksTypeOK'
  <2>1. sent[d] \in Attempts /\ sent[d].attempts \in 0 .. MaxAttempts
    BY <1>9 DEF RecordOutcome, CountersAreSound, Attempts
  <2>2. sent[d].id \in Deliveries /\ StatusAfter(sent[d]) \in {"pending", "delivered", "dead"}
    BY <2>1 DEF Attempts, StatusAfter
  <2> QED BY <1>9, <2>1, <2>2 DEF RecordOutcome
<1>10. ASSUME NEW d \in Deliverers, DelivererDies(d) PROVE WebhooksTypeOK'
  <2>1. HeldBy(d) \subseteq Deliveries
    BY DEF HeldBy, Snapshots, Attempts
  <2> QED BY <1>10, <2>1 DEF DelivererDies
<1>11. CASE UNCHANGED webhookVars
  BY <1>11 DEF webhookVars
<1> QED
  BY <1>1, <1>2, <1>3, <1>4, <1>5, <1>6, <1>7, <1>8, <1>9, <1>10, <1>11 DEF WebhooksNext

(* Only deliverPending and emitEvent touch what the rest is about.         *)
Rows == <<toQueue, status, attempts, batch, sent, sends, accepted, refused, disturbed>>

LEMMA RowsStay ==
  ASSUME WebhooksInv, UNCHANGED Rows
  PROVE  CountersAreSound' /\ UnqueuedIsUntouched' /\ UndisturbedAreInOrder' /\ SettledTruthfully'
<1> USE DEF WebhooksInv, Rows, Holds
<1>1. CountersAreSound' /\ SettledTruthfully'
  BY DEF CountersAreSound, SettledTruthfully, GivenUpRightly
<1>2. UnqueuedIsUntouched'
  BY DEF UnqueuedIsUntouched
<1>3. UndisturbedAreInOrder'
  BY DEF UndisturbedAreInOrder, Undisturbed
<1> QED BY <1>1, <1>2, <1>3

LEMMA CountersStep ==
  WebhooksInv /\ WebhooksTypeOK' /\ [WebhooksNext]_webhookVars => CountersAreSound' /\ SettledTruthfully'
<1> SUFFICES ASSUME WebhooksInv, WebhooksTypeOK', [WebhooksNext]_webhookVars
             PROVE  CountersAreSound' /\ SettledTruthfully'
  OBVIOUS
<1> USE WebhookBounds DEF WebhooksInv, WebhooksTypeOK, deliveryVars, workVars, history,
        CountersAreSound, SettledTruthfully, GivenUpRightly
<1>1. CASE \/ \E e \in Endpoints : CreateEndpoint(e) \/ DeleteEndpoint(e)
           \/ DisableFailingEndpoints
           \/ \E v \in Events : EmitEvent(v) \/ EmitFails(v)
           \/ \E i \in Deliveries : BackoffElapses(i)
           \/ UNCHANGED webhookVars
  BY <1>1 DEF CreateEndpoint, DeleteEndpoint, DisableFailingEndpoints, EmitEvent, EmitFails,
              BackoffElapses, webhookVars
<1>2. ASSUME NEW v \in Events, NEW e \in Endpoints, QueueDelivery(v, e)
      PROVE  CountersAreSound' /\ SettledTruthfully'
  <2>1. <<e, v>> \in Deliveries /\ status[<<e, v>>] = "none" /\ attempts[<<e, v>>] = 0
    BY <1>2 DEF QueueDelivery, UnqueuedIsUntouched, Deliveries
  <2> QED BY <1>2, <2>1 DEF QueueDelivery
<1>3. ASSUME NEW d \in Deliverers, SelectDue(d) PROVE CountersAreSound' /\ SettledTruthfully'
  <2>1. PICK taken \in SUBSET Selectable :
          batch' = [batch EXCEPT ![d] = {[id |-> i, attempts |-> attempts[i]] : i \in taken}]
    BY <1>3 DEF SelectDue
  <2>2. \A s \in batch'[d] : s.attempts < MaxAttempts /\ s.attempts <= sends[s.id]
    BY <2>1 DEF Selectable
  <2>3. \A other \in Deliverers \ {d} : batch'[other] = batch[other]
    BY <2>1
  <2> QED BY <1>3, <2>2, <2>3 DEF SelectDue
<1>4. ASSUME NEW d \in Deliverers, Attempt(d) PROVE CountersAreSound' /\ SettledTruthfully'
  <2>1. PICK s \in batch[d], answer \in {"accepted", "refused", "failed"} :
          /\ batch' = [batch EXCEPT ![d] = @ \ {s}]
          /\ sent' = [sent EXCEPT ![d] = [id |-> s.id, attempts |-> s.attempts + 1, answer |-> answer]]
          /\ sends' = [sends EXCEPT ![s.id] = CountUpTo(@, MaxAttempts)]
          /\ accepted' = IF answer = "accepted" THEN [accepted EXCEPT ![s.id] = CountUpTo(@, 2)] ELSE accepted
          /\ refused' = IF answer = "refused" THEN refused \cup {s.id} ELSE refused
    BY <1>4 DEF Attempt
  <2>2. s.id \in Deliveries /\ s.attempts \in Nat /\ s.attempts < MaxAttempts /\ s.attempts <= sends[s.id]
    BY DEF Snapshots
  <2>3. \A i \in Deliveries : sends[i] <= sends'[i] /\ accepted[i] <= accepted'[i]
    BY <2>1, <2>2 DEF CountUpTo
  <2>4. s.attempts + 1 <= sends'[s.id] /\ (answer = "accepted" => accepted'[s.id] > 0)
    BY <2>1, <2>2 DEF CountUpTo
  <2>5. \A b \in Deliverers : batch'[b] \subseteq batch[b]
    BY <2>1
  <2>6. \A b \in Deliverers : \A t \in batch'[b] : t.attempts < MaxAttempts /\ t.attempts <= sends'[t.id]
    BY <2>3, <2>5 DEF Snapshots
  <2>7. \A b \in Deliverers : sent'[b] # Nothing =>
       /\ sent'[b].attempts <= MaxAttempts /\ sent'[b].attempts <= sends'[sent'[b].id]
       /\ sent'[b].answer = "accepted" => accepted'[sent'[b].id] > 0
       /\ sent'[b].answer = "refused" => sent'[b].id \in refused'
    <3> TAKE b \in Deliverers
    <3>1. CASE b = d
      BY <3>1, <2>1, <2>2, <2>4
    <3>2. CASE b # d /\ sent[b] # Nothing
      <4>1. sent'[b] = sent[b] /\ sent[b].id \in Deliveries /\ sent[b].attempts \in Nat
        BY <3>2, <2>1 DEF Attempts
      <4> QED BY <3>2, <4>1, <2>1, <2>3
    <3>3. CASE b # d /\ sent[b] = Nothing
      BY <3>3, <2>1
    <3> QED BY <3>1, <3>2, <3>3
  <2>8. CountersAreSound'
    BY <1>4, <2>3, <2>6, <2>7 DEF Attempt
  <2>9. SettledTruthfully'
    BY <1>4, <2>1, <2>3 DEF Attempt
  <2> QED BY <2>8, <2>9
<1>5. ASSUME NEW d \in Deliverers, RecordOutcome(d) PROVE CountersAreSound' /\ SettledTruthfully'
  <2>1. sent[d] \in Attempts /\ sent[d].id \in Deliveries /\ sent[d].attempts \in Nat
    BY <1>5 DEF RecordOutcome, Attempts
  <2>2. StatusAfter(sent[d]) = "pending" => sent[d].attempts < MaxAttempts
    BY <2>1 DEF StatusAfter, Attempts
  <2>3. /\ StatusAfter(sent[d]) = "delivered" => accepted[sent[d].id] > 0
        /\ StatusAfter(sent[d]) = "dead" => GivenUpRightly(sent[d].id)
    BY <1>5, <2>1 DEF RecordOutcome, StatusAfter, Attempts
  <2> QED BY <1>5, <2>1, <2>2, <2>3 DEF RecordOutcome
<1>6. ASSUME NEW d \in Deliverers, DelivererDies(d) PROVE CountersAreSound' /\ SettledTruthfully'
  BY <1>6 DEF DelivererDies
<1> QED
  BY <1>1, <1>2, <1>3, <1>4, <1>5, <1>6 DEF WebhooksNext

-----------------------------------------------------------------------------
(* What deliverers hold: SelectDue adds rows in retry, Attempt keeps them, *)
(* recording and dying let go.                                             *)
LEMMA SelectHolds ==
  ASSUME WebhooksTypeOK, NEW d \in Deliverers, SelectDue(d)
  PROVE  /\ \A b \in Deliverers \ {d} : batch'[b] = batch[b]
         /\ sent' = sent /\ sent[d] = Nothing /\ batch[d] = {}
         /\ \A i \in Deliveries : Holds(d, i)' => status[i] = "pending"
         /\ \A i \in Deliveries : Holds(d, i)' /\ i \notin disturbed' =>
              \A b \in Deliverers \ {d} : ~Holds(b, i)
         /\ \A s, t \in batch'[d] : s.id = t.id => s = t
<1>1. PICK taken \in SUBSET Selectable :
        /\ batch' = [batch EXCEPT ![d] = {[id |-> i, attempts |-> attempts[i]] : i \in taken}]
        /\ disturbed' = disturbed \cup (taken \cap UNION {HeldBy(other) : other \in Deliverers \ {d}})
  BY DEF SelectDue
<1>2. sent' = sent /\ sent[d] = Nothing /\ batch[d] = {}
  BY DEF SelectDue, Idle
<1>3. batch'[d] = {[id |-> i, attempts |-> attempts[i]] : i \in taken}
  BY <1>1 DEF WebhooksTypeOK
<1>4. \A b \in Deliverers \ {d} : batch'[b] = batch[b]
  BY <1>1 DEF WebhooksTypeOK
<1>5. \A i : Holds(d, i)' => i \in taken
  BY <1>2, <1>3 DEF Holds
<1>6. \A i \in taken : status[i] = "pending"
  BY <1>1 DEF Selectable
<1>7. ASSUME NEW i \in taken, i \notin disturbed', NEW b \in Deliverers \ {d} PROVE ~Holds(b, i)
  <2>1. i \notin HeldBy(b)
    BY <1>1, <1>7
  <2> QED BY <2>1, HoldsIsHeldBy
<1>8. \A s, t \in batch'[d] : s.id = t.id => s = t
  BY <1>3
<1> QED BY <1>2, <1>4, <1>5, <1>6, <1>7, <1>8

LEMMA AttemptHolds ==
  ASSUME WebhooksTypeOK, NEW d \in Deliverers, Attempt(d), NEW b \in Deliverers, NEW i \in Deliveries
  PROVE  Holds(b, i)' <=> Holds(b, i)
<1>1. PICK s \in batch[d], answer \in {"accepted", "refused", "failed"} :
        /\ batch' = [batch EXCEPT ![d] = @ \ {s}]
        /\ sent' = [sent EXCEPT ![d] = [id |-> s.id, attempts |-> s.attempts + 1, answer |-> answer]]
  BY DEF Attempt
<1>2. sent[d] = Nothing
  BY DEF Attempt
<1>3. s.id \in Deliveries /\ s.attempts + 1 \in Nat
  BY DEF WebhooksTypeOK, Snapshots
<1>4. [id |-> s.id, attempts |-> s.attempts + 1, answer |-> answer] # Nothing
  BY <1>3, WebhookBounds
<1>5. CASE b = d
  BY <1>1, <1>2, <1>4, <1>5 DEF Holds, WebhooksTypeOK
<1>6. CASE b # d
  BY <1>1, <1>6 DEF Holds, WebhooksTypeOK
<1> QED BY <1>5, <1>6

LEMMA LetGo ==
  ASSUME WebhooksTypeOK, NEW d \in Deliverers, RecordOutcome(d) \/ DelivererDies(d)
  PROVE  /\ \A b \in Deliverers : batch'[b] \subseteq batch[b]
         /\ \A b \in Deliverers : sent'[b] # Nothing => sent'[b] = sent[b] /\ b # d
         /\ \A b \in Deliverers \ {d} : batch'[b] = batch[b] /\ sent'[b] = sent[b]
         /\ \A b \in Deliverers : \A i : Holds(b, i)' => Holds(b, i)
<1>1. \A b \in Deliverers : batch'[b] \subseteq batch[b]
  BY DEF RecordOutcome, DelivererDies, WebhooksTypeOK
<1>2. \A b \in Deliverers : sent'[b] # Nothing => sent'[b] = sent[b] /\ b # d
  BY DEF RecordOutcome, DelivererDies, WebhooksTypeOK
<1>3. \A b \in Deliverers \ {d} : batch'[b] = batch[b] /\ sent'[b] = sent[b]
  BY DEF RecordOutcome, DelivererDies, WebhooksTypeOK
<1> QED BY <1>1, <1>2, <1>3 DEF Holds

LEMMA UnqueuedStep == WebhooksInv /\ [WebhooksNext]_webhookVars => UnqueuedIsUntouched'
<1> SUFFICES ASSUME WebhooksInv, [WebhooksNext]_webhookVars PROVE UnqueuedIsUntouched'
  OBVIOUS
<1> USE WebhookBounds DEF WebhooksInv, deliveryVars, workVars, history, UnqueuedIsUntouched
<1>1. CASE \/ \E e \in Endpoints : CreateEndpoint(e) \/ DeleteEndpoint(e)
           \/ DisableFailingEndpoints
           \/ \E i \in Deliveries : BackoffElapses(i)
           \/ UNCHANGED webhookVars
  <2>1. UNCHANGED Rows
    BY <1>1 DEF Rows, CreateEndpoint, DeleteEndpoint, DisableFailingEndpoints, BackoffElapses, webhookVars
  <2> QED BY <2>1, RowsStay
<1>2. ASSUME NEW v \in Events, EmitEvent(v) \/ EmitFails(v) PROVE UnqueuedIsUntouched'
  <2>1. UNCHANGED <<status, attempts, accepted, batch, sent>>
    BY <1>2 DEF EmitEvent, EmitFails
  <2>2. ASSUME NEW w \in Events, NEW e \in Endpoints, toQueue'[w] = Nothing \/ e \in toQueue'[w]
        PROVE  toQueue[w] = Nothing \/ e \in toQueue[w]
    BY <1>2, <2>2 DEF EmitEvent, EmitFails, WebhooksTypeOK
  <2> QED BY <2>1, <2>2 DEF Holds
<1>3. ASSUME NEW v \in Events, NEW e \in Endpoints, QueueDelivery(v, e) PROVE UnqueuedIsUntouched'
  <2>1. <<e, v>> \in Deliveries /\ UNCHANGED <<attempts, accepted, batch, sent>>
    BY <1>3 DEF QueueDelivery, Deliveries
  <2>2. status' = [status EXCEPT ![<<e, v>>] = "pending"]
    BY <1>3 DEF QueueDelivery
  <2>3. toQueue[v] \in SUBSET Endpoints /\ toQueue' = [toQueue EXCEPT ![v] = @ \ {e}]
    BY <1>3 DEF QueueDelivery, WebhooksTypeOK
  <2>4. ASSUME NEW w \in Events, NEW f \in Endpoints, toQueue'[w] = Nothing \/ f \in toQueue'[w]
        PROVE  status'[<<f, w>>] = "none"
    <3>1. <<f, w>> \in Deliveries
      BY DEF Deliveries
    <3>2. status[<<f, w>>] = "none" /\ <<f, w>> # <<e, v>>
      BY <2>3, <2>4 DEF WebhooksTypeOK
    <3> QED BY <3>1, <3>2, <2>1, <2>2 DEF WebhooksTypeOK
  <2>5. \A i \in Deliveries : status'[i] = "none" => status[i] = "none"
    BY <2>1, <2>2 DEF WebhooksTypeOK
  <2> QED BY <2>1, <2>4, <2>5 DEF Holds
<1>4. ASSUME NEW d \in Deliverers, SelectDue(d) PROVE UnqueuedIsUntouched'
  <2>1. UNCHANGED <<toQueue, status, attempts, accepted>>
    BY <1>4 DEF SelectDue
  <2>2. \A i \in Deliveries : status[i] = "none" => \A b \in Deliverers : ~Holds(b, i)'
    BY <1>4, SelectHolds DEF Holds
  <2> QED BY <2>1, <2>2
<1>5. ASSUME NEW d \in Deliverers, Attempt(d) PROVE UnqueuedIsUntouched'
  <2>1. UNCHANGED <<toQueue, status, attempts>>
    BY <1>5 DEF Attempt
  <2>2. \A i \in Deliveries, b \in Deliverers : Holds(b, i)' <=> Holds(b, i)
    BY <1>5, AttemptHolds
  <2>3. PICK s \in batch[d] :
          \/ accepted' = [accepted EXCEPT ![s.id] = CountUpTo(@, 2)]
          \/ accepted' = accepted
    BY <1>5 DEF Attempt
  <2>4. Holds(d, s.id) /\ s.id \in Deliveries
    BY DEF Holds, WebhooksTypeOK, Snapshots
  <2>5. \A i \in Deliveries : status[i] = "none" => accepted'[i] = accepted[i]
    BY <2>3, <2>4 DEF WebhooksTypeOK
  <2> QED BY <2>1, <2>2, <2>5
<1>6. ASSUME NEW d \in Deliverers, RecordOutcome(d) PROVE UnqueuedIsUntouched'
  <2>1. sent[d] \in Attempts /\ sent[d].id \in Deliveries /\ Holds(d, sent[d].id)
    BY <1>6 DEF RecordOutcome, WebhooksTypeOK, Attempts, Holds
  <2>2. StatusAfter(sent[d]) # "none"
    BY <2>1 DEF StatusAfter, Attempts
  <2>3. /\ status' = [status EXCEPT ![sent[d].id] = StatusAfter(sent[d])]
        /\ attempts' = [attempts EXCEPT ![sent[d].id] = sent[d].attempts]
        /\ UNCHANGED <<toQueue, accepted>>
    BY <1>6 DEF RecordOutcome
  <2>4. \A i \in Deliveries : status'[i] = "none" => status[i] = "none" /\ attempts'[i] = attempts[i]
    BY <2>1, <2>2, <2>3 DEF WebhooksTypeOK
  <2>5. \A i \in Deliveries, b \in Deliverers : Holds(b, i)' => Holds(b, i)
    BY <1>6, LetGo
  <2>6. ASSUME NEW w \in Events, NEW f \in Endpoints, toQueue[w] = Nothing \/ f \in toQueue[w]
        PROVE  status'[<<f, w>>] = "none"
    <3>1. <<f, w>> \in Deliveries /\ status[<<f, w>>] = "none"
      BY <2>6 DEF Deliveries
    <3> QED BY <3>1, <2>1, <2>3 DEF WebhooksTypeOK
  <2> QED BY <2>3, <2>4, <2>5, <2>6
<1>7. ASSUME NEW d \in Deliverers, DelivererDies(d) PROVE UnqueuedIsUntouched'
  <2>1. UNCHANGED <<toQueue, status, attempts, accepted>>
    BY <1>7 DEF DelivererDies
  <2>2. \A i \in Deliveries, b \in Deliverers : Holds(b, i)' => Holds(b, i)
    BY <1>7, LetGo
  <2> QED BY <2>1, <2>2
<1> QED
  BY <1>1, <1>2, <1>3, <1>4, <1>5, <1>6, <1>7 DEF WebhooksNext

LEMMA UndisturbedStep == WebhooksInv /\ [WebhooksNext]_webhookVars => UndisturbedAreInOrder'
<1> SUFFICES ASSUME WebhooksInv, [WebhooksNext]_webhookVars PROVE UndisturbedAreInOrder'
  OBVIOUS
<1> USE WebhookBounds DEF WebhooksInv, deliveryVars, workVars, history, UndisturbedAreInOrder
<1>1. CASE \/ \E e \in Endpoints : CreateEndpoint(e) \/ DeleteEndpoint(e)
           \/ DisableFailingEndpoints
           \/ \E i \in Deliveries : BackoffElapses(i)
           \/ UNCHANGED webhookVars
  <2>1. UNCHANGED Rows
    BY <1>1 DEF Rows, CreateEndpoint, DeleteEndpoint, DisableFailingEndpoints, BackoffElapses, webhookVars
  <2> QED BY <2>1, RowsStay
<1>2. ASSUME NEW v \in Events, EmitEvent(v) \/ EmitFails(v) PROVE UndisturbedAreInOrder'
  <2>1. UNCHANGED <<status, accepted, batch, sent, disturbed>>
    BY <1>2 DEF EmitEvent, EmitFails
  <2> QED BY <2>1 DEF Undisturbed, Holds
<1>3. ASSUME NEW v \in Events, NEW e \in Endpoints, QueueDelivery(v, e) PROVE UndisturbedAreInOrder'
  <2>1. /\ <<e, v>> \in Deliveries /\ UNCHANGED <<accepted, batch, sent, disturbed>>
        /\ status' = [status EXCEPT ![<<e, v>>] = "pending"]
    BY <1>3 DEF QueueDelivery, Deliveries
  <2>2. accepted[<<e, v>>] = 0 /\ \A d \in Deliverers : ~Holds(d, <<e, v>>)
    BY <1>3, <2>1 DEF QueueDelivery, UnqueuedIsUntouched
  <2>3. \A d \in Deliverers, i \in Deliveries : Holds(d, i)' <=> Holds(d, i)
    BY <2>1 DEF Holds
  <2>4. ASSUME NEW i \in Deliveries, i \notin disturbed', i # <<e, v>> PROVE Undisturbed(i)'
    <3>1. status'[i] = status[i] /\ Undisturbed(i)
      BY <2>1, <2>4 DEF WebhooksTypeOK
    <3> QED BY <3>1, <2>1, <2>3 DEF Undisturbed
  <2>5. Undisturbed(<<e, v>>)'
    BY <2>1, <2>2, <2>3 DEF Undisturbed, Holds, WebhooksTypeOK
  <2> QED BY <2>4, <2>5
<1>4. ASSUME NEW d \in Deliverers, SelectDue(d) PROVE UndisturbedAreInOrder'
  <2> SUFFICES ASSUME NEW i \in Deliveries, i \notin disturbed' PROVE Undisturbed(i)'
    OBVIOUS
  <2>1. UNCHANGED <<status, accepted>> /\ i \notin disturbed
    BY <1>4 DEF SelectDue
  <2>2. Undisturbed(i) /\ ~Holds(d, i)
    BY <1>4, <2>1, SelectHolds DEF Holds
  <2>3. /\ \A b \in Deliverers \ {d} : batch'[b] = batch[b] /\ (Holds(b, i)' <=> Holds(b, i))
        /\ sent' = sent /\ sent[d] = Nothing
    BY <1>4, SelectHolds DEF Holds
  <2>4. CASE Holds(d, i)'
    <3>1. status[i] = "pending" /\ \A b \in Deliverers \ {d} : ~Holds(b, i)
      BY <1>4, <2>4, SelectHolds
    <3>2. accepted[i] = 0
      BY <2>2, <3>1 DEF Undisturbed
    <3>3. \A s, t \in batch'[d] : s.id = t.id => s = t
      BY <1>4, SelectHolds
    <3> QED BY <2>1, <2>2, <2>3, <2>4, <3>1, <3>2, <3>3 DEF Undisturbed, Holds
  <2>5. CASE ~Holds(d, i)'
    <3>1. \A b \in Deliverers : Holds(b, i)' <=> Holds(b, i)
      BY <2>2, <2>3, <2>5
    <3>2. \A b \in Deliverers : \A s \in batch'[b] : s.id = i => b # d
      BY <2>5 DEF Holds
    <3> QED BY <2>1, <2>2, <2>3, <3>1, <3>2 DEF Undisturbed
  <2> QED BY <2>4, <2>5
<1>5. ASSUME NEW d \in Deliverers, Attempt(d) PROVE UndisturbedAreInOrder'
  <2> SUFFICES ASSUME NEW i \in Deliveries, i \notin disturbed' PROVE Undisturbed(i)'
    OBVIOUS
  <2>1. UNCHANGED <<status, disturbed>> /\ Undisturbed(i) /\ sent[d] = Nothing
    BY <1>5 DEF Attempt
  <2>2. \A b \in Deliverers : Holds(b, i)' <=> Holds(b, i)
    BY <1>5, AttemptHolds
  <2>3. PICK s \in batch[d], answer \in {"accepted", "refused", "failed"} :
          /\ batch' = [batch EXCEPT ![d] = @ \ {s}]
          /\ sent' = [sent EXCEPT ![d] = [id |-> s.id, attempts |-> s.attempts + 1, answer |-> answer]]
          /\ accepted' = IF answer = "accepted" THEN [accepted EXCEPT ![s.id] = CountUpTo(@, 2)] ELSE accepted
    BY <1>5 DEF Attempt
  <2>4. /\ s.id \in Deliveries /\ batch'[d] = batch[d] \ {s}
        /\ sent'[d] = [id |-> s.id, attempts |-> s.attempts + 1, answer |-> answer]
        /\ \A b \in Deliverers \ {d} : batch'[b] = batch[b] /\ sent'[b] = sent[b]
    BY <2>3 DEF WebhooksTypeOK, Snapshots
  <2>5. CASE s.id = i
    <3>1. /\ accepted[i] = 0 /\ \A t \in batch[d] : t.id = i => t = s
          /\ status[i] = "pending" /\ \A b \in Deliverers : Holds(b, i) => b = d
      BY <2>1, <2>5 DEF Undisturbed, Holds
    <3>2. /\ answer = "accepted" => accepted'[i] = 1
          /\ answer # "accepted" => accepted'[i] = 0
      BY <2>3, <2>4, <2>5, <3>1 DEF CountUpTo, WebhooksTypeOK
    <3>3. \A b \in Deliverers : \A t \in batch'[b] : t.id # i
      BY <2>4, <3>1 DEF Holds
    <3>4. Holds(d, i)
      BY <2>5 DEF Holds
    <3>5. \A b \in Deliverers : sent'[b] # Nothing /\ sent'[b].id = i => b = d
      BY <2>4, <3>1 DEF Holds
    <3> QED BY <2>1, <2>2, <2>4, <2>5, <3>1, <3>2, <3>3, <3>4, <3>5 DEF Undisturbed
  <2>6. CASE s.id # i
    <3>1. accepted'[i] = accepted[i]
      BY <2>3, <2>4, <2>6 DEF WebhooksTypeOK
    <3> QED BY <2>1, <2>2, <2>4, <2>6, <3>1 DEF Undisturbed
  <2> QED BY <2>5, <2>6
<1>6. ASSUME NEW d \in Deliverers, RecordOutcome(d) PROVE UndisturbedAreInOrder'
  <2> SUFFICES ASSUME NEW i \in Deliveries, i \notin disturbed' PROVE Undisturbed(i)'
    OBVIOUS
  <2>1. UNCHANGED <<accepted, disturbed>> /\ Undisturbed(i)
    BY <1>6 DEF RecordOutcome
  <2>2. /\ sent[d] \in Attempts /\ sent[d] # Nothing /\ sent[d].id \in Deliveries
        /\ status' = [status EXCEPT ![sent[d].id] = StatusAfter(sent[d])]
    BY <1>6 DEF RecordOutcome, WebhooksTypeOK, Attempts
  <2>3. /\ \A b \in Deliverers : batch'[b] \subseteq batch[b]
        /\ \A b \in Deliverers : sent'[b] # Nothing => sent'[b] = sent[b] /\ b # d
        /\ \A b \in Deliverers : Holds(b, i)' => Holds(b, i)
    BY <1>6, LetGo
  <2>4. CASE sent[d].id = i
    <3>1. \A b \in Deliverers : ~Holds(b, i)'
      BY <2>1, <2>2, <2>3, <2>4 DEF Undisturbed, Holds
    <3>2. status'[i] = "pending" => accepted[i] = 0
      BY <2>1, <2>2, <2>4 DEF Undisturbed, StatusAfter, Attempts, WebhooksTypeOK
    <3> QED BY <2>1, <3>1, <3>2 DEF Undisturbed, Holds
  <2>5. CASE sent[d].id # i
    <3>1. status'[i] = status[i]
      BY <2>2, <2>5 DEF WebhooksTypeOK
    <3>2. /\ \A b \in Deliverers : Holds(b, i)' <=> Holds(b, i)
      BY <1>6, <2>3, <2>5, LetGo DEF Holds, RecordOutcome
    <3> QED BY <2>1, <2>3, <3>1, <3>2 DEF Undisturbed
  <2> QED BY <2>4, <2>5
<1>7. ASSUME NEW d \in Deliverers, DelivererDies(d) PROVE UndisturbedAreInOrder'
  <2> SUFFICES ASSUME NEW i \in Deliveries, i \notin disturbed' PROVE Undisturbed(i)'
    OBVIOUS
  <2>1. UNCHANGED <<status, accepted>> /\ Undisturbed(i) /\ ~Holds(d, i)
    BY <1>7, HoldsIsHeldBy DEF DelivererDies
  <2>2. /\ \A b \in Deliverers : batch'[b] \subseteq batch[b]
        /\ \A b \in Deliverers : sent'[b] # Nothing => sent'[b] = sent[b] /\ b # d
        /\ \A b \in Deliverers : Holds(b, i)' => Holds(b, i)
    BY <1>7, LetGo
  <2>3. \A b \in Deliverers : Holds(b, i)' <=> Holds(b, i)
    BY <1>7, <2>1, <2>2, LetGo DEF Holds
  <2> QED BY <2>1, <2>2, <2>3 DEF Undisturbed
<1> QED
  BY <1>1, <1>2, <1>3, <1>4, <1>5, <1>6, <1>7 DEF WebhooksNext

-----------------------------------------------------------------------------
THEOREM WebhooksInvariant == WebhooksSpec => []WebhooksInv
<1>1. WebhooksInv /\ [WebhooksNext]_webhookVars => WebhooksInv'
  <2> SUFFICES ASSUME WebhooksInv, [WebhooksNext]_webhookVars PROVE WebhooksInv'
    OBVIOUS
  <2>1. WebhooksTypeOK'
    BY WebhooksTypeStep DEF WebhooksInv
  <2>2. CountersAreSound' /\ SettledTruthfully'
    BY <2>1, CountersStep
  <2> QED BY <2>1, <2>2, UnqueuedStep, UndisturbedStep DEF WebhooksInv
<1> QED BY <1>1, WebhooksInvInit, PTL DEF WebhooksSpec

(* Rows, batches and histories keep their types; a counter stays within    *)
(* MAX_DELIVERY_ATTEMPTS although two deliverers may overwrite it.         *)
THEOREM WebhooksTypeCorrect == WebhooksSpec => []WebhooksTypeOK
<1>1. WebhooksInv => WebhooksTypeOK
  BY DEF WebhooksInv
<1> QED BY <1>1, WebhooksInvariant, PTL

-----------------------------------------------------------------------------
(* The rows keep the promise of Delivery.tla.  The counter of a delivery   *)
(* that is not disturbed is the number of requests made for it, wherever   *)
(* the SELECT and the UPDATE have carried it.                              *)
Sends(d, i) == sent[d] # Nothing /\ sent[d].id = i

Exact(i) ==
  /\ status[i] = "none" => sends[i] = 0
  /\ status[i] = "pending" /\ (\A d \in Deliverers : ~Sends(d, i)) => attempts[i] = sends[i]
  /\ \A d \in Deliverers : \A s \in batch[d] : s.id = i => s.attempts = sends[i]
  /\ \A d \in Deliverers : Sends(d, i) => sent[d].attempts = sends[i]

CountersAreExact == \A i \in Deliveries : i \notin disturbed => Exact(i)

PromiseInv == WebhooksInv /\ CountersAreExact

LEMMA ExactStays ==
  ASSUME NEW i \in Deliveries, Exact(i),
         status'[i] = status[i], attempts'[i] = attempts[i], sends'[i] = sends[i],
         \A d \in Deliverers : \A s \in batch'[d] : s.id = i => s \in batch[d],
         \A d \in Deliverers : (Sends(d, i)' <=> Sends(d, i)) /\ (Sends(d, i)' => sent'[d] = sent[d])
  PROVE  Exact(i)'
BY DEF Exact

LEMMA ExactStep == PromiseInv /\ [WebhooksNext]_webhookVars => CountersAreExact'
<1> SUFFICES ASSUME PromiseInv, [WebhooksNext]_webhookVars, NEW i \in Deliveries, i \notin disturbed'
             PROVE  Exact(i)'
  BY DEF CountersAreExact
<1> USE WebhookBounds DEF PromiseInv, WebhooksInv, deliveryVars, workVars, history
<1>0. i \notin disturbed /\ Exact(i) /\ Undisturbed(i)
  <2>1. disturbed \subseteq disturbed'
    BY DEF WebhooksNext, CreateEndpoint, DeleteEndpoint, DisableFailingEndpoints, EmitEvent, EmitFails,
       QueueDelivery, BackoffElapses, SelectDue, Attempt, RecordOutcome, DelivererDies, webhookVars
  <2> QED BY <2>1 DEF CountersAreExact, UndisturbedAreInOrder
<1>1. CASE UNCHANGED <<status, attempts, sends, batch, sent>>
  BY <1>0, <1>1, ExactStays DEF Sends
<1>2. ASSUME NEW v \in Events, NEW e \in Endpoints, QueueDelivery(v, e) PROVE Exact(i)'
  <2>1. /\ <<e, v>> \in Deliveries /\ UNCHANGED <<attempts, sends, batch, sent>>
        /\ status' = [status EXCEPT ![<<e, v>>] = "pending"]
    BY <1>2 DEF QueueDelivery, Deliveries
  <2>2. status[<<e, v>>] = "none" /\ attempts[<<e, v>>] = 0
    BY <1>2, <2>1 DEF QueueDelivery, UnqueuedIsUntouched
  <2>3. CASE i = <<e, v>>
    BY <1>0, <2>1, <2>2, <2>3 DEF Exact, Sends, WebhooksTypeOK
  <2>4. CASE i # <<e, v>>
    <3>1. status'[i] = status[i]
      BY <2>1, <2>4 DEF WebhooksTypeOK
    <3> QED BY <1>0, <2>1, <3>1, ExactStays DEF Sends
  <2> QED BY <2>3, <2>4
<1>3. ASSUME NEW d \in Deliverers, SelectDue(d) PROVE Exact(i)'
  <2>1. UNCHANGED <<status, attempts, sends, sent>> /\ sent[d] = Nothing
    BY <1>3, SelectHolds DEF SelectDue
  <2>2. \A b \in Deliverers \ {d} : batch'[b] = batch[b]
    BY <1>3, SelectHolds
  <2>3. \A b \in Deliverers : Sends(b, i)' <=> Sends(b, i)
    BY <2>1 DEF Sends
  <2>4. ASSUME NEW s \in batch'[d], s.id = i PROVE s.attempts = sends[i]
    <3>1. Holds(d, i)'
      BY <2>4 DEF Holds
    <3>2. status[i] = "pending" /\ \A b \in Deliverers \ {d} : ~Holds(b, i)
      BY <1>3, <3>1, SelectHolds
    <3>3. attempts[i] = sends[i]
      BY <1>0, <2>1, <3>2 DEF Exact, Sends, Holds
    <3>4. s.attempts = attempts[i]
      BY <1>3, <2>4 DEF SelectDue, WebhooksTypeOK
    <3> QED BY <3>3, <3>4
  <2> QED BY <1>0, <2>1, <2>2, <2>3, <2>4 DEF Exact
<1>4. ASSUME NEW d \in Deliverers, Attempt(d) PROVE Exact(i)'
  <2>1. UNCHANGED <<status, attempts>> /\ sent[d] = Nothing
    BY <1>4 DEF Attempt
  <2>2. PICK s \in batch[d], answer \in {"accepted", "refused", "failed"} :
          /\ batch' = [batch EXCEPT ![d] = @ \ {s}]
          /\ sent' = [sent EXCEPT ![d] = [id |-> s.id, attempts |-> s.attempts + 1, answer |-> answer]]
          /\ sends' = [sends EXCEPT ![s.id] = CountUpTo(@, MaxAttempts)]
    BY <1>4 DEF Attempt
  <2>3. /\ s.id \in Deliveries /\ s.attempts \in Nat /\ batch'[d] = batch[d] \ {s}
        /\ sent'[d] = [id |-> s.id, attempts |-> s.attempts + 1, answer |-> answer]
        /\ \A b \in Deliverers \ {d} : batch'[b] = batch[b] /\ sent'[b] = sent[b]
    BY <2>2 DEF WebhooksTypeOK, Snapshots
  <2>4. sent'[d] # Nothing /\ sent'[d].id = s.id /\ sent'[d].attempts = s.attempts + 1
    BY <2>3
  <2>5. CASE s.id = i
    <3>1. /\ \A t \in batch[d] : t.id = i => t = s
          /\ status[i] = "pending" /\ \A b \in Deliverers : Holds(b, i) => b = d
      BY <1>0, <2>5 DEF Undisturbed, Holds
    <3>2. s.attempts = sends[i] /\ s.attempts < MaxAttempts
      BY <1>0, <2>5 DEF Exact, CountersAreSound
    <3>3. sends'[i] = sends[i] + 1
      BY <2>2, <2>3, <2>5, <3>2 DEF CountUpTo, WebhooksTypeOK
    <3>4. \A b \in Deliverers : \A t \in batch'[b] : t.id # i
      BY <2>3, <3>1 DEF Holds
    <3>5. \A b \in Deliverers : Sends(b, i)' => b = d
      BY <2>3, <3>1 DEF Holds, Sends
    <3>6. Sends(d, i)'
      BY <2>4, <2>5 DEF Sends
    <3> QED BY <2>1, <2>4, <3>1, <3>2, <3>3, <3>4, <3>5, <3>6 DEF Exact
  <2>6. CASE s.id # i
    <3>1. sends'[i] = sends[i]
      BY <2>2, <2>3, <2>6 DEF WebhooksTypeOK
    <3>2. \A b \in Deliverers : (Sends(b, i)' <=> Sends(b, i)) /\ (Sends(b, i)' => sent'[b] = sent[b])
      BY <2>1, <2>3, <2>4, <2>6 DEF Sends
    <3>3. \A b \in Deliverers : batch'[b] \subseteq batch[b]
      BY <2>3
    <3> QED BY <1>0, <2>1, <3>1, <3>2, <3>3, ExactStays
  <2> QED BY <2>5, <2>6
<1>5. ASSUME NEW d \in Deliverers, RecordOutcome(d) PROVE Exact(i)'
  <2>1. /\ sent[d] \in Attempts /\ sent[d] # Nothing /\ sent[d].id \in Deliveries
        /\ status' = [status EXCEPT ![sent[d].id] = StatusAfter(sent[d])]
        /\ attempts' = [attempts EXCEPT ![sent[d].id] = sent[d].attempts]
        /\ sent' = [sent EXCEPT ![d] = Nothing] /\ UNCHANGED <<batch, sends>>
    BY <1>5 DEF RecordOutcome, WebhooksTypeOK, Attempts
  <2>2. CASE sent[d].id = i
    <3>1. status'[i] = StatusAfter(sent[d]) /\ StatusAfter(sent[d]) # "none"
      BY <2>1, <2>2 DEF StatusAfter, Attempts, WebhooksTypeOK
    <3>2. attempts'[i] = sends[i]
      BY <1>0, <2>1, <2>2 DEF Exact, Sends, WebhooksTypeOK
    <3>3. \A b \in Deliverers : ~Sends(b, i)'
      BY <1>0, <2>1, <2>2 DEF Undisturbed, Holds, Sends, WebhooksTypeOK
    <3> QED BY <1>0, <2>1, <3>1, <3>2, <3>3 DEF Exact
  <2>3. CASE sent[d].id # i
    <3>1. status'[i] = status[i] /\ attempts'[i] = attempts[i]
      BY <2>1, <2>3 DEF WebhooksTypeOK
    <3>2. \A b \in Deliverers : (Sends(b, i)' <=> Sends(b, i)) /\ (Sends(b, i)' => sent'[b] = sent[b])
      BY <2>1, <2>3 DEF Sends, WebhooksTypeOK
    <3> QED BY <1>0, <2>1, <3>1, <3>2, ExactStays
  <2> QED BY <2>2, <2>3
<1>6. ASSUME NEW d \in Deliverers, DelivererDies(d) PROVE Exact(i)'
  <2>1. UNCHANGED <<status, attempts, sends>> /\ ~Holds(d, i)
    BY <1>6, HoldsIsHeldBy DEF DelivererDies
  <2>2. \A b \in Deliverers : batch'[b] \subseteq batch[b]
    BY <1>6, LetGo
  <2>3. \A b \in Deliverers : (Sends(b, i)' <=> Sends(b, i)) /\ (Sends(b, i)' => sent'[b] = sent[b])
    BY <1>6, <2>1, LetGo DEF Sends, Holds
  <2> QED BY <1>0, <2>1, <2>2, <2>3, ExactStays
<1> QED
  <2>1. CASE \/ \E e \in Endpoints : CreateEndpoint(e) \/ DeleteEndpoint(e)
             \/ DisableFailingEndpoints
             \/ \E v \in Events : EmitEvent(v) \/ EmitFails(v)
             \/ \E j \in Deliveries : BackoffElapses(j)
             \/ UNCHANGED webhookVars
    BY <1>1, <2>1 DEF CreateEndpoint, DeleteEndpoint, DisableFailingEndpoints, EmitEvent, EmitFails,
       BackoffElapses, webhookVars
  <2> QED BY <2>1, <1>2, <1>3, <1>4, <1>5, <1>6 DEF WebhooksNext

LEMMA PromiseInvariant == WebhooksSpec => []PromiseInv
<1>1. WebhooksInit => CountersAreExact
  BY DEF WebhooksInit, CountersAreExact, Exact, Sends
<1>2. PromiseInv <=> WebhooksInv /\ CountersAreExact
  BY DEF PromiseInv
<1> QED BY <1>1, <1>2, ExactStep, WebhooksInvariant, PTL DEF WebhooksSpec

(* The stage and the count Delivery.tla knows, read off the rows.          *)
LEMMA OnlyChoice ==
  ASSUME NEW S, NEW a \in S, \A b \in S : b = a
  PROVE  S # {} /\ (CHOOSE b \in S : TRUE) = a
OBVIOUS

LEMMA StageStays ==
  ASSUME NEW i \in Deliveries, i \notin disturbed, i \notin disturbed', status'[i] = status[i],
         \A d \in Deliverers : (Sends(d, i)' <=> Sends(d, i)) /\ (Sends(d, i)' => sent'[d] = sent[d])
  PROVE  stage'[i] = stage[i]
<1>1. Answers(i)' = Answers(i)
  BY DEF Answers, Sends
<1> QED BY <1>1 DEF stage

LEMMA StageAtRest ==
  ASSUME NEW i \in Deliveries, i \notin disturbed, \A d \in Deliverers : ~Sends(d, i)
  PROVE  stage[i] = status[i]
<1>1. Answers(i) = {}
  BY DEF Answers, Sends
<1> QED BY <1>1 DEF stage

LEMMA StageOfSender ==
  ASSUME NEW i \in Deliveries, i \notin disturbed, NEW d \in Deliverers, Sends(d, i),
         \A b \in Deliverers : Sends(b, i) => b = d
  PROVE  stage[i] = sent[d].answer
<1>1. sent[d].answer \in Answers(i) /\ \A a \in Answers(i) : a = sent[d].answer
  BY DEF Answers, Sends
<1>2. Answers(i) # {} /\ (CHOOSE a \in Answers(i) : TRUE) = sent[d].answer
  BY <1>1, OnlyChoice
<1> QED BY <1>2 DEF stage

(* What a deliverer holds undisturbed is under way.                        *)
LEMMA HeldIsUnderWay ==
  ASSUME PromiseInv, NEW i \in Deliveries, i \notin disturbed, NEW d \in Deliverers, Holds(d, i)
  PROVE  stage[i] \in Promise!UnderWay
<1> USE DEF PromiseInv, WebhooksInv
<1>1. status[i] = "pending" /\ \A b \in Deliverers : Holds(b, i) => b = d
  BY DEF UndisturbedAreInOrder, Undisturbed
<1>2. CASE Sends(d, i)
  <2>1. stage[i] = sent[d].answer
    BY <1>1, <1>2, StageOfSender DEF Holds, Sends
  <2> QED BY <1>2, <2>1 DEF Sends, Promise!UnderWay, WebhooksTypeOK, Attempts
<1>3. CASE ~Sends(d, i)
  <2>1. stage[i] = status[i]
    BY <1>1, <1>3, StageAtRest DEF Holds, Sends
  <2> QED BY <1>1, <2>1 DEF Promise!UnderWay
<1> QED BY <1>2, <1>3

(* A step that disturbs deliveries under way and changes no other one.     *)
LEMMA ContestStep ==
  ASSUME disturbed \subseteq disturbed', sends' = sends,
         \A i \in Deliveries : i \in disturbed' /\ i \notin disturbed => stage[i] \in Promise!UnderWay,
         \A i \in Deliveries : i \notin disturbed' => stage'[i] = stage[i]
  PROVE  Promise!Next
<1> DEFINE dropped == {i \in Deliveries : i \in disturbed' /\ i \notin disturbed}
<1>1. \A i \in Deliveries : i \in disturbed => stage[i] = "contested" /\ asked[i] = 0
  BY DEF stage, asked
<1>2. \A i \in Deliveries : i \in disturbed' => stage'[i] = "contested" /\ asked'[i] = 0
  BY DEF stage, asked
<1>3. \A i \in Deliveries : i \notin disturbed' => asked'[i] = asked[i]
  BY DEF asked
<1>4. stage' = [i \in Deliveries |-> IF i \in dropped THEN "contested" ELSE stage[i]]
  <2>1. \A i \in Deliveries : stage'[i] = IF i \in dropped THEN "contested" ELSE stage[i]
    BY <1>1, <1>2
  <2>2. stage' = [i \in Deliveries |-> stage'[i]]
    BY DEF stage
  <2> HIDE DEF dropped
  <2> QED BY <2>1, <2>2, Zenon
<1>5. asked' = [i \in Deliveries |-> IF i \in dropped THEN 0 ELSE asked[i]]
  <2>1. \A i \in Deliveries : asked'[i] = IF i \in dropped THEN 0 ELSE asked[i]
    BY <1>1, <1>2, <1>3
  <2>2. asked' = [i \in Deliveries |-> asked'[i]]
    BY DEF asked
  <2> HIDE DEF dropped
  <2> QED BY <2>1, <2>2, Zenon
<1>6. dropped \in SUBSET Deliveries /\ \A i \in dropped : stage[i] \in Promise!UnderWay
  OBVIOUS
<1> HIDE DEF dropped
<1> QED BY <1>4, <1>5, <1>6 DEF Promise!Next, Promise!Contest

(* A step that moves one undisturbed delivery i, or none.                  *)
LEMMA OneMoves ==
  ASSUME NEW i \in Deliveries, NEW x, disturbed' = disturbed,
         i \notin disturbed => stage'[i] = x,
         \A j \in Deliveries : j # i /\ j \notin disturbed => stage'[j] = stage[j]
  PROVE  /\ i \notin disturbed => stage' = [stage EXCEPT ![i] = x]
         /\ i \in disturbed => stage' = stage
<1>1. \A j \in Deliveries : j \in disturbed => stage'[j] = "contested" /\ stage[j] = "contested"
  BY DEF stage
<1>2. stage' = [j \in Deliveries |-> stage'[j]] /\ stage = [j \in Deliveries |-> stage[j]]
  BY DEF stage
<1>3. ASSUME i \notin disturbed PROVE stage' = [stage EXCEPT ![i] = x]
  <2>1. \A j \in Deliveries : stage'[j] = [stage EXCEPT ![i] = x][j]
    BY <1>1, <1>2, <1>3
  <2> QED BY <1>2, <2>1
<1>4. ASSUME i \in disturbed PROVE stage' = stage
  <2>1. \A j \in Deliveries : stage'[j] = stage[j]
    BY <1>1, <1>4
  <2> QED BY <1>2, <2>1
<1> QED BY <1>3, <1>4

LEMMA AskedStays == ASSUME disturbed' = disturbed, sends' = sends PROVE asked' = asked
BY DEF asked

LEMMA PromiseStep == PromiseInv /\ [WebhooksNext]_webhookVars => [Promise!Next]_<<stage, asked>>
<1> SUFFICES ASSUME PromiseInv, [WebhooksNext]_webhookVars PROVE [Promise!Next]_<<stage, asked>>
  OBVIOUS
<1> USE WebhookBounds DEF PromiseInv, WebhooksInv, deliveryVars, workVars, history
<1>1. CASE UNCHANGED <<status, sent, sends, disturbed>>
  BY <1>1 DEF stage, asked, Answers
<1>2. ASSUME NEW v \in Events, NEW e \in Endpoints, QueueDelivery(v, e)
      PROVE  [Promise!Next]_<<stage, asked>>
  <2> DEFINE i == <<e, v>>
  <2>1. /\ i \in Deliveries /\ UNCHANGED <<sends, batch, sent, disturbed>>
        /\ status' = [status EXCEPT ![i] = "pending"]
    BY <1>2 DEF QueueDelivery, Deliveries
  <2>2. status[i] = "none" /\ \A d \in Deliverers : ~Sends(d, i)
    BY <1>2, <2>1 DEF QueueDelivery, UnqueuedIsUntouched, Holds, Sends
  <2>3. Answers(i) = {} /\ \A j \in Deliveries : Answers(j)' = Answers(j)
    BY <2>1, <2>2 DEF Answers, Sends
  <2>4. status'[i] = "pending" /\ \A j \in Deliveries : j # i => status'[j] = status[j]
    BY <2>1 DEF WebhooksTypeOK
  <2> HIDE DEF i
  <2>5. i \notin disturbed => stage[i] = "none" /\ stage'[i] = "pending"
    BY <2>1, <2>2, <2>3, <2>4 DEF stage
  <2>6. \A j \in Deliveries : j # i /\ j \notin disturbed => stage'[j] = stage[j]
    <3> SUFFICES ASSUME NEW j \in Deliveries, j # i, j \notin disturbed PROVE stage'[j] = stage[j]
      OBVIOUS
    <3>1. \A d \in Deliverers : (Sends(d, j)' <=> Sends(d, j)) /\ sent'[d] = sent[d]
      BY <2>1 DEF Sends
    <3> QED BY <2>1, <2>4, <3>1, StageStays
  <2>7. asked' = asked
    BY <2>1, AskedStays
  <2>8. /\ i \notin disturbed => stage' = [stage EXCEPT ![i] = "pending"]
        /\ i \in disturbed => stage' = stage
    BY <2>1, <2>5, <2>6, OneMoves
  <2> QED BY <2>1, <2>5, <2>7, <2>8 DEF Promise!Next, Promise!Queue
<1>3. ASSUME NEW d \in Deliverers, SelectDue(d) PROVE Promise!Next
  <2>1. PICK taken \in SUBSET Selectable :
          disturbed' = disturbed \cup (taken \cap UNION {HeldBy(other) : other \in Deliverers \ {d}})
    BY <1>3 DEF SelectDue
  <2>2. UNCHANGED <<status, sent, sends>>
    BY <1>3 DEF SelectDue
  <2>3. ASSUME NEW i \in Deliveries, i \in disturbed', i \notin disturbed
        PROVE  stage[i] \in Promise!UnderWay
    <3>1. PICK b \in Deliverers \ {d} : i \in HeldBy(b)
      BY <2>1, <2>3
    <3>2. Holds(b, i)
      BY <3>1, HoldsIsHeldBy
    <3> QED BY <2>3, <3>2, HeldIsUnderWay
  <2>4. ASSUME NEW i \in Deliveries, i \notin disturbed' PROVE stage'[i] = stage[i]
    BY <2>1, <2>2, <2>4, StageStays DEF Sends
  <2> QED BY <2>1, <2>2, <2>3, <2>4, ContestStep
<1>4. ASSUME NEW d \in Deliverers, Attempt(d) PROVE [Promise!Next]_<<stage, asked>>
  <2>1. UNCHANGED <<status, disturbed>> /\ sent[d] = Nothing
    BY <1>4 DEF Attempt
  <2>2. PICK s \in batch[d], answer \in {"accepted", "refused", "failed"} :
          /\ sent' = [sent EXCEPT ![d] = [id |-> s.id, attempts |-> s.attempts + 1, answer |-> answer]]
          /\ sends' = [sends EXCEPT ![s.id] = CountUpTo(@, MaxAttempts)]
    BY <1>4 DEF Attempt
  <2>3. /\ s.id \in Deliveries /\ s.attempts \in Nat
        /\ sent'[d] = [id |-> s.id, attempts |-> s.attempts + 1, answer |-> answer]
        /\ \A b \in Deliverers \ {d} : sent'[b] = sent[b]
    BY <2>2 DEF WebhooksTypeOK, Snapshots
  <2>4. sent'[d] # Nothing /\ sent'[d].id = s.id /\ sent'[d].answer = answer
    BY <2>3
  <2> DEFINE i == s.id
  <2>5. ASSUME NEW j \in Deliveries, j # i, j \notin disturbed PROVE stage'[j] = stage[j]
    <3>1. \A b \in Deliverers : (Sends(b, j)' <=> Sends(b, j)) /\ (Sends(b, j)' => sent'[b] = sent[b])
      BY <2>1, <2>3, <2>4, <2>5 DEF Sends
    <3> QED BY <2>1, <2>5, <3>1, StageStays
  <2>6. ASSUME i \notin disturbed
        PROVE  /\ stage[i] = "pending" /\ stage'[i] = answer
               /\ sends[i] < MaxAttempts /\ sends'[i] = sends[i] + 1
    <3>1. /\ status[i] = "pending" /\ \A b \in Deliverers : Holds(b, i) => b = d
          /\ s.attempts = sends[i] /\ s.attempts < MaxAttempts
      BY <2>3, <2>6 DEF UndisturbedAreInOrder, Undisturbed, Holds, CountersAreExact, Exact, CountersAreSound
    <3>2. \A b \in Deliverers : ~Sends(b, i)
      BY <2>1, <3>1 DEF Holds, Sends
    <3>3. stage[i] = "pending"
      BY <2>3, <2>6, <3>1, <3>2, StageAtRest
    <3>4. answer \in Answers(i)' /\ \A a \in Answers(i)' : a = answer
      BY <2>3, <2>4, <3>2 DEF Answers, Sends
    <3>5. Answers(i)' # {} /\ (CHOOSE a \in Answers(i)' : TRUE) = answer
      BY <3>4, OnlyChoice
    <3>6. stage'[i] = answer
      BY <2>1, <2>3, <2>6, <3>5 DEF stage
    <3>7. sends'[i] = sends[i] + 1
      BY <2>2, <2>3, <3>1 DEF CountUpTo, WebhooksTypeOK
    <3> QED BY <3>1, <3>3, <3>6, <3>7
  <2>7. \A j \in Deliveries : j # i => sends'[j] = sends[j]
    BY <2>2, <2>3 DEF WebhooksTypeOK
  <2>8. i \in Deliveries
    BY <2>3
  <2> HIDE DEF i
  <2>9. /\ i \notin disturbed => stage' = [stage EXCEPT ![i] = answer]
        /\ i \in disturbed => stage' = stage
    BY <2>1, <2>5, <2>6, <2>8, OneMoves
  <2>10. /\ i \notin disturbed => asked[i] < MaxAttempts /\ asked' = [asked EXCEPT ![i] = @ + 1]
         /\ i \in disturbed => asked' = asked
    BY <2>1, <2>6, <2>7, <2>8 DEF asked
  <2>11. CASE i \in disturbed
    BY <2>9, <2>10, <2>11
  <2>12. CASE i \notin disturbed
    <3>1. Promise!Ask(i)
      BY <2>6, <2>9, <2>10, <2>12 DEF Promise!Ask
    <3> QED BY <2>8, <3>1 DEF Promise!Next
  <2> QED BY <2>11, <2>12
<1>5. ASSUME NEW d \in Deliverers, RecordOutcome(d) PROVE [Promise!Next]_<<stage, asked>>
  <2>0. PICK i \in Deliveries : i = sent[d].id
    BY <1>5 DEF RecordOutcome, WebhooksTypeOK, Attempts
  <2>1. /\ sent[d] \in Attempts /\ sent[d] # Nothing
        /\ status' = [status EXCEPT ![i] = StatusAfter(sent[d])]
        /\ sent' = [sent EXCEPT ![d] = Nothing] /\ UNCHANGED <<sends, disturbed>>
    BY <1>5, <2>0 DEF RecordOutcome, WebhooksTypeOK, Attempts
  <2>2. /\ sent'[d] = Nothing /\ \A b \in Deliverers \ {d} : sent'[b] = sent[b]
        /\ status'[i] = StatusAfter(sent[d]) /\ \A j \in Deliveries : j # i => status'[j] = status[j]
    BY <2>1 DEF WebhooksTypeOK
  <2>3. ASSUME NEW j \in Deliveries, j # i, j \notin disturbed PROVE stage'[j] = stage[j]
    <3>1. \A b \in Deliverers : (Sends(b, j)' <=> Sends(b, j)) /\ (Sends(b, j)' => sent'[b] = sent[b])
      BY <2>0, <2>2, <2>3 DEF Sends
    <3> QED BY <2>1, <2>2, <2>3, <3>1, StageStays
  <2>4. ASSUME i \notin disturbed
        PROVE  /\ stage[i] = sent[d].answer /\ stage'[i] = StatusAfter(sent[d])
               /\ asked[i] = sent[d].attempts /\ asked[i] <= MaxAttempts
    <3>1. Sends(d, i) /\ \A b \in Deliverers : Sends(b, i) => b = d
      BY <2>0, <2>1, <2>4 DEF UndisturbedAreInOrder, Undisturbed, Holds, Sends
    <3>2. stage[i] = sent[d].answer
      BY <2>1, <2>4, <3>1, StageOfSender
    <3>3. Answers(i)' = {}
      BY <2>2, <3>1 DEF Answers, Sends
    <3>4. stage'[i] = StatusAfter(sent[d])
      BY <2>1, <2>2, <2>4, <3>3 DEF stage
    <3>5. asked[i] = sent[d].attempts /\ asked[i] <= MaxAttempts
      BY <2>1, <2>4, <3>1 DEF asked, CountersAreExact, Exact, CountersAreSound
    <3> QED BY <3>2, <3>4, <3>5
  <2>5. sent[d].answer \in {"accepted", "refused", "failed"} /\ sent[d].attempts \in Nat
    BY <2>1 DEF Attempts
  <2>6. asked' = asked
    BY <2>1, AskedStays
  <2>7. /\ i \notin disturbed => stage' = [stage EXCEPT ![i] = StatusAfter(sent[d])]
        /\ i \in disturbed => stage' = stage
    BY <2>1, <2>3, <2>4, OneMoves
  <2>8. CASE i \in disturbed
    BY <2>6, <2>7, <2>8
  <2>9. CASE i \notin disturbed
    <3>0. /\ sent[d].answer = "accepted" => StatusAfter(sent[d]) = "delivered"
          /\ sent[d].answer = "refused" => StatusAfter(sent[d]) = "dead"
          /\ sent[d].answer = "failed" =>
               StatusAfter(sent[d]) = IF sent[d].attempts >= MaxAttempts THEN "dead" ELSE "pending"
      BY DEF StatusAfter
    <3>1. ASSUME sent[d].answer = "accepted" PROVE Promise!Deliver(i)
      BY <2>4, <2>6, <2>7, <2>9, <3>0, <3>1 DEF Promise!Deliver
    <3>2. ASSUME sent[d].answer = "refused" PROVE Promise!GiveUp(i)
      BY <2>4, <2>6, <2>7, <2>9, <3>0, <3>2 DEF Promise!GiveUp
    <3>3. ASSUME sent[d].answer = "failed" /\ sent[d].attempts >= MaxAttempts PROVE Promise!GiveUp(i)
      BY <2>4, <2>5, <2>6, <2>7, <2>9, <3>0, <3>3 DEF Promise!GiveUp
    <3>4. ASSUME sent[d].answer = "failed" /\ ~(sent[d].attempts >= MaxAttempts) PROVE Promise!Retry(i)
      BY <2>4, <2>5, <2>6, <2>7, <2>9, <3>0, <3>4 DEF Promise!Retry
    <3>5. Promise!Deliver(i) \/ Promise!GiveUp(i) \/ Promise!Retry(i)
      BY <2>5, <3>1, <3>2, <3>3, <3>4
    <3> QED BY <2>1, <3>5 DEF Promise!Next
  <2> QED BY <2>8, <2>9
<1>6. ASSUME NEW d \in Deliverers, DelivererDies(d) PROVE Promise!Next
  <2>1. UNCHANGED <<status, sends>> /\ disturbed' = disturbed \cup HeldBy(d)
    BY <1>6 DEF DelivererDies
  <2>2. ASSUME NEW i \in Deliveries, i \in disturbed', i \notin disturbed
        PROVE  stage[i] \in Promise!UnderWay
    <3>1. Holds(d, i)
      BY <2>1, <2>2, HoldsIsHeldBy
    <3> QED BY <2>2, <3>1, HeldIsUnderWay
  <2>3. ASSUME NEW i \in Deliveries, i \notin disturbed' PROVE stage'[i] = stage[i]
    <3>1. i \notin disturbed /\ ~Holds(d, i)
      BY <2>1, <2>3, HoldsIsHeldBy
    <3>2. \A b \in Deliverers : (Sends(b, i)' <=> Sends(b, i)) /\ (Sends(b, i)' => sent'[b] = sent[b])
      BY <1>6, <3>1, LetGo DEF Sends, Holds
    <3> QED BY <2>1, <2>3, <3>1, <3>2, StageStays
  <2> QED BY <2>1, <2>2, <2>3, ContestStep
<1> QED
  <2>1. CASE \/ \E e \in Endpoints : CreateEndpoint(e) \/ DeleteEndpoint(e)
             \/ DisableFailingEndpoints
             \/ \E v \in Events : EmitEvent(v) \/ EmitFails(v)
             \/ \E j \in Deliveries : BackoffElapses(j)
             \/ UNCHANGED webhookVars
    BY <1>1, <2>1 DEF CreateEndpoint, DeleteEndpoint, DisableFailingEndpoints, EmitEvent, EmitFails,
       BackoffElapses, webhookVars
  <2> QED BY <2>1, <1>2, <1>3, <1>4, <1>5, <1>6 DEF WebhooksNext

(* Whatever overlaps and dies around it, what deliverPending does with a   *)
(* delivery that one deliverer at a time held is an implementation of      *)
(* Delivery.tla: at most MAX_DELIVERY_ATTEMPTS requests, none after a yes  *)
(* or a no, and a row that then says the answer for good.                  *)
THEOREM PromiseRefinement == WebhooksSpec => PromiseKept
<1>1. WebhooksInit => Promise!Init
  BY DEF WebhooksInit, Promise!Init, stage, asked, Answers
<1> QED
  BY <1>1, PromiseStep, PromiseInvariant, PTL
  DEF WebhooksSpec, PromiseKept, Promise!Spec, Promise!deliveryStages

-----------------------------------------------------------------------------
(* The deliveries of e that the endpoint's owner may be told have failed.  *)
Failed(e) == {i \in Deliveries : EndpointOf(i) = e /\ GivenUpRightly(i)}

LEMMA FailuresStay ==
  ASSUME WebhooksTypeOK, [WebhooksNext]_webhookVars, NEW e \in Endpoints
  PROVE  Failed(e) \subseteq Failed(e)'
<1> SUFFICES ASSUME NEW i \in Deliveries, GivenUpRightly(i) PROVE GivenUpRightly(i)'
  BY DEF Failed
<1> USE WebhookBounds DEF GivenUpRightly, WebhooksTypeOK
<1>1. CASE \E d \in Deliverers : Attempt(d)
  <2>1. PICK d \in Deliverers : Attempt(d)
    BY <1>1
  <2>2. PICK s \in batch[d] : /\ sends' = [sends EXCEPT ![s.id] = CountUpTo(@, MaxAttempts)]
                              /\ refused \subseteq refused'
    BY <2>1 DEF Attempt
  <2>3. s.id \in Deliveries
    BY DEF Snapshots
  <2> QED BY <2>2, <2>3 DEF CountUpTo
<1>2. CASE UNCHANGED <<sends, refused>>
  BY <1>2
<1> QED
  BY <1>1, <1>2 DEF WebhooksNext, CreateEndpoint, DeleteEndpoint, DisableFailingEndpoints, EmitEvent,
     EmitFails, QueueDelivery, BackoffElapses, SelectDue, RecordOutcome, DelivererDies, webhookVars,
     history, workVars

LEMMA DisabledStep ==
  WebhooksInv /\ DisabledOnlyForFailures /\ [WebhooksNext]_webhookVars => DisabledOnlyForFailures'
<1> SUFFICES ASSUME WebhooksInv, DisabledOnlyForFailures, [WebhooksNext]_webhookVars,
                    NEW e \in Endpoints, endpoint'[e] = "disabled"
             PROVE  Cardinality(Failed(e)') >= DeadLimit
  BY DEF DisabledOnlyForFailures, Failed
<1> USE WebhookBounds DEF WebhooksInv
<1>1. IsFiniteSet(Failed(e)') /\ IsFiniteSet(Failed(e))
  BY FS_Subset DEF Failed
<1>2. Cardinality(Failed(e)) <= Cardinality(Failed(e)') /\ Cardinality(Failed(e)) \in Nat
      /\ Cardinality(Failed(e)') \in Nat
  BY <1>1, FailuresStay, FS_Subset, FS_CardinalityType
<1>3. CASE endpoint[e] = "disabled"
  BY <1>2, <1>3 DEF DisabledOnlyForFailures, Failed
<1>4. CASE endpoint[e] # "disabled"
  <2>1. Cardinality(Dead(e)) >= DeadLimit
    BY <1>4 DEF WebhooksNext, CreateEndpoint, DeleteEndpoint, DisableFailingEndpoints, EmitEvent,
       EmitFails, QueueDelivery, BackoffElapses, SelectDue, Attempt, RecordOutcome, DelivererDies,
       webhookVars, WebhooksTypeOK
  <2>2. Dead(e) \subseteq Failed(e)
    BY DEF Dead, Failed, SettledTruthfully
  <2>3. Cardinality(Dead(e)) <= Cardinality(Failed(e)) /\ Cardinality(Dead(e)) \in Nat
    BY <1>1, <2>2, FS_Subset, FS_CardinalityType
  <2> QED BY <1>2, <2>1, <2>3
<1> QED BY <1>3, <1>4

(* What deliverPending and disableFailingEndpoints record of a delivery    *)
(* and of an endpoint happened, for any number of overlapping calls.       *)
THEOREM StatusSafety == WebhooksSpec => []StatusesAreTruthful
<1>1. WebhooksInit => DisabledOnlyForFailures
  BY DEF WebhooksInit, DisabledOnlyForFailures
<1>2. WebhooksInv /\ DisabledOnlyForFailures => StatusesAreTruthful
  BY DEF WebhooksInv, StatusesAreTruthful
<1> QED BY <1>1, <1>2, DisabledStep, WebhooksInvariant, PTL DEF WebhooksSpec
=============================================================================
