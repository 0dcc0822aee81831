------------------------------ MODULE Webhooks ------------------------------
(***************************************************************************)
(* Outbound webhooks: src/lib/webhookStore.ts, the retry rules of          *)
(* src/lib/webhooks.ts and disableFailingEndpoints of workers/jobs.  One   *)
(* workspace.  A delivery is an event on its way to an endpoint.           *)
(***************************************************************************)
EXTENDS Naturals, FiniteSets

CONSTANTS
  Endpoints, Events,
  Deliverers,     (* isolates that call deliverPending                      *)
  MaxAttempts,    (* MAX_DELIVERY_ATTEMPTS                                  *)
  DeadLimit,      (* dead deliveries that disable an endpoint (20)          *)
  Limit,          (* rows one call of deliverPending takes (50)             *)
  MaxCrashes,     (* bound on the isolates that die                         *)
  Nothing

Deliveries == Endpoints \X Events
EndpointOf(i) == i[1]

ASSUME WebhookBounds ==
  /\ MaxAttempts \in Nat \ {0} /\ DeadLimit \in Nat \ {0} /\ Limit \in Nat \ {0}
  /\ MaxCrashes \in Nat
  /\ IsFiniteSet(Deliveries)
  /\ \A E \in SUBSET Endpoints : E # Nothing
  /\ Nothing \notin [id : Deliveries, attempts : Nat, answer : {"accepted", "refused", "failed"}]

VARIABLES
  endpoint,      (* webhook_endpoints                                       *)
  toQueue,       (* per event, the endpoints emitEvent has yet to insert for *)
  status,        (* webhook_deliveries.status                               *)
  attempts,      (* webhook_deliveries.attempts                             *)
  due,           (* the rows whose next_attempt_at has come or is NULL      *)
  older,         (* <<i, j>>: i came due before j                           *)
  batch,         (* per deliverer, the rows it selected and has yet to try  *)
  sent,          (* per deliverer, the attempt it has yet to record         *)
  crashes,
  sends,         (* history: requests made for a delivery                   *)
  accepted,      (* history: those the endpoint answered with success       *)
  refused,       (* history: the endpoint answered that it never will       *)
  disturbed      (* history: two deliverers held it, or one died holding it *)

deliveryVars == <<status, attempts, due, older>>
workVars == <<batch, sent, crashes>>
history == <<sends, accepted, refused, disturbed>>
webhookVars == <<endpoint, toQueue, deliveryVars, workVars, history>>

Snapshots == [id : Deliveries, attempts : Nat]
Attempts == [id : Deliveries, attempts : Nat, answer : {"accepted", "refused", "failed"}]

WebhooksTypeOK ==
  /\ endpoint \in [Endpoints -> {"absent", "enabled", "disabled", "deleted"}]
  /\ toQueue \in [Events -> (SUBSET Endpoints) \cup {Nothing}]
  /\ status \in [Deliveries -> {"none", "pending", "delivered", "dead"}]
  /\ attempts \in [Deliveries -> 0 .. MaxAttempts]
  /\ due \in SUBSET Deliveries
  /\ older \in SUBSET (Deliveries \X Deliveries)
  /\ batch \in [Deliverers -> SUBSET Snapshots]
  /\ sent \in [Deliverers -> Attempts \cup {Nothing}]
  /\ crashes \in 0 .. MaxCrashes
  /\ sends \in [Deliveries -> 0 .. MaxAttempts]
  /\ accepted \in [Deliveries -> 0 .. 2]
  /\ refused \in SUBSET Deliveries
  /\ disturbed \in SUBSET Deliveries

WebhooksInit ==
  /\ endpoint = [e \in Endpoints |-> "absent"]
  /\ toQueue = [v \in Events |-> Nothing]
  /\ status = [i \in Deliveries |-> "none"]
  /\ attempts = [i \in Deliveries |-> 0]
  /\ due = {} /\ older = {}
  /\ batch = [d \in Deliverers |-> {}]
  /\ sent = [d \in Deliverers |-> Nothing]
  /\ crashes = 0
  /\ sends = [i \in Deliveries |-> 0]
  /\ accepted = [i \in Deliveries |-> 0]
  /\ refused = {} /\ disturbed = {}

-----------------------------------------------------------------------------
(* Endpoints.                                                              *)

CreateEndpoint(e) ==
  /\ endpoint[e] = "absent"
  /\ endpoint' = [endpoint EXCEPT ![e] = "enabled"]
  /\ UNCHANGED <<toQueue, deliveryVars, workVars, history>>

(* Its deliveries stay behind; the JOIN never selects them again.          *)
DeleteEndpoint(e) ==
  /\ endpoint[e] \in {"enabled", "disabled"}
  /\ endpoint' = [endpoint EXCEPT ![e] = "deleted"]
  /\ UNCHANGED <<toQueue, deliveryVars, workVars, history>>

Dead(e) == {i \in Deliveries : EndpointOf(i) = e /\ status[i] = "dead"}

(* Faulty variants, here and below, are what a plausible slip in the code  *)
(* would make of the definition that follows: each breaks a property.      *)
DisableOneDeadTooEarly ==
  /\ \E e \in Endpoints : endpoint[e] = "enabled" /\ Cardinality(Dead(e)) >= DeadLimit - 1
  /\ endpoint' = [e \in Endpoints |->
       IF endpoint[e] = "enabled" /\ Cardinality(Dead(e)) >= DeadLimit - 1
       THEN "disabled" ELSE endpoint[e]]
  /\ UNCHANGED <<toQueue, deliveryVars, workVars, history>>

(* The scheduled task counts the dead rows of an endpoint's whole life.    *)
DisableFailingEndpoints ==
  /\ \E e \in Endpoints : endpoint[e] = "enabled" /\ Cardinality(Dead(e)) >= DeadLimit
  /\ endpoint' = [e \in Endpoints |->
       IF endpoint[e] = "enabled" /\ Cardinality(Dead(e)) >= DeadLimit
       THEN "disabled" ELSE endpoint[e]]
  /\ UNCHANGED <<toQueue, deliveryVars, workVars, history>>

-----------------------------------------------------------------------------
(* emitEvent, which notify and notifyWebhooks call and whose failures they *)
(* swallow: one INSERT for each endpoint the first SELECT found.           *)

(* The endpoints that want the event are some of the enabled ones.         *)
EmitEvent(v) ==
  /\ toQueue[v] = Nothing
  /\ \E interested \in SUBSET {e \in Endpoints : endpoint[e] = "enabled"} :
       toQueue' = [toQueue EXCEPT ![v] = interested]
  /\ UNCHANGED <<endpoint, deliveryVars, workVars, history>>

BecomeDue(i) ==
  /\ due' = due \cup {i}
  /\ older' = {p \in older : p[1] # i /\ p[2] # i} \cup ((due \ {i}) \X {i})

QueueDelivery(v, e) ==
  /\ toQueue[v] # Nothing /\ e \in toQueue[v]
  /\ toQueue' = [toQueue EXCEPT ![v] = @ \ {e}]
  /\ status' = [status EXCEPT ![<<e, v>>] = "pending"]
  /\ BecomeDue(<<e, v>>)
  /\ UNCHANGED <<endpoint, attempts, workVars, history>>

(* An INSERT throws or the request's isolate dies: the rest is not queued. *)
EmitFails(v) ==
  /\ toQueue[v] # Nothing /\ toQueue[v] # {}
  /\ toQueue' = [toQueue EXCEPT ![v] = {}]
  /\ UNCHANGED <<endpoint, deliveryVars, workVars, history>>

-----------------------------------------------------------------------------
(* deliverPending.                                                         *)

(* The backoff of a failed attempt is over.                                *)
BackoffElapses(i) ==
  /\ status[i] = "pending" /\ i \notin due
  /\ BecomeDue(i)
  /\ UNCHANGED <<endpoint, toQueue, status, attempts, workVars, history>>

SelectableInAnyStatus == {i \in due : endpoint[EndpointOf(i)] = "enabled"}

LastAttemptNotSelected ==
  {i \in due : status[i] = "pending" /\ endpoint[EndpointOf(i)] = "enabled"
               /\ attempts[i] < MaxAttempts - 1}

Selectable ==
  {i \in due : status[i] = "pending" /\ endpoint[EndpointOf(i)] = "enabled"}

HeldBy(d) == {s.id : s \in batch[d]} \cup (IF sent[d] = Nothing THEN {} ELSE {sent[d].id})

Idle(d) == batch[d] = {} /\ sent[d] = Nothing

(* The oldest Limit rows.                                                  *)
SelectDue(d) ==
  /\ Idle(d)
  /\ \E taken \in SUBSET Selectable :
       /\ taken # {}
       /\ \/ taken = Selectable /\ Cardinality(taken) <= Limit
          \/ Cardinality(taken) = Limit
       /\ \A j \in taken, i \in Selectable : <<i, j>> \in older => i \in taken
       /\ batch' = [batch EXCEPT ![d] = {[id |-> i, attempts |-> attempts[i]] : i \in taken}]
       /\ disturbed' = disturbed \cup (taken \cap UNION {HeldBy(other) : other \in Deliverers \ {d}})
  /\ UNCHANGED <<endpoint, toQueue, deliveryVars, sent, crashes, sends, accepted, refused>>

(* The histories count no further than the properties look.                *)
CountUpTo(n, bound) == IF n < bound THEN n + 1 ELSE n

(* The POST: a 2xx, an answer isRetryableStatus rejects, or anything else. *)
Attempt(d) ==
  /\ sent[d] = Nothing
  /\ \E s \in batch[d], answer \in {"accepted", "refused", "failed"} :
       /\ batch' = [batch EXCEPT ![d] = @ \ {s}]
       /\ sent' = [sent EXCEPT ![d] =
                     [id |-> s.id, attempts |-> s.attempts + 1, answer |-> answer]]
       /\ sends' = [sends EXCEPT ![s.id] = CountUpTo(@, MaxAttempts)]
       /\ accepted' = IF answer = "accepted" THEN [accepted EXCEPT ![s.id] = CountUpTo(@, 2)] ELSE accepted
       /\ refused' = IF answer = "refused" THEN refused \cup {s.id} ELSE refused
  /\ UNCHANGED <<endpoint, toQueue, deliveryVars, crashes, disturbed>>

DeadOneAttemptEarly(a) ==
  CASE a.answer = "accepted" -> "delivered"
    [] a.answer = "refused" -> "dead"
    [] a.answer = "failed" -> IF a.attempts + 1 >= MaxAttempts THEN "dead" ELSE "pending"

DeadOneAttemptLate(a) ==
  CASE a.answer = "accepted" -> "delivered"
    [] a.answer = "refused" -> "dead"
    [] a.answer = "failed" -> IF a.attempts > MaxAttempts THEN "dead" ELSE "pending"

StatusAfter(a) ==
  CASE a.answer = "accepted" -> "delivered"
    [] a.answer = "refused" -> "dead"
    [] a.answer = "failed" -> IF a.attempts >= MaxAttempts THEN "dead" ELSE "pending"

(* The UPDATE names the row and nothing else, so it overwrites whatever    *)
(* another deliverer has written since this one's SELECT.  A settled row   *)
(* has no next attempt, which a SELECT takes for one that is due.          *)
RecordOutcome(d) ==
  /\ sent[d] # Nothing
  /\ status' = [status EXCEPT ![sent[d].id] = StatusAfter(sent[d])]
  /\ attempts' = [attempts EXCEPT ![sent[d].id] = sent[d].attempts]
  /\ due' = IF StatusAfter(sent[d]) = "pending" THEN due \ {sent[d].id} ELSE due \cup {sent[d].id}
  /\ older' = {p \in older : p[1] # sent[d].id /\ p[2] # sent[d].id}
  /\ sent' = [sent EXCEPT ![d] = Nothing]
  /\ UNCHANGED <<endpoint, toQueue, batch, crashes, history>>

(* The isolate dies, or the UPDATE throws: the rest of the batch is left.  *)
DelivererDies(d) ==
  /\ ~Idle(d) /\ crashes < MaxCrashes
  /\ crashes' = crashes + 1
  /\ disturbed' = disturbed \cup HeldBy(d)
  /\ batch' = [batch EXCEPT ![d] = {}]
  /\ sent' = [sent EXCEPT ![d] = Nothing]
  /\ UNCHANGED <<endpoint, toQueue, deliveryVars, sends, accepted, refused>>

WebhooksNext ==
  \/ \E e \in Endpoints : CreateEndpoint(e) \/ DeleteEndpoint(e)
  \/ DisableFailingEndpoints
  \/ \E v \in Events : EmitEvent(v) \/ EmitFails(v) \/ \E e \in Endpoints : QueueDelivery(v, e)
  \/ \E i \in Deliveries : BackoffElapses(i)
  \/ \E d \in Deliverers : SelectDue(d) \/ Attempt(d) \/ RecordOutcome(d) \/ DelivererDies(d)

WebhooksSpec == WebhooksInit /\ [][WebhooksNext]_webhookVars

(* Time passes, the scheduled tasks run, and so does every deliverer there *)
(* is: deliverPending is called again and again and its calls go on.       *)
WebhooksFairness ==
  /\ WF_webhookVars(DisableFailingEndpoints)
  /\ \A i \in Deliveries : WF_webhookVars(BackoffElapses(i))
  /\ \A d \in Deliverers :
       WF_webhookVars(SelectDue(d)) /\ WF_webhookVars(Attempt(d)) /\ WF_webhookVars(RecordOutcome(d))

FairWebhooksSpec == WebhooksSpec /\ WebhooksFairness

-----------------------------------------------------------------------------
(* Properties.                                                             *)

GivenUpRightly(i) == i \in refused \/ sends[i] >= MaxAttempts

(* A delivery counts as delivered only if the endpoint took it, and is     *)
(* dead-lettered only when the endpoint refused it or was asked the full   *)
(* number of times, although the counter is read at the SELECT and         *)
(* overwritten by whichever deliverer writes last.                         *)
SettledTruthfully ==
  \A i \in Deliveries :
    /\ status[i] = "delivered" => accepted[i] > 0
    /\ status[i] = "dead" => GivenUpRightly(i)

(* The answers that a deliverer has and the row does not say yet.          *)
Answers(i) == {sent[d].answer : d \in {b \in Deliverers : sent[b] # Nothing /\ sent[b].id = i}}

stage ==
  [i \in Deliveries |->
     IF i \in disturbed THEN "contested"
     ELSE IF Answers(i) = {} THEN status[i] ELSE CHOOSE answer \in Answers(i) : TRUE]

asked == [i \in Deliveries |-> IF i \in disturbed THEN 0 ELSE sends[i]]

Promise == INSTANCE Delivery WITH MaxAsked <- MaxAttempts

(* A delivery that no two calls of deliverPending overlapped on and none   *)
(* died with is asked for at most MAX_DELIVERY_ATTEMPTS times and not      *)
(* again once the endpoint answered yes or no; the row then says what it   *)
(* answered, and the unguarded UPDATE never puts it back to pending.       *)
PromiseKept == Promise!Spec

(* An endpoint is disabled only after DeadLimit of its deliveries were     *)
(* refused or tried in full, whatever stale writes did to their rows.      *)
DisabledOnlyForFailures ==
  \A e \in Endpoints : endpoint[e] = "disabled" =>
    Cardinality({i \in Deliveries : EndpointOf(i) = e /\ GivenUpRightly(i)}) >= DeadLimit

(* What a delivery and an endpoint say of themselves happened, although    *)
(* overlapping deliverers overwrite each other's counters.                 *)
StatusesAreTruthful == SettledTruthfully /\ DisabledOnlyForFailures

(* Deliveries are persisted before they are attempted; nothing is lost     *)
(* because a request or a deliverer ended.  Every queued delivery is       *)
(* delivered or dead-lettered, unless its endpoint is deleted or disabled. *)
NothingIsLost ==
  \A i \in Deliveries :
    status[i] = "pending" ~>
      status[i] \in {"delivered", "dead"} \/ endpoint[EndpointOf(i)] # "enabled"
=============================================================================
