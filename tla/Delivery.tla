------------------------------ MODULE Delivery ------------------------------
(***************************************************************************)
(* What webhooks promise an endpoint of an event, whatever the rows, the   *)
(* batches and the retries behind it: the endpoint is asked until it       *)
(* answers yes or no, a bounded number of times and not again, and what it *)
(* answered is what is recorded, for good.  The promise ends for an event  *)
(* that is contested while it is being worked on.                          *)
(***************************************************************************)
EXTENDS Naturals

CONSTANTS Deliveries, MaxAsked

VARIABLES
  stage,     (* "none", "pending", the answer that is not recorded yet      *)
             (* ("accepted", "refused", "failed"), "delivered", "dead", or  *)
             (* "contested", per delivery                                   *)
  asked      (* the requests made for it                                    *)

deliveryStages == <<stage, asked>>

UnderWay == {"pending", "accepted", "refused", "failed"}

Init ==
  /\ stage = [i \in Deliveries |-> "none"]
  /\ asked = [i \in Deliveries |-> 0]

Queue(i) ==
  /\ stage[i] = "none"
  /\ stage' = [stage EXCEPT ![i] = "pending"]
  /\ UNCHANGED asked

Ask(i) ==
  /\ stage[i] = "pending" /\ asked[i] < MaxAsked
  /\ \E answer \in {"accepted", "refused", "failed"} : stage' = [stage EXCEPT ![i] = answer]
  /\ asked' = [asked EXCEPT ![i] = @ + 1]

Deliver(i) ==
  /\ stage[i] = "accepted"
  /\ stage' = [stage EXCEPT ![i] = "delivered"]
  /\ UNCHANGED asked

GiveUp(i) ==
  /\ stage[i] = "refused" \/ (stage[i] = "failed" /\ asked[i] = MaxAsked)
  /\ stage' = [stage EXCEPT ![i] = "dead"]
  /\ UNCHANGED asked

Retry(i) ==
  /\ stage[i] = "failed" /\ asked[i] < MaxAsked
  /\ stage' = [stage EXCEPT ![i] = "pending"]
  /\ UNCHANGED asked

Contest(dropped) ==
  /\ \A i \in dropped : stage[i] \in UnderWay
  /\ stage' = [i \in Deliveries |-> IF i \in dropped THEN "contested" ELSE stage[i]]
  /\ asked' = [i \in Deliveries |-> IF i \in dropped THEN 0 ELSE asked[i]]

Next ==
  \/ \E i \in Deliveries : Queue(i) \/ Ask(i) \/ Deliver(i) \/ GiveUp(i) \/ Retry(i)
  \/ \E dropped \in SUBSET Deliveries : Contest(dropped)

Spec == Init /\ [][Next]_deliveryStages
=============================================================================
