---------------------- MODULE FulfillmentStateMachine ----------------------
(***************************************************************************)
(* The lifecycle table of an OrderFulfillment and the authority matrix     *)
(* that guards it (fulfillment/fulfillment-state-machine.ts and            *)
(* fulfillment/fulfillment-authorization.ts).  Pure operators, no state.   *)
(*                                                                         *)
(* The matrix is reduced to the two operations that change a fulfillment's *)
(* status, "transition" and "cancel", and to the actor classes it tells    *)
(* apart: the three merchant roles have the same rights for both.          *)
(*                                                                         *)
(* In this and the other modules a definition whose name begins with       *)
(* Faulty is a plausible mistake in the code that the definition after it  *)
(* models.  The specifications do not use them: they show, put in place of *)
(* the definition, that the properties can fail (README, Faulty variants). *)
(***************************************************************************)

Status == {"pending", "confirmed", "preparing", "ready_for_pickup",
           "rider_assigned", "picked_up", "in_transit", "delivered",
           "delivery_failed", "returning", "returned", "cancelled"}

(* FULFILLMENT_TRANSITIONS: the edges of the lifecycle.                    *)
Transitions ==
  {<<"pending", "confirmed">>, <<"confirmed", "preparing">>,
   <<"preparing", "ready_for_pickup">>, <<"ready_for_pickup", "rider_assigned">>,
   <<"pending", "cancelled">>, <<"confirmed", "cancelled">>,
   <<"preparing", "cancelled">>, <<"ready_for_pickup", "cancelled">>,
   <<"rider_assigned", "cancelled">>, <<"rider_assigned", "picked_up">>,
   <<"picked_up", "in_transit">>, <<"in_transit", "delivered">>,
   <<"in_transit", "delivery_failed">>, <<"delivery_failed", "returning">>,
   <<"delivery_failed", "in_transit">>, <<"returning", "returned">>}

Terminal == {"delivered", "returned", "cancelled"}

(* Statuses from which a rider can be assigned before the pickup.          *)
FaultyPrePickupRevives == {"ready_for_pickup", "rider_assigned", "cancelled"}
PrePickup == {"ready_for_pickup", "rider_assigned"}

(* isMidPossessionStatus: a rider has the goods.                           *)
FaultyMidFromAssignment ==
  {"rider_assigned", "picked_up", "in_transit", "delivery_failed", "returning"}
MidPossession == {"picked_up", "in_transit", "delivery_failed", "returning"}

Trusted == {"SYSTEM_ADMIN", "INTERNAL_SERVICE", "SYSTEM"}

ActorType == Trusted \cup {"CUSTOMER", "MERCHANT", "RIDER"}

RiderTargets    == {"picked_up", "in_transit", "returning"}
MerchantTargets == {"confirmed", "preparing", "ready_for_pickup",
                    "rider_assigned", "cancelled"}

(* assertOperationAllowed for a customer, merchant or rider that belongs   *)
(* to the fulfillment (the rider is its active rider).                     *)
OperationAllowed(actor, from, target) ==
  \/ actor \in Trusted
  \/ /\ actor = "CUSTOMER"
     /\ target = "cancelled"
     /\ from \in {"pending", "confirmed"}
  \/ /\ actor = "MERCHANT"
     /\ target = "cancelled" \/ target \in MerchantTargets
  \/ /\ actor = "RIDER"
     /\ target \in RiderTargets

(* The authority matrix alone, without the lifecycle table.                *)
FaultyNoTable(actor, from, target) == OperationAllowed(actor, from, target)

(* The checks of runTransitionInTx on a marketplace fulfillment, in the    *)
(* order of the code: the terminal states, the table, the two edges that   *)
(* only a trusted actor may take, the authority matrix.                    *)
TransitionAllowed(actor, from, target) ==
  /\ from \notin Terminal
  /\ <<from, target>> \in Transitions
  /\ target = "delivery_failed" => actor \in Trusted
  /\ (from = "delivery_failed" /\ target = "in_transit") => actor \in Trusted
  /\ OperationAllowed(actor, from, target)
=============================================================================
