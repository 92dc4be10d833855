---------------------------- MODULE PickupHandoff ----------------------------
(***************************************************************************)
(* PickupHandoffService (pickup-handoff/pickup-handoff.service.ts): the    *)
(* assigned rider issues a one-time token, a member of the merchant's      *)
(* staff confirms it, and the goods are with the rider.                    *)
(*                                                                         *)
(* A confirm of a consumed token answers idempotently or is denied, and    *)
(* validate only reads: neither is a step.  The rider-advance gate of      *)
(* confirm belongs to that service: it can only deny.                      *)
(***************************************************************************)
EXTENDS FulfillmentRecords

(* issueForOrder; a token of an earlier issue is revoked.                  *)
IssuePickup(t) ==
  /\ pickupToken[t].status = "UNISSUED"
  /\ order # "void"
  /\ status = "rider_assigned"
  /\ HasActiveAssignment(activeRider, version)
  /\ pickupToken' = Issued(pickupToken, t, activeRider, version, Merchant)
  /\ UNCHANGED <<fulfillmentVars, order, assignments, custodyToken,
                 deliveryToken, returnToken, recipient, custodyLog,
                 failureVars, unsecured>>

(* validateTokenState: the token still speaks of the present.              *)
PickupTokenValid(t) ==
  /\ pickupToken[t].status = "ACTIVE"
  /\ status = "rider_assigned"
  /\ activeRider = pickupToken[t].rider
  /\ version = pickupToken[t].version
  /\ HasActiveAssignment(pickupToken[t].rider, pickupToken[t].version)
  /\ order # "void"

(* confirm: custody, status and token move in one transaction.             *)
ConfirmPickup(t) ==
  /\ PickupTokenValid(t)
  /\ custodyLog' = Append(custodyLog, [type |-> "MERCHANT_RELEASED",
                                       from |-> Merchant,
                                       to   |-> pickupToken[t].rider])
  /\ custodian' = pickupToken[t].rider
  /\ ServiceTransition("picked_up")
  /\ pickupToken' = Marked(pickupToken, t, "CONSUMED")
  /\ UNCHANGED <<order, activeRider, version, pendingTo, pendingFrom,
                 assignments, custodyToken, deliveryToken, returnToken,
                 recipient, failureVars, unsecured>>

ExpirePickup(t) ==
  /\ pickupToken[t].status = "ACTIVE"
  /\ pickupToken' = Expired(pickupToken, t)
  /\ UNCHANGED <<fulfillmentVars, order, assignments, custodyToken,
                 deliveryToken, returnToken, recipient, custodyLog,
                 failureVars, unsecured>>
=============================================================================
