---------------------------- MODULE ReturnHandoff ----------------------------
(***************************************************************************)
(* ReturnHandoffService (return-handoff/return-handoff.service.ts): the    *)
(* rider on the way back issues a token that the merchant confirms; its    *)
(* confirmation is the only source of RETURN_RECEIVED.                     *)
(***************************************************************************)
EXTENDS FulfillmentRecords

(* issueForOrder, by the active rider.  Commerce status is not looked at.  *)
IssueReturn(t) ==
  /\ returnToken[t].status = "UNISSUED"
  /\ status = "returning"
  /\ activeRider # None
  /\ MayActAsPossessor(activeRider)
  /\ HasActiveAssignment(activeRider, version)
  /\ returnToken' = Issued(returnToken, t, activeRider, version, Merchant)
  /\ UNCHANGED <<fulfillmentVars, order, assignments, pickupToken,
                 custodyToken, deliveryToken, recipient, custodyLog,
                 failureVars, unsecured>>

(* What confirm asks of the token: not the rider's possession again, only  *)
(* the assignment.  The faulty one does not ask for that either.           *)
FaultyStaleRiderReturns(t) ==
  returnToken[t].status = "ACTIVE" /\ status = "returning"

ReturnTokenValid(t) ==
  /\ returnToken[t].status = "ACTIVE"
  /\ status = "returning"
  /\ activeRider = returnToken[t].rider
  /\ version = returnToken[t].version
  /\ HasActiveAssignment(returnToken[t].rider, returnToken[t].version)

(* confirm, by a member of the merchant's staff.                           *)
ConfirmReturn(t) ==
  LET token == returnToken[t] IN
  /\ ReturnTokenValid(t)
  /\ custodyLog' = Append(custodyLog, [type |-> "RETURN_RECEIVED",
                                       from |-> token.rider,
                                       to   |-> Merchant])
  /\ ServiceTransition("returned")
  /\ returnToken' = Marked(returnToken, t, "CONSUMED")
  /\ UNCHANGED <<order, activeRider, version, custodian, pendingTo,
                 pendingFrom, assignments, pickupToken, custodyToken,
                 deliveryToken, recipient, failureVars, unsecured>>

(* confirm of an ACTIVE token that is late.                                *)
ExpireReturn(t) ==
  /\ returnToken[t].status = "ACTIVE"
  /\ returnToken' = Expired(returnToken, t)
  /\ UNCHANGED <<fulfillmentVars, order, assignments, pickupToken,
                 custodyToken, deliveryToken, recipient, custodyLog,
                 failureVars, unsecured>>
=============================================================================
