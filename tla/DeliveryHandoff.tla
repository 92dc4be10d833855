--------------------------- MODULE DeliveryHandoff ---------------------------
(***************************************************************************)
(* DeliveryHandoffService (delivery-handoff/delivery-handoff.service.ts):  *)
(* the rider in transit issues a token bound to the customer or to the     *)
(* customer's current authorized recipient; its confirmation is the only   *)
(* source of CUSTOMER_RECEIVED.  The customer replaces or revokes the      *)
(* recipient until the goods are delivered or on their way back.           *)
(***************************************************************************)
EXTENDS FulfillmentRecords

(* Whom a token issued now is bound to (authorizationId or, for NULL, the  *)
(* customer).  At most one authorization is ACTIVE.                        *)
IsCurrentReceiver(p) ==
  \/ p \in ActiveAuthorizations
  \/ p = Customer /\ ActiveAuthorizations = {}

(* issueForOrder, by the active rider.                                     *)
IssueDelivery(t) ==
  /\ deliveryToken[t].status = "UNISSUED"
  /\ order # "void"
  /\ status = "in_transit"
  /\ MayActAsPossessor(activeRider)
  /\ HasActiveAssignment(activeRider, version)
  /\ \E p \in Authorization \cup {Customer} :
       /\ IsCurrentReceiver(p)
       /\ deliveryToken' = Issued(deliveryToken, t, activeRider, version, p)
  /\ UNCHANGED <<fulfillmentVars, order, assignments, pickupToken,
                 custodyToken, returnToken, recipient, custodyLog,
                 failureVars, unsecured>>

(* validateTokenState; the faulty one trusts the token about its rider.    *)
FaultyStaleRiderDelivers(t) ==
  /\ deliveryToken[t].status = "ACTIVE"
  /\ status = "in_transit"
  /\ order # "void"
  /\ IsCurrentReceiver(deliveryToken[t].counterpart)

DeliveryTokenValid(t) ==
  /\ deliveryToken[t].status = "ACTIVE"
  /\ status = "in_transit"
  /\ version = deliveryToken[t].version
  /\ HasActiveAssignment(deliveryToken[t].rider, deliveryToken[t].version)
  /\ order # "void"
  /\ MayActAsPossessor(deliveryToken[t].rider)
  /\ IsCurrentReceiver(deliveryToken[t].counterpart)

(* The attempt a delivery after a redelivery records: its number is the    *)
(* activated redelivery's target, 0 when there is none.  A FAILED attempt  *)
(* of that number violates the unique key and rolls the delivery back.     *)
FaultyUnrecorded(rider, ver, target) == UNCHANGED attempts
RecordSuccess(rider, ver, target) ==
  IF target = 0
    THEN UNCHANGED attempts
    ELSE /\ \A a \in attempts : a.number # target
         /\ attempts' = attempts \cup
              {[number |-> target, outcome |-> "SUCCESSFUL_HANDOFF",
                rider |-> rider, version |-> ver]}

(* confirm, by the customer or the bearer of the recipient's capability.   *)
ConfirmDelivery(t, target) ==
  LET token == deliveryToken[t] IN
  /\ DeliveryTokenValid(t)
  /\ custodyLog' = Append(custodyLog, [type |-> "CUSTOMER_RECEIVED",
                                       from |-> token.rider,
                                       to   |-> Customer])
  /\ ServiceTransition("delivered")
  /\ recipient' = [a \in Authorization |->
                     IF a = token.counterpart THEN "CONSUMED"
                                              ELSE recipient[a]]
  /\ deliveryToken' = Marked(deliveryToken, t, "CONSUMED")
  /\ RecordSuccess(token.rider, token.version, target)
  /\ UNCHANGED <<order, activeRider, version, custodian, pendingTo,
                 pendingFrom, assignments, pickupToken, custodyToken,
                 returnToken, cases, unsecured>>

(* A late token found by confirm, and revoke by an administrator or by the *)
(* rider who issued it while still active.                                 *)
DropDeliveryToken(t, outcome) ==
  /\ deliveryToken[t].status = "ACTIVE"
  /\ deliveryToken' = Marked(deliveryToken, t, outcome)
  /\ UNCHANGED <<fulfillmentVars, order, assignments, pickupToken,
                 custodyToken, returnToken, recipient, custodyLog,
                 failureVars, unsecured>>

ExpireDelivery(t) == DropDeliveryToken(t, "EXPIRED")

RevokeDelivery(t) == DropDeliveryToken(t, "REVOKED")

(* lockOwnedFulfillment                                                    *)
RecipientMayChange ==
  /\ order # "void"
  /\ status \notin Terminal \cup {"returning"}

RecipientsRevoked ==
  [a \in Authorization |->
     IF recipient[a] = "ACTIVE" THEN "REVOKED" ELSE recipient[a]]

(* revokeActiveDeliveryTokens                                              *)
FaultyTokensSurvive == UNCHANGED deliveryToken
DeliveryTokensRevoked == deliveryToken' = Revoked(deliveryToken)

(* authorizeRecipient: a new authorization replaces the current one and    *)
(* every token issued under the old terms dies with it.                    *)
AuthorizeRecipient(a) ==
  /\ RecipientMayChange
  /\ recipient[a] = "UNISSUED"
  /\ recipient' = [RecipientsRevoked EXCEPT ![a] = "ACTIVE"]
  /\ DeliveryTokensRevoked
  /\ UNCHANGED <<fulfillmentVars, order, assignments, pickupToken,
                 custodyToken, returnToken, custodyLog, failureVars,
                 unsecured>>

(* revokeRecipient: back to the customer in person.                        *)
RevokeRecipient ==
  /\ RecipientMayChange
  /\ ActiveAuthorizations # {}
  /\ recipient' = RecipientsRevoked
  /\ DeliveryTokensRevoked
  /\ UNCHANGED <<fulfillmentVars, order, assignments, pickupToken,
                 custodyToken, returnToken, custodyLog, failureVars,
                 unsecured>>
=============================================================================
