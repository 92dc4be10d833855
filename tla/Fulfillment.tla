----------------------------- MODULE Fulfillment -----------------------------
(***************************************************************************)
(* The fulfillment of one marketplace order: the services that work on its *)
(* rows (assignment, the four handoffs, delivery failure), the generic     *)
(* transition API and the order's own status, in any interleaving.         *)
(***************************************************************************)
EXTENDS RiderAssignment, PickupHandoff, RiderCustodyHandoff, DeliveryHandoff,
        ReturnHandoff, DeliveryFailure

(* FulfillmentTransitionService.transition: status only.  The target       *)
(* rider_assigned is delegated to the assignment (AssignRider and          *)
(* ReassignMidPossession with byOrder FALSE).                              *)
Transition(actor, target) ==
  /\ target # "rider_assigned"
  /\ TransitionAllowed(actor, status, target)
  /\ actor = "RIDER" => activeRider # None
  /\ status' = target
  /\ unsecured' = unsecured \cup ({<<status, target>>} \cap SecuredEdges)
  /\ UNCHANGED <<order, activeRider, version, custodian, pendingTo,
                 pendingFrom, assignments, tokenVars, recipient, custodyLog,
                 failureVars>>

(* The commerce bridge of orders.service: one transaction per target, so   *)
(* it may stop, or be overtaken, between any two.                          *)
BridgeStep == \E target \in {"confirmed", "preparing", "ready_for_pickup"} :
                Transition("MERCHANT", target)

(* startDelivery: the active rider who holds the goods sets out.           *)
StartDelivery ==
  /\ activeRider # None
  /\ custodian = activeRider
  /\ status = "picked_up"
  /\ ServiceTransition("in_transit")
  /\ UNCHANGED <<order, activeRider, version, custodian, pendingTo,
                 pendingFrom, assignments, tokenVars, recipient, custodyLog,
                 failureVars, unsecured>>

(* orders.service updateStatus writes the status it is given, whatever the *)
(* order's and the fulfillment's present status.                           *)
SetCommerceStatus(class) ==
  /\ class # order
  /\ order' = class
  /\ UNCHANGED <<fulfillmentVars, assignments, tokenVars, recipient,
                 custodyLog, failureVars, unsecured>>

AssignmentNext == \E r \in Rider, byOrder \in BOOLEAN :
                    AssignRider(r, byOrder) \/ ReassignMidPossession(r, byOrder)

PickupNext == \E t \in PickupToken :
                IssuePickup(t) \/ ConfirmPickup(t) \/ ExpirePickup(t)

CustodyNext == \E t \in CustodyToken :
                 IssueCustody(t) \/ ConfirmCustody(t) \/ ExpireCustody(t)

DeliveryNext(target) ==
  \/ \E t \in DeliveryToken :
       \/ IssueDelivery(t) \/ ConfirmDelivery(t, target)
       \/ ExpireDelivery(t) \/ RevokeDelivery(t)
  \/ \E a \in Authorization : AuthorizeRecipient(a)
  \/ RevokeRecipient

ReturnNext == \E t \in ReturnToken :
                IssueReturn(t) \/ ConfirmReturn(t) \/ ExpireReturn(t)

FailureNext ==
  \/ ReportFailure
  \/ \E i \in DOMAIN cases :
       \/ \E d \in Disposition \ {"NONE"} : SelectDisposition(i, d)
       \/ ResolveCase(i)

(* target: the number of the attempt that an activated redelivery is to    *)
(* record on success, 0 when there is none.                                *)
FulfillmentStep(target) ==
  \/ \E actor \in Callers, s \in Status : Transition(actor, s)
  \/ BridgeStep
  \/ StartDelivery
  \/ \E class \in OrderClass : SetCommerceStatus(class)
  \/ AssignmentNext
  \/ PickupNext
  \/ CustodyNext
  \/ DeliveryNext(target)
  \/ ReturnNext
  \/ FailureNext

(* Without redeliveries (module Redelivery adds them).                     *)
Next == FulfillmentStep(0)

Spec == RecordsInit /\ [][Next]_records
-----------------------------------------------------------------------------
(***************************************************************************)
(* Safety.                                                                 *)
(***************************************************************************)

(* The rows have their types, whatever the services did.                   *)
TypeOK == RecordsTypeOK

(* Superseding a rider and installing the next, in three different         *)
(* handlers, never leaves two ACTIVE assignments or one that is not the    *)
(* active rider's at the current version, and no version serves twice, so  *)
(* a token bound to (rider, version) names one assignment.  No index of    *)
(* the database says so, and every handoff trusts it.                      *)
AssignmentAgrees ==
  /\ {a \in assignments : a.status = "ACTIVE"} =
       IF version = 0 THEN {}
       ELSE {[rider |-> activeRider, version |-> version, status |-> "ACTIVE"]}
  /\ \A a, b \in assignments : a.version = b.version => a = b

(* The proven custodian, when there is one, is the active rider; a pending *)
(* transfer is from him, to somebody else, at the current version.  This   *)
(* is what lets finalizeMidPossessionTransferInTx move both together.      *)
CustodianAgrees ==
  /\ custodian \in {None, activeRider}
  /\ pendingTo # None => /\ custodian = activeRider
                         /\ custodian # None
                         /\ pendingTo # activeRider
                         /\ pendingFrom = version
  /\ pendingTo = None => pendingFrom = 0

(* The lifecycle agrees with the rows that other handlers write: a rider is *)
(* in charge from the first assignment on, nobody is custodian and no      *)
(* transfer is pending until the pickup, and the assignments are those of  *)
(* the versions so far.                                                    *)
InShop == {"pending", "confirmed", "preparing", "ready_for_pickup"}

LifecycleAgrees ==
  /\ version = 0 <=> activeRider = None
  /\ status \in InShop => activeRider = None
  /\ status \in {"rider_assigned", "delivered", "returned"} \cup MidPossession
       => activeRider # None
  /\ status \in InShop \cup {"rider_assigned"} => custodian = None /\ pendingTo = None
  /\ \A a \in assignments : a.version \in 1 .. version

ActiveIn(table) == {t \in DOMAIN table : table[t].status = "ACTIVE"}
ConsumedIn(table) == {t \in DOMAIN table : table[t].status = "CONSUMED"}

(* A custody capability that is still ACTIVE while a transfer is pending   *)
(* was issued for that transfer: from the rider in charge to the rider it  *)
(* is pending for, under the present assignment.  Rewriting the intent, or *)
(* clearing it and creating another, leaves no older capability alive that *)
(* would hand the goods to a rider of an earlier intent.                   *)
CustodyTokenNamesTransfer ==
  \A t \in ActiveIn(custodyToken) :
    pendingTo # None => /\ custodyToken[t].rider = activeRider
                        /\ custodyToken[t].counterpart = pendingTo
                        /\ custodyToken[t].version = version

(* The capability in the rider's hand names whom the customer now trusts:  *)
(* no ACTIVE delivery token survives a change of the recipient, so nobody  *)
(* can be handed the goods under terms the customer has withdrawn.         *)
ReceiverIsCurrent ==
  \A t \in ActiveIn(deliveryToken) :
    deliveryToken[t].counterpart \in
      IF ActiveAuthorizations = {} THEN {Customer} ELSE ActiveAuthorizations

Events(type) == {i \in DOMAIN custodyLog : custodyLog[i].type = type}
FinalReceipts == Events("CUSTOMER_RECEIVED") \cup Events("RETURN_RECEIVED")

(* The goods leave the merchant once and reach one receiver at most once,  *)
(* however many tokens were issued, late, revoked or replayed; each such   *)
(* event has its consumed token.                                           *)
HandedOverOnce ==
  /\ Cardinality(Events("MERCHANT_RELEASED")) = Cardinality(ConsumedIn(pickupToken))
  /\ Cardinality(Events("RIDER_TRANSFER")) = Cardinality(ConsumedIn(custodyToken))
  /\ Cardinality(Events("CUSTOMER_RECEIVED")) = Cardinality(ConsumedIn(deliveryToken))
  /\ Cardinality(Events("RETURN_RECEIVED")) = Cardinality(ConsumedIn(returnToken))
  /\ Cardinality(Events("MERCHANT_RELEASED")) <= 1
  /\ Cardinality(FinalReceipts) <= 1

(* The custody log is a chain: each event starts where the one before it   *)
(* ended, the first starts at the merchant unless the generic API took the *)
(* pickup, and nothing follows the final receipt.                          *)
ChainUnbroken ==
  /\ \A i \in DOMAIN custodyLog :
       i > 1 => custodyLog[i].from = custodyLog[i - 1].to
  /\ (custodyLog # <<>> /\ <<"rider_assigned", "picked_up">> \notin unsecured)
       => custodyLog[1].from = Merchant
  /\ FinalReceipts \subseteq {Len(custodyLog)}

(* The lifecycle says delivered (returned) exactly when the log ends with  *)
(* the customer's (the merchant's) receipt from the active rider, unless   *)
(* the generic API wrote the status.                                       *)
OutcomeEvidenced ==
  /\ (status = "delivered" /\ <<"in_transit", "delivered">> \notin unsecured)
       => Events("CUSTOMER_RECEIVED") # {}
  /\ Events("CUSTOMER_RECEIVED") # {} => status = "delivered"
  /\ (status = "returned" /\ <<"returning", "returned">> \notin unsecured)
       => Events("RETURN_RECEIVED") # {}
  /\ Events("RETURN_RECEIVED") # {} => status = "returned"
  /\ \A i \in FinalReceipts : custodyLog[i].from = activeRider

(* Reports number the attempts 1, 2, ... without gap or repetition, one    *)
(* case each, in the order of the assignments that made them; at most one  *)
(* case is under treatment, and it is the latest.                          *)
AttemptsNumbered ==
  LET failed == {a \in attempts : a.outcome = "FAILED"} IN
  /\ {a.number : a \in failed} = 1 .. Len(cases)
  /\ Cardinality(failed) = Len(cases)
  /\ \A a, b \in attempts : a.number <= b.number => a.version <= b.version
  /\ \A i \in DOMAIN cases : OpenCase(cases[i]) => i = Len(cases)
-----------------------------------------------------------------------------
(***************************************************************************)
(* What the services promise together (module ChainOfCustody): whoever the *)
(* records say has the goods is whom the secured custody log handed them   *)
(* to, step by step, and assigning a rider moves nothing.                  *)
(***************************************************************************)

Holder ==
  IF status \in MidPossession THEN PresumedCustodian
  ELSE IF status = "delivered" THEN Customer
  ELSE Merchant

Phase ==
  IF status \in MidPossession THEN "road"
  ELSE IF status \in Terminal THEN "done"
  ELSE "shop"

Trail == [i \in DOMAIN custodyLog |-> custodyLog[i].to]

Chain == INSTANCE ChainOfCustody WITH holder <- Holder, phase <- Phase,
                                      trail <- Trail

(* The fulfillment services, when nobody uses the generic API, implement   *)
(* the chain of custody.                                                   *)
ImplementsChain == Chain!Spec
-----------------------------------------------------------------------------
(***************************************************************************)
(* What no step does.                                                      *)
(***************************************************************************)

(* A finished fulfillment is history: status, riders, custody and attempts *)
(* never change again, whichever tokens are still ACTIVE and whichever     *)
(* transfer was pending (only the intent of it may still be cleared).      *)
TerminalFrozen ==
  [][(status \in Terminal) =>
       (UNCHANGED <<status, activeRider, version, custodian, assignments,
                    custodyLog, attempts>>)]_records

(* The optimistic lock is sound: the rider in charge never changes under   *)
(* an unchanged assignment version, and versions never go back.            *)
RiderChangesWithVersion ==
  [][/\ version' \in {version, version + 1}
     /\ activeRider' # activeRider => version' = version + 1]_records

(* Possession never moves on paper only: a custodian, once proven, changes *)
(* only in the step that appends the transfer between the two riders.      *)
CustodyMovesWithEvidence ==
  [][(custodian # None /\ custodian' # custodian) =>
       custodyLog' = Append(custodyLog, [type |-> "RIDER_TRANSFER",
                                         from |-> custodian,
                                         to   |-> custodian'])]_records
=============================================================================
