----------------------------- MODULE ChainProofs -----------------------------
(***************************************************************************)
(* The fulfillment services implement the chain of custody (module         *)
(* ChainOfCustody) as long as riders and administrators do not use the     *)
(* generic transition API: for every set of riders, tokens and recipients, *)
(* every interleaving of assignments, handoffs, failures and changes of    *)
(* the order's status hands the goods over on record or not at all.        *)
(***************************************************************************)
EXTENDS FulfillmentProofs

(* Whoever has the goods on the road is proven to have them.  This is what *)
(* the generic API breaks: a rider who writes picked_up by it is nobody's  *)
(* counterpart.                                                            *)
CustodianProven == status \in MidPossession => custodian # None

ChainInv == IInv /\ CustodianProven

-----------------------------------------------------------------------------
(***************************************************************************)
(* The trail.                                                              *)
(***************************************************************************)

(* An interval from 1 determines its upper end.                            *)
LEMMA SameInterval ==
  ASSUME NEW n \in Nat, NEW m \in Nat, 1 .. n = 1 .. m
  PROVE  n = m
<1>1. \A k \in Nat \ {0} : k <= n <=> k <= m
  OBVIOUS
<1>2. n <= m
  BY <1>1
<1>3. m <= n
  BY <1>1
<1> QED
  BY <1>2, <1>3

(* The trail is as long as the log.                                        *)
LEMMA TrailType ==
  ASSUME NEW log \in Seq(CustodyEvent)
  PROVE  LET trail == [i \in DOMAIN log |-> log[i].to]
         IN  /\ trail \in Seq(Party)
             /\ Len(trail) = Len(log)
             /\ \A i \in 1 .. Len(log) : trail[i] = log[i].to
<1> DEFINE trail == [i \in 1 .. Len(log) |-> log[i].to]
<1>1. DOMAIN log = 1 .. Len(log) /\ Len(log) \in Nat
  BY LenProperties
<1>2. \A i \in 1 .. Len(log) : log[i].to \in Party
  <2>1. \A i \in 1 .. Len(log) : log[i] \in CustodyEvent
    BY ElementOfSeq
  <2> QED
    BY <2>1 DEF CustodyEvent
<1>3. trail \in [1 .. Len(log) -> Party]
  BY <1>2
<1>4. trail \in Seq(Party)
  BY <1>1, <1>3, SeqDef
<1>5. Len(trail) = Len(log)
  <2>1. DOMAIN trail = 1 .. Len(trail) /\ Len(trail) \in Nat
    BY <1>4, LenProperties
  <2>2. 1 .. Len(trail) = 1 .. Len(log)
    BY <1>3, <2>1
  <2> HIDE DEF trail
  <2> QED
    BY <1>1, <2>1, <2>2, SameInterval
<1> QED
  BY <1>1, <1>4, <1>5

(* Appending an event to the log appends its receiver to the trail.        *)
LEMMA TrailAppend ==
  ASSUME custodyLog \in Seq(CustodyEvent), NEW e \in CustodyEvent,
         custodyLog' = Append(custodyLog, e)
  PROVE  Trail' = Append(Trail, e.to)
<1>1. /\ Len(custodyLog) \in Nat
      /\ custodyLog' \in Seq(CustodyEvent)
      /\ Len(custodyLog') = Len(custodyLog) + 1
      /\ custodyLog'[Len(custodyLog) + 1] = e
      /\ \A i \in 1 .. Len(custodyLog) : custodyLog'[i] = custodyLog[i]
  BY AppendProperties, LenProperties
<1>2. /\ Trail \in Seq(Party) /\ Len(Trail) = Len(custodyLog)
      /\ \A i \in 1 .. Len(custodyLog) : Trail[i] = custodyLog[i].to
  BY TrailType DEF Trail
<1>3. /\ Trail' \in Seq(Party) /\ Len(Trail') = Len(custodyLog) + 1
      /\ \A i \in 1 .. Len(custodyLog) + 1 : Trail'[i] = custodyLog'[i].to
  BY <1>1, TrailType DEF Trail
<1>4. e.to \in Party
  BY DEF CustodyEvent
<1>5. /\ Append(Trail, e.to) \in Seq(Party)
      /\ Len(Append(Trail, e.to)) = Len(custodyLog) + 1
      /\ Append(Trail, e.to)[Len(custodyLog) + 1] = e.to
      /\ \A i \in 1 .. Len(custodyLog) : Append(Trail, e.to)[i] = Trail[i]
  BY <1>2, <1>4, AppendProperties
<1>6. \A i \in 1 .. Len(custodyLog) + 1 : Trail'[i] = Append(Trail, e.to)[i]
  BY <1>1, <1>2, <1>3, <1>5
<1> QED
  BY <1>3, <1>5, <1>6, SeqEqual

-----------------------------------------------------------------------------
(***************************************************************************)
(* The steps of the services as steps of the chain.                        *)
(***************************************************************************)

(* A step that moves the lifecycle within a phase and leaves the custodian *)
(* and the log alone changes nothing in the chain.                         *)
LEMMA Unseen ==
  ASSUME ChainInv,
         UNCHANGED <<custodian, custodyLog>>,
         \/ UNCHANGED status
         \/ status \in MidPossession /\ status' \in MidPossession
         \/ /\ status \in InShop \cup {"rider_assigned"}
            /\ status' \in InShop \cup {"rider_assigned"}
  PROVE  /\ UNCHANGED <<Holder, Phase, Trail>>
         /\ CustodianProven'
<1>1. UNCHANGED Trail
  BY DEF Trail
<1>2. CASE status \in MidPossession
  <2>1. custodian # None /\ status' \in MidPossession
    BY <1>2 DEF ChainInv, CustodianProven, MidPossession, InShop
  <2> QED
    BY <1>1, <1>2, <2>1 DEF Holder, Phase, PresumedCustodian, CustodianProven
<1>3. CASE status \notin MidPossession /\ status = status'
  BY <1>1, <1>3 DEF Holder, Phase, CustodianProven
<1>4. CASE /\ status \in InShop \cup {"rider_assigned"}
           /\ status' \in InShop \cup {"rider_assigned"}
  BY <1>1, <1>4 DEF Holder, Phase, CustodianProven, InShop, MidPossession, Terminal
<1> QED
  BY <1>2, <1>3, <1>4

(* What each group of actions is in the chain: nothing, or one of its      *)
(* steps.                                                                  *)
Seen == /\ Chain!Next \/ UNCHANGED <<Holder, Phase, Trail>>
        /\ CustodianProven'

(* Customers and merchants only prepare or cancel what is in the shop.     *)
LEMMA TransitionSeen ==
  ASSUME ChainInv, NEW actor \in {"CUSTOMER", "MERCHANT"}, NEW target,
         Transition(actor, target)
  PROVE  Seen
<1>1. /\ status \in Status
      /\ <<status, target>> \in Transitions
      /\ target \in {"confirmed", "preparing", "ready_for_pickup", "cancelled"}
      /\ status' = target
      /\ UNCHANGED <<custodian, custodyLog>>
  BY DEF Transition, TransitionAllowed, OperationAllowed, MerchantTargets, Trusted,
         ChainInv, IInv, TypeOK, RecordsTypeOK
<1>2. status \in InShop \cup {"rider_assigned"}
  BY <1>1 DEF Transitions, InShop
<1>3. CASE target = "cancelled"
  <2>1. Holder = Merchant /\ Holder' = Merchant /\ Phase = "shop" /\ Phase' = "done"
    BY <1>1, <1>2, <1>3 DEF Holder, Phase, InShop, MidPossession, Terminal
  <2>2. UNCHANGED Trail /\ CustodianProven'
    BY <1>1, <1>3 DEF Trail, CustodianProven, MidPossession
  <2>3. Chain!Cancel
    BY <2>1, <2>2 DEF Chain!Cancel
  <2> QED
    BY <2>2, <2>3 DEF Seen, Chain!Next
<1>4. CASE target # "cancelled"
  <2>1. status' \in InShop
    BY <1>1, <1>4 DEF InShop
  <2> QED
    BY <1>1, <1>2, <2>1, Unseen DEF Seen
<1> QED
  BY <1>3, <1>4

(* Assigning a rider moves nothing.                                        *)
LEMMA AssignmentSeen ==
  ASSUME ChainInv, AssignmentNext
  PROVE  Seen
<1>1. ASSUME NEW r \in Rider, NEW byOrder \in BOOLEAN, AssignRider(r, byOrder)
      PROVE  Seen
  <2>1. /\ UNCHANGED <<custodian, custodyLog>>
        /\ status \in PrePickup \cup MidPossession
        /\ status' = IF status \in MidPossession THEN status ELSE "rider_assigned"
    BY <1>1 DEF AssignRider
  <2>2. \/ status \in MidPossession /\ status' \in MidPossession
        \/ /\ status \in InShop \cup {"rider_assigned"}
           /\ status' \in InShop \cup {"rider_assigned"}
    BY <2>1 DEF PrePickup, InShop
  <2> QED
    BY <2>1, <2>2, Unseen DEF Seen
<1>2. ASSUME NEW r \in Rider, NEW byOrder \in BOOLEAN,
             ReassignMidPossession(r, byOrder)
      PROVE  Seen
  <2>1. UNCHANGED <<status, custodian, custodyLog>>
    BY <1>2 DEF ReassignMidPossession, CustodianKept, ChainInv, CustodianProven
  <2> QED
    BY <2>1, Unseen DEF Seen
<1> QED
  BY <1>1, <1>2 DEF AssignmentNext

(* The pickup takes the goods from the shop to the assigned rider.         *)
LEMMA PickupSeen ==
  ASSUME ChainInv, PickupNext
  PROVE  Seen
<1>1. ASSUME NEW t \in PickupToken, IssuePickup(t) \/ ExpirePickup(t)
      PROVE  Seen
  <2>1. UNCHANGED <<status, custodian, custodyLog>>
    BY <1>1 DEF IssuePickup, ExpirePickup, fulfillmentVars
  <2> QED
    BY <2>1, Unseen DEF Seen
<1>2. ASSUME NEW t \in PickupToken, ConfirmPickup(t)
      PROVE  Seen
  <2> DEFINE r == pickupToken[t].rider
             event == [type |-> "MERCHANT_RELEASED", from |-> Merchant, to |-> r]
  <2>1. /\ status = "rider_assigned" /\ status' = "picked_up"
        /\ HasActiveAssignment(r, pickupToken[t].version)
        /\ custodyLog' = Append(custodyLog, event)
        /\ custodian' = r
    BY <1>2 DEF ConfirmPickup, PickupTokenValid, ServiceTransition
  <2>2. r \in Rider /\ r # None
    BY <2>1, PartyAssumption
    DEF HasActiveAssignment, ChainInv, IInv, TypeOK, RecordsTypeOK, Assignment
  <2>3. event \in CustodyEvent /\ event.to = r /\ custodyLog \in Seq(CustodyEvent)
    BY <2>2 DEF CustodyEvent, CustodyType, Party, ChainInv, IInv, TypeOK, RecordsTypeOK
  <2>4. Trail' = Append(Trail, r)
    BY <2>1, <2>3, TrailAppend
  <2>5. Holder' = r /\ Phase = "shop" /\ Phase' = "road"
    BY <2>1, <2>2 DEF Holder, Phase, PresumedCustodian, MidPossession, Terminal
  <2>6. Chain!PickUp(r)
    BY <2>4, <2>5 DEF Chain!PickUp, Chain!HandOver
  <2>7. CustodianProven'
    BY <2>1, <2>2 DEF CustodianProven
  <2> QED
    BY <2>2, <2>6, <2>7 DEF Seen, Chain!Next
<1> QED
  BY <1>1, <1>2 DEF PickupNext

(* The custody handoff passes them to another rider.                       *)
LEMMA CustodySeen ==
  ASSUME ChainInv, CustodyNext
  PROVE  Seen
<1>1. ASSUME NEW t \in CustodyToken, IssueCustody(t) \/ ExpireCustody(t)
      PROVE  Seen
  <2>1. UNCHANGED <<status, custodian, custodyLog>>
    BY <1>1 DEF IssueCustody, ExpireCustody, fulfillmentVars
  <2> QED
    BY <2>1, Unseen DEF Seen
<1>2. ASSUME NEW t \in CustodyToken, ConfirmCustody(t)
      PROVE  Seen
  <2> DEFINE from == custodyToken[t].rider
             to == custodyToken[t].counterpart
             event == [type |-> "RIDER_TRANSFER", from |-> from, to |-> to]
  <2>1. /\ custodyToken[t].status = "ACTIVE"
        /\ status \in MidPossession
        /\ custodian \in {None, from}
        /\ activeRider = from /\ pendingTo = to
        /\ custodyLog' = Append(custodyLog, event)
        /\ custodian' = to
        /\ UNCHANGED status
    BY <1>2 DEF ConfirmCustody, FinalizeTransfer
  <2>2. from \in Rider /\ to \in Rider /\ to # None
    BY <2>1, PartyAssumption DEF ChainInv, IInv, CustodyTokensBound
  <2>3. custodian = from /\ to # from
    BY <2>1, <2>2
    DEF ChainInv, CustodianProven, IInv, Agreement, CustodianAgrees
  <2>4. event \in CustodyEvent /\ event.to = to /\ custodyLog \in Seq(CustodyEvent)
    BY <2>2 DEF CustodyEvent, CustodyType, Party, ChainInv, IInv, TypeOK, RecordsTypeOK
  <2>5. Trail' = Append(Trail, to)
    BY <2>1, <2>4, TrailAppend
  <2>6. Holder = from /\ Holder' = to /\ Phase = "road" /\ UNCHANGED Phase
    BY <2>1, <2>2, <2>3, PartyAssumption DEF Holder, Phase, PresumedCustodian
  <2>7. Chain!Transfer(to)
    BY <2>3, <2>5, <2>6 DEF Chain!Transfer, Chain!HandOver
  <2>8. CustodianProven'
    BY <2>1, <2>2 DEF CustodianProven
  <2> QED
    BY <2>2, <2>7, <2>8 DEF Seen, Chain!Next
<1> QED
  BY <1>1, <1>2 DEF CustodyNext

(* A confirmed delivery or return ends the chain.                          *)
LEMMA FinishSeen ==
  ASSUME ChainInv, NEW r \in Rider, NEW p \in {Customer, Merchant},
         NEW type \in CustodyType,
         status \in MidPossession,
         status' = IF p = Customer THEN "delivered" ELSE "returned",
         custodyLog' = Append(custodyLog, [type |-> type, from |-> r, to |-> p])
  PROVE  Seen
<1> DEFINE event == [type |-> type, from |-> r, to |-> p]
<1>1. event \in CustodyEvent /\ event.to = p /\ custodyLog \in Seq(CustodyEvent)
  BY DEF CustodyEvent, Party, ChainInv, IInv, TypeOK, RecordsTypeOK
<1>2. Trail' = Append(Trail, p)
  BY <1>1, TrailAppend
<1>3. Holder' = p /\ Phase = "road" /\ Phase' = "done" /\ CustodianProven'
  BY PartyAssumption DEF Holder, Phase, MidPossession, Terminal, CustodianProven
<1>4. Chain!Finish
  BY <1>2, <1>3 DEF Chain!Finish, Chain!HandOver
<1> QED
  BY <1>3, <1>4 DEF Seen, Chain!Next

(* A delivery action finishes the chain with the customer, or is a stutter. *)
LEMMA DeliverySeen ==
  ASSUME ChainInv, NEW target \in Nat, DeliveryNext(target)
  PROVE  Seen
<1>1. ASSUME NEW t \in DeliveryToken, ConfirmDelivery(t, target)
      PROVE  Seen
  <2> DEFINE r == deliveryToken[t].rider
  <2>1. /\ status = "in_transit" /\ status' = "delivered"
        /\ HasActiveAssignment(r, deliveryToken[t].version)
        /\ custodyLog' = Append(custodyLog, [type |-> "CUSTOMER_RECEIVED",
                                             from |-> r, to |-> Customer])
    BY <1>1 DEF ConfirmDelivery, DeliveryTokenValid, ServiceTransition
  <2>2. r \in Rider
    BY <2>1 DEF HasActiveAssignment, ChainInv, IInv, TypeOK, RecordsTypeOK, Assignment
  <2> QED
    BY <2>1, <2>2, FinishSeen DEF MidPossession, CustodyType
<1>2. CASE UNCHANGED <<status, custodian, custodyLog>>
  BY <1>2, Unseen DEF Seen
<1> QED
  BY <1>1, <1>2
  DEF DeliveryNext, IssueDelivery, ExpireDelivery, RevokeDelivery,
      DropDeliveryToken, AuthorizeRecipient, RevokeRecipient, fulfillmentVars

(* A return action finishes the chain with the merchant, or is a stutter.  *)
LEMMA ReturnSeen ==
  ASSUME ChainInv, ReturnNext
  PROVE  Seen
<1>1. ASSUME NEW t \in ReturnToken, ConfirmReturn(t)
      PROVE  Seen
  <2> DEFINE r == returnToken[t].rider
  <2>1. /\ status = "returning" /\ status' = "returned"
        /\ HasActiveAssignment(r, returnToken[t].version)
        /\ custodyLog' = Append(custodyLog, [type |-> "RETURN_RECEIVED",
                                             from |-> r, to |-> Merchant])
    BY <1>1 DEF ConfirmReturn, ReturnTokenValid, ServiceTransition
  <2>2. r \in Rider
    BY <2>1 DEF HasActiveAssignment, ChainInv, IInv, TypeOK, RecordsTypeOK, Assignment
  <2> QED
    BY <2>1, <2>2, FinishSeen, PartyAssumption DEF MidPossession, CustodyType
<1>2. CASE UNCHANGED <<status, custodian, custodyLog>>
  BY <1>2, Unseen DEF Seen
<1> QED
  BY <1>1, <1>2 DEF ReturnNext, IssueReturn, ExpireReturn, fulfillmentVars

(* A failure keeps the goods on the road.                                  *)
LEMMA FailureSeen ==
  ASSUME ChainInv, FailureNext
  PROVE  Seen
<1>1. /\ UNCHANGED <<custodian, custodyLog>>
      /\ \/ UNCHANGED status
         \/ status = "in_transit" /\ status' = "delivery_failed"
         \/ status = "delivery_failed" /\ status' = "returning"
  BY DEF FailureNext, ReportFailure, SelectDisposition, ResolveCase,
         ServiceTransition, fulfillmentVars
<1> QED
  BY <1>1, Unseen DEF Seen, MidPossession

-----------------------------------------------------------------------------
(* Every step of the services is a step of the chain or none, and leaves   *)
(* the goods on the road with a proven custodian.                          *)
LEMMA StepSeen ==
  ASSUME Callers \subseteq {"CUSTOMER", "MERCHANT"}, ChainInv,
         NEW target \in Nat, FulfillmentStep(target)
  PROVE  Seen
<1>1. CASE \E actor \in Callers, s \in Status : Transition(actor, s)
  BY <1>1, TransitionSeen
<1>2. CASE BridgeStep
  BY <1>2, TransitionSeen DEF BridgeStep
<1>3. CASE StartDelivery
  <2>1. /\ UNCHANGED <<custodian, custodyLog>>
        /\ status \in MidPossession /\ status' \in MidPossession
    BY <1>3 DEF StartDelivery, ServiceTransition, MidPossession
  <2> QED
    BY <2>1, Unseen DEF Seen
<1>4. CASE \E class \in OrderClass : SetCommerceStatus(class)
  <2>1. UNCHANGED <<status, custodian, custodyLog>>
    BY <1>4 DEF SetCommerceStatus, fulfillmentVars
  <2> QED
    BY <2>1, Unseen DEF Seen
<1>5. CASE AssignmentNext
  BY <1>5, AssignmentSeen
<1>6. CASE PickupNext
  BY <1>6, PickupSeen
<1>7. CASE CustodyNext
  BY <1>7, CustodySeen
<1>8. CASE DeliveryNext(target)
  BY <1>8, DeliverySeen
<1>9. CASE ReturnNext
  BY <1>9, ReturnSeen
<1>10. CASE FailureNext
  BY <1>10, FailureSeen
<1> QED
  BY <1>1, <1>2, <1>3, <1>4, <1>5, <1>6, <1>7, <1>8, <1>9, <1>10
  DEF FulfillmentStep

(* The services implement the chain of custody.                            *)
THEOREM Refinement ==
  ASSUME Callers \subseteq {"CUSTOMER", "MERCHANT"}
  PROVE  Spec => ImplementsChain
<1>1. RecordsInit => CustodianProven /\ Chain!Init
  BY DEF RecordsInit, CustodianProven, Chain!Init, Holder, Phase, Trail,
         MidPossession, Terminal
<1>2. ASSUME ChainInv, [Next]_records
      PROVE  ChainInv' /\ [Chain!Next]_(Chain!chain)
  <2>1. IInv'
    BY <1>2, StepInv, StutterInv DEF ChainInv, Next
  <2>2. CASE Next
    BY <1>2, <2>1, <2>2, StepSeen DEF Next, Seen, ChainInv, Chain!chain
  <2>3. CASE UNCHANGED records
    <3>1. UNCHANGED <<status, custodian, custodyLog>>
      BY <2>3 DEF records
    <3> QED
      BY <1>2, <2>1, <3>1, Unseen DEF ChainInv, Chain!chain
  <2> QED
    BY <1>2, <2>2, <2>3
<1>3. RecordsInit => ChainInv
  BY <1>1, InitInv DEF ChainInv
<1> QED
  BY <1>1, <1>2, <1>3, PTL DEF Spec, ImplementsChain, Chain!Spec
=============================================================================
