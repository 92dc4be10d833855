---------------------------- MODULE CustodyProofs ----------------------------
(***************************************************************************)
(* Proofs about what the fulfillment leaves behind, for every set of       *)
(* riders, tokens and recipients and every set of callers of the generic   *)
(* API: the custody log is one chain, it ends as the lifecycle says, and   *)
(* no capability outlives the intent it was issued for.                    *)
(*                                                                         *)
(* The chain needs the custodian: an event starts where the last one ended *)
(* because the last one made its receiver custodian, and nothing but       *)
(* another event replaces a proven custodian (LogSound).                   *)
(*                                                                         *)
(* Counting the log takes one step more: an event is written by the step   *)
(* that consumes its capability, and by no other (CountSound).             *)
(***************************************************************************)
EXTENDS FulfillmentProofs, FiniteSetTheorems

Bypass == <<"rider_assigned", "picked_up">>

Ended == {"delivered", "returned"}

Receipt(s) == IF s = "delivered" THEN "CUSTOMER_RECEIVED" ELSE "RETURN_RECEIVED"

LastStep(s) == IF s = "delivered" THEN <<"in_transit", "delivered">>
                                  ELSE <<"returning", "returned">>

LogSound ==
  LET n == Len(custodyLog) IN
  /\ \A i \in 2 .. n : custodyLog[i].from = custodyLog[i - 1].to
  /\ (n > 0 /\ Bypass \notin unsecured) => custodyLog[1].from = Merchant
  /\ \A i \in 1 .. n : custodyLog[i].type \in {"CUSTOMER_RECEIVED", "RETURN_RECEIVED"} =>
       /\ i = n
       /\ custodyLog[i].from = activeRider
       /\ status \in Ended /\ custodyLog[i].type = Receipt(status)
  /\ (n > 0 /\ status \notin Ended) =>
       custodian # None /\ custodyLog[n].to = custodian
  /\ (n = 0 /\ status \in MidPossession) => Bypass \in unsecured
  /\ (status \in Ended /\ LastStep(status) \notin unsecured) =>
       n > 0 /\ custodyLog[n].type = Receipt(status)

-----------------------------------------------------------------------------
(* A step that appends nothing, keeps a proven custodian, and neither ends *)
(* the trip nor starts it.                                                 *)
LEMMA QuietLog ==
  ASSUME LogSound, UNCHANGED <<custodyLog, unsecured>>,
         custodian' = custodian \/ custodian = None,
         \/ status' = status
         \/ /\ status \notin Ended /\ status' \notin Ended
            /\ status' \in MidPossession => status \in MidPossession,
         status \in Ended => activeRider' = activeRider
  PROVE  LogSound'
BY DEF LogSound, Ended, Receipt, LastStep

LEMMA AppendedLog ==
  ASSUME IInv, LogSound, NEW e \in CustodyEvent,
         custodyLog' = Append(custodyLog, e), unsecured' = unsecured,
         status \notin Ended,
         custodyLog # <<>> => e.from = custodian,
         custodyLog = <<>> => Bypass \in unsecured \/ e.from = Merchant,
         \/ /\ e.type \notin {"CUSTOMER_RECEIVED", "RETURN_RECEIVED"}
            /\ status' \notin Ended
            /\ custodian' = e.to /\ e.to # None
         \/ /\ status' \in Ended /\ e.type = Receipt(status')
            /\ e.from = activeRider'
  PROVE  LogSound'
<1> DEFINE n == Len(custodyLog)
<1>1. custodyLog \in Seq(CustodyEvent)
  BY DEF IInv, TypeOK, RecordsTypeOK
<1>2. /\ n \in Nat /\ Len(custodyLog') = n + 1
      /\ custodyLog'[n + 1] = e
      /\ \A i \in 1 .. n : custodyLog'[i] = custodyLog[i]
      /\ n = 0 <=> custodyLog = <<>>
  BY <1>1, AppendProperties, LenProperties, EmptySeq
<1> HIDE DEF n
<1>3. \A i \in 1 .. n : custodyLog[i].type \notin {"CUSTOMER_RECEIVED", "RETURN_RECEIVED"}
  BY DEF LogSound, n
<1>4. \A i \in 2 .. n : custodyLog[i].from = custodyLog[i - 1].to
  BY DEF LogSound, n
<1>5. n > 0 => e.from = custodian /\ custodyLog[n].to = custodian
  BY <1>2 DEF LogSound, n
<1>6. \A i \in 2 .. n + 1 : custodyLog'[i].from = custodyLog'[i - 1].to
  <2> SUFFICES ASSUME NEW i \in 2 .. n + 1 PROVE custodyLog'[i].from = custodyLog'[i - 1].to
    OBVIOUS
  <2>1. CASE i = n + 1
    BY <1>2, <1>5, <2>1
  <2>2. CASE i # n + 1
    <3>1. i \in 2 .. n /\ i \in 1 .. n /\ i - 1 \in 1 .. n
      BY <1>2, <2>2
    <3> QED BY <1>2, <1>4, <3>1
  <2> QED BY <2>1, <2>2
<1>7. Bypass \notin unsecured => custodyLog'[1].from = Merchant
  <2>1. CASE n = 0
    BY <1>2, <2>1
  <2>2. CASE n > 0
    BY <1>2, <2>2 DEF LogSound, n
  <2> QED BY <1>2, <2>1, <2>2
<1>8. \A i \in 1 .. n + 1 :
        custodyLog'[i].type \in {"CUSTOMER_RECEIVED", "RETURN_RECEIVED"} => i = n + 1
  BY <1>2, <1>3
<1>9. status' \in Ended => e.type = Receipt(status') /\ e.from = activeRider'
  OBVIOUS
<1>10. e.type \in {"CUSTOMER_RECEIVED", "RETURN_RECEIVED"} => status' \in Ended
  OBVIOUS
<1>11. status' \notin Ended => custodian' # None /\ e.to = custodian'
  OBVIOUS
<1> QED BY <1>2, <1>6, <1>7, <1>8, <1>9, <1>10, <1>11 DEF LogSound

-----------------------------------------------------------------------------
LEMMA TransitionLog ==
  ASSUME IInv, LogSound, NEW actor, NEW target, Transition(actor, target)
  PROVE  LogSound'
<1>1. /\ <<status, target>> \in Transitions /\ status' = target
      /\ status \notin Terminal
      /\ unsecured' = unsecured \cup ({<<status, target>>} \cap SecuredEdges)
      /\ UNCHANGED <<activeRider, custodian, custodyLog>>
  BY DEF Transition, TransitionAllowed
<1>2. status \notin Ended /\ unsecured \subseteq unsecured'
  BY <1>1 DEF Terminal, Ended
<1>3. (status' \in MidPossession /\ status \notin MidPossession) => Bypass \in unsecured'
  <2>1. (target \in MidPossession /\ status \notin MidPossession) => <<status, target>> = Bypass
    BY <1>1 DEF Transitions, MidPossession, Bypass
  <2> QED BY <1>1, <2>1 DEF SecuredEdges, Bypass
<1>4. status' \in Ended => LastStep(status') \in unsecured'
  <2>1. target \in Ended => <<status, target>> = LastStep(target)
    BY <1>1 DEF Transitions, Ended, LastStep
  <2> QED BY <1>1, <2>1 DEF SecuredEdges, LastStep, Ended
<1> QED BY <1>1, <1>2, <1>3, <1>4 DEF LogSound

LEMMA AssignmentLog ==
  ASSUME IInv, LogSound, AssignmentNext
  PROVE  LogSound'
<1>1. ASSUME NEW r \in Rider, NEW byOrder \in BOOLEAN, AssignRider(r, byOrder)
      PROVE  LogSound'
  <2>1. /\ UNCHANGED <<custodyLog, unsecured, custodian>>
        /\ status \in PrePickup \cup MidPossession
        /\ status' = IF status \in MidPossession THEN status ELSE "rider_assigned"
    BY <1>1 DEF AssignRider
  <2> QED BY <2>1, QuietLog DEF PrePickup, MidPossession, Ended
<1>2. ASSUME NEW r \in Rider, NEW byOrder \in BOOLEAN, ReassignMidPossession(r, byOrder)
      PROVE  LogSound'
  <2>1. /\ UNCHANGED <<custodyLog, unsecured, status, activeRider>>
        /\ custodian' = custodian \/ custodian = None
    BY <1>2 DEF ReassignMidPossession, CustodianKept
  <2> QED BY <2>1, QuietLog
<1> QED BY <1>1, <1>2 DEF AssignmentNext

LEMMA PickupLog ==
  ASSUME IInv, LogSound, PickupNext
  PROVE  LogSound'
<1>1. ASSUME NEW t \in PickupToken, IssuePickup(t) \/ ExpirePickup(t) PROVE LogSound'
  BY <1>1, QuietLog DEF IssuePickup, ExpirePickup, fulfillmentVars
<1>2. ASSUME NEW t \in PickupToken, ConfirmPickup(t) PROVE LogSound'
  <2> DEFINE r == pickupToken[t].rider
             e == [type |-> "MERCHANT_RELEASED", from |-> Merchant, to |-> r]
  <2>1. /\ status = "rider_assigned" /\ status' = "picked_up"
        /\ HasActiveAssignment(r, pickupToken[t].version)
        /\ custodyLog' = Append(custodyLog, e)
        /\ custodian' = r /\ unsecured' = unsecured
    BY <1>2 DEF ConfirmPickup, PickupTokenValid, ServiceTransition
  <2>2. r \in Rider /\ r # None
    BY <2>1, PartyAssumption
    DEF HasActiveAssignment, IInv, TypeOK, RecordsTypeOK, Assignment
  <2>3. e \in CustodyEvent
    BY <2>2 DEF CustodyEvent, CustodyType, Party
  <2>4. custodyLog = <<>>
    <3>1. custodian = None
      BY <2>1 DEF IInv, Agreement, LifecycleAgrees
    <3>2. custodyLog \in Seq(CustodyEvent)
      BY DEF IInv, TypeOK, RecordsTypeOK
    <3>3. Len(custodyLog) \in Nat /\ (Len(custodyLog) = 0 => custodyLog = <<>>)
      BY <3>2, LenProperties, EmptySeq
    <3>4. Len(custodyLog) > 0 => FALSE
      BY <2>1, <3>1 DEF LogSound, Ended
    <3> QED BY <3>3, <3>4
  <2>5. /\ e.type = "MERCHANT_RELEASED" /\ e.from = Merchant /\ e.to = r
    OBVIOUS
  <2> HIDE DEF e, r
  <2> QED BY <2>1, <2>2, <2>3, <2>4, <2>5, AppendedLog DEF Ended
<1> QED BY <1>1, <1>2 DEF PickupNext

LEMMA CustodyLog ==
  ASSUME IInv, LogSound, CustodyNext
  PROVE  LogSound'
<1>1. ASSUME NEW t \in CustodyToken, IssueCustody(t) \/ ExpireCustody(t) PROVE LogSound'
  BY <1>1, QuietLog DEF IssueCustody, ExpireCustody, fulfillmentVars
<1>2. ASSUME NEW t \in CustodyToken, ConfirmCustody(t) PROVE LogSound'
  <2> DEFINE from == custodyToken[t].rider
             to == custodyToken[t].counterpart
             e == [type |-> "RIDER_TRANSFER", from |-> from, to |-> to]
  <2>1. /\ custodyToken[t].status = "ACTIVE"
        /\ status \in MidPossession /\ status' = status
        /\ custodian \in {None, from}
        /\ custodyLog' = Append(custodyLog, e)
        /\ custodian' = to /\ unsecured' = unsecured
    BY <1>2 DEF ConfirmCustody, FinalizeTransfer
  <2>2. from \in Rider /\ to \in Rider /\ to # None
    BY <2>1, PartyAssumption DEF IInv, CustodyTokensBound
  <2>3. e \in CustodyEvent
    BY <2>2 DEF CustodyEvent, CustodyType, Party
  <2>4. /\ custodyLog # <<>> => from = custodian
        /\ custodyLog = <<>> => Bypass \in unsecured
    <3>1. custodyLog \in Seq(CustodyEvent)
      BY DEF IInv, TypeOK, RecordsTypeOK
    <3>2. Len(custodyLog) \in Nat /\ (Len(custodyLog) = 0 <=> custodyLog = <<>>)
      BY <3>1, LenProperties, EmptySeq
    <3> QED BY <2>1, <3>2 DEF LogSound, Ended, MidPossession
  <2>5. e.type = "RIDER_TRANSFER" /\ e.from = from /\ e.to = to
    OBVIOUS
  <2>6. status \notin Ended
    BY <2>1 DEF Ended, MidPossession
  <2> HIDE DEF e, from, to
  <2> QED BY <2>1, <2>2, <2>3, <2>4, <2>5, <2>6, AppendedLog
<1> QED BY <1>1, <1>2 DEF CustodyNext

(* The rider who holds the goods hands them to the customer or back to the *)
(* merchant.                                                               *)
LEMMA EndLog ==
  ASSUME IInv, LogSound, NEW r \in Rider, NEW p \in {Customer, Merchant},
         status \in MidPossession, status' \in Ended, r = activeRider,
         UNCHANGED <<activeRider, unsecured>>,
         custodyLog' = Append(custodyLog, [type |-> Receipt(status'), from |-> r, to |-> p])
  PROVE  LogSound'
<1> DEFINE e == [type |-> Receipt(status'), from |-> r, to |-> p]
<1>1. e \in CustodyEvent
  BY DEF CustodyEvent, CustodyType, Party, Receipt
<1>2. /\ custodyLog # <<>> => r = custodian
      /\ custodyLog = <<>> => Bypass \in unsecured
  <2>1. custodyLog \in Seq(CustodyEvent)
    BY DEF IInv, TypeOK, RecordsTypeOK
  <2>2. Len(custodyLog) \in Nat /\ (Len(custodyLog) = 0 <=> custodyLog = <<>>)
    BY <2>1, LenProperties, EmptySeq
  <2>3. custodian \in {None, activeRider}
    BY DEF IInv, Agreement, CustodianAgrees
  <2> QED BY <2>2, <2>3 DEF LogSound, Ended, MidPossession
<1>3. e.type = Receipt(status') /\ e.from = r
  OBVIOUS
<1>4. status \notin Ended /\ custodyLog' = Append(custodyLog, e)
  BY DEF Ended, MidPossession
<1> HIDE DEF e
<1> QED BY <1>1, <1>2, <1>3, <1>4, AppendedLog

LEMMA DeliveryLog ==
  ASSUME IInv, LogSound, NEW target \in Nat, DeliveryNext(target)
  PROVE  LogSound'
<1>1. ASSUME NEW t \in DeliveryToken, ConfirmDelivery(t, target) PROVE LogSound'
  <2> DEFINE r == deliveryToken[t].rider
  <2>1. /\ status = "in_transit" /\ status' = "delivered"
        /\ MayActAsPossessor(r)
        /\ HasActiveAssignment(r, deliveryToken[t].version)
        /\ UNCHANGED <<activeRider, unsecured>>
        /\ custodyLog' = Append(custodyLog, [type |-> "CUSTOMER_RECEIVED",
                                             from |-> r, to |-> Customer])
    BY <1>1 DEF ConfirmDelivery, DeliveryTokenValid, ServiceTransition
  <2>2. r \in Rider /\ r = activeRider
    BY <2>1 DEF HasActiveAssignment, MayActAsPossessor, IInv, TypeOK, RecordsTypeOK, Assignment
  <2>3. Receipt(status') = "CUSTOMER_RECEIVED"
    BY <2>1 DEF Receipt
  <2> QED BY <2>1, <2>2, <2>3, EndLog DEF MidPossession, Ended
<1>2. CASE UNCHANGED <<status, activeRider, custodian, custodyLog, unsecured>>
  BY <1>2, QuietLog
<1> QED BY <1>1, <1>2
  DEF DeliveryNext, IssueDelivery, ExpireDelivery, RevokeDelivery,
      DropDeliveryToken, AuthorizeRecipient, RevokeRecipient, fulfillmentVars

LEMMA ReturnLog ==
  ASSUME IInv, LogSound, ReturnNext
  PROVE  LogSound'
<1>1. ASSUME NEW t \in ReturnToken, ConfirmReturn(t) PROVE LogSound'
  <2> DEFINE r == returnToken[t].rider
  <2>1. /\ status = "returning" /\ status' = "returned"
        /\ activeRider = r
        /\ HasActiveAssignment(r, returnToken[t].version)
        /\ UNCHANGED <<activeRider, unsecured>>
        /\ custodyLog' = Append(custodyLog, [type |-> "RETURN_RECEIVED",
                                             from |-> r, to |-> Merchant])
    BY <1>1 DEF ConfirmReturn, ReturnTokenValid, ServiceTransition
  <2>2. r \in Rider
    BY <2>1 DEF HasActiveAssignment, IInv, TypeOK, RecordsTypeOK, Assignment
  <2>3. Receipt(status') = "RETURN_RECEIVED"
    BY <2>1 DEF Receipt
  <2> QED BY <2>1, <2>2, <2>3, EndLog DEF MidPossession, Ended
<1>2. CASE UNCHANGED <<status, activeRider, custodian, custodyLog, unsecured>>
  BY <1>2, QuietLog
<1> QED BY <1>1, <1>2 DEF ReturnNext, IssueReturn, ExpireReturn, fulfillmentVars

LEMMA StepLog ==
  ASSUME IInv, LogSound, NEW target \in Nat, FulfillmentStep(target)
  PROVE  LogSound'
<1>1. CASE \E actor \in Callers, s \in Status : Transition(actor, s)
  BY <1>1, TransitionLog
<1>2. CASE BridgeStep
  BY <1>2, TransitionLog DEF BridgeStep
<1>3. CASE StartDelivery
  BY <1>3, QuietLog DEF StartDelivery, ServiceTransition, MidPossession, Ended
<1>4. CASE \E class \in OrderClass : SetCommerceStatus(class)
  BY <1>4, QuietLog DEF SetCommerceStatus, fulfillmentVars
<1>5. CASE FailureNext
  <2>1. /\ UNCHANGED <<activeRider, custodian, custodyLog, unsecured>>
        /\ \/ UNCHANGED status
           \/ status = "in_transit" /\ status' = "delivery_failed"
           \/ status = "delivery_failed" /\ status' = "returning"
    BY <1>5 DEF FailureNext, ReportFailure, SelectDisposition, ResolveCase,
                ServiceTransition, fulfillmentVars
  <2> QED BY <2>1, QuietLog DEF MidPossession, Ended
<1> QED
  BY <1>1, <1>2, <1>3, <1>4, <1>5, AssignmentLog, PickupLog, CustodyLog, DeliveryLog, ReturnLog
  DEF FulfillmentStep

LEMMA InitLog == RecordsInit => LogSound
BY DEF RecordsInit, LogSound, Ended, MidPossession

LEMMA LogInductive == Spec => [](IInv /\ LogSound)
<1>1. RecordsInit => LogSound
  BY InitLog
<1>2. IInv /\ LogSound /\ [Next]_records => LogSound'
  <2>1. IInv /\ LogSound /\ Next => LogSound'
    BY StepLog DEF Next
  <2>2. LogSound /\ UNCHANGED records => LogSound'
    BY QuietLog DEF records
  <2> QED BY <2>1, <2>2
<1> QED BY <1>1, <1>2, Invariant, PTL DEF Spec

(* A sound log is one chain.                                               *)
LEMMA LogUnbroken ==
  ASSUME IInv, LogSound
  PROVE  ChainUnbroken
<1>1. custodyLog \in Seq(CustodyEvent)
  BY DEF IInv, TypeOK, RecordsTypeOK
<1>2. /\ DOMAIN custodyLog = 1 .. Len(custodyLog) /\ Len(custodyLog) \in Nat
      /\ custodyLog # <<>> => Len(custodyLog) > 0
  BY <1>1, LenProperties, EmptySeq
<1>3. ASSUME NEW i \in DOMAIN custodyLog, i > 1
      PROVE  custodyLog[i].from = custodyLog[i - 1].to
  <2>1. i \in 2 .. Len(custodyLog)
    BY <1>2, <1>3
  <2> QED BY <2>1 DEF LogSound
<1>4. (custodyLog # <<>> /\ Bypass \notin unsecured) => custodyLog[1].from = Merchant
  BY <1>2 DEF LogSound
<1>5. FinalReceipts \subseteq {Len(custodyLog)}
  BY <1>2 DEF LogSound, FinalReceipts, Events
<1> QED BY <1>3, <1>4, <1>5 DEF ChainUnbroken, Bypass

(* Whatever the generic API and the handoffs do in turn: the custody log   *)
(* is one chain, from the merchant unless the pickup was bypassed, and     *)
(* nothing follows a final receipt.                                        *)
THEOREM Unbroken == Spec => []ChainUnbroken
<1> QED BY LogUnbroken, LogInductive, PTL

(* A sound log ends as the lifecycle says.                                 *)
LEMMA LogEvidenced ==
  ASSUME IInv, LogSound
  PROVE  OutcomeEvidenced
<1>1. custodyLog \in Seq(CustodyEvent)
  BY DEF IInv, TypeOK, RecordsTypeOK
<1>2. DOMAIN custodyLog = 1 .. Len(custodyLog) /\ Len(custodyLog) \in Nat
  BY <1>1, LenProperties
<1>3. \A i \in FinalReceipts :
        /\ custodyLog[i].from = activeRider
        /\ status \in Ended /\ custodyLog[i].type = Receipt(status)
  BY <1>2 DEF LogSound, FinalReceipts, Events
<1>4. \A i \in Events("CUSTOMER_RECEIVED") : status = "delivered"
  BY <1>3 DEF FinalReceipts, Events, Receipt
<1>5. \A i \in Events("RETURN_RECEIVED") : status = "returned"
  BY <1>3 DEF FinalReceipts, Events, Receipt, Ended
<1>6. ASSUME status = "delivered", <<"in_transit", "delivered">> \notin unsecured
      PROVE  Len(custodyLog) \in Events("CUSTOMER_RECEIVED")
  <2>1. status \in Ended /\ LastStep(status) = <<"in_transit", "delivered">> /\ Receipt(status) = "CUSTOMER_RECEIVED"
    BY <1>6 DEF Ended, LastStep, Receipt
  <2>2. Len(custodyLog) > 0 /\ custodyLog[Len(custodyLog)].type = "CUSTOMER_RECEIVED"
    BY <1>6, <2>1 DEF LogSound
  <2> QED BY <1>2, <2>2 DEF Events
<1>7. ASSUME status = "returned", <<"returning", "returned">> \notin unsecured
      PROVE  Len(custodyLog) \in Events("RETURN_RECEIVED")
  <2>1. status \in Ended /\ LastStep(status) = <<"returning", "returned">> /\ Receipt(status) = "RETURN_RECEIVED"
    BY <1>7 DEF Ended, LastStep, Receipt
  <2>2. Len(custodyLog) > 0 /\ custodyLog[Len(custodyLog)].type = "RETURN_RECEIVED"
    BY <1>7, <2>1 DEF LogSound
  <2> QED BY <1>2, <2>2 DEF Events
<1> QED BY <1>3, <1>4, <1>5, <1>6, <1>7 DEF OutcomeEvidenced

(* The lifecycle says delivered, or returned, exactly when the log ends    *)
(* with that receipt from the active rider, but for the edges that the     *)
(* generic API took.                                                       *)
THEOREM Evidenced == Spec => []OutcomeEvidenced
<1> QED BY LogEvidenced, LogInductive, PTL

-----------------------------------------------------------------------------
(***************************************************************************)
(* Capabilities.                                                           *)
(***************************************************************************)

(* Of two capabilities to deliver at most one is ACTIVE, and it names whom *)
(* the customer trusts.                                                    *)
TokensSound ==
  /\ ReceiverIsCurrent
  /\ \A t, u \in ActiveIn(deliveryToken) : t = u
  /\ CustodyTokenNamesTransfer

LEMMA NothingActive ==
  ASSUME NEW T, NEW table \in [T -> Token]
  PROVE  ActiveIn(Revoked(table)) = {}
<1>1. DOMAIN Revoked(table) = T
  BY DEF Revoked
<1> QED BY <1>1, RevokedTokens DEF ActiveIn

LEMMA MarkedActive ==
  ASSUME NEW T, NEW table \in [T -> Token], NEW t \in T, NEW s \in TokenStatus, s # "ACTIVE"
  PROVE  /\ ActiveIn(Marked(table, t, s)) \subseteq ActiveIn(table) \ {t}
         /\ \A u \in ActiveIn(Marked(table, t, s)) : Marked(table, t, s)[u] = table[u]
<1>1. DOMAIN table = T /\ DOMAIN Marked(table, t, s) = T
  BY DEF Marked
<1>2. Marked(table, t, s)[t].status # "ACTIVE"
  BY DEF Marked, Token
<1> QED BY <1>1, <1>2, MarkedTokens DEF ActiveIn

LEMMA IssuedActive ==
  ASSUME NEW T, NEW table \in [T -> Token], NEW t \in T,
         NEW r \in Rider \cup {None}, NEW ver \in Nat,
         NEW p \in Party \cup Authorization \cup {None}
  PROVE  /\ ActiveIn(Issued(table, t, r, ver, p)) \subseteq {t}
         /\ Issued(table, t, r, ver, p)[t] =
              [status |-> "ACTIVE", rider |-> r, version |-> ver, counterpart |-> p]
<1> DEFINE row == [status |-> "ACTIVE", rider |-> r, version |-> ver, counterpart |-> p]
<1>1. Issued(table, t, r, ver, p) = [Revoked(table) EXCEPT ![t] = row]
  BY DEF Issued
<1>2. DOMAIN Revoked(table) = T
  BY DEF Revoked
<1> HIDE DEF row
<1>3. DOMAIN Issued(table, t, r, ver, p) = T /\ Issued(table, t, r, ver, p)[t] = row
  BY <1>1, <1>2
<1>4. ASSUME NEW u \in T, u # t
      PROVE  Issued(table, t, r, ver, p)[u].status # "ACTIVE"
  <2>1. Issued(table, t, r, ver, p)[u] = Revoked(table)[u]
    BY <1>1, <1>2, <1>4
  <2> QED BY <2>1, <1>4, RevokedTokens
<1>5. ActiveIn(Issued(table, t, r, ver, p)) \subseteq {t}
  BY <1>3, <1>4 DEF ActiveIn
<1> QED BY <1>3, <1>5 DEF row

LEMMA ReceiverFrame ==
  ASSUME TokensSound, UNCHANGED recipient,
         ActiveIn(deliveryToken') \subseteq ActiveIn(deliveryToken),
         \A t \in ActiveIn(deliveryToken') : deliveryToken'[t] = deliveryToken[t]
  PROVE  /\ ReceiverIsCurrent'
         /\ \A t, u \in ActiveIn(deliveryToken') : t = u
BY DEF TokensSound, ReceiverIsCurrent, ActiveIn, ActiveAuthorizations

LEMMA TransferFrame ==
  ASSUME TokensSound,
         \/ UNCHANGED <<pendingTo, activeRider, version>>
         \/ pendingTo' = None,
         ActiveIn(custodyToken') \subseteq ActiveIn(custodyToken),
         \A t \in ActiveIn(custodyToken') : custodyToken'[t] = custodyToken[t]
  PROVE  CustodyTokenNamesTransfer'
BY DEF TokensSound, CustodyTokenNamesTransfer, ActiveIn

LEMMA TokensFrame ==
  ASSUME TokensSound,
         UNCHANGED <<recipient, deliveryToken, custodyToken, pendingTo, activeRider, version>>
  PROVE  TokensSound'
BY DEF TokensSound, ReceiverIsCurrent, CustodyTokenNamesTransfer, ActiveIn, ActiveAuthorizations

LEMMA AssignmentTokens ==
  ASSUME IInv, TokensSound, AssignmentNext
  PROVE  TokensSound'
<1>1. /\ deliveryToken \in [DeliveryToken -> Token]
      /\ custodyToken \in [CustodyToken -> Token]
  BY DEF IInv, TypeOK, RecordsTypeOK
<1>2. ASSUME PossessionTokensRevoked, UNCHANGED recipient PROVE TokensSound'
  <2>1. ActiveIn(deliveryToken') = {} /\ ActiveIn(custodyToken') = {}
    BY <1>1, <1>2, NothingActive DEF PossessionTokensRevoked
  <2> QED BY <2>1 DEF TokensSound, ReceiverIsCurrent, CustodyTokenNamesTransfer, ActiveIn
<1>3. ASSUME UNCHANGED <<tokenVars, recipient>>, pendingTo' = None PROVE TokensSound'
  BY <1>3 DEF TokensSound, ReceiverIsCurrent, CustodyTokenNamesTransfer, tokenVars, ActiveIn,
              ActiveAuthorizations
<1>4. ASSUME NEW r \in Rider, NEW byOrder \in BOOLEAN, AssignRider(r, byOrder)
      PROVE  TokensSound'
  BY <1>2, <1>3, <1>4 DEF AssignRider, NewAssignment
<1>5. ASSUME NEW r \in Rider, NEW byOrder \in BOOLEAN, ReassignMidPossession(r, byOrder)
      PROVE  TokensSound'
  BY <1>2, <1>5 DEF ReassignMidPossession
<1> QED BY <1>4, <1>5 DEF AssignmentNext

LEMMA CustodyTokens ==
  ASSUME IInv, TokensSound, CustodyNext
  PROVE  TokensSound'
<1>1. custodyToken \in [CustodyToken -> Token]
  BY DEF IInv, TypeOK, RecordsTypeOK
<1>2. UNCHANGED <<deliveryToken, recipient>>
  BY DEF CustodyNext, IssueCustody, ConfirmCustody, ExpireCustody
<1>3. ReceiverIsCurrent' /\ \A t, u \in ActiveIn(deliveryToken') : t = u
  BY <1>2, ReceiverFrame
<1>4. ASSUME NEW t \in CustodyToken, IssueCustody(t) PROVE CustodyTokenNamesTransfer'
  <2>1. /\ custodyToken' = Issued(custodyToken, t, activeRider, SourceVersion, pendingTo)
        /\ UNCHANGED <<pendingTo, activeRider, version>>
        /\ pendingTo # None
    BY <1>4 DEF IssueCustody, fulfillmentVars
  <2>2. /\ activeRider \in Rider \cup {None} /\ pendingTo \in Rider \cup {None}
        /\ version \in Nat /\ SourceVersion = version
    BY <2>1 DEF IInv, TypeOK, RecordsTypeOK, Agreement, CustodianAgrees, SourceVersion
  <2>3. pendingTo \in Party \cup Authorization \cup {None}
    BY <2>2 DEF Party
  <2>4. /\ ActiveIn(custodyToken') \subseteq {t}
        /\ custodyToken'[t] = [status |-> "ACTIVE", rider |-> activeRider,
                               version |-> version, counterpart |-> pendingTo]
    BY <1>1, <2>1, <2>2, <2>3, IssuedActive
  <2> QED BY <2>1, <2>4 DEF CustodyTokenNamesTransfer, ActiveIn
<1>5. ASSUME NEW t \in CustodyToken, ConfirmCustody(t) \/ ExpireCustody(t)
      PROVE  CustodyTokenNamesTransfer'
  <2>1. \/ UNCHANGED <<pendingTo, activeRider, version>>
        \/ pendingTo' = None
    BY <1>5 DEF ConfirmCustody, ExpireCustody, FinalizeTransfer, NewAssignment, fulfillmentVars
  <2>2. \E s \in TokenStatus \ {"ACTIVE"} : custodyToken' = Marked(custodyToken, t, s)
    BY <1>5 DEF ConfirmCustody, ExpireCustody, Expired, TokenStatus
  <2>3. /\ ActiveIn(custodyToken') \subseteq ActiveIn(custodyToken)
        /\ \A u \in ActiveIn(custodyToken') : custodyToken'[u] = custodyToken[u]
    BY <1>1, <2>2, MarkedActive
  <2> QED BY <2>1, <2>3, TransferFrame
<1> QED BY <1>3, <1>4, <1>5 DEF CustodyNext, TokensSound, ActiveIn

LEMMA DeliveryTokens ==
  ASSUME IInv, TokensSound, NEW target \in Nat, DeliveryNext(target)
  PROVE  TokensSound'
<1>1. deliveryToken \in [DeliveryToken -> Token]
  BY DEF IInv, TypeOK, RecordsTypeOK
<1>2. UNCHANGED <<custodyToken, pendingTo, activeRider, version>>
  BY DEF DeliveryNext, IssueDelivery, ConfirmDelivery, ExpireDelivery, RevokeDelivery,
         DropDeliveryToken, AuthorizeRecipient, RevokeRecipient, fulfillmentVars
<1>3. CustodyTokenNamesTransfer'
  BY <1>2, TransferFrame
<1> DEFINE Sound == ReceiverIsCurrent' /\ \A t, u \in ActiveIn(deliveryToken') : t = u
<1>4. ASSUME NEW t \in DeliveryToken, IssueDelivery(t) PROVE Sound
  <2>1. UNCHANGED recipient /\ activeRider \in Rider \cup {None} /\ version \in Nat
    BY <1>4 DEF IssueDelivery, IInv, TypeOK, RecordsTypeOK
  <2>2. PICK p \in Authorization \cup {Customer} :
          /\ IsCurrentReceiver(p)
          /\ deliveryToken' = Issued(deliveryToken, t, activeRider, version, p)
    BY <1>4 DEF IssueDelivery
  <2>3. p \in Party \cup Authorization \cup {None}
    BY DEF Party
  <2>4. /\ ActiveIn(deliveryToken') \subseteq {t}
        /\ deliveryToken'[t] = [status |-> "ACTIVE", rider |-> activeRider,
                                version |-> version, counterpart |-> p]
    BY <1>1, <2>1, <2>2, <2>3, IssuedActive
  <2>5. p \in IF ActiveAuthorizations' = {} THEN {Customer} ELSE ActiveAuthorizations'
    BY <2>1, <2>2 DEF IsCurrentReceiver, ActiveAuthorizations
  <2> QED BY <2>4, <2>5 DEF ReceiverIsCurrent, ActiveIn
<1>5. ASSUME NEW t \in DeliveryToken, NEW s \in TokenStatus \ {"ACTIVE"},
             t \in ActiveIn(deliveryToken), deliveryToken' = Marked(deliveryToken, t, s)
      PROVE  Sound
  <2>1. ActiveIn(deliveryToken') = {}
    BY <1>1, <1>5, MarkedActive DEF TokensSound
  <2> QED BY <2>1 DEF ReceiverIsCurrent, ActiveIn
<1>6. ASSUME NEW t \in DeliveryToken, ConfirmDelivery(t, target) PROVE Sound
  BY <1>1, <1>5, <1>6 DEF ConfirmDelivery, DeliveryTokenValid, ActiveIn, TokenStatus
<1>7. ASSUME NEW t \in DeliveryToken, ExpireDelivery(t) \/ RevokeDelivery(t) PROVE Sound
  BY <1>1, <1>5, <1>7 DEF ExpireDelivery, RevokeDelivery, DropDeliveryToken, ActiveIn,
                          TokenStatus
<1>8. ASSUME DeliveryTokensRevoked PROVE Sound
  <2>1. ActiveIn(deliveryToken') = {}
    BY <1>1, <1>8, NothingActive DEF DeliveryTokensRevoked
  <2> QED BY <2>1 DEF ReceiverIsCurrent, ActiveIn
<1>9. Sound
  BY <1>4, <1>6, <1>7, <1>8 DEF DeliveryNext, AuthorizeRecipient, RevokeRecipient
<1> QED BY <1>3, <1>9 DEF TokensSound, ActiveIn

LEMMA StepTokens ==
  ASSUME IInv, TokensSound, NEW target \in Nat, FulfillmentStep(target)
  PROVE  TokensSound'
<1>1. ASSUME NEW actor, NEW s, Transition(actor, s) PROVE TokensSound'
  BY <1>1, TokensFrame DEF Transition, tokenVars
<1>2. CASE BridgeStep
  BY <1>1, <1>2 DEF BridgeStep
<1>3. CASE StartDelivery
  BY <1>3, TokensFrame DEF StartDelivery, tokenVars
<1>4. CASE \E class \in OrderClass : SetCommerceStatus(class)
  BY <1>4, TokensFrame DEF SetCommerceStatus, tokenVars, fulfillmentVars
<1>5. CASE PickupNext
  BY <1>5, TokensFrame DEF PickupNext, IssuePickup, ConfirmPickup, ExpirePickup, fulfillmentVars
<1>6. CASE ReturnNext
  BY <1>6, TokensFrame DEF ReturnNext, IssueReturn, ConfirmReturn, ExpireReturn, fulfillmentVars
<1>7. CASE FailureNext
  <2>1. CASE ReportFailure
    <3>1. /\ deliveryToken' = Revoked(deliveryToken)
          /\ UNCHANGED <<recipient, custodyToken, pendingTo, activeRider, version>>
      BY <2>1 DEF ReportFailure
    <3>2. ActiveIn(deliveryToken') = {}
      BY <3>1, NothingActive DEF IInv, TypeOK, RecordsTypeOK
    <3>3. CustodyTokenNamesTransfer'
      BY <3>1, TransferFrame
    <3> QED BY <3>2, <3>3 DEF TokensSound, ReceiverIsCurrent, ActiveIn
  <2>2. CASE ~ReportFailure
    BY <1>7, <2>2, TokensFrame
    DEF FailureNext, SelectDisposition, ResolveCase, tokenVars, fulfillmentVars
  <2> QED BY <2>1, <2>2
<1> QED
  BY <1>1, <1>2, <1>3, <1>4, <1>5, <1>6, <1>7, AssignmentTokens, CustodyTokens, DeliveryTokens
  DEF FulfillmentStep

LEMMA TokensInductive == Spec => []TokensSound
<1>1. RecordsInit => TokensSound
  BY DEF RecordsInit, TokensSound, ReceiverIsCurrent, CustodyTokenNamesTransfer, ActiveIn,
         NoToken
<1>2. IInv /\ TokensSound /\ [Next]_records => TokensSound'
  <2>1. IInv /\ TokensSound /\ Next => TokensSound'
    BY StepTokens DEF Next
  <2>2. TokensSound /\ UNCHANGED records => TokensSound'
    BY TokensFrame DEF records
  <2> QED BY <2>1, <2>2
<1> QED BY <1>1, <1>2, Invariant, PTL DEF Spec

(* No capability to take the goods over survives the transfer intent it    *)
(* was issued for, however intents are cleared, replaced and reissued.     *)
THEOREM Transfers == Spec => []CustodyTokenNamesTransfer
<1>1. TokensSound => CustodyTokenNamesTransfer
  BY DEF TokensSound
<1> QED BY <1>1, TokensInductive, PTL

(* No capability to receive the goods survives a change of the recipient.  *)
THEOREM Receivers == Spec => []ReceiverIsCurrent
<1>1. TokensSound => ReceiverIsCurrent
  BY DEF TokensSound
<1> QED BY <1>1, TokensInductive, PTL

-----------------------------------------------------------------------------
(***************************************************************************)
(* Counts: one event on record for each capability that was used.          *)
(***************************************************************************)

BeforePickup == InShop \cup {"rider_assigned"}

(* The events of a type in a log, as many as tokens of a table were used.  *)
EventsOf(log, type) == {i \in DOMAIN log : log[i].type = type}

Counted(log, type, table) ==
  /\ IsFiniteSet(ConsumedIn(table))
  /\ Cardinality(EventsOf(log, type)) = Cardinality(ConsumedIn(table))

CountSound ==
  /\ Counted(custodyLog, "MERCHANT_RELEASED", pickupToken)
  /\ Counted(custodyLog, "RIDER_TRANSFER", custodyToken)
  /\ Counted(custodyLog, "CUSTOMER_RECEIVED", deliveryToken)
  /\ Counted(custodyLog, "RETURN_RECEIVED", returnToken)
  /\ \A i, j \in EventsOf(custodyLog, "MERCHANT_RELEASED") : i = j
  /\ EventsOf(custodyLog, "MERCHANT_RELEASED") # {} => status \notin BeforePickup

LEMMA UnusedConsumed ==
  ASSUME NEW T, NEW table \in [T -> Token]
  PROVE  /\ ConsumedIn(Revoked(table)) = ConsumedIn(table)
         /\ \A t \in T, s \in {"EXPIRED", "REVOKED"} :
              table[t].status = "ACTIVE" => ConsumedIn(Marked(table, t, s)) = ConsumedIn(table)
         /\ \A t \in T : \A r, ver, p :
              table[t].status = "UNISSUED"
                => ConsumedIn(Issued(table, t, r, ver, p)) = ConsumedIn(table)
<1>1. ConsumedIn(Revoked(table)) = ConsumedIn(table)
  <2>1. DOMAIN Revoked(table) = T /\ DOMAIN table = T
    BY DEF Revoked
  <2>2. \A t \in T : Revoked(table)[t].status = "CONSUMED" <=> table[t].status = "CONSUMED"
    BY DEF Revoked, Token
  <2> QED BY <2>1, <2>2 DEF ConsumedIn
<1>2. ASSUME NEW t \in T, NEW s \in {"EXPIRED", "REVOKED"}, table[t].status = "ACTIVE"
      PROVE  ConsumedIn(Marked(table, t, s)) = ConsumedIn(table)
  BY <1>2 DEF Marked, ConsumedIn, Token
<1>3. ASSUME NEW t \in T, NEW r, NEW ver, NEW p, table[t].status = "UNISSUED"
      PROVE  ConsumedIn(Issued(table, t, r, ver, p)) = ConsumedIn(table)
  <2> DEFINE row == [status |-> "ACTIVE", rider |-> r, version |-> ver, counterpart |-> p]
             f == Revoked(table)
  <2>1. Issued(table, t, r, ver, p) = [f EXCEPT ![t] = row] /\ row.status = "ACTIVE"
    BY DEF Issued
  <2>2. f \in [T -> Token] /\ f[t].status # "CONSUMED"
    BY <1>3, RevokedTokens DEF Revoked, Token
  <2> HIDE DEF row, f
  <2>3. ConsumedIn([f EXCEPT ![t] = row]) = ConsumedIn(f)
    BY <2>1, <2>2 DEF ConsumedIn
  <2> QED BY <1>1, <2>1, <2>3 DEF f
<1> QED BY <1>1, <1>2, <1>3

LEMMA OneConsumed ==
  ASSUME NEW T, NEW table \in [T -> Token], NEW t \in T, table[t].status = "ACTIVE"
  PROVE  /\ ConsumedIn(Marked(table, t, "CONSUMED")) = ConsumedIn(table) \cup {t}
         /\ t \notin ConsumedIn(table)
BY DEF Marked, ConsumedIn, Token

(* One event more on record.                                               *)
LEMMA OneEvent ==
  ASSUME NEW log \in Seq(CustodyEvent), NEW e \in CustodyEvent, NEW type
  PROVE  /\ IsFiniteSet(EventsOf(log, type))
         /\ e.type = type => EventsOf(Append(log, e), type) = EventsOf(log, type) \cup {Len(log) + 1}
         /\ e.type # type => EventsOf(Append(log, e), type) = EventsOf(log, type)
         /\ Len(log) + 1 \notin EventsOf(log, type)
<1> DEFINE n == Len(log)
           more == Append(log, e)
<1>1. n \in Nat /\ DOMAIN log = 1 .. n
  BY LenProperties
<1>2. /\ more \in Seq(CustodyEvent) /\ Len(more) = n + 1
      /\ more[n + 1] = e
      /\ \A i \in 1 .. n : more[i] = log[i]
  BY AppendProperties
<1>3. DOMAIN more = 1 .. n + 1
  BY <1>2, LenProperties
<1> HIDE DEF n, more
<1>4. 1 .. n + 1 = (1 .. n) \cup {n + 1} /\ n + 1 \notin 1 .. n
  BY <1>1
<1>5. EventsOf(more, type) = {i \in (1 .. n) \cup {n + 1} : more[i].type = type}
  BY <1>3, <1>4 DEF EventsOf
<1>6. EventsOf(log, type) = {i \in 1 .. n : log[i].type = type}
  BY <1>1 DEF EventsOf
<1>7. IsFiniteSet(1 .. n) /\ EventsOf(log, type) \in SUBSET (1 .. n)
  BY <1>1, <1>6, FS_Interval
<1>8. IsFiniteSet(EventsOf(log, type))
  BY <1>7, FS_Subset
<1>9. /\ e.type = type => EventsOf(more, type) = EventsOf(log, type) \cup {n + 1}
      /\ e.type # type => EventsOf(more, type) = EventsOf(log, type)
  BY <1>2, <1>4, <1>5, <1>6
<1> QED BY <1>4, <1>6, <1>8, <1>9 DEF n, more

(* The event and the consumption come together.                            *)
LEMMA CountedOnce ==
  ASSUME NEW log \in Seq(CustodyEvent), NEW e \in CustodyEvent,
         NEW T, NEW table \in [T -> Token], NEW t \in T, table[t].status = "ACTIVE",
         Counted(log, e.type, table)
  PROVE  Counted(Append(log, e), e.type, Marked(table, t, "CONSUMED"))
<1>1. /\ IsFiniteSet(EventsOf(log, e.type))
      /\ EventsOf(Append(log, e), e.type) = EventsOf(log, e.type) \cup {Len(log) + 1}
      /\ Len(log) + 1 \notin EventsOf(log, e.type)
  BY OneEvent
<1>2. /\ ConsumedIn(Marked(table, t, "CONSUMED")) = ConsumedIn(table) \cup {t}
      /\ t \notin ConsumedIn(table)
  BY OneConsumed
<1>3. Cardinality(EventsOf(Append(log, e), e.type)) = Cardinality(EventsOf(log, e.type)) + 1
  BY <1>1, FS_AddElement
<1>4. /\ IsFiniteSet(ConsumedIn(Marked(table, t, "CONSUMED")))
      /\ Cardinality(ConsumedIn(Marked(table, t, "CONSUMED"))) = Cardinality(ConsumedIn(table)) + 1
  BY <1>2, FS_AddElement DEF Counted
<1> QED BY <1>3, <1>4 DEF Counted

(* Another table, or the same without a use.                               *)
LEMMA CountedElse ==
  ASSUME NEW log \in Seq(CustodyEvent), NEW e \in CustodyEvent, NEW type, e.type # type
  PROVE  EventsOf(Append(log, e), type) = EventsOf(log, type)
BY OneEvent

(* Nothing goes back to before the pickup.                                 *)
Onward == status' \in BeforePickup => status \in BeforePickup

(* A step that uses no capability.                                         *)
Unused ==
  /\ UNCHANGED custodyLog
  /\ ConsumedIn(pickupToken') = ConsumedIn(pickupToken)
  /\ ConsumedIn(custodyToken') = ConsumedIn(custodyToken)
  /\ ConsumedIn(deliveryToken') = ConsumedIn(deliveryToken)
  /\ ConsumedIn(returnToken') = ConsumedIn(returnToken)
  /\ Onward

LEMMA UnusedCount ==
  ASSUME CountSound, Unused
  PROVE  CountSound'
BY DEF CountSound, Unused, Counted, Onward

LEMMA EdgeOnward ==
  ASSUME NEW actor, NEW target, TransitionAllowed(actor, status, target),
         status' = target, target # "rider_assigned"
  PROVE  Onward
BY DEF TransitionAllowed, Transitions, Onward, BeforePickup, InShop

LEMMA AssignmentUnused ==
  ASSUME IInv, AssignmentNext
  PROVE  Unused
<1>1. /\ pickupToken \in [PickupToken -> Token] /\ custodyToken \in [CustodyToken -> Token]
      /\ deliveryToken \in [DeliveryToken -> Token] /\ returnToken \in [ReturnToken -> Token]
  BY DEF IInv, TypeOK, RecordsTypeOK
<1>2. /\ ConsumedIn(Revoked(pickupToken)) = ConsumedIn(pickupToken)
      /\ ConsumedIn(Revoked(custodyToken)) = ConsumedIn(custodyToken)
      /\ ConsumedIn(Revoked(deliveryToken)) = ConsumedIn(deliveryToken)
      /\ ConsumedIn(Revoked(returnToken)) = ConsumedIn(returnToken)
  BY <1>1, UnusedConsumed
<1>3. /\ UNCHANGED custodyLog
      /\ pickupToken' \in {pickupToken, Revoked(pickupToken)}
      /\ custodyToken' \in {custodyToken, Revoked(custodyToken)}
      /\ deliveryToken' \in {deliveryToken, Revoked(deliveryToken)}
      /\ returnToken' \in {returnToken, Revoked(returnToken)}
  BY DEF AssignmentNext, AssignRider, ReassignMidPossession, PossessionTokensRevoked, tokenVars
<1>4. Onward
  BY DEF AssignmentNext, AssignRider, ReassignMidPossession, Onward, BeforePickup, InShop,
         PrePickup, MidPossession
<1> QED BY <1>2, <1>3, <1>4 DEF Unused

LEMMA PickupCount ==
  ASSUME IInv, CountSound, PickupNext
  PROVE  CountSound'
<1>1. pickupToken \in [PickupToken -> Token] /\ custodyLog \in Seq(CustodyEvent)
  BY DEF IInv, TypeOK, RecordsTypeOK
<1>2. PICK t \in PickupToken : IssuePickup(t) \/ ConfirmPickup(t) \/ ExpirePickup(t)
  BY DEF PickupNext
<1>3. CASE IssuePickup(t) \/ ExpirePickup(t)
  <2>1. /\ ConsumedIn(pickupToken') = ConsumedIn(pickupToken)
        /\ UNCHANGED <<custodyLog, custodyToken, deliveryToken, returnToken, status>>
    BY <1>1, <1>3, UnusedConsumed DEF IssuePickup, ExpirePickup, Expired, fulfillmentVars
  <2> QED BY <2>1, UnusedCount DEF Unused, Onward
<1>4. CASE ConfirmPickup(t)
  <2> DEFINE r == pickupToken[t].rider
             e == [type |-> "MERCHANT_RELEASED", from |-> Merchant, to |-> r]
  <2>1. /\ pickupToken[t].status = "ACTIVE" /\ status = "rider_assigned" /\ status' = "picked_up"
        /\ HasActiveAssignment(r, pickupToken[t].version)
        /\ custodyLog' = Append(custodyLog, e)
        /\ pickupToken' = Marked(pickupToken, t, "CONSUMED")
        /\ UNCHANGED <<custodyToken, deliveryToken, returnToken>>
    BY <1>4 DEF ConfirmPickup, PickupTokenValid, ServiceTransition
  <2>2. r \in Rider
    BY <2>1 DEF HasActiveAssignment, IInv, TypeOK, RecordsTypeOK, Assignment
  <2>3. e \in CustodyEvent /\ e.type = "MERCHANT_RELEASED"
    BY <2>2 DEF CustodyEvent, CustodyType, Party
  <2> HIDE DEF e
  <2>4. Counted(custodyLog', "MERCHANT_RELEASED", pickupToken')
    BY <1>1, <2>1, <2>3, CountedOnce DEF CountSound
  <2>5. \A type \in {"RIDER_TRANSFER", "CUSTOMER_RECEIVED", "RETURN_RECEIVED"} :
          EventsOf(custodyLog', type) = EventsOf(custodyLog, type)
    BY <1>1, <2>1, <2>3, CountedElse
  <2>6. EventsOf(custodyLog, "MERCHANT_RELEASED") = {}
    BY <2>1 DEF CountSound, BeforePickup
  <2>7. \A i, j \in EventsOf(custodyLog', "MERCHANT_RELEASED") : i = j
    <3>1. EventsOf(Append(custodyLog, e), "MERCHANT_RELEASED") =
            EventsOf(custodyLog, "MERCHANT_RELEASED") \cup {Len(custodyLog) + 1}
      BY <1>1, <2>3, OneEvent
    <3> QED BY <2>1, <2>6, <3>1
  <2>8. status' \notin BeforePickup
    BY <2>1 DEF BeforePickup, InShop
  <2> QED BY <2>1, <2>4, <2>5, <2>7, <2>8 DEF CountSound, Counted
<1> QED BY <1>2, <1>3, <1>4

LEMMA CustodyCount ==
  ASSUME IInv, CountSound, CustodyNext
  PROVE  CountSound'
<1>1. custodyToken \in [CustodyToken -> Token] /\ custodyLog \in Seq(CustodyEvent)
  BY DEF IInv, TypeOK, RecordsTypeOK
<1>2. PICK t \in CustodyToken : IssueCustody(t) \/ ConfirmCustody(t) \/ ExpireCustody(t)
  BY DEF CustodyNext
<1>3. CASE IssueCustody(t) \/ ExpireCustody(t)
  <2>1. /\ ConsumedIn(custodyToken') = ConsumedIn(custodyToken)
        /\ UNCHANGED <<custodyLog, pickupToken, deliveryToken, returnToken, status>>
    BY <1>1, <1>3, UnusedConsumed DEF IssueCustody, ExpireCustody, Expired, fulfillmentVars
  <2> QED BY <2>1, UnusedCount DEF Unused, Onward
<1>4. CASE ConfirmCustody(t)
  <2> DEFINE r == custodyToken[t].rider
             c == custodyToken[t].counterpart
             e == [type |-> "RIDER_TRANSFER", from |-> r, to |-> c]
  <2>1. /\ custodyToken[t].status = "ACTIVE"
        /\ custodyLog' = Append(custodyLog, e)
        /\ custodyToken' = Marked(custodyToken, t, "CONSUMED")
        /\ UNCHANGED <<status, pickupToken, deliveryToken, returnToken>>
    BY <1>4 DEF ConfirmCustody
  <2>2. r \in Rider /\ c \in Rider
    BY <2>1 DEF IInv, CustodyTokensBound
  <2>3. e \in CustodyEvent /\ e.type = "RIDER_TRANSFER"
    BY <2>2 DEF CustodyEvent, CustodyType, Party
  <2> HIDE DEF e
  <2>4. Counted(custodyLog', "RIDER_TRANSFER", custodyToken')
    BY <1>1, <2>1, <2>3, CountedOnce DEF CountSound
  <2>5. \A type \in {"MERCHANT_RELEASED", "CUSTOMER_RECEIVED", "RETURN_RECEIVED"} :
          EventsOf(custodyLog', type) = EventsOf(custodyLog, type)
    BY <1>1, <2>1, <2>3, CountedElse
  <2> QED BY <2>1, <2>4, <2>5 DEF CountSound, Counted
<1> QED BY <1>2, <1>3, <1>4

LEMMA DeliveryCount ==
  ASSUME IInv, CountSound, NEW target \in Nat, DeliveryNext(target)
  PROVE  CountSound'
<1>1. deliveryToken \in [DeliveryToken -> Token] /\ custodyLog \in Seq(CustodyEvent)
  BY DEF IInv, TypeOK, RecordsTypeOK
<1>2. ASSUME NEW t \in DeliveryToken, IssueDelivery(t) \/ ExpireDelivery(t) \/ RevokeDelivery(t)
      PROVE  CountSound'
  <2>1. /\ UNCHANGED <<custodyLog, pickupToken, custodyToken, returnToken, status>>
        /\ \/ deliveryToken[t].status = "UNISSUED"
              /\ \E p : deliveryToken' = Issued(deliveryToken, t, activeRider, version, p)
           \/ deliveryToken[t].status = "ACTIVE"
              /\ \E s \in {"EXPIRED", "REVOKED"} : deliveryToken' = Marked(deliveryToken, t, s)
    BY <1>2 DEF IssueDelivery, ExpireDelivery, RevokeDelivery, DropDeliveryToken, fulfillmentVars
  <2>2. ConsumedIn(deliveryToken') = ConsumedIn(deliveryToken)
    BY <1>1, <2>1, UnusedConsumed
  <2> QED BY <2>1, <2>2, UnusedCount DEF Unused, Onward
<1>3. ASSUME (\E a \in Authorization : AuthorizeRecipient(a)) \/ RevokeRecipient
      PROVE  CountSound'
  <2>1. /\ UNCHANGED <<custodyLog, pickupToken, custodyToken, returnToken, status>>
        /\ deliveryToken' = Revoked(deliveryToken)
    BY <1>3 DEF AuthorizeRecipient, RevokeRecipient, DeliveryTokensRevoked, fulfillmentVars
  <2>2. ConsumedIn(deliveryToken') = ConsumedIn(deliveryToken)
    BY <1>1, <2>1, UnusedConsumed
  <2> QED BY <2>1, <2>2, UnusedCount DEF Unused, Onward
<1>4. ASSUME NEW t \in DeliveryToken, ConfirmDelivery(t, target)
      PROVE  CountSound'
  <2> DEFINE r == deliveryToken[t].rider
             e == [type |-> "CUSTOMER_RECEIVED", from |-> r, to |-> Customer]
  <2>1. /\ deliveryToken[t].status = "ACTIVE" /\ status' = "delivered"
        /\ HasActiveAssignment(r, deliveryToken[t].version)
        /\ custodyLog' = Append(custodyLog, e)
        /\ deliveryToken' = Marked(deliveryToken, t, "CONSUMED")
        /\ UNCHANGED <<pickupToken, custodyToken, returnToken>>
    BY <1>4 DEF ConfirmDelivery, DeliveryTokenValid, ServiceTransition
  <2>2. r \in Rider
    BY <2>1 DEF HasActiveAssignment, IInv, TypeOK, RecordsTypeOK, Assignment
  <2>3. e \in CustodyEvent /\ e.type = "CUSTOMER_RECEIVED"
    BY <2>2 DEF CustodyEvent, CustodyType, Party
  <2> HIDE DEF e
  <2>4. Counted(custodyLog', "CUSTOMER_RECEIVED", deliveryToken')
    BY <1>1, <2>1, <2>3, CountedOnce DEF CountSound
  <2>5. \A type \in {"MERCHANT_RELEASED", "RIDER_TRANSFER", "RETURN_RECEIVED"} :
          EventsOf(custodyLog', type) = EventsOf(custodyLog, type)
    BY <1>1, <2>1, <2>3, CountedElse
  <2>6. status' \notin BeforePickup
    BY <2>1 DEF BeforePickup, InShop
  <2> QED BY <2>1, <2>4, <2>5, <2>6 DEF CountSound, Counted
<1> QED BY <1>2, <1>3, <1>4 DEF DeliveryNext

LEMMA ReturnCount ==
  ASSUME IInv, CountSound, ReturnNext
  PROVE  CountSound'
<1>1. returnToken \in [ReturnToken -> Token] /\ custodyLog \in Seq(CustodyEvent)
  BY DEF IInv, TypeOK, RecordsTypeOK
<1>2. PICK t \in ReturnToken : IssueReturn(t) \/ ConfirmReturn(t) \/ ExpireReturn(t)
  BY DEF ReturnNext
<1>3. CASE IssueReturn(t) \/ ExpireReturn(t)
  <2>1. /\ ConsumedIn(returnToken') = ConsumedIn(returnToken)
        /\ UNCHANGED <<custodyLog, pickupToken, custodyToken, deliveryToken, status>>
    BY <1>1, <1>3, UnusedConsumed DEF IssueReturn, ExpireReturn, Expired, fulfillmentVars
  <2> QED BY <2>1, UnusedCount DEF Unused, Onward
<1>4. CASE ConfirmReturn(t)
  <2> DEFINE r == returnToken[t].rider
             e == [type |-> "RETURN_RECEIVED", from |-> r, to |-> Merchant]
  <2>1. /\ returnToken[t].status = "ACTIVE" /\ status' = "returned"
        /\ HasActiveAssignment(r, returnToken[t].version)
        /\ custodyLog' = Append(custodyLog, e)
        /\ returnToken' = Marked(returnToken, t, "CONSUMED")
        /\ UNCHANGED <<pickupToken, custodyToken, deliveryToken>>
    BY <1>4 DEF ConfirmReturn, ReturnTokenValid, ServiceTransition
  <2>2. r \in Rider
    BY <2>1 DEF HasActiveAssignment, IInv, TypeOK, RecordsTypeOK, Assignment
  <2>3. e \in CustodyEvent /\ e.type = "RETURN_RECEIVED"
    BY <2>2 DEF CustodyEvent, CustodyType, Party
  <2> HIDE DEF e
  <2>4. Counted(custodyLog', "RETURN_RECEIVED", returnToken')
    BY <1>1, <2>1, <2>3, CountedOnce DEF CountSound
  <2>5. \A type \in {"MERCHANT_RELEASED", "RIDER_TRANSFER", "CUSTOMER_RECEIVED"} :
          EventsOf(custodyLog', type) = EventsOf(custodyLog, type)
    BY <1>1, <2>1, <2>3, CountedElse
  <2>6. status' \notin BeforePickup
    BY <2>1 DEF BeforePickup, InShop
  <2> QED BY <2>1, <2>4, <2>5, <2>6 DEF CountSound, Counted
<1> QED BY <1>2, <1>3, <1>4

LEMMA StepCount ==
  ASSUME IInv, CountSound, NEW target \in Nat, FulfillmentStep(target)
  PROVE  CountSound'
<1>1. ASSUME NEW actor, NEW s, Transition(actor, s) PROVE CountSound'
  <2>1. Onward
    BY <1>1, EdgeOnward DEF Transition
  <2> QED BY <1>1, <2>1, UnusedCount DEF Transition, Unused, tokenVars
<1>2. CASE BridgeStep
  BY <1>1, <1>2 DEF BridgeStep
<1>3. CASE StartDelivery
  <2>1. Onward
    BY <1>3, EdgeOnward DEF StartDelivery, ServiceTransition
  <2> QED BY <1>3, <2>1, UnusedCount DEF StartDelivery, Unused, tokenVars
<1>4. CASE \E class \in OrderClass : SetCommerceStatus(class)
  BY <1>4, UnusedCount DEF SetCommerceStatus, Unused, Onward, tokenVars, fulfillmentVars
<1>5. CASE AssignmentNext
  BY <1>5, AssignmentUnused, UnusedCount
<1>6. CASE FailureNext
  <2>1. deliveryToken \in [DeliveryToken -> Token]
    BY DEF IInv, TypeOK, RecordsTypeOK
  <2>2. /\ UNCHANGED <<custodyLog, pickupToken, custodyToken, returnToken>>
        /\ deliveryToken' \in {deliveryToken, Revoked(deliveryToken)}
        /\ status' \in {status, "delivery_failed", "returning"}
    BY <1>6 DEF FailureNext, ReportFailure, SelectDisposition, ResolveCase,
                ServiceTransition, fulfillmentVars, tokenVars
  <2>3. ConsumedIn(deliveryToken') = ConsumedIn(deliveryToken)
    BY <2>1, <2>2, UnusedConsumed
  <2>4. Onward
    BY <2>2 DEF Onward, BeforePickup, InShop
  <2> QED BY <2>2, <2>3, <2>4, UnusedCount DEF Unused
<1> QED
  BY <1>1, <1>2, <1>3, <1>4, <1>5, <1>6, PickupCount, CustodyCount, DeliveryCount, ReturnCount
  DEF FulfillmentStep

LEMMA InitCount ==
  ASSUME RecordsInit
  PROVE  CountSound
<1>1. \A type : EventsOf(custodyLog, type) = {}
  BY DEF RecordsInit, EventsOf
<1>2. /\ ConsumedIn(pickupToken) = {} /\ ConsumedIn(custodyToken) = {}
      /\ ConsumedIn(deliveryToken) = {} /\ ConsumedIn(returnToken) = {}
  BY DEF RecordsInit, ConsumedIn, NoToken
<1> QED BY <1>1, <1>2, FS_EmptySet DEF CountSound, Counted

LEMMA CountInductive == Spec => []CountSound
<1>1. RecordsInit => CountSound
  BY InitCount
<1>2. IInv /\ CountSound /\ [Next]_records => CountSound'
  <2>1. IInv /\ CountSound /\ Next => CountSound'
    BY StepCount DEF Next
  <2>2. CountSound /\ UNCHANGED records => CountSound'
    BY UnusedCount DEF records, Unused, Onward
  <2> QED BY <2>1, <2>2
<1> QED BY <1>1, <1>2, Invariant, PTL DEF Spec

(* A sound log with sound counts hands over once.                          *)
LEMMA CountOnce ==
  ASSUME IInv, LogSound, CountSound
  PROVE  HandedOverOnce
<1>1. custodyLog \in Seq(CustodyEvent)
  BY DEF IInv, TypeOK, RecordsTypeOK
<1>2. \A type : Events(type) = EventsOf(custodyLog, type)
  BY DEF Events, EventsOf
<1>3. FinalReceipts \subseteq {Len(custodyLog)}
  BY <1>1, LenProperties DEF LogSound, FinalReceipts, Events
<1>4. \A S, x : S \subseteq {x} => Cardinality(S) <= 1
  BY FS_EmptySet, FS_Singleton
<1>5. Cardinality(FinalReceipts) <= 1
  BY <1>3, <1>4
<1>6. Cardinality(Events("MERCHANT_RELEASED")) <= 1
  <2>1. \A i, j \in Events("MERCHANT_RELEASED") : i = j
    BY <1>2 DEF CountSound
  <2>2. CASE Events("MERCHANT_RELEASED") = {}
    BY <2>2, <1>4
  <2>3. CASE Events("MERCHANT_RELEASED") # {}
    <3>1. PICK i \in Events("MERCHANT_RELEASED") : TRUE
      BY <2>3
    <3>2. Events("MERCHANT_RELEASED") \subseteq {i}
      BY <2>1, <3>1
    <3> QED BY <1>4, <3>2
  <2> QED BY <2>2, <2>3
<1> QED BY <1>2, <1>5, <1>6 DEF HandedOverOnce, CountSound, Counted

(* The goods leave the merchant once and are received once, and each event *)
(* of the log is the use of one capability.                                *)
THEOREM OnceOnly == Spec => []HandedOverOnce
<1> QED BY CountOnce, LogInductive, CountInductive, PTL
=============================================================================
