-------------------------- MODULE FulfillmentProofs --------------------------
(***************************************************************************)
(* Proofs about module Fulfillment for every set of riders, tokens and     *)
(* authorizations, every bound and every set of callers of the generic     *)
(* API: the rows keep their types, the assignment, the custodian and the   *)
(* lifecycle agree, and a change of rider is a change of version.          *)
(*                                                                         *)
(* The invariant is inductive only as a whole: an assignment can take      *)
(* effect before the pickup because nobody is custodian then               *)
(* (LifecycleAgrees), a transfer can be finalized because it is pending    *)
(* from the active rider at the current version (CustodianAgrees), and the *)
(* rider it names is one because of the capability it consumes             *)
(* (CustodyTokensBound).                                                   *)
(***************************************************************************)
EXTENDS Fulfillment, SequenceTheorems, TLAPS

(* A custody capability that may still be confirmed names two riders.      *)
CustodyTokensBound ==
  \A t \in CustodyToken : custodyToken[t].status = "ACTIVE" =>
    custodyToken[t].rider \in Rider /\ custodyToken[t].counterpart \in Rider

Agreement == AssignmentAgrees /\ CustodianAgrees /\ LifecycleAgrees

IInv == TypeOK /\ Agreement /\ CustodyTokensBound

-----------------------------------------------------------------------------
(***************************************************************************)
(* The tables of tokens.                                                   *)
(***************************************************************************)

(* Revoking every ACTIVE token leaves a table of tokens without any.       *)
LEMMA RevokedTokens ==
  ASSUME NEW T, NEW table \in [T -> Token]
  PROVE  /\ Revoked(table) \in [T -> Token]
         /\ \A t \in T : Revoked(table)[t].status # "ACTIVE"
BY DEF Revoked, Token, TokenStatus

(* Issuing one leaves it as the only ACTIVE token.                         *)
LEMMA IssuedTokens ==
  ASSUME NEW T, NEW table \in [T -> Token], NEW t \in T,
         NEW r \in Rider \cup {None}, NEW ver \in Nat,
         NEW p \in Party \cup Authorization \cup {None}
  PROVE  /\ Issued(table, t, r, ver, p) \in [T -> Token]
         /\ Issued(table, t, r, ver, p)[t].rider = r
         /\ Issued(table, t, r, ver, p)[t].counterpart = p
         /\ \A u \in T : Issued(table, t, r, ver, p)[u].status = "ACTIVE" => u = t
BY RevokedTokens DEF Issued, Token, TokenStatus

(* Marking one makes no other ACTIVE.                                      *)
LEMMA MarkedTokens ==
  ASSUME NEW T, NEW table \in [T -> Token], NEW t \in T, NEW s \in TokenStatus,
         s # "ACTIVE"
  PROVE  /\ Marked(table, t, s) \in [T -> Token]
         /\ \A u \in T : Marked(table, t, s)[u].status = "ACTIVE" =>
              table[u].status = "ACTIVE" /\ Marked(table, t, s)[u] = table[u]
BY DEF Marked, Token, TokenStatus

(* An expired token is a token that is not ACTIVE.                         *)
LEMMA ExpiredTokens ==
  ASSUME NEW T, NEW table \in [T -> Token], NEW t \in T
  PROVE  /\ Expired(table, t) \in [T -> Token]
         /\ \A u \in T : Expired(table, t)[u].status = "ACTIVE" =>
              table[u].status = "ACTIVE" /\ Expired(table, t)[u] = table[u]
BY MarkedTokens DEF Expired, TokenStatus

-----------------------------------------------------------------------------
(***************************************************************************)
(* Frames.                                                                 *)
(***************************************************************************)

(* The agreement is about the fulfillment row and the assignments only.    *)
LEMMA AgreementFrame ==
  ASSUME Agreement, UNCHANGED <<fulfillmentVars, assignments>>
  PROVE  Agreement'
BY DEF Agreement, AssignmentAgrees, CustodianAgrees, LifecycleAgrees,
       fulfillmentVars, InShop

(* A step of the lifecycle that names the rider's statuses only once there *)
(* is a rider and returns nothing to the shop keeps it.                    *)
LEMMA StatusFrame ==
  ASSUME Agreement, status' \in Status,
         UNCHANGED <<activeRider, version, custodian, pendingTo, pendingFrom,
                     assignments>>,
         status' \in InShop => status \in InShop,
         status' = "rider_assigned" => status = "rider_assigned",
         status' \in {"delivered", "returned"} \cup MidPossession
           => activeRider # None
  PROVE  Agreement'
BY DEF Agreement, AssignmentAgrees, CustodianAgrees, LifecycleAgrees, InShop

(* Every edge of the table but the assignment is such a step.              *)
LEMMA EdgeFrame ==
  ASSUME IInv, NEW actor, TransitionAllowed(actor, status, status'),
         status' # "rider_assigned",
         UNCHANGED <<activeRider, version, custodian, pendingTo, pendingFrom,
                     assignments>>
  PROVE  Agreement' /\ status' \in Status
<1>1. status \in Status
  BY DEF IInv, TypeOK, RecordsTypeOK
<1>2. <<status, status'>> \in Transitions
  BY DEF TransitionAllowed
<1>3. status' \in Status
  BY <1>1, <1>2 DEF Transitions, Status
<1>4. status' \in InShop => status \in InShop
  BY <1>1, <1>2 DEF Transitions, Status, InShop
<1>5. status' \in {"delivered", "returned"} \cup MidPossession
        => status \in {"rider_assigned"} \cup MidPossession
  BY <1>1, <1>2 DEF Transitions, Status, MidPossession
<1>6. status' \in {"delivered", "returned"} \cup MidPossession
        => activeRider # None
  BY <1>5 DEF IInv, Agreement, LifecycleAgrees
<1> QED
  BY <1>3, <1>4, <1>6, StatusFrame DEF IInv

(* CustodyTokensBound speaks of the custody tokens only.                   *)
LEMMA CustodyTokensFrame ==
  ASSUME CustodyTokensBound, UNCHANGED custodyToken
  PROVE  CustodyTokensBound'
BY DEF CustodyTokensBound

-----------------------------------------------------------------------------
(***************************************************************************)
(* One lemma per group of actions.                                         *)
(***************************************************************************)

(* Both ways for an assignment to take effect give version + 1 to a rider  *)
(* and leave one ACTIVE row, if the rows they start from have none.        *)
LEMMA NewAssignmentAgrees ==
  ASSUME IInv, NEW r \in Rider, NEW rows, NewAssignment(r, rows),
         \/ rows = Superseded(assignments)
         \/ rows = assignments /\ version = 0
  PROVE  /\ assignments' \subseteq Assignment
         /\ version' \in Nat
         /\ version' = version + 1
         /\ AssignmentAgrees'
         /\ \A a \in assignments' : a.version \in 1 .. version'
<1> DEFINE new == [rider |-> r, version |-> version + 1, status |-> "ACTIVE"]
<1>1. /\ version \in Nat
      /\ assignments \subseteq Assignment
  BY DEF IInv, TypeOK, RecordsTypeOK
<1>2. /\ \A a \in rows : a \in Assignment /\ a.status # "ACTIVE"
                         /\ a.version \in 1 .. version
      /\ \A a, b \in rows : a.version = b.version => a = b
  <2>1. \A a \in assignments : a.version \in 1 .. version
    BY DEF IInv, Agreement, LifecycleAgrees
  <2>2. CASE rows = assignments /\ version = 0
    BY <1>1, <2>1, <2>2
  <2>3. CASE rows = Superseded(assignments)
    <3>1. \A a, b \in assignments : a.version = b.version => a = b
      BY DEF IInv, Agreement, AssignmentAgrees
    <3>2. \A x \in rows : \E a \in assignments : x = [a EXCEPT !.status = "SUPERSEDED"]
      BY <2>3 DEF Superseded
    <3> QED
      BY <1>1, <2>1, <3>1, <3>2 DEF Assignment
  <2> QED
    BY <2>2, <2>3
<1>3. /\ version' = version + 1
      /\ activeRider' = r
      /\ assignments' = rows \cup {new}
  BY DEF NewAssignment
<1>4. new \in Assignment /\ new.version = version + 1 /\ new.status = "ACTIVE"
  BY <1>1 DEF Assignment
<1>5. \A a \in assignments' : a.version \in 1 .. version'
  BY <1>1, <1>2, <1>3, <1>4
<1>6. {a \in assignments' : a.status = "ACTIVE"} = {new}
  BY <1>2, <1>3, <1>4
<1>7. \A a, b \in assignments' : a.version = b.version => a = b
  <2> SUFFICES ASSUME NEW a \in assignments', NEW b \in assignments',
                      a.version = b.version
               PROVE  a = b
    OBVIOUS
  <2>1. \A c \in rows : c.version # version + 1
    BY <1>1, <1>2
  <2> QED
    BY <2>1, <1>2, <1>3, <1>4
<1>8. AssignmentAgrees'
  BY <1>1, <1>3, <1>6, <1>7 DEF AssignmentAgrees
<1> QED
  BY <1>1, <1>2, <1>3, <1>4, <1>5, <1>8

(* A rider assigned at once is the first, or replaces another before the   *)
(* pickup, when nobody is custodian.                                       *)
LEMMA AssignRiderInv ==
  ASSUME IInv, NEW r \in Rider, NEW byOrder \in BOOLEAN, AssignRider(r, byOrder)
  PROVE  IInv'
<1>1. r # None /\ version \in Nat /\ TypeOK
  BY PartyAssumption DEF IInv, TypeOK, RecordsTypeOK
<1>2. /\ status' = IF status \in MidPossession THEN status ELSE "rider_assigned"
      /\ status \in PrePickup \cup MidPossession
      /\ UNCHANGED <<order, custodian, recipient, custodyLog, attempts, cases,
                     unsecured>>
  BY DEF AssignRider
<1>3. \/ activeRider = None /\ version = 0
      \/ activeRider \notin {None, r} /\ status \in PrePickup
  BY <1>1, PartyAssumption
  DEF AssignRider, IInv, Agreement, LifecycleAgrees, InShop
<1>4. status \in PrePickup /\ status' = "rider_assigned"
      /\ custodian = None
  BY <1>2, <1>3 DEF IInv, Agreement, LifecycleAgrees, InShop, PrePickup, MidPossession
<1>5. \E rows : /\ NewAssignment(r, rows)
                /\ \/ rows = Superseded(assignments)
                   \/ rows = assignments /\ version = 0
  BY <1>1, <1>3 DEF AssignRider
<1>6. /\ assignments' \subseteq Assignment
      /\ version' \in Nat
      /\ version' = version + 1
      /\ AssignmentAgrees'
      /\ \A a \in assignments' : a.version \in 1 .. version'
  BY <1>5, NewAssignmentAgrees
<1>7. activeRider' = r /\ pendingTo' = None /\ pendingFrom' = 0
  BY <1>5 DEF NewAssignment
<1>8. /\ pickupToken' \in [PickupToken -> Token]
      /\ custodyToken' \in [CustodyToken -> Token]
      /\ deliveryToken' \in [DeliveryToken -> Token]
      /\ returnToken' \in [ReturnToken -> Token]
      /\ CustodyTokensBound'
  <2>1. CASE UNCHANGED tokenVars
    BY <1>1, <2>1 DEF tokenVars, TypeOK, RecordsTypeOK, IInv, CustodyTokensBound
  <2>2. CASE /\ pickupToken' = Revoked(pickupToken)
             /\ PossessionTokensRevoked
    BY <1>1, <2>2, RevokedTokens
    DEF PossessionTokensRevoked, TypeOK, RecordsTypeOK, CustodyTokensBound
  <2> QED
    BY <2>1, <2>2 DEF AssignRider
<1>9. TypeOK'
  BY <1>1, <1>2, <1>4, <1>6, <1>7, <1>8 DEF TypeOK, RecordsTypeOK, Status
<1>10. CustodianAgrees'
  BY <1>2, <1>4, <1>7 DEF CustodianAgrees
<1>11. LifecycleAgrees'
  BY <1>1, <1>2, <1>4, <1>6, <1>7 DEF LifecycleAgrees, InShop, MidPossession
<1> QED
  BY <1>6, <1>8, <1>9, <1>10, <1>11 DEF IInv, Agreement

(* A mid-possession reassignment only records the intent.                  *)
LEMMA ReassignInv ==
  ASSUME IInv, NEW r \in Rider, NEW byOrder \in BOOLEAN,
         ReassignMidPossession(r, byOrder)
  PROVE  IInv'
<1>1. TypeOK /\ activeRider \in Rider /\ version \in Nat
  BY DEF IInv, TypeOK, RecordsTypeOK, ReassignMidPossession
<1>2. r # None /\ activeRider # r /\ status \in MidPossession
  BY PartyAssumption DEF ReassignMidPossession
<1>3. /\ UNCHANGED <<order, status, activeRider, version, assignments,
                     pickupToken, recipient, custodyLog, attempts, cases,
                     unsecured>>
      /\ pendingTo' = r
      /\ pendingFrom' = version
      /\ PossessionTokensRevoked
  BY DEF ReassignMidPossession
<1>4. custodian' = activeRider
  BY DEF ReassignMidPossession, CustodianKept, IInv, Agreement, CustodianAgrees
<1>5. /\ custodyToken' \in [CustodyToken -> Token]
      /\ deliveryToken' \in [DeliveryToken -> Token]
      /\ returnToken' \in [ReturnToken -> Token]
      /\ CustodyTokensBound'
  BY <1>1, <1>3, RevokedTokens
  DEF PossessionTokensRevoked, TypeOK, RecordsTypeOK, CustodyTokensBound
<1>6. TypeOK'
  BY <1>1, <1>3, <1>4, <1>5 DEF TypeOK, RecordsTypeOK
<1>7. AssignmentAgrees'
  BY <1>3 DEF IInv, Agreement, AssignmentAgrees
<1>8. CustodianAgrees'
  BY <1>1, <1>2, <1>3, <1>4, PartyAssumption DEF CustodianAgrees
<1>9. LifecycleAgrees'
  BY <1>2, <1>3 DEF IInv, Agreement, LifecycleAgrees, InShop, MidPossession
<1> QED
  BY <1>5, <1>6, <1>7, <1>8, <1>9 DEF IInv, Agreement

(* The pickup makes the assigned rider the first custodian.                *)
LEMMA PickupInv ==
  ASSUME IInv, PickupNext
  PROVE  IInv'
<1> SUFFICES ASSUME NEW t \in PickupToken,
                    IssuePickup(t) \/ ConfirmPickup(t) \/ ExpirePickup(t)
             PROVE  IInv'
  BY DEF PickupNext
<1>1. TypeOK /\ Agreement /\ CustodyTokensBound
      /\ pickupToken \in [PickupToken -> Token]
  BY DEF IInv, TypeOK, RecordsTypeOK
<1>2. CASE IssuePickup(t)
  <2>1. /\ UNCHANGED <<fulfillmentVars, order, assignments, custodyToken,
                       deliveryToken, returnToken, recipient, custodyLog,
                       failureVars, unsecured>>
        /\ pickupToken' = Issued(pickupToken, t, activeRider, version, Merchant)
    BY <1>2 DEF IssuePickup
  <2>2. activeRider \in Rider \cup {None} /\ version \in Nat /\ Merchant \in Party
    BY <1>1 DEF TypeOK, RecordsTypeOK, Party
  <2>3. pickupToken' \in [PickupToken -> Token]
    BY <1>1, <2>1, <2>2, IssuedTokens
  <2> QED
    BY <1>1, <2>1, <2>3, AgreementFrame, CustodyTokensFrame
    DEF IInv, TypeOK, RecordsTypeOK, fulfillmentVars, failureVars
<1>3. CASE ConfirmPickup(t)
  <2> DEFINE r == pickupToken[t].rider
             event == [type |-> "MERCHANT_RELEASED", from |-> Merchant, to |-> r]
  <2>1. /\ status = "rider_assigned" /\ activeRider = r
        /\ HasActiveAssignment(r, pickupToken[t].version)
        /\ custodyLog' = Append(custodyLog, event)
        /\ custodian' = r
        /\ ServiceTransition("picked_up")
        /\ pickupToken' = Marked(pickupToken, t, "CONSUMED")
        /\ UNCHANGED <<order, activeRider, version, pendingTo, pendingFrom,
                       assignments, custodyToken, deliveryToken, returnToken,
                       recipient, failureVars, unsecured>>
    BY <1>3 DEF ConfirmPickup, PickupTokenValid
  <2>2. r \in Rider
    BY <1>1, <2>1 DEF HasActiveAssignment, TypeOK, RecordsTypeOK, Assignment
  <2>3. status' = "picked_up"
    BY <2>1 DEF ServiceTransition
  <2>4. pickupToken' \in [PickupToken -> Token]
    BY <1>1, <2>1, MarkedTokens DEF TokenStatus
  <2>5. custodyLog' \in Seq(CustodyEvent)
    <3>1. event \in CustodyEvent
      BY <2>2 DEF CustodyEvent, CustodyType, Party
    <3> QED
      BY <1>1, <2>1, <3>1, AppendProperties DEF TypeOK, RecordsTypeOK
  <2>6. TypeOK'
    BY <1>1, <2>1, <2>2, <2>3, <2>4, <2>5
    DEF TypeOK, RecordsTypeOK, Status, failureVars
  <2>7. pendingTo = None
    BY <1>1, <2>1 DEF Agreement, LifecycleAgrees
  <2>8. Agreement'
    BY <1>1, <2>1, <2>2, <2>3, <2>7, PartyAssumption
    DEF Agreement, AssignmentAgrees, CustodianAgrees, LifecycleAgrees, InShop,
        MidPossession
  <2> QED
    BY <1>1, <2>1, <2>6, <2>8, CustodyTokensFrame DEF IInv
<1>4. CASE ExpirePickup(t)
  <2>1. pickupToken' \in [PickupToken -> Token]
    BY <1>1, <1>4, ExpiredTokens DEF ExpirePickup
  <2> QED
    BY <1>1, <1>4, <2>1, AgreementFrame, CustodyTokensFrame
    DEF ExpirePickup, IInv, TypeOK, RecordsTypeOK, fulfillmentVars, failureVars
<1> QED
  BY <1>2, <1>3, <1>4

(* The custody handoff moves the assignment and the custodian together, to *)
(* the rider for whom the transfer is pending.                             *)
LEMMA CustodyInv ==
  ASSUME IInv, CustodyNext
  PROVE  IInv'
<1> SUFFICES ASSUME NEW t \in CustodyToken,
                    IssueCustody(t) \/ ConfirmCustody(t) \/ ExpireCustody(t)
             PROVE  IInv'
  BY DEF CustodyNext
<1>1. TypeOK /\ Agreement /\ CustodyTokensBound
      /\ custodyToken \in [CustodyToken -> Token]
  BY DEF IInv, TypeOK, RecordsTypeOK
<1>2. CASE IssueCustody(t)
  <2>1. /\ UNCHANGED <<fulfillmentVars, order, assignments, pickupToken,
                       deliveryToken, returnToken, recipient, custodyLog,
                       failureVars, unsecured>>
        /\ custodyToken' = Issued(custodyToken, t, activeRider, SourceVersion,
                                  pendingTo)
    BY <1>2 DEF IssueCustody
  <2>2. activeRider \in Rider /\ pendingTo \in Rider /\ SourceVersion \in Nat
    BY <1>1, <1>2 DEF IssueCustody, SourceVersion, TypeOK, RecordsTypeOK
  <2>3. pendingTo \in Party
    BY <2>2 DEF Party
  <2>4. /\ custodyToken' \in [CustodyToken -> Token]
        /\ CustodyTokensBound'
    <3>1. /\ custodyToken' \in [CustodyToken -> Token]
          /\ custodyToken'[t].rider = activeRider
          /\ custodyToken'[t].counterpart = pendingTo
          /\ \A u \in CustodyToken : custodyToken'[u].status = "ACTIVE" => u = t
      BY <1>1, <2>1, <2>2, <2>3, IssuedTokens
    <3> QED
      BY <2>2, <3>1 DEF CustodyTokensBound
  <2> QED
    BY <1>1, <2>1, <2>4, AgreementFrame
    DEF IInv, TypeOK, RecordsTypeOK, fulfillmentVars, failureVars
<1>3. CASE ConfirmCustody(t)
  <2> DEFINE from == custodyToken[t].rider
             to == custodyToken[t].counterpart
             event == [type |-> "RIDER_TRANSFER", from |-> from, to |-> to]
  <2>1. /\ custodyToken[t].status = "ACTIVE"
        /\ status \in MidPossession
        /\ custodyLog' = Append(custodyLog, event)
        /\ FinalizeTransfer(from, to, custodyToken[t].version)
        /\ custodyToken' = Marked(custodyToken, t, "CONSUMED")
        /\ UNCHANGED <<order, status, pickupToken, deliveryToken, returnToken,
                       recipient, failureVars, unsecured>>
    BY <1>3 DEF ConfirmCustody
  <2>2. from \in Rider /\ to \in Rider
    BY <1>1, <2>1 DEF CustodyTokensBound
  <2>3. /\ NewAssignment(to, Superseded(assignments))
        /\ activeRider' = to /\ custodian' = to
        /\ pendingTo' = None /\ pendingFrom' = 0
    BY <2>1 DEF FinalizeTransfer, NewAssignment
  <2>4. /\ assignments' \subseteq Assignment
        /\ version' \in Nat
        /\ version' = version + 1
        /\ AssignmentAgrees'
        /\ \A a \in assignments' : a.version \in 1 .. version'
    BY <2>2, <2>3, NewAssignmentAgrees
  <2>5. /\ custodyToken' \in [CustodyToken -> Token]
        /\ CustodyTokensBound'
    BY <1>1, <2>1, MarkedTokens DEF CustodyTokensBound, TokenStatus
  <2>6. custodyLog' \in Seq(CustodyEvent)
    <3>1. event \in CustodyEvent
      BY <2>2 DEF CustodyEvent, CustodyType, Party
    <3> QED
      BY <1>1, <2>1, <3>1, AppendProperties DEF TypeOK, RecordsTypeOK
  <2>7. TypeOK'
    BY <1>1, <2>1, <2>2, <2>3, <2>4, <2>5, <2>6
    DEF TypeOK, RecordsTypeOK, failureVars
  <2>8. CustodianAgrees'
    BY <2>3 DEF CustodianAgrees
  <2>9. LifecycleAgrees'
    BY <1>1, <2>1, <2>2, <2>3, <2>4, PartyAssumption
    DEF LifecycleAgrees, InShop, MidPossession, TypeOK, RecordsTypeOK
  <2> QED
    BY <2>4, <2>5, <2>7, <2>8, <2>9 DEF IInv, Agreement
<1>4. CASE ExpireCustody(t)
  <2>1. /\ custodyToken' \in [CustodyToken -> Token]
        /\ CustodyTokensBound'
    BY <1>1, <1>4, ExpiredTokens DEF ExpireCustody, CustodyTokensBound
  <2> QED
    BY <1>1, <1>4, <2>1, AgreementFrame
    DEF ExpireCustody, IInv, TypeOK, RecordsTypeOK, fulfillmentVars, failureVars
<1> QED
  BY <1>2, <1>3, <1>4

(* The delivery handoff and the recipient touch neither the assignment nor *)
(* the custodian.                                                          *)
LEMMA DeliveryInv ==
  ASSUME IInv, NEW target \in Nat, DeliveryNext(target)
  PROVE  IInv'
<1>1. TypeOK /\ Agreement /\ CustodyTokensBound
      /\ deliveryToken \in [DeliveryToken -> Token]
      /\ recipient \in [Authorization -> AuthorizationStatus]
  BY DEF IInv, TypeOK, RecordsTypeOK
<1>2. ASSUME NEW t \in DeliveryToken, IssueDelivery(t)
      PROVE  IInv'
  <2>1. /\ UNCHANGED <<fulfillmentVars, order, assignments, pickupToken,
                       custodyToken, returnToken, recipient, custodyLog,
                       failureVars, unsecured>>
        /\ \E p \in Authorization \cup {Customer} :
             deliveryToken' = Issued(deliveryToken, t, activeRider, version, p)
    BY <1>2 DEF IssueDelivery
  <2>2. activeRider \in Rider \cup {None} /\ version \in Nat
    BY <1>1 DEF TypeOK, RecordsTypeOK
  <2>3. deliveryToken' \in [DeliveryToken -> Token]
    <3>1. PICK p \in Party \cup Authorization \cup {None} :
            deliveryToken' = Issued(deliveryToken, t, activeRider, version, p)
      BY <2>1 DEF Party
    <3> QED
      BY <1>1, <2>2, <3>1, IssuedTokens
  <2> QED
    BY <1>1, <2>1, <2>3, AgreementFrame, CustodyTokensFrame
    DEF IInv, TypeOK, RecordsTypeOK, fulfillmentVars, failureVars
<1>3. ASSUME NEW t \in DeliveryToken, ConfirmDelivery(t, target)
      PROVE  IInv'
  <2> DEFINE r == deliveryToken[t].rider
             event == [type |-> "CUSTOMER_RECEIVED", from |-> r, to |-> Customer]
  <2>1. /\ HasActiveAssignment(r, deliveryToken[t].version)
        /\ custodyLog' = Append(custodyLog, event)
        /\ ServiceTransition("delivered")
        /\ recipient' = [a \in Authorization |->
                           IF a = deliveryToken[t].counterpart THEN "CONSUMED"
                                                               ELSE recipient[a]]
        /\ deliveryToken' = Marked(deliveryToken, t, "CONSUMED")
        /\ RecordSuccess(r, deliveryToken[t].version, target)
        /\ UNCHANGED <<order, activeRider, version, custodian, pendingTo,
                       pendingFrom, assignments, pickupToken, custodyToken,
                       returnToken, cases, unsecured>>
    BY <1>3 DEF ConfirmDelivery, DeliveryTokenValid
  <2>2. r \in Rider /\ deliveryToken[t].version \in Nat
    BY <1>1, <2>1 DEF HasActiveAssignment, TypeOK, RecordsTypeOK, Assignment
  <2>3. attempts' \subseteq Attempt
    BY <1>1, <2>1, <2>2 DEF RecordSuccess, TypeOK, RecordsTypeOK, Attempt
  <2>4. Agreement' /\ status' \in Status
    <3>1. /\ TransitionAllowed("INTERNAL_SERVICE", status, status')
          /\ status' # "rider_assigned"
      BY <2>1 DEF ServiceTransition
    <3> QED
      BY <2>1, <3>1, EdgeFrame
  <2>5. custodyLog' \in Seq(CustodyEvent)
    <3>1. event \in CustodyEvent
      BY <2>2 DEF CustodyEvent, CustodyType, Party
    <3> QED
      BY <1>1, <2>1, <3>1, AppendProperties DEF TypeOK, RecordsTypeOK
  <2>6. /\ deliveryToken' \in [DeliveryToken -> Token]
        /\ recipient' \in [Authorization -> AuthorizationStatus]
    BY <1>1, <2>1, MarkedTokens DEF TokenStatus, AuthorizationStatus
  <2>7. TypeOK'
    BY <1>1, <2>1, <2>3, <2>4, <2>5, <2>6 DEF TypeOK, RecordsTypeOK
  <2> QED
    BY <1>1, <2>1, <2>4, <2>7, CustodyTokensFrame DEF IInv
<1>4. ASSUME NEW t \in DeliveryToken, ExpireDelivery(t) \/ RevokeDelivery(t)
      PROVE  IInv'
  <2>1. PICK outcome \in {"EXPIRED", "REVOKED"} : DropDeliveryToken(t, outcome)
    BY <1>4 DEF ExpireDelivery, RevokeDelivery
  <2>2. deliveryToken' \in [DeliveryToken -> Token]
    BY <1>1, <2>1, MarkedTokens DEF DropDeliveryToken, TokenStatus
  <2> QED
    BY <1>1, <2>1, <2>2, AgreementFrame, CustodyTokensFrame
    DEF DropDeliveryToken, IInv, TypeOK, RecordsTypeOK, fulfillmentVars, failureVars
<1>5. ASSUME \/ \E a \in Authorization : AuthorizeRecipient(a)
             \/ RevokeRecipient
      PROVE  IInv'
  <2>1. RecipientsRevoked \in [Authorization -> AuthorizationStatus]
    BY <1>1 DEF RecipientsRevoked, AuthorizationStatus
  <2>2. recipient' \in [Authorization -> AuthorizationStatus]
    BY <1>5, <2>1 DEF AuthorizeRecipient, RevokeRecipient, AuthorizationStatus
  <2>3. deliveryToken' \in [DeliveryToken -> Token]
    BY <1>1, <1>5, RevokedTokens
    DEF AuthorizeRecipient, RevokeRecipient, DeliveryTokensRevoked
  <2>4. UNCHANGED <<fulfillmentVars, order, assignments, pickupToken,
                    custodyToken, returnToken, custodyLog, failureVars,
                    unsecured>>
    BY <1>5 DEF AuthorizeRecipient, RevokeRecipient
  <2> QED
    BY <1>1, <2>2, <2>3, <2>4, AgreementFrame, CustodyTokensFrame
    DEF IInv, TypeOK, RecordsTypeOK, fulfillmentVars, failureVars
<1> QED
  BY <1>2, <1>3, <1>4, <1>5 DEF DeliveryNext

(* Neither does the return handoff.                                        *)
LEMMA ReturnInv ==
  ASSUME IInv, ReturnNext
  PROVE  IInv'
<1> SUFFICES ASSUME NEW t \in ReturnToken,
                    IssueReturn(t) \/ ConfirmReturn(t) \/ ExpireReturn(t)
             PROVE  IInv'
  BY DEF ReturnNext
<1>1. TypeOK /\ Agreement /\ CustodyTokensBound
      /\ returnToken \in [ReturnToken -> Token]
  BY DEF IInv, TypeOK, RecordsTypeOK
<1>2. CASE IssueReturn(t)
  <2>1. /\ UNCHANGED <<fulfillmentVars, order, assignments, pickupToken,
                       custodyToken, deliveryToken, recipient, custodyLog,
                       failureVars, unsecured>>
        /\ returnToken' = Issued(returnToken, t, activeRider, version, Merchant)
    BY <1>2 DEF IssueReturn
  <2>2. activeRider \in Rider \cup {None} /\ version \in Nat /\ Merchant \in Party
    BY <1>1 DEF TypeOK, RecordsTypeOK, Party
  <2>3. returnToken' \in [ReturnToken -> Token]
    BY <1>1, <2>1, <2>2, IssuedTokens
  <2> QED
    BY <1>1, <2>1, <2>3, AgreementFrame, CustodyTokensFrame
    DEF IInv, TypeOK, RecordsTypeOK, fulfillmentVars, failureVars
<1>3. CASE ConfirmReturn(t)
  <2> DEFINE r == returnToken[t].rider
             event == [type |-> "RETURN_RECEIVED", from |-> r, to |-> Merchant]
  <2>1. /\ HasActiveAssignment(r, returnToken[t].version)
        /\ custodyLog' = Append(custodyLog, event)
        /\ ServiceTransition("returned")
        /\ returnToken' = Marked(returnToken, t, "CONSUMED")
        /\ UNCHANGED <<order, activeRider, version, custodian, pendingTo,
                       pendingFrom, assignments, pickupToken, custodyToken,
                       deliveryToken, recipient, failureVars, unsecured>>
    BY <1>3 DEF ConfirmReturn, ReturnTokenValid
  <2>2. r \in Rider
    BY <1>1, <2>1 DEF HasActiveAssignment, TypeOK, RecordsTypeOK, Assignment
  <2>3. Agreement' /\ status' \in Status
    <3>1. /\ TransitionAllowed("INTERNAL_SERVICE", status, status')
          /\ status' # "rider_assigned"
      BY <2>1 DEF ServiceTransition
    <3> QED
      BY <2>1, <3>1, EdgeFrame
  <2>4. custodyLog' \in Seq(CustodyEvent)
    <3>1. event \in CustodyEvent
      BY <2>2 DEF CustodyEvent, CustodyType, Party
    <3> QED
      BY <1>1, <2>1, <3>1, AppendProperties DEF TypeOK, RecordsTypeOK
  <2>5. returnToken' \in [ReturnToken -> Token]
    BY <1>1, <2>1, MarkedTokens DEF TokenStatus
  <2>6. TypeOK'
    BY <1>1, <2>1, <2>3, <2>4, <2>5 DEF TypeOK, RecordsTypeOK, failureVars
  <2> QED
    BY <1>1, <2>1, <2>3, <2>6, CustodyTokensFrame DEF IInv
<1>4. CASE ExpireReturn(t)
  <2>1. returnToken' \in [ReturnToken -> Token]
    BY <1>1, <1>4, ExpiredTokens DEF ExpireReturn
  <2> QED
    BY <1>1, <1>4, <2>1, AgreementFrame, CustodyTokensFrame
    DEF ExpireReturn, IInv, TypeOK, RecordsTypeOK, fulfillmentVars, failureVars
<1> QED
  BY <1>2, <1>3, <1>4

(* A report, a disposition and a resolution move the status along the      *)
(* table at most, and keep the attempts and cases well formed.             *)
LEMMA FailureInv ==
  ASSUME IInv, FailureNext
  PROVE  IInv'
<1>1. /\ TypeOK /\ Agreement /\ CustodyTokensBound
      /\ activeRider \in Rider \cup {None} /\ version \in Nat
      /\ cases \in Seq(FailureCase)
      /\ status \in Status
  BY DEF IInv, TypeOK, RecordsTypeOK
<1>2. CASE ReportFailure
  <2>1. /\ activeRider # None
        /\ \E n \in 1 .. AttemptBound + 1 :
             /\ attempts' = attempts \cup
                  {[number |-> n, outcome |-> "FAILED", rider |-> activeRider,
                    version |-> version]}
             /\ cases' = Append(cases,
                  [status      |-> "OPEN",
                   disposition |-> IF n >= MaxAttempts
                                     THEN "OPERATIONS_RECOVERY_REQUIRED"
                                     ELSE "NONE"])
        /\ ServiceTransition("delivery_failed")
        /\ deliveryToken' = Revoked(deliveryToken)
        /\ UNCHANGED <<order, activeRider, version, custodian, pendingTo,
                       pendingFrom, assignments, pickupToken, custodyToken,
                       returnToken, recipient, custodyLog, unsecured>>
    BY <1>2 DEF ReportFailure
  <2>2. PICK n \in 1 .. AttemptBound + 1 :
             /\ attempts' = attempts \cup
                  {[number |-> n, outcome |-> "FAILED", rider |-> activeRider,
                    version |-> version]}
             /\ cases' = Append(cases,
                  [status      |-> "OPEN",
                   disposition |-> IF n >= MaxAttempts
                                     THEN "OPERATIONS_RECOVERY_REQUIRED"
                                     ELSE "NONE"])
    BY <2>1
  <2>3. attempts' \subseteq Attempt
    BY <1>1, <2>1, <2>2, BoundAssumption DEF TypeOK, RecordsTypeOK, Attempt
  <2>4. cases' \in Seq(FailureCase)
    <3>1. [status |-> "OPEN",
           disposition |-> IF n >= MaxAttempts THEN "OPERATIONS_RECOVERY_REQUIRED"
                                               ELSE "NONE"] \in FailureCase
      BY DEF FailureCase, CaseStatus, Disposition
    <3> QED
      BY <1>1, <2>2, <3>1, AppendProperties
  <2>5. Agreement' /\ status' \in Status
    <3>1. /\ TransitionAllowed("INTERNAL_SERVICE", status, status')
          /\ status' # "rider_assigned"
      BY <2>1 DEF ServiceTransition
    <3> QED
      BY <2>1, <3>1, EdgeFrame
  <2>6. deliveryToken' \in [DeliveryToken -> Token]
    BY <1>1, <2>1, RevokedTokens DEF TypeOK, RecordsTypeOK
  <2>7. TypeOK'
    BY <1>1, <2>1, <2>3, <2>4, <2>5, <2>6 DEF TypeOK, RecordsTypeOK
  <2> QED
    BY <1>1, <2>1, <2>5, <2>7, CustodyTokensFrame DEF IInv
<1>3. ASSUME NEW i \in DOMAIN cases, NEW d \in Disposition, SelectDisposition(i, d)
      PROVE  IInv'
  <2>1. /\ cases' = [cases EXCEPT ![i] = [status |-> "DISPOSITION_SELECTED",
                                          disposition |-> d]]
        /\ \/ ServiceTransition("returning")
           \/ UNCHANGED status
        /\ UNCHANGED <<order, activeRider, version, custodian, pendingTo,
                       pendingFrom, assignments, tokenVars, recipient,
                       custodyLog, attempts, unsecured>>
    BY <1>3 DEF SelectDisposition
  <2>2. Agreement' /\ status' \in Status
    <3>1. CASE ServiceTransition("returning")
      <4>1. /\ TransitionAllowed("INTERNAL_SERVICE", status, status')
            /\ status' # "rider_assigned"
        BY <3>1 DEF ServiceTransition
      <4> QED
        BY <2>1, <4>1, EdgeFrame
    <3>2. CASE UNCHANGED status
      BY <1>1, <2>1, <3>2, AgreementFrame DEF fulfillmentVars
    <3> QED
      BY <2>1, <3>1, <3>2
  <2>3. cases' \in Seq(FailureCase)
    <3>1. i \in 1 .. Len(cases)
      BY <1>1, LenProperties
    <3>2. [status |-> "DISPOSITION_SELECTED", disposition |-> d] \in FailureCase
      BY DEF FailureCase, CaseStatus
    <3> QED
      BY <1>1, <2>1, <3>1, <3>2, ExceptSeq
  <2> QED
    BY <1>1, <2>1, <2>2, <2>3, CustodyTokensFrame
    DEF IInv, TypeOK, RecordsTypeOK, tokenVars
<1>4. ASSUME NEW i \in DOMAIN cases, ResolveCase(i)
      PROVE  IInv'
  <2>1. /\ cases' = [cases EXCEPT ![i].status = "RESOLVED"]
        /\ UNCHANGED <<fulfillmentVars, order, assignments, tokenVars,
                       recipient, custodyLog, attempts, unsecured>>
    BY <1>4 DEF ResolveCase
  <2>2. cases' \in Seq(FailureCase)
    <3>1. i \in 1 .. Len(cases) /\ cases[i] \in FailureCase
      BY <1>1, LenProperties, ElementOfSeq
    <3>2. [cases[i] EXCEPT !.status = "RESOLVED"] \in FailureCase
      BY <3>1 DEF FailureCase, CaseStatus
    <3> QED
      BY <1>1, <2>1, <3>1, <3>2, ExceptSeq
  <2> QED
    BY <1>1, <2>1, <2>2, AgreementFrame, CustodyTokensFrame
    DEF IInv, TypeOK, RecordsTypeOK, tokenVars, fulfillmentVars
<1> QED
  BY <1>2, <1>3, <1>4 DEF FailureNext

(* The generic API, the bridge and the start of the delivery write only    *)
(* the status.                                                             *)
LEMMA TransitionInv ==
  ASSUME IInv, NEW actor, NEW target, Transition(actor, target)
  PROVE  IInv'
<1>1. TypeOK /\ CustodyTokensBound
  BY DEF IInv
<1>2. /\ TransitionAllowed(actor, status, status')
      /\ status' # "rider_assigned"
      /\ unsecured' = unsecured \cup ({<<status, target>>} \cap SecuredEdges)
      /\ UNCHANGED <<order, activeRider, version, custodian, pendingTo,
                     pendingFrom, assignments, tokenVars, recipient,
                     custodyLog, failureVars>>
  BY DEF Transition
<1>3. Agreement' /\ status' \in Status
  BY <1>2, EdgeFrame
<1>4. TypeOK'
  BY <1>1, <1>2, <1>3 DEF TypeOK, RecordsTypeOK, tokenVars, failureVars
<1> QED
  BY <1>1, <1>2, <1>3, <1>4, CustodyTokensFrame DEF IInv, tokenVars

(* The rider sets out: only the status moves, among those on the road.     *)
LEMMA StartDeliveryInv ==
  ASSUME IInv, StartDelivery
  PROVE  IInv'
<1>1. TypeOK /\ CustodyTokensBound
  BY DEF IInv
<1>2. /\ TransitionAllowed("INTERNAL_SERVICE", status, status')
      /\ status' # "rider_assigned"
      /\ UNCHANGED <<order, activeRider, version, custodian, pendingTo,
                     pendingFrom, assignments, tokenVars, recipient,
                     custodyLog, failureVars, unsecured>>
  BY DEF StartDelivery, ServiceTransition
<1>3. Agreement' /\ status' \in Status
  BY <1>2, EdgeFrame
<1>4. TypeOK'
  BY <1>1, <1>2, <1>3 DEF TypeOK, RecordsTypeOK, tokenVars, failureVars
<1> QED
  BY <1>1, <1>2, <1>3, <1>4, CustodyTokensFrame DEF IInv, tokenVars

(* The commerce status is no part of the invariant.                        *)
LEMMA SetCommerceStatusInv ==
  ASSUME IInv, NEW class \in OrderClass, SetCommerceStatus(class)
  PROVE  IInv'
BY AgreementFrame, CustodyTokensFrame
DEF SetCommerceStatus, IInv, TypeOK, RecordsTypeOK, tokenVars, failureVars,
    fulfillmentVars

-----------------------------------------------------------------------------
(***************************************************************************)
(* The invariant.                                                          *)
(***************************************************************************)

(* A fulfillment just created satisfies it.                                *)
LEMMA InitInv == RecordsInit => IInv
<1> SUFFICES ASSUME RecordsInit PROVE IInv
  OBVIOUS
<1>1. TypeOK
  BY EmptySeq DEF RecordsInit, TypeOK, RecordsTypeOK, Status, OrderClass, NoToken,
     Token, TokenStatus, AuthorizationStatus
<1>2. Agreement
  BY DEF RecordsInit, Agreement, AssignmentAgrees, CustodianAgrees,
     LifecycleAgrees, InShop, MidPossession
<1>3. CustodyTokensBound
  BY DEF RecordsInit, CustodyTokensBound, NoToken
<1> QED
  BY <1>1, <1>2, <1>3 DEF IInv

(* Every step of the services preserves it, whichever redelivery is in     *)
(* force (target), so the composition with module Redelivery can use it.   *)
LEMMA StepInv ==
  ASSUME IInv, NEW target \in Nat, FulfillmentStep(target)
  PROVE  IInv'
<1>1. CASE \E actor \in Callers, s \in Status : Transition(actor, s)
  BY <1>1, TransitionInv
<1>2. CASE BridgeStep
  BY <1>2, TransitionInv DEF BridgeStep
<1>3. CASE StartDelivery
  BY <1>3, StartDeliveryInv
<1>4. CASE \E class \in OrderClass : SetCommerceStatus(class)
  BY <1>4, SetCommerceStatusInv
<1>5. CASE AssignmentNext
  BY <1>5, AssignRiderInv, ReassignInv DEF AssignmentNext
<1>6. CASE PickupNext
  BY <1>6, PickupInv
<1>7. CASE CustodyNext
  BY <1>7, CustodyInv
<1>8. CASE DeliveryNext(target)
  BY <1>8, DeliveryInv
<1>9. CASE ReturnNext
  BY <1>9, ReturnInv
<1>10. CASE FailureNext
  BY <1>10, FailureInv
<1> QED
  BY <1>1, <1>2, <1>3, <1>4, <1>5, <1>6, <1>7, <1>8, <1>9, <1>10
  DEF FulfillmentStep

(* It depends on the rows alone.                                           *)
LEMMA StutterInv ==
  ASSUME IInv, UNCHANGED records
  PROVE  IInv'
BY AgreementFrame, CustodyTokensFrame
DEF IInv, TypeOK, RecordsTypeOK, records, fulfillmentVars

(* The invariant holds throughout.                                         *)
THEOREM Invariant == Spec => []IInv
<1>1. IInv /\ [Next]_records => IInv'
  BY StepInv, StutterInv DEF Next
<1> QED
  BY InitInv, <1>1, PTL DEF Spec

(* Type correctness: no sequence of handlers, reassignments, bypasses or   *)
(* late tokens writes a row outside its type.                              *)
THEOREM TypeCorrect == Spec => []TypeOK
<1>1. IInv => TypeOK
  BY DEF IInv
<1> QED
  BY Invariant, <1>1, PTL

(* There is one ACTIVE assignment, the active rider's at the current       *)
(* version, and no version is given twice.                                 *)
THEOREM AssignmentCorrect == Spec => []AssignmentAgrees
<1>1. IInv => AssignmentAgrees
  BY DEF IInv, Agreement
<1> QED
  BY Invariant, <1>1, PTL

(* A proven custodian is the active rider, and a pending transfer starts   *)
(* from him at the current version.                                        *)
THEOREM CustodianCorrect == Spec => []CustodianAgrees
<1>1. IInv => CustodianAgrees
  BY DEF IInv, Agreement
<1> QED
  BY Invariant, <1>1, PTL

(* The lifecycle agrees with the rider, the custodian and the versions.    *)
THEOREM LifecycleCorrect == Spec => []LifecycleAgrees
<1>1. IInv => LifecycleAgrees
  BY DEF IInv, Agreement
<1> QED
  BY Invariant, <1>1, PTL

-----------------------------------------------------------------------------
(***************************************************************************)
(* What no step does.                                                      *)
(***************************************************************************)

(* The rider in charge changes only where an assignment takes effect.      *)
LEMMA RiderStep ==
  ASSUME NEW target \in Nat, FulfillmentStep(target)
  PROVE  \/ UNCHANGED <<activeRider, version>>
         \/ \E r, rows : NewAssignment(r, rows)
<1>1. CASE \E actor \in Callers, s \in Status : Transition(actor, s)
  BY <1>1 DEF Transition
<1>2. CASE BridgeStep
  BY <1>2 DEF BridgeStep, Transition
<1>3. CASE StartDelivery
  BY <1>3 DEF StartDelivery
<1>4. CASE \E class \in OrderClass : SetCommerceStatus(class)
  BY <1>4 DEF SetCommerceStatus, fulfillmentVars
<1>5. CASE AssignmentNext
  BY <1>5 DEF AssignmentNext, AssignRider, ReassignMidPossession
<1>6. CASE PickupNext
  BY <1>6 DEF PickupNext, IssuePickup, ConfirmPickup, ExpirePickup, fulfillmentVars
<1>7. CASE CustodyNext
  BY <1>7 DEF CustodyNext, IssueCustody, ConfirmCustody, ExpireCustody,
              FinalizeTransfer, fulfillmentVars
<1>8. CASE DeliveryNext(target)
  BY <1>8 DEF DeliveryNext, IssueDelivery, ConfirmDelivery, ExpireDelivery,
              RevokeDelivery, DropDeliveryToken, AuthorizeRecipient,
              RevokeRecipient, fulfillmentVars
<1>9. CASE ReturnNext
  BY <1>9 DEF ReturnNext, IssueReturn, ConfirmReturn, ExpireReturn, fulfillmentVars
<1>10. CASE FailureNext
  BY <1>10 DEF FailureNext, ReportFailure, SelectDisposition, ResolveCase,
               fulfillmentVars
<1> QED
  BY <1>1, <1>2, <1>3, <1>4, <1>5, <1>6, <1>7, <1>8, <1>9, <1>10
  DEF FulfillmentStep

(* The optimistic lock is sound: a handler that read version v and finds v *)
(* again is dealing with the same rider.                                   *)
THEOREM OptimisticLock == Spec => RiderChangesWithVersion
<1>1. ASSUME IInv, [Next]_records
      PROVE  /\ version' \in {version, version + 1}
             /\ activeRider' # activeRider => version' = version + 1
  <2>1. CASE Next
    <3>1. \/ UNCHANGED <<activeRider, version>>
          \/ \E r, rows : NewAssignment(r, rows)
      BY <2>1, RiderStep DEF Next
    <3> QED
      BY <3>1 DEF NewAssignment
  <2>2. CASE UNCHANGED records
    BY <2>2 DEF records
  <2> QED
    BY <1>1, <2>1, <2>2
<1> QED
  BY Invariant, <1>1, PTL DEF Spec, RiderChangesWithVersion

(* A custodian is replaced only by the confirmation of a custody handoff.  *)
LEMMA CustodianStep ==
  ASSUME IInv, NEW target \in Nat, FulfillmentStep(target),
         custodian # None, custodian' # custodian
  PROVE  custodyLog' = Append(custodyLog, [type |-> "RIDER_TRANSFER",
                                           from |-> custodian,
                                           to   |-> custodian'])
<1>1. CASE \E actor \in Callers, s \in Status : Transition(actor, s)
  BY <1>1 DEF Transition
<1>2. CASE BridgeStep
  BY <1>2 DEF BridgeStep, Transition
<1>3. CASE StartDelivery
  BY <1>3 DEF StartDelivery
<1>4. CASE \E class \in OrderClass : SetCommerceStatus(class)
  BY <1>4 DEF SetCommerceStatus, fulfillmentVars
<1>5. CASE AssignmentNext
  BY <1>5 DEF AssignmentNext, AssignRider, ReassignMidPossession, CustodianKept
<1>6. CASE PickupNext
  <2>1. ASSUME NEW t \in PickupToken, ConfirmPickup(t)
        PROVE  custodian = None
    BY <2>1 DEF ConfirmPickup, PickupTokenValid, IInv, Agreement, LifecycleAgrees
  <2> QED
    BY <1>6, <2>1 DEF PickupNext, IssuePickup, ExpirePickup, fulfillmentVars
<1>7. CASE CustodyNext
  BY <1>7 DEF CustodyNext, IssueCustody, ConfirmCustody, ExpireCustody,
              FinalizeTransfer, fulfillmentVars
<1>8. CASE DeliveryNext(target)
  BY <1>8 DEF DeliveryNext, IssueDelivery, ConfirmDelivery, ExpireDelivery,
              RevokeDelivery, DropDeliveryToken, AuthorizeRecipient,
              RevokeRecipient, fulfillmentVars
<1>9. CASE ReturnNext
  BY <1>9 DEF ReturnNext, IssueReturn, ConfirmReturn, ExpireReturn, fulfillmentVars
<1>10. CASE FailureNext
  BY <1>10 DEF FailureNext, ReportFailure, SelectDisposition, ResolveCase,
               fulfillmentVars
<1> QED
  BY <1>1, <1>2, <1>3, <1>4, <1>5, <1>6, <1>7, <1>8, <1>9, <1>10
  DEF FulfillmentStep

(* Possession never moves on paper only.                                   *)
THEOREM CustodyEvidence == Spec => CustodyMovesWithEvidence
<1>1. ASSUME IInv, [Next]_records
      PROVE  (custodian # None /\ custodian' # custodian) =>
               custodyLog' = Append(custodyLog, [type |-> "RIDER_TRANSFER",
                                                 from |-> custodian,
                                                 to   |-> custodian'])
  BY <1>1, CustodianStep DEF Next, records
<1> QED
  BY Invariant, <1>1, PTL DEF Spec, CustodyMovesWithEvidence

(* A terminal status ends every handler that writes the fulfillment row,   *)
(* the assignments, the custody log or the attempts.                       *)
LEMMA TerminalStep ==
  ASSUME NEW target \in Nat, FulfillmentStep(target), status \in Terminal
  PROVE  UNCHANGED <<status, activeRider, version, custodian, assignments,
                     custodyLog, attempts>>
<1>1. CASE \E actor \in Callers, s \in Status : Transition(actor, s)
  BY <1>1 DEF Transition, TransitionAllowed
<1>2. CASE BridgeStep
  BY <1>2 DEF BridgeStep, Transition, TransitionAllowed
<1>3. CASE StartDelivery
  BY <1>3 DEF StartDelivery, Terminal
<1>4. CASE \E class \in OrderClass : SetCommerceStatus(class)
  BY <1>4 DEF SetCommerceStatus, fulfillmentVars, failureVars
<1>5. CASE AssignmentNext
  BY <1>5 DEF AssignmentNext, AssignRider, ReassignMidPossession, PrePickup,
              MidPossession, Terminal
<1>6. CASE PickupNext
  BY <1>6 DEF PickupNext, IssuePickup, ConfirmPickup, PickupTokenValid,
              ExpirePickup, fulfillmentVars, failureVars, Terminal
<1>7. CASE CustodyNext
  BY <1>7 DEF CustodyNext, IssueCustody, ConfirmCustody, ExpireCustody,
              fulfillmentVars, failureVars, MidPossession, Terminal
<1>8. CASE DeliveryNext(target)
  BY <1>8 DEF DeliveryNext, IssueDelivery, ConfirmDelivery, DeliveryTokenValid,
              ExpireDelivery, RevokeDelivery, DropDeliveryToken,
              AuthorizeRecipient, RevokeRecipient, fulfillmentVars, failureVars,
              Terminal
<1>9. CASE ReturnNext
  BY <1>9 DEF ReturnNext, IssueReturn, ConfirmReturn, ReturnTokenValid,
              ExpireReturn, fulfillmentVars, failureVars, Terminal
<1>10. CASE FailureNext
  BY <1>10 DEF FailureNext, ReportFailure, SelectDisposition, ResolveCase,
               fulfillmentVars, Terminal
<1> QED
  BY <1>1, <1>2, <1>3, <1>4, <1>5, <1>6, <1>7, <1>8, <1>9, <1>10
  DEF FulfillmentStep

(* A finished fulfillment is history.                                      *)
THEOREM Finished == Spec => TerminalFrozen
<1>1. ASSUME [Next]_records
      PROVE  (status \in Terminal) =>
               (UNCHANGED <<status, activeRider, version, custodian,
                            assignments, custodyLog, attempts>>)
  BY <1>1, TerminalStep DEF Next, records
<1> QED
  BY <1>1, PTL DEF Spec, TerminalFrozen
=============================================================================
