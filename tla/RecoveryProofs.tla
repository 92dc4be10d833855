---------------------------- MODULE RecoveryProofs ----------------------------
(***************************************************************************)
(* Proofs about what follows a failed delivery (module DeliveryRecovery),  *)
(* for any number of redeliveries, recoveries and attempts and every set   *)
(* of callers of the generic API.  Step by step with the attempts go       *)
(*   AttemptsSound      their numbers, their versions and their cases,     *)
(*   RedeliveriesSound  the targets of the authorizations, which are fixed *)
(*                      on request and may only be used on the same count, *)
(*   BudgetSound        what is left to try, as far as the generic API has *)
(*                      not moved the order itself.                        *)
(* The last sections carry the promises of the fulfillment over to the     *)
(* composed system, and show that exhausted attempts are never escalated.  *)
(***************************************************************************)
EXTENDS DeliveryRecovery, CustodyProofs, ChainProofs, FiniteSetTheorems

Failed == {a \in attempts : a.outcome = "FAILED"}

Activated == {a \in RedeliveryId : redelivery[a].status = "ACTIVATED"}

(* Before the goods are on the road nothing has been tried.                *)
Early == InShop \cup {"rider_assigned", "picked_up"}

AttemptsSound ==
  LET n == Len(cases) IN
  /\ IsFiniteSet(Failed)
  /\ Cardinality(Failed) = n
  /\ {a.number : a \in Failed} = 1 .. n
  /\ \A a, b \in attempts : a.number <= b.number => a.version <= b.version
  /\ \A a \in attempts : a.version <= version
  /\ \A a \in attempts : a.outcome = "SUCCESSFUL_HANDOFF" =>
       status = "delivered" /\ a.number \in 1 .. MaxAttempts
  /\ \A i \in 1 .. n : OpenCase(cases[i]) => i = n
  /\ status \in Early => n = 0

RedeliveriesSound ==
  LET n == Len(cases) IN
  /\ redelivery \in [RedeliveryId -> RedeliveryRow]
  /\ \A a \in Activated : redelivery[a].target \in 1 .. MaxAttempts
                          /\ redelivery[a].target <= n + 1
  /\ \A a \in RedeliveryId : Open(a) =>
       /\ redelivery[a].target \in 1 .. n + 1
       /\ redelivery[a].priorCase \in {0, redelivery[a].target - 1}
  /\ IsFiniteSet(Activated)
  /\ Activated # {} =>
       \E a \in Activated : \A b \in Activated :
         redelivery[b].target <= redelivery[a].target
  /\ status \in Early => Activated = {}

Retry == <<"delivery_failed", "in_transit">>

Untreated == {"delivery_failed", "returning", "returned"}

BudgetSound ==
  LET n == Len(cases) IN
  /\ Retry \notin unsecured =>
       n <= MaxAttempts /\ (status = "in_transit" => n < MaxAttempts)
  /\ unsecured = {} =>
       /\ status = "in_transit" =>
            /\ NoOpenCase
            /\ Activated # {} => \E a \in Activated : redelivery[a].target = n + 1
       /\ n = Cardinality(Activated) + (IF status \in Untreated THEN 1 ELSE 0)
       /\ (status = "delivered" /\ n > 0) =>
            \E a \in attempts : a.outcome = "SUCCESSFUL_HANDOFF" /\ a.number = n + 1

RInv ==
  /\ IInv
  /\ TokensSound
  /\ recovery \in [RecoveryId -> RecoveryRow]
  /\ ExclusiveAuthority
  /\ AttemptsSound
  /\ RedeliveriesSound
  /\ BudgetSound

-----------------------------------------------------------------------------
(***************************************************************************)
(* What the steps of the fulfillment do to the attempts.                   *)
(***************************************************************************)

(* The edges that an attempt or an authorization stands for.               *)
Recorded == {<<"in_transit", "delivered">>, <<"in_transit", "delivery_failed">>, Retry}

(* A step that records no attempt: it opens no case and takes none of      *)
(* those edges, unless on the account of the generic API.                  *)
Calm ==
  /\ attempts' = attempts
  /\ Len(cases') = Len(cases)
  /\ \A i \in 1 .. Len(cases) : OpenCase(cases'[i]) => OpenCase(cases[i])
  /\ unsecured \subseteq unsecured'
  /\ version <= version'
  /\ \/ status' = status
     \/ /\ <<status, status'>> \in Transitions
        /\ <<status, status'>> \in Recorded => <<status, status'>> \in unsecured'

LEMMA CalmTransition ==
  ASSUME IInv, NEW actor, NEW target, Transition(actor, target)
  PROVE  Calm
<1>1. /\ <<status, status'>> \in Transitions
      /\ unsecured' = unsecured \cup ({<<status, status'>>} \cap SecuredEdges)
      /\ UNCHANGED <<attempts, cases, version>>
  BY DEF Transition, TransitionAllowed, failureVars
<1>2. version <= version'
  BY <1>1 DEF IInv, TypeOK, RecordsTypeOK
<1>3. Recorded \subseteq SecuredEdges
  BY DEF Recorded, Retry, SecuredEdges
<1> QED BY <1>1, <1>2, <1>3 DEF Calm

(* An edge of the lifecycle that no attempt stands for.                    *)
LEMMA CalmEdge ==
  ASSUME UNCHANGED <<attempts, cases, unsecured>>, version <= version',
         \/ status' = status
         \/ <<status, status'>> \in Transitions \ Recorded
  PROVE  Calm
BY DEF Calm

LEMMA CalmAssignment ==
  ASSUME IInv, AssignmentNext, version <= version'
  PROVE  Calm
<1>1. UNCHANGED <<attempts, cases, unsecured>>
  BY DEF AssignmentNext, AssignRider, ReassignMidPossession
<1>2. status' = status \/ (status \in PrePickup /\ status' = "rider_assigned")
  BY DEF AssignmentNext, AssignRider, ReassignMidPossession, PrePickup, MidPossession
<1>3. \/ status' = status
      \/ <<status, status'>> \in Transitions \ Recorded
  BY <1>2 DEF PrePickup, Transitions, Recorded, Retry
<1> QED BY <1>1, <1>3, CalmEdge

LEMMA CalmCases ==
  ASSUME IInv, NEW i \in DOMAIN cases,
         (\E d \in Disposition \ {"NONE"} : SelectDisposition(i, d)) \/ ResolveCase(i)
  PROVE  Calm
<1>1. /\ cases \in Seq(FailureCase)
      /\ i \in 1 .. Len(cases) /\ cases[i] \in FailureCase
      /\ version <= version
  BY LenProperties, ElementOfSeq DEF IInv, TypeOK, RecordsTypeOK
<1>2. ASSUME NEW d \in Disposition \ {"NONE"}, SelectDisposition(i, d) PROVE Calm
  <2>1. /\ cases' = [cases EXCEPT ![i] = [status |-> "DISPOSITION_SELECTED", disposition |-> d]]
        /\ OpenCase(cases[i])
        /\ UNCHANGED <<attempts, unsecured, version>>
        /\ status' = status \/ (status = "delivery_failed" /\ status' = "returning")
    BY <1>2 DEF SelectDisposition, OpenCase, ServiceTransition
  <2>2. [status |-> "DISPOSITION_SELECTED", disposition |-> d] \in FailureCase
    BY DEF FailureCase, CaseStatus
  <2>3. /\ Len(cases') = Len(cases)
        /\ \A j \in 1 .. Len(cases) : OpenCase(cases'[j]) => OpenCase(cases[j])
    BY <1>1, <2>1, <2>2, ExceptSeq
  <2>4. \/ status' = status
        \/ <<status, status'>> \in Transitions \ Recorded
    BY <2>1 DEF Transitions, Recorded, Retry
  <2> QED BY <1>1, <2>1, <2>3, <2>4 DEF Calm
<1>3. ASSUME ResolveCase(i) PROVE Calm
  <2> DEFINE row == [cases[i] EXCEPT !.status = "RESOLVED"]
  <2>1. /\ cases' = [cases EXCEPT ![i] = row]
        /\ UNCHANGED <<attempts, unsecured, version, status>>
    BY <1>3 DEF ResolveCase, fulfillmentVars
  <2>2. row \in FailureCase /\ ~ OpenCase(row)
    BY <1>1 DEF FailureCase, CaseStatus, OpenCase
  <2> HIDE DEF row
  <2>3. /\ Len(cases') = Len(cases)
        /\ \A j \in 1 .. Len(cases) : OpenCase(cases'[j]) => OpenCase(cases[j])
    BY <1>1, <2>1, <2>2, ExceptSeq
  <2> QED BY <1>1, <2>1, <2>3 DEF Calm
<1> QED BY <1>2, <1>3

(* Every step is calm but the report of a failure and the delivery.        *)
LEMMA Classified ==
  ASSUME IInv, NEW target \in Nat, FulfillmentStep(target)
  PROVE  \/ Calm
         \/ ReportFailure
         \/ \E t \in DeliveryToken : ConfirmDelivery(t, target)
<1>0. version <= version'
  <2>1. version \in Nat
    BY DEF IInv, TypeOK, RecordsTypeOK
  <2>2. version' \in {version, version + 1}
    BY RiderStep DEF NewAssignment
  <2> QED BY <2>1, <2>2
<1>1. CASE \E actor \in Callers, s \in Status : Transition(actor, s)
  BY <1>1, CalmTransition
<1>2. CASE BridgeStep
  BY <1>2, CalmTransition DEF BridgeStep
<1>3. CASE StartDelivery
  <2>1. /\ UNCHANGED <<attempts, cases, unsecured>>
        /\ <<status, status'>> = <<"picked_up", "in_transit">>
    BY <1>3 DEF StartDelivery, ServiceTransition, failureVars
  <2>2. <<status, status'>> \in Transitions \ Recorded
    BY <2>1 DEF Transitions, Recorded, Retry
  <2> QED BY <1>0, <2>1, <2>2, CalmEdge
<1>4. CASE \E class \in OrderClass : SetCommerceStatus(class)
  BY <1>0, <1>4, CalmEdge DEF SetCommerceStatus, fulfillmentVars, failureVars
<1>5. CASE AssignmentNext
  BY <1>0, <1>5, CalmAssignment
<1>6. CASE PickupNext
  <2>1. /\ UNCHANGED <<attempts, cases, unsecured>>
        /\ status' = status \/ (status = "rider_assigned" /\ status' = "picked_up")
    BY <1>6 DEF PickupNext, IssuePickup, ConfirmPickup, ExpirePickup, PickupTokenValid,
                ServiceTransition, failureVars, fulfillmentVars
  <2>2. status' = status \/ <<status, status'>> \in Transitions \ Recorded
    BY <2>1 DEF Transitions, Recorded, Retry
  <2> QED BY <1>0, <2>1, <2>2, CalmEdge
<1>7. CASE CustodyNext
  <2>1. UNCHANGED <<attempts, cases, unsecured, status>>
    BY <1>7 DEF CustodyNext, IssueCustody, ConfirmCustody, ExpireCustody, failureVars,
                fulfillmentVars
  <2> QED BY <1>0, <2>1, CalmEdge
<1>8. CASE DeliveryNext(target)
  <2>1. ASSUME ~ \E t \in DeliveryToken : ConfirmDelivery(t, target)
        PROVE  UNCHANGED <<attempts, cases, unsecured, status>>
    BY <1>8, <2>1 DEF DeliveryNext, IssueDelivery, ExpireDelivery, RevokeDelivery,
                      DropDeliveryToken, AuthorizeRecipient, RevokeRecipient,
                      failureVars, fulfillmentVars
  <2> QED BY <1>0, <2>1, CalmEdge
<1>9. CASE ReturnNext
  <2>1. /\ UNCHANGED <<attempts, cases, unsecured>>
        /\ status' = status \/ (status = "returning" /\ status' = "returned")
    BY <1>9 DEF ReturnNext, IssueReturn, ConfirmReturn, ExpireReturn, ReturnTokenValid,
                ServiceTransition, failureVars, fulfillmentVars
  <2>2. status' = status \/ <<status, status'>> \in Transitions \ Recorded
    BY <2>1 DEF Transitions, Recorded, Retry
  <2> QED BY <1>0, <2>1, <2>2, CalmEdge
<1>10. CASE FailureNext
  BY <1>10, CalmCases DEF FailureNext
<1> QED
  BY <1>1, <1>2, <1>3, <1>4, <1>5, <1>6, <1>7, <1>8, <1>9, <1>10 DEF FulfillmentStep

-----------------------------------------------------------------------------
(***************************************************************************)
(* What the invariant says of the present count.                           *)
(***************************************************************************)

LEMMA Rows ==
  ASSUME IInv
  PROVE  /\ attempts \subseteq Attempt /\ cases \in Seq(FailureCase)
         /\ Len(cases) \in Nat /\ DOMAIN cases = 1 .. Len(cases)
         /\ status \in Status /\ version \in Nat
         /\ MaxAttempts \in Nat \ {0}
BY LenProperties, BoundAssumption DEF IInv, TypeOK, RecordsTypeOK

(* An attempt is a failure, numbered by its case, or the delivery.         *)
LEMMA Numbers ==
  ASSUME IInv, AttemptsSound, NEW a \in attempts
  PROVE  /\ a.number \in Nat /\ a.version \in Nat
         /\ \/ a.outcome = "FAILED" /\ a.number \in 1 .. Len(cases)
            \/ /\ a.outcome = "SUCCESSFUL_HANDOFF" /\ status = "delivered"
               /\ a.number \in 1 .. MaxAttempts
<1>1. /\ a.number \in Nat /\ a.version \in Nat
      /\ a.outcome \in {"FAILED", "SUCCESSFUL_HANDOFF"}
  BY Rows DEF Attempt
<1>2. a.outcome = "FAILED" => a.number \in 1 .. Len(cases)
  BY DEF AttemptsSound, Failed
<1> QED BY <1>1, <1>2 DEF AttemptsSound

(* The authorization in force is the activated one of the largest target.  *)
LEMMA Latest ==
  ASSUME RedeliveriesSound, Len(cases) \in Nat
  PROVE  /\ LatestTarget \in Nat
         /\ Activated = {} => LatestTarget = 0
         /\ \A b \in Activated : redelivery[b].target <= LatestTarget
         /\ Activated # {} => /\ LatestTarget \in 1 .. MaxAttempts
                              /\ LatestTarget <= Len(cases) + 1
                              /\ \E a \in Activated : redelivery[a].target = LatestTarget
<1>1. ActivatedTargets = {redelivery[a].target : a \in Activated}
  BY DEF ActivatedTargets, Activated
<1>2. CASE Activated = {}
  <2>1. ActivatedTargets = {}
    BY <1>1, <1>2
  <2> QED BY <1>2, <2>1 DEF LatestTarget
<1>3. CASE Activated # {}
  <2>1. PICK a \in Activated : \A b \in Activated : redelivery[b].target <= redelivery[a].target
    BY <1>3 DEF RedeliveriesSound
  <2>2. /\ redelivery[a].target \in ActivatedTargets
        /\ \A m \in ActivatedTargets : m <= redelivery[a].target
    BY <1>1, <2>1
  <2>3. /\ LatestTarget \in ActivatedTargets
        /\ \A m \in ActivatedTargets : m <= LatestTarget
    BY <2>2 DEF LatestTarget
  <2>4. PICK c \in Activated : redelivery[c].target = LatestTarget
    BY <1>1, <2>3
  <2>5. LatestTarget \in 1 .. MaxAttempts /\ LatestTarget <= Len(cases) + 1
    BY <2>4 DEF RedeliveriesSound
  <2>6. \A b \in Activated : redelivery[b].target <= LatestTarget
    BY <1>1, <2>3
  <2>7. LatestTarget \in Nat
    BY <2>5
  <2> QED BY <1>3, <2>4, <2>5, <2>6, <2>7
<1> QED BY <1>2, <1>3

-----------------------------------------------------------------------------
(***************************************************************************)
(* Calm steps.                                                             *)
(***************************************************************************)

LEMMA CalmStatus ==
  ASSUME Calm, status' # status, <<status, status'>> \notin unsecured'
  PROVE  /\ status \notin Ended /\ status' # "delivered"
         /\ status' \in Early => status \in Early
         /\ status' = "in_transit" => status \in Early
         /\ status' \in Untreated <=> status \in Untreated
BY DEF Calm, Transitions, Recorded, Retry, Ended, Early, InShop, Untreated

LEMMA CalmAttempts ==
  ASSUME IInv, AttemptsSound, Calm, version' \in Nat
  PROVE  AttemptsSound'
<1>1. /\ attempts' = attempts /\ Failed' = Failed /\ Len(cases') = Len(cases)
      /\ version <= version' /\ version \in Nat
  BY Rows DEF Calm, Failed
<1>2. \A i \in 1 .. Len(cases') : OpenCase(cases'[i]) => i = Len(cases')
  BY <1>1 DEF Calm, AttemptsSound
<1>3. \A a \in attempts : a.version <= version'
  BY <1>1, Numbers DEF AttemptsSound
<1>4. status = "delivered" => status' = "delivered"
  BY DEF Calm, Transitions
<1>5. status' \in Early => status \in Early
  BY DEF Calm, Transitions, Early, InShop
<1> QED BY <1>1, <1>2, <1>3, <1>4, <1>5 DEF AttemptsSound

(* The authorizations activated so far are as they were.                   *)
SameActivated ==
  /\ Activated' = Activated
  /\ \A a \in Activated : redelivery'[a].target = redelivery[a].target

LEMMA CalmBudget ==
  ASSUME IInv, AttemptsSound, RedeliveriesSound, BudgetSound, Calm, SameActivated,
         cases' \in Seq(FailureCase)
  PROVE  BudgetSound'
<1> DEFINE n == Len(cases)
<1>1. /\ attempts' = attempts /\ Len(cases') = n /\ n \in Nat
      /\ unsecured \subseteq unsecured' /\ MaxAttempts \in Nat \ {0}
      /\ DOMAIN cases = 1 .. n /\ DOMAIN cases' = 1 .. n
      /\ \A i \in 1 .. n : OpenCase(cases'[i]) => OpenCase(cases[i])
  BY Rows, LenProperties DEF Calm
<1>2. status \in Early => n = 0 /\ Activated = {}
  BY DEF AttemptsSound, RedeliveriesSound
<1>3. NoOpenCase => NoOpenCase'
  BY <1>1 DEF NoOpenCase
<1>4. n = 0 => NoOpenCase'
  BY <1>1 DEF NoOpenCase
<1> HIDE DEF n
<1>5. ASSUME Retry \notin unsecured'
      PROVE  n <= MaxAttempts /\ (status' = "in_transit" => n < MaxAttempts)
  <2>1. Retry \notin unsecured /\ n <= MaxAttempts /\ (status = "in_transit" => n < MaxAttempts)
    BY <1>1, <1>5 DEF BudgetSound, n
  <2>2. (status' = "in_transit" /\ status' # status) => status \in Early
    BY <1>5 DEF Calm, Transitions, Recorded, Retry, Early, InShop
  <2> QED BY <1>1, <1>2, <2>1, <2>2
<1>6. ASSUME unsecured' = {}
      PROVE  /\ status' = "in_transit" =>
                  /\ NoOpenCase'
                  /\ Activated' # {} => \E a \in Activated' : redelivery'[a].target = n + 1
             /\ n = Cardinality(Activated') + (IF status' \in Untreated THEN 1 ELSE 0)
             /\ (status' = "delivered" /\ n > 0) =>
                  \E a \in attempts : a.outcome = "SUCCESSFUL_HANDOFF" /\ a.number = n + 1
  <2>1. unsecured = {}
    BY <1>1, <1>6
  <2>2. /\ status = "in_transit" =>
             /\ NoOpenCase
             /\ Activated # {} => \E a \in Activated : redelivery[a].target = n + 1
        /\ n = Cardinality(Activated) + (IF status \in Untreated THEN 1 ELSE 0)
        /\ (status = "delivered" /\ n > 0) =>
             \E a \in attempts : a.outcome = "SUCCESSFUL_HANDOFF" /\ a.number = n + 1
    BY <2>1 DEF BudgetSound, n
  <2>3. CASE status' = status
    BY <1>3, <2>2, <2>3 DEF SameActivated
  <2>4. CASE status' # status
    BY <1>2, <1>4, <1>6, <2>2, <2>4, CalmStatus DEF SameActivated
  <2> QED BY <2>3, <2>4
<1> QED BY <1>1, <1>5, <1>6 DEF BudgetSound, n

(* What the authorizations promise depends on the count and the rows only. *)
LEMMA CalmRedeliveries ==
  ASSUME RedeliveriesSound, Calm, SameActivated,
         redelivery' \in [RedeliveryId -> RedeliveryRow],
         \A a \in RedeliveryId : Open(a)' =>
           /\ redelivery'[a].target \in 1 .. Len(cases) + 1
           /\ redelivery'[a].priorCase \in {0, redelivery'[a].target - 1}
  PROVE  RedeliveriesSound'
<1>1. Len(cases') = Len(cases) /\ Activated' = Activated
  BY DEF Calm, SameActivated
<1>2. \A a \in Activated : redelivery'[a].target = redelivery[a].target
  BY DEF SameActivated
<1>3. status' \in Early => status \in Early
  BY DEF Calm, Transitions, Early, InShop
<1> QED BY <1>1, <1>2, <1>3 DEF RedeliveriesSound

-----------------------------------------------------------------------------
(***************************************************************************)
(* The report of a failure and the delivery.                               *)
(***************************************************************************)

(* The report takes the next number: on the road there is no delivery, and *)
(* the failures fill 1 .. Len(cases).                                      *)
LEMMA Reported ==
  ASSUME IInv, AttemptsSound, ReportFailure
  PROVE  \E e \in Attempt :
           /\ e.outcome = "FAILED" /\ e.number = Len(cases) + 1 /\ e.version = version
           /\ attempts' = attempts \cup {e}
           /\ Len(cases') = Len(cases) + 1
           /\ \A i \in 1 .. Len(cases) : cases'[i] = cases[i]
<1>1. PICK k \in 1 .. AttemptBound + 1 :
        /\ IsNextAttempt(k)
        /\ attempts' = attempts \cup
             {[number |-> k, outcome |-> "FAILED", rider |-> activeRider, version |-> version]}
        /\ cases' = Append(cases,
             [status |-> "OPEN", disposition |-> IF k >= MaxAttempts
                                                   THEN "OPERATIONS_RECOVERY_REQUIRED" ELSE "NONE"])
  BY DEF ReportFailure
<1>2. k \in Nat /\ activeRider \in Rider
  BY BoundAssumption DEF ReportFailure, IInv, TypeOK, RecordsTypeOK
<1> DEFINE e == [number |-> k, outcome |-> "FAILED", rider |-> activeRider, version |-> version]
           c == [status |-> "OPEN", disposition |-> IF k >= MaxAttempts
                                                   THEN "OPERATIONS_RECOVERY_REQUIRED" ELSE "NONE"]
<1>3. e \in Attempt /\ e.number = k /\ e.outcome = "FAILED" /\ e.version = version
  BY <1>2, Rows DEF Attempt
<1>4. c \in FailureCase
  BY DEF FailureCase, CaseStatus, Disposition
<1>5. attempts' = attempts \cup {e} /\ cases' = Append(cases, c)
  BY <1>1
<1> HIDE DEF e, c
<1>6. Len(cases') = Len(cases) + 1 /\ \A i \in 1 .. Len(cases) : cases'[i] = cases[i]
  BY <1>4, <1>5, Rows, AppendProperties
<1>7. \A a \in attempts : a.number \in 1 .. Len(cases)
  BY Numbers DEF ReportFailure
<1>8. \A m \in 1 .. Len(cases) : \E a \in attempts : a.number = m
  BY DEF AttemptsSound, Failed
<1>9. k = Len(cases) + 1
  <2>1. Len(cases) \in Nat
    BY Rows
  <2>2. \A m \in 1 .. Len(cases) : m < k
    BY <1>1, <1>8 DEF IsNextAttempt
  <2>3. k = 1 \/ \E m \in 1 .. Len(cases) : m + 1 = k
    BY <1>1, <1>7 DEF IsNextAttempt
  <2>4. CASE Len(cases) = 0
    BY <2>3, <2>4
  <2>5. CASE Len(cases) # 0
    <3>1. Len(cases) \in 1 .. Len(cases)
      BY <2>1, <2>5
    <3>2. Len(cases) < k
      BY <2>2, <3>1
    <3> QED BY <1>2, <2>1, <2>3, <2>5, <3>2
  <2> QED BY <2>4, <2>5
<1> QED BY <1>3, <1>5, <1>6, <1>9

LEMMA ReportAttempts ==
  ASSUME IInv, AttemptsSound, ReportFailure
  PROVE  AttemptsSound'
<1> DEFINE n == Len(cases)
<1>1. PICK e \in Attempt :
        /\ e.outcome = "FAILED" /\ e.number = n + 1 /\ e.version = version
        /\ attempts' = attempts \cup {e}
        /\ Len(cases') = n + 1
        /\ \A i \in 1 .. n : cases'[i] = cases[i]
  BY Reported
<1>2. n \in Nat /\ version \in Nat /\ version' = version
  BY Rows DEF ReportFailure
<1>3. \A a \in attempts : /\ a.outcome = "FAILED" /\ a.number \in 1 .. n
                          /\ a.version \in Nat /\ a.version <= version
  BY Numbers DEF ReportFailure, AttemptsSound
<1>4. /\ IsFiniteSet(Failed) /\ Cardinality(Failed) = n
      /\ {a.number : a \in Failed} = 1 .. n
      /\ \A a, b \in attempts : a.number <= b.number => a.version <= b.version
  BY DEF AttemptsSound
<1>5. \A i \in 1 .. n : ~ OpenCase(cases[i])
  BY Rows DEF ReportFailure, NoOpenCase
<1>6. status' = "delivery_failed"
  BY DEF ReportFailure, ServiceTransition
<1> HIDE DEF n
<1>7. Failed' = Failed \cup {e} /\ e \notin Failed
  BY <1>1, <1>2, <1>3 DEF Failed
<1>8. IsFiniteSet(Failed') /\ Cardinality(Failed') = n + 1
  BY <1>4, <1>7, FS_AddElement
<1>9. {a.number : a \in Failed'} = 1 .. n + 1
  <2>1. {a.number : a \in Failed'} = (1 .. n) \cup {n + 1}
    BY <1>1, <1>4, <1>7
  <2> QED BY <1>2, <2>1
<1>10. \A a, b \in attempts' : a.number <= b.number => a.version <= b.version
  <2> SUFFICES ASSUME NEW a \in attempts', NEW b \in attempts', a.number <= b.number
               PROVE  a.version <= b.version
    OBVIOUS
  <2>1. CASE b = e
    BY <1>1, <1>2, <1>3, <2>1
  <2>2. CASE b # e
    <3>1. b \in attempts /\ b.number \in 1 .. n
      BY <1>1, <1>3, <2>2
    <3>2. a # e
      BY <1>1, <1>2, <3>1
    <3> QED BY <1>1, <1>4, <3>1, <3>2
  <2> QED BY <2>1, <2>2
<1>11. \A a \in attempts' : a.version <= version' /\ a.outcome = "FAILED"
  BY <1>1, <1>2, <1>3
<1>12. \A i \in 1 .. n + 1 : OpenCase(cases'[i]) => i = n + 1
  BY <1>1, <1>2, <1>5
<1> QED
  BY <1>1, <1>6, <1>8, <1>9, <1>10, <1>11, <1>12 DEF AttemptsSound, Early, InShop

LEMMA ReportRest ==
  ASSUME IInv, AttemptsSound, RedeliveriesSound, BudgetSound, ReportFailure,
         UNCHANGED redelivery
  PROVE  RedeliveriesSound' /\ BudgetSound'
<1> DEFINE n == Len(cases)
<1>1. Len(cases') = n + 1
  BY Reported
<1>2. /\ n \in Nat /\ MaxAttempts \in Nat \ {0}
      /\ status = "in_transit" /\ status' = "delivery_failed" /\ unsecured' = unsecured
      /\ Activated' = Activated
  BY Rows DEF ReportFailure, ServiceTransition, Activated
<1>3. RedeliveriesSound'
  <2>1. \A a \in Activated : /\ redelivery[a].target \in 1 .. MaxAttempts
                             /\ redelivery[a].target <= n + 1
    BY DEF RedeliveriesSound
  <2>2. \A a \in RedeliveryId : Open(a) =>
          /\ redelivery[a].target \in 1 .. n + 1
          /\ redelivery[a].priorCase \in {0, redelivery[a].target - 1}
    BY DEF RedeliveriesSound
  <2> HIDE DEF n
  <2>3. \A a \in Activated : redelivery[a].target <= n + 1 + 1
    BY <1>2, <2>1
  <2>4. 1 .. n + 1 \subseteq 1 .. n + 1 + 1
    BY <1>2
  <2>5. \A a \in RedeliveryId : Open(a)' = Open(a)
    BY DEF Open
  <2> QED
    BY <1>1, <1>2, <2>1, <2>2, <2>3, <2>4, <2>5 DEF RedeliveriesSound, Early, InShop
<1>4. BudgetSound'
  <2>1. Retry \notin unsecured => n < MaxAttempts
    BY <1>2 DEF BudgetSound
  <2>2. unsecured = {} => n = Cardinality(Activated) + 0
    BY <1>2 DEF BudgetSound, Untreated
  <2> HIDE DEF n
  <2>3. IsFiniteSet(Activated) /\ Cardinality(Activated) \in Nat
    BY FS_CardinalityType DEF RedeliveriesSound
  <2> QED BY <1>1, <1>2, <2>1, <2>2, <2>3 DEF BudgetSound, Untreated
<1> QED BY <1>3, <1>4

(* The delivery takes the number of the activated authorization, which is  *)
(* the next one or the key of a recorded failure.                          *)
LEMMA Delivered ==
  ASSUME IInv, AttemptsSound, RedeliveriesSound,
         NEW t \in DeliveryToken, ConfirmDelivery(t, LatestTarget)
  PROVE  \/ LatestTarget = 0 /\ attempts' = attempts
         \/ /\ LatestTarget = Len(cases) + 1 /\ LatestTarget \in 1 .. MaxAttempts
            /\ \E e \in Attempt :
                 /\ e.outcome = "SUCCESSFUL_HANDOFF" /\ e.number = LatestTarget
                 /\ e.version = version
                 /\ attempts' = attempts \cup {e}
<1>1. CASE LatestTarget = 0
  BY <1>1 DEF ConfirmDelivery, RecordSuccess
<1>2. CASE LatestTarget # 0
  <2>1. /\ Activated # {} /\ LatestTarget \in 1 .. MaxAttempts
        /\ LatestTarget <= Len(cases) + 1 /\ Len(cases) \in Nat /\ LatestTarget \in Nat
    BY <1>2, Rows, Latest
  <2> DEFINE e == [number |-> LatestTarget, outcome |-> "SUCCESSFUL_HANDOFF",
                   rider |-> deliveryToken[t].rider, version |-> deliveryToken[t].version]
  <2>2. /\ \A a \in attempts : a.number # LatestTarget
        /\ attempts' = attempts \cup {e}
        /\ deliveryToken[t].version = version
        /\ HasActiveAssignment(deliveryToken[t].rider, deliveryToken[t].version)
    BY <1>2 DEF ConfirmDelivery, RecordSuccess, DeliveryTokenValid
  <2>3. deliveryToken[t].rider \in Rider /\ version \in Nat
    BY <2>2, Rows DEF HasActiveAssignment, IInv, TypeOK, RecordsTypeOK, Assignment
  <2>4. /\ e \in Attempt /\ e.outcome = "SUCCESSFUL_HANDOFF" /\ e.number = LatestTarget
        /\ e.version = version
    BY <2>1, <2>2, <2>3 DEF Attempt
  <2> HIDE DEF e
  <2>5. \A m \in 1 .. Len(cases) : \E a \in attempts : a.number = m
    BY DEF AttemptsSound, Failed
  <2>6. LatestTarget \notin 1 .. Len(cases)
    BY <2>2, <2>5
  <2>7. LatestTarget = Len(cases) + 1
    BY <2>1, <2>6
  <2> QED BY <2>1, <2>2, <2>4, <2>7
<1> QED BY <1>1, <1>2

LEMMA DeliveredRest ==
  ASSUME IInv, AttemptsSound, RedeliveriesSound, BudgetSound, UNCHANGED redelivery,
         NEW t \in DeliveryToken, ConfirmDelivery(t, LatestTarget)
  PROVE  AttemptsSound' /\ RedeliveriesSound' /\ BudgetSound'
<1> DEFINE n == Len(cases)
<1>1. /\ n \in Nat /\ MaxAttempts \in Nat \ {0} /\ version \in Nat
      /\ status = "in_transit" /\ status' = "delivered"
      /\ UNCHANGED <<cases, version, unsecured>>
      /\ Activated' = Activated
  BY Rows DEF ConfirmDelivery, DeliveryTokenValid, ServiceTransition, Activated
<1>2. \A a \in attempts : /\ a.outcome = "FAILED" /\ a.number \in 1 .. n
                          /\ a.version \in Nat /\ a.version <= version
  BY <1>1, Numbers DEF AttemptsSound
<1>3. AttemptsSound'
  <2>1. CASE attempts' = attempts
    BY <1>1, <1>2, <2>1 DEF AttemptsSound, Failed, Early, InShop
  <2>2. CASE attempts' # attempts
    <3>1. LatestTarget = n + 1 /\ LatestTarget \in 1 .. MaxAttempts
      BY <2>2, Delivered
    <3>2. PICK e \in Attempt :
            /\ e.outcome = "SUCCESSFUL_HANDOFF" /\ e.number = LatestTarget
            /\ e.version = version /\ attempts' = attempts \cup {e}
      BY <2>2, Delivered
    <3>3. Failed' = Failed
      BY <3>2 DEF Failed
    <3>4. \A a, b \in attempts : a.number <= b.number => a.version <= b.version
      BY DEF AttemptsSound
    <3> HIDE DEF n
    <3>5. \A a, b \in attempts' : a.number <= b.number => a.version <= b.version
      <4> SUFFICES ASSUME NEW a \in attempts', NEW b \in attempts', a.number <= b.number
                   PROVE  a.version <= b.version
        OBVIOUS
      <4>1. CASE b = e
        BY <1>1, <1>2, <3>2, <4>1
      <4>2. CASE b # e
        <5>1. b \in attempts /\ b.number \in 1 .. n
          BY <1>2, <3>2, <4>2
        <5>2. a # e
          BY <1>1, <3>1, <3>2, <5>1
        <5> QED BY <3>2, <3>4, <5>1, <5>2
      <4> QED BY <4>1, <4>2
    <3>6. \A a \in attempts' : a.version <= version'
      BY <1>1, <1>2, <3>2
    <3>7. \A a \in attempts' : a.outcome = "SUCCESSFUL_HANDOFF" => a.number \in 1 .. MaxAttempts
      BY <1>2, <3>1, <3>2
    <3> QED
      BY <1>1, <3>3, <3>5, <3>6, <3>7 DEF AttemptsSound, Early, InShop
  <2> QED BY <2>1, <2>2
<1>4. RedeliveriesSound'
  <2>1. \A a \in RedeliveryId : Open(a)' = Open(a)
    BY DEF Open
  <2> QED BY <1>1, <2>1 DEF RedeliveriesSound, Early, InShop
<1>5. BudgetSound'
  <2>1. Retry \notin unsecured => n <= MaxAttempts
    BY DEF BudgetSound
  <2>2. unsecured = {} => n = Cardinality(Activated) + 0
    BY <1>1 DEF BudgetSound, Untreated
  <2>3. ASSUME unsecured = {}, n > 0
        PROVE  \E a \in attempts' : a.outcome = "SUCCESSFUL_HANDOFF" /\ a.number = n + 1
    <3>1. IsFiniteSet(Activated) /\ Cardinality(Activated) \in Nat /\ Cardinality(Activated) # 0
      BY <1>1, <2>2, <2>3, FS_CardinalityType DEF RedeliveriesSound
    <3>2. Activated # {}
      BY <3>1, FS_EmptySet
    <3>3. LatestTarget # 0
      BY <1>1, <3>2, Latest
    <3> QED BY <3>3, Delivered
  <2> HIDE DEF n
  <2>4. IsFiniteSet(Activated) /\ Cardinality(Activated) \in Nat
    BY FS_CardinalityType DEF RedeliveriesSound
  <2>5. n = Len(cases')
    BY <1>1 DEF n
  <2> QED BY <1>1, <2>1, <2>2, <2>3, <2>4, <2>5 DEF BudgetSound, Untreated
<1> QED BY <1>3, <1>4, <1>5

-----------------------------------------------------------------------------
(***************************************************************************)
(* The activation: the failure that it follows is the last one, its case   *)
(* is closed, and one more authorization is spent.                         *)
(***************************************************************************)

LEMMA ResolvedCases ==
  ASSUME cases \in Seq(FailureCase), NEW i \in 0 .. Len(cases)
  PROVE  /\ CaseResolved(i) \in Seq(FailureCase)
         /\ Len(CaseResolved(i)) = Len(cases)
         /\ \A j \in 1 .. Len(cases) : OpenCase(CaseResolved(i)[j]) => OpenCase(cases[j]) /\ j # i
<1>1. /\ Len(cases) \in Nat /\ DOMAIN cases = 1 .. Len(cases)
      /\ cases \in [1 .. Len(cases) -> FailureCase]
  BY LenProperties
<1>2. CASE i \in 1 .. Len(cases) /\ OpenCase(cases[i])
  <2> DEFINE row == [cases[i] EXCEPT !.status = "RESOLVED"]
  <2>1. row \in FailureCase /\ ~ OpenCase(row)
    BY <1>1, <1>2 DEF FailureCase, CaseStatus, OpenCase
  <2>2. CaseResolved(i) = [cases EXCEPT ![i] = row]
    BY <1>1, <1>2 DEF CaseResolved
  <2> HIDE DEF row
  <2> QED BY <1>2, <2>1, <2>2, ExceptSeq
<1>3. CASE ~ (i \in 1 .. Len(cases) /\ OpenCase(cases[i]))
  <2>1. CaseResolved(i) = cases
    BY <1>1, <1>3 DEF CaseResolved
  <2> QED BY <1>3, <2>1
<1> QED BY <1>2, <1>3

(* The case that Activate picks leaves none under treatment.               *)
LEMMA ActivateCases ==
  ASSUME IInv, AttemptsSound, RedeliveriesSound, NEW a \in RedeliveryId, Open(a), Activate(a)
  PROVE  /\ cases' \in Seq(FailureCase) /\ Len(cases') = Len(cases)
         /\ \A j \in 1 .. Len(cases) : ~ OpenCase(cases'[j])
         /\ redelivery[a].target = Len(cases) + 1 /\ Len(cases) < MaxAttempts
<1> DEFINE n == Len(cases)
<1>1. n \in Nat /\ cases \in Seq(FailureCase) /\ DOMAIN cases = 1 .. n
  BY Rows
<1>2. FailedCount = n
  BY DEF FailedCount, AttemptsSound, Failed
<1>3. redelivery[a].target = n + 1 /\ n < MaxAttempts
  BY <1>2 DEF Activate, BudgetLeft
<1>4. PICK i \in 0 .. n :
        /\ IF redelivery[a].priorCase # 0 THEN i = redelivery[a].priorCase
                                          ELSE IsOpenCaseIndex(i)
        /\ cases' = CaseResolved(i)
  BY DEF Activate
<1>5. /\ cases' \in Seq(FailureCase) /\ Len(cases') = n
      /\ \A j \in 1 .. n : OpenCase(cases'[j]) => OpenCase(cases[j]) /\ j # i
  BY <1>1, <1>4, ResolvedCases
<1>6. \A j \in 1 .. n : OpenCase(cases[j]) => j = n
  BY DEF AttemptsSound
<1>7. redelivery[a].priorCase \in {0, n}
  <2>1. redelivery[a].priorCase \in {0, redelivery[a].target - 1}
    BY DEF RedeliveriesSound
  <2> QED BY <1>1, <1>3, <2>1
<1>8. \A j \in 1 .. n : OpenCase(cases[j]) => j = i
  BY <1>1, <1>4, <1>6, <1>7 DEF IsOpenCaseIndex
<1> QED BY <1>3, <1>5, <1>8

LEMMA ActivateRecords ==
  ASSUME IInv, TokensSound, AttemptsSound, RedeliveriesSound,
         NEW a \in RedeliveryId, Open(a), Activate(a)
  PROVE  IInv' /\ TokensSound'
<1>1. TypeOK /\ CustodyTokensBound /\ deliveryToken \in [DeliveryToken -> Token]
  BY DEF IInv, TypeOK, RecordsTypeOK
<1>2. /\ TransitionAllowed("INTERNAL_SERVICE", status, status')
      /\ status' # "rider_assigned"
      /\ deliveryToken' = Revoked(deliveryToken)
      /\ UNCHANGED <<order, activeRider, version, custodian, pendingTo, pendingFrom,
                     assignments, pickupToken, custodyToken, returnToken, recipient,
                     custodyLog, attempts, unsecured>>
  BY DEF Activate, ServiceTransition
<1>3. Agreement' /\ status' \in Status
  BY <1>2, EdgeFrame
<1>4. deliveryToken' \in [DeliveryToken -> Token]
  BY <1>1, <1>2, RevokedTokens
<1>5. cases' \in Seq(FailureCase)
  BY ActivateCases
<1>6. IInv'
  BY <1>1, <1>2, <1>3, <1>4, <1>5, CustodyTokensFrame DEF IInv, TypeOK, RecordsTypeOK
<1>7. ActiveIn(deliveryToken') = {}
  BY <1>1, <1>2, NothingActive
<1>8. CustodyTokenNamesTransfer'
  BY <1>2, TransferFrame
<1> QED BY <1>6, <1>7, <1>8 DEF TokensSound, ReceiverIsCurrent, ActiveIn

LEMMA ActivateRedeliveries ==
  ASSUME IInv, AttemptsSound, RedeliveriesSound,
         NEW a \in RedeliveryId, Open(a), Activate(a)
  PROVE  /\ RedeliveriesSound'
         /\ Activated' = Activated \cup {a} /\ a \notin Activated
         /\ redelivery'[a].target = Len(cases) + 1
<1> DEFINE n == Len(cases)
           row == [redelivery[a] EXCEPT !.status = "ACTIVATED"]
<1>1. /\ redelivery' = [redelivery EXCEPT ![a] = row]
      /\ redelivery \in [RedeliveryId -> RedeliveryRow]
      /\ status' = "in_transit"
  BY DEF Activate, ServiceTransition, RedeliveriesSound
<1>2. /\ row \in RedeliveryRow /\ row.status = "ACTIVATED"
      /\ row.target = redelivery[a].target
  BY <1>1 DEF RedeliveryRow, RedeliveryStatus
<1>3. row.target = n + 1 /\ n < MaxAttempts /\ Len(cases') = n
      /\ n \in Nat /\ MaxAttempts \in Nat \ {0}
  BY <1>2, Rows, ActivateCases
<1>4. \A b \in Activated : redelivery[b].target \in 1 .. MaxAttempts /\ redelivery[b].target <= n + 1
  BY DEF RedeliveriesSound
<1>5. \A b \in RedeliveryId : Open(b) =>
        /\ redelivery[b].target \in 1 .. n + 1
        /\ redelivery[b].priorCase \in {0, redelivery[b].target - 1}
  BY DEF RedeliveriesSound
<1> HIDE DEF row, n
<1>6. redelivery' \in [RedeliveryId -> RedeliveryRow] /\ redelivery'[a] = row
      /\ \A b \in RedeliveryId \ {a} : redelivery'[b] = redelivery[b]
  BY <1>1, <1>2
<1>7. a \notin Activated
  BY DEF Open, Activated
<1>8. Activated' = Activated \cup {a}
  BY <1>2, <1>6, <1>7 DEF Activated
<1>9. \A b \in Activated' : redelivery'[b].target \in 1 .. MaxAttempts /\ redelivery'[b].target <= n + 1
  <2>1. row.target \in 1 .. MaxAttempts /\ row.target <= n + 1
    BY <1>3
  <2>2. \A b \in Activated : b # a /\ b \in RedeliveryId
    BY <1>7 DEF Activated
  <2> QED BY <1>4, <1>6, <1>8, <2>1, <2>2
<1>10. \A b \in RedeliveryId : Open(b)' =>
         /\ redelivery'[b].target \in 1 .. n + 1
         /\ redelivery'[b].priorCase \in {0, redelivery'[b].target - 1}
  <2> SUFFICES ASSUME NEW b \in RedeliveryId, Open(b)'
               PROVE  /\ redelivery'[b].target \in 1 .. n + 1
                      /\ redelivery'[b].priorCase \in {0, redelivery'[b].target - 1}
    OBVIOUS
  <2>1. b # a
    BY <1>2, <1>6 DEF Open
  <2>2. redelivery'[b] = redelivery[b] /\ Open(b)
    BY <1>6, <2>1 DEF Open
  <2> QED BY <1>5, <2>2
<1>11. IsFiniteSet(Activated')
  BY <1>8, FS_AddElement DEF RedeliveriesSound
<1>12. \A b \in Activated' : redelivery'[b].target <= redelivery'[a].target
  BY <1>3, <1>6, <1>9
<1>13. RedeliveriesSound'
  <2>1. a \in Activated' /\ status' \notin Early
    BY <1>1, <1>8 DEF Early, InShop
  <2>2. n = Len(cases')
    BY <1>3
  <2> QED BY <1>6, <1>9, <1>10, <1>11, <1>12, <2>1, <2>2 DEF RedeliveriesSound
<1> QED BY <1>3, <1>6, <1>7, <1>8, <1>13 DEF n

LEMMA ActivateRest ==
  ASSUME IInv, AttemptsSound, RedeliveriesSound, BudgetSound,
         NEW a \in RedeliveryId, Open(a), Activate(a)
  PROVE  AttemptsSound' /\ BudgetSound'
<1> DEFINE n == Len(cases)
<1>1. /\ UNCHANGED <<attempts, version, unsecured>>
      /\ status = "delivery_failed" /\ status' = "in_transit"
  BY DEF Activate, Eligible, ServiceTransition
<1>2. /\ n \in Nat /\ n < MaxAttempts /\ MaxAttempts \in Nat \ {0}
      /\ cases' \in Seq(FailureCase) /\ Len(cases') = n
      /\ \A j \in 1 .. n : ~ OpenCase(cases'[j])
  BY Rows, ActivateCases
<1>3. DOMAIN cases' = 1 .. n
  BY <1>2, LenProperties
<1>4. AttemptsSound'
  <2>1. \A e \in attempts : e.outcome # "SUCCESSFUL_HANDOFF"
    BY <1>1 DEF AttemptsSound
  <2> QED BY <1>1, <1>2, <2>1 DEF AttemptsSound, Failed, Early, InShop
<1>5. /\ Activated' = Activated \cup {a} /\ a \notin Activated
      /\ redelivery'[a].target = n + 1
  BY ActivateRedeliveries
<1>6. BudgetSound'
  <2>1. unsecured = {} => n = Cardinality(Activated) + 1
    BY <1>1 DEF BudgetSound, Untreated
  <2>2. Cardinality(Activated') = Cardinality(Activated) + 1 /\ Cardinality(Activated) \in Nat
    BY <1>5, FS_AddElement, FS_CardinalityType DEF RedeliveriesSound
  <2>3. NoOpenCase'
    BY <1>2, <1>3 DEF NoOpenCase
  <2>4. \E b \in Activated' : redelivery'[b].target = n + 1
    BY <1>5
  <2> HIDE DEF n
  <2>5. n = Len(cases')
    BY <1>2
  <2>6. unsecured = {} => n = Cardinality(Activated') + 0
    BY <2>1, <2>2
  <2> QED BY <1>1, <1>2, <2>3, <2>4, <2>5, <2>6 DEF BudgetSound, Untreated
<1> QED BY <1>4, <1>6

-----------------------------------------------------------------------------
(***************************************************************************)
(* The steps that only write a row of an authorization or of a recovery.   *)
(***************************************************************************)

(* A request, its confirmation alone, its end and the clock.               *)
PaperStep(a) ==
  \/ RequestRedelivery(a) \/ ConfirmOnly(a) \/ CancelRedelivery(a)
  \/ ExpireRedelivery(a) \/ WindowEnds(a)

LEMMA RowWritten ==
  ASSUME RedeliveriesSound, NEW a \in RedeliveryId, Open(a), NEW row \in RedeliveryRow,
         row.status # "ACTIVATED", row.target = redelivery[a].target,
         row.priorCase = redelivery[a].priorCase,
         redelivery' = [redelivery EXCEPT ![a] = row]
  PROVE  /\ SameActivated
         /\ redelivery' \in [RedeliveryId -> RedeliveryRow]
         /\ \A b \in RedeliveryId : Open(b)' =>
              /\ redelivery'[b].target \in 1 .. Len(cases) + 1
              /\ redelivery'[b].priorCase \in {0, redelivery'[b].target - 1}
<1>1. redelivery \in [RedeliveryId -> RedeliveryRow]
  BY DEF RedeliveriesSound
<1>2. /\ redelivery' \in [RedeliveryId -> RedeliveryRow] /\ redelivery'[a] = row
      /\ \A b \in RedeliveryId \ {a} : redelivery'[b] = redelivery[b]
  BY <1>1
<1>3. \A b \in RedeliveryId : redelivery'[b].target = redelivery[b].target
                              /\ redelivery'[b].priorCase = redelivery[b].priorCase
  BY <1>2
<1>4. \A b \in RedeliveryId : Open(b)' => Open(b)
  BY <1>2 DEF Open
<1>5. Activated' = Activated
  BY <1>2 DEF Activated, Open
<1>6. \A b \in Activated : b \in RedeliveryId
  BY DEF Activated
<1> QED BY <1>2, <1>3, <1>4, <1>5, <1>6 DEF SameActivated, RedeliveriesSound

LEMMA RequestWritten ==
  ASSUME IInv, AttemptsSound, RedeliveriesSound, NEW a \in RedeliveryId, RequestRedelivery(a)
  PROVE  /\ SameActivated
         /\ redelivery' \in [RedeliveryId -> RedeliveryRow]
         /\ \A b \in RedeliveryId : Open(b)' =>
              /\ redelivery'[b].target \in 1 .. Len(cases) + 1
              /\ redelivery'[b].priorCase \in {0, redelivery'[b].target - 1}
<1> DEFINE n == Len(cases)
<1>1. /\ redelivery \in [RedeliveryId -> RedeliveryRow]
      /\ n \in Nat /\ DOMAIN cases = 1 .. n
      /\ FailedCount = n
  BY Rows DEF RedeliveriesSound, FailedCount, AttemptsSound, Failed
<1>2. PICK i \in 0 .. n :
        /\ IsOpenCaseIndex(i)
        /\ redelivery' = [b \in RedeliveryId |->
             IF b = a THEN [status |-> "REQUESTED", target |-> FailedCount + 1,
                            priorCase |-> i, late |-> FALSE]
             ELSE IF Open(b) /\ redelivery[b].late
               THEN [redelivery[b] EXCEPT !.status = "EXPIRED"]
             ELSE redelivery[b]]
  BY DEF RequestRedelivery
<1>3. i \in {0, n}
  BY <1>1, <1>2 DEF IsOpenCaseIndex, AttemptsSound
<1>4. n \in Nat
  BY <1>1
<1> HIDE DEF n
<1>5. i \in Nat /\ n + 1 \in Nat
  BY <1>3, <1>4
<1> DEFINE row == [status |-> "REQUESTED", target |-> n + 1, priorCase |-> i, late |-> FALSE]
<1>6. row \in RedeliveryRow /\ row.status = "REQUESTED" /\ row.target = n + 1 /\ row.priorCase = i
  BY <1>5 DEF RedeliveryRow, RedeliveryStatus
<1>7. redelivery'[a] = row
  BY <1>1, <1>2
<1> HIDE DEF row
<1>8. \A b \in RedeliveryId \ {a} :
        /\ redelivery'[b] \in RedeliveryRow
        /\ redelivery'[b].target = redelivery[b].target
        /\ redelivery'[b].priorCase = redelivery[b].priorCase
        /\ \/ redelivery'[b].status = redelivery[b].status
           \/ Open(b) /\ redelivery'[b].status = "EXPIRED"
  <2> SUFFICES ASSUME NEW b \in RedeliveryId \ {a}
               PROVE  /\ redelivery'[b] \in RedeliveryRow
                      /\ redelivery'[b].target = redelivery[b].target
                      /\ redelivery'[b].priorCase = redelivery[b].priorCase
                      /\ \/ redelivery'[b].status = redelivery[b].status
                         \/ Open(b) /\ redelivery'[b].status = "EXPIRED"
    OBVIOUS
  <2>1. CASE Open(b) /\ redelivery[b].late
    <3>1. redelivery'[b] = [redelivery[b] EXCEPT !.status = "EXPIRED"]
      BY <1>2, <2>1
    <3> QED BY <1>1, <2>1, <3>1 DEF RedeliveryRow, RedeliveryStatus
  <2>2. CASE ~ (Open(b) /\ redelivery[b].late)
    <3>1. redelivery'[b] = redelivery[b]
      BY <1>2, <2>2
    <3> QED BY <1>1, <3>1
  <2> QED BY <2>1, <2>2
<1>9. redelivery' \in [RedeliveryId -> RedeliveryRow]
  <2>1. \A b \in RedeliveryId : redelivery'[b] \in RedeliveryRow
    BY <1>6, <1>7, <1>8
  <2>2. DOMAIN redelivery' = RedeliveryId
    BY <1>2
  <2> DEFINE f == redelivery'
  <2>3. f = [b \in RedeliveryId |-> f[b]]
    BY <1>2
  <2> QED BY <2>1, <2>2, <2>3
<1>10. Activated' = Activated
  <2>1. a \notin Activated
    BY DEF RequestRedelivery, Activated
  <2>2. \A b \in RedeliveryId : redelivery'[b].status = "ACTIVATED" <=> redelivery[b].status = "ACTIVATED"
    BY <1>6, <1>7, <1>8, <2>1 DEF Activated, Open
  <2> QED BY <2>2 DEF Activated
<1>11. SameActivated
  <2>1. \A b \in Activated : b \in RedeliveryId \ {a}
    BY DEF RequestRedelivery, Activated
  <2> QED BY <1>8, <1>10, <2>1 DEF SameActivated
<1>12. ASSUME NEW b \in RedeliveryId, Open(b)'
       PROVE  /\ redelivery'[b].target \in 1 .. n + 1
              /\ redelivery'[b].priorCase \in {0, redelivery'[b].target - 1}
  <2>1. CASE b = a
    <3>1. redelivery'[b].target = n + 1 /\ redelivery'[b].priorCase \in {0, n}
      BY <1>3, <1>6, <1>7, <2>1
    <3> QED BY <1>4, <3>1
  <2>2. CASE b # a
    <3>1. Open(b)
      BY <1>8, <1>12, <2>2 DEF Open
    <3>2. /\ redelivery[b].target \in 1 .. n + 1
          /\ redelivery[b].priorCase \in {0, redelivery[b].target - 1}
      BY <3>1 DEF RedeliveriesSound, n
    <3> QED BY <1>8, <2>2, <3>2
  <2> QED BY <2>1, <2>2
<1> QED BY <1>9, <1>11, <1>12 DEF n

LEMMA PaperWritten ==
  ASSUME IInv, AttemptsSound, RedeliveriesSound, NEW a \in RedeliveryId, PaperStep(a)
  PROVE  /\ SameActivated
         /\ redelivery' \in [RedeliveryId -> RedeliveryRow]
         /\ \A b \in RedeliveryId : Open(b)' =>
              /\ redelivery'[b].target \in 1 .. Len(cases) + 1
              /\ redelivery'[b].priorCase \in {0, redelivery'[b].target - 1}
<1>1. redelivery[a] \in RedeliveryRow
  BY DEF RedeliveriesSound
<1>2. CASE RequestRedelivery(a)
  BY <1>2, RequestWritten
<1>3. CASE ~ RequestRedelivery(a)
  <2>1. PICK row : /\ \/ \E s \in {"CONFIRMED", "CANCELLED", "EXPIRED"} :
                            row = [redelivery[a] EXCEPT !.status = s]
                      \/ row = [redelivery[a] EXCEPT !.late = TRUE]
                   /\ redelivery' = [redelivery EXCEPT ![a] = row]
    BY <1>3 DEF PaperStep, ConfirmOnly, CancelRedelivery, ExpireRedelivery, WindowEnds
  <2>2. Open(a)
    BY <1>3 DEF PaperStep, ConfirmOnly, CancelRedelivery, ExpireRedelivery, WindowEnds, Open
  <2>3. /\ row \in RedeliveryRow /\ row.status # "ACTIVATED"
        /\ row.target = redelivery[a].target
        /\ row.priorCase = redelivery[a].priorCase
    BY <1>1, <2>1, <2>2 DEF RedeliveryRow, RedeliveryStatus, Open
  <2> QED BY <2>1, <2>2, <2>3, RowWritten
<1> QED BY <1>2, <1>3

(* A recovery in force keeps its trigger, and an ordinary one is opened    *)
(* only where no redelivery was activated.                                 *)
LEMMA RecoveryWritten ==
  ASSUME recovery \in [RecoveryId -> RecoveryRow], RecoveryNext, ExclusiveAuthority
  PROVE  /\ recovery' \in [RecoveryId -> RecoveryRow]
         /\ ExclusiveAuthority'
         /\ UNCHANGED redelivery
<1>1. PICK v \in RecoveryId :
        \/ \E trigger \in Trigger : OpenRecovery(v, trigger)
        \/ StartInvestigation(v)
        \/ \E d \in RecoveryDisposition \ {"NONE"} : SelectRecoveryDisposition(v, d)
        \/ ClearPendingTransfer(v) \/ CloseRecovery(v) \/ CancelRecovery(v)
  BY DEF RecoveryNext
<1>2. UNCHANGED redelivery /\ ActivatedTargets' = ActivatedTargets
  BY <1>1 DEF OpenRecovery, StartInvestigation, SelectRecoveryDisposition,
              ClearPendingTransfer, CloseRecovery, CancelRecovery, ActivatedTargets
<1>3. recovery[v] \in RecoveryRow
  OBVIOUS
<1>4. PICK row \in RecoveryRow :
        /\ recovery' = [recovery EXCEPT ![v] = row]
        /\ \/ row.trigger \in OrdinaryTrigger => ActivatedTargets = {}
           \/ /\ row.trigger = recovery[v].trigger
              /\ row.status \in ActiveRecoveryStatus => recovery[v].status \in ActiveRecoveryStatus
  <2>1. ASSUME NEW trigger \in Trigger, OpenRecovery(v, trigger)
        PROVE  \E row \in RecoveryRow :
                 /\ recovery' = [recovery EXCEPT ![v] = row]
                 /\ row.trigger \in OrdinaryTrigger => ActivatedTargets = {}
    <3> DEFINE row == [status |-> "OPEN", trigger |-> trigger, disposition |-> "NONE",
                       cleared |-> FALSE]
    <3>1. row \in RecoveryRow /\ row.trigger = trigger
      BY DEF RecoveryRow, RecoveryStatus, RecoveryDisposition
    <3>2. /\ recovery' = [recovery EXCEPT ![v] = row]
          /\ trigger \in OrdinaryTrigger => ActivatedTargets = {}
      BY <2>1 DEF OpenRecovery, RedeliveryBlocks
    <3> HIDE DEF row
    <3> QED BY <3>1, <3>2
  <2>2. ASSUME ~ \E trigger \in Trigger : OpenRecovery(v, trigger)
        PROVE  \E row \in RecoveryRow :
                 /\ recovery' = [recovery EXCEPT ![v] = row]
                 /\ row.trigger = recovery[v].trigger
                 /\ row.status \in ActiveRecoveryStatus => recovery[v].status \in ActiveRecoveryStatus
    <3>1. CASE StartInvestigation(v)
      <4> DEFINE row == [recovery[v] EXCEPT !.status = "INVESTIGATING"]
      <4>1. recovery' = [recovery EXCEPT ![v] = row] /\ recovery[v].status = "OPEN"
        BY <3>1 DEF StartInvestigation
      <4>2. row \in RecoveryRow /\ row.trigger = recovery[v].trigger
        BY <1>3 DEF RecoveryRow, RecoveryStatus
      <4> HIDE DEF row
      <4> QED BY <4>1, <4>2 DEF ActiveRecoveryStatus
    <3>2. ASSUME NEW d \in RecoveryDisposition \ {"NONE"}, SelectRecoveryDisposition(v, d)
          PROVE  \E row \in RecoveryRow :
                   /\ recovery' = [recovery EXCEPT ![v] = row]
                   /\ row.trigger = recovery[v].trigger
                   /\ row.status \in ActiveRecoveryStatus => recovery[v].status \in ActiveRecoveryStatus
      <4> DEFINE row == [recovery[v] EXCEPT !.status = "DISPOSITION_SELECTED", !.disposition = d]
      <4>1. /\ recovery' = [recovery EXCEPT ![v] = row]
            /\ recovery[v].status \in ActiveRecoveryStatus
        BY <3>2 DEF SelectRecoveryDisposition, ActiveRecoveryStatus
      <4>2. row \in RecoveryRow /\ row.trigger = recovery[v].trigger
        BY <1>3 DEF RecoveryRow, RecoveryStatus
      <4> HIDE DEF row
      <4> QED BY <4>1, <4>2
    <3>3. CASE ClearPendingTransfer(v)
      <4> DEFINE row == [recovery[v] EXCEPT !.cleared = TRUE]
      <4>1. /\ recovery' = [recovery EXCEPT ![v] = row]
            /\ recovery[v].status \in ActiveRecoveryStatus
        BY <3>3 DEF ClearPendingTransfer
      <4>2. row \in RecoveryRow /\ row.trigger = recovery[v].trigger
        BY <1>3 DEF RecoveryRow
      <4> HIDE DEF row
      <4> QED BY <4>1, <4>2
    <3>4. ASSUME NEW s \in {"CLOSED", "CANCELLED"}, recovery' = [recovery EXCEPT ![v].status = s]
          PROVE  \E row \in RecoveryRow :
                   /\ recovery' = [recovery EXCEPT ![v] = row]
                   /\ row.trigger = recovery[v].trigger
                   /\ row.status \in ActiveRecoveryStatus => recovery[v].status \in ActiveRecoveryStatus
      <4> DEFINE row == [recovery[v] EXCEPT !.status = s]
      <4>1. recovery' = [recovery EXCEPT ![v] = row]
        BY <3>4
      <4>2. row \in RecoveryRow /\ row.trigger = recovery[v].trigger /\ row.status = s
        BY <1>3 DEF RecoveryRow, RecoveryStatus
      <4> HIDE DEF row
      <4> QED BY <4>1, <4>2 DEF ActiveRecoveryStatus
    <3> QED
      BY <1>1, <2>2, <3>1, <3>2, <3>3, <3>4 DEF CloseRecovery, CancelRecovery
  <2> QED BY <2>1, <2>2
<1>5. /\ recovery' \in [RecoveryId -> RecoveryRow] /\ recovery'[v] = row
      /\ \A u \in RecoveryId \ {v} : recovery'[u] = recovery[u]
  BY <1>4
<1>6. ASSUME NEW u \in RecoveryId, recovery'[u].status \in ActiveRecoveryStatus,
             recovery'[u].trigger \in OrdinaryTrigger
      PROVE  ActivatedTargets = {}
  <2>1. CASE u # v
    BY <1>5, <1>6, <2>1 DEF ExclusiveAuthority
  <2>2. CASE u = v
    BY <1>4, <1>5, <1>6, <2>2 DEF ExclusiveAuthority
  <2> QED BY <2>1, <2>2
<1> QED BY <1>2, <1>5, <1>6 DEF ExclusiveAuthority

-----------------------------------------------------------------------------
(***************************************************************************)
(* The invariant.                                                          *)
(***************************************************************************)

LEMMA SameTargets ==
  ASSUME SameActivated, ExclusiveAuthority, UNCHANGED recovery
  PROVE  ExclusiveAuthority'
<1>1. ActivatedTargets = {} <=> Activated = {}
  BY DEF ActivatedTargets, Activated
<1>2. ActivatedTargets' = {} <=> Activated' = {}
  BY DEF ActivatedTargets, Activated
<1> QED BY <1>1, <1>2 DEF SameActivated, ExclusiveAuthority

LEMMA InitSound == RecoveryInit => RInv
<1> SUFFICES ASSUME RecoveryInit PROVE RInv
  OBVIOUS
<1>1. IInv /\ MaxAttempts \in Nat \ {0}
  BY InitInv, BoundAssumption DEF RecoveryInit
<1>2. TokensSound
  BY DEF RecoveryInit, RecordsInit, TokensSound, ReceiverIsCurrent, CustodyTokenNamesTransfer,
         ActiveIn, NoToken
<1>3. recovery \in [RecoveryId -> RecoveryRow] /\ redelivery \in [RedeliveryId -> RedeliveryRow]
  BY DEF RecoveryInit, NoRecovery, RecoveryRow, RecoveryStatus, RecoveryDisposition,
         RedeliveryRow, RedeliveryStatus
<1>4. ExclusiveAuthority
  BY DEF RecoveryInit, NoRecovery, ExclusiveAuthority, ActiveRecoveryStatus
<1>5. /\ attempts = {} /\ cases = <<>> /\ Len(cases) = 0 /\ status = "pending"
      /\ unsecured = {} /\ Failed = {} /\ Activated = {}
      /\ \A a \in RedeliveryId : ~ Open(a)
  BY EmptySeq DEF RecoveryInit, RecordsInit, Failed, Activated, Open
<1>6. IsFiniteSet({}) /\ Cardinality({}) = 0
  BY FS_EmptySet
<1>7. AttemptsSound
  BY <1>1, <1>5, <1>6 DEF AttemptsSound
<1>8. RedeliveriesSound
  BY <1>3, <1>5, <1>6 DEF RedeliveriesSound
<1>9. BudgetSound
  BY <1>1, <1>5, <1>6 DEF BudgetSound, Untreated
<1> QED BY <1>1, <1>2, <1>3, <1>4, <1>7, <1>8, <1>9 DEF RInv

(* A calm step that leaves the activated authorizations as they are.       *)
LEMMA CalmRest ==
  ASSUME RInv, IInv', Calm, SameActivated,
         redelivery' \in [RedeliveryId -> RedeliveryRow],
         \A a \in RedeliveryId : Open(a)' =>
           /\ redelivery'[a].target \in 1 .. Len(cases) + 1
           /\ redelivery'[a].priorCase \in {0, redelivery'[a].target - 1}
  PROVE  AttemptsSound' /\ RedeliveriesSound' /\ BudgetSound'
<1>1. version' \in Nat /\ cases' \in Seq(FailureCase)
  BY DEF IInv, TypeOK, RecordsTypeOK
<1> QED BY <1>1, CalmAttempts, CalmRedeliveries, CalmBudget DEF RInv

LEMMA RecordsStep ==
  ASSUME RInv, FulfillmentStep(LatestTarget), UNCHANGED <<redelivery, recovery>>
  PROVE  RInv'
<1>1. LatestTarget \in Nat
  BY Rows, Latest DEF RInv
<1>2. IInv' /\ TokensSound'
  BY <1>1, StepInv, StepTokens DEF RInv
<1>3. SameActivated
  BY DEF SameActivated, Activated
<1>4. ExclusiveAuthority' /\ recovery' \in [RecoveryId -> RecoveryRow]
  BY <1>3, SameTargets DEF RInv
<1>5. AttemptsSound' /\ RedeliveriesSound' /\ BudgetSound'
  <2>1. CASE Calm
    <3>1. \A a \in RedeliveryId : Open(a)' = Open(a)
      BY DEF Open
    <3> QED BY <1>2, <1>3, <2>1, <3>1, CalmRest DEF RInv, RedeliveriesSound
  <2>2. CASE ReportFailure
    BY <2>2, ReportAttempts, ReportRest DEF RInv
  <2>3. CASE \E t \in DeliveryToken : ConfirmDelivery(t, LatestTarget)
    BY <2>3, DeliveredRest DEF RInv
  <2> QED BY <1>1, <2>1, <2>2, <2>3, Classified DEF RInv
<1> QED BY <1>2, <1>4, <1>5 DEF RInv

LEMMA UnchangedRecords ==
  ASSUME RInv, UNCHANGED records
  PROVE  IInv' /\ TokensSound' /\ Calm
<1>1. IInv' /\ TokensSound'
  BY StutterInv, TokensFrame DEF RInv, records
<1>2. version <= version'
  BY Rows DEF RInv, records
<1> QED BY <1>1, <1>2, CalmEdge DEF records

LEMMA RedeliveryStep ==
  ASSUME RInv, RedeliveryNext
  PROVE  RInv'
<1>1. PICK a \in RedeliveryId : PaperStep(a) \/ (Open(a) /\ Activate(a))
  BY DEF RedeliveryNext, PaperStep, ConfirmRedelivery, AdminActivate
<1>2. CASE PaperStep(a)
  <2>1. UNCHANGED <<records, recovery>>
    BY <1>2 DEF PaperStep, RequestRedelivery, ConfirmOnly, CancelRedelivery, ExpireRedelivery,
                WindowEnds
  <2>2. /\ SameActivated
        /\ redelivery' \in [RedeliveryId -> RedeliveryRow]
        /\ \A b \in RedeliveryId : Open(b)' =>
             /\ redelivery'[b].target \in 1 .. Len(cases) + 1
             /\ redelivery'[b].priorCase \in {0, redelivery'[b].target - 1}
    BY <1>2, PaperWritten DEF RInv
  <2>3. IInv' /\ TokensSound' /\ Calm
    BY <2>1, UnchangedRecords
  <2>4. AttemptsSound' /\ RedeliveriesSound' /\ BudgetSound'
    BY <2>2, <2>3, CalmRest
  <2>5. ExclusiveAuthority' /\ recovery' \in [RecoveryId -> RecoveryRow]
    BY <2>1, <2>2, SameTargets DEF RInv
  <2> QED BY <2>3, <2>4, <2>5 DEF RInv
<1>3. CASE Open(a) /\ Activate(a)
  <2>1. IInv' /\ TokensSound'
    BY <1>3, ActivateRecords DEF RInv
  <2>2. AttemptsSound' /\ RedeliveriesSound' /\ BudgetSound'
    BY <1>3, ActivateRedeliveries, ActivateRest DEF RInv
  <2>3. UNCHANGED recovery /\ NoActiveRecovery
    BY <1>3 DEF Activate
  <2>4. ExclusiveAuthority' /\ recovery' \in [RecoveryId -> RecoveryRow]
    BY <2>3 DEF ExclusiveAuthority, NoActiveRecovery, RInv
  <2> QED BY <2>1, <2>2, <2>4 DEF RInv
<1> QED BY <1>1, <1>2, <1>3

LEMMA ClearedRecords ==
  ASSUME RInv, NEW v \in RecoveryId, ClearPendingTransfer(v)
  PROVE  IInv' /\ TokensSound' /\ Calm
<1>1. /\ pendingTo' = None /\ pendingFrom' = 0
      /\ UNCHANGED <<order, status, activeRider, version, custodian, assignments, tokenVars,
                     recipient, custodyLog, failureVars, unsecured>>
  BY DEF ClearPendingTransfer, IntentCleared
<1>2. Agreement'
  BY <1>1 DEF RInv, IInv, Agreement, AssignmentAgrees, CustodianAgrees, LifecycleAgrees, InShop
<1>3. TypeOK'
  BY <1>1 DEF RInv, IInv, TypeOK, RecordsTypeOK, tokenVars, failureVars
<1>4. CustodyTokensBound'
  BY <1>1, CustodyTokensFrame DEF RInv, IInv, tokenVars
<1>5. TokensSound'
  BY <1>1 DEF RInv, TokensSound, ReceiverIsCurrent, CustodyTokenNamesTransfer, ActiveIn,
              ActiveAuthorizations, tokenVars
<1>6. Calm
  <2>1. version <= version'
    BY <1>1, Rows DEF RInv
  <2> QED BY <1>1, <2>1, CalmEdge DEF failureVars
<1> QED BY <1>2, <1>3, <1>4, <1>5, <1>6 DEF IInv

LEMMA RecoveryStep ==
  ASSUME RInv, RecoveryNext
  PROVE  RInv'
<1>1. IInv' /\ TokensSound' /\ Calm
  <2>1. CASE UNCHANGED records
    BY <2>1, UnchangedRecords
  <2>2. CASE \E v \in RecoveryId : ClearPendingTransfer(v)
    BY <2>2, ClearedRecords
  <2> QED
    BY <2>1, <2>2 DEF RecoveryNext, OpenRecovery, StartInvestigation,
                      SelectRecoveryDisposition, CloseRecovery, CancelRecovery
<1>2. /\ recovery' \in [RecoveryId -> RecoveryRow]
      /\ ExclusiveAuthority'
      /\ UNCHANGED redelivery
  BY RecoveryWritten DEF RInv
<1>3. SameActivated /\ \A a \in RedeliveryId : Open(a)' = Open(a)
  BY <1>2 DEF SameActivated, Activated, Open
<1>4. AttemptsSound' /\ RedeliveriesSound' /\ BudgetSound'
  BY <1>1, <1>2, <1>3, CalmRest DEF RInv, RedeliveriesSound
<1> QED BY <1>1, <1>2, <1>4 DEF RInv

LEMMA Inductive == DeliveryRecoverySpec => []RInv
<1>1. RInv /\ [DeliveryRecoveryNext]_vars => RInv'
  <2>1. RInv /\ DeliveryRecoveryNext => RInv'
    BY RecordsStep, RedeliveryStep, RecoveryStep DEF DeliveryRecoveryNext
  <2>2. RInv /\ UNCHANGED vars => RInv'
    <3> SUFFICES ASSUME RInv, UNCHANGED vars PROVE RInv'
      OBVIOUS
    <3>1. UNCHANGED records /\ UNCHANGED <<redelivery, recovery>>
      BY DEF vars
    <3>2. IInv' /\ TokensSound' /\ Calm
      BY <3>1, UnchangedRecords
    <3>3. SameActivated /\ \A a \in RedeliveryId : Open(a)' = Open(a)
      BY <3>1 DEF SameActivated, Activated, Open
    <3>4. AttemptsSound' /\ RedeliveriesSound' /\ BudgetSound'
      BY <3>1, <3>2, <3>3, CalmRest DEF RInv, RedeliveriesSound
    <3>5. ExclusiveAuthority'
      BY <3>1, <3>3, SameTargets DEF RInv
    <3> QED BY <3>1, <3>2, <3>4, <3>5 DEF RInv
  <2> QED BY <2>1, <2>2
<1> QED BY InitSound, <1>1, PTL DEF DeliveryRecoverySpec

-----------------------------------------------------------------------------
(***************************************************************************)
(* Theorems.                                                               *)
(***************************************************************************)

(* The rows of the three parts keep their types together.                  *)
THEOREM RecoveryTyped == DeliveryRecoverySpec => []RecoveryTypeOK
<1>1. RInv => RecoveryTypeOK
  BY DEF RInv, IInv, TypeOK, RedeliveriesSound, RecoveryTypeOK
<1> QED BY <1>1, Inductive, PTL

(* The custodian and the pending transfer agree although a recovery may    *)
(* take the transfer back, and no capability survives that which would     *)
(* complete a later one.                                                   *)
THEOREM RecoveredCustody ==
  DeliveryRecoverySpec => [](CustodianAgrees /\ CustodyTokenNamesTransfer)
<1>1. RInv => CustodianAgrees /\ CustodyTokenNamesTransfer
  BY DEF RInv, IInv, Agreement, TokensSound
<1> QED BY <1>1, Inductive, PTL

(* No recovery with an ordinary trigger is in force beside an activated    *)
(* redelivery: each looks for the other before it takes effect.            *)
THEOREM Exclusive == DeliveryRecoverySpec => []ExclusiveAuthority
<1>1. RInv => ExclusiveAuthority
  BY DEF RInv
<1> QED BY <1>1, Inductive, PTL

(* Failures are numbered 1, 2, ... with one case each, and only the latest *)
(* is under treatment.                                                     *)
THEOREM Numbered == DeliveryRecoverySpec => []AttemptsNumbered
<1>1. RInv => AttemptsNumbered
  <2> SUFFICES ASSUME RInv PROVE AttemptsNumbered
    OBVIOUS
  <2>1. DOMAIN cases = 1 .. Len(cases)
    BY Rows DEF RInv
  <2> QED BY <2>1 DEF RInv, AttemptsSound, Failed, AttemptsNumbered
<1> QED BY <1>1, Inductive, PTL

(* Nobody tries more than MaxAttempts times, whoever requests, activates,  *)
(* reports and recovers, unless the generic API put the order back.        *)
THEOREM Ceiling == DeliveryRecoverySpec => []AttemptCeiling
<1>1. RInv => AttemptCeiling
  <2> SUFFICES ASSUME RInv, Retry \notin unsecured, NEW a \in attempts
               PROVE  a.number \in 1 .. MaxAttempts
    BY DEF AttemptCeiling, Retry
  <2>1. Len(cases) <= MaxAttempts /\ Len(cases) \in Nat /\ MaxAttempts \in Nat
    BY Rows DEF RInv, BudgetSound
  <2>2. a.number \in 1 .. Len(cases) \/ a.number \in 1 .. MaxAttempts
    BY Numbers DEF RInv
  <2> QED BY <2>1, <2>2
<1> QED BY <1>1, Inductive, PTL

(* On the road the next number is free and no case is under treatment, so  *)
(* neither the delivery nor a report fails on a unique index.              *)
THEOREM Recordable == DeliveryRecoverySpec => []NextAttemptRecordable
<1>1. RInv => NextAttemptRecordable
  <2> SUFFICES ASSUME RInv, status = "in_transit", unsecured = {}
               PROVE  /\ NoOpenCase
                      /\ LatestTarget # 0 => /\ LatestTarget = FailedCount + 1
                                             /\ \A a \in attempts : a.number < LatestTarget
    BY DEF NextAttemptRecordable
  <2>1. Len(cases) \in Nat /\ FailedCount = Len(cases)
    BY Rows DEF RInv, AttemptsSound, FailedCount, Failed
  <2>2. /\ NoOpenCase
        /\ Activated # {} => \E a \in Activated : redelivery[a].target = Len(cases) + 1
    BY DEF RInv, BudgetSound
  <2>3. ASSUME LatestTarget # 0 PROVE LatestTarget = Len(cases) + 1
    <3>1. Activated # {} /\ LatestTarget <= Len(cases) + 1 /\ LatestTarget \in Nat
      BY <2>1, <2>3, Latest DEF RInv
    <3>2. Len(cases) + 1 <= LatestTarget
      BY <2>1, <2>2, <3>1, Latest DEF RInv
    <3> QED BY <2>1, <3>1, <3>2
  <2>4. \A a \in attempts : a.number \in 1 .. Len(cases)
    BY Numbers DEF RInv
  <2> QED BY <2>1, <2>2, <2>3, <2>4
<1> QED BY <1>1, Inductive, PTL

(* Every failure but the untreated one was followed by one activation, and *)
(* a delivery after a failure is on record as the next attempt.            *)
THEOREM Authorized == DeliveryRecoverySpec => []EveryRetryAuthorized
<1>1. RInv => EveryRetryAuthorized
  <2> SUFFICES ASSUME RInv PROVE EveryRetryAuthorized
    OBVIOUS
  <2>1. FailedCount = Len(cases) /\ Len(cases) \in Nat
    BY Rows DEF RInv, AttemptsSound, FailedCount, Failed
  <2> QED BY <2>1 DEF RInv, BudgetSound, Activated, Untreated, EveryRetryAuthorized
<1> QED BY <1>1, Inductive, PTL

-----------------------------------------------------------------------------
(***************************************************************************)
(* What the fulfillment promises, kept by the composed system.             *)
(***************************************************************************)

(* What a step of the composed system is to the fulfillment: one of its    *)
(* own steps, the return to the road by an activated redelivery, or        *)
(* nothing but the end of a pending transfer.                              *)
Resumed ==
  /\ status = "delivery_failed" /\ status' = "in_transit"
  /\ deliveryToken' = Revoked(deliveryToken)
  /\ UNCHANGED <<activeRider, version, custodian, assignments, pickupToken,
                 custodyToken, returnToken, custodyLog, attempts, unsecured>>

Beside ==
  UNCHANGED <<status, activeRider, version, custodian, assignments, tokenVars,
              custodyLog, attempts, unsecured>>

LEMMA ComposedStep ==
  ASSUME RInv, [DeliveryRecoveryNext]_vars
  PROVE  (LatestTarget \in Nat /\ FulfillmentStep(LatestTarget)) \/ Resumed \/ Beside
<1>1. LatestTarget \in Nat
  BY Rows, Latest DEF RInv
<1>2. ASSUME UNCHANGED records PROVE Beside
  BY <1>2 DEF records, Beside, tokenVars, failureVars
<1>3. CASE RedeliveryNext
  <2>1. PICK a \in RedeliveryId : PaperStep(a) \/ (Open(a) /\ Activate(a))
    BY <1>3 DEF RedeliveryNext, PaperStep, ConfirmRedelivery, AdminActivate
  <2>2. CASE PaperStep(a)
    <3>1. UNCHANGED records
      BY <2>2 DEF PaperStep, RequestRedelivery, ConfirmOnly, CancelRedelivery,
                  ExpireRedelivery, WindowEnds
    <3> QED BY <1>2, <3>1
  <2>3. CASE Activate(a)
    BY <2>3 DEF Activate, Eligible, ServiceTransition, Resumed
  <2> QED BY <2>1, <2>2, <2>3
<1>4. CASE RecoveryNext
  <2>1. CASE UNCHANGED records
    BY <1>2, <2>1
  <2>2. CASE \E v \in RecoveryId : ClearPendingTransfer(v)
    BY <2>2 DEF ClearPendingTransfer, Beside, failureVars
  <2> QED
    BY <1>4, <2>1, <2>2 DEF RecoveryNext, OpenRecovery, StartInvestigation,
                            SelectRecoveryDisposition, CloseRecovery, CancelRecovery
<1>5. CASE UNCHANGED vars
  BY <1>2, <1>5 DEF vars
<1> QED BY <1>1, <1>3, <1>4, <1>5 DEF DeliveryRecoveryNext

LEMMA ComposedLog ==
  ASSUME RInv, LogSound, CountSound, [DeliveryRecoveryNext]_vars
  PROVE  LogSound' /\ CountSound'
<1>1. IInv /\ deliveryToken \in [DeliveryToken -> Token]
  BY DEF RInv, IInv, TypeOK, RecordsTypeOK
<1>2. CASE LatestTarget \in Nat /\ FulfillmentStep(LatestTarget)
  BY <1>1, <1>2, StepLog, StepCount
<1>3. CASE Resumed
  <2>1. LogSound'
    BY <1>3, QuietLog DEF Resumed, Ended, MidPossession
  <2>2. ConsumedIn(deliveryToken') = ConsumedIn(deliveryToken)
    BY <1>1, <1>3, UnusedConsumed DEF Resumed
  <2>3. Unused
    BY <1>3, <2>2 DEF Resumed, Unused, Onward, BeforePickup, InShop
  <2> QED BY <2>1, <2>3, UnusedCount
<1>4. CASE Beside
  <2>1. LogSound'
    BY <1>4, QuietLog DEF Beside
  <2>2. Unused
    BY <1>4 DEF Beside, Unused, Onward, tokenVars
  <2> QED BY <2>1, <2>2, UnusedCount
<1> QED BY <1>2, <1>3, <1>4, ComposedStep

LEMMA ComposedInductive == DeliveryRecoverySpec => [](RInv /\ LogSound /\ CountSound)
<1>1. RecoveryInit => LogSound /\ CountSound
  BY InitLog, InitCount DEF RecoveryInit
<1> QED BY <1>1, ComposedLog, Inductive, PTL DEF DeliveryRecoverySpec

(* The evidence of the fulfillment survives what follows a failed          *)
(* delivery: the log stays one chain with at most one end, and the         *)
(* lifecycle ends as it says, however often the goods are sent out again.  *)
THEOREM RecoveredEvidence ==
  DeliveryRecoverySpec => [](ChainUnbroken /\ OutcomeEvidenced /\ HandedOverOnce)
<1>1. RInv /\ LogSound /\ CountSound => ChainUnbroken /\ OutcomeEvidenced /\ HandedOverOnce
  BY LogUnbroken, LogEvidenced, CountOnce DEF RInv
<1> QED BY <1>1, ComposedInductive, PTL

(* The rider in charge, the lifecycle and the person who may receive agree *)
(* beside redeliveries and recoveries as they do without them.             *)
THEOREM RecoveredAgreement ==
  DeliveryRecoverySpec => [](AssignmentAgrees /\ LifecycleAgrees /\ ReceiverIsCurrent)
<1>1. RInv => AssignmentAgrees /\ LifecycleAgrees /\ ReceiverIsCurrent
  BY DEF RInv, IInv, Agreement, TokensSound
<1> QED BY <1>1, Inductive, PTL

(* A redelivery or a recovery neither touches a finished fulfillment, nor  *)
(* moves the goods on paper, nor changes the rider under a version.        *)
THEOREM RecoveredSteps ==
  DeliveryRecoverySpec => TerminalFrozen /\ RiderChangesWithVersion /\ CustodyMovesWithEvidence
<1>1. ASSUME RInv, [DeliveryRecoveryNext]_vars
      PROVE  /\ (status \in Terminal) =>
                  (UNCHANGED <<status, activeRider, version, custodian,
                               assignments, custodyLog, attempts>>)
             /\ version' \in {version, version + 1}
             /\ activeRider' # activeRider => version' = version + 1
             /\ (custodian # None /\ custodian' # custodian) =>
                  custodyLog' = Append(custodyLog, [type |-> "RIDER_TRANSFER",
                                                    from |-> custodian,
                                                    to   |-> custodian'])
  <2>1. CASE LatestTarget \in Nat /\ FulfillmentStep(LatestTarget)
    <3>1. IInv
      BY <1>1 DEF RInv
    <3>2. \/ UNCHANGED <<activeRider, version>>
          \/ \E r, rows : NewAssignment(r, rows)
      BY <2>1, RiderStep
    <3>3. /\ version' \in {version, version + 1}
          /\ activeRider' # activeRider => version' = version + 1
      BY <3>2 DEF NewAssignment
    <3> QED BY <2>1, <3>1, <3>3, CustodianStep, TerminalStep
  <2>2. CASE Resumed
    BY <2>2 DEF Resumed, Terminal
  <2>3. CASE Beside
    BY <2>3 DEF Beside
  <2> QED BY <1>1, <2>1, <2>2, <2>3, ComposedStep
<1> QED
  BY Inductive, <1>1, PTL
  DEF DeliveryRecoverySpec, TerminalFrozen, RiderChangesWithVersion, CustodyMovesWithEvidence

(* Together with redeliveries and recoveries the services still implement  *)
(* the chain of custody, when riders and administrators keep off the       *)
(* generic API: what follows a failure is no step of the chain.            *)
THEOREM RecoveredRefinement ==
  ASSUME Callers \subseteq {"CUSTOMER", "MERCHANT"}
  PROVE  DeliveryRecoverySpec => ImplementsChain
<1>1. RecoveryInit => CustodianProven /\ Chain!Init
  BY DEF RecoveryInit, RecordsInit, CustodianProven, Chain!Init, Holder, Phase, Trail,
         MidPossession, Terminal
<1>2. ASSUME RInv, CustodianProven, [DeliveryRecoveryNext]_vars
      PROVE  CustodianProven' /\ [Chain!Next]_(Chain!chain)
  <2>1. ChainInv
    BY <1>2 DEF RInv, ChainInv
  <2>2. CASE LatestTarget \in Nat /\ FulfillmentStep(LatestTarget)
    BY <2>1, <2>2, StepSeen DEF Seen, Chain!chain
  <2>3. CASE Resumed
    <3>1. /\ UNCHANGED <<custodian, custodyLog>>
          /\ status \in MidPossession /\ status' \in MidPossession
      BY <2>3 DEF Resumed, MidPossession
    <3> QED BY <2>1, <3>1, Unseen DEF Chain!chain
  <2>4. CASE Beside
    BY <2>1, <2>4, Unseen DEF Beside, Chain!chain
  <2> QED BY <1>2, <2>2, <2>3, <2>4, ComposedStep
<1> QED
  BY <1>1, <1>2, Inductive, PTL DEF DeliveryRecoverySpec, ImplementsChain, Chain!Spec

-----------------------------------------------------------------------------
(***************************************************************************)
(* Exhausted attempts.                                                     *)
(***************************************************************************)

(* What becomes of ExhaustionCanEscalate: not once, but never, does the    *)
(* service let a recovery be opened for exhausted attempts.                *)
NeverEscalated ==
  unsecured = {} =>
    /\ FailedCount >= MaxAttempts => RedeliveryBlocks("DELIVERY_ATTEMPTS_EXHAUSTED")
    /\ \A v \in RecoveryId : recovery[v].trigger # "DELIVERY_ATTEMPTS_EXHAUSTED"

Unescalated ==
  unsecured = {} =>
    \A v \in RecoveryId : recovery[v].trigger # "DELIVERY_ATTEMPTS_EXHAUSTED"

LEMMA ExhaustedBlocks ==
  ASSUME RInv, MaxAttempts > 1, unsecured = {}, FailedCount >= MaxAttempts
  PROVE  RedeliveryBlocks("DELIVERY_ATTEMPTS_EXHAUSTED")
<1>1. FailedCount = Len(cases) /\ Len(cases) \in Nat /\ MaxAttempts \in Nat
  BY Rows, BoundAssumption DEF RInv, AttemptsSound, FailedCount, Failed
<1>2. Len(cases) = Cardinality(Activated) + (IF status \in Untreated THEN 1 ELSE 0)
  BY DEF RInv, BudgetSound
<1>3. Activated # {}
  <2>1. SUFFICES ASSUME Activated = {} PROVE FALSE
    OBVIOUS
  <2>2. Cardinality(Activated) = 0
    BY <2>1, FS_EmptySet
  <2> QED BY <1>1, <1>2, <2>2
<1>4. ActivatedTargets # {}
  BY <1>3 DEF Activated, ActivatedTargets
<1> QED BY <1>4 DEF RedeliveryBlocks, OrdinaryTrigger

(* An edge taken without evidence stays on record.                         *)
LEMMA UnsecuredKept ==
  ASSUME NEW target, FulfillmentStep(target)
  PROVE  unsecured \subseteq unsecured'
<1>1. CASE \E actor \in Callers, s \in Status : Transition(actor, s)
  BY <1>1 DEF Transition
<1>2. CASE BridgeStep
  BY <1>2 DEF BridgeStep, Transition
<1>3. CASE StartDelivery
  BY <1>3 DEF StartDelivery
<1>4. CASE \E class \in OrderClass : SetCommerceStatus(class)
  BY <1>4 DEF SetCommerceStatus, fulfillmentVars
<1>5. CASE AssignmentNext
  BY <1>5 DEF AssignmentNext, AssignRider, ReassignMidPossession
<1>6. CASE PickupNext
  BY <1>6 DEF PickupNext, IssuePickup, ConfirmPickup, ExpirePickup, fulfillmentVars
<1>7. CASE CustodyNext
  BY <1>7 DEF CustodyNext, IssueCustody, ConfirmCustody, ExpireCustody,
              FinalizeTransfer, fulfillmentVars
<1>8. CASE DeliveryNext(target)
  BY <1>8 DEF DeliveryNext, IssueDelivery, ConfirmDelivery, ExpireDelivery,
              RevokeDelivery, DropDeliveryToken, AuthorizeRecipient,
              RevokeRecipient, fulfillmentVars
<1>9. CASE ReturnNext
  BY <1>9 DEF ReturnNext, IssueReturn, ConfirmReturn, ExpireReturn, fulfillmentVars
<1>10. CASE FailureNext
  BY <1>10 DEF FailureNext, ReportFailure, SelectDisposition, ResolveCase,
               fulfillmentVars
<1> QED
  BY <1>1, <1>2, <1>3, <1>4, <1>5, <1>6, <1>7, <1>8, <1>9, <1>10
  DEF FulfillmentStep

LEMMA UnescalatedStep ==
  ASSUME RInv, MaxAttempts > 1, Unescalated, [DeliveryRecoveryNext]_vars
  PROVE  Unescalated'
<1> SUFFICES ASSUME unsecured' = {} PROVE Unescalated'
  BY DEF Unescalated
<1>1. unsecured = {}
  BY ComposedStep, UnsecuredKept DEF Resumed, Beside
<1>2. \A v \in RecoveryId : recovery[v].trigger # "DELIVERY_ATTEMPTS_EXHAUSTED"
  BY <1>1 DEF Unescalated
<1>3. recovery \in [RecoveryId -> RecoveryRow]
  BY DEF RInv
<1>4. CASE UNCHANGED recovery
  BY <1>2, <1>4 DEF Unescalated
<1>5. ASSUME NEW v \in RecoveryId, NEW trigger \in Trigger, OpenRecovery(v, trigger)
      PROVE  Unescalated'
  <2>1. trigger # "DELIVERY_ATTEMPTS_EXHAUSTED"
    BY <1>1, <1>5, ExhaustedBlocks DEF OpenRecovery, TriggerEligible
  <2>2. \A u \in RecoveryId : recovery'[u].trigger = IF u = v THEN trigger ELSE recovery[u].trigger
    BY <1>3, <1>5 DEF OpenRecovery
  <2> QED BY <1>2, <2>1, <2>2 DEF Unescalated
<1>6. ASSUME NEW v \in RecoveryId,
             \/ StartInvestigation(v)
             \/ \E d \in RecoveryDisposition \ {"NONE"} : SelectRecoveryDisposition(v, d)
             \/ ClearPendingTransfer(v)
             \/ CloseRecovery(v)
             \/ CancelRecovery(v)
      PROVE  Unescalated'
  <2>1. \A u \in RecoveryId : recovery'[u].trigger = recovery[u].trigger
    BY <1>3, <1>6 DEF StartInvestigation, SelectRecoveryDisposition, ClearPendingTransfer,
                      CloseRecovery, CancelRecovery, RecoveryRow
  <2> QED BY <1>2, <2>1 DEF Unescalated
<1>7. CASE RecoveryNext
  BY <1>5, <1>6, <1>7 DEF RecoveryNext
<1>8. CASE RedeliveryNext
  BY <1>4, <1>8 DEF RedeliveryNext, RequestRedelivery, ConfirmRedelivery, ConfirmOnly,
                    AdminActivate, Activate, CancelRedelivery, ExpireRedelivery, WindowEnds
<1> QED BY <1>4, <1>7, <1>8 DEF DeliveryRecoveryNext, vars

(* What becomes of ExhaustionCanEscalate where a second attempt is allowed *)
(* at all: as long as the generic API has not moved the goods, exhausted   *)
(* attempts always block the recovery meant for them, and none is ever     *)
(* opened under that trigger (operations-recovery.service.ts, open).       *)
THEOREM ExhaustionNeverEscalates ==
  ASSUME MaxAttempts > 1
  PROVE  DeliveryRecoverySpec => []NeverEscalated
<1>1. RecoveryInit => Unescalated
  BY DEF RecoveryInit, NoRecovery, Unescalated
<1>2. RInv /\ Unescalated /\ [DeliveryRecoveryNext]_vars => Unescalated'
  BY UnescalatedStep
<1>3. RInv /\ Unescalated => NeverEscalated
  BY ExhaustedBlocks DEF Unescalated, NeverEscalated
<1> QED BY <1>1, <1>2, <1>3, Inductive, PTL DEF DeliveryRecoverySpec
=============================================================================
