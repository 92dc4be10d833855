----------------------------- MODULE Redelivery -----------------------------
(***************************************************************************)
(* RedeliveryService (redelivery/redelivery.service.ts): after a failed    *)
(* attempt the customer requests another one within a time window and      *)
(* confirms it; the confirmation activates it, which puts the order back   *)
(* in transit.  An administrator may activate without the customer.        *)
(*                                                                         *)
(* The address snapshot and the gates on financial determinations and      *)
(* obligations are abstracted: they can only deny.  ACTIVATED is final.    *)
(***************************************************************************)
EXTENDS FulfillmentRecords

CONSTANTS
  RedeliveryId,    \* ids of redelivery_authorizations
  RecoveryId       \* ids of operations_recoveries

VARIABLES
  redelivery,      \* rows of redelivery_authorizations
  recovery         \* rows of operations_recoveries

RedeliveryStatus == {"UNREQUESTED", "REQUESTED", "CONFIRMED", "ACTIVATED",
                     "CANCELLED", "EXPIRED"}

(* priorCase: the failure case it follows, 0 for NULL; late: the clock is  *)
(* past windowEnd.                                                         *)
RedeliveryRow == [status: RedeliveryStatus, target: Nat, priorCase: Nat,
                  late: BOOLEAN]

RecoveryStatus == {"UNOPENED", "OPEN", "INVESTIGATING",
                   "DISPOSITION_SELECTED", "CLOSED", "CANCELLED"}
ActiveRecoveryStatus == {"OPEN", "INVESTIGATING", "DISPOSITION_SELECTED"}

(* Stage 11 has no recovery in force for the fulfillment.  The faulty one  *)
(* overlooks those whose investigation has begun.                          *)
FaultyOnlyOpen == \A v \in RecoveryId : recovery[v].status # "OPEN"
NoActiveRecovery ==
  \A v \in RecoveryId : recovery[v].status \notin ActiveRecoveryStatus

FailedCount == Cardinality({a \in attempts : a.outcome = "FAILED"})

(* evaluateRedeliveryAttemptCollectibility                                 *)
FaultyOneMore == FailedCount <= MaxAttempts
BudgetLeft == FailedCount < MaxAttempts

Open(a) == redelivery[a].status \in {"REQUESTED", "CONFIRMED"}

(* assertEligibilityGates                                                  *)
Eligible == status = "delivery_failed" /\ pendingTo = None

(* The case under treatment, 0 when there is none.                         *)
IsOpenCaseIndex(i) ==
  \/ i \in DOMAIN cases /\ OpenCase(cases[i])
  \/ i = 0 /\ \A j \in DOMAIN cases : ~ OpenCase(cases[j])

(* request: a previous open authorization is expired first when its window *)
(* has passed; otherwise it is in the way.                                 *)
NoneInTheWay == \A b \in RedeliveryId : Open(b) => redelivery[b].late

(* request, by the customer.                                               *)
RequestRedelivery(a) ==
  /\ redelivery[a].status = "UNREQUESTED"
  /\ Eligible
  /\ BudgetLeft
  /\ NoneInTheWay
  /\ \E i \in 0 .. Len(cases) :
       /\ IsOpenCaseIndex(i)
       /\ redelivery' = [b \in RedeliveryId |->
            IF b = a THEN [status |-> "REQUESTED", target |-> FailedCount + 1,
                           priorCase |-> i, late |-> FALSE]
            ELSE IF Open(b) /\ redelivery[b].late
              THEN [redelivery[b] EXCEPT !.status = "EXPIRED"]
            ELSE redelivery[b]]
  /\ UNCHANGED <<records, recovery>>

(* The case that the activation closes, if it is still under treatment.    *)
FaultyCaseLeftOpen(i) == cases
CaseResolved(i) ==
  [j \in DOMAIN cases |->
     IF j = i /\ OpenCase(cases[j])
       THEN [cases[j] EXCEPT !.status = "RESOLVED"] ELSE cases[j]]

(* activateInTx: the redelivery, the case, the tokens and the fulfillment  *)
(* move together.                                                          *)
Activate(a) ==
  /\ NoActiveRecovery
  /\ Eligible
  /\ custodian # None
  /\ custodian = activeRider
  /\ HasActiveAssignment(activeRider, version)
  /\ BudgetLeft
  /\ redelivery[a].target = FailedCount + 1
  /\ \E i \in 0 .. Len(cases) :
       /\ IF redelivery[a].priorCase # 0 THEN i = redelivery[a].priorCase
                                         ELSE IsOpenCaseIndex(i)
       /\ cases' = CaseResolved(i)
  /\ deliveryToken' = Revoked(deliveryToken)
  /\ ServiceTransition("in_transit")
  /\ redelivery' = [redelivery EXCEPT ![a].status = "ACTIVATED"]
  /\ UNCHANGED <<order, activeRider, version, custodian, pendingTo,
                 pendingFrom, assignments, pickupToken, custodyToken,
                 returnToken, recipient, custodyLog, attempts, unsecured,
                 recovery>>

(* confirm, by the customer, with activation unless autoActivate is off.   *)
(* One that finds the window passed throws: its EXPIRED is rolled back.    *)
ConfirmRedelivery(a) ==
  /\ Open(a)
  /\ ~ redelivery[a].late
  /\ Activate(a)

ConfirmOnly(a) ==
  /\ redelivery[a].status = "REQUESTED"
  /\ ~ redelivery[a].late
  /\ Eligible
  /\ redelivery' = [redelivery EXCEPT ![a].status = "CONFIRMED"]
  /\ UNCHANGED <<records, recovery>>

(* adminActivate: no look at the window.                                   *)
AdminActivate(a) == Open(a) /\ Activate(a)

(* cancel, by the customer or an administrator, in any fulfillment status. *)
CancelRedelivery(a) ==
  /\ Open(a)
  /\ redelivery' = [redelivery EXCEPT ![a].status = "CANCELLED"]
  /\ UNCHANGED <<records, recovery>>

(* getForOrder expires what it finds late.                                 *)
ExpireRedelivery(a) ==
  /\ Open(a)
  /\ redelivery[a].late
  /\ redelivery' = [redelivery EXCEPT ![a].status = "EXPIRED"]
  /\ UNCHANGED <<records, recovery>>

(* The clock.                                                              *)
WindowEnds(a) ==
  /\ Open(a)
  /\ ~ redelivery[a].late
  /\ redelivery' = [redelivery EXCEPT ![a].late = TRUE]
  /\ UNCHANGED <<records, recovery>>

ActivatedTargets ==
  {redelivery[a].target : a \in {b \in RedeliveryId : redelivery[b].status = "ACTIVATED"}}

(* The target of the latest ACTIVATED row, 0 when there is none: targets   *)
(* follow the number of failures, which never falls, so latest is largest. *)
LatestTarget ==
  IF ActivatedTargets = {} THEN 0
  ELSE CHOOSE n \in ActivatedTargets : \A m \in ActivatedTargets : m <= n
=============================================================================
