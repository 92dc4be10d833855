-------------------------- MODULE DeliveryRecovery --------------------------
(***************************************************************************)
(* What happens after a failed delivery: the fulfillment of module         *)
(* Fulfillment together with the redelivery authorizations and the         *)
(* operations recoveries, which contend for the authority to move it.      *)
(***************************************************************************)
EXTENDS Fulfillment, OperationsRecovery

vars == <<records, redelivery, recovery>>

RecoveryTypeOK ==
  /\ RecordsTypeOK
  /\ redelivery \in [RedeliveryId -> RedeliveryRow]
  /\ recovery \in [RecoveryId -> RecoveryRow]

RecoveryInit ==
  /\ RecordsInit
  /\ redelivery = [a \in RedeliveryId |->
       [status |-> "UNREQUESTED", target |-> 0, priorCase |-> 0, late |-> FALSE]]
  /\ recovery = [v \in RecoveryId |-> NoRecovery]

RedeliveryNext ==
  \E a \in RedeliveryId :
    \/ RequestRedelivery(a) \/ ConfirmRedelivery(a) \/ ConfirmOnly(a)
    \/ AdminActivate(a) \/ CancelRedelivery(a) \/ ExpireRedelivery(a)
    \/ WindowEnds(a)

RecoveryNext ==
  \E v \in RecoveryId :
    \/ \E trigger \in Trigger : OpenRecovery(v, trigger)
    \/ StartInvestigation(v)
    \/ \E d \in RecoveryDisposition \ {"NONE"} : SelectRecoveryDisposition(v, d)
    \/ ClearPendingTransfer(v)
    \/ CloseRecovery(v)
    \/ CancelRecovery(v)

DeliveryRecoveryNext ==
  \/ FulfillmentStep(LatestTarget) /\ UNCHANGED <<redelivery, recovery>>
  \/ RedeliveryNext
  \/ RecoveryNext

DeliveryRecoverySpec == RecoveryInit /\ [][DeliveryRecoveryNext]_vars
-----------------------------------------------------------------------------
(* The three paths that can put goods back on the road, the three that     *)
(* number attempts and the case that tracks them agree on the ceiling: no  *)
(* sequence of requests, confirmations, activations, reports and           *)
(* recoveries makes a fourth attempt, unless the generic API put the order *)
(* in transit.                                                             *)
AttemptCeiling ==
  <<"delivery_failed", "in_transit">> \notin unsecured
    => \A a \in attempts : a.number \in 1 .. MaxAttempts

(* While an order is on the road, the number its next attempt will take is *)
(* free and no case of an earlier failure is under treatment, so neither   *)
(* the delivery nor a failure report is rolled back by a unique index.     *)
NextAttemptRecordable ==
  (status = "in_transit" /\ unsecured = {}) =>
    /\ NoOpenCase
    /\ LatestTarget # 0 => /\ LatestTarget = FailedCount + 1
                           /\ \A a \in attempts : a.number < LatestTarget

(* Nobody retries on his own: every failed delivery but the one not yet    *)
(* treated was followed by one activation of an authorization, and a       *)
(* delivery that follows an activation is on record as that attempt.       *)
EveryRetryAuthorized ==
  unsecured = {} =>
    /\ FailedCount =
         Cardinality({a \in RedeliveryId : redelivery[a].status = "ACTIVATED"})
         + (IF status \in {"delivery_failed", "returning", "returned"} THEN 1 ELSE 0)
    /\ (status = "delivered" /\ FailedCount > 0) =>
         \E a \in attempts : /\ a.outcome = "SUCCESSFUL_HANDOFF"
                             /\ a.number = FailedCount + 1

(* A recovery and a redelivery never hold the authority together: a        *)
(* recovery in force that was opened by an ordinary trigger excludes an    *)
(* order put on the road by a redelivery.                                  *)
ExclusiveAuthority ==
  (\E v \in RecoveryId : /\ recovery[v].status \in ActiveRecoveryStatus
                         /\ recovery[v].trigger \in OrdinaryTrigger)
    => ActivatedTargets = {}

(* Exhausted attempts can be escalated: when the last attempt has failed   *)
(* and no recovery is in force, nothing blocks the ordinary opening of one *)
(* (ADR 0012, Context; operations-recovery.postgres.spec.ts opens it after *)
(* writing three attempts straight into the database).  Each failure after *)
(* the first needs an activated redelivery, ACTIVATED is never left, and   *)
(* the service takes it for one that "is executing": the code blocks it.   *)
ExhaustionCanEscalate ==
  (FailedCount >= MaxAttempts /\ status = "delivery_failed" /\ NoActiveRecovery)
    => ~ RedeliveryBlocks("DELIVERY_ATTEMPTS_EXHAUSTED")
=============================================================================
