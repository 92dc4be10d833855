------------------------- MODULE OperationsRecovery -------------------------
(***************************************************************************)
(* OperationsRecoveryService and its policy (operations-recovery/): an     *)
(* administrator opens a recovery for a fulfillment that the ordinary      *)
(* paths cannot finish, investigates, selects a disposition and closes it. *)
(* The only effect on the fulfillment is clearing a pending transfer.      *)
(* Evidence and verifications are abstracted: they are the administrator's *)
(* to add at any time.                                                     *)
(***************************************************************************)
EXTENDS Redelivery

(* CUSTODY_UNCONFIRMED is omitted: with a pending transfer it is           *)
(* CUSTODY_TRANSFER_ABANDONED, its other causes do not arise here.  The    *)
(* triggers without a condition are one, ADMIN_RECOVERY_REQUIRED, and      *)
(* RETURN_BLOCKED stands for MERCHANT_RETURN_REFUSED too.                  *)
OrdinaryTrigger == {"DELIVERY_ATTEMPTS_EXHAUSTED", "RETURN_BLOCKED", "OTHER"}
InvestigativeTrigger == {"CUSTODY_TRANSFER_ABANDONED", "ADMIN_RECOVERY_REQUIRED"}
Trigger == OrdinaryTrigger \cup InvestigativeTrigger

(* CONCLUDE stands for the dispositions that close on an administrator's   *)
(* evidence or acknowledgement.                                            *)
RecoveryDisposition == {"NONE", "HOLD_FOR_REVIEW",
                        "CLEAR_PENDING_CUSTODY_TRANSFER", "RETURN_REQUIRED",
                        "CONCLUDE"}

(* cleared: a PENDING_CUSTODY_CLEARED event was appended.                  *)
RecoveryRow == [status: RecoveryStatus, trigger: Trigger \cup {"NONE"},
                disposition: RecoveryDisposition, cleared: BOOLEAN]

NoRecovery == [status |-> "UNOPENED", trigger |-> "NONE",
               disposition |-> "NONE", cleared |-> FALSE]

ReturnReceived == \E i \in DOMAIN custodyLog : custodyLog[i].type = "RETURN_RECEIVED"

(* evaluateOpeningTriggerEligibility                                       *)
TriggerEligible(trigger) ==
  CASE trigger = "DELIVERY_ATTEMPTS_EXHAUSTED" ->
         /\ FailedCount >= MaxAttempts
         /\ status \in {"delivery_failed", "returning"}
    [] trigger = "RETURN_BLOCKED" ->
         status = "returning" \/ (status = "returned" /\ ~ ReturnReceived)
    [] trigger = "CUSTODY_TRANSFER_ABANDONED" -> pendingTo # None
    [] OTHER -> TRUE

(* Stage 10 has the authority to execute: any ACTIVATED row, at any time.  *)
RedeliveryBlocks(trigger) ==
  trigger \in OrdinaryTrigger /\ ActivatedTargets # {}

OpenRecovery(v, trigger) ==
  /\ recovery[v].status = "UNOPENED"
  /\ TriggerEligible(trigger)
  /\ ~ RedeliveryBlocks(trigger)
  /\ NoActiveRecovery
  /\ recovery' = [recovery EXCEPT ![v] =
       [status |-> "OPEN", trigger |-> trigger, disposition |-> "NONE",
        cleared |-> FALSE]]
  /\ UNCHANGED <<records, redelivery>>

StartInvestigation(v) ==
  /\ recovery[v].status = "OPEN"
  /\ recovery' = [recovery EXCEPT ![v].status = "INVESTIGATING"]
  /\ UNCHANGED <<records, redelivery>>

SelectRecoveryDisposition(v, disposition) ==
  /\ recovery[v].status \in {"INVESTIGATING", "DISPOSITION_SELECTED"}
  /\ recovery' = [recovery EXCEPT ![v].status = "DISPOSITION_SELECTED",
                                  ![v].disposition = disposition]
  /\ UNCHANGED <<records, redelivery>>

FaultyVersionLeft == pendingTo' = None /\ UNCHANGED pendingFrom
IntentCleared == pendingTo' = None /\ pendingFrom' = 0

(* clearPendingCustodyTransferIntent: the transfer is off, the goods stay  *)
(* where they are; the custody token of the intent stays ACTIVE.           *)
ClearPendingTransfer(v) ==
  /\ recovery[v].status \in ActiveRecoveryStatus
  /\ recovery[v].disposition = "CLEAR_PENDING_CUSTODY_TRANSFER"
  /\ pendingTo # None
  /\ IntentCleared
  /\ recovery' = [recovery EXCEPT ![v].cleared = TRUE]
  /\ UNCHANGED <<order, status, activeRider, version, custodian, assignments,
                 tokenVars, recipient, custodyLog, failureVars, unsecured,
                 redelivery>>

(* evaluateClosurePolicy                                                   *)
Closable(v) ==
  CASE recovery[v].disposition = "CLEAR_PENDING_CUSTODY_TRANSFER" ->
         pendingTo = None /\ recovery[v].cleared
    [] recovery[v].disposition = "RETURN_REQUIRED" -> ReturnReceived
    [] OTHER -> recovery[v].disposition = "CONCLUDE"

CloseRecovery(v) ==
  /\ recovery[v].status = "DISPOSITION_SELECTED"
  /\ Closable(v)
  /\ recovery' = [recovery EXCEPT ![v].status = "CLOSED"]
  /\ UNCHANGED <<records, redelivery>>

CancelRecovery(v) ==
  /\ recovery[v].status \in ActiveRecoveryStatus
  /\ recovery' = [recovery EXCEPT ![v].status = "CANCELLED"]
  /\ UNCHANGED <<records, redelivery>>
=============================================================================
