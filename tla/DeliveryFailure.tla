--------------------------- MODULE DeliveryFailure ---------------------------
(***************************************************************************)
(* DeliveryFailureService (delivery-failure/delivery-failure.service.ts):  *)
(* the custodian reports a failed attempt, which opens a case; an          *)
(* administrator selects its disposition (RETURN_TO_MERCHANT turns the     *)
(* rider round) and resolves it.  A report repeated with its idempotency   *)
(* key answers with the recorded attempt and is no step.                   *)
(***************************************************************************)
EXTENDS FulfillmentRecords

(* attemptNumber of the next report: max + 1.                              *)
FaultyCountsOpenCases(n) ==
  n = 1 + Cardinality({i \in DOMAIN cases : OpenCase(cases[i])})
IsNextAttempt(n) ==
  /\ \A a \in attempts : a.number < n
  /\ n = 1 \/ \E a \in attempts : a.number + 1 = n

(* One case under treatment per fulfillment (a partial unique index).      *)
NoOpenCase == \A i \in DOMAIN cases : ~ OpenCase(cases[i])

(* reportFailure, by the active rider.                                     *)
ReportFailure ==
  /\ Len(cases) < AttemptBound
  /\ status = "in_transit"
  /\ activeRider # None
  /\ custodian \in {None, activeRider}
  /\ pendingTo = None
  /\ HasActiveAssignment(activeRider, version)
  /\ NoOpenCase
  /\ \E n \in 1 .. AttemptBound + 1 :
       /\ IsNextAttempt(n)
       /\ attempts' = attempts \cup
            {[number |-> n, outcome |-> "FAILED", rider |-> activeRider,
              version |-> version]}
       /\ cases' = Append(cases,
            [status      |-> "OPEN",
             disposition |-> IF n >= MaxAttempts
                               THEN "OPERATIONS_RECOVERY_REQUIRED"
                               ELSE "NONE"])
  /\ ServiceTransition("delivery_failed")
  /\ deliveryToken' = Revoked(deliveryToken)
  /\ UNCHANGED <<order, activeRider, version, custodian, pendingTo,
                 pendingFrom, assignments, pickupToken, custodyToken,
                 returnToken, recipient, custodyLog, unsecured>>

(* selectDisposition, by an administrator.                                 *)
SelectDisposition(i, disposition) ==
  /\ cases[i].status = "OPEN"
  /\ cases' = [cases EXCEPT ![i] = [status |-> "DISPOSITION_SELECTED",
                                    disposition |-> disposition]]
  /\ IF disposition = "RETURN_TO_MERCHANT" /\ status = "delivery_failed"
       THEN ServiceTransition("returning")
       ELSE UNCHANGED status
  /\ UNCHANGED <<order, activeRider, version, custodian, pendingTo,
                 pendingFrom, assignments, tokenVars, recipient, custodyLog,
                 attempts, unsecured>>

(* resolveCase, by an administrator.                                       *)
ResolveCase(i) ==
  /\ OpenCase(cases[i])
  /\ cases' = [cases EXCEPT ![i].status = "RESOLVED"]
  /\ UNCHANGED <<fulfillmentVars, order, assignments, tokenVars, recipient,
                 custodyLog, attempts, unsecured>>
=============================================================================
