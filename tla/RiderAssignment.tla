--------------------------- MODULE RiderAssignment ---------------------------
(***************************************************************************)
(* RiderAssignmentService (fulfillment/rider-assignment.service.ts).       *)
(* Before the pickup an assignment takes effect at once; after it a new    *)
(* rider is only recorded as the pending incoming custodian, and becomes   *)
(* the active rider when the custody handoff is confirmed.                 *)
(*                                                                         *)
(* Assigning the rider that is already active changes nothing (the         *)
(* idempotent answers of the code), so it is no step.  A different rider   *)
(* is given with allowReassignment; without it the call is rejected.  The  *)
(* rider-advance invalidation of both paths belongs to that service.       *)
(***************************************************************************)
EXTENDS FulfillmentRecords

(* A call that names the order (the order's own endpoints) checks its      *)
(* commerce status; one that names the fulfillment (the generic transition *)
(* to rider_assigned) does not.                                            *)
OrderAllowsAssignment(byOrder) == byOrder => order = "live"

(* The row written by both ways of taking effect; the faulty one leaves    *)
(* the version as it is.                                                   *)
FaultySameVersion(r, rows) ==
  /\ version' = IF version = 0 THEN 1 ELSE version
  /\ activeRider' = r
  /\ pendingTo' = None
  /\ pendingFrom' = 0
  /\ assignments' = rows \cup
       {[rider |-> r, version |-> version', status |-> "ACTIVE"]}

NewAssignment(r, rows) ==
  /\ version < MaxVersion
  /\ version' = version + 1
  /\ activeRider' = r
  /\ pendingTo' = None
  /\ pendingFrom' = 0
  /\ assignments' = rows \cup
       {[rider |-> r, version |-> version + 1, status |-> "ACTIVE"]}

(* The capabilities of the rider who is being replaced (revokeActive...InTx*)
(* of the delivery, return and custody tokens), but not the pickup's.      *)
FaultyCustodyTokenSurvives ==
  /\ deliveryToken' = Revoked(deliveryToken)
  /\ returnToken' = Revoked(returnToken)
  /\ UNCHANGED custodyToken

PossessionTokensRevoked ==
  /\ custodyToken' = Revoked(custodyToken)
  /\ deliveryToken' = Revoked(deliveryToken)
  /\ returnToken' = Revoked(returnToken)

(* No rider yet, or a different one before the pickup.                     *)
AssignRider(r, byOrder) ==
  /\ status \in PrePickup \cup MidPossession
  /\ OrderAllowsAssignment(byOrder)
  /\ \/ activeRider = None
     \/ activeRider = r /\ status = "ready_for_pickup"
     \/ activeRider # r /\ status \in PrePickup
  /\ IF activeRider \in {None, r}
       THEN /\ NewAssignment(r, assignments)
            /\ UNCHANGED tokenVars
       ELSE /\ NewAssignment(r, Superseded(assignments))
            /\ pickupToken' = Revoked(pickupToken)
            /\ PossessionTokensRevoked
  /\ status' = IF status \in MidPossession THEN status ELSE "rider_assigned"
  /\ UNCHANGED <<order, custodian, recipient, custodyLog, attempts, cases,
                 unsecured>>

(* The custodian that a pending transfer starts from: the one proven, or   *)
(* the rider being replaced.                                               *)
FaultyAssignmentIsCustody(r) == r
CustodianKept(r) == IF custodian = None THEN activeRider ELSE custodian

(* A different rider while the goods are with a rider: the pending         *)
(* transfer.  Assignment is not custody.                                   *)
ReassignMidPossession(r, byOrder) ==
  /\ status \in MidPossession
  /\ OrderAllowsAssignment(byOrder)
  /\ activeRider \notin {None, r}
  /\ PossessionTokensRevoked
  /\ custodian' = CustodianKept(r)
  /\ pendingTo' = r
  /\ pendingFrom' = version
  /\ UNCHANGED <<order, status, activeRider, version, assignments,
                 pickupToken, recipient, custodyLog, attempts, cases,
                 unsecured>>

(* finalizeMidPossessionTransferInTx, run by the custody handoff; in the   *)
(* faulty one only the assignment moves.                                   *)
FaultyCustodianStays(outgoing, incoming, sourceVersion) ==
  /\ activeRider = outgoing
  /\ pendingTo = incoming
  /\ pendingFrom = sourceVersion
  /\ NewAssignment(incoming, Superseded(assignments))
  /\ UNCHANGED custodian

FinalizeTransfer(outgoing, incoming, sourceVersion) ==
  /\ activeRider = outgoing
  /\ pendingTo = incoming
  /\ pendingFrom = sourceVersion
  /\ custodian \in {None, outgoing}
  /\ NewAssignment(incoming, Superseded(assignments))
  /\ custodian' = incoming
=============================================================================
