------------------------- MODULE RiderCustodyHandoff -------------------------
(***************************************************************************)
(* RiderCustodyHandoffService (rider-custody-handoff/                      *)
(* rider-custody-handoff.service.ts): the custodian issues a token for the *)
(* pending incoming rider, who confirms it on receipt; only then does the  *)
(* assignment follow the goods.                                            *)
(***************************************************************************)
EXTENDS RiderAssignment

(* physicalCustodianRiderId ?? activeRiderId                               *)
PresumedCustodian == IF custodian = None THEN activeRider ELSE custodian

(* pendingCustodyFromAssignmentVersion ?? assignmentVersion                *)
SourceVersion == IF pendingFrom = 0 THEN version ELSE pendingFrom

(* issueForOrder, by the active rider.  Commerce status is not looked at.  *)
IssueCustody(t) ==
  /\ custodyToken[t].status = "UNISSUED"
  /\ status \in MidPossession
  /\ pendingTo \notin {None, activeRider}
  /\ activeRider # None
  /\ PresumedCustodian = activeRider
  /\ HasActiveAssignment(activeRider, version)
  /\ custodyToken' = Issued(custodyToken, t, activeRider, SourceVersion,
                            pendingTo)
  /\ UNCHANGED <<fulfillmentVars, order, assignments, pickupToken,
                 deliveryToken, returnToken, recipient, custodyLog,
                 failureVars, unsecured>>

(* confirm, by the incoming rider.  Delivery and return tokens of the      *)
(* outgoing rider are left as they are: their version is now stale.        *)
ConfirmCustody(t) ==
  LET token == custodyToken[t] IN
  /\ token.status = "ACTIVE"
  /\ status \in MidPossession
  /\ activeRider = token.rider
  /\ pendingTo = token.counterpart
  /\ pendingFrom # 0 => pendingFrom = token.version
  /\ custodian \in {None, token.rider}
  /\ custodyLog' = Append(custodyLog, [type |-> "RIDER_TRANSFER",
                                       from |-> token.rider,
                                       to   |-> token.counterpart])
  /\ FinalizeTransfer(token.rider, token.counterpart, token.version)
  /\ custodyToken' = Marked(custodyToken, t, "CONSUMED")
  /\ UNCHANGED <<order, status, pickupToken, deliveryToken, returnToken,
                 recipient, failureVars, unsecured>>

(* confirm of an ACTIVE token that is late.                                *)
ExpireCustody(t) ==
  /\ custodyToken[t].status = "ACTIVE"
  /\ custodyToken' = Expired(custodyToken, t)
  /\ UNCHANGED <<fulfillmentVars, order, assignments, pickupToken,
                 deliveryToken, returnToken, recipient, custodyLog,
                 failureVars, unsecured>>
=============================================================================
