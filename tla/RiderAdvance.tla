----------------------------- MODULE RiderAdvance -----------------------------
(***************************************************************************)
(* RiderAdvanceService (rider-advance/rider-advance.service.ts): a rider   *)
(* buys the goods with his own cash and the customer owes it to him; and   *)
(* the steps of the fulfillment that the advance gates or that change it   *)
(* (modules RiderAssignment, PickupHandoff and RiderCustodyHandoff have    *)
(* them in full).                                                          *)
(***************************************************************************)
EXTENDS FinanceRecords

PreExpenditure  == {"CUSTOMER_AUTHORIZED", "RIDER_ACCEPTED"}
PostExpenditure == {"ADVANCE_RECORDED", "VENDOR_ACKNOWLEDGED",
                    "REIMBURSEMENT_DUE", "REIMBURSED"}

(* The advance was made out to the rider and the assignment of today.      *)
AssignmentCurrent(a) == /\ activeRider = advance[a].rider
                        /\ version = advance[a].version

(* authorize, by the customer: a first agreement version that he has       *)
(* accepted, for the rider now assigned.  The lifecycle is not looked at.  *)
Authorize(a, max) ==
  /\ advance[a].status = "NONE"
  /\ activeRider # None
  /\ Live = {}
  /\ advance' = [advance EXCEPT ![a] =
       [status |-> "CUSTOMER_AUTHORIZED", rider |-> activeRider,
        version |-> version, max |-> max, edition |-> 1,
        parties |-> {"CUSTOMER"}, actual |-> 0, principal |-> 0, settled |-> 0]]
  /\ UNCHANGED <<fulfillment, claim, returns, exceptions>>

FaultyAmended(row, max) ==
  [row EXCEPT !.max = max, !.edition = row.edition + 1, !.parties = {"CUSTOMER"}]

(* A new agreement version with the customer's acceptance alone; a rider   *)
(* who had accepted must do so again.                                      *)
Amended(row, max) ==
  [row EXCEPT !.status = "CUSTOMER_AUTHORIZED", !.max = max,
              !.edition = row.edition + 1, !.parties = {"CUSTOMER"}]

AmendMaximum(a, max) ==
  /\ advance[a].status \in PreExpenditure
  /\ advance[a].edition < MaxEdition
  /\ AssignmentCurrent(a)
  /\ advance' = [advance EXCEPT ![a] = Amended(advance[a], max)]
  /\ UNCHANGED <<fulfillment, claim, returns, exceptions>>

Accept(a) ==
  /\ advance[a].status = "CUSTOMER_AUTHORIZED"
  /\ AssignmentCurrent(a)
  /\ advance' = [advance EXCEPT ![a].status = "RIDER_ACCEPTED",
                                ![a].parties = advance[a].parties \cup {"RIDER"}]
  /\ UNCHANGED <<fulfillment, claim, returns, exceptions>>

(* recordAdvance: the rider has paid the merchant.                         *)
RecordAdvance(a, amount) ==
  /\ advance[a].status = "RIDER_ACCEPTED"
  /\ AssignmentCurrent(a)
  /\ amount <= advance[a].max
  /\ advance' = [advance EXCEPT ![a].status = "ADVANCE_RECORDED",
                                ![a].actual = amount]
  /\ UNCHANGED <<fulfillment, claim, returns, exceptions>>

(* vendorAcknowledge: only the amount that both name becomes a debt.       *)
VendorAcknowledge(a, amount) ==
  /\ advance[a].status = "ADVANCE_RECORDED"
  /\ AssignmentCurrent(a)
  /\ advance' = IF amount = advance[a].actual
                THEN [advance EXCEPT ![a].status = "REIMBURSEMENT_DUE",
                                     ![a].principal = amount]
                ELSE [advance EXCEPT ![a].status = "DISPUTED"]
  /\ UNCHANGED <<fulfillment, claim, returns, exceptions>>

(* cancel, by the customer or an administrator.  DISPUTED is not among the *)
(* statuses after the expenditure.                                         *)
Cancel(a) ==
  /\ advance[a].status \notin {"NONE", "CANCELLED"}
  /\ advance' = [advance EXCEPT ![a].status =
       IF advance[a].status \in PostExpenditure THEN "DISPUTED" ELSE "CANCELLED"]
  /\ UNCHANGED <<fulfillment, claim, returns, exceptions>>

(* invalidateOnReassignmentInTx: what is not spent is cancelled, what is   *)
(* spent but not acknowledged is disputed, an established debt stays.      *)
AfterReassignment(row) ==
  [row EXCEPT !.status =
     IF row.status \in PreExpenditure THEN "CANCELLED"
     ELSE IF row.status = "ADVANCE_RECORDED" THEN "DISPUTED"
     ELSE row.status]
-----------------------------------------------------------------------------
(* assignInTx before the pickup.                                           *)
AssignRider(r) ==
  /\ status \in {"ready_for_pickup", "rider_assigned"}
  /\ r # activeRider
  /\ version < MaxVersion
  /\ status' = "rider_assigned"
  /\ activeRider' = r
  /\ version' = version + 1
  /\ advance' = [a \in Advance |-> AfterReassignment(advance[a])]
  /\ UNCHANGED <<claim, returns, exceptions>>

(* assertPickupAllowedForOrder.                                            *)
PickupAllowed ==
  \A a \in Live : advance[a].status \in {"VENDOR_ACKNOWLEDGED",
                                         "REIMBURSEMENT_DUE", "REIMBURSED"}

ConfirmPickup ==
  /\ status = "rider_assigned"
  /\ PickupAllowed
  /\ status' = "mid_possession"
  /\ UNCHANGED <<activeRider, version, advances, returns, exceptions>>

(* finalizeMidPossessionTransferInTx: another rider takes the goods over.  *)
TransferCustody(r) ==
  /\ status = "mid_possession"
  /\ r # activeRider
  /\ version < MaxVersion
  /\ activeRider' = r
  /\ version' = version + 1
  /\ advance' = [a \in Advance |-> AfterReassignment(advance[a])]
  /\ UNCHANGED <<status, claim, returns, exceptions>>

(* The goods reach the customer, or the merchant with a RETURN_RECEIVED    *)
(* event (a return without one counts as delivered here: it opens nothing).*)
EndTrip(outcome) ==
  /\ status = "mid_possession"
  /\ outcome \in {"returned", "delivered"}
  /\ status' = outcome
  /\ UNCHANGED <<activeRider, version, advances, returns, exceptions>>
=============================================================================
