--------------------------- MODULE ReturnFinancial ---------------------------
(***************************************************************************)
(* ReturnFinancialDeterminationService and ReturnFinancialSettlementService*)
(* (return-financial/): after a return the merchant determines what he     *)
(* pays back: to the rider what the customer still owes him, and to the    *)
(* customer what he has paid.                                              *)
(***************************************************************************)
EXTENDS AdvanceSettlement

(* createOrPropose on the path of the rider advance: the live one, or none *)
(* (finalize then looks for it).                                           *)
ProposeAdvancePath(d, qualifying) ==
  /\ determination[d].status = "NONE"
  /\ status = "returned"
  /\ \A e \in Determination : determination[e].status # "FINALIZED"
  /\ \E a \in IF Live = {} THEN {None} ELSE Live :
       determination' = [determination EXCEPT ![d] =
         [status |-> "PROPOSED", path |-> "RIDER_ADVANCE",
          qualifying |-> qualifying, advance |-> a, refund |-> 0]]
  /\ UNCHANGED <<fulfillment, advances, obligation, restricted, repayment, exceptions>>

(* createOrPropose with an explicit refund: refused once a rider advance   *)
(* has a principal.                                                        *)
ProposeOrdinaryPath(d, qualifying, refund) ==
  /\ determination[d].status = "NONE"
  /\ status = "returned"
  /\ \A e \in Determination : determination[e].status # "FINALIZED"
  /\ \A a \in Live : advance[a].principal = 0
  /\ determination' = [determination EXCEPT ![d] =
       [status |-> "PROPOSED", path |-> "ORDINARY_MERCHANT_PAYMENT",
        qualifying |-> qualifying, advance |-> None, refund |-> refund]]
  /\ UNCHANGED <<fulfillment, advances, obligation, restricted, repayment, exceptions>>

AcknowledgeDetermination(d) ==
  /\ determination[d].status = "PROPOSED"
  /\ determination' = [determination EXCEPT ![d].status = "ACKNOWLEDGED"]
  /\ UNCHANGED <<fulfillment, advances, obligation, restricted, repayment, exceptions>>

DisputeDetermination(d) ==
  /\ determination[d].status \in {"PROPOSED", "ACKNOWLEDGED"}
  /\ determination' = [determination EXCEPT ![d].status = "DISPUTED"]
  /\ UNCHANGED <<fulfillment, advances, obligation, restricted, repayment, exceptions>>

(* The unique index on the FINALIZED determination of an order aborts the  *)
(* second one.                                                             *)
MayFinalize(d) ==
  /\ determination[d].status \in {"PROPOSED", "ACKNOWLEDGED"}
  /\ status = "returned"
  /\ \A e \in Determination : determination[e].status # "FINALIZED"

(* An outcome that is not a full return owes nothing.                      *)
FinalizeWithoutMoney(d) ==
  /\ MayFinalize(d)
  /\ ~determination[d].qualifying
  /\ determination' = [determination EXCEPT ![d].status = "FINALIZED"]
  /\ UNCHANGED <<fulfillment, advances, obligation, restricted, repayment, exceptions>>

NewObligation(principal) ==
  IF principal = 0 THEN NoObligation
  ELSE [status |-> "OPEN", principal |-> principal, settled |-> 0]

NewObligations(toRider, toCustomer) ==
  [o \in Obligation |-> NewObligation(IF o = "MERCHANT_TO_RIDER"
                                      THEN toRider ELSE toCustomer)]

FaultyMayMonetize(path, toRider, toCustomer) == TRUE

(* The guard of the exception liability: nothing that this determination   *)
(* would monetize is covered by an exception determination already.        *)
MayMonetize(path, toRider, toCustomer) ==
  toRider + toCustomer > 0 =>
    \A k \in Loss : loss[k].stage12 > 0 =>
      \/ k = "RIDER_ADVANCE_UNRECOVERED" /\ path # "RIDER_ADVANCE"
      \/ k = "CUSTOMER_PAYMENT_UNRECOVERED" /\ toCustomer = 0

FinalizeOrdinary(d) ==
  /\ MayFinalize(d)
  /\ determination[d].qualifying
  /\ determination[d].path = "ORDINARY_MERCHANT_PAYMENT"
  /\ MayMonetize("ORDINARY_MERCHANT_PAYMENT", 0, determination[d].refund)
  /\ determination' = [determination EXCEPT ![d].status = "FINALIZED"]
  /\ obligation' = NewObligations(0, determination[d].refund)
  /\ UNCHANGED <<fulfillment, advances, restricted, repayment, exceptions>>

(* The advance the proposal named, whatever became of it, or the live one. *)
AdvanceOf(d) == IF determination[d].advance # None
                THEN {determination[d].advance} ELSE Live

FaultyRestriction(a) == restricted

(* The customer no longer owes the rider what the merchant will pay him.   *)
Restriction(a) == [restricted EXCEPT ![a] = Owed(advance[a])]

(* P and R are read now, under a lock on the advance: the merchant repays  *)
(* P - R to the rider and R to the customer.                               *)
FinalizeAdvance(d) ==
  /\ MayFinalize(d)
  /\ determination[d].qualifying
  /\ determination[d].path = "RIDER_ADVANCE"
  /\ \E a \in AdvanceOf(d) :
       /\ advance[a].principal > 0
       /\ MayMonetize("RIDER_ADVANCE", Owed(advance[a]), advance[a].settled)
       /\ obligation' = NewObligations(Owed(advance[a]), advance[a].settled)
       /\ restricted' = Restriction(a)
       /\ determination' = [determination EXCEPT ![d].status = "FINALIZED",
                                                 ![d].advance = a]
  /\ UNCHANGED <<fulfillment, advances, repayment, exceptions>>
-----------------------------------------------------------------------------
FaultyRefreshed(row, amount) ==
  [row EXCEPT !.settled = row.settled + amount, !.status = "SETTLED"]

(* The acknowledged amount counts, and refreshObligationStatus.            *)
Refreshed(row, amount) ==
  [row EXCEPT !.settled = row.settled + amount,
              !.status = IF row.settled + amount >= row.principal
                         THEN "SETTLED" ELSE "PARTIALLY_SETTLED"]

Executable(o) == obligation[o].status \in {"OPEN", "PARTIALLY_SETTLED"}

(* createSettlement, CASH: confirmed by the creditor in the same request.  *)
RepayCash(o, amount) ==
  /\ Executable(o)
  /\ amount <= Owed(obligation[o])
  /\ obligation' = [obligation EXCEPT ![o] = Refreshed(obligation[o], amount)]
  /\ UNCHANGED <<fulfillment, advances, determination, restricted, repayment, exceptions>>

(* createSettlement, DIRECT_TRANSFER: claimed by the merchant.             *)
ClaimRepayment(p, o, amount) ==
  /\ repayment[p].status = "NONE"
  /\ Executable(o)
  /\ amount <= Owed(obligation[o])
  /\ repayment' = [repayment EXCEPT ![p] =
       [status |-> "CLAIMED", obligation |-> o, amount |-> amount]]
  /\ UNCHANGED <<fulfillment, advances, determination, obligation, restricted, exceptions>>

FaultyRepaymentDue(p, amount) == amount <= repayment[p].amount

RepaymentDue(p, amount) ==
  /\ amount <= repayment[p].amount
  /\ amount <= Owed(obligation[repayment[p].obligation])

AcknowledgeRepayment(p, amount) ==
  LET o == repayment[p].obligation IN
  /\ repayment[p].status = "CLAIMED"
  /\ RepaymentDue(p, amount)
  /\ repayment' = [repayment EXCEPT ![p].status = "ACKNOWLEDGED"]
  /\ obligation' = [obligation EXCEPT ![o] = Refreshed(obligation[o], amount)]
  /\ UNCHANGED <<fulfillment, advances, determination, restricted, exceptions>>

RejectRepayment(p) ==
  /\ repayment[p].status = "CLAIMED"
  /\ repayment' = [repayment EXCEPT ![p].status = "REJECTED"]
  /\ UNCHANGED <<fulfillment, advances, determination, obligation, restricted, exceptions>>
=============================================================================
