-------------------------- MODULE ExceptionFinancial --------------------------
(***************************************************************************)
(* ExceptionFinancialService and ExceptionFinancialSettlementService       *)
(* (exception-financial/): what was lost otherwise than by a return.  An   *)
(* administrator investigates a claim on an economic loss, determines who  *)
(* is liable, and the liable parties pay the one who bore the loss.        *)
(*                                                                         *)
(* A loss stands for its kind with the subject of the whole order.  Its    *)
(* claim needs an operations recovery that was settled with a financial    *)
(* review, which operations may have decided at any time once the goods    *)
(* are on their way (module OperationsRecovery).                           *)
(***************************************************************************)
EXTENDS ReturnFinancial

Active(e) == exceptionClaim[e].status \in
               {"OPEN", "EVIDENCE_REVIEW", "VERIFIED", "DETERMINATION_PROPOSED"}

(* openClaimFromRecovery: the first claim on a loss creates it and fixes   *)
(* what can be compensated, whatever a later claim asks for.               *)
OpenClaim(e, k, compensable) ==
  /\ exceptionClaim[e].status = "NONE"
  /\ status \notin {"ready_for_pickup", "rider_assigned"}
  /\ \A f \in ExceptionClaim : exceptionClaim[f].loss = k => ~Active(f)
  /\ exceptionClaim' = [exceptionClaim EXCEPT ![e] =
       [status |-> "OPEN", loss |-> k, verified |-> FALSE, fact |-> FALSE]]
  /\ loss' = IF loss[k].compensable = 0
             THEN [loss EXCEPT ![k].compensable = compensable] ELSE loss
  /\ UNCHANGED <<fulfillment, advances, returns, liability, debt, debtClaim>>

AddEvidence(e) ==
  /\ exceptionClaim[e].status = "OPEN"
  /\ exceptionClaim' = [exceptionClaim EXCEPT ![e].status = "EVIDENCE_REVIEW"]
  /\ UNCHANGED <<fulfillment, advances, returns, loss, liability, debt, debtClaim>>

VerifyEvidence(e) ==
  /\ Active(e)
  /\ exceptionClaim[e].status # "OPEN"
  /\ exceptionClaim' = [exceptionClaim EXCEPT ![e].verified = TRUE]
  /\ UNCHANGED <<fulfillment, advances, returns, loss, liability, debt, debtClaim>>

ConcludeFact(e) ==
  /\ Active(e)
  /\ exceptionClaim[e].verified
  /\ exceptionClaim' = [exceptionClaim EXCEPT
       ![e].fact = TRUE,
       ![e].status = IF exceptionClaim[e].status = "DETERMINATION_PROPOSED"
                     THEN "DETERMINATION_PROPOSED" ELSE "VERIFIED"]
  /\ UNCHANGED <<fulfillment, advances, returns, loss, liability, debt, debtClaim>>
-----------------------------------------------------------------------------
Total(share) == share["CUSTOMER"] + share["MERCHANT"]

Remaining(row) == row.compensable - row.stage9 - row.stage12

(* createDetermination on an active claim, or (createAdjustment) as the    *)
(* only successor of a determination that was finalized on this claim.     *)
DraftLiability(l, e, predecessor, share) ==
  /\ liability[l].status = "NONE"
  /\ IF predecessor = None
     THEN Active(e)
     ELSE /\ exceptionClaim[e].status = "FINALIZED"
          /\ liability[predecessor].status = "FINALIZED"
          /\ liability[predecessor].claim = e
          /\ \A m \in Liability : liability[m].adjusts # predecessor
  /\ exceptionClaim[e].fact
  /\ \A m \in Liability :
       liability[m].claim = e => liability[m].status \notin {"DRAFT", "PROPOSED"}
  /\ Total(share) \in 1 .. Remaining(loss[exceptionClaim[e].loss])
  /\ liability' = [liability EXCEPT ![l] =
       [status |-> "DRAFT", claim |-> e, adjusts |-> predecessor, share |-> share]]
  /\ UNCHANGED <<fulfillment, advances, returns, loss, exceptionClaim, debt, debtClaim>>

ProposeLiability(l) ==
  /\ liability[l].status = "DRAFT"
  /\ Active(liability[l].claim)
  /\ liability' = [liability EXCEPT ![l].status = "PROPOSED"]
  /\ exceptionClaim' =
       [exceptionClaim EXCEPT ![liability[l].claim].status = "DETERMINATION_PROPOSED"]
  /\ UNCHANGED <<fulfillment, advances, returns, loss, debt, debtClaim>>

(* evaluateStage9FinalizeGate: no return determination is under way, and   *)
(* none is still to come for goods that are back.                          *)
ReturnDecided ==
  /\ \A d \in Determination :
       determination[d].status \notin {"PROPOSED", "ACKNOWLEDGED", "DISPUTED"}
  /\ status = "returned" =>
       \E d \in Determination : determination[d].status = "FINALIZED"

(* What the obligations of the return pay for.                             *)
CoveredByReturn(k) ==
    (IF k = "CUSTOMER_PAYMENT_UNRECOVERED" THEN 0
     ELSE obligation["MERCHANT_TO_RIDER"].principal)
  + (IF k = "RIDER_ADVANCE_UNRECOVERED" THEN 0
     ELSE obligation["MERCHANT_TO_CUSTOMER"].principal)

(* importStage9Coverage: each obligation once, up to what is left to cover.*)
(* They all arise together, so the first import takes them all.            *)
Imported(k) ==
  [loss[k] EXCEPT !.stage9 =
     IF loss[k].stage9 > 0 THEN loss[k].stage9
     ELSE IF CoveredByReturn(k) <= Remaining(loss[k]) THEN CoveredByReturn(k)
     ELSE Remaining(loss[k])]

(* resolveCreditor: who bore the loss.                                     *)
Creditor(k) == IF k = "RIDER_ADVANCE_UNRECOVERED" /\ Live # {} THEN "RIDER"
               ELSE IF k = "CUSTOMER_PAYMENT_UNRECOVERED" THEN "CUSTOMER"
               ELSE "MERCHANT"

(* Nobody owes himself.                                                    *)
Debts(share, creditor) ==
  [p \in Debtor |-> IF p = creditor THEN NoObligation ELSE NewObligation(share[p])]

FinalizeLiability(l) ==
  LET e == liability[l].claim
      k == exceptionClaim[e].loss IN
  /\ liability[l].status \in {"DRAFT", "PROPOSED"}
  /\ ReturnDecided
  /\ Total(liability[l].share) <= Remaining(Imported(k))
  /\ liability' = [liability EXCEPT ![l].status = "FINALIZED"]
  /\ exceptionClaim' = [exceptionClaim EXCEPT ![e].status = "FINALIZED"]
  /\ loss' = [loss EXCEPT ![k] =
       [compensable |-> loss[k].compensable, stage9 |-> Imported(k).stage9,
        stage12 |-> loss[k].stage12 + Total(liability[l].share)]]
  /\ debt' = [debt EXCEPT ![l] = Debts(liability[l].share, Creditor(k))]
  /\ UNCHANGED <<fulfillment, advances, returns, debtClaim>>
-----------------------------------------------------------------------------
(* assertObligationExecutable: not once a finalized successor adjusts it.  *)
Payable(l, p, amount) ==
  /\ \A m \in Liability :
       liability[m].adjusts = l => liability[m].status # "FINALIZED"
  /\ amount <= Owed(debt[l][p])

(* claimTransfer, by the debtor.                                           *)
ClaimDebtPaid(x, l, p, amount) ==
  /\ debtClaim[x].status = "NONE"
  /\ Payable(l, p, amount)
  /\ debtClaim' = [debtClaim EXCEPT ![x] =
       [status |-> "CLAIMED", liability |-> l, debtor |-> p, amount |-> amount]]
  /\ UNCHANGED <<fulfillment, advances, returns, loss, exceptionClaim, liability, debt>>

(* recordCashReceipt, by the creditor.                                     *)
ReceiveDebtCash(l, p, amount) ==
  /\ Payable(l, p, amount)
  /\ debt' = [debt EXCEPT ![l][p] = Refreshed(debt[l][p], amount)]
  /\ UNCHANGED <<fulfillment, advances, returns, loss, exceptionClaim, liability, debtClaim>>

FaultyMayAcknowledgeDebt(x, amount) == amount <= debtClaim[x].amount

MayAcknowledgeDebt(x, amount) ==
  /\ amount <= debtClaim[x].amount
  /\ Payable(debtClaim[x].liability, debtClaim[x].debtor, amount)

(* acknowledge, by the creditor.                                           *)
AcknowledgeDebtPaid(x, amount) ==
  LET l == debtClaim[x].liability
      p == debtClaim[x].debtor IN
  /\ debtClaim[x].status = "CLAIMED"
  /\ MayAcknowledgeDebt(x, amount)
  /\ debtClaim' = [debtClaim EXCEPT ![x].status = "ACKNOWLEDGED"]
  /\ debt' = [debt EXCEPT ![l][p] = Refreshed(debt[l][p], amount)]
  /\ UNCHANGED <<fulfillment, advances, returns, loss, exceptionClaim, liability>>

(* reject, by the creditor, and cancelClaim, by the debtor.                *)
CloseDebtClaim(x, outcome) ==
  /\ debtClaim[x].status = "CLAIMED"
  /\ outcome \in {"REJECTED", "CANCELLED"}
  /\ debtClaim' = [debtClaim EXCEPT ![x].status = outcome]
  /\ UNCHANGED <<fulfillment, advances, returns, loss, exceptionClaim, liability, debt>>
=============================================================================
