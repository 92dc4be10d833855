----------------------------- MODULE OrderFinance -----------------------------
(***************************************************************************)
(* The money of one order: the rider's advance and its repayment by the    *)
(* customer, the return that moves the debt to the merchant, and the       *)
(* exception claims beside both, over one set of rows.  Every handler is a *)
(* Serializable transaction and so one step; a request that is denied or   *)
(* repeated under its idempotency key changes nothing.                     *)
(***************************************************************************)
EXTENDS ExceptionFinancial

vars == <<fulfillment, advances, returns, exceptions>>

Delivering ==
  \/ \E r \in Rider : AssignRider(r) \/ TransferCustody(r)
  \/ ConfirmPickup
  \/ \E outcome \in {"returned", "delivered"} : EndTrip(outcome)

Advancing ==
  \E a \in Advance :
    \/ \E max \in Amount : Authorize(a, max) \/ AmendMaximum(a, max)
    \/ Accept(a)
    \/ \E amount \in Amount : RecordAdvance(a, amount) \/ VendorAcknowledge(a, amount)
    \/ Cancel(a)

Reimbursing ==
  \/ \E a \in Advance, amount \in Amount :
       \/ ReceiveCash(a, amount)
       \/ \E c \in Claim : ClaimTransfer(c, a, amount)
  \/ \E c \in Claim : \/ \E amount \in Amount : AcknowledgeClaim(c, amount)
                      \/ RejectClaim(c)

Returning ==
  \/ \E d \in Determination :
       \/ \E qualifying \in BOOLEAN :
            \/ ProposeAdvancePath(d, qualifying)
            \/ \E refund \in Amount : ProposeOrdinaryPath(d, qualifying, refund)
       \/ AcknowledgeDetermination(d)
       \/ DisputeDetermination(d)
       \/ FinalizeWithoutMoney(d)
       \/ FinalizeOrdinary(d)
       \/ FinalizeAdvance(d)
  \/ \E o \in Obligation, amount \in Amount :
       \/ RepayCash(o, amount)
       \/ \E p \in RepaymentClaim : ClaimRepayment(p, o, amount)
  \/ \E p \in RepaymentClaim :
       \/ \E amount \in Amount : AcknowledgeRepayment(p, amount)
       \/ RejectRepayment(p)

Excepting ==
  \/ \E e \in ExceptionClaim :
       \/ \E k \in Loss, compensable \in Amount : OpenClaim(e, k, compensable)
       \/ AddEvidence(e)
       \/ VerifyEvidence(e)
       \/ ConcludeFact(e)
       \/ \E l \in Liability, m \in Liability \cup {None}, share \in [Debtor -> Money] :
            DraftLiability(l, e, m, share)
  \/ \E l \in Liability : ProposeLiability(l) \/ FinalizeLiability(l)
  \/ \E l \in Liability, p \in Debtor, amount \in Amount :
       \/ ReceiveDebtCash(l, p, amount)
       \/ \E x \in DebtClaim : ClaimDebtPaid(x, l, p, amount)
  \/ \E x \in DebtClaim :
       \/ \E amount \in Amount : AcknowledgeDebtPaid(x, amount)
       \/ \E outcome \in {"REJECTED", "CANCELLED"} : CloseDebtClaim(x, outcome)

Next == Delivering \/ Advancing \/ Reimbursing \/ Returning \/ Excepting

Spec == FinanceInit /\ [][Next]_vars
-----------------------------------------------------------------------------
(* Every row stays one of the rows the schema allows.                      *)
TypeOK == FinanceTypeOK

(* The agreed maximum binds: what a rider has spent is within the maximum  *)
(* of the version of the agreement that both he and the customer accepted. *)
AdvanceWithinTerms ==
  \A a \in Advance : advance[a].actual > 0 =>
    /\ advance[a].actual <= advance[a].max
    /\ advance[a].parties = {"CUSTOMER", "RIDER"}

(* The rider gets no more than his money back, from the customer and from  *)
(* the merchant together, however claims, receipts, acknowledgements and   *)
(* the finalization of a return interleave.                                *)
RiderRepaidOnce ==
  \A d \in Determination :
    LET a == determination[d].advance IN
    determination[d].status = "FINALIZED" /\ a # None =>
      advance[a].settled + obligation["MERCHANT_TO_RIDER"].settled
        <= advance[a].principal

(* Once the merchant has taken the debt over, the amount the customer has  *)
(* repaid is what the merchant refunds him, and the rest is what the       *)
(* merchant owes the rider: a transfer that was claimed before and is      *)
(* acknowledged after must not shift the balance.                          *)
RefundEqualsPaid ==
  \A d \in Determination :
    LET a == determination[d].advance IN
    /\ determination[d].status = "FINALIZED"
    /\ determination[d].qualifying
    /\ determination[d].path = "RIDER_ADVANCE"
    => /\ obligation["MERCHANT_TO_CUSTOMER"].principal = advance[a].settled
       /\ obligation["MERCHANT_TO_RIDER"].principal = Owed(advance[a])
       /\ restricted[a] = Owed(advance[a])

(* An advance is reimbursed only when it is repaid in full, and an         *)
(* established one that is repaid in full does not stay due.               *)
ReimbursedIffSettled ==
  \A a \in Advance :
    /\ advance[a].status = "REIMBURSED" => Owed(advance[a]) = 0
    /\ advance[a].status = "REIMBURSEMENT_DUE" => Owed(advance[a]) > 0

SettledExactly(row) ==
  /\ row.settled <= row.principal
  /\ row.status = "SETTLED" <=> row.principal > 0 /\ row.settled = row.principal

(* Neither an obligation of a return nor one of an exception is ever paid  *)
(* beyond its principal, and it is settled exactly when it is paid.        *)
ObligationsSettledExactly ==
  /\ \A o \in Obligation : SettledExactly(obligation[o])
  /\ \A l \in Liability, p \in Debtor : SettledExactly(debt[l][p])

(* A loss is never compensated twice: what a return pays for it and what   *)
(* exception determinations allot for it stay together within the loss,    *)
(* whichever came first.                                                   *)
NoDoubleCompensation ==
  \A k \in Loss : loss[k].stage12 > 0 =>
    loss[k].stage12 + CoveredByReturn(k) <= loss[k].compensable

(* A rider who has bought the goods keeps his claim to be repaid: cancel   *)
(* moves an advance to DISPUTED rather than erase it.                      *)
ObligationPreserved ==
  \A a \in Advance : advance[a].principal > 0 => advance[a].status # "CANCELLED"
=============================================================================
