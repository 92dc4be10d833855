-------------------------- MODULE OrderFinanceProofs --------------------------
(***************************************************************************)
(* Proofs about the money of an order, for any number of advances, claims, *)
(* determinations, losses and debts.  The inductive invariant has a part   *)
(* for each area of rows:                                                  *)
(*   AdvanceSound   an advance row carries the money its status allows,    *)
(*   ReturnSound    at most one determination is final, and obligations    *)
(*                  exist only by it,                                      *)
(*   DebtSound      claims, liabilities and debts refer to rows that exist,*)
(*   LossSound      what covers a loss stays within it,                    *)
(* and RefundSound, which ties the advance to the return.  Nearly          *)
(* every action leaves most areas alone: the frame lemmas say which.       *)
(***************************************************************************)
EXTENDS OrderFinance, TLAPS

(* What the columns of an advance may hold, by its status.                 *)
RowSound(row) ==
  /\ row.settled <= row.principal
  /\ row.status \in PreExpenditure \cup {"NONE"} => row.actual = 0
  /\ row.status \in PreExpenditure \cup {"NONE", "ADVANCE_RECORDED"} => row.principal = 0
  /\ row.status = "CUSTOMER_AUTHORIZED" => row.parties = {"CUSTOMER"}
  /\ row.status = "RIDER_ACCEPTED" => row.parties = {"CUSTOMER", "RIDER"}
  /\ row.actual > 0 => /\ row.actual <= row.max
                       /\ row.parties = {"CUSTOMER", "RIDER"}
  /\ row.status = "REIMBURSED" => row.settled = row.principal
  /\ row.status = "REIMBURSEMENT_DUE" => row.settled < row.principal

SoundAdvance == {row \in AdvanceRow : RowSound(row)}

SoundClaim == {row \in ClaimRow : row.status # "NONE" => row.advance \in Advance}

AdvanceSound ==
  /\ status \in {"ready_for_pickup", "rider_assigned", "mid_possession",
                 "returned", "delivered"}
  /\ activeRider \in Rider \cup {None}
  /\ version \in 0 .. MaxVersion
  /\ advance \in [Advance -> SoundAdvance]
  /\ claim \in [Claim -> SoundClaim]

SoundObligation == {row \in ObligationRow : SettledExactly(row)}

Monetized == \E d \in Determination : /\ determination[d].status = "FINALIZED"
                                      /\ determination[d].qualifying

ReturnSound ==
  /\ determination \in [Determination -> DeterminationRow]
  /\ obligation \in [Obligation -> SoundObligation]
  /\ restricted \in [Advance -> Money]
  /\ repayment \in [RepaymentClaim -> RepaymentRow]
  /\ \A d, e \in Determination : /\ determination[d].status = "FINALIZED"
                                 /\ determination[e].status = "FINALIZED"
                                 => d = e
  /\ \A d \in Determination : determination[d].path = "ORDINARY_MERCHANT_PAYMENT"
                                => determination[d].advance = None
  /\ ~Monetized => \A o \in Obligation : obligation[o].principal = 0

(* The debt that a final determination has moved exists.                   *)
RefundSound ==
  /\ RefundEqualsPaid
  /\ \A d \in Determination :
       /\ determination[d].status = "FINALIZED"
       /\ determination[d].qualifying
       /\ determination[d].path = "RIDER_ADVANCE"
       => /\ determination[d].advance \in Advance
          /\ advance[determination[d].advance].principal > 0

SoundExceptionClaim == {row \in ExceptionClaimRow : row.status # "NONE" => row.loss \in Loss}

SoundLiability ==
  {row \in LiabilityRow : row.status # "NONE" => /\ row.claim \in ExceptionClaim
                                                 /\ Total(row.share) >= 1}

SoundDebtClaim == {row \in DebtClaimRow : row.status # "NONE" => row.liability \in Liability}

DebtSound ==
  /\ exceptionClaim \in [ExceptionClaim -> SoundExceptionClaim]
  /\ liability \in [Liability -> SoundLiability]
  /\ debt \in [Liability -> [Debtor -> SoundObligation]]
  /\ debtClaim \in [DebtClaim -> SoundDebtClaim]
  /\ \A l \in Liability : liability[l].status # "NONE" =>
       exceptionClaim[liability[l].claim].status # "NONE"

LossSound ==
  /\ loss \in [Loss -> LossRow]
  /\ \A k \in Loss :
       /\ loss[k].stage9 + loss[k].stage12 <= loss[k].compensable
       /\ loss[k].stage9 > 0 => loss[k].stage9 = CoveredByReturn(k)
  /\ NoDoubleCompensation

Inv == AdvanceSound /\ ReturnSound /\ RefundSound /\ DebtSound /\ LossSound
-----------------------------------------------------------------------------
(* Frames: what each group of handlers leaves alone.                       *)
LEMMA DeliveringFrame == Delivering => UNCHANGED <<claim, returns, exceptions>>
BY DEF Delivering, AssignRider, TransferCustody, ConfirmPickup, EndTrip,
       advances, returns, exceptions

LEMMA AdvancingFrame == Advancing => UNCHANGED <<fulfillment, claim, returns, exceptions>>
BY DEF Advancing, Authorize, AmendMaximum, Accept, RecordAdvance, VendorAcknowledge, Cancel

LEMMA ReimbursingFrame == Reimbursing => UNCHANGED <<fulfillment, returns, exceptions>>
BY DEF Reimbursing, ReceiveCash, ClaimTransfer, AcknowledgeClaim, RejectClaim

LEMMA ReturningFrame == Returning => UNCHANGED <<fulfillment, advances, exceptions>>
BY DEF Returning, ProposeAdvancePath, ProposeOrdinaryPath, AcknowledgeDetermination,
       DisputeDetermination, FinalizeWithoutMoney, FinalizeOrdinary, FinalizeAdvance,
       RepayCash, ClaimRepayment, AcknowledgeRepayment, RejectRepayment

LEMMA ExceptingFrame == Excepting => UNCHANGED <<fulfillment, advances, returns>>
BY DEF Excepting, OpenClaim, AddEvidence, VerifyEvidence, ConcludeFact, DraftLiability,
       ProposeLiability, FinalizeLiability, ReceiveDebtCash, ClaimDebtPaid,
       AcknowledgeDebtPaid, CloseDebtClaim
-----------------------------------------------------------------------------
(* Rows: each update of an advance keeps it sound.                         *)
LEMMA AmendedSound ==
  ASSUME NEW row \in SoundAdvance, NEW max \in Amount,
         row.status \in PreExpenditure, row.edition < MaxEdition
  PROVE  Amended(row, max) \in SoundAdvance
<1>1. row \in AdvanceRow /\ RowSound(row)
  BY DEF SoundAdvance
<1>2. max \in Money /\ row.edition + 1 \in 0 .. MaxEdition
  BY <1>1, FinanceConstants DEF AdvanceRow, Amount, Money
<1>3. Amended(row, max) \in AdvanceRow
  BY <1>1, <1>2 DEF Amended, AdvanceRow, AdvanceStatus
<1>4. RowSound(Amended(row, max))
  BY <1>1 DEF Amended, AdvanceRow, AdvanceStatus, RowSound, PreExpenditure, Money
<1> QED BY <1>3, <1>4 DEF SoundAdvance

LEMMA SettledBySound ==
  ASSUME NEW row \in SoundAdvance, NEW amount \in Amount, amount <= Owed(row),
         row.status \in {"REIMBURSEMENT_DUE", "DISPUTED"}
  PROVE  SettledBy(row, amount) \in SoundAdvance
<1>1. row \in AdvanceRow /\ RowSound(row)
  BY DEF SoundAdvance
<1>2. row.principal \in Money /\ row.settled \in Money /\ MaxAmount \in Nat
  BY <1>1, FinanceConstants DEF AdvanceRow
<1>3. row.settled + amount \in Money /\ row.settled + amount <= row.principal
  BY <1>2 DEF Owed, Money, Amount
<1>4. SettledBy(row, amount) \in AdvanceRow
  BY <1>1, <1>3 DEF SettledBy, AdvanceRow, AdvanceStatus
<1>5. RowSound(SettledBy(row, amount))
  BY <1>1, <1>2, <1>3 DEF SettledBy, AdvanceRow, AdvanceStatus, RowSound, PreExpenditure,
                          Money, Amount
<1> QED BY <1>4, <1>5 DEF SoundAdvance

LEMMA AfterReassignmentSound ==
  ASSUME NEW row \in SoundAdvance
  PROVE  AfterReassignment(row) \in SoundAdvance
BY DEF SoundAdvance, AfterReassignment, AdvanceRow, AdvanceStatus, RowSound, PreExpenditure

LEMMA RefreshedSound ==
  ASSUME NEW row \in SoundObligation, NEW amount \in Amount, amount <= Owed(row)
  PROVE  /\ Refreshed(row, amount) \in SoundObligation
         /\ Refreshed(row, amount).principal = row.principal
<1>1. row \in ObligationRow /\ SettledExactly(row)
  BY DEF SoundObligation
<1>2. row.principal \in Money /\ row.settled \in Money /\ MaxAmount \in Nat
  BY <1>1, FinanceConstants DEF ObligationRow
<1>3. row.settled + amount \in Money /\ row.settled + amount <= row.principal
  BY <1>2 DEF Owed, Money, Amount
<1>4. Refreshed(row, amount) \in ObligationRow
  BY <1>1, <1>3 DEF Refreshed, ObligationRow
<1>5. SettledExactly(Refreshed(row, amount))
  BY <1>1, <1>2, <1>3 DEF Refreshed, ObligationRow, SettledExactly, Money, Amount
<1> QED BY <1>1, <1>4, <1>5 DEF SoundObligation, Refreshed, ObligationRow

LEMMA NewObligationSound ==
  ASSUME NEW principal \in Money
  PROVE  /\ NewObligation(principal) \in SoundObligation
         /\ NewObligation(principal).principal = principal
BY FinanceConstants DEF NewObligation, NoObligation, SoundObligation, ObligationRow,
                        SettledExactly, Money

LEMMA OwedInMoney ==
  ASSUME NEW row \in SoundAdvance
  PROVE  /\ Owed(row) \in Money
         /\ row.principal \in Money /\ row.settled \in Money
BY FinanceConstants DEF SoundAdvance, RowSound, AdvanceRow, Owed, Money
-----------------------------------------------------------------------------
(* Advances.                                                               *)
LEMMA DeliveringAdvance == AdvanceSound /\ Delivering => AdvanceSound'
<1> SUFFICES ASSUME AdvanceSound, Delivering PROVE AdvanceSound'
  OBVIOUS
<1> USE DEF AdvanceSound
<1>0. claim' = claim
  BY DeliveringFrame
<1>1. version + 1 \in 0 .. MaxVersion \/ version = MaxVersion
  BY FinanceConstants
<1>2. ASSUME NEW r \in Rider, AssignRider(r) \/ TransferCustody(r) PROVE AdvanceSound'
  <2>1. advance' = [a \in Advance |-> AfterReassignment(advance[a])]
    BY <1>2 DEF AssignRider, TransferCustody
  <2>2. advance' \in [Advance -> SoundAdvance]
    BY <2>1, AfterReassignmentSound
  <2>3. version' \in 0 .. MaxVersion
    BY <1>1, <1>2, FinanceConstants DEF AssignRider, TransferCustody
  <2> QED BY <1>0, <1>2, <2>2, <2>3 DEF AssignRider, TransferCustody
<1>3. CASE ConfirmPickup
  BY <1>0, <1>3 DEF ConfirmPickup, advances
<1>4. ASSUME NEW outcome \in {"returned", "delivered"}, EndTrip(outcome)
      PROVE  AdvanceSound'
  BY <1>0, <1>4 DEF EndTrip, advances
<1> QED BY <1>2, <1>3, <1>4 DEF Delivering

LEMMA AdvancingAdvance == AdvanceSound /\ Advancing => AdvanceSound'
<1> SUFFICES ASSUME AdvanceSound, Advancing PROVE advance' \in [Advance -> SoundAdvance]
  BY AdvancingFrame DEF AdvanceSound, fulfillment
<1> USE DEF AdvanceSound
<1> PICK a \in Advance :
      \/ \E max \in Amount : Authorize(a, max) \/ AmendMaximum(a, max)
      \/ Accept(a)
      \/ \E amount \in Amount : RecordAdvance(a, amount) \/ VendorAcknowledge(a, amount)
      \/ Cancel(a)
  BY DEF Advancing
<1>1. ASSUME NEW row \in SoundAdvance, advance' = [advance EXCEPT ![a] = row]
      PROVE  advance' \in [Advance -> SoundAdvance]
  BY <1>1
<1>2. advance[a] \in AdvanceRow /\ RowSound(advance[a])
  BY DEF SoundAdvance
<1>3. ASSUME NEW max \in Amount, Authorize(a, max)
      PROVE  advance' \in [Advance -> SoundAdvance]
  <2> DEFINE row == [status |-> "CUSTOMER_AUTHORIZED", rider |-> activeRider,
                     version |-> version, max |-> max, edition |-> 1,
                     parties |-> {"CUSTOMER"}, actual |-> 0, principal |-> 0,
                     settled |-> 0]
  <2>1. max \in Money /\ 0 \in Money /\ 1 \in 0 .. MaxEdition
    BY FinanceConstants DEF Amount, Money
  <2>2. row \in AdvanceRow
    BY <2>1 DEF AdvanceRow, AdvanceStatus
  <2>3. RowSound(row)
    BY DEF RowSound, PreExpenditure
  <2>4. advance' = [advance EXCEPT ![a] = row]
    BY <1>3 DEF Authorize
  <2> HIDE DEF row
  <2> QED BY <1>1, <2>2, <2>3, <2>4 DEF SoundAdvance
<1>4. ASSUME NEW max \in Amount, AmendMaximum(a, max)
      PROVE  advance' \in [Advance -> SoundAdvance]
  <2>1. Amended(advance[a], max) \in SoundAdvance
    BY <1>4, AmendedSound DEF AmendMaximum
  <2> QED BY <1>1, <1>4, <2>1 DEF AmendMaximum
<1>5. CASE Accept(a)
  <2> DEFINE row == [advance[a] EXCEPT !.status = "RIDER_ACCEPTED",
                                       !.parties = advance[a].parties \cup {"RIDER"}]
  <2>1. advance' = [advance EXCEPT ![a] = row]
    BY <1>5 DEF Accept
  <2>2. row \in AdvanceRow
    BY <1>2 DEF AdvanceRow, AdvanceStatus
  <2>3. RowSound(row)
    BY <1>2, <1>5 DEF Accept, RowSound, PreExpenditure, AdvanceRow, AdvanceStatus
  <2> HIDE DEF row
  <2> QED BY <1>1, <2>1, <2>2, <2>3 DEF SoundAdvance
<1>6. ASSUME NEW amount \in Amount, RecordAdvance(a, amount)
      PROVE  advance' \in [Advance -> SoundAdvance]
  <2> DEFINE row == [advance[a] EXCEPT !.status = "ADVANCE_RECORDED", !.actual = amount]
  <2>1. advance' = [advance EXCEPT ![a] = row]
    BY <1>6 DEF RecordAdvance
  <2>2. amount \in Money
    BY FinanceConstants DEF Amount, Money
  <2>3. row \in AdvanceRow
    BY <1>2, <2>2 DEF AdvanceRow, AdvanceStatus
  <2>4. RowSound(row)
    BY <1>2, <1>6 DEF RecordAdvance, RowSound, PreExpenditure, AdvanceRow, AdvanceStatus
  <2> HIDE DEF row
  <2> QED BY <1>1, <2>1, <2>3, <2>4 DEF SoundAdvance
<1>7. ASSUME NEW amount \in Amount, VendorAcknowledge(a, amount)
      PROVE  advance' \in [Advance -> SoundAdvance]
  <2> DEFINE row == IF amount = advance[a].actual
                    THEN [advance[a] EXCEPT !.status = "REIMBURSEMENT_DUE",
                                            !.principal = amount]
                    ELSE [advance[a] EXCEPT !.status = "DISPUTED"]
  <2>1. advance' = [advance EXCEPT ![a] = row]
    BY <1>7 DEF VendorAcknowledge
  <2>2. amount \in Money /\ amount \in Nat /\ amount > 0
    BY FinanceConstants DEF Amount, Money
  <2>3. row \in AdvanceRow
    BY <1>2, <2>2 DEF AdvanceRow, AdvanceStatus
  <2>4. advance[a].principal = 0 /\ advance[a].settled <= 0
    BY <1>2, <1>7 DEF VendorAcknowledge, RowSound
  <2>5. advance[a].settled \in Nat
    BY ONLY <1>2, FinanceConstants DEF AdvanceRow, Money
  <2>6. advance[a].settled = 0
    BY <2>4, <2>5
  <2>7. ASSUME amount = advance[a].actual PROVE RowSound(row)
    <3>1. /\ row.status = "REIMBURSEMENT_DUE" /\ row.principal = amount
          /\ row.settled = 0 /\ row.actual = amount
          /\ row.max = advance[a].max /\ row.parties = advance[a].parties
      BY <1>2, <2>6, <2>7 DEF AdvanceRow, row
    <3> HIDE DEF row
    <3> QED BY <1>2, <2>2, <2>7, <3>1 DEF RowSound, PreExpenditure
  <2>8. ASSUME amount # advance[a].actual PROVE RowSound(row)
    <3>1. /\ row.status = "DISPUTED" /\ row.principal = 0
          /\ row.settled = 0 /\ row.actual = advance[a].actual
          /\ row.max = advance[a].max /\ row.parties = advance[a].parties
      BY <1>2, <2>4, <2>6, <2>8 DEF AdvanceRow, row
    <3> HIDE DEF row
    <3> QED BY <1>2, <3>1 DEF RowSound, PreExpenditure
  <2> HIDE DEF row
  <2> QED BY <1>1, <2>1, <2>3, <2>7, <2>8 DEF SoundAdvance
<1>8. CASE Cancel(a)
  <2> DEFINE row == [advance[a] EXCEPT !.status =
                       IF advance[a].status \in PostExpenditure
                       THEN "DISPUTED" ELSE "CANCELLED"]
  <2>1. advance' = [advance EXCEPT ![a] = row]
    BY <1>8 DEF Cancel
  <2>2. row \in AdvanceRow
    BY <1>2 DEF AdvanceRow, AdvanceStatus
  <2>3. RowSound(row)
    BY <1>2 DEF RowSound, PreExpenditure, AdvanceRow, AdvanceStatus
  <2> HIDE DEF row
  <2> QED BY <1>1, <2>1, <2>2, <2>3 DEF SoundAdvance
<1> QED BY <1>3, <1>4, <1>5, <1>6, <1>7, <1>8

LEMMA ReimbursingAdvance == AdvanceSound /\ Reimbursing => AdvanceSound'
<1> SUFFICES ASSUME AdvanceSound, Reimbursing
             PROVE  /\ advance' \in [Advance -> SoundAdvance]
                    /\ claim' \in [Claim -> SoundClaim]
  BY ReimbursingFrame DEF AdvanceSound, fulfillment
<1> USE DEF AdvanceSound
<1>1. ASSUME NEW a \in Advance, NEW amount \in Amount, MayCollect(a, amount)
      PROVE  [advance EXCEPT ![a] = SettledBy(advance[a], amount)]
               \in [Advance -> SoundAdvance]
  <2>1. SettledBy(advance[a], amount) \in SoundAdvance
    BY <1>1, SettledBySound DEF MayCollect, Settleable
  <2> QED BY <2>1
<1>2. ASSUME NEW a \in Advance, NEW amount \in Amount, ReceiveCash(a, amount)
      PROVE  /\ advance' \in [Advance -> SoundAdvance]
             /\ claim' \in [Claim -> SoundClaim]
  BY <1>1, <1>2 DEF ReceiveCash
<1>3. ASSUME NEW c \in Claim, NEW a \in Advance, NEW amount \in Amount,
             ClaimTransfer(c, a, amount)
      PROVE  /\ advance' \in [Advance -> SoundAdvance]
             /\ claim' \in [Claim -> SoundClaim]
  <2> DEFINE new == [status |-> "CLAIMED", advance |-> a, amount |-> amount]
  <2>1. amount \in Money
    BY FinanceConstants DEF Amount, Money
  <2>2. new \in SoundClaim
    BY <2>1 DEF SoundClaim, ClaimRow, ClaimStatus
  <2>3. claim' = [claim EXCEPT ![c] = new] /\ advance' = advance
    BY <1>3 DEF ClaimTransfer
  <2> HIDE DEF new
  <2> QED BY <2>2, <2>3
<1>4. ASSUME NEW c \in Claim, claim[c].status = "CLAIMED",
             NEW s \in {"ACKNOWLEDGED", "REJECTED"},
             claim' = [claim EXCEPT ![c].status = s]
      PROVE  claim' \in [Claim -> SoundClaim]
  <2>1. claim[c] \in SoundClaim
    OBVIOUS
  <2>2. [claim[c] EXCEPT !.status = s] \in SoundClaim
    BY <1>4, <2>1 DEF SoundClaim, ClaimRow, ClaimStatus
  <2> QED BY <1>4, <2>2
<1>5. ASSUME NEW c \in Claim, NEW amount \in Amount, AcknowledgeClaim(c, amount)
      PROVE  /\ advance' \in [Advance -> SoundAdvance]
             /\ claim' \in [Claim -> SoundClaim]
  <2>1. claim[c].advance \in Advance
    BY <1>5 DEF AcknowledgeClaim, SoundClaim
  <2> QED BY <1>1, <1>4, <1>5, <2>1 DEF AcknowledgeClaim, MayAcknowledge
<1>6. ASSUME NEW c \in Claim, RejectClaim(c)
      PROVE  /\ advance' \in [Advance -> SoundAdvance]
             /\ claim' \in [Claim -> SoundClaim]
  BY <1>4, <1>6 DEF RejectClaim
<1> QED BY <1>2, <1>3, <1>5, <1>6 DEF Reimbursing

LEMMA AdvanceStep == AdvanceSound /\ [Next]_vars => AdvanceSound'
<1>1. AdvanceSound /\ UNCHANGED <<fulfillment, advances>> => AdvanceSound'
  BY DEF AdvanceSound, fulfillment, advances
<1> QED BY <1>1, DeliveringAdvance, AdvancingAdvance, ReimbursingAdvance,
           ReturningFrame, ExceptingFrame DEF Next, vars
-----------------------------------------------------------------------------
(* Returns.                                                                *)
LEMMA NewObligationsSound ==
  ASSUME NEW r \in Money, NEW t \in Money
  PROVE  /\ NewObligations(r, t) \in [Obligation -> SoundObligation]
         /\ NewObligations(r, t)["MERCHANT_TO_RIDER"].principal = r
         /\ NewObligations(r, t)["MERCHANT_TO_CUSTOMER"].principal = t
<1> USE DEF NewObligations, Obligation
<1>1. \A o \in Obligation : NewObligations(r, t)[o] \in SoundObligation
  BY NewObligationSound
<1>2. NewObligations(r, t) \in [Obligation -> SoundObligation]
  BY <1>1
<1> QED BY <1>2, NewObligationSound

(* Payments of the obligations leave their principals.                     *)
Repaying ==
  \/ \E o \in Obligation, amount \in Amount :
       \/ RepayCash(o, amount)
       \/ \E p \in RepaymentClaim : ClaimRepayment(p, o, amount)
  \/ \E p \in RepaymentClaim :
       \/ \E amount \in Amount : AcknowledgeRepayment(p, amount)
       \/ RejectRepayment(p)

LEMMA RepayingRows ==
  ASSUME ReturnSound, Repaying
  PROVE  /\ obligation' \in [Obligation -> SoundObligation]
         /\ \A o \in Obligation : obligation'[o].principal = obligation[o].principal
         /\ repayment' \in [RepaymentClaim -> RepaymentRow]
         /\ UNCHANGED <<fulfillment, advances, determination, restricted, exceptions>>
<1> USE DEF ReturnSound
<1>1. ASSUME NEW o \in Obligation, NEW amount \in Amount, amount <= Owed(obligation[o]),
             obligation' = [obligation EXCEPT ![o] = Refreshed(obligation[o], amount)]
      PROVE  /\ obligation' \in [Obligation -> SoundObligation]
             /\ \A u \in Obligation : obligation'[u].principal = obligation[u].principal
  BY <1>1, RefreshedSound
<1>2. ASSUME NEW o \in Obligation, NEW amount \in Amount, RepayCash(o, amount)
      PROVE  /\ obligation' \in [Obligation -> SoundObligation]
             /\ \A u \in Obligation : obligation'[u].principal = obligation[u].principal
             /\ repayment' = repayment
             /\ UNCHANGED <<fulfillment, advances, determination, restricted, exceptions>>
  BY <1>1, <1>2 DEF RepayCash
<1>3. ASSUME NEW o \in Obligation, NEW amount \in Amount, NEW p \in RepaymentClaim,
             ClaimRepayment(p, o, amount)
      PROVE  /\ obligation' = obligation
             /\ repayment' \in [RepaymentClaim -> RepaymentRow]
             /\ UNCHANGED <<fulfillment, advances, determination, restricted, exceptions>>
  <2> DEFINE new == [status |-> "CLAIMED", obligation |-> o, amount |-> amount]
  <2>1. amount \in Money
    BY FinanceConstants DEF Amount, Money
  <2>2. new \in RepaymentRow
    BY <2>1 DEF RepaymentRow, ClaimStatus
  <2>3. repayment' = [repayment EXCEPT ![p] = new]
    BY <1>3 DEF ClaimRepayment
  <2> HIDE DEF new
  <2> QED BY <1>3, <2>2, <2>3 DEF ClaimRepayment
<1>4. ASSUME NEW p \in RepaymentClaim, NEW s \in {"ACKNOWLEDGED", "REJECTED"},
             repayment' = [repayment EXCEPT ![p].status = s]
      PROVE  repayment' \in [RepaymentClaim -> RepaymentRow]
  <2>1. [repayment[p] EXCEPT !.status = s] \in RepaymentRow
    BY DEF RepaymentRow, ClaimStatus
  <2> QED BY <1>4, <2>1
<1>5. ASSUME NEW p \in RepaymentClaim, NEW amount \in Amount, AcknowledgeRepayment(p, amount)
      PROVE  /\ obligation' \in [Obligation -> SoundObligation]
             /\ \A u \in Obligation : obligation'[u].principal = obligation[u].principal
             /\ repayment' \in [RepaymentClaim -> RepaymentRow]
             /\ UNCHANGED <<fulfillment, advances, determination, restricted, exceptions>>
  <2>1. repayment[p].obligation \in Obligation
    BY DEF RepaymentRow
  <2> QED BY <1>1, <1>4, <1>5, <2>1 DEF AcknowledgeRepayment, RepaymentDue
<1>6. ASSUME NEW p \in RepaymentClaim, RejectRepayment(p)
      PROVE  /\ obligation' = obligation
             /\ repayment' \in [RepaymentClaim -> RepaymentRow]
             /\ UNCHANGED <<fulfillment, advances, determination, restricted, exceptions>>
  BY <1>4, <1>6 DEF RejectRepayment
<1> QED BY <1>2, <1>3, <1>5, <1>6 DEF Repaying

(* The determination alone changes, and none becomes final with money.     *)
Deliberating ==
  \E d \in Determination :
    \/ \E qualifying \in BOOLEAN :
         \/ ProposeAdvancePath(d, qualifying)
         \/ \E refund \in Amount : ProposeOrdinaryPath(d, qualifying, refund)
    \/ AcknowledgeDetermination(d)
    \/ DisputeDetermination(d)
    \/ FinalizeWithoutMoney(d)

LEMMA DeliberatingRows ==
  ASSUME ReturnSound, AdvanceSound, Deliberating
  PROVE  /\ determination' \in [Determination -> DeterminationRow]
         /\ UNCHANGED <<fulfillment, advances, obligation, restricted, repayment, exceptions>>
         /\ \A d \in Determination :
              determination'[d].path = "ORDINARY_MERCHANT_PAYMENT"
                => determination'[d].advance = None
         /\ \A d, e \in Determination : /\ determination'[d].status = "FINALIZED"
                                        /\ determination'[e].status = "FINALIZED"
                                        => d = e
         /\ \A d \in Determination :
              /\ determination'[d].status = "FINALIZED"
              /\ determination'[d].qualifying
              => determination'[d] = determination[d]
         /\ \A d \in Determination :
              determination[d].status = "FINALIZED" => determination'[d] = determination[d]
<1> USE DEF ReturnSound
<1> PICK d \in Determination :
      \/ \E qualifying \in BOOLEAN :
           \/ ProposeAdvancePath(d, qualifying)
           \/ \E refund \in Amount : ProposeOrdinaryPath(d, qualifying, refund)
      \/ AcknowledgeDetermination(d)
      \/ DisputeDetermination(d)
      \/ FinalizeWithoutMoney(d)
  BY DEF Deliberating
<1>1. UNCHANGED <<fulfillment, advances, obligation, restricted, repayment, exceptions>>
  BY DEF ProposeAdvancePath, ProposeOrdinaryPath, AcknowledgeDetermination,
         DisputeDetermination, FinalizeWithoutMoney
<1> DEFINE Allowed(row) ==
       /\ determination' = [determination EXCEPT ![d] = row]
       /\ determination[d].status # "FINALIZED"
       /\ row.path = "ORDINARY_MERCHANT_PAYMENT" => row.advance = None
       /\ row.status = "FINALIZED" =>
            /\ ~row.qualifying
            /\ \A e \in Determination : determination[e].status # "FINALIZED"
<1>2. \E row \in DeterminationRow : Allowed(row)
  <2>1. ASSUME NEW qualifying \in BOOLEAN, ProposeAdvancePath(d, qualifying)
        PROVE  \E row \in DeterminationRow : Allowed(row)
    <3>1. PICK a \in Advance \cup {None} : determination' = [determination EXCEPT ![d] =
                 [status |-> "PROPOSED", path |-> "RIDER_ADVANCE",
                  qualifying |-> qualifying, advance |-> a, refund |-> 0]]
      BY <2>1 DEF ProposeAdvancePath, Live
    <3> DEFINE row == [status |-> "PROPOSED", path |-> "RIDER_ADVANCE",
                       qualifying |-> qualifying, advance |-> a, refund |-> 0]
    <3>2. 0 \in Money
      BY FinanceConstants DEF Money
    <3>3. row \in DeterminationRow
      BY <3>2 DEF DeterminationRow, DeterminationStatus
    <3>4. Allowed(row)
      BY <2>1, <3>1 DEF ProposeAdvancePath
    <3> QED BY <3>3, <3>4
  <2>2. ASSUME NEW qualifying \in BOOLEAN, NEW refund \in Amount,
               ProposeOrdinaryPath(d, qualifying, refund)
        PROVE  \E row \in DeterminationRow : Allowed(row)
    <3> DEFINE row == [status |-> "PROPOSED", path |-> "ORDINARY_MERCHANT_PAYMENT",
                       qualifying |-> qualifying, advance |-> None, refund |-> refund]
    <3>1. refund \in Money
      BY FinanceConstants DEF Money, Amount
    <3>2. row \in DeterminationRow
      BY <3>1 DEF DeterminationRow, DeterminationStatus
    <3>3. Allowed(row)
      BY <2>2 DEF ProposeOrdinaryPath
    <3> QED BY <3>2, <3>3
  <2>3. ASSUME NEW s \in {"ACKNOWLEDGED", "DISPUTED", "FINALIZED"},
               determination' = [determination EXCEPT ![d].status = s],
               determination[d].status # "FINALIZED",
               s = "FINALIZED" =>
                 /\ ~determination[d].qualifying
                 /\ \A e \in Determination : determination[e].status # "FINALIZED"
        PROVE  \E row \in DeterminationRow : Allowed(row)
    <3> DEFINE row == [determination[d] EXCEPT !.status = s]
    <3>1. row \in DeterminationRow
      BY DEF DeterminationRow, DeterminationStatus
    <3>2. /\ row.status = s /\ row.path = determination[d].path
          /\ row.advance = determination[d].advance
          /\ row.qualifying = determination[d].qualifying
      BY DEF DeterminationRow
    <3>3. determination' = [determination EXCEPT ![d] = row]
      BY <2>3
    <3> HIDE DEF row
    <3> QED BY <2>3, <3>1, <3>2, <3>3
  <2>4. CASE AcknowledgeDetermination(d)
    BY <2>3, <2>4 DEF AcknowledgeDetermination
  <2>5. CASE DisputeDetermination(d)
    BY <2>3, <2>5 DEF DisputeDetermination
  <2>6. CASE FinalizeWithoutMoney(d)
    BY <2>3, <2>6 DEF FinalizeWithoutMoney, MayFinalize
  <2> QED BY <2>1, <2>2, <2>4, <2>5, <2>6
<1>3. PICK row \in DeterminationRow : Allowed(row)
  BY <1>2
<1>4. determination'[d] = row
  BY <1>3
<1>5. \A e \in Determination \ {d} : determination'[e] = determination[e]
  BY <1>3
<1> QED BY <1>1, <1>3, <1>4, <1>5

LEMMA ReturningCases ==
  Returning => \/ Deliberating \/ Repaying
               \/ \E d \in Determination : FinalizeOrdinary(d) \/ FinalizeAdvance(d)
BY DEF Returning, Deliberating, Repaying

(* A determination becomes final with what it owes, and is the only one.   *)
LEMMA FinalizeOrdinaryRows ==
  ASSUME ReturnSound, AdvanceSound, NEW d \in Determination, FinalizeOrdinary(d)
  PROVE  /\ ReturnSound'
         /\ determination'[d].qualifying
         /\ \A e \in Determination :
              determination'[e].status = "FINALIZED"
                => determination'[e].path = "ORDINARY_MERCHANT_PAYMENT"
         /\ obligation'["MERCHANT_TO_RIDER"].principal = 0
         /\ \A k \in Loss : loss[k].stage12 > 0 =>
              \/ k = "RIDER_ADVANCE_UNRECOVERED"
              \/ obligation'["MERCHANT_TO_CUSTOMER"].principal = 0
<1> USE DEF ReturnSound
<1>1. determination[d] \in DeterminationRow
  OBVIOUS
<1>2. determination[d].refund \in Money /\ 0 \in Money /\ MaxAmount \in Nat
  BY <1>1, FinanceConstants DEF DeterminationRow, Money
<1>3. obligation' = NewObligations(0, determination[d].refund)
  BY DEF FinalizeOrdinary
<1>4. /\ obligation' \in [Obligation -> SoundObligation]
      /\ obligation'["MERCHANT_TO_RIDER"].principal = 0
      /\ obligation'["MERCHANT_TO_CUSTOMER"].principal = determination[d].refund
  BY <1>2, <1>3, NewObligationsSound
<1> DEFINE row == [determination[d] EXCEPT !.status = "FINALIZED"]
<1>5. /\ row \in DeterminationRow /\ row.status = "FINALIZED"
      /\ row.path = determination[d].path
      /\ row.advance = determination[d].advance
      /\ row.qualifying = determination[d].qualifying
  BY <1>1 DEF DeterminationRow, DeterminationStatus
<1>6. determination' = [determination EXCEPT ![d] = row]
  BY DEF FinalizeOrdinary
<1> HIDE DEF row
<1>7. /\ determination'[d] = row
      /\ \A e \in Determination \ {d} : determination'[e] = determination[e]
      /\ determination' \in [Determination -> DeterminationRow]
  BY <1>5, <1>6
<1>8. /\ \A e \in Determination : determination[e].status # "FINALIZED"
      /\ determination[d].qualifying
      /\ determination[d].path = "ORDINARY_MERCHANT_PAYMENT"
  BY DEF FinalizeOrdinary, MayFinalize
<1>9. restricted' = restricted /\ repayment' = repayment
  BY DEF FinalizeOrdinary
<1>10. ReturnSound'
  BY <1>4, <1>5, <1>7, <1>8, <1>9 DEF Monetized
<1>11. \A k \in Loss : loss[k].stage12 > 0 =>
         \/ k = "RIDER_ADVANCE_UNRECOVERED"
         \/ obligation'["MERCHANT_TO_CUSTOMER"].principal = 0
  BY <1>2, <1>4 DEF FinalizeOrdinary, MayMonetize, Money
<1> QED BY <1>4, <1>5, <1>7, <1>8, <1>10, <1>11

LEMMA FinalizeAdvanceRows ==
  ASSUME ReturnSound, AdvanceSound, NEW d \in Determination, FinalizeAdvance(d)
  PROVE  /\ ReturnSound'
         /\ \A e \in Determination : determination'[e].status = "FINALIZED" => e = d
         /\ \E a \in Advance :
              /\ determination'[d].advance = a
              /\ obligation'["MERCHANT_TO_RIDER"].principal = Owed(advance[a])
              /\ obligation'["MERCHANT_TO_CUSTOMER"].principal = advance[a].settled
              /\ restricted'[a] = Owed(advance[a])
              /\ advance[a].principal > 0
         /\ \A k \in Loss : loss[k].stage12 > 0 =>
              \/ /\ obligation'["MERCHANT_TO_RIDER"].principal = 0
                 /\ obligation'["MERCHANT_TO_CUSTOMER"].principal = 0
              \/ /\ k = "CUSTOMER_PAYMENT_UNRECOVERED"
                 /\ obligation'["MERCHANT_TO_CUSTOMER"].principal = 0
<1> USE DEF ReturnSound
<1>1. PICK a \in AdvanceOf(d) :
        /\ advance[a].principal > 0
        /\ MayMonetize("RIDER_ADVANCE", Owed(advance[a]), advance[a].settled)
        /\ obligation' = NewObligations(Owed(advance[a]), advance[a].settled)
        /\ restricted' = Restriction(a)
        /\ determination' = [determination EXCEPT ![d].status = "FINALIZED",
                                                  ![d].advance = a]
  BY DEF FinalizeAdvance
<1>2. determination[d] \in DeterminationRow
  OBVIOUS
<1>3. a \in Advance
  BY <1>2 DEF AdvanceOf, Live, DeterminationRow
<1>4. /\ Owed(advance[a]) \in Money /\ advance[a].settled \in Money
      /\ MaxAmount \in Nat
  BY <1>3, OwedInMoney, FinanceConstants DEF AdvanceSound
<1>5. /\ obligation' \in [Obligation -> SoundObligation]
      /\ obligation'["MERCHANT_TO_RIDER"].principal = Owed(advance[a])
      /\ obligation'["MERCHANT_TO_CUSTOMER"].principal = advance[a].settled
  BY <1>1, <1>4, NewObligationsSound
<1>6. /\ restricted' \in [Advance -> Money]
      /\ restricted'[a] = Owed(advance[a])
  BY <1>1, <1>3, <1>4 DEF Restriction
<1> DEFINE row == [determination[d] EXCEPT !.status = "FINALIZED", !.advance = a]
<1>7. /\ row \in DeterminationRow /\ row.status = "FINALIZED"
      /\ row.path = determination[d].path /\ row.advance = a
      /\ row.qualifying = determination[d].qualifying
  BY <1>2, <1>3 DEF DeterminationRow, DeterminationStatus
<1>8. determination' = [determination EXCEPT ![d] = row]
  BY <1>1
<1> HIDE DEF row
<1>9. /\ determination'[d] = row
      /\ \A e \in Determination \ {d} : determination'[e] = determination[e]
      /\ determination' \in [Determination -> DeterminationRow]
  BY <1>7, <1>8
<1>10. /\ \A e \in Determination : determination[e].status # "FINALIZED"
       /\ determination[d].qualifying
       /\ determination[d].path = "RIDER_ADVANCE"
  BY DEF FinalizeAdvance, MayFinalize
<1>11. repayment' = repayment
  BY DEF FinalizeAdvance
<1>12. ReturnSound'
  BY <1>5, <1>6, <1>7, <1>9, <1>10, <1>11 DEF Monetized
<1>13. ASSUME NEW k \in Loss, loss[k].stage12 > 0
       PROVE  \/ /\ obligation'["MERCHANT_TO_RIDER"].principal = 0
                 /\ obligation'["MERCHANT_TO_CUSTOMER"].principal = 0
              \/ /\ k = "CUSTOMER_PAYMENT_UNRECOVERED"
                 /\ obligation'["MERCHANT_TO_CUSTOMER"].principal = 0
  <2>1. CASE Owed(advance[a]) + advance[a].settled > 0
    BY <1>1, <1>5, <1>13, <2>1 DEF MayMonetize
  <2>2. CASE ~(Owed(advance[a]) + advance[a].settled > 0)
    BY <1>4, <1>5, <2>2 DEF Money
  <2> QED BY <2>1, <2>2
<1> QED BY <1>1, <1>3, <1>5, <1>6, <1>7, <1>9, <1>10, <1>12, <1>13

LEMMA ReturnStep == ReturnSound /\ AdvanceSound /\ [Next]_vars => ReturnSound'
<1> SUFFICES ASSUME ReturnSound, AdvanceSound, [Next]_vars PROVE ReturnSound'
  OBVIOUS
<1>1. CASE UNCHANGED returns
  BY <1>1 DEF returns, ReturnSound, Monetized
<1>2. CASE Repaying
  BY <1>2, RepayingRows DEF ReturnSound, Monetized
<1>3. CASE Deliberating
  <2>1. Monetized => Monetized'
    BY <1>3, DeliberatingRows DEF Monetized, ReturnSound
  <2> QED BY <1>3, <2>1, DeliberatingRows DEF ReturnSound
<1> QED BY <1>1, <1>2, <1>3, ReturningCases, FinalizeOrdinaryRows, FinalizeAdvanceRows,
           DeliveringFrame, AdvancingFrame, ReimbursingFrame, ExceptingFrame
        DEF Next, vars

(* What a return has moved to the merchant cannot be collected, so the     *)
(* money of the advance stands still.                                      *)
LEMMA RestrictedStandsStill ==
  ASSUME AdvanceSound, [Next]_vars, NEW a \in Advance,
         advance[a].principal > 0, restricted[a] = Owed(advance[a])
  PROVE  /\ advance'[a].principal = advance[a].principal
         /\ advance'[a].settled = advance[a].settled
<1> USE DEF AdvanceSound
<1>1. advance[a] \in AdvanceRow /\ RowSound(advance[a])
  BY DEF SoundAdvance
<1>2. CASE UNCHANGED advance
  BY <1>2
<1>3. \A amount \in Amount : ~MayCollect(a, amount)
  <2>1. Owed(advance[a]) \in Money
    BY OwedInMoney
  <2> QED BY <2>1, FinanceConstants DEF MayCollect, Collectible, Money, Amount
<1>4. CASE advance' = [b \in Advance |-> AfterReassignment(advance[b])]
  BY <1>1, <1>4 DEF AfterReassignment, AdvanceRow
<1>5. CASE Delivering
  BY <1>2, <1>4, <1>5 DEF Delivering, AssignRider, TransferCustody, ConfirmPickup, EndTrip,
                          advances
<1>6. CASE Advancing
  <2> PICK b \in Advance :
        \/ \E max \in Amount : Authorize(b, max) \/ AmendMaximum(b, max)
        \/ Accept(b)
        \/ \E amount \in Amount : RecordAdvance(b, amount) \/ VendorAcknowledge(b, amount)
        \/ Cancel(b)
    BY <1>6 DEF Advancing
  <2>1. CASE b # a
    <3>1. \E row : advance' = [advance EXCEPT ![b] = row]
      BY DEF Authorize, AmendMaximum, Accept, RecordAdvance, VendorAcknowledge, Cancel
    <3> QED BY <2>1, <3>1
  <2>2. CASE b = a
    <3>1. \A max \in Amount : ~Authorize(a, max) /\ ~AmendMaximum(a, max)
      BY <1>1 DEF Authorize, AmendMaximum, RowSound, PreExpenditure
    <3>2. ~Accept(a) /\ \A amount \in Amount : ~RecordAdvance(a, amount)
      BY <1>1 DEF Accept, RecordAdvance, RowSound, PreExpenditure
    <3>3. \A amount \in Amount : ~VendorAcknowledge(a, amount)
      BY <1>1 DEF VendorAcknowledge, RowSound
    <3>4. Cancel(a)
      BY <2>2, <3>1, <3>2, <3>3
    <3> QED BY <1>1, <3>4 DEF Cancel, AdvanceRow
  <2> QED BY <2>1, <2>2
<1>7. CASE Reimbursing
  <2>1. ASSUME NEW b \in Advance, NEW amount \in Amount, MayCollect(b, amount),
               advance' = [advance EXCEPT ![b] = SettledBy(advance[b], amount)]
        PROVE  advance'[a] = advance[a]
    BY <1>3, <2>1
  <2>2. ASSUME NEW c \in Claim, NEW amount \in Amount, AcknowledgeClaim(c, amount)
        PROVE  advance'[a] = advance[a]
    <3>1. claim[c].advance \in Advance
      BY <2>2 DEF AcknowledgeClaim, SoundClaim
    <3> QED BY <2>1, <2>2, <3>1 DEF AcknowledgeClaim, MayAcknowledge
  <2> QED BY <1>7, <2>1, <2>2 DEF Reimbursing, ReceiveCash, ClaimTransfer, RejectClaim
<1> QED BY <1>2, <1>5, <1>6, <1>7, ReturningFrame, ExceptingFrame DEF Next, vars, advances

LEMMA RefundStep ==
  AdvanceSound /\ ReturnSound /\ RefundSound /\ [Next]_vars => RefundSound'
<1> SUFFICES ASSUME AdvanceSound, ReturnSound, RefundSound, [Next]_vars PROVE RefundSound'
  OBVIOUS
<1> USE DEF RefundSound, RefundEqualsPaid
<1>1. CASE UNCHANGED returns
  <2> SUFFICES ASSUME NEW d \in Determination,
                      determination'[d].status = "FINALIZED",
                      determination'[d].qualifying,
                      determination'[d].path = "RIDER_ADVANCE"
               PROVE  LET a == determination'[d].advance IN
                      /\ obligation'["MERCHANT_TO_CUSTOMER"].principal = advance'[a].settled
                      /\ obligation'["MERCHANT_TO_RIDER"].principal = Owed(advance'[a])
                      /\ restricted'[a] = Owed(advance'[a])
                      /\ a \in Advance
                      /\ advance'[a].principal > 0
    OBVIOUS
  <2>1. determination' = determination /\ obligation' = obligation /\ restricted' = restricted
    BY <1>1 DEF returns
  <2> DEFINE a == determination[d].advance
  <2>2. /\ a \in Advance /\ advance[a].principal > 0
        /\ restricted[a] = Owed(advance[a])
        /\ obligation["MERCHANT_TO_CUSTOMER"].principal = advance[a].settled
        /\ obligation["MERCHANT_TO_RIDER"].principal = Owed(advance[a])
    BY <2>1
  <2>3. /\ advance'[a].principal = advance[a].principal
        /\ advance'[a].settled = advance[a].settled
    BY <2>2, RestrictedStandsStill
  <2> QED BY <2>1, <2>2, <2>3 DEF Owed
<1>2. CASE Repaying
  BY <1>2, RepayingRows DEF advances, Obligation
<1>3. CASE Deliberating
  BY <1>3, DeliberatingRows DEF advances
<1>4. ASSUME NEW d \in Determination, FinalizeOrdinary(d) PROVE RefundSound'
  BY <1>4, FinalizeOrdinaryRows
<1>5. ASSUME NEW d \in Determination, FinalizeAdvance(d) PROVE RefundSound'
  <2>1. advance' = advance
    BY <1>5 DEF FinalizeAdvance, advances
  <2> QED BY <1>5, <2>1, FinalizeAdvanceRows
<1> QED BY <1>1, <1>2, <1>3, <1>4, <1>5, ReturningCases,
           DeliveringFrame, AdvancingFrame, ReimbursingFrame, ExceptingFrame
        DEF Next, vars
-----------------------------------------------------------------------------
(* Exceptions.                                                             *)
LEMMA InvestigatedSound ==
  ASSUME DebtSound, NEW e \in ExceptionClaim, exceptionClaim[e].status # "NONE",
         NEW row \in ExceptionClaimRow, row.loss = exceptionClaim[e].loss,
         row.status # "NONE", exceptionClaim' = [exceptionClaim EXCEPT ![e] = row]
  PROVE  /\ exceptionClaim' \in [ExceptionClaim -> SoundExceptionClaim]
         /\ \A g \in ExceptionClaim :
              exceptionClaim[g].status # "NONE" => exceptionClaim'[g].status # "NONE"
<1>1. exceptionClaim[e] \in SoundExceptionClaim
      /\ exceptionClaim \in [ExceptionClaim -> SoundExceptionClaim]
  BY DEF DebtSound
<1>2. row \in SoundExceptionClaim
  BY <1>1 DEF SoundExceptionClaim
<1> QED BY <1>1, <1>2

Investigating ==
  \E e \in ExceptionClaim : \/ \E k \in Loss, compensable \in Amount : OpenClaim(e, k, compensable)
                            \/ AddEvidence(e)
                            \/ VerifyEvidence(e)
                            \/ ConcludeFact(e)

LEMMA InvestigatingDebt == DebtSound /\ Investigating => DebtSound'
<1> SUFFICES ASSUME DebtSound, Investigating PROVE DebtSound'
  OBVIOUS
<1>1. UNCHANGED <<liability, debt, debtClaim>>
  BY DEF Investigating, OpenClaim, AddEvidence, VerifyEvidence, ConcludeFact
<1>2. /\ exceptionClaim' \in [ExceptionClaim -> SoundExceptionClaim]
      /\ \A g \in ExceptionClaim :
           exceptionClaim[g].status # "NONE" => exceptionClaim'[g].status # "NONE"
  <2> DEFINE Kept ==
        /\ exceptionClaim' \in [ExceptionClaim -> SoundExceptionClaim]
        /\ \A g \in ExceptionClaim :
             exceptionClaim[g].status # "NONE" => exceptionClaim'[g].status # "NONE"
  <2>1. ASSUME NEW e \in ExceptionClaim, NEW k \in Loss, NEW compensable \in Amount,
               OpenClaim(e, k, compensable)
        PROVE  Kept
    <3> DEFINE row == [status |-> "OPEN", loss |-> k, verified |-> FALSE, fact |-> FALSE]
    <3>1. row \in SoundExceptionClaim /\ row.status # "NONE"
      BY DEF SoundExceptionClaim, ExceptionClaimRow
    <3>2. exceptionClaim' = [exceptionClaim EXCEPT ![e] = row]
      BY <2>1 DEF OpenClaim
    <3> HIDE DEF row
    <3> QED BY <3>1, <3>2 DEF DebtSound
  <2>2. ASSUME NEW e \in ExceptionClaim, AddEvidence(e) \/ VerifyEvidence(e) \/ ConcludeFact(e)
        PROVE  Kept
    <3>1. /\ exceptionClaim[e] \in ExceptionClaimRow
          /\ exceptionClaim \in [ExceptionClaim -> SoundExceptionClaim]
      BY DEF DebtSound, SoundExceptionClaim
    <3>2. exceptionClaim[e].status # "NONE"
      BY <2>2 DEF AddEvidence, VerifyEvidence, ConcludeFact, Active
    <3>3. CASE AddEvidence(e)
      <4> DEFINE row == [exceptionClaim[e] EXCEPT !.status = "EVIDENCE_REVIEW"]
      <4>1. /\ row \in ExceptionClaimRow /\ row.loss = exceptionClaim[e].loss
            /\ row.status # "NONE"
        BY <3>1 DEF ExceptionClaimRow
      <4>2. exceptionClaim' = [exceptionClaim EXCEPT ![e] = row]
        BY <3>3 DEF AddEvidence
      <4> HIDE DEF row
      <4> QED BY <3>2, <4>1, <4>2, InvestigatedSound
    <3>4. CASE VerifyEvidence(e)
      <4> DEFINE row == [exceptionClaim[e] EXCEPT !.verified = TRUE]
      <4>1. /\ row \in ExceptionClaimRow /\ row.loss = exceptionClaim[e].loss
            /\ row.status # "NONE"
        BY <3>1, <3>2 DEF ExceptionClaimRow
      <4>2. exceptionClaim' = [exceptionClaim EXCEPT ![e] = row]
        BY <3>4 DEF VerifyEvidence
      <4> HIDE DEF row
      <4> QED BY <3>2, <4>1, <4>2, InvestigatedSound
    <3>5. CASE ConcludeFact(e)
      <4> DEFINE row == [exceptionClaim[e] EXCEPT
                           !.fact = TRUE,
                           !.status = IF exceptionClaim[e].status = "DETERMINATION_PROPOSED"
                                      THEN "DETERMINATION_PROPOSED" ELSE "VERIFIED"]
      <4>1. /\ row \in ExceptionClaimRow /\ row.loss = exceptionClaim[e].loss
            /\ row.status # "NONE"
        BY <3>1 DEF ExceptionClaimRow
      <4>2. exceptionClaim' = [exceptionClaim EXCEPT ![e] = row]
        BY <3>5 DEF ConcludeFact
      <4> HIDE DEF row
      <4> QED BY <3>2, <4>1, <4>2, InvestigatedSound
    <3> QED BY <2>2, <3>3, <3>4, <3>5
  <2> QED BY <2>1, <2>2 DEF Investigating
<1> QED BY <1>1, <1>2 DEF DebtSound, SoundLiability

LEMMA DraftDebt ==
  ASSUME DebtSound, NEW l \in Liability, NEW e \in ExceptionClaim,
         NEW m \in Liability \cup {None}, NEW share \in [Debtor -> Money],
         DraftLiability(l, e, m, share)
  PROVE  DebtSound'
<1> DEFINE row == [status |-> "DRAFT", claim |-> e, adjusts |-> m, share |-> share]
<1>1. Total(share) >= 1
  <2>1. Total(share) \in 1 .. Remaining(loss[exceptionClaim[e].loss])
    BY DEF DraftLiability
  <2> QED BY <2>1
<1>2. row \in SoundLiability
  BY <1>1 DEF SoundLiability, LiabilityRow
<1>3. liability' = [liability EXCEPT ![l] = row]
  BY DEF DraftLiability
<1>4. exceptionClaim[e].status # "NONE"
  BY DEF DraftLiability, Active
<1>5. UNCHANGED <<exceptionClaim, debt, debtClaim>>
  BY DEF DraftLiability
<1>6. row.status # "NONE" /\ row.claim = e
  OBVIOUS
<1> HIDE DEF row
<1> QED BY <1>2, <1>3, <1>4, <1>5, <1>6 DEF DebtSound

LEMMA AdvancedLiability ==
  ASSUME DebtSound, NEW l \in Liability, liability[l].status # "NONE",
         NEW s \in {"PROPOSED", "FINALIZED"}, liability' = [liability EXCEPT ![l].status = s]
  PROVE  /\ liability' \in [Liability -> SoundLiability]
         /\ \A m \in Liability : liability'[m].status # "NONE" =>
              /\ liability[m].status # "NONE"
              /\ liability'[m].claim = liability[m].claim
<1> DEFINE row == [liability[l] EXCEPT !.status = s]
<1>1. liability[l] \in SoundLiability /\ liability \in [Liability -> SoundLiability]
  BY DEF DebtSound
<1>2. liability[l] \in LiabilityRow
  BY <1>1 DEF SoundLiability
<1>3. /\ row \in LiabilityRow /\ row.status = s /\ row.claim = liability[l].claim
      /\ row.share = liability[l].share
  BY <1>2 DEF LiabilityRow
<1>4. liability' = [liability EXCEPT ![l] = row]
  OBVIOUS
<1> HIDE DEF row
<1>5. row \in SoundLiability
  BY <1>1, <1>3 DEF SoundLiability
<1> QED BY <1>1, <1>3, <1>4, <1>5

LEMMA DebtsSound ==
  ASSUME NEW share \in [Debtor -> Money], NEW creditor
  PROVE  Debts(share, creditor) \in [Debtor -> SoundObligation]
<1>1. NoObligation \in SoundObligation
  BY FinanceConstants DEF NoObligation, SoundObligation, ObligationRow, SettledExactly, Money
<1> QED BY <1>1, NewObligationSound DEF Debts

LEMMA ProposeDebt ==
  ASSUME DebtSound, NEW l \in Liability, ProposeLiability(l)
  PROVE  DebtSound'
<1> DEFINE e == liability[l].claim
<1>1. e \in ExceptionClaim /\ exceptionClaim[e].status # "NONE"
  BY DEF ProposeLiability, DebtSound, SoundLiability
<1>2. /\ exceptionClaim[e] \in ExceptionClaimRow
      /\ exceptionClaim \in [ExceptionClaim -> SoundExceptionClaim]
  BY <1>1 DEF DebtSound, SoundExceptionClaim
<1> DEFINE row == [exceptionClaim[e] EXCEPT !.status = "DETERMINATION_PROPOSED"]
<1>3. /\ row \in ExceptionClaimRow /\ row.loss = exceptionClaim[e].loss
      /\ row.status # "NONE"
  BY <1>2 DEF ExceptionClaimRow
<1>4. exceptionClaim' = [exceptionClaim EXCEPT ![e] = row]
  BY DEF ProposeLiability
<1>5. /\ exceptionClaim' \in [ExceptionClaim -> SoundExceptionClaim]
      /\ \A g \in ExceptionClaim :
           exceptionClaim[g].status # "NONE" => exceptionClaim'[g].status # "NONE"
  <2> HIDE DEF e, row
  <2> QED BY <1>1, <1>3, <1>4, InvestigatedSound
<1>6. /\ liability' \in [Liability -> SoundLiability]
      /\ \A m \in Liability : liability'[m].status # "NONE" =>
           /\ liability[m].status # "NONE"
           /\ liability'[m].claim = liability[m].claim
  BY AdvancedLiability DEF ProposeLiability
<1>7. UNCHANGED <<debt, debtClaim>>
  BY DEF ProposeLiability
<1> QED BY <1>5, <1>6, <1>7 DEF DebtSound, SoundLiability

LEMMA FinalizeDebt ==
  ASSUME DebtSound, NEW l \in Liability, FinalizeLiability(l)
  PROVE  /\ DebtSound'
         /\ liability[l].claim \in ExceptionClaim
         /\ exceptionClaim[liability[l].claim].loss \in Loss
         /\ liability[l].share \in [Debtor -> Money]
         /\ Total(liability[l].share) >= 1
<1> DEFINE e == liability[l].claim
<1>1. /\ liability[l] \in SoundLiability /\ liability[l] \in LiabilityRow
      /\ liability[l].status \in {"DRAFT", "PROPOSED"}
  BY DEF FinalizeLiability, DebtSound, SoundLiability
<1>2. /\ e \in ExceptionClaim /\ exceptionClaim[e].status # "NONE"
      /\ Total(liability[l].share) >= 1
  BY <1>1 DEF DebtSound, SoundLiability
<1>3. /\ exceptionClaim[e] \in ExceptionClaimRow /\ exceptionClaim[e].loss \in Loss
      /\ exceptionClaim \in [ExceptionClaim -> SoundExceptionClaim]
  BY <1>2 DEF DebtSound, SoundExceptionClaim
<1> DEFINE row == [exceptionClaim[e] EXCEPT !.status = "FINALIZED"]
<1>4. /\ row \in ExceptionClaimRow /\ row.loss = exceptionClaim[e].loss
      /\ row.status # "NONE"
  BY <1>3 DEF ExceptionClaimRow
<1>5. exceptionClaim' = [exceptionClaim EXCEPT ![e] = row]
  BY DEF FinalizeLiability
<1>6. /\ exceptionClaim' \in [ExceptionClaim -> SoundExceptionClaim]
      /\ \A g \in ExceptionClaim :
           exceptionClaim[g].status # "NONE" => exceptionClaim'[g].status # "NONE"
  <2> HIDE DEF e, row
  <2> QED BY <1>2, <1>4, <1>5, InvestigatedSound
<1>7. /\ liability' \in [Liability -> SoundLiability]
      /\ \A m \in Liability : liability'[m].status # "NONE" =>
           /\ liability[m].status # "NONE"
           /\ liability'[m].claim = liability[m].claim
  BY AdvancedLiability DEF FinalizeLiability
<1>8. liability[l].share \in [Debtor -> Money]
  BY <1>1 DEF LiabilityRow
<1>9. debt' = [debt EXCEPT ![l] = Debts(liability[l].share, Creditor(exceptionClaim[e].loss))]
      /\ debtClaim' = debtClaim
  BY DEF FinalizeLiability
<1>10. debt' \in [Liability -> [Debtor -> SoundObligation]]
  BY <1>8, <1>9, DebtsSound DEF DebtSound
<1> QED BY <1>2, <1>3, <1>6, <1>7, <1>8, <1>9, <1>10 DEF DebtSound, SoundLiability

PayingDebt ==
  \/ \E l \in Liability, p \in Debtor, amount \in Amount :
       \/ ReceiveDebtCash(l, p, amount)
       \/ \E x \in DebtClaim : ClaimDebtPaid(x, l, p, amount)
  \/ \E x \in DebtClaim :
       \/ \E amount \in Amount : AcknowledgeDebtPaid(x, amount)
       \/ \E outcome \in {"REJECTED", "CANCELLED"} : CloseDebtClaim(x, outcome)

LEMMA PayingDebtSound == DebtSound /\ PayingDebt => DebtSound'
<1> SUFFICES ASSUME DebtSound, PayingDebt PROVE DebtSound'
  OBVIOUS
<1>1. UNCHANGED <<exceptionClaim, liability>>
  BY DEF PayingDebt, ReceiveDebtCash, ClaimDebtPaid, AcknowledgeDebtPaid, CloseDebtClaim
<1> SUFFICES /\ debt' \in [Liability -> [Debtor -> SoundObligation]]
             /\ debtClaim' \in [DebtClaim -> SoundDebtClaim]
  BY <1>1 DEF DebtSound
<1>2. /\ debt \in [Liability -> [Debtor -> SoundObligation]]
      /\ debtClaim \in [DebtClaim -> SoundDebtClaim]
  BY DEF DebtSound
<1>3. ASSUME NEW l \in Liability, NEW p \in Debtor, NEW amount \in Amount,
             Payable(l, p, amount),
             debt' = [debt EXCEPT ![l][p] = Refreshed(debt[l][p], amount)]
      PROVE  debt' \in [Liability -> [Debtor -> SoundObligation]]
  <2>1. debt[l] \in [Debtor -> SoundObligation] /\ debt[l][p] \in SoundObligation
    BY <1>2
  <2>2. Refreshed(debt[l][p], amount) \in SoundObligation
    BY <1>3, <2>1, RefreshedSound DEF Payable
  <2>3. [debt[l] EXCEPT ![p] = Refreshed(debt[l][p], amount)] \in [Debtor -> SoundObligation]
    BY <2>1, <2>2
  <2> QED BY <1>2, <1>3, <2>3
<1>4. ASSUME NEW x \in DebtClaim, NEW row \in SoundDebtClaim,
             debtClaim' = [debtClaim EXCEPT ![x] = row]
      PROVE  debtClaim' \in [DebtClaim -> SoundDebtClaim]
  BY <1>2, <1>4
<1>5. ASSUME NEW x \in DebtClaim, NEW s \in {"ACKNOWLEDGED", "REJECTED", "CANCELLED"},
             debtClaim[x].status = "CLAIMED",
             debtClaim' = [debtClaim EXCEPT ![x].status = s]
      PROVE  debtClaim' \in [DebtClaim -> SoundDebtClaim]
  <2> DEFINE row == [debtClaim[x] EXCEPT !.status = s]
  <2>1. debtClaim[x] \in SoundDebtClaim
    BY <1>2
  <2>2. row \in SoundDebtClaim
    BY <1>5, <2>1 DEF SoundDebtClaim, DebtClaimRow, ClaimStatus
  <2>3. debtClaim' = [debtClaim EXCEPT ![x] = row]
    BY <1>5
  <2> HIDE DEF row
  <2> QED BY <1>4, <2>2, <2>3
<1>6. ASSUME NEW l \in Liability, NEW p \in Debtor, NEW amount \in Amount,
             ReceiveDebtCash(l, p, amount)
      PROVE  /\ debt' \in [Liability -> [Debtor -> SoundObligation]]
             /\ debtClaim' \in [DebtClaim -> SoundDebtClaim]
  BY <1>2, <1>3, <1>6 DEF ReceiveDebtCash
<1>7. ASSUME NEW l \in Liability, NEW p \in Debtor, NEW amount \in Amount,
             NEW x \in DebtClaim, ClaimDebtPaid(x, l, p, amount)
      PROVE  /\ debt' \in [Liability -> [Debtor -> SoundObligation]]
             /\ debtClaim' \in [DebtClaim -> SoundDebtClaim]
  <2> DEFINE row == [status |-> "CLAIMED", liability |-> l, debtor |-> p, amount |-> amount]
  <2>1. amount \in Money
    BY FinanceConstants DEF Amount, Money
  <2>2. row \in SoundDebtClaim
    BY <2>1 DEF SoundDebtClaim, DebtClaimRow, ClaimStatus
  <2>3. debtClaim' = [debtClaim EXCEPT ![x] = row] /\ debt' = debt
    BY <1>7 DEF ClaimDebtPaid
  <2> HIDE DEF row
  <2> QED BY <1>2, <1>4, <2>2, <2>3
<1>8. ASSUME NEW x \in DebtClaim, NEW amount \in Amount, AcknowledgeDebtPaid(x, amount)
      PROVE  /\ debt' \in [Liability -> [Debtor -> SoundObligation]]
             /\ debtClaim' \in [DebtClaim -> SoundDebtClaim]
  <2>1. debtClaim[x].liability \in Liability /\ debtClaim[x].debtor \in Debtor
    BY <1>2, <1>8 DEF AcknowledgeDebtPaid, SoundDebtClaim, DebtClaimRow
  <2> QED BY <1>3, <1>5, <1>8, <2>1 DEF AcknowledgeDebtPaid, MayAcknowledgeDebt
<1>9. ASSUME NEW x \in DebtClaim, NEW outcome \in {"REJECTED", "CANCELLED"},
             CloseDebtClaim(x, outcome)
      PROVE  /\ debt' \in [Liability -> [Debtor -> SoundObligation]]
             /\ debtClaim' \in [DebtClaim -> SoundDebtClaim]
  BY <1>2, <1>5, <1>9 DEF CloseDebtClaim
<1> QED BY <1>6, <1>7, <1>8, <1>9 DEF PayingDebt

LEMMA ExceptingCases ==
  Excepting =>
    \/ Investigating
    \/ PayingDebt
    \/ \E l \in Liability : ProposeLiability(l) \/ FinalizeLiability(l)
    \/ \E l \in Liability, e \in ExceptionClaim, m \in Liability \cup {None},
          share \in [Debtor -> Money] : DraftLiability(l, e, m, share)
BY DEF Excepting, Investigating, PayingDebt

LEMMA DebtStep == DebtSound /\ [Next]_vars => DebtSound'
<1>1. DebtSound /\ UNCHANGED exceptions => DebtSound'
  BY DEF DebtSound, exceptions
<1> QED BY <1>1, ExceptingCases, InvestigatingDebt, PayingDebtSound, ProposeDebt,
           FinalizeDebt, DraftDebt, DeliveringFrame, AdvancingFrame, ReimbursingFrame,
           ReturningFrame
        DEF Next, vars
-----------------------------------------------------------------------------
(* Losses.                                                                 *)
LEMMA CoverageNat ==
  ASSUME ReturnSound, NEW k
  PROVE  /\ CoveredByReturn(k) \in Nat
         /\ CoveredByReturn(k) > 0 => Monetized
<1>1. \A o \in Obligation : obligation[o].principal \in Nat
  BY FinanceConstants DEF ReturnSound, SoundObligation, ObligationRow, Money
<1>2. /\ obligation["MERCHANT_TO_RIDER"].principal \in Nat
      /\ obligation["MERCHANT_TO_CUSTOMER"].principal \in Nat
  BY <1>1 DEF Obligation
<1>3. ~Monetized => /\ obligation["MERCHANT_TO_RIDER"].principal = 0
                    /\ obligation["MERCHANT_TO_CUSTOMER"].principal = 0
  BY DEF ReturnSound, Obligation
<1> QED BY <1>2, <1>3 DEF CoveredByReturn

LEMMA LossRowNat ==
  ASSUME LossSound, NEW k \in Loss
  PROVE  /\ loss[k] \in LossRow
         /\ loss[k].compensable \in Nat /\ loss[k].compensable <= MaxAmount
         /\ loss[k].stage9 \in Nat /\ loss[k].stage12 \in Nat
         /\ MaxAmount \in Nat
<1>1. loss[k] \in LossRow
  BY DEF LossSound
<1> QED BY <1>1, FinanceConstants DEF LossRow, Money

LEMMA OpenLoss ==
  ASSUME LossSound, ReturnSound, NEW e \in ExceptionClaim, NEW k \in Loss,
         NEW compensable \in Amount, OpenClaim(e, k, compensable)
  PROVE  LossSound'
<1>1. obligation' = obligation
  BY DEF OpenClaim, returns
<1>2. \A j \in Loss : CoveredByReturn(j)' = CoveredByReturn(j)
  BY <1>1 DEF CoveredByReturn
<1>3. CASE loss[k].compensable # 0
  BY <1>2, <1>3 DEF OpenClaim, LossSound, NoDoubleCompensation
<1>4. CASE loss[k].compensable = 0
  <2> DEFINE row == [loss[k] EXCEPT !.compensable = compensable]
  <2>1. loss' = [loss EXCEPT ![k] = row]
    BY <1>4 DEF OpenClaim
  <2>2. loss[k].stage9 = 0 /\ loss[k].stage12 = 0
    BY <1>4, LossRowNat DEF LossSound
  <2>3. compensable \in Money /\ compensable \in Nat
    BY FinanceConstants DEF Amount, Money
  <2>4. row \in LossRow /\ row.stage9 = 0 /\ row.stage12 = 0 /\ row.compensable = compensable
    BY <2>2, <2>3, LossRowNat DEF LossRow
  <2> HIDE DEF row
  <2>5. /\ loss'[k] = row /\ loss' \in [Loss -> LossRow]
        /\ \A j \in Loss \ {k} : loss'[j] = loss[j]
    BY <2>1, <2>4 DEF LossSound
  <2> QED BY <1>2, <2>3, <2>4, <2>5 DEF LossSound, NoDoubleCompensation
<1> QED BY <1>3, <1>4

LEMMA FinalizeLoss ==
  ASSUME LossSound, ReturnSound, DebtSound, NEW l \in Liability, FinalizeLiability(l)
  PROVE  LossSound'
<1> DEFINE k == exceptionClaim[liability[l].claim].loss
           total == Total(liability[l].share)
           c == CoveredByReturn(k)
           row == [compensable |-> loss[k].compensable, stage9 |-> Imported(k).stage9,
                   stage12 |-> loss[k].stage12 + total]
<1>1. k \in Loss
  BY FinalizeDebt
<1>2. total \in Nat /\ total >= 1
  <2>1. /\ liability[l].share["CUSTOMER"] \in Nat /\ liability[l].share["MERCHANT"] \in Nat
    BY FinalizeDebt, FinanceConstants DEF Debtor, Money
  <2> QED BY <2>1, FinalizeDebt DEF Total
<1>3. /\ loss[k] \in LossRow
      /\ loss[k].compensable \in Nat /\ loss[k].compensable <= MaxAmount
      /\ loss[k].stage9 \in Nat /\ loss[k].stage12 \in Nat /\ MaxAmount \in Nat
      /\ loss[k].stage9 + loss[k].stage12 <= loss[k].compensable
      /\ loss[k].stage9 > 0 => loss[k].stage9 = c
  BY <1>1, LossRowNat DEF LossSound
<1>4. c \in Nat
  BY CoverageNat
<1>5. /\ loss' = [loss EXCEPT ![k] = row]
      /\ total <= Remaining(Imported(k))
      /\ obligation' = obligation
  BY DEF FinalizeLiability, returns
<1>6. /\ Imported(k).stage9 = IF loss[k].stage9 > 0 THEN loss[k].stage9
                              ELSE IF c <= Remaining(loss[k]) THEN c
                              ELSE Remaining(loss[k])
      /\ Imported(k).compensable = loss[k].compensable
      /\ Imported(k).stage12 = loss[k].stage12
  BY <1>3 DEF Imported, LossRow
<1> HIDE DEF c, total
<1>7. /\ Imported(k).stage9 = c
      /\ c + loss[k].stage12 + total <= loss[k].compensable
  <2> DEFINE i == Imported(k).stage9
             n == loss[k].compensable
             s9 == loss[k].stage9
             s12 == loss[k].stage12
  <2>1. total <= n - i - s12
    BY <1>5, <1>6 DEF Remaining
  <2>2. i = IF s9 > 0 THEN s9 ELSE IF c <= n - s9 - s12 THEN c ELSE n - s9 - s12
    BY <1>6 DEF Remaining
  <2>3. /\ n \in Nat /\ s9 \in Nat /\ s12 \in Nat /\ s9 + s12 <= n
        /\ s9 > 0 => s9 = c
    BY <1>3
  <2> HIDE DEF i, n, s9, s12
  <2>4. i = c /\ c + s12 + total <= n
    BY <1>2, <1>4, <2>1, <2>2, <2>3
  <2> QED BY <2>4 DEF i, n, s12
<1>8. /\ row.compensable = loss[k].compensable /\ row.stage9 = c
      /\ row.stage12 = loss[k].stage12 + total
  BY <1>7
<1>9. row \in LossRow
  <2>1. loss[k].stage12 + total \in Money /\ c \in Money /\ loss[k].compensable \in Money
    BY <1>2, <1>3, <1>4, <1>7 DEF Money
  <2> QED BY <1>7, <2>1 DEF LossRow
<1> HIDE DEF k, row
<1>10. /\ loss'[k] = row /\ loss' \in [Loss -> LossRow]
       /\ \A j \in Loss \ {k} : loss'[j] = loss[j]
  BY <1>1, <1>5, <1>9 DEF LossSound
<1>11. \A j : CoveredByReturn(j)' = CoveredByReturn(j)
  BY <1>5 DEF CoveredByReturn
<1>12. CoveredByReturn(k) = c
  BY DEF c
<1>13. /\ row.stage9 + row.stage12 <= row.compensable
       /\ row.stage12 + c <= row.compensable
  BY <1>2, <1>3, <1>4, <1>7, <1>8
<1> QED BY <1>8, <1>10, <1>11, <1>12, <1>13 DEF LossSound, NoDoubleCompensation

(* Without a final determination that owes money nothing was imported.     *)
LEMMA MonetizeLoss ==
  ASSUME LossSound, ReturnSound, ~Monetized, loss' = loss,
         \A k \in Loss : loss[k].stage12 > 0 => CoveredByReturn(k)' = 0
  PROVE  LossSound'
<1>1. ASSUME NEW k \in Loss
      PROVE  /\ loss[k].stage9 = 0
             /\ loss[k].stage12 <= loss[k].compensable
  BY CoverageNat, LossRowNat DEF LossSound
<1>2. ASSUME NEW k \in Loss, loss[k].stage12 > 0
      PROVE  loss[k].stage12 + CoveredByReturn(k)' <= loss[k].compensable
  BY <1>1, <1>2, LossRowNat
<1> QED BY <1>1, <1>2 DEF LossSound, NoDoubleCompensation

LEMMA LossStep == LossSound /\ ReturnSound /\ AdvanceSound /\ DebtSound /\ [Next]_vars => LossSound'
<1> SUFFICES ASSUME LossSound, ReturnSound, AdvanceSound, DebtSound, [Next]_vars
             PROVE  LossSound'
  OBVIOUS
<1>1. CASE /\ loss' = loss
           /\ \A o \in Obligation : obligation'[o].principal = obligation[o].principal
  BY <1>1 DEF LossSound, NoDoubleCompensation, CoveredByReturn, Obligation
<1>2. ASSUME NEW e \in ExceptionClaim, NEW k \in Loss, NEW compensable \in Amount,
             OpenClaim(e, k, compensable)
      PROVE  LossSound'
  BY <1>2, OpenLoss
<1>3. ASSUME NEW l \in Liability, FinalizeLiability(l) PROVE LossSound'
  BY <1>3, FinalizeLoss
<1>4. Excepting => \/ LossSound'
                   \/ UNCHANGED <<loss, returns>>
  BY <1>2, <1>3 DEF Excepting, AddEvidence, VerifyEvidence, ConcludeFact, DraftLiability,
                    ProposeLiability, ReceiveDebtCash, ClaimDebtPaid, AcknowledgeDebtPaid,
                    CloseDebtClaim
<1>5. ASSUME NEW d \in Determination, FinalizeOrdinary(d) PROVE LossSound'
  <2>1. ~Monetized /\ loss' = loss
    BY <1>5 DEF FinalizeOrdinary, MayFinalize, Monetized, exceptions
  <2>2. \A k \in Loss : loss[k].stage12 > 0 => CoveredByReturn(k)' = 0
    BY <1>5, FinalizeOrdinaryRows DEF CoveredByReturn
  <2> QED BY <2>1, <2>2, MonetizeLoss
<1>6. ASSUME NEW d \in Determination, FinalizeAdvance(d) PROVE LossSound'
  <2>1. ~Monetized /\ loss' = loss
    BY <1>6 DEF FinalizeAdvance, MayFinalize, Monetized, exceptions
  <2>2. \A k \in Loss : loss[k].stage12 > 0 => CoveredByReturn(k)' = 0
    BY <1>6, FinalizeAdvanceRows DEF CoveredByReturn
  <2> QED BY <2>1, <2>2, MonetizeLoss
<1>7. CASE Returning
  <2>1. loss' = loss
    BY <1>7, ReturningFrame DEF exceptions
  <2>2. CASE Repaying
    BY <1>1, <2>1, <2>2, RepayingRows
  <2>3. CASE Deliberating
    BY <1>1, <2>1, <2>3, DeliberatingRows
  <2> QED BY <1>5, <1>6, <1>7, <2>2, <2>3, ReturningCases
<1>8. CASE UNCHANGED <<returns, loss>>
  BY <1>1, <1>8 DEF returns
<1> QED BY <1>4, <1>7, <1>8, DeliveringFrame, AdvancingFrame, ReimbursingFrame
        DEF Next, vars, exceptions
-----------------------------------------------------------------------------
LEMMA InvInit == FinanceInit => Inv
<1> SUFFICES ASSUME FinanceInit PROVE Inv
  OBVIOUS
<1> USE DEF FinanceInit
<1>1. 0 \in Money /\ 0 \in 0 .. MaxVersion /\ 0 \in 0 .. MaxEdition
  BY FinanceConstants DEF Money
<1>2. NoAdvance \in SoundAdvance
  BY <1>1 DEF NoAdvance, SoundAdvance, AdvanceRow, AdvanceStatus, RowSound, PreExpenditure
<1>3. NoClaim \in SoundClaim
  BY <1>1 DEF NoClaim, SoundClaim, ClaimRow, ClaimStatus
<1>4. AdvanceSound
  BY <1>1, <1>2, <1>3 DEF AdvanceSound
<1>5. NoDetermination \in DeterminationRow
  BY <1>1 DEF NoDetermination, DeterminationRow, DeterminationStatus
<1>6. NoObligation \in SoundObligation
  BY <1>1 DEF NoObligation, SoundObligation, ObligationRow, SettledExactly
<1>7. NoRepayment \in RepaymentRow
  BY <1>1 DEF NoRepayment, RepaymentRow, ClaimStatus, Obligation
<1>8. ReturnSound
  BY <1>1, <1>5, <1>6, <1>7 DEF ReturnSound, NoDetermination, NoObligation
<1>9. RefundSound
  BY DEF RefundSound, RefundEqualsPaid, NoDetermination
<1>10. NoExceptionClaim \in SoundExceptionClaim
  BY DEF NoExceptionClaim, SoundExceptionClaim, ExceptionClaimRow
<1>11. NoLiability \in SoundLiability
  BY <1>1 DEF NoLiability, SoundLiability, LiabilityRow
<1>12. NoDebtClaim \in SoundDebtClaim
  BY <1>1 DEF NoDebtClaim, SoundDebtClaim, DebtClaimRow, ClaimStatus, Debtor
<1>13. DebtSound
  BY <1>6, <1>10, <1>11, <1>12 DEF DebtSound, NoLiability
<1>14. NoLoss \in LossRow
  BY <1>1 DEF NoLoss, LossRow
<1>15. LossSound
  BY <1>14 DEF LossSound, NoDoubleCompensation, NoLoss
<1> QED BY <1>4, <1>8, <1>9, <1>13, <1>15 DEF Inv

(* The parts hold together: each handler keeps all five of them.           *)
THEOREM InvInductive == Spec => []Inv
<1>1. Inv /\ [Next]_vars => Inv'
  BY AdvanceStep, ReturnStep, RefundStep, DebtStep, LossStep DEF Inv
<1> QED BY <1>1, InvInit, PTL DEF Spec

(* Every row stays one the schema allows, so no sum of acknowledged        *)
(* amounts outgrows its bound.                                             *)
THEOREM Typing == Spec => []TypeOK
<1>1. Inv => TypeOK
  BY DEF Inv, TypeOK, FinanceTypeOK, AdvanceSound, SoundAdvance, SoundClaim,
         ReturnSound, SoundObligation, DebtSound, SoundExceptionClaim, SoundLiability,
         SoundDebtClaim, LossSound
<1> QED BY <1>1, InvInductive, PTL

(* However agreements are amended, riders replaced and purchases recorded, *)
(* a rider has spent no more than what both he and the customer accepted.  *)
THEOREM Terms == Spec => []AdvanceWithinTerms
<1>1. Inv => AdvanceWithinTerms
  BY DEF Inv, AdvanceSound, SoundAdvance, RowSound, AdvanceWithinTerms
<1> QED BY <1>1, InvInductive, PTL

(* An advance is marked reimbursed exactly when nothing of it is owed.     *)
THEOREM Reimbursement == Spec => []ReimbursedIffSettled
<1>1. Inv => ReimbursedIffSettled
  <2> SUFFICES ASSUME Inv, NEW a \in Advance
               PROVE  /\ advance[a].status = "REIMBURSED" => Owed(advance[a]) = 0
                      /\ advance[a].status = "REIMBURSEMENT_DUE" => Owed(advance[a]) > 0
    BY DEF ReimbursedIffSettled
  <2>1. advance[a] \in SoundAdvance
    BY DEF Inv, AdvanceSound
  <2>2. advance[a].principal \in Nat /\ advance[a].settled \in Nat
    BY <2>1, OwedInMoney, FinanceConstants DEF Money
  <2> QED BY <2>1, <2>2 DEF SoundAdvance, RowSound, Owed
<1> QED BY <1>1, InvInductive, PTL

(* The amount the merchant refunds is the amount the customer paid.        *)
THEOREM Refund == Spec => []RefundEqualsPaid
<1>1. Inv => RefundEqualsPaid
  BY DEF Inv, RefundSound
<1> QED BY <1>1, InvInductive, PTL

(* The customer and the merchant together never repay a rider more than    *)
(* his advance: a final determination either moved the rest of the debt to *)
(* the merchant, or owes the rider nothing.                                *)
THEOREM Repaid == Spec => []RiderRepaidOnce
<1>1. Inv => RiderRepaidOnce
  <2> SUFFICES ASSUME Inv, NEW d \in Determination,
                      determination[d].status = "FINALIZED",
                      determination[d].advance # None
               PROVE  advance[determination[d].advance].settled
                        + obligation["MERCHANT_TO_RIDER"].settled
                      <= advance[determination[d].advance].principal
    BY DEF RiderRepaidOnce
  <2> DEFINE a == determination[d].advance
             o == obligation["MERCHANT_TO_RIDER"]
  <2>1. determination[d] \in DeterminationRow /\ o \in SoundObligation
    BY DEF Inv, ReturnSound, Obligation
  <2>2. a \in Advance
    BY <2>1 DEF DeterminationRow
  <2>3. /\ advance[a] \in SoundAdvance
        /\ advance[a].principal \in Nat /\ advance[a].settled \in Nat
    BY <2>2, OwedInMoney, FinanceConstants DEF Inv, AdvanceSound, Money
  <2>4. o.settled \in Nat /\ o.principal \in Nat /\ o.settled <= o.principal
    BY <2>1, FinanceConstants DEF SoundObligation, ObligationRow, SettledExactly, Money
  <2>5. CASE determination[d].qualifying
    <3>1. determination[d].path = "RIDER_ADVANCE"
      BY <2>1 DEF DeterminationRow, Inv, ReturnSound
    <3>2. o.principal = Owed(advance[a])
      BY <2>5, <3>1 DEF Inv, RefundSound, RefundEqualsPaid
    <3> HIDE DEF a, o
    <3> QED BY <2>3, <2>4, <3>2 DEF Owed, a, o
  <2>6. CASE ~determination[d].qualifying
    <3>1. ~Monetized
      BY <2>6 DEF Inv, ReturnSound, Monetized
    <3>2. o.principal = 0
      BY <3>1 DEF Inv, ReturnSound, Obligation
    <3>3. advance[a].settled <= advance[a].principal
      BY <2>3 DEF SoundAdvance, RowSound
    <3> QED BY <2>3, <2>4, <3>2, <3>3
  <2> QED BY <2>5, <2>6
<1> QED BY <1>1, InvInductive, PTL

(* No obligation, of a return or of an exception, is paid beyond its       *)
(* principal, whatever receipts and acknowledgements interleave.           *)
THEOREM Settlement == Spec => []ObligationsSettledExactly
<1>1. Inv => ObligationsSettledExactly
  BY DEF Inv, ReturnSound, DebtSound, SoundObligation, ObligationsSettledExactly
<1> QED BY <1>1, InvInductive, PTL

(* What a return pays for a loss and what exception determinations allot   *)
(* for it stay within the loss, whichever was decided first.               *)
THEOREM Compensation == Spec => []NoDoubleCompensation
<1>1. Inv => NoDoubleCompensation
  BY DEF Inv, LossSound
<1> QED BY <1>1, InvInductive, PTL
-----------------------------------------------------------------------------
(* What a step may do to a debt.                                           *)

(* What a step may do to an established debt.                              *)
Stands(old, new) ==
  old.principal > 0 =>
    /\ new.principal = old.principal
    /\ new.settled >= old.settled
    /\ new.status = "CANCELLED" => old.status \in {"DISPUTED", "CANCELLED"}

(* Once the rider's outlay is acknowledged by the vendor the amount is     *)
(* fixed, what is repaid is never taken back, and the debt is dropped by   *)
(* no step but the cancellation of an advance in dispute: this is what     *)
(* ObligationPreserved comes to in the code.                               *)
DebtStands == [][\A a \in Advance : Stands(advance[a], advance'[a])]_vars

LEMMA SameStands ==
  ASSUME NEW row \in SoundAdvance
  PROVE  Stands(row, row)
BY FinanceConstants DEF Stands, SoundAdvance, AdvanceRow, Money

(* Only the row of one advance is written.                                 *)
LEMMA OneStands ==
  ASSUME AdvanceSound, NEW a \in Advance, NEW row,
         advance' = [advance EXCEPT ![a] = row], Stands(advance[a], row)
  PROVE  \A b \in Advance : Stands(advance[b], advance'[b])
<1>1. \A b \in Advance : advance[b] \in SoundAdvance
  BY DEF AdvanceSound
<1>2. \A b \in Advance : advance'[b] = IF b = a THEN row ELSE advance[b]
  BY DEF AdvanceSound
<1> QED BY <1>1, <1>2, SameStands

LEMMA ReassignedStands ==
  ASSUME NEW row \in SoundAdvance
  PROVE  Stands(row, AfterReassignment(row))
<1>1. row \in AdvanceRow /\ RowSound(row) /\ row.settled \in Nat /\ row.principal \in Nat
  BY FinanceConstants DEF SoundAdvance, AdvanceRow, Money
<1> DEFINE new == AfterReassignment(row)
<1>2. new.principal = row.principal /\ new.settled = row.settled
  BY <1>1 DEF AfterReassignment, AdvanceRow
<1>3. row.principal > 0 => row.status \notin PreExpenditure
  BY <1>1 DEF RowSound
<1>4. row.status \notin PreExpenditure => (new.status = "CANCELLED" => row.status = "CANCELLED")
  BY <1>1 DEF AfterReassignment, AdvanceRow
<1> HIDE DEF new
<1> QED BY <1>1, <1>2, <1>3, <1>4 DEF Stands, new

LEMMA SettledStands ==
  ASSUME NEW row \in SoundAdvance, NEW amount \in Amount,
         row.status \in {"REIMBURSEMENT_DUE", "DISPUTED"}
  PROVE  Stands(row, SettledBy(row, amount))
<1>1. row \in AdvanceRow /\ row.settled \in Nat /\ amount \in Nat
  BY FinanceConstants DEF SoundAdvance, AdvanceRow, Money, Amount
<1> DEFINE new == SettledBy(row, amount)
<1>2. /\ new.principal = row.principal /\ new.settled = row.settled + amount
      /\ new.status \in {"REIMBURSED", row.status}
  BY <1>1 DEF SettledBy, AdvanceRow
<1> HIDE DEF new
<1> QED BY <1>1, <1>2 DEF Stands, new

LEMMA AdvancingStands ==
  ASSUME AdvanceSound, Advancing
  PROVE  \A a \in Advance : Stands(advance[a], advance'[a])
<1> PICK a \in Advance :
      \/ \E max \in Amount : Authorize(a, max) \/ AmendMaximum(a, max)
      \/ Accept(a)
      \/ \E amount \in Amount : RecordAdvance(a, amount) \/ VendorAcknowledge(a, amount)
      \/ Cancel(a)
  BY DEF Advancing
<1>1. /\ advance \in [Advance -> SoundAdvance]
      /\ advance[a] \in AdvanceRow /\ RowSound(advance[a])
  BY DEF AdvanceSound, SoundAdvance
<1>2. advance[a].settled \in Nat /\ advance[a].principal \in Nat
  BY <1>1, FinanceConstants DEF AdvanceRow, Money
<1>3. CASE \/ \E max \in Amount : Authorize(a, max) \/ AmendMaximum(a, max)
           \/ Accept(a)
           \/ \E amount \in Amount : RecordAdvance(a, amount) \/ VendorAcknowledge(a, amount)
  <2>1. advance[a].status \in PreExpenditure \cup {"NONE", "ADVANCE_RECORDED"}
    BY <1>3 DEF Authorize, AmendMaximum, Accept, RecordAdvance, VendorAcknowledge,
                PreExpenditure
  <2>2. ~(advance[a].principal > 0)
    BY <1>1, <2>1 DEF RowSound
  <2>3. \E row : advance' = [advance EXCEPT ![a] = row]
    BY <1>3 DEF Authorize, AmendMaximum, Accept, RecordAdvance, VendorAcknowledge
  <2> QED BY <2>2, <2>3, OneStands DEF Stands
<1>4. CASE Cancel(a)
  <2> DEFINE s == IF advance[a].status \in PostExpenditure THEN "DISPUTED" ELSE "CANCELLED"
             row == [advance[a] EXCEPT !.status = s]
  <2>1. advance' = [advance EXCEPT ![a] = row]
    BY <1>4 DEF Cancel
  <2>2. /\ row.principal = advance[a].principal /\ row.settled = advance[a].settled
        /\ row.status = s
    BY <1>1 DEF AdvanceRow
  <2>3. advance[a].principal > 0 =>
          advance[a].status \in PostExpenditure \cup {"DISPUTED", "CANCELLED"}
    BY <1>1 DEF RowSound, AdvanceRow, AdvanceStatus, PreExpenditure, PostExpenditure
  <2> HIDE DEF row
  <2>4. Stands(advance[a], row)
    BY <1>2, <2>2, <2>3 DEF Stands
  <2> QED BY <2>1, <2>4, OneStands
<1> QED BY <1>3, <1>4

LEMMA ReimbursingStands ==
  ASSUME AdvanceSound, Reimbursing
  PROVE  \A a \in Advance : Stands(advance[a], advance'[a])
<1>1. advance \in [Advance -> SoundAdvance] /\ claim \in [Claim -> SoundClaim]
  BY DEF AdvanceSound
<1>2. ASSUME NEW a \in Advance, NEW amount \in Amount, MayCollect(a, amount),
             advance' = [advance EXCEPT ![a] = SettledBy(advance[a], amount)]
      PROVE  \A b \in Advance : Stands(advance[b], advance'[b])
  <2>1. Stands(advance[a], SettledBy(advance[a], amount))
    BY <1>1, <1>2, SettledStands DEF MayCollect, Settleable
  <2> QED BY <1>2, <2>1, OneStands
<1>3. CASE UNCHANGED advance
  BY <1>1, <1>3, SameStands
<1>4. ASSUME NEW a \in Advance, NEW amount \in Amount, ReceiveCash(a, amount)
      PROVE  \A b \in Advance : Stands(advance[b], advance'[b])
  BY <1>2, <1>4 DEF ReceiveCash
<1>5. ASSUME NEW c \in Claim, NEW amount \in Amount, AcknowledgeClaim(c, amount)
      PROVE  \A b \in Advance : Stands(advance[b], advance'[b])
  <2>1. claim[c].advance \in Advance
    BY <1>1, <1>5 DEF AcknowledgeClaim, SoundClaim
  <2> QED BY <1>2, <1>5, <2>1 DEF AcknowledgeClaim, MayAcknowledge
<1> QED BY <1>3, <1>4, <1>5 DEF Reimbursing, ClaimTransfer, RejectClaim

LEMMA StepStands ==
  ASSUME AdvanceSound, [Next]_vars
  PROVE  \A a \in Advance : Stands(advance[a], advance'[a])
<1>1. advance \in [Advance -> SoundAdvance]
  BY DEF AdvanceSound
<1>2. CASE UNCHANGED advance
  BY <1>1, <1>2, SameStands
<1>3. CASE advance' = [a \in Advance |-> AfterReassignment(advance[a])]
  BY <1>1, <1>3, ReassignedStands
<1>4. CASE Delivering
  BY <1>2, <1>3, <1>4 DEF Delivering, AssignRider, TransferCustody, ConfirmPickup, EndTrip,
                          advances
<1>5. Returning \/ Excepting \/ UNCHANGED vars => UNCHANGED advance
  BY ReturningFrame, ExceptingFrame DEF vars, advances
<1> QED BY <1>2, <1>4, <1>5, AdvancingStands, ReimbursingStands DEF Next

(* cancel: an established debt survives every handler in every order,      *)
(* except that a second cancellation of the same advance erases it.        *)
THEOREM DebtKept == Spec => DebtStands
<1> DEFINE AllStand == \A a \in Advance : Stands(advance[a], advance'[a])
<1>1. Inv /\ [Next]_vars => [AllStand]_vars
  BY StepStands DEF Inv
<1> HIDE DEF AllStand
<1>2. Spec => [][AllStand]_vars
  BY <1>1, InvInductive, PTL DEF Spec
<1> QED BY <1>2 DEF DebtStands, AllStand
=============================================================================
