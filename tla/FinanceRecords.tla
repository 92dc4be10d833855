---------------------------- MODULE FinanceRecords ----------------------------
(***************************************************************************)
(* The rows that hold what the parties of one order owe each other: rider  *)
(* advances and their settlement claims, the merchant's return             *)
(* determination, its obligations and their claims, the exception claims   *)
(* that follow an operations recovery, the liability determined upon them, *)
(* its obligations and their claims; and what these services read of the   *)
(* fulfillment.                                                            *)
(*                                                                         *)
(* Every service recomputes "settled" as the sum over the ACKNOWLEDGED     *)
(* rows.  Such a row is never changed again (triggers see to it), so the   *)
(* sum is kept here as a running total and a claim is followed only while  *)
(* it is CLAIMED.  The order's commerce status and the verification of its *)
(* payment are written at any time and without condition by others; they   *)
(* can permit or deny any request and are left out.                        *)
(***************************************************************************)
EXTENDS Integers

CONSTANTS Rider,          \* riders of the platform
          None,           \* SQL NULL
          Advance,        \* rows of rider_advances
          Claim,          \* rows of rider_advance_settlements
          Determination,  \* rows of return_financial_determinations
          RepaymentClaim, \* rows of return_financial_settlements
          Loss,           \* kinds of the order's economic_losses
          ExceptionClaim, \* rows of exception_claims
          Liability,      \* rows of liability_determinations
          DebtClaim,      \* rows of exception_financial_settlements
          MaxAmount,      \* bound: amounts of money
          MaxVersion,     \* bound: assignments of the fulfillment
          MaxEdition      \* bound: versions of one agreement

ASSUME FinanceConstants ==
  /\ None \notin Rider \cup Advance \cup Loss \cup ExceptionClaim \cup Liability
  /\ {MaxAmount, MaxVersion, MaxEdition} \subseteq Nat \ {0}

Amount == 1 .. MaxAmount
Money  == 0 .. MaxAmount

VARIABLES status,         \* OrderFulfillment.status
          activeRider,    \* OrderFulfillment.activeRiderId
          version,        \* OrderFulfillment.assignmentVersion
          advance,        \* RiderAdvance and its current agreement version
          claim,          \* RiderAdvanceSettlement
          determination,  \* ReturnFinancialDetermination
          obligation,     \* ReturnFinancialObligation of the order
          restricted,     \* ACTIVE RiderAdvanceCollectionRestriction
          repayment,      \* ReturnFinancialSettlement
          loss,           \* EconomicLoss and the sums of its coverage
          exceptionClaim, \* ExceptionClaim
          liability,      \* LiabilityDetermination and its allocations
          debt,           \* ExceptionFinancialObligation
          debtClaim       \* ExceptionFinancialSettlement

fulfillment == <<status, activeRider, version>>
advances    == <<advance, claim>>
returns     == <<determination, obligation, restricted, repayment>>
exceptions  == <<loss, exceptionClaim, liability, debt, debtClaim>>
-----------------------------------------------------------------------------
AdvanceStatus == {"NONE", "CUSTOMER_AUTHORIZED", "RIDER_ACCEPTED",
                  "ADVANCE_RECORDED", "VENDOR_ACKNOWLEDGED",
                  "REIMBURSEMENT_DUE", "REIMBURSED", "DISPUTED", "CANCELLED"}

(* actual and principal are 0 while NULL; parties are those who accepted   *)
(* the current version (edition) of the agreement, whose maximum is max.   *)
AdvanceRow == [status : AdvanceStatus, rider : Rider \cup {None},
               version : 0 .. MaxVersion, max : Money,
               edition : 0 .. MaxEdition,
               parties : SUBSET {"CUSTOMER", "RIDER"},
               actual : Money, principal : Money, settled : Money]

NoAdvance == [status |-> "NONE", rider |-> None, version |-> 0, max |-> 0,
              edition |-> 0, parties |-> {}, actual |-> 0, principal |-> 0,
              settled |-> 0]

ClaimStatus == {"NONE", "CLAIMED", "ACKNOWLEDGED", "REJECTED"}

ClaimRow == [status : ClaimStatus, advance : Advance \cup {None}, amount : Money]

NoClaim == [status |-> "NONE", advance |-> None, amount |-> 0]

DeterminationStatus == {"NONE", "PROPOSED", "ACKNOWLEDGED", "DISPUTED", "FINALIZED"}

DeterminationRow == [status : DeterminationStatus,
                     path : {"RIDER_ADVANCE", "ORDINARY_MERCHANT_PAYMENT"},
                     qualifying : BOOLEAN, advance : Advance \cup {None},
                     refund : Money]

NoDetermination == [status |-> "NONE", path |-> "RIDER_ADVANCE",
                    qualifying |-> FALSE, advance |-> None, refund |-> 0]

(* One order has at most one obligation of each type: they are created     *)
(* with the only determination that may be FINALIZED.                      *)
Obligation == {"MERCHANT_TO_RIDER", "MERCHANT_TO_CUSTOMER"}

ObligationRow == [status : {"NONE", "OPEN", "PARTIALLY_SETTLED", "SETTLED"},
                  principal : Money, settled : Money]

NoObligation == [status |-> "NONE", principal |-> 0, settled |-> 0]

RepaymentRow == [status : ClaimStatus, obligation : Obligation, amount : Money]

NoRepayment == [status |-> "NONE", obligation |-> "MERCHANT_TO_RIDER", amount |-> 0]

(* A loss of 0 is not there.  Its coverage: what was imported from the     *)
(* return determination, and what the exception determinations allotted.   *)
LossRow == [compensable : Money, stage9 : Money, stage12 : Money]

NoLoss == [compensable |-> 0, stage9 |-> 0, stage12 |-> 0]

ExceptionClaimRow ==
  [status : {"NONE", "OPEN", "EVIDENCE_REVIEW", "VERIFIED",
             "DETERMINATION_PROPOSED", "FINALIZED"},
   loss : Loss \cup {None}, verified : BOOLEAN, fact : BOOLEAN]

NoExceptionClaim == [status |-> "NONE", loss |-> None, verified |-> FALSE,
                     fact |-> FALSE]

(* Riders and the platform are never held liable.                          *)
Debtor == {"CUSTOMER", "MERCHANT"}

LiabilityRow == [status : {"NONE", "DRAFT", "PROPOSED", "FINALIZED"},
                 claim : ExceptionClaim \cup {None},
                 adjusts : Liability \cup {None}, share : [Debtor -> Money]]

NoLiability == [status |-> "NONE", claim |-> None, adjusts |-> None,
                share |-> [p \in Debtor |-> 0]]

DebtClaimRow == [status : ClaimStatus \cup {"CANCELLED"},
                 liability : Liability \cup {None}, debtor : Debtor,
                 amount : Money]

NoDebtClaim == [status |-> "NONE", liability |-> None, debtor |-> "CUSTOMER",
                amount |-> 0]
-----------------------------------------------------------------------------
FinanceTypeOK ==
  /\ status \in {"ready_for_pickup", "rider_assigned", "mid_possession",
                 "returned", "delivered"}
  /\ activeRider \in Rider \cup {None}
  /\ version \in 0 .. MaxVersion
  /\ advance \in [Advance -> AdvanceRow]
  /\ claim \in [Claim -> ClaimRow]
  /\ determination \in [Determination -> DeterminationRow]
  /\ obligation \in [Obligation -> ObligationRow]
  /\ restricted \in [Advance -> Money]
  /\ repayment \in [RepaymentClaim -> RepaymentRow]
  /\ loss \in [Loss -> LossRow]
  /\ exceptionClaim \in [ExceptionClaim -> ExceptionClaimRow]
  /\ liability \in [Liability -> LiabilityRow]
  /\ debt \in [Liability -> [Debtor -> ObligationRow]]
  /\ debtClaim \in [DebtClaim -> DebtClaimRow]

FinanceInit ==
  /\ status = "ready_for_pickup"
  /\ activeRider = None
  /\ version = 0
  /\ advance = [a \in Advance |-> NoAdvance]
  /\ claim = [c \in Claim |-> NoClaim]
  /\ determination = [d \in Determination |-> NoDetermination]
  /\ obligation = [o \in Obligation |-> NoObligation]
  /\ restricted = [a \in Advance |-> 0]
  /\ repayment = [p \in RepaymentClaim |-> NoRepayment]
  /\ loss = [k \in Loss |-> NoLoss]
  /\ exceptionClaim = [e \in ExceptionClaim |-> NoExceptionClaim]
  /\ liability = [l \in Liability |-> NoLiability]
  /\ debt = [l \in Liability |-> [p \in Debtor |-> NoObligation]]
  /\ debtClaim = [x \in DebtClaim |-> NoDebtClaim]

(* findFirst where status is not CANCELLED: the advances of the order that *)
(* are not cancelled (authorize keeps them to one).                        *)
Live == {a \in Advance : advance[a].status \notin {"NONE", "CANCELLED"}}

Owed(row) == row.principal - row.settled
=============================================================================
