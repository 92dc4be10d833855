-------------------------- MODULE AdvanceSettlement --------------------------
(***************************************************************************)
(* RiderAdvanceSettlementService and RiderAdvanceCollectibilityService     *)
(* (rider-advance-settlement/, return-financial/): the customer pays the   *)
(* advance back, in cash that the rider confirms or by a transfer that the *)
(* customer claims and the rider acknowledges.                             *)
(***************************************************************************)
EXTENDS RiderAdvance

(* assertPrincipalSettleable                                               *)
Settleable(a) == /\ advance[a].principal > 0
                 /\ advance[a].status \in {"REIMBURSEMENT_DUE", "DISPUTED"}

(* assertCollectibleForAmount: what a return has not moved to the merchant.*)
Collectible(a, amount) == amount <= Owed(advance[a]) - restricted[a]

MayCollect(a, amount) == /\ Settleable(a)
                         /\ amount <= Owed(advance[a])
                         /\ Collectible(a, amount)

FaultySettledBy(row, amount) ==
  [row EXCEPT !.settled = row.settled + amount,
              !.status = IF amount = row.principal THEN "REIMBURSED" ELSE row.status]

(* The acknowledged amount counts, and maybeCompleteReimbursement.         *)
SettledBy(row, amount) ==
  [row EXCEPT !.settled = row.settled + amount,
              !.status = IF row.settled + amount = row.principal
                         THEN "REIMBURSED" ELSE row.status]

(* createDirectTransferClaim, by the customer: several may be open, each   *)
(* for all that remains.                                                   *)
ClaimTransfer(c, a, amount) ==
  /\ claim[c].status = "NONE"
  /\ MayCollect(a, amount)
  /\ claim' = [claim EXCEPT ![c] = [status |-> "CLAIMED", advance |-> a,
                                    amount |-> amount]]
  /\ UNCHANGED <<fulfillment, advance, returns, exceptions>>

(* createCashReceipt, by the rider who advanced, whoever delivers now.     *)
ReceiveCash(a, amount) ==
  /\ MayCollect(a, amount)
  /\ advance' = [advance EXCEPT ![a] = SettledBy(advance[a], amount)]
  /\ UNCHANGED <<fulfillment, claim, returns, exceptions>>

FaultyMayAcknowledge(c, amount) == amount <= claim[c].amount

(* The claim was checked when it was made; it is checked again now.        *)
MayAcknowledge(c, amount) == /\ amount <= claim[c].amount
                             /\ MayCollect(claim[c].advance, amount)

AcknowledgeClaim(c, amount) ==
  LET a == claim[c].advance IN
  /\ claim[c].status = "CLAIMED"
  /\ MayAcknowledge(c, amount)
  /\ claim' = [claim EXCEPT ![c].status = "ACKNOWLEDGED"]
  /\ advance' = [advance EXCEPT ![a] = SettledBy(advance[a], amount)]
  /\ UNCHANGED <<fulfillment, returns, exceptions>>

RejectClaim(c) ==
  /\ claim[c].status = "CLAIMED"
  /\ claim' = [claim EXCEPT ![c].status = "REJECTED"]
  /\ UNCHANGED <<fulfillment, advance, returns, exceptions>>
=============================================================================
