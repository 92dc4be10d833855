----------------------------- MODULE WalletLedger -----------------------------
(***************************************************************************)
(* The prepaid wallet of a merchant and that of his coordinator:           *)
(* WalletReloadService (payment-partners/), WalletLedgerService            *)
(* (modules/wallet/), MerchantSubscriptionBillingService (merchants/) and  *)
(* the commission of CoordinatorApplicationsService.                       *)
(*                                                                         *)
(* A reload is written in statements of its own, so the model takes one    *)
(* step per statement; what is inside a transaction, or one conditional    *)
(* update, is one step.  A reference number is unique in the ledger: a     *)
(* second row under it aborts its transaction.  The server may stop        *)
(* between any two steps of a request.  The PIN, the merchant's account    *)
(* status that billing also writes, and the top-up by gateways that are    *)
(* disabled are left out.                                                  *)
(***************************************************************************)
EXTENDS Integers, FiniteSets, FiniteSetsExt

CONSTANTS Payment,  \* rows of platform_payment_transactions, with the
                    \* wallet_transactions row of the same reference
          Call,     \* callbacks of the payment provider being served
          Credit,   \* references of credits: earnings, refunds, adjustments
          Debit,    \* references of debits: payments, cash-outs, adjustments
          Day,      \* billing days
          Biller,   \* runs of the billing: schedule, catch-up, administrator
          None,     \* not a payment
          Reload,   \* the amount of a reload
          Fee,      \* the daily subscription fee
          Share,    \* the coordinator's commission on it
          MaxAmount \* bound: amounts of the other entries

ASSUME WalletConstants ==
  /\ None \notin Payment \cup Day
  /\ IsFiniteSet(Credit \cup Debit) /\ Credit \cap Debit = {}
  /\ {Reload, Fee, Share, MaxAmount} \subseteq Nat \ {0}

VARIABLES balance,    \* Wallet.balance of the merchant
          commission, \* Wallet.balance of the coordinator
          creating,   \* where the request that creates the reload is
          payment,    \* PlatformPaymentTransaction.status
          linked,     \* its sourceId names the ledger row
          row,        \* WalletTransaction.status of the reload
          provider,   \* the payment at the provider
          call,       \* what a callback has read
          posted,     \* amount of the other completed entries, 0 if absent
          charged,    \* days with a completed daily_subscription entry
          earned,     \* days with a commission entry
          biller      \* the step of a billing run

vars == <<balance, commission, creating, payment, linked, row, provider,
          call, posted, charged, earned, biller>>

reloads == <<creating, payment, linked, row>>
billing == <<commission, charged, earned, biller>>

CallRow == [payment : Payment \cup {None}, verdict : {"PAID", "FAILED"},
            linked : BOOLEAN]

NoCall == [payment |-> None, verdict |-> "FAILED", linked |-> FALSE]

BillerRow == [step : {"idle", "charge", "commission"}, day : Day \cup {None}]

IdleBiller == [step |-> "idle", day |-> None]

Init ==
  /\ balance = 0
  /\ commission = 0
  /\ creating = [p \in Payment |-> "no"]
  /\ payment = [p \in Payment |-> "none"]
  /\ linked = [p \in Payment |-> FALSE]
  /\ row = [p \in Payment |-> "none"]
  /\ provider = [p \in Payment |-> "none"]
  /\ call = [c \in Call |-> NoCall]
  /\ posted = [q \in Credit \cup Debit |-> 0]
  /\ charged = {}
  /\ earned = {}
  /\ biller = [b \in Biller |-> IdleBiller]
-----------------------------------------------------------------------------
(* createPayCoolsReload: the payment, its ledger row, the link to it, the  *)
(* request to the provider, and the QR code for the customer.              *)
CreatePending(p) ==
  /\ creating[p] = "no"
  /\ payment' = [payment EXCEPT ![p] = "PENDING"]
  /\ creating' = [creating EXCEPT ![p] = "row"]
  /\ UNCHANGED <<balance, linked, row, provider, call, posted, billing>>

CreateRow(p) ==
  /\ creating[p] = "row"
  /\ row' = [row EXCEPT ![p] = "pending"]
  /\ creating' = [creating EXCEPT ![p] = "link"]
  /\ UNCHANGED <<balance, payment, linked, provider, call, posted, billing>>

LinkRow(p) ==
  /\ creating[p] = "link"
  /\ linked' = [linked EXCEPT ![p] = TRUE]
  /\ creating' = [creating EXCEPT ![p] = "ask"]
  /\ UNCHANGED <<balance, payment, row, provider, call, posted, billing>>

(* The provider may have made the QR code and the answer be lost.          *)
AskProvider(p) ==
  /\ creating[p] = "ask"
  /\ \/ /\ provider' = [provider EXCEPT ![p] = "open"]
        /\ creating' \in {[creating EXCEPT ![p] = s] : s \in {"publish", "failing"}}
     \/ /\ creating' = [creating EXCEPT ![p] = "failing"]
        /\ UNCHANGED provider
  /\ UNCHANGED <<balance, payment, linked, row, call, posted, billing>>

(* Only now can the customer see the code: by the answer, or by getReload. *)
Publish(p) ==
  /\ creating[p] = "publish"
  /\ creating' \in {[creating EXCEPT ![p] = s] : s \in {"done", "failing"}}
  /\ UNCHANGED <<balance, payment, linked, row, provider, call, posted, billing>>

(* The handler of an error writes both rows, whatever they are by now.     *)
GiveUp(p) ==
  /\ creating[p] = "failing"
  /\ payment' = [payment EXCEPT ![p] = "FAILED"]
  /\ row' = [row EXCEPT ![p] = "failed"]
  /\ creating' = [creating EXCEPT ![p] = "lost"]
  /\ UNCHANGED <<balance, linked, provider, call, posted, billing>>

CreatorStops(p) ==
  /\ creating[p] \notin {"no", "done", "lost"}
  /\ creating' = [creating EXCEPT ![p] = "lost"]
  /\ UNCHANGED <<balance, payment, linked, row, provider, call, posted, billing>>

CustomerPays(p) ==
  /\ provider[p] = "open"
  /\ creating[p] = "done"
  /\ provider' = [provider EXCEPT ![p] = "collected"]
  /\ UNCHANGED <<balance, reloads, call, posted, billing>>
-----------------------------------------------------------------------------
(* settleVerified, the read: a failure may be notified of any attempt at   *)
(* the code, a success when the money is there; both again and again.      *)
ReceiveCall(c, p, verdict) ==
  /\ call[c] = NoCall
  /\ \/ provider[p] = "collected"
     \/ provider[p] = "open" /\ verdict = "FAILED"
  /\ payment[p] # "FAILED"
  /\ call' = [call EXCEPT ![c] =
       [payment |-> p, verdict |-> verdict, linked |-> linked[p]]]
  /\ UNCHANGED <<balance, reloads, provider, posted, billing>>

FaultyClaimable(p) == payment[p] # "FAILED"

(* updateMany where status = PENDING: one callback gets the payment.       *)
Claimable(p) == payment[p] = "PENDING"

(* settleVerified, the transaction.                                        *)
Settle(c) ==
  LET p == call[c].payment IN
  /\ p # None
  /\ call[c].verdict = "PAID"
  /\ IF Claimable(p)
     THEN /\ payment' = [payment EXCEPT ![p] = "PAID"]
          /\ balance' = balance + Reload
          /\ row' = IF call[c].linked /\ row[p] = "pending"
                    THEN [row EXCEPT ![p] = "completed"] ELSE row
     ELSE UNCHANGED <<payment, balance, row>>
  /\ call' = [call EXCEPT ![c] = NoCall]
  /\ UNCHANGED <<creating, linked, provider, posted, billing>>

FaultyFailedPayment(p) == "FAILED"

FailedPayment(p) == IF payment[p] = "PENDING" THEN "FAILED" ELSE payment[p]

FailedRow(p) == IF row[p] = "pending" THEN "failed" ELSE row[p]

(* markFailed: each row under its own condition.                           *)
MarkFailed(c) ==
  LET p == call[c].payment IN
  /\ p # None
  /\ call[c].verdict = "FAILED"
  /\ payment' = [payment EXCEPT ![p] = FailedPayment(p)]
  /\ row' = IF call[c].linked THEN [row EXCEPT ![p] = FailedRow(p)] ELSE row
  /\ call' = [call EXCEPT ![c] = NoCall]
  /\ UNCHANGED <<balance, creating, linked, provider, posted, billing>>

CallStops(c) ==
  /\ call[c] # NoCall
  /\ call' = [call EXCEPT ![c] = NoCall]
  /\ UNCHANGED <<balance, reloads, provider, posted, billing>>
-----------------------------------------------------------------------------
(* creditWalletAtomic                                                      *)
CreditWallet(q, amount) ==
  /\ posted[q] = 0
  /\ posted' = [posted EXCEPT ![q] = amount]
  /\ balance' = balance + amount
  /\ UNCHANGED <<reloads, provider, call, billing>>

(* debitWalletAtomic: the amount with its fee; a cash-out stays            *)
(* "processing", and holds the money.                                      *)
DebitWallet(q, total) ==
  /\ posted[q] = 0
  /\ balance >= total
  /\ posted' = [posted EXCEPT ![q] = total]
  /\ balance' = balance - total
  /\ UNCHANGED <<reloads, provider, call, billing>>
-----------------------------------------------------------------------------
(* billMerchantForDate: the look at the ledger, the transaction that       *)
(* charges, and the commission in a transaction after it.                  *)
StartBilling(b, d) ==
  /\ biller[b] = IdleBiller
  /\ d \notin charged
  /\ biller' = [biller EXCEPT ![b] = [step |-> "charge", day |-> d]]
  /\ UNCHANGED <<balance, reloads, provider, call, posted, commission, charged, earned>>

Charge(b) ==
  LET d == biller[b].day IN
  /\ biller[b].step = "charge"
  /\ IF d \notin charged /\ balance >= Fee
     THEN /\ charged' = charged \cup {d}
          /\ balance' = balance - Fee
          /\ biller' = [biller EXCEPT ![b].step = "commission"]
     ELSE /\ biller' = [biller EXCEPT ![b] = IdleBiller]
          /\ UNCHANGED <<charged, balance>>
  /\ UNCHANGED <<reloads, provider, call, posted, commission, earned>>

(* creditFixedFeeCommission; nothing without an approved coordinator.      *)
CreditCommission(b) ==
  LET d == biller[b].day IN
  /\ biller[b].step = "commission"
  /\ \/ /\ d \notin earned
        /\ earned' = earned \cup {d}
        /\ commission' = commission + Share
     \/ UNCHANGED <<earned, commission>>
  /\ biller' = [biller EXCEPT ![b] = IdleBiller]
  /\ UNCHANGED <<balance, reloads, provider, call, posted, charged>>

BillerStops(b) ==
  /\ biller[b] # IdleBiller
  /\ biller' = [biller EXCEPT ![b] = IdleBiller]
  /\ UNCHANGED <<balance, reloads, provider, call, posted, commission, charged, earned>>

Next ==
  \/ \E p \in Payment :
       \/ CreatePending(p) \/ CreateRow(p) \/ LinkRow(p) \/ AskProvider(p)
       \/ Publish(p) \/ GiveUp(p) \/ CreatorStops(p) \/ CustomerPays(p)
  \/ \E c \in Call :
       \/ \E p \in Payment, verdict \in {"PAID", "FAILED"} : ReceiveCall(c, p, verdict)
       \/ Settle(c) \/ MarkFailed(c) \/ CallStops(c)
  \/ \E amount \in 1 .. MaxAmount :
       \/ \E q \in Credit : CreditWallet(q, amount)
       \/ \E q \in Debit : DebitWallet(q, amount)
  \/ \E b \in Biller :
       \/ \E d \in Day : StartBilling(b, d)
       \/ Charge(b) \/ CreditCommission(b) \/ BillerStops(b)

Spec == Init /\ [][Next]_vars
-----------------------------------------------------------------------------
(* Every variable has its type.                                            *)
TypeOK ==
  /\ balance \in Nat
  /\ commission \in Nat
  /\ creating \in [Payment -> {"no", "row", "link", "ask", "publish", "failing",
                               "done", "lost"}]
  /\ payment \in [Payment -> {"none", "PENDING", "PAID", "FAILED"}]
  /\ linked \in [Payment -> BOOLEAN]
  /\ row \in [Payment -> {"none", "pending", "completed", "failed"}]
  /\ provider \in [Payment -> {"none", "open", "collected"}]
  /\ call \in [Call -> CallRow]
  /\ posted \in [Credit \cup Debit -> 0 .. MaxAmount]
  /\ charged \subseteq Day
  /\ earned \subseteq Day
  /\ biller \in [Biller -> BillerRow]

Posted(refs) == MapThenSumSet(LAMBDA q : posted[q], refs)

(* The books balance: at every moment a wallet holds what the completed    *)
(* and held entries of its ledger add up to, and never less than nothing,  *)
(* whatever callbacks, retries, billing runs and stops interleave.         *)
BalanceIsLedger ==
  /\ balance = Reload * Cardinality({p \in Payment : row[p] = "completed"})
               + Posted(Credit) - Posted(Debit) - Fee * Cardinality(charged)
  /\ balance >= 0
  /\ commission = Share * Cardinality(earned)
  /\ earned \subseteq charged

(* The payment and the ledger row of a reload are written by different     *)
(* requests under different conditions and end the same way: paid with a   *)
(* completed row, and only for money the provider has, or failed with a    *)
(* failed row.                                                             *)
ReloadsAgree ==
  \A p \in Payment :
    /\ payment[p] = "PAID" <=> row[p] = "completed"
    /\ payment[p] = "FAILED" <=> row[p] = "failed"
    /\ payment[p] = "PAID" => provider[p] = "collected"
=============================================================================
