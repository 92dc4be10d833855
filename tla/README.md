# WeKonnek: specifications of the order, custody, invoice and money core

TLA+ modules for the backend under `src/WeKonnek-backend/backend` (NestJS,
Prisma, PostgreSQL), the TLC configurations that check them on small instances,
and theorems about them that TLAPS proves for all instances. Paths below are
relative to `src/WeKonnek-backend/backend/src`.

The backend runs a marketplace with deliveries. Its hard core is small: who has
the goods of an order, who is allowed to say so, what may be retried after a
failure, which work must not get lost when a process stops, and who owes whom
how much of an order's money. That is what is modelled. Everything else is listed below with the reason it is not.

## 1. Inventory

### Components with a state machine of their own

| component | state | operations | what makes it correct |
|---|---|---|---|
| fulfillment lifecycle (`fulfillment/fulfillment-*.ts`) | `OrderFulfillment.status`, rider, version, custodian, pending transfer | the transition API, the internal transition of the services | only edges of the table; final statuses final; the status agrees with the rows other services write |
| rider assignment (`fulfillment/rider-assignment.service.ts`) | `RiderAssignment` rows, `assignmentVersion` | assign, reassign before pickup, reassign in mid possession, finalize a transfer | one ACTIVE assignment, that of the active rider at the current version; versions never reused |
| pickup handoff (`pickup-handoff`) | merchant-to-rider tokens | issue, confirm, lazy expiry, revocation | the goods leave the shop once, into the assigned rider's hands |
| rider custody handoff (`rider-custody-handoff`) | rider-to-rider tokens | issue, confirm, lazy expiry | possession moves between riders only with evidence of both |
| delivery handoff (`delivery-handoff`) | delivery tokens, recipient authorizations | issue, confirm, expire, revoke; authorize and revoke a recipient | the receiver is the one the customer trusts now; one receipt |
| return handoff (`return-handoff`) | rider-to-merchant tokens | issue, confirm, expiry | only the rider in possession returns |
| delivery failure (`delivery-failure`) | attempts, operational cases | report, select disposition, resolve | attempts numbered without gap, one case under treatment |
| redelivery (`redelivery`) | authorizations of a further attempt | request, confirm, activate, cancel, expire | attempts never exceed the budget; every retry authorized |
| operations recovery (`operations-recovery`) | recoveries | open, investigate, select, clear a pending transfer, close, cancel | never in authority beside a redelivery; reachable when it is needed |
| invoice issuance (`integrations/accura`) | one job per order, the invoice association | enqueue, claim, process, record, webhook, manual retry | every paid order has a job; a job has one worker; no success lost or undone; jobs end |
| rider advance and its settlement (`rider-advance*`) | the advance, its agreement version, claimed transfers | authorize, amend, accept, record, acknowledge, cancel; cash, claim, acknowledge, reject | the agreed maximum binds; the rider is repaid once |
| return determination and settlement (`return-financial`) | determinations, obligations, restriction of the advance, repayments | propose (two paths), acknowledge, dispute, finalize; repay | the merchant refunds what was paid and owes the rider the rest |
| exception claims and liability (`exception-financial`) | losses with coverage, claims, liabilities, debts, payments | open, evidence, fact, draft, propose, finalize, adjust; pay | no loss compensated twice; no debt overpaid |
| wallet, reload and billing (`payment-partners/wallet-reload.service.ts`, `modules/wallet`, `merchants/merchant-subscription-billing.service.ts`) | balances, ledger rows, platform payments | reload, callbacks, credit, debit, daily charge, commission | balance = ledger; a reload credited once; payment and row agree |
| orders (`orders/orders.service.ts`) | order status, payment status, inventory reservations | create, update status, cancel, gateway notifications | reservations released once; a payment and its job together |

### Other components

Custody event log, agreements, serializable retry, order operational state
(read-only projection), financial reconciliation, payment ownership, order
payments by PayCools, the legacy order vertical (`modules/*`), onboarding of
merchants, coordinators and ACCURA clients, subscriptions, vouchers, dine-in,
catalogue, listings and RFQ, identity, notifications and chat, the frontend and
the routing server. `PROJECT.json` states for each whether and why it is left
out; section 9 gives the reasons by group.

### How they interact

- *Shared rows.* All services of the fulfillment work on one
  `OrderFulfillment` row and write each other's tables: assigning a rider
  revokes tokens of four services, confirming a custody handoff replaces the
  assignment, activating a redelivery resolves a case and revokes tokens.
- *Calls.* Handoffs, failure and redelivery change the status through
  `transitionInTx`, within their own transaction.
- *Tokens.* A token carries (rider, assignment, version) from one
  transaction, in the hands of a person, into a later one; meanwhile anything
  may happen. Nearly every hazard of the core is of this form.
- *The generic transition API* moves the status without tokens or custody; it
  is guarded by the table and an authority matrix only.
- *Commerce to fulfillment.* `updateStatus` writes the order's status
  unconditionally, and runs a bridge of three transactions on `ready`.
- *Money follows the goods.* An advance is bound to the assignment it was agreed
  under; replacing the rider cancels, disputes or keeps it, by its status. A
  completed return lets the merchant's determination take the debt over; an
  operations recovery with a financial review opens exception claims. Three
  settlement services acknowledge payments against principals that the others
  change.
- *Provider callbacks.* A reload is created statement by statement; the callback
  of PayCools reads the payment, then updates it under a condition, in a
  transaction with the credit. Subscription billing debits the same wallet.
- *Outbox.* Paying an order writes a job; worker processes claim due jobs under
  a lease and call ACCURA; ACCURA's webhook attaches the invoice, and does not
  touch the job.

### Hard behaviours

Tokens that outlive what they were issued for; a transfer between riders that is
pending while anything else happens; two optimistic records (paper owner,
physical custodian) that must be moved together; counters shared by several
paths (attempt numbers, budgets); two authorities that exclude each other and
can lock each other out; claims of payment acknowledged after what is owed has moved;
callbacks that are repeated, late or contradict one another; processes that stop between two statements; leases;
lost answers; results written by id alone. Section 8 and the hazards of
`PROJECT.json` place each at its line.

## 2. Modules

| module | models | kind |
|---|---|---|
| `FulfillmentStateMachine` | the lifecycle table, the authority matrix | operators |
| `FulfillmentRecords` | the rows and the token operations all services share | state |
| `RiderAssignment`, `PickupHandoff`, `RiderCustodyHandoff`, `DeliveryHandoff`, `ReturnHandoff`, `DeliveryFailure` | one service each | actions |
| `Fulfillment` | those composed with the transition API, the bridge, start of delivery and the order's status | specification, properties |
| `ChainOfCustody` | what they promise together | abstract specification |
| `Redelivery`, `OperationsRecovery` | one service each, over the records of `Fulfillment` | actions |
| `DeliveryRecovery` | `Fulfillment` composed with the two | specification, properties |
| `InvoiceIssuance` | settlement, job, workers, ACCURA, webhook, administrator | specification, properties |
| `FinanceRecords` | the rows of an order's money, and what the services read of the fulfillment | state |
| `RiderAdvance`, `AdvanceSettlement`, `ReturnFinancial`, `ExceptionFinancial` | the advance and the delivery as it sees it; its repayment; return determination and repayment; exception claims, liabilities and payments | actions, each module over the one before |
| `OrderFinance` | those composed | specification, properties |
| `WalletLedger` | reload, callbacks, credits and debits, billing and commission | specification, properties |
| `MCFulfillment`, `MCDeliveryRecovery`, `MCOrderFinance`, `MCWalletLedger` | the symmetry of the small instances | model checking |
| `FulfillmentProofs`, `CustodyProofs`, `ChainProofs`, `RecoveryProofs`, `InvoiceProofs`, `OrderFinanceProofs`, `WalletProofs` | theorems | proofs |
| `FiniteSums` | lemmas on sums over finite sets | proofs |

### Correspondence of state

| variable | rows |
|---|---|
| `status`, `activeRider`, `version`, `custodian`, `pendingTo`, `pendingFrom` | columns of `OrderFulfillment` (`status`, `activeRiderId`, `assignmentVersion`, `physicalCustodianRiderId`, `pendingCustodyIncomingRiderId`, `pendingCustodyFromAssignmentVersion`) |
| `order` | the class of `WkOrder.status` as the handoffs tell it apart |
| `assignments` | `RiderAssignment` rows |
| `pickupToken`, `custodyToken`, `deliveryToken`, `returnToken` | the four token tables; an id that was never issued has status `UNISSUED` |
| `recipient` | `CustomerDeliveryAuthorization` rows |
| `custodyLog` | the custody events that a secured handoff records |
| `attempts`, `cases` | `DeliveryAttempt`, `OperationalCase` |
| `unsecured` | history: the secured edges that the generic API has taken; no row, no guard reads it |
| `redelivery`, `recovery` | `RedeliveryAuthorization`, `OperationsRecoveryCase` |
| `cash`, `paid`, `serving` | payment method, `paymentStatus`, and the orders between the two statements of `updateStatus` |
| `job`, `invoice`, `issued` | `AccuraIssuanceJob`, `WkOrderAccuraInvoice`, and what ACCURA holds under the order's one idempotency key |
| `worker` | the local state of `processDueJobs` in each worker process |
| `advance`, `claim` | `RiderAdvance` with its current agreement version and the parties that accepted it; `RiderAdvanceSettlement` |
| `determination`, `obligation`, `restricted`, `repayment` | `ReturnFinancialDetermination`, `ReturnFinancialObligation`, the ACTIVE `RiderAdvanceCollectionRestriction` per advance, `ReturnFinancialSettlement` |
| `loss`, `exceptionClaim`, `liability`, `debt`, `debtClaim` | `EconomicLoss` with the sums of its coverage, `ExceptionClaim`, `LiabilityDetermination` with its allocations, `ExceptionFinancialObligation`, `ExceptionFinancialSettlement` |
| `settled` (a field) | not a column: the sum over ACKNOWLEDGED rows that each handler computes. Triggers keep such rows unchanged, so a running total is the same |
| `balance`, `commission` | `Wallet.balance` of the merchant, of the coordinator |
| `creating`, `call`, `biller` | the point a request, a callback, a billing run has reached, with what it has read |
| `payment`, `linked`, `row`, `provider` | `PlatformPaymentTransaction.status` and `sourceId`, `WalletTransaction.status`, and the provider's side |
| `posted`, `charged`, `earned` | completed ledger rows under their unique references |

### Granularity

*Fulfillment.* A handler runs in one Serializable transaction that locks the
fulfillment row first (`prisma/serializable-retry.ts` repeats it on a
serialization failure; the generic transition is not repeated, and then has no
effect). So a handler is one action, and interleaving happens between handlers.
A call that is denied, or recognised as a repetition, changes nothing: it is no
step. The exception is a late token, whose refusal marks it EXPIRED; this is an
action. Expiry itself is a choice: a token may be found late at any time.

*Invoice issuance.* A worker's pass is not a transaction. Each statement and the
HTTP call is a step of its own; only the conditional update of a claim and the
read that follows it are one step (nothing writes the columns it reads to a
claimed job that is not due). The clock is abstract: `job[o].due` says that
`nextAttemptAt`, or the end of a lease, has passed. A pass compares with the
instant it began at, so what falls due later is taken out of the candidates of
the passes in progress. ACCURA is external: it may answer anything, and 201 only
for an invoice it holds. An invoice that ACCURA issues after the worker has
given up waiting is counted to the same step.

*Finance.* Every handler is one Serializable transaction, hence one action. The
fulfillment appears as far as these services read it: `mid_possession` stands
for the statuses between pickup and the end of the trip, and
`TransferCustody` for the finalization of a transfer, whose guards
`RiderCustodyHandoff` models. `OrderFinance` is therefore a second view of the
fulfillment with fewer guards, not a composition with `Fulfillment`: the
product of the two is out of TLC's reach, and more behaviours are the safe
side for the properties claimed.

*Wallet.* Creating a reload is not a transaction: the payment, its ledger row, the
link between them, the request to PayCools and the publication of the code are a
step each; it may stop after any of them, or fail into its error handler. A
callback's read and its transaction are two steps. The transaction, and each
conditional `updateMany`, is one. A billing run is three: look, charge, commission.

### Abstractions of data

Rider, token, authorization, order and worker identifiers are model values. Left
out because no modelled guard that matters depends on them: OTP counters and
secrets, scanning and presentation, in `Fulfillment` the rider-advance gate and
the financial determinations (they only deny there), address snapshots, evidence rows, audit and
domain events, notifications, roles within a merchant, idempotency keys (a
repeated key is no step). Rules that a unique index of the database enforces
(one open redelivery, one active recovery, one ACTIVE token of a kind) are in
the guards and are not claimed as properties.

## 3. Properties and runs

All runs use `CHECK_DEADLOCK FALSE`: a fulfillment that is delivered and a job
that is finished stop, as they should.

| run | bounds | states | what it shows |
|---|---|---|---|
| `FulfillmentCustody` | 3 riders, 3 versions, 2 custody tokens, 2 recipients, one token of each other kind | 521 thousand | the services implement the chain of custody (`ImplementsChain`); `AssignmentAgrees`, `CustodianAgrees`, `LifecycleAgrees`; no capability outlives its intent (`CustodyTokenNamesTransfer`, `ReceiverIsCurrent`); `ChainUnbroken`, `HandedOverOnce`, `RiderChangesWithVersion`, `CustodyMovesWithEvidence`, `TerminalFrozen`, `TypeOK` |
| `FulfillmentBypass` | every kind of caller at the generic API, 2 attempts | 865 thousand | the custody log stays a chain, and an outcome the API did not write has its receipt (`ChainUnbroken`, `OutcomeEvidenced`) |
| `RedeliveryBudget` | 3 attempts, 3 redeliveries, 2 delivery tokens | 700 thousand | `AttemptCeiling`, `AttemptsNumbered`, `NextAttemptRecordable`, `EveryRetryAuthorized`, `RecoveryTypeOK` |
| `RecoveryCustody` | 3 riders, 1 recovery, 1 redelivery | 611 thousand | clearing a pending transfer beside reassignments leaves custodian, intent and tokens in agreement (`CustodianAgrees`, `CustodyTokenNamesTransfer`); redelivery and recovery are never both in authority (`ExclusiveAuthority`) |
| `RecoveryExhausted` | 3 attempts, 2 redeliveries, 1 recovery | until found | violation of `ExhaustionCanEscalate`, finding 1 |
| `InvoiceBatches` | 2 orders, 2 workers, batch 2, 2 attempts, 1 crash, 1 manual retry | 1.65 million | one worker per job (`OneProcessor`), successes final (`SucceededIsFinal`), `TypeOK` |
| `InvoiceLiveness` | 1 order, 2 workers, 2 attempts, 1 crash, 1 overrun lease, 1 manual retry | 61 thousand | `SucceededIsIssued`, `ClaimsBounded`, `NoPostWhileReconciling`, and under fairness `JobsFinish`, `LostSuccessFound` |
| `InvoiceEnqueued` | 1 order, 1 worker, 1 crash | until found | violation of `PaidHasJob`, finding 2 |
| `OrderFinance` | 2 riders, 1 advance, 2 transfer claims, 2 determinations, 1 repayment claim, amounts to 2, 2 agreement versions | 2.2 million | the agreed terms bind (`AdvanceWithinTerms`), the rider is repaid once by customer and merchant together (`RiderRepaidOnce`), the merchant refunds what was paid (`RefundEqualsPaid`), `ReimbursedIffSettled`, `ObligationsSettledExactly` |
| `ExceptionFinance` | 3 kinds of loss, 1 claim, 2 liabilities (one may adjust the other), 1 payment claim, 1 advance, 1 return determination, amounts to 2 | 834 thousand | return and exception never compensate a loss twice (`NoDoubleCompensation`); `ObligationsSettledExactly` for debts; `TypeOK` |
| `AdvancePreserved` | 1 rider, 1 advance | until found | violation of `ObligationPreserved`, finding 3 |
| `WalletReload` | 2 reloads, 2 callbacks at a time, 1 credit, 1 debit, 2 days, 2 billing runs | 87 thousand | the balances are what the ledgers add up to (`BalanceIsLedger`); payment and ledger row of a reload end alike (`ReloadsAgree`) |

Each property is stated, with the code it is about, in a comment above it.

### Bounds, and why they are enough

- *Riders*: a transfer needs two, a second transfer or a rewritten intent a
  third. `FulfillmentCustody` and `RecoveryCustody` have three.
- *`MaxVersion`* bounds installations of a rider. Three versions give a token of
  the last but one assignment, which is the stalest there is to tell apart.
- *Tokens*: two of a kind give one that is replaced or revoked while the other
  is used; identifiers are never reused, so tokens also bound retries.
- *`AttemptBound`* bounds reports. The ceiling of three is the code's
  `MAX_DELIVERY_ATTEMPTS`, used as it is where the budget is the question; the
  custody runs use less because a further attempt repeats the same states.
- *Amounts* up to 2 tell apart nothing, part and all, of what is owed, and an
  acknowledgement below its claim. Two transfer claims give one that is open while
  another, or cash, is acknowledged. `MaxEdition` 2 is an amendment after the
  acceptance. The theorems hold for any amounts.
- *Losses* are the kinds the policy compares with a return, and one it does not;
  two liabilities are a determination and its adjustment. One claim at a
  time is open on a loss by the code's own rule; the theorem on compensation
  has any number of each.
- *Callbacks*: two at a time are a duplicate, or a failure racing a success; more
  wait their turn. `Reload` 2 and `Fee` 1 differ, so that a confusion of the two shows.
- *Symmetry* permutes identifiers that no operator orders; it is used in the
  safety runs only. The liveness run uses none.
- *`MaxAttempts` 2, `BatchSize` 2* (the code: 6 and 10) give a first, a
  last and no middle attempt, and a batch with a job at hand and one that waits
  under its lease. The assumption that orders number at most three batches is
  the `take` of the candidate query; with more, a pass leaves some to the next.
- *`CrashBound`, `OverrunBound`, `RetryBound`* are one each. Two crashes repeat
  the first on the other worker; the theorems hold for any number.
- What is *not* bounded away: every order of handlers, every kind of caller in
  `FulfillmentBypass`, order statuses that are written at any time.

### Fairness

None outside `InvoiceIssuance`. Every step of the fulfillment and of its money is something a person does or
asks for by HTTP; nothing in the code makes a rider arrive, so nothing is
claimed to happen eventually, and reachability problems are stated as
safety (`NextAttemptRecordable`, `ExhaustionCanEscalate`). A reload whose request
stopped before the customer saw the code stays pending for good: the code has no
sweep, so no liveness is claimed for it.

`InvoiceIssuance` has weak fairness of each worker's steps (the poll loop
`runUntilStopped` runs until told to stop, the HTTP call is aborted after a
timeout, a crashed worker is restarted) and of a job becoming due (time passes).
Nothing is assumed of payments, of the webhook, of ACCURA's answers or of
administrators. Crashes, overrun leases and manual retries are bounded, so that
they come to an end; a worker that crashes forever finishes nothing.

### Leases

The lease is 300 s. A pass claims at most 10 jobs and waits at most 10 s for
each answer, so a batch ends well within its lease unless the process is
suspended or the database is slow. `LeaseOverrun` is that case.
`OneProcessor`, `NoPostWhileReconciling` and `SucceededIsFinal` are stated for
behaviours without one (`overruns = 0 => ...`), because results are written by job id
alone and a worker that has outlived its lease does overwrite the result of its
successor. `SucceededIsIssued`, `ClaimsBounded`, `JobsFinish` and
`LostSuccessFound` hold with overruns too, and are checked with one.

## 4. Faulty variants

A definition named `Faulty...` is a plausible mistake in the definition that
follows it: a forgotten revocation, an off-by-one, a check of the wrong column,
a write without its condition. No specification uses them. `PROJECT.json`
("mutants") pairs each property of a passing run with a variant under which TLC
finds it violated, in the same run and within the same bounds: evidence that the
run reaches the case the property is about. Some examples:

| mistake | property that fails |
|---|---|
| a transfer that leaves the custodian behind (`FaultyCustodianStays`) | `ImplementsChain`, `CustodianAgrees` |
| custody tokens that survive a reassignment (`FaultyCustodyTokenSurvives`) | `CustodyTokenNamesTransfer` |
| a return confirmed by the former rider (`FaultyStaleRiderReturns`) | `ChainUnbroken` |
| a budget of one attempt more (`FaultyOneMore`) | `AttemptCeiling` |
| a claim without its condition (`FaultyClaimsUnconditionally`) | `OneProcessor` |
| leases that nobody takes over (`FaultyNeverReclaims`) | `JobsFinish` |
| the reconciliation test before the look for an invoice (`FaultyAssociated`) | `LostSuccessFound` |
| an amendment that keeps the rider's acceptance (`FaultyAmended`) | `AdvanceWithinTerms` |
| a return that leaves the customer's debt collectible (`FaultyRestriction`) | `RiderRepaidOnce` |
| an acknowledgement that trusts the amount of the claim (`FaultyMayAcknowledge`) | `RefundEqualsPaid` |
| a return that does not ask what exceptions have allotted (`FaultyMayMonetize`) | `NoDoubleCompensation` |
| a callback that settles a payment that is already paid (`FaultyClaimable`) | `BalanceIsLedger` |
| a failure that overwrites a payment (`FaultyFailedPayment`) | `ReloadsAgree` |

## 5. Refinement

`ChainOfCustody` is the promise to merchant and customer: one holder at a
time, from the shop into a rider's hands, from rider to rider, to the customer
or back, each change on record when it happens. `Fulfillment` implements it
under the mapping *holder* = the presumed custodian on the road, the customer
once delivered, the merchant otherwise; *phase* from the status; *trail* = the
receivers in the custody log. Assigning, reassigning, issuing, revoking and
failing are stutters, which is the point: paper moves nothing.

It holds when the generic API serves customers and merchants. With riders and
administrators as callers it does not: `RIDER_ALLOWED_TARGETS` still lets a rider
write `picked_up` without evidence, and ADR 0009 keeps the API for administrators
(decision 20). `FulfillmentBypass` checks what remains true then.

## 6. Proofs

Assumptions: `PartyAssumption` (merchant, customer, the null value and riders
are distinct, authorizations are neither), `BoundAssumption`,
`IssuanceAssumption`, `FinanceConstants` and `WalletConstants` (bounds are
naturals, the null value is no row; orders number at most three batches; a wallet
has finitely many entries, each a credit or a debit). Constants are otherwise
arbitrary: any number of riders, tokens, versions, workers, advances, claims,
losses, reloads. Three theorems assume more, in their statements: the two refinements
need the generic API kept from riders and administrators, and
`ExhaustionNeverEscalates` that a second attempt is allowed (the code: three).

Every safety property of every run that passes has its theorem. Three more say what
remains of the properties that the code breaks (section 7).

| theorem | statement |
|---|---|
| `FulfillmentProofs!TypeCorrect` | `Spec => []TypeOK` |
| `FulfillmentProofs!AssignmentCorrect`, `CustodianCorrect`, `LifecycleCorrect` | the three agreements of `FulfillmentCustody` |
| `FulfillmentProofs!OptimisticLock` | `RiderChangesWithVersion` |
| `FulfillmentProofs!CustodyEvidence` | `CustodyMovesWithEvidence` |
| `FulfillmentProofs!Finished` | `TerminalFrozen` |
| `CustodyProofs!Unbroken`, `Evidenced` | `ChainUnbroken`, `OutcomeEvidenced`, for every set of callers |
| `CustodyProofs!Transfers`, `Receivers` | `CustodyTokenNamesTransfer`, `ReceiverIsCurrent` |
| `CustodyProofs!OnceOnly` | `HandedOverOnce` |
| `ChainProofs!Refinement` | `Callers \subseteq {"CUSTOMER", "MERCHANT"}` implies `Spec => ImplementsChain` |
| `RecoveryProofs!RecoveryTyped` | `DeliveryRecoverySpec => []RecoveryTypeOK` |
| `RecoveryProofs!RecoveredCustody` | `CustodianAgrees` and `CustodyTokenNamesTransfer` of the composed system |
| `RecoveryProofs!Exclusive`, `Numbered` | `ExclusiveAuthority`, `AttemptsNumbered` |
| `RecoveryProofs!Ceiling`, `Recordable`, `Authorized` | `AttemptCeiling`, `NextAttemptRecordable`, `EveryRetryAuthorized` |
| `RecoveryProofs!RecoveredAgreement`, `RecoveredEvidence` | `AssignmentAgrees`, `LifecycleAgrees`, `ReceiverIsCurrent`; `ChainUnbroken`, `OutcomeEvidenced`, `HandedOverOnce`, all of the composed system |
| `RecoveryProofs!RecoveredSteps` | `TerminalFrozen`, `RiderChangesWithVersion`, `CustodyMovesWithEvidence` of the composed system |
| `RecoveryProofs!RecoveredRefinement` | `Callers \subseteq {"CUSTOMER", "MERCHANT"}` implies `DeliveryRecoverySpec => ImplementsChain` |
| `RecoveryProofs!ExhaustionNeverEscalates` | exhausted attempts always block their own recovery (finding 1) |
| `InvoiceProofs!TypeCorrect` | `Spec => []TypeOK` |
| `InvoiceProofs!LeaseMutualExclusion` | `Spec => []OneProcessor` |
| `InvoiceProofs!NoRepost` | `Spec => []NoPostWhileReconciling` |
| `InvoiceProofs!SuccessFinal` | `Spec => SucceededIsFinal` |
| `InvoiceProofs!SuccessesIssued` | `Spec => []SucceededIsIssued` |
| `InvoiceProofs!AttemptsWithinFaults` | `Spec => []ClaimsBounded` |
| `InvoiceProofs!JobsMissedByCrashes` | no more orders without a job than crashes (finding 2) |
| `OrderFinanceProofs!Typing`, `Terms`, `Reimbursement` | `TypeOK`, `AdvanceWithinTerms`, `ReimbursedIffSettled` |
| `OrderFinanceProofs!Refund`, `Repaid` | `RefundEqualsPaid`, `RiderRepaidOnce` |
| `OrderFinanceProofs!Settlement`, `Compensation` | `ObligationsSettledExactly`, `NoDoubleCompensation` |
| `OrderFinanceProofs!DebtKept` | a debt is erased only by cancelling an advance in dispute (finding 3) |
| `WalletProofs!Reloads`, `Booked` | `ReloadsAgree`, `BalanceIsLedger` |
| `WalletProofs!Typing` | `Spec => []TypeOK` |

*Fulfillment.* The inductive invariant `IInv` is types, the three agreements
and `CustodyTokensBound` (a live custody token names two riders). None of the
agreements is inductive alone. Assigning before the pickup clears nothing of
the custodian, and is safe because the lifecycle says there is none; finalizing
a transfer writes rider, version and custodian, and keeps the custodian right
because the pending intent is of the active rider at the current version; the
rider it installs is a rider because of the token it consumes. The proof has one
step per action and one lemma per shared operation on tokens and assignments.

*Custody.* `LogSound` relates the log to the present: before the end of the
trip the last receiver on record is the proven custodian (so the next event
starts where that one ended), on the road the log is empty only if the pickup was
bypassed, and a final receipt is last, from the active rider, and of the kind the
status names. `TokensSound` adds to the two claims about capabilities that at most
one delivery token is ACTIVE, without which issuing would not establish
`ReceiverIsCurrent`. Both lean on `IInv`, and hold for every set of callers.
`CountSound` equates the number of events of each kind with that of consumed
tokens: before the pickup there are none, and a step that writes one event
consumes one token, which was ACTIVE and so is counted for the first time.

*Chain.* Adds `CustodianProven` (on the road somebody is on record as holding
the goods), which is what the generic API breaks. Each action is shown to be
one abstract action or a stutter; three lemmas relate the custody log to the
trail.

*Recovery.* `RInv` adds three parts to `IInv` and the token claims.
`AttemptsSound`: the failures are numbered 1 .. n with n cases, only the latest
case may be open, and versions grow with the numbers. `RedeliveriesSound`: a
request fixes its target, at most n + 1, and its prior case, that of the attempt
before; so what an activation closes is the latest case, and nothing is left open
on the road. `BudgetSound` says what is spent: n is the number of activations, plus
the failure not yet treated, unless the generic API moved the order. Alone none is
inductive: the number a report takes is that of the last activated target, which
is n + 1 only because of the budget, and the budget grows by one only because the
targets do. Steps are proved in classes: those of the core that leave attempts and
cases alone (`Calm`), a failure report, a confirmed delivery, an activation, and
the steps on paper (requests, cancellations, recoveries).

*Composition.* To the fulfillment a step of the composed system is one of three
(`ComposedStep`): a step of its own; the return to the road by an activation
(`Resumed`); or nothing but the end of a pending transfer (`Beside`). So what was
proved of `Fulfillment` alone, the sound log, the counts, the action properties
and the refinement, carries over: only the two new kinds of step are left to look
at. An activation moves between two statuses on the road and uses no token.

*Exhausted attempts.* By `BudgetSound`, two failures or more mean an activation,
which is never undone, so the block is always there when the trigger is; the
second part, that no recovery has the trigger, is inductive by the first.

*Issuance.* `Leased`: a job in a worker's hands is PROCESSING and not due, and
nobody else holds it. A claim needs a due job, hence takes none that is held; a
result is written to a held job and gives it back; a job falls due only when it
is not held, unless its lease is overrun. `PostsFresh` adds that the worker at
the POST has seen a job that is not reconciling. `SuccessInv` traces a success to
an answer or an attached invoice, and needs no lease. For `TypeOK`, a worker that
claims has nothing at hand, so testing the batch bounds all it has claimed
(`BatchBounded`), and a result is written to a job that has been claimed, hence
has an attempt (`AttemptsCounted`, which needs the lease).

*Claims beyond the maximum.* Where leases are overrun several workers hold one
job, and each writes back a status from an attempt it remembers. `Fits` keeps an
account per order. The workers that hold it are one, less while the job can be
claimed again, plus one for each overrun. The claims made (at least one short of the
maximum), the one that an open job offers, and one for each holder that may still schedule a retry come to no more
than the maximum, the crashes and the overruns: a claim takes the offer and makes a
retrier or uses up the attempts, a result takes its retrier and at most reopens the job,
and only a fault adds to the account.

*Orders without a job.* Only a stop of the server takes an order out of
`serving` without the enqueue, and a job, once written, stays. So the orders
that go without number at most the crashes, and gateway orders are not among them.

*Finance.* `Inv` has five parts, one for each area of rows, and for each part a
lemma that every handler keeps it, with frame lemmas for the handlers that do not
touch it. `AdvanceSound` says what money an advance of each status carries (a
principal only after the vendor's acknowledgement, terms accepted by both from
the acceptance on). `ReturnSound`: one determination is final at most, and there
are no obligations before. `RefundSound` ties the two: once a determination is
final, nothing of the advance is collectible, because the restriction is all that
was owed; so an acknowledgement, which asks again what is collectible, moves
nothing, and the equality of refund and payment is kept. It also says that the
debt moved exists, without which the sum over two obligations would not bound the
rider's receipts. `LossSound` is the containment of coverage with the import of the
return's share: whichever determination is final second sees the first. `DebtSound`
says that debts belong to liabilities on claims that exist. `DebtKept` needs only
`AdvanceSound`: handlers that write a row anew take statuses without a principal.

*Wallet.* The inductive invariant follows the order of writing: the provider is
asked only once the row is there and linked (`Written`), and the customer can pay
only once the request can no longer run into its error handler. So an
unconditional failure never meets a payment, and a callback has always read a
link (`CallSound`).

*Books.* Every step that changes a balance writes one entry of the same amount,
or one completed reload, or one charged day, in the same transaction; and a debit
or a charge asks the balance first. The invariant is the equation itself with its
parts in the naturals, and that a billing run charges and earns only for the day it
looked at. The sums are the matter of `FiniteSums`: `MapThenSumSet` is a fold over
a chosen order, hence recursive, and the library's induction takes its predicate as
an operator, which the provers cannot instantiate. The module goes round it: a
smallest set at which the claim fails exists because inclusion of finite sets is
well-founded, and at that set the claim follows from smaller ones. `TotalFold` shows
so that the sum is the one function that solves the recursion, `TotalWithout` that it
does not depend on the order, `TotalChange` what one entry written anew does to it.

*Only model-checked*: the liveness of `JobsFinish` and `LostSuccessFound`, as the
proof system does not treat fairness and ENABLED. The properties of the three runs
that end in a violation have no proof, being false.

## 7. Findings

1. **Exhausted deliveries cannot be escalated** (`RecoveryExhausted`,
   `operations-recovery/operations-recovery.service.ts:328`). An ordinary opening
   of a recovery is refused while any redelivery authorization is ACTIVATED, and
   ACTIVATED is never left. Three failed attempts take two activations, so
   `DELIVERY_ATTEMPTS_EXHAUSTED`, the trigger ADR 0012 is written for, is always
   refused. The PostgreSQL test inserts three attempts directly, without the
   activations that precede them. `ExhaustionNeverEscalates` proves it for every
   instance: unless the generic API moved the goods, the block is always there.
2. **A cash order can be paid without an issuance job** (`InvoiceEnqueued`,
   `orders/orders.service.ts:1178`). The payment is committed by the order
   update, the job is written by a later statement, with the fulfillment
   bridge and an audit event in between. The comment of `enqueueForSettledOrder`
   requires one transaction. The gateway path does it that way. `JobsMissedByCrashes`
   proves that it takes a crash for each order, and that gateway orders are safe.

3. **Cancelling an advance twice erases its debt** (`AdvancePreserved`,
   `rider-advance/rider-advance.service.ts:1316`). The first cancel of an advance
   that has an established debt sets DISPUTED, as the comment at 1291-1292
   promises. DISPUTED is not among the statuses after the expenditure (39-44), so
   a second cancel, by the customer or an administrator, sets CANCELLED. No
   repayment is accepted from then on, and a later return proposal does not find the
   advance. `DebtKept` proves that there is no other way to lose the debt.

Two places where documents trail the code, met on the way and without a run:
`docs/ACCURA_INTEGRATION.md` says that cash completion is not enqueued (it is)
and that a reused key is terminal (it is reconciled).

Observations on code that no document contradicts, hence without a run:

- Finalizing a return determination on the ordinary path does not ask again
  whether an advance has a principal; only the proposal does
  (`return-financial/return-financial-determination.service.ts:308-314`). A
  proposal made before the vendor acknowledges is finalized after, and the order
  then has a refund by each rule.
- A final exception determination for an unrecovered rider advance does not
  restrict the customer's repayment of the advance; a return determination does.
- An adjustment of a liability leaves the debts of the adjusted one unpayable
  (they are refused with RECONCILIATION_REQUIRED).
- No service leaves a draft liability or an active exception claim but by
  finalizing. Once a return covers the loss, a draft that exceeds the rest can
  neither be finalized nor dropped, and keeps its claim, and the loss, occupied.
- The subject of a loss is free text; losses with different subjects do not
  exclude one another.
- `updateStatus` reads an order, releases its stock in a transaction, and
  writes the new status in a later statement (`orders/orders.service.ts:985-1134`).
  Two overlapping cancellations, or a repetition after a stop in between,
  release the reservation twice; a database check keeps the counters within bounds.
- Billing writes back a merchant status it read earlier
  (`merchants/merchant-subscription-billing.service.ts:328-360`), so a
  suspension in between is undone.
- A reload notified as failed and then as paid stays failed, and the customer's
  money is not credited. A stop between a charge and its commission loses the commission.

## 8. Hazards

`PROJECT.json` lists them by line with the properties that cover them. Three are
not covered, each with a note: idempotency keys that answer for an earlier intent,
the bridge that stops half-way (with the creation race of the fulfillment row),
and late gateway notifications on orders.

## 9. Not modelled

- *Inventory of orders.* Section 7 says what the separate statements allow; no
  property of interest survives it, and no document promises one that would make a finding.
- *Order payments by PayCools.* `createForOrder` always refuses; what settles them
  serves rows of earlier releases. The live use of the same payments, the reload, is modelled.
- *Idempotency keys.* A repeated key is no step. What it answers is no state.
- *The verification of merchant payments and the commerce status*, which the
  finance services read: written by others at any time and without condition,
  they can permit or deny any request, and are left out.
- *Denials only*: agreement terms of a return, policy versions and attribution of
  fault in an exception, roles, OTP counters. Leaving them out adds behaviours and hides none.
- *Several subjects of a kind of loss.*
- *The merchant's account status* in billing, and top-ups by gateways that the code disables.
- *Row CRUD and forms*: onboarding, catalogue, listings, RFQ, identity, agreements,
  subscriptions, vouchers. Their guards are per request, their concurrency is a
  unique key.
- *No effect on modelled state*: notifications, chat, tracking, reports,
  reconciliation reviews, the operational-state projection, and the frontend, which
  is most of the source by lines.
- *Third party*: the routing server, ACCURA, PayCools; their answers are choices.

## 10. Plan

1. Fulfillment core, chain of custody, its refinement and proofs. *Done.*
2. Failure, redelivery and recovery. *Done.*
3. Invoice issuance with workers, crashes and leases; lease proofs. *Done.*
4. The money of an order, with proofs of all its safety properties. *Done.*
5. Wallet, reload and billing, with proofs of the books. *Done.*
6. Proofs on the custody log and the capabilities. *Done.*
7. Proofs of `DeliveryRecovery`, of `HandedOverOnce`, of the types of the
   issuance and of `ClaimsBounded`; the promises of `Fulfillment` carried over to
   the composed system; the limits of the three findings. *Done.*
8. Left: the bridge from commerce to fulfillment with its program counter;
   idempotency keys as a layer over the core's actions; vouchers and subscriptions.
