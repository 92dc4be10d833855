----------------------------- MODULE WalletProofs -----------------------------
(***************************************************************************)
(* Proof that the payment of a reload and its ledger row end the same way, *)
(* for any number of reloads and callbacks.  The reason is the order in    *)
(* which the request writes: the provider is asked only when the row is    *)
(* there and linked, and the customer can pay only when the request can    *)
(* fail no more.                                                           *)
(*                                                                         *)
(* And proof that the books balance: each step that moves money writes one *)
(* entry of the same amount, which was not in the ledger before.  The sums *)
(* over entries are those of FiniteSums.                                   *)
(***************************************************************************)
EXTENDS WalletLedger, FiniteSums

reloading == <<creating, payment, linked, row, provider, call>>

ReloadTypes ==
  /\ creating \in [Payment -> {"no", "row", "link", "ask", "publish", "failing",
                               "done", "lost"}]
  /\ payment \in [Payment -> {"none", "PENDING", "PAID", "FAILED"}]
  /\ linked \in [Payment -> BOOLEAN]
  /\ row \in [Payment -> {"none", "pending", "completed", "failed"}]
  /\ provider \in [Payment -> {"none", "open", "collected"}]
  /\ call \in [Call -> CallRow]

(* What the request that creates a reload has written, by where it is.     *)
Written(p) ==
  /\ creating[p] = "no" => payment[p] = "none"
  /\ creating[p] \in {"no", "row"} => row[p] = "none"
  /\ creating[p] \in {"no", "row", "link", "ask"} => provider[p] = "none"
  /\ creating[p] \in {"row", "link", "ask"} => payment[p] = "PENDING"
  /\ creating[p] \in {"link", "ask"} => row[p] = "pending"
  /\ creating[p] \in {"ask", "publish", "failing", "done"} => linked[p] /\ row[p] # "none"
  /\ provider[p] # "none" => linked[p] /\ row[p] # "none" /\ payment[p] # "none"
  /\ provider[p] = "collected" => creating[p] = "done"

(* A callback being served has read a payment that the provider knows.     *)
CallSound(c) ==
  LET p == call[c].payment IN
  p # None => /\ call[c].linked
              /\ provider[p] # "none"
              /\ call[c].verdict = "PAID" => provider[p] = "collected"

Agree(p) ==
  /\ payment[p] = "PAID" <=> row[p] = "completed"
  /\ payment[p] = "FAILED" <=> row[p] = "failed"
  /\ payment[p] = "PAID" => provider[p] = "collected"

Inv ==
  /\ ReloadTypes
  /\ \A p \in Payment : Written(p) /\ Agree(p)
  /\ \A c \in Call : CallSound(c)
-----------------------------------------------------------------------------
LEMMA InvInit == Init => Inv
<1> SUFFICES ASSUME Init PROVE Inv
  OBVIOUS
<1> USE DEF Init
<1>1. NoCall \in CallRow
  BY DEF NoCall, CallRow
<1>2. ReloadTypes
  BY <1>1 DEF ReloadTypes
<1>3. \A p \in Payment : Written(p) /\ Agree(p)
  BY DEF Written, Agree
<1>4. \A c \in Call : CallSound(c)
  BY DEF CallSound, NoCall
<1> QED BY <1>2, <1>3, <1>4 DEF Inv

Creation(p) == CreatePending(p) \/ CreateRow(p) \/ LinkRow(p) \/ AskProvider(p)
               \/ Publish(p) \/ GiveUp(p) \/ CreatorStops(p) \/ CustomerPays(p)

LEMMA CreationStep ==
  ASSUME Inv, NEW p \in Payment, Creation(p)
  PROVE  Inv'
<1> USE DEF Inv, ReloadTypes
<1>1. call' = call /\ \A q \in Payment : provider[q] # "none" => provider'[q] # "none"
  BY DEF Creation, CreatePending, CreateRow, LinkRow, AskProvider, Publish, GiveUp,
         CreatorStops, CustomerPays, reloads
<1>2. \A q \in Payment : provider[q] = "collected" => provider'[q] = "collected"
  BY DEF Creation, CreatePending, CreateRow, LinkRow, AskProvider, Publish, GiveUp,
         CreatorStops, CustomerPays, reloads, Written
<1>3. \A c \in Call : CallSound(c)'
  BY <1>1, <1>2, WalletConstants DEF CallSound, CallRow
<1>4. \A q \in Payment \ {p} : /\ creating'[q] = creating[q] /\ payment'[q] = payment[q]
                               /\ linked'[q] = linked[q] /\ row'[q] = row[q]
                               /\ provider'[q] = provider[q]
  BY DEF Creation, CreatePending, CreateRow, LinkRow, AskProvider, Publish, GiveUp,
         CreatorStops, CustomerPays, reloads
<1>5. \A q \in Payment \ {p} : (Written(q) /\ Agree(q))'
  BY <1>4 DEF Written, Agree
<1>6. ReloadTypes'
  <2>1. /\ creating' \in [Payment -> {"no", "row", "link", "ask", "publish", "failing",
                                     "done", "lost"}]
        /\ provider' \in [Payment -> {"none", "open", "collected"}]
    BY DEF Creation, CreatePending, CreateRow, LinkRow, AskProvider, Publish, GiveUp,
           CreatorStops, CustomerPays, reloads
  <2>2. /\ payment' \in [Payment -> {"none", "PENDING", "PAID", "FAILED"}]
        /\ linked' \in [Payment -> BOOLEAN]
        /\ row' \in [Payment -> {"none", "pending", "completed", "failed"}]
    BY DEF Creation, CreatePending, CreateRow, LinkRow, AskProvider, Publish, GiveUp,
           CreatorStops, CustomerPays, reloads
  <2> QED BY <1>1, <2>1, <2>2
<1>7. (Written(p) /\ Agree(p))'
  <2> USE DEF Written, Agree
  <2>1. CASE CreatePending(p)
    BY <2>1 DEF CreatePending
  <2>2. CASE CreateRow(p)
    BY <2>2 DEF CreateRow
  <2>3. CASE LinkRow(p)
    BY <2>3 DEF LinkRow
  <2>4. CASE AskProvider(p)
    BY <2>4 DEF AskProvider
  <2>5. CASE Publish(p)
    BY <2>5 DEF Publish
  <2>6. CASE GiveUp(p)
    BY <2>6 DEF GiveUp
  <2>7. CASE CreatorStops(p)
    BY <2>7 DEF CreatorStops
  <2>8. CASE CustomerPays(p)
    BY <2>8 DEF CustomerPays, reloads
  <2> QED BY <2>1, <2>2, <2>3, <2>4, <2>5, <2>6, <2>7, <2>8 DEF Creation
<1> QED BY <1>3, <1>5, <1>6, <1>7

Serving(c) == \/ \E p \in Payment, verdict \in {"PAID", "FAILED"} : ReceiveCall(c, p, verdict)
              \/ Settle(c) \/ MarkFailed(c) \/ CallStops(c)

LEMMA ServingStep ==
  ASSUME Inv, NEW c \in Call, Serving(c)
  PROVE  Inv'
<1> USE DEF Inv, ReloadTypes
<1>1. NoCall \in CallRow
  BY DEF NoCall, CallRow
<1>2. ASSUME NEW r \in CallRow, call' = [call EXCEPT ![c] = r], provider' = provider,
             r.payment # None => /\ r.linked
                                 /\ provider[r.payment] # "none"
                                 /\ r.verdict = "PAID" => provider[r.payment] = "collected"
      PROVE  call' \in [Call -> CallRow] /\ \A b \in Call : CallSound(b)'
  BY <1>2 DEF CallSound
<1>3. ASSUME call' = [call EXCEPT ![c] = NoCall], provider' = provider
      PROVE  call' \in [Call -> CallRow] /\ \A b \in Call : CallSound(b)'
  BY <1>1, <1>2, <1>3 DEF NoCall
<1>4. ASSUME NEW p \in Payment, NEW verdict \in {"PAID", "FAILED"}, ReceiveCall(c, p, verdict)
      PROVE  Inv'
  <2> DEFINE r == [payment |-> p, verdict |-> verdict, linked |-> linked[p]]
  <2>1. /\ r \in CallRow /\ r.linked /\ provider[r.payment] # "none"
        /\ r.verdict = "PAID" => provider[r.payment] = "collected"
    BY <1>4 DEF ReceiveCall, Written, CallRow
  <2>2. call' = [call EXCEPT ![c] = r] /\ UNCHANGED <<creating, payment, linked, row, provider>>
    BY <1>4 DEF ReceiveCall, reloads
  <2> HIDE DEF r
  <2> QED BY <1>2, <2>1, <2>2 DEF Written, Agree
<1>5. CASE CallStops(c)
  BY <1>3, <1>5 DEF CallStops, reloads, Written, Agree
<1>6. CASE Settle(c) \/ MarkFailed(c)
  <2> DEFINE p == call[c].payment
  <2>1. p \in Payment
    BY <1>6 DEF Settle, MarkFailed, CallRow
  <2>2. /\ call[c].linked /\ provider[p] # "none"
        /\ call[c].verdict = "PAID" => provider[p] = "collected"
    BY <1>6 DEF Settle, MarkFailed, CallSound
  <2>3. /\ call' = [call EXCEPT ![c] = NoCall] /\ provider' = provider
        /\ creating' = creating /\ linked' = linked
    BY <1>6 DEF Settle, MarkFailed
  <2>4. call' \in [Call -> CallRow] /\ \A b \in Call : CallSound(b)'
    BY <1>3, <2>3
  <2>5. Written(p) /\ Agree(p)
    BY <2>1
  <2>6. row[p] = "pending" <=> payment[p] = "PENDING"
    BY <2>1, <2>2, <2>5 DEF Written, Agree
  <2>7. \/ UNCHANGED <<payment, row>>
        \/ /\ payment' = [payment EXCEPT ![p] = "PAID"]
           /\ row' = [row EXCEPT ![p] = "completed"]
           /\ provider[p] = "collected"
        \/ /\ payment' = [payment EXCEPT ![p] = "FAILED"]
           /\ row' = [row EXCEPT ![p] = "failed"]
    <3>1. CASE Settle(c)
      BY <2>2, <2>6, <3>1 DEF Settle, Claimable
    <3>2. CASE MarkFailed(c)
      <4>1. /\ payment' = [payment EXCEPT ![p] = FailedPayment(p)]
            /\ row' = [row EXCEPT ![p] = FailedRow(p)]
        BY <2>2, <3>2 DEF MarkFailed
      <4>2. CASE payment[p] = "PENDING"
        BY <2>6, <4>1, <4>2 DEF FailedPayment, FailedRow
      <4>3. CASE payment[p] # "PENDING"
        <5>1. FailedPayment(p) = payment[p] /\ FailedRow(p) = row[p]
          BY <2>6, <4>3 DEF FailedPayment, FailedRow
        <5> QED BY <2>1, <4>1, <5>1
      <4> QED BY <4>2, <4>3
    <3> QED BY <1>6, <3>1, <3>2
  <2> HIDE DEF p
  <2>8. /\ payment' \in [Payment -> {"none", "PENDING", "PAID", "FAILED"}]
        /\ row' \in [Payment -> {"none", "pending", "completed", "failed"}]
    BY <2>1, <2>7
  <2>9. ASSUME NEW q \in Payment PROVE (Written(q) /\ Agree(q))'
    <3>1. CASE q # p
      BY <2>1, <2>3, <2>7, <3>1 DEF Written, Agree
    <3>2. CASE q = p
      BY <2>1, <2>2, <2>3, <2>5, <2>7, <3>2 DEF Written, Agree
    <3> QED BY <3>1, <3>2
  <2> QED BY <2>3, <2>4, <2>8, <2>9
<1> QED BY <1>4, <1>5, <1>6 DEF Serving

LEMMA OtherStep == Inv /\ UNCHANGED reloading => Inv'
BY DEF Inv, ReloadTypes, reloading, Written, Agree, CallSound

LEMMA NextCases ==
  [Next]_vars => \/ \E p \in Payment : Creation(p)
                 \/ \E c \in Call : Serving(c)
                 \/ UNCHANGED reloading
BY DEF Next, vars, Creation, Serving, reloading, CreditWallet, DebitWallet, StartBilling,
       Charge, CreditCommission, BillerStops, reloads, billing

(* However callbacks are repeated, delayed or contradict one another, and  *)
(* wherever the request that creates the reload stops or fails: a payment  *)
(* counts as paid exactly when its ledger row is completed, never without  *)
(* the provider's money, and as failed exactly when the row has failed.    *)
THEOREM Reloads == Spec => []ReloadsAgree
<1>1. Inv /\ [Next]_vars => Inv'
  BY CreationStep, ServingStep, OtherStep, NextCases
<1>2. Inv => ReloadsAgree
  BY DEF Inv, Agree, ReloadsAgree
<1> QED BY <1>1, <1>2, InvInit, PTL DEF Spec
-----------------------------------------------------------------------------
(* The books.                                                              *)
Completed == {p \in Payment : row[p] = "completed"}

(* What a ledger adds up to, by its entries, reloads and charged days.     *)
Ledger(entries, reloaded, days) ==
  Reload * reloaded + Total(entries, Credit) - Total(entries, Debit) - Fee * days

(* The runs of the billing charge and earn only what they looked at.       *)
BillingSound ==
  /\ charged \subseteq Day /\ earned \subseteq charged
  /\ IsFiniteSet(charged) /\ IsFiniteSet(earned)
  /\ biller \in [Biller -> BillerRow]
  /\ \A b \in Biller : /\ biller[b].step = "charge" => biller[b].day \in Day
                       /\ biller[b].step = "commission" => biller[b].day \in charged
  /\ commission = Share * Cardinality(earned)

Books ==
  /\ balance \in Nat
  /\ posted \in [Credit \cup Debit -> 0 .. MaxAmount]
  /\ IsFiniteSet(Completed)
  /\ balance = Ledger(posted, Cardinality(Completed), Cardinality(charged))

BooksInv == Inv /\ BillingSound /\ Books

LEMMA Amounts == /\ Reload \in Nat /\ Fee \in Nat /\ Share \in Nat /\ MaxAmount \in Nat
                 /\ IsFiniteSet(Credit) /\ IsFiniteSet(Debit)
                 /\ Credit \cap Debit = {}
<1>1. IsFiniteSet(Credit) /\ IsFiniteSet(Debit)
  BY WalletConstants, FS_Subset
<1> QED BY <1>1, WalletConstants

LEMMA Sums ==
  ASSUME NEW entries \in [Credit \cup Debit -> 0 .. MaxAmount]
  PROVE  Total(entries, Credit) \in Nat /\ Total(entries, Debit) \in Nat
<1>1. \A q \in Credit \cup Debit : entries[q] \in Nat
  BY Amounts
<1>2. Total(entries, Credit) \in Nat
  BY <1>1, Amounts, TotalNat
<1>3. Total(entries, Debit) \in Nat
  BY <1>1, Amounts, TotalNat
<1> QED BY <1>2, <1>3

LEMMA Times == \A a, n \in Nat : a * n \in Nat /\ a * (n + 1) = a * n + a
OBVIOUS

(* One reload more, and one day more.                                      *)
LEMMA LedgerCounts ==
  ASSUME NEW entries \in [Credit \cup Debit -> 0 .. MaxAmount],
         NEW m \in Nat, NEW n \in Nat
  PROVE  /\ Ledger(entries, m, n) \in Int
         /\ Ledger(entries, m + 1, n) = Ledger(entries, m, n) + Reload
         /\ Ledger(entries, m, n + 1) = Ledger(entries, m, n) - Fee
<1> DEFINE c == Total(entries, Credit)
           d == Total(entries, Debit)
           rm == Reload * m
           fn == Fee * n
<1>1. c \in Nat /\ d \in Nat
  BY Sums
<1>2. rm \in Nat /\ fn \in Nat /\ Reload \in Nat /\ Fee \in Nat
  BY Times, Amounts
<1>3. Reload * (m + 1) = rm + Reload /\ Fee * (n + 1) = fn + Fee
  BY Times, Amounts
<1>4. /\ Ledger(entries, m, n) = rm + c - d - fn
      /\ Ledger(entries, m + 1, n) = Reload * (m + 1) + c - d - fn
      /\ Ledger(entries, m, n + 1) = rm + c - d - Fee * (n + 1)
  BY DEF Ledger
<1> HIDE DEF c, d, rm, fn
<1> QED BY <1>1, <1>2, <1>3, <1>4

(* The entry q is written, with an amount.                                 *)
Enters(entries, more, q, amount) ==
  /\ entries \in [Credit \cup Debit -> 0 .. MaxAmount] /\ entries[q] = 0
  /\ more \in [Credit \cup Debit -> 0 .. MaxAmount] /\ more[q] = amount
  /\ q \in Credit \cup Debit /\ amount \in 1 .. MaxAmount
  /\ DiffersAt(q, entries, more, Credit \cup Debit)

(* One entry more.                                                         *)
LEMMA LedgerEntry ==
  ASSUME NEW entries, NEW more, NEW q, NEW amount, Enters(entries, more, q, amount),
         NEW m \in Nat, NEW n \in Nat
  PROVE  /\ q \in Credit => Ledger(more, m, n) = Ledger(entries, m, n) + amount
         /\ q \in Debit => Ledger(more, m, n) = Ledger(entries, m, n) - amount
<1> USE DEF Enters
<1>1. ASSUME NEW S \in {Credit, Debit}
      PROVE  Total(more, S) = IF q \in S THEN Total(entries, S) + amount ELSE Total(entries, S)
  <2>1. IsFiniteSet(S) /\ S \subseteq Credit \cup Debit
    BY Amounts
  <2>2. Total(entries, S) \in Nat /\ Total(more, S) \in Nat
    BY Sums
  <2>3. CASE q \in S
    <3>1. Total(more, S) + entries[q] = Total(entries, S) + more[q]
      <4>1. DiffersAt(q, entries, more, S)
        BY <2>1 DEF DiffersAt
      <4> QED BY <2>1, <2>3, <4>1, TotalChange
    <3> QED BY <2>2, <2>3, <3>1
  <2>4. CASE q \notin S
    <3>1. \A r \in S : more[r] = entries[r]
      BY <2>1, <2>4 DEF DiffersAt
    <3>2. Total(more, S) = Total(entries, S)
      BY <2>1, <3>1, TotalSame
    <3> QED BY <2>4, <3>2
  <2> QED BY <2>3, <2>4
<1> DEFINE rm == Reload * m
           fn == Fee * n
<1>2. rm \in Nat /\ fn \in Nat
  BY Times, Amounts
<1>3. /\ Ledger(entries, m, n) = rm + Total(entries, Credit) - Total(entries, Debit) - fn
      /\ Ledger(more, m, n) = rm + Total(more, Credit) - Total(more, Debit) - fn
  BY DEF Ledger
<1> HIDE DEF rm, fn
<1>4. /\ Total(entries, Credit) \in Nat /\ Total(entries, Debit) \in Nat
      /\ Total(more, Credit) \in Nat /\ Total(more, Debit) \in Nat
  BY Sums
<1>5. q \in Credit => q \notin Debit
  BY Amounts
<1>6. /\ Total(more, Credit) = IF q \in Credit THEN Total(entries, Credit) + amount
                               ELSE Total(entries, Credit)
      /\ Total(more, Debit) = IF q \in Debit THEN Total(entries, Debit) + amount
                              ELSE Total(entries, Debit)
  BY <1>1
<1> QED BY <1>2, <1>3, <1>4, <1>5, <1>6

LEMMA BooksInit == Init => BooksInv
<1> SUFFICES ASSUME Init PROVE BooksInv
  OBVIOUS
<1> USE DEF Init
<1>1. Completed = {}
  BY DEF Completed
<1>2. IsFiniteSet({}) /\ Cardinality({}) = 0
  BY FS_EmptySet
<1>3. BillingSound
  <2>1. Share * 0 = 0
    BY Amounts
  <2>2. IdleBiller \in BillerRow
    BY DEF IdleBiller, BillerRow
  <2> QED BY <1>2, <2>1, <2>2 DEF BillingSound, IdleBiller
<1>4. Books
  <2>1. posted \in [Credit \cup Debit -> 0 .. MaxAmount]
    BY Amounts
  <2>2. \A q \in Credit \cup Debit : posted[q] = 0
    OBVIOUS
  <2>3. ASSUME NEW S \in {Credit, Debit}
        PROVE  Total(posted, S) = 0
    <3>1. IsFiniteSet(S) /\ S \subseteq Credit \cup Debit
      BY Amounts
    <3>2. S = {} => Total(posted, S) = 0
      BY TotalEmpty
    <3> QED BY <3>1, <3>2, <2>2, ZeroSum
  <2>4. Reload * 0 = 0 /\ Fee * 0 = 0
    BY Amounts
  <2>5. Ledger(posted, 0, 0) = 0
    BY <2>3, <2>4 DEF Ledger
  <2> QED BY <1>1, <1>2, <2>1, <2>5 DEF Books
<1> QED BY <1>3, <1>4, InvInit DEF BooksInv

(* Steps that move no money.                                               *)
LEMMA BooksSame ==
  ASSUME BooksInv, Inv', Completed' = Completed, UNCHANGED <<balance, posted, billing>>
  PROVE  BooksInv'
BY DEF BooksInv, Books, BillingSound, billing, Ledger

LEMMA CreationBooks ==
  ASSUME BooksInv, NEW p \in Payment, Creation(p)
  PROVE  BooksInv'
<1>1. Inv' /\ Inv
  BY CreationStep DEF BooksInv
<1>2. UNCHANGED <<balance, posted, billing>>
  BY DEF Creation, CreatePending, CreateRow, LinkRow, AskProvider, Publish, GiveUp,
         CreatorStops, CustomerPays
<1>3. \A q \in Payment : row'[q] = "completed" <=> row[q] = "completed"
  <2>1. Agree(p) /\ Written(p) /\ row \in [Payment -> {"none", "pending", "completed", "failed"}]
    BY <1>1 DEF Inv, ReloadTypes
  <2>2. CASE CreateRow(p)
    BY <2>1, <2>2 DEF CreateRow, Written
  <2>3. CASE GiveUp(p)
    BY <2>1, <2>3 DEF GiveUp, Agree, Written
  <2>4. CASE row' = row
    BY <2>4
  <2> QED BY <2>2, <2>3, <2>4 DEF Creation, CreatePending, LinkRow, AskProvider, Publish,
             CreatorStops, CustomerPays, reloads
<1>4. Completed' = Completed
  BY <1>3 DEF Completed
<1> QED BY <1>1, <1>2, <1>4, BooksSame

(* A callback completes at most one row, and pays for exactly that one.    *)
LEMMA ServingBooks ==
  ASSUME BooksInv, NEW c \in Call, Serving(c)
  PROVE  BooksInv'
<1>1. Inv' /\ Inv
  BY ServingStep DEF BooksInv
<1>2. UNCHANGED <<posted, billing>>
  BY DEF Serving, ReceiveCall, Settle, MarkFailed, CallStops
<1>3. CASE Completed' = Completed /\ balance' = balance
  BY <1>1, <1>2, <1>3, BooksSame
<1>4. ASSUME NEW p \in Payment, p \notin Completed, Completed' = Completed \cup {p},
             balance' = balance + Reload
      PROVE  BooksInv'
  <2>1. IsFiniteSet(Completed) /\ Cardinality(Completed) \in Nat
        /\ IsFiniteSet(charged) /\ Cardinality(charged) \in Nat
    BY FS_CardinalityType DEF BooksInv, Books, BillingSound
  <2>2. IsFiniteSet(Completed') /\ Cardinality(Completed') = Cardinality(Completed) + 1
    BY <1>4, <2>1, FS_AddElement
  <2>3. posted \in [Credit \cup Debit -> 0 .. MaxAmount] /\ balance \in Nat
        /\ balance = Ledger(posted, Cardinality(Completed), Cardinality(charged))
    BY DEF BooksInv, Books
  <2>4. Ledger(posted, Cardinality(Completed) + 1, Cardinality(charged))
          = Ledger(posted, Cardinality(Completed), Cardinality(charged)) + Reload
    BY <2>1, <2>3, LedgerCounts
  <2>5. balance' = Ledger(posted, Cardinality(Completed'), Cardinality(charged))
    BY <1>4, <2>2, <2>3, <2>4
  <2>6. Ledger(posted', Cardinality(Completed'), Cardinality(charged'))
          = Ledger(posted, Cardinality(Completed'), Cardinality(charged))
    BY <1>2 DEF billing
  <2>7. Books'
    BY <1>2, <1>4, <2>2, <2>3, <2>5, <2>6, Amounts DEF Books
  <2>8. BillingSound'
    BY <1>2 DEF BooksInv, BillingSound, billing
  <2> QED BY <1>1, <2>7, <2>8 DEF BooksInv
<1>5. CASE \E p \in Payment, verdict \in {"PAID", "FAILED"} : ReceiveCall(c, p, verdict)
  BY <1>3, <1>5 DEF ReceiveCall, reloads, Completed
<1>6. CASE CallStops(c)
  BY <1>3, <1>6 DEF CallStops, reloads, Completed
<1> DEFINE p == call[c].payment
<1>7. ASSUME Settle(c) \/ MarkFailed(c)
      PROVE  /\ p \in Payment /\ Agree(p) /\ Written(p) /\ call[c].linked
             /\ provider[p] # "none"
             /\ row \in [Payment -> {"none", "pending", "completed", "failed"}]
             /\ payment[p] \in {"none", "PENDING", "PAID", "FAILED"}
  <2>1. p # None /\ p \in Payment \cup {None}
    BY <1>1, <1>7 DEF Inv, ReloadTypes, Settle, MarkFailed, CallRow
  <2> HIDE DEF p
  <2>2. Agree(p) /\ Written(p) /\ CallSound(c)
    BY <1>1, <2>1 DEF Inv
  <2>3. call[c].linked /\ provider[p] # "none"
    BY <2>1, <2>2 DEF CallSound, p
  <2> QED BY <1>1, <2>1, <2>2, <2>3 DEF Inv, ReloadTypes
<1>8. CASE MarkFailed(c)
  <2>1. row' = [row EXCEPT ![p] = FailedRow(p)] /\ balance' = balance
    BY <1>7, <1>8 DEF MarkFailed
  <2> HIDE DEF p
  <2>2. \A q \in Payment : row'[q] = "completed" <=> row[q] = "completed"
    BY <1>7, <1>8, <2>1 DEF FailedRow
  <2> QED BY <1>3, <2>1, <2>2 DEF Completed
<1>9. CASE Settle(c)
  <2>1. CASE payment[p] # "PENDING"
    <3>1. balance' = balance /\ row' = row
      BY <1>9, <2>1 DEF Settle, Claimable
    <3> QED BY <1>3, <3>1 DEF Completed
  <2>2. CASE payment[p] = "PENDING"
    <3>1. balance' = balance + Reload
          /\ row' = IF call[c].linked /\ row[p] = "pending"
                    THEN [row EXCEPT ![p] = "completed"] ELSE row
      BY <1>9, <2>2 DEF Settle, Claimable
    <3>2. row[p] = "pending"
      BY <1>7, <1>9, <2>2 DEF Agree, Written
    <3>3. row' = [row EXCEPT ![p] = "completed"] /\ p \in Payment
      BY <1>7, <1>9, <3>1, <3>2
    <3> HIDE DEF p
    <3>4. row \in [Payment -> {"none", "pending", "completed", "failed"}]
      BY <1>7, <1>9
    <3>5. p \notin Completed /\ Completed' = Completed \cup {p}
      BY <3>2, <3>3, <3>4 DEF Completed
    <3> QED BY <1>4, <3>1, <3>3, <3>5
  <2> QED BY <2>1, <2>2
<1> QED BY <1>5, <1>6, <1>8, <1>9 DEF Serving

(* Credits and debits: one entry of the amount that is moved.              *)
LEMMA PostingBooks ==
  ASSUME BooksInv, NEW amount \in 1 .. MaxAmount,
         \/ \E q \in Credit : CreditWallet(q, amount)
         \/ \E q \in Debit : DebitWallet(q, amount)
  PROVE  BooksInv'
<1> DEFINE m == Cardinality(Completed)
           n == Cardinality(charged)
<1>1. UNCHANGED <<reloading, billing>>
  BY DEF CreditWallet, DebitWallet, reloading, reloads
<1>2. Inv' /\ BillingSound' /\ Completed' = Completed
  <2>1. Inv'
    BY <1>1, OtherStep DEF BooksInv
  <2>2. BillingSound'
    BY <1>1 DEF BooksInv, BillingSound, billing
  <2> QED BY <1>1, <2>1, <2>2 DEF reloading, Completed
<1>3. m \in Nat /\ n \in Nat
  BY FS_CardinalityType DEF BooksInv, Books, BillingSound
<1>4. posted \in [Credit \cup Debit -> 0 .. MaxAmount] /\ balance \in Nat
      /\ balance = Ledger(posted, m, n) /\ IsFiniteSet(Completed)
  BY DEF BooksInv, Books
<1> HIDE DEF m, n
<1>5. /\ posted' \in [Credit \cup Debit -> 0 .. MaxAmount]
      /\ balance' \in Nat /\ balance' = Ledger(posted', m, n)
  <2>1. ASSUME NEW q \in Credit, CreditWallet(q, amount)
        PROVE  /\ posted' \in [Credit \cup Debit -> 0 .. MaxAmount]
               /\ balance' \in Nat /\ balance' = Ledger(posted', m, n)
    <3>1. posted[q] = 0 /\ posted' = [posted EXCEPT ![q] = amount]
          /\ balance' = balance + amount
      BY <2>1 DEF CreditWallet
    <3>2. /\ posted' \in [Credit \cup Debit -> 0 .. MaxAmount]
          /\ Ledger(posted', m, n) = Ledger(posted, m, n) + amount
      <4>1. Enters(posted, posted', q, amount)
        BY <1>4, <2>1, <3>1, Amounts DEF Enters, DiffersAt
      <4>2. Ledger(posted', m, n) = Ledger(posted, m, n) + amount
        BY <1>3, <2>1, <4>1, LedgerEntry
      <4> QED BY <4>1, <4>2 DEF Enters
    <3> QED BY <1>4, <3>1, <3>2, Amounts
  <2>2. ASSUME NEW q \in Debit, DebitWallet(q, amount)
        PROVE  /\ posted' \in [Credit \cup Debit -> 0 .. MaxAmount]
               /\ balance' \in Nat /\ balance' = Ledger(posted', m, n)
    <3>1. posted[q] = 0 /\ posted' = [posted EXCEPT ![q] = amount]
          /\ balance >= amount /\ balance' = balance - amount
      BY <2>2 DEF DebitWallet
    <3>2. /\ posted' \in [Credit \cup Debit -> 0 .. MaxAmount]
          /\ Ledger(posted', m, n) = Ledger(posted, m, n) - amount
      <4>1. Enters(posted, posted', q, amount)
        BY <1>4, <2>2, <3>1, Amounts DEF Enters, DiffersAt
      <4>2. Ledger(posted', m, n) = Ledger(posted, m, n) - amount
        BY <1>3, <2>2, <4>1, LedgerEntry
      <4> QED BY <4>1, <4>2 DEF Enters
    <3> QED BY <1>4, <3>1, <3>2, Amounts
  <2> QED BY <2>1, <2>2
<1>6. Completed' = Completed /\ charged' = charged
  BY <1>1, <1>2 DEF billing
<1>7. Ledger(posted', Cardinality(Completed'), Cardinality(charged')) = Ledger(posted', m, n)
  BY <1>6 DEF m, n
<1> QED BY <1>2, <1>4, <1>5, <1>6, <1>7 DEF BooksInv, Books

(* A billing run charges a day once, and credits its commission once.      *)
LEMMA BillingBooks ==
  ASSUME BooksInv, NEW b \in Biller,
         (\E d \in Day : StartBilling(b, d)) \/ Charge(b) \/ CreditCommission(b) \/ BillerStops(b)
  PROVE  BooksInv'
<1>0. BillingSound /\ Books /\ Inv
  BY DEF BooksInv
<1>1. UNCHANGED <<reloading, posted>>
  BY DEF StartBilling, Charge, CreditCommission, BillerStops, reloading, reloads
<1>2. Inv' /\ Completed' = Completed
  BY <1>0, <1>1, OtherStep DEF reloading, Completed
<1>3. IdleBiller \in BillerRow /\ IdleBiller.step = "idle"
  BY DEF IdleBiller, BillerRow
<1>4. ASSUME UNCHANGED <<balance, charged>>
      PROVE  Books'
  BY <1>0, <1>1, <1>2, <1>4 DEF Books, Ledger
<1>5. ASSUME NEW r \in BillerRow, biller' = [biller EXCEPT ![b] = r], charged \subseteq charged',
             r.step = "charge" => r.day \in Day,
             r.step = "commission" => r.day \in charged'
      PROVE  /\ biller' \in [Biller -> BillerRow]
             /\ \A a \in Biller : /\ biller'[a].step = "charge" => biller'[a].day \in Day
                                  /\ biller'[a].step = "commission" => biller'[a].day \in charged'
  BY <1>0, <1>5 DEF BillingSound
<1>6. CASE \E d \in Day : StartBilling(b, d)
  <2>1. PICK d \in Day : StartBilling(b, d)
    BY <1>6
  <2> DEFINE r == [step |-> "charge", day |-> d]
  <2>2. r \in BillerRow /\ r.step = "charge" /\ r.day = d
    BY DEF BillerRow
  <2>3. biller' = [biller EXCEPT ![b] = r] /\ UNCHANGED <<balance, commission, charged, earned>>
    BY <2>1 DEF StartBilling
  <2> HIDE DEF r
  <2>4. BillingSound'
    BY <1>0, <1>5, <2>2, <2>3 DEF BillingSound
  <2> QED BY <1>2, <1>4, <2>3, <2>4 DEF BooksInv
<1>7. CASE BillerStops(b)
  <2>1. biller' = [biller EXCEPT ![b] = IdleBiller]
        /\ UNCHANGED <<balance, commission, charged, earned>>
    BY <1>7 DEF BillerStops
  <2>2. BillingSound'
    BY <1>0, <1>3, <1>5, <2>1 DEF BillingSound
  <2> QED BY <1>2, <1>4, <2>1, <2>2 DEF BooksInv
<1> DEFINE d == biller[b].day
<1>8. CASE Charge(b)
  <2>1. CASE ~ (d \notin charged /\ balance >= Fee)
    <3>1. biller' = [biller EXCEPT ![b] = IdleBiller]
          /\ UNCHANGED <<balance, commission, charged, earned>>
      BY <1>8, <2>1 DEF Charge
    <3>2. BillingSound'
      BY <1>0, <1>3, <1>5, <3>1 DEF BillingSound
    <3> QED BY <1>2, <1>4, <3>1, <3>2 DEF BooksInv
  <2>2. CASE d \notin charged /\ balance >= Fee
    <3>1. /\ charged' = charged \cup {d} /\ balance' = balance - Fee
          /\ biller' = [biller EXCEPT ![b].step = "commission"]
          /\ UNCHANGED <<commission, earned>>
      BY <1>8, <2>2 DEF Charge
    <3>2. d \in Day /\ biller[b] \in BillerRow
      BY <1>0, <1>8 DEF Charge, BillingSound
    <3> DEFINE r == [biller[b] EXCEPT !.step = "commission"]
    <3>3. r \in BillerRow /\ r.step = "commission" /\ r.day = d
      BY <3>2 DEF BillerRow
    <3>4. biller' = [biller EXCEPT ![b] = r]
      BY <3>1
    <3> HIDE DEF r, d
    <3>5. IsFiniteSet(charged') /\ Cardinality(charged') = Cardinality(charged) + 1
      BY <1>0, <2>2, <3>1, FS_AddElement DEF BillingSound
    <3>6. BillingSound'
      <4>1. /\ biller' \in [Biller -> BillerRow]
            /\ \A a \in Biller : /\ biller'[a].step = "charge" => biller'[a].day \in Day
                                 /\ biller'[a].step = "commission" => biller'[a].day \in charged'
        BY <1>5, <3>1, <3>3, <3>4
      <4> QED BY <1>0, <3>1, <3>2, <3>5, <4>1 DEF BillingSound
    <3>7. Books'
      <4>1. Cardinality(Completed) \in Nat /\ Cardinality(charged) \in Nat
        BY <1>0, FS_CardinalityType DEF Books, BillingSound
      <4>2. posted \in [Credit \cup Debit -> 0 .. MaxAmount] /\ balance \in Nat
            /\ balance = Ledger(posted, Cardinality(Completed), Cardinality(charged))
        BY <1>0 DEF Books
      <4>3. Ledger(posted, Cardinality(Completed), Cardinality(charged) + 1)
              = Ledger(posted, Cardinality(Completed), Cardinality(charged)) - Fee
        BY <4>1, <4>2, LedgerCounts
      <4>4. posted' = posted
        BY <1>1
      <4>5. balance' = Ledger(posted', Cardinality(Completed'), Cardinality(charged'))
        BY <1>2, <3>1, <3>5, <4>2, <4>3, <4>4
      <4>6. balance' \in Nat
        BY <2>2, <3>1, <4>2, Amounts
      <4> QED BY <1>0, <1>2, <4>2, <4>4, <4>5, <4>6 DEF Books
    <3> QED BY <1>2, <3>6, <3>7 DEF BooksInv
  <2> QED BY <2>1, <2>2
<1>9. CASE CreditCommission(b)
  <2>1. biller' = [biller EXCEPT ![b] = IdleBiller] /\ UNCHANGED <<balance, charged>>
    BY <1>9 DEF CreditCommission
  <2>2. d \in charged
    BY <1>0, <1>9 DEF CreditCommission, BillingSound
  <2>3. \/ d \notin earned /\ earned' = earned \cup {d} /\ commission' = commission + Share
        \/ UNCHANGED <<earned, commission>>
    BY <1>9 DEF CreditCommission
  <2> HIDE DEF d
  <2>4. /\ IsFiniteSet(earned') /\ earned' \subseteq charged
        /\ commission' = Share * Cardinality(earned')
    <3>1. CASE UNCHANGED <<earned, commission>>
      BY <1>0, <3>1 DEF BillingSound
    <3>2. CASE d \notin earned /\ earned' = earned \cup {d} /\ commission' = commission + Share
      <4>1. IsFiniteSet(earned) /\ earned \subseteq charged
            /\ commission = Share * Cardinality(earned)
        BY <1>0 DEF BillingSound
      <4>2. IsFiniteSet(earned') /\ Cardinality(earned') = Cardinality(earned) + 1
        BY <3>2, <4>1, FS_AddElement
      <4>3. Cardinality(earned) \in Nat
        BY <4>1, FS_CardinalityType
      <4>4. Share * (Cardinality(earned) + 1) = Share * Cardinality(earned) + Share
        BY <4>3, Amounts, Times
      <4> QED BY <2>2, <3>2, <4>1, <4>2, <4>4
    <3> QED BY <2>3, <3>1, <3>2
  <2>5. BillingSound'
    BY <1>0, <1>3, <1>5, <2>1, <2>4 DEF BillingSound
  <2> QED BY <1>2, <1>4, <2>1, <2>5 DEF BooksInv
<1> QED BY <1>6, <1>7, <1>8, <1>9

LEMMA BooksStep == BooksInv /\ [Next]_vars => BooksInv'
<1> SUFFICES ASSUME BooksInv, [Next]_vars PROVE BooksInv'
  OBVIOUS
<1>1. ASSUME NEW p \in Payment, Creation(p) PROVE BooksInv'
  BY <1>1, CreationBooks
<1>2. ASSUME NEW c \in Call, Serving(c) PROVE BooksInv'
  BY <1>2, ServingBooks
<1>3. ASSUME NEW amount \in 1 .. MaxAmount,
             \/ \E q \in Credit : CreditWallet(q, amount)
             \/ \E q \in Debit : DebitWallet(q, amount)
      PROVE  BooksInv'
  BY <1>3, PostingBooks
<1>4. ASSUME NEW b \in Biller,
             (\E d \in Day : StartBilling(b, d)) \/ Charge(b) \/ CreditCommission(b) \/ BillerStops(b)
      PROVE  BooksInv'
  BY <1>4, BillingBooks
<1>5. CASE UNCHANGED vars
  <2>1. UNCHANGED <<balance, posted, billing, reloading>>
    BY <1>5 DEF vars, billing, reloading
  <2>2. Inv' /\ Completed' = Completed
    BY <2>1, OtherStep DEF BooksInv, Completed, reloading
  <2> QED BY <2>1, <2>2, BooksSame
<1> QED BY <1>1, <1>2, <1>3, <1>4, <1>5 DEF Next, Creation, Serving

LEMMA BooksBalance == BooksInv => BalanceIsLedger
<1> SUFFICES ASSUME BooksInv PROVE BalanceIsLedger
  OBVIOUS
<1>1. \A refs : Posted(refs) = Total(posted, refs)
  BY DEF Posted, Total
<1>2. balance \in Nat /\ balance = Ledger(posted, Cardinality(Completed), Cardinality(charged))
  BY DEF BooksInv, Books
<1>3. balance = Reload * Cardinality(Completed) + Posted(Credit) - Posted(Debit)
                - Fee * Cardinality(charged)
  BY <1>1, <1>2 DEF Ledger
<1>4. commission = Share * Cardinality(earned) /\ earned \subseteq charged
  BY DEF BooksInv, BillingSound
<1>5. balance >= 0
  BY <1>2
<1> QED BY <1>3, <1>4, <1>5 DEF BalanceIsLedger, Completed

(* The books balance at every moment: a wallet holds exactly what the      *)
(* entries of its ledger add up to, and never less than nothing, for any   *)
(* number of reloads, callbacks, entries, days and billing runs, and any   *)
(* amounts.                                                                *)
THEOREM Booked == Spec => []BalanceIsLedger
BY BooksInit, BooksStep, BooksBalance, PTL DEF Spec

(* Every row and every run of the billing keeps its type; no balance ever  *)
(* leaves the naturals.                                                    *)
THEOREM Typing == Spec => []TypeOK
<1>1. BooksInv => TypeOK
  <2> SUFFICES ASSUME BooksInv PROVE TypeOK
    OBVIOUS
  <2>1. commission \in Nat
    <3>1. Cardinality(earned) \in Nat /\ commission = Share * Cardinality(earned)
      BY FS_CardinalityType DEF BooksInv, BillingSound
    <3> QED BY <3>1, Amounts, Times
  <2> QED BY <2>1 DEF BooksInv, Inv, ReloadTypes, BillingSound, Books, TypeOK
<1> QED BY <1>1, BooksInit, BooksStep, PTL DEF Spec
=============================================================================
