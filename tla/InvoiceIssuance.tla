-------------------------- MODULE InvoiceIssuance --------------------------
(***************************************************************************)
(* The official invoice of a paid order: the durable job written when the  *)
(* order is paid, the workers that claim due jobs and call ACCURA, and the *)
(* invoice.issued webhook that attaches the result                         *)
(* (integrations/accura, and the two places in orders.service.ts that      *)
(* enqueue a job).                                                         *)
(*                                                                         *)
(* Unlike the fulfillment handlers, a worker's pass is not a transaction:  *)
(* every database statement and the HTTP call is a step of its own, and    *)
(* other workers, the server, ACCURA and an administrator act in between.  *)
(* The clock is abstract: job[o].due says that nextAttemptAt, or for a job *)
(* being processed the end of its lease, has passed.  ACCURA (external)    *)
(* may answer anything; it answers 201 only for an invoice it holds.       *)
(***************************************************************************)
EXTENDS Integers, FiniteSets

CONSTANTS
  Order,         \* paid or payable marketplace orders
  Worker,        \* processes running npm run worker:accura-issuance
  MaxAttempts,   \* ACCURA_ISSUANCE_MAX_ATTEMPTS
  BatchSize,     \* ACCURA_ISSUANCE_BATCH_SIZE
  CrashBound,    \* crashes of a worker or of the server in a behavior
  OverrunBound,  \* leases that end while their worker is still at work
  RetryBound     \* manual retries by an administrator

\* claimDueJobs reads at most three batches of candidates; no more than that
\* many orders means that none is left out.
ASSUME IssuanceAssumption ==
  /\ MaxAttempts \in Nat \ {0} /\ BatchSize \in Nat \ {0}
  /\ CrashBound \in Nat /\ OverrunBound \in Nat /\ RetryBound \in Nat
  /\ IsFiniteSet(Order) /\ Cardinality(Order) <= 3 * BatchSize

VARIABLES
  cash,      \* orders paid on completion; the others through a gateway
  paid,      \* orders whose paymentStatus is paid
  serving,   \* orders whose updateStatus has written and not yet enqueued
  job,       \* the accura_issuance_jobs row of each order
  invoice,   \* orders with a WkOrderAccuraInvoice row
  issued,    \* orders ACCURA holds an invoice for, under their one key
  worker,    \* where each worker is
  crashes, overruns, retries

vars == <<cash, paid, serving, job, invoice, issued, worker,
          crashes, overruns, retries>>

Waiting  == {"PENDING", "RETRY_SCHEDULED", "PENDING_RECONCILIATION"}
Finished == {"SUCCEEDED", "FAILED"}

\* reconciling: lastErrorCategory is PENDING_RECONCILIATION
Job == [status : Waiting \cup Finished \cup {"NONE", "PROCESSING"},
        attempts : Nat, due : BOOLEAN, reconciling : BOOLEAN]

Outcome == {"COMPLETED", "RETRYABLE", "PERMANENT", "RECONCILE"}

NoJob  == [status |-> "NONE", attempts |-> 0, due |-> FALSE,
           reconciling |-> FALSE]
NewJob == [NoJob EXCEPT !.status = "PENDING", !.due = TRUE]

\* Claimed jobs, as read after the claim: the attempt is the worker's copy.
Claims == [order : Order, attempt : Nat]

Idle == [pc |-> "idle", candidates |-> {}, batch |-> {}, at |-> {},
         outcome |-> "NONE"]

Holds(w) == {c.order : c \in worker[w].batch \cup worker[w].at}

Step == {"idle", "claim", "look", "prior", "post", "record"}

\* A worker: its step, the candidates it has yet to try, the jobs it has
\* claimed, and the one it is processing, a set of at most one claim.
WorkerState == [pc : Step, candidates : SUBSET Order, batch : SUBSET Claims,
                at : SUBSET Claims, outcome : Outcome \cup {"NONE"}]

Types ==
  /\ cash \subseteq Order /\ paid \subseteq Order /\ serving \subseteq Order
  /\ invoice \subseteq Order /\ issued \subseteq Order
  /\ job \in [Order -> Job]
  /\ worker \in [Worker -> WorkerState]
  /\ crashes \in Nat /\ overruns \in Nat /\ retries \in Nat

TypeOK ==
  /\ Types
  /\ overruns = 0 =>
       \A o \in Order :
         job[o].status \in {"NONE", "PENDING"} <=> job[o].attempts = 0
  /\ \A w \in Worker :
       Cardinality(worker[w].batch \cup worker[w].at) <= BatchSize
  /\ crashes <= CrashBound /\ overruns <= OverrunBound
  /\ retries <= RetryBound

Init ==
  /\ cash \in SUBSET Order
  /\ paid = {} /\ serving = {} /\ invoice = {} /\ issued = {}
  /\ job = [o \in Order |-> NoJob]
  /\ worker = [w \in Worker |-> Idle]
  /\ crashes = 0 /\ overruns = 0 /\ retries = 0
----------------------------------------------------------------------------
(* Settling an order and writing the job.                                  *)

\* enqueueForSettledOrder: nothing when the order has an invoice or a job.
Enqueue(o) ==
  job' = IF o \in invoice \/ job[o] # NoJob THEN job
         ELSE [job EXCEPT ![o] = NewJob]

\* markPaidByGateway with commitPaidAndEnqueueAccura: one transaction.
SettleByGateway(o) ==
  /\ o \notin cash \cup paid
  /\ paid' = paid \cup {o}
  /\ Enqueue(o)
  /\ UNCHANGED <<cash, serving, invoice, issued, worker, crashes, overruns, retries>>

\* updateStatus to completed, up to its order update; completing a paid order
\* again only reaches the enqueue again.
CompleteOrder(o) ==
  /\ o \in cash \ serving
  /\ o \in paid => job[o] = NoJob
  /\ paid' = paid \cup {o}
  /\ serving' = serving \cup {o}
  /\ UNCHANGED <<cash, job, invoice, issued, worker, crashes, overruns, retries>>

\* the rest of updateStatus: the job, in a statement of its own.
EnqueueSettled(o) ==
  /\ o \in serving
  /\ serving' = serving \ {o}
  /\ Enqueue(o)
  /\ UNCHANGED <<cash, paid, invoice, issued, worker, crashes, overruns, retries>>

\* the server stops, or a statement in between fails.
ServerCrash(o) ==
  /\ o \in serving
  /\ crashes < CrashBound
  /\ crashes' = crashes + 1
  /\ serving' = serving \ {o}
  /\ UNCHANGED <<cash, paid, job, invoice, issued, worker, overruns, retries>>
----------------------------------------------------------------------------
(* The worker: processDueJobs.                                             *)

Due == {o \in Order : job[o].due}

Goto(w, step, out) ==
  worker' = [worker EXCEPT ![w] = [@ EXCEPT !.pc = step, !.outcome = out]]

\* claimDueJobs, the read of candidates.
Poll(w) ==
  /\ worker[w].pc = "idle"
  /\ Due # {}
  /\ worker' = [worker EXCEPT ![w] = [@ EXCEPT !.pc = "claim",
                                               !.candidates = Due]]
  /\ UNCHANGED <<cash, paid, serving, job, invoice, issued,
                 crashes, overruns, retries>>

\* Faulty variants: a claim by id alone; leases that are never taken over.
FaultyClaimsUnconditionally(o) ==
  job[o].status \in Waiting \cup {"PROCESSING"}
FaultyNeverReclaims(o) == job[o].due /\ job[o].status \in Waiting

\* claimDueJobs, the conditional update: it claims what is still due.
CanClaim(o) ==
  job[o].due /\ job[o].status \in Waiting \cup {"PROCESSING"}

\* Faulty variant: the attempt is counted when it fails, not when claimed.
FaultyNextAttempt(o) == job[o].attempts

NextAttempt(o) == job[o].attempts + 1

TryClaim(w) ==
  /\ worker[w].pc = "claim"
  /\ Cardinality(worker[w].batch) < BatchSize
  /\ \E o \in worker[w].candidates :
       IF CanClaim(o)
       THEN LET n == NextAttempt(o) IN
            /\ job' = [job EXCEPT ![o] =
                 [@ EXCEPT !.status = "PROCESSING",
                           !.attempts = n, !.due = FALSE]]
            /\ worker' = [worker EXCEPT ![w] =
                 [@ EXCEPT !.candidates = worker[w].candidates \ {o},
                           !.batch = worker[w].batch \cup {[order |-> o, attempt |-> n]}]]
       ELSE /\ worker' = [worker EXCEPT ![w] =
                 [@ EXCEPT !.candidates = worker[w].candidates \ {o}]]
            /\ UNCHANGED job
  /\ UNCHANGED <<cash, paid, serving, invoice, issued, crashes, overruns, retries>>

\* the next claimed job, or the end of the pass.
NextJob(w) ==
  /\ worker[w].pc = "claim"
  /\ \/ worker[w].candidates = {}
     \/ Cardinality(worker[w].batch) >= BatchSize
  /\ IF worker[w].batch = {}
     THEN worker' = [worker EXCEPT ![w] = Idle]
     ELSE \E c \in worker[w].batch :
            worker' = [worker EXCEPT ![w] =
                         [@ EXCEPT !.pc = "look", !.candidates = {},
                                   !.batch = worker[w].batch \ {c}, !.at = {c}]]
  /\ UNCHANGED <<cash, paid, serving, job, invoice, issued,
                 crashes, overruns, retries>>

\* Faulty variant: the reconciliation test before the look for an invoice.
FaultyAssociated(o) == o \in invoice /\ ~job[o].reconciling

Associated(o) == o \in invoice

\* processClaimedJob: has the webhook attached the invoice already?
LookUp(w) ==
  /\ worker[w].pc = "look"
  /\ \E c \in worker[w].at :
       IF Associated(c.order) THEN Goto(w, "record", "COMPLETED")
                              ELSE Goto(w, "prior", "NONE")
  /\ UNCHANGED <<cash, paid, serving, job, invoice, issued,
                 crashes, overruns, retries>>

\* Faulty variant: the status, which the claim has overwritten.
FaultyReconciling(o) == job[o].status = "PENDING_RECONCILIATION"

Reconciling(o) == job[o].reconciling

\* processClaimedJob: after a lost success, wait for the webhook only.
ReadPrior(w) ==
  /\ worker[w].pc = "prior"
  /\ \E c \in worker[w].at :
       IF Reconciling(c.order) THEN Goto(w, "record", "RECONCILE")
                               ELSE Goto(w, "post", "NONE")
  /\ UNCHANGED <<cash, paid, serving, job, invoice, issued,
                 crashes, overruns, retries>>

\* issueInvoiceForOrder: the request, ACCURA's side of it, and the answer.
\* 201 means issued; a timeout, a lost or incomplete answer, 429 and 5xx are
\* retryable, whether or not ACCURA issued; 409 reports a key already used;
\* every other refusal, here or there, is permanent.
Post(w) ==
  /\ worker[w].pc = "post"
  /\ \E c \in worker[w].at, out \in Outcome :
       /\ issued' \in {issued, issued \cup {c.order}}
       /\ out = "COMPLETED" => c.order \in issued'
       /\ out \in {"PERMANENT", "RECONCILE"} => issued' = issued
       /\ Goto(w, "record", out)
  /\ UNCHANGED <<cash, paid, serving, job, invoice, crashes, overruns, retries>>

\* Faulty variant: one attempt too many.
FaultyExhausted(attempt) == attempt > MaxAttempts

Exhausted(attempt) == attempt >= MaxAttempts

\* Faulty variant: a key that was already used taken for a success.
FaultyStatus(out, attempt) ==
  CASE out \in {"COMPLETED", "RECONCILE"} -> "SUCCEEDED"
    [] out = "RETRYABLE" /\ ~Exhausted(attempt) -> "RETRY_SCHEDULED"
    [] OTHER -> "FAILED"

\* completeJob, scheduleReconciliation, scheduleRetry and failJob: the status,
\* and whether the error category left behind is PENDING_RECONCILIATION.
Status(out, attempt) ==
  CASE out = "COMPLETED" -> "SUCCEEDED"
    [] out = "RECONCILE" /\ ~Exhausted(attempt) -> "PENDING_RECONCILIATION"
    [] out = "RETRYABLE" /\ ~Exhausted(attempt) -> "RETRY_SCHEDULED"
    [] OTHER -> "FAILED"

LeavesReconciling(out) == out = "RECONCILE"

\* The write is by job id alone, with the attempt the worker remembers.
Record(w) ==
  /\ worker[w].pc = "record"
  /\ \E c \in worker[w].at :
       job' = [job EXCEPT ![c.order] =
                 [@ EXCEPT !.status = Status(worker[w].outcome, c.attempt),
                           !.due = FALSE,
                           !.reconciling = LeavesReconciling(worker[w].outcome)]]
  /\ worker' = [worker EXCEPT ![w] = [@ EXCEPT !.pc = "claim", !.at = {},
                                               !.outcome = "NONE"]]
  /\ UNCHANGED <<cash, paid, serving, invoice, issued, crashes, overruns, retries>>

WorkerStep(w) ==
  \/ Poll(w) \/ TryClaim(w) \/ NextJob(w) \/ LookUp(w) \/ ReadPrior(w)
  \/ Post(w) \/ Record(w)

\* The process is killed, told to stop between two jobs, or ended by an error
\* of the database, which nothing in runUntilStopped catches; it is restarted.
WorkerCrash(w) ==
  /\ worker[w].pc # "idle"
  /\ crashes < CrashBound
  /\ crashes' = crashes + 1
  /\ worker' = [worker EXCEPT ![w] = Idle]
  /\ UNCHANGED <<cash, paid, serving, job, invoice, issued, overruns, retries>>
----------------------------------------------------------------------------
(* The clock, ACCURA's webhook and the administrator.                      *)

\* A pass compares with the time it began at: a nextAttemptAt later than that
\* is not due for the candidates it has read.
NotForPresentPasses(o) ==
  worker' = [w \in Worker |->
               [worker[w] EXCEPT !.candidates = @ \ {o}]]

TimePasses(o) ==
  /\ job[o].status \in Waiting \cup {"PROCESSING"}
  /\ ~job[o].due
  /\ job' = [job EXCEPT ![o].due = TRUE]
  /\ NotForPresentPasses(o)
  /\ UNCHANGED <<cash, paid, serving, invoice, issued, crashes, retries>>

Held(o) == \E w \in Worker : o \in Holds(w)

\* the retry time comes, or the lease of a worker that is gone ends.
BecomeDue(o) ==
  /\ ~(job[o].status = "PROCESSING" /\ Held(o))
  /\ TimePasses(o)
  /\ UNCHANGED overruns

\* the lease ends while a worker still holds the job.
LeaseOverrun(o) ==
  /\ job[o].status = "PROCESSING" /\ Held(o)
  /\ overruns < OverrunBound
  /\ overruns' = overruns + 1
  /\ TimePasses(o)

\* processInvoiceIssued: attaches once, and leaves the job alone.
Webhook(o) ==
  /\ o \in issued \ invoice
  /\ invoice' = invoice \cup {o}
  /\ UNCHANGED <<cash, paid, serving, job, issued, worker,
                 crashes, overruns, retries>>

\* Faulty variant: any finished job can be retried.
FaultyRetryable == Finished \cup {"PENDING_RECONCILIATION"}

Retryable == {"FAILED", "PENDING_RECONCILIATION"}

\* retryFailed
AdminRetry(o) ==
  /\ retries < RetryBound
  /\ job[o].status \in Retryable
  /\ retries' = retries + 1
  /\ job' = [job EXCEPT ![o] = NewJob]
  /\ NotForPresentPasses(o)
  /\ UNCHANGED <<cash, paid, serving, invoice, issued, crashes, overruns>>
----------------------------------------------------------------------------
Next ==
  \/ \E o \in Order :
       \/ SettleByGateway(o) \/ CompleteOrder(o) \/ EnqueueSettled(o)
       \/ ServerCrash(o) \/ BecomeDue(o) \/ LeaseOverrun(o)
       \/ Webhook(o) \/ AdminRetry(o)
  \/ \E w \in Worker : WorkerStep(w) \/ WorkerCrash(w)

\* The poll loop runs until it is told to stop, the HTTP call is aborted after
\* a timeout, and time passes: workers make progress and retries become due.
\* Nothing is assumed of payments, of the webhook or of administrators.
Fairness ==
  /\ \A w \in Worker : WF_vars(WorkerStep(w))
  /\ \A o \in Order : WF_vars(BecomeDue(o))

Spec == Init /\ [][Next]_vars /\ Fairness
----------------------------------------------------------------------------
(* Properties.  The lease is what keeps two workers apart: those that need *)
(* it are stated for behaviors in which no batch has outlived its lease.   *)

\* claimDueJobs: as long as leases outlive the work, a job is in the hands of
\* one worker at a time, whatever crashes, retries and other claims do.
OneProcessor ==
  overruns = 0 =>
    \A v, w \in Worker : v # w => Holds(v) \cap Holds(w) = {}

\* completeJob: a job is SUCCEEDED only for an order ACCURA holds an invoice
\* for, even when a worker has outlived its lease and writes late.
SucceededIsIssued ==
  \A o \in Order : job[o].status = "SUCCEEDED" => o \in issued

\* The results are written by job id alone: with leases that outlive the work,
\* no late result, claim or manual retry undoes a success.
SucceededIsFinal ==
  [][overruns = 0 =>
       \A o \in Order :
         job[o].status = "SUCCEEDED" => job'[o].status = "SUCCEEDED"]_vars

\* maxAttempts: a job is claimed beyond its attempts only when a worker dies
\* with it, or overruns its lease, once for each such event.
ClaimsBounded ==
  \A o \in Order : job[o].attempts <= MaxAttempts + crashes + overruns

\* processClaimedJob's lost-success path: once ACCURA has reported the key as
\* used, nothing is posted for the order until an administrator resets the job.
NoPostWhileReconciling ==
  overruns = 0 =>
    \A w \in Worker : worker[w].pc = "post" =>
      \A c \in worker[w].at : ~job[c.order].reconciling

\* Every enqueued job ends SUCCEEDED or FAILED and stays so, through crashes,
\* overrun leases and retries, as long as these come to an end.
JobsFinish ==
  \A o \in Order :
    job[o].status # "NONE" ~> [](job[o].status \in Finished)

\* processClaimedJob: a job that waits for the webhook of a lost success, and
\* that no overdue worker is about to overwrite, ends as a success once the
\* webhook has come, although the webhook does not touch the job.
LostSuccessFound ==
  \A o \in Order :
    (/\ job[o].status = "PENDING_RECONCILIATION"
     /\ o \in invoice /\ ~Held(o))
      ~> job[o].status = "SUCCEEDED"

\* enqueueForSettledOrder "must run in the same DB transaction as the
\* paymentStatus=paid write": a paid order whose update is over has a job.
PaidHasJob ==
  \A o \in paid \ serving : job[o] # NoJob \/ o \in invoice
=============================================================================
