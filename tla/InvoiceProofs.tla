--------------------------- MODULE InvoiceProofs ---------------------------
(***************************************************************************)
(* What holds of the issuance worker for any number of orders and workers, *)
(* any batch size and any bounds: the lease argument (a claimed job is not *)
(* due, so nobody else can claim it, until its worker is gone), and what   *)
(* follows from it for the results the workers write by job id alone.      *)
(* Where leases are overrun, an account of the claims made and still to    *)
(* come bounds them by the faults.  So are the orders that go without a    *)
(* job, by the crashes.                                                    *)
(***************************************************************************)
EXTENDS InvoiceIssuance, TLAPS, FiniteSetTheorems

(* Orders and claims.                                                      *)

\* A worker's claims are of different orders, the one at hand included.
ClaimsApart(w) ==
  /\ worker[w].batch \cap worker[w].at = {}
  /\ \A c, d \in worker[w].at : c = d
  /\ \A c, d \in worker[w].batch \cup worker[w].at :
       c.order = d.order => c = d

\* A held job is being processed, its lease is running, and nobody else
\* holds it.
Leased ==
  /\ \A w \in Worker : ClaimsApart(w)
  /\ \A w \in Worker : \A o \in Holds(w) :
       job[o].status = "PROCESSING" /\ ~job[o].due
  /\ \A v, w \in Worker : v # w => Holds(v) \cap Holds(w) = {}

PostsFresh ==
  \A w \in Worker : worker[w].pc = "post" =>
    \A c \in worker[w].at : ~job[c.order].reconciling

LeaseInv == overruns = 0 => Leased /\ PostsFresh

\* A worker processes one job at a time, overrun leases or not.
OneAtHand == \A w \in Worker : \A c, d \in worker[w].at : c = d

\* Where a success can come from.
SuccessInv ==
  /\ invoice \subseteq issued
  /\ \A w \in Worker : worker[w].pc = "record" /\ worker[w].outcome = "COMPLETED"
       => \A c \in worker[w].at : c.order \in issued
  /\ \A o \in Order : job[o].status = "SUCCEEDED" => o \in issued
----------------------------------------------------------------------------
LEMMA NoJobType == NoJob \in Job /\ NewJob \in Job
BY DEF NoJob, NewJob, Job, Waiting, Finished

LEMMA IdleType == Idle \in WorkerState
BY DEF Idle, WorkerState, Step, Outcome

LEMMA GotoType ==
  ASSUME Types, NEW w \in Worker, NEW step \in Step,
         NEW out \in Outcome \cup {"NONE"}, Goto(w, step, out)
  PROVE  worker' \in [Worker -> WorkerState]
BY DEF Types, WorkerState, Goto

LEMMA Constants ==
  /\ "record" \in Step /\ "prior" \in Step /\ "post" \in Step
  /\ "COMPLETED" \in Outcome /\ "RECONCILE" \in Outcome
BY DEF Step, Outcome

\* The next-state relation keeps the types.
LEMMA TypesInductive == Types /\ [Next]_vars => Types'
<1> SUFFICES ASSUME Types, [Next]_vars PROVE Types'
  OBVIOUS
<1> USE NoJobType, IdleType
<1>1. ASSUME NEW o \in Order, SettleByGateway(o) PROVE Types'
  BY <1>1 DEF SettleByGateway, Enqueue, Types
<1>2. ASSUME NEW o \in Order, CompleteOrder(o) PROVE Types'
  BY <1>2 DEF CompleteOrder, Types
<1>3. ASSUME NEW o \in Order, EnqueueSettled(o) PROVE Types'
  BY <1>3 DEF EnqueueSettled, Enqueue, Types
<1>4. ASSUME NEW o \in Order, ServerCrash(o) PROVE Types'
  BY <1>4 DEF ServerCrash, Types
<1>5. ASSUME NEW o \in Order, TimePasses(o), overruns' \in Nat PROVE Types'
  <2>1. job' \in [Order -> Job]
    BY <1>5 DEF TimePasses, Types, Job
  <2>2. worker' \in [Worker -> WorkerState]
    BY <1>5 DEF TimePasses, NotForPresentPasses, Types, WorkerState
  <2> QED BY <1>5, <2>1, <2>2 DEF TimePasses, Types
<1>6. ASSUME NEW o \in Order, BecomeDue(o) PROVE Types'
  BY <1>6, <1>5 DEF BecomeDue, Types
<1>7. ASSUME NEW o \in Order, LeaseOverrun(o) PROVE Types'
  BY <1>7, <1>5 DEF LeaseOverrun, Types
<1>8. ASSUME NEW o \in Order, Webhook(o) PROVE Types'
  BY <1>8 DEF Webhook, Types
<1>9. ASSUME NEW o \in Order, AdminRetry(o) PROVE Types'
  <2>1. worker' \in [Worker -> WorkerState]
    BY <1>9 DEF AdminRetry, NotForPresentPasses, Types, WorkerState
  <2> QED BY <1>9, <2>1 DEF AdminRetry, Types
<1>10. ASSUME NEW w \in Worker, Poll(w) PROVE Types'
  BY <1>10 DEF Poll, Types, WorkerState, Step, Due
<1>11. ASSUME NEW w \in Worker, TryClaim(w) PROVE Types'
  <2> PICK o \in worker[w].candidates :
        IF CanClaim(o)
        THEN /\ job' = [job EXCEPT ![o] =
                  [@ EXCEPT !.status = "PROCESSING",
                            !.attempts = NextAttempt(o), !.due = FALSE]]
             /\ worker' = [worker EXCEPT ![w] =
                  [@ EXCEPT !.candidates = worker[w].candidates \ {o},
                            !.batch = worker[w].batch \cup {[order |-> o,
                                               attempt |-> NextAttempt(o)]}]]
        ELSE /\ worker' = [worker EXCEPT ![w] = [@ EXCEPT !.candidates = worker[w].candidates \ {o}]]
             /\ UNCHANGED job
    BY <1>11 DEF TryClaim
  <2>1. o \in Order /\ job[o] \in Job
    BY DEF Types, WorkerState
  <2>2. [order |-> o, attempt |-> NextAttempt(o)] \in Claims
    BY <2>1 DEF Claims, NextAttempt, Job
  <2>3. job' \in [Order -> Job]
    <3>0. NextAttempt(o) \in Nat
      BY <2>1 DEF Job, NextAttempt
    <3>1. [job[o] EXCEPT !.status = "PROCESSING",
              !.attempts = NextAttempt(o), !.due = FALSE] \in Job
      BY ONLY <2>1, <3>0 DEF Job
    <3> QED BY <2>1, <3>1 DEF Types
  <2>4. worker' \in [Worker -> WorkerState]
    <3>1. /\ [worker[w] EXCEPT !.candidates = worker[w].candidates \ {o},
                !.batch = worker[w].batch \cup {[order |-> o, attempt |-> NextAttempt(o)]}]
               \in WorkerState
          /\ [worker[w] EXCEPT !.candidates = worker[w].candidates \ {o}] \in WorkerState
      BY <2>2 DEF Types, WorkerState
    <3> QED BY <3>1 DEF Types
  <2> QED BY <1>11, <2>3, <2>4 DEF TryClaim, Types
<1>12. ASSUME NEW w \in Worker, NextJob(w) PROVE Types'
  <2>1. CASE worker' = [worker EXCEPT ![w] = Idle]
    BY <1>12, <2>1 DEF NextJob, Types
  <2>2. ASSUME NEW c \in worker[w].batch,
               worker' = [worker EXCEPT ![w] =
                            [@ EXCEPT !.pc = "look", !.candidates = {},
                                      !.batch = worker[w].batch \ {c}, !.at = {c}]]
        PROVE  worker' \in [Worker -> WorkerState]
    <3>1. [worker[w] EXCEPT !.pc = "look", !.candidates = {},
              !.batch = worker[w].batch \ {c}, !.at = {c}] \in WorkerState
      BY DEF Types, WorkerState, Step
    <3> QED BY <2>2, <3>1 DEF Types
  <2>3. worker' \in [Worker -> WorkerState]
    BY <1>12, <2>1, <2>2 DEF NextJob, Types
  <2> QED BY <1>12, <2>3 DEF NextJob, Types
<1>13. ASSUME NEW w \in Worker, LookUp(w) PROVE Types'
  <2>1. worker' \in [Worker -> WorkerState]
    BY <1>13, GotoType, Constants DEF LookUp
  <2> QED BY <1>13, <2>1 DEF LookUp, Types
<1>14. ASSUME NEW w \in Worker, ReadPrior(w) PROVE Types'
  <2>1. worker' \in [Worker -> WorkerState]
    BY <1>14, GotoType, Constants DEF ReadPrior
  <2> QED BY <1>14, <2>1 DEF ReadPrior, Types
<1>15. ASSUME NEW w \in Worker, Post(w) PROVE Types'
  <2>1. worker' \in [Worker -> WorkerState]
    BY <1>15, GotoType, Constants DEF Post
  <2>2. issued' \subseteq Order
    BY <1>15 DEF Post, Types, WorkerState, Claims
  <2> QED BY <1>15, <2>1, <2>2 DEF Post, Types
<1>16. ASSUME NEW w \in Worker, Record(w) PROVE Types'
  <2>1. worker' \in [Worker -> WorkerState]
    BY <1>16 DEF Record, Types, WorkerState, Step
  <2>2. \A out \in Outcome \cup {"NONE"}, n \in Nat :
          Status(out, n) \in {"SUCCEEDED", "PENDING_RECONCILIATION",
                              "RETRY_SCHEDULED", "FAILED"}
    BY DEF Status
  <2>3. job' \in [Order -> Job]
    <3> PICK c \in worker[w].at :
          job' = [job EXCEPT ![c.order] =
                 [@ EXCEPT !.status = Status(worker[w].outcome, c.attempt),
                           !.due = FALSE,
                           !.reconciling = LeavesReconciling(worker[w].outcome)]]
      BY <1>16 DEF Record
    <3>1. c \in Claims /\ worker[w].outcome \in Outcome \cup {"NONE"}
      BY DEF Types, WorkerState
    <3>2. Status(worker[w].outcome, c.attempt)
            \in {"SUCCEEDED", "PENDING_RECONCILIATION", "RETRY_SCHEDULED", "FAILED"}
      BY <2>2, <3>1 DEF Claims
    <3>3. LeavesReconciling(worker[w].outcome) \in BOOLEAN
      BY DEF LeavesReconciling
    <3> HIDE DEF Status
    <3> QED BY <3>1, <3>2, <3>3 DEF Types, Job, Claims, Waiting, Finished
  <2> QED BY <1>16, <2>1, <2>3 DEF Record, Types
<1>17. ASSUME NEW w \in Worker, WorkerCrash(w) PROVE Types'
  BY <1>17 DEF WorkerCrash, Types
<1>18. CASE UNCHANGED vars
  BY <1>18 DEF vars, Types
<1> QED BY <1>1, <1>2, <1>3, <1>4, <1>6, <1>7, <1>8, <1>9, <1>10, <1>11, <1>12,
           <1>13, <1>14, <1>15, <1>16, <1>17, <1>18 DEF Next, WorkerStep
----------------------------------------------------------------------------
(* The lease.                                                              *)

\* A step that claims nothing and writes no job that stays held.
LEMMA NoNewClaims ==
  ASSUME Leased, PostsFresh,
         \A w \in Worker :
           /\ worker'[w].batch \cup worker'[w].at
                \subseteq worker[w].batch \cup worker[w].at
           /\ worker'[w].batch \cap worker'[w].at = {}
           /\ \A c, d \in worker'[w].at : c = d
           /\ \A c \in worker'[w].batch \cup worker'[w].at :
                job'[c.order] = job[c.order]
           /\ worker'[w].pc = "post" =>
                \A c \in worker'[w].at : ~job[c.order].reconciling
  PROVE  Leased' /\ PostsFresh'
<1>1. \A w \in Worker : Holds(w)' \subseteq Holds(w)
  BY DEF Holds
<1>2. \A w \in Worker : ClaimsApart(w)'
  BY DEF Leased, ClaimsApart
<1>3. \A w \in Worker : \A o \in Holds(w)' : job'[o] = job[o]
  BY DEF Holds
<1>4. PostsFresh'
  BY DEF PostsFresh
<1>5. \A w \in Worker : \A o \in Holds(w)' :
        job'[o].status = "PROCESSING" /\ ~job'[o].due
  BY <1>1, <1>3 DEF Leased
<1>6. \A v, w \in Worker : v # w => Holds(v)' \cap Holds(w)' = {}
  BY <1>1 DEF Leased
<1> QED BY <1>2, <1>4, <1>5, <1>6 DEF Leased

\* A step that leaves the claims of every worker alone.
LEMMA SameClaims ==
  ASSUME Leased, PostsFresh,
         \A w \in Worker :
           /\ worker'[w].batch = worker[w].batch
           /\ worker'[w].at = worker[w].at
           /\ worker'[w].pc = "post" =>
                \A c \in worker[w].at : ~job[c.order].reconciling,
         \A w \in Worker : \A o \in Holds(w) : job'[o] = job[o]
  PROVE  Leased' /\ PostsFresh'
<1>1. \A w \in Worker : \A c \in worker[w].batch \cup worker[w].at :
        job'[c.order] = job[c.order]
  BY DEF Holds
<1>2. \A w \in Worker :
        /\ worker[w].batch \cap worker[w].at = {}
        /\ \A c, d \in worker[w].at : c = d
  BY DEF Leased, ClaimsApart
<1> QED BY <1>1, <1>2, NoNewClaims

\* One job is written, and it is not held: it is due, or not being processed.
LEMMA UnheldJobChanges ==
  ASSUME Types, Leased, PostsFresh, NEW o \in Order,
         job[o].due \/ job[o].status # "PROCESSING",
         \A p \in Order \ {o} : job'[p] = job[p],
         \A w \in Worker :
           /\ worker'[w].batch = worker[w].batch
           /\ worker'[w].at = worker[w].at
           /\ worker'[w].pc = worker[w].pc
  PROVE  Leased' /\ PostsFresh'
<1>1. \A w \in Worker : o \notin Holds(w) /\ Holds(w) \subseteq Order
  BY DEF Leased, Types, WorkerState, Claims, Holds
<1>2. \A w \in Worker : \A p \in Holds(w) : job'[p] = job[p]
  BY <1>1
<1>3. \A w \in Worker : worker'[w].pc = "post" =>
        \A c \in worker[w].at : ~job[c.order].reconciling
  BY DEF PostsFresh
<1> QED BY <1>2, <1>3, SameClaims

\* No job is written and no claim changes hands.
LEMMA NothingHeldChanges ==
  ASSUME Leased, PostsFresh, job' = job,
         \A w \in Worker :
           /\ worker'[w].batch = worker[w].batch
           /\ worker'[w].at = worker[w].at
           /\ worker'[w].pc = "post" => worker[w].pc = "post"
  PROVE  Leased' /\ PostsFresh'
<1>1. \A w \in Worker : worker'[w].pc = "post" =>
        \A c \in worker[w].at : ~job[c.order].reconciling
  BY DEF PostsFresh
<1> QED BY <1>1, SameClaims

LEMMA EnqueueKeepsLease ==
  ASSUME Types, Leased, PostsFresh, NEW o \in Order, Enqueue(o),
         worker' = worker
  PROVE  Leased' /\ PostsFresh'
<1>1. CASE o \in invoice \/ job[o] # NoJob
  BY <1>1, NothingHeldChanges DEF Enqueue
<1>2. CASE ~(o \in invoice \/ job[o] # NoJob)
  <2>1. job' = [job EXCEPT ![o] = NewJob]
    BY <1>2 DEF Enqueue
  <2>2. \A p \in Order \ {o} : job'[p] = job[p]
    BY <2>1 DEF Types
  <2>3. job[o].status # "PROCESSING"
    BY <1>2 DEF NoJob
  <2> QED BY <2>2, <2>3, UnheldJobChanges
<1> QED BY <1>1, <1>2

LEMMA PassesForget ==
  ASSUME Types, NEW o \in Order, NotForPresentPasses(o)
  PROVE  \A w \in Worker :
           /\ worker'[w].batch = worker[w].batch
           /\ worker'[w].at = worker[w].at
           /\ worker'[w].pc = worker[w].pc
BY DEF NotForPresentPasses, Types, WorkerState

\* A claim: what is due is held by nobody.
LEMMA ClaimKeepsLease ==
  ASSUME Types, Leased, PostsFresh, NEW w \in Worker, NEW o \in Order,
         CanClaim(o), NEW n \in Nat,
         job' = [job EXCEPT ![o] = [@ EXCEPT !.status = "PROCESSING",
                                             !.attempts = n, !.due = FALSE]],
         worker' = [worker EXCEPT ![w] =
           [@ EXCEPT !.candidates = worker[w].candidates \ {o},
                     !.batch = worker[w].batch
                                 \cup {[order |-> o, attempt |-> n]}]]
  PROVE  Leased' /\ PostsFresh'
<1> DEFINE new == [order |-> o, attempt |-> n]
<1>1. \A v \in Worker : o \notin Holds(v)
  BY DEF Leased, CanClaim
<1>2. /\ worker'[w].batch = worker[w].batch \cup {new}
      /\ worker'[w].at = worker[w].at /\ worker'[w].pc = worker[w].pc
  <2>1. worker'[w] = [worker[w] EXCEPT !.candidates = worker[w].candidates \ {o},
                                       !.batch = worker[w].batch \cup {new}]
    BY DEF Types
  <2>2. worker[w] \in WorkerState
    BY DEF Types
  <2> QED BY ONLY <2>1, <2>2 DEF WorkerState
<1>3. \A v \in Worker \ {w} : worker'[v] = worker[v]
  BY DEF Types, WorkerState
<1>4. /\ job'[o].status = "PROCESSING" /\ ~job'[o].due
      /\ \A p \in Order \ {o} : job'[p] = job[p]
  BY DEF Types, Job
<1>5. Holds(w)' = Holds(w) \cup {o}
  <2>1. new.order = o
    OBVIOUS
  <2>2. \A p : p \in Holds(w)' <=> p \in Holds(w) \/ p = o
    BY <1>2, <2>1 DEF Holds
  <2> QED BY <2>2
<1>6. \A v \in Worker \ {w} : Holds(v)' = Holds(v)
  BY <1>3 DEF Holds
<1>7. \A v \in Worker : Holds(v) \subseteq Order
  BY DEF Types, WorkerState, Claims, Holds
<1>8. \A v \in Worker : \A p \in Holds(v)' :
        job'[p].status = "PROCESSING" /\ ~job'[p].due
  BY <1>1, <1>4, <1>5, <1>6, <1>7 DEF Leased
<1>9. \A u, v \in Worker : u # v => Holds(u)' \cap Holds(v)' = {}
  BY <1>1, <1>5, <1>6 DEF Leased
<1>10. \A v \in Worker : ClaimsApart(v)'
  <2>1. ClaimsApart(w)'
    <3>1. \A c \in worker[w].batch \cup worker[w].at : c.order # o
      BY <1>1 DEF Holds
    <3>2. ClaimsApart(w)
      BY DEF Leased
    <3> QED BY <1>2, <3>1, <3>2 DEF ClaimsApart
  <2>2. \A v \in Worker \ {w} : ClaimsApart(v)'
    BY <1>3 DEF Leased, ClaimsApart
  <2> QED BY <2>1, <2>2
<1>11. PostsFresh'
  <2>1. \A v \in Worker :
          worker'[v].pc = worker[v].pc /\ worker'[v].at = worker[v].at
    BY <1>2, <1>3
  <2>2. \A v \in Worker : \A c \in worker[v].at :
          c.order \in Holds(v) /\ c.order \in Order
    BY <1>7 DEF Holds
  <2> QED BY <1>1, <1>4, <2>1, <2>2 DEF PostsFresh
<1> QED BY <1>8, <1>9, <1>10, <1>11 DEF Leased

\* A result: the job at hand is written and given back.
LEMMA RecordKeepsLease ==
  ASSUME Types, Leased, PostsFresh, NEW w \in Worker, Record(w)
  PROVE  Leased' /\ PostsFresh'
<1> PICK c \in worker[w].at :
      job' = [job EXCEPT ![c.order] =
                 [@ EXCEPT !.status = Status(worker[w].outcome, c.attempt),
                           !.due = FALSE,
                           !.reconciling = LeavesReconciling(worker[w].outcome)]]
  BY DEF Record
<1>1. c.order \in Order /\ c.order \in Holds(w)
  BY DEF Types, WorkerState, Claims, Holds
<1>2. \A p \in Order \ {c.order} : job'[p] = job[p]
  BY DEF Types
<1>3. /\ worker'[w].batch = worker[w].batch
      /\ worker'[w].at = {} /\ worker'[w].pc = "claim"
      /\ \A v \in Worker \ {w} : worker'[v] = worker[v]
  BY DEF Record, Types, WorkerState
<1>4. \A d \in worker[w].batch : d.order # c.order /\ d.order \in Order
  BY DEF Leased, ClaimsApart, Types, WorkerState, Claims
<1>5. \A v \in Worker \ {w} : \A d \in worker[v].batch \cup worker[v].at :
        d.order # c.order /\ d.order \in Order
  <2> SUFFICES ASSUME NEW v \in Worker \ {w},
                      NEW d \in worker[v].batch \cup worker[v].at
               PROVE  d.order # c.order /\ d.order \in Order
    OBVIOUS
  <2>1. d.order \in Holds(v)
    BY DEF Holds
  <2>2. Holds(v) \cap Holds(w) = {}
    BY DEF Leased
  <2>3. d \in Claims
    BY DEF Types, WorkerState
  <2> QED BY <1>1, <2>1, <2>2, <2>3 DEF Claims
<1>6. \A v \in Worker :
        /\ worker'[v].batch \cup worker'[v].at
             \subseteq worker[v].batch \cup worker[v].at
        /\ worker'[v].batch \cap worker'[v].at = {}
        /\ \A d, e \in worker'[v].at : d = e
  BY <1>3 DEF Leased, ClaimsApart
<1>7. \A v \in Worker : \A d \in worker'[v].batch \cup worker'[v].at :
        job'[d.order] = job[d.order]
  BY <1>2, <1>3, <1>4, <1>5
<1>8. \A v \in Worker : worker'[v].pc = "post" =>
        \A d \in worker'[v].at : ~job[d.order].reconciling
  BY <1>3 DEF PostsFresh
<1> QED BY <1>6, <1>7, <1>8, NoNewClaims

\* The next job is taken from the batch.
LEMMA NextJobKeepsLease ==
  ASSUME Types, Leased, PostsFresh, NEW w \in Worker, NextJob(w)
  PROVE  Leased' /\ PostsFresh'
<1>1. /\ worker'[w].batch \cup worker'[w].at
           \subseteq worker[w].batch \cup worker[w].at
      /\ worker'[w].batch \cap worker'[w].at = {}
      /\ \A d, e \in worker'[w].at : d = e
      /\ worker'[w].pc # "post"
  <2>1. CASE worker' = [worker EXCEPT ![w] = Idle]
    BY <2>1 DEF Idle, Types
  <2>2. ASSUME NEW c \in worker[w].batch,
               worker' = [worker EXCEPT ![w] =
                            [@ EXCEPT !.pc = "look", !.candidates = {},
                                      !.batch = worker[w].batch \ {c},
                                      !.at = {c}]]
        PROVE  /\ worker'[w].batch \cup worker'[w].at
                    \subseteq worker[w].batch \cup worker[w].at
               /\ worker'[w].batch \cap worker'[w].at = {}
               /\ \A d, e \in worker'[w].at : d = e
               /\ worker'[w].pc # "post"
    <3>1. worker'[w] = [worker[w] EXCEPT !.pc = "look", !.candidates = {},
                          !.batch = worker[w].batch \ {c}, !.at = {c}]
      BY <2>2 DEF Types
    <3>2. worker[w] \in WorkerState
      BY DEF Types
    <3>3. /\ worker'[w].batch = worker[w].batch \ {c}
          /\ worker'[w].at = {c} /\ worker'[w].pc = "look"
      BY ONLY <3>1, <3>2 DEF WorkerState
    <3> QED BY <2>2, <3>3
  <2> QED BY <2>1, <2>2 DEF NextJob
<1>2. \A v \in Worker \ {w} : worker'[v] = worker[v]
  BY DEF NextJob, Types
<1>3. \A v \in Worker :
        /\ worker'[v].batch \cup worker'[v].at
             \subseteq worker[v].batch \cup worker[v].at
        /\ worker'[v].batch \cap worker'[v].at = {}
        /\ \A d, e \in worker'[v].at : d = e
        /\ worker'[v].pc = "post" =>
             \A d \in worker'[v].at : ~job[d.order].reconciling
  BY <1>1, <1>2 DEF Leased, ClaimsApart, PostsFresh
<1>4. job' = job
  BY DEF NextJob
<1> QED BY <1>3, <1>4, NoNewClaims

LEMMA GotoEffect ==
  ASSUME Types, NEW w \in Worker, NEW step, NEW out, Goto(w, step, out)
  PROVE  /\ \A v \in Worker :
              /\ worker'[v].batch = worker[v].batch
              /\ worker'[v].at = worker[v].at
         /\ worker'[w].pc = step
         /\ \A v \in Worker \ {w} : worker'[v] = worker[v]
<1>1. /\ worker'[w] = [worker[w] EXCEPT !.pc = step, !.outcome = out]
      /\ \A v \in Worker \ {w} : worker'[v] = worker[v]
  BY DEF Goto, Types
<1>2. worker[w] \in WorkerState
  BY DEF Types
<1>3. /\ worker'[w].batch = worker[w].batch
      /\ worker'[w].at = worker[w].at
      /\ worker'[w].pc = step
  BY ONLY <1>1, <1>2 DEF WorkerState
<1> QED BY <1>1, <1>3

\* Every step keeps the lease, as long as no lease has been overrun.
LEMMA LeaseInductive ==
  Types /\ LeaseInv /\ [Next]_vars => LeaseInv'
<1> SUFFICES ASSUME Types, LeaseInv, [Next]_vars, overruns' = 0
             PROVE  Leased' /\ PostsFresh'
  BY DEF LeaseInv
<1>0. overruns = 0
  <2>1. \A o \in Order : LeaseOverrun(o) => overruns' = overruns + 1
    BY DEF LeaseOverrun
  <2>2. overruns' # overruns + 1
    BY DEF Types
  <2> QED
    BY <2>1, <2>2 DEF Next, vars, SettleByGateway, CompleteOrder,
          EnqueueSettled, ServerCrash, BecomeDue, Webhook, AdminRetry,
          WorkerStep, Poll, TryClaim, NextJob, LookUp, ReadPrior, Post, Record,
          WorkerCrash
<1> Leased /\ PostsFresh
  BY <1>0 DEF LeaseInv
<1>1. ASSUME NEW o \in Order, SettleByGateway(o) PROVE Leased' /\ PostsFresh'
  BY <1>1, EnqueueKeepsLease DEF SettleByGateway
<1>2. ASSUME NEW o \in Order, CompleteOrder(o) PROVE Leased' /\ PostsFresh'
  BY <1>2, NothingHeldChanges DEF CompleteOrder
<1>3. ASSUME NEW o \in Order, EnqueueSettled(o) PROVE Leased' /\ PostsFresh'
  BY <1>3, EnqueueKeepsLease DEF EnqueueSettled
<1>4. ASSUME NEW o \in Order, ServerCrash(o) PROVE Leased' /\ PostsFresh'
  BY <1>4, NothingHeldChanges DEF ServerCrash
<1>5. ASSUME NEW o \in Order, BecomeDue(o) PROVE Leased' /\ PostsFresh'
  <2>1. \A w \in Worker : o \notin Holds(w)
    BY <1>5 DEF BecomeDue, Held, Leased
  <2>2. /\ \A p \in Order \ {o} : job'[p] = job[p]
        /\ NotForPresentPasses(o)
    BY <1>5 DEF BecomeDue, TimePasses, Types
  <2>3. \A w \in Worker :
          /\ worker'[w].batch = worker[w].batch
          /\ worker'[w].at = worker[w].at
          /\ worker'[w].pc = worker[w].pc
    BY <2>2, PassesForget
  <2>4. \A w \in Worker : \A p \in Holds(w) : job'[p] = job[p]
    BY <2>1, <2>2 DEF Holds, Types, WorkerState, Claims
  <2>5. \A w \in Worker : worker'[w].pc = "post" =>
          \A c \in worker[w].at : ~job[c.order].reconciling
    BY <2>3 DEF PostsFresh
  <2> QED BY <2>3, <2>4, <2>5, SameClaims
<1>6. ASSUME NEW o \in Order, LeaseOverrun(o) PROVE FALSE
  BY <1>6, <1>0 DEF LeaseOverrun
<1>7. ASSUME NEW o \in Order, Webhook(o) PROVE Leased' /\ PostsFresh'
  BY <1>7, NothingHeldChanges DEF Webhook
<1>8. ASSUME NEW o \in Order, AdminRetry(o) PROVE Leased' /\ PostsFresh'
  <2>1. /\ \A p \in Order \ {o} : job'[p] = job[p]
        /\ NotForPresentPasses(o)
        /\ job[o].status # "PROCESSING"
    BY <1>8 DEF AdminRetry, Types, Retryable
  <2>2. \A w \in Worker :
          /\ worker'[w].batch = worker[w].batch
          /\ worker'[w].at = worker[w].at
          /\ worker'[w].pc = worker[w].pc
    BY <2>1, PassesForget
  <2> QED BY <2>1, <2>2, UnheldJobChanges
<1>9. ASSUME NEW w \in Worker, Poll(w) PROVE Leased' /\ PostsFresh'
  <2>1. /\ worker'[w] = [worker[w] EXCEPT !.pc = "claim", !.candidates = Due]
        /\ \A v \in Worker \ {w} : worker'[v] = worker[v]
    BY <1>9 DEF Poll, Types
  <2>2. worker[w] \in WorkerState
    BY DEF Types
  <2>3. /\ worker'[w].batch = worker[w].batch
        /\ worker'[w].at = worker[w].at /\ worker'[w].pc = "claim"
    BY ONLY <2>1, <2>2 DEF WorkerState
  <2>4. job' = job
    BY <1>9 DEF Poll
  <2> QED BY <2>1, <2>3, <2>4, NothingHeldChanges
<1>10. ASSUME NEW w \in Worker, TryClaim(w) PROVE Leased' /\ PostsFresh'
  <2>1. ASSUME NEW o \in worker[w].candidates, CanClaim(o),
               job' = [job EXCEPT ![o] =
                         [@ EXCEPT !.status = "PROCESSING",
                                   !.attempts = NextAttempt(o), !.due = FALSE]],
               worker' = [worker EXCEPT ![w] =
                  [@ EXCEPT !.candidates = worker[w].candidates \ {o},
                            !.batch = worker[w].batch
                               \cup {[order |-> o, attempt |-> NextAttempt(o)]}]]
        PROVE  Leased' /\ PostsFresh'
    <3>1. o \in Order
      BY DEF Types, WorkerState
    <3>2. NextAttempt(o) \in Nat
      BY <3>1 DEF Types, Job, NextAttempt
    <3> QED BY <2>1, <3>1, <3>2, ClaimKeepsLease
  <2>2. ASSUME NEW o \in worker[w].candidates, job' = job,
               worker' = [worker EXCEPT ![w] =
                  [@ EXCEPT !.candidates = worker[w].candidates \ {o}]]
        PROVE  Leased' /\ PostsFresh'
    <3>1. /\ worker'[w] = [worker[w] EXCEPT !.candidates = worker[w].candidates \ {o}]
          /\ \A v \in Worker \ {w} : worker'[v] = worker[v]
      BY <2>2 DEF Types
    <3>2. worker[w] \in WorkerState
      BY DEF Types
    <3>3. /\ worker'[w].batch = worker[w].batch
          /\ worker'[w].at = worker[w].at /\ worker'[w].pc = worker[w].pc
      BY ONLY <3>1, <3>2 DEF WorkerState
    <3> QED BY <2>2, <3>1, <3>3, NothingHeldChanges
  <2> QED BY <1>10, <2>1, <2>2 DEF TryClaim
<1>11. ASSUME NEW w \in Worker, NextJob(w) PROVE Leased' /\ PostsFresh'
  BY <1>11, NextJobKeepsLease
<1>12. ASSUME NEW w \in Worker, NEW step \in Step \ {"post"}, NEW out,
              Goto(w, step, out), job' = job
       PROVE  Leased' /\ PostsFresh'
  BY <1>12, GotoEffect, NothingHeldChanges
<1>13. ASSUME NEW w \in Worker, LookUp(w) PROVE Leased' /\ PostsFresh'
  <2>1. job' = job /\ (Goto(w, "record", "COMPLETED") \/ Goto(w, "prior", "NONE"))
    BY <1>13 DEF LookUp
  <2> QED BY <2>1, <1>12, Constants
<1>14. ASSUME NEW w \in Worker, ReadPrior(w) PROVE Leased' /\ PostsFresh'
  <2>1. job' = job
    BY <1>14 DEF ReadPrior
  <2>2. CASE Goto(w, "record", "RECONCILE")
    BY <2>1, <2>2, <1>12, Constants
  <2>3. ASSUME NEW c \in worker[w].at, ~Reconciling(c.order),
               Goto(w, "post", "NONE")
        PROVE  Leased' /\ PostsFresh'
    <3>1. \A d \in worker[w].at : ~job[d.order].reconciling
      BY <2>3 DEF Leased, ClaimsApart, Reconciling
    <3>2. /\ \A v \in Worker :
               /\ worker'[v].batch = worker[v].batch
               /\ worker'[v].at = worker[v].at
          /\ \A v \in Worker \ {w} : worker'[v] = worker[v]
      BY <2>3, GotoEffect
    <3>3. \A v \in Worker : worker'[v].pc = "post" =>
            \A d \in worker[v].at : ~job[d.order].reconciling
      BY <3>1, <3>2 DEF PostsFresh
    <3> QED BY <2>1, <3>2, <3>3, SameClaims
  <2> QED BY <1>14, <2>2, <2>3 DEF ReadPrior
<1>15. ASSUME NEW w \in Worker, Post(w) PROVE Leased' /\ PostsFresh'
  <2>1. job' = job /\ \E out \in Outcome : Goto(w, "record", out)
    BY <1>15 DEF Post
  <2> QED BY <2>1, <1>12, Constants
<1>16. ASSUME NEW w \in Worker, Record(w) PROVE Leased' /\ PostsFresh'
  BY <1>16, RecordKeepsLease
<1>17. ASSUME NEW w \in Worker, WorkerCrash(w) PROVE Leased' /\ PostsFresh'
  <2>1. /\ worker'[w].batch = {} /\ worker'[w].at = {} /\ worker'[w].pc = "idle"
        /\ \A v \in Worker \ {w} : worker'[v] = worker[v]
        /\ job' = job
    BY <1>17 DEF WorkerCrash, Types, Idle
  <2>2. \A v \in Worker :
          /\ worker'[v].batch \cup worker'[v].at
               \subseteq worker[v].batch \cup worker[v].at
          /\ worker'[v].batch \cap worker'[v].at = {}
          /\ \A c, d \in worker'[v].at : c = d
          /\ worker'[v].pc = "post" =>
               \A c \in worker'[v].at : ~job[c.order].reconciling
    BY <2>1 DEF Leased, ClaimsApart, PostsFresh
  <2> QED BY <2>1, <2>2, NoNewClaims
<1>18. CASE UNCHANGED vars
  BY <1>18, NothingHeldChanges DEF vars
<1> QED BY <1>1, <1>2, <1>3, <1>4, <1>5, <1>6, <1>7, <1>8, <1>9, <1>10, <1>11,
           <1>13, <1>14, <1>15, <1>16, <1>17, <1>18 DEF Next, WorkerStep
----------------------------------------------------------------------------
(* Successes.                                                              *)

\* A step after which ACCURA holds no less, no job has become SUCCEEDED, and
\* no worker is about to record a success it was not about to record before.
LEMMA NoNewSuccess ==
  ASSUME SuccessInv, issued \subseteq issued', invoice' \subseteq issued',
         \A o \in Order : job'[o].status = "SUCCEEDED"
           => job[o].status = "SUCCEEDED",
         \A w \in Worker :
           worker'[w].pc = "record" /\ worker'[w].outcome = "COMPLETED" =>
             \/ \A c \in worker'[w].at : c.order \in issued'
             \/ /\ worker[w].pc = "record" /\ worker[w].outcome = "COMPLETED"
                /\ worker'[w].at = worker[w].at
  PROVE  SuccessInv'
BY DEF SuccessInv

\* A step that leaves the workers and ACCURA alone.
LEMMA WorkersAlone ==
  ASSUME SuccessInv, worker' = worker, issued' = issued,
         invoice' \subseteq issued,
         \A o \in Order : job'[o].status = "SUCCEEDED"
           => job[o].status = "SUCCEEDED"
  PROVE  SuccessInv'
BY DEF SuccessInv

\* A step of one worker to a step other than "record", jobs apart.
LEMMA NotRecording ==
  ASSUME Types, SuccessInv, NEW w \in Worker, worker'[w].pc # "record",
         \A v \in Worker \ {w} : worker'[v] = worker[v],
         issued' = issued, invoice' = invoice,
         \A o \in Order : job'[o].status = "SUCCEEDED"
           => job[o].status = "SUCCEEDED"
  PROVE  SuccessInv'
BY DEF SuccessInv

LEMMA EnqueueSucceedsNone ==
  ASSUME Types, NEW o \in Order, Enqueue(o)
  PROVE  \A p \in Order : job'[p].status = "SUCCEEDED"
           => job[p].status = "SUCCEEDED"
BY DEF Enqueue, Types, NewJob, NoJob

LEMMA OneAtHandInductive == Types /\ OneAtHand /\ [Next]_vars => OneAtHand'
<1> SUFFICES ASSUME Types, OneAtHand, [Next]_vars PROVE OneAtHand'
  OBVIOUS
<1>1. ASSUME NEW o \in Order, NotForPresentPasses(o) PROVE OneAtHand'
  BY <1>1, PassesForget DEF OneAtHand
<1>2. ASSUME NEW w \in Worker, NEW step, NEW out, Goto(w, step, out)
      PROVE  OneAtHand'
  BY <1>2, GotoEffect DEF OneAtHand
<1>3. ASSUME NEW w \in Worker, \A c, d \in worker'[w].at : c = d,
             \A v \in Worker \ {w} : worker'[v] = worker[v]
      PROVE  OneAtHand'
  BY <1>3 DEF OneAtHand
<1>4. ASSUME worker' = worker PROVE OneAtHand'
  BY <1>4 DEF OneAtHand
<1>5. ASSUME NEW w \in Worker, Poll(w) PROVE OneAtHand'
  <2>1. worker[w] \in WorkerState
    BY DEF Types
  <2>2. [worker[w] EXCEPT !.pc = "claim", !.candidates = Due].at = worker[w].at
    BY ONLY <2>1 DEF WorkerState
  <2>3. /\ worker'[w].at = worker[w].at
        /\ \A v \in Worker \ {w} : worker'[v] = worker[v]
    BY <1>5, <2>2 DEF Poll, Types
  <2> QED BY <1>3, <2>3 DEF OneAtHand
<1>6. ASSUME NEW w \in Worker, TryClaim(w) PROVE OneAtHand'
  <2>1. worker[w] \in WorkerState
    BY DEF Types
  <2>2. \E p, q : \/ worker' = [worker EXCEPT ![w] =
                               [worker[w] EXCEPT !.candidates = p, !.batch = q]]
                  \/ worker' = [worker EXCEPT ![w] =
                               [worker[w] EXCEPT !.candidates = p]]
    BY <1>6 DEF TryClaim
  <2>3. PICK p, q :
           \/ worker' = [worker EXCEPT ![w] =
                           [worker[w] EXCEPT !.candidates = p, !.batch = q]]
           \/ worker' = [worker EXCEPT ![w] =
                           [worker[w] EXCEPT !.candidates = p]]
    BY <2>2
  <2>4. /\ [worker[w] EXCEPT !.candidates = p, !.batch = q].at = worker[w].at
        /\ [worker[w] EXCEPT !.candidates = p].at = worker[w].at
    BY ONLY <2>1 DEF WorkerState
  <2>5. /\ worker'[w].at = worker[w].at
        /\ \A v \in Worker \ {w} : worker'[v] = worker[v]
    BY <2>3, <2>4 DEF Types
  <2> QED BY <1>3, <2>5 DEF OneAtHand
<1>7. ASSUME NEW w \in Worker, NextJob(w) PROVE OneAtHand'
  <2>1. worker[w] \in WorkerState
    BY DEF Types
  <2>2. CASE worker' = [worker EXCEPT ![w] = Idle]
    <3>1. /\ worker'[w].at = {}
          /\ \A v \in Worker \ {w} : worker'[v] = worker[v]
      BY <2>2 DEF Idle, Types
    <3> QED BY <1>3, <3>1
  <2>3. ASSUME NEW c, worker' = [worker EXCEPT ![w] =
                         [@ EXCEPT !.pc = "look", !.candidates = {},
                                   !.batch = worker[w].batch \ {c}, !.at = {c}]]
        PROVE  OneAtHand'
    <3>1. [worker[w] EXCEPT !.pc = "look", !.candidates = {},
              !.batch = worker[w].batch \ {c}, !.at = {c}].at = {c}
      BY ONLY <2>1 DEF WorkerState
    <3>2. /\ worker'[w].at = {c}
          /\ \A v \in Worker \ {w} : worker'[v] = worker[v]
      BY <2>3, <3>1 DEF Types
    <3> QED BY <1>3, <3>2
  <2> QED BY <1>7, <2>2, <2>3 DEF NextJob
<1>8. ASSUME NEW w \in Worker, Record(w) PROVE OneAtHand'
  <2>1. worker[w] \in WorkerState
    BY DEF Types
  <2>2. [worker[w] EXCEPT !.pc = "claim", !.at = {}, !.outcome = "NONE"].at = {}
    BY ONLY <2>1 DEF WorkerState
  <2>3. /\ worker'[w].at = {}
        /\ \A v \in Worker \ {w} : worker'[v] = worker[v]
    BY <1>8, <2>2 DEF Record, Types
  <2> QED BY <1>3, <2>3
<1>9. ASSUME NEW w \in Worker, WorkerCrash(w) PROVE OneAtHand'
  <2>1. /\ worker'[w].at = {}
        /\ \A v \in Worker \ {w} : worker'[v] = worker[v]
    BY <1>9 DEF WorkerCrash, Idle, Types
  <2> QED BY <1>3, <2>1
<1>10. ASSUME NEW w \in Worker, LookUp(w) \/ ReadPrior(w) \/ Post(w)
       PROVE  OneAtHand'
  BY <1>2, <1>10 DEF LookUp, ReadPrior, Post
<1>11. ASSUME NEW o \in Order,
              SettleByGateway(o) \/ CompleteOrder(o) \/ EnqueueSettled(o)
                \/ ServerCrash(o) \/ Webhook(o)
       PROVE  OneAtHand'
  BY <1>4, <1>11 DEF SettleByGateway, CompleteOrder, EnqueueSettled,
                     ServerCrash, Webhook
<1>12. ASSUME NEW o \in Order, BecomeDue(o) \/ LeaseOverrun(o) \/ AdminRetry(o)
       PROVE  OneAtHand'
  BY <1>1, <1>12 DEF BecomeDue, LeaseOverrun, TimePasses, AdminRetry
<1>13. CASE UNCHANGED vars
  BY <1>4, <1>13 DEF vars
<1> QED BY <1>5, <1>6, <1>7, <1>8, <1>9, <1>10, <1>11, <1>12, <1>13
        DEF Next, WorkerStep

\* Every step keeps the origin of successes, overrun leases or not.
LEMMA SuccessInductive ==
  Types /\ OneAtHand /\ SuccessInv /\ [Next]_vars => SuccessInv'
<1> SUFFICES ASSUME Types, OneAtHand, SuccessInv, [Next]_vars
             PROVE  SuccessInv'
  OBVIOUS
<1>0. invoice \subseteq issued
  BY DEF SuccessInv
<1>1. ASSUME NEW o \in Order, SettleByGateway(o) PROVE SuccessInv'
  BY <1>0, <1>1, EnqueueSucceedsNone, WorkersAlone DEF SettleByGateway
<1>2. ASSUME NEW o \in Order, CompleteOrder(o) PROVE SuccessInv'
  BY <1>0, <1>2, WorkersAlone DEF CompleteOrder
<1>3. ASSUME NEW o \in Order, EnqueueSettled(o) PROVE SuccessInv'
  BY <1>0, <1>3, EnqueueSucceedsNone, WorkersAlone DEF EnqueueSettled
<1>4. ASSUME NEW o \in Order, ServerCrash(o) PROVE SuccessInv'
  BY <1>0, <1>4, WorkersAlone DEF ServerCrash
<1>5. ASSUME NEW o \in Order, NotForPresentPasses(o), issued' = issued,
             invoice' = invoice,
             \A p \in Order : job'[p].status = "SUCCEEDED"
               => job[p].status = "SUCCEEDED"
      PROVE  SuccessInv'
  <2>1. \A w \in Worker :
          /\ worker'[w].pc = worker[w].pc /\ worker'[w].at = worker[w].at
          /\ worker'[w].outcome = worker[w].outcome
    BY <1>5 DEF NotForPresentPasses, Types, WorkerState
  <2> QED BY <1>0, <1>5, <2>1, NoNewSuccess
<1>6. ASSUME NEW o \in Order, TimePasses(o), issued' = issued,
             invoice' = invoice
      PROVE  SuccessInv'
  <2>1. \A p \in Order : job'[p].status = job[p].status
    BY <1>6 DEF TimePasses, Types, Job
  <2> QED BY <1>5, <1>6, <2>1 DEF TimePasses
<1>7. ASSUME NEW o \in Order, BecomeDue(o) \/ LeaseOverrun(o)
      PROVE  SuccessInv'
  BY <1>6, <1>7 DEF BecomeDue, LeaseOverrun, TimePasses
<1>8. ASSUME NEW o \in Order, Webhook(o) PROVE SuccessInv'
  BY <1>0, <1>8, WorkersAlone DEF Webhook
<1>9. ASSUME NEW o \in Order, AdminRetry(o) PROVE SuccessInv'
  <2>1. \A p \in Order : job'[p].status = "SUCCEEDED"
          => job[p].status = "SUCCEEDED"
    BY <1>9 DEF AdminRetry, Types, NewJob, NoJob
  <2> QED BY <1>5, <1>9, <2>1 DEF AdminRetry
<1>10. ASSUME NEW w \in Worker, Poll(w) PROVE SuccessInv'
  <2>1. [worker[w] EXCEPT !.pc = "claim", !.candidates = Due].pc # "record"
    BY DEF Types, WorkerState
  <2>2. /\ worker'[w].pc # "record"
        /\ \A v \in Worker \ {w} : worker'[v] = worker[v]
    BY <1>10, <2>1 DEF Poll, Types
  <2> QED BY <1>10, <2>2, NotRecording DEF Poll
<1>11. ASSUME NEW w \in Worker, TryClaim(w) PROVE SuccessInv'
  <2>1. worker[w] \in WorkerState /\ worker[w].pc = "claim"
    BY <1>11 DEF TryClaim, Types
  <2>2. ASSUME NEW o \in worker[w].candidates,
               job' = [job EXCEPT ![o] =
                         [@ EXCEPT !.status = "PROCESSING",
                                   !.attempts = NextAttempt(o), !.due = FALSE]],
               worker' = [worker EXCEPT ![w] =
                  [@ EXCEPT !.candidates = worker[w].candidates \ {o},
                            !.batch = worker[w].batch
                               \cup {[order |-> o, attempt |-> NextAttempt(o)]}]]
        PROVE  SuccessInv'
    <3>1. [worker[w] EXCEPT !.candidates = worker[w].candidates \ {o},
              !.batch = worker[w].batch
                 \cup {[order |-> o, attempt |-> NextAttempt(o)]}].pc # "record"
      BY ONLY <2>1 DEF WorkerState
    <3>2. \A p \in Order : job'[p].status = "SUCCEEDED"
            => job[p].status = "SUCCEEDED"
      BY <2>2 DEF Types, Job
    <3>3. /\ worker'[w].pc # "record"
          /\ \A v \in Worker \ {w} : worker'[v] = worker[v]
      BY <2>2, <3>1 DEF Types
    <3> QED BY <1>11, <3>2, <3>3, NotRecording DEF TryClaim
  <2>3. ASSUME NEW o \in worker[w].candidates, job' = job,
               worker' = [worker EXCEPT ![w] =
                  [@ EXCEPT !.candidates = worker[w].candidates \ {o}]]
        PROVE  SuccessInv'
    <3>1. [worker[w] EXCEPT !.candidates
             = worker[w].candidates \ {o}].pc # "record"
      BY ONLY <2>1 DEF WorkerState
    <3>2. /\ worker'[w].pc # "record"
          /\ \A v \in Worker \ {w} : worker'[v] = worker[v]
      BY <2>3, <3>1 DEF Types
    <3> QED BY <1>11, <2>3, <3>2, NotRecording DEF TryClaim
  <2> QED BY <1>11, <2>2, <2>3 DEF TryClaim
<1>12. ASSUME NEW w \in Worker, NextJob(w) PROVE SuccessInv'
  <2>1. worker[w] \in WorkerState
    BY DEF Types
  <2>2. Idle.pc # "record"
    BY DEF Idle
  <2>3. \A c : [worker[w] EXCEPT !.pc = "look", !.candidates = {},
                   !.batch = worker[w].batch \ {c}, !.at = {c}].pc # "record"
    BY ONLY <2>1 DEF WorkerState
  <2>4. issued' = issued /\ invoice' = invoice /\ job' = job
    BY <1>12 DEF NextJob
  <2>5. CASE worker' = [worker EXCEPT ![w] = Idle]
    <3>1. /\ worker'[w].pc # "record"
          /\ \A v \in Worker \ {w} : worker'[v] = worker[v]
      BY <2>2, <2>5 DEF Types
    <3> QED BY <2>4, <3>1, NotRecording
  <2>6. ASSUME NEW c \in worker[w].batch,
               worker' = [worker EXCEPT ![w] =
                            [@ EXCEPT !.pc = "look", !.candidates = {},
                                      !.batch = worker[w].batch \ {c},
                                      !.at = {c}]]
        PROVE  SuccessInv'
    <3>1. /\ worker'[w].pc # "record"
          /\ \A v \in Worker \ {w} : worker'[v] = worker[v]
      BY <2>3, <2>6 DEF Types
    <3> QED BY <2>4, <3>1, NotRecording
  <2> QED BY <1>12, <2>5, <2>6 DEF NextJob
<1>13. ASSUME NEW w \in Worker, LookUp(w) PROVE SuccessInv'
  <2>1. issued' = issued /\ invoice' = invoice /\ job' = job
    BY <1>13 DEF LookUp
  <2>2. CASE Goto(w, "prior", "NONE")
    <3>1. /\ worker'[w].pc = "prior"
          /\ \A v \in Worker \ {w} : worker'[v] = worker[v]
      BY <2>2, GotoEffect
    <3> QED BY <2>1, <3>1, NotRecording
  <2>3. ASSUME NEW c \in worker[w].at, Associated(c.order),
               Goto(w, "record", "COMPLETED")
        PROVE  SuccessInv'
    <3>1. /\ worker'[w].at = worker[w].at
          /\ \A v \in Worker \ {w} : worker'[v] = worker[v]
      BY <2>3, GotoEffect
    <3>2. \A d \in worker'[w].at : d.order \in issued'
      BY <1>0, <2>1, <2>3, <3>1 DEF Associated, OneAtHand
    <3> QED BY <1>0, <2>1, <3>1, <3>2, NoNewSuccess
  <2> QED BY <1>13, <2>2, <2>3 DEF LookUp
<1>14. ASSUME NEW w \in Worker, ReadPrior(w) PROVE SuccessInv'
  <2>1. issued' = issued /\ invoice' = invoice /\ job' = job
    BY <1>14 DEF ReadPrior
  <2>2. CASE Goto(w, "post", "NONE")
    <3>1. /\ worker'[w].pc = "post"
          /\ \A v \in Worker \ {w} : worker'[v] = worker[v]
      BY <2>2, GotoEffect
    <3> QED BY <2>1, <3>1, NotRecording
  <2>3. CASE Goto(w, "record", "RECONCILE")
    <3>1. worker[w] \in WorkerState
      BY DEF Types
    <3>2. [worker[w] EXCEPT !.pc = "record", !.outcome = "RECONCILE"].outcome
            = "RECONCILE"
      BY ONLY <3>1 DEF WorkerState
    <3>3. /\ worker'[w].outcome # "COMPLETED"
          /\ \A v \in Worker \ {w} : worker'[v] = worker[v]
      BY <2>3, <3>2 DEF Goto, Types
    <3> QED BY <1>0, <2>1, <3>3, NoNewSuccess
  <2> QED BY <1>14, <2>2, <2>3 DEF ReadPrior
<1>15. ASSUME NEW w \in Worker, Post(w) PROVE SuccessInv'
  <2> PICK c \in worker[w].at, out \in Outcome :
        /\ issued' \in {issued, issued \cup {c.order}}
        /\ out = "COMPLETED" => c.order \in issued'
        /\ Goto(w, "record", out)
    BY <1>15 DEF Post
  <2>1. invoice' = invoice /\ job' = job /\ issued \subseteq issued'
    BY <1>15 DEF Post
  <2>2. /\ worker'[w].at = worker[w].at
        /\ \A v \in Worker \ {w} : worker'[v] = worker[v]
    BY GotoEffect
  <2>3. worker'[w].outcome = out
    <3>1. worker[w] \in WorkerState
      BY DEF Types
    <3>2. [worker[w] EXCEPT !.pc = "record", !.outcome = out].outcome = out
      BY ONLY <3>1 DEF WorkerState
    <3> QED BY <3>2 DEF Goto, Types
  <2>4. worker'[w].outcome = "COMPLETED" =>
          \A d \in worker'[w].at : d.order \in issued'
    BY <2>2, <2>3 DEF OneAtHand
  <2> QED BY <1>0, <2>1, <2>2, <2>4, NoNewSuccess
<1>16. ASSUME NEW w \in Worker, Record(w) PROVE SuccessInv'
  <2> PICK c \in worker[w].at :
        job' = [job EXCEPT ![c.order] =
                   [@ EXCEPT !.status = Status(worker[w].outcome, c.attempt),
                             !.due = FALSE,
                             !.reconciling = LeavesReconciling(worker[w].outcome)]]
    BY <1>16 DEF Record
  <2>1. Status(worker[w].outcome, c.attempt) = "SUCCEEDED"
          => worker[w].outcome = "COMPLETED"
    BY DEF Status
  <2>2. c.order \in Order /\ job[c.order] \in Job
    BY DEF Types, WorkerState, Claims
  <2>3. job'[c.order].status = Status(worker[w].outcome, c.attempt)
    <3>1. [job[c.order] EXCEPT
             !.status = Status(worker[w].outcome, c.attempt), !.due = FALSE,
             !.reconciling = LeavesReconciling(worker[w].outcome)].status
            = Status(worker[w].outcome, c.attempt)
      BY ONLY <2>2 DEF Job
    <3> HIDE DEF Status
    <3> QED BY <2>2, <3>1 DEF Types
  <2>4. \A p \in Order \ {c.order} : job'[p] = job[p]
    BY DEF Types
  <2>5. \A p \in Order : job'[p].status = "SUCCEEDED" => p \in issued
    BY <1>16, <2>1, <2>3, <2>4 DEF SuccessInv, Record
  <2>6. worker'[w].pc = "claim" /\ \A v \in Worker \ {w} : worker'[v] = worker[v]
    BY <1>16 DEF Record, Types, WorkerState
  <2>7. issued' = issued /\ invoice' = invoice
    BY <1>16 DEF Record
  <2> QED BY <2>5, <2>6, <2>7 DEF SuccessInv
<1>17. ASSUME NEW w \in Worker, WorkerCrash(w) PROVE SuccessInv'
  <2>1. Idle.pc # "record"
    BY DEF Idle
  <2>2. /\ worker'[w].pc # "record"
        /\ \A v \in Worker \ {w} : worker'[v] = worker[v]
    BY <1>17, <2>1 DEF WorkerCrash, Types
  <2> QED BY <1>17, <2>2, NotRecording DEF WorkerCrash
<1>18. CASE UNCHANGED vars
  BY <1>0, <1>18, WorkersAlone DEF vars
<1> QED BY <1>1, <1>2, <1>3, <1>4, <1>7, <1>8, <1>9, <1>10, <1>11, <1>12,
           <1>13, <1>14, <1>15, <1>16, <1>17, <1>18 DEF Next, WorkerStep
----------------------------------------------------------------------------
(* The theorems.                                                           *)

LEMMA Initially == Init => Types /\ LeaseInv /\ OneAtHand /\ SuccessInv
<1> SUFFICES ASSUME Init PROVE Types /\ LeaseInv /\ OneAtHand /\ SuccessInv
  OBVIOUS
<1>1. /\ \A w \in Worker : worker[w] = Idle
      /\ \A o \in Order : job[o] = NoJob
  BY DEF Init
<1>2. Types
  BY NoJobType, IdleType DEF Init, Types
<1>3. \A w \in Worker : Holds(w) = {} /\ worker[w].pc = "idle"
                        /\ worker[w].at = {} /\ worker[w].batch = {}
  BY <1>1 DEF Idle, Holds
<1>4. LeaseInv
  BY <1>3 DEF LeaseInv, Leased, ClaimsApart, PostsFresh
<1>5. OneAtHand /\ SuccessInv
  BY <1>1, <1>3 DEF OneAtHand, SuccessInv, Init, NoJob
<1> QED BY <1>2, <1>4, <1>5

LEMMA Inductive ==
  Spec => [](Types /\ LeaseInv /\ OneAtHand /\ SuccessInv)
BY Initially, TypesInductive, LeaseInductive, OneAtHandInductive,
   SuccessInductive, PTL DEF Spec

\* claimDueJobs: whatever crashes, retries and other claims do, a job is in
\* the hands of one worker at a time as long as no lease has been overrun, for
\* any number of workers, orders and jobs in a batch.
THEOREM LeaseMutualExclusion == Spec => []OneProcessor
<1>1. LeaseInv => OneProcessor
  BY DEF LeaseInv, Leased, OneProcessor
<1> QED BY <1>1, Inductive, PTL

\* completeJob: a job is SUCCEEDED only for an order that ACCURA holds an
\* invoice for, even when workers have outlived their leases.
THEOREM SuccessesIssued == Spec => []SucceededIsIssued
<1>1. SuccessInv => SucceededIsIssued
  BY DEF SuccessInv, SucceededIsIssued
<1> QED BY <1>1, Inductive, PTL

\* processClaimedJob: as long as no lease has been overrun, no worker posts
\* for an order whose key ACCURA has reported as used.
THEOREM NoRepost == Spec => []NoPostWhileReconciling
<1>1. LeaseInv => NoPostWhileReconciling
  BY DEF LeaseInv, PostsFresh, NoPostWhileReconciling
<1> QED BY <1>1, Inductive, PTL

\* completeJob, scheduleRetry, scheduleReconciliation and failJob write by job
\* id alone: as long as no lease has been overrun, no late result, claim,
\* retry or second enqueue takes a SUCCEEDED job out of that status.
THEOREM SuccessFinal == Spec => SucceededIsFinal
<1> DEFINE Final == overruns = 0 =>
             \A o \in Order :
               job[o].status = "SUCCEEDED" => job'[o].status = "SUCCEEDED"
<1>1. Types /\ LeaseInv /\ [Next]_vars => [Final]_vars
  <2> SUFFICES ASSUME Types, LeaseInv, Next, overruns = 0, NEW o \in Order,
                      job[o].status = "SUCCEEDED"
               PROVE  job'[o].status = "SUCCEEDED"
    OBVIOUS
  <2>1. CASE job' = job
    BY <2>1
  <2>3. ASSUME NEW p \in Order, Enqueue(p) PROVE job'[o].status = "SUCCEEDED"
    BY <2>3 DEF Enqueue, Types, NoJob
  <2>4. ASSUME NEW p \in Order, TimePasses(p) \/ AdminRetry(p)
        PROVE  job'[o].status = "SUCCEEDED"
    BY <2>4 DEF TimePasses, AdminRetry, Retryable, Waiting, Types
  <2>5. ASSUME NEW w \in Worker, TryClaim(w)
        PROVE  job'[o].status = "SUCCEEDED"
    <3>1. ~CanClaim(o)
      BY DEF CanClaim, Waiting
    <3> QED BY <2>5, <3>1 DEF TryClaim, Types
  <2>6. ASSUME NEW w \in Worker, Record(w) PROVE job'[o].status = "SUCCEEDED"
    <3>1. \A c \in worker[w].at : job[c.order].status = "PROCESSING"
      BY DEF LeaseInv, Leased, Holds
    <3> QED BY <2>6, <3>1 DEF Record, Types
  <2> QED BY <2>1, <2>3, <2>4, <2>5, <2>6 DEF Next, WorkerStep, SettleByGateway,
             CompleteOrder, EnqueueSettled, ServerCrash, BecomeDue,
             LeaseOverrun, Webhook, Poll, NextJob, LookUp, ReadPrior, Post,
             WorkerCrash
<1>2. Spec => [][Final]_vars
  BY <1>1, Inductive, PTL DEF Spec
<1> QED BY <1>2 DEF SucceededIsFinal
----------------------------------------------------------------------------
(* Sizes: attempts, batches and the counters of faults.                    *)

\* An attempt is counted by the claim, so a job that a worker writes has one.
AttemptsCounted ==
  overruns = 0 =>
    \A o \in Order :
      job[o].status \in {"NONE", "PENDING"} <=> job[o].attempts = 0

Batch(w) == worker[w].batch \cup worker[w].at

\* A worker that claims has nothing at hand, so the test of the batch alone
\* bounds what it has claimed altogether.
BatchBounded ==
  \A w \in Worker :
    /\ IsFiniteSet(Batch(w)) /\ Cardinality(Batch(w)) <= BatchSize
    /\ worker[w].pc \in {"idle", "claim"} => worker[w].at = {}

FaultsBounded ==
  crashes <= CrashBound /\ overruns <= OverrunBound /\ retries <= RetryBound

\* Claims are dropped or move within a worker.
LEMMA BatchShrinks ==
  ASSUME BatchBounded,
         \A w \in Worker :
           /\ worker'[w].batch \cup worker'[w].at
                \subseteq worker[w].batch \cup worker[w].at
           /\ worker'[w].pc \in {"idle", "claim"} => worker'[w].at = {}
  PROVE  BatchBounded'
<1> SUFFICES ASSUME NEW w \in Worker
             PROVE  IsFiniteSet(Batch(w)') /\ Cardinality(Batch(w)') <= BatchSize
  BY DEF BatchBounded
<1>1. Batch(w)' \in SUBSET Batch(w)
  BY DEF Batch
<1>2. IsFiniteSet(Batch(w)) /\ Cardinality(Batch(w)) <= BatchSize
  BY DEF BatchBounded
<1>3. IsFiniteSet(Batch(w)') /\ Cardinality(Batch(w)') <= Cardinality(Batch(w))
  BY <1>1, <1>2, FS_Subset
<1>4. Cardinality(Batch(w)) \in Nat /\ Cardinality(Batch(w)') \in Nat
  BY <1>2, <1>3, FS_CardinalityType
<1> QED BY <1>2, <1>3, <1>4, IssuanceAssumption

LEMMA BatchUntouched ==
  ASSUME BatchBounded,
         \A w \in Worker :
           /\ worker'[w].batch = worker[w].batch
           /\ worker'[w].at = worker[w].at
           /\ worker'[w].pc \in {"idle", "claim"}
                => worker[w].pc \in {"idle", "claim"}
  PROVE  BatchBounded'
BY BatchShrinks DEF BatchBounded

\* One worker takes one more job, and had room for it.
LEMMA BatchGrows ==
  ASSUME BatchBounded, NEW w \in Worker, NEW c,
         Cardinality(worker[w].batch) < BatchSize,
         worker[w].pc = "claim", worker'[w].at = worker[w].at,
         worker'[w].batch = worker[w].batch \cup {c},
         \A v \in Worker \ {w} : worker'[v] = worker[v]
  PROVE  BatchBounded'
<1>1. worker[w].at = {} /\ worker'[w].at = {} /\ IsFiniteSet(worker[w].batch)
  <2>1. worker[w].at = {} /\ IsFiniteSet(worker[w].batch \cup worker[w].at)
    BY DEF BatchBounded, Batch
  <2>2. worker[w].batch \cup worker[w].at = worker[w].batch
    BY <2>1
  <2> QED BY <2>1, <2>2
<1> DEFINE S == worker[w].batch
<1>2. IsFiniteSet(S \cup {c}) /\ Cardinality(S \cup {c}) <= BatchSize
  <2>1. /\ IsFiniteSet(S \cup {c})
        /\ Cardinality(S \cup {c})
             = IF c \in S THEN Cardinality(S) ELSE Cardinality(S) + 1
    BY <1>1, FS_AddElement
  <2>2. Cardinality(S) \in Nat
    BY <1>1, FS_CardinalityType
  <2> QED BY <2>1, <2>2, IssuanceAssumption
<1>3. worker'[w].batch \cup worker'[w].at = S \cup {c}
  BY <1>1
<1>4. IsFiniteSet(Batch(w)') /\ Cardinality(Batch(w)') <= BatchSize
  BY <1>2, <1>3 DEF Batch
<1>5. \A v \in Worker \ {w} :
        /\ IsFiniteSet(Batch(v)') /\ Cardinality(Batch(v)') <= BatchSize
        /\ worker'[v].pc \in {"idle", "claim"} => worker'[v].at = {}
  BY DEF BatchBounded, Batch
<1> QED BY <1>1, <1>4, <1>5 DEF BatchBounded

LEMMA BatchInductive ==
  Types /\ BatchBounded /\ [Next]_vars => BatchBounded'
<1> SUFFICES ASSUME Types, BatchBounded, [Next]_vars PROVE BatchBounded'
  OBVIOUS
<1>1. CASE worker' = worker
  BY <1>1, BatchUntouched
<1>2. ASSUME NEW o \in Order, NotForPresentPasses(o) PROVE BatchBounded'
  BY <1>2, PassesForget, BatchUntouched
<1>3. ASSUME NEW w \in Worker, Poll(w) PROVE BatchBounded'
  <2>1. worker[w] \in WorkerState
    BY DEF Types
  <2>2. /\ [worker[w] EXCEPT !.pc = "claim", !.candidates = Due].batch
              = worker[w].batch
        /\ [worker[w] EXCEPT !.pc = "claim", !.candidates = Due].at
              = worker[w].at
    BY ONLY <2>1 DEF WorkerState
  <2>3. /\ worker'[w].batch = worker[w].batch /\ worker'[w].at = worker[w].at
        /\ worker[w].pc = "idle"
        /\ \A v \in Worker \ {w} : worker'[v] = worker[v]
    BY <1>3, <2>2 DEF Poll, Types
  <2> QED BY <2>3, BatchUntouched
<1>4. ASSUME NEW w \in Worker, TryClaim(w) PROVE BatchBounded'
  <2>0. worker[w] \in WorkerState /\ worker[w].pc = "claim"
        /\ Cardinality(worker[w].batch) < BatchSize
    BY <1>4 DEF TryClaim, Types
  <2>1. ASSUME NEW o \in worker[w].candidates,
               worker' = [worker EXCEPT ![w] =
                  [@ EXCEPT !.candidates = worker[w].candidates \ {o},
                            !.batch = worker[w].batch
                               \cup {[order |-> o, attempt |-> NextAttempt(o)]}]]
        PROVE  BatchBounded'
    <3> DEFINE c == [order |-> o, attempt |-> NextAttempt(o)]
               row == [worker[w] EXCEPT
                         !.candidates = worker[w].candidates \ {o},
                         !.batch = worker[w].batch \cup {c}]
    <3>1. row.batch = worker[w].batch \cup {c} /\ row.at = worker[w].at
      BY ONLY <2>0 DEF WorkerState
    <3>2. worker'[w] = row /\ \A v \in Worker \ {w} : worker'[v] = worker[v]
      BY <2>1 DEF Types
    <3> HIDE DEF row, c
    <3> QED BY <2>0, <3>1, <3>2, BatchGrows
  <2>2. ASSUME NEW o \in worker[w].candidates,
               worker' = [worker EXCEPT ![w] =
                  [@ EXCEPT !.candidates = worker[w].candidates \ {o}]]
        PROVE  BatchBounded'
    <3> DEFINE row == [worker[w] EXCEPT
                         !.candidates = worker[w].candidates \ {o}]
    <3>1. row.batch = worker[w].batch /\ row.at = worker[w].at
      BY ONLY <2>0 DEF WorkerState
    <3>2. worker'[w] = row /\ \A v \in Worker \ {w} : worker'[v] = worker[v]
      BY <2>2 DEF Types
    <3> HIDE DEF row
    <3> QED BY <2>0, <3>1, <3>2, BatchUntouched
  <2> QED BY <1>4, <2>1, <2>2 DEF TryClaim
<1>5. ASSUME NEW w \in Worker, worker' = [worker EXCEPT ![w] = Idle]
      PROVE  BatchBounded'
  <2>1. /\ worker'[w].batch = {} /\ worker'[w].at = {}
        /\ \A v \in Worker \ {w} : worker'[v] = worker[v]
    BY <1>5 DEF Idle, Types
  <2> QED BY <2>1, BatchShrinks DEF BatchBounded
<1>6. ASSUME NEW w \in Worker, NextJob(w) PROVE BatchBounded'
  <2>1. ASSUME NEW c \in worker[w].batch,
               worker' = [worker EXCEPT ![w] =
                            [@ EXCEPT !.pc = "look", !.candidates = {},
                                      !.batch = worker[w].batch \ {c},
                                      !.at = {c}]]
        PROVE  BatchBounded'
    <3> DEFINE row == [worker[w] EXCEPT !.pc = "look", !.candidates = {},
                         !.batch = worker[w].batch \ {c}, !.at = {c}]
    <3>1. worker[w] \in WorkerState
      BY DEF Types
    <3>2. /\ row.batch = worker[w].batch \ {c} /\ row.at = {c}
          /\ row.pc = "look"
      BY ONLY <3>1 DEF WorkerState
    <3>3. worker'[w] = row /\ \A v \in Worker \ {w} : worker'[v] = worker[v]
      BY <2>1 DEF Types
    <3> HIDE DEF row
    <3>4. worker'[w].batch \cup worker'[w].at
            \subseteq worker[w].batch \cup worker[w].at
      BY <3>2, <3>3
    <3> QED BY <3>2, <3>3, <3>4, BatchShrinks DEF BatchBounded
  <2> QED BY <1>5, <1>6, <2>1 DEF NextJob
<1>7. ASSUME NEW w \in Worker, NEW step \in {"prior", "post", "record"},
             NEW out, Goto(w, step, out)
      PROVE  BatchBounded'
  BY <1>7, GotoEffect, BatchUntouched
<1>8. ASSUME NEW w \in Worker, LookUp(w) \/ ReadPrior(w) \/ Post(w)
      PROVE  BatchBounded'
  BY <1>7, <1>8 DEF LookUp, ReadPrior, Post
<1>9. ASSUME NEW w \in Worker, Record(w) PROVE BatchBounded'
  <2> DEFINE row == [worker[w] EXCEPT !.pc = "claim", !.at = {},
                                      !.outcome = "NONE"]
  <2>1. worker[w] \in WorkerState
    BY DEF Types
  <2>2. row.batch = worker[w].batch /\ row.at = {}
    BY ONLY <2>1 DEF WorkerState
  <2>3. worker'[w] = row /\ \A v \in Worker \ {w} : worker'[v] = worker[v]
    BY <1>9 DEF Record, Types
  <2> HIDE DEF row
  <2> QED BY <2>2, <2>3, BatchShrinks DEF BatchBounded
<1>10. ASSUME NEW w \in Worker, WorkerCrash(w) PROVE BatchBounded'
  BY <1>5, <1>10 DEF WorkerCrash
<1>11. ASSUME NEW o \in Order,
              SettleByGateway(o) \/ CompleteOrder(o) \/ EnqueueSettled(o)
                \/ ServerCrash(o) \/ Webhook(o)
       PROVE  BatchBounded'
  BY <1>1, <1>11 DEF SettleByGateway, CompleteOrder, EnqueueSettled,
                     ServerCrash, Webhook
<1>12. ASSUME NEW o \in Order, BecomeDue(o) \/ LeaseOverrun(o) \/ AdminRetry(o)
       PROVE  BatchBounded'
  BY <1>2, <1>12 DEF BecomeDue, LeaseOverrun, TimePasses, AdminRetry
<1>13. CASE UNCHANGED vars
  BY <1>1, <1>13 DEF vars
<1> QED BY <1>3, <1>4, <1>6, <1>8, <1>9, <1>10, <1>11, <1>12, <1>13
        DEF Next, WorkerStep

\* The row of one order is written, and stays counted.
LEMMA RowCounted ==
  ASSUME AttemptsCounted, overruns = 0, NEW o \in Order,
         \A p \in Order \ {o} : job'[p] = job[p],
         job'[o].status \in {"NONE", "PENDING"} <=> job'[o].attempts = 0
  PROVE  AttemptsCounted'
BY DEF AttemptsCounted

LEMMA AttemptsInductive ==
  Types /\ LeaseInv /\ AttemptsCounted /\ [Next]_vars => AttemptsCounted'
<1> SUFFICES ASSUME Types, LeaseInv, AttemptsCounted, [Next]_vars,
                    overruns' = 0
             PROVE  AttemptsCounted'
  BY DEF AttemptsCounted
<1>0. overruns = 0
  <2>1. overruns' \in {overruns, overruns + 1}
    BY DEF Next, vars, WorkerStep, SettleByGateway, CompleteOrder,
           EnqueueSettled, ServerCrash, BecomeDue, LeaseOverrun, Webhook,
           AdminRetry, Poll, TryClaim, NextJob, LookUp, ReadPrior, Post, Record,
           WorkerCrash
  <2> QED BY <2>1 DEF Types
<1>1. CASE job' = job
  BY <1>0, <1>1 DEF AttemptsCounted
<1>2. NewJob.status = "PENDING" /\ NewJob.attempts = 0
  BY DEF NewJob, NoJob
<1>3. ASSUME NEW o \in Order, job' = [job EXCEPT ![o] = NewJob]
      PROVE  AttemptsCounted'
  <2>1. job'[o] = NewJob /\ \A p \in Order \ {o} : job'[p] = job[p]
    BY <1>3 DEF Types
  <2> QED BY <1>0, <1>2, <2>1, RowCounted
<1>4. ASSUME NEW o \in Order, Enqueue(o) PROVE AttemptsCounted'
  BY <1>1, <1>3, <1>4 DEF Enqueue
<1>5. ASSUME NEW o \in Order, TimePasses(o) PROVE AttemptsCounted'
  <2>1. \A p \in Order : job'[p].status = job[p].status
                         /\ job'[p].attempts = job[p].attempts
    BY <1>5 DEF TimePasses, Types, Job
  <2> QED BY <1>0, <2>1 DEF AttemptsCounted
<1>6. ASSUME NEW w \in Worker, TryClaim(w) PROVE AttemptsCounted'
  <2>1. ASSUME NEW o \in worker[w].candidates,
               job' = [job EXCEPT ![o] =
                         [@ EXCEPT !.status = "PROCESSING",
                                   !.attempts = NextAttempt(o), !.due = FALSE]]
        PROVE  AttemptsCounted'
    <3> DEFINE row == [job[o] EXCEPT !.status = "PROCESSING",
                         !.attempts = NextAttempt(o), !.due = FALSE]
    <3>1. o \in Order /\ job[o] \in Job
      BY DEF Types, WorkerState
    <3>2. NextAttempt(o) \in Nat \ {0}
      BY <3>1 DEF NextAttempt, Job
    <3>3. row.status = "PROCESSING" /\ row.attempts = NextAttempt(o)
      BY ONLY <3>1 DEF Job
    <3>4. job'[o] = row /\ \A p \in Order \ {o} : job'[p] = job[p]
      BY <2>1, <3>1 DEF Types
    <3> HIDE DEF row
    <3> QED BY <1>0, <3>1, <3>2, <3>3, <3>4, RowCounted
  <2> QED BY <1>1, <1>6, <2>1 DEF TryClaim
<1>7. ASSUME NEW w \in Worker, Record(w) PROVE AttemptsCounted'
  <2> PICK c \in worker[w].at :
        job' = [job EXCEPT ![c.order] =
                   [@ EXCEPT !.status = Status(worker[w].outcome, c.attempt),
                             !.due = FALSE,
                             !.reconciling = LeavesReconciling(worker[w].outcome)]]
    BY <1>7 DEF Record
  <2> DEFINE s == Status(worker[w].outcome, c.attempt)
             row == [job[c.order] EXCEPT !.status = s, !.due = FALSE,
                       !.reconciling = LeavesReconciling(worker[w].outcome)]
  <2>1. c.order \in Order /\ job[c.order] \in Job
    BY DEF Types, WorkerState, Claims
  <2>2. job[c.order].status = "PROCESSING"
    BY <1>0 DEF LeaseInv, Leased, Holds
  <2>3. job[c.order].attempts # 0
    BY <1>0, <2>1, <2>2 DEF AttemptsCounted
  <2>4. s \notin {"NONE", "PENDING"}
    BY DEF Status
  <2> HIDE DEF s
  <2>5. row.status = s /\ row.attempts = job[c.order].attempts
    BY ONLY <2>1 DEF Job
  <2>6. job'[c.order] = row /\ \A p \in Order \ {c.order} : job'[p] = job[p]
    BY <2>1 DEF Types, s
  <2> HIDE DEF row
  <2> QED BY <1>0, <2>1, <2>3, <2>4, <2>5, <2>6, RowCounted
<1>8. ASSUME NEW w \in Worker,
             Poll(w) \/ NextJob(w) \/ LookUp(w) \/ ReadPrior(w) \/ Post(w)
               \/ WorkerCrash(w)
      PROVE  AttemptsCounted'
  BY <1>1, <1>8 DEF Poll, NextJob, LookUp, ReadPrior, Post, WorkerCrash
<1>9. ASSUME NEW o \in Order,
             CompleteOrder(o) \/ ServerCrash(o) \/ Webhook(o)
      PROVE  AttemptsCounted'
  BY <1>1, <1>9 DEF CompleteOrder, ServerCrash, Webhook
<1>10. ASSUME NEW o \in Order, SettleByGateway(o) \/ EnqueueSettled(o)
       PROVE  AttemptsCounted'
  BY <1>4, <1>10 DEF SettleByGateway, EnqueueSettled
<1>11. ASSUME NEW o \in Order, BecomeDue(o) \/ LeaseOverrun(o) \/ AdminRetry(o)
       PROVE  AttemptsCounted'
  BY <1>3, <1>5, <1>11 DEF BecomeDue, LeaseOverrun, AdminRetry
<1>12. CASE UNCHANGED vars
  BY <1>1, <1>12 DEF vars
<1> QED BY <1>6, <1>7, <1>8, <1>9, <1>10, <1>11, <1>12 DEF Next, WorkerStep

LEMMA FaultsInductive ==
  Types /\ FaultsBounded /\ [Next]_vars => FaultsBounded'
<1> SUFFICES ASSUME Types, FaultsBounded, [Next]_vars PROVE FaultsBounded'
  OBVIOUS
<1>1. crashes \in Nat /\ overruns \in Nat /\ retries \in Nat
      /\ CrashBound \in Nat /\ OverrunBound \in Nat /\ RetryBound \in Nat
  BY IssuanceAssumption DEF Types
<1>2. /\ crashes' = crashes \/ (crashes < CrashBound /\ crashes' = crashes + 1)
      /\ overruns' = overruns
           \/ (overruns < OverrunBound /\ overruns' = overruns + 1)
      /\ retries' = retries \/ (retries < RetryBound /\ retries' = retries + 1)
  BY DEF Next, vars, WorkerStep, SettleByGateway, CompleteOrder,
         EnqueueSettled, ServerCrash, BecomeDue, LeaseOverrun, TimePasses,
         Webhook, AdminRetry, Poll, TryClaim, NextJob, LookUp, ReadPrior, Post,
         Record, WorkerCrash
<1> QED BY <1>1, <1>2 DEF FaultsBounded

LEMMA SizesInductive ==
  Spec => [](AttemptsCounted /\ BatchBounded /\ FaultsBounded)
<1>1. Init => AttemptsCounted /\ BatchBounded /\ FaultsBounded
  <2> SUFFICES ASSUME Init
               PROVE  AttemptsCounted /\ BatchBounded /\ FaultsBounded
    OBVIOUS
  <2>1. AttemptsCounted
    BY DEF Init, AttemptsCounted, NoJob
  <2>2. \A w \in Worker : Batch(w) = {} /\ worker[w].at = {}
    BY DEF Init, Batch, Idle
  <2>3. BatchBounded
    BY <2>2, FS_EmptySet, IssuanceAssumption DEF BatchBounded
  <2> QED BY <2>1, <2>3, IssuanceAssumption DEF Init, FaultsBounded
<1>2. /\ Types /\ LeaseInv /\ AttemptsCounted /\ BatchBounded /\ FaultsBounded
      /\ [Next]_vars
      => (AttemptsCounted /\ BatchBounded /\ FaultsBounded)'
  BY AttemptsInductive, BatchInductive, FaultsInductive
<1>3. Spec => [](Types /\ LeaseInv)
  BY Inductive, PTL
<1> QED BY <1>1, <1>2, <1>3, PTL DEF Spec

\* Rows and workers stay well formed: a worker never holds more jobs than a
\* batch allows, and as long as no lease has been overrun exactly the jobs
\* never claimed since they were written have no attempt.
THEOREM TypeCorrect == Spec => []TypeOK
<1>1. Types /\ AttemptsCounted /\ BatchBounded /\ FaultsBounded => TypeOK
  BY DEF AttemptsCounted, BatchBounded, Batch, FaultsBounded, TypeOK
<1> QED BY <1>1, Inductive, SizesInductive, PTL
----------------------------------------------------------------------------
(* Claims beyond the attempts allowed, with leases that are overrun.       *)

\* A worker never claims an order it holds already, whatever else happens:
\* an order leaves its candidates with the claim, and does not come back
\* before the pass is over.
Sound(s) ==
  /\ s.batch \cap s.at = {}
  /\ \A c, d \in s.at : c = d
  /\ \A c, d \in s.batch \cup s.at : c.order = d.order => c = d
  /\ \A c \in s.batch \cup s.at : c.order \notin s.candidates
  /\ s.pc = "idle" => s.batch = {}
  /\ s.pc \in {"idle", "claim"} => s.at = {}

Apart == \A w \in Worker : Sound(worker[w])

\* The workers that hold an order, and those among them whose claim still
\* lets them schedule a retry.
Holders(ws, o) ==
  {w \in Worker : \E c \in ws[w].batch \cup ws[w].at : c.order = o}

Retriers(ws, o) ==
  {w \in Worker : \E c \in ws[w].batch \cup ws[w].at :
                    c.order = o /\ ~Exhausted(c.attempt)}

\* A job with its lease running in somebody's hands, and one that can be
\* claimed now or when time has passed.
Taken(holders, j) == j.status = "PROCESSING" /\ ~j.due /\ holders # {}

Open(holders, j) ==
  j.status \in Waiting \/ (j.status = "PROCESSING" /\ ~Taken(holders, j))

Used(j) == IF j.attempts >= MaxAttempts THEN j.attempts ELSE MaxAttempts - 1

\* One worker holds a job without an overrun, and one more for each overrun.
\* Each that may still schedule a retry, and the job itself while it is open,
\* stands for one claim to come: together with the claims made they exceed the
\* attempts allowed by the faults at most.
Fits(holders, retriers, j, down, over) ==
  /\ IsFiniteSet(holders) /\ retriers \subseteq holders
  /\ Cardinality(holders) + (IF Taken(holders, j) THEN 0 ELSE 1) <= 1 + over
  /\ Used(j) + (IF Open(holders, j) THEN 1 ELSE 0) + Cardinality(retriers)
       <= MaxAttempts + down + over

Counted(o) ==
  Fits(Holders(worker, o), Retriers(worker, o), job[o], crashes, overruns)

ClaimsCounted == Apart /\ \A o \in Order : Counted(o)

LEMMA UsedType == \A j \in Job : Used(j) \in Nat /\ j.attempts \in Nat
                                 /\ j.attempts <= Used(j)
BY IssuanceAssumption DEF Used, Job

LEMMA FitsSizes ==
  ASSUME NEW H, NEW R, IsFiniteSet(H), R \subseteq H
  PROVE  /\ IsFiniteSet(R) /\ Cardinality(H) \in Nat /\ Cardinality(R) \in Nat
         /\ Cardinality(R) <= Cardinality(H)
         /\ (H = {} <=> Cardinality(H) = 0)
<1>1. IsFiniteSet(R) /\ Cardinality(R) <= Cardinality(H)
  BY FS_Subset
<1>2. Cardinality(H) \in Nat /\ Cardinality(R) \in Nat
  BY <1>1, FS_CardinalityType
<1>3. H = {} <=> Cardinality(H) = 0
  BY FS_EmptySet
<1> QED BY <1>1, <1>2, <1>3

\* The job is written anew: nobody is processing it.
LEMMA FitsNew ==
  ASSUME NEW H, NEW R, NEW j \in Job, NEW down \in Nat, NEW over \in Nat,
         Fits(H, R, j, down, over), j.status # "PROCESSING"
  PROVE  Fits(H, R, NewJob, down, over)
<1>1. /\ IsFiniteSet(R) /\ Cardinality(H) \in Nat /\ Cardinality(R) \in Nat
      /\ Cardinality(R) <= Cardinality(H)
  BY FitsSizes DEF Fits
<1>2. ~Taken(H, j) /\ ~Taken(H, NewJob)
  BY DEF Taken, NewJob, NoJob
<1>3. Used(NewJob) = MaxAttempts - 1
  BY IssuanceAssumption DEF Used, NewJob, NoJob
<1>4. Cardinality(H) <= over
  BY <1>1, <1>2 DEF Fits
<1> QED BY <1>1, <1>2, <1>3, <1>4, IssuanceAssumption DEF Fits

\* Time passes for a job that waits, or that nobody holds.
LEMMA FitsDue ==
  ASSUME NEW H, NEW R, NEW j \in Job, NEW k \in Job, NEW down \in Nat, NEW over \in Nat,
         Fits(H, R, j, down, over), k.status = j.status, k.attempts = j.attempts,
         j.status # "PROCESSING" \/ H = {}
  PROVE  Fits(H, R, k, down, over)
BY DEF Fits, Used, Open, Taken

\* The lease ends under a holder.
LEMMA FitsOverrun ==
  ASSUME NEW H, NEW R, NEW j \in Job, NEW k \in Job, NEW down \in Nat, NEW over \in Nat,
         Fits(H, R, j, down, over), k.status = j.status, k.attempts = j.attempts
  PROVE  Fits(H, R, k, down, over + 1)
<1>1. Cardinality(H) \in Nat /\ Cardinality(R) \in Nat
  BY FitsSizes DEF Fits
<1>2. Used(k) = Used(j) /\ Used(j) \in Nat
  BY UsedType DEF Used
<1>3. Cardinality(H) <= 1 + over
  BY <1>1 DEF Fits
<1>4. Used(j) + Cardinality(R) <= MaxAttempts + down + over
  BY <1>1, <1>2, IssuanceAssumption DEF Fits
<1> QED BY <1>1, <1>2, <1>3, <1>4, IssuanceAssumption DEF Fits

\* A worker claims the open job.
LEMMA FitsClaim ==
  ASSUME NEW H, NEW R, NEW j \in Job, NEW k \in Job, NEW down \in Nat, NEW over \in Nat,
         NEW w, NEW Q,
         Fits(H, R, j, down, over), w \notin H,
         j.due, j.status \in Waiting \cup {"PROCESSING"},
         k.status = "PROCESSING", ~k.due, k.attempts = j.attempts + 1,
         Q = IF Exhausted(k.attempts) THEN R ELSE R \cup {w}
  PROVE  Fits(H \cup {w}, Q, k, down, over)
<1>1. /\ IsFiniteSet(H) /\ R \subseteq H /\ IsFiniteSet(R)
      /\ Cardinality(H) \in Nat /\ Cardinality(R) \in Nat
  BY FitsSizes DEF Fits
<1>2. IsFiniteSet(H \cup {w}) /\ Cardinality(H \cup {w}) = Cardinality(H) + 1
  BY <1>1, FS_AddElement
<1>3. w \notin R /\ Cardinality(R \cup {w}) = Cardinality(R) + 1
  BY <1>1, FS_AddElement
<1>4. Taken(H \cup {w}, k) /\ ~Taken(H, j)
  BY DEF Taken
<1>5. Open(H, j) /\ ~Open(H \cup {w}, k)
  BY <1>4 DEF Open, Waiting
<1>6. Cardinality(H) <= over
  BY <1>1, <1>4 DEF Fits
<1>7. Used(j) + 1 + Cardinality(R) <= MaxAttempts + down + over
  BY <1>5 DEF Fits
<1>8. Used(k) + Cardinality(Q) <= Used(j) + 1 + Cardinality(R)
  <2>1. j.attempts \in Nat /\ k.attempts \in Nat
    BY UsedType
  <2>2. CASE Exhausted(k.attempts)
    BY <1>1, <2>1, <2>2, IssuanceAssumption DEF Used, Exhausted
  <2>3. CASE ~Exhausted(k.attempts)
    BY <1>1, <1>3, <2>1, <2>3, IssuanceAssumption DEF Used, Exhausted
  <2> QED BY <2>2, <2>3
<1>9. Q \subseteq H \cup {w}
  BY <1>1
<1>10. Used(k) \in Nat /\ Used(j) \in Nat /\ Cardinality(Q) \in Nat
  BY <1>1, <1>3, UsedType
<1>11. Used(k) + Cardinality(Q) <= MaxAttempts + down + over
  BY <1>1, <1>7, <1>8, <1>10, IssuanceAssumption
<1> QED BY <1>1, <1>2, <1>4, <1>5, <1>6, <1>9, <1>10, <1>11 DEF Fits

\* A holder writes its result, and can schedule a retry only if its claim lets
\* it.
LEMMA FitsRecord ==
  ASSUME NEW H, NEW R, NEW j \in Job, NEW k \in Job, NEW down \in Nat, NEW over \in Nat,
         NEW w,
         Fits(H, R, j, down, over), w \in H, k.attempts = j.attempts,
         k.status \in Finished \/ (k.status \in Waiting /\ w \in R)
  PROVE  Fits(H \ {w}, R \ {w}, k, down, over)
<1>1. /\ IsFiniteSet(H) /\ R \subseteq H /\ IsFiniteSet(R)
      /\ Cardinality(H) \in Nat /\ Cardinality(R) \in Nat
  BY FitsSizes DEF Fits
<1>2. IsFiniteSet(H \ {w}) /\ Cardinality(H \ {w}) = Cardinality(H) - 1
  BY <1>1, FS_RemoveElement
<1>3. Cardinality(R \ {w}) = IF w \in R THEN Cardinality(R) - 1 ELSE Cardinality(R)
  BY <1>1, FS_RemoveElement
<1>4. Used(k) = Used(j) /\ Used(j) \in Nat
  BY UsedType DEF Used
<1>5. Cardinality(H) <= 1 + over
  BY <1>1 DEF Fits
<1>6. Used(j) + Cardinality(R) <= MaxAttempts + down + over
  BY <1>1, <1>4, IssuanceAssumption DEF Fits
<1>7. Open(H \ {w}, k) => w \in R
  BY DEF Open, Waiting, Finished
<1>8. R \ {w} \subseteq H \ {w}
  BY <1>1
<1>9. Cardinality(H \ {w}) + (IF Taken(H \ {w}, k) THEN 0 ELSE 1) <= 1 + over
  BY <1>1, <1>2, <1>5
<1>10. Used(k) + (IF Open(H \ {w}, k) THEN 1 ELSE 0) + Cardinality(R \ {w})
         <= MaxAttempts + down + over
  BY <1>1, <1>3, <1>4, <1>6, <1>7, IssuanceAssumption
<1> QED BY <1>2, <1>8, <1>9, <1>10 DEF Fits

\* A worker dies, with the job or without it.
LEMMA FitsCrash ==
  ASSUME NEW H, NEW R, NEW j \in Job, NEW down \in Nat, NEW over \in Nat, NEW w,
         Fits(H, R, j, down, over)
  PROVE  Fits(H \ {w}, R \ {w}, j, down + 1, over)
<1>1. /\ IsFiniteSet(H) /\ R \subseteq H /\ IsFiniteSet(R)
      /\ Cardinality(H) \in Nat /\ Cardinality(R) \in Nat
  BY FitsSizes DEF Fits
<1>2. IsFiniteSet(H \ {w}) /\ Cardinality(H \ {w})
        = IF w \in H THEN Cardinality(H) - 1 ELSE Cardinality(H)
  BY <1>1, FS_RemoveElement
<1>3. /\ Cardinality(R \ {w}) = IF w \in R THEN Cardinality(R) - 1 ELSE Cardinality(R)
      /\ Cardinality(R \ {w}) <= Cardinality(R) /\ Cardinality(R \ {w}) \in Nat
  <2>1. Cardinality(R \ {w}) = IF w \in R THEN Cardinality(R) - 1 ELSE Cardinality(R)
    BY <1>1, FS_RemoveElement
  <2>2. Cardinality(R \ {w}) \in Nat
    BY <1>1, FS_RemoveElement, FS_CardinalityType
  <2> QED BY <1>1, <2>1, <2>2
<1>4. Used(j) \in Nat
  BY UsedType
<1>5. Used(j) + Cardinality(R) <= MaxAttempts + down + over
  BY <1>1, <1>4, IssuanceAssumption DEF Fits
<1>6. Cardinality(H \ {w}) + (IF Taken(H \ {w}, j) THEN 0 ELSE 1) <= 1 + over
  <2>1. CASE w \in H
    BY <1>1, <1>2, <2>1 DEF Fits
  <2>2. CASE w \notin H
    <3>1. H \ {w} = H
      BY <2>2
    <3> QED BY <3>1 DEF Fits
  <2> QED BY <2>1, <2>2
<1>7. Used(j) + (IF Open(H \ {w}, j) THEN 1 ELSE 0) + Cardinality(R \ {w})
        <= MaxAttempts + (down + 1) + over
  BY <1>1, <1>3, <1>4, <1>5, IssuanceAssumption
<1>8. R \ {w} \subseteq H \ {w}
  BY <1>1
<1> QED BY <1>2, <1>6, <1>7, <1>8 DEF Fits

LEMMA FitsCrashElsewhere ==
  ASSUME NEW H, NEW R, NEW j \in Job, NEW down \in Nat, NEW over \in Nat,
         Fits(H, R, j, down, over)
  PROVE  Fits(H, R, j, down + 1, over)
<1>1. Cardinality(R) \in Nat /\ Used(j) \in Nat
  BY FitsSizes, UsedType DEF Fits
<1> QED BY <1>1, IssuanceAssumption DEF Fits

LEMMA IdleSound == Sound(Idle)
BY DEF Sound, Idle

\* Every step keeps the claims of a worker apart, overrun leases or not.
LEMMA ApartInductive == Types /\ Apart /\ [Next]_vars => Apart'
<1> SUFFICES ASSUME Types, Apart, [Next]_vars PROVE Apart'
  OBVIOUS
<1>0. \A w \in Worker : worker[w] \in WorkerState /\ Sound(worker[w])
  BY DEF Types, Apart
<1>1. CASE worker' = worker
  BY <1>1 DEF Apart
<1>2. ASSUME NEW w \in Worker, NEW s, Sound(s), worker' = [worker EXCEPT ![w] = s]
      PROVE  Apart'
  BY <1>0, <1>2 DEF Apart, Types
<1>3. ASSUME NEW o \in Order, NotForPresentPasses(o) PROVE Apart'
  <2> SUFFICES ASSUME NEW w \in Worker PROVE Sound(worker'[w])
    BY DEF Apart
  <2> DEFINE s == worker[w]
             t == [s EXCEPT !.candidates = @ \ {o}]
  <2>1. worker'[w] = t
    BY <1>3 DEF NotForPresentPasses
  <2>2. s \in WorkerState /\ Sound(s)
    BY <1>0
  <2> HIDE DEF s
  <2>3. t.batch = s.batch /\ t.at = s.at /\ t.pc = s.pc /\ t.candidates = s.candidates \ {o}
    BY ONLY <2>2 DEF WorkerState
  <2> HIDE DEF t
  <2> QED BY <2>1, <2>2, <2>3 DEF Sound
<1>4. ASSUME NEW w \in Worker, NEW step \in {"prior", "post", "record"}, NEW out,
             Goto(w, step, out)
      PROVE  Apart'
  <2> DEFINE s == worker[w]
             t == [s EXCEPT !.pc = step, !.outcome = out]
  <2>1. worker' = [worker EXCEPT ![w] = t]
    BY <1>4 DEF Goto
  <2>2. s \in WorkerState /\ Sound(s)
    BY <1>0
  <2> HIDE DEF s
  <2>3. t.batch = s.batch /\ t.at = s.at /\ t.pc = step /\ t.candidates = s.candidates
    BY ONLY <2>2 DEF WorkerState
  <2> HIDE DEF t
  <2>4. Sound(t)
    BY <2>2, <2>3 DEF Sound
  <2> QED BY <1>2, <2>1, <2>4
<1>5. ASSUME NEW w \in Worker, Poll(w) PROVE Apart'
  <2> DEFINE s == worker[w]
             t == [s EXCEPT !.pc = "claim", !.candidates = Due]
  <2>1. worker' = [worker EXCEPT ![w] = t] /\ s.pc = "idle"
    BY <1>5 DEF Poll
  <2>2. s \in WorkerState /\ Sound(s)
    BY <1>0
  <2> HIDE DEF s
  <2>3. t.batch = s.batch /\ t.at = s.at /\ t.pc = "claim"
    BY ONLY <2>2 DEF WorkerState
  <2> HIDE DEF t
  <2>4. Sound(t)
    BY <2>1, <2>2, <2>3 DEF Sound
  <2> QED BY <1>2, <2>1, <2>4
<1>6. ASSUME NEW w \in Worker, NEW o \in worker[w].candidates, NEW n \in Nat,
             worker[w].pc = "claim",
             worker' = [worker EXCEPT ![w] =
                [@ EXCEPT !.candidates = worker[w].candidates \ {o},
                          !.batch = worker[w].batch \cup {[order |-> o, attempt |-> n]}]]
      PROVE  Apart'
  <2> DEFINE s == worker[w]
             c == [order |-> o, attempt |-> n]
             t == [s EXCEPT !.candidates = s.candidates \ {o}, !.batch = s.batch \cup {c}]
  <2>1. worker' = [worker EXCEPT ![w] = t] /\ s.pc = "claim" /\ o \in s.candidates
    BY <1>6
  <2>2. s \in WorkerState /\ Sound(s)
    BY <1>0
  <2>3. c.order = o
    OBVIOUS
  <2> HIDE DEF s, c
  <2>4. /\ t.batch = s.batch \cup {c} /\ t.at = s.at /\ t.pc = s.pc
        /\ t.candidates = s.candidates \ {o}
    BY ONLY <2>2 DEF WorkerState
  <2> HIDE DEF t
  <2>5. Sound(t)
    BY <2>1, <2>2, <2>3, <2>4 DEF Sound
  <2> QED BY <1>2, <2>1, <2>5
<1>7. ASSUME NEW w \in Worker, NEW o,
             worker' = [worker EXCEPT ![w] =
                [@ EXCEPT !.candidates = worker[w].candidates \ {o}]]
      PROVE  Apart'
  <2> DEFINE s == worker[w]
             t == [s EXCEPT !.candidates = s.candidates \ {o}]
  <2>1. worker' = [worker EXCEPT ![w] = t]
    BY <1>7
  <2>2. s \in WorkerState /\ Sound(s)
    BY <1>0
  <2> HIDE DEF s
  <2>3. t.batch = s.batch /\ t.at = s.at /\ t.pc = s.pc /\ t.candidates = s.candidates \ {o}
    BY ONLY <2>2 DEF WorkerState
  <2> HIDE DEF t
  <2>4. Sound(t)
    BY <2>2, <2>3 DEF Sound
  <2> QED BY <1>2, <2>1, <2>4
<1>8. ASSUME NEW w \in Worker, TryClaim(w) PROVE Apart'
  <2>1. PICK o \in worker[w].candidates :
          \/ worker' = [worker EXCEPT ![w] =
               [@ EXCEPT !.candidates = worker[w].candidates \ {o},
                         !.batch = worker[w].batch
                                     \cup {[order |-> o, attempt |-> NextAttempt(o)]}]]
          \/ worker' = [worker EXCEPT ![w] =
               [@ EXCEPT !.candidates = worker[w].candidates \ {o}]]
    BY <1>8 DEF TryClaim
  <2>2. o \in Order /\ NextAttempt(o) \in Nat /\ worker[w].pc = "claim"
    BY <1>8 DEF Types, WorkerState, Job, NextAttempt, TryClaim
  <2> QED BY <1>6, <1>7, <2>1, <2>2
<1>9. ASSUME NEW w \in Worker, NextJob(w) PROVE Apart'
  <2>1. CASE worker' = [worker EXCEPT ![w] = Idle]
    BY <1>2, <2>1, IdleSound
  <2>2. ASSUME NEW c \in worker[w].batch,
               worker' = [worker EXCEPT ![w] =
                            [@ EXCEPT !.pc = "look", !.candidates = {},
                                      !.batch = worker[w].batch \ {c}, !.at = {c}]]
        PROVE  Apart'
    <3> DEFINE s == worker[w]
               t == [s EXCEPT !.pc = "look", !.candidates = {},
                              !.batch = s.batch \ {c}, !.at = {c}]
    <3>1. worker' = [worker EXCEPT ![w] = t] /\ c \in s.batch
      BY <2>2
    <3>2. s \in WorkerState /\ Sound(s)
      BY <1>0
    <3> HIDE DEF s
    <3>3. t.batch = s.batch \ {c} /\ t.at = {c} /\ t.pc = "look" /\ t.candidates = {}
      BY ONLY <3>2 DEF WorkerState
    <3> HIDE DEF t
    <3>4. Sound(t)
      BY <3>1, <3>2, <3>3 DEF Sound
    <3> QED BY <1>2, <3>1, <3>4
  <2> QED BY <1>9, <2>1, <2>2 DEF NextJob
<1>10. ASSUME NEW w \in Worker, Record(w) PROVE Apart'
  <2> DEFINE s == worker[w]
             t == [s EXCEPT !.pc = "claim", !.at = {}, !.outcome = "NONE"]
  <2>1. worker' = [worker EXCEPT ![w] = t]
    BY <1>10 DEF Record
  <2>2. s \in WorkerState /\ Sound(s)
    BY <1>0
  <2> HIDE DEF s
  <2>3. t.batch = s.batch /\ t.at = {} /\ t.pc = "claim" /\ t.candidates = s.candidates
    BY ONLY <2>2 DEF WorkerState
  <2> HIDE DEF t
  <2>4. Sound(t)
    BY <2>2, <2>3 DEF Sound
  <2> QED BY <1>2, <2>1, <2>4
<1>11. ASSUME NEW w \in Worker, WorkerCrash(w) PROVE Apart'
  BY <1>2, <1>11, IdleSound DEF WorkerCrash
<1>12. ASSUME NEW w \in Worker, LookUp(w) \/ ReadPrior(w) \/ Post(w)
       PROVE  Apart'
  BY <1>4, <1>12 DEF LookUp, ReadPrior, Post
<1>13. ASSUME NEW o \in Order,
              SettleByGateway(o) \/ CompleteOrder(o) \/ EnqueueSettled(o)
                \/ ServerCrash(o) \/ Webhook(o)
       PROVE  Apart'
  BY <1>1, <1>13 DEF SettleByGateway, CompleteOrder, EnqueueSettled, ServerCrash, Webhook
<1>14. ASSUME NEW o \in Order, BecomeDue(o) \/ LeaseOverrun(o) \/ AdminRetry(o)
       PROVE  Apart'
  BY <1>3, <1>14 DEF BecomeDue, LeaseOverrun, TimePasses, AdminRetry
<1>15. CASE UNCHANGED vars
  BY <1>1, <1>15 DEF vars
<1> QED BY <1>5, <1>8, <1>9, <1>10, <1>11, <1>12, <1>13, <1>14, <1>15
        DEF Next, WorkerStep

\* Claims that stay, or move within a worker.
LEMMA HoldersSame ==
  ASSUME NEW ws, NEW vs,
         \A w \in Worker : vs[w].batch \cup vs[w].at = ws[w].batch \cup ws[w].at
  PROVE  \A o : Holders(vs, o) = Holders(ws, o) /\ Retriers(vs, o) = Retriers(ws, o)
BY DEF Holders, Retriers

\* The claim c of w goes, and nothing else.
Drops(ws, vs, w, c) ==
  /\ \A v \in Worker \ {w} : vs[v] = ws[v]
  /\ vs[w].batch \cup vs[w].at = (ws[w].batch \cup ws[w].at) \ {c}
  /\ c \in ws[w].batch \cup ws[w].at
  /\ \A d \in ws[w].batch \cup ws[w].at : d.order = c.order => d = c

HasDropped(ws, vs, w, c) ==
  /\ \A o : o # c.order =>
       Holders(vs, o) = Holders(ws, o) /\ Retriers(vs, o) = Retriers(ws, o)
  /\ Holders(vs, c.order) = Holders(ws, c.order) \ {w}
  /\ Retriers(vs, c.order) = Retriers(ws, c.order) \ {w}
  /\ w \in Holders(ws, c.order)
  /\ w \in Retriers(ws, c.order) <=> ~Exhausted(c.attempt)

LEMMA HoldersLess ==
  ASSUME NEW ws, NEW vs, NEW w \in Worker, NEW c, Drops(ws, vs, w, c)
  PROVE  HasDropped(ws, vs, w, c)
<1> DEFINE B == ws[w].batch \cup ws[w].at
           C == vs[w].batch \cup vs[w].at
<1>1. C = B \ {c} /\ c \in B /\ \A d \in B : d.order = c.order => d = c
  BY DEF Drops
<1>2. ASSUME NEW o, NEW v \in Worker
      PROVE  /\ v \in Holders(vs, o) <=>
                  IF v = w THEN \E d \in C : d.order = o ELSE v \in Holders(ws, o)
             /\ v \in Retriers(vs, o) <=>
                  IF v = w THEN \E d \in C : d.order = o /\ ~Exhausted(d.attempt)
                  ELSE v \in Retriers(ws, o)
             /\ w \in Holders(ws, o) <=> \E d \in B : d.order = o
             /\ w \in Retriers(ws, o) <=>
                  \E d \in B : d.order = o /\ ~Exhausted(d.attempt)
  BY DEF Holders, Retriers, Drops
<1>3. \A o : Holders(vs, o) \subseteq Worker /\ Retriers(vs, o) \subseteq Worker
             /\ Holders(ws, o) \subseteq Worker /\ Retriers(ws, o) \subseteq Worker
  BY DEF Holders, Retriers
<1> HIDE DEF B, C
<1>4. ASSUME NEW o, o # c.order
      PROVE  Holders(vs, o) = Holders(ws, o) /\ Retriers(vs, o) = Retriers(ws, o)
  <2>1. /\ (\E d \in C : d.order = o) <=> (\E d \in B : d.order = o)
        /\ (\E d \in C : d.order = o /\ ~Exhausted(d.attempt))
             <=> (\E d \in B : d.order = o /\ ~Exhausted(d.attempt))
    BY <1>1, <1>4
  <2>2. \A v \in Worker : /\ v \in Holders(vs, o) <=> v \in Holders(ws, o)
                          /\ v \in Retriers(vs, o) <=> v \in Retriers(ws, o)
    BY <1>2, <2>1
  <2> QED BY <1>3, <2>2
<1>5. /\ ~ \E d \in C : d.order = c.order
      /\ (\E d \in B : d.order = c.order /\ ~Exhausted(d.attempt)) <=> ~Exhausted(c.attempt)
      /\ \E d \in B : d.order = c.order
  BY <1>1
<1>6. \A v \in Worker :
        /\ v \in Holders(vs, c.order) <=> v \in Holders(ws, c.order) \ {w}
        /\ v \in Retriers(vs, c.order) <=> v \in Retriers(ws, c.order) \ {w}
  BY <1>2, <1>5
<1>7. /\ Holders(vs, c.order) = Holders(ws, c.order) \ {w}
      /\ Retriers(vs, c.order) = Retriers(ws, c.order) \ {w}
  BY <1>3, <1>6
<1>8. /\ w \in Holders(ws, c.order)
      /\ w \in Retriers(ws, c.order) <=> ~Exhausted(c.attempt)
  BY <1>2, <1>5
<1> QED BY <1>4, <1>7, <1>8 DEF HasDropped

\* w takes c, whose order it does not hold.
Takes(ws, vs, w, c) ==
  /\ \A v \in Worker \ {w} : vs[v] = ws[v]
  /\ vs[w].batch \cup vs[w].at = (ws[w].batch \cup ws[w].at) \cup {c}
  /\ \A d \in ws[w].batch \cup ws[w].at : d.order # c.order

HasTaken(ws, vs, w, c) ==
  /\ \A o : o # c.order =>
       Holders(vs, o) = Holders(ws, o) /\ Retriers(vs, o) = Retriers(ws, o)
  /\ Holders(vs, c.order) = Holders(ws, c.order) \cup {w}
  /\ Retriers(vs, c.order) = IF Exhausted(c.attempt) THEN Retriers(ws, c.order)
                             ELSE Retriers(ws, c.order) \cup {w}
  /\ w \notin Holders(ws, c.order)

LEMMA HoldersMore ==
  ASSUME NEW ws, NEW vs, NEW w \in Worker, NEW c, Takes(ws, vs, w, c)
  PROVE  HasTaken(ws, vs, w, c)
<1> DEFINE B == ws[w].batch \cup ws[w].at
           C == vs[w].batch \cup vs[w].at
<1>1. C = B \cup {c} /\ \A d \in B : d.order # c.order
  BY DEF Takes
<1>2. ASSUME NEW o, NEW v \in Worker
      PROVE  /\ v \in Holders(vs, o) <=>
                  IF v = w THEN \E d \in C : d.order = o ELSE v \in Holders(ws, o)
             /\ v \in Retriers(vs, o) <=>
                  IF v = w THEN \E d \in C : d.order = o /\ ~Exhausted(d.attempt)
                  ELSE v \in Retriers(ws, o)
             /\ w \in Holders(ws, o) <=> \E d \in B : d.order = o
             /\ w \in Retriers(ws, o) <=>
                  \E d \in B : d.order = o /\ ~Exhausted(d.attempt)
  BY DEF Holders, Retriers, Takes
<1>3. \A o : Holders(vs, o) \subseteq Worker /\ Retriers(vs, o) \subseteq Worker
             /\ Holders(ws, o) \subseteq Worker /\ Retriers(ws, o) \subseteq Worker
  BY DEF Holders, Retriers
<1> HIDE DEF B, C
<1>4. ASSUME NEW o, o # c.order
      PROVE  Holders(vs, o) = Holders(ws, o) /\ Retriers(vs, o) = Retriers(ws, o)
  <2>1. /\ (\E d \in C : d.order = o) <=> (\E d \in B : d.order = o)
        /\ (\E d \in C : d.order = o /\ ~Exhausted(d.attempt))
             <=> (\E d \in B : d.order = o /\ ~Exhausted(d.attempt))
    BY <1>1, <1>4
  <2>2. \A v \in Worker : /\ v \in Holders(vs, o) <=> v \in Holders(ws, o)
                          /\ v \in Retriers(vs, o) <=> v \in Retriers(ws, o)
    BY <1>2, <2>1
  <2> QED BY <1>3, <2>2
<1>5. /\ \E d \in C : d.order = c.order
      /\ (\E d \in C : d.order = c.order /\ ~Exhausted(d.attempt)) <=> ~Exhausted(c.attempt)
      /\ ~ \E d \in B : d.order = c.order
  BY <1>1
<1>6. \A v \in Worker :
        /\ v \in Holders(vs, c.order) <=> v \in Holders(ws, c.order) \cup {w}
        /\ v \in Retriers(vs, c.order) <=>
             v \in IF Exhausted(c.attempt) THEN Retriers(ws, c.order)
                   ELSE Retriers(ws, c.order) \cup {w}
  BY <1>2, <1>5
<1>7. /\ Holders(vs, c.order) = Holders(ws, c.order) \cup {w}
      /\ Retriers(vs, c.order) = IF Exhausted(c.attempt) THEN Retriers(ws, c.order)
                                 ELSE Retriers(ws, c.order) \cup {w}
  BY <1>3, <1>6
<1>8. w \notin Holders(ws, c.order)
  BY <1>2, <1>5
<1> QED BY <1>4, <1>7, <1>8 DEF HasTaken

\* w loses everything.
LEMMA HoldersGone ==
  ASSUME NEW ws, NEW vs, NEW w \in Worker,
         \A v \in Worker \ {w} : vs[v] = ws[v],
         vs[w].batch = {}, vs[w].at = {}
  PROVE  \A o : Holders(vs, o) = Holders(ws, o) \ {w}
               /\ Retriers(vs, o) = Retriers(ws, o) \ {w}
BY DEF Holders, Retriers

\* Every step keeps the count of claims.
LEMMA CountedInductive ==
  Types /\ ClaimsCounted /\ [Next]_vars => \A o \in Order : Counted(o)'
<1> SUFFICES ASSUME Types, ClaimsCounted, [Next]_vars, NEW p \in Order
             PROVE  Counted(p)'
  OBVIOUS
<1> DEFINE H(o) == Holders(worker, o)
           R(o) == Retriers(worker, o)
           H1(o) == Holders(worker', o)
           R1(o) == Retriers(worker', o)
<1>0. /\ crashes \in Nat /\ overruns \in Nat /\ Apart
      /\ \A o \in Order : job[o] \in Job /\ Fits(H(o), R(o), job[o], crashes, overruns)
  BY DEF Types, ClaimsCounted, Counted
<1>1. Counted(p)' <=> Fits(H1(p), R1(p), job'[p], crashes', overruns')
  BY DEF Counted
<1>2. NewJob \in Job
  BY NoJobType
<1>3. ASSUME \A w \in Worker : worker'[w].batch \cup worker'[w].at
                                 = worker[w].batch \cup worker[w].at
      PROVE  \A o : H1(o) = H(o) /\ R1(o) = R(o)
  BY <1>3, HoldersSame
<1> HIDE DEF H, R, H1, R1
<1>4. ASSUME \A o : H1(o) = H(o) /\ R1(o) = R(o),
             NEW o \in Order, \A q \in Order \ {o} : job'[q] = job[q],
             Fits(H(o), R(o), job'[o], crashes, overruns),
             crashes' = crashes, overruns' = overruns
      PROVE  Counted(p)'
  BY <1>0, <1>1, <1>4
<1>5. ASSUME \A o : H1(o) = H(o) /\ R1(o) = R(o), job' = job,
             overruns' = overruns, crashes' = crashes \/ crashes' = crashes + 1
      PROVE  Counted(p)'
  <2>1. Fits(H(p), R(p), job[p], crashes + 1, overruns)
    BY <1>0, FitsCrashElsewhere
  <2> QED BY <1>0, <1>1, <1>5, <2>1
<1>6. ASSUME NEW o \in Order, job' = [job EXCEPT ![o] = NewJob], job[o].status # "PROCESSING",
             \A q : H1(q) = H(q) /\ R1(q) = R(q),
             crashes' = crashes, overruns' = overruns
      PROVE  Counted(p)'
  <2>1. Fits(H(o), R(o), NewJob, crashes, overruns)
    BY <1>0, <1>6, FitsNew
  <2>2. job'[o] = NewJob /\ \A q \in Order \ {o} : job'[q] = job[q]
    BY <1>6 DEF Types
  <2> QED BY <1>4, <1>6, <2>1, <2>2
<1>7. ASSUME NEW o \in Order, Enqueue(o), worker' = worker, crashes' = crashes,
             overruns' = overruns
      PROVE  Counted(p)'
  <2>1. \A q : H1(q) = H(q) /\ R1(q) = R(q)
    BY <1>3, <1>7
  <2>2. CASE o \in invoice \/ job[o] # NoJob
    BY <1>5, <1>7, <2>1, <2>2 DEF Enqueue
  <2>3. CASE ~(o \in invoice \/ job[o] # NoJob)
    <3>1. job' = [job EXCEPT ![o] = NewJob] /\ job[o].status # "PROCESSING"
      BY <1>7, <2>3 DEF Enqueue, NoJob
    <3> QED BY <1>6, <1>7, <2>1, <3>1
  <2> QED BY <2>2, <2>3
<1>8. ASSUME NEW o \in Order, TimePasses(o)
      PROVE  /\ \A q : H1(q) = H(q) /\ R1(q) = R(q)
             /\ job'[o] \in Job /\ job'[o].status = job[o].status
             /\ job'[o].attempts = job[o].attempts
             /\ \A q \in Order \ {o} : job'[q] = job[q]
             /\ crashes' = crashes
  <2>1. \A q : H1(q) = H(q) /\ R1(q) = R(q)
    BY <1>3, <1>8, PassesForget DEF TimePasses
  <2>2. /\ job'[o] = [job[o] EXCEPT !.due = TRUE] /\ crashes' = crashes
        /\ \A q \in Order \ {o} : job'[q] = job[q]
    BY <1>8 DEF TimePasses, Types
  <2>3. job[o] \in Job
    BY <1>0
  <2>4. /\ job'[o] \in Job /\ job'[o].status = job[o].status
        /\ job'[o].attempts = job[o].attempts
    BY ONLY <2>2, <2>3 DEF Job
  <2> QED BY <2>1, <2>2, <2>4
<1>9. ASSUME NEW o \in Order, BecomeDue(o) PROVE Counted(p)'
  <2>1. TimePasses(o) /\ overruns' = overruns
        /\ (job[o].status # "PROCESSING" \/ H(o) = {})
    BY <1>9 DEF BecomeDue, Held, Holds, H, Holders
  <2>2. Fits(H(o), R(o), job'[o], crashes, overruns)
    BY <1>0, <1>8, <2>1, FitsDue
  <2> QED BY <1>4, <1>8, <2>1, <2>2
<1>10. ASSUME NEW o \in Order, LeaseOverrun(o) PROVE Counted(p)'
  <2>1. TimePasses(o) /\ overruns' = overruns + 1
    BY <1>10 DEF LeaseOverrun
  <2>2. job'[p] \in Job /\ job'[p].status = job[p].status
        /\ job'[p].attempts = job[p].attempts
    BY <1>0, <1>8, <2>1
  <2>3. Fits(H(p), R(p), job'[p], crashes, overruns + 1)
    BY <1>0, <2>2, FitsOverrun
  <2> QED BY <1>1, <1>8, <2>1, <2>3
<1>11. ASSUME NEW o \in Order, AdminRetry(o) PROVE Counted(p)'
  <2>1. /\ job' = [job EXCEPT ![o] = NewJob] /\ job[o].status # "PROCESSING"
        /\ crashes' = crashes /\ overruns' = overruns
    BY <1>11 DEF AdminRetry, Retryable
  <2>2. \A q : H1(q) = H(q) /\ R1(q) = R(q)
    BY <1>3, <1>11, PassesForget DEF AdminRetry
  <2> QED BY <1>6, <2>1, <2>2
<1>12. ASSUME NEW w \in Worker, TryClaim(w) PROVE Counted(p)'
  <2>0. /\ worker[w] \in WorkerState /\ Sound(worker[w])
        /\ crashes' = crashes /\ overruns' = overruns
    BY <1>0, <1>12 DEF Types, Apart, TryClaim
  <2>1. ASSUME NEW o \in worker[w].candidates, CanClaim(o),
               job' = [job EXCEPT ![o] =
                 [@ EXCEPT !.status = "PROCESSING",
                           !.attempts = NextAttempt(o), !.due = FALSE]],
               worker' = [worker EXCEPT ![w] =
                 [@ EXCEPT !.candidates = worker[w].candidates \ {o},
                           !.batch = worker[w].batch
                                       \cup {[order |-> o, attempt |-> NextAttempt(o)]}]]
        PROVE  Counted(p)'
    <3> DEFINE c == [order |-> o, attempt |-> NextAttempt(o)]
               s == worker[w]
               t == [s EXCEPT !.candidates = s.candidates \ {o}, !.batch = s.batch \cup {c}]
               k == [job[o] EXCEPT !.status = "PROCESSING",
                                   !.attempts = NextAttempt(o), !.due = FALSE]
    <3>1. worker'[w] = t /\ \A v \in Worker \ {w} : worker'[v] = worker[v]
      BY <2>1 DEF Types
    <3>2. o \in Order /\ job[o] \in Job /\ NextAttempt(o) = job[o].attempts + 1
          /\ NextAttempt(o) \in Nat
      BY <2>0, <1>0 DEF WorkerState, NextAttempt, Job
    <3>3. c.order = o /\ c.attempt = NextAttempt(o)
      OBVIOUS
    <3>4. job'[o] = k /\ \A q \in Order \ {o} : job'[q] = job[q]
      BY <2>1, <3>2 DEF Types
    <3>5. k \in Job /\ k.status = "PROCESSING" /\ ~k.due /\ k.attempts = NextAttempt(o)
      BY ONLY <3>2 DEF Job
    <3> HIDE DEF c, k
    <3>6. worker'[w].batch \cup worker'[w].at = (worker[w].batch \cup worker[w].at) \cup {c}
      <4>1. t.batch = s.batch \cup {c} /\ t.at = s.at
        <5>1. s \in WorkerState
          BY <2>0
        <5> HIDE DEF s
        <5> QED BY ONLY <5>1 DEF WorkerState
      <4> HIDE DEF t
      <4> QED BY <3>1, <4>1
    <3>7. \A d \in worker[w].batch \cup worker[w].at : d.order # c.order
      BY <2>0, <3>3 DEF Sound
    <3> HIDE DEF s, t
    <3>8. /\ \A q : q # o => H1(q) = H(q) /\ R1(q) = R(q)
          /\ H1(o) = H(o) \cup {w} /\ w \notin H(o)
          /\ R1(o) = IF Exhausted(NextAttempt(o)) THEN R(o) ELSE R(o) \cup {w}
      <4>1. Takes(worker, worker', w, c)
        BY <3>1, <3>6, <3>7 DEF Takes
      <4>2. HasTaken(worker, worker', w, c)
        BY <4>1, HoldersMore
      <4>3. /\ \A q : q # c.order => H1(q) = H(q) /\ R1(q) = R(q)
            /\ H1(c.order) = H(c.order) \cup {w} /\ w \notin H(c.order)
            /\ R1(c.order) = IF Exhausted(c.attempt) THEN R(c.order)
                             ELSE R(c.order) \cup {w}
        BY <4>2 DEF HasTaken, H, H1, R, R1
      <4> QED BY <3>3, <4>3
    <3>9. Fits(H1(o), R1(o), job'[o], crashes, overruns)
      <4>1. job[o].due /\ job[o].status \in Waiting \cup {"PROCESSING"}
        BY <2>1 DEF CanClaim
      <4>2. Fits(H(o), R(o), job[o], crashes, overruns) /\ k.attempts = job[o].attempts + 1
        BY <1>0, <3>2, <3>5
      <4>3. R1(o) = IF Exhausted(k.attempts) THEN R(o) ELSE R(o) \cup {w}
        BY <3>5, <3>8
      <4>4. Fits(H(o) \cup {w}, R1(o), k, crashes, overruns)
        BY <1>0, <3>2, <3>5, <3>8, <4>1, <4>2, <4>3, FitsClaim
      <4> QED BY <3>4, <3>8, <4>4
    <3> QED BY <1>0, <1>1, <2>0, <3>4, <3>8, <3>9
  <2>2. ASSUME NEW o, job' = job,
               worker' = [worker EXCEPT ![w] =
                 [@ EXCEPT !.candidates = worker[w].candidates \ {o}]]
        PROVE  Counted(p)'
    <3> DEFINE s == worker[w]
               t == [s EXCEPT !.candidates = s.candidates \ {o}]
    <3>1. worker'[w] = t /\ \A v \in Worker \ {w} : worker'[v] = worker[v]
      BY <2>2 DEF Types
    <3>2. s \in WorkerState
      BY <2>0
    <3>3. t.batch = s.batch /\ t.at = s.at
      <4> HIDE DEF s
      <4> QED BY ONLY <3>2 DEF WorkerState
    <3> HIDE DEF t
    <3> QED BY <1>3, <1>5, <2>0, <2>2, <3>1, <3>3
  <2> QED BY <1>12, <2>1, <2>2 DEF TryClaim
<1>13. ASSUME NEW w \in Worker, worker' = [worker EXCEPT ![w] = Idle], job' = job,
              crashes' = crashes + 1, overruns' = overruns
       PROVE  Counted(p)'
  <2>1. /\ worker'[w].batch = {} /\ worker'[w].at = {}
        /\ \A v \in Worker \ {w} : worker'[v] = worker[v]
    BY <1>13 DEF Types, Idle
  <2>2. H1(p) = H(p) \ {w} /\ R1(p) = R(p) \ {w}
    BY <2>1, HoldersGone DEF H, H1, R, R1
  <2>3. Fits(H(p) \ {w}, R(p) \ {w}, job[p], crashes + 1, overruns)
    BY <1>0, FitsCrash
  <2> QED BY <1>1, <1>13, <2>2, <2>3
<1>14. ASSUME NEW w \in Worker, WorkerCrash(w) PROVE Counted(p)'
  BY <1>13, <1>14 DEF WorkerCrash
<1>15. ASSUME NEW w \in Worker, NextJob(w) PROVE Counted(p)'
  <2>0. /\ worker[w] \in WorkerState /\ Sound(worker[w]) /\ worker[w].pc = "claim"
        /\ crashes' = crashes /\ overruns' = overruns /\ job' = job
        /\ worker[w].at = {}
    BY <1>0, <1>15 DEF Types, Apart, NextJob, Sound
  <2>1. \A v \in Worker : worker'[v].batch \cup worker'[v].at
                             = worker[v].batch \cup worker[v].at
    <3>1. CASE worker[w].batch = {}
      BY <1>15, <2>0, <3>1 DEF NextJob, Types, Idle
    <3>2. ASSUME NEW c \in worker[w].batch,
                 worker' = [worker EXCEPT ![w] =
                              [@ EXCEPT !.pc = "look", !.candidates = {},
                                        !.batch = worker[w].batch \ {c}, !.at = {c}]]
          PROVE  \A v \in Worker : worker'[v].batch \cup worker'[v].at
                                     = worker[v].batch \cup worker[v].at
      <4> DEFINE s == worker[w]
                 t == [s EXCEPT !.pc = "look", !.candidates = {},
                                !.batch = s.batch \ {c}, !.at = {c}]
      <4>1. worker'[w] = t /\ \A v \in Worker \ {w} : worker'[v] = worker[v]
        BY <3>2 DEF Types
      <4>2. s \in WorkerState /\ s.at = {} /\ c \in s.batch
        BY <2>0
      <4>3. t.batch = s.batch \ {c} /\ t.at = {c}
        <5> HIDE DEF s
        <5> QED BY ONLY <4>2 DEF WorkerState
      <4> HIDE DEF t
      <4>4. worker'[w].batch \cup worker'[w].at = worker[w].batch \cup worker[w].at
        BY <4>1, <4>2, <4>3
      <4> QED BY <4>1, <4>4
    <3> QED BY <1>15, <3>1, <3>2 DEF NextJob
  <2> QED BY <1>3, <1>5, <2>0, <2>1
<1>16. ASSUME NEW w \in Worker, Record(w) PROVE Counted(p)'
  <2>0. /\ worker[w] \in WorkerState /\ Sound(worker[w])
        /\ crashes' = crashes /\ overruns' = overruns
    BY <1>0, <1>16 DEF Types, Apart, Record
  <2> PICK c \in worker[w].at :
        job' = [job EXCEPT ![c.order] =
                   [@ EXCEPT !.status = Status(worker[w].outcome, c.attempt),
                             !.due = FALSE,
                             !.reconciling = LeavesReconciling(worker[w].outcome)]]
    BY <1>16 DEF Record
  <2> DEFINE o == c.order
             b == LeavesReconciling(worker[w].outcome)
             x == Status(worker[w].outcome, c.attempt)
             k == [job[o] EXCEPT !.status = x, !.due = FALSE, !.reconciling = b]
             s == worker[w]
             t == [s EXCEPT !.pc = "claim", !.at = {}, !.outcome = "NONE"]
  <2>1. o \in Order /\ job[o] \in Job /\ c \in s.at /\ s \in WorkerState
    BY <1>0, <2>0 DEF WorkerState, Claims
  <2>2. /\ x \in Finished \/ (x \in Waiting /\ ~Exhausted(c.attempt))
        /\ b \in BOOLEAN
    BY DEF Status, Finished, Waiting, LeavesReconciling
  <2>3. /\ job'[o] = k /\ \A q \in Order \ {o} : job'[q] = job[q]
        /\ worker'[w] = t /\ \A v \in Worker \ {w} : worker'[v] = worker[v]
    BY <1>16, <2>1 DEF Record, Types
  <2>4. t.batch = s.batch /\ t.at = {}
    <3> HIDE DEF s
    <3> QED BY ONLY <2>1 DEF WorkerState
  <2> HIDE DEF t, x, b, o
  <2>5. k \in Job /\ k.status = x /\ k.attempts = job[o].attempts
    BY ONLY <2>1, <2>2 DEF Job, Waiting, Finished
  <2> HIDE DEF k
  <2>6. worker'[w].batch \cup worker'[w].at = (worker[w].batch \cup worker[w].at) \ {c}
    <3>1. /\ s.batch \cap s.at = {}
          /\ \A d \in s.at : d = c
      BY <2>0, <2>1 DEF Sound
    <3>2. s.batch \cup {} = (s.batch \cup s.at) \ {c}
      BY <2>1, <3>1
    <3> QED BY <2>3, <2>4, <3>2
  <2>7. /\ c \in worker[w].batch \cup worker[w].at
        /\ \A d \in worker[w].batch \cup worker[w].at : d.order = c.order => d = c
    BY <2>0, <2>1 DEF Sound
  <2> HIDE DEF s
  <2>8. /\ \A q : q # o => H1(q) = H(q) /\ R1(q) = R(q)
        /\ H1(o) = H(o) \ {w} /\ R1(o) = R(o) \ {w} /\ w \in H(o)
        /\ w \in R(o) <=> ~Exhausted(c.attempt)
    <3>1. Drops(worker, worker', w, c)
      BY <2>3, <2>6, <2>7 DEF Drops
    <3>2. HasDropped(worker, worker', w, c)
      BY <3>1, HoldersLess
    <3> QED BY <3>2 DEF HasDropped, H, H1, R, R1, o
  <2>9. Fits(H1(o), R1(o), job'[o], crashes, overruns)
    <3>1. k.status \in Finished \/ (k.status \in Waiting /\ w \in R(o))
      BY <2>2, <2>5, <2>8
    <3>2. Fits(H(o) \ {w}, R(o) \ {w}, k, crashes, overruns)
      BY <1>0, <2>1, <2>5, <2>8, <3>1, FitsRecord
    <3> QED BY <2>3, <2>8, <3>2
  <2> QED BY <1>0, <1>1, <2>0, <2>3, <2>8, <2>9
<1>17. ASSUME NEW w \in Worker, Poll(w) PROVE Counted(p)'
  <2> DEFINE s == worker[w]
             t == [s EXCEPT !.pc = "claim", !.candidates = Due]
  <2>1. /\ worker'[w] = t /\ \A v \in Worker \ {w} : worker'[v] = worker[v]
        /\ job' = job /\ crashes' = crashes /\ overruns' = overruns
    BY <1>17 DEF Poll, Types
  <2>2. s \in WorkerState
    BY DEF Types
  <2>3. t.batch = s.batch /\ t.at = s.at
    <3> HIDE DEF s
    <3> QED BY ONLY <2>2 DEF WorkerState
  <2> HIDE DEF t
  <2> QED BY <1>3, <1>5, <2>1, <2>3
<1>18. ASSUME NEW w \in Worker, LookUp(w) \/ ReadPrior(w) \/ Post(w)
       PROVE  Counted(p)'
  <2>1. job' = job /\ crashes' = crashes /\ overruns' = overruns
        /\ \E step, out : Goto(w, step, out)
    BY <1>18 DEF LookUp, ReadPrior, Post
  <2> QED BY <1>3, <1>5, <2>1, GotoEffect
<1>19. ASSUME NEW o \in Order,
              CompleteOrder(o) \/ ServerCrash(o) \/ Webhook(o)
       PROVE  Counted(p)'
  <2>1. job' = job /\ worker' = worker /\ overruns' = overruns
        /\ (crashes' = crashes \/ crashes' = crashes + 1)
    BY <1>19 DEF CompleteOrder, ServerCrash, Webhook
  <2> QED BY <1>3, <1>5, <2>1
<1>20. ASSUME NEW o \in Order, SettleByGateway(o) \/ EnqueueSettled(o)
       PROVE  Counted(p)'
  BY <1>7, <1>20 DEF SettleByGateway, EnqueueSettled
<1>21. CASE UNCHANGED vars
  BY <1>3, <1>5, <1>21 DEF vars
<1> QED BY <1>9, <1>10, <1>11, <1>12, <1>14, <1>15, <1>16, <1>17, <1>18, <1>19, <1>20,
           <1>21 DEF Next, WorkerStep

LEMMA CountedInit == Init => ClaimsCounted
<1> SUFFICES ASSUME Init PROVE ClaimsCounted
  OBVIOUS
<1>1. \A w \in Worker : worker[w] = Idle
  BY DEF Init
<1>2. \A o \in Order : Holders(worker, o) = {} /\ Retriers(worker, o) = {}
  BY <1>1 DEF Holders, Retriers, Idle
<1>3. IsFiniteSet({}) /\ Cardinality({}) = 0
  BY FS_EmptySet
<1>4. ~Taken({}, NoJob) /\ ~Open({}, NoJob) /\ Used(NoJob) = MaxAttempts - 1
  BY IssuanceAssumption DEF Taken, Open, Used, NoJob, Waiting
<1>5. Fits({}, {}, NoJob, 0, 0)
  BY <1>3, <1>4, IssuanceAssumption DEF Fits
<1>6. \A o \in Order : Counted(o)
  BY <1>2, <1>5 DEF Counted, Init
<1> QED BY <1>1, <1>6, IdleSound DEF ClaimsCounted, Apart

\* maxAttempts: a job is claimed beyond the attempts allowed once for each
\* crash and each overrun at most, for any number of workers and orders, and
\* however late results, manual retries and leases that end interleave.
THEOREM AttemptsWithinFaults == Spec => []ClaimsBounded
<1>1. Types /\ ClaimsCounted => ClaimsBounded
  <2> SUFFICES ASSUME Types, ClaimsCounted, NEW o \in Order
               PROVE  job[o].attempts <= MaxAttempts + crashes + overruns
    BY DEF ClaimsBounded
  <2> DEFINE R == Retriers(worker, o)
  <2>1. Fits(Holders(worker, o), R, job[o], crashes, overruns) /\ job[o] \in Job
        /\ crashes \in Nat /\ overruns \in Nat
    BY DEF ClaimsCounted, Counted, Types
  <2>2. Cardinality(R) \in Nat
    BY <2>1, FitsSizes DEF Fits
  <2> HIDE DEF R
  <2>3. Used(job[o]) \in Nat /\ job[o].attempts \in Nat /\ job[o].attempts <= Used(job[o])
    BY <2>1, UsedType
  <2> QED BY <2>1, <2>2, <2>3, IssuanceAssumption DEF Fits
<1>2. Types /\ ClaimsCounted /\ [Next]_vars => ClaimsCounted'
  BY ApartInductive, CountedInductive DEF ClaimsCounted
<1>3. Spec => []Types
  BY Inductive, PTL
<1> QED BY <1>1, <1>2, <1>3, CountedInit, PTL DEF Spec
----------------------------------------------------------------------------
(* Orders that go without a job.                                           *)

\* Orders whose settlement is over and that have neither a job nor an invoice.
Missing == {o \in paid \ serving : job[o] = NoJob /\ o \notin invoice}

\* What PaidHasJob leaves of the promise: an order is without its job only
\* when its cash settlement was cut off, once for each stop of the server.
MissedByCrashesOnly ==
  Missing \subseteq cash /\ Cardinality(Missing) <= crashes

SettlementSound == serving \subseteq paid \cap cash /\ MissedByCrashesOnly

\* A job, once written, stays; so does an invoice.
KeepsJobs == /\ \A o \in Order : job[o] # NoJob => job'[o] # NoJob
             /\ invoice \subseteq invoice'

LEMMA WorkersKeepJobs ==
  ASSUME Types, NEW w \in Worker, WorkerStep(w)
  PROVE  KeepsJobs
<1>1. CASE TryClaim(w)
  <2>1. UNCHANGED job \/ \E o \in Order : job' = [job EXCEPT ![o] =
           [@ EXCEPT !.status = "PROCESSING", !.attempts = NextAttempt(o), !.due = FALSE]]
    BY <1>1 DEF TryClaim, Types, WorkerState
  <2>2. ASSUME NEW o \in Order,
               job' = [job EXCEPT ![o] = [@ EXCEPT !.status = "PROCESSING",
                         !.attempts = NextAttempt(o), !.due = FALSE]]
        PROVE  \A p \in Order : job[p] # NoJob => job'[p] # NoJob
    <3>1. job \in [Order -> Job] /\ job[o] \in Job
      BY DEF Types
    <3>2. job'[o].status = "PROCESSING"
      BY <2>2, <3>1 DEF Job
    <3>3. job'[o] # NoJob
      BY <3>2 DEF NoJob
    <3>4. \A p \in Order \ {o} : job'[p] = job[p]
      BY <2>2, <3>1
    <3> QED BY <3>3, <3>4
  <2>3. invoice' = invoice
    BY <1>1 DEF TryClaim
  <2> QED BY <2>1, <2>2, <2>3 DEF KeepsJobs
<1>2. CASE Record(w)
  <2>1. PICK c \in worker[w].at :
          job' = [job EXCEPT ![c.order] =
                    [@ EXCEPT !.status = Status(worker[w].outcome, c.attempt),
                              !.due = FALSE,
                              !.reconciling = LeavesReconciling(worker[w].outcome)]]
    BY <1>2 DEF Record
  <2>2. job \in [Order -> Job] /\ c.order \in Order
    BY DEF Types, WorkerState, Claims
  <2>3. Status(worker[w].outcome, c.attempt) # "NONE"
    BY DEF Status
  <2>4. job'[c.order].status # "NONE"
    BY <2>1, <2>2, <2>3 DEF Job
  <2>5. job'[c.order] # NoJob
    BY <2>4 DEF NoJob
  <2>6. \A p \in Order \ {c.order} : job'[p] = job[p]
    BY <2>1, <2>2
  <2>7. invoice' = invoice
    BY <1>2 DEF Record
  <2> QED BY <2>5, <2>6, <2>7 DEF KeepsJobs
<1>3. CASE Poll(w) \/ NextJob(w) \/ LookUp(w) \/ ReadPrior(w) \/ Post(w)
  BY <1>3 DEF Poll, NextJob, LookUp, ReadPrior, Post, KeepsJobs
<1> QED BY <1>1, <1>2, <1>3 DEF WorkerStep

\* Every step but a stop of the server: nothing is missed that was not before.
LEMMA NothingMissed ==
  ASSUME Types, SettlementSound, [Next]_vars,
         \A o \in Order : ~ServerCrash(o)
  PROVE  /\ serving' \subseteq paid' \cap cash'
         /\ cash' = cash
         /\ Missing' \subseteq Missing
         /\ crashes <= crashes'
<1>1. /\ job \in [Order -> Job] /\ crashes \in Nat
      /\ paid \subseteq Order /\ serving \subseteq paid \cap cash
  BY DEF Types, SettlementSound
<1>2. ASSUME KeepsJobs, UNCHANGED <<cash, paid, serving>>
      PROVE  serving' \subseteq paid' \cap cash' /\ Missing' \subseteq Missing
  BY <1>1, <1>2 DEF KeepsJobs, Missing
<1>3. ASSUME NEW o \in Order, TimePasses(o) PROVE KeepsJobs
  <2>1. job' = [job EXCEPT ![o].due = TRUE] /\ invoice' = invoice
    BY <1>3 DEF TimePasses
  <2>2. job'[o].due = TRUE
    BY <1>1, <2>1 DEF Job
  <2>3. job'[o] # NoJob
    BY <2>2 DEF NoJob
  <2> QED BY <1>1, <2>1, <2>3 DEF KeepsJobs
<1>4. ASSUME NEW o \in Order, BecomeDue(o) \/ LeaseOverrun(o)
      PROVE  KeepsJobs /\ UNCHANGED <<cash, paid, serving, crashes>>
  BY <1>3, <1>4 DEF BecomeDue, LeaseOverrun, TimePasses
<1>5. ASSUME NEW o \in Order, Webhook(o)
      PROVE  KeepsJobs /\ UNCHANGED <<cash, paid, serving, crashes>>
  BY <1>5 DEF Webhook, KeepsJobs
<1>6. NewJob # NoJob
  BY DEF NewJob, NoJob
<1>7. ASSUME NEW o \in Order, AdminRetry(o)
      PROVE  KeepsJobs /\ UNCHANGED <<cash, paid, serving, crashes>>
  BY <1>1, <1>6, <1>7 DEF AdminRetry, KeepsJobs
<1>8. ASSUME NEW w \in Worker, WorkerStep(w)
      PROVE  KeepsJobs /\ UNCHANGED <<cash, paid, serving, crashes>>
  <2>1. UNCHANGED <<cash, paid, serving, crashes>>
    BY <1>8 DEF WorkerStep, Poll, TryClaim, NextJob, LookUp, ReadPrior, Post, Record
  <2> QED BY <1>8, <2>1, WorkersKeepJobs
<1>9. ASSUME NEW w \in Worker, WorkerCrash(w)
      PROVE  KeepsJobs /\ UNCHANGED <<cash, paid, serving>> /\ crashes <= crashes'
  BY <1>1, <1>9 DEF WorkerCrash, KeepsJobs
<1>10. ASSUME NEW o \in Order, Enqueue(o)
       PROVE  /\ \A p \in Order : job[p] # NoJob => job'[p] # NoJob
              /\ job'[o] # NoJob \/ o \in invoice
  BY <1>1, <1>6, <1>10 DEF Enqueue
<1>11. CASE \E o \in Order : SettleByGateway(o)
  <2>1. PICK o \in Order : SettleByGateway(o)
    BY <1>11
  <2>2. /\ paid' = paid \cup {o} /\ Enqueue(o)
        /\ UNCHANGED <<cash, serving, invoice, crashes>>
    BY <2>1 DEF SettleByGateway
  <2> QED BY <1>1, <1>10, <2>2 DEF Missing
<1>12. CASE \E o \in Order : CompleteOrder(o)
  <2>1. PICK o \in Order : CompleteOrder(o)
    BY <1>12
  <2>2. /\ o \in cash /\ paid' = paid \cup {o} /\ serving' = serving \cup {o}
        /\ UNCHANGED <<cash, job, invoice, crashes>>
    BY <2>1 DEF CompleteOrder
  <2> QED BY <1>1, <2>2 DEF Missing
<1>13. CASE \E o \in Order : EnqueueSettled(o)
  <2>1. PICK o \in Order : EnqueueSettled(o)
    BY <1>13
  <2>2. /\ serving' = serving \ {o} /\ Enqueue(o)
        /\ UNCHANGED <<cash, paid, invoice, crashes>>
    BY <2>1 DEF EnqueueSettled
  <2> QED BY <1>1, <1>10, <2>2 DEF Missing
<1>14. CASE UNCHANGED vars
  BY <1>1, <1>14 DEF vars, Missing
<1> QED BY <1>1, <1>2, <1>4, <1>5, <1>7, <1>8, <1>9, <1>11, <1>12, <1>13, <1>14 DEF Next

LEMMA SettlementInductive ==
  ASSUME Types, Types', SettlementSound, [Next]_vars
  PROVE  SettlementSound'
<1>1. /\ IsFiniteSet(Missing) /\ IsFiniteSet(Missing')
      /\ crashes \in Nat /\ crashes' \in Nat
  <2>1. Missing \subseteq Order /\ Missing' \subseteq Order /\ IsFiniteSet(Order)
    BY IssuanceAssumption DEF Types, Missing
  <2> QED BY <2>1, FS_Subset DEF Types
<1>2. Cardinality(Missing) \in Nat /\ Cardinality(Missing') \in Nat
  BY <1>1, FS_CardinalityType
<1>3. CASE \A o \in Order : ~ServerCrash(o)
  <2>1. /\ serving' \subseteq paid' \cap cash' /\ cash' = cash
        /\ Missing' \subseteq Missing /\ crashes <= crashes'
    BY <1>3, NothingMissed
  <2>2. Cardinality(Missing') <= Cardinality(Missing)
    BY <1>1, <2>1, FS_Subset
  <2> QED BY <1>1, <1>2, <2>1, <2>2 DEF SettlementSound, MissedByCrashesOnly
<1>4. CASE \E o \in Order : ServerCrash(o)
  <2>1. PICK o \in Order : ServerCrash(o)
    BY <1>4
  <2>2. /\ o \in serving /\ serving' = serving \ {o} /\ crashes' = crashes + 1
        /\ UNCHANGED <<cash, paid, job, invoice>>
    BY <2>1 DEF ServerCrash
  <2>3. Missing' \subseteq Missing \cup {o} /\ o \in cash
    BY <2>2 DEF Missing, SettlementSound
  <2>4. /\ IsFiniteSet(Missing \cup {o})
        /\ Cardinality(Missing \cup {o}) \in {Cardinality(Missing), Cardinality(Missing) + 1}
    BY <1>1, FS_AddElement
  <2>5. Cardinality(Missing') <= Cardinality(Missing \cup {o})
    BY <2>3, <2>4, FS_Subset
  <2>6. Cardinality(Missing') <= crashes'
    BY <1>1, <1>2, <2>2, <2>4, <2>5 DEF SettlementSound, MissedByCrashesOnly
  <2> QED BY <2>2, <2>3, <2>6 DEF SettlementSound, MissedByCrashesOnly
<1> QED BY <1>3, <1>4

\* enqueueForSettledOrder: of PaidHasJob, which a stop of the server breaks,
\* this is what is left.  Each order without its job took a stop of its own
\* between the write of paid and the enqueue; none was paid by a gateway.
THEOREM JobsMissedByCrashes == Spec => []MissedByCrashesOnly
<1>1. Init => SettlementSound
  <2> SUFFICES ASSUME Init PROVE SettlementSound
    OBVIOUS
  <2>1. Missing = {} /\ serving = {} /\ crashes = 0
    BY DEF Init, Missing
  <2> QED BY <2>1, FS_EmptySet DEF SettlementSound, MissedByCrashesOnly
<1>2. Types /\ SettlementSound /\ [Next]_vars => SettlementSound'
  BY TypesInductive, SettlementInductive
<1>3. SettlementSound => MissedByCrashesOnly
  BY DEF SettlementSound
<1>4. Spec => []Types
  BY Inductive, PTL
<1> QED BY <1>1, <1>2, <1>3, <1>4, PTL DEF Spec
=============================================================================
