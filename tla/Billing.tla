------------------------------ MODULE Billing ------------------------------
(***************************************************************************)
(* How a payment of a tenant becomes a subscription                        *)
(* (src/api/src/common/billing, common/plans, queue, super-admin).         *)
(*                                                                         *)
(* The provider delivers events of a payment, possibly again, to the       *)
(* webhook controller, which queues a job per event; a worker runs the job *)
(* up to three times.  The browser asks to verify the same payment, and a  *)
(* super admin may set a subscription by hand.  All three end in a         *)
(* transaction that locks or creates the tenant's subscription, numbers a  *)
(* platform invoice by counting, and inserts it with its payment.  The     *)
(* steps of a transaction are its statements that read what others write;  *)
(* its writes become visible in the last one (READ COMMITTED).             *)
(*                                                                         *)
(* The queue is BullMQ, external: a job added under an identity that       *)
(* exists is dropped, a completed job is removed and a failed one kept;    *)
(* that a super admin runs a failed one again by hand is left out.  An     *)
(* order has one payment, which stands for both.                           *)
(*                                                                         *)
(* The number of an invoice is a prefix, a year and a count, and only the  *)
(* whole is unique.  A series is a prefix and a year: webhooks take the    *)
(* year of the event, the browser's verification the current one, and both *)
(* the default prefix; the super admin takes the configured prefix.  The   *)
(* payment's number has a prefix of its own and the year of its invoice.   *)
(***************************************************************************)
EXTENDS Integers, FiniteSets

CONSTANTS
  Tenants, Payments, Events,
  TenantOf,   \* TenantOf[p]: who pays p
  PaymentOf,  \* PaymentOf[e]: the payment event e reports as successful
  Named,      \* the events whose notes name the tenant
  Series,     \* prefixes and years of invoice numbers
  SeriesOf,   \* SeriesOf[by]: the series an invoice that is due to by may be in
  Workers,    \* the processes that run the queue's jobs
  Clients,    \* requests of browsers and of the super admin
  Deletable,  \* the tenants that may be deleted
  Faults,     \* what may go wrong
  MaxManual,  \* bound on the subscriptions set by hand
  None        \* no tenant, no payment, nobody

ASSUME BillingAssumption ==
  /\ TenantOf \in [Payments -> Tenants]
  /\ PaymentOf \in [Events -> Payments]
  /\ Named \subseteq Events
  /\ Workers \cap Clients = {}
  /\ Deletable \subseteq Tenants
  /\ Faults \subseteq {"rollback", "crash", "slow"}
  /\ MaxManual \in Nat
  /\ {"verify", "manual"} \cap Events = {}
  /\ SeriesOf \in [Events \cup {"verify", "manual"} -> SUBSET Series]
  /\ None \notin Tenants \cup Payments \cup Events \cup Workers \cup Clients

VARIABLES
  done,    \* the events with a PlatformWebhookEvent row that says PROCESSED
  acked,   \* the events some delivery of which was answered 200 (history)
  intake,  \* the deliveries the controller is at
  job,     \* job[e]: the job of e in the queue
  proc,    \* proc[q]: the job or request q is at
  sold,    \* PlatformInvoice rows, with their PlatformPayment
  subs,    \* PlatformSubscription rows
  alive    \* the tenants that exist

vars == <<done, acked, intake, job, proc, sold, subs, alive>>

Procs == Workers \cup Clients

Attempts == 3        \* WEBHOOK_DEFAULT_JOB_OPTS.attempts
MaxStalledCount == 1 \* BullMQ's default

Deliveries == [event : Events, tenant : Tenants \cup {None}]

Jobs == [state : {"none", "waiting", "active", "failed"}, tenant : Tenants \cup {None},
         tries : 0 .. Attempts, stalls : 0 .. MaxStalledCount, holder : Workers \cup {None}]

NoJob == [state |-> "none", tenant |-> None, tries |-> 0, stalls |-> 0, holder |-> None]

Sources == Events \cup {"verify", "manual"}

\* inv and pay are counts; pay is 0 for an invoice without a payment.
Sales == [series : Series, inv : Nat, pay : Nat, tenant : Tenants,
          of : Payments \cup {None}, by : Sources]

\* order and paid are providerOrderId and providerSubscriptionId.
Subscriptions == [tenant : Tenants, id : Nat,
                  order : Payments \cup {None}, paid : Payments \cup {None}]

Idle == [at |-> "idle"]

Runs ==
  {Idle} \cup [at : {"check"}, by : Events, of : Payments, tenant : Tenants \cup {None}]
         \cup [at : {"begin"}, by : Sources, of : Payments \cup {None},
               tenant : Tenants \cup {None}]
         \cup [at : {"count"}, by : Sources, of : Payments \cup {None},
               tenant : Tenants, row : Nat]
         \cup [at : {"insert"}, by : Sources, of : Payments \cup {None},
               tenant : Tenants, row : Nat, series : Series, inv : Nat]
         \cup [at : {"commit"}, by : Sources, of : Payments \cup {None},
               tenant : Tenants, row : Nat, series : Series, inv : Nat, pay : Nat]
         \cup [at : {"report"}, by : Events]

Init ==
  /\ done = {}
  /\ acked = {}
  /\ intake = {}
  /\ job = [e \in Events |-> NoJob]
  /\ proc = [q \in Procs |-> Idle]
  /\ sold = {}
  /\ subs = {}
  /\ alive = Tenants

At(q, place) == proc[q].at = place

Become(q, run) == proc' = [proc EXCEPT ![q] = run]

\* The tenant whose subscription refers to the order or payment of e, if any.
Matching(e) ==
  LET refers == {s \in subs : PaymentOf[e] \in {s.order, s.paid}}
  IN IF refers = {} THEN None ELSE (CHOOSE s \in refers : TRUE).tenant

-----------------------------------------------------------------------------
\* BillingWebhookController.handleWebhook

Receive(e) ==
  /\ IF e \in done
     THEN acked' = acked \cup {e} /\ UNCHANGED intake
     ELSE /\ intake' = intake \cup
               {[event |-> e, tenant |-> IF e \in Named THEN TenantOf[PaymentOf[e]]
                                         ELSE Matching(e)]}
          /\ UNCHANGED acked
  /\ UNCHANGED <<done, job, proc, sold, subs, alive>>

\* enqueueBillingWebhook: job identity billing-webhook:{eventId}
Enqueue(x) ==
  /\ intake' = intake \ {x}
  /\ acked' = acked \cup {x.event}
  /\ job' = [job EXCEPT ![x.event] =
               IF @.state = "none"
               THEN [NoJob EXCEPT !.state = "waiting", !.tenant = x.tenant]
               ELSE @]
  /\ UNCHANGED <<done, proc, sold, subs, alive>>

\* The queue does not take it: 503, or 500.
Refuse(x) ==
  /\ intake' = intake \ {x}
  /\ UNCHANGED <<done, acked, job, proc, sold, subs, alive>>

-----------------------------------------------------------------------------
\* The queue's worker and BillingWebhookService.processBillingWebhookEvent

\* mutant: jobs have identities of their own, the event may run twice at once
TakeAgain(w, e) ==
  /\ proc[w] = Idle
  /\ job[e].state \in {"waiting", "active"}
  /\ job' = [job EXCEPT ![e].state = "active", ![e].holder = w]
  /\ Become(w, [at |-> "check", by |-> e, of |-> PaymentOf[e], tenant |-> job[e].tenant])
  /\ UNCHANGED <<done, acked, intake, sold, subs, alive>>

Take(w, e) ==
  /\ proc[w] = Idle
  /\ job[e].state = "waiting"
  /\ job' = [job EXCEPT ![e].state = "active", ![e].holder = w]
  /\ Become(w, [at |-> "check", by |-> e, of |-> PaymentOf[e], tenant |-> job[e].tenant])
  /\ UNCHANGED <<done, acked, intake, sold, subs, alive>>

\* The job of the run of w is over; a worker that lost it has no say in it.
Complete(w, e) ==
  job' = IF job[e].holder = w THEN [job EXCEPT ![e] = NoJob] ELSE job

\* The worker tells the queue that the job is done.
Report(w) ==
  /\ At(w, "report")
  /\ Complete(w, proc[w].by)
  /\ Become(w, Idle)
  /\ UNCHANGED <<done, acked, intake, sold, subs, alive>>

\* ALREADY_PROCESSED
Skip(w) ==
  /\ At(w, "check")
  /\ proc[w].by \in done
  /\ Become(w, [at |-> "report", by |-> proc[w].by])
  /\ UNCHANGED <<done, acked, intake, job, sold, subs, alive>>

Check(w) ==
  /\ At(w, "check")
  /\ proc[w].by \notin done
  /\ Become(w, [proc[w] EXCEPT !.at = "begin",
                               !.tenant = IF @ # None THEN @ ELSE Matching(proc[w].by)])
  /\ UNCHANGED <<done, acked, intake, job, sold, subs, alive>>

InTransaction(q) == proc[q].at \in {"count", "insert", "commit"}

\* The upsert of the event's row makes a second transaction of it wait.
EventFree(q) == \A r \in Procs \ {q} : InTransaction(r) => proc[r].by # proc[q].by

\* Nobody to activate: only the event is recorded.
Mark(w) ==
  /\ At(w, "begin")
  /\ proc[w].by \in Events
  /\ proc[w].tenant \notin alive
  /\ EventFree(w)
  /\ done' = done \cup {proc[w].by}
  /\ Become(w, [at |-> "report", by |-> proc[w].by])
  /\ UNCHANGED <<acked, intake, job, sold, subs, alive>>

-----------------------------------------------------------------------------
\* verifyAndActivatePayment and createOrUpdateSubscription up to their writes

\* A payment that is recorded already is answered from the records.
Verify(c, p) ==
  /\ proc[c] = Idle
  /\ \A x \in sold : x.of # p
  /\ TenantOf[p] \in alive
  /\ Become(c, [at |-> "begin", by |-> "verify", of |-> p, tenant |-> TenantOf[p]])
  /\ UNCHANGED <<done, acked, intake, job, sold, subs, alive>>

SetByHand(c, t) ==
  /\ proc[c] = Idle
  /\ t \in alive
  /\ Cardinality({x \in sold : x.by = "manual"}) < MaxManual
  /\ Become(c, [at |-> "begin", by |-> "manual", of |-> None, tenant |-> t])
  /\ UNCHANGED <<done, acked, intake, job, sold, subs, alive>>

-----------------------------------------------------------------------------
\* The transaction the three have in common

RowsOf(t) == {s \in subs : s.tenant = t}

\* Another transaction has updated the subscription s.
RowLocked(s) ==
  \E r \in Procs : InTransaction(r) /\ proc[r].tenant = s.tenant /\ proc[r].row = s.id

\* The row to update, or 0 for one to create.
Targets(t) == IF RowsOf(t) = {} THEN {0} ELSE {s.id : s \in {x \in RowsOf(t) : ~RowLocked(x)}}

\* mutant: the event's row is written in a transaction of its own
BeginMarked(q) ==
  /\ At(q, "begin")
  /\ proc[q].tenant \in alive
  /\ proc[q].by \in Events => EventFree(q)
  /\ done' = done \cup ({proc[q].by} \cap Events)
  /\ \E row \in Targets(proc[q].tenant) :
       Become(q, [at |-> "count", by |-> proc[q].by, of |-> proc[q].of,
                  tenant |-> proc[q].tenant, row |-> row])
  /\ UNCHANGED <<acked, intake, job, sold, subs, alive>>

\* The subscription is found and updated or created.
Begin(q) ==
  /\ At(q, "begin")
  /\ proc[q].tenant \in alive
  /\ proc[q].by \in Events => EventFree(q)
  /\ \E row \in Targets(proc[q].tenant) :
       Become(q, [at |-> "count", by |-> proc[q].by, of |-> proc[q].of,
                  tenant |-> proc[q].tenant, row |-> row])
  /\ UNCHANGED <<done, acked, intake, job, sold, subs, alive>>

\* platformInvoice.count() + 1, behind a prefix and a year
Count(q) ==
  /\ At(q, "count")
  /\ \E s \in SeriesOf[proc[q].by] :
       Become(q, [at |-> "insert", by |-> proc[q].by, of |-> proc[q].of,
                  tenant |-> proc[q].tenant, row |-> proc[q].row,
                  series |-> s, inv |-> Cardinality(sold) + 1])
  /\ UNCHANGED <<done, acked, intake, job, sold, subs, alive>>

Paid(R) == {x \in R : x.pay # 0}

\* The unique indexes of invoiceNumber and paymentNumber.
InvoiceTaken(run) == \E x \in sold : x.series = run.series /\ x.inv = run.inv

PaymentTaken(run) == \E x \in Paid(sold) : x.series = run.series /\ x.pay = run.pay

Numbering(run) ==
  [at |-> "commit", by |-> run.by, of |-> run.of, tenant |-> run.tenant, row |-> run.row,
   series |-> run.series, inv |-> run.inv,
   pay |-> IF run.of = None THEN 0 ELSE Cardinality(Paid(sold)) + 1]

\* mutant: the number of an insert that has not committed does not hold others up
InsertEager(q) ==
  /\ At(q, "insert")
  /\ ~InvoiceTaken(proc[q])
  /\ Become(q, Numbering(proc[q]))
  /\ UNCHANGED <<done, acked, intake, job, sold, subs, alive>>

\* The invoice is inserted, which waits for another insert of its number to
\* commit or roll back; then the payments are counted.
Insert(q) ==
  /\ At(q, "insert")
  /\ ~InvoiceTaken(proc[q])
  /\ \A r \in Procs :
       At(r, "commit") => proc[r].series # proc[q].series \/ proc[r].inv # proc[q].inv
  /\ Become(q, Numbering(proc[q]))
  /\ UNCHANGED <<done, acked, intake, job, sold, subs, alive>>

\* What the transaction makes of the tenant's subscriptions.
Subscribed(run) ==
  LET touch(s) == [s EXCEPT !.order = IF run.by = "verify" THEN run.of ELSE @,
                            !.paid = IF run.by \in Events THEN run.of ELSE @]
      new == [tenant |-> run.tenant, id |-> Cardinality(RowsOf(run.tenant)) + 1,
              order |-> None, paid |-> None]
      old == {s \in RowsOf(run.tenant) : s.id = run.row}
  IN (subs \ old) \cup {touch(s) : s \in IF run.row = 0 THEN {new} ELSE old}

\* The invoice and its payment.
Sale(run) == [series |-> run.series, inv |-> run.inv, pay |-> run.pay, tenant |-> run.tenant,
              of |-> run.of, by |-> run.by]

Commit(q) ==
  LET run == proc[q]
  IN /\ At(q, "commit")
     /\ run.pay # 0 => ~PaymentTaken(run)
     /\ sold' = sold \cup {Sale(run)}
     /\ subs' = Subscribed(run)
     /\ done' = done \cup ({run.by} \cap Events)
     /\ Become(q, IF run.by \in Events THEN [at |-> "report", by |-> run.by] ELSE Idle)
     /\ UNCHANGED <<acked, intake, job, alive>>

\* The super admin sets a plan that costs nothing: there is no invoice.
Grant(q) ==
  /\ At(q, "count")
  /\ proc[q].by = "manual"
  /\ subs' = Subscribed(proc[q])
  /\ Become(q, Idle)
  /\ UNCHANGED <<done, acked, intake, job, sold, alive>>

-----------------------------------------------------------------------------
\* Failures

\* A number is taken, the tenant is gone, or the database rolls back or cannot be
\* reached.
Fails(q) ==
  \/ At(q, "begin") /\ proc[q].by \notin Events /\ proc[q].tenant \notin alive
  \/ At(q, "insert") /\ InvoiceTaken(proc[q])
  \/ At(q, "commit") /\ proc[q].pay # 0 /\ PaymentTaken(proc[q])
  \/ ~At(q, "idle") /\ ~At(q, "report") /\ "rollback" \in Faults

\* mutant: the attempts are not counted
AgainUncounted(j) == [j EXCEPT !.holder = None, !.state = "waiting"]

\* mutant: the job that waits again still belongs to the worker
AgainHeld(j) ==
  [j EXCEPT !.tries = @ + 1, !.state = IF j.tries + 1 < Attempts THEN "waiting" ELSE "failed"]

\* A job that failed waits again until its attempts are used up.
Again(j) ==
  [j EXCEPT !.tries = @ + 1,
            !.holder = None,
            !.state = IF j.tries + 1 < Attempts THEN "waiting" ELSE "failed"]

\* The processor rethrows.
Retry(w, e) ==
  job' = IF job[e].holder = w THEN [job EXCEPT ![e] = Again(@)] ELSE job

Rollback(q) ==
  /\ Fails(q)
  /\ IF proc[q].by \in Events THEN Retry(q, proc[q].by) ELSE UNCHANGED job
  /\ Become(q, Idle)
  /\ UNCHANGED <<done, acked, intake, sold, subs, alive>>

Crash(w) ==
  /\ "crash" \in Faults
  /\ proc[w] # Idle
  /\ Become(w, Idle)
  /\ UNCHANGED <<done, acked, intake, job, sold, subs, alive>>

Running(w, e) == proc[w] # Idle /\ proc[w].by = e

Deserted(e) == \A w \in Workers : w = job[e].holder => ~Running(w, e)

\* The lock of an active job runs out: its worker is gone, or too slow.
Stall(e) ==
  /\ job[e].state = "active"
  /\ Deserted(e) \/ "slow" \in Faults
  /\ job' = [job EXCEPT ![e].holder = None,
                        ![e].stalls = IF @ < MaxStalledCount THEN @ + 1 ELSE @,
                        ![e].state = IF job[e].stalls < MaxStalledCount THEN "waiting"
                                     ELSE "failed"]
  /\ UNCHANGED <<done, acked, intake, proc, sold, subs, alive>>

\* Deleting a tenant cascades to its billing; it waits for the transactions
\* that hold its rows.
DeleteTenant(t) ==
  /\ t \in alive \cap Deletable
  /\ \A r \in Procs : InTransaction(r) => proc[r].tenant # t
  /\ alive' = alive \ {t}
  /\ sold' = {x \in sold : x.tenant # t}
  /\ subs' = subs \ RowsOf(t)
  /\ UNCHANGED <<done, acked, intake, job, proc>>

-----------------------------------------------------------------------------
\* The next statement of q.
Progress(q) ==
  \/ q \in Workers /\ (Skip(q) \/ Check(q) \/ Mark(q) \/ Report(q))
  \/ Begin(q)
  \/ Count(q)
  \/ Insert(q)
  \/ Commit(q)
  \/ Grant(q)
  \/ Rollback(q)

Next ==
  \/ \E e \in Events : Receive(e) \/ Stall(e)
  \/ \E x \in intake : Enqueue(x) \/ Refuse(x)
  \/ \E w \in Workers : Crash(w) \/ \E e \in Events : Take(w, e)
  \/ \E c \in Clients : \/ \E p \in Payments : Verify(c, p)
                        \/ \E t \in Tenants : SetByHand(c, t)
  \/ \E q \in Procs : Progress(q)
  \/ \E t \in Tenants : DeleteTenant(t)

Spec == Init /\ [][Next]_vars

\* Waiting jobs are taken and stalled ones found.  A statement that waits for a
\* lock gets it: the database serves the waiting in turn.
Fairness ==
  /\ \A w \in Workers : SF_vars(\E e \in Events : Take(w, e))
  /\ \A e \in Events : WF_vars(Deserted(e) /\ Stall(e))
  /\ \A q \in Procs : SF_vars(Progress(q))

FairSpec == Spec /\ Fairness

-----------------------------------------------------------------------------
\* The rows, the queue and what every process holds have their types, and a
\* job has a holder exactly while it is active.
TypeOK ==
  /\ done \subseteq Events
  /\ acked \subseteq Events
  /\ intake \subseteq Deliveries
  /\ job \in [Events -> Jobs]
  /\ \A e \in Events : job[e].state = "active" <=> job[e].holder # None
  /\ proc \in [Procs -> Runs]
  /\ sold \subseteq Sales
  /\ subs \subseteq Subscriptions
  /\ alive \subseteq Tenants

\* An event activates its tenant at most once, however often it is delivered,
\* queued and retried.
EventAppliedOnce ==
  \A e \in Events : Cardinality({x \in sold : x.by = e}) <= 1

\* An event that names its tenant is PROCESSED exactly if its invoice exists:
\* neither is lost without the other when a step of the job fails.
ProcessedIffApplied ==
  \A e \in Named : TenantOf[PaymentOf[e]] \in alive =>
    (e \in done <=> \E x \in sold : x.by = e)

\* No number is of two invoices or of two payments.  Until a tenant is deleted no
\* invoice or payment has a number above how many there are; and while all of them
\* are in one series they are numbered 1, 2, ... without a gap, although each
\* number is a count that others may have taken too.
NumbersFollowCounts ==
  /\ \A x, y \in sold : x # y /\ x.series = y.series =>
                          x.inv # y.inv /\ (x.pay = y.pay => x.pay = 0)
  /\ alive = Tenants =>
       /\ \A x \in sold : x.inv <= Cardinality(sold) /\ x.pay <= Cardinality(Paid(sold))
       /\ (\A x, y \in sold : x.series = y.series) =>
            /\ {x.inv : x \in sold} = 1 .. Cardinality(sold)
            /\ {x.pay : x \in Paid(sold)} = 1 .. Cardinality(Paid(sold))

\* An event answered 200 is processed, or its job has failed and is kept for
\* inspection: it is not forgotten in the queue.
AcknowledgedSettles ==
  \A e \in Events : e \in acked ~> e \in done \/ job[e].state = "failed"

\* A payment activates its tenant at most once.
PaymentAppliedOnce ==
  \A p \in Payments : Cardinality({x \in sold : x.of = p}) <= 1

Atomic == INSTANCE Activation

\* If no worker goes on with a job whose lock it lost, billing implements
\* Activation: each sale happens as one step when its transaction commits, once for an
\* event, with numbers of its own and a subscription row that is still there.
Implements == Atomic!Spec
=============================================================================
