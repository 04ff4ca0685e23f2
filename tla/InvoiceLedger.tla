--------------------------- MODULE InvoiceLedger ---------------------------
(***************************************************************************)
(* The invoices of one tenant and the payments recorded against them       *)
(* (src/api/src/finance/services).                                         *)
(*                                                                         *)
(* Every operation of the services is one interactive database transaction *)
(* at the default isolation level, READ COMMITTED, opened by               *)
(* PrismaService.withTenantContext: it reads rows, decides, and writes     *)
(* later what it computed from the rows it read.  A transaction is several *)
(* steps here, one per statement whose position among the other requests'  *)
(* steps matters, and its writes become visible in its last step.  Row     *)
(* locks, the foreign key of Payment and the unique index on the payment   *)
(* number are guards of those last steps.                                  *)
(*                                                                         *)
(* Money is in the smallest currency unit.  A request the code rejects     *)
(* changes nothing and is not a step.                                      *)
(*                                                                         *)
(* Nothing in the code keeps two requests from addressing one invoice, and *)
(* what a transaction writes may rest on a row that another has changed    *)
(* since.  stale and raced are history: no guard reads them.  They say     *)
(* which requests were overtaken like that, and which invoices such a      *)
(* request has written, so that the properties can say what holds of all   *)
(* the others: of every invoice on which a check of the row's version      *)
(* would have refused nobody.                                              *)
(***************************************************************************)
EXTENDS PaymentSums

CONSTANTS
  Invoices,        \* identities of invoice rows
  Reqs,            \* the requests in flight: each runs one transaction at a time
  Ops,             \* the operations the requests perform
  Totals,          \* totals an invoice may be given
  PayAmounts,      \* amounts a payment may have
  ManualStatuses,  \* statuses a user may set by hand
  MaxPayments      \* bound on the payments ever recorded

AllOps == {"create", "record", "update", "status", "send", "unpay", "drop"}

Statuses == {"DRAFT", "SENT", "VIEWED", "PARTIALLY_PAID", "PAID", "OVERDUE",
             "CANCELLED", "VOID", "REFUNDED"}

ASSUME LedgerAssumption ==
  /\ Ops \subseteq AllOps
  /\ Totals \subseteq Nat
  /\ PayAmounts \subseteq Nat \ {0}
  /\ ManualStatuses \subseteq Statuses
  /\ MaxPayments \in Nat

VARIABLES
  invoice,   \* invoice[i]: the row of i and the columns the operations use
  payments,  \* the Payment rows
  nextPay,   \* identity of the next Payment row
  req,       \* req[p]: what request p is doing and what it has read
  stale,     \* the requests whose invoice others changed since they read it
  raced      \* the invoices a stale request has written

vars == <<invoice, payments, nextPay, req, stale, raced>>

Max0(x) == IF x > 0 THEN x ELSE 0

Rows == [row : {"none", "live", "deleted"}, total : Nat, paid : Nat,
         balance : Nat, status : Statuses, sent : BOOLEAN]

Payments == [id : Nat, num : Nat, inv : Invoices, amt : Nat, ok : BOOLEAN]

Idle == [op |-> "idle"]

KeepTotal == -1    \* updateInvoice without items
KeepStatus == "KEEP"  \* updateInvoice without a status

Requests ==
  {Idle}
  \cup [op : {"count"}, inv : Invoices, amt : Nat, ok : BOOLEAN, snap : Rows]
  \cup [op : {"record"}, inv : Invoices, amt : Nat, ok : BOOLEAN, snap : Rows, num : Nat]
  \cup [op : {"update"}, inv : Invoices, snap : Rows, total : Nat \cup {KeepTotal},
        status : Statuses \cup {KeepStatus}]
  \cup [op : {"status"}, inv : Invoices, status : Statuses]
  \cup [op : {"send"}, inv : Invoices]
  \cup [op : {"unpay"}, inv : Invoices, pay : Nat, snap : Rows]
  \cup [op : {"resum"}, inv : Invoices, pay : Nat, snap : Rows, sum : Nat]
  \cup [op : {"drop"}, inv : Invoices]

Live(i) == invoice[i].row = "live"

Init ==
  /\ invoice = [i \in Invoices |-> [row |-> "none", total |-> 0, paid |-> 0,
                                    balance |-> 0, status |-> "DRAFT", sent |-> FALSE]]
  /\ payments = {}
  /\ nextPay = 1
  /\ req = [p \in Reqs |-> Idle]
  /\ stale = {}
  /\ raced = {}

May(p, op) ==
  /\ req[p] = Idle
  /\ op \in Ops

\* The requests that p overtakes by writing the row or a payment of i.
Overtaken(p, i) == {q \in Reqs \ {p} : req[q] # Idle /\ req[q].inv = i}

\* p commits what it writes of its invoice.
Commit(p) ==
  /\ req' = [req EXCEPT ![p] = Idle]
  /\ stale' = (stale \ {p}) \cup Overtaken(p, req[p].inv)
  /\ raced' = raced \cup {i \in Invoices : p \in stale /\ i = req[p].inv}

-----------------------------------------------------------------------------
\* createInvoice: one insert; nothing it read can have become stale.
CreateInvoice(p, i, total, status) ==
  /\ May(p, "create")
  /\ invoice[i].row = "none"
  /\ invoice' = [invoice EXCEPT ![i] = [row |-> "live", total |-> total, paid |-> 0,
                                        balance |-> total, status |-> status,
                                        sent |-> FALSE]]
  /\ UNCHANGED <<payments, nextPay, req, stale, raced>>

-----------------------------------------------------------------------------
\* recordPayment

OwedOnlyBalance(v) == v.balance  \* mutant: the fallback is lost

\* A recorded balance of zero is falsy: the difference is used instead.
Owed(v) == IF v.balance # 0 THEN v.balance ELSE v.total - v.paid

MayPay(v, amt) ==
  /\ v.status \notin {"CANCELLED", "VOID"}
  /\ amt <= Owed(v) + Tolerance

RecordRead(p, i, amt, ok) ==
  /\ May(p, "record")
  /\ Live(i)
  /\ MayPay(invoice[i], amt)
  /\ req' = [req EXCEPT ![p] = [op |-> "count", inv |-> i, amt |-> amt, ok |-> ok,
                                snap |-> invoice[i]]]
  /\ UNCHANGED <<invoice, payments, nextPay, stale, raced>>

\* allocatePaymentNumber counts the tenant's payments.
AllocatePaymentNumber(P) == Cardinality(P) + 1

RecordCount(p) ==
  /\ req[p].op = "count"
  /\ req' = [req EXCEPT ![p] =
               [op |-> "record", inv |-> req[p].inv, amt |-> req[p].amt,
                ok |-> req[p].ok, snap |-> req[p].snap,
                num |-> AllocatePaymentNumber(payments)]]
  /\ UNCHANGED <<invoice, payments, nextPay, stale, raced>>

\* What a successful payment writes, computed from the row read at the start.
Paid(v, snap, amt) ==
  LET newPaid == snap.paid + amt
      newBalance == Max0(snap.total - newPaid)
  IN [v EXCEPT !.paid = newPaid,
               !.balance = newBalance,
               !.status = IF newBalance <= 0 THEN "PAID" ELSE "PARTIALLY_PAID"]

NumberNeverTaken(n) == TRUE  \* mutant: no unique index

\* @@unique([tenantId, paymentNumber])
NumberFree(n) == \A x \in payments : x.num # n

\* mutant: a payment that is still pending counts as paid
RecordCommitPending(p) ==
  LET r == req[p]
  IN /\ r.op = "record"
     /\ Live(r.inv)
     /\ NumberFree(r.num)
     /\ nextPay <= MaxPayments
     /\ payments' = payments \cup {[id |-> nextPay, num |-> r.num, inv |-> r.inv,
                                    amt |-> r.amt, ok |-> r.ok]}
     /\ nextPay' = nextPay + 1
     /\ invoice' = [invoice EXCEPT ![r.inv] = Paid(@, r.snap, r.amt)]
     /\ Commit(p)

RecordCommit(p) ==
  LET r == req[p]
  IN /\ r.op = "record"
     /\ Live(r.inv)
     /\ NumberFree(r.num)
     /\ nextPay <= MaxPayments
     /\ payments' = payments \cup {[id |-> nextPay, num |-> r.num, inv |-> r.inv,
                                    amt |-> r.amt, ok |-> r.ok]}
     /\ nextPay' = nextPay + 1
     /\ invoice' = IF r.ok
                   THEN [invoice EXCEPT ![r.inv] = Paid(@, r.snap, r.amt)]
                   ELSE invoice
     /\ Commit(p)

-----------------------------------------------------------------------------
\* updateInvoice

\* mutant: a PAID invoice may be modified
UpdateReadPaid(p, i, total, status) ==
  /\ May(p, "update")
  /\ Live(i)
  /\ req' = [req EXCEPT ![p] = [op |-> "update", inv |-> i, snap |-> invoice[i],
                                total |-> total, status |-> status]]
  /\ UNCHANGED <<invoice, payments, nextPay, stale, raced>>

UpdateRead(p, i, total, status) ==
  /\ May(p, "update")
  /\ Live(i)
  /\ invoice[i].status # "PAID"
  /\ req' = [req EXCEPT ![p] = [op |-> "update", inv |-> i, snap |-> invoice[i],
                                total |-> total, status |-> status]]
  /\ UNCHANGED <<invoice, payments, nextPay, stale, raced>>

\* New items rewrite the total, the balance and also the paid amount read.
Retotalled(v, snap, total) ==
  IF total = KeepTotal
  THEN v
  ELSE [v EXCEPT !.total = total,
                 !.paid = snap.paid,
                 !.balance = Max0(total - snap.paid)]

Relabelled(v, status) ==
  IF status = KeepStatus THEN v ELSE [v EXCEPT !.status = status]

UpdateCommit(p) ==
  LET r == req[p]
  IN /\ r.op = "update"
     /\ Live(r.inv)
     /\ invoice' = [invoice EXCEPT ![r.inv] =
                      Relabelled(Retotalled(@, r.snap, r.total), r.status)]
     /\ Commit(p)
     /\ UNCHANGED <<payments, nextPay>>

-----------------------------------------------------------------------------
\* updateInvoiceStatus

StatusRead(p, i, status) ==
  /\ May(p, "status")
  /\ Live(i)
  /\ ~(invoice[i].status = "PAID" /\ status = "DRAFT")
  /\ req' = [req EXCEPT ![p] = [op |-> "status", inv |-> i, status |-> status]]
  /\ UNCHANGED <<invoice, payments, nextPay, stale, raced>>

StatusCommit(p) ==
  LET r == req[p]
  IN /\ r.op = "status"
     /\ Live(r.inv)
     /\ invoice' = [invoice EXCEPT ![r.inv].status = r.status]
     /\ Commit(p)
     /\ UNCHANGED <<payments, nextPay>>

-----------------------------------------------------------------------------
\* Sending the invoice, by the request or by the queue's worker: only a
\* DRAFT seen at the start is written, as SENT, whatever it is by then.

SendRead(p, i) ==
  /\ May(p, "send")
  /\ Live(i)
  /\ invoice[i].status = "DRAFT"
  /\ req' = [req EXCEPT ![p] = [op |-> "send", inv |-> i]]
  /\ UNCHANGED <<invoice, payments, nextPay, stale, raced>>

SendCommit(p) ==
  LET r == req[p]
  IN /\ r.op = "send"
     /\ Live(r.inv)
     /\ invoice' = [invoice EXCEPT ![r.inv].status = "SENT", ![r.inv].sent = TRUE]
     /\ Commit(p)
     /\ UNCHANGED <<payments, nextPay>>

-----------------------------------------------------------------------------
\* deletePayment

UnpayRead(p, x) ==
  /\ May(p, "unpay")
  /\ req' = [req EXCEPT ![p] = [op |-> "unpay", inv |-> x.inv, pay |-> x.id,
                                snap |-> invoice[x.inv]]]
  /\ UNCHANGED <<invoice, payments, nextPay, stale, raced>>

\* A payment whose deletion has not committed is locked by its deleter.
Locked(x) == \E q \in Reqs : req[q].op = "resum" /\ req[q].pay = x.id

\* mutant: the payments are summed before the row is deleted
UnpayResumEarly(p) ==
  LET r == req[p]
  IN /\ r.op = "unpay"
     /\ \E x \in payments : x.id = r.pay /\ ~Locked(x)
     /\ req' = [req EXCEPT ![p] =
                  [op |-> "resum", inv |-> r.inv, pay |-> r.pay, snap |-> r.snap,
                   sum |-> Sum(PaymentsOf(r.inv, payments))]]
     /\ UNCHANGED <<invoice, payments, nextPay, stale, raced>>

\* The row is deleted and the remaining payments are summed: others still see
\* the row, this transaction sees every payment committed by now.
UnpayResum(p) ==
  LET r == req[p]
  IN /\ r.op = "unpay"
     /\ \E x \in payments : x.id = r.pay /\ ~Locked(x)
     /\ req' = [req EXCEPT ![p] =
                  [op |-> "resum", inv |-> r.inv, pay |-> r.pay, snap |-> r.snap,
                   sum |-> Sum({y \in PaymentsOf(r.inv, payments) : y.id # r.pay})]]
     /\ UNCHANGED <<invoice, payments, nextPay, stale, raced>>

\* mutant: an overpaid invoice gets a negative balance
UnpaidUnclamped(v, snap, sum) ==
  [v EXCEPT !.paid = sum, !.balance = snap.total - sum, !.status = "SENT"]

Unpaid(v, snap, sum) ==
  [v EXCEPT !.paid = sum,
            !.balance = Max0(snap.total - sum),
            !.status = IF sum >= snap.total /\ snap.total > 0 THEN "PAID"
                       ELSE IF sum > 0 THEN "PARTIALLY_PAID"
                       ELSE IF snap.sent THEN "SENT" ELSE "DRAFT"]

UnpayCommit(p) ==
  LET r == req[p]
  IN /\ r.op = "resum"
     /\ Live(r.inv)
     /\ payments' = {x \in payments : x.id # r.pay}
     /\ invoice' = [invoice EXCEPT ![r.inv] = Unpaid(@, r.snap, r.sum)]
     /\ Commit(p)
     /\ UNCHANGED nextPay

-----------------------------------------------------------------------------
\* deleteInvoice

\* mutant: the payments are not looked at
DropReadAlways(p, i) ==
  /\ May(p, "drop")
  /\ Live(i)
  /\ req' = [req EXCEPT ![p] = [op |-> "drop", inv |-> i]]
  /\ UNCHANGED <<invoice, payments, nextPay, stale, raced>>

DropRead(p, i) ==
  /\ May(p, "drop")
  /\ Live(i)
  /\ PaymentsOf(i, payments) = {}
  /\ req' = [req EXCEPT ![p] = [op |-> "drop", inv |-> i]]
  /\ UNCHANGED <<invoice, payments, nextPay, stale, raced>>

\* The foreign key of Payment cascades; a locked payment makes it wait.
DropCommit(p) ==
  LET r == req[p]
  IN /\ r.op = "drop"
     /\ Live(r.inv)
     /\ \A x \in PaymentsOf(r.inv, payments) : ~Locked(x)
     /\ invoice' = [invoice EXCEPT ![r.inv].row = "deleted"]
     /\ payments' = payments \ PaymentsOf(r.inv, payments)
     /\ Commit(p)
     /\ UNCHANGED nextPay

-----------------------------------------------------------------------------
\* A transaction that violates a constraint, finds its row gone, is chosen as
\* a deadlock victim or outlives its timeout is rolled back.
Abort(p) ==
  /\ req[p] # Idle
  /\ req' = [req EXCEPT ![p] = Idle]
  /\ stale' = stale \ {p}
  /\ UNCHANGED <<invoice, payments, nextPay, raced>>

Step(p) ==
  \/ \E i \in Invoices :
       \/ \E t \in Totals, s \in ManualStatuses \cup {"DRAFT"} : CreateInvoice(p, i, t, s)
       \/ \E a \in PayAmounts, ok \in BOOLEAN : RecordRead(p, i, a, ok)
       \/ \E t \in Totals \cup {KeepTotal}, s \in ManualStatuses \cup {KeepStatus} :
            UpdateRead(p, i, t, s)
       \/ \E s \in ManualStatuses : StatusRead(p, i, s)
       \/ SendRead(p, i)
       \/ DropRead(p, i)
  \/ \E x \in payments : UnpayRead(p, x)
  \/ RecordCount(p)
  \/ RecordCommit(p)
  \/ UpdateCommit(p)
  \/ StatusCommit(p)
  \/ SendCommit(p)
  \/ UnpayResum(p)
  \/ UnpayCommit(p)
  \/ DropCommit(p)
  \/ Abort(p)

Next == \E p \in Reqs : Step(p)

Spec == Init /\ [][Next]_vars
-----------------------------------------------------------------------------
\* The rows, the payments and what each request holds have their types; in
\* particular no balance is ever negative.
TypeOK ==
  /\ invoice \in [Invoices -> Rows]
  /\ payments \subseteq Payments
  /\ nextPay \in 1 .. MaxPayments + 1
  /\ req \in [Reqs -> Requests]
  /\ stale \subseteq {p \in Reqs : req[p] # Idle}
  /\ raced \subseteq Invoices

\* The two numbers of every invoice are what its payments make them: paid is
\* the sum of its successful payments and the balance is the rest, after any
\* interleaving of recordPayment, deletePayment, updateInvoice and the others,
\* unless a request wrote the invoice that was overtaken on it.
LedgerAgrees ==
  \A i \in Invoices \ raced : Live(i) =>
    /\ invoice[i].paid = Sum(PaymentsOf(i, payments))
    /\ invoice[i].balance = Max0(invoice[i].total - invoice[i].paid)

\* recordPayment never takes the successful payments of an invoice beyond its
\* total by more than the tolerance, whoever else works on the invoice, unless
\* the request, or one before it, was overtaken on it.
NoOverpayment ==
  [][\A x \in payments' \ payments :
       x.ok /\ x.inv \notin raced' =>
         Sum(PaymentsOf(x.inv, payments')) <= invoice[x.inv].total + Tolerance]_vars

\* The total of an invoice that is PAID changes only by an updateInvoice that
\* was overtaken: one that read the invoice before it became PAID.
PaidInvoiceFrozen ==
  [][\A i \in Invoices :
       Live(i) /\ invoice[i].status = "PAID" /\ invoice'[i].total # invoice[i].total =>
         \E p \in stale : req[p].op = "update" /\ req[p].inv = i /\ req'[p] = Idle]_vars

\* A payment goes away only by the deletePayment that names it, or with its
\* invoice by a deleteInvoice that was overtaken: one that counted the payments
\* before this one was recorded.
RecordedPaymentKept ==
  [][\A x \in payments \ payments' :
       \E p \in Reqs :
         /\ req'[p] = Idle
         /\ \/ req[p].op = "resum" /\ req[p].pay = x.id
            \/ req[p].op = "drop" /\ req[p].inv = x.inv /\ p \in stale]_vars

\* While no payment is deleted the payment numbers of the tenant are 1, 2, ...
\* without a gap or a repetition, although each is a count taken earlier.
PaymentNumbersSequential ==
  {x.num : x \in payments} = 1 .. Cardinality(payments)

\* While no payment is deleted no invoice says more was paid than its payments
\* add up to, whatever stale row a request computed from.
PaidNotOverstated ==
  \A i \in Invoices : Live(i) => invoice[i].paid <= Sum(PaymentsOf(i, payments))

\* The row of an invoice without the figures its payments make.
Bill(v) == [row |-> v.row, total |-> v.total, status |-> v.status, sent |-> v.sent]

\* What is seen of an invoice, and of the payments: nothing of the raced ones.
SeenBill(i) == IF i \in raced THEN Raced ELSE Bill(invoice[i])

SeenPayments == {x \in payments : x.inv \notin raced}

Serial == INSTANCE SerialLedger WITH
            bill <- [i \in Invoices |-> SeenBill(i)],
            payments <- SeenPayments,
            PaymentIds <- 1 .. MaxPayments

\* The services implement SerialLedger, however requests overlap on an invoice:
\* each transaction, although it reads, decides and writes in separate steps, is
\* one operation on the rows as they are when it commits, or none if it aborts.
\* One that commits although it was overtaken races its invoice.
Implements == Serial!Spec
=============================================================================
