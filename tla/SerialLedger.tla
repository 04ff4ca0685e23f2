---------------------------- MODULE SerialLedger ----------------------------
(***************************************************************************)
(* What the invoices and payments of a tenant promise                      *)
(* (src/api/src/finance/services): every operation happens at once, on the *)
(* rows as they are.  An invoice has no figures of its own: what is paid   *)
(* is what its payments add up to, and its balance is the rest.            *)
(*                                                                         *)
(* Nothing is promised of an invoice any more once it was raced: written   *)
(* by a request that others had overtaken on it.  Its row and its payments *)
(* are not seen from then on.                                              *)
(***************************************************************************)
EXTENDS PaymentSums

CONSTANTS Invoices, Totals, PayAmounts, ManualStatuses, PaymentIds

VARIABLES
  bill,     \* bill[i]: the row of i without its figures
  payments  \* the Payment rows

vars == <<bill, payments>>

PaidOf(i) == Sum(PaymentsOf(i, payments))

Live(i) == bill[i].row = "live"

Init ==
  /\ bill = [i \in Invoices |-> [row |-> "none", total |-> 0, status |-> "DRAFT",
                                 sent |-> FALSE]]
  /\ payments = {}

Create(i, total, status) ==
  /\ bill[i].row = "none"
  /\ bill' = [bill EXCEPT ![i] = [row |-> "live", total |-> total, status |-> status,
                                  sent |-> FALSE]]
  /\ UNCHANGED payments

\* A payment under a new identity and a new number, of at most what is owed.
Record(x) ==
  /\ Live(x.inv)
  /\ bill[x.inv].status \notin {"CANCELLED", "VOID"}
  /\ x.amt <= bill[x.inv].total - PaidOf(x.inv) + Tolerance
  /\ \A y \in payments : y.id # x.id /\ y.num # x.num
  /\ payments' = payments \cup {x}
  /\ bill' = IF x.ok
             THEN [bill EXCEPT ![x.inv].status =
                     IF PaidOf(x.inv)' >= bill[x.inv].total THEN "PAID" ELSE "PARTIALLY_PAID"]
             ELSE bill

Update(i, total, status) ==
  /\ Live(i)
  /\ bill[i].status # "PAID"
  /\ bill' = [bill EXCEPT ![i] = [@ EXCEPT !.total = total, !.status = status]]
  /\ UNCHANGED payments

SetStatus(i, status) ==
  /\ Live(i)
  /\ ~(bill[i].status = "PAID" /\ status = "DRAFT")
  /\ bill' = [bill EXCEPT ![i].status = status]
  /\ UNCHANGED payments

Send(i) ==
  /\ Live(i)
  /\ bill[i].status = "DRAFT"
  /\ bill' = [bill EXCEPT ![i] = [@ EXCEPT !.status = "SENT", !.sent = TRUE]]
  /\ UNCHANGED payments

\* What is left decides the status.
Remove(x) ==
  /\ Live(x.inv)
  /\ payments' = payments \ {x}
  /\ bill' = [bill EXCEPT ![x.inv].status =
                IF PaidOf(x.inv)' >= bill[x.inv].total /\ bill[x.inv].total > 0 THEN "PAID"
                ELSE IF PaidOf(x.inv)' > 0 THEN "PARTIALLY_PAID"
                ELSE IF bill[x.inv].sent THEN "SENT" ELSE "DRAFT"]

Drop(i) ==
  /\ Live(i)
  /\ PaymentsOf(i, payments) = {}
  /\ bill' = [bill EXCEPT ![i].row = "deleted"]
  /\ UNCHANGED payments

Race(i) ==
  /\ Live(i)
  /\ bill' = [bill EXCEPT ![i] = Raced]
  /\ payments' = payments \ PaymentsOf(i, payments)

Payments == [id : PaymentIds, num : PaymentIds, inv : Invoices, amt : PayAmounts,
             ok : BOOLEAN]

Next ==
  \/ \E i \in Invoices :
       \/ \E t \in Totals, s \in ManualStatuses \cup {"DRAFT"} : Create(i, t, s)
       \/ \E t \in Totals \cup {bill[i].total}, s \in ManualStatuses \cup {bill[i].status} :
            Update(i, t, s)
       \/ \E s \in ManualStatuses : SetStatus(i, s)
       \/ Send(i)
       \/ Drop(i)
       \/ Race(i)
  \/ \E x \in Payments : Record(x)
  \/ \E x \in payments : Remove(x)

Spec == Init /\ [][Next]_vars
=============================================================================
