------------------------ MODULE InvoiceLedgerProofs ------------------------
(***************************************************************************)
(* What InvoiceLedger guarantees for every number of invoices, requests,   *)
(* amounts and payments.                                                   *)
(*                                                                         *)
(* Requests overlap as they like.  The first part is about types, the      *)
(* second about the invoices no overtaken request has written, and the     *)
(* last shows that the services implement SerialLedger.  Only the third    *)
(* assumes something: that no payment and no invoice is ever deleted; it   *)
(* then speaks of all invoices, written by overtaken requests or not.      *)
(***************************************************************************)
EXTENDS InvoiceLedger, FiniteSetTheorems, TLAPS

-----------------------------------------------------------------------------
\* Sums of payments

\* Finitely many payments consist of finitely many units, so a sum is a number.
LEMMA SumType ==
  ASSUME NEW P, IsFiniteSet(P), P \subseteq Payments
  PROVE  IsFiniteSet(Units(P)) /\ Sum(P) \in Nat
<1> DEFINE S == {y \in P : y.ok}
           f == [x \in S |-> {x} \X (1 .. x.amt)]
           I == {f[x] : x \in S}
<1>1. IsFiniteSet(S)
  BY FS_Subset
<1>2. IsFiniteSet(I)
  <2>1. f \in Surjection(S, I)
    BY DEF Surjection
  <2> HIDE DEF S, f, I
  <2> QED BY <1>1, <2>1, FS_Surjection
<1>3. \A T \in I : IsFiniteSet(T)
  <2> SUFFICES ASSUME NEW x \in S PROVE IsFiniteSet({x} \X (1 .. x.amt))
    OBVIOUS
  <2>1. x.amt \in Int
    BY DEF Payments
  <2>2. IsFiniteSet({x})
    BY FS_Singleton
  <2>3. IsFiniteSet(1 .. x.amt)
    BY <2>1, FS_Interval
  <2> QED BY <2>2, <2>3, FS_Product
<1>4. IsFiniteSet(UNION I)
  <2> HIDE DEF I
  <2> QED BY <1>2, <1>3, FS_UNION
<1>5. Units(P) = UNION I
  BY DEF Units
<1> QED BY <1>4, <1>5, FS_CardinalityType DEF Sum

\* 1 .. n has n elements.
LEMMA Interval ==
  ASSUME NEW n \in Nat
  PROVE  IsFiniteSet(1 .. n) /\ Cardinality(1 .. n) = n
<1>1. IsFiniteSet(1 .. n) /\ Cardinality(1 .. n) = IF 1 > n THEN 0 ELSE n - 1 + 1
  BY FS_Interval
<1>2. (IF 1 > n THEN 0 ELSE n - 1 + 1) = n
  OBVIOUS
<1> QED
  BY <1>1, <1>2

\* A new payment adds its amount to the sum when it succeeded, nothing otherwise.
LEMMA SumAdd ==
  ASSUME NEW P, IsFiniteSet(P), P \subseteq Payments, NEW x \in Payments, x \notin P
  PROVE  Sum(P \cup {x}) = Sum(P) + (IF x.ok THEN x.amt ELSE 0)
<1> DEFINE U == {x} \X (1 .. x.amt)
<1>0. x.amt \in Nat /\ x.ok \in BOOLEAN
  BY DEF Payments
<1>1. CASE ~x.ok
  <2>1. {y \in P \cup {x} : y.ok} = {y \in P : y.ok}
    BY <1>1
  <2>2. Units(P \cup {x}) = Units(P)
    BY <2>1 DEF Units
  <2> QED BY <1>1, <2>2, SumType DEF Sum
<1>2. CASE x.ok
  <2>1. {y \in P \cup {x} : y.ok} = {y \in P : y.ok} \cup {x}
    BY <1>2
  <2>2. Units(P \cup {x}) = Units(P) \cup U
    BY <2>1 DEF Units
  <2>3. Units(P) \cap U = {}
    BY DEF Units
  <2>4. IsFiniteSet({x}) /\ Cardinality({x}) = 1
    BY FS_Singleton
  <2>5. IsFiniteSet(1 .. x.amt) /\ Cardinality(1 .. x.amt) = x.amt
    BY <1>0, Interval
  <2>6. IsFiniteSet(U) /\ Cardinality(U) = x.amt
    <3>1. /\ IsFiniteSet(U)
          /\ Cardinality(U) = Cardinality({x}) * Cardinality(1 .. x.amt)
      BY <2>4, <2>5, FS_Product
    <3> QED BY <3>1, <2>4, <2>5, <1>0
  <2>7. IsFiniteSet(Units(P)) /\ Cardinality(Units(P)) \in Nat
    BY SumType DEF Sum
  <2>8. Cardinality(Units(P) \cup U)
          = Cardinality(Units(P)) + Cardinality(U) - Cardinality(Units(P) \cap U)
    BY <2>6, <2>7, FS_Union
  <2>9. Cardinality(Units(P) \cap U) = 0
    BY <2>3, FS_EmptySet
  <2> HIDE DEF U
  <2>10. Cardinality(Units(P \cup {x})) = Cardinality(Units(P)) + x.amt
    <3> DEFINE old == Cardinality(Units(P))
               new == Cardinality(Units(P) \cup U)
               both == Cardinality(Units(P) \cap U)
    <3>1. new = old + x.amt - both /\ both = 0 /\ old \in Nat
      BY <2>6, <2>7, <2>8, <2>9
    <3>2. new = old + x.amt
      <4> HIDE DEF old, new, both
      <4> QED BY <3>1, <1>0
    <3> QED BY <3>2, <2>2
  <2> QED BY <1>2, <2>10 DEF Sum
<1> QED BY <1>0, <1>1, <1>2

LEMMA SumEmpty == Sum({}) = 0
<1>1. Units({}) = {}
  BY DEF Units
<1> QED BY <1>1, FS_EmptySet DEF Sum

-----------------------------------------------------------------------------
\* Types

Tables ==
  /\ invoice \in [Invoices -> Rows]
  /\ payments \subseteq Payments
  /\ nextPay \in 1 .. MaxPayments + 1
  /\ req \in [Reqs -> Requests]
  /\ IsFiniteSet(payments)

History ==
  /\ stale \subseteq {p \in Reqs : req[p] # Idle}
  /\ raced \subseteq Invoices

TInv == TypeOK /\ IsFiniteSet(payments)

\* What a step of p does to the requests and to the history: it reads, creates
\* an invoice, commits or aborts.
LEMMA StepKinds ==
  ASSUME Tables, NEW p \in Reqs, Step(p)
  PROVE  \/ /\ UNCHANGED <<invoice, payments, nextPay, stale, raced>>
            /\ req'[p] # Idle
            /\ \A q \in Reqs \ {p} : req'[q] = req[q]
         \/ req[p] = Idle /\ UNCHANGED <<req, stale, raced>>
         \/ /\ Commit(p)
            /\ \/ RecordCommit(p) \/ UpdateCommit(p) \/ StatusCommit(p)
               \/ SendCommit(p) \/ UnpayCommit(p) \/ DropCommit(p)
         \/ Abort(p)
<1> USE DEF Tables
<1>1. CASE \/ \E i \in Invoices :
                \/ \E a \in PayAmounts, ok \in BOOLEAN : RecordRead(p, i, a, ok)
                \/ \E t \in Totals \cup {KeepTotal}, s \in ManualStatuses \cup {KeepStatus} :
                     UpdateRead(p, i, t, s)
                \/ \E s \in ManualStatuses : StatusRead(p, i, s)
                \/ SendRead(p, i)
                \/ DropRead(p, i)
           \/ \E x \in payments : UnpayRead(p, x)
           \/ RecordCount(p) \/ UnpayResum(p)
  <2>1. UNCHANGED <<invoice, payments, nextPay, stale, raced>>
    BY <1>1 DEF RecordRead, UpdateRead, StatusRead, SendRead, DropRead, UnpayRead,
                RecordCount, UnpayResum
  <2>2. \A q \in Reqs \ {p} : req'[q] = req[q]
    BY <1>1 DEF RecordRead, UpdateRead, StatusRead, SendRead, DropRead, UnpayRead,
                RecordCount, UnpayResum
  <2>3. req'[p].op # "idle"
    BY <1>1 DEF RecordRead, UpdateRead, StatusRead, SendRead, DropRead, UnpayRead,
                RecordCount, UnpayResum
  <2> QED BY <2>1, <2>2, <2>3 DEF Idle
<1>2. CASE \E i \in Invoices, t \in Totals, s \in ManualStatuses \cup {"DRAFT"} :
             CreateInvoice(p, i, t, s)
  BY <1>2 DEF CreateInvoice, May
<1>3. CASE \/ RecordCommit(p) \/ UpdateCommit(p) \/ StatusCommit(p)
           \/ SendCommit(p) \/ UnpayCommit(p) \/ DropCommit(p)
  <2>1. Commit(p)
    BY <1>3 DEF RecordCommit, UpdateCommit, StatusCommit, SendCommit, UnpayCommit, DropCommit
  <2> QED BY <1>3, <2>1
<1> QED BY <1>1, <1>2, <1>3 DEF Step

\* Only requests in flight are stale, only invoices are raced.
LEMMA HistoryStep ==
  ASSUME Tables, History, [Next]_vars
  PROVE  History'
<1> USE DEF Tables, History
<1>1. CASE UNCHANGED vars
  BY <1>1 DEF vars
<1>2. ASSUME NEW p \in Reqs, Step(p) PROVE History'
  <2>1. ASSUME UNCHANGED <<stale, raced>>, req'[p] # Idle,
               \A q \in Reqs \ {p} : req'[q] = req[q]
        PROVE  History'
    BY <2>1
  <2>2. CASE UNCHANGED <<req, stale, raced>>
    BY <2>2
  <2>3. CASE Commit(p)
    BY <2>3 DEF Commit, Overtaken
  <2>4. CASE Abort(p)
    BY <2>4 DEF Abort
  <2> QED BY <1>2, <2>1, <2>2, <2>3, <2>4, StepKinds
<1> QED BY <1>1, <1>2 DEF Next

LEMMA RowTypes ==
  ASSUME NEW v \in Rows, NEW snap \in Rows, NEW amt \in Nat, NEW sum \in Nat,
         NEW total \in Nat \cup {KeepTotal}, NEW status \in Statuses \cup {KeepStatus}
  PROVE  /\ Paid(v, snap, amt) \in Rows
         /\ Unpaid(v, snap, sum) \in Rows
         /\ Relabelled(Retotalled(v, snap, total), status) \in Rows
<1>1. snap.paid \in Nat /\ snap.total \in Nat /\ snap.sent \in BOOLEAN
  BY DEF Rows
<1>2. \A a, b \in Nat : Max0(a - b) \in Nat
  BY DEF Max0
<1>3. snap.paid + amt \in Nat
  BY <1>1
<1>4. Paid(v, snap, amt) \in Rows
  BY <1>1, <1>2, <1>3 DEF Paid, Rows, Statuses
<1>5. Unpaid(v, snap, sum) \in Rows
  BY <1>1, <1>2 DEF Unpaid, Rows, Statuses
<1>6. Retotalled(v, snap, total) \in Rows
  <2>1. CASE total = KeepTotal
    BY <2>1 DEF Retotalled
  <2>2. CASE total # KeepTotal
    <3>1. total \in Nat
      BY <2>2
    <3>2. Max0(total - snap.paid) \in Nat
      BY <1>1, <1>2, <3>1
    <3> QED BY <2>2, <3>1, <3>2, <1>1 DEF Retotalled, Rows
  <2> QED BY <2>1, <2>2
<1>7. Relabelled(Retotalled(v, snap, total), status) \in Rows
  BY <1>6 DEF Relabelled, Rows
<1> QED BY <1>4, <1>5, <1>7

LEMMA SentRow ==
  ASSUME NEW v \in Rows
  PROVE  [v EXCEPT !.status = "SENT", !.sent = TRUE] \in Rows
<1>1. [v EXCEPT !.status = "SENT"] \in Rows
  BY DEF Rows, Statuses
<1>2. \A u \in Rows : [u EXCEPT !.sent = TRUE] \in Rows
  BY DEF Rows
<1> QED
  BY <1>1, <1>2

LEMMA TInvStep == TInv /\ [Next]_vars => TInv'
<1> SUFFICES ASSUME TInv, [Next]_vars PROVE Tables'
  BY HistoryStep DEF TInv, TypeOK, Tables, History
<1> USE LedgerAssumption DEF TInv, TypeOK, Tables
<1>1. CASE UNCHANGED vars
  BY <1>1 DEF vars
<1>2. ASSUME NEW p \in Reqs, Step(p) PROVE Tables'
  <2> Idle \in Requests
    BY DEF Requests
  <2>1. ASSUME NEW i \in Invoices, NEW t \in Totals,
               NEW s \in ManualStatuses \cup {"DRAFT"}, CreateInvoice(p, i, t, s)
        PROVE  Tables'
    <3>1. [row |-> "live", total |-> t, paid |-> 0, balance |-> t, status |-> s,
           sent |-> FALSE] \in Rows
      BY DEF Rows, Statuses
    <3> QED BY <2>1, <3>1 DEF CreateInvoice
  <2>2. ASSUME NEW i \in Invoices, NEW a \in PayAmounts, NEW ok \in BOOLEAN,
               RecordRead(p, i, a, ok)
        PROVE  Tables'
    BY <2>2 DEF RecordRead, Requests
  <2>3. ASSUME NEW i \in Invoices, NEW t \in Totals \cup {KeepTotal},
               NEW s \in ManualStatuses \cup {KeepStatus}, UpdateRead(p, i, t, s)
        PROVE  Tables'
    BY <2>3 DEF UpdateRead, Requests
  <2>4. ASSUME NEW i \in Invoices, NEW s \in ManualStatuses, StatusRead(p, i, s)
        PROVE  Tables'
    BY <2>4 DEF StatusRead, Requests
  <2>5. ASSUME NEW i \in Invoices, SendRead(p, i) PROVE Tables'
    BY <2>5 DEF SendRead, Requests
  <2>6. ASSUME NEW i \in Invoices, DropRead(p, i) PROVE Tables'
    BY <2>6 DEF DropRead, Requests
  <2>7. ASSUME NEW x \in payments, UnpayRead(p, x) PROVE Tables'
    BY <2>7 DEF UnpayRead, Requests, Payments
  <2>8. CASE RecordCount(p)
    <3>1. AllocatePaymentNumber(payments) \in Nat
      BY FS_CardinalityType DEF AllocatePaymentNumber
    <3>2. /\ req[p].inv \in Invoices /\ req[p].amt \in Nat
          /\ req[p].ok \in BOOLEAN /\ req[p].snap \in Rows
      BY <2>8 DEF RecordCount, Requests, Idle
    <3> HIDE DEF AllocatePaymentNumber
    <3>3. [op |-> "record", inv |-> req[p].inv, amt |-> req[p].amt,
           ok |-> req[p].ok, snap |-> req[p].snap,
           num |-> AllocatePaymentNumber(payments)] \in Requests
      BY <3>1, <3>2 DEF Requests
    <3> QED BY <2>8, <3>3 DEF RecordCount
  <2>9. CASE RecordCommit(p)
    <3> DEFINE r == req[p]
               x == [id |-> nextPay, num |-> r.num, inv |-> r.inv, amt |-> r.amt,
                     ok |-> r.ok]
    <3>1. /\ r.inv \in Invoices /\ r.amt \in Nat /\ r.ok \in BOOLEAN
          /\ r.snap \in Rows /\ r.num \in Nat
      BY <2>9 DEF RecordCommit, Requests, Idle
    <3>2. x \in Payments
      BY <3>1 DEF Payments
    <3>3. IsFiniteSet(payments \cup {x})
      <4> HIDE DEF x
      <4> QED BY FS_AddElement
    <3>4. Paid(invoice[r.inv], r.snap, r.amt) \in Rows
      BY <3>1, RowTypes
    <3> QED BY <2>9, <3>1, <3>2, <3>3, <3>4 DEF RecordCommit, Commit
  <2>10. CASE UpdateCommit(p)
    <3> DEFINE r == req[p]
    <3>1. /\ r.inv \in Invoices /\ r.snap \in Rows
          /\ r.total \in Nat \cup {KeepTotal} /\ r.status \in Statuses \cup {KeepStatus}
      BY <2>10 DEF UpdateCommit, Requests, Idle
    <3>2. Relabelled(Retotalled(invoice[r.inv], r.snap, r.total), r.status) \in Rows
      BY <3>1, RowTypes
    <3> QED BY <2>10, <3>1, <3>2 DEF UpdateCommit, Commit
  <2>11. CASE StatusCommit(p)
    BY <2>11 DEF StatusCommit, Commit, Requests, Idle, Rows
  <2>12. CASE SendCommit(p)
    <3> DEFINE i == req[p].inv
               row == [invoice[i] EXCEPT !.status = "SENT", !.sent = TRUE]
    <3>1. i \in Invoices
      BY <2>12 DEF SendCommit, Requests, Idle
    <3>2. row \in Rows
      <4>1. PICK v \in Rows : v = invoice[i]
        BY <3>1
      <4>2. [v EXCEPT !.status = "SENT", !.sent = TRUE] \in Rows
        BY SentRow, Zenon
      <4> QED BY <4>1, <4>2
    <3>3. invoice' = [invoice EXCEPT ![i] = row]
      BY <2>12, <3>1 DEF SendCommit
    <3>4. req' = [req EXCEPT ![p] = Idle] /\ UNCHANGED <<payments, nextPay>>
      BY <2>12 DEF SendCommit, Commit
    <3> HIDE DEF i, row
    <3> QED BY <3>1, <3>2, <3>3, <3>4
  <2>13. CASE UnpayResum(p)
    <3> DEFINE r == req[p]
               others == {y \in PaymentsOf(r.inv, payments) : y.id # r.pay}
    <3>1. r.inv \in Invoices /\ r.pay \in Nat /\ r.snap \in Rows
      BY <2>13 DEF UnpayResum, Requests, Idle
    <3>2. others \subseteq payments
      BY DEF PaymentsOf
    <3>3. Sum(others) \in Nat
      BY <3>2, FS_Subset, SumType
    <3> QED BY <2>13, <3>1, <3>3 DEF UnpayResum, Requests
  <2>14. CASE UnpayCommit(p)
    <3> DEFINE r == req[p]
    <3>1. r.inv \in Invoices /\ r.snap \in Rows /\ r.sum \in Nat
      BY <2>14 DEF UnpayCommit, Requests, Idle
    <3>2. Unpaid(invoice[r.inv], r.snap, r.sum) \in Rows
      BY <3>1, RowTypes
    <3>3. IsFiniteSet({x \in payments : x.id # r.pay})
      BY FS_Subset
    <3> QED BY <2>14, <3>1, <3>2, <3>3 DEF UnpayCommit, Commit
  <2>15. CASE DropCommit(p)
    <3>1. req[p].inv \in Invoices
      BY <2>15 DEF DropCommit, Requests, Idle
    <3>2. IsFiniteSet(payments \ PaymentsOf(req[p].inv, payments))
      BY FS_Difference
    <3>3. \A v \in Rows : [v EXCEPT !.row = "deleted"] \in Rows
      BY DEF Rows
    <3> QED BY <2>15, <3>1, <3>2, <3>3 DEF DropCommit, Commit
  <2>16. CASE Abort(p)
    BY <2>16 DEF Abort
  <2> QED BY <1>2, <2>1, <2>2, <2>3, <2>4, <2>5, <2>6, <2>7, <2>8, <2>9, <2>10,
             <2>11, <2>12, <2>13, <2>14, <2>15, <2>16 DEF Step
<1> QED BY <1>1, <1>2 DEF Next

LEMMA TInvInit == Init => TInv
<1>1. IsFiniteSet({})
  BY FS_EmptySet
<1> QED BY <1>1, LedgerAssumption DEF Init, TInv, TypeOK, Rows, Requests, Idle, Statuses

LEMMA TInvAlways == Spec => []TInv
BY TInvInit, TInvStep, PTL DEF Spec

\* Whatever the requests do and however they overlap, every row, payment and
\* snapshot keeps its type; no amount and no balance is ever negative.
THEOREM TypeCorrect == Spec => []TypeOK
<1>1. TInv => TypeOK
  BY DEF TInv
<1> QED BY <1>1, TInvAlways, PTL

-----------------------------------------------------------------------------
\* Invoices that no stale request has written

\* Unless p is stale, what it read is still true; what it decided on always is.
Held(p) ==
  LET r == req[p]
  IN /\ r # Idle => invoice[r.inv].row # "none"
     /\ r.op \in {"count", "record"} => MayPay(r.snap, r.amt)
     /\ r.op = "update" => r.snap.status # "PAID"
     /\ r.op \in {"unpay", "resum"} =>
          r.pay < nextPay /\ \A x \in payments : x.id = r.pay => x.inv = r.inv
     /\ p \notin stale =>
          /\ r.op \in {"count", "record", "update", "unpay", "resum"} => r.snap = invoice[r.inv]
          /\ r.op = "resum" => r.sum = Sum({y \in PaymentsOf(r.inv, payments) : y.id # r.pay})
          /\ r.op = "drop" => PaymentsOf(r.inv, payments) = {}

Referential ==
  /\ \A x \in payments : x.id < nextPay /\ Live(x.inv)
  /\ \A x, y \in payments : x.id = y.id => x = y

LInv ==
  /\ TInv
  /\ Referential
  /\ LedgerAgrees
  /\ \A p \in Reqs : Held(p)

\* The fields a request has while it is at a step.
LEMMA RequestFields ==
  ASSUME TypeOK, NEW p \in Reqs
  PROVE  /\ req[p] # Idle => req[p].inv \in Invoices
         /\ req[p].op = "record" => /\ req[p].amt \in Nat /\ req[p].ok \in BOOLEAN
                                    /\ req[p].num \in Nat /\ req[p].snap \in Rows
         /\ req[p].op = "update" => /\ req[p].total \in Nat \cup {KeepTotal}
                                    /\ req[p].snap \in Rows
         /\ req[p].op \in {"unpay", "resum"} => req[p].pay \in Nat
         /\ req[p].op = "resum" => req[p].sum \in Nat /\ req[p].snap \in Rows
<1>1. req[p] \in Requests
  BY DEF TypeOK
<1> QED BY <1>1 DEF Requests, Idle

\* A commit changes one row that exists, and its payments, and no other.
LEMMA CommitIsLocal ==
  ASSUME LInv, NEW p \in Reqs,
         \/ RecordCommit(p) \/ UpdateCommit(p) \/ StatusCommit(p)
         \/ SendCommit(p) \/ UnpayCommit(p) \/ DropCommit(p)
  PROVE  /\ Commit(p) /\ req[p].inv \in Invoices /\ Live(req[p].inv)
         /\ req[p] # Idle /\ req[p].op # "idle"
         /\ invoice'[req[p].inv].row # "none"
         /\ \A i \in Invoices \ {req[p].inv} :
              invoice'[i] = invoice[i] /\ PaymentsOf(i, payments') = PaymentsOf(i, payments)
         /\ \A x \in payments' : x \in payments \/ x.id = nextPay
         /\ nextPay <= nextPay'
<1> USE LedgerAssumption DEF LInv, TInv, TypeOK
<1>1. nextPay \in Int
  OBVIOUS
<1>2. /\ Commit(p) /\ req[p].inv \in Invoices /\ Live(req[p].inv)
      /\ req[p] # Idle /\ req[p].op # "idle"
  <2>1. req[p].op # "idle" /\ Commit(p) /\ Live(req[p].inv)
    BY DEF RecordCommit, UpdateCommit, StatusCommit, SendCommit, UnpayCommit, DropCommit
  <2>2. req[p] # Idle
    BY <2>1 DEF Idle
  <2> QED BY <2>1, <2>2, RequestFields
<1>5. CASE RecordCommit(p)
  <2>2. \A j \in Invoices : invoice'[j].row = invoice[j].row
    BY <1>2, <1>5 DEF RecordCommit, Paid, Rows
  <2>3. invoice'[req[p].inv].row # "none"
    BY <1>2, <2>2 DEF Live
  <2> QED BY <1>1, <1>2, <1>5, <2>3 DEF RecordCommit, PaymentsOf
<1>6. CASE UpdateCommit(p) \/ StatusCommit(p) \/ SendCommit(p)
  <2>1. /\ UNCHANGED <<payments, nextPay>>
        /\ \A j \in Invoices \ {req[p].inv} : invoice'[j] = invoice[j]
    BY <1>2, <1>6 DEF UpdateCommit, StatusCommit, SendCommit
  <2>2. invoice'[req[p].inv].row = invoice[req[p].inv].row
    <3>1. CASE UpdateCommit(p)
      BY <1>2, <3>1 DEF UpdateCommit, Relabelled, Retotalled, Rows
    <3>2. CASE StatusCommit(p)
      BY <1>2, <3>2 DEF StatusCommit, Rows
    <3>3. CASE SendCommit(p)
      BY <1>2, <3>3 DEF SendCommit, Rows
    <3> QED BY <1>6, <3>1, <3>2, <3>3
  <2> QED BY <1>1, <1>2, <2>1, <2>2 DEF Live
<1>7. CASE UnpayCommit(p)
  <2>1. req[p].op = "resum"
    BY <1>7 DEF UnpayCommit
  <2>2. \A x \in payments : x.id = req[p].pay => x.inv = req[p].inv
    BY <2>1 DEF Held
  <2>3. invoice'[req[p].inv].row = invoice[req[p].inv].row
    BY <1>2, <1>7 DEF UnpayCommit, Unpaid, Rows
  <2>4. invoice'[req[p].inv].row # "none"
    BY <1>2, <2>3 DEF Live
  <2> QED BY <1>1, <1>2, <1>7, <2>2, <2>4 DEF UnpayCommit, PaymentsOf
<1>8. CASE DropCommit(p)
  <2>1. invoice'[req[p].inv].row = "deleted"
    BY <1>2, <1>8 DEF DropCommit, Rows
  <2> QED BY <1>1, <1>2, <1>8, <2>1 DEF DropCommit, PaymentsOf
<1> QED BY <1>5, <1>6, <1>7, <1>8

\* A step of p changes p's own request, and of the rows that exist only the one
\* it commits; it adds at most the payment that is next.
LEMMA StepIsLocal ==
  ASSUME LInv, NEW p \in Reqs, Step(p)
  PROVE  /\ \A q \in Reqs \ {p} : req'[q] = req[q] /\ (q \in stale => q \in stale')
         /\ raced \subseteq raced'
         /\ \A x \in payments' : x \in payments \/ x.id = nextPay
         /\ nextPay <= nextPay'
         /\ \A i \in Invoices : invoice[i].row # "none" =>
              /\ invoice'[i].row # "none"
              /\ \/ /\ invoice'[i] = invoice[i]
                    /\ PaymentsOf(i, payments') = PaymentsOf(i, payments)
                 \/ Commit(p) /\ i = req[p].inv
<1>1. nextPay \in Int /\ Tables
  BY LedgerAssumption DEF Tables, LInv, TInv, TypeOK
<1>2. /\ \A q \in Reqs \ {p} : req'[q] = req[q] /\ (q \in stale => q \in stale')
      /\ raced \subseteq raced'
  <2>0. req \in [Reqs -> Requests]
    BY <1>1 DEF Tables
  <2>1. CASE Commit(p)
    BY <2>0, <2>1 DEF Commit
  <2>2. CASE Abort(p)
    BY <2>0, <2>2 DEF Abort
  <2> QED BY <1>1, <2>1, <2>2, StepKinds
<1>3. CASE UNCHANGED <<invoice, payments, nextPay>>
  BY <1>1, <1>2, <1>3
<1>4. CASE \E i \in Invoices, t \in Totals, s \in ManualStatuses \cup {"DRAFT"} :
             CreateInvoice(p, i, t, s)
  <2>1. PICK i \in Invoices : /\ UNCHANGED <<payments, nextPay>> /\ invoice[i].row = "none"
                             /\ \A j \in Invoices \ {i} : invoice'[j] = invoice[j]
    BY <1>4 DEF CreateInvoice, LInv, TInv, TypeOK
  <2> QED BY <1>1, <1>2, <2>1
<1>5. CASE \/ RecordCommit(p) \/ UpdateCommit(p) \/ StatusCommit(p)
           \/ SendCommit(p) \/ UnpayCommit(p) \/ DropCommit(p)
  BY <1>2, <1>5, CommitIsLocal
<1>6. CASE Abort(p)
  BY <1>3, <1>6 DEF Abort
<1> QED BY <1>3, <1>4, <1>5, <1>6
       DEF Step, RecordRead, UpdateRead, StatusRead, SendRead, DropRead, UnpayRead,
           RecordCount, UnpayResum

\* A commit makes every other request on its invoice stale, so nothing is
\* disturbed that another request holds and is not stale.
LEMMA OthersHeld ==
  ASSUME LInv, NEW p \in Reqs, Step(p), NEW q \in Reqs \ {p}
  PROVE  Held(q)'
<1> DEFINE r == req[q]
<1>1. /\ req'[q] = r /\ Held(q) /\ nextPay <= nextPay' /\ nextPay \in Int /\ r \in Requests
      /\ q \in stale => q \in stale'
  BY StepIsLocal DEF LInv, TInv, TypeOK
<1>2. CASE r = Idle
  BY <1>1, <1>2 DEF Held, Idle
<1>3. CASE r # Idle
  <2>1. r.inv \in Invoices /\ invoice[r.inv].row # "none"
    BY <1>1, <1>3, RequestFields DEF Held, LInv, TInv
  <2>2. /\ invoice'[r.inv].row # "none"
        /\ \/ /\ invoice'[r.inv] = invoice[r.inv]
              /\ PaymentsOf(r.inv, payments') = PaymentsOf(r.inv, payments)
           \/ Commit(p) /\ r.inv = req[p].inv
        /\ \A x \in payments' : x \in payments \/ x.id = nextPay
    BY <2>1, StepIsLocal
  <2>3. r.op \in {"unpay", "resum"} =>
          r.pay < nextPay' /\ \A x \in payments' : x.id = r.pay => x.inv = r.inv
    <3> SUFFICES ASSUME r.op \in {"unpay", "resum"}
                 PROVE  r.pay < nextPay' /\ \A x \in payments' : x.id = r.pay => x.inv = r.inv
      OBVIOUS
    <3>1. r.pay \in Nat /\ r.pay < nextPay
      BY <1>1 DEF Held, Requests, Idle
    <3>2. nextPay' \in Int
      BY TInvStep DEF LInv, TInv, TypeOK, Next
    <3> QED BY <1>1, <2>2, <3>1, <3>2 DEF Held
  <2>4. CASE /\ invoice'[r.inv] = invoice[r.inv]
             /\ PaymentsOf(r.inv, payments') = PaymentsOf(r.inv, payments)
    BY <1>1, <2>2, <2>3, <2>4 DEF Held
  <2>5. CASE Commit(p) /\ r.inv = req[p].inv
    <3>1. q \in stale'
      BY <1>3, <2>5 DEF Commit, Overtaken
    <3> QED BY <1>1, <2>2, <2>3, <3>1 DEF Held
  <2> QED BY <2>2, <2>4, <2>5
<1> QED BY <1>2, <1>3

\* A read step leaves the tables alone and holds what it has just read.
LEMMA ReadStep ==
  ASSUME LInv, NEW p \in Reqs,
         \/ \E i \in Invoices :
              \/ \E a \in PayAmounts, ok \in BOOLEAN : RecordRead(p, i, a, ok)
              \/ \E t \in Totals \cup {KeepTotal}, s \in ManualStatuses \cup {KeepStatus} :
                   UpdateRead(p, i, t, s)
              \/ \E s \in ManualStatuses : StatusRead(p, i, s)
              \/ SendRead(p, i)
              \/ DropRead(p, i)
         \/ \E x \in payments : UnpayRead(p, x)
         \/ RecordCount(p) \/ UnpayResum(p) \/ Abort(p)
  PROVE  UNCHANGED <<invoice, payments, nextPay, raced>> /\ Held(p)'
<1> USE LedgerAssumption DEF LInv, TInv, TypeOK, Live
<1>1. ASSUME NEW i \in Invoices, NEW a \in PayAmounts, NEW ok \in BOOLEAN,
             RecordRead(p, i, a, ok)
      PROVE  UNCHANGED <<invoice, payments, nextPay, raced>> /\ Held(p)'
  BY <1>1 DEF RecordRead, Held
<1>2. ASSUME NEW i \in Invoices, NEW t \in Totals \cup {KeepTotal},
             NEW s \in ManualStatuses \cup {KeepStatus}, UpdateRead(p, i, t, s)
      PROVE  UNCHANGED <<invoice, payments, nextPay, raced>> /\ Held(p)'
  BY <1>2 DEF UpdateRead, Held
<1>3. ASSUME NEW i \in Invoices, NEW s \in ManualStatuses, StatusRead(p, i, s)
      PROVE  UNCHANGED <<invoice, payments, nextPay, raced>> /\ Held(p)'
  BY <1>3 DEF StatusRead, Held
<1>4. ASSUME NEW i \in Invoices, SendRead(p, i) \/ DropRead(p, i)
      PROVE  UNCHANGED <<invoice, payments, nextPay, raced>> /\ Held(p)'
  BY <1>4 DEF SendRead, DropRead, Held
<1>5. ASSUME NEW x \in payments, UnpayRead(p, x)
      PROVE  UNCHANGED <<invoice, payments, nextPay, raced>> /\ Held(p)'
  <2>1. UNCHANGED <<invoice, payments, nextPay, raced>>
    BY <1>5 DEF UnpayRead
  <2>2. req'[p] = [op |-> "unpay", inv |-> x.inv, pay |-> x.id, snap |-> invoice[x.inv]]
    BY <1>5 DEF UnpayRead
  <2>3. Live(x.inv) /\ x.id < nextPay
    BY <1>5 DEF UnpayRead, Referential
  <2>4. \A y \in payments : y.id = x.id => y.inv = x.inv
    BY DEF Referential
  <2> QED BY <2>1, <2>2, <2>3, <2>4 DEF Held
<1>6. CASE RecordCount(p)
  <2>1. Held(p) /\ req[p].op = "count" /\ UNCHANGED <<invoice, payments, nextPay, stale, raced>>
    BY <1>6 DEF RecordCount
  <2>2. /\ req'[p].op = "record" /\ req'[p].inv = req[p].inv
        /\ req'[p].amt = req[p].amt /\ req'[p].snap = req[p].snap
    BY <1>6 DEF RecordCount
  <2>3. req[p] # Idle
    BY <2>1 DEF Idle
  <2> QED BY <2>1, <2>2, <2>3 DEF Held
<1>7. CASE UnpayResum(p)
  <2>1. Held(p) /\ req[p].op = "unpay" /\ UNCHANGED <<invoice, payments, nextPay, stale, raced>>
    BY <1>7 DEF UnpayResum
  <2>2. /\ req'[p].op = "resum" /\ req'[p].inv = req[p].inv
        /\ req'[p].pay = req[p].pay /\ req'[p].snap = req[p].snap
        /\ req'[p].sum = Sum({y \in PaymentsOf(req[p].inv, payments) : y.id # req[p].pay})
    BY <1>7 DEF UnpayResum
  <2>3. req[p] # Idle
    BY <2>1 DEF Idle
  <2> QED BY <2>1, <2>2, <2>3 DEF Held
<1>8. CASE Abort(p)
  BY <1>8 DEF Abort, Held, Idle
<1> QED BY <1>1, <1>2, <1>3, <1>4, <1>5, <1>6, <1>7, <1>8

\* The rows of the other invoices and their payments agree as they did; the
\* invoice that p commits has to, unless p was stale or the invoice raced.
LEMMA AgreesAfter ==
  ASSUME LInv, NEW p \in Reqs, Commit(p), NEW i \in Invoices, i = req[p].inv,
         \A j \in Invoices \ {i} : /\ invoice'[j] = invoice[j]
                                   /\ PaymentsOf(j, payments') = PaymentsOf(j, payments),
         Live(i)' /\ p \notin stale /\ i \notin raced =>
           /\ invoice'[i].paid = Sum(PaymentsOf(i, payments'))
           /\ invoice'[i].balance = Max0(invoice'[i].total - invoice'[i].paid)
  PROVE  LedgerAgrees'
<1> SUFFICES ASSUME NEW j \in Invoices \ raced', Live(j)'
             PROVE  /\ invoice'[j].paid = Sum(PaymentsOf(j, payments'))
                    /\ invoice'[j].balance = Max0(invoice'[j].total - invoice'[j].paid)
  BY DEF LedgerAgrees
<1>1. j \notin raced /\ (j = i => p \notin stale)
  BY DEF Commit
<1> QED BY <1>1 DEF LInv, LedgerAgrees, Live

\* A commit writes an invoice that agrees with its payments.
LEMMA CommitStep ==
  ASSUME LInv, NEW p \in Reqs, TInv',
         \/ \E i \in Invoices, t \in Totals, s \in ManualStatuses \cup {"DRAFT"} :
              CreateInvoice(p, i, t, s)
         \/ RecordCommit(p) \/ UpdateCommit(p) \/ StatusCommit(p)
         \/ SendCommit(p) \/ UnpayCommit(p) \/ DropCommit(p)
  PROVE  Held(p)' /\ Referential' /\ LedgerAgrees'
<1> USE LedgerAssumption DEF LInv, TInv, TypeOK, May
<1> DEFINE r == req[p]
<1>0. ASSUME Commit(p) PROVE Held(p)'
  <2>1. req'[p] = Idle
    BY <1>0 DEF Commit
  <2> QED BY <2>1 DEF Held, Idle
<1>1. ASSUME NEW i \in Invoices, NEW t \in Totals,
             NEW s \in ManualStatuses \cup {"DRAFT"}, CreateInvoice(p, i, t, s)
      PROVE  Held(p)' /\ Referential' /\ LedgerAgrees'
  <2>1. req[p] = Idle /\ UNCHANGED <<payments, nextPay, req, raced>> /\ ~Live(i)
    BY <1>1 DEF CreateInvoice, Live
  <2>2. PaymentsOf(i, payments) = {}
    BY <2>1 DEF PaymentsOf, Referential
  <2>3. Held(p)'
    BY <2>1 DEF Held, Idle
  <2>4. Referential'
    BY <1>1, <2>1 DEF CreateInvoice, Referential, Live
  <2>5. \A j \in Invoices \ {i} : invoice'[j] = invoice[j]
    BY <1>1 DEF CreateInvoice
  <2>6. /\ invoice'[i].paid = 0 /\ invoice'[i].balance = t /\ invoice'[i].total = t
        /\ t \in Nat
    BY <1>1 DEF CreateInvoice
  <2>7. t = Max0(t - 0)
    BY <2>6 DEF Max0
  <2>8. LedgerAgrees'
    BY <2>1, <2>2, <2>5, <2>6, <2>7, SumEmpty DEF LedgerAgrees, Live
  <2> QED BY <2>3, <2>4, <2>8
<1>2. CASE RecordCommit(p)
  <2> DEFINE x == [id |-> nextPay, num |-> r.num, inv |-> r.inv, amt |-> r.amt,
                   ok |-> r.ok]
  <2>1. /\ r.op = "record" /\ r.inv \in Invoices /\ r.amt \in Nat /\ r.ok \in BOOLEAN
        /\ r.num \in Nat /\ r.snap \in Rows /\ Live(r.inv) /\ Commit(p)
        /\ p \notin stale => r.snap = invoice[r.inv]
    <3>1. r.op = "record" /\ Live(r.inv) /\ r # Idle /\ Commit(p)
      BY <1>2 DEF RecordCommit, Idle
    <3>2. p \notin stale => r.snap = invoice[r.inv]
      BY <3>1 DEF Held
    <3> QED BY <3>1, <3>2, RequestFields
  <2>2. /\ payments' = payments \cup {x} /\ nextPay' = nextPay + 1
        /\ invoice' = IF r.ok
                      THEN [invoice EXCEPT ![r.inv] = Paid(@, r.snap, r.amt)]
                      ELSE invoice
    BY <1>2 DEF RecordCommit
  <2>3. x \in Payments /\ x \notin payments
    BY <2>1 DEF Payments, Referential
  <2>4. Held(p)'
    BY <1>0, <2>1
  <2>5. \A j \in Invoices : invoice'[j].row = invoice[j].row
    BY <2>1, <2>2 DEF Paid
  <2>6. Referential'
    BY <2>1, <2>2, <2>5 DEF Referential, Live, Payments
  <2>7. PaymentsOf(r.inv, payments') = PaymentsOf(r.inv, payments) \cup {x}
    BY <2>2 DEF PaymentsOf
  <2>8. Sum(PaymentsOf(r.inv, payments'))
          = Sum(PaymentsOf(r.inv, payments)) + (IF r.ok THEN r.amt ELSE 0)
    <3>1. /\ PaymentsOf(r.inv, payments) \subseteq Payments
          /\ PaymentsOf(r.inv, payments) \subseteq payments
          /\ x \notin PaymentsOf(r.inv, payments)
      BY <2>3 DEF PaymentsOf
    <3>2. IsFiniteSet(PaymentsOf(r.inv, payments))
      BY <3>1, FS_Subset
    <3>3. x.ok = r.ok /\ x.amt = r.amt
      OBVIOUS
    <3> HIDE DEF x
    <3> QED BY <2>3, <2>7, <3>1, <3>2, <3>3, SumAdd
  <2>9. \A j \in Invoices \ {r.inv} :
          invoice'[j] = invoice[j] /\ PaymentsOf(j, payments') = PaymentsOf(j, payments)
    BY <2>1, <2>2 DEF PaymentsOf
  <2>10. ASSUME p \notin stale, r.inv \notin raced
         PROVE  /\ invoice'[r.inv].paid = Sum(PaymentsOf(r.inv, payments'))
                /\ invoice'[r.inv].balance = Max0(invoice'[r.inv].total - invoice'[r.inv].paid)
    <3>1. /\ invoice[r.inv].paid = Sum(PaymentsOf(r.inv, payments))
          /\ invoice[r.inv].balance = Max0(invoice[r.inv].total - invoice[r.inv].paid)
          /\ invoice[r.inv] \in Rows
      BY <2>1, <2>10 DEF LedgerAgrees
    <3>2. CASE r.ok
      <4>1. invoice'[r.inv] = Paid(invoice[r.inv], invoice[r.inv], r.amt)
        BY <2>1, <2>2, <2>10, <3>2
      <4>2. /\ invoice'[r.inv].paid = invoice[r.inv].paid + r.amt
            /\ invoice'[r.inv].total = invoice[r.inv].total
            /\ invoice'[r.inv].balance
                 = Max0(invoice[r.inv].total - (invoice[r.inv].paid + r.amt))
        BY <3>1, <4>1 DEF Paid, Rows
      <4> QED BY <2>8, <3>1, <3>2, <4>2
    <3>3. CASE ~r.ok
      <4>1. invoice' = invoice
        BY <2>2, <3>3
      <4>2. invoice[r.inv].paid \in Nat
        BY <3>1 DEF Rows
      <4> QED BY <2>8, <3>1, <3>3, <4>1, <4>2
    <3> QED BY <2>1, <3>2, <3>3
  <2>11. LedgerAgrees'
    BY <2>1, <2>9, <2>10, AgreesAfter
  <2> QED BY <2>4, <2>6, <2>11
<1>3. CASE UpdateCommit(p)
  <2>1. /\ r.inv \in Invoices /\ r.total \in Nat \cup {KeepTotal} /\ Commit(p)
        /\ Live(r.inv)
        /\ p \notin stale => r.snap = invoice[r.inv]
    <3>1. r.op = "update" /\ r # Idle /\ Commit(p) /\ Live(r.inv)
      BY <1>3 DEF UpdateCommit, Idle
    <3>2. p \notin stale => r.snap = invoice[r.inv]
      BY <3>1 DEF Held
    <3> QED BY <3>1, <3>2, RequestFields
  <2>2. /\ invoice' = [invoice EXCEPT ![r.inv] =
                        Relabelled(Retotalled(@, r.snap, r.total), r.status)]
        /\ UNCHANGED <<payments, nextPay>>
    BY <1>3 DEF UpdateCommit
  <2>3. Held(p)'
    BY <1>0, <2>1
  <2>4. /\ invoice'[r.inv].row = invoice[r.inv].row
        /\ p \notin stale =>
             /\ invoice'[r.inv].paid = invoice[r.inv].paid
             /\ \/ /\ invoice'[r.inv].total = invoice[r.inv].total
                   /\ invoice'[r.inv].balance = invoice[r.inv].balance
                \/ /\ invoice'[r.inv].total = r.total
                   /\ invoice'[r.inv].balance = Max0(r.total - invoice[r.inv].paid)
    BY <2>1, <2>2 DEF Relabelled, Retotalled, Rows
  <2>5. \A j \in Invoices \ {r.inv} : invoice'[j] = invoice[j]
    BY <2>1, <2>2
  <2>6. Referential'
    <3>1. payments' = payments /\ nextPay' = nextPay
      BY <2>2
    <3>2. \A i \in Invoices : Live(i) => Live(i)'
      BY <2>1, <2>4, <2>5 DEF Live
    <3>3. \A x \in payments : x.inv \in Invoices
      BY DEF Payments
    <3>4. Referential
      OBVIOUS
    <3> HIDE DEF LInv, TInv, TypeOK
    <3> QED BY <3>1, <3>2, <3>3, <3>4 DEF Referential
  <2>7. LedgerAgrees'
    <3>1. ASSUME p \notin stale, r.inv \notin raced
          PROVE  /\ invoice'[r.inv].paid = Sum(PaymentsOf(r.inv, payments'))
                 /\ invoice'[r.inv].balance = Max0(invoice'[r.inv].total - invoice'[r.inv].paid)
      <4>1. /\ invoice[r.inv].paid = Sum(PaymentsOf(r.inv, payments))
            /\ invoice[r.inv].balance = Max0(invoice[r.inv].total - invoice[r.inv].paid)
        BY <2>1, <3>1 DEF LedgerAgrees
      <4> QED BY <2>2, <2>4, <3>1, <4>1
    <3>2. \A j \in Invoices : PaymentsOf(j, payments') = PaymentsOf(j, payments)
      BY <2>2
    <3> QED BY <2>1, <2>5, <3>1, <3>2, AgreesAfter
  <2> QED BY <2>3, <2>6, <2>7
<1>4. ASSUME StatusCommit(p) \/ SendCommit(p)
      PROVE  Held(p)' /\ Referential' /\ LedgerAgrees'
  <2>1. Commit(p) /\ UNCHANGED <<payments, nextPay>>
    BY <1>4 DEF StatusCommit, SendCommit
  <2>2. \A j \in Invoices :
          /\ invoice'[j].row = invoice[j].row /\ invoice'[j].paid = invoice[j].paid
          /\ invoice'[j].total = invoice[j].total /\ invoice'[j].balance = invoice[j].balance
    BY <1>4 DEF StatusCommit, SendCommit, Rows
  <2>3. Held(p)'
    BY <1>0, <2>1
  <2>4. Referential'
    BY <2>1, <2>2 DEF Referential, Live, Payments
  <2>5. LedgerAgrees'
    BY <2>1, <2>2 DEF LedgerAgrees, Live, Commit
  <2> QED BY <2>3, <2>4, <2>5
<1>5. CASE UnpayCommit(p)
  <2>1. /\ r.inv \in Invoices /\ Commit(p) /\ Live(r.inv)
        /\ p \notin stale =>
             /\ r.snap = invoice[r.inv]
             /\ r.sum = Sum({y \in PaymentsOf(r.inv, payments) : y.id # r.pay})
        /\ \A x \in payments : x.id = r.pay => x.inv = r.inv
    <3>1. r.op = "resum" /\ r # Idle /\ Commit(p) /\ Live(r.inv)
      BY <1>5 DEF UnpayCommit, Idle
    <3>2. Held(p)
      OBVIOUS
    <3> QED BY <3>1, <3>2, RequestFields DEF Held
  <2>2. /\ payments' = {x \in payments : x.id # r.pay} /\ nextPay' = nextPay
        /\ invoice' = [invoice EXCEPT ![r.inv] = Unpaid(@, r.snap, r.sum)]
    BY <1>5 DEF UnpayCommit
  <2>3. Held(p)'
    BY <1>0, <2>1
  <2>4. /\ invoice'[r.inv].row = invoice[r.inv].row
        /\ p \notin stale =>
             /\ invoice'[r.inv].paid = r.sum
             /\ invoice'[r.inv].total = invoice[r.inv].total
             /\ invoice'[r.inv].balance = Max0(invoice[r.inv].total - r.sum)
    <3>1. invoice'[r.inv] = Unpaid(invoice[r.inv], r.snap, r.sum)
      BY <2>1, <2>2
    <3>2. invoice[r.inv] \in Rows
      BY <2>1
    <3> QED BY <2>1, <3>1, <3>2 DEF Unpaid, Rows
  <2>5. \A j \in Invoices \ {r.inv} :
          invoice'[j] = invoice[j] /\ PaymentsOf(j, payments') = PaymentsOf(j, payments)
    BY <2>1, <2>2 DEF PaymentsOf
  <2>6. PaymentsOf(r.inv, payments') = {y \in PaymentsOf(r.inv, payments) : y.id # r.pay}
    BY <2>2 DEF PaymentsOf
  <2>7. Referential'
    <3>1. payments' \subseteq payments /\ nextPay' = nextPay
      BY <2>2
    <3>2. \A i \in Invoices : Live(i) => Live(i)'
      BY <2>1, <2>4, <2>5 DEF Live
    <3>3. \A x \in payments : x.inv \in Invoices
      BY DEF Payments
    <3>4. Referential
      OBVIOUS
    <3> HIDE DEF LInv, TInv, TypeOK
    <3> QED BY <3>1, <3>2, <3>3, <3>4 DEF Referential
  <2>8. LedgerAgrees'
    <3>1. ASSUME p \notin stale
          PROVE  /\ invoice'[r.inv].paid = Sum(PaymentsOf(r.inv, payments'))
                 /\ invoice'[r.inv].balance = Max0(invoice'[r.inv].total - invoice'[r.inv].paid)
      BY <2>1, <2>4, <2>6, <3>1
    <3> QED BY <2>1, <2>5, <3>1, AgreesAfter
  <2> QED BY <2>3, <2>7, <2>8
<1>6. CASE DropCommit(p)
  <2>1. r.inv \in Invoices /\ Commit(p)
    <3>1. r.op = "drop" /\ r # Idle /\ Commit(p)
      BY <1>6 DEF DropCommit, Idle
    <3> QED BY <3>1, RequestFields DEF Held
  <2>2. /\ payments' = payments \ PaymentsOf(r.inv, payments) /\ nextPay' = nextPay
        /\ invoice' = [invoice EXCEPT ![r.inv].row = "deleted"]
    BY <1>6 DEF DropCommit
  <2>3. Held(p)'
    BY <1>0, <2>1
  <2>4. \A j \in Invoices \ {r.inv} :
          invoice'[j] = invoice[j] /\ PaymentsOf(j, payments') = PaymentsOf(j, payments)
    BY <2>1, <2>2 DEF PaymentsOf
  <2>5. payments' \subseteq payments /\ \A x \in payments' : x.inv # r.inv
    BY <2>2 DEF PaymentsOf
  <2>6. Referential'
    BY <2>2, <2>4, <2>5 DEF Referential, Live, Payments
  <2>7. invoice'[r.inv].row # "live"
    BY <2>1, <2>2 DEF Rows
  <2>8. LedgerAgrees'
    BY <2>1, <2>4, <2>7, AgreesAfter DEF Live
  <2> QED BY <2>3, <2>6, <2>8
<1> QED BY <1>1, <1>2, <1>3, <1>4, <1>5, <1>6

LEMMA LInvStep == LInv /\ [Next]_vars => LInv'
<1> SUFFICES ASSUME LInv, [Next]_vars PROVE LInv'
  OBVIOUS
<1>1. TInv'
  BY TInvStep DEF LInv
<1>2. CASE UNCHANGED vars
  <2>1. /\ invoice' = invoice /\ payments' = payments /\ nextPay' = nextPay /\ req' = req
        /\ stale' = stale /\ raced' = raced
    BY <1>2 DEF vars
  <2>2. Referential' /\ LedgerAgrees'
    BY <2>1 DEF LInv, Referential, LedgerAgrees, Live
  <2>3. ASSUME NEW q \in Reqs PROVE Held(q)'
    <3>1. Held(q)
      BY DEF LInv
    <3> QED BY <2>1, <3>1 DEF Held
  <2> QED BY <1>1, <2>2, <2>3 DEF LInv
<1>3. ASSUME NEW p \in Reqs, Step(p) PROVE LInv'
  <2>1. \A q \in Reqs \ {p} : Held(q)'
    BY <1>3, OthersHeld
  <2>2. CASE UNCHANGED <<invoice, payments, nextPay, raced>> /\ Held(p)'
    <3>1. \A q \in Reqs : Held(q)'
      BY <2>1, <2>2
    <3>2. Referential' /\ LedgerAgrees'
      BY <2>2 DEF LInv, Referential, LedgerAgrees, Live, PaymentsOf
    <3> QED BY <1>1, <3>1, <3>2 DEF LInv
  <2>3. CASE Held(p)' /\ Referential' /\ LedgerAgrees'
    <3>1. \A q \in Reqs : Held(q)'
      BY <2>1, <2>3
    <3> QED BY <1>1, <2>3, <3>1 DEF LInv
  <2> QED BY <1>1, <1>3, <2>2, <2>3, ReadStep, CommitStep DEF Step
<1> QED BY <1>2, <1>3 DEF Next

LEMMA LInvInit == Init => LInv
<1> SUFFICES ASSUME Init PROVE LInv
  OBVIOUS
<1>1. TInv
  BY TInvInit
<1>2. Referential /\ LedgerAgrees
  BY DEF Init, Referential, LedgerAgrees, Live
<1>3. \A p \in Reqs : Held(p)
  BY DEF Init, Held, Idle
<1> QED BY <1>1, <1>2, <1>3 DEF LInv

LEMMA LInvAlways == Spec => []LInv
BY LInvInit, LInvStep, PTL DEF Spec

\* However requests overlap, every invoice that no overtaken request has
\* written says exactly what its payments add up to and what is left.
THEOREM LedgerCorrect == Spec => []LedgerAgrees
<1>1. LInv => LedgerAgrees
  BY DEF LInv
<1> QED BY <1>1, LInvAlways, PTL

\* A payment takes the successful payments of its invoice beyond the total by
\* more than one unit only if its request, or one before it, was overtaken.
THEOREM OverpaymentBounded == Spec => NoOverpayment
<1>1. LInv /\ LInv' /\ [Next]_vars =>
        [\A x \in payments' \ payments :
           x.ok /\ x.inv \notin raced' =>
             Sum(PaymentsOf(x.inv, payments')) <= invoice[x.inv].total + Tolerance]_vars
  <2> SUFFICES ASSUME LInv, LInv', NEW p \in Reqs, Step(p),
                      NEW x \in payments' \ payments, x.ok, x.inv \notin raced'
               PROVE  Sum(PaymentsOf(x.inv, payments')) <= invoice[x.inv].total + Tolerance
    BY DEF Next
  <2>1. RecordCommit(p)
    BY DEF Step, CreateInvoice, RecordRead, UpdateRead, StatusRead, SendRead, DropRead,
           UnpayRead, RecordCount, UpdateCommit, StatusCommit, SendCommit, UnpayResum,
           UnpayCommit, DropCommit, Abort
  <2> DEFINE r == req[p]
  <2>2. r.op = "record" /\ r # Idle /\ x.inv = r.inv /\ x.amt = r.amt /\ x.ok = r.ok /\ Live(r.inv)
    <3>1. /\ r.op = "record" /\ Live(r.inv)
          /\ payments' = payments \cup {[id |-> nextPay, num |-> r.num, inv |-> r.inv,
                                         amt |-> r.amt, ok |-> r.ok]}
      BY <2>1 DEF RecordCommit
    <3>2. x = [id |-> nextPay, num |-> r.num, inv |-> r.inv, amt |-> r.amt, ok |-> r.ok]
      BY <3>1
    <3>3. x.inv = r.inv /\ x.amt = r.amt
      BY <3>2
    <3>4. x.ok = r.ok
      BY <3>2, Zenon
    <3>5. r # Idle
      BY <3>1 DEF Idle
    <3> QED BY <3>1, <3>3, <3>4, <3>5
  <2>3. r.inv \in Invoices /\ r.amt \in Nat
    BY <2>2, RequestFields DEF LInv, TInv
  <2>0. p \notin stale /\ r.inv \notin raced
    BY <2>1, <2>2, <2>3 DEF RecordCommit, Commit
  <2>4. r.snap = invoice[r.inv] /\ MayPay(r.snap, r.amt) /\ invoice[r.inv] \in Rows
    BY <2>0, <2>2, <2>3 DEF LInv, Held, TInv, TypeOK
  <2>5. invoice' = [invoice EXCEPT ![r.inv] = Paid(@, r.snap, r.amt)] /\ x \in payments'
    BY <2>1, <2>2 DEF RecordCommit
  <2>6. invoice'[r.inv] = Paid(invoice[r.inv], invoice[r.inv], r.amt)
    BY <2>3, <2>4, <2>5 DEF LInv, TInv, TypeOK
  <2>7. invoice'[r.inv].paid = invoice[r.inv].paid + r.amt /\ invoice'[r.inv].row = "live"
    BY <2>2, <2>4, <2>6 DEF Paid, Rows, Live
  <2>8. Sum(PaymentsOf(r.inv, payments')) = invoice[r.inv].paid + r.amt
    BY <2>2, <2>3, <2>7 DEF LInv, LedgerAgrees, Live
  <2>9. invoice[r.inv].balance = Max0(invoice[r.inv].total - invoice[r.inv].paid)
    BY <2>0, <2>2, <2>3 DEF LInv, LedgerAgrees
  <2>10. /\ invoice[r.inv].total \in Nat /\ invoice[r.inv].paid \in Nat
         /\ invoice[r.inv].balance \in Nat
    BY <2>4 DEF Rows
  <2>11. r.amt <= Owed(invoice[r.inv]) + Tolerance
    BY <2>4 DEF MayPay
  <2>12. Owed(invoice[r.inv]) <= invoice[r.inv].total - invoice[r.inv].paid
    BY <2>9, <2>10 DEF Owed, Max0
  <2>13. Owed(invoice[r.inv]) \in Int
    BY <2>10 DEF Owed
  <2> QED BY <2>2, <2>3, <2>8, <2>10, <2>11, <2>12, <2>13 DEF Tolerance
<1> QED BY <1>1, LInvAlways, PTL DEF Spec, NoOverpayment

\* The total of a PAID invoice changes only by an updateInvoice that was
\* overtaken on it.
THEOREM PaidInvoicesAreFrozen == Spec => PaidInvoiceFrozen
<1>1. LInv /\ [Next]_vars =>
        [\A i \in Invoices :
           Live(i) /\ invoice[i].status = "PAID" /\ invoice'[i].total # invoice[i].total =>
             \E p \in stale : req[p].op = "update" /\ req[p].inv = i /\ req'[p] = Idle]_vars
  <2> SUFFICES ASSUME LInv, NEW p \in Reqs, Step(p), NEW i \in Invoices,
                      Live(i), invoice[i].status = "PAID", invoice'[i].total # invoice[i].total
               PROVE  /\ p \in stale /\ req[p].op = "update" /\ req[p].inv = i
                      /\ req'[p] = Idle
    BY DEF Next
  <2>0. invoice \in [Invoices -> Rows] /\ req \in [Reqs -> Requests]
    BY DEF LInv, TInv, TypeOK
  <2>1. CASE UpdateCommit(p)
    <3>1. req[p].op = "update" /\ req'[p] = Idle
      BY <2>0, <2>1 DEF UpdateCommit, Commit
    <3>2. req[p].inv = i
      BY <2>0, <2>1 DEF UpdateCommit
    <3>3. p \notin stale => req[p].snap = invoice[req[p].inv]
      BY <3>1 DEF LInv, Held
    <3>4. req[p].snap.status # "PAID"
      BY <3>1 DEF LInv, Held
    <3> QED BY <3>1, <3>2, <3>3, <3>4
  <2>2. ASSUME NEW j \in Invoices, NEW t \in Totals, NEW s \in ManualStatuses \cup {"DRAFT"},
               CreateInvoice(p, j, t, s)
        PROVE  invoice'[i].total = invoice[i].total
    BY <2>0, <2>2 DEF CreateInvoice, Live
  <2>3. CASE RecordCommit(p)
    BY <2>0, <2>3 DEF RecordCommit, Paid, Rows
  <2>4. CASE StatusCommit(p)
    BY <2>0, <2>4 DEF StatusCommit, Rows
  <2>5. CASE SendCommit(p)
    BY <2>0, <2>5 DEF SendCommit, Rows
  <2>6. CASE UnpayCommit(p)
    BY <2>0, <2>6 DEF UnpayCommit, Unpaid, Rows
  <2>7. CASE DropCommit(p)
    BY <2>0, <2>7 DEF DropCommit, Rows
  <2> QED BY <2>1, <2>2, <2>3, <2>4, <2>5, <2>6, <2>7, ReadStep DEF Step
<1> QED BY <1>1, LInvAlways, PTL DEF Spec, PaidInvoiceFrozen

\* A payment goes away only by the deletePayment that names it, or with the
\* invoice of a deleteInvoice that was overtaken after it had counted.
THEOREM PaymentsAreKept == Spec => RecordedPaymentKept
<1>1. LInv /\ [Next]_vars =>
        [\A x \in payments \ payments' :
           \E p \in Reqs :
             /\ req'[p] = Idle
             /\ \/ req[p].op = "resum" /\ req[p].pay = x.id
                \/ req[p].op = "drop" /\ req[p].inv = x.inv /\ p \in stale]_vars
  <2> SUFFICES ASSUME LInv, NEW p \in Reqs, Step(p), NEW x \in payments \ payments'
               PROVE  /\ req'[p] = Idle
                      /\ \/ req[p].op = "resum" /\ req[p].pay = x.id
                         \/ req[p].op = "drop" /\ req[p].inv = x.inv /\ p \in stale
    BY DEF Next
  <2>1. CASE UnpayCommit(p)
    BY <2>1 DEF UnpayCommit, Commit, LInv, TInv, TypeOK
  <2>2. CASE DropCommit(p)
    <3>1. req[p].op = "drop" /\ req'[p] = Idle
      BY <2>2 DEF DropCommit, Commit, LInv, TInv, TypeOK
    <3>2. p \notin stale => PaymentsOf(req[p].inv, payments) = {}
      BY <3>1 DEF LInv, Held
    <3>3. x.inv = req[p].inv
      BY <2>2 DEF DropCommit, PaymentsOf
    <3> QED BY <3>1, <3>2, <3>3 DEF PaymentsOf
  <2>3. CASE ~UnpayCommit(p) /\ ~DropCommit(p)
    BY <2>3 DEF Step, CreateInvoice, RecordRead, UpdateRead, StatusRead, SendRead, DropRead,
           UnpayRead, RecordCount, RecordCommit, UpdateCommit, StatusCommit, SendCommit,
           UnpayResum, Abort
  <2> QED BY <2>1, <2>2, <2>3
<1> QED BY <1>1, LInvAlways, PTL DEF Spec, RecordedPaymentKept

-----------------------------------------------------------------------------
\* Nothing is deleted, and requests may overlap on the same invoice

\* The requests delete neither payments nor invoices.
NothingDeleted == Ops \cap {"unpay", "drop"} = {}

\* A number that was counted earlier is taken already or is the next one.
NumberHeld(p) ==
  /\ req[p].op \notin {"unpay", "resum", "drop"}
  /\ req[p].op = "record" => req[p].num \in 1 .. Cardinality(payments) + 1

NInv == TInv /\ PaymentNumbersSequential /\ \A p \in Reqs : NumberHeld(p)

LEMMA NInvStep ==
  ASSUME NothingDeleted
  PROVE  NInv /\ [Next]_vars => NInv'
<1> SUFFICES ASSUME NInv, [Next]_vars PROVE NInv'
  OBVIOUS
<1> DEFINE n == Cardinality(payments)
<1>1. TInv'
  BY TInvStep DEF NInv
<1>2. n \in Nat
  BY FS_CardinalityType DEF NInv, TInv
<1>3. CASE UNCHANGED vars
  BY <1>1, <1>3 DEF vars, NInv, PaymentNumbersSequential, NumberHeld
<1>4. ASSUME NEW p \in Reqs, Step(p) PROVE NInv'
  <2>1. ASSUME payments' = payments, \A q \in Reqs : NumberHeld(q)'
        PROVE  NInv'
    BY <1>1, <2>1 DEF NInv, PaymentNumbersSequential
  <2>2. ASSUME UNCHANGED payments,
               \A q \in Reqs : \/ req'[q] = req[q]
                               \/ req'[q].op \notin {"unpay", "resum", "drop", "record"}
        PROVE  NInv'
    BY <2>1, <2>2 DEF NInv, NumberHeld
  <2>3. ~UnpayResum(p) /\ ~UnpayCommit(p) /\ ~DropCommit(p)
    BY DEF UnpayResum, UnpayCommit, DropCommit, NInv, NumberHeld
  <2>4. (\A i \in Invoices : ~DropRead(p, i)) /\ \A x \in payments : ~UnpayRead(p, x)
    BY DEF DropRead, UnpayRead, May, NothingDeleted
  <2>5. CASE RecordCount(p)
    <3>1. AllocatePaymentNumber(payments) \in 1 .. n + 1
      BY <1>2 DEF AllocatePaymentNumber
    <3>2. payments' = payments /\ req'[p].op = "record"
            /\ req'[p].num = AllocatePaymentNumber(payments)
      BY <2>5 DEF RecordCount, NInv, TInv, TypeOK
    <3>3. \A q \in Reqs : q # p => req'[q] = req[q]
      BY <2>5 DEF RecordCount, NInv, TInv, TypeOK
    <3>4. ASSUME NEW q \in Reqs PROVE NumberHeld(q)'
      BY <3>1, <3>2, <3>3 DEF NInv, NumberHeld
    <3> QED BY <2>1, <3>2, <3>4
  <2>6. CASE RecordCommit(p)
    <3> DEFINE r == req[p]
               x == [id |-> nextPay, num |-> r.num, inv |-> r.inv, amt |-> r.amt,
                     ok |-> r.ok]
    <3>1. /\ r.num \in 1 .. n + 1 /\ NumberFree(r.num) /\ payments' = payments \cup {x}
          /\ \A q \in Reqs : req'[q] = IF q = p THEN Idle ELSE req[q]
      BY <2>6 DEF RecordCommit, NInv, NumberHeld, Commit, TInv, TypeOK
    <3>2. r.num \notin {y.num : y \in payments}
      BY <3>1 DEF NumberFree
    <3>3. {y.num : y \in payments} = 1 .. n
      BY DEF NInv, PaymentNumbersSequential
    <3>4. r.num = n + 1
      BY <1>2, <3>1, <3>2, <3>3
    <3>5. x.num = n + 1
      BY <3>4
    <3>6. x \notin payments
      BY <3>5, <3>2, <3>4
    <3>7. Cardinality(payments') = n + 1
      <4> HIDE DEF x
      <4> QED BY <3>1, <3>6, FS_AddElement DEF NInv, TInv
    <3>8. {y.num : y \in payments'} = (1 .. n) \cup {n + 1}
      <4> HIDE DEF x, n
      <4> QED BY <3>1, <3>3, <3>5
    <3>9. (1 .. n) \cup {n + 1} = 1 .. n + 1
      BY <1>2
    <3>10. PaymentNumbersSequential'
      BY <3>7, <3>8, <3>9 DEF PaymentNumbersSequential
    <3>11. ASSUME NEW q \in Reqs PROVE NumberHeld(q)'
      <4>1. Cardinality(payments') = n + 1 /\ NumberHeld(q)
        BY <3>7 DEF NInv
      <4> QED BY <1>2, <3>1, <4>1 DEF NumberHeld, Idle
    <3> QED BY <1>1, <3>10, <3>11 DEF NInv
  <2> QED BY <1>4, <2>2, <2>3, <2>4, <2>5, <2>6
             DEF Step, CreateInvoice, RecordRead, UpdateRead, StatusRead, SendRead,
                 UpdateCommit, StatusCommit, SendCommit, Abort, Commit, Idle,
                 NInv, TInv, TypeOK
<1> QED BY <1>3, <1>4 DEF Next

\* While nothing is deleted the payment numbers are 1, 2, ... without gap or
\* repetition, however the requests that count and insert overlap.
THEOREM PaymentNumbersHaveNoGap ==
  ASSUME NothingDeleted
  PROVE  Spec => []PaymentNumbersSequential
<1>1. Init => NInv
  <2> SUFFICES ASSUME Init PROVE NInv
    OBVIOUS
  <2>1. PaymentNumbersSequential
    BY FS_EmptySet DEF Init, PaymentNumbersSequential
  <2>2. \A p \in Reqs : NumberHeld(p)
    BY DEF Init, NumberHeld, Idle
  <2> QED BY <2>1, <2>2, TInvInit DEF NInv
<1>2. NInv /\ [Next]_vars => NInv'
  BY NInvStep
<1>3. NInv => PaymentNumbersSequential
  BY DEF NInv
<1> QED BY <1>1, <1>2, <1>3, PTL DEF Spec

\* The row a request has read says no more was paid than the payments add up to.
Understated(p) ==
  /\ req[p].op \notin {"unpay", "resum", "drop"}
  /\ req[p].op \in {"count", "record", "update"} =>
       req[p].snap.paid <= Sum(PaymentsOf(req[p].inv, payments))

\* Payments only add up to more, so what was read of them stays an understatement.
PInv == TInv /\ PaidNotOverstated /\ \A p \in Reqs : Understated(p)

\* The payments of one invoice are finitely many and their sum is a number.
LEMMA SumOfInvoice ==
  ASSUME TInv, NEW i \in Invoices
  PROVE  IsFiniteSet(PaymentsOf(i, payments)) /\ Sum(PaymentsOf(i, payments)) \in Nat
<1>1. PaymentsOf(i, payments) \subseteq payments /\ payments \subseteq Payments
  BY DEF PaymentsOf, TInv, TypeOK
<1>2. IsFiniteSet(PaymentsOf(i, payments))
  BY <1>1, FS_Subset DEF TInv
<1> QED BY <1>1, <1>2, SumType

\* A payment that is committed has a new number, so it adds to the sum of its invoice.
LEMMA RecordAdds ==
  ASSUME TInv, NEW p \in Reqs, RecordCommit(p)
  PROVE  /\ req[p].inv \in Invoices /\ req[p].amt \in Nat /\ req[p].ok \in BOOLEAN
         /\ req[p].snap \in Rows
         /\ \A i \in Invoices :
              Sum(PaymentsOf(i, payments')) =
                Sum(PaymentsOf(i, payments)) +
                  (IF i = req[p].inv /\ req[p].ok THEN req[p].amt ELSE 0)
<1> DEFINE r == req[p]
           x == [id |-> nextPay, num |-> r.num, inv |-> r.inv, amt |-> r.amt, ok |-> r.ok]
<1>1. /\ r.inv \in Invoices /\ r.amt \in Nat /\ r.ok \in BOOLEAN /\ r.snap \in Rows
      /\ r.num \in Nat
  BY DEF RecordCommit, TInv, TypeOK, Requests, Idle
<1>2. x \in Payments /\ x.num = r.num /\ x.inv = r.inv /\ x.amt = r.amt
  BY <1>1 DEF Payments, TInv, TypeOK
<1>3. x.ok = r.ok
  BY Zenon
<1>4. payments' = payments \cup {x} /\ x \notin payments
  <2>1. payments' = payments \cup {x} /\ NumberFree(r.num)
    BY DEF RecordCommit
  <2> QED BY <1>2, <2>1 DEF NumberFree
<1> HIDE DEF x
<1>5. ASSUME NEW i \in Invoices
      PROVE  Sum(PaymentsOf(i, payments')) =
               Sum(PaymentsOf(i, payments)) + (IF i = r.inv /\ r.ok THEN r.amt ELSE 0)
  <2>1. /\ IsFiniteSet(PaymentsOf(i, payments)) /\ Sum(PaymentsOf(i, payments)) \in Nat
        /\ PaymentsOf(i, payments) \subseteq Payments /\ x \notin PaymentsOf(i, payments)
    BY <1>4, SumOfInvoice DEF PaymentsOf, TInv, TypeOK
  <2>2. CASE i = r.inv
    <3>1. PaymentsOf(i, payments') = PaymentsOf(i, payments) \cup {x}
      BY <1>2, <1>4, <2>2 DEF PaymentsOf
    <3>2. Sum(PaymentsOf(i, payments')) =
            Sum(PaymentsOf(i, payments)) + (IF x.ok THEN x.amt ELSE 0)
      BY <1>2, <2>1, <3>1, SumAdd
    <3> QED BY <1>2, <1>3, <2>2, <3>2
  <2>3. CASE i # r.inv
    <3>1. PaymentsOf(i, payments') = PaymentsOf(i, payments)
      BY <1>2, <1>4, <2>3 DEF PaymentsOf
    <3> QED BY <2>1, <2>3, <3>1
  <2> QED BY <2>2, <2>3
<1> QED BY <1>1, <1>5

\* One step per action; only RecordCommit changes the sums.
LEMMA PInvStep ==
  ASSUME NothingDeleted
  PROVE  PInv /\ [Next]_vars => PInv'
<1> SUFFICES ASSUME PInv, [Next]_vars PROVE PInv'
  OBVIOUS
<1> DEFINE paidBy(i) == Sum(PaymentsOf(i, payments))
<1>1. TInv' /\ TInv
  BY TInvStep DEF PInv
<1>2. \A i \in Invoices : paidBy(i) \in Nat
  BY <1>1, SumOfInvoice
<1>3. CASE UNCHANGED vars
  BY <1>1, <1>3 DEF vars, PInv, PaidNotOverstated, Understated, Live
<1>4. ASSUME NEW p \in Reqs, Step(p) PROVE PInv'
  <2> USE DEF PInv
  <2>0. /\ invoice \in [Invoices -> Rows] /\ req \in [Reqs -> Requests]
        /\ payments \subseteq Payments
    BY <1>1 DEF TInv, TypeOK
  <2>1. ~UnpayResum(p) /\ ~UnpayCommit(p) /\ ~DropCommit(p)
    BY DEF UnpayResum, UnpayCommit, DropCommit, Understated
  <2>2. (\A i \in Invoices : ~DropRead(p, i)) /\ \A x \in payments : ~UnpayRead(p, x)
    BY DEF DropRead, UnpayRead, May, NothingDeleted
  <2>3. ASSUME UNCHANGED <<invoice, payments>>, \A q \in Reqs : q # p => req'[q] = req[q],
               Understated(p)'
        PROVE  PInv'
    <3>1. PaidNotOverstated'
      BY <2>3 DEF PaidNotOverstated, Live
    <3>2. ASSUME NEW q \in Reqs PROVE Understated(q)'
      BY <2>3 DEF Understated
    <3> QED BY <1>1, <3>1, <3>2
  <2>4. ASSUME NEW i \in Invoices, UNCHANGED <<payments>>,
               \A j \in Invoices \ {i} : invoice'[j] = invoice[j],
               invoice'[i].paid <= paidBy(i),
               \A q \in Reqs : req'[q] \in {req[q], Idle}
        PROVE  PInv'
    <3>1. PaidNotOverstated'
      BY <2>4 DEF PaidNotOverstated, Live
    <3>2. ASSUME NEW q \in Reqs PROVE Understated(q)'
      BY <2>4 DEF Understated, Idle
    <3> QED BY <1>1, <3>1, <3>2
  <2>5. ASSUME NEW i \in Invoices, Live(i), NEW r, req' = [req EXCEPT ![p] = r],
               UNCHANGED <<invoice, payments>>,
               r.op \in {"count", "update"}, r.inv = i, r.snap = invoice[i]
        PROVE  PInv'
    <3>1. invoice[i].paid <= paidBy(i)
      BY <2>5 DEF PaidNotOverstated
    <3>2. req'[p] = r /\ \A q \in Reqs : q # p => req'[q] = req[q]
      BY <2>0, <2>5
    <3>3. Understated(p)'
      BY <2>5, <3>1, <3>2 DEF Understated
    <3> QED BY <2>3, <2>5, <3>2, <3>3
  <2>6. ASSUME NEW i \in Invoices, NEW t \in Totals, NEW s \in ManualStatuses \cup {"DRAFT"},
               CreateInvoice(p, i, t, s)
        PROVE  PInv'
    <3>1. invoice'[i].paid = 0
      BY <2>0, <2>6 DEF CreateInvoice
    <3> QED BY <1>2, <2>0, <2>4, <2>6, <3>1 DEF CreateInvoice
  <2>7. ASSUME NEW i \in Invoices, NEW a \in PayAmounts, NEW ok \in BOOLEAN,
               RecordRead(p, i, a, ok)
        PROVE  PInv'
    <3> DEFINE r == [op |-> "count", inv |-> i, amt |-> a, ok |-> ok, snap |-> invoice[i]]
    <3>1. req' = [req EXCEPT ![p] = r] /\ Live(i) /\ UNCHANGED <<invoice, payments>>
      BY <2>7 DEF RecordRead
    <3>2. r.op \in {"count", "update"} /\ r.inv = i /\ r.snap = invoice[i]
      OBVIOUS
    <3> HIDE DEF r
    <3> QED BY <2>5, <3>1, <3>2
  <2>8. ASSUME NEW i \in Invoices, NEW t \in Totals \cup {KeepTotal},
               NEW s \in ManualStatuses \cup {KeepStatus}, UpdateRead(p, i, t, s)
        PROVE  PInv'
    <3> DEFINE r == [op |-> "update", inv |-> i, snap |-> invoice[i], total |-> t, status |-> s]
    <3>1. req' = [req EXCEPT ![p] = r] /\ Live(i) /\ UNCHANGED <<invoice, payments>>
      BY <2>8 DEF UpdateRead
    <3>2. r.op \in {"count", "update"} /\ r.inv = i /\ r.snap = invoice[i]
      OBVIOUS
    <3> HIDE DEF r
    <3> QED BY <2>5, <3>1, <3>2
  <2>9. ASSUME UNCHANGED <<invoice, payments>>, NEW r, req' = [req EXCEPT ![p] = r],
               r.op \in {"status", "send", "idle"}
        PROVE  PInv'
    BY <2>0, <2>3, <2>9 DEF Understated
  <2>10. ASSUME NEW i \in Invoices, NEW s \in ManualStatuses, StatusRead(p, i, s)
         PROVE  PInv'
    BY <2>9, <2>10 DEF StatusRead
  <2>11. ASSUME NEW i \in Invoices, SendRead(p, i) PROVE PInv'
    BY <2>9, <2>11 DEF SendRead
  <2>12. CASE Abort(p)
    BY <2>9, <2>12 DEF Abort, Commit, Idle
  <2>13. CASE RecordCount(p)
    <3> DEFINE n == AllocatePaymentNumber(payments)
    <3>1. /\ UNCHANGED <<invoice, payments>> /\ req[p].op = "count"
          /\ req'[p].op = "record" /\ req'[p].inv = req[p].inv /\ req'[p].snap = req[p].snap
          /\ \A q \in Reqs : q # p => req'[q] = req[q]
      <4> HIDE DEF n
      <4> QED BY <2>0, <2>13 DEF RecordCount
    <3>2. Understated(p)'
      BY <3>1 DEF Understated
    <3> QED BY <2>3, <3>1, <3>2
  <2>14. CASE UpdateCommit(p)
    <3> DEFINE r == req[p]
    <3>1. r.inv \in Invoices /\ r.snap \in Rows /\ r.snap.paid <= paidBy(r.inv)
      BY <2>0, <2>14 DEF UpdateCommit, Requests, Idle, Understated
    <3>2. invoice[r.inv].paid <= paidBy(r.inv)
      BY <2>14, <3>1 DEF UpdateCommit, PaidNotOverstated
    <3>3. invoice[r.inv] \in Rows
      BY <2>0, <3>1
    <3>4. invoice'[r.inv].paid \in {invoice[r.inv].paid, r.snap.paid}
      BY <2>0, <2>14, <3>1, <3>3 DEF UpdateCommit, Relabelled, Retotalled, Rows
    <3> QED BY <2>0, <2>4, <2>14, <3>1, <3>2, <3>4 DEF UpdateCommit, Commit
  <2>15. CASE StatusCommit(p) \/ SendCommit(p)
    <3> DEFINE i == req[p].inv
    <3>1. i \in Invoices /\ Live(i)
      BY <2>0, <2>15 DEF StatusCommit, SendCommit, Requests, Idle
    <3>2. invoice[i] \in Rows
      BY <2>0, <3>1
    <3>3. invoice'[i].paid = invoice[i].paid
      BY <2>0, <2>15, <3>1, <3>2 DEF StatusCommit, SendCommit, Rows
    <3>4. invoice[i].paid <= paidBy(i)
      BY <3>1 DEF PaidNotOverstated
    <3> QED BY <2>0, <2>4, <2>15, <3>1, <3>3, <3>4 DEF StatusCommit, SendCommit, Commit
  <2>16. CASE RecordCommit(p)
    <3> DEFINE r == req[p]
               later(i) == Sum(PaymentsOf(i, payments'))
    <3>1. /\ r.inv \in Invoices /\ r.amt \in Nat /\ r.ok \in BOOLEAN /\ r.snap \in Rows
          /\ \A i \in Invoices :
               later(i) = paidBy(i) + (IF i = r.inv /\ r.ok THEN r.amt ELSE 0)
      BY <1>1, <2>16, RecordAdds
    <3>2. \A i \in Invoices : later(i) \in Nat /\ paidBy(i) <= later(i)
      BY <1>2, <3>1
    <3>3. /\ r.op = "record" /\ Live(r.inv)
          /\ \A q \in Reqs : req'[q] = IF q = p THEN Idle ELSE req[q]
          /\ invoice' = IF r.ok THEN [invoice EXCEPT ![r.inv] = Paid(@, r.snap, r.amt)]
                                ELSE invoice
      BY <2>0, <2>16 DEF RecordCommit, Commit
    <3>4. ASSUME NEW q \in Reqs PROVE Understated(q)'
      <4>1. CASE q = p
        BY <3>3, <4>1 DEF Understated, Idle
      <4>2. CASE q # p
        <5>1. req'[q] = req[q] /\ Understated(q)
          BY <3>3, <4>2
        <5>2. CASE req[q].op \in {"count", "record", "update"}
          <6>1. req[q].inv \in Invoices /\ req[q].snap.paid \in Nat
            BY <2>0, <5>2 DEF Requests, Idle, Rows
          <6>2. req[q].snap.paid <= paidBy(req[q].inv)
            BY <5>1, <5>2 DEF Understated
          <6>3. req[q].snap.paid <= later(req[q].inv)
            BY <1>2, <3>2, <6>1, <6>2
          <6> QED BY <5>1, <6>3 DEF Understated
        <5>3. CASE req[q].op \notin {"count", "record", "update"}
          BY <5>1, <5>3 DEF Understated
        <5> QED BY <5>2, <5>3
      <4> QED BY <4>1, <4>2
    <3>5. ASSUME NEW i \in Invoices, Live(i)' PROVE invoice'[i].paid <= later(i)
      <4>1. CASE i = r.inv /\ r.ok
        <5>1. r.snap.paid <= paidBy(i) /\ r.snap.paid \in Nat
          BY <3>1, <3>3, <4>1 DEF Understated, Rows
        <5>2. invoice'[i].paid = r.snap.paid + r.amt
          BY <2>0, <3>1, <3>3, <4>1 DEF Paid, Rows
        <5>3. later(i) = paidBy(i) + r.amt
          BY <3>1, <4>1
        <5> HIDE DEF later, paidBy, r
        <5> QED BY <1>2, <3>1, <5>1, <5>2, <5>3
      <4>2. CASE ~(i = r.inv /\ r.ok)
        <5>1. invoice'[i] = invoice[i]
          BY <2>0, <3>1, <3>3, <4>2
        <5>2. invoice[i].paid <= paidBy(i) /\ invoice[i].paid \in Nat
          BY <2>0, <3>5, <5>1 DEF PaidNotOverstated, Live, Rows
        <5>3. paidBy(i) <= later(i) /\ paidBy(i) \in Nat /\ later(i) \in Nat
          BY <1>2, <3>2
        <5> HIDE DEF later, paidBy, r
        <5> QED BY <5>1, <5>2, <5>3
      <4> QED BY <4>1, <4>2
    <3>6. PaidNotOverstated'
      BY <3>5 DEF PaidNotOverstated
    <3> QED BY <1>1, <3>4, <3>6
  <2> QED BY <1>4, <2>1, <2>2, <2>6, <2>7, <2>8, <2>10, <2>11, <2>12, <2>13, <2>14, <2>15, <2>16
             DEF Step
<1> QED BY <1>3, <1>4 DEF Next

\* While nothing is deleted no invoice says that more was paid than its payments add up to,
\* whatever stale row a request computed it from.
THEOREM PaidIsNeverOverstated ==
  ASSUME NothingDeleted
  PROVE  Spec => []PaidNotOverstated
<1>1. Init => PInv
  <2> SUFFICES ASSUME Init PROVE PInv
    OBVIOUS
  <2>1. PaidNotOverstated
    BY DEF Init, PaidNotOverstated, Live
  <2>2. \A p \in Reqs : Understated(p)
    BY DEF Init, Understated, Idle
  <2> QED BY <2>1, <2>2, TInvInit DEF PInv
<1>2. PInv /\ [Next]_vars => PInv'
  BY PInvStep
<1>3. PInv => PaidNotOverstated
  BY DEF PInv
<1> QED BY <1>1, <1>2, <1>3, PTL DEF Spec

-----------------------------------------------------------------------------
\* The refinement of SerialLedger

\* What request p decided on, beyond what Held says; it is still so unless p is
\* stale.
Firm(p) ==
  LET r == req[p]
  IN /\ r.op \in {"count", "record"} => r.amt \in PayAmounts
     /\ r.op = "record" => r.num \in 1 .. nextPay
     /\ r.op = "update" => /\ r.total \in Totals \cup {KeepTotal}
                           /\ r.status \in ManualStatuses \cup {KeepStatus}
     /\ r.op = "status" => r.status \in ManualStatuses
     /\ p \notin stale =>
          /\ r.op = "status" => ~(invoice[r.inv].status = "PAID" /\ r.status = "DRAFT")
          /\ r.op = "send" => invoice[r.inv].status = "DRAFT"
          /\ r.op = "resum" => \E x \in payments : x.id = r.pay

SInv ==
  /\ LInv
  /\ Cardinality(payments) < nextPay
  /\ \A i \in raced : invoice[i].row # "none"
  /\ \A p \in Reqs : Firm(p)

\* A count of the payments is always a number below the next identity.
LEMMA FewerThanNext ==
  ASSUME SInv, [Next]_vars
  PROVE  (Cardinality(payments) < nextPay)'
<1>1. IsFiniteSet(payments) /\ nextPay \in Nat /\ Cardinality(payments) \in Nat
  BY FS_CardinalityType DEF SInv, LInv, TInv, TypeOK
<1>2. CASE payments' \subseteq payments /\ nextPay' = nextPay
  <2>1. Cardinality(payments') <= Cardinality(payments) /\ Cardinality(payments') \in Nat
    BY <1>1, <1>2, FS_Subset, FS_CardinalityType
  <2> QED BY <1>1, <1>2, <2>1 DEF SInv
<1>3. ASSUME NEW p \in Reqs, RecordCommit(p)
      PROVE  (Cardinality(payments) < nextPay)'
  <2>1. nextPay' = nextPay + 1 /\ \E x : payments' = payments \cup {x}
    BY <1>3 DEF RecordCommit
  <2>2. PICK x : payments' = payments \cup {x}
    BY <2>1
  <2>3. Cardinality(payments') \in {Cardinality(payments), Cardinality(payments) + 1}
    BY <1>1, <2>2, FS_AddElement
  <2> QED BY <1>1, <2>1, <2>3 DEF SInv
<1>4. ASSUME NEW p \in Reqs, Step(p), ~RecordCommit(p)
      PROVE  payments' \subseteq payments /\ nextPay' = nextPay
  BY <1>4 DEF Step, CreateInvoice, RecordRead, UpdateRead, StatusRead, SendRead, DropRead,
           UnpayRead, RecordCount, UpdateCommit, StatusCommit, SendCommit, UnpayResum,
           UnpayCommit, DropCommit, Abort
<1> QED BY <1>2, <1>3, <1>4 DEF Next, vars

\* A raced invoice exists.
LEMMA RacedExist ==
  ASSUME SInv, [Next]_vars
  PROVE  \A i \in raced' : invoice'[i].row # "none"
<1>1. CASE UNCHANGED vars
  BY <1>1 DEF SInv, vars
<1>2. ASSUME NEW p \in Reqs, Step(p), NEW i \in raced'
      PROVE  invoice'[i].row # "none"
  <2>1. LInv /\ Tables /\ raced \subseteq Invoices
    BY DEF SInv, LInv, TInv, TypeOK, Tables
  <2>2. CASE i \in raced
    BY <1>2, <2>1, <2>2, StepIsLocal DEF SInv
  <2>3. CASE i \notin raced
    <3>1. ~(raced' = raced)
      BY <1>2, <2>3
    <3>2. /\ Commit(p)
          /\ \/ RecordCommit(p) \/ UpdateCommit(p) \/ StatusCommit(p)
             \/ SendCommit(p) \/ UnpayCommit(p) \/ DropCommit(p)
      BY <1>2, <2>1, <3>1, StepKinds DEF Abort
    <3>3. i = req[p].inv
      BY <2>3, <3>2 DEF Commit
    <3> QED BY <2>1, <3>2, <3>3, CommitIsLocal
  <2> QED BY <2>2, <2>3
<1> QED BY <1>1, <1>2 DEF Next

LEMMA OthersFirm ==
  ASSUME SInv, NEW p \in Reqs, Step(p), NEW q \in Reqs \ {p}
  PROVE  Firm(q)'
<1> DEFINE r == req[q]
<1>1. /\ req'[q] = r /\ Held(q) /\ Firm(q) /\ nextPay <= nextPay' /\ nextPay \in Int
      /\ nextPay' \in Int /\ r \in Requests
      /\ q \in stale => q \in stale'
  BY StepIsLocal, TInvStep DEF SInv, LInv, TInv, TypeOK, Next
<1>2. CASE r = Idle
  BY <1>1, <1>2 DEF Firm, Idle
<1>3. CASE r # Idle
  <2>1. r.inv \in Invoices /\ invoice[r.inv].row # "none"
    BY <1>1, <1>3, RequestFields DEF Held, SInv, LInv, TInv
  <2>2. \/ /\ invoice'[r.inv] = invoice[r.inv]
           /\ PaymentsOf(r.inv, payments') = PaymentsOf(r.inv, payments)
        \/ Commit(p) /\ r.inv = req[p].inv
    BY <2>1, StepIsLocal DEF SInv
  <2>3. r.op = "record" => r.num \in 1 .. nextPay'
    BY <1>1 DEF Firm
  <2>4. CASE /\ invoice'[r.inv] = invoice[r.inv]
             /\ PaymentsOf(r.inv, payments') = PaymentsOf(r.inv, payments)
    <3>1. q \notin stale => (r.op = "resum" => \E x \in payments' : x.id = r.pay)
      BY <1>1, <2>4 DEF Held, Firm, PaymentsOf
    <3> QED BY <1>1, <2>3, <2>4, <3>1 DEF Firm
  <2>5. CASE Commit(p) /\ r.inv = req[p].inv
    <3>1. q \in stale'
      BY <1>3, <2>5 DEF Commit, Overtaken
    <3> QED BY <1>1, <2>3, <3>1 DEF Firm
  <2> QED BY <2>2, <2>4, <2>5
<1> QED BY <1>2, <1>3

LEMMA OwnFirm ==
  ASSUME SInv, NEW p \in Reqs, Step(p)
  PROVE  Firm(p)'
<1> USE DEF Firm
<1>1. /\ req \in [Reqs -> Requests] /\ nextPay \in Nat /\ Cardinality(payments) \in Nat
      /\ Cardinality(payments) < nextPay
  BY FS_CardinalityType DEF SInv, LInv, TInv, TypeOK
<1>2. CASE req'[p] = Idle
  BY <1>2 DEF Idle
<1>3. ASSUME NEW i \in Invoices, NEW t \in Totals, NEW s \in ManualStatuses \cup {"DRAFT"},
             CreateInvoice(p, i, t, s)
      PROVE  req'[p] = Idle
  BY <1>3 DEF CreateInvoice, May
<1>4. ASSUME NEW i \in Invoices, NEW a \in PayAmounts, NEW ok \in BOOLEAN,
             RecordRead(p, i, a, ok)
      PROVE  Firm(p)'
  BY <1>1, <1>4 DEF RecordRead
<1>5. ASSUME NEW i \in Invoices, NEW t \in Totals \cup {KeepTotal},
             NEW s \in ManualStatuses \cup {KeepStatus}, UpdateRead(p, i, t, s)
      PROVE  Firm(p)'
  BY <1>1, <1>5 DEF UpdateRead
<1>6. ASSUME NEW i \in Invoices, NEW s \in ManualStatuses, StatusRead(p, i, s)
      PROVE  Firm(p)'
  BY <1>1, <1>6 DEF StatusRead
<1>7. ASSUME NEW i \in Invoices, SendRead(p, i) \/ DropRead(p, i)
      PROVE  Firm(p)'
  BY <1>1, <1>7 DEF SendRead, DropRead
<1>8. ASSUME NEW x \in payments, UnpayRead(p, x)
      PROVE  Firm(p)'
  BY <1>1, <1>8 DEF UnpayRead
<1>9. CASE RecordCount(p)
  <2>1. /\ req[p].op = "count" /\ Firm(p) /\ nextPay' = nextPay
        /\ req'[p] = [op |-> "record", inv |-> req[p].inv, amt |-> req[p].amt,
                      ok |-> req[p].ok, snap |-> req[p].snap, num |-> Cardinality(payments) + 1]
    BY <1>1, <1>9 DEF RecordCount, AllocatePaymentNumber, SInv
  <2> QED BY <1>1, <2>1
<1>10. CASE UnpayResum(p)
  BY <1>1, <1>10 DEF UnpayResum
<1>11. CASE \/ RecordCommit(p) \/ UpdateCommit(p) \/ StatusCommit(p) \/ SendCommit(p)
            \/ UnpayCommit(p) \/ DropCommit(p) \/ Abort(p)
  BY <1>1, <1>2, <1>11 DEF RecordCommit, UpdateCommit, StatusCommit, SendCommit, UnpayCommit,
                           DropCommit, Abort, Commit
<1> HIDE DEF Firm
<1> QED BY <1>2, <1>3, <1>4, <1>5, <1>6, <1>7, <1>8, <1>9, <1>10, <1>11 DEF Step

LEMMA SInvAlways == Spec => []SInv
<1>1. Init => SInv
  <2> SUFFICES ASSUME Init PROVE SInv
    OBVIOUS
  <2>1. Cardinality(payments) < nextPay
    BY FS_EmptySet DEF Init
  <2>2. \A p \in Reqs : Firm(p)
    BY DEF Init, Firm, Idle
  <2>3. \A i \in raced : invoice[i].row # "none"
    BY DEF Init
  <2> QED BY <2>1, <2>2, <2>3, LInvInit DEF SInv
<1>2. SInv /\ [Next]_vars => SInv'
  <2> SUFFICES ASSUME SInv, [Next]_vars PROVE SInv'
    OBVIOUS
  <2>1. LInv' /\ (Cardinality(payments) < nextPay)' /\ (\A i \in raced : invoice[i].row # "none")'
    BY LInvStep, FewerThanNext, RacedExist DEF SInv
  <2>2. CASE UNCHANGED vars
    <3>1. ASSUME NEW p \in Reqs PROVE Firm(p)'
      <4>1. Firm(p)
        BY DEF SInv
      <4> QED BY <2>2, <4>1 DEF vars, Firm
    <3> QED BY <2>1, <3>1 DEF SInv
  <2>3. ASSUME NEW p \in Reqs, Step(p) PROVE SInv'
    <3>1. \A q \in Reqs : Firm(q)'
      BY <2>3, OthersFirm, OwnFirm
    <3> QED BY <2>1, <3>1 DEF SInv
  <2> QED BY <2>2, <2>3 DEF Next
<1> QED BY <1>1, <1>2, PTL DEF Spec

\* One row is replaced, and so is what SerialLedger sees of it.
LEMMA BillWritten ==
  ASSUME invoice \in [Invoices -> Rows], NEW i \in Invoices, i \notin raced, raced' = raced,
         NEW v, invoice' = [invoice EXCEPT ![i] = v]
  PROVE  [j \in Invoices |-> SeenBill(j)'] =
           [[j \in Invoices |-> SeenBill(j)] EXCEPT ![i] = Bill(v)]
BY DEF SeenBill

\* What holds of a request that is about to commit on an invoice it does not race.
LEMMA Committing ==
  ASSUME SInv, NEW p \in Reqs, req[p].op # "idle", Commit(p), req[p].inv \notin raced'
  PROVE  /\ invoice \in [Invoices -> Rows] /\ req[p].inv \in Invoices
         /\ invoice[req[p].inv] \in Rows
         /\ Held(p) /\ Firm(p) /\ p \notin stale
         /\ req[p].inv \notin raced /\ raced' = raced
         /\ SeenBill(req[p].inv) = Bill(invoice[req[p].inv])
         /\ Live(req[p].inv) =>
              Bill(invoice[req[p].inv]) =
                [row |-> "live", total |-> invoice[req[p].inv].total,
                 status |-> invoice[req[p].inv].status, sent |-> invoice[req[p].inv].sent]
<1>1. req[p] # Idle
  BY DEF Idle
<1>2. invoice \in [Invoices -> Rows] /\ req[p].inv \in Invoices
  BY <1>1, RequestFields DEF SInv, LInv, TInv, TypeOK
<1>3. Held(p) /\ Firm(p)
  BY DEF SInv, LInv
<1>4. p \notin stale /\ req[p].inv \notin raced /\ raced' = raced
  BY <1>2 DEF Commit
<1> QED BY <1>2, <1>3, <1>4 DEF Bill, Live, SeenBill

\* A request that was overtaken races its invoice when it commits; of an
\* invoice raced before, nothing is seen.
LEMMA MapsRace ==
  ASSUME SInv, SInv', NEW p \in Reqs, req[p].inv \in raced',
         \/ RecordCommit(p) \/ UpdateCommit(p) \/ StatusCommit(p)
         \/ SendCommit(p) \/ UnpayCommit(p) \/ DropCommit(p)
  PROVE  (\E i \in Invoices : Serial!Race(i)) \/ UNCHANGED Serial!vars
<1> DEFINE i == req[p].inv
           B == [j \in Invoices |-> SeenBill(j)]
<1>1. /\ Commit(p) /\ i \in Invoices /\ Live(i)
      /\ \A j \in Invoices \ {i} :
           invoice'[j] = invoice[j] /\ PaymentsOf(j, payments') = PaymentsOf(j, payments)
  BY CommitIsLocal DEF SInv
<1>2. raced' = raced \cup {i}
  BY <1>1 DEF Commit
<1>3. \A x \in payments \cup payments' : x.inv \in Invoices
  BY DEF SInv, LInv, TInv, TypeOK, Payments
<1> HIDE DEF i
<1>4. SeenPayments' = SeenPayments \ PaymentsOf(i, SeenPayments)
  BY <1>1, <1>2, <1>3 DEF SeenPayments, PaymentsOf
<1>5. B' = [B EXCEPT ![i] = Raced]
  BY <1>1, <1>2 DEF SeenBill
<1>6. CASE i \in raced
  <2>1. SeenPayments' = SeenPayments
    BY <1>4, <1>6 DEF SeenPayments, PaymentsOf
  <2>2. B' = B
    BY <1>1, <1>5, <1>6 DEF SeenBill
  <2> QED BY <2>1, <2>2 DEF Serial!vars
<1>7. CASE i \notin raced
  <2>1. B[i].row = "live"
    BY <1>1, <1>7 DEF SeenBill, Bill, Live
  <2>2. Serial!PaymentsOf(i, SeenPayments) = PaymentsOf(i, SeenPayments)
    BY DEF Serial!PaymentsOf, PaymentsOf
  <2>3. Serial!Raced = Raced
    BY DEF Serial!Raced, Raced
  <2>4. Serial!Race(i)
    BY <1>4, <1>5, <2>1, <2>2, <2>3 DEF Serial!Race, Serial!Live
  <2> QED BY <1>1, <2>4
<1> QED BY <1>6, <1>7

LEMMA MapsCreate ==
  ASSUME SInv, NEW p \in Reqs, NEW i \in Invoices, NEW t \in Totals,
         NEW s \in ManualStatuses \cup {"DRAFT"}, CreateInvoice(p, i, t, s)
  PROVE  Serial!Create(i, t, s)
<1> DEFINE v == [row |-> "live", total |-> t, paid |-> 0, balance |-> t, status |-> s,
                 sent |-> FALSE]
<1>1. Bill(v) = [row |-> "live", total |-> t, status |-> s, sent |-> FALSE]
  BY DEF Bill
<1>2. invoice' = [invoice EXCEPT ![i] = v] /\ invoice[i].row = "none" /\ UNCHANGED payments
  BY DEF CreateInvoice
<1>3. i \notin raced /\ UNCHANGED raced
  BY <1>2 DEF SInv, CreateInvoice
<1>4. SeenBill(i).row = "none"
  BY <1>2, <1>3 DEF Bill, SeenBill
<1>5. SeenPayments' = SeenPayments
  BY <1>2, <1>3 DEF SeenPayments
<1> HIDE DEF v
<1>6. [j \in Invoices |-> SeenBill(j)'] =
        [[j \in Invoices |-> SeenBill(j)] EXCEPT ![i] = Bill(v)]
  BY <1>2, <1>3, BillWritten DEF SInv, LInv, TInv, TypeOK
<1> QED BY <1>1, <1>4, <1>5, <1>6 DEF Serial!Create

\* Only statuses, sent marks and totals of a row can be seen in its bill.
LEMMA MapsUpdate ==
  ASSUME SInv, NEW p \in Reqs, UpdateCommit(p), req[p].inv \notin raced'
  PROVE  \E i \in Invoices :
           /\ i \notin raced
           /\ \E t \in Totals \cup {invoice[i].total},
                 s \in ManualStatuses \cup {invoice[i].status} : Serial!Update(i, t, s)
<1> DEFINE r == req[p]
           i == r.inv
           t == IF r.total = KeepTotal THEN invoice[i].total ELSE r.total
           s == IF r.status = KeepStatus THEN invoice[i].status ELSE r.status
           B == [j \in Invoices |-> SeenBill(j)]
           v == Relabelled(Retotalled(invoice[i], r.snap, r.total), r.status)
<1>1. /\ r.op = "update" /\ Commit(p) /\ Live(i) /\ UNCHANGED payments
      /\ invoice' = [invoice EXCEPT ![i] = Relabelled(Retotalled(@, r.snap, r.total), r.status)]
  BY DEF UpdateCommit
<1>2. /\ i \notin raced /\ raced' = raced /\ SeenBill(i) = Bill(invoice[i])
      /\ invoice \in [Invoices -> Rows] /\ i \in Invoices /\ r.snap = invoice[i]
      /\ r.snap.status # "PAID" /\ invoice[i] \in Rows
      /\ r.total \in Totals \cup {KeepTotal} /\ r.status \in ManualStatuses \cup {KeepStatus}
  BY <1>1, Committing DEF Held, Firm
<1>3. Bill(v) = [row |-> "live", total |-> t, status |-> s, sent |-> invoice[i].sent]
  BY <1>1, <1>2 DEF Bill, Relabelled, Retotalled, Rows, Live
<1>4. invoice' = [invoice EXCEPT ![i] = v]
  BY <1>1, <1>2
<1>5. Bill(invoice[i]) = [row |-> "live", total |-> invoice[i].total,
                          status |-> invoice[i].status, sent |-> invoice[i].sent]
  BY <1>1 DEF Bill, Live
<1>6. t \in Totals \cup {invoice[i].total} /\ s \in ManualStatuses \cup {invoice[i].status}
  BY <1>2
<1> HIDE DEF v, t, s
<1>7. B' = [B EXCEPT ![i] = Bill(v)] /\ B[i] = Bill(invoice[i])
  BY <1>2, <1>4, BillWritten
<1>e. /\ B' = [B EXCEPT ![i] = [B[i] EXCEPT !.total = t, !.status = s]]
      /\ B[i] = Bill(invoice[i])
  <2> HIDE DEF B
  <2> DEFINE u == [B[i] EXCEPT !.total = t]
  <2>1. u = [row |-> "live", total |-> t,
             status |-> invoice[i].status, sent |-> invoice[i].sent]
    BY <1>5, <1>7
  <2>2. Bill(v) = [u EXCEPT !.status = s]
    <3> HIDE DEF u
    <3> QED BY <1>3, <2>1
  <2> QED BY <1>7, <2>2
<1>8. Serial!Update(i, t, s)
  BY <1>e, <1>1, <1>2, <1>3, <1>5, <1>7 DEF Serial!Update, Serial!Live, SeenPayments
<1> QED BY <1>2, <1>6, <1>8

LEMMA MapsStatus ==
  ASSUME SInv, NEW p \in Reqs, StatusCommit(p), req[p].inv \notin raced'
  PROVE  \E i \in Invoices : \E s \in ManualStatuses : Serial!SetStatus(i, s)
<1> DEFINE r == req[p]
           i == r.inv
           B == [j \in Invoices |-> SeenBill(j)]
           v == [invoice[i] EXCEPT !.status = r.status]
<1>1. /\ r.op = "status" /\ Commit(p) /\ Live(i) /\ UNCHANGED payments
      /\ invoice' = [invoice EXCEPT ![i].status = r.status]
  BY DEF StatusCommit
<1>2. /\ i \notin raced /\ raced' = raced /\ SeenBill(i) = Bill(invoice[i])
      /\ invoice \in [Invoices -> Rows] /\ i \in Invoices /\ invoice[i] \in Rows
      /\ r.status \in ManualStatuses
      /\ ~(invoice[i].status = "PAID" /\ r.status = "DRAFT")
  BY <1>1, Committing DEF Firm
<1>3. Bill(v) = [row |-> "live", total |-> invoice[i].total, status |-> r.status,
                 sent |-> invoice[i].sent]
  BY <1>1, <1>2 DEF Bill, Rows, Live
<1>4. invoice' = [invoice EXCEPT ![i] = v]
  BY <1>1, <1>2
<1>5. Bill(invoice[i]) = [row |-> "live", total |-> invoice[i].total,
                          status |-> invoice[i].status, sent |-> invoice[i].sent]
  BY <1>1 DEF Bill, Live
<1> HIDE DEF v
<1>6. B' = [B EXCEPT ![i] = Bill(v)] /\ B[i] = Bill(invoice[i])
  BY <1>2, <1>4, BillWritten
<1>e. /\ B' = [B EXCEPT ![i] = [B[i] EXCEPT !.status = r.status]]
      /\ B[i] = Bill(invoice[i])
  <2> HIDE DEF B
  <2>1. Bill(v) = [B[i] EXCEPT !.status = r.status]
    BY <1>2, <1>3, <1>5, <1>6
  <2> QED BY <2>1, <1>6
<1>7. Serial!SetStatus(i, r.status)
  BY <1>e, <1>1, <1>2, <1>3, <1>5, <1>6 DEF Serial!SetStatus, Serial!Live, SeenPayments
<1> QED BY <1>2, <1>7

LEMMA MapsSend ==
  ASSUME SInv, NEW p \in Reqs, SendCommit(p), req[p].inv \notin raced'
  PROVE  \E i \in Invoices : Serial!Send(i)
<1> DEFINE r == req[p]
           i == r.inv
           B == [j \in Invoices |-> SeenBill(j)]
           v == [invoice[i] EXCEPT !.status = "SENT", !.sent = TRUE]
<1>1. /\ r.op = "send" /\ Commit(p) /\ Live(i) /\ UNCHANGED payments
      /\ invoice' = [invoice EXCEPT ![i].status = "SENT", ![i].sent = TRUE]
  BY DEF SendCommit
<1>2. /\ i \notin raced /\ raced' = raced /\ SeenBill(i) = Bill(invoice[i])
      /\ invoice \in [Invoices -> Rows] /\ i \in Invoices /\ invoice[i] \in Rows
      /\ invoice[i].status = "DRAFT"
  BY <1>1, Committing DEF Firm
<1>3. Bill(v) = [row |-> "live", total |-> invoice[i].total, status |-> "SENT", sent |-> TRUE]
  BY <1>1, <1>2 DEF Bill, Rows, Live
<1>4. invoice' = [invoice EXCEPT ![i] = v]
  BY <1>1, <1>2
<1>5. Bill(invoice[i]) = [row |-> "live", total |-> invoice[i].total,
                          status |-> "DRAFT", sent |-> invoice[i].sent]
  BY <1>1, <1>2 DEF Bill, Live
<1> HIDE DEF v
<1>6. B' = [B EXCEPT ![i] = Bill(v)] /\ B[i] = Bill(invoice[i])
  BY <1>2, <1>4, BillWritten
<1>e. /\ B' = [B EXCEPT ![i] = [B[i] EXCEPT !.status = "SENT", !.sent = TRUE]]
      /\ B[i] = Bill(invoice[i])
  <2> HIDE DEF B
  <2> DEFINE u == [B[i] EXCEPT !.status = "SENT"]
  <2>1. u = [row |-> "live", total |-> invoice[i].total,
             status |-> "SENT", sent |-> invoice[i].sent]
    BY <1>5, <1>6
  <2> DEFINE yes == TRUE
  <2>2. Bill(v) = [row |-> "live", total |-> invoice[i].total, status |-> "SENT", sent |-> yes]
    BY <1>3
  <2>3. Bill(v) = [u EXCEPT !.sent = yes]
    <3> HIDE DEF u, yes
    <3> QED BY <2>1, <2>2
  <2> QED BY <1>6, <2>3
<1>7. Serial!Send(i)
  BY <1>e, <1>1, <1>2, <1>3, <1>5, <1>6 DEF Serial!Send, Serial!Live, SeenPayments
<1> QED BY <1>2, <1>7

LEMMA MapsDrop ==
  ASSUME SInv, NEW p \in Reqs, DropCommit(p), req[p].inv \notin raced'
  PROVE  \E i \in Invoices : Serial!Drop(i)
<1> DEFINE r == req[p]
           i == r.inv
           B == [j \in Invoices |-> SeenBill(j)]
           v == [invoice[i] EXCEPT !.row = "deleted"]
<1>1. /\ r.op = "drop" /\ Commit(p) /\ Live(i) /\ payments' = payments \ PaymentsOf(i, payments)
      /\ invoice' = [invoice EXCEPT ![i].row = "deleted"]
  BY DEF DropCommit
<1>2. /\ i \notin raced /\ raced' = raced /\ SeenBill(i) = Bill(invoice[i])
      /\ invoice \in [Invoices -> Rows] /\ i \in Invoices /\ invoice[i] \in Rows
      /\ PaymentsOf(i, payments) = {}
  BY <1>1, Committing DEF Held
<1>3. Bill(v) = [row |-> "deleted", total |-> invoice[i].total, status |-> invoice[i].status,
                 sent |-> invoice[i].sent]
  BY <1>1, <1>2 DEF Bill, Rows, Live
<1>4. invoice' = [invoice EXCEPT ![i] = v]
  BY <1>1, <1>2
<1>5. Bill(invoice[i]) = [row |-> "live", total |-> invoice[i].total,
                          status |-> invoice[i].status, sent |-> invoice[i].sent]
  BY <1>1, <1>2 DEF Bill, Live
<1> HIDE DEF v
<1>6. B' = [B EXCEPT ![i] = Bill(v)] /\ B[i] = Bill(invoice[i])
  BY <1>2, <1>4, BillWritten
<1>e. /\ B' = [B EXCEPT ![i] = [B[i] EXCEPT !.row = "deleted"]]
      /\ B[i] = Bill(invoice[i])
  <2> HIDE DEF B
  <2>1. Bill(v) = [B[i] EXCEPT !.row = "deleted"]
    BY <1>2, <1>3, <1>5, <1>6
  <2> QED BY <2>1, <1>6
<1>7. SeenPayments' = SeenPayments /\ Serial!PaymentsOf(i, SeenPayments) = {}
  BY <1>1, <1>2 DEF Serial!PaymentsOf, PaymentsOf, SeenPayments
<1>8. Serial!Drop(i)
  BY <1>e, <1>1, <1>3, <1>5, <1>6, <1>7, <1>2 DEF Serial!Drop, Serial!Live
<1> QED BY <1>2, <1>8

\* What SerialLedger adds up is what the rows of live invoices say.
LEMMA PaidIsSum ==
  ASSUME LInv, NEW i \in Invoices, i \notin raced, Live(i)
  PROVE  Serial!PaidOf(i) = invoice[i].paid
<1>1. PaymentsOf(i, SeenPayments) = PaymentsOf(i, payments)
  BY DEF PaymentsOf, SeenPayments
<1>2. Serial!PaidOf(i) = Sum(PaymentsOf(i, SeenPayments))
  BY DEF Serial!PaidOf, Serial!Sum, Serial!Units, Serial!PaymentsOf, Sum, Units, PaymentsOf,
         Serial!Cardinality, Cardinality
<1> QED BY <1>1, <1>2 DEF LInv, LedgerAgrees

LEMMA PaidIsSumAfter ==
  ASSUME LInv', NEW i \in Invoices, i \notin raced', Live(i)'
  PROVE  Serial!PaidOf(i)' = invoice'[i].paid
<1>1. PaymentsOf(i, SeenPayments') = PaymentsOf(i, payments')
  BY DEF PaymentsOf, SeenPayments
<1>2. Serial!PaidOf(i)' = Sum(PaymentsOf(i, SeenPayments'))
  BY DEF Serial!PaidOf, Serial!Sum, Serial!Units, Serial!PaymentsOf, Sum, Units, PaymentsOf,
         Serial!Cardinality, Cardinality
<1> QED BY <1>1, <1>2 DEF LInv, LedgerAgrees

LEMMA MapsRecord ==
  ASSUME SInv, LInv', NEW p \in Reqs, RecordCommit(p), req[p].inv \notin raced'
  PROVE  \E x \in Serial!Payments : Serial!Record(x)
<1> DEFINE r == req[p]
           B == [j \in Invoices |-> SeenBill(j)]
<1>0. r.inv \in Invoices
  BY CommitIsLocal DEF SInv
<1> PICK i \in Invoices : i = r.inv
  BY <1>0
<1> PICK x : x = [id |-> nextPay, num |-> r.num, inv |-> r.inv, amt |-> r.amt, ok |-> r.ok]
  OBVIOUS
<1> DEFINE s == IF invoice'[i].paid >= invoice[i].total THEN "PAID" ELSE "PARTIALLY_PAID"
<1>1. /\ r.op = "record" /\ Commit(p) /\ Live(i) /\ NumberFree(r.num) /\ nextPay <= MaxPayments
      /\ payments' = payments \cup {x}
      /\ invoice' = IF r.ok THEN [invoice EXCEPT ![i] = Paid(@, r.snap, r.amt)] ELSE invoice
  BY DEF RecordCommit
<1>2. /\ i \notin raced /\ raced' = raced /\ SeenBill(i) = Bill(invoice[i])
      /\ invoice \in [Invoices -> Rows] /\ i \in Invoices /\ invoice[i] \in Rows
      /\ r.snap = invoice[i] /\ MayPay(invoice[i], r.amt)
      /\ r.amt \in PayAmounts /\ r.num \in 1 .. nextPay
      /\ Bill(invoice[i]) = [row |-> "live", total |-> invoice[i].total,
                             status |-> invoice[i].status, sent |-> invoice[i].sent]
  BY <1>1, Committing DEF Held, Firm
<1>3. r.ok \in BOOLEAN /\ r.amt \in Nat
  BY <1>1, RequestFields DEF SInv, LInv, TInv, Idle
<1>4. nextPay \in 1 .. MaxPayments + 1 /\ MaxPayments \in Nat
  BY LedgerAssumption DEF SInv, LInv, TInv, TypeOK
<1>5. x \in Serial!Payments /\ x.inv = i /\ x.amt = r.amt /\ x.id = nextPay /\ x.num = r.num
  BY <1>1, <1>2, <1>3, <1>4 DEF Serial!Payments
<1>6. x.ok = r.ok
  BY Zenon
<1>7. \A y \in SeenPayments : y.id # x.id /\ y.num # x.num
  <2>1. \A y \in payments : y.id < nextPay /\ y.id \in Nat
    BY DEF SInv, LInv, Referential, TInv, TypeOK, Payments
  <2> QED BY <1>1, <1>4, <1>5, <2>1 DEF NumberFree, SeenPayments
<1>p. SeenPayments' = SeenPayments \cup {x}
  BY <1>1, <1>2, <1>5 DEF SeenPayments
<1>8. /\ invoice[i].total \in Nat /\ invoice[i].paid \in Nat /\ invoice[i].balance \in Nat
      /\ invoice[i].balance = Max0(invoice[i].total - invoice[i].paid)
  BY <1>1, <1>2 DEF SInv, LInv, LedgerAgrees, Rows
<1>9. r.amt <= invoice[i].total - Serial!PaidOf(i) + Serial!Tolerance
  <2>1. r.amt <= Owed(invoice[i]) + Tolerance
    BY <1>2 DEF MayPay
  <2>2. Owed(invoice[i]) <= invoice[i].total - invoice[i].paid /\ Owed(invoice[i]) \in Int
    BY <1>8 DEF Owed, Max0
  <2>3. Serial!PaidOf(i) = invoice[i].paid
    BY <1>1, <1>2, PaidIsSum DEF SInv
  <2> QED BY <1>3, <1>8, <2>1, <2>2, <2>3 DEF Tolerance, Serial!Tolerance
<1>10. B[i] = Bill(invoice[i])
  BY <1>2
<1>11. CASE r.ok
  <2>1. /\ Paid(invoice[i], invoice[i], r.amt).status = s
        /\ Bill(Paid(invoice[i], invoice[i], r.amt)) =
             [row |-> "live", total |-> invoice[i].total, status |-> s, sent |-> invoice[i].sent]
        /\ Paid(invoice[i], invoice[i], r.amt).row = "live"
        /\ invoice' = [invoice EXCEPT ![i] = Paid(invoice[i], invoice[i], r.amt)]
    <3>1. invoice' = [invoice EXCEPT ![i] = Paid(invoice[i], invoice[i], r.amt)]
      BY <1>1, <1>2, <1>11
    <3>2. invoice'[i].paid = invoice[i].paid + r.amt
      BY <1>2, <3>1 DEF Paid, Rows
    <3>3. Paid(invoice[i], invoice[i], r.amt).status = s
      BY <1>2, <1>3, <1>8, <3>2 DEF Paid, Rows, Max0
    <3> HIDE DEF s
    <3>4. Bill(Paid(invoice[i], invoice[i], r.amt)) =
             [row |-> "live", total |-> invoice[i].total, status |-> s, sent |-> invoice[i].sent]
      BY <1>1, <1>2, <3>3 DEF Bill, Paid, Rows, Live
    <3>5. Paid(invoice[i], invoice[i], r.amt).row = "live"
      BY <1>1, <1>2 DEF Paid, Rows, Live
    <3> QED BY <3>1, <3>3, <3>4, <3>5
  <2>2. Serial!PaidOf(i)' = invoice'[i].paid
    <3>1. Live(i)'
      BY <1>2, <2>1 DEF Live
    <3> QED BY <1>2, <3>1, PaidIsSumAfter
  <2> HIDE DEF s
  <2>3. B' = [B EXCEPT ![i].status = s]
    <3>1. B' = [B EXCEPT ![i] = Bill(Paid(invoice[i], invoice[i], r.amt))]
      BY <1>2, <2>1, BillWritten
    <3> HIDE DEF B
    <3>2. Bill(Paid(invoice[i], invoice[i], r.amt)) = [B[i] EXCEPT !.status = s]
      BY <1>2, <1>10, <2>1
    <3> QED BY <3>1, <3>2
  <2>4. /\ B[i].row = "live" /\ B[i].total = invoice[i].total
        /\ B[i].status \notin {"CANCELLED", "VOID"}
    BY <1>2, <1>10 DEF MayPay
  <2>5. s = IF Serial!PaidOf(i)' >= B[i].total THEN "PAID" ELSE "PARTIALLY_PAID"
    BY <2>2, <2>4 DEF s
  <2>6. x.ok
    BY <1>6, <1>11
  <2>7. Serial!Record(x)
    BY <1>1, <1>5, <1>7, <1>p, <1>9, <2>3, <2>4, <2>5, <2>6 DEF Serial!Record, Serial!Live
  <2> QED BY <1>5, <2>7
<1>12. CASE ~r.ok
  <2>1. B' = B
    BY <1>1, <1>2, <1>12 DEF SeenBill
  <2>2. /\ B[i].row = "live" /\ B[i].total = invoice[i].total
        /\ B[i].status \notin {"CANCELLED", "VOID"}
    BY <1>2, <1>10 DEF MayPay
  <2>3. ~x.ok
    BY <1>6, <1>12
  <2>4. Serial!Record(x)
    BY <1>1, <1>5, <1>7, <1>p, <1>9, <2>1, <2>2, <2>3 DEF Serial!Record, Serial!Live
  <2> QED BY <1>5, <2>4
<1> QED BY <1>3, <1>11, <1>12

LEMMA MapsRemove ==
  ASSUME SInv, LInv', NEW p \in Reqs, UnpayCommit(p), req[p].inv \notin raced'
  PROVE  \E x \in SeenPayments : Serial!Remove(x)
<1> DEFINE r == req[p]
           B == [j \in Invoices |-> SeenBill(j)]
<1>1. /\ r.op = "resum" /\ Commit(p) /\ Live(r.inv) /\ payments' = {x \in payments : x.id # r.pay}
      /\ invoice' = [invoice EXCEPT ![r.inv] = Unpaid(@, r.snap, r.sum)]
  BY DEF UnpayCommit
<1>2. /\ r.inv \in Invoices /\ r.inv \notin raced /\ raced' = raced
      /\ \E x \in payments : x.id = r.pay
  BY <1>1, Committing DEF Firm
<1> PICK i \in Invoices : i = r.inv
  BY <1>2
<1> PICK x \in payments : x.id = r.pay
  BY <1>2
<1>3. /\ invoice \in [Invoices -> Rows] /\ invoice[i] \in Rows /\ r.snap = invoice[i]
      /\ x.inv = i /\ SeenBill(i) = Bill(invoice[i])
      /\ Bill(invoice[i]) = [row |-> "live", total |-> invoice[i].total,
                             status |-> invoice[i].status, sent |-> invoice[i].sent]
  BY <1>1, Committing DEF Held
<1>4. x \in SeenPayments /\ SeenPayments' = SeenPayments \ {x}
  BY <1>1, <1>2, <1>3 DEF SInv, LInv, Referential, SeenPayments
<1>5. r.sum \in Nat
  BY <1>1, RequestFields DEF SInv, LInv, TInv, Idle
<1> DEFINE v == Unpaid(invoice[i], invoice[i], r.sum)
           s == IF r.sum >= invoice[i].total /\ invoice[i].total > 0 THEN "PAID"
                ELSE IF r.sum > 0 THEN "PARTIALLY_PAID"
                ELSE IF invoice[i].sent THEN "SENT" ELSE "DRAFT"
<1>6. invoice' = [invoice EXCEPT ![i] = v]
  BY <1>1, <1>3
<1>7. v.paid = r.sum /\ v.row = "live" /\ v.status = s
  BY <1>1, <1>3 DEF Unpaid, Rows, Live
<1>8. Bill(v) = [row |-> "live", total |-> invoice[i].total, status |-> s,
                 sent |-> invoice[i].sent]
  <2> HIDE DEF s
  <2> QED BY <1>1, <1>3, <1>7 DEF Bill, Unpaid, Rows, Live
<1> HIDE DEF v
<1>9. Serial!PaidOf(i)' = r.sum
  <2>1. Live(i)' /\ invoice'[i].paid = r.sum
    BY <1>3, <1>6, <1>7 DEF Live
  <2> QED BY <1>2, <2>1, PaidIsSumAfter
<1>10. B[i] = Bill(invoice[i])
  BY <1>3
<1>11. B' = [B EXCEPT ![i].status = s]
  <2>1. B' = [B EXCEPT ![i] = Bill(v)]
    BY <1>2, <1>3, <1>6, BillWritten
  <2> HIDE DEF B, s
  <2>2. Bill(v) = [B[i] EXCEPT !.status = s]
    BY <1>3, <1>8, <1>10
  <2> QED BY <2>1, <2>2
<1>12. B[i].row = "live" /\ B[i].total = invoice[i].total /\ B[i].sent = invoice[i].sent
  BY <1>3, <1>10
<1>13. s = IF Serial!PaidOf(i)' >= B[i].total /\ B[i].total > 0 THEN "PAID"
           ELSE IF Serial!PaidOf(i)' > 0 THEN "PARTIALLY_PAID"
           ELSE IF B[i].sent THEN "SENT" ELSE "DRAFT"
  BY <1>9, <1>12
<1> HIDE DEF s
<1>14. Serial!Remove(x)
  BY <1>3, <1>4, <1>11, <1>12, <1>13 DEF Serial!Remove, Serial!Live
<1> QED BY <1>4, <1>14

\* However requests overlap, every transaction takes effect at once when it commits,
\* on the rows and payments as they then are, or races its invoice if it was
\* overtaken on it, and every other step changes nothing that can be seen: the
\* services implement SerialLedger.
THEOREM LedgerImplementsSerialLedger == Spec => Implements
<1>1. Init => Serial!Init
  BY DEF Init, Serial!Init, Bill, SeenBill, SeenPayments
<1>2. SInv /\ SInv' /\ [Next]_vars => [Serial!Next]_(Serial!vars)
  <2> SUFFICES ASSUME SInv, SInv', [Next]_vars PROVE [Serial!Next]_(Serial!vars)
    OBVIOUS
  <2>1. ASSUME UNCHANGED <<invoice, payments, raced>>
        PROVE  UNCHANGED Serial!vars
    BY <2>1 DEF Serial!vars, SeenBill, SeenPayments
  <2>2. ASSUME NEW p \in Reqs, Step(p) PROVE [Serial!Next]_(Serial!vars)
    <3> DEFINE races == req[p].inv \in raced'
    <3>1. ASSUME NEW i \in Invoices, NEW t \in Totals, NEW s \in ManualStatuses \cup {"DRAFT"},
                 CreateInvoice(p, i, t, s)
          PROVE  Serial!Next
      BY <3>1, MapsCreate DEF Serial!Next
    <3>2. CASE RecordCommit(p) /\ ~races
      BY <3>2, MapsRecord DEF SInv, Serial!Next
    <3>3. CASE UpdateCommit(p) /\ ~races
      <4>1. PICK i \in Invoices :
              /\ i \notin raced
              /\ \E t \in Totals \cup {invoice[i].total},
                    s \in ManualStatuses \cup {invoice[i].status} : Serial!Update(i, t, s)
        BY <3>3, MapsUpdate
      <4>2. SeenBill(i).total = invoice[i].total /\ SeenBill(i).status = invoice[i].status
        BY <4>1 DEF Bill, SeenBill
      <4> QED BY <4>1, <4>2 DEF Serial!Next
    <3>4. CASE StatusCommit(p) /\ ~races
      BY <3>4, MapsStatus DEF Serial!Next
    <3>5. CASE SendCommit(p) /\ ~races
      BY <3>5, MapsSend DEF Serial!Next
    <3>6. CASE UnpayCommit(p) /\ ~races
      BY <3>6, MapsRemove DEF SInv, Serial!Next
    <3>7. CASE DropCommit(p) /\ ~races
      BY <3>7, MapsDrop DEF Serial!Next
    <3>8. CASE /\ races
               /\ \/ RecordCommit(p) \/ UpdateCommit(p) \/ StatusCommit(p)
                  \/ SendCommit(p) \/ UnpayCommit(p) \/ DropCommit(p)
      BY <3>8, MapsRace DEF Serial!Next
    <3> HIDE DEF races
    <3> QED BY <2>1, <2>2, <3>1, <3>2, <3>3, <3>4, <3>5, <3>6, <3>7, <3>8, ReadStep DEF Step, SInv
  <2> QED BY <2>1, <2>2 DEF Next, vars
<1> QED BY <1>1, <1>2, SInvAlways, PTL DEF Spec, Implements, Serial!Spec
=============================================================================
