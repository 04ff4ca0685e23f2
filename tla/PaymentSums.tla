---------------------------- MODULE PaymentSums ----------------------------
(***************************************************************************)
(* What the payments of an invoice add up to                               *)
(* (src/api/src/finance/services/payments.service.ts).                     *)
(***************************************************************************)
EXTENDS Integers, FiniteSets

\* A payment may exceed what is owed by 0.01, one unit.
Tolerance == 1

\* What is left to see of an invoice nothing is promised of.
Raced == [row |-> "raced", total |-> 0, status |-> "DRAFT", sent |-> FALSE]

PaymentsOf(i, P) == {x \in P : x.inv = i}

\* The sum of the given payments that succeeded, as the number of the units of
\* money they consist of.
Units(P) == UNION {{x} \X (1 .. x.amt) : x \in {y \in P : y.ok}}

Sum(P) == Cardinality(Units(P))
=============================================================================
