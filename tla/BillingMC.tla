----------------------------- MODULE BillingMC -----------------------------
(***************************************************************************)
(* Instances of Billing: which tenant pays what, which events there are.   *)
(***************************************************************************)
EXTENDS Billing, TLC

CONSTANTS t1, t2, p1, p2, e1, e2, w1, w2, c1, thisYear, nextYear

EachItsOwn == p1 :> t1 @@ p2 :> t2

OneTenant == [p \in Payments |-> t1]

OneEventEach == e1 :> p1 @@ e2 :> p2

Symmetric == Permutations({w1, w2})

\* Events and the browser's verification are of one year; the super admin's
\* invoice may be numbered in the next.
YearEnds == [by \in Sources |-> IF by = "manual" THEN {thisYear, nextYear} ELSE {thisYear}]

\* One event is of next year.
YearsDiffer == [by \in Sources |-> IF by = e2 THEN {nextYear} ELSE {thisYear}]

FirstPayment == [e \in Events |-> p1]
=============================================================================
