-------------------------- MODULE InvoiceLedgerMC --------------------------
(***************************************************************************)
(* Instances of InvoiceLedger: requests that meet on the same invoices.    *)
(***************************************************************************)
EXTENDS InvoiceLedger, TLC

CONSTANTS r1, r2, i1, i2

Symmetric == Permutations(Reqs)
=============================================================================
