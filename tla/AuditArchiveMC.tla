--------------------------- MODULE AuditArchiveMC ---------------------------
(***************************************************************************)
(* An instance of AuditArchive: two workers whose limits differ, with      *)
(* batches of two records.                                                 *)
(***************************************************************************)
EXTENDS AuditArchive, TLC

CONSTANTS w1, w2, l1, l2

\* The records differ in nothing.
Symmetry == Permutations(Logs)

LimitsDiffer == [w \in Workers |-> IF w = w1 THEN 3 ELSE 2]
=============================================================================
