--------------------------- MODULE SessionGuardMC ---------------------------
(***************************************************************************)
(* Instances of SessionGuard: whose the sessions are.                      *)
(***************************************************************************)
EXTENDS SessionGuard, TLC

CONSTANTS s1, u1, t1, p1, p2

OneUser == [s \in Sessions |-> u1]

Workspace == t1 :> {u1}

Symmetric == Permutations({p1, p2})
=============================================================================
