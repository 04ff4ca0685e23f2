-------------------------- MODULE AiEntitlementMC --------------------------
(***************************************************************************)
(* An instance of AiEntitlement: a free plan with the first of two models, *)
(* and one with both.                                                      *)
(***************************************************************************)
EXTENDS AiEntitlement, TLC

CONSTANTS r1, e1, t1, free, pro, a, b

Seeds == free :> {a} @@ pro :> {a, b}

Catalogue == a :> 1 @@ b :> 2
=============================================================================
