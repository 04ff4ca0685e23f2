---------------------------- MODULE AuditChainMC ----------------------------
(***************************************************************************)
(* Instances of AuditChain: two writers to a tenant's chain, and two to    *)
(* the platform's of which one appends plain records.                      *)
(***************************************************************************)
EXTENDS AuditChain, TLC

CONSTANTS w1, w2, w3, w4, tenant, platform

TwoChains == w1 :> tenant @@ w2 :> tenant @@ w3 :> platform @@ w4 :> platform

OneAhead == [w \in Writers |-> IF w = w1 THEN 1 ELSE 0]
=============================================================================
