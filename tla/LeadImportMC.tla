---------------------------- MODULE LeadImportMC ----------------------------
(***************************************************************************)
(* An instance of LeadImport: two uploads with e-mails in common, one with *)
(* an e-mail in both of its batches and a row of unknown stage, one with   *)
(* an incomplete row.                                                      *)
(***************************************************************************)
EXTENDS LeadImport, TLC

CONSTANTS w1, w2, u1, u2, a, b

Good(e) == [email |-> e, kind |-> "good"]

Unknown(e) == [email |-> e, kind |-> "unknown"]
Incomplete(e) == [email |-> e, kind |-> "incomplete"]

Files == u1 :> << <<Good(a), Unknown(b)>>, <<Good(b), Good(a)>> >>
         @@ u2 :> << <<Good(b), Incomplete(a)>> >>

SkipAndUpdate == u1 :> "skip" @@ u2 :> "update"

Symmetric == Permutations(Workers)
=============================================================================
