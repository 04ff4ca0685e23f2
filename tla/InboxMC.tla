------------------------------ MODULE InboxMC ------------------------------
(***************************************************************************)
(* An instance of Inbox: four mails, of which the first and the last carry *)
(* the same Message-ID and the third answers the first.                    *)
(***************************************************************************)
EXTENDS Inbox

CONSTANTS w1, w2, i1, i2, i3

Repeated == [u \in 1 .. MaxMail |-> CASE u = 2 -> i2 [] u = 3 -> i3 [] OTHER -> i1]

Answer == [i \in Ids |-> IF i = i3 THEN i1 ELSE None]
=============================================================================
