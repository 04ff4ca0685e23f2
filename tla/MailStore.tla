----------------------------- MODULE MailStore -----------------------------
(***************************************************************************)
(* What the synchronization of a mailbox promises                          *)
(* (src/api/src/email/services/inbound-email.service.ts): mails are        *)
(* stored in the order in which they arrived, each Message-ID once, and    *)
(* the cursor passes a mail that is stored, one at a time.                 *)
(***************************************************************************)
EXTENDS Naturals

CONSTANTS Ids, MaxMail, IdOf

VARIABLES
  arrived,  \* how many mails are in the mailbox
  stored,   \* stored[i]: how often the mail with Message-ID i is stored
  cursor    \* the last mail that is done with

vars == <<arrived, stored, cursor>>

Init == arrived = 0 /\ stored = [i \in Ids |-> 0] /\ cursor = 0

Arrive == arrived < MaxMail /\ arrived' = arrived + 1 /\ UNCHANGED <<stored, cursor>>

next == cursor + 1

Keep ==
  /\ next <= arrived
  /\ stored[IdOf[next]] = 0
  /\ stored' = [stored EXCEPT ![IdOf[next]] = 1]
  /\ UNCHANGED <<arrived, cursor>>

Pass ==
  /\ next <= arrived
  /\ stored[IdOf[next]] > 0
  /\ cursor' = next
  /\ UNCHANGED <<arrived, stored>>

Next == Arrive \/ Keep \/ Pass

Spec == Init /\ [][Next]_vars
=============================================================================
