-------------------------- MODULE WriteOnceArchive --------------------------
(***************************************************************************)
(* What the archive of the audit log promises                              *)
(* (src/api/src/common/audit/archive).  A record is entered once and never *)
(* forgotten.  Every worker stores a record it was entered for at most     *)
(* once and nothing stored goes away; a record is called archived once it  *)
(* is stored, failed once as many attempts at it have failed as some       *)
(* worker makes.  Which of them it is called last is not promised: the     *)
(* workers overwrite each other.                                           *)
(***************************************************************************)
EXTENDS Naturals

CONSTANTS Logs, Workers, Limit

VARIABLES
  status,    \* status[l]: what record l is called
  stored,    \* stored[l][w]: versions of its object that w stored
  failures   \* failures[l]: how many attempts at l have failed

vars == <<status, stored, failures>>

Init ==
  /\ status = [l \in Logs |-> "none"]
  /\ stored = [l \in Logs |-> [w \in Workers |-> 0]]
  /\ failures = [l \in Logs |-> 0]

Entered(l) == status[l] # "none"

Call(l, s) == status' = [status EXCEPT ![l] = s]

\* As many failures as some worker makes attempts.
Enough(n) == \E w \in Workers : n >= Limit[w]

Enter(l) ==
  /\ ~Entered(l)
  /\ Call(l, "PENDING")
  /\ UNCHANGED <<stored, failures>>

Put(l, w) ==
  /\ Entered(l)
  /\ stored[l][w] = 0
  /\ stored' = [stored EXCEPT ![l][w] = 1]
  /\ UNCHANGED <<status, failures>>

Archive(l) ==
  /\ Entered(l)
  /\ \E w \in Workers : stored[l][w] > 0
  /\ Call(l, "ARCHIVED")
  /\ UNCHANGED <<stored, failures>>

Fail(l) ==
  /\ Entered(l)
  /\ failures' = [failures EXCEPT ![l] = @ + 1]
  /\ Call(l, "PENDING") \/ (Enough(failures[l] + 1) /\ Call(l, "FAILED"))
  /\ UNCHANGED stored

GiveUp(l) ==
  /\ Entered(l)
  /\ Enough(failures[l])
  /\ Call(l, "FAILED")
  /\ UNCHANGED <<stored, failures>>

Next ==
  \E l \in Logs :
    \/ Enter(l) \/ Archive(l) \/ Fail(l) \/ GiveUp(l)
    \/ \E w \in Workers : Put(l, w)

Spec == Init /\ [][Next]_vars
=============================================================================
