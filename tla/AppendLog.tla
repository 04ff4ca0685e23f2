----------------------------- MODULE AppendLog -----------------------------
(***************************************************************************)
(* What the audit log promises of a chain that only sealed records go to   *)
(* (src/api/src/common/audit): it grows by one record at a time, which is  *)
(* linked to the one at its end and becomes its end, unless it is late:    *)
(* then the log forks there.  Nothing in it ever changes, and no hash is   *)
(* of two records.                                                         *)
(***************************************************************************)
CONSTANTS Chains, Hashes, NoHash

VARIABLES
  links,  \* links[c]: previousHash and recordHash of every record of chain c
  head    \* head[c]: the hash of the record at the end of chain c

vars == <<links, head>>

Init ==
  /\ links = [c \in Chains |-> {}]
  /\ head = [c \in Chains |-> NoHash]

Link(c, h, late) ==
  /\ h # NoHash
  /\ \A d \in Chains : \A l \in links[d] : l.hash # h
  /\ links' = [links EXCEPT ![c] = @ \cup {[prev |-> head[c], hash |-> h, late |-> late]}]

Append(c, h) == Link(c, h, FALSE) /\ head' = [head EXCEPT ![c] = h]

\* Only a chain that has a record can fork.
Fork(c, h) == links[c] # {} /\ Link(c, h, TRUE) /\ UNCHANGED head

Next == \E c \in Chains, h \in Hashes : Append(c, h) \/ Fork(c, h)

Spec == Init /\ [][Next]_vars
=============================================================================
