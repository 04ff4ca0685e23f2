---------------------------- MODULE AtomicImport ----------------------------
(***************************************************************************)
(* What the import of uploaded leads promises                              *)
(* (src/api/src/leads/services/leads.import.service.ts).  An upload is     *)
(* executed, and executed again if that fails, until it is done or given   *)
(* up.  An execution makes all leads of a batch in one step, batch after   *)
(* batch, and none that the upload has made before.  When the upload is    *)
(* done, its report is true and what was made last has been audited;       *)
(* nothing happens to it any more.                                         *)
(***************************************************************************)
EXTENDS Naturals

CONSTANTS Uploads, StrategyOf, BatchesOf, None

VARIABLES
  leads,      \* the leads that are not deleted
  deleted,    \* the e-mails of leads that were deleted
  audited,    \* the uploads of which there is an audit record
  execution,  \* execution[u]: how often u has failed
  state,      \* state[u]: whether u is open, done or failed
  flagged     \* flagged[u]: the batches of u that its report calls failed

vars == <<leads, deleted, audited, execution, state, flagged>>

Init ==
  /\ \A x \in leads : x.by = None
  /\ deleted = {}
  /\ audited = {}
  /\ execution = [u \in Uploads |-> 0]
  /\ state = [u \in Uploads |-> "open"]
  /\ flagged = [u \in Uploads |-> {}]

Known == {x.email : x \in leads} \cup deleted

Batches(u) == DOMAIN BatchesOf[u]
Rows(u, b) == DOMAIN BatchesOf[u][b]

Open(u) == state[u] = "open"

\* L are leads of the batch b of u, the next one that its execution makes any of; they
\* repeat none of u, and with them every good row of the batch is known.
Batch(u, b, L) ==
  /\ \A x \in L : x.by = u /\ x.run = execution[u] /\ x.batch = b
  /\ \A x \in L, y \in leads : x.by = y.by =>
       /\ x.run = y.run => y.batch < b
       /\ StrategyOf[u] # "create" => x.email # y.email
  /\ \A i \in Rows(u, b) : LET row == BatchesOf[u][b][i] IN row.kind = "good" => row.email \in Known'

Import(u) ==
  /\ Open(u)
  /\ leads \subseteq leads'
  /\ \E b \in Batches(u) : Batch(u, b, leads' \ leads)
  /\ UNCHANGED <<deleted, audited, execution, state, flagged>>

Audit(u) ==
  /\ Open(u)
  /\ audited' = audited \cup {u}
  /\ UNCHANGED <<leads, deleted, execution, state, flagged>>

Again(u) == execution' = [execution EXCEPT ![u] = @ + 1]

Retry(u) ==
  /\ Open(u)
  /\ Again(u)
  /\ UNCHANGED <<leads, deleted, audited, state, flagged>>

GiveUp(u) ==
  /\ Open(u)
  /\ state' = [state EXCEPT ![u] = "failed"]
  /\ Again(u) \/ UNCHANGED execution
  /\ UNCHANGED <<leads, deleted, audited, flagged>>

Complete(u) ==
  /\ Open(u)
  /\ state' = [state EXCEPT ![u] = "done"]
  /\ flagged' = [flagged EXCEPT ![u] = flagged'[u]]
  /\ \A b \in Batches(u) \ flagged'[u] :
       \A i \in Rows(u, b) : BatchesOf[u][b][i].email \in Known
  /\ (\E x \in leads : x.by = u /\ x.run = execution[u]) => u \in audited
  /\ UNCHANGED <<leads, deleted, audited, execution>>

Delete(x) ==
  /\ leads' = leads \ {x}
  /\ deleted' = deleted \cup {x.email}
  /\ UNCHANGED <<audited, execution, state, flagged>>

Next ==
  \/ \E u \in Uploads : Import(u) \/ Audit(u) \/ Retry(u) \/ GiveUp(u) \/ Complete(u)
  \/ \E x \in leads : Delete(x)

Spec == Init /\ [][Next]_vars
=============================================================================
