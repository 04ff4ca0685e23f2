----------------------------- MODULE LeadImport -----------------------------
(***************************************************************************)
(* The import of uploaded leads (leads/services/leads.import.service.ts)   *)
(* by the workers of the import queue                                      *)
(* (queue/processors/import-queue.processor.ts), under src/api/src.        *)
(*                                                                         *)
(* An upload is a file of rows and what to do with a row whose e-mail      *)
(* already is a lead's: skip it, update the lead, create another one.  A   *)
(* run compares the number of rows with the plan's limit and handles the   *)
(* file batch by batch, each batch a transaction that first looks for the  *)
(* e-mails of its rows.  A row that is refused before any statement (its   *)
(* stage or priority is unknown, say) is caught and lost alone.  A row     *)
(* that the database refuses (its assignee does not exist, say) is caught  *)
(* too, but PostgreSQL fails every statement that follows in the           *)
(* transaction and rolls all of it back at the end, without an error.      *)
(*                                                                         *)
(* The queue is external; every upload has a job identity of its own, so   *)
(* that a kept failed job is in nobody's way.  The same import without a   *)
(* queue is a run that is not repeated.  Companies, the fields of a lead,  *)
(* leads entered by hand, e-mails changed by updateLead and a super admin  *)
(* who runs a failed job again by hand are left out.                       *)
(***************************************************************************)
EXTENDS Naturals, Sequences, FiniteSets

CONSTANTS
  Workers,     \* the processes that run the queue's jobs
  Uploads,     \* the files
  Emails,      \* the e-mails in them
  StrategyOf,  \* StrategyOf[u]: the upload's duplicateStrategy
  BatchesOf,   \* BatchesOf[u]: the rows of u, cut into batches of BATCH_SIZE
  MaxLeads,    \* the plan's limit
  Entered,     \* the e-mails of which there may be a lead before any upload
  MaxDeleted,  \* bound on the e-mails whose leads are deleted
  Faults,      \* what may fail
  None         \* no worker, no upload

\* A row is good, or lacks its name or e-mail or has a stage that is no text, or has a stage
\* or a priority that the database's client does not know.
Row == [email : Emails, kind : {"good", "incomplete", "unknown"}]

ASSUME ImportAssumption ==
  /\ StrategyOf \in [Uploads -> {"skip", "update", "create"}]
  /\ BatchesOf \in [Uploads -> Seq(Seq(Row))]
  /\ \A u \in Uploads : BatchesOf[u] # <<>>
  /\ MaxLeads \in Nat
  /\ Entered \subseteq Emails
  /\ MaxDeleted \in Nat
  /\ Faults \subseteq {"row", "batch", "audit", "crash", "slow"}
  /\ None \notin Workers
  /\ None \notin Uploads

Attempts == 3          \* IMPORT_DEFAULT_JOB_OPTS.attempts
MaxStalledCount == 1   \* the default of the queue

VARIABLES
  leads,    \* the leads that are not deleted
  deleted,  \* the e-mails of leads that were deleted
  audited,  \* the uploads of which there is an audit record
  job,      \* job[u]: the job of the upload
  run       \* run[w]: where worker w is in bulkImportLeads

vars == <<leads, deleted, audited, job, run>>

\* A lead knows here by which row of which upload it was created, and in which run.
Leads == [by : Uploads \cup {None}, email : Emails, batch : Nat, row : Nat, run : Nat]

Jobs ==
  [state : {"none", "waiting", "active", "done", "failed"}, tries : 0 .. Attempts,
   stalls : 0 .. MaxStalledCount, holder : Workers \cup {None},
   flagged : SUBSET Nat]   \* the batches with a failed row, in what the job returned

Runs ==
  [at : {"idle", "check", "look", "rows", "audit", "done", "threw"}, up : Uploads \cup {None},
   batch : Nat, found : SUBSET Emails, imported : BOOLEAN, flagged : SUBSET Nat]

NoJob == [state |-> "none", tries |-> 0, stalls |-> 0, holder |-> None, flagged |-> {}]

Idle ==
  [at |-> "idle", up |-> None, batch |-> 1, found |-> {}, imported |-> FALSE, flagged |-> {}]

Init ==
  /\ leads \in SUBSET [by : {None}, email : Entered, batch : {0}, row : {0}, run : {0}]
  /\ deleted = {}
  /\ audited = {}
  /\ job = [u \in Uploads |-> NoJob]
  /\ run = [w \in Workers |-> Idle]

EmailsOf(L) == {x.email : x \in L}

Batches(u) == 1 .. Len(BatchesOf[u])
Rows(u, b) == 1 .. Len(BatchesOf[u][b])
EmailsIn(u, b) == {BatchesOf[u][b][i].email : i \in Rows(u, b)}
Length(u) == Cardinality(UNION {{b} \X Rows(u, b) : b \in Batches(u)})

\* Which execution of the job this is.
Execution(u) == job[u].tries + job[u].stalls

-----------------------------------------------------------------------------
\* The queue

\* LeadsController.importLeads and ImportQueueProducer.enqueueLeadsImport
ImportLeads(u) ==
  /\ job[u].state = "none"
  /\ job' = [job EXCEPT ![u].state = "waiting"]
  /\ UNCHANGED <<leads, deleted, audited, run>>

Become(w, r) == run' = [run EXCEPT ![w] = r]
At(w, place) == run[w].at = place
Goto(w, place) == Become(w, [run[w] EXCEPT !.at = place])

Taken(j, w) == [j EXCEPT !.state = "active", !.holder = w]

Take(w, u) ==
  /\ At(w, "idle")
  /\ job[u].state = "waiting"
  /\ job' = [job EXCEPT ![u] = Taken(@, w)]
  /\ Become(w, [Idle EXCEPT !.at = "check", !.up = u])
  /\ UNCHANGED <<leads, deleted, audited>>

\* mutant: the last attempt is not the last
AgainLate(j) ==
  [j EXCEPT !.tries = @ + 1, !.holder = None,
            !.state = IF j.tries < Attempts THEN "waiting" ELSE "failed"]

\* A job that threw waits again until its attempts are used up.
Again(j) ==
  [j EXCEPT !.tries = @ + 1, !.holder = None,
            !.state = IF j.tries + 1 < Attempts THEN "waiting" ELSE "failed"]

Completed(j, r) == [j EXCEPT !.state = "done", !.holder = None, !.flagged = r.flagged]

\* A worker that has lost the job has no say in it.
Report(w) ==
  LET u == run[w].up
  IN /\ At(w, "done") \/ At(w, "threw")
     /\ job' = IF job[u].holder # w THEN job
               ELSE IF At(w, "done") THEN [job EXCEPT ![u] = Completed(job[u], run[w])]
               ELSE [job EXCEPT ![u] = Again(job[u])]
     /\ Become(w, Idle)
     /\ UNCHANGED <<leads, deleted, audited>>

Crash(w) ==
  /\ "crash" \in Faults
  /\ ~At(w, "idle")
  /\ Become(w, Idle)
  /\ UNCHANGED <<leads, deleted, audited, job>>

Deserted(u) == \A w \in Workers : w = job[u].holder => run[w].up # u

Stalled(j) ==
  IF j.stalls < MaxStalledCount
    THEN [j EXCEPT !.holder = None, !.stalls = @ + 1, !.state = "waiting"]
    ELSE [j EXCEPT !.holder = None, !.state = "failed"]

\* The lock of an active job runs out: its worker is gone, or too slow.
Stall(u) ==
  /\ job[u].state = "active"
  /\ Deserted(u) \/ "slow" \in Faults
  /\ job' = [job EXCEPT ![u] = Stalled(job[u])]
  /\ UNCHANGED <<leads, deleted, audited, run>>

-----------------------------------------------------------------------------
\* LeadsImportService.bulkImportLeads

\* SubscriptionEntitlementService.assertWithinLimit; updating is not limited.
WithinLimit(u) ==
  StrategyOf[u] = "update" \/ Cardinality(leads) + Length(u) <= MaxLeads

AssertWithinLimit(w) ==
  /\ At(w, "check")
  /\ Goto(w, IF WithinLimit(run[w].up) THEN "look" ELSE "threw")
  /\ UNCHANGED <<leads, deleted, audited, job>>

\* mutant: the e-mails are looked for once, before the first batch
LookOnce(w) ==
  /\ At(w, "look")
  /\ Become(w, [run[w] EXCEPT !.at = "rows",
       !.found = IF run[w].batch = 1 THEN EmailsOf(leads) ELSE @])
  /\ UNCHANGED <<leads, deleted, audited, job>>

\* The transaction of the batch begins: which e-mails are leads' already.
Look(w) ==
  /\ At(w, "look")
  /\ Become(w, [run[w] EXCEPT !.at = "rows", !.found = EmailsOf(leads)])
  /\ UNCHANGED <<leads, deleted, audited, job>>

RowAt(r, i) == BatchesOf[r.up][r.batch][i]
Exists(r, i) == RowAt(r, i).email \in r.found

Skipped(r, i) == Exists(r, i) /\ StrategyOf[r.up] = "skip"

\* The rows of the batch that are written.
Written(r) == {i \in Rows(r.up, r.batch) : RowAt(r, i).kind = "good" /\ ~Skipped(r, i)}

Created(r) == {i \in Written(r) : ~Exists(r, i) \/ StrategyOf[r.up] = "create"}

NewLeads(r) ==
  {[by |-> r.up, email |-> RowAt(r, i).email, batch |-> r.batch, row |-> i,
    run |-> Execution(r.up)] : i \in Created(r)}

\* A row of the batch fails before any statement of it: it has no name or e-mail or stage,
\* or it is not skipped and the client refuses it.
Refuses(r) ==
  \E i \in Rows(r.up, r.batch) :
    \/ RowAt(r, i).kind = "incomplete"
    \/ RowAt(r, i).kind = "unknown" /\ ~Skipped(r, i)

Last(r) == r.batch = Len(BatchesOf[r.up])

\* mutant: what failed is reported of the last batch only
AfterForgetful(r, imported, failed) ==
  [r EXCEPT !.at = IF Last(r) THEN "audit" ELSE "look",
            !.batch = IF Last(r) THEN @ ELSE @ + 1,
            !.found = {},
            !.imported = @ \/ imported,
            !.flagged = IF failed THEN {r.batch} ELSE {}]

\* mutant: what was imported is counted of the last batch only
AfterUncounted(r, imported, failed) ==
  [r EXCEPT !.at = IF Last(r) THEN "audit" ELSE "look",
            !.batch = IF Last(r) THEN @ ELSE @ + 1,
            !.found = {},
            !.imported = imported,
            !.flagged = IF failed THEN @ \cup {r.batch} ELSE @]

\* The totals after the batch, and the next one.
After(r, imported, failed) ==
  [r EXCEPT !.at = IF Last(r) THEN "audit" ELSE "look",
            !.batch = IF Last(r) THEN @ ELSE @ + 1,
            !.found = {},
            !.imported = @ \/ imported,
            !.flagged = IF failed THEN @ \cup {r.batch} ELSE @]

Commit(w) ==
  LET r == run[w]
  IN /\ At(w, "rows")
     /\ leads' = leads \cup NewLeads(r)
     /\ Become(w, After(r, Written(r) # {}, Refuses(r)))
     /\ UNCHANGED <<deleted, audited, job>>

\* The database refuses a row: the rows before it stay counted as imported, and nothing
\* of the batch is kept.
Poison(w) ==
  LET r == run[w]
  IN /\ "row" \in Faults
     /\ At(w, "rows")
     /\ \E i \in Written(r) : Become(w, After(r, \E earlier \in Written(r) : earlier < i, TRUE))
     /\ UNCHANGED <<leads, deleted, audited, job>>

\* The transaction fails as a whole, at its timeout for instance.
BatchFails(w) ==
  /\ "batch" \in Faults
  /\ At(w, "rows")
  /\ Goto(w, "threw")
  /\ UNCHANGED <<leads, deleted, audited, job>>

Audit(w) ==
  /\ At(w, "audit")
  /\ audited' = IF run[w].imported THEN audited \cup {run[w].up} ELSE audited
  /\ Goto(w, "done")
  /\ UNCHANGED <<leads, deleted, job>>

AuditFails(w) ==
  /\ "audit" \in Faults
  /\ At(w, "audit")
  /\ run[w].imported
  /\ Goto(w, "threw")
  /\ UNCHANGED <<leads, deleted, audited, job>>

\* LeadsService.deleteLead
DeleteLead(x) ==
  /\ Cardinality(deleted) < MaxDeleted
  /\ leads' = leads \ {x}
  /\ deleted' = deleted \cup {x.email}
  /\ UNCHANGED <<audited, job, run>>

-----------------------------------------------------------------------------
\* The next statement of w.
Proceed(w) ==
  \/ AssertWithinLimit(w)
  \/ Look(w)
  \/ Commit(w)
  \/ Audit(w)
  \/ Report(w)

Breaks(w) ==
  \/ Poison(w)
  \/ BatchFails(w)
  \/ AuditFails(w)
  \/ Crash(w)

Next ==
  \/ \E u \in Uploads : ImportLeads(u) \/ Stall(u)
  \/ \E w \in Workers : Proceed(w) \/ Breaks(w) \/ \E u \in Uploads : Take(w, u)
  \/ \E x \in leads : DeleteLead(x)

Spec == Init /\ [][Next]_vars

-----------------------------------------------------------------------------
\* The types of the variables; a job has a holder exactly while it is active.
TypeOK ==
  /\ leads \subseteq Leads
  /\ deleted \subseteq Emails
  /\ audited \subseteq Uploads
  /\ job \in [Uploads -> Jobs]
  /\ \A u \in Uploads : job[u].state = "active" <=> job[u].holder # None
  /\ run \in [Workers -> Runs]

\* An upload that is to skip or update makes the leads of one e-mail in one batch of one
\* execution: neither its later batches nor a retry, after a crash anywhere, repeat them,
\* whatever other uploads do meanwhile, if no worker outlives its lock.  Of an upload that
\* is to create it says nothing: there a retry makes the leads of committed batches again.
ImportedOnce ==
  \A x, y \in leads :
    x.by = y.by /\ x.by # None /\ x.email = y.email /\ StrategyOf[x.by] # "create" =>
      x.run = y.run /\ x.batch = y.batch

\* When an upload completes, a batch of which no row was reported as failed is there: all
\* its e-mails are leads', except for leads that were deleted.
ReportTrue ==
  \A u \in Uploads : job[u].state = "done" =>
    \A b \in Batches(u) :
      b \in job[u].flagged \/ EmailsIn(u, b) \subseteq EmailsOf(leads) \cup deleted

\* If the execution that completes an upload made leads, the upload is in the audit log.
\* (What an execution made that died behind a batch is in no audit record.)
ImportAudited ==
  \A x \in leads :
    x.by # None /\ job[x.by].state = "done" /\ x.run = Execution(x.by) => x.by \in audited

Ended(j) == IF j.state \in {"done", "failed"} THEN j.state ELSE "open"

Atomic == INSTANCE AtomicImport
            WITH execution <- [u \in Uploads |-> Execution(u)],
                 state <- [u \in Uploads |-> Ended(job[u])],
                 flagged <- [u \in Uploads |-> job[u].flagged]

\* If no worker outlives its lock, the import implements AtomicImport: whatever fails in
\* whichever execution and beside any other uploads, batches are made whole and once,
\* and an upload that is done or failed stays as it is.
Implements == Atomic!Spec
=============================================================================
