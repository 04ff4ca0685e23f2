-------------------------- MODULE LeadImportProofs --------------------------
(***************************************************************************)
(* What holds of the import for any uploads, any number of workers and any *)
(* faults, and what holds as long as no worker outlives its lock: then it  *)
(* implements AtomicImport.                                                *)
(***************************************************************************)
EXTENDS LeadImport, TLAPS

Working == {"check", "look", "rows", "audit", "done", "threw"}

\* A run that is not idle is at a batch of its upload.
RunTyped(r) ==
  IF r.at = "idle" THEN r.up = None ELSE r.up \in Uploads /\ r.batch \in Batches(r.up)

\* Types; a job that waits or runs has an attempt left.
TInv ==
  /\ TypeOK
  /\ \A w \in Workers : RunTyped(run[w])
  /\ \A u \in Uploads : job[u].state \in {"none", "waiting", "active"} => job[u].tries < Attempts

-----------------------------------------------------------------------------
\* Runs and files

\* The run of one worker changes, the others' do not.
LEMMA Becomes ==
  ASSUME run \in [Workers -> Runs], NEW w \in Workers, NEW r \in Runs, Become(w, r)
  PROVE  /\ run' \in [Workers -> Runs]
         /\ run'[w] = r
         /\ \A v \in Workers : v # w => run'[v] = run[v]
BY DEF Become

LEMMA FileTypes ==
  ASSUME NEW u \in Uploads
  PROVE  /\ Len(BatchesOf[u]) \in Nat \ {0}
         /\ \A b \in Batches(u) : \A i \in Rows(u, b) : BatchesOf[u][b][i] \in Row
<1>1. BatchesOf[u] \in Seq(Seq(Row)) /\ BatchesOf[u] # <<>>
  BY ImportAssumption
<1>2. Len(BatchesOf[u]) \in Nat \ {0}
  BY <1>1
<1>3. ASSUME NEW b \in Batches(u)
      PROVE  BatchesOf[u][b] \in Seq(Row)
  BY <1>1, <1>2, <1>3 DEF Batches
<1>4. ASSUME NEW b \in Batches(u), NEW i \in Rows(u, b)
      PROVE  BatchesOf[u][b][i] \in Row
  BY <1>3, <1>4 DEF Rows
<1> QED
  BY <1>2, <1>4

\* What a run is after a batch.
LEMMA AfterIs ==
  ASSUME NEW r \in Runs, r.up \in Uploads, r.batch \in Batches(r.up),
         NEW imported \in BOOLEAN, NEW failed \in BOOLEAN
  PROVE  /\ After(r, imported, failed) \in Runs
         /\ After(r, imported, failed).up = r.up
         /\ After(r, imported, failed).batch \in Batches(r.up)
         /\ r.imported \/ imported => After(r, imported, failed).imported
         /\ r.flagged \subseteq After(r, imported, failed).flagged
         /\ failed => r.batch \in After(r, imported, failed).flagged
         /\ \/ After(r, imported, failed).at = "audit" /\ r.batch = Len(BatchesOf[r.up])
            \/ After(r, imported, failed).at = "look" /\ After(r, imported, failed).batch = r.batch + 1
<1>1. Len(BatchesOf[r.up]) \in Nat
  BY FileTypes
<1>2. PICK place \in {"audit", "look"} : place = IF Last(r) THEN "audit" ELSE "look"
  OBVIOUS
<1>3. PICK n \in Batches(r.up) : n = IF Last(r) THEN r.batch ELSE r.batch + 1
  BY <1>1 DEF Last, Batches
<1>4. PICK hit \in BOOLEAN : hit = (r.imported \/ imported)
  BY DEF Runs
<1>5. PICK F \in SUBSET Nat : F = IF failed THEN r.flagged \cup {r.batch} ELSE r.flagged
  BY <1>1 DEF Runs, Batches
<1>6. After(r, imported, failed) =
        [r EXCEPT !.at = place, !.batch = n, !.found = {}, !.imported = hit, !.flagged = F]
  BY <1>2, <1>3, <1>4, <1>5, Zenon DEF After
<1>7. n \in Nat
  BY <1>1 DEF Batches
<1> DEFINE s == [r EXCEPT !.at = place, !.batch = n, !.found = {}, !.imported = hit, !.flagged = F]
<1>8. s \in Runs
  BY <1>7 DEF Runs
<1>9. s.at = place /\ s.up = r.up /\ s.batch = n /\ s.flagged = F
  BY DEF Runs
<1>10. s.imported = hit
  BY Zenon DEF Runs
<1> HIDE DEF s
<1>11. (place = "audit" /\ r.batch = Len(BatchesOf[r.up])) \/ (place = "look" /\ n = r.batch + 1)
  BY <1>2, <1>3 DEF Last
<1>12. r.imported \/ imported => s.imported
  BY <1>4, <1>10, Zenon
<1>14. r.flagged \subseteq s.flagged /\ (failed => r.batch \in s.flagged)
  BY <1>5, <1>9, Zenon
<1>13. After(r, imported, failed) = s
  BY <1>6 DEF s
<1> QED
  BY <1>3, <1>8, <1>9, <1>11, <1>12, <1>13, <1>14, Zenon

LEMMA AfterTyped ==
  ASSUME NEW r \in Runs, r.up \in Uploads, r.batch \in Batches(r.up), NEW i \in BOOLEAN, NEW f \in BOOLEAN
  PROVE  /\ After(r, i, f) \in Runs
         /\ After(r, i, f).up = r.up
         /\ After(r, i, f).batch \in Batches(r.up)
         /\ After(r, i, f).at # "idle"
<1>1. After(r, i, f) \in Runs
  BY AfterIs
<1>2. After(r, i, f).up = r.up
  BY AfterIs
<1>3. After(r, i, f).batch \in Batches(r.up)
  BY AfterIs
<1>4. After(r, i, f).at # "idle"
  BY AfterIs
<1> QED
  BY <1>1, <1>2, <1>3, <1>4

LEMMA ExecutionType ==
  ASSUME TypeOK, NEW u \in Uploads
  PROVE  Execution(u) \in Nat
BY DEF TypeOK, Jobs, Execution, Attempts, MaxStalledCount

\* The leads of a batch come from its rows.
LEMMA NewLeadsAre ==
  ASSUME TypeOK, NEW r \in Runs, r.up \in Uploads, r.batch \in Batches(r.up)
  PROVE  /\ NewLeads(r) \subseteq Leads
         /\ \A x \in NewLeads(r) :
              /\ x.by = r.up /\ x.run = Execution(r.up) /\ x.batch = r.batch
              /\ x.email \notin r.found \/ StrategyOf[r.up] = "create"
<1>1. \A i \in Rows(r.up, r.batch) : RowAt(r, i) \in Row
  BY FileTypes DEF RowAt
<1>2. \A i \in Created(r) : i \in Rows(r.up, r.batch) /\ i \in Nat
  BY DEF Created, Written, Rows
<1>3. ASSUME NEW i \in Created(r)
      PROVE  [by |-> r.up, email |-> RowAt(r, i).email, batch |-> r.batch, row |-> i,
              run |-> Execution(r.up)] \in Leads
  <2>1. RowAt(r, i).email \in Emails
    BY <1>1, <1>2 DEF Row
  <2>2. r.batch \in Nat
    BY DEF Runs
  <2> QED
    BY <1>2, <2>1, <2>2, ExecutionType DEF Leads
<1>4. \A i \in Created(r) : RowAt(r, i).email \notin r.found \/ StrategyOf[r.up] = "create"
  BY DEF Created, Exists
<1> QED
  BY <1>3, <1>4 DEF NewLeads

\* A busy run is at a batch of its upload.
LEMMA BusyRun ==
  ASSUME TInv, NEW w \in Workers, ~At(w, "idle")
  PROVE  /\ run[w] \in Runs
         /\ run[w].up \in Uploads
         /\ run[w].batch \in Batches(run[w].up)
BY DEF TInv, TypeOK, RunTyped, At

-----------------------------------------------------------------------------
\* Types

LEMMA InitTypes == Init => TInv
<1> SUFFICES ASSUME Init
             PROVE  TInv
  OBVIOUS
<1>1. Idle \in Runs /\ RunTyped(Idle)
  BY DEF Idle, Runs, RunTyped
<1>2. NoJob \in Jobs /\ NoJob.state = "none" /\ NoJob.holder = None /\ NoJob.tries < Attempts
  BY DEF NoJob, Jobs, Attempts, MaxStalledCount
<1>3. leads \subseteq Leads
  BY ImportAssumption DEF Init, Leads
<1> QED
  BY <1>1, <1>2, <1>3 DEF Init, TInv, TypeOK

\* The place of a busy run changes.
LEMMA GotoTypes ==
  ASSUME TInv, NEW w \in Workers, ~At(w, "idle"), NEW place \in Working, Goto(w, place)
  PROVE  /\ run' \in [Workers -> Runs]
         /\ \A v \in Workers : RunTyped(run'[v])
         /\ run'[w] = [run[w] EXCEPT !.at = place]
         /\ run'[w].at = place
         /\ \A v \in Workers : v # w => run'[v] = run[v]
<1> DEFINE r == [run[w] EXCEPT !.at = place]
<1>1. r \in Runs /\ r.at = place /\ r.up = run[w].up /\ r.batch = run[w].batch
  BY BusyRun DEF Runs, Working
<1>2. RunTyped(r)
  BY <1>1, BusyRun DEF RunTyped, Working
<1>3. Become(w, r)
  BY DEF Goto
<1> HIDE DEF r
<1>4. /\ run' \in [Workers -> Runs] /\ run'[w] = r
      /\ \A v \in Workers : v # w => run'[v] = run[v]
  BY <1>1, <1>3, Becomes DEF TInv, TypeOK
<1> QED
  BY <1>1, <1>2, <1>4 DEF TInv, r

\* The start of a run.
LEMMA Started ==
  ASSUME NEW u \in Uploads
  PROVE  LET r == [Idle EXCEPT !.at = "check", !.up = u]
         IN /\ r \in Runs /\ RunTyped(r)
            /\ r.at = "check" /\ r.up = u /\ r.batch = 1
<1>1. Idle \in Runs /\ Idle.batch = 1
  BY DEF Idle, Runs
<1>2. 1 \in Batches(u)
  BY FileTypes DEF Batches
<1> HIDE DEF Idle
<1>3. ASSUME NEW idle \in Runs, idle.batch = 1
      PROVE  LET r == [idle EXCEPT !.at = "check", !.up = u]
             IN /\ r \in Runs
                /\ r.at = "check" /\ r.up = u /\ r.batch = 1
  BY <1>3 DEF Runs
<1> QED
  BY <1>1, <1>2, <1>3 DEF RunTyped

\* What the queue does to a job.
LEMMA TakenIs ==
  ASSUME NEW j \in Jobs, NEW w \in Workers
  PROVE  /\ Taken(j, w) \in Jobs
         /\ Taken(j, w).state = "active" /\ Taken(j, w).holder = w
         /\ Taken(j, w).tries = j.tries /\ Taken(j, w).stalls = j.stalls
         /\ Taken(j, w).flagged = j.flagged
BY DEF Jobs, Taken

LEMMA CompletedIs ==
  ASSUME NEW j \in Jobs, NEW r \in Runs
  PROVE  /\ Completed(j, r) \in Jobs
         /\ Completed(j, r).state = "done" /\ Completed(j, r).holder = None
         /\ Completed(j, r).flagged = r.flagged
         /\ Completed(j, r).tries = j.tries /\ Completed(j, r).stalls = j.stalls
BY DEF Jobs, Runs, Completed

LEMMA AgainIs ==
  ASSUME NEW j \in Jobs, j.tries < Attempts
  PROVE  /\ Again(j) \in Jobs
         /\ Again(j).holder = None
         /\ Again(j).state \in {"waiting", "failed"}
         /\ Again(j).tries = j.tries + 1
         /\ Again(j).stalls = j.stalls
         /\ Again(j).flagged = j.flagged
         /\ Again(j).state = "waiting" => Again(j).tries < Attempts
<1>1. PICK n \in 0 .. Attempts : n = j.tries + 1
  BY DEF Jobs, Attempts
<1>2. PICK s \in {"waiting", "failed"} : s = IF j.tries + 1 < Attempts THEN "waiting" ELSE "failed"
  OBVIOUS
<1>3. Again(j) = [j EXCEPT !.tries = n, !.holder = None, !.state = s]
  BY <1>1, <1>2, Zenon DEF Again
<1> QED
  BY <1>1, <1>2, <1>3 DEF Jobs

LEMMA StalledIs ==
  ASSUME NEW j \in Jobs
  PROVE  /\ Stalled(j) \in Jobs
         /\ Stalled(j).holder = None
         /\ Stalled(j).tries = j.tries
         /\ Stalled(j).flagged = j.flagged
         /\ \/ Stalled(j).state = "waiting" /\ Stalled(j).stalls = j.stalls + 1
            \/ Stalled(j).state = "failed" /\ Stalled(j).stalls = j.stalls
<1>1. CASE j.stalls < MaxStalledCount
  <2>1. PICK n \in 0 .. MaxStalledCount : n = j.stalls + 1
    BY <1>1 DEF Jobs, MaxStalledCount
  <2>2. Stalled(j) = [j EXCEPT !.holder = None, !.stalls = n, !.state = "waiting"]
    BY <1>1, <2>1, Zenon DEF Stalled
  <2> QED
    BY <2>1, <2>2 DEF Jobs
<1>2. CASE ~(j.stalls < MaxStalledCount)
  <2>1. Stalled(j) = [j EXCEPT !.holder = None, !.state = "failed"]
    BY <1>2, Zenon DEF Stalled
  <2> QED
    BY <2>1 DEF Jobs
<1> QED
  BY <1>1, <1>2

LEMMA TakeTypes ==
  ASSUME TInv, NEW w \in Workers, NEW u \in Uploads, Take(w, u)
  PROVE  TInv'
<1> DEFINE r == [Idle EXCEPT !.at = "check", !.up = u]
<1>1. r \in Runs /\ RunTyped(r)
  BY Started
<1>2. Become(w, r)
  BY DEF Take
<1> HIDE DEF r
<1>3. run' \in [Workers -> Runs] /\ \A v \in Workers : RunTyped(run'[v])
  BY <1>1, <1>2, Becomes DEF TInv, TypeOK
<1>4. job[u] \in Jobs
  BY DEF TInv, TypeOK
<1>5. job' = [job EXCEPT ![u] = Taken(job[u], w)]
  BY DEF Take, TInv, TypeOK
<1>6. /\ job' \in [Uploads -> Jobs] /\ job'[u] = Taken(job[u], w)
      /\ \A x \in Uploads : x # u => job'[x] = job[x]
  BY <1>4, <1>5, TakenIs DEF TInv, TypeOK
<1>7. job[u].tries < Attempts
  BY DEF Take, TInv
<1>8. job'[u].state = "active" /\ job'[u].holder # None /\ job'[u].tries < Attempts
  BY <1>4, <1>6, <1>7, TakenIs, ImportAssumption
<1> QED
  BY <1>3, <1>6, <1>8 DEF Take, TInv, TypeOK

\* A worker that takes a job starts at its first batch.
LEMMA TakeStarts ==
  ASSUME TInv, NEW w \in Workers, NEW u \in Uploads, Take(w, u)
  PROVE  /\ run'[w].at = "check" /\ run'[w].up = u /\ run'[w].batch = 1
         /\ \A v \in Workers : v # w => run'[v] = run[v]
         /\ job'[u].state = "active" /\ job'[u].holder = w
         /\ job'[u].tries = job[u].tries /\ job'[u].stalls = job[u].stalls
         /\ \A x \in Uploads : x # u => job'[x] = job[x]
<1> DEFINE r == [Idle EXCEPT !.at = "check", !.up = u]
<1>1. r \in Runs /\ r.at = "check" /\ r.up = u /\ r.batch = 1
  BY Started
<1>2. Become(w, r)
  BY DEF Take
<1> HIDE DEF r
<1>3. run'[w] = r /\ \A v \in Workers : v # w => run'[v] = run[v]
  BY <1>1, <1>2, Becomes DEF TInv, TypeOK
<1>4. job[u] \in Jobs
  BY DEF TInv, TypeOK
<1>5. job'[u] = Taken(job[u], w) /\ \A x \in Uploads : x # u => job'[x] = job[x]
  BY DEF Take, TInv, TypeOK
<1> QED
  BY <1>1, <1>3, <1>4, <1>5, TakenIs

\* A worker goes idle.
LEMMA IdleTypes ==
  ASSUME TInv, NEW w \in Workers, Become(w, Idle)
  PROVE  /\ run' \in [Workers -> Runs]
         /\ \A v \in Workers : RunTyped(run'[v])
         /\ run'[w] = Idle
         /\ \A v \in Workers : v # w => run'[v] = run[v]
<1>1. Idle \in Runs /\ RunTyped(Idle)
  BY DEF Idle, Runs, RunTyped
<1> QED
  BY <1>1, Becomes DEF TInv, TypeOK

LEMMA ReportTypes ==
  ASSUME TInv, NEW w \in Workers, Report(w)
  PROVE  TInv'
<1>0. PICK u \in Uploads : u = run[w].up
  BY BusyRun DEF Report, At
<1>1. run[w] \in Runs /\ job[u] \in Jobs
  BY DEF TInv, TypeOK
<1>2. run' \in [Workers -> Runs] /\ \A v \in Workers : RunTyped(run'[v])
  BY IdleTypes DEF Report
<1>3. CASE job[u].holder # w
  BY <1>0, <1>2, <1>3 DEF Report, TInv, TypeOK
<1>4. CASE job[u].holder = w
  <2>1. job[u].tries < Attempts
    BY <1>1, <1>4, ImportAssumption DEF TInv, TypeOK
  <2>2. PICK j \in Jobs :
          /\ job' = [job EXCEPT ![u] = j]
          /\ j.holder = None
          /\ j.state \in {"waiting", "done", "failed"}
          /\ j.state = "waiting" => j.tries < Attempts
    <3>1. CASE At(w, "done")
      <4>1. job' = [job EXCEPT ![u] = Completed(job[u], run[w])]
        BY <1>0, <1>4, <3>1 DEF Report
      <4> QED
        BY <1>1, <4>1, CompletedIs
    <3>2. CASE ~At(w, "done")
      <4>1. job' = [job EXCEPT ![u] = Again(job[u])]
        BY <1>0, <1>4, <3>2 DEF Report
      <4> QED
        BY <1>1, <2>1, <4>1, AgainIs
    <3> QED
      BY <3>1, <3>2
  <2>3. /\ job' \in [Uploads -> Jobs] /\ job'[u] = j
        /\ \A x \in Uploads : x # u => job'[x] = job[x]
    <3>1. job \in [Uploads -> Jobs]
      BY DEF TInv, TypeOK
    <3>2. job' = [job EXCEPT ![u] = j]
      BY <2>2
    <3> QED
      BY <3>1, <3>2
  <2> QED
    BY <1>2, <2>2, <2>3 DEF Report, TInv, TypeOK
<1> QED
  BY <1>3, <1>4

LEMMA StallTypes ==
  ASSUME TInv, NEW u \in Uploads, Stall(u)
  PROVE  TInv'
<1>1. job[u] \in Jobs /\ job[u].tries < Attempts
  BY DEF Stall, TInv, TypeOK
<1>2. /\ job' \in [Uploads -> Jobs] /\ job'[u] = Stalled(job[u])
      /\ \A x \in Uploads : x # u => job'[x] = job[x]
  BY <1>1, StalledIs DEF Stall, TInv, TypeOK
<1>3. /\ job'[u].state # "active" /\ job'[u].holder = None /\ job'[u].tries < Attempts
  BY <1>1, <1>2, StalledIs
<1> QED
  BY <1>2, <1>3 DEF Stall, TInv, TypeOK

LEMMA ImportLeadsTypes ==
  ASSUME TInv, NEW u \in Uploads, ImportLeads(u)
  PROVE  TInv'
<1>1. /\ job' \in [Uploads -> Jobs]
      /\ job'[u].state = "waiting" /\ job'[u].holder = job[u].holder /\ job'[u].tries = job[u].tries
      /\ \A x \in Uploads : x # u => job'[x] = job[x]
  BY DEF ImportLeads, TInv, TypeOK, Jobs
<1> QED
  BY <1>1 DEF ImportLeads, TInv, TypeOK

LEMMA LookTypes ==
  ASSUME TInv, NEW w \in Workers, Look(w)
  PROVE  TInv'
<1> DEFINE r == [run[w] EXCEPT !.at = "rows", !.found = EmailsOf(leads)]
<1>1. EmailsOf(leads) \subseteq Emails
  BY DEF EmailsOf, Leads, TInv, TypeOK
<1>2. r \in Runs /\ r.at = "rows" /\ r.up = run[w].up /\ r.batch = run[w].batch
  BY <1>1, BusyRun DEF Runs, Look, At
<1>3. RunTyped(r)
  BY <1>2, BusyRun DEF RunTyped, Look, At
<1>4. Become(w, r)
  BY DEF Look
<1> HIDE DEF r
<1>5. run' \in [Workers -> Runs] /\ \A v \in Workers : RunTyped(run'[v])
  BY <1>2, <1>3, <1>4, Becomes DEF TInv, TypeOK
<1> QED
  BY <1>5 DEF Look, TInv, TypeOK

LEMMA BatchTypes ==
  ASSUME TInv, NEW w \in Workers, At(w, "rows"), NEW imported \in BOOLEAN, NEW failed \in BOOLEAN,
         Become(w, After(run[w], imported, failed))
  PROVE  /\ run' \in [Workers -> Runs]
         /\ \A v \in Workers : RunTyped(run'[v])
         /\ run'[w] = After(run[w], imported, failed)
         /\ \A v \in Workers : v # w => run'[v] = run[v]
<1>1. run[w] \in Runs /\ run[w].up \in Uploads /\ run[w].batch \in Batches(run[w].up)
  BY BusyRun DEF At
<1>2. PICK p \in Runs : p = run[w]
  BY <1>1
<1>3. p.up \in Uploads /\ p.batch \in Batches(p.up)
  BY <1>1, <1>2
<1>4. /\ After(p, imported, failed) \in Runs
      /\ After(p, imported, failed).up = p.up
      /\ After(p, imported, failed).batch \in Batches(p.up)
      /\ After(p, imported, failed).at # "idle"
  BY <1>3, AfterTyped
<1> DEFINE r == After(p, imported, failed)
<1>6. Become(w, r)
  BY <1>2
<1>7. RunTyped(r)
  BY <1>3, <1>4 DEF RunTyped
<1> HIDE DEF r
<1>8. /\ run' \in [Workers -> Runs] /\ run'[w] = r
      /\ \A v \in Workers : v # w => run'[v] = run[v]
  BY <1>4, <1>6, Becomes DEF TInv, TypeOK, r
<1> QED
  BY <1>2, <1>7, <1>8 DEF TInv, r

LEMMA CommitTypes ==
  ASSUME TInv, NEW w \in Workers, Commit(w)
  PROVE  TInv'
<1>1. PICK hit \in BOOLEAN : hit = (Written(run[w]) # {})
  OBVIOUS
<1>2. PICK failed \in BOOLEAN : failed = Refuses(run[w])
  BY DEF Refuses
<1>3. Become(w, After(run[w], hit, failed))
  BY <1>1, <1>2, Zenon DEF Commit
<1>4. run' \in [Workers -> Runs] /\ \A v \in Workers : RunTyped(run'[v])
  BY <1>3, BatchTypes DEF Commit
<1>5. NewLeads(run[w]) \subseteq Leads
  BY BusyRun, NewLeadsAre DEF Commit, At, TInv
<1> QED
  BY <1>4, <1>5 DEF Commit, TInv, TypeOK

LEMMA PoisonTypes ==
  ASSUME TInv, NEW w \in Workers, Poison(w)
  PROVE  TInv'
<1>1. PICK i \in Written(run[w]) :
        Become(w, After(run[w], \E earlier \in Written(run[w]) : earlier < i, TRUE))
  BY Zenon DEF Poison
<1>2. PICK hit \in BOOLEAN : hit = \E earlier \in Written(run[w]) : earlier < i
  OBVIOUS
<1>3. Become(w, After(run[w], hit, TRUE))
  BY <1>1, <1>2, Zenon
<1>4. run' \in [Workers -> Runs] /\ \A v \in Workers : RunTyped(run'[v])
  BY <1>3, BatchTypes DEF Poison
<1> QED
  BY <1>4 DEF Poison, TInv, TypeOK

LEMMA PlaceTypes ==
  ASSUME TInv, NEW w \in Workers,
         AssertWithinLimit(w) \/ BatchFails(w) \/ Audit(w) \/ AuditFails(w)
  PROVE  TInv'
<1>1. \E place \in Working : Goto(w, place)
  BY DEF AssertWithinLimit, BatchFails, Audit, AuditFails, Working
<1>2. ~At(w, "idle")
  BY DEF AssertWithinLimit, BatchFails, Audit, AuditFails, At
<1>3. run' \in [Workers -> Runs] /\ \A v \in Workers : RunTyped(run'[v])
  BY <1>1, <1>2, GotoTypes
<1>4. audited' \subseteq Uploads /\ leads' = leads /\ deleted' = deleted /\ job' = job
  BY <1>2, BusyRun DEF AssertWithinLimit, BatchFails, Audit, AuditFails, TInv, TypeOK
<1> QED
  BY <1>3, <1>4 DEF TInv, TypeOK

LEMMA NextTypes == TInv /\ [Next]_vars => TInv'
<1> SUFFICES ASSUME TInv, [Next]_vars
             PROVE  TInv'
  OBVIOUS
<1>1. ASSUME NEW u \in Uploads, ImportLeads(u) \/ Stall(u)
      PROVE  TInv'
  BY <1>1, ImportLeadsTypes, StallTypes
<1>2. ASSUME NEW w \in Workers, Proceed(w)
      PROVE  TInv'
  BY <1>2, PlaceTypes, LookTypes, CommitTypes, ReportTypes DEF Proceed
<1>3. ASSUME NEW w \in Workers, Crash(w)
      PROVE  TInv'
  BY <1>3, IdleTypes DEF Crash, TInv, TypeOK
<1>4. ASSUME NEW w \in Workers, Breaks(w)
      PROVE  TInv'
  BY <1>3, <1>4, PlaceTypes, PoisonTypes DEF Breaks
<1>5. ASSUME NEW x \in leads, DeleteLead(x)
      PROVE  TInv'
  BY <1>5 DEF DeleteLead, TInv, TypeOK, Leads
<1>6. CASE UNCHANGED vars
  BY <1>6 DEF vars, TInv, TypeOK
<1> QED
  BY <1>1, <1>2, <1>4, <1>5, <1>6, TakeTypes DEF Next

LEMMA Types == Spec => []TInv
BY InitTypes, NextTypes, PTL DEF Spec

\* Every variable keeps its type, whatever fails: no job is tried more often than the queue
\* allows, no run leaves the batches of its file, and exactly the active jobs are held.
THEOREM TypeInvariant == Spec => []TypeOK
BY Types, PTL DEF TInv

-----------------------------------------------------------------------------
\* What an upload reports

\* The e-mails that are or were leads'.
Known == EmailsOf(leads) \cup deleted

Accounted(u, b, flagged, K) == b \in flagged \/ EmailsIn(u, b) \subseteq K

\* What a run has learnt of the leads is true, and it accounts for the batches behind it.
RunShows(r, K) ==
  /\ r.at \in {"check", "look", "rows"} =>
       \A b \in Batches(r.up) : b < r.batch => Accounted(r.up, b, r.flagged, K)
  /\ r.at = "rows" => r.found \subseteq K
  /\ r.at \in {"audit", "done"} => \A b \in Batches(r.up) : Accounted(r.up, b, r.flagged, K)

JobShows(j, u, K) == j.state = "done" => \A b \in Batches(u) : Accounted(u, b, j.flagged, K)

ShowInv ==
  /\ \A w \in Workers : RunShows(run[w], Known)
  /\ \A u \in Uploads : JobShows(job[u], u, Known)

\* More leads make nothing untrue.
LEMMA ShowsMonotone ==
  ASSUME NEW K, NEW L, K \subseteq L
  PROVE  /\ \A r : RunShows(r, K) => RunShows(r, L)
         /\ \A j, u : JobShows(j, u, K) => JobShows(j, u, L)
<1>1. \A u, b, F : Accounted(u, b, F, K) => Accounted(u, b, F, L)
  BY DEF Accounted
<1> QED
  BY <1>1 DEF RunShows, JobShows

LEMMA KnownGrows ==
  ASSUME [Next]_vars
  PROVE  Known \subseteq Known'
<1>1. ASSUME NEW w \in Workers, Commit(w)
      PROVE  Known \subseteq Known'
  BY <1>1 DEF Commit, Known, EmailsOf
<1>2. ASSUME NEW x \in leads, DeleteLead(x)
      PROVE  Known \subseteq Known'
  BY <1>2 DEF DeleteLead, Known, EmailsOf
<1>3. ASSUME leads' = leads, deleted' = deleted
      PROVE  Known \subseteq Known'
  BY <1>3 DEF Known, EmailsOf
<1>4. \/ \E w \in Workers : Commit(w)
      \/ \E x \in leads : DeleteLead(x)
      \/ leads' = leads /\ deleted' = deleted
  BY DEF Next, Proceed, Breaks, ImportLeads, Stall, Take, AssertWithinLimit, Look, Audit, Report,
         Poison, BatchFails, AuditFails, Crash, vars
<1> QED
  BY <1>1, <1>2, <1>3, <1>4

\* The run of a worker is changed by its own actions only.
LEMMA OwnMoves ==
  ASSUME TypeOK, [Next]_vars, NEW v \in Workers, run'[v] # run[v]
  PROVE  Proceed(v) \/ Breaks(v) \/ \E u \in Uploads : Take(v, u)
<1>1. ASSUME NEW w \in Workers, NEW r, Become(w, r), v # w
      PROVE  FALSE
  BY <1>1 DEF Become, TypeOK
<1>2. ASSUME NEW w \in Workers, Proceed(w), v # w
      PROVE  FALSE
  BY <1>1, <1>2 DEF Proceed, AssertWithinLimit, Look, Commit, Audit, Report, Goto
<1>3. ASSUME NEW w \in Workers, Breaks(w), v # w
      PROVE  FALSE
  BY <1>1, <1>3 DEF Breaks, Poison, BatchFails, AuditFails, Crash, Goto
<1>4. ASSUME NEW w \in Workers, NEW u \in Uploads, Take(w, u), v # w
      PROVE  FALSE
  BY <1>1, <1>4 DEF Take
<1>5. run' = run \/ \E w \in Workers : Proceed(w) \/ Breaks(w) \/ \E u \in Uploads : Take(w, u)
  BY DEF Next, ImportLeads, Stall, DeleteLead, vars
<1> QED
  BY <1>2, <1>3, <1>4, <1>5

\* A batch leaves the e-mail of each good row a lead's.
LEMMA RowShows ==
  ASSUME TInv, [Next]_vars, NEW w \in Workers, Commit(w), run[w].found \subseteq Known,
         NEW i \in Rows(run[w].up, run[w].batch), RowAt(run[w], i).kind = "good"
  PROVE  RowAt(run[w], i).email \in Known'
<1>1. PICK r \in Runs : r = run[w]
  BY DEF TInv, TypeOK
<1>2. SUFFICES RowAt(r, i).email \in Known'
  BY <1>1
<1>3. i \in Rows(r.up, r.batch) /\ RowAt(r, i).kind = "good"
  BY <1>1
<1>4. CASE Exists(r, i)
  BY <1>1, <1>4, KnownGrows DEF Exists
<1>5. CASE ~Exists(r, i)
  <2>1. i \in Created(r)
    BY <1>3, <1>5 DEF Created, Written, Skipped
  <2>2. RowAt(r, i).email \in EmailsOf(NewLeads(r))
    <3> DEFINE x == [by |-> r.up, email |-> RowAt(r, i).email, batch |-> r.batch, row |-> i,
                     run |-> Execution(r.up)]
    <3>1. x.email = RowAt(r, i).email
      OBVIOUS
    <3>2. x \in NewLeads(r)
      BY <2>1 DEF NewLeads
    <3> HIDE DEF x
    <3> QED
      BY <3>1, <3>2 DEF EmailsOf
  <2>3. leads' = leads \cup NewLeads(r)
    BY <1>1 DEF Commit
  <2> QED
    BY <2>2, <2>3 DEF Known, EmailsOf
<1> QED
  BY <1>4, <1>5

LEMMA CommitShows ==
  ASSUME TInv, [Next]_vars, NEW w \in Workers, Commit(w),
         run[w].found \subseteq Known, ~Refuses(run[w])
  PROVE  EmailsIn(run[w].up, run[w].batch) \subseteq Known'
<1>1. run[w].up \in Uploads /\ run[w].batch \in Batches(run[w].up)
  BY BusyRun DEF Commit, At
<1>2. ASSUME NEW i \in Rows(run[w].up, run[w].batch)
      PROVE  RowAt(run[w], i).email \in Known'
  <2>1. RowAt(run[w], i).kind \in {"good", "incomplete", "unknown"}
    BY <1>1, FileTypes DEF RowAt, Row
  <2>2. CASE RowAt(run[w], i).kind = "good"
    BY <2>2, RowShows
  <2>3. CASE RowAt(run[w], i).kind # "good"
    <3>1. RowAt(run[w], i).email \in run[w].found
      BY <2>1, <2>3 DEF Refuses, Skipped, Exists
    <3> QED
      BY <3>1, KnownGrows
  <2> QED
    BY <2>2, <2>3
<1> QED
  BY <1>2 DEF EmailsIn, RowAt

\* Behind a batch, all is accounted for if the batch is.
LEMMA BatchShows ==
  ASSUME NEW r \in Runs, r.up \in Uploads, r.batch \in Batches(r.up),
         NEW imported \in BOOLEAN, NEW failed \in BOOLEAN, NEW K,
         \A b \in Batches(r.up) : b < r.batch => Accounted(r.up, b, r.flagged, K),
         failed \/ EmailsIn(r.up, r.batch) \subseteq K
  PROVE  RunShows(After(r, imported, failed), K)
<1> DEFINE s == After(r, imported, failed)
<1>1. /\ s.up = r.up /\ r.flagged \subseteq s.flagged /\ (failed => r.batch \in s.flagged)
      /\ \/ s.at = "audit" /\ r.batch = Len(BatchesOf[r.up])
         \/ s.at = "look" /\ s.batch = r.batch + 1
  BY AfterIs
<1> HIDE DEF s
<1>2. ASSUME NEW b \in Batches(r.up), b < r.batch \/ b = r.batch
      PROVE  Accounted(r.up, b, s.flagged, K)
  BY <1>1, <1>2 DEF Accounted
<1>3. Len(BatchesOf[r.up]) \in Nat
  BY FileTypes
<1>4. ASSUME s.at = "audit", r.batch = Len(BatchesOf[r.up])
      PROVE  RunShows(s, K)
  <2>1. \A b \in Batches(r.up) : Accounted(s.up, b, s.flagged, K)
    BY <1>1, <1>2, <1>3, <1>4 DEF Batches
  <2> QED
    BY <1>1, <1>4, <2>1 DEF RunShows
<1>5. ASSUME s.at = "look", s.batch = r.batch + 1
      PROVE  RunShows(s, K)
  <2>1. \A b \in Batches(r.up) : b < s.batch => Accounted(s.up, b, s.flagged, K)
    BY <1>1, <1>2, <1>3, <1>5 DEF Batches
  <2> QED
    BY <1>1, <1>5, <2>1 DEF RunShows
<1>6. RunShows(s, K)
  BY <1>1, <1>4, <1>5
<1> QED
  BY <1>6 DEF s

LEMMA RunsShow ==
  ASSUME TInv, ShowInv, [Next]_vars, NEW w \in Workers
  PROVE  RunShows(run'[w], Known')
<1>1. RunShows(run[w], Known')
  BY KnownGrows, ShowsMonotone DEF ShowInv
<1>2. ASSUME NEW u \in Uploads, Take(w, u)
      PROVE  RunShows(run'[w], Known')
  <2>1. run'[w].at = "check" /\ run'[w].up = u /\ run'[w].batch = 1
    BY <1>2, TakeStarts
  <2> QED
    BY <2>1, FileTypes DEF RunShows, Batches
<1>3. CASE Report(w) \/ Crash(w)
  <2>1. run'[w] = Idle
    BY <1>3, IdleTypes DEF Report, Crash
  <2>2. Idle.at = "idle"
    BY DEF Idle
  <2> QED
    BY <2>1, <2>2 DEF RunShows
<1>4. ASSUME ~At(w, "idle"), NEW place \in Working, Goto(w, place),
             \/ place = "threw"
             \/ place = "look" /\ At(w, "check")
             \/ place = "done" /\ At(w, "audit")
      PROVE  RunShows(run'[w], Known')
  <2>1. PICK r \in Runs : r = run[w]
    BY DEF TInv, TypeOK
  <2>2. run'[w] = [r EXCEPT !.at = place]
    BY <1>4, <2>1, GotoTypes
  <2>3. run'[w].at = place /\ run'[w].up = r.up /\ run'[w].batch = r.batch /\ run'[w].flagged = r.flagged
    BY <2>2 DEF Runs
  <2> QED
    BY <1>1, <1>4, <2>1, <2>3 DEF RunShows, At
<1>5. CASE AssertWithinLimit(w) \/ BatchFails(w) \/ Audit(w) \/ AuditFails(w)
  BY <1>4, <1>5 DEF AssertWithinLimit, BatchFails, Audit, AuditFails, At, Working
<1>6. CASE Look(w)
  <2>1. PICK r \in Runs : r = run[w]
    BY DEF TInv, TypeOK
  <2>2. EmailsOf(leads) \subseteq Emails
    BY DEF EmailsOf, Leads, TInv, TypeOK
  <2>3. run'[w] = [r EXCEPT !.at = "rows", !.found = EmailsOf(leads)]
    BY <1>6, <2>1, <2>2 DEF Look, Become, TInv, TypeOK
  <2>4. /\ run'[w].at = "rows" /\ run'[w].up = r.up /\ run'[w].batch = r.batch
        /\ run'[w].flagged = r.flagged /\ run'[w].found = EmailsOf(leads)
    BY <2>3 DEF Runs
  <2>5. EmailsOf(leads) \subseteq Known'
    BY KnownGrows DEF Known
  <2> QED
    BY <1>1, <1>6, <2>1, <2>4, <2>5 DEF RunShows, Look, At
<1>7. ASSUME NEW hit \in BOOLEAN, NEW failed \in BOOLEAN, At(w, "rows"),
             Become(w, After(run[w], hit, failed)),
             failed \/ EmailsIn(run[w].up, run[w].batch) \subseteq Known'
      PROVE  RunShows(run'[w], Known')
  <2>1. run[w] \in Runs /\ run[w].up \in Uploads /\ run[w].batch \in Batches(run[w].up)
    BY <1>7, BusyRun DEF At
  <2>2. \A b \in Batches(run[w].up) : b < run[w].batch =>
          Accounted(run[w].up, b, run[w].flagged, Known')
    BY <1>1, <1>7 DEF RunShows, At
  <2>3. RunShows(After(run[w], hit, failed), Known')
    BY <1>7, <2>1, <2>2, BatchShows
  <2>4. run'[w] = After(run[w], hit, failed)
    BY <1>7, BatchTypes
  <2> QED
    BY <2>3, <2>4
<1>8. CASE Commit(w)
  <2>1. PICK hit \in BOOLEAN : hit = (Written(run[w]) # {})
    OBVIOUS
  <2>2. PICK failed \in BOOLEAN : failed = Refuses(run[w])
    BY DEF Refuses
  <2>3. At(w, "rows") /\ Become(w, After(run[w], hit, failed))
    BY <1>8, <2>1, <2>2, Zenon DEF Commit
  <2>4. run[w].found \subseteq Known
    BY <2>3 DEF ShowInv, RunShows, At
  <2>5. failed \/ EmailsIn(run[w].up, run[w].batch) \subseteq Known'
    BY <1>8, <2>2, <2>4, CommitShows
  <2> QED
    BY <1>7, <2>3, <2>5
<1>9. CASE Poison(w)
  <2>1. PICK i \in Written(run[w]) :
          Become(w, After(run[w], \E earlier \in Written(run[w]) : earlier < i, TRUE))
    BY <1>9, Zenon DEF Poison
  <2>2. PICK hit \in BOOLEAN : hit = \E earlier \in Written(run[w]) : earlier < i
    OBVIOUS
  <2>3. Become(w, After(run[w], hit, TRUE))
    BY <2>1, <2>2, Zenon
  <2> QED
    BY <1>7, <1>9, <2>3 DEF Poison
<1> QED
  BY <1>1, <1>2, <1>3, <1>5, <1>6, <1>8, <1>9, OwnMoves DEF Proceed, Breaks, TInv

\* A job is changed by its upload's arrival, by the queue, and by the worker that holds it.
LEMMA JobMoves ==
  ASSUME TInv, [Next]_vars, NEW u \in Uploads, job'[u] # job[u]
  PROVE  \/ ImportLeads(u)
         \/ Stall(u)
         \/ \E w \in Workers : Take(w, u)
         \/ \E w \in Workers : Report(w) /\ run[w].up = u /\ job[u].holder = w
<1>1. ASSUME NEW x \in Uploads, ImportLeads(x) \/ Stall(x), x # u
      PROVE  FALSE
  BY <1>1 DEF ImportLeads, Stall, TInv, TypeOK
<1>2. ASSUME NEW w \in Workers, NEW x \in Uploads, Take(w, x), x # u
      PROVE  FALSE
  BY <1>2 DEF Take, TInv, TypeOK
<1>3. ASSUME NEW w \in Workers, Report(w), ~(run[w].up = u /\ job[u].holder = w)
      PROVE  FALSE
  BY <1>3 DEF Report, TInv, TypeOK
<1>4. \/ job' = job
      \/ \E x \in Uploads : ImportLeads(x) \/ Stall(x)
      \/ \E w \in Workers : Report(w) \/ \E x \in Uploads : Take(w, x)
  BY DEF Next, Proceed, Breaks, AssertWithinLimit, Look, Commit, Audit, Poison, BatchFails,
         AuditFails, Crash, DeleteLead, vars
<1> QED
  BY <1>1, <1>2, <1>3, <1>4

\* What the worker that holds a job makes of it.
LEMMA Outcome ==
  ASSUME TInv, NEW w \in Workers, Report(w), NEW u \in Uploads, run[w].up = u, job[u].holder = w
  PROVE  /\ job[u].state = "active"
         /\ job'[u].holder = None /\ job'[u].stalls = job[u].stalls
         /\ \/ /\ At(w, "done")
               /\ job'[u].state = "done" /\ job'[u].flagged = run[w].flagged
               /\ job'[u].tries = job[u].tries
            \/ /\ At(w, "threw")
               /\ job'[u].state \in {"waiting", "failed"} /\ job'[u].flagged = job[u].flagged
               /\ job'[u].tries = job[u].tries + 1
<1>1. job[u] \in Jobs /\ run[w] \in Runs
  BY DEF TInv, TypeOK
<1>2. job[u].state = "active" /\ job[u].tries < Attempts
  BY ImportAssumption DEF TInv, TypeOK
<1>3. CASE At(w, "done")
  <2>1. job'[u] = Completed(job[u], run[w])
    BY <1>3 DEF Report, TInv, TypeOK
  <2> QED
    BY <1>1, <1>2, <1>3, <2>1, CompletedIs
<1>4. CASE At(w, "threw") /\ ~At(w, "done")
  <2>1. job'[u] = Again(job[u])
    BY <1>4 DEF Report, TInv, TypeOK
  <2> QED
    BY <1>1, <1>2, <1>4, <2>1, AgainIs
<1> QED
  BY <1>3, <1>4 DEF Report

LEMMA JobsShow ==
  ASSUME TInv, ShowInv, [Next]_vars, NEW u \in Uploads
  PROVE  JobShows(job'[u], u, Known')
<1>1. CASE job'[u] = job[u]
  BY <1>1, KnownGrows, ShowsMonotone DEF ShowInv
<1>2. CASE job'[u].state # "done"
  BY <1>2 DEF JobShows
<1>3. ASSUME NEW w \in Workers, Report(w), run[w].up = u, job[u].holder = w, At(w, "done")
      PROVE  JobShows(job'[u], u, Known')
  <2>1. job'[u].flagged = run[w].flagged
    BY <1>3, Outcome DEF At
  <2>2. RunShows(run[w], Known')
    BY KnownGrows, ShowsMonotone DEF ShowInv
  <2> QED
    BY <1>3, <2>1, <2>2 DEF RunShows, JobShows, At
<1>4. ASSUME job'[u] # job[u], job'[u].state = "done"
      PROVE  \E w \in Workers : Report(w) /\ run[w].up = u /\ job[u].holder = w /\ At(w, "done")
  <2>1. CASE ImportLeads(u)
    BY <1>4, <2>1 DEF ImportLeads, TInv, TypeOK, Jobs
  <2>2. CASE Stall(u)
    <3>1. job[u] \in Jobs /\ job'[u] = Stalled(job[u])
      BY <2>2 DEF Stall, TInv, TypeOK
    <3> QED
      BY <1>4, <3>1, StalledIs
  <2>3. ASSUME NEW w \in Workers, Take(w, u)
        PROVE  FALSE
    BY <1>4, <2>3, TakeStarts
  <2>4. ASSUME NEW w \in Workers, Report(w), run[w].up = u, job[u].holder = w
        PROVE  At(w, "done")
    BY <1>4, <2>4, Outcome
  <2> QED
    BY <1>4, <2>1, <2>2, <2>3, <2>4, JobMoves
<1> QED
  BY <1>1, <1>2, <1>3, <1>4

LEMMA Shows == Spec => [](TInv /\ ShowInv)
<1>1. Init => TInv /\ ShowInv
  <2>1. Init => \A w \in Workers : run[w].at = "idle"
    BY DEF Init, Idle
  <2>2. Init => \A u \in Uploads : job[u].state = "none"
    BY DEF Init, NoJob
  <2> QED
    BY <2>1, <2>2, InitTypes DEF ShowInv, RunShows, JobShows
<1>2. TInv /\ ShowInv /\ [Next]_vars => (TInv /\ ShowInv)'
  BY NextTypes, RunsShow, JobsShow DEF ShowInv
<1> QED
  BY <1>1, <1>2, PTL DEF Spec

\* Whatever fails, and even if a worker outlives its lock: the e-mails of every batch that a
\* finished upload does not report are, or were until deleted, leads'.
THEOREM ReportsAreTrue == Spec => []ReportTrue
<1>1. ShowInv => ReportTrue
  BY DEF ShowInv, JobShows, Accounted, ReportTrue, Known
<1> QED
  BY <1>1, Shows, PTL

-----------------------------------------------------------------------------
\* One execution of an upload at a time

\* Only the holder of a job runs its upload.
Owns == \A w \in Workers : ~At(w, "idle") => job[run[w].up].holder = w

\* A run that is not to create duplicates has found every lead of its own upload.
FoundOwn ==
  \A w \in Workers : At(w, "rows") /\ StrategyOf[run[w].up] # "create" =>
    \A x \in leads : x.by = run[w].up => x.email \in run[w].found

\* A lead is of an execution that has begun; the next one is yet to make its first.
Executions ==
  \A x \in leads : x.by # None =>
    /\ x.run <= Execution(x.by)
    /\ job[x.by].state \in {"none", "waiting"} => x.run < Execution(x.by)

\* A run with a lead counts it, and has it in the audit log when it is done.
Counted ==
  \A w \in Workers : ~At(w, "idle") =>
    \A x \in leads : x.by = run[w].up /\ x.run = Execution(x.by) =>
      /\ ~At(w, "check")
      /\ At(w, "look") \/ At(w, "rows") \/ At(w, "audit") => run[w].imported
      /\ At(w, "done") => x.by \in audited

OwnInv == TInv /\ Owns /\ FoundOwn /\ Executions /\ Counted /\ ImportedOnce /\ ImportAudited

\* A new lead comes from a commit.
LEMMA NewLead ==
  ASSUME [Next]_vars, NEW x \in leads', x \notin leads
  PROVE  \E w \in Workers : Commit(w) /\ x \in NewLeads(run[w])
<1>1. leads' \subseteq leads \/ \E w \in Workers : Commit(w)
  BY DEF Next, Proceed, Breaks, ImportLeads, Stall, Take, AssertWithinLimit, Look, Audit, Report,
         Poison, BatchFails, AuditFails, Crash, DeleteLead, vars
<1> QED
  BY <1>1 DEF Commit

\* What the new lead of a run is.
LEMMA NewLeadOf ==
  ASSUME TInv, NEW w \in Workers, Commit(w), NEW x \in NewLeads(run[w])
  PROVE  /\ x \in Leads /\ x.by = run[w].up /\ x.by \in Uploads
         /\ x.run = Execution(run[w].up) /\ x.batch = run[w].batch
         /\ x.email \notin run[w].found \/ StrategyOf[run[w].up] = "create"
         /\ At(w, "rows") /\ job' = job
  BY BusyRun, NewLeadsAre DEF Commit, At, TInv

LEMMA AuditedGrows ==
  ASSUME [Next]_vars
  PROVE  audited \subseteq audited'
BY DEF Next, Proceed, Breaks, ImportLeads, Stall, Take, AssertWithinLimit, Look, Commit, Audit, Report,
       Poison, BatchFails, AuditFails, Crash, DeleteLead, vars

\* The step of a run within bulkImportLeads.
Continues(w) ==
  /\ job' = job
  /\ run'[w].up = run[w].up
  /\ run[w].imported => run'[w].imported
  /\ \/ /\ At(w, "check")
        /\ run'[w].at \in {"look", "threw"}
        /\ leads' = leads
     \/ /\ At(w, "look")
        /\ run'[w].at = "rows"
        /\ run'[w].found = EmailsOf(leads)
        /\ run'[w].batch = run[w].batch
        /\ leads' = leads
     \/ /\ At(w, "rows")
        /\ run'[w].at \in {"look", "audit", "threw"}
        /\ run'[w].at = "look" => run'[w].batch = run[w].batch + 1
        /\ leads' # leads => run'[w].imported
     \/ /\ At(w, "audit")
        /\ \/ run'[w].at = "threw"
           \/ run'[w].at = "done" /\ (run[w].imported => run[w].up \in audited')
        /\ leads' = leads

LEMMA PlaceContinues ==
  ASSUME TInv, NEW w \in Workers,
         AssertWithinLimit(w) \/ BatchFails(w) \/ Audit(w) \/ AuditFails(w)
  PROVE  Continues(w)
<1>1. PICK place \in Working :
        /\ Goto(w, place)
        /\ \/ At(w, "check") /\ place \in {"look", "threw"}
           \/ At(w, "rows") /\ place = "threw"
           \/ At(w, "audit") /\ place = "threw"
           \/ At(w, "audit") /\ place = "done" /\ (run[w].imported => run[w].up \in audited')
  BY DEF AssertWithinLimit, BatchFails, Audit, AuditFails, Working, At
<1>2. ~At(w, "idle")
  BY <1>1 DEF At
<1>3. PICK r \in Runs : r = run[w]
  BY DEF TInv, TypeOK
<1>4. run'[w] = [r EXCEPT !.at = place]
  BY <1>1, <1>2, <1>3, GotoTypes
<1>5. run'[w].at = place /\ run'[w].up = r.up
  BY <1>4 DEF Runs
<1>6. run'[w].imported = r.imported
  BY <1>4, Zenon DEF Runs
<1>7. leads' = leads /\ job' = job
  BY DEF AssertWithinLimit, BatchFails, Audit, AuditFails
<1>8. r.imported => run'[w].imported
  BY <1>6, Zenon
<1> QED
  BY <1>1, <1>3, <1>5, <1>7, <1>8 DEF Continues

LEMMA LookContinues ==
  ASSUME TInv, NEW w \in Workers, Look(w)
  PROVE  Continues(w)
<1>1. PICK r \in Runs : r = run[w]
  BY DEF TInv, TypeOK
<1>2. EmailsOf(leads) \subseteq Emails
  BY DEF EmailsOf, Leads, TInv, TypeOK
<1>3. run'[w] = [r EXCEPT !.at = "rows", !.found = EmailsOf(leads)]
  BY <1>1, <1>2 DEF Look, Become, TInv, TypeOK
<1>4. /\ run'[w].at = "rows" /\ run'[w].up = r.up /\ run'[w].batch = r.batch
      /\ run'[w].found = EmailsOf(leads)
  BY <1>3 DEF Runs
<1>5. run'[w].imported = r.imported
  BY <1>3, Zenon DEF Runs
<1>6. r.imported => run'[w].imported
  BY <1>5, Zenon
<1> QED
  BY <1>1, <1>4, <1>6 DEF Continues, Look

LEMMA BatchContinues ==
  ASSUME TInv, NEW w \in Workers, At(w, "rows"), NEW hit \in BOOLEAN, NEW failed \in BOOLEAN,
         Become(w, After(run[w], hit, failed)), job' = job, leads' # leads => hit
  PROVE  Continues(w)
<1>1. run[w] \in Runs /\ run[w].up \in Uploads /\ run[w].batch \in Batches(run[w].up)
  BY BusyRun DEF At
<1>2. run'[w] = After(run[w], hit, failed)
  BY BatchTypes
<1>3. /\ run'[w].up = run[w].up
      /\ run'[w].at \in {"look", "audit"}
      /\ run'[w].at = "look" => run'[w].batch = run[w].batch + 1
      /\ run[w].imported \/ hit => run'[w].imported
  BY <1>1, <1>2, AfterIs
<1> QED
  BY <1>3 DEF Continues

LEMMA CommitContinues ==
  ASSUME TInv, NEW w \in Workers, Commit(w)
  PROVE  Continues(w)
<1>1. PICK hit \in BOOLEAN : hit = (Written(run[w]) # {})
  OBVIOUS
<1>2. PICK failed \in BOOLEAN : failed = Refuses(run[w])
  BY DEF Refuses
<1>3. At(w, "rows") /\ Become(w, After(run[w], hit, failed)) /\ job' = job
  BY <1>1, <1>2, Zenon DEF Commit
<1>4. leads' # leads => hit
  BY <1>1 DEF Commit, NewLeads, Created
<1> QED
  BY <1>3, <1>4, BatchContinues

LEMMA PoisonContinues ==
  ASSUME TInv, NEW w \in Workers, Poison(w)
  PROVE  Continues(w)
<1>1. PICK i \in Written(run[w]) :
        Become(w, After(run[w], \E earlier \in Written(run[w]) : earlier < i, TRUE))
  BY Zenon DEF Poison
<1>2. PICK hit \in BOOLEAN : hit = \E earlier \in Written(run[w]) : earlier < i
  OBVIOUS
<1>3. Become(w, After(run[w], hit, TRUE))
  BY <1>1, <1>2, Zenon
<1>4. At(w, "rows") /\ job' = job /\ leads' = leads
  BY DEF Poison
<1> QED
  BY <1>3, <1>4, BatchContinues

\* What a step makes of a worker.
LEMMA Moves ==
  ASSUME TInv, [Next]_vars, NEW w \in Workers
  PROVE  \/ run'[w] = run[w]
         \/ run'[w].at = "idle"
         \/ \E u \in Uploads : Take(w, u)
         \/ Continues(w)
<1>1. CASE Report(w) \/ Crash(w)
  <2>1. run'[w] = Idle
    BY <1>1, IdleTypes DEF Report, Crash
  <2>2. Idle.at = "idle"
    BY DEF Idle
  <2> QED
    BY <2>1, <2>2
<1> QED
  BY <1>1, OwnMoves, PlaceContinues, LookContinues, CommitContinues, PoisonContinues
  DEF Proceed, Breaks, TInv

\* Nothing else happens to the job and the leads of a run that stays where it is.
LEMMA Kept ==
  ASSUME "slow" \notin Faults, TInv, Owns, [Next]_vars,
         NEW w \in Workers, ~At(w, "idle"), run'[w] = run[w]
  PROVE  /\ job'[run[w].up] = job[run[w].up]
         /\ \A x \in leads' : x.by = run[w].up => x \in leads
<1>1. PICK u \in Uploads : u = run[w].up
  BY BusyRun
<1>2. job[u].holder = w /\ job[u].state = "active"
  BY <1>1, ImportAssumption DEF Owns, TInv, TypeOK
<1>3. Idle.at = "idle"
  BY DEF Idle
<1>4. ~Report(w)
  BY <1>3, IdleTypes DEF Report, At
<1>5. job'[u] = job[u]
  BY <1>1, <1>2, <1>4, JobMoves DEF ImportLeads, Stall, Deserted, Take
<1>6. ASSUME NEW x \in leads', x.by = u, x \notin leads
      PROVE  FALSE
  <2>1. PICK v \in Workers : Commit(v) /\ x \in NewLeads(run[v])
    BY <1>6, NewLead
  <2>2. x.by = run[v].up /\ At(v, "rows")
    BY <2>1, NewLeadOf
  <2>3. v = w
    BY <1>2, <1>6, <2>2 DEF Owns, At
  <2>4. run'[w].at # "rows" /\ run[w].at = "rows"
    BY <2>1, <2>2, <2>3, CommitContinues DEF Continues, At
  <2> QED
    BY <2>4
<1> QED
  BY <1>1, <1>5, <1>6

LEMMA OwnsNext ==
  ASSUME "slow" \notin Faults, OwnInv, [Next]_vars
  PROVE  Owns'
<1> SUFFICES ASSUME NEW w \in Workers, run'[w].at # "idle"
             PROVE  job'[run'[w].up].holder = w
  BY DEF Owns, At
<1>1. CASE run'[w] = run[w]
  BY <1>1, Kept DEF OwnInv, Owns, At
<1>2. ASSUME NEW u \in Uploads, Take(w, u)
      PROVE  job'[run'[w].up].holder = w
  BY <1>2, TakeStarts DEF OwnInv
<1>3. CASE Continues(w)
  BY <1>3 DEF Continues, OwnInv, Owns, At
<1> QED
  BY <1>1, <1>2, <1>3, Moves DEF OwnInv

LEMMA FoundNext ==
  ASSUME "slow" \notin Faults, OwnInv, [Next]_vars
  PROVE  FoundOwn'
<1> SUFFICES ASSUME NEW w \in Workers, run'[w].at = "rows", StrategyOf[run'[w].up] # "create",
                    NEW x \in leads', x.by = run'[w].up
             PROVE  x.email \in run'[w].found
  BY DEF FoundOwn, At
<1>1. CASE run'[w] = run[w]
  BY <1>1, Kept DEF OwnInv, FoundOwn, At
<1>2. ASSUME NEW u \in Uploads, Take(w, u)
      PROVE  FALSE
  BY <1>2, TakeStarts DEF OwnInv
<1>3. CASE Continues(w)
  BY <1>3 DEF Continues, EmailsOf
<1> QED
  BY <1>1, <1>2, <1>3, Moves DEF OwnInv

\* The number of a job's execution only grows, and does so before it waits again.
LEMMA ExecutionMoves ==
  ASSUME TInv, [Next]_vars, NEW u \in Uploads
  PROVE  /\ Execution(u) \in Nat /\ Execution(u)' \in Nat
         /\ Execution(u) <= Execution(u)'
         /\ job'[u].state \in {"none", "waiting"} =>
              Execution(u) < Execution(u)' \/ job[u].state \in {"none", "waiting"}
<1>1. job[u] \in Jobs /\ Execution(u) \in Nat
  BY ExecutionType DEF TInv, TypeOK
<1>2. Execution(u)' = job'[u].tries + job'[u].stalls
  BY DEF Execution
<1>3. job[u].tries \in Nat /\ job[u].stalls \in Nat /\ Execution(u) = job[u].tries + job[u].stalls
  BY <1>1 DEF Jobs, Execution, Attempts, MaxStalledCount
<1>4. CASE job'[u] = job[u]
  BY <1>1, <1>2, <1>4 DEF Execution
<1>5. CASE ImportLeads(u)
  <2>1. /\ job[u].state = "none" /\ job'[u].tries = job[u].tries /\ job'[u].stalls = job[u].stalls
    BY <1>1, <1>5 DEF ImportLeads, TInv, TypeOK, Jobs
  <2> QED
    BY <1>2, <1>3, <2>1
<1>6. CASE Stall(u)
  <2>1. job'[u] = Stalled(job[u])
    BY <1>1, <1>6 DEF Stall, TInv, TypeOK
  <2>2. /\ job'[u].tries = job[u].tries
        /\ \/ job'[u].state = "waiting" /\ job'[u].stalls = job[u].stalls + 1
           \/ job'[u].state = "failed" /\ job'[u].stalls = job[u].stalls
    BY <1>1, <2>1, StalledIs
  <2> QED
    BY <1>2, <1>3, <2>2
<1>7. ASSUME NEW w \in Workers, Take(w, u)
      PROVE  /\ job'[u].state = "active"
             /\ job'[u].tries = job[u].tries /\ job'[u].stalls = job[u].stalls
  BY <1>7, TakeStarts
<1>8. ASSUME NEW w \in Workers, Report(w), run[w].up = u, job[u].holder = w
      PROVE  /\ job'[u].stalls = job[u].stalls
             /\ \/ job'[u].state = "done" /\ job'[u].tries = job[u].tries
                \/ job'[u].tries = job[u].tries + 1
  BY <1>8, Outcome
<1> QED
  BY <1>2, <1>3, <1>4, <1>5, <1>6, <1>7, <1>8, JobMoves

LEMMA ExecutionsNext ==
  ASSUME OwnInv, [Next]_vars
  PROVE  Executions'
<1> SUFFICES ASSUME NEW x \in leads', x.by # None
             PROVE  /\ x.run <= Execution(x.by)'
                    /\ job'[x.by].state \in {"none", "waiting"} => x.run < Execution(x.by)'
  BY DEF Executions, Execution
<1>1. x \in Leads /\ x.by \in Uploads /\ x.run \in Nat
  BY NextTypes DEF OwnInv, TInv, TypeOK, Leads
<1>2. CASE x \in leads
  BY <1>1, <1>2, ExecutionMoves DEF OwnInv, Executions
<1>3. CASE x \notin leads
  <2>1. PICK w \in Workers : Commit(w) /\ x \in NewLeads(run[w])
    BY <1>3, NewLead
  <2>2. x.by = run[w].up /\ x.run = Execution(x.by) /\ At(w, "rows") /\ job' = job
    BY <2>1, NewLeadOf DEF OwnInv
  <2>3. job[x.by].state = "active"
    BY <1>1, <2>2, ImportAssumption DEF OwnInv, Owns, At, TInv, TypeOK
  <2>4. Execution(x.by)' = Execution(x.by)
    BY <2>2 DEF Execution
  <2> QED
    BY <1>1, <2>2, <2>3, <2>4
<1> QED
  BY <1>2, <1>3

LEMMA CountedNext ==
  ASSUME "slow" \notin Faults, OwnInv, [Next]_vars
  PROVE  Counted'
<1> SUFFICES ASSUME NEW w \in Workers, run'[w].at # "idle",
                    NEW x \in leads', x.by = run'[w].up, x.run = Execution(x.by)'
             PROVE  /\ run'[w].at # "check"
                    /\ run'[w].at \in {"look", "rows", "audit"} => run'[w].imported
                    /\ run'[w].at = "done" => x.by \in audited'
  BY DEF Counted, At
<1>1. CASE run'[w] = run[w]
  <2>1. job'[x.by] = job[x.by] /\ x \in leads
    BY <1>1, Kept DEF OwnInv, At
  <2>2. x.run = Execution(x.by)
    BY <2>1 DEF Execution
  <2> QED
    BY <1>1, <2>1, <2>2, AuditedGrows DEF OwnInv, Counted, At
<1>2. ASSUME NEW u \in Uploads, Take(w, u)
      PROVE  FALSE
  <2>1. x.by = u /\ u # None /\ x \in leads /\ job[u].state = "waiting"
    BY <1>2, TakeStarts, ImportAssumption DEF OwnInv, Take
  <2>2. Execution(u)' = Execution(u)
    BY <1>2, TakeStarts DEF OwnInv, Execution
  <2>3. x.run < Execution(u) /\ Execution(u) \in Nat
    BY <2>1, ExecutionMoves DEF OwnInv, Executions
  <2> QED
    BY <2>1, <2>2, <2>3
<1>3. CASE Continues(w)
  <2>1. x.by = run[w].up /\ x.run = Execution(x.by) /\ run[w].at # "idle"
    BY <1>3 DEF Continues, Execution, At
  <2>2. CASE x \in leads
    BY <1>3, <2>1, <2>2 DEF Continues, OwnInv, Counted, At
  <2>3. CASE x \notin leads
    BY <1>3, <2>1, <2>3 DEF Continues, At
  <2> QED
    BY <2>2, <2>3
<1> QED
  BY <1>1, <1>2, <1>3, Moves DEF OwnInv

LEMMA AuditedNext ==
  ASSUME "slow" \notin Faults, OwnInv, [Next]_vars
  PROVE  ImportAudited'
<1> SUFFICES ASSUME NEW x \in leads', x.by # None, job'[x.by].state = "done",
                    x.run = Execution(x.by)'
             PROVE  x.by \in audited'
  BY DEF ImportAudited
<1>1. PICK u \in Uploads : u = x.by
  BY NextTypes DEF OwnInv, TInv, TypeOK, Leads
<1>2. CASE x \in leads
  <2>1. CASE job'[u] = job[u]
    BY <1>1, <1>2, <2>1, AuditedGrows DEF OwnInv, ImportAudited, Execution
  <2>2. ASSUME NEW w \in Workers, Report(w), run[w].up = u, job[u].holder = w
        PROVE  x.by \in audited'
    <3>1. At(w, "done") /\ job'[u].tries = job[u].tries /\ job'[u].stalls = job[u].stalls
      BY <1>1, <2>2, Outcome DEF OwnInv
    <3>2. x.run = Execution(x.by)
      BY <1>1, <3>1 DEF Execution
    <3> QED
      BY <1>1, <1>2, <2>2, <3>1, <3>2, AuditedGrows DEF OwnInv, Counted, At
  <2>3. CASE ImportLeads(u)
    BY <1>1, <2>3 DEF ImportLeads, OwnInv, TInv, TypeOK, Jobs
  <2>4. CASE Stall(u)
    <3>1. job[u] \in Jobs /\ job'[u] = Stalled(job[u])
      BY <2>4 DEF Stall, OwnInv, TInv, TypeOK
    <3> QED
      BY <1>1, <3>1, StalledIs
  <2>5. ASSUME NEW w \in Workers, Take(w, u)
        PROVE  FALSE
    BY <1>1, <2>5, TakeStarts DEF OwnInv
  <2> QED
    BY <2>1, <2>2, <2>3, <2>4, <2>5, JobMoves DEF OwnInv
<1>3. CASE x \notin leads
  <2>1. PICK w \in Workers : Commit(w) /\ x \in NewLeads(run[w])
    BY <1>3, NewLead
  <2>2. u = run[w].up /\ At(w, "rows") /\ job' = job
    BY <1>1, <2>1, NewLeadOf DEF OwnInv
  <2>3. job[u].state = "active"
    BY <2>2, ImportAssumption DEF OwnInv, Owns, At, TInv, TypeOK
  <2> QED
    BY <1>1, <2>2, <2>3
<1> QED
  BY <1>2, <1>3

LEMMA OnceNext ==
  ASSUME "slow" \notin Faults, OwnInv, [Next]_vars
  PROVE  ImportedOnce'
<1>1. ASSUME NEW x \in leads', NEW y \in leads', x.by = y.by, x.email = y.email,
             StrategyOf[x.by] # "create", x \notin leads
      PROVE  x.run = y.run /\ x.batch = y.batch
  <2>1. PICK w \in Workers : Commit(w) /\ x \in NewLeads(run[w])
    BY <1>1, NewLead
  <2>2. /\ x.by = run[w].up /\ x.run = Execution(run[w].up) /\ x.batch = run[w].batch
        /\ x.email \notin run[w].found /\ At(w, "rows")
    BY <1>1, <2>1, NewLeadOf DEF OwnInv
  <2>3. CASE y \in leads
    BY <1>1, <2>2, <2>3 DEF OwnInv, FoundOwn
  <2>4. CASE y \notin leads
    <3>1. PICK v \in Workers : Commit(v) /\ y \in NewLeads(run[v])
      BY <2>4, NewLead
    <3>2. /\ y.by = run[v].up /\ y.run = Execution(run[v].up) /\ y.batch = run[v].batch
          /\ At(v, "rows")
      BY <3>1, NewLeadOf DEF OwnInv
    <3>3. v = w
      BY <1>1, <2>2, <3>2 DEF OwnInv, Owns, At
    <3> QED
      BY <2>2, <3>2, <3>3
  <2> QED
    BY <2>3, <2>4
<1>2. SUFFICES ASSUME NEW x \in leads', NEW y \in leads', x.by = y.by, x.by # None,
                      x.email = y.email, StrategyOf[x.by] # "create"
               PROVE  x.run = y.run /\ x.batch = y.batch
  BY DEF ImportedOnce
<1>3. CASE x \in leads /\ y \in leads
  BY <1>2, <1>3 DEF OwnInv, ImportedOnce
<1> QED
  BY <1>1, <1>2, <1>3

LEMMA OwnInvariant ==
  ASSUME "slow" \notin Faults
  PROVE  Spec => []OwnInv
<1>1. Init => OwnInv
  <2> SUFFICES ASSUME Init
               PROVE  OwnInv
    OBVIOUS
  <2>1. \A w \in Workers : run[w].at = "idle"
    BY DEF Init, Idle
  <2>2. \A x \in leads : x.by = None
    BY DEF Init
  <2> QED
    BY <2>1, <2>2, InitTypes
    DEF OwnInv, Owns, FoundOwn, Executions, Counted, ImportedOnce, ImportAudited, At
<1>2. OwnInv /\ [Next]_vars => OwnInv'
  <2> SUFFICES ASSUME OwnInv, [Next]_vars
               PROVE  OwnInv'
    OBVIOUS
  <2>1. TInv'
    BY NextTypes DEF OwnInv
  <2> QED
    BY <2>1, OwnsNext, FoundNext, ExecutionsNext, CountedNext, OnceNext, AuditedNext DEF OwnInv
<1> QED
  BY <1>1, <1>2, PTL DEF Spec

\* While no worker outlives its lock, retries after any crash or failure, beside any other
\* uploads, repeat no lead of an upload that is to skip or to update; of an upload that is to
\* create, a retry repeats the batches that were committed, and nothing is said.
THEOREM SkippingUploadsImportOnce ==
  ASSUME "slow" \notin Faults
  PROVE  Spec => []ImportedOnce
BY OwnInvariant, PTL DEF OwnInv

\* While no worker outlives its lock, the leads of the execution that finishes an upload
\* are in the audit log by then.
THEOREM ImportsAreAudited ==
  ASSUME "slow" \notin Faults
  PROVE  Spec => []ImportAudited
BY OwnInvariant, PTL DEF OwnInv

-----------------------------------------------------------------------------
\* The import implements AtomicImport

\* A run is past every batch of which its execution has made leads.
InOrder ==
  \A w \in Workers : At(w, "look") \/ At(w, "rows") =>
    \A x \in leads : x.by = run[w].up /\ x.run = Execution(x.by) => x.batch < run[w].batch

MapInv == OwnInv /\ ShowInv /\ InOrder

LEMMA InOrderNext ==
  ASSUME "slow" \notin Faults, OwnInv, InOrder, [Next]_vars
  PROVE  InOrder'
<1> SUFFICES ASSUME NEW w \in Workers, run'[w].at = "look" \/ run'[w].at = "rows",
                    NEW x \in leads', x.by = run'[w].up, x.run = Execution(x.by)'
             PROVE  x.batch < run'[w].batch
  BY DEF InOrder, At
<1>1. CASE run'[w] = run[w]
  <2>1. job'[x.by] = job[x.by] /\ x \in leads
    BY <1>1, Kept DEF OwnInv, At
  <2>2. x.run = Execution(x.by)
    BY <2>1 DEF Execution
  <2> QED
    BY <1>1, <2>1, <2>2 DEF InOrder, At
<1>2. ASSUME NEW u \in Uploads, Take(w, u)
      PROVE  FALSE
  BY <1>2, TakeStarts DEF OwnInv
<1>3. CASE Continues(w)
  <2>1. x.by = run[w].up /\ x.run = Execution(x.by) /\ run[w].at # "idle"
    BY <1>3 DEF Continues, Execution, At
  <2>2. run[w].batch \in Nat
    BY DEF OwnInv, TInv, TypeOK, Runs
  <2>3. CASE x \in leads
    <3>1. x.batch \in Nat
      BY <2>3 DEF OwnInv, TInv, TypeOK, Leads
    <3>2. ~At(w, "check")
      BY <2>1, <2>3 DEF OwnInv, Counted, At
    <3>3. At(w, "look") \/ At(w, "rows") => x.batch < run[w].batch
      BY <2>1, <2>3 DEF InOrder
    <3> QED
      BY <1>3, <2>2, <3>1, <3>2, <3>3 DEF Continues, At
  <2>4. CASE x \notin leads
    <3>1. PICK v \in Workers : Commit(v) /\ x \in NewLeads(run[v])
      BY <2>4, NewLead
    <3>2. x.by = run[v].up /\ x.batch = run[v].batch /\ At(v, "rows")
      BY <3>1, NewLeadOf DEF OwnInv
    <3>3. v = w
      BY <2>1, <3>2 DEF OwnInv, Owns, At
    <3> QED
      BY <1>3, <2>2, <3>2, <3>3 DEF Continues, At
  <2> QED
    BY <2>3, <2>4
<1> QED
  BY <1>1, <1>2, <1>3, Moves DEF OwnInv

LEMMA MapInvariant ==
  ASSUME "slow" \notin Faults
  PROVE  Spec => []MapInv
<1>1. Init => InOrder
  BY DEF Init, Idle, InOrder, At
<1>2. OwnInv /\ InOrder /\ [Next]_vars => InOrder'
  BY InOrderNext
<1> QED
  BY <1>1, <1>2, OwnInvariant, Shows, PTL DEF Spec, MapInv

\* What a step that changes at most the job of u does to the mapped jobs.
LEMMA OneJob ==
  ASSUME job \in [Uploads -> Jobs], NEW u \in Uploads,
         \A x \in Uploads : x # u => job'[x] = job[x]
  PROVE  /\ [x \in Uploads |-> Ended(job'[x])]
              = [[x \in Uploads |-> Ended(job[x])] EXCEPT ![u] = Ended(job'[u])]
         /\ [x \in Uploads |-> Execution(x)']
              = [[x \in Uploads |-> Execution(x)] EXCEPT ![u] = Execution(u)']
         /\ [x \in Uploads |-> job'[x].flagged]
              = [[x \in Uploads |-> job[x].flagged] EXCEPT ![u] = job'[u].flagged]
BY DEF Execution

LEMMA FileShape ==
  ASSUME NEW u \in Uploads
  PROVE  /\ Atomic!Batches(u) = Batches(u)
         /\ \A b \in Batches(u) : Atomic!Rows(u, b) = Rows(u, b)
<1>1. BatchesOf[u] \in Seq(Seq(Row))
  BY ImportAssumption
<1>2. ASSUME NEW b \in Batches(u)
      PROVE  BatchesOf[u][b] \in Seq(Row)
  BY <1>1, <1>2 DEF Batches
<1> QED
  BY <1>1, <1>2 DEF Atomic!Batches, Atomic!Rows, Batches, Rows

LEMMA KnownIs == Atomic!Known = Known /\ (Atomic!Known)' = Known'
BY DEF Atomic!Known, Known, EmailsOf

\* The upload of a busy run is open.
LEMMA BusyOpen ==
  ASSUME OwnInv, NEW w \in Workers, ~At(w, "idle")
  PROVE  /\ run[w].up \in Uploads
         /\ job[run[w].up].state = "active" /\ job[run[w].up].holder = w
         /\ Atomic!Open(run[w].up)
<1>1. PICK u \in Uploads : u = run[w].up
  BY BusyRun DEF OwnInv
<1>2. job[u].holder = w /\ job[u].state = "active"
  BY <1>1, ImportAssumption DEF OwnInv, Owns, TInv, TypeOK
<1> QED
  BY <1>1, <1>2 DEF Atomic!Open, Ended

LEMMA MapsCommit ==
  ASSUME MapInv, [Next]_vars, NEW w \in Workers, Commit(w)
  PROVE  Atomic!Import(run[w].up)
<1>1. PICK r \in Runs : r = run[w]
  BY DEF MapInv, OwnInv, TInv, TypeOK
<1>2. PICK u \in Uploads : u = run[w].up
  BY BusyRun DEF MapInv, OwnInv, Commit, At
<1>3. At(w, "rows") /\ ~At(w, "idle") /\ job' = job /\ leads' = leads \cup NewLeads(run[w])
  BY DEF Commit, At
<1>4. run[w].batch \in Batches(u) /\ run[w].batch \in Atomic!Batches(u)
  BY <1>2, <1>3, BusyRun, FileShape DEF MapInv, OwnInv
<1>5. ASSUME NEW x \in leads' \ leads
      PROVE  /\ x.by = u /\ x.run = Execution(u) /\ x.batch = run[w].batch
             /\ x.email \notin run[w].found \/ StrategyOf[u] = "create"
  BY <1>2, <1>3, <1>5, NewLeadOf DEF MapInv, OwnInv
<1>6. ASSUME NEW x \in leads' \ leads, NEW y \in leads, x.by = y.by
      PROVE  /\ x.run = y.run => y.batch < run[w].batch
             /\ StrategyOf[u] # "create" => x.email # y.email
  <2>1. y.by = run[w].up
    BY <1>2, <1>5, <1>6
  <2>2. x.run = y.run => y.batch < run[w].batch
    BY <1>2, <1>3, <1>5, <2>1 DEF MapInv, InOrder
  <2>3. StrategyOf[u] # "create" => y.email \in run[w].found
    BY <1>2, <1>3, <2>1 DEF MapInv, OwnInv, FoundOwn
  <2> QED
    BY <1>5, <2>2, <2>3
<1>7. ASSUME NEW i \in Atomic!Rows(u, run[w].batch), BatchesOf[u][run[w].batch][i].kind = "good"
      PROVE  BatchesOf[u][run[w].batch][i].email \in Known'
  <2>1. i \in Rows(u, run[w].batch)
    BY <1>4, <1>7, FileShape
  <2>2. run[w].found \subseteq Known
    BY <1>3 DEF MapInv, ShowInv, RunShows, At
  <2> QED
    BY <1>2, <1>7, <2>1, <2>2, RowShows DEF MapInv, OwnInv, RowAt
<1>8. Atomic!Batch(u, run[w].batch, leads' \ leads)
  BY <1>5, <1>6, <1>7, KnownIs DEF Atomic!Batch
<1> QED
  BY <1>2, <1>3, <1>4, <1>8, BusyOpen DEF Atomic!Import, Commit, MapInv, Execution

\* The report of a worker completes its upload, or has it executed again or given up.
LEMMA MapsReport ==
  ASSUME MapInv, [Next]_vars, NEW w \in Workers, Report(w), NEW u \in Uploads, u = run[w].up
  PROVE  Atomic!Complete(u) \/ Atomic!Retry(u) \/ Atomic!GiveUp(u)
<1>1. u = run[w].up
  OBVIOUS
<1>2. ~At(w, "idle") /\ leads' = leads /\ deleted' = deleted /\ audited' = audited
  BY DEF Report, At
<1>3. job[u].holder = w /\ Atomic!Open(u) /\ job[u].state = "active"
  BY <1>1, <1>2, BusyOpen DEF MapInv
<1>4. /\ job \in [Uploads -> Jobs] /\ job' \in [Uploads -> Jobs]
      /\ \A x \in Uploads : x # u => job'[x] = job[x]
  BY <1>1, NextTypes DEF MapInv, OwnInv, TInv, TypeOK, Report
<1>5. /\ [x \in Uploads |-> Ended(job'[x])]
           = [[x \in Uploads |-> Ended(job[x])] EXCEPT ![u] = Ended(job'[u])]
      /\ [x \in Uploads |-> Execution(x)']
           = [[x \in Uploads |-> Execution(x)] EXCEPT ![u] = Execution(u)']
      /\ [x \in Uploads |-> job'[x].flagged]
           = [[x \in Uploads |-> job[x].flagged] EXCEPT ![u] = job'[u].flagged]
  BY <1>4, OneJob
<1>6. ASSUME At(w, "done"), job'[u].state = "done", job'[u].flagged = run[w].flagged,
             job'[u].tries = job[u].tries, job'[u].stalls = job[u].stalls
      PROVE  Atomic!Complete(u)
  <2>1. Execution(u)' = Execution(u) /\ Ended(job'[u]) = "done"
    BY <1>6 DEF Execution, Ended
  <2>2. [x \in Uploads |-> Execution(x)'] = [x \in Uploads |-> Execution(x)]
    BY <1>5, <2>1
  <2>3. ASSUME NEW b \in Atomic!Batches(u) \ job'[u].flagged, NEW i \in Atomic!Rows(u, b)
        PROVE  BatchesOf[u][b][i].email \in Known
    <3>1. b \in Batches(u) /\ i \in Rows(u, b)
      BY <2>3, FileShape
    <3>2. Accounted(u, b, run[w].flagged, Known)
      BY <1>1, <1>6, <3>1 DEF MapInv, ShowInv, RunShows, At
    <3> QED
      BY <1>6, <2>3, <3>1, <3>2 DEF Accounted, EmailsIn
  <2>4. ASSUME NEW x \in leads, x.by = u, x.run = Execution(u)
        PROVE  u \in audited
    BY <1>1, <1>2, <1>6, <2>4 DEF MapInv, OwnInv, Counted
  <2> QED
    BY <1>2, <1>3, <1>5, <2>1, <2>2, <2>3, <2>4, KnownIs DEF Atomic!Complete
<1>7. ASSUME job'[u].state \in {"waiting", "failed"},
             job'[u].flagged = job[u].flagged,
             job'[u].tries = job[u].tries + 1, job'[u].stalls = job[u].stalls
      PROVE  Atomic!Retry(u) \/ Atomic!GiveUp(u)
  <2>1. Execution(u)' = Execution(u) + 1
    BY <1>4, <1>7 DEF Execution, Jobs, Attempts, MaxStalledCount
  <2>2. Atomic!Again(u)
    BY <1>5, <2>1 DEF Atomic!Again
  <2>3. CASE job'[u].state = "waiting"
    <3>1. Ended(job'[u]) = Ended(job[u]) /\ job'[u].flagged = job[u].flagged
      BY <1>3, <1>7, <2>3 DEF Ended
    <3>2. /\ [x \in Uploads |-> Ended(job'[x])] = [x \in Uploads |-> Ended(job[x])]
          /\ [x \in Uploads |-> job'[x].flagged] = [x \in Uploads |-> job[x].flagged]
      BY <1>5, <3>1
    <3> QED
      BY <1>2, <1>3, <2>2, <3>2 DEF Atomic!Retry
  <2>4. CASE job'[u].state = "failed"
    <3>1. Ended(job'[u]) = "failed"
      BY <2>4 DEF Ended
    <3>2. [x \in Uploads |-> job'[x].flagged] = [x \in Uploads |-> job[x].flagged]
      BY <1>5, <1>7
    <3> QED
      BY <1>2, <1>3, <1>5, <2>2, <3>1, <3>2 DEF Atomic!GiveUp
  <2> QED
    BY <1>7, <2>3, <2>4
<1>8. \/ At(w, "done") /\ job'[u].state = "done" /\ job'[u].flagged = run[w].flagged
         /\ job'[u].tries = job[u].tries /\ job'[u].stalls = job[u].stalls
      \/ job'[u].state \in {"waiting", "failed"} /\ job'[u].flagged = job[u].flagged
         /\ job'[u].tries = job[u].tries + 1 /\ job'[u].stalls = job[u].stalls
  BY <1>1, <1>3, Outcome DEF MapInv, OwnInv
<1> QED
  BY <1>6, <1>7, <1>8

LEMMA MapsStall ==
  ASSUME MapInv, NEW u \in Uploads, Stall(u)
  PROVE  Atomic!Retry(u) \/ Atomic!GiveUp(u)
<1>1. /\ job \in [Uploads -> Jobs] /\ job[u] \in Jobs /\ job[u].state = "active"
      /\ job'[u] = Stalled(job[u]) /\ \A x \in Uploads : x # u => job'[x] = job[x]
      /\ leads' = leads /\ deleted' = deleted /\ audited' = audited
  BY DEF Stall, MapInv, OwnInv, TInv, TypeOK
<1>2. /\ job'[u].tries = job[u].tries /\ job'[u].flagged = job[u].flagged
      /\ \/ job'[u].state = "waiting" /\ job'[u].stalls = job[u].stalls + 1
         \/ job'[u].state = "failed" /\ job'[u].stalls = job[u].stalls
  BY <1>1, StalledIs
<1>3. Atomic!Open(u)
  BY <1>1 DEF Atomic!Open, Ended
<1>4. /\ [x \in Uploads |-> Ended(job'[x])]
           = [[x \in Uploads |-> Ended(job[x])] EXCEPT ![u] = Ended(job'[u])]
      /\ [x \in Uploads |-> Execution(x)']
           = [[x \in Uploads |-> Execution(x)] EXCEPT ![u] = Execution(u)']
      /\ [x \in Uploads |-> job'[x].flagged] = [x \in Uploads |-> job[x].flagged]
  BY <1>1, <1>2, OneJob
<1>5. CASE job'[u].state = "waiting"
  <2>1. Execution(u)' = Execution(u) + 1 /\ Ended(job'[u]) = Ended(job[u])
    BY <1>1, <1>2, <1>5 DEF Execution, Ended, Jobs, Attempts, MaxStalledCount
  <2> QED
    BY <1>1, <1>3, <1>4, <2>1 DEF Atomic!Retry, Atomic!Again
<1>6. CASE job'[u].state = "failed"
  <2>1. Execution(u)' = Execution(u) /\ Ended(job'[u]) = "failed"
    BY <1>2, <1>6 DEF Execution, Ended
  <2>2. [x \in Uploads |-> Execution(x)'] = [x \in Uploads |-> Execution(x)]
    BY <1>4, <2>1
  <2> QED
    BY <1>1, <1>3, <1>4, <2>1, <2>2 DEF Atomic!GiveUp
<1> QED
  BY <1>2, <1>5, <1>6

\* A step of the queue or of a run that nothing outside can see.
LEMMA Stutters ==
  ASSUME leads' = leads, deleted' = deleted, audited' = audited,
         \A u \in Uploads : /\ Ended(job'[u]) = Ended(job[u])
                            /\ job'[u].flagged = job[u].flagged
                            /\ job'[u].tries = job[u].tries /\ job'[u].stalls = job[u].stalls
  PROVE  UNCHANGED Atomic!vars
BY DEF Atomic!vars, Execution

LEMMA MapsAudit ==
  ASSUME MapInv, NEW w \in Workers, Audit(w)
  PROVE  Atomic!Audit(run[w].up) \/ UNCHANGED Atomic!vars
<1>1. ~At(w, "idle") /\ leads' = leads /\ deleted' = deleted /\ job' = job
  BY DEF Audit, At
<1>2. audited' = audited \/ audited' = audited \cup {run[w].up}
  BY DEF Audit
<1>3. CASE audited' = audited
  BY <1>1, <1>3, Stutters
<1>4. CASE audited' = audited \cup {run[w].up}
  BY <1>1, <1>4, BusyOpen DEF Atomic!Audit, MapInv, Execution
<1> QED
  BY <1>2, <1>3, <1>4

LEMMA MapsStep ==
  ASSUME MapInv, [Next]_vars
  PROVE  [Atomic!Next]_(Atomic!vars)
<1>1. ASSUME NEW w \in Workers, Commit(w)
      PROVE  Atomic!Next
  BY <1>1, MapsCommit, BusyRun DEF Atomic!Next, MapInv, OwnInv, Commit, At
<1>2. ASSUME NEW w \in Workers, Report(w)
      PROVE  Atomic!Next
  <2>1. PICK u \in Uploads : u = run[w].up
    BY <1>2, BusyRun DEF MapInv, OwnInv, Report, At
  <2> QED
    BY <1>2, <2>1, MapsReport DEF Atomic!Next
<1>3. ASSUME NEW w \in Workers, Audit(w)
      PROVE  [Atomic!Next]_(Atomic!vars)
  BY <1>3, MapsAudit, BusyRun DEF Atomic!Next, MapInv, OwnInv, Audit, At
<1>4. ASSUME NEW u \in Uploads, Stall(u)
      PROVE  Atomic!Next
  BY <1>4, MapsStall DEF Atomic!Next
<1>5. ASSUME NEW u \in Uploads, ImportLeads(u)
      PROVE  UNCHANGED Atomic!vars
  <2>1. \A x \in Uploads : job[x] \in Jobs
    BY DEF MapInv, OwnInv, TInv, TypeOK
  <2>2. /\ job[u].state = "none" /\ job'[u] = [job[u] EXCEPT !.state = "waiting"]
        /\ \A x \in Uploads : x # u => job'[x] = job[x]
    BY <1>5 DEF ImportLeads, MapInv, OwnInv, TInv, TypeOK
  <2>3. /\ job'[u].state = "waiting" /\ job'[u].flagged = job[u].flagged
        /\ job'[u].tries = job[u].tries /\ job'[u].stalls = job[u].stalls
    BY <2>1, <2>2 DEF Jobs
  <2>4. Ended(job'[u]) = Ended(job[u])
    BY <2>2, <2>3 DEF Ended
  <2> QED
    BY <1>5, <2>2, <2>3, <2>4, Stutters DEF ImportLeads
<1>6. ASSUME NEW w \in Workers, NEW u \in Uploads, Take(w, u)
      PROVE  UNCHANGED Atomic!vars
  <2>1. /\ job[u] \in Jobs /\ job[u].state = "waiting" /\ job'[u] = Taken(job[u], w)
        /\ \A x \in Uploads : x # u => job'[x] = job[x]
    BY <1>6 DEF Take, MapInv, OwnInv, TInv, TypeOK
  <2>2. /\ job'[u].state = "active" /\ job'[u].flagged = job[u].flagged
        /\ job'[u].tries = job[u].tries /\ job'[u].stalls = job[u].stalls
    BY <2>1, TakenIs
  <2>3. Ended(job'[u]) = Ended(job[u])
    BY <2>1, <2>2 DEF Ended
  <2> QED
    BY <1>6, <2>1, <2>2, <2>3, Stutters DEF Take
<1>7. ASSUME NEW x \in leads, DeleteLead(x)
      PROVE  Atomic!Next
  BY <1>7 DEF DeleteLead, Atomic!Next, Atomic!Delete, Execution
<1>8. ASSUME leads' = leads, deleted' = deleted, audited' = audited, job' = job
      PROVE  UNCHANGED Atomic!vars
  BY <1>8, Stutters
<1>9. \/ \E u \in Uploads : ImportLeads(u) \/ Stall(u)
      \/ \E w \in Workers : Commit(w) \/ Audit(w) \/ Report(w) \/ \E u \in Uploads : Take(w, u)
      \/ \E x \in leads : DeleteLead(x)
      \/ leads' = leads /\ deleted' = deleted /\ audited' = audited /\ job' = job
  BY DEF Next, Proceed, Breaks, AssertWithinLimit, Look, Poison, BatchFails, AuditFails, Crash, vars
<1> QED
  BY <1>1, <1>2, <1>3, <1>4, <1>5, <1>6, <1>7, <1>8, <1>9

\* While no worker outlives its lock, the import implements AtomicImport: to everything
\* else, a batch is made at once and only once, an execution that failed is repeated
\* behind what it has left, and what an upload reports in the end is so.
THEOREM ImportImplementsAtomicImport ==
  ASSUME "slow" \notin Faults
  PROVE  Spec => Implements
<1>1. Init => Atomic!Init
  <2> SUFFICES ASSUME Init
               PROVE  Atomic!Init
    OBVIOUS
  <2>1. \A u \in Uploads : job[u] = NoJob
    BY DEF Init
  <2>2. \A u \in Uploads : Ended(job[u]) = "open" /\ Execution(u) = 0 /\ job[u].flagged = {}
    BY <2>1 DEF NoJob, Ended, Execution
  <2> QED
    BY <2>2 DEF Init, Atomic!Init
<1>2. MapInv /\ [Next]_vars => [Atomic!Next]_(Atomic!vars)
  BY MapsStep
<1> QED
  BY <1>1, <1>2, MapInvariant, PTL DEF Spec, Implements, Atomic!Spec

=============================================================================
