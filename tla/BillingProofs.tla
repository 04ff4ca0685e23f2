--------------------------- MODULE BillingProofs ---------------------------
(***************************************************************************)
(* What holds of the billing of any number of tenants, payments, events,   *)
(* workers and clients.                                                    *)
(*                                                                         *)
(* Types; that an event that names its tenant is PROCESSED exactly if it   *)
(* activated it; that no two numbers are the same and, until a tenant is   *)
(* deleted, none is above the count; and, if no worker outlives the lock   *)
(* of its job, that an event activates its tenant at most once: the job    *)
(* has one holder, who alone is past the check that the event is not       *)
(* PROCESSED yet.  Then billing implements Activation, in which a sale is  *)
(* one step.                                                               *)
(***************************************************************************)
EXTENDS Billing, FiniteSetTheorems, TLAPS

-----------------------------------------------------------------------------
\* Types

\* A job that may run again has an attempt left.
Tried == \A e \in Events : job[e].state # "failed" => job[e].tries < Attempts

TInv == TypeOK /\ Tried /\ IsFiniteSet(sold) /\ IsFiniteSet(subs)

\* The fields of a run, by the place it is at.
LEMMA Places ==
  ASSUME NEW r \in Runs
  PROVE  /\ r.at \in {"idle", "check", "begin", "count", "insert", "commit", "report"}
         /\ r = Idle <=> r.at = "idle"
         /\ r # Idle => r.by \in Sources
         /\ r.at \in {"check", "report"} => r.by \in Events
         /\ r.at = "check" => /\ r \in [at : {"check"}, by : Events, of : Payments,
                                         tenant : Tenants \cup {None}]
                              /\ r.of \in Payments /\ r.tenant \in Tenants \cup {None}
         /\ r.at \in {"begin", "count", "insert", "commit"} =>
              r.of \in Payments \cup {None} /\ r.tenant \in Tenants \cup {None}
         /\ r.at \in {"count", "insert", "commit"} => r.tenant \in Tenants /\ r.row \in Nat
         /\ r.at \in {"insert", "commit"} => r.series \in Series /\ r.inv \in Nat
         /\ r.at = "commit" => r.pay \in Nat
  BY DEF Runs, Idle, Sources

\* What a step makes of the run of one process.
LEMMA Becomes ==
  ASSUME TypeOK, NEW q \in Procs, NEW r \in Runs, Become(q, r)
  PROVE  /\ proc' \in [Procs -> Runs]
         /\ \A p \in Procs : proc'[p] = IF p = q THEN r ELSE proc[p]
  BY DEF TypeOK, Become

LEMMA IdleRuns == Idle \in Runs
  BY DEF Runs

LEMMA MatchingType ==
  ASSUME TypeOK, NEW e \in Events
  PROVE  Matching(e) \in Tenants \cup {None}
<1> DEFINE refers == {s \in subs : PaymentOf[e] \in {s.order, s.paid}}
<1>1. CASE refers = {}
  BY <1>1 DEF Matching
<1>2. CASE refers # {}
  <2>1. (CHOOSE s \in refers : TRUE) \in refers
    BY <1>2
  <2>2. \A s \in refers : s.tenant \in Tenants
    BY DEF TypeOK, Subscriptions
  <2> QED
    BY <1>2, <2>1, <2>2 DEF Matching
<1> QED
  BY <1>1, <1>2

LEMMA ImageFinite ==
  ASSUME NEW S, IsFiniteSet(S), NEW f
  PROVE  IsFiniteSet({f[x] : x \in S})
<1> DEFINE g == [x \in S |-> f[x]]
           T == {f[x] : x \in S}
<1>1. g \in Surjection(S, T)
  BY DEF Surjection
<1> QED
  BY <1>1, FS_Surjection

\* What a transaction makes of the subscriptions.
LEMMA SubscribedType ==
  ASSUME TInv, NEW run \in Runs, run.at \in {"count", "commit"}
  PROVE  Subscribed(run) \subseteq Subscriptions /\ IsFiniteSet(Subscribed(run))
<1> DEFINE touch(s) == [s EXCEPT !.order = IF run.by = "verify" THEN run.of ELSE @,
                                 !.paid = IF run.by \in Events THEN run.of ELSE @]
           new == [tenant |-> run.tenant, id |-> Cardinality(RowsOf(run.tenant)) + 1,
                   order |-> None, paid |-> None]
           old == {s \in RowsOf(run.tenant) : s.id = run.row}
           from == IF run.row = 0 THEN {new} ELSE old
           f == [s \in from |-> touch(s)]
<1>0. run.tenant \in Tenants /\ run.of \in Payments \cup {None}
  BY Places
<1>1. RowsOf(run.tenant) \subseteq subs /\ IsFiniteSet(RowsOf(run.tenant))
  <2>1. RowsOf(run.tenant) \subseteq subs
    BY DEF RowsOf
  <2> QED
    BY <2>1, FS_Subset DEF TInv
<1>2. new \in Subscriptions
  BY <1>0, <1>1, FS_CardinalityType DEF Subscriptions
<1>3. from \subseteq Subscriptions /\ IsFiniteSet(from)
  <2>1. IsFiniteSet(old)
    BY <1>1, FS_Subset
  <2>2. IsFiniteSet({new})
    BY FS_Singleton
  <2>3. old \subseteq Subscriptions
    BY <1>1 DEF TInv, TypeOK
  <2> HIDE DEF new, old
  <2> QED
    BY <1>2, <2>1, <2>2, <2>3
<1>4. \A s \in Subscriptions : touch(s) \in Subscriptions
  BY <1>0 DEF Subscriptions
<1>5. {touch(s) : s \in from} = {f[s] : s \in from}
  <2> HIDE DEF from
  <2> QED
    OBVIOUS
<1>6. IsFiniteSet({f[s] : s \in from})
  <2> HIDE DEF from, f
  <2> QED
    BY <1>3, ImageFinite
<1>7. Subscribed(run) = (subs \ old) \cup {touch(s) : s \in from}
  BY DEF Subscribed
<1>8. IsFiniteSet(subs \ old)
  BY FS_Difference DEF TInv
<1>9. subs \ old \subseteq Subscriptions
  BY DEF TInv, TypeOK
<1> HIDE DEF from, f, old, touch
<1>10. IsFiniteSet({touch(s) : s \in from})
  BY <1>5, <1>6
<1>11. {touch(s) : s \in from} \subseteq Subscriptions
  BY <1>3, <1>4
<1> QED
  BY <1>7, <1>8, <1>9, <1>10, <1>11, FS_Union

\* The jobs after a run of one has failed or ended.
LEMMA JobsEnd ==
  ASSUME TypeOK, Tried, NEW w \in Procs, NEW e \in Events, Retry(w, e) \/ Complete(w, e)
  PROVE  /\ job' \in [Events -> Jobs]
         /\ \A d \in Events : job'[d].state = "active" <=> job'[d].holder # None
         /\ Tried'
<1>1. job[e] \in Jobs /\ job \in [Events -> Jobs]
  BY DEF TypeOK
<1>2. CASE job' = job
  BY <1>2 DEF TypeOK, Tried
<1>3. ASSUME NEW j \in Jobs, job' = [job EXCEPT ![e] = j],
             j.state = "active" <=> j.holder # None,
             j.state # "failed" => j.tries < Attempts
      PROVE  /\ job' \in [Events -> Jobs]
             /\ \A d \in Events : job'[d].state = "active" <=> job'[d].holder # None
             /\ Tried'
  <2>1. \A d \in Events : job'[d] = IF d = e THEN j ELSE job[d]
    BY <1>1, <1>3
  <2> QED
    BY <1>1, <1>3, <2>1 DEF TypeOK, Tried
<1>4. CASE job[e].holder = w /\ Complete(w, e)
  <2>1. NoJob \in Jobs /\ NoJob.state = "none" /\ NoJob.holder = None /\ NoJob.tries < Attempts
    BY DEF NoJob, Jobs, Attempts, MaxStalledCount
  <2>2. job' = [job EXCEPT ![e] = NoJob]
    BY <1>4 DEF Complete
  <2> HIDE DEF NoJob
  <2> QED
    BY <1>3, <2>1, <2>2
<1>5. CASE job[e].holder = w /\ Retry(w, e)
  <2> DEFINE j == Again(job[e])
  <2>0. w # None
    BY BillingAssumption DEF TypeOK, Jobs, Procs
  <2>1. job[e].state = "active" /\ job[e].tries < Attempts
    BY <1>5, <2>0 DEF TypeOK, Tried
  <2>2. job[e].tries \in 0 .. Attempts /\ Attempts = 3
    BY <1>1 DEF Jobs, Attempts
  <2>3. j.holder = None /\ j.tries = job[e].tries + 1
    BY <1>1 DEF Jobs, Again
  <2>4. j.state = IF job[e].tries + 1 < Attempts THEN "waiting" ELSE "failed"
    BY <1>1 DEF Jobs, Again
  <2>5. j \in Jobs
    <3>1. job[e].tries + 1 \in 0 .. Attempts
      BY <2>1, <2>2
    <3> QED
      BY <1>1, <3>1 DEF Jobs, Again
  <2>6. j.state # "active" /\ (j.state # "failed" => j.tries < Attempts)
    BY <2>3, <2>4
  <2>7. job' = [job EXCEPT ![e] = j]
    BY <1>1, <1>5 DEF Retry
  <2> HIDE DEF j
  <2> QED
    BY <1>3, <2>3, <2>5, <2>6, <2>7
<1> QED
  BY <1>2, <1>4, <1>5 DEF Retry, Complete

LEMMA InitTypes == Init => TInv
<1> SUFFICES ASSUME Init PROVE TInv
  OBVIOUS
<1>1. NoJob \in Jobs /\ NoJob.state = "none" /\ NoJob.holder = None /\ NoJob.tries < Attempts
  BY DEF NoJob, Jobs, Attempts, MaxStalledCount
<1>2. IsFiniteSet({})
  BY FS_EmptySet
<1> QED
  BY <1>1, <1>2, IdleRuns DEF Init, TInv, TypeOK, Tried

\* A step that only moves a run.
LEMMA MoveTypes ==
  ASSUME TInv, NEW q \in Procs, NEW r \in Runs, Become(q, r),
         UNCHANGED <<done, acked, intake, job, sold, subs, alive>>
  PROVE  TInv'
<1>1. proc' \in [Procs -> Runs]
  BY Becomes DEF TInv
<1> QED
  BY <1>1 DEF TInv, TypeOK, Tried

LEMMA TargetsType ==
  ASSUME TypeOK, NEW t
  PROVE  Targets(t) \subseteq Nat
  BY DEF TypeOK, Targets, RowsOf, Subscriptions

LEMMA Checked ==
  ASSUME TInv, NEW w \in Procs, Check(w)
  PROVE  \E r \in Runs :
           /\ Become(w, r)
           /\ r.at = "begin"
           /\ r.by = proc[w].by
           /\ r.of = proc[w].of
           /\ proc[w].tenant # None => r.tenant = proc[w].tenant
<1> DEFINE r == [proc[w] EXCEPT !.at = "begin",
                                !.tenant = IF @ # None THEN @ ELSE Matching(proc[w].by)]
<1>1. proc[w] \in [at : {"check"}, by : Events, of : Payments, tenant : Tenants \cup {None}]
  BY Places DEF Check, At, TInv, TypeOK
<1>2. Matching(proc[w].by) \in Tenants \cup {None}
  BY <1>1, MatchingType DEF TInv
<1>3. r \in [at : {"begin"}, by : Sources, of : Payments \cup {None},
             tenant : Tenants \cup {None}]
  BY <1>1, <1>2 DEF Sources
<1>4. r.at = "begin" /\ r.by = proc[w].by /\ r.of = proc[w].of
  BY <1>1
<1>5. proc[w].tenant # None => r.tenant = proc[w].tenant
  BY <1>1
<1>6. r \in Runs /\ Become(w, r)
  BY <1>3 DEF Runs, Check
<1> HIDE DEF r
<1> QED
  BY <1>4, <1>5, <1>6

LEMMA WorkerTypes ==
  ASSUME TInv, NEW w \in Workers, Skip(w) \/ Check(w) \/ Mark(w) \/ Report(w)
  PROVE  TInv'
<1>0. TypeOK /\ proc[w] \in Runs /\ w \in Procs
  BY DEF TInv, TypeOK, Procs
<1>1. CASE Skip(w)
  <2>1. [at |-> "report", by |-> proc[w].by] \in Runs
    BY <1>0, <1>1, Places DEF Skip, At, Runs
  <2> QED
    BY <1>0, <1>1, <2>1, MoveTypes DEF Skip
<1>2. CASE Check(w)
  BY <1>0, <1>2, Checked, MoveTypes DEF Check
<1>3. CASE Mark(w)
  <2>1. [at |-> "report", by |-> proc[w].by] \in Runs
    BY <1>3 DEF Mark, Runs
  <2>2. proc' \in [Procs -> Runs]
    BY <1>0, <1>3, <2>1, Becomes DEF Mark
  <2>3. done' \subseteq Events
    BY <1>0, <1>3 DEF Mark, TypeOK
  <2> QED
    BY <1>3, <2>2, <2>3 DEF Mark, TInv, TypeOK, Tried
<1>4. CASE Report(w)
  <2>1. proc[w].by \in Events
    BY <1>0, <1>4, Places DEF Report, At
  <2>2. /\ job' \in [Events -> Jobs]
        /\ \A d \in Events : job'[d].state = "active" <=> job'[d].holder # None
        /\ Tried'
    BY <1>0, <1>4, <2>1, JobsEnd DEF Report, TInv
  <2>3. proc' \in [Procs -> Runs]
    BY <1>0, <1>4, IdleRuns, Becomes DEF Report
  <2> QED
    BY <1>4, <2>2, <2>3 DEF Report, TInv, TypeOK
<1> QED
  BY <1>1, <1>2, <1>3, <1>4

\* The statements up to the last only move the run.
LEMMA Statements ==
  ASSUME TInv, NEW q \in Procs, Begin(q) \/ Count(q) \/ Insert(q)
  PROVE  /\ proc[q] # Idle /\ proc[q].at \in {"begin", "count", "insert"}
         /\ proc[q].tenant \in Tenants
         /\ \E r \in Runs : /\ Become(q, r)
                            /\ r # Idle /\ r.at \in {"count", "insert", "commit"}
                            /\ r.by = proc[q].by
                            /\ r.tenant = proc[q].tenant
         /\ UNCHANGED <<done, acked, intake, job, sold, subs, alive>>
<1>0. TypeOK /\ proc[q] \in Runs /\ alive \subseteq Tenants
  BY DEF TInv, TypeOK
<1>1. CASE Begin(q)
  <2>1. PICK row \in Targets(proc[q].tenant) :
          Become(q, [at |-> "count", by |-> proc[q].by, of |-> proc[q].of,
                     tenant |-> proc[q].tenant, row |-> row])
    BY <1>1 DEF Begin
  <2>2. /\ proc[q].by \in Sources /\ proc[q].of \in Payments \cup {None}
        /\ proc[q].tenant \in Tenants /\ proc[q] # Idle
    BY <1>0, <1>1, Places DEF Begin, At
  <2>3. row \in Nat
    BY <1>0, TargetsType
  <2>4. [at |-> "count", by |-> proc[q].by, of |-> proc[q].of,
         tenant |-> proc[q].tenant, row |-> row] \in Runs
    BY <2>2, <2>3 DEF Runs
  <2> QED
    BY <1>1, <2>1, <2>2, <2>4 DEF Begin, At, Idle
<1>2. CASE Count(q)
  <2>1. Cardinality(sold) + 1 \in Nat
    BY FS_CardinalityType DEF TInv
  <2>2. /\ proc[q].by \in Sources /\ proc[q].of \in Payments \cup {None}
        /\ proc[q].tenant \in Tenants /\ proc[q].row \in Nat /\ proc[q] # Idle
    BY <1>0, <1>2, Places DEF Count, At
  <2>3. PICK s \in SeriesOf[proc[q].by] :
          Become(q, [at |-> "insert", by |-> proc[q].by, of |-> proc[q].of,
                     tenant |-> proc[q].tenant, row |-> proc[q].row,
                     series |-> s, inv |-> Cardinality(sold) + 1])
    BY <1>2 DEF Count
  <2>4. s \in Series
    BY <2>2, <2>3, BillingAssumption DEF Sources
  <2>5. [at |-> "insert", by |-> proc[q].by, of |-> proc[q].of, tenant |-> proc[q].tenant,
         row |-> proc[q].row, series |-> s, inv |-> Cardinality(sold) + 1] \in Runs
    BY <2>1, <2>2, <2>4 DEF Runs
  <2> QED
    BY <1>2, <2>2, <2>3, <2>5 DEF Count, At, Idle
<1>3. CASE Insert(q)
  <2>0. IsFiniteSet(Paid(sold))
    BY FS_Subset DEF TInv, Paid
  <2>1. (IF proc[q].of = None THEN 0 ELSE Cardinality(Paid(sold)) + 1) \in Nat
    BY <2>0, FS_CardinalityType
  <2>2. /\ proc[q].by \in Sources /\ proc[q].of \in Payments \cup {None}
        /\ proc[q].tenant \in Tenants /\ proc[q].row \in Nat /\ proc[q].inv \in Nat
        /\ proc[q].series \in Series /\ proc[q] # Idle
    BY <1>0, <1>3, Places DEF Insert, At
  <2>3. Numbering(proc[q]) \in Runs
    BY <2>1, <2>2 DEF Runs, Numbering
  <2>4. /\ Numbering(proc[q]).at = "commit" /\ Numbering(proc[q]).by = proc[q].by
        /\ Numbering(proc[q]).tenant = proc[q].tenant /\ Numbering(proc[q]) # Idle
    BY DEF Numbering, Idle
  <2> QED
    BY <1>3, <2>2, <2>3, <2>4 DEF Insert, At
<1> QED
  BY <1>1, <1>2, <1>3

LEMMA TransactionTypes ==
  ASSUME TInv, NEW q \in Procs,
         Begin(q) \/ Count(q) \/ Insert(q) \/ Commit(q) \/ Grant(q) \/ Rollback(q)
  PROVE  TInv'
<1>0. TypeOK /\ proc[q] \in Runs
  BY DEF TInv, TypeOK
<1>1. CASE Begin(q) \/ Count(q) \/ Insert(q)
  BY <1>1, Statements, MoveTypes
<1>2. CASE Commit(q)
  <2> DEFINE run == proc[q]
  <2>1. /\ run.at = "commit" /\ run.by \in Sources /\ run.of \in Payments \cup {None}
        /\ run.tenant \in Tenants /\ run.series \in Series /\ run.inv \in Nat
        /\ run.pay \in Nat
    BY <1>0, <1>2, Places DEF Commit, At, Idle
  <2>2. Sale(run) \in Sales
    BY <2>1 DEF Sales, Sale
  <2>3. sold' = sold \cup {Sale(run)} /\ subs' = Subscribed(run)
    BY <1>2 DEF Commit
  <2>4. subs' \subseteq Subscriptions /\ IsFiniteSet(subs')
    BY <1>0, <2>1, <2>3, SubscribedType
  <2>5. sold' \subseteq Sales /\ IsFiniteSet(sold')
    BY <2>2, <2>3, FS_AddElement DEF TInv, TypeOK
  <2>6. proc' \in [Procs -> Runs]
    <3>1. run.by \in Events => [at |-> "report", by |-> run.by] \in Runs
      BY DEF Runs
    <3> QED
      BY <1>0, <1>2, <3>1, IdleRuns, Becomes DEF Commit
  <2>7. done' \subseteq Events
    BY <1>0, <1>2 DEF Commit, TypeOK
  <2> QED
    BY <1>2, <2>4, <2>5, <2>6, <2>7 DEF Commit, TInv, TypeOK, Tried
<1>3. CASE Rollback(q)
  <2>1. /\ job' \in [Events -> Jobs]
        /\ \A d \in Events : job'[d].state = "active" <=> job'[d].holder # None
        /\ Tried'
    BY <1>0, <1>3, JobsEnd DEF Rollback, TInv, TypeOK, Tried
  <2>2. proc' \in [Procs -> Runs]
    BY <1>0, <1>3, IdleRuns, Becomes DEF Rollback
  <2> QED
    BY <1>3, <2>1, <2>2 DEF Rollback, TInv, TypeOK
<1>4. CASE Grant(q)
  <2>1. subs' \subseteq Subscriptions /\ IsFiniteSet(subs')
    BY <1>0, <1>4, SubscribedType DEF Grant, At
  <2>2. proc' \in [Procs -> Runs]
    BY <1>0, <1>4, IdleRuns, Becomes DEF Grant
  <2> QED
    BY <1>4, <2>1, <2>2 DEF Grant, TInv, TypeOK, Tried
<1> QED
  BY <1>1, <1>2, <1>3, <1>4

LEMMA QueueTypes ==
  ASSUME TInv, NEW e \in Events, Receive(e) \/ Stall(e) \/ \E w \in Workers : Take(w, e)
  PROVE  TInv'
<1>0. TypeOK /\ job[e] \in Jobs /\ PaymentOf[e] \in Payments
  BY BillingAssumption DEF TInv, TypeOK
<1>1. CASE Receive(e)
  <2>1. (IF e \in Named THEN TenantOf[PaymentOf[e]] ELSE Matching(e)) \in Tenants \cup {None}
    BY <1>0, BillingAssumption, MatchingType
  <2>2. intake' \subseteq Deliveries
    BY <1>0, <1>1, <2>1 DEF Receive, Deliveries, TypeOK
  <2>3. acked' \subseteq Events
    BY <1>0, <1>1 DEF Receive, TypeOK
  <2> QED
    BY <1>1, <2>2, <2>3 DEF Receive, TInv, TypeOK, Tried
<1>2. CASE Stall(e)
  <2> DEFINE j == [job[e] EXCEPT !.holder = None,
                     !.stalls = IF @ < MaxStalledCount THEN @ + 1 ELSE @,
                     !.state = IF job[e].stalls < MaxStalledCount THEN "waiting" ELSE "failed"]
  <2>1. job' = [job EXCEPT ![e] = j]
    BY <1>0, <1>2 DEF Stall, TypeOK
  <2>2. (IF job[e].stalls < MaxStalledCount THEN job[e].stalls + 1 ELSE job[e].stalls)
          \in 0 .. MaxStalledCount
    BY <1>0 DEF Jobs, MaxStalledCount
  <2>3. j \in Jobs /\ j.holder = None /\ j.state # "active" /\ j.tries = job[e].tries
    BY <1>0, <2>2 DEF Jobs
  <2>4. job[e].tries < Attempts
    BY <1>2 DEF Stall, TInv, Tried
  <2> HIDE DEF j
  <2>5. /\ job' \in [Events -> Jobs]
        /\ \A d \in Events : job'[d] = IF d = e THEN j ELSE job[d]
    BY <1>0, <2>1, <2>3 DEF TypeOK
  <2> QED
    BY <1>2, <2>3, <2>4, <2>5 DEF Stall, TInv, TypeOK, Tried
<1>3. ASSUME NEW w \in Workers, Take(w, e)
      PROVE  TInv'
  <2> DEFINE j == [job[e] EXCEPT !.state = "active", !.holder = w]
  <2>0. w \in Procs /\ w # None
    BY BillingAssumption DEF Procs
  <2>1. job' = [job EXCEPT ![e] = j]
    BY <1>0, <1>3 DEF Take, TypeOK
  <2>2. j \in Jobs /\ j.holder = w /\ j.state = "active" /\ j.tries = job[e].tries
    BY <1>0 DEF Jobs
  <2>3. job[e].tries < Attempts
    BY <1>3 DEF Take, TInv, Tried
  <2>4. [at |-> "check", by |-> e, of |-> PaymentOf[e], tenant |-> job[e].tenant] \in Runs
    BY <1>0 DEF Jobs, Runs
  <2>5. proc' \in [Procs -> Runs]
    BY <1>0, <1>3, <2>0, <2>4, Becomes DEF Take
  <2> HIDE DEF j
  <2>6. /\ job' \in [Events -> Jobs]
        /\ \A d \in Events : job'[d] = IF d = e THEN j ELSE job[d]
    BY <1>0, <2>1, <2>2 DEF TypeOK
  <2> QED
    BY <1>3, <2>0, <2>2, <2>3, <2>5, <2>6 DEF Take, TInv, TypeOK, Tried
<1> QED
  BY <1>1, <1>2, <1>3

LEMMA IntakeTypes ==
  ASSUME TInv, NEW x \in intake, Enqueue(x) \/ Refuse(x)
  PROVE  TInv'
<1>0. TypeOK /\ x \in Deliveries /\ job[x.event] \in Jobs
  BY DEF TInv, TypeOK, Deliveries
<1>1. CASE Refuse(x)
  BY <1>1 DEF Refuse, TInv, TypeOK, Tried
<1>2. CASE Enqueue(x)
  <2> DEFINE e == x.event
             j == IF job[e].state = "none"
                  THEN [NoJob EXCEPT !.state = "waiting", !.tenant = x.tenant]
                  ELSE job[e]
  <2>0. e \in Events /\ x.tenant \in Tenants \cup {None}
    BY <1>0 DEF Deliveries
  <2>1. job' = [job EXCEPT ![e] = j]
    BY <1>0, <1>2, <2>0 DEF Enqueue, TypeOK
  <2>2. NoJob \in Jobs /\ NoJob.tries < Attempts /\ NoJob.holder = None
    BY DEF NoJob, Jobs, Attempts, MaxStalledCount
  <2>3. ASSUME NEW n \in Jobs, n = [NoJob EXCEPT !.state = "waiting", !.tenant = x.tenant]
        PROVE  n.state = "waiting" /\ n.holder = None /\ n.tries < Attempts
    BY <2>2, <2>3 DEF Jobs
  <2>4. [NoJob EXCEPT !.state = "waiting", !.tenant = x.tenant] \in Jobs
    BY <2>0, <2>2 DEF Jobs
  <2>5. /\ j \in Jobs
        /\ j.state = "active" <=> j.holder # None
        /\ j.state # "failed" => j.tries < Attempts
    BY <1>0, <2>0, <2>2, <2>3, <2>4 DEF TInv, TypeOK, Tried
  <2> HIDE DEF j
  <2>6. /\ job' \in [Events -> Jobs]
        /\ \A d \in Events : job'[d] = IF d = e THEN j ELSE job[d]
    BY <1>0, <2>0, <2>1, <2>5 DEF TypeOK
  <2>7. acked' \subseteq Events /\ intake' \subseteq Deliveries
    BY <1>0, <1>2, <2>0 DEF Enqueue, TypeOK
  <2> QED
    BY <1>2, <2>5, <2>6, <2>7 DEF Enqueue, TInv, TypeOK, Tried
<1> QED
  BY <1>1, <1>2

LEMMA ClientTypes ==
  ASSUME TInv, NEW c \in Clients,
         (\E p \in Payments : Verify(c, p)) \/ (\E t \in Tenants : SetByHand(c, t))
  PROVE  TInv'
<1>0. c \in Procs
  BY DEF Procs
<1>1. ASSUME NEW p \in Payments, Verify(c, p)
      PROVE  TInv'
  <2>1. TenantOf[p] \in Tenants
    BY BillingAssumption
  <2>2. [at |-> "begin", by |-> "verify", of |-> p, tenant |-> TenantOf[p]] \in Runs
    BY <2>1 DEF Runs, Sources
  <2> QED
    BY <1>0, <1>1, <2>2, MoveTypes DEF Verify
<1>2. ASSUME NEW t \in Tenants, SetByHand(c, t)
      PROVE  TInv'
  <2>1. [at |-> "begin", by |-> "manual", of |-> None, tenant |-> t] \in Runs
    BY DEF Runs, Sources
  <2> QED
    BY <1>0, <1>2, <2>1, MoveTypes DEF SetByHand
<1> QED
  BY <1>1, <1>2

LEMMA DeleteTypes ==
  ASSUME TInv, NEW t \in Tenants, DeleteTenant(t)
  PROVE  TInv'
<1>1. sold' \subseteq sold /\ subs' \subseteq subs /\ alive' \subseteq alive
  BY DEF DeleteTenant
<1>2. IsFiniteSet(sold') /\ IsFiniteSet(subs')
  BY <1>1, FS_Subset DEF TInv
<1> QED
  BY <1>1, <1>2 DEF DeleteTenant, TInv, TypeOK, Tried

LEMMA StepTypes == TInv /\ [Next]_vars => TInv'
<1> SUFFICES ASSUME TInv, [Next]_vars PROVE TInv'
  OBVIOUS
<1>1. CASE UNCHANGED vars
  BY <1>1 DEF vars, TInv, TypeOK, Tried
<1>2. ASSUME NEW w \in Workers, Crash(w)
      PROVE  TInv'
  <2>1. w \in Procs
    BY DEF Procs
  <2> QED
    BY <1>2, <2>1, IdleRuns, MoveTypes DEF Crash
<1>3. ASSUME NEW q \in Procs, Progress(q)
      PROVE  TInv'
  BY <1>3, WorkerTypes, TransactionTypes DEF Progress
<1> QED
  BY <1>1, <1>2, <1>3, QueueTypes, IntakeTypes, ClientTypes, DeleteTypes DEF Next

\* The rows, the queue and the processes have their types, whatever fails
\* (TypeOK).
THEOREM BillingTypeCorrect == Spec => []TypeOK
<1>1. TInv => TypeOK
  BY DEF TInv
<1> QED
  BY <1>1, InitTypes, StepTypes, PTL DEF Spec

-----------------------------------------------------------------------------
\* An event activates its tenant once

\* The run of an event is its job's holder's, and past the check that the event
\* is not PROCESSED it still is not.
Owned(q) ==
  proc[q] # Idle /\ proc[q].by \in Events =>
    /\ q \in Workers
    /\ job[proc[q].by].holder = q
    /\ proc[q].at \notin {"check", "report"} => proc[q].by \notin done

\* An event that was applied is PROCESSED, and was applied once.
Applied ==
  /\ \A x \in sold : x.by \in Events => x.by \in done
  /\ \A x, y \in sold : x.by = y.by /\ x.by \in Events => x = y

OInv == TInv /\ Applied /\ \A q \in Procs : Owned(q)

\* A step that moves one run, of the event it was of, and no rows or jobs.
LEMMA MoveOwned ==
  ASSUME OInv, NEW q \in Procs, NEW r \in Runs, Become(q, r),
         UNCHANGED <<done, acked, intake, job, sold, subs, alive>>,
         r # Idle /\ r.by \in Events =>
           /\ proc[q] # Idle
           /\ proc[q].by = r.by
           /\ r.at \notin {"check", "report"} => r.by \notin done
  PROVE  OInv'
<1>1. TInv'
  BY MoveTypes DEF OInv
<1>2. \A p \in Procs : proc'[p] = IF p = q THEN r ELSE proc[p]
  BY Becomes DEF OInv, TInv
<1>3. ASSUME NEW p \in Procs
      PROVE  Owned(p)'
  BY <1>2 DEF OInv, Owned
<1> QED
  BY <1>1, <1>3 DEF OInv, Applied

LEMMA QueueOwned ==
  ASSUME OInv, "slow" \notin Faults, NEW e \in Events,
         Receive(e) \/ Stall(e) \/ \E w \in Workers : Take(w, e)
  PROVE  OInv'
<1>0. TInv' /\ TInv /\ TypeOK /\ job \in [Events -> Jobs]
  BY QueueTypes DEF OInv, TInv, TypeOK
<1>1. CASE Receive(e)
  BY <1>0, <1>1 DEF Receive, OInv, Applied, Owned
<1>2. CASE Stall(e)
  <2>0. UNCHANGED <<done, proc, sold>>
    BY <1>2 DEF Stall
  <2>1. \A d \in Events \ {e} : job'[d] = job[d]
    BY <1>0, <1>2 DEF Stall
  <2>2. \A q \in Procs : proc[q] # Idle /\ proc[q].by \in Events => proc[q].by # e
    BY <1>2 DEF Stall, Deserted, Running, OInv, Owned
  <2>3. ASSUME NEW q \in Procs
        PROVE  Owned(q)'
    BY <2>0, <2>1, <2>2 DEF OInv, Owned
  <2> QED
    BY <1>0, <2>0, <2>3 DEF OInv, Applied
<1>3. ASSUME NEW w \in Workers, Take(w, e)
      PROVE  OInv'
  <2> DEFINE r == [at |-> "check", by |-> e, of |-> PaymentOf[e], tenant |-> job[e].tenant]
  <2>0. w \in Procs /\ None \notin Workers
    BY BillingAssumption DEF Procs
  <2>1. r \in Runs
    BY <1>0, BillingAssumption DEF Jobs, Runs
  <2>2. \A p \in Procs : proc'[p] = IF p = w THEN r ELSE proc[p]
    BY <1>0, <1>3, <2>0, <2>1, Becomes DEF Take
  <2>3. job'[e].holder = w /\ \A d \in Events \ {e} : job'[d] = job[d]
    BY <1>0, <1>3 DEF Take, Jobs
  <2>4. job[e].holder = None
    BY <1>0, <1>3 DEF Take, TypeOK
  <2>5. \A q \in Procs : proc[q] # Idle /\ proc[q].by \in Events => proc[q].by # e
    BY <2>0, <2>4 DEF OInv, Owned
  <2>6. ASSUME NEW q \in Procs
        PROVE  Owned(q)'
    <3> HIDE DEF r
    <3>1. CASE q = w
      <4>1. r.by = e /\ r.at = "check"
        BY DEF r
      <4> QED
        BY <2>2, <2>3, <3>1, <4>1 DEF Owned
    <3>2. CASE q # w
      <4>1. Owned(q) /\ done' = done
        BY <1>3 DEF OInv, Take
      <4> QED
        BY <2>2, <2>3, <2>5, <3>2, <4>1 DEF Owned
    <3> QED
      BY <3>1, <3>2
  <2> QED
    BY <1>0, <1>3, <2>6 DEF Take, OInv, Applied
<1> QED
  BY <1>1, <1>2, <1>3

LEMMA IntakeOwned ==
  ASSUME OInv, NEW x \in intake, Enqueue(x) \/ Refuse(x)
  PROVE  OInv'
<1>0. TInv' /\ TInv /\ TypeOK /\ job \in [Events -> Jobs] /\ x \in Deliveries
  BY IntakeTypes DEF OInv, TInv, TypeOK
<1>1. CASE Refuse(x)
  BY <1>0, <1>1 DEF Refuse, OInv, Applied, Owned
<1>2. CASE Enqueue(x)
  <2>1. \A d \in Events : job'[d] = job[d] \/ job[d].state = "none"
    BY <1>0, <1>2 DEF Enqueue
  <2>2. \A d \in Events : job[d].state = "none" => job[d].holder = None
    BY <1>0 DEF TypeOK
  <2>3. ASSUME NEW q \in Procs
        PROVE  Owned(q)'
    BY <1>2, <2>1, <2>2, BillingAssumption DEF Enqueue, OInv, Owned
  <2> QED
    BY <1>0, <1>2, <2>3 DEF Enqueue, OInv, Applied
<1> QED
  BY <1>1, <1>2

\* Two runs are not of one event.
LEMMA OneRun ==
  ASSUME OInv, NEW p \in Procs, NEW q \in Procs, proc[p] # Idle, proc[q] # Idle,
         proc[p].by = proc[q].by, proc[p].by \in Events
  PROVE  p = q
  BY DEF OInv, Owned

LEMMA WorkerOwned ==
  ASSUME OInv, NEW w \in Workers, Skip(w) \/ Check(w) \/ Mark(w) \/ Report(w)
  PROVE  OInv'
<1>0. TInv' /\ TInv /\ TypeOK /\ proc[w] \in Runs /\ w \in Procs
  BY WorkerTypes DEF OInv, TInv, TypeOK, Procs
<1>1. CASE Skip(w)
  <2>1. proc[w].by \in Events /\ proc[w] # Idle
    BY <1>0, <1>1, Places DEF Skip, At
  <2>2. [at |-> "report", by |-> proc[w].by] \in Runs
    BY <2>1 DEF Runs
  <2> QED
    BY <1>0, <1>1, <2>1, <2>2, MoveOwned DEF Skip
<1>2. CASE Check(w)
  <2>1. proc[w] # Idle /\ proc[w].by \in Events /\ proc[w].by \notin done
    BY <1>0, <1>2, Places DEF Check, At
  <2> QED
    BY <1>0, <1>2, <2>1, Checked, MoveOwned DEF Check
<1>3. CASE Mark(w)
  <2> DEFINE r == [at |-> "report", by |-> proc[w].by]
  <2>1. r \in Runs
    BY <1>3 DEF Mark, Runs
  <2>2. \A p \in Procs : proc'[p] = IF p = w THEN r ELSE proc[p]
    BY <1>0, <1>3, <2>1, Becomes DEF Mark
  <2>3. proc[w] # Idle
    BY <1>0, <1>3, Places DEF Mark, At
  <2>4. ASSUME NEW p \in Procs
        PROVE  Owned(p)'
    <3>1. CASE p = w
      BY <1>3, <2>2, <2>3, <3>1 DEF Mark, OInv, Owned
    <3>2. CASE p # w
      BY <1>0, <1>3, <2>2, <2>3, <3>2, OneRun DEF Mark, OInv, Owned
    <3> QED
      BY <3>1, <3>2
  <2> QED
    BY <1>0, <1>3, <2>4 DEF Mark, OInv, Applied
<1>4. CASE Report(w)
  <2>1. proc[w].by \in Events /\ proc[w] # Idle
    BY <1>0, <1>4, Places DEF Report, At
  <2>2. \A p \in Procs : proc'[p] = IF p = w THEN Idle ELSE proc[p]
    BY <1>0, <1>4, IdleRuns, Becomes DEF Report
  <2>3. \A d \in Events \ {proc[w].by} : job'[d] = job[d]
    BY <1>0, <1>4 DEF Report, Complete, TypeOK
  <2>4. ASSUME NEW p \in Procs
        PROVE  Owned(p)'
    BY <1>0, <1>4, <2>1, <2>2, <2>3, OneRun DEF Report, OInv, Owned
  <2> QED
    BY <1>0, <1>4, <2>4 DEF Report, OInv, Applied
<1> QED
  BY <1>1, <1>2, <1>3, <1>4

LEMMA TransactionOwned ==
  ASSUME OInv, NEW q \in Procs,
         Begin(q) \/ Count(q) \/ Insert(q) \/ Commit(q) \/ Grant(q) \/ Rollback(q)
  PROVE  OInv'
<1>0. TInv' /\ TInv /\ TypeOK /\ proc[q] \in Runs
  BY TransactionTypes DEF OInv, TInv, TypeOK
<1>1. CASE Begin(q) \/ Count(q) \/ Insert(q)
  <2>1. proc[q].by \in Events => proc[q].by \notin done
    BY <1>0, <1>1, Statements DEF OInv, Owned
  <2> QED
    BY <1>0, <1>1, <2>1, Statements, MoveOwned
<1>2. CASE Commit(q)
  <2> DEFINE run == proc[q]
             r == IF run.by \in Events THEN [at |-> "report", by |-> run.by] ELSE Idle
             sale == Sale(run)
  <2>1. r \in Runs
    BY IdleRuns DEF Runs
  <2>2. \A p \in Procs : proc'[p] = IF p = q THEN r ELSE proc[p]
    BY <1>0, <1>2, <2>1, Becomes DEF Commit
  <2>3. run # Idle /\ run.at = "commit"
    BY <1>0, <1>2, Places DEF Commit, At
  <2>4. /\ job' = job
        /\ done' = done \cup ({run.by} \cap Events)
        /\ sold' = sold \cup {sale} /\ sale.by = run.by
    BY <1>2 DEF Commit, Sale
  <2>5. r # Idle => r.by = run.by /\ r.at = "report"
    OBVIOUS
  <2>6. run.by \in Events => run.by \notin done
    BY <2>3 DEF OInv, Owned
  <2> HIDE DEF r, sale
  <2>7. ASSUME NEW p \in Procs
        PROVE  Owned(p)'
    <3>1. CASE p = q
      BY <2>2, <2>3, <2>4, <2>5, <3>1 DEF OInv, Owned
    <3>2. CASE p # q
      BY <2>2, <2>3, <2>4, <3>2, OneRun DEF OInv, Owned
    <3> QED
      BY <3>1, <3>2
  <2>8. Applied'
    BY <2>4, <2>6 DEF OInv, Applied
  <2> QED
    BY <1>0, <2>7, <2>8 DEF OInv
<1>3. CASE Rollback(q)
  <2>1. proc[q] # Idle
    BY <1>0, <1>3, Places DEF Rollback, Fails, At
  <2>2. \A p \in Procs : proc'[p] = IF p = q THEN Idle ELSE proc[p]
    BY <1>0, <1>3, IdleRuns, Becomes DEF Rollback
  <2>3. \A d \in Events \ {proc[q].by} : job'[d] = job[d]
    BY <1>0, <1>3 DEF Rollback, Retry, TypeOK
  <2>4. proc[q].by \notin Events => job' = job
    BY <1>3 DEF Rollback
  <2>5. UNCHANGED <<done, sold>>
    BY <1>3 DEF Rollback
  <2>6. ASSUME NEW p \in Procs
        PROVE  Owned(p)'
    <3>1. CASE p = q
      BY <2>2, <3>1 DEF Owned
    <3>2. CASE p # q
      BY <2>1, <2>2, <2>3, <2>4, <2>5, <3>2, OneRun DEF OInv, Owned
    <3> QED
      BY <3>1, <3>2
  <2> QED
    BY <1>0, <2>5, <2>6 DEF OInv, Applied
<1>4. CASE Grant(q)
  <2>1. \A p \in Procs : proc'[p] = IF p = q THEN Idle ELSE proc[p]
    BY <1>0, <1>4, IdleRuns, Becomes DEF Grant
  <2>2. UNCHANGED <<done, job, sold>>
    BY <1>4 DEF Grant
  <2>3. \A p \in Procs : Owned(p)'
    BY <2>1, <2>2 DEF OInv, Owned
  <2> QED
    BY <1>0, <2>2, <2>3 DEF OInv, Applied
<1> QED
  BY <1>1, <1>2, <1>3, <1>4

LEMMA ClientOwned ==
  ASSUME OInv, NEW c \in Clients,
         (\E p \in Payments : Verify(c, p)) \/ (\E t \in Tenants : SetByHand(c, t))
  PROVE  OInv'
<1>0. c \in Procs
  BY DEF Procs
<1>1. ASSUME NEW p \in Payments, Verify(c, p)
      PROVE  OInv'
  <2>1. [at |-> "begin", by |-> "verify", of |-> p, tenant |-> TenantOf[p]] \in Runs
    BY BillingAssumption DEF Runs, Sources
  <2> QED
    BY <1>0, <1>1, <2>1, MoveOwned, BillingAssumption DEF Verify
<1>2. ASSUME NEW t \in Tenants, SetByHand(c, t)
      PROVE  OInv'
  <2>1. [at |-> "begin", by |-> "manual", of |-> None, tenant |-> t] \in Runs
    BY DEF Runs, Sources
  <2> QED
    BY <1>0, <1>2, <2>1, MoveOwned, BillingAssumption DEF SetByHand
<1> QED
  BY <1>1, <1>2

LEMMA DeleteOwned ==
  ASSUME OInv, NEW t \in Tenants, DeleteTenant(t)
  PROVE  OInv'
<1>1. TInv' /\ sold' \subseteq sold
  BY DeleteTypes DEF OInv, DeleteTenant
<1> QED
  BY <1>1 DEF DeleteTenant, OInv, Applied, Owned

LEMMA StepOwned == "slow" \notin Faults /\ OInv /\ [Next]_vars => OInv'
<1> SUFFICES ASSUME "slow" \notin Faults, OInv, [Next]_vars PROVE OInv'
  OBVIOUS
<1>1. CASE UNCHANGED vars
  <2>1. TInv'
    BY <1>1, StepTypes DEF OInv
  <2> QED
    BY <1>1, <2>1 DEF vars, OInv, Applied, Owned
<1>2. ASSUME NEW w \in Workers, Crash(w)
      PROVE  OInv'
  <2>1. w \in Procs
    BY DEF Procs
  <2> QED
    BY <1>2, <2>1, IdleRuns, MoveOwned DEF Crash
<1>3. ASSUME NEW q \in Procs, Progress(q)
      PROVE  OInv'
  BY <1>3, WorkerOwned, TransactionOwned DEF Progress
<1> QED
  BY <1>1, <1>2, <1>3, QueueOwned, IntakeOwned, ClientOwned, DeleteOwned DEF Next

LEMMA InitOwned == Init => OInv
<1> SUFFICES ASSUME Init PROVE OInv
  OBVIOUS
<1>1. TInv
  BY InitTypes
<1> QED
  BY <1>1 DEF Init, OInv, Applied, Owned

\* However often an event is delivered, queued, stalled and retried, it
\* activates its tenant at most once, if no worker goes on with a job whose lock
\* it lost (EventAppliedOnce).
THEOREM EventsApplyOnce ==
  ASSUME "slow" \notin Faults
  PROVE  Spec => []EventAppliedOnce
<1>1. OInv => EventAppliedOnce
  <2> SUFFICES ASSUME OInv, NEW e \in Events
               PROVE  Cardinality({x \in sold : x.by = e}) <= 1
    BY DEF EventAppliedOnce
  <2> DEFINE S == {x \in sold : x.by = e}
  <2>1. \A x, y \in S : x = y
    BY DEF OInv, Applied
  <2>2. CASE S = {}
    BY <2>2, FS_EmptySet
  <2>3. ASSUME NEW x \in S
        PROVE  Cardinality(S) <= 1
    <3>1. S = {x}
      BY <2>1, <2>3
    <3> QED
      BY <3>1, FS_Singleton
  <2> QED
    BY <2>2, <2>3
<1> QED
  BY <1>1, InitOwned, StepOwned, PTL DEF Spec

-----------------------------------------------------------------------------
\* Numbers

\* All invoices are in one series.
OneSeries == \A x, y \in sold : x.series = y.series

Unique ==
  \A x, y \in sold : x # y /\ x.series = y.series =>
                      x.inv # y.inv /\ (x.pay = y.pay => x.pay = 0)

Bounded == \A x \in sold : x.inv <= Cardinality(sold) /\ x.pay <= Cardinality(Paid(sold))

Sequential ==
  /\ {x.inv : x \in sold} = 1 .. Cardinality(sold)
  /\ {x.pay : x \in Paid(sold)} = 1 .. Cardinality(Paid(sold))

\* Nobody has the number of an invoice that was inserted and has not been
\* committed: an insert waits for another one of its number.
Untaken(q) == proc[q].at = "commit" => ~InvoiceTaken(proc[q])

Apart(p, q) ==
  proc[p].at = "commit" /\ proc[q].at = "commit" /\ p # q =>
    proc[p].series # proc[q].series \/ proc[p].inv # proc[q].inv

\* A number that was counted is at most the next one.
Numbered(q) ==
  /\ proc[q].at \in {"insert", "commit"} => proc[q].inv \in 1 .. Cardinality(sold) + 1
  /\ proc[q].at = "commit" => proc[q].pay \in 0 .. Cardinality(Paid(sold)) + 1

NInv ==
  /\ TInv
  /\ Unique
  /\ \A q \in Procs : Untaken(q)
  /\ \A p, q \in Procs : Apart(p, q)
  /\ alive = Tenants => /\ Bounded
                        /\ OneSeries => Sequential
                        /\ \A q \in Procs : Numbered(q)

LEMMA Counts ==
  ASSUME TInv
  PROVE  /\ IsFiniteSet(Paid(sold))
         /\ Cardinality(sold) \in Nat
         /\ Cardinality(Paid(sold)) \in Nat
<1>1. IsFiniteSet(Paid(sold))
  BY FS_Subset DEF TInv, Paid
<1> QED
  BY <1>1, FS_CardinalityType DEF TInv

\* A step that moves one run, to a number that is free, and no rows.
LEMMA MoveNumbered ==
  ASSUME NInv, TInv', NEW q \in Procs, NEW r, Become(q, r), UNCHANGED <<sold, alive>>,
         r.at = "commit" =>
           /\ ~InvoiceTaken(r)
           /\ \A p \in Procs :
                proc[p].at = "commit" => proc[p].series # r.series \/ proc[p].inv # r.inv
           /\ r.pay \in 0 .. Cardinality(Paid(sold)) + 1,
         alive = Tenants /\ r.at \in {"insert", "commit"} => r.inv \in 1 .. Cardinality(sold) + 1
  PROVE  NInv'
<1>1. \A p \in Procs : proc'[p] = IF p = q THEN r ELSE proc[p]
  BY DEF NInv, TInv, TypeOK, Become
<1>2. ASSUME NEW p \in Procs
      PROVE  Untaken(p)'
  BY <1>1 DEF NInv, Untaken, InvoiceTaken
<1>3. ASSUME NEW p \in Procs, NEW s \in Procs
      PROVE  Apart(p, s)'
  <2>1. Apart(p, s)
    BY DEF NInv
  <2> QED
    BY <1>1, <2>1 DEF Apart
<1>4. ASSUME NEW p \in Procs, alive = Tenants
      PROVE  Numbered(p)'
  <2>1. Numbered(p)
    BY <1>4 DEF NInv
  <2> QED
    BY <1>1, <1>4, <2>1 DEF Numbered, Paid
<1>5. Unique' /\ (alive = Tenants => Bounded' /\ (OneSeries' => Sequential'))
  BY DEF NInv, Unique, Bounded, OneSeries, Sequential, Paid
<1> QED
  BY <1>2, <1>3, <1>4, <1>5 DEF NInv

LEMMA CountNumbered ==
  ASSUME NInv, NEW q \in Procs, Count(q)
  PROVE  NInv'
<1>0. TInv' /\ TInv /\ UNCHANGED <<sold, alive>>
  BY TransactionTypes DEF NInv, Count
<1>1. PICK s \in SeriesOf[proc[q].by] :
        Become(q, [at |-> "insert", by |-> proc[q].by, of |-> proc[q].of,
                   tenant |-> proc[q].tenant, row |-> proc[q].row,
                   series |-> s, inv |-> Cardinality(sold) + 1])
  BY DEF Count
<1>2. Cardinality(sold) + 1 \in 1 .. Cardinality(sold) + 1
  BY <1>0, Counts
<1> QED
  BY <1>0, <1>1, <1>2, MoveNumbered

LEMMA InsertNumbered ==
  ASSUME NInv, NEW q \in Procs, Insert(q)
  PROVE  NInv'
<1>0. TInv' /\ TInv /\ UNCHANGED <<sold, alive>>
  BY TransactionTypes DEF NInv, Insert
<1>1. PICK r : r = Numbering(proc[q])
  OBVIOUS
<1>2. /\ r.at = "commit" /\ r.series = proc[q].series /\ r.inv = proc[q].inv
      /\ r.pay = IF proc[q].of = None THEN 0 ELSE Cardinality(Paid(sold)) + 1
  BY <1>1 DEF Numbering
<1>3. r.pay \in 0 .. Cardinality(Paid(sold)) + 1
  BY <1>0, <1>2, Counts
<1>4. /\ proc[q].at = "insert" /\ ~InvoiceTaken(proc[q]) /\ Become(q, r)
      /\ \A p \in Procs : proc[p].at = "commit" =>
           proc[p].series # proc[q].series \/ proc[p].inv # proc[q].inv
  BY <1>1 DEF Insert, At
<1>5. alive = Tenants => r.inv \in 1 .. Cardinality(sold) + 1
  BY <1>2, <1>4 DEF NInv, Numbered
<1>6. ~InvoiceTaken(r)
  BY <1>2, <1>4 DEF InvoiceTaken
<1> QED
  BY <1>0, <1>2, <1>3, <1>4, <1>5, <1>6, MoveNumbered

\* What a commit adds is a new invoice.
LEMMA Sold ==
  ASSUME NInv, NEW q \in Procs, Commit(q)
  PROVE  /\ sold' = sold \cup {Sale(proc[q])} /\ Sale(proc[q]) \notin sold
         /\ ~InvoiceTaken(proc[q])
         /\ proc[q].pay # 0 => ~PaymentTaken(proc[q])
         /\ Sale(proc[q]).series = proc[q].series /\ Sale(proc[q]).inv = proc[q].inv
         /\ Sale(proc[q]).pay = proc[q].pay
<1>1. ~InvoiceTaken(proc[q])
  BY DEF Commit, At, NInv, Untaken
<1>2. /\ Sale(proc[q]).series = proc[q].series /\ Sale(proc[q]).inv = proc[q].inv
      /\ Sale(proc[q]).pay = proc[q].pay
  BY DEF Sale
<1> QED
  BY <1>1, <1>2 DEF Commit, InvoiceTaken

\* The counts after a commit, while no tenant is deleted.
LEMMA SoldCounts ==
  ASSUME NInv, NEW q \in Procs, Commit(q), alive = Tenants
  PROVE  /\ Bounded'
         /\ OneSeries' => Sequential'
         /\ Cardinality(sold') = Cardinality(sold) + 1
         /\ Cardinality(Paid(sold')) \in Nat
         /\ Cardinality(Paid(sold')) >= Cardinality(Paid(sold))
<1> DEFINE run == proc[q]
           sale == Sale(run)
           n == Cardinality(sold)
           m == Cardinality(Paid(sold))
           k == Cardinality(Paid(sold'))
<1>1. /\ sold' = sold \cup {sale} /\ sale \notin sold /\ ~InvoiceTaken(run)
      /\ run.pay # 0 => ~PaymentTaken(run)
      /\ sale.series = run.series /\ sale.inv = run.inv /\ sale.pay = run.pay
  BY Sold
<1>2. n \in Nat /\ m \in Nat /\ IsFiniteSet(sold) /\ IsFiniteSet(Paid(sold))
  BY Counts DEF NInv, TInv
<1>3. run.inv \in 1 .. n + 1 /\ run.pay \in 0 .. m + 1
  BY DEF NInv, Numbered, Commit, At
<1>4. \A x \in sold : x.inv \in Nat /\ x.pay \in Nat /\ x.inv <= n /\ x.pay <= m
  BY DEF NInv, Bounded, TInv, TypeOK, Sales
<1> HIDE DEF sale, n, m, run
<1>5. Cardinality(sold') = n + 1
  BY <1>1, <1>2, FS_AddElement DEF n
<1>6. /\ k = IF run.pay = 0 THEN m ELSE m + 1
      /\ Paid(sold') = IF run.pay = 0 THEN Paid(sold) ELSE Paid(sold) \cup {sale}
  <2>1. CASE run.pay = 0
    <3>1. Paid(sold') = Paid(sold)
      BY <1>1, <2>1 DEF Paid
    <3> QED
      BY <2>1, <3>1 DEF m
  <2>2. CASE run.pay # 0
    <3>1. Paid(sold') = Paid(sold) \cup {sale} /\ sale \notin Paid(sold)
      BY <1>1, <2>2 DEF Paid
    <3> QED
      BY <1>2, <2>2, <3>1, FS_AddElement DEF m
  <2> QED
    BY <2>1, <2>2
<1> HIDE DEF k
<1>7. k \in Nat /\ k >= m
  BY <1>2, <1>6
<1>8. ASSUME NEW x \in sold'
      PROVE  x.inv <= n + 1 /\ x.pay <= k
  <2>1. CASE x = sale
    BY <1>1, <1>2, <1>3, <1>6, <2>1
  <2>2. CASE x \in sold
    BY <1>2, <1>4, <1>7, <2>2
  <2> QED
    BY <1>1, <1>8, <2>1, <2>2
<1>9. ASSUME OneSeries'
      PROVE  Sequential'
  <2>1. OneSeries /\ \A x \in sold : x.series = run.series
    BY <1>1, <1>9 DEF OneSeries
  <2>2. {x.inv : x \in sold} = 1 .. n /\ {x.pay : x \in Paid(sold)} = 1 .. m
    BY <2>1 DEF NInv, Sequential, n, m
  <2>3. run.inv = n + 1
    <3>1. run.inv \notin {x.inv : x \in sold}
      BY <1>1, <2>1 DEF InvoiceTaken
    <3> QED
      BY <1>2, <1>3, <2>2, <3>1
  <2>4. run.pay = 0 \/ run.pay = m + 1
    <3>1. run.pay # 0 => run.pay \notin {x.pay : x \in Paid(sold)}
      BY <1>1, <2>1 DEF PaymentTaken, Paid
    <3> QED
      BY <1>2, <1>3, <2>2, <3>1
  <2>5. {x.inv : x \in sold'} = 1 .. n + 1
    <3>1. {x.inv : x \in sold'} = {x.inv : x \in sold} \cup {n + 1}
      BY <1>1, <2>3
    <3> QED
      BY <1>2, <2>2, <3>1
  <2>6. {x.pay : x \in Paid(sold')} = 1 .. k
    <3>1. CASE run.pay = 0
      BY <1>6, <2>2, <3>1
    <3>2. CASE run.pay = m + 1
      <4>1. run.pay # 0
        BY <1>2, <3>2
      <4>2. {x.pay : x \in Paid(sold')} = {x.pay : x \in Paid(sold)} \cup {m + 1}
        BY <1>1, <1>6, <3>2, <4>1
      <4> QED
        BY <1>2, <1>6, <2>2, <4>1, <4>2
    <3> QED
      BY <2>4, <3>1, <3>2
  <2>7. (1 .. n + 1) = 1 .. Cardinality(sold')
    BY <1>5
  <2> QED
    BY <2>5, <2>6, <2>7 DEF Sequential, Paid, k
<1>10. Bounded'
  BY <1>5, <1>8 DEF Bounded, Paid, k
<1> QED
  BY <1>5, <1>7, <1>9, <1>10 DEF n, m, k

LEMMA CommitNumbered ==
  ASSUME NInv, NEW q \in Procs, Commit(q)
  PROVE  NInv'
<1> DEFINE run == proc[q]
           r == IF run.by \in Events THEN [at |-> "report", by |-> run.by] ELSE Idle
           sale == Sale(run)
<1>0. TInv' /\ TInv /\ TypeOK /\ alive' = alive
  BY TransactionTypes DEF NInv, TInv, Commit
<1>1. \A p \in Procs : proc'[p] = IF p = q THEN r ELSE proc[p]
  BY <1>0 DEF Commit, Become, TypeOK
<1>2. r.at \notin {"insert", "commit"}
  BY DEF Idle
<1>3. /\ sold' = sold \cup {sale} /\ sale \notin sold /\ ~InvoiceTaken(run)
      /\ run.pay # 0 => ~PaymentTaken(run)
      /\ sale.series = run.series /\ sale.inv = run.inv /\ sale.pay = run.pay
      /\ run.at = "commit"
  BY Sold DEF Commit, At
<1> HIDE DEF r, sale
<1>4. Unique'
  <2>1. \A x \in sold : x.series = sale.series =>
          x.inv # sale.inv /\ (x.pay = sale.pay => x.pay = 0)
    BY <1>3 DEF InvoiceTaken, PaymentTaken, Paid
  <2> QED
    BY <1>3, <2>1 DEF NInv, Unique
<1>5. ASSUME NEW p \in Procs
      PROVE  Untaken(p)'
  <2>1. CASE p = q
    BY <1>1, <1>2, <2>1 DEF Untaken
  <2>2. CASE p # q
    <3>1. Untaken(p) /\ Apart(p, q) /\ proc'[p] = proc[p]
      BY <1>1, <2>2 DEF NInv
    <3> QED
      BY <1>3, <2>2, <3>1 DEF Untaken, Apart, InvoiceTaken
  <2> QED
    BY <2>1, <2>2
<1>6. ASSUME NEW p \in Procs, NEW s \in Procs
      PROVE  Apart(p, s)'
  <2>1. Apart(p, s)
    BY DEF NInv
  <2> QED
    BY <1>1, <1>2, <2>1 DEF Apart
<1>7. ASSUME NEW p \in Procs, alive = Tenants
      PROVE  Numbered(p)'
  <2>1. Numbered(p)
    BY <1>7 DEF NInv
  <2>2. /\ Cardinality(sold') = Cardinality(sold) + 1
        /\ Cardinality(Paid(sold')) \in Nat
        /\ Cardinality(Paid(sold')) >= Cardinality(Paid(sold))
    BY <1>7, SoldCounts
  <2>3. Cardinality(sold) \in Nat /\ Cardinality(Paid(sold)) \in Nat
    BY <1>0, Counts
  <2> QED
    BY <1>1, <1>2, <2>1, <2>2, <2>3 DEF Numbered, Paid
<1>8. alive = Tenants => Bounded' /\ (OneSeries' => Sequential')
  BY SoldCounts
<1> QED
  BY <1>0, <1>4, <1>5, <1>6, <1>7, <1>8 DEF NInv

LEMMA StepNumbered == NInv /\ [Next]_vars => NInv'
<1> SUFFICES ASSUME NInv, [Next]_vars PROVE NInv'
  OBVIOUS
<1>0. TInv /\ TInv' /\ TypeOK
  BY StepTypes DEF NInv, TInv
\* A step that leaves runs and rows alone.
<1>1. ASSUME UNCHANGED <<proc, sold, alive>>
      PROVE  NInv'
  BY <1>0, <1>1 DEF NInv, Unique, Untaken, InvoiceTaken, Apart, Bounded, OneSeries, Sequential,
                    Numbered, Paid
<1>2. ASSUME NEW e \in Events, Receive(e) \/ Stall(e)
      PROVE  NInv'
  BY <1>1, <1>2 DEF Receive, Stall
<1>3. ASSUME NEW x \in intake, Enqueue(x) \/ Refuse(x)
      PROVE  NInv'
  BY <1>1, <1>3 DEF Enqueue, Refuse
\* A step that makes r the run of q.
<1>4. ASSUME NEW q \in Procs, NEW r, Become(q, r), r.at \notin {"insert", "commit"},
             UNCHANGED <<sold, alive>>
      PROVE  NInv'
  BY <1>0, <1>4, MoveNumbered
<1>5. Idle.at \notin {"insert", "commit"}
  BY DEF Idle
<1>6. ASSUME NEW w \in Workers, Crash(w)
      PROVE  NInv'
  BY <1>4, <1>5, <1>6 DEF Crash, Procs
<1>7. ASSUME NEW w \in Workers, NEW e \in Events, Take(w, e)
      PROVE  NInv'
  BY <1>4, <1>7 DEF Take, Procs
<1>8. ASSUME NEW c \in Clients, NEW p \in Payments, Verify(c, p)
      PROVE  NInv'
  BY <1>4, <1>8 DEF Verify, Procs
<1>9. ASSUME NEW c \in Clients, NEW t \in Tenants, SetByHand(c, t)
      PROVE  NInv'
  BY <1>4, <1>9 DEF SetByHand, Procs
<1>10. ASSUME NEW q \in Procs, Progress(q)
       PROVE  NInv'
  <2>1. CASE Skip(q) \/ Mark(q)
    BY <1>4, <2>1 DEF Skip, Mark
  <2>2. CASE Report(q) \/ Grant(q) \/ Rollback(q)
    BY <1>4, <1>5, <2>2 DEF Report, Grant, Rollback
  <2>3. CASE Check(q)
    <3>1. PICK r \in Runs : Become(q, r) /\ r.at = "begin"
      BY <1>0, <2>3, Checked
    <3> QED
      BY <1>4, <2>3, <3>1 DEF Check
  <2>4. CASE Begin(q)
    BY <1>4, <2>4 DEF Begin
  <2> QED
    BY <1>10, <2>1, <2>2, <2>3, <2>4, CountNumbered, InsertNumbered, CommitNumbered DEF Progress
<1>11. ASSUME NEW t \in Tenants, DeleteTenant(t)
       PROVE  NInv'
  <2>1. alive' # Tenants /\ sold' \subseteq sold /\ proc' = proc
    BY <1>11 DEF DeleteTenant
  <2>2. Unique' /\ (\A q \in Procs : Untaken(q)') /\ \A p, q \in Procs : Apart(p, q)'
    BY <2>1 DEF NInv, Unique, Untaken, InvoiceTaken, Apart
  <2> QED
    BY <1>0, <2>1, <2>2 DEF NInv
<1>12. CASE UNCHANGED vars
  BY <1>1, <1>12 DEF vars
<1> QED
  BY <1>2, <1>3, <1>6, <1>7, <1>8, <1>9, <1>10, <1>11, <1>12 DEF Next

LEMMA InitNumbered == Init => NInv
<1> SUFFICES ASSUME Init PROVE NInv
  OBVIOUS
<1>1. TInv
  BY InitTypes
<1>2. sold = {} /\ \A q \in Procs : proc[q] = Idle
  BY DEF Init
<1>3. Paid(sold) = {} /\ Cardinality({}) = 0
  BY <1>2, FS_EmptySet DEF Paid
<1>4. Sequential
  BY <1>2, <1>3 DEF Sequential
<1> QED
  BY <1>1, <1>2, <1>4 DEF NInv, Unique, Untaken, Apart, Bounded, Numbered, Idle

\* No number is of two invoices or two payments, in whatever series the routes number;
\* until a tenant is deleted none is above the count of its rows, and in a single
\* series they have no gap, whatever runs at once and whatever fails
\* (NumbersFollowCounts).
THEOREM NumbersFollowTheirCounts == Spec => []NumbersFollowCounts
<1>1. NInv => NumbersFollowCounts
  BY DEF NInv, Unique, Bounded, OneSeries, Sequential, NumbersFollowCounts
<1> QED
  BY <1>1, InitNumbered, StepNumbered, PTL DEF Spec

-----------------------------------------------------------------------------
\* PROCESSED and activated

Payer(e) == TenantOf[PaymentOf[e]]

\* The tenant an event names goes with it through the queue to the worker.
IntakeNames == \A x \in intake : x.event \in Named => x.tenant = Payer(x.event)

JobsName == \A e \in Named : job[e].state # "none" => job[e].tenant = Payer(e)

RunNames(q) ==
  proc[q].at \in {"check", "begin", "count", "insert", "commit"} /\ proc[q].by \in Named =>
    proc[q].tenant = Payer(proc[q].by)

\* An event is PROCESSED with its sale; a sale goes only with its tenant.
Recorded ==
  /\ \A x \in sold : x.by \in Named => x.by \in done /\ x.tenant = Payer(x.by)
  /\ \A e \in Named : e \in done /\ Payer(e) \in alive => \E x \in sold : x.by = e

PInv == TInv /\ IntakeNames /\ JobsName /\ (\A q \in Procs : RunNames(q)) /\ Recorded

LEMMA Payers == \A e \in Events : Payer(e) \in Tenants /\ Payer(e) # None
  BY BillingAssumption DEF Payer

\* A step that moves one run, of the event it was of, and no rows.
LEMMA MoveNames ==
  ASSUME PInv, TInv', NEW q \in Procs, NEW r, Become(q, r),
         UNCHANGED <<done, intake, sold, alive>>, JobsName',
         r.at \in {"check", "begin", "count", "insert", "commit"} /\ r.by \in Named =>
           r.tenant = Payer(r.by)
  PROVE  PInv'
<1>1. \A p \in Procs : proc'[p] = IF p = q THEN r ELSE proc[p]
  BY DEF PInv, TInv, TypeOK, Become
<1>2. \A p \in Procs : RunNames(p)'
  BY <1>1 DEF PInv, RunNames, Payer
<1> QED
  BY <1>2 DEF PInv, IntakeNames, Recorded, Payer

\* A step that leaves the jobs where they are, or takes them off the queue, leaves
\* their tenants.
LEMMA KeepNames ==
  ASSUME PInv,
         \A e \in Events : job'[e].state # "none" =>
           job[e].state # "none" /\ job'[e].tenant = job[e].tenant
  PROVE  JobsName'
  BY BillingAssumption DEF PInv, JobsName, Payer

LEMMA EndNames ==
  ASSUME PInv, NEW w \in Procs, NEW e \in Events, Retry(w, e) \/ Complete(w, e)
  PROVE  JobsName'
<1>1. job \in [Events -> Jobs]
  BY DEF PInv, TInv, TypeOK
<1>2. CASE job' = job
  BY <1>2, KeepNames
<1>3. CASE job' = [job EXCEPT ![e] = NoJob]
  <2>1. NoJob.state = "none"
    BY DEF NoJob
  <2> QED
    BY <1>1, <1>3, <2>1, KeepNames
<1>4. CASE job[e].holder = w /\ job' = [job EXCEPT ![e] = Again(job[e])]
  <2>1. job[e].state # "none"
    BY <1>4, BillingAssumption DEF PInv, TInv, TypeOK, Procs
  <2>2. Again(job[e]).tenant = job[e].tenant
    BY <1>1 DEF Again, Jobs
  <2>3. \A d \in Events : job'[d] = IF d = e THEN Again(job[e]) ELSE job[d]
    BY <1>1, <1>4
  <2> QED
    BY <2>1, <2>2, <2>3, KeepNames
<1>5. Retry(w, e) => job' = job \/ (job[e].holder = w /\ job' = [job EXCEPT ![e] = Again(job[e])])
  BY <1>1 DEF Retry
<1> QED
  BY <1>2, <1>3, <1>4, <1>5 DEF Complete

LEMMA QueueNames ==
  ASSUME PInv, NEW e \in Events, Receive(e) \/ Stall(e) \/ \E w \in Workers : Take(w, e)
  PROVE  PInv'
<1>0. TInv' /\ TInv /\ job \in [Events -> Jobs]
  BY QueueTypes DEF PInv, TInv, TypeOK
<1>1. CASE Receive(e)
  <2>1. IntakeNames'
    BY <1>1 DEF Receive, PInv, IntakeNames, Payer
  <2>2. JobsName' /\ Recorded' /\ \A q \in Procs : RunNames(q)'
    BY <1>1 DEF Receive, PInv, JobsName, Recorded, RunNames, Payer
  <2> QED
    BY <1>0, <2>1, <2>2 DEF PInv
<1>2. CASE Stall(e)
  <2>1. /\ \A d \in Events \ {e} : job'[d] = job[d]
        /\ job'[e].tenant = job[e].tenant /\ job[e].state = "active"
    BY <1>0, <1>2 DEF Stall, Jobs
  <2>2. JobsName'
    BY <2>1, KeepNames
  <2>3. UNCHANGED <<done, intake, proc, sold, alive>>
    BY <1>2 DEF Stall
  <2> QED
    BY <1>0, <2>2, <2>3 DEF PInv, IntakeNames, RunNames, Recorded, Payer
<1>3. ASSUME NEW w \in Workers, Take(w, e)
      PROVE  PInv'
  <2> DEFINE j == [job[e] EXCEPT !.state = "active", !.holder = w]
  <2>0. job' = [job EXCEPT ![e] = j] /\ j.tenant = job[e].tenant
    BY <1>0, <1>3 DEF Take, Jobs
  <2> HIDE DEF j
  <2>1. /\ \A d \in Events \ {e} : job'[d] = job[d]
        /\ job'[e].tenant = job[e].tenant /\ job[e].state = "waiting"
    BY <1>0, <1>3, <2>0 DEF Take
  <2>2. JobsName'
    BY <2>1, KeepNames
  <2>3. e \in Named => job[e].tenant = Payer(e)
    BY <2>1 DEF PInv, JobsName
  <2>4. Become(w, [at |-> "check", by |-> e, of |-> PaymentOf[e], tenant |-> job[e].tenant])
    BY <1>3 DEF Take
  <2> QED
    BY <1>0, <1>3, <2>2, <2>3, <2>4, MoveNames DEF Take, Procs
<1> QED
  BY <1>1, <1>2, <1>3

LEMMA IntakeStepNames ==
  ASSUME PInv, NEW x \in intake, Enqueue(x) \/ Refuse(x)
  PROVE  PInv'
<1>0. TInv' /\ TInv /\ job \in [Events -> Jobs] /\ x.event \in Events
  BY IntakeTypes DEF PInv, TInv, TypeOK, Deliveries
<1>1. UNCHANGED <<done, proc, sold, alive>> /\ intake' \subseteq intake
  BY DEF Enqueue, Refuse
<1>2. IntakeNames' /\ Recorded' /\ \A q \in Procs : RunNames(q)'
  BY <1>1 DEF PInv, IntakeNames, Recorded, RunNames, Payer
<1>3. CASE Refuse(x)
  BY <1>0, <1>2, <1>3 DEF Refuse, PInv, JobsName, Payer
<1>4. CASE Enqueue(x)
  <2> DEFINE j == [NoJob EXCEPT !.state = "waiting", !.tenant = x.tenant]
  <2>1. \A d \in Events : job'[d] = IF d = x.event /\ job[d].state = "none" THEN j ELSE job[d]
    BY <1>0, <1>4 DEF Enqueue
  <2>2. NoJob \in Jobs
    BY DEF NoJob, Jobs, Attempts, MaxStalledCount
  <2>3. j.tenant = x.tenant
    BY <2>2 DEF Jobs
  <2> HIDE DEF j
  <2>4. JobsName'
    BY <2>1, <2>3, BillingAssumption DEF PInv, JobsName, IntakeNames, Payer
  <2> QED
    BY <1>0, <1>2, <2>4 DEF PInv
<1> QED
  BY <1>3, <1>4

LEMMA ProgressNames ==
  ASSUME PInv, NEW q \in Procs, Progress(q)
  PROVE  PInv'
<1>0. TInv' /\ TInv /\ TypeOK /\ proc[q] \in Runs
  BY WorkerTypes, TransactionTypes DEF Progress, PInv, TInv, TypeOK
<1>1. job' = job => JobsName'
  BY DEF PInv, JobsName, Payer
<1>2. CASE Skip(q)
  BY <1>0, <1>1, <1>2, MoveNames DEF Skip
<1>3. CASE Check(q)
  <2>1. PICK r \in Runs : /\ Become(q, r)
                          /\ r.by = proc[q].by
                          /\ proc[q].tenant # None => r.tenant = proc[q].tenant
    BY <1>0, <1>3, Checked
  <2>2. r.by \in Named => r.tenant = Payer(r.by)
    BY <1>3, <2>1, Payers, BillingAssumption DEF Check, At, PInv, RunNames
  <2> QED
    BY <1>0, <1>1, <1>3, <2>1, <2>2, MoveNames DEF Check
<1>4. CASE Begin(q) \/ Count(q) \/ Insert(q)
  <2>1. PICK r \in Runs : Become(q, r) /\ r.by = proc[q].by /\ r.tenant = proc[q].tenant
    BY <1>0, <1>4, Statements
  <2>2. r.by \in Named => r.tenant = Payer(r.by)
    BY <1>0, <1>4, <2>1, Statements DEF PInv, RunNames
  <2> QED
    BY <1>0, <1>1, <1>4, <2>1, <2>2, Statements, MoveNames
<1>5. CASE Report(q)
  <2>1. proc[q].by \in Events
    BY <1>0, <1>5, Places DEF Report, At
  <2>2. JobsName'
    BY <1>5, <2>1, EndNames DEF Report
  <2> QED
    BY <1>0, <1>5, <2>2, MoveNames DEF Report, Idle
<1>6. CASE Rollback(q)
  <2>1. JobsName'
    BY <1>1, <1>6, EndNames DEF Rollback
  <2> QED
    BY <1>0, <1>6, <2>1, MoveNames DEF Rollback, Idle
<1>7. CASE Mark(q)
  <2> DEFINE r == [at |-> "report", by |-> proc[q].by]
  <2>1. \A p \in Procs : proc'[p] = IF p = q THEN r ELSE proc[p]
    BY <1>0, <1>7 DEF Mark, Become, TypeOK
  <2>2. \A p \in Procs : RunNames(p)'
    BY <2>1 DEF PInv, RunNames, Payer
  <2>3. proc[q].by \in Named => Payer(proc[q].by) \notin alive
    BY <1>7 DEF Mark, At, PInv, RunNames
  <2>4. Recorded'
    BY <1>7, <2>3 DEF Mark, PInv, Recorded, Payer
  <2> QED
    BY <1>0, <1>1, <1>7, <2>2, <2>4 DEF Mark, PInv, IntakeNames, Payer
<1>8. CASE Commit(q)
  <2> DEFINE run == proc[q]
             r == IF run.by \in Events THEN [at |-> "report", by |-> run.by] ELSE Idle
             sale == Sale(run)
  <2>1. \A p \in Procs : proc'[p] = IF p = q THEN r ELSE proc[p]
    BY <1>0, <1>8 DEF Commit, Become, TypeOK
  <2>2. r.at \notin {"check", "begin", "count", "insert", "commit"}
    BY DEF Idle
  <2>3. /\ sold' = sold \cup {sale} /\ sale.by = run.by /\ sale.tenant = run.tenant
        /\ done' = done \cup ({run.by} \cap Events)
        /\ UNCHANGED <<job, intake, alive>>
    BY <1>8 DEF Commit, Sale
  <2>4. run.by \in Named => run.tenant = Payer(run.by)
    BY <1>8 DEF Commit, At, PInv, RunNames
  <2> HIDE DEF r, sale
  <2>5. \A p \in Procs : RunNames(p)'
    BY <2>1, <2>2 DEF PInv, RunNames, Payer
  <2>6. Recorded'
    BY <2>3, <2>4, BillingAssumption DEF PInv, Recorded, Payer
  <2> QED
    BY <1>0, <1>1, <2>3, <2>5, <2>6 DEF PInv, IntakeNames, Payer
<1>9. CASE Grant(q)
  BY <1>0, <1>1, <1>9, MoveNames DEF Grant, Idle
<1> QED
  BY <1>2, <1>3, <1>4, <1>5, <1>6, <1>7, <1>8, <1>9 DEF Progress

LEMMA DeleteNames ==
  ASSUME PInv, NEW t \in Tenants, DeleteTenant(t)
  PROVE  PInv'
<1>1. TInv'
  BY DeleteTypes DEF PInv
<1>2. /\ alive' = alive \ {t} /\ sold' = {x \in sold : x.tenant # t}
      /\ UNCHANGED <<done, intake, job, proc>>
  BY DEF DeleteTenant
<1>3. Recorded'
  BY <1>2 DEF PInv, Recorded, Payer
<1> QED
  BY <1>1, <1>2, <1>3 DEF PInv, IntakeNames, JobsName, RunNames, Payer

LEMMA StepNames == PInv /\ [Next]_vars => PInv'
<1> SUFFICES ASSUME PInv, [Next]_vars PROVE PInv'
  OBVIOUS
<1>0. TInv /\ TInv'
  BY StepTypes DEF PInv
<1>1. CASE UNCHANGED vars
  BY <1>0, <1>1 DEF vars, PInv, IntakeNames, JobsName, RunNames, Recorded, Payer
<1>2. job' = job => JobsName'
  BY DEF PInv, JobsName, Payer
<1>3. ASSUME NEW w \in Workers, Crash(w)
      PROVE  PInv'
  BY <1>0, <1>2, <1>3, MoveNames DEF Crash, Procs, Idle
<1>4. ASSUME NEW c \in Clients, NEW p \in Payments, Verify(c, p)
      PROVE  PInv'
  <2>1. "verify" \notin Named
    BY BillingAssumption
  <2> QED
    BY <1>0, <1>2, <1>4, <2>1, MoveNames DEF Verify, Procs
<1>5. ASSUME NEW c \in Clients, NEW t \in Tenants, SetByHand(c, t)
      PROVE  PInv'
  <2>1. "manual" \notin Named
    BY BillingAssumption
  <2> QED
    BY <1>0, <1>2, <1>5, <2>1, MoveNames DEF SetByHand, Procs
<1> QED
  BY <1>1, <1>3, <1>4, <1>5, QueueNames, IntakeStepNames, ProgressNames, DeleteNames DEF Next

LEMMA InitNames == Init => PInv
<1> SUFFICES ASSUME Init PROVE PInv
  OBVIOUS
<1>1. TInv
  BY InitTypes
<1>2. JobsName
  BY BillingAssumption DEF Init, JobsName, NoJob
<1> QED
  BY <1>1, <1>2 DEF Init, PInv, IntakeNames, RunNames, Recorded, Idle

\* An event that names its tenant is PROCESSED exactly if it activated it, as long
\* as the tenant exists: whatever fails, neither is lost without the other
\* (ProcessedIffApplied).
THEOREM ProcessedWithItsSale == Spec => []ProcessedIffApplied
<1>1. PInv => ProcessedIffApplied
  BY DEF PInv, Recorded, Payer, ProcessedIffApplied
<1> QED
  BY <1>1, InitNames, StepNames, PTL DEF Spec

-----------------------------------------------------------------------------
\* Billing implements Activation

\* The rows of a tenant are numbered from 1, each under a number of its own.
RowIds ==
  /\ \A s \in subs : s.id \in 1 .. Cardinality(RowsOf(s.tenant))
  /\ \A s, u \in subs : s.tenant = u.tenant /\ s.id = u.id => s = u

\* What a run pays for.
Orders(r) ==
  /\ r.by \in Events => r.of = PaymentOf[r.by]
  /\ r.by = "verify" => r.of \in Payments /\ r.tenant = TenantOf[r.of]
  /\ r.by = "manual" => r.of = None

\* What a run has read still holds: its tenant and the row it updates are there.
Sound(r) ==
  /\ r.at \in {"check", "begin", "count", "insert", "commit"} => Orders(r)
  /\ r.at \in {"count", "insert", "commit"} =>
       /\ r.tenant \in alive
       /\ r.row # 0 => \E s \in RowsOf(r.tenant) : s.id = r.row
  /\ r.at = "commit" => (r.pay = 0 <=> r.of = None)

RInv ==
  /\ TInv
  /\ RowIds
  /\ \A q \in Procs : Sound(proc[q])

LEMMA KeepSound ==
  ASSUME UNCHANGED <<subs, alive>>, NEW r, Sound(r)
  PROVE  Sound(r)'
  BY DEF Sound, RowsOf, Orders

LEMMA KeepRows ==
  ASSUME RowIds, UNCHANGED subs
  PROVE  RowIds'
  BY DEF RowIds, RowsOf

\* A step that moves one run, and no subscription.
LEMMA MoveSound ==
  ASSUME RInv, TInv', NEW q \in Procs, NEW r, Become(q, r), UNCHANGED <<subs, alive>>, Sound(r)
  PROVE  RInv'
<1>1. \A p \in Procs : proc'[p] = IF p = q THEN r ELSE proc[p]
  BY DEF RInv, TInv, TypeOK, Become
<1>2. RowIds'
  BY KeepRows DEF RInv
<1>3. ASSUME NEW p \in Procs
      PROVE  Sound(proc[p])'
  <2>1. Sound(r)'
    BY KeepSound
  <2>2. PICK u : u = proc[p]
    OBVIOUS
  <2>3. Sound(u)'
    BY <2>2, KeepSound DEF RInv
  <2> QED
    BY <1>1, <2>1, <2>2, <2>3 DEF Sound, RowsOf, Orders
<1> QED
  BY <1>2, <1>3 DEF RInv

LEMMA BeginSound ==
  ASSUME RInv, TInv', NEW q \in Procs, Begin(q)
  PROVE  RInv'
<1>1. PICK row \in Targets(proc[q].tenant) :
        Become(q, [at |-> "count", by |-> proc[q].by, of |-> proc[q].of,
                   tenant |-> proc[q].tenant, row |-> row])
  BY DEF Begin
<1> DEFINE r == [at |-> "count", by |-> proc[q].by, of |-> proc[q].of,
                 tenant |-> proc[q].tenant, row |-> row]
<1>2. row # 0 => \E s \in RowsOf(proc[q].tenant) : s.id = row
  BY DEF Targets
<1>3. Sound(proc[q]) /\ proc[q].at = "begin" /\ proc[q].tenant \in alive
  BY DEF RInv, Begin, At
<1>4. Orders(r)
  BY <1>3 DEF Sound, Orders
<1>5. Sound(r)
  BY <1>2, <1>3, <1>4 DEF Sound
<1> QED
  BY <1>1, <1>5, MoveSound DEF Begin

LEMMA CountSound ==
  ASSUME RInv, TInv', NEW q \in Procs, Count(q)
  PROVE  RInv'
<1>1. PICK s \in SeriesOf[proc[q].by] :
        Become(q, [at |-> "insert", by |-> proc[q].by, of |-> proc[q].of,
                   tenant |-> proc[q].tenant, row |-> proc[q].row,
                   series |-> s, inv |-> Cardinality(sold) + 1])
  BY DEF Count
<1> DEFINE r == [at |-> "insert", by |-> proc[q].by, of |-> proc[q].of,
                 tenant |-> proc[q].tenant, row |-> proc[q].row,
                 series |-> s, inv |-> Cardinality(sold) + 1]
<1>2. Sound(proc[q]) /\ proc[q].at = "count"
  BY DEF RInv, Count, At
<1>3. Orders(r)
  BY <1>2 DEF Sound, Orders
<1>4. Sound(r)
  BY <1>2, <1>3 DEF Sound
<1> QED
  BY <1>1, <1>4, MoveSound DEF Count

LEMMA InsertSound ==
  ASSUME RInv, TInv', NEW q \in Procs, Insert(q)
  PROVE  RInv'
<1>1. PICK r : r = Numbering(proc[q])
  OBVIOUS
<1>2. /\ r.at = "commit" /\ r.by = proc[q].by /\ r.of = proc[q].of
      /\ r.tenant = proc[q].tenant /\ r.row = proc[q].row
      /\ r.pay = IF proc[q].of = None THEN 0 ELSE Cardinality(Paid(sold)) + 1
  BY <1>1 DEF Numbering
<1>3. Sound(proc[q]) /\ proc[q].at = "insert"
  BY DEF RInv, Insert, At
<1>4. Orders(r)
  BY <1>2, <1>3 DEF Sound, Orders
<1>5. r.pay = 0 <=> r.of = None
  BY <1>2, Counts DEF RInv
<1>6. Sound(r)
  BY <1>2, <1>3, <1>4, <1>5 DEF Sound
<1>7. Become(q, r) /\ UNCHANGED <<subs, alive>>
  BY <1>1 DEF Insert
<1> QED
  BY <1>6, <1>7, MoveSound

\* A row extended stays the row of its tenant, under its number.
LEMMA ExtendedRow ==
  ASSUME NEW s \in Subscriptions, NEW x, x.of \in Payments \cup {None}
  PROVE  /\ Atomic!Extended(s, x) \in Subscriptions
         /\ Atomic!Extended(s, x).tenant = s.tenant
         /\ Atomic!Extended(s, x).id = s.id
  BY DEF Atomic!Extended, Subscriptions

LEMMA RowsFinite ==
  ASSUME TInv, NEW t
  PROVE  IsFiniteSet(RowsOf(t)) /\ Cardinality(RowsOf(t)) \in Nat
<1>1. RowsOf(t) \subseteq subs
  BY DEF RowsOf
<1> QED
  BY <1>1, FS_Subset, FS_CardinalityType DEF TInv

LEMMA RowAdded ==
  ASSUME TInv, RowIds, NEW s \in Subscriptions, subs' = subs \cup {s},
         s.id = Cardinality(RowsOf(s.tenant)) + 1
  PROVE  RowIds'
<1> DEFINE t == s.tenant
           n == Cardinality(RowsOf(t))
<1>1. n \in Nat /\ IsFiniteSet(RowsOf(t))
  BY RowsFinite
<1>2. \A u \in subs : u.tenant = t => u.id \in 1 .. n
  BY DEF RowIds
<1>3. s \notin RowsOf(t)
  BY <1>1, <1>2 DEF RowsOf
<1>4. RowsOf(t)' = RowsOf(t) \cup {s}
  BY DEF RowsOf
<1>5. Cardinality(RowsOf(t) \cup {s}) = n + 1
  BY <1>1, <1>3, FS_AddElement
<1> HIDE DEF n
<1>6. ASSUME NEW u \in subs'
      PROVE  u.id \in 1 .. Cardinality(RowsOf(u.tenant))'
  <2>1. CASE u.tenant = t
    <3>1. u.id \in 1 .. n + 1
      BY <1>1, <1>2, <1>6, <2>1 DEF n
    <3>2. RowsOf(u.tenant)' = RowsOf(t) \cup {s}
      BY <1>4, <2>1
    <3> QED
      BY <1>5, <3>1, <3>2
  <2>2. CASE u.tenant # t
    <3>1. u \in subs /\ RowsOf(u.tenant)' = RowsOf(u.tenant)
      BY <1>6, <2>2 DEF RowsOf
    <3> QED
      BY <3>1 DEF RowIds
  <2> QED
    BY <2>1, <2>2
<1>7. ASSUME NEW u \in subs', NEW v \in subs', u.tenant = v.tenant, u.id = v.id
      PROVE  u = v
  BY <1>1, <1>2, <1>7 DEF RowIds, n
<1> QED
  BY <1>6, <1>7 DEF RowIds

LEMMA RowReplaced ==
  ASSUME TInv, RowIds, NEW s \in subs, NEW u \in Subscriptions,
         u.tenant = s.tenant, u.id = s.id, subs' = (subs \ {s}) \cup {u}
  PROVE  RowIds'
<1> DEFINE t == s.tenant
           n == Cardinality(RowsOf(t))
<1>1. n \in Nat /\ IsFiniteSet(RowsOf(t)) /\ s \in RowsOf(t)
  BY RowsFinite DEF RowsOf
<1>2. u \notin RowsOf(t) \ {s}
  BY DEF RowIds, RowsOf
<1>3. RowsOf(t)' = (RowsOf(t) \ {s}) \cup {u}
  BY DEF RowsOf
<1>4. IsFiniteSet(RowsOf(t) \ {s}) /\ Cardinality(RowsOf(t) \ {s}) = n - 1
  BY <1>1, FS_RemoveElement
<1>5. Cardinality((RowsOf(t) \ {s}) \cup {u}) = n
  <2> DEFINE R == RowsOf(t) \ {s}
  <2>1. u \notin R /\ IsFiniteSet(R) /\ Cardinality(R) = n - 1
    BY <1>2, <1>4
  <2> HIDE DEF R, n
  <2>2. Cardinality(R \cup {u}) = (n - 1) + 1
    BY <2>1, FS_AddElement
  <2>3. Cardinality(R \cup {u}) = n
    BY <1>1, <2>2
  <2> QED
    BY <2>3 DEF R
<1>6. \A v \in subs' : \E w \in subs : v.tenant = w.tenant /\ v.id = w.id
  OBVIOUS
<1>7. ASSUME NEW v \in subs'
      PROVE  v.id \in 1 .. Cardinality(RowsOf(v.tenant))'
  <2>1. v.id \in 1 .. Cardinality(RowsOf(v.tenant))
    BY <1>6, <1>7 DEF RowIds
  <2>2. CASE v.tenant = t
    <3>1. RowsOf(v.tenant)' = (RowsOf(t) \ {s}) \cup {u}
      BY <1>3, <2>2
    <3> QED
      BY <1>5, <2>1, <2>2, <3>1
  <2>3. CASE v.tenant # t
    <3>1. RowsOf(v.tenant)' = RowsOf(v.tenant)
      BY <2>3 DEF RowsOf
    <3> QED
      BY <2>1, <3>1
  <2> QED
    BY <2>2, <2>3
<1>8. ASSUME NEW v \in subs', NEW w \in subs', v.tenant = w.tenant, v.id = w.id
      PROVE  v = w
  BY <1>8 DEF RowIds
<1> QED
  BY <1>7, <1>8 DEF RowIds

\* A transaction adds one row, or extends one that is there.
LEMMA OneRow ==
  ASSUME TInv, RowIds, NEW run \in Runs, run.at \in {"count", "commit"},
         run.row # 0 => \E s \in RowsOf(run.tenant) : s.id = run.row
  PROVE  \/ Subscribed(run) = subs \cup {Atomic!Extended(Atomic!NewRow(run.tenant), run)}
         \/ \E s \in RowsOf(run.tenant) :
              Subscribed(run) = (subs \ {s}) \cup {Atomic!Extended(s, run)}
<1> DEFINE new == [tenant |-> run.tenant, id |-> Cardinality(RowsOf(run.tenant)) + 1,
                   order |-> None, paid |-> None]
           old == {s \in RowsOf(run.tenant) : s.id = run.row}
           from == IF run.row = 0 THEN {new} ELSE old
<1>1. Subscribed(run) = (subs \ old) \cup {Atomic!Extended(s, run) : s \in from}
  BY DEF Subscribed, Atomic!Extended
<1>2. CASE run.row = 0
  <2>1. \A s \in RowsOf(run.tenant) : s.id # 0
    <3>1. \A s \in RowsOf(run.tenant) : s.id \in 1 .. Cardinality(RowsOf(s.tenant))
      BY DEF RowIds, RowsOf
    <3> QED
      BY <3>1
  <2>2. new = Atomic!NewRow(run.tenant)
    BY DEF Atomic!NewRow, Atomic!RowsOf, RowsOf, Atomic!Cardinality, Cardinality
  <2>3. from = {new}
    BY <1>2
  <2>4. old = {}
    BY <1>2, <2>1
  <2> HIDE DEF new, old, from
  <2> QED
    BY <1>1, <2>2, <2>3, <2>4
<1>3. CASE run.row # 0
  <2>1. PICK s \in RowsOf(run.tenant) : s.id = run.row
    BY <1>3
  <2>2. old = {s}
    BY <2>1 DEF RowIds, RowsOf
  <2>3. from = old
    BY <1>3
  <2> HIDE DEF new, old, from
  <2> QED
    BY <1>1, <2>2, <2>3
<1> QED
  BY <1>2, <1>3

\* What a commit or a grant makes of the subscriptions.
LEMMA Subscribing ==
  ASSUME RInv, NEW q \in Procs, Commit(q) \/ Grant(q)
  PROVE  /\ proc[q] \in Runs /\ proc[q].at \in {"count", "commit"} /\ Sound(proc[q])
         /\ proc[q].by \in Sources /\ proc[q].of \in Payments \cup {None}
         /\ proc[q].tenant \in Tenants
         /\ \/ subs' = subs \cup {Atomic!Extended(Atomic!NewRow(proc[q].tenant), proc[q])}
            \/ \E s \in RowsOf(proc[q].tenant) :
                 subs' = (subs \ {s}) \cup {Atomic!Extended(s, proc[q])}
<1>1. PICK run : run = proc[q]
  OBVIOUS
<1>2. run \in Runs /\ run.at \in {"count", "commit"} /\ Sound(run) /\ subs' = Subscribed(run)
  BY <1>1 DEF RInv, TInv, TypeOK, Commit, Grant, At
<1>3. run.by \in Sources /\ run.of \in Payments \cup {None} /\ run.tenant \in Tenants
  BY <1>2, Places DEF Idle
<1>4. run.row # 0 => \E s \in RowsOf(run.tenant) : s.id = run.row
  BY <1>2 DEF Sound
<1>5. \/ Subscribed(run) = subs \cup {Atomic!Extended(Atomic!NewRow(run.tenant), run)}
      \/ \E s \in RowsOf(run.tenant) :
           Subscribed(run) = (subs \ {s}) \cup {Atomic!Extended(s, run)}
  BY <1>2, <1>4, OneRow DEF RInv
<1> QED
  BY <1>1, <1>2, <1>3, <1>5

\* The rows keep their numbers through it, and none is lost.
LEMMA SubscribedRows ==
  ASSUME RInv, NEW q \in Procs, Commit(q) \/ Grant(q)
  PROVE  /\ RowIds'
         /\ \A s \in subs : \E u \in subs' : u.tenant = s.tenant /\ u.id = s.id
<1> DEFINE run == proc[q]
           new == Atomic!NewRow(run.tenant)
<1>1. /\ run.of \in Payments \cup {None} /\ run.tenant \in Tenants
      /\ \/ subs' = subs \cup {Atomic!Extended(Atomic!NewRow(run.tenant), run)}
         \/ \E s \in RowsOf(run.tenant) :
              subs' = (subs \ {s}) \cup {Atomic!Extended(s, run)}
  BY Subscribing
<1>2. TInv /\ RowIds
  BY DEF RInv
<1>3. CASE subs' = subs \cup {Atomic!Extended(new, run)}
  <2>1. /\ new \in Subscriptions /\ new.tenant = run.tenant
        /\ new.id = Cardinality(RowsOf(run.tenant)) + 1
    <3>1. new = [tenant |-> run.tenant, id |-> Cardinality(RowsOf(run.tenant)) + 1,
                 order |-> None, paid |-> None]
      BY DEF Atomic!NewRow, Atomic!RowsOf, RowsOf, Atomic!Cardinality, Cardinality
    <3>2. Cardinality(RowsOf(run.tenant)) + 1 \in Nat
      BY <1>2, RowsFinite
    <3> HIDE DEF new
    <3> QED
      BY <1>1, <3>1, <3>2 DEF Subscriptions
  <2> HIDE DEF new, run
  <2>2. PICK u : u = Atomic!Extended(new, run)
    OBVIOUS
  <2>3. /\ u \in Subscriptions /\ u.tenant = run.tenant
        /\ u.id = Cardinality(RowsOf(run.tenant)) + 1
    BY <1>1, <2>1, <2>2, ExtendedRow
  <2>4. subs' = subs \cup {u}
    BY <1>3, <2>2
  <2>5. RowIds'
    BY <1>2, <2>3, <2>4, RowAdded
  <2> QED
    BY <2>4, <2>5
<1>4. CASE \E s \in RowsOf(run.tenant) : subs' = (subs \ {s}) \cup {Atomic!Extended(s, run)}
  <2> HIDE DEF run
  <2>1. PICK s \in RowsOf(run.tenant) : subs' = (subs \ {s}) \cup {Atomic!Extended(s, run)}
    BY <1>4
  <2>2. s \in subs /\ s \in Subscriptions
    BY <1>2 DEF RowsOf, TInv, TypeOK
  <2>3. PICK u : u = Atomic!Extended(s, run)
    OBVIOUS
  <2>4. u \in Subscriptions /\ u.tenant = s.tenant /\ u.id = s.id
    BY <1>1, <2>2, <2>3, ExtendedRow
  <2>5. subs' = (subs \ {s}) \cup {u}
    BY <2>1, <2>3
  <2>6. RowIds'
    BY <1>2, <2>2, <2>4, <2>5, RowReplaced
  <2> QED
    BY <2>4, <2>5, <2>6
<1> QED
  BY <1>1, <1>3, <1>4

LEMMA SubscribedSound ==
  ASSUME RInv, TInv', NEW q \in Procs, Commit(q) \/ Grant(q)
  PROVE  RInv'
<1>1. PICK r : Become(q, r) /\ r.at \in {"idle", "report"}
  BY DEF Commit, Grant, Idle
<1>2. \A p \in Procs : proc'[p] = IF p = q THEN r ELSE proc[p]
  BY <1>1 DEF Become, RInv, TInv, TypeOK
<1>3. alive' = alive
  BY DEF Commit, Grant
<1>4. \A s \in subs : \E u \in subs' : u.tenant = s.tenant /\ u.id = s.id
  BY SubscribedRows
<1>5. ASSUME NEW p \in Procs
      PROVE  Sound(proc[p])'
  <2>1. CASE p = q
    BY <1>1, <1>2, <2>1 DEF Sound
  <2>2. CASE p # q
    <3>1. Sound(proc[p]) /\ proc'[p] = proc[p]
      BY <1>2, <2>2 DEF RInv
    <3>2. ASSUME NEW t, NEW n, \E s \in RowsOf(t) : s.id = n
          PROVE  \E s \in RowsOf(t)' : s.id = n
      BY <1>4, <3>2 DEF RowsOf
    <3> QED
      BY <1>3, <3>1, <3>2 DEF Sound, Orders
  <2> QED
    BY <2>1, <2>2
<1> QED
  BY <1>5, SubscribedRows DEF RInv

LEMMA DeleteSound ==
  ASSUME RInv, TInv', NEW t \in Tenants, DeleteTenant(t)
  PROVE  RInv'
<1>1. /\ alive' = alive \ {t} /\ subs' = subs \ RowsOf(t) /\ proc' = proc
      /\ \A r \in Procs : proc[r].at \in {"count", "insert", "commit"} => proc[r].tenant # t
  BY DEF DeleteTenant, InTransaction
<1>2. \A u : u # t => RowsOf(u)' = RowsOf(u)
  BY <1>1 DEF RowsOf
<1>3. RowIds'
  <2>1. ASSUME NEW s \in subs'
        PROVE  s.id \in 1 .. Cardinality(RowsOf(s.tenant))'
    <3>1. s \in subs /\ s.tenant # t
      BY <1>1, <2>1 DEF RowsOf
    <3>2. RowsOf(s.tenant)' = RowsOf(s.tenant)
      BY <1>2, <3>1
    <3> QED
      BY <3>1, <3>2 DEF RInv, RowIds
  <2> QED
    BY <1>1, <2>1 DEF RInv, RowIds
<1>4. ASSUME NEW p \in Procs
      PROVE  Sound(proc[p])'
  <2>1. Sound(proc[p])
    BY DEF RInv
  <2> QED
    BY <1>1, <1>2, <2>1 DEF Sound, Orders
<1> QED
  BY <1>3, <1>4 DEF RInv

LEMMA StepSound == RInv /\ [Next]_vars => RInv'
<1> SUFFICES ASSUME RInv, [Next]_vars PROVE RInv'
  OBVIOUS
<1>0. TInv /\ TInv' /\ TypeOK
  BY StepTypes DEF RInv, TInv
\* A step that leaves runs and rows alone.
<1>1. ASSUME UNCHANGED <<proc, subs, alive>>
      PROVE  RInv'
  <2>1. ASSUME NEW p \in Procs
        PROVE  Sound(proc[p])'
    <3>1. Sound(proc[p])
      BY DEF RInv
    <3> QED
      BY <1>1, <3>1 DEF Sound, RowsOf, Orders
  <2> QED
    BY <1>0, <1>1, <2>1, KeepRows DEF RInv
\* A step that makes r the run of q, which is in no transaction.
<1>2. ASSUME NEW q \in Procs, NEW r, Become(q, r), r.at \in {"idle", "check", "begin", "report"},
             r.at \in {"check", "begin"} => Orders(r), UNCHANGED <<subs, alive>>
      PROVE  RInv'
  BY <1>0, <1>2, MoveSound DEF Sound
<1>3. Idle.at = "idle"
  BY DEF Idle
<1>4. ASSUME NEW w \in Workers, Crash(w)
      PROVE  RInv'
  BY <1>2, <1>3, <1>4 DEF Crash, Procs
<1>5. ASSUME NEW w \in Workers, NEW e \in Events, Take(w, e)
      PROVE  RInv'
  <2> DEFINE r == [at |-> "check", by |-> e, of |-> PaymentOf[e], tenant |-> job[e].tenant]
  <2>1. Orders(r)
    BY BillingAssumption DEF Orders
  <2> QED
    BY <1>2, <1>5, <2>1 DEF Take, Procs
<1>6. ASSUME NEW c \in Clients, NEW p \in Payments, Verify(c, p)
      PROVE  RInv'
  <2> DEFINE r == [at |-> "begin", by |-> "verify", of |-> p, tenant |-> TenantOf[p]]
  <2>1. Orders(r)
    BY BillingAssumption DEF Orders
  <2> QED
    BY <1>2, <1>6, <2>1 DEF Verify, Procs
<1>7. ASSUME NEW c \in Clients, NEW t \in Tenants, SetByHand(c, t)
      PROVE  RInv'
  <2> DEFINE r == [at |-> "begin", by |-> "manual", of |-> None, tenant |-> t]
  <2>1. Orders(r)
    BY BillingAssumption DEF Orders
  <2> QED
    BY <1>2, <1>7, <2>1 DEF SetByHand, Procs
<1>8. ASSUME NEW q \in Procs, Progress(q)
      PROVE  RInv'
  <2>1. CASE Skip(q) \/ Mark(q)
    BY <1>2, <2>1 DEF Skip, Mark
  <2>2. CASE Report(q) \/ Rollback(q)
    BY <1>2, <1>3, <2>2 DEF Report, Rollback
  <2>3. CASE Check(q)
    <3>1. PICK r \in Runs : Become(q, r) /\ r.at = "begin" /\ r.by = proc[q].by
                            /\ r.of = proc[q].of
      BY <1>0, <2>3, Checked
    <3>2. proc[q].at = "check" /\ proc[q].by \in Events /\ Sound(proc[q])
      BY <1>0, <2>3, Places DEF Check, At, RInv, TypeOK
    <3>3. Orders(r)
      BY <3>1, <3>2, BillingAssumption DEF Sound, Orders
    <3> QED
      BY <1>2, <2>3, <3>1, <3>3 DEF Check
  <2> QED
    BY <1>0, <1>8, <2>1, <2>2, <2>3, BeginSound, CountSound, InsertSound, SubscribedSound
    DEF Progress
<1>9. ASSUME NEW t \in Tenants, DeleteTenant(t)
      PROVE  RInv'
  BY <1>0, <1>9, DeleteSound
<1>10. ASSUME NEW e \in Events, Receive(e) \/ Stall(e)
       PROVE  RInv'
  BY <1>1, <1>10 DEF Receive, Stall
<1>11. ASSUME NEW x \in intake, Enqueue(x) \/ Refuse(x)
       PROVE  RInv'
  BY <1>1, <1>11 DEF Enqueue, Refuse
<1>12. CASE UNCHANGED vars
  BY <1>1, <1>12 DEF vars
<1> QED
  BY <1>4, <1>5, <1>6, <1>7, <1>8, <1>9, <1>10, <1>11, <1>12 DEF Next

LEMMA InitSound == Init => RInv
<1> SUFFICES ASSUME Init PROVE RInv
  OBVIOUS
<1>1. TInv
  BY InitTypes
<1> QED
  BY <1>1 DEF Init, RInv, RowIds, Sound, Idle

KInv == OInv /\ NInv /\ PInv /\ RInv

LEMMA StepKept == "slow" \notin Faults /\ KInv /\ [Next]_vars => KInv'
  BY StepOwned, StepNumbered, StepNames, StepSound DEF KInv

\* The numbers a commit uses are no other's, and follow the counts.
LEMMA NewNumbers ==
  ASSUME KInv, NEW q \in Procs, Commit(q)
  PROVE  Atomic!Numbered(Sale(proc[q]))
<1>1. PICK x : x = Sale(proc[q])
  OBVIOUS
<1>2. /\ ~InvoiceTaken(proc[q]) /\ (proc[q].pay # 0 => ~PaymentTaken(proc[q]))
      /\ x.series = proc[q].series /\ x.inv = proc[q].inv /\ x.pay = proc[q].pay
      /\ x.of = proc[q].of
  BY <1>1, Sold DEF KInv, Sale
<1>3. x.pay = 0 <=> x.of = None
  BY <1>2 DEF KInv, RInv, Sound, Commit, At
<1>4. \A y \in sold : y.series = x.series => y.inv # x.inv /\ (y.pay = x.pay => x.pay = 0)
  BY <1>2 DEF InvoiceTaken, PaymentTaken, Paid
<1>5. ASSUME alive = Tenants
      PROVE  /\ x.inv <= Cardinality(sold) + 1
             /\ x.pay <= Cardinality(Paid(sold)) + 1
  <2>1. /\ proc[q].inv \in 1 .. Cardinality(sold) + 1
        /\ proc[q].pay \in 0 .. Cardinality(Paid(sold)) + 1
    BY <1>5 DEF KInv, NInv, Numbered, Commit, At
  <2>2. Cardinality(sold) \in Nat /\ Cardinality(Paid(sold)) \in Nat
    BY Counts DEF KInv, RInv
  <2> QED
    BY <1>2, <2>1, <2>2
<1>6. Atomic!Paid = Paid(sold)
  BY DEF Atomic!Paid, Paid
<1>7. Atomic!Numbered(x)
  BY <1>3, <1>4, <1>5, <1>6 DEF Atomic!Numbered, Atomic!Cardinality, Cardinality
<1> QED
  BY <1>1, <1>7

LEMMA MapsCommit ==
  ASSUME KInv, NEW q \in Procs, Commit(q)
  PROVE  Atomic!Next
<1> DEFINE run == proc[q]
           sale == Sale(run)
<1>1. /\ run \in Runs /\ run.by \in Sources /\ Sound(run)
      /\ \/ subs' = subs \cup {Atomic!Extended(Atomic!NewRow(run.tenant), run)}
         \/ \E s \in RowsOf(run.tenant) :
              subs' = (subs \ {s}) \cup {Atomic!Extended(s, run)}
  BY Subscribing DEF KInv
<1>2. /\ run.at = "commit"
      /\ sold' = sold \cup {sale} /\ sale \notin sold
      /\ done' = done \cup ({run.by} \cap Events)
      /\ alive' = alive
  BY Sold DEF Commit, At, KInv
<1>3. sale.tenant = run.tenant /\ sale.of = run.of /\ sale.by = run.by
  BY DEF Sale
<1>4. run.by \in Events => run.by \notin done
  BY <1>1, <1>2, Places DEF KInv, OInv, Owned
<1>5. run.by \in Named => run.tenant = TenantOf[PaymentOf[run.by]]
  BY <1>2 DEF KInv, PInv, RunNames, Payer
<1>6. Named \subseteq Events
  BY BillingAssumption
<1>7. Atomic!Numbered(sale)
  BY NewNumbers
<1> HIDE DEF sale, run
<1>8. Atomic!Due(sale)
  BY <1>1, <1>2, <1>3, <1>4, <1>5, <1>6 DEF Atomic!Due, Sound, Orders
<1>9. \A s : Atomic!Extended(s, sale) = Atomic!Extended(s, run)
  BY <1>3 DEF Atomic!Extended
<1>10. \/ subs' = subs \cup {Atomic!Extended(Atomic!NewRow(sale.tenant), sale)}
       \/ \E s \in Atomic!RowsOf(sale.tenant) :
            subs' = (subs \ {s}) \cup {Atomic!Extended(s, sale)}
  BY <1>1, <1>3, <1>9 DEF Atomic!RowsOf, RowsOf
<1>11. Atomic!Sell(sale)
  BY <1>2, <1>3, <1>7, <1>8, <1>10 DEF Atomic!Sell
<1>12. sale \in sold' \ sold
  BY <1>2
<1> QED
  BY <1>11, <1>12 DEF Atomic!Next

\* A grant adds a row, or leaves the one there is as it was.
LEMMA MapsGrant ==
  ASSUME KInv, NEW q \in Procs, Grant(q)
  PROVE  Atomic!Next \/ UNCHANGED Atomic!vars
<1> DEFINE run == proc[q]
<1>1. /\ run.at = "count" /\ run.by = "manual" /\ Sound(run) /\ run.tenant \in Tenants
      /\ UNCHANGED <<done, sold, alive>>
      /\ \/ subs' = subs \cup {Atomic!Extended(Atomic!NewRow(run.tenant), run)}
         \/ \E s \in RowsOf(run.tenant) :
              subs' = (subs \ {s}) \cup {Atomic!Extended(s, run)}
  BY Subscribing DEF KInv, Grant, At
<1>2. run.tenant \in alive
  BY <1>1 DEF Sound
<1> HIDE DEF run
<1>3. \A s : s \in Subscriptions \/ s = Atomic!NewRow(run.tenant) => Atomic!Extended(s, run) = s
  BY <1>1, BillingAssumption DEF Atomic!Extended, Atomic!NewRow, Subscriptions
<1>4. CASE subs' = subs \cup {Atomic!Extended(Atomic!NewRow(run.tenant), run)}
  <2>1. subs' = subs \cup {Atomic!NewRow(run.tenant)}
    BY <1>3, <1>4
  <2>2. Atomic!Grant(run.tenant)
    BY <1>1, <1>2, <2>1 DEF Atomic!Grant
  <2> QED
    BY <1>1, <2>2 DEF Atomic!Next
<1>5. ASSUME NEW s \in RowsOf(run.tenant), subs' = (subs \ {s}) \cup {Atomic!Extended(s, run)}
      PROVE  UNCHANGED Atomic!vars
  <2>1. s \in subs /\ s \in Subscriptions
    BY DEF RowsOf, KInv, RInv, TInv, TypeOK
  <2>2. subs' = subs
    BY <1>3, <1>5, <2>1
  <2> QED
    BY <1>1, <2>2 DEF Atomic!vars
<1> QED
  BY <1>1, <1>4, <1>5

LEMMA MapsMark ==
  ASSUME KInv, NEW w \in Workers, Mark(w)
  PROVE  Atomic!Next
<1> DEFINE e == proc[w].by
<1>1. /\ proc[w] \in Runs /\ proc[w].at = "begin" /\ e \in Events /\ w \in Procs
      /\ proc[w].tenant \notin alive /\ done' = done \cup {e} /\ UNCHANGED <<sold, subs, alive>>
  BY DEF Mark, At, KInv, RInv, TInv, TypeOK, Procs
<1>2. e \notin done
  BY <1>1, Places DEF KInv, OInv, Owned
<1>3. e \in Named => TenantOf[PaymentOf[e]] \notin alive
  BY <1>1 DEF KInv, PInv, RunNames, Payer
<1>4. Atomic!Ignore(e)
  BY <1>1, <1>2, <1>3 DEF Atomic!Ignore
<1> QED
  BY <1>1, <1>4 DEF Atomic!Next

LEMMA MapsStep ==
  ASSUME KInv, [Next]_vars
  PROVE  [Atomic!Next]_(Atomic!vars)
<1>1. ASSUME UNCHANGED <<done, sold, subs, alive>>
      PROVE  UNCHANGED Atomic!vars
  BY <1>1 DEF Atomic!vars
<1>2. CASE UNCHANGED vars
  BY <1>1, <1>2 DEF vars
<1>3. ASSUME NEW q \in Procs, Progress(q)
      PROVE  [Atomic!Next]_(Atomic!vars)
  <2>1. CASE Skip(q) \/ Check(q) \/ Report(q) \/ Begin(q) \/ Count(q) \/ Insert(q) \/ Rollback(q)
    BY <1>1, <2>1 DEF Skip, Check, Report, Begin, Count, Insert, Rollback
  <2>2. CASE q \in Workers /\ Mark(q)
    BY <2>2, MapsMark
  <2>3. CASE Commit(q) \/ Grant(q)
    BY <2>3, MapsCommit, MapsGrant
  <2> QED
    BY <1>3, <2>1, <2>2, <2>3 DEF Progress
<1>4. ASSUME NEW t \in Tenants, DeleteTenant(t)
      PROVE  Atomic!Next
  <2>1. Atomic!Delete(t)
    BY <1>4 DEF DeleteTenant, Atomic!Delete, Atomic!RowsOf, RowsOf
  <2> QED
    BY <2>1 DEF Atomic!Next
<1>5. ASSUME NEW e \in Events, Receive(e) \/ Stall(e)
      PROVE  UNCHANGED Atomic!vars
  BY <1>1, <1>5 DEF Receive, Stall
<1>6. ASSUME NEW x \in intake, Enqueue(x) \/ Refuse(x)
      PROVE  UNCHANGED Atomic!vars
  BY <1>1, <1>6 DEF Enqueue, Refuse
<1>7. ASSUME NEW w \in Workers, Crash(w) \/ \E e \in Events : Take(w, e)
      PROVE  UNCHANGED Atomic!vars
  BY <1>1, <1>7 DEF Crash, Take
<1>8. ASSUME NEW c \in Clients,
             (\E p \in Payments : Verify(c, p)) \/ (\E t \in Tenants : SetByHand(c, t))
      PROVE  UNCHANGED Atomic!vars
  BY <1>1, <1>8 DEF Verify, SetByHand
<1> QED
  BY <1>2, <1>3, <1>4, <1>5, <1>6, <1>7, <1>8 DEF Next

\* Billing implements Activation if no worker goes on with a job whose lock it lost:
\* what many steps of webhook, queue, worker, browser and super admin do to events, invoices and
\* subscriptions is a sequence of whole sales, one for an event, of grants, of
\* ignored events and of deletions (Implements).
THEOREM BillingImplementsActivation ==
  ASSUME "slow" \notin Faults
  PROVE  Spec => Implements
<1>1. Init => KInv
  BY InitOwned, InitNumbered, InitNames, InitSound DEF KInv
<1>2. KInv /\ [Next]_vars => KInv'
  BY StepKept
<1>3. Init => Atomic!Init
  BY DEF Init, Atomic!Init
<1>4. KInv /\ [Next]_vars => [Atomic!Next]_(Atomic!vars)
  BY MapsStep
<1> QED
  BY <1>1, <1>2, <1>3, <1>4, PTL DEF Spec, Implements, Atomic!Spec
=============================================================================
