---------------------------- MODULE AuditArchive ----------------------------
(***************************************************************************)
(* The outbox that copies sealed audit records to the write-once object    *)
(* store (src/api/src/common/audit/archive).                               *)
(*                                                                         *)
(* log() adds an entry in the transaction of the record.  A worker is a    *)
(* process in which somebody calls processPendingOutbox: it reads a batch  *)
(* of due entries once and then, entry by entry, looks for the object,     *)
(* stores it and writes the outcome, all from what the batch said.         *)
(* Nothing claims an entry, so the workers may hold the same one.  The API *)
(* itself never makes the call, so that nothing is said of when an entry   *)
(* is handled: only of what happens to it when somebody does.              *)
(*                                                                         *)
(* The store is external: versions of an object are counted by the worker  *)
(* that stored them.  nextAttemptAt is kept as whether it has passed.      *)
(***************************************************************************)
EXTENDS Integers, FiniteSets

CONSTANTS
  Logs,        \* the sealed audit records
  Workers,     \* the processes that call processPendingOutbox
  Limit,       \* Limit[w]: AUDIT_ARCHIVE_MAX_ATTEMPTS where w runs
  BatchSize    \* entries a call takes

ASSUME ArchiveAssumption ==
  /\ Limit \in [Workers -> Nat \ {0}]
  /\ BatchSize \in Nat \ {0}

VARIABLES
  entry,     \* entry[l]: the AuditArchiveOutbox row of record l
  due,       \* the records whose nextAttemptAt has passed
  stored,    \* stored[l][w]: versions of the object of l that w stored
  failures,  \* failures[l]: how often an attempt at l was written off (history)
  worker,    \* worker[w]: the call w is in
  up         \* whether the store answers

vars == <<entry, due, stored, failures, worker, up>>

Entries == [status : {"none", "PENDING", "ARCHIVED", "FAILED"}, attempts : Nat]

\* An entry as the batch read it.
Items == [log : Logs, attempts : Nat]

Idle == [step |-> "idle"]

WorkerStates ==
  {Idle} \cup [step : {"next"}, todo : SUBSET Items]
         \cup [step : {"put", "mark", "fail"}, todo : SUBSET Items, item : Items]

Exists(l) == \E w \in Workers : stored[l][w] > 0

Init ==
  /\ entry = [l \in Logs |-> [status |-> "none", attempts |-> 0]]
  /\ due = {}
  /\ stored = [l \in Logs |-> [w \in Workers |-> 0]]
  /\ failures = [l \in Logs |-> 0]
  /\ worker = [w \in Workers |-> Idle]
  /\ up = TRUE

Become(w, state) == worker' = [worker EXCEPT ![w] = state]

At(w, step) == worker[w].step = step

Goto(w, step) == Become(w, [worker[w] EXCEPT !.step = step])

\* mutant: the entry just handled is not let go
ProceedHolding(w) == Goto(w, "next")

\* On to the next entry of the batch, or out of the call.
Proceed(w) ==
  Become(w, IF worker[w].todo = {} THEN Idle
            ELSE [step |-> "next", todo |-> worker[w].todo])

-----------------------------------------------------------------------------
\* AuditLoggerService.log, the part that concerns the outbox.
Log(l) ==
  /\ entry[l].status = "none"
  /\ entry' = [entry EXCEPT ![l].status = "PENDING"]
  /\ due' = due \cup {l}
  /\ UNCHANGED <<stored, failures, worker, up>>

-----------------------------------------------------------------------------
\* processPendingOutbox

Pending == {l \in due : entry[l].status = "PENDING"}

Smaller(m, n) == IF m < n THEN m ELSE n

Fetch(w) ==
  /\ worker[w] = Idle
  /\ Pending # {}
  /\ \E L \in SUBSET Pending :
       /\ Cardinality(L) = Smaller(BatchSize, Cardinality(Pending))
       /\ Become(w, [step |-> "next",
                     todo |-> {[log |-> l, attempts |-> entry[l].attempts] : l \in L}])
  /\ UNCHANGED <<entry, due, stored, failures, up>>

Take(w, item, step) ==
  /\ At(w, "next")
  /\ item \in worker[w].todo
  /\ item.attempts < Limit[w]
  /\ Become(w, [step |-> step, todo |-> worker[w].todo \ {item}, item |-> item])
  /\ UNCHANGED <<entry, due, stored, failures, up>>

\* More attempts than this worker's limit were made under another one.
GiveUp(w, item) ==
  /\ At(w, "next")
  /\ item \in worker[w].todo
  /\ item.attempts >= Limit[w]
  /\ entry' = [entry EXCEPT ![item.log].status = "FAILED"]
  /\ Become(w, IF worker[w].todo = {item} THEN Idle
               ELSE [step |-> "next", todo |-> worker[w].todo \ {item}])
  /\ UNCHANGED <<due, stored, failures, up>>

\* mutant: the object is stored without looking for it
HeadBlind(w, item) == up /\ Take(w, item, "put")

\* provider.headObject
Head(w, item) ==
  \/ up /\ Exists(item.log) /\ Take(w, item, "mark")
  \/ up /\ ~Exists(item.log) /\ Take(w, item, "put")
  \/ ~up /\ Take(w, item, "fail")

\* provider.putObject: the object is stored, though the answer may be lost.
Put(w) ==
  /\ At(w, "put")
  /\ up
  /\ stored' = [stored EXCEPT ![worker[w].item.log][w] = @ + 1]
  /\ Goto(w, "mark") \/ Goto(w, "fail")
  /\ UNCHANGED <<entry, due, failures, up>>

PutFails(w) ==
  /\ At(w, "put")
  /\ ~up
  /\ Goto(w, "fail")
  /\ UNCHANGED <<entry, due, stored, failures, up>>

\* mutant: an attempt whose answer was lost counts as archived
MarkAny(w) ==
  /\ At(w, "mark") \/ At(w, "fail")
  /\ entry' = [entry EXCEPT ![worker[w].item.log].status = "ARCHIVED"]
  /\ Proceed(w)
  /\ UNCHANGED <<due, stored, failures, up>>

Mark(w) ==
  /\ At(w, "mark")
  /\ entry' = [entry EXCEPT ![worker[w].item.log].status = "ARCHIVED"]
  /\ Proceed(w)
  /\ UNCHANGED <<due, stored, failures, up>>

\* The outcome could not be written; the catch block takes over.
MarkFails(w) ==
  /\ At(w, "mark")
  /\ Goto(w, "fail")
  /\ UNCHANGED <<entry, due, stored, failures, up>>

\* mutant: the last attempt is given away
AttemptShort(w, item) ==
  [status |-> IF item.attempts + 2 >= Limit[w] THEN "FAILED" ELSE "PENDING",
   attempts |-> item.attempts + 1]

\* What a failed attempt writes, counted from what the batch said.
Attempt(w, item) ==
  [status |-> IF item.attempts + 1 >= Limit[w] THEN "FAILED" ELSE "PENDING",
   attempts |-> item.attempts + 1]

WriteOff(w) ==
  /\ At(w, "fail")
  /\ entry' = [entry EXCEPT ![worker[w].item.log] = Attempt(w, worker[w].item)]
  /\ due' = due \ {worker[w].item.log}
  /\ failures' = [failures EXCEPT ![worker[w].item.log] = @ + 1]
  /\ Proceed(w)
  /\ UNCHANGED <<stored, up>>

\* The process ends, or the outcome cannot be written: the rest of the batch
\* is dropped with it.
Crash(w) ==
  /\ worker[w] # Idle
  /\ Become(w, Idle)
  /\ UNCHANGED <<entry, due, stored, failures, up>>

-----------------------------------------------------------------------------
\* The backoff of an entry passes.
Elapse(l) ==
  /\ entry[l].status = "PENDING"
  /\ l \notin due
  /\ due' = due \cup {l}
  /\ UNCHANGED <<entry, stored, failures, worker, up>>

Outage ==
  /\ up
  /\ up' = FALSE
  /\ UNCHANGED <<entry, due, stored, failures, worker>>

Restore ==
  /\ ~up
  /\ up' = TRUE
  /\ UNCHANGED <<entry, due, stored, failures, worker>>

Todo(w) == IF At(w, "next") THEN worker[w].todo ELSE {}

Next ==
  \/ \E l \in Logs : Log(l) \/ Elapse(l)
  \/ \E w \in Workers :
       \/ Fetch(w) \/ Put(w) \/ PutFails(w) \/ Mark(w) \/ MarkFails(w)
       \/ WriteOff(w) \/ Crash(w)
       \/ \E item \in Todo(w) : Head(w, item) \/ GiveUp(w, item)
  \/ Outage
  \/ Restore

Spec == Init /\ [][Next]_vars

-----------------------------------------------------------------------------
\* The rows, the objects and what each worker holds have their types.
TypeOK ==
  /\ entry \in [Logs -> Entries]
  /\ due \subseteq Logs
  /\ stored \in [Logs -> [Workers -> Nat]]
  /\ failures \in [Logs -> Nat]
  /\ worker \in [Workers -> WorkerStates]
  /\ up \in BOOLEAN

\* An entry says ARCHIVED only if the object is in the store, whatever crashes,
\* lost answers and other workers did in between.
ArchivedIsStored == \A l \in Logs : entry[l].status = "ARCHIVED" => Exists(l)

\* No worker stores an object twice, although it retries after lost answers and
\* crashes: it looks for the object first.  (Two workers may store one each.)
StoredOncePerWorker == \A l \in Logs, w \in Workers : stored[l][w] <= 1

\* A record is given up only after as many attempts as some worker's limit have
\* been written off, although attempts are counted from stale batches.
GivenUpAfterLimit ==
  \A l \in Logs : entry[l].status = "FAILED" => \E w \in Workers : failures[l] >= Limit[w]

Archive == INSTANCE WriteOnceArchive WITH status <- [l \in Logs |-> entry[l].status]

\* The outbox and its workers implement WriteOnceArchive: whatever crashes, however stale
\* the batches are, no record is forgotten or stored again by who has stored it, and what
\* it is called is so.
Implements == Archive!Spec
=============================================================================
