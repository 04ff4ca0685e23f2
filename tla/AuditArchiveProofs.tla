------------------------- MODULE AuditArchiveProofs -------------------------
(***************************************************************************)
(* What holds of the outbox for any number of workers and records, with    *)
(* any limits.  The invariant says what a worker knows in the middle of an *)
(* entry: about to store, it has not stored this object before; about to   *)
(* mark, the object exists; and no batch credits an entry with more        *)
(* attempts than were written off.  From it follows that the outbox        *)
(* implements WriteOnceArchive.  What a single worker guarantees beyond    *)
(* that is at the end.                                                     *)
(***************************************************************************)
EXTENDS AuditArchive, TLAPS

\* Exists(l) when st is what is stored.
InStore(l, st) == \E w \in Workers : st[l][w] > 0

Busy(w) == worker[w].step \in {"put", "mark", "fail"}

\* The items w has in hand or still to do.
Held(w) == Todo(w) \cup (IF Busy(w) THEN worker[w].todo \cup {worker[w].item} ELSE {})

Knows ==
  \A w \in Workers :
    /\ At(w, "put") => stored[worker[w].item.log][w] = 0
    /\ At(w, "mark") => InStore(worker[w].item.log, stored)

Counted ==
  /\ \A l \in Logs : entry[l].attempts <= failures[l]
  /\ \A w \in Workers : \A item \in Held(w) : item.attempts <= failures[item.log]

Inv == TypeOK /\ Knows /\ ArchivedIsStored /\ StoredOncePerWorker

-----------------------------------------------------------------------------
LEMMA States ==
  ASSUME NEW s \in WorkerStates
  PROVE  /\ s = Idle <=> s.step = "idle"
         /\ s.step \in {"idle", "next", "put", "mark", "fail"}
         /\ s.step = "next" => s \in [step : {"next"}, todo : SUBSET Items]
         /\ s.step \in {"put", "mark", "fail"} =>
              s \in [step : {"put", "mark", "fail"}, todo : SUBSET Items, item : Items]
  BY DEF WorkerStates, Idle

\* What the steps that end an entry leave the worker in.
LEMMA Proceeds ==
  ASSUME TypeOK, NEW w \in Workers, Busy(w), Proceed(w)
  PROVE  /\ worker' \in [Workers -> WorkerStates]
         /\ \A v \in Workers \ {w} : worker'[v] = worker[v]
         /\ worker'[w] = Idle \/ worker'[w] = [step |-> "next", todo |-> worker[w].todo]
<1>1. worker[w].todo \in SUBSET Items
  BY States DEF TypeOK, Busy
<1> QED
  BY <1>1 DEF TypeOK, Proceed, Become, WorkerStates

\* What the steps within an entry leave the worker in.
LEMMA Goes ==
  ASSUME TypeOK, NEW w \in Workers, Busy(w), NEW s \in {"put", "mark", "fail"}, Goto(w, s)
  PROVE  /\ worker' \in [Workers -> WorkerStates]
         /\ \A v \in Workers \ {w} : worker'[v] = worker[v]
         /\ worker'[w] = [step |-> s, todo |-> worker[w].todo, item |-> worker[w].item]
<1>1. worker[w] \in [step : {"put", "mark", "fail"}, todo : SUBSET Items, item : Items]
  BY States DEF TypeOK, Busy
<1>2. [worker[w] EXCEPT !.step = s] =
        [step |-> s, todo |-> worker[w].todo, item |-> worker[w].item]
  BY <1>1
<1> QED
  BY <1>1, <1>2 DEF TypeOK, Goto, Become, WorkerStates

\* What taking an entry of the batch up does.
Taken(w, item, s) ==
  /\ worker' \in [Workers -> WorkerStates]
  /\ \A v \in Workers \ {w} : worker'[v] = worker[v]
  /\ item \in Items /\ item \in Todo(w) /\ At(w, "next")
  /\ worker'[w] = [step |-> s, todo |-> worker[w].todo \ {item}, item |-> item]
  /\ UNCHANGED <<entry, due, stored, failures, up>>

LEMMA Takes ==
  ASSUME TypeOK, NEW w \in Workers, NEW item, NEW s \in {"put", "mark", "fail"},
         Take(w, item, s)
  PROVE  Taken(w, item, s)
<1>1. worker[w].todo \in SUBSET Items
  BY States DEF TypeOK, Take, At
<1> QED
  BY <1>1 DEF TypeOK, Take, At, Become, WorkerStates, Todo, Taken

\* What a call starts with.
LEMMA Fetches ==
  ASSUME TypeOK, NEW w \in Workers, Fetch(w)
  PROVE  \E T \in SUBSET Items :
           /\ worker' = [worker EXCEPT ![w] = [step |-> "next", todo |-> T]]
           /\ \A item \in T : /\ item.attempts = entry[item.log].attempts
                            /\ entry[item.log].status = "PENDING"
           /\ UNCHANGED <<entry, due, stored, failures, up>>
<1>1. PICK L \in SUBSET Pending :
        Become(w, [step |-> "next",
                   todo |-> {[log |-> l, attempts |-> entry[l].attempts] : l \in L}])
  BY DEF Fetch
<1> DEFINE T == {[log |-> l, attempts |-> entry[l].attempts] : l \in L}
<1>2. L \subseteq Logs
  BY DEF Pending, TypeOK
<1>3. T \in SUBSET Items
  BY <1>2 DEF Items, TypeOK, Entries
<1>4. \A item \in T : item.attempts = entry[item.log].attempts /\ entry[item.log].status = "PENDING"
  BY DEF Pending
<1>5. worker' = [worker EXCEPT ![w] = [step |-> "next", todo |-> T]]
  BY <1>1 DEF Become
<1>6. UNCHANGED <<entry, due, stored, failures, up>>
  BY DEF Fetch
<1> QED
  BY <1>3, <1>4, <1>5, <1>6

\* What giving up leaves the worker in.
LEMMA GivesUp ==
  ASSUME TypeOK, NEW w \in Workers, NEW item \in Todo(w), GiveUp(w, item)
  PROVE  /\ worker' \in [Workers -> WorkerStates]
         /\ \A v \in Workers \ {w} : worker'[v] = worker[v]
         /\ worker'[w] = Idle \/ worker'[w] = [step |-> "next", todo |-> worker[w].todo \ {item}]
         /\ item \in Items /\ item.attempts >= Limit[w]
         /\ entry' = [entry EXCEPT ![item.log].status = "FAILED"]
         /\ UNCHANGED <<due, stored, failures, up>>
<1>1. worker[w].todo \in SUBSET Items
  BY States DEF TypeOK, GiveUp, At
<1> QED
  BY <1>1 DEF TypeOK, GiveUp, At, Become, WorkerStates, Todo

\* The item a busy worker has in hand.
LEMMA InHand ==
  ASSUME TypeOK, NEW w \in Workers, Busy(w)
  PROVE  worker[w].item \in Items /\ worker[w].item.log \in Logs
                                  /\ worker[w].item.attempts \in Nat
  BY States DEF TypeOK, Busy, Items

-----------------------------------------------------------------------------
\* Types are kept by every step of the outbox.
LEMMA TInvStep ==
  ASSUME TypeOK, [Next]_vars
  PROVE  TypeOK'
<1> USE ArchiveAssumption
<1>0. CASE UNCHANGED vars
  BY <1>0 DEF vars, TypeOK
<1>1. ASSUME NEW l \in Logs, Log(l) \/ Elapse(l)
      PROVE  TypeOK'
  <2>1. CASE Elapse(l)
    BY <2>1 DEF TypeOK, Elapse
  <2>2. CASE Log(l)
    BY <2>2 DEF TypeOK, Log, Entries
  <2> QED
    BY <1>1, <2>1, <2>2
<1>2. ASSUME NEW w \in Workers, Fetch(w)
      PROVE  TypeOK'
  <2>1. PICK T \in SUBSET Items :
           /\ worker' = [worker EXCEPT ![w] = [step |-> "next", todo |-> T]]
           /\ UNCHANGED <<entry, due, stored, failures, up>>
    BY <1>2, Fetches
  <2>2. [step |-> "next", todo |-> T] \in WorkerStates
    BY DEF WorkerStates
  <2> QED
    BY <2>1, <2>2 DEF TypeOK
<1>3. ASSUME NEW w \in Workers, Put(w)
      PROVE  TypeOK'
  <2>1. Busy(w)
    BY <1>3 DEF Put, At, Busy
  <2>2. worker' \in [Workers -> WorkerStates]
    BY <1>3, <2>1, Goes DEF Put
  <2>3. stored' \in [Logs -> [Workers -> Nat]]
    BY <1>3, <2>1, InHand DEF Put, TypeOK
  <2> QED
    BY <1>3, <2>2, <2>3 DEF Put, TypeOK
<1>4. ASSUME NEW w \in Workers, PutFails(w) \/ MarkFails(w)
      PROVE  TypeOK'
  <2>1. worker' \in [Workers -> WorkerStates]
    BY <1>4, Goes DEF PutFails, MarkFails, At, Busy
  <2> QED
    BY <1>4, <2>1 DEF PutFails, MarkFails, TypeOK
<1>5. ASSUME NEW w \in Workers, Mark(w)
      PROVE  TypeOK'
  <2>1. worker' \in [Workers -> WorkerStates]
    BY <1>5, Proceeds DEF Mark, At, Busy
  <2>2. entry' \in [Logs -> Entries]
    BY <1>5, InHand DEF Mark, At, Busy, TypeOK, Entries
  <2> QED
    BY <1>5, <2>1, <2>2 DEF Mark, TypeOK
<1>6. ASSUME NEW w \in Workers, WriteOff(w)
      PROVE  TypeOK'
  <2>0. Busy(w)
    BY <1>6 DEF WriteOff, At, Busy
  <2>1. worker' \in [Workers -> WorkerStates]
    BY <1>6, <2>0, Proceeds DEF WriteOff
  <2>2. Attempt(w, worker[w].item) \in Entries
    BY <2>0, InHand DEF Attempt, Entries
  <2>3. entry' \in [Logs -> Entries] /\ failures' \in [Logs -> Nat]
    BY <1>6, <2>0, <2>2, InHand DEF WriteOff, TypeOK
  <2> QED
    BY <1>6, <2>1, <2>3 DEF WriteOff, TypeOK
<1>7. ASSUME NEW w \in Workers, Crash(w)
      PROVE  TypeOK'
  BY <1>7 DEF Crash, TypeOK, Become, WorkerStates
<1>8. ASSUME NEW w \in Workers, NEW item \in Todo(w), Head(w, item)
      PROVE  TypeOK'
  <2>1. PICK s \in {"put", "mark", "fail"} : Take(w, item, s)
    BY <1>8 DEF Head
  <2>2. Taken(w, item, s)
    BY <2>1, Takes
  <2> QED
    BY <2>2 DEF TypeOK, Taken
<1>9. ASSUME NEW w \in Workers, NEW item \in Todo(w), GiveUp(w, item)
      PROVE  TypeOK'
  <2>1. /\ worker' \in [Workers -> WorkerStates]
        /\ item \in Items
        /\ entry' = [entry EXCEPT ![item.log].status = "FAILED"]
        /\ UNCHANGED <<due, stored, failures, up>>
    BY <1>9, GivesUp
  <2>2. item.log \in Logs
    BY <2>1 DEF Items
  <2>3. entry' \in [Logs -> Entries]
    BY <2>1, <2>2 DEF TypeOK, Entries
  <2> QED
    BY <2>1, <2>3 DEF TypeOK
<1>10. CASE Outage \/ Restore
  BY <1>10 DEF Outage, Restore, TypeOK
<1> QED
  BY <1>0, <1>1, <1>2, <1>3, <1>4, <1>5, <1>6, <1>7, <1>8, <1>9, <1>10 DEF Next

-----------------------------------------------------------------------------
\* Steps that neither store nor lead to storing or marking.
LEMMA QuietStep ==
  ASSUME Inv, stored' = stored,
         \A v \in Workers : worker'[v] = worker[v] \/ worker'[v].step \in {"idle", "next", "fail"},
         \A l \in Logs : entry'[l].status = "ARCHIVED" =>
                          entry[l].status = "ARCHIVED" \/ InStore(l, stored)
  PROVE  Knows' /\ ArchivedIsStored' /\ StoredOncePerWorker'
<1>1. ArchivedIsStored'
  BY DEF Inv, ArchivedIsStored, Exists, InStore
<1>2. StoredOncePerWorker'
  BY DEF Inv, StoredOncePerWorker
<1>3. Knows'
  BY DEF Inv, Knows, At
<1> QED
  BY <1>1, <1>2, <1>3

\* What workers know stays true whatever the others do.
LEMMA KnowsStep ==
  ASSUME Inv, [Next]_vars
  PROVE  Knows' /\ ArchivedIsStored' /\ StoredOncePerWorker'
<1> USE ArchiveAssumption
<1>t. TypeOK
  BY DEF Inv
<1>0. CASE UNCHANGED vars
  BY <1>0, QuietStep DEF vars
<1>1. ASSUME NEW l \in Logs, Log(l) \/ Elapse(l)
      PROVE  Knows' /\ ArchivedIsStored' /\ StoredOncePerWorker'
  <2>1. \A m \in Logs : entry'[m].status = "ARCHIVED" => entry[m].status = "ARCHIVED"
    BY <1>1, <1>t DEF Log, Elapse, TypeOK, Entries
  <2> QED
    BY <1>1, <2>1, QuietStep DEF Log, Elapse
<1>2. ASSUME NEW w \in Workers, Fetch(w) \/ Crash(w)
      PROVE  Knows' /\ ArchivedIsStored' /\ StoredOncePerWorker'
  <2>1. CASE Crash(w)
    BY <1>t, <2>1, QuietStep DEF Crash, Become, Idle, TypeOK
  <2>2. CASE Fetch(w)
    <3>1. PICK T \in SUBSET Items :
             /\ worker' = [worker EXCEPT ![w] = [step |-> "next", todo |-> T]]
             /\ UNCHANGED <<entry, due, stored, failures, up>>
      BY <1>t, <2>2, Fetches
    <3> QED
      BY <1>t, <3>1, QuietStep DEF TypeOK
  <2> QED
    BY <1>2, <2>1, <2>2
<1>3. ASSUME NEW w \in Workers, PutFails(w) \/ MarkFails(w)
      PROVE  Knows' /\ ArchivedIsStored' /\ StoredOncePerWorker'
  <2>1. Busy(w) /\ Goto(w, "fail")
    BY <1>3 DEF PutFails, MarkFails, At, Busy
  <2>2. /\ \A v \in Workers \ {w} : worker'[v] = worker[v]
        /\ worker'[w] = [step |-> "fail", todo |-> worker[w].todo, item |-> worker[w].item]
    BY <1>t, <2>1, Goes
  <2> QED
    BY <1>3, <2>2, QuietStep DEF PutFails, MarkFails
<1>4. ASSUME NEW w \in Workers, Mark(w) \/ WriteOff(w)
      PROVE  Knows' /\ ArchivedIsStored' /\ StoredOncePerWorker'
  <2>1. Busy(w) /\ Proceed(w) /\ stored' = stored
    BY <1>4 DEF Mark, WriteOff, At, Busy
  <2>2. /\ \A v \in Workers \ {w} : worker'[v] = worker[v]
        /\ worker'[w] = Idle \/ worker'[w] = [step |-> "next", todo |-> worker[w].todo]
    BY <1>t, <2>1, Proceeds
  <2>3. \A v \in Workers : worker'[v] = worker[v] \/ worker'[v].step \in {"idle", "next"}
    BY <2>2 DEF Idle
  <2>4. worker[w].item.log \in Logs
    BY <1>t, <2>1, InHand
  <2>5. ASSUME NEW l \in Logs, entry'[l].status = "ARCHIVED"
        PROVE  entry[l].status = "ARCHIVED" \/ InStore(l, stored)
    <3>1. CASE Mark(w)
      <4>1. CASE l = worker[w].item.log
        BY <3>1, <4>1 DEF Mark, Inv, Knows
      <4>2. CASE l # worker[w].item.log
        BY <1>t, <2>4, <2>5, <3>1, <4>2 DEF Mark, TypeOK
      <4> QED
        BY <4>1, <4>2
    <3>2. CASE WriteOff(w)
      <4>1. Attempt(w, worker[w].item).status # "ARCHIVED"
        BY DEF Attempt
      <4> QED
        BY <1>t, <2>4, <2>5, <3>2, <4>1 DEF WriteOff, TypeOK
    <3> QED
      BY <1>4, <3>1, <3>2
  <2> QED
    BY <2>1, <2>3, <2>5, QuietStep
<1>5. ASSUME NEW w \in Workers, NEW item \in Todo(w), GiveUp(w, item)
      PROVE  Knows' /\ ArchivedIsStored' /\ StoredOncePerWorker'
  <2>1. /\ \A v \in Workers \ {w} : worker'[v] = worker[v]
        /\ worker'[w] = Idle \/ worker'[w] = [step |-> "next", todo |-> worker[w].todo \ {item}]
        /\ item \in Items
        /\ entry' = [entry EXCEPT ![item.log].status = "FAILED"]
        /\ UNCHANGED <<due, stored, failures, up>>
    BY <1>t, <1>5, GivesUp
  <2>2. \A v \in Workers : worker'[v] = worker[v] \/ worker'[v].step \in {"idle", "next"}
    BY <2>1 DEF Idle
  <2>3. \A l \in Logs : entry'[l].status = "ARCHIVED" => entry[l].status = "ARCHIVED"
    BY <1>t, <2>1 DEF TypeOK, Entries, Items
  <2> QED
    BY <2>1, <2>2, <2>3, QuietStep
<1>6. ASSUME NEW w \in Workers, NEW item \in Todo(w), Head(w, item)
      PROVE  Knows' /\ ArchivedIsStored' /\ StoredOncePerWorker'
  <2>1. PICK s \in {"put", "mark", "fail"} :
           /\ Take(w, item, s)
           /\ s = "put" => ~InStore(item.log, stored)
           /\ s = "mark" => InStore(item.log, stored)
    BY <1>6 DEF Head, Exists, InStore
  <2>2. Taken(w, item, s)
    BY <1>t, <2>1, Takes
  <2>3. s = "put" => stored[item.log][w] = 0
    BY <1>t, <2>1, <2>2 DEF InStore, TypeOK, Items, Taken
  <2>4. Knows'
    BY <2>1, <2>2, <2>3 DEF Inv, Knows, At, Taken
  <2> QED
    BY <2>2, <2>4 DEF Taken, Inv, ArchivedIsStored, StoredOncePerWorker, Exists
<1>7. ASSUME NEW w \in Workers, Put(w)
      PROVE  Knows' /\ ArchivedIsStored' /\ StoredOncePerWorker'
  <2>0. Busy(w)
    BY <1>7 DEF Put, At, Busy
  <2>1. PICK l \in Logs : l = worker[w].item.log
    BY <1>t, <2>0, InHand
  <2>2. stored[l][w] = 0 /\ stored' = [stored EXCEPT ![l][w] = @ + 1]
    BY <1>7, <2>1 DEF Put, Inv, Knows
  <2>3. \A m \in Logs, v \in Workers :
          stored'[m][v] = IF m = l /\ v = w THEN 1 ELSE stored[m][v]
    BY <1>t, <2>1, <2>2 DEF TypeOK
  <2>4. PICK s \in {"mark", "fail"} : Goto(w, s)
    BY <1>7 DEF Put
  <2>5. /\ \A v \in Workers \ {w} : worker'[v] = worker[v]
        /\ worker'[w] = [step |-> s, todo |-> worker[w].todo, item |-> worker[w].item]
    BY <1>t, <2>0, <2>4, Goes
  <2>6. \A m \in Logs : InStore(m, stored) => InStore(m, stored')
    BY <2>3 DEF InStore
  <2>7. InStore(l, stored')
    BY <2>3 DEF InStore
  <2>8. ASSUME NEW v \in Workers
        PROVE  /\ At(v, "put")' => stored'[worker'[v].item.log][v] = 0
               /\ At(v, "mark")' => InStore(worker'[v].item.log, stored')
    <3>1. CASE v = w
      BY <2>1, <2>5, <2>7, <3>1 DEF At
    <3>2. CASE v # w
      <4>1. At(v, "put") \/ At(v, "mark") => worker[v].item.log \in Logs
        BY <1>t, InHand DEF At, Busy
      <4> QED
        BY <2>3, <2>5, <2>6, <3>2, <4>1 DEF At, Inv, Knows
    <3> QED
      BY <3>1, <3>2
  <2>9. entry' = entry
    BY <1>7 DEF Put
  <2>10. Knows'
    BY <2>8 DEF Knows
  <2>11. ArchivedIsStored'
    BY <2>6, <2>9 DEF Inv, ArchivedIsStored, Exists, InStore
  <2>12. StoredOncePerWorker'
    BY <2>3 DEF Inv, StoredOncePerWorker
  <2> QED
    BY <2>10, <2>11, <2>12
<1>8. CASE Outage \/ Restore
  BY <1>8, QuietStep DEF Outage, Restore
<1> QED
  BY <1>0, <1>1, <1>2, <1>3, <1>4, <1>5, <1>6, <1>7, <1>8 DEF Next

-----------------------------------------------------------------------------
\* Steps that write no attempt and put nothing new into a worker's hands.
LEMMA CountKept ==
  ASSUME TypeOK, Counted, GivenUpAfterLimit, failures' = failures,
         \A l \in Logs : entry'[l].attempts = entry[l].attempts,
         \A l \in Logs : entry'[l].status = "FAILED" =>
           entry[l].status = "FAILED" \/ \E w \in Workers : failures[l] >= Limit[w],
         \A w \in Workers : \A item \in Held(w)' :
           item \in Held(w) \/ item.attempts <= failures[item.log]
  PROVE  Counted' /\ GivenUpAfterLimit'
<1>1. GivenUpAfterLimit'
  BY DEF GivenUpAfterLimit
<1>2. Counted'
  BY DEF Counted
<1> QED
  BY <1>1, <1>2

\* What a worker holds has its type.
LEMMA HeldItems ==
  ASSUME TypeOK, NEW w \in Workers
  PROVE  Held(w) \subseteq Items
<1>1. CASE At(w, "next")
  BY <1>1, States DEF TypeOK, Held, Todo, At, Busy
<1>2. CASE Busy(w)
  BY <1>2, States DEF TypeOK, Held, Todo, At, Busy
<1>3. CASE ~At(w, "next") /\ ~Busy(w)
  BY <1>3 DEF Held, Todo
<1> QED
  BY <1>1, <1>2, <1>3

\* No count runs ahead of the attempts that were written off.
LEMMA CountedStep ==
  ASSUME TypeOK, Counted, GivenUpAfterLimit, [Next]_vars
  PROVE  Counted' /\ GivenUpAfterLimit'
<1>0. CASE UNCHANGED vars
  BY <1>0, CountKept DEF vars, Held, Todo, Busy, At
<1>1. ASSUME NEW l \in Logs, Log(l) \/ Elapse(l)
      PROVE  Counted' /\ GivenUpAfterLimit'
  <2>1. /\ failures' = failures /\ worker' = worker
        /\ \A m \in Logs : /\ entry'[m].attempts = entry[m].attempts
                           /\ entry'[m].status = "FAILED" => entry[m].status = "FAILED"
    <3>1. CASE Elapse(l)
      BY <3>1 DEF Elapse
    <3>2. CASE Log(l)
      BY <3>2 DEF Log, TypeOK, Entries
    <3> QED
      BY <1>1, <3>1, <3>2
  <2> QED
    BY <2>1, CountKept DEF Held, Todo, Busy, At
<1>2. ASSUME NEW w \in Workers, Fetch(w)
      PROVE  Counted' /\ GivenUpAfterLimit'
  <2>1. PICK T \in SUBSET Items :
           /\ worker' = [worker EXCEPT ![w] = [step |-> "next", todo |-> T]]
           /\ \A item \in T : item.attempts = entry[item.log].attempts
           /\ UNCHANGED <<entry, due, stored, failures, up>>
    BY <1>2, Fetches
  <2>2. \A item \in T : item.attempts <= failures[item.log]
    BY <2>1 DEF Counted, Items
  <2>3. Held(w)' = T
    BY <2>1 DEF TypeOK, Held, Todo, Busy, At
  <2>4. \A v \in Workers \ {w} : Held(v)' = Held(v)
    BY <2>1 DEF TypeOK, Held, Todo, Busy, At
  <2> QED
    BY <2>1, <2>2, <2>3, <2>4, CountKept
<1>3. ASSUME NEW w \in Workers, Put(w) \/ PutFails(w) \/ MarkFails(w)
      PROVE  Counted' /\ GivenUpAfterLimit'
  <2>1. Busy(w) /\ UNCHANGED <<entry, failures>>
    BY <1>3 DEF Put, PutFails, MarkFails, At, Busy
  <2>2. PICK s \in {"mark", "fail"} : Goto(w, s)
    BY <1>3 DEF Put, PutFails, MarkFails
  <2>3. /\ \A v \in Workers \ {w} : worker'[v] = worker[v]
        /\ worker'[w] = [step |-> s, todo |-> worker[w].todo, item |-> worker[w].item]
    BY <2>1, <2>2, Goes
  <2>4. \A v \in Workers : Held(v)' = Held(v)
    BY <2>1, <2>3 DEF Held, Todo, Busy, At
  <2> QED
    BY <2>1, <2>4, CountKept
<1>4. ASSUME NEW w \in Workers, Mark(w)
      PROVE  Counted' /\ GivenUpAfterLimit'
  <2>1. Busy(w) /\ Proceed(w) /\ failures' = failures
    BY <1>4 DEF Mark, At, Busy
  <2>2. /\ \A v \in Workers \ {w} : worker'[v] = worker[v]
        /\ worker'[w] = Idle \/ worker'[w] = [step |-> "next", todo |-> worker[w].todo]
    BY <2>1, Proceeds
  <2>3. \A v \in Workers : Held(v)' \subseteq Held(v)
    BY <2>1, <2>2 DEF Held, Todo, Busy, At, Idle
  <2>4. \A l \in Logs : /\ entry'[l].attempts = entry[l].attempts
                        /\ entry'[l].status = "FAILED" => entry[l].status = "FAILED"
    BY <1>4, <2>1, InHand DEF Mark, TypeOK, Entries
  <2> QED
    BY <2>1, <2>3, <2>4, CountKept
<1>5. ASSUME NEW w \in Workers, WriteOff(w)
      PROVE  Counted' /\ GivenUpAfterLimit'
  <2>1. Busy(w) /\ Proceed(w)
    BY <1>5 DEF WriteOff, At, Busy
  <2>2. PICK item \in Items : item = worker[w].item
    BY <2>1, InHand
  <2>3. item.log \in Logs /\ item.attempts \in Nat /\ item.attempts <= failures[item.log]
    BY <2>1, <2>2 DEF Items, Counted, Held
  <2>4. \A l \in Logs : /\ failures'[l] = IF l = item.log THEN failures[l] + 1 ELSE failures[l]
                        /\ entry'[l] = IF l = item.log THEN Attempt(w, item) ELSE entry[l]
    BY <1>5, <2>2, <2>3 DEF WriteOff, TypeOK
  <2>5. \A l \in Logs : failures[l] \in Nat /\ failures[l] <= failures'[l]
    BY <2>4 DEF TypeOK
  <2>6. /\ \A v \in Workers \ {w} : worker'[v] = worker[v]
        /\ worker'[w] = Idle \/ worker'[w] = [step |-> "next", todo |-> worker[w].todo]
    BY <2>1, Proceeds
  <2>7. \A v \in Workers : Held(v)' \subseteq Held(v)
    BY <2>1, <2>6 DEF Held, Todo, Busy, At, Idle
  <2>8. Attempt(w, item).attempts = item.attempts + 1
        /\ (Attempt(w, item).status = "FAILED" => item.attempts + 1 >= Limit[w])
    BY DEF Attempt
  <2>9. \A l \in Logs : entry'[l].attempts <= failures'[l]
    <3>1. ASSUME NEW l \in Logs
          PROVE  entry'[l].attempts <= failures'[l]
      <4>1. CASE l = item.log
        BY <2>3, <2>4, <2>5, <2>8, <4>1
      <4>2. CASE l # item.log
        BY <2>4, <4>2 DEF Counted
      <4> QED
        BY <4>1, <4>2
    <3> QED
      BY <3>1
  <2>10. ASSUME NEW v \in Workers, NEW x \in Held(v)'
         PROVE  x.attempts <= failures'[x.log]
    <3>1. x \in Held(v) /\ x.log \in Logs /\ x.attempts \in Nat
      BY <2>7, HeldItems DEF Items
    <3>2. x.attempts <= failures[x.log]
      BY <3>1 DEF Counted
    <3> QED
      BY <2>4, <2>5, <3>1, <3>2
  <2>11. ASSUME NEW l \in Logs, entry'[l].status = "FAILED"
         PROVE  \E v \in Workers : failures'[l] >= Limit[v]
    <3>1. CASE l = item.log
      <4>1. item.attempts + 1 >= Limit[w]
        BY <2>4, <2>8, <2>11, <3>1
      <4>2. failures'[l] = failures[l] + 1 /\ failures[l] >= item.attempts /\ failures[l] \in Nat
        BY <2>3, <2>4, <2>5, <3>1
      <4>3. Limit[w] \in Nat
        BY ArchiveAssumption
      <4> QED
        BY <2>3, <4>1, <4>2, <4>3
    <3>2. CASE l # item.log
      BY <2>4, <2>11, <3>2 DEF GivenUpAfterLimit
    <3> QED
      BY <3>1, <3>2
  <2> QED
    BY <2>9, <2>10, <2>11 DEF Counted, GivenUpAfterLimit
<1>6. ASSUME NEW w \in Workers, Crash(w)
      PROVE  Counted' /\ GivenUpAfterLimit'
  <2>1. \A v \in Workers : Held(v)' \subseteq Held(v)
    BY <1>6 DEF Crash, Become, TypeOK, Held, Todo, Busy, At, Idle
  <2> QED
    BY <1>6, <2>1, CountKept DEF Crash
<1>7. ASSUME NEW w \in Workers, NEW item \in Todo(w), Head(w, item)
      PROVE  Counted' /\ GivenUpAfterLimit'
  <2>1. PICK s \in {"put", "mark", "fail"} : Take(w, item, s)
    BY <1>7 DEF Head
  <2>2. Taken(w, item, s)
    BY <2>1, Takes
  <2>3. \A v \in Workers : Held(v)' \subseteq Held(v)
    BY <2>2 DEF Held, Todo, Busy, At, Taken
  <2> QED
    BY <2>2, <2>3, CountKept DEF Taken
<1>8. ASSUME NEW w \in Workers, NEW item \in Todo(w), GiveUp(w, item)
      PROVE  Counted' /\ GivenUpAfterLimit'
  <2>1. /\ \A v \in Workers \ {w} : worker'[v] = worker[v]
        /\ worker'[w] = Idle \/ worker'[w] = [step |-> "next", todo |-> worker[w].todo \ {item}]
        /\ item \in Items /\ item.attempts >= Limit[w]
        /\ entry' = [entry EXCEPT ![item.log].status = "FAILED"]
        /\ UNCHANGED <<due, stored, failures, up>>
    BY <1>8, GivesUp
  <2>2. \A v \in Workers : Held(v)' \subseteq Held(v)
    BY <2>1 DEF Held, Todo, Busy, At, Idle
  <2>3. item.log \in Logs /\ item.attempts \in Nat /\ item.attempts <= failures[item.log]
    BY <2>1 DEF Items, Counted, Held
  <2>4. failures[item.log] >= Limit[w]
    <3>1. failures[item.log] \in Nat /\ Limit[w] \in Nat
      BY <2>3, ArchiveAssumption DEF TypeOK
    <3> QED
      BY <2>1, <2>3, <3>1
  <2>5. \A l \in Logs : /\ entry'[l].attempts = entry[l].attempts
                        /\ l # item.log => entry'[l] = entry[l]
    BY <2>1, <2>3 DEF TypeOK, Entries
  <2> QED
    BY <2>1, <2>2, <2>4, <2>5, CountKept
<1>9. CASE Outage \/ Restore
  BY <1>9, CountKept DEF Outage, Restore, Held, Todo, Busy, At
<1> QED
  BY <1>0, <1>1, <1>2, <1>3, <1>4, <1>5, <1>6, <1>7, <1>8, <1>9 DEF Next

-----------------------------------------------------------------------------
LEMMA InitAll == Init => Inv /\ Counted /\ GivenUpAfterLimit
<1> SUFFICES ASSUME Init PROVE Inv /\ Counted /\ GivenUpAfterLimit
  OBVIOUS
<1>1. TypeOK
  BY DEF Init, TypeOK, Entries, WorkerStates
<1>2. \A w \in Workers : Held(w) = {}
  BY DEF Init, Held, Todo, Busy, At, Idle
<1> QED
  BY <1>1, <1>2 DEF Init, Inv, Knows, At, Idle, ArchivedIsStored, StoredOncePerWorker,
                    Counted, GivenUpAfterLimit

\* Any number of workers with any limits keep the outbox well formed.
THEOREM ArchiveTypeCorrect == Spec => []TypeOK
BY InitAll, TInvStep, PTL DEF Inv, Spec

LEMMA InvAlways == Spec => []Inv
<1>1. Inv /\ [Next]_vars => Inv'
  BY TInvStep, KnowsStep DEF Inv
<1> QED
  BY InitAll, <1>1, PTL DEF Spec

\* An ARCHIVED entry always has its object in the store: ARCHIVED is written
\* only after an answer of putObject or headObject, and objects stay.
THEOREM ArchivedMeansStored == Spec => []ArchivedIsStored
BY InvAlways, PTL DEF Inv

\* However often a worker crashes, times out and retries, it stores an object
\* at most once, because headObject comes first.
THEOREM NoWorkerStoresTwice == Spec => []StoredOncePerWorker
BY InvAlways, PTL DEF Inv

\* FAILED is written only to a record with as many attempts written off as some
\* worker's limit, although attempts is set from stale batches.
THEOREM NothingGivenUpEarly == Spec => []GivenUpAfterLimit
<1>1. Counted /\ GivenUpAfterLimit /\ TypeOK /\ [Next]_vars => (Counted /\ GivenUpAfterLimit)'
  BY CountedStep
<1> QED
  BY InitAll, ArchiveTypeCorrect, <1>1, PTL DEF Spec

-----------------------------------------------------------------------------
\* The outbox implements WriteOnceArchive

\* What workers hold has been entered.
Recorded == \A w \in Workers : \A item \in Held(w) : entry[item.log].status # "none"

\* A worker gets something into its hands by reading a batch, and nothing else does.
LEMMA HeldMoves ==
  ASSUME TypeOK, [Next]_vars, NEW w \in Workers, NEW item \in Held(w)'
  PROVE  \/ item \in Held(w)
         \/ /\ item \in Items
            /\ entry[item.log].status = "PENDING" /\ item.attempts = entry[item.log].attempts
<1>1. CASE worker'[w] = worker[w]
  BY <1>1 DEF Held, Todo, Busy, At
<1>2. CASE Fetch(w)
  <2>1. PICK T \in SUBSET Items :
           /\ worker' = [worker EXCEPT ![w] = [step |-> "next", todo |-> T]]
           /\ \A x \in T : x.attempts = entry[x.log].attempts /\ entry[x.log].status = "PENDING"
    BY <1>2, Fetches
  <2>2. Held(w)' = T
    BY <2>1 DEF TypeOK, Held, Todo, Busy, At
  <2> QED
    BY <2>1, <2>2
<1>3. CASE Put(w) \/ PutFails(w) \/ MarkFails(w)
  <2>1. Busy(w) /\ \E s \in {"put", "mark", "fail"} : Goto(w, s)
    BY <1>3 DEF Put, PutFails, MarkFails, At, Busy
  <2>2. PICK s \in {"put", "mark", "fail"} :
          worker'[w] = [step |-> s, todo |-> worker[w].todo, item |-> worker[w].item]
    BY <2>1, Goes
  <2> QED
    BY <2>1, <2>2 DEF Held, Todo, Busy, At
<1>4. CASE Mark(w) \/ WriteOff(w)
  <2>1. Busy(w) /\ Proceed(w)
    BY <1>4 DEF Mark, WriteOff, At, Busy
  <2>2. worker'[w] = Idle \/ worker'[w] = [step |-> "next", todo |-> worker[w].todo]
    BY <2>1, Proceeds
  <2> QED
    BY <2>1, <2>2 DEF Held, Todo, Busy, At, Idle
<1>5. CASE Crash(w)
  BY <1>5 DEF Crash, Become, TypeOK, Held, Todo, Busy, At, Idle
<1>6. ASSUME NEW x \in Todo(w), Head(w, x)
      PROVE  item \in Held(w)
  <2>1. PICK s \in {"put", "mark", "fail"} : Take(w, x, s)
    BY <1>6 DEF Head
  <2>2. Taken(w, x, s)
    BY <2>1, Takes
  <2> QED
    BY <2>2 DEF Held, Todo, Busy, At, Taken
<1>7. ASSUME NEW x \in Todo(w), GiveUp(w, x)
      PROVE  item \in Held(w)
  <2>1. worker'[w] = Idle \/ worker'[w] = [step |-> "next", todo |-> worker[w].todo \ {x}]
    BY <1>7, GivesUp
  <2>2. At(w, "next")
    BY <1>7 DEF GiveUp
  <2> QED
    BY <2>1, <2>2 DEF Held, Todo, Busy, At, Idle
<1>8. ASSUME NEW v \in Workers, NEW r, Become(v, r), v # w
      PROVE  worker'[w] = worker[w]
  BY <1>8 DEF Become, TypeOK
<1>9. ASSUME NEW v \in Workers, v # w,
             \/ Fetch(v) \/ Put(v) \/ PutFails(v) \/ Mark(v) \/ MarkFails(v) \/ WriteOff(v)
             \/ Crash(v) \/ \E x \in Todo(v) : Head(v, x) \/ GiveUp(v, x)
      PROVE  worker'[w] = worker[w]
  BY <1>8, <1>9 DEF Fetch, Put, PutFails, Mark, MarkFails, WriteOff, Crash, Head, Take, GiveUp,
                    Goto, Proceed
<1>10. \/ worker' = worker
       \/ \E v \in Workers :
            \/ Fetch(v) \/ Put(v) \/ PutFails(v) \/ Mark(v) \/ MarkFails(v) \/ WriteOff(v)
            \/ Crash(v) \/ \E x \in Todo(v) : Head(v, x) \/ GiveUp(v, x)
  BY DEF Next, Log, Elapse, Outage, Restore, vars
<1> QED
  BY <1>1, <1>2, <1>3, <1>4, <1>5, <1>6, <1>7, <1>9, <1>10

\* Who changes an entry: its record's logging, or a worker that holds it.
LEMMA EntryMoves ==
  ASSUME TypeOK, [Next]_vars, NEW l \in Logs, entry'[l] # entry[l]
  PROVE  \/ Log(l) /\ entry[l].status = "none" /\ entry'[l].status = "PENDING"
            /\ entry'[l].attempts = entry[l].attempts
         \/ \E w \in Workers : \E item \in Held(w) :
              /\ item.log = l
              /\ \/ /\ item \in Todo(w) /\ GiveUp(w, item)
                    /\ entry'[l].status = "FAILED"
                 \/ /\ Busy(w) /\ item = worker[w].item
                    /\ \/ /\ Mark(w)
                          /\ entry'[l].status = "ARCHIVED"
                          /\ entry'[l].attempts = entry[l].attempts
                       \/ WriteOff(w) /\ entry'[l] = Attempt(w, item)
<1>1. ASSUME NEW m \in Logs, Log(m)
      PROVE  /\ m = l /\ entry[l].status = "none" /\ entry'[l].status = "PENDING"
             /\ entry'[l].attempts = entry[l].attempts
  BY <1>1 DEF Log, TypeOK, Entries
<1>2. ASSUME NEW w \in Workers, NEW item \in Todo(w), GiveUp(w, item)
      PROVE  item \in Held(w) /\ item.log = l /\ entry'[l].status = "FAILED"
  <2>1. item \in Items /\ entry' = [entry EXCEPT ![item.log].status = "FAILED"]
    BY <1>2, GivesUp
  <2> QED
    BY <2>1 DEF Held, TypeOK, Entries, Items
<1>3. ASSUME NEW w \in Workers, Mark(w) \/ WriteOff(w)
      PROVE  \E item \in Held(w) :
               /\ item.log = l /\ Busy(w) /\ item = worker[w].item
               /\ \/ /\ Mark(w)
                     /\ entry'[l].status = "ARCHIVED"
                     /\ entry'[l].attempts = entry[l].attempts
                  \/ WriteOff(w) /\ entry'[l] = Attempt(w, item)
  <2>1. Busy(w)
    BY <1>3 DEF Mark, WriteOff, At, Busy
  <2>2. PICK item \in Items : item = worker[w].item
    BY <2>1, InHand
  <2>3. item \in Held(w) /\ item.log \in Logs
    BY <2>1, <2>2 DEF Held, Items
  <2>4. CASE Mark(w)
    BY <2>1, <2>2, <2>3, <2>4 DEF Mark, TypeOK, Entries
  <2>5. CASE WriteOff(w)
    BY <2>1, <2>2, <2>3, <2>5 DEF WriteOff, TypeOK
  <2> QED
    BY <1>3, <2>4, <2>5
<1>4. \/ entry' = entry
      \/ \E m \in Logs : Log(m)
      \/ \E w \in Workers : \/ Mark(w) \/ WriteOff(w)
                            \/ \E item \in Todo(w) : GiveUp(w, item)
  BY DEF Next, Elapse, Fetch, Put, PutFails, MarkFails, Crash, Head, Take, Outage, Restore, vars
<1> QED
  BY <1>1, <1>2, <1>3, <1>4

LEMMA RecordedStep ==
  ASSUME TypeOK, Recorded, [Next]_vars
  PROVE  Recorded'
<1>1. ASSUME NEW l \in Logs, entry[l].status # "none"
      PROVE  entry'[l].status # "none"
  <2>1. \A w, item : Attempt(w, item).status # "none"
    BY DEF Attempt
  <2>2. CASE entry'[l] = entry[l]
    BY <1>1, <2>2
  <2>3. CASE entry'[l] # entry[l]
    BY <1>1, <2>1, <2>3, EntryMoves
  <2> QED
    BY <2>2, <2>3
<1>2. ASSUME NEW w \in Workers, NEW item \in Held(w)'
      PROVE  entry'[item.log].status # "none"
  <2>1. item.log \in Logs
    BY <1>2, HeldMoves, HeldItems DEF Items
  <2> QED
    BY <1>1, <1>2, <2>1, HeldMoves DEF Recorded
<1> QED
  BY <1>2 DEF Recorded

MapInv == Inv /\ Counted /\ GivenUpAfterLimit /\ Recorded

LEMMA MapInvariant == Spec => []MapInv
<1>1. Init => Recorded
  BY DEF Init, Recorded, Held, Todo, Busy, At, Idle
<1>2. MapInv /\ [Next]_vars => MapInv'
  BY TInvStep, KnowsStep, CountedStep, RecordedStep DEF MapInv, Inv
<1> QED
  BY <1>1, <1>2, InitAll, PTL DEF Spec, MapInv

\* The entry of one record is called something else.
LEMMA MapsCall ==
  ASSUME TypeOK, TypeOK', NEW l \in Logs, NEW s, entry'[l].status = s,
         \A m \in Logs : m # l => entry'[m] = entry[m]
  PROVE  Archive!Call(l, s)
BY DEF Archive!Call, TypeOK

\* What a worker holds has been entered, and its attempts have failed.
LEMMA HeldIs ==
  ASSUME MapInv, NEW w \in Workers, NEW item \in Held(w)
  PROVE  /\ item.log \in Logs /\ Archive!Entered(item.log)
         /\ item.attempts \in Nat /\ failures[item.log] \in Nat
         /\ item.attempts <= failures[item.log]
<1>1. item.log \in Logs /\ item.attempts \in Nat
  BY HeldItems DEF Items, MapInv, Inv
<1>2. entry[item.log].status # "none" /\ item.attempts <= failures[item.log]
  BY DEF MapInv, Recorded, Counted
<1>3. failures[item.log] \in Nat
  BY <1>1 DEF MapInv, Inv, TypeOK
<1> QED
  BY <1>1, <1>2, <1>3 DEF Archive!Entered

LEMMA MapsStep ==
  ASSUME MapInv, [Next]_vars
  PROVE  [Archive!Next]_(Archive!vars)
<1>1. TypeOK /\ TypeOK'
  BY TInvStep DEF MapInv, Inv
<1>2. ASSUME NEW l \in Logs, Log(l)
      PROVE  Archive!Next
  <2>1. entry'[l].status = "PENDING" /\ \A m \in Logs : m # l => entry'[m] = entry[m]
    BY <1>1, <1>2 DEF Log, TypeOK, Entries
  <2>2. Archive!Call(l, "PENDING")
    BY <1>1, <2>1, MapsCall
  <2>3. ~Archive!Entered(l)
    BY <1>2 DEF Log, Archive!Entered
  <2> QED
    BY <1>2, <2>2, <2>3 DEF Log, Archive!Next, Archive!Enter
<1>3. ASSUME NEW w \in Workers, Put(w)
      PROVE  Archive!Next
  <2>1. Busy(w)
    BY <1>3 DEF Put, At, Busy
  <2>2. PICK item \in Items : item = worker[w].item
    BY <1>1, <2>1, InHand
  <2>3. item.log \in Logs /\ item \in Held(w)
    BY <2>1, <2>2 DEF Items, Held
  <2>6. stored[item.log][w] = 0
    BY <1>3, <2>2 DEF Put, MapInv, Inv, Knows
  <2>7. stored' = [stored EXCEPT ![item.log][w] = stored[item.log][w] + 1]
    BY <1>1, <1>3, <2>2, <2>3 DEF Put, TypeOK
  <2>4. stored[item.log][w] = 0 /\ stored' = [stored EXCEPT ![item.log][w] = 1]
    BY <2>6, <2>7
  <2>5. Archive!Entered(item.log)
    BY <2>3, HeldIs
  <2> QED
    BY <1>3, <2>3, <2>4, <2>5 DEF Put, Archive!Next, Archive!Put
<1>4. ASSUME NEW w \in Workers, Mark(w) \/ WriteOff(w)
      PROVE  Archive!Next
  <2>1. Busy(w) /\ stored' = stored
    BY <1>4 DEF Mark, WriteOff, At, Busy
  <2>2. PICK item \in Items : item = worker[w].item
    BY <1>1, <2>1, InHand
  <2>3. item.log \in Logs /\ item \in Held(w) /\ \A m \in Logs : m # item.log => entry'[m] = entry[m]
    BY <1>1, <1>4, <2>1, <2>2 DEF Mark, WriteOff, Held, Items, TypeOK
  <2>4. /\ Archive!Entered(item.log) /\ item.attempts <= failures[item.log]
        /\ item.attempts \in Nat /\ failures[item.log] \in Nat
    BY <2>3, HeldIs
  <2>5. CASE Mark(w)
    <3>1. entry'[item.log].status = "ARCHIVED"
      BY <1>1, <2>2, <2>3, <2>5 DEF Mark, TypeOK, Entries
    <3>2. \E v \in Workers : stored[item.log][v] > 0
      BY <2>2, <2>5 DEF Mark, MapInv, Inv, Knows, InStore
    <3>3. Archive!Call(item.log, "ARCHIVED")
      BY <1>1, <2>3, <3>1, MapsCall
    <3>4. Archive!Archive(item.log)
      BY <2>1, <2>4, <2>5, <3>2, <3>3 DEF Mark, Archive!Archive
    <3> QED
      BY <2>3, <3>4 DEF Archive!Next
  <2>6. CASE WriteOff(w)
    <3>1. entry'[item.log] = Attempt(w, item) /\ failures' = [failures EXCEPT ![item.log] = @ + 1]
      BY <1>1, <2>2, <2>3, <2>6 DEF WriteOff, TypeOK
    <3>2. Limit[w] \in Nat
      BY ArchiveAssumption
    <3>3. \/ entry'[item.log].status = "PENDING"
          \/ entry'[item.log].status = "FAILED" /\ failures[item.log] + 1 >= Limit[w]
      BY <2>4, <3>1, <3>2 DEF Attempt
    <3>4. \/ Archive!Call(item.log, "PENDING")
          \/ failures[item.log] + 1 >= Limit[w] /\ Archive!Call(item.log, "FAILED")
      BY <1>1, <2>3, <3>3, MapsCall
    <3>5. Archive!Fail(item.log)
      BY <2>1, <2>4, <3>1, <3>4 DEF Archive!Fail, Archive!Enough
    <3> QED
      BY <2>3, <3>5 DEF Archive!Next
  <2> QED
    BY <1>4, <2>5, <2>6
<1>5. ASSUME NEW w \in Workers, NEW item \in Todo(w), GiveUp(w, item)
      PROVE  Archive!Next
  <2>1. /\ item \in Items /\ item \in Held(w) /\ item.attempts >= Limit[w]
        /\ entry' = [entry EXCEPT ![item.log].status = "FAILED"]
        /\ UNCHANGED <<stored, failures>>
    BY <1>1, <1>5, GivesUp DEF Held
  <2>2. entry'[item.log].status = "FAILED" /\ \A m \in Logs : m # item.log => entry'[m] = entry[m]
    BY <1>1, <2>1 DEF TypeOK, Entries, Items
  <2>3. /\ item.log \in Logs /\ Archive!Entered(item.log) /\ item.attempts <= failures[item.log]
        /\ item.attempts \in Nat /\ failures[item.log] \in Nat
        /\ Archive!Call(item.log, "FAILED")
    BY <1>1, <2>1, <2>2, HeldIs, MapsCall
  <2>4. Limit[w] \in Nat
    BY ArchiveAssumption
  <2>5. failures[item.log] >= Limit[w]
    BY <2>1, <2>3, <2>4
  <2> QED
    BY <2>1, <2>3, <2>5 DEF Archive!Next, Archive!GiveUp, Archive!Enough
<1>6. ASSUME entry' = entry, stored' = stored, failures' = failures
      PROVE  UNCHANGED Archive!vars
  BY <1>6 DEF Archive!vars
<1>7. \/ entry' = entry /\ stored' = stored /\ failures' = failures
      \/ \E l \in Logs : Log(l)
      \/ \E w \in Workers : \/ Put(w) \/ Mark(w) \/ WriteOff(w)
                            \/ \E item \in Todo(w) : GiveUp(w, item)
  BY DEF Next, Elapse, Fetch, PutFails, MarkFails, Crash, Head, Take, Outage, Restore, vars
<1> QED
  BY <1>2, <1>3, <1>4, <1>5, <1>6, <1>7

\* For any workers with any limits, whatever crashes and however stale their batches are:
\* the outbox implements WriteOnceArchive.
THEOREM OutboxImplementsArchive == Spec => Implements
<1>1. Init => Archive!Init
  BY DEF Init, Archive!Init
<1>2. MapInv /\ [Next]_vars => [Archive!Next]_(Archive!vars)
  BY MapsStep
<1> QED
  BY <1>1, <1>2, MapInvariant, PTL DEF Spec, Implements, Archive!Spec

-----------------------------------------------------------------------------
\* One worker alone

Settled(l) == entry[l].status \in {"ARCHIVED", "FAILED"}

\* The attempts of an entry are those that failed, and it is FAILED after the last.
Exact(w) ==
  \A l \in Logs :
    /\ entry[l].attempts = failures[l]
    /\ failures[l] <= Limit[w]
    /\ entry[l].status = "FAILED" <=> failures[l] = Limit[w]

\* What a worker holds is as the batch said, with an attempt left, and it holds it once.
Fresh(w) ==
  /\ \A item \in Held(w) :
       entry[item.log].status = "PENDING" /\ entry[item.log].attempts = item.attempts
  /\ Busy(w) => worker[w].item \notin worker[w].todo

AloneInv(w) == TypeOK /\ Exact(w) /\ Fresh(w)

\* With an entry that is held comes an attempt that is left.
LEMMA HeldAlone ==
  ASSUME NEW w \in Workers, AloneInv(w), NEW item \in Held(w)
  PROVE  /\ item \in Items /\ item.log \in Logs /\ item.attempts \in Nat
         /\ item.attempts = failures[item.log] /\ item.attempts < Limit[w]
         /\ entry[item.log].status = "PENDING"
<1>1. item \in Items /\ item.log \in Logs /\ item.attempts \in Nat
  BY HeldItems DEF Items, AloneInv
<1>2. item.attempts = failures[item.log] /\ entry[item.log].status = "PENDING"
  BY <1>1 DEF AloneInv, Exact, Fresh
<1>3. failures[item.log] <= Limit[w] /\ failures[item.log] # Limit[w]
  BY <1>1, <1>2 DEF AloneInv, Exact
<1>4. Limit[w] \in Nat
  BY ArchiveAssumption
<1> QED
  BY <1>1, <1>2, <1>3, <1>4

\* What a worker alone does to entries: it marks what it holds, or counts a failure of it.
LEMMA AloneMoves ==
  ASSUME NEW w \in Workers, Workers = {w}, AloneInv(w), [Next]_vars, NEW l \in Logs,
         entry'[l] # entry[l]
  PROVE  \/ Log(l) /\ entry[l].status = "none" /\ entry'[l].status = "PENDING"
            /\ entry'[l].attempts = entry[l].attempts
         \/ \E item \in Held(w) :
              /\ Busy(w) /\ item = worker[w].item /\ item.log = l
              /\ \/ /\ Mark(w)
                    /\ entry'[l].status = "ARCHIVED"
                    /\ entry'[l].attempts = entry[l].attempts
                 \/ WriteOff(w) /\ entry'[l] = Attempt(w, item)
<1>1. ASSUME NEW item \in Held(w), GiveUp(w, item)
      PROVE  FALSE
  <2>1. item.attempts >= Limit[w] /\ Limit[w] \in Nat
    BY <1>1, ArchiveAssumption DEF GiveUp
  <2> QED
    BY <2>1, HeldAlone
<1> QED
  BY <1>1, EntryMoves DEF AloneInv

\* Failures are counted by write-offs.
LEMMA FailureMoves ==
  ASSUME TypeOK, [Next]_vars, NEW w \in Workers, Workers = {w}, NEW l \in Logs
  PROVE  \/ failures'[l] = failures[l] /\ ~(WriteOff(w) /\ worker[w].item.log = l)
         \/ WriteOff(w) /\ worker[w].item.log = l /\ failures'[l] = failures[l] + 1
<1>1. CASE WriteOff(w)
  <2>1. Busy(w)
    BY <1>1 DEF WriteOff, At, Busy
  <2>2. worker[w].item.log \in Logs
    BY <2>1, InHand
  <2> QED
    BY <1>1, <2>2 DEF WriteOff, TypeOK
<1>2. CASE ~WriteOff(w)
  <2>1. failures' = failures
    BY <1>2 DEF Next, Log, Elapse, Fetch, Put, PutFails, Mark, MarkFails, Crash, Head, Take, GiveUp,
                Outage, Restore, vars
  <2> QED
    BY <1>2, <2>1
<1> QED
  BY <1>1, <1>2

LEMMA ExactStep ==
  ASSUME NEW w \in Workers, Workers = {w}, AloneInv(w), [Next]_vars
  PROVE  Exact(w)'
<1> SUFFICES ASSUME NEW l \in Logs
             PROVE  /\ entry'[l].attempts = failures'[l]
                    /\ failures'[l] <= Limit[w]
                    /\ entry'[l].status = "FAILED" <=> failures'[l] = Limit[w]
  BY DEF Exact
<1>1. /\ entry[l].attempts = failures[l] /\ failures[l] <= Limit[w]
      /\ entry[l].status = "FAILED" <=> failures[l] = Limit[w]
      /\ failures[l] \in Nat /\ Limit[w] \in Nat
  BY ArchiveAssumption DEF AloneInv, Exact, TypeOK
<1>2. CASE WriteOff(w) /\ worker[w].item.log = l
  <2>1. Busy(w)
    BY <1>2 DEF WriteOff, At, Busy
  <2>2. PICK item \in Held(w) : item = worker[w].item
    BY <2>1 DEF Held
  <2>3. item.attempts = failures[l] /\ failures[l] < Limit[w]
    BY <1>2, <2>2, HeldAlone
  <2>4. entry'[l] = Attempt(w, item) /\ failures'[l] = failures[l] + 1
    BY <1>2, <2>2, FailureMoves DEF WriteOff, AloneInv, TypeOK
  <2>5. /\ Attempt(w, item).attempts = failures[l] + 1
        /\ Attempt(w, item).status = "FAILED" <=> failures[l] + 1 >= Limit[w]
    BY <2>3 DEF Attempt
  <2> QED
    BY <1>1, <2>3, <2>4, <2>5
<1>3. CASE ~(WriteOff(w) /\ worker[w].item.log = l)
  <2>1. failures'[l] = failures[l]
    BY <1>3, FailureMoves DEF AloneInv
  <2>2. CASE entry'[l] = entry[l]
    BY <1>1, <2>1, <2>2
  <2>3. CASE entry'[l] # entry[l]
    <3>1. /\ entry[l].status # "FAILED" /\ entry'[l].status # "FAILED"
          /\ entry'[l].attempts = entry[l].attempts
      BY <1>3, <2>3, AloneMoves, HeldAlone
    <3> QED
      BY <1>1, <2>1, <3>1
  <2> QED
    BY <2>2, <2>3
<1> QED
  BY <1>2, <1>3

\* What a worker has done with, it no longer holds.
LEMMA LetsGo ==
  ASSUME NEW w \in Workers, AloneInv(w), Mark(w) \/ WriteOff(w)
  PROVE  \A item \in Held(w)' : item \in Held(w) /\ item.log # worker[w].item.log
<1>1. Busy(w) /\ Proceed(w)
  BY DEF Mark, WriteOff, At, Busy
<1>2. worker'[w] = Idle \/ worker'[w] = [step |-> "next", todo |-> worker[w].todo]
  BY <1>1, Proceeds DEF AloneInv
<1>3. Held(w)' \subseteq worker[w].todo /\ worker[w].todo \subseteq Held(w)
  BY <1>1, <1>2 DEF Held, Todo, Busy, At, Idle
<1>4. ASSUME NEW item \in worker[w].todo
      PROVE  item.log # worker[w].item.log
  <2>1. item \in Held(w) /\ worker[w].item \in Held(w)
    BY <1>1, <1>4 DEF Held
  <2>2. item \in Items /\ worker[w].item \in Items
    BY <2>1, HeldAlone
  <2>3. /\ item.attempts = entry[item.log].attempts
        /\ worker[w].item.attempts = entry[worker[w].item.log].attempts
    BY <2>1 DEF AloneInv, Fresh
  <2>4. item # worker[w].item
    BY <1>1, <1>4 DEF AloneInv, Fresh
  <2> QED
    BY <2>2, <2>3, <2>4 DEF Items
<1> QED
  BY <1>3, <1>4

LEMMA FreshStep ==
  ASSUME NEW w \in Workers, Workers = {w}, AloneInv(w), [Next]_vars
  PROVE  Fresh(w)'
<1>1. ASSUME NEW item \in Held(w)'
      PROVE  entry'[item.log].status = "PENDING" /\ entry'[item.log].attempts = item.attempts
  <2>1. /\ item.log \in Logs
        /\ entry[item.log].status = "PENDING" /\ entry[item.log].attempts = item.attempts
    <3>1. CASE item \in Held(w)
      BY <3>1, HeldAlone DEF AloneInv, Fresh
    <3>2. CASE item \notin Held(w)
      BY <1>1, <3>2, HeldMoves DEF AloneInv, Items
    <3> QED
      BY <3>1, <3>2
  <2>2. ASSUME entry'[item.log] # entry[item.log]
        PROVE  FALSE
    <3>1. (Mark(w) \/ WriteOff(w)) /\ worker[w].item.log = item.log
      BY <2>1, <2>2, AloneMoves
    <3> QED
      BY <1>1, <3>1, LetsGo
  <2> QED
    BY <2>1, <2>2
<1>2. ASSUME Busy(w)'
      PROVE  worker'[w].item \notin worker'[w].todo
  <2>1. CASE worker'[w] = worker[w]
    BY <1>2, <2>1 DEF AloneInv, Fresh, Busy
  <2>2. CASE Put(w) \/ PutFails(w) \/ MarkFails(w)
    <3>1. Busy(w) /\ \E s \in {"put", "mark", "fail"} : Goto(w, s)
      BY <2>2 DEF Put, PutFails, MarkFails, At, Busy
    <3>2. PICK s \in {"put", "mark", "fail"} :
            worker'[w] = [step |-> s, todo |-> worker[w].todo, item |-> worker[w].item]
      BY <3>1, Goes DEF AloneInv
    <3> QED
      BY <3>1, <3>2 DEF AloneInv, Fresh
  <2>3. ASSUME NEW x \in Todo(w), Head(w, x)
        PROVE  worker'[w].item \notin worker'[w].todo
    <3>1. PICK s \in {"put", "mark", "fail"} : Take(w, x, s)
      BY <2>3 DEF Head
    <3>2. worker'[w] = [step |-> s, todo |-> worker[w].todo \ {x}, item |-> x]
      BY <3>1, Takes DEF AloneInv, Taken
    <3> QED
      BY <3>2
  <2>4. CASE Mark(w) \/ WriteOff(w)
    <3>1. Busy(w) /\ Proceed(w)
      BY <2>4 DEF Mark, WriteOff, At, Busy
    <3>2. worker'[w] = Idle \/ worker'[w] = [step |-> "next", todo |-> worker[w].todo]
      BY <3>1, Proceeds DEF AloneInv
    <3> QED
      BY <1>2, <3>2 DEF Busy, Idle
  <2>5. CASE Crash(w)
    BY <1>2, <2>5 DEF Crash, Become, AloneInv, TypeOK, Busy, Idle
  <2>6. CASE Fetch(w)
    <3>1. PICK T \in SUBSET Items : worker' = [worker EXCEPT ![w] = [step |-> "next", todo |-> T]]
      BY <2>6, Fetches DEF AloneInv
    <3> QED
      BY <1>2, <3>1 DEF AloneInv, TypeOK, Busy
  <2>7. ASSUME NEW x \in Todo(w), GiveUp(w, x)
        PROVE  FALSE
    <3>1. worker'[w] = Idle \/ worker'[w] = [step |-> "next", todo |-> worker[w].todo \ {x}]
      BY <2>7, GivesUp DEF AloneInv
    <3> QED
      BY <1>2, <3>1 DEF Busy, Idle
  <2>8. worker' = worker
        \/ Fetch(w) \/ Put(w) \/ PutFails(w) \/ Mark(w) \/ MarkFails(w) \/ WriteOff(w)
        \/ Crash(w) \/ \E x \in Todo(w) : Head(w, x) \/ GiveUp(w, x)
    BY DEF Next, Log, Elapse, Outage, Restore, vars
  <2> QED
    BY <2>1, <2>2, <2>3, <2>4, <2>5, <2>6, <2>7, <2>8
<1> QED
  BY <1>1, <1>2 DEF Fresh

LEMMA AloneInvariant ==
  ASSUME NEW w \in Workers, Workers = {w}
  PROVE  Spec => []AloneInv(w)
<1>1. Init => AloneInv(w)
  <2> SUFFICES ASSUME Init
               PROVE  AloneInv(w)
    OBVIOUS
  <2>1. TypeOK
    BY InitAll DEF Inv
  <2>2. Held(w) = {} /\ ~Busy(w)
    BY DEF Init, Held, Todo, Busy, At, Idle
  <2>3. Limit[w] \in Nat \ {0}
    BY ArchiveAssumption
  <2> QED
    BY <2>1, <2>2, <2>3 DEF Init, AloneInv, Exact, Fresh
<1>2. AloneInv(w) /\ [Next]_vars => AloneInv(w)'
  <2> SUFFICES ASSUME AloneInv(w), [Next]_vars
               PROVE  AloneInv(w)'
    OBVIOUS
  <2>1. TypeOK'
    BY TInvStep DEF AloneInv
  <2> QED
    BY <2>1, ExactStep, FreshStep DEF AloneInv
<1> QED
  BY <1>1, <1>2, PTL DEF Spec

\* While one process alone drains the outbox, attempts are what failed, neither more nor
\* less, and a record is FAILED exactly when its attempts are used up.
THEOREM AloneCountsAreExact ==
  ASSUME NEW w \in Workers, Workers = {w}
  PROVE  Spec => []Exact(w)
BY AloneInvariant, PTL DEF AloneInv

\* While one process alone drains the outbox, ARCHIVED and FAILED are final, although it
\* crashes and loses answers: it is a second process that overwrites them.
THEOREM AloneOutcomesAreFinal ==
  ASSUME NEW w \in Workers, Workers = {w}
  PROVE  Spec => [][\A l \in Logs : Settled(l) => entry'[l] = entry[l]]_vars
<1>1. AloneInv(w) /\ [Next]_vars => [\A l \in Logs : Settled(l) => entry'[l] = entry[l]]_vars
  <2> SUFFICES ASSUME AloneInv(w), [Next]_vars, NEW l \in Logs, Settled(l), entry'[l] # entry[l]
               PROVE  FALSE
    BY Zenon
  <2>1. entry[l].status \in {"none", "PENDING"}
    BY AloneMoves, HeldAlone
  <2> QED
    BY <2>1 DEF Settled
<1> QED
  BY <1>1, AloneInvariant, PTL DEF Spec
=============================================================================
