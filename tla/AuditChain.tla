----------------------------- MODULE AuditChain -----------------------------
(***************************************************************************)
(* The audit log's hash chains: who appends to them, and what the two      *)
(* verifiers read in them (src/api/src/common/audit).                      *)
(*                                                                         *)
(* A record belongs to the chain of its tenant, or to the platform's.      *)
(* AuditLoggerService.log appends under a transaction-level advisory lock  *)
(* of the chain and links the new record to the one that is last by        *)
(* (createdAt, id); services that call auditLog.create themselves append a *)
(* record without hashes and without the lock.  The hash of a record is    *)
(* taken to be unique to it, so its identity stands for it; the identity   *)
(* is random, so its order says nothing of when the record was made.       *)
(*                                                                         *)
(* The servers' clocks need not agree, and two records may be stamped in   *)
(* one millisecond.  A sealed record is then linked to one that it comes   *)
(* before; such a record is late, which the table does not say and the     *)
(* field late keeps track of.                                              *)
(***************************************************************************)
EXTENDS Integers, FiniteSets

CONSTANTS
  Writers,   \* transactions that append to the audit log
  Plain,     \* those that call auditLog.create directly
  Chains,    \* the tenants' chains and the platform's
  ChainOf,   \* ChainOf[w]: the chain w appends to
  Skew,      \* Skew[w]: how far the clock of w's server is ahead
  Ids,       \* identities a record may draw
  MaxTime,   \* bound on the clock
  MaxRecords \* bound on the records

ASSUME ChainAssumption ==
  /\ Plain \subseteq Writers
  /\ ChainOf \in [Writers -> Chains]
  /\ Skew \in [Writers -> Nat]
  /\ Ids \subseteq Nat \ {0}
  /\ MaxTime \in Nat
  /\ MaxRecords \in Nat

VARIABLES
  records,  \* the committed AuditLog rows
  holder,   \* holder[c]: who holds the advisory lock of chain c, if anyone
  writer,   \* writer[w]: how far the transaction of w has come
  now       \* the database server's clock, in milliseconds

vars == <<records, holder, writer, now>>

NoHash == 0
None == {}

Records == [id : Nat \ {0}, chain : Chains, at : Nat, prev : Nat, hash : Nat, late : BOOLEAN]

Free == [step |-> "free"]

WriterStates ==
  {Free} \cup [step : {"waiting"}] \cup [step : {"linking"}]
         \cup [step : {"inserted"}, row : Records]

Chain(c) == {x \in records : x.chain = c}

\* orderBy: [{ createdAt }, { id }]
Before(x, y) == x.at < y.at \/ (x.at = y.at /\ x.id < y.id)

IsLast(x, R) == x \in R /\ \A z \in R : z = x \/ Before(z, x)

\* The recordHash of the last of the rows R, or null.
LastHash(R) == IF R = {} THEN NoHash ELSE (CHOOSE x \in R : IsLast(x, R)).hash

Init ==
  /\ records = {}
  /\ holder = [c \in Chains |-> None]
  /\ writer = [w \in Writers |-> Free]
  /\ now = 0

Become(w, state) == writer' = [writer EXCEPT ![w] = state]

InUse == {x.id : x \in records}
           \cup {writer[w].row.id : w \in {v \in Writers : writer[v].step = "inserted"}}

Fits == Cardinality(InUse) < MaxRecords

\* new Date() on the server of w.
Stamp(w) == now + Skew[w]

\* A record stamped now on the server of w would not be the last of its chain.
Late(w, id) == \E x \in Chain(ChainOf[w]) : Before([at |-> Stamp(w), id |-> id], x)

-----------------------------------------------------------------------------
\* AuditLoggerService.log and PrismaService.createSealedAuditLog

Request(w) ==
  /\ w \notin Plain
  /\ writer[w] = Free
  /\ Fits
  /\ Become(w, [step |-> "waiting"])
  /\ UNCHANGED <<records, holder, now>>

\* mutant: the failed attempt to lock is only logged
LockIgnored(w) ==
  /\ writer[w].step = "waiting"
  /\ holder' = [holder EXCEPT ![ChainOf[w]] = @ \cup {w}]
  /\ Become(w, [step |-> "linking"])
  /\ UNCHANGED <<records, now>>

Lock(w) ==
  /\ writer[w].step = "waiting"
  /\ holder[ChainOf[w]] = None
  /\ holder' = [holder EXCEPT ![ChainOf[w]] = {w}]
  /\ Become(w, [step |-> "linking"])
  /\ UNCHANGED <<records, now>>

\* mutant: the last record of any chain is taken for the predecessor
SealAnyChain(w) ==
  /\ writer[w].step = "linking"
  /\ \E id \in Ids \ InUse :
       Become(w, [step |-> "inserted",
                  row |-> [id |-> id, chain |-> ChainOf[w], at |-> Stamp(w),
                           prev |-> LastHash(records), hash |-> id, late |-> Late(w, id)]])
  /\ UNCHANGED <<records, holder, now>>

\* The last record is read, the new one is stamped, sealed and inserted.
Seal(w) ==
  /\ writer[w].step = "linking"
  /\ \E id \in Ids \ InUse :
       Become(w, [step |-> "inserted",
                  row |-> [id |-> id, chain |-> ChainOf[w], at |-> Stamp(w),
                           prev |-> LastHash(Chain(ChainOf[w])), hash |-> id,
                           late |-> Late(w, id)]])
  /\ UNCHANGED <<records, holder, now>>

-----------------------------------------------------------------------------
\* auditLog.create inside a service's own transaction

InsertPlain(w) ==
  /\ w \in Plain
  /\ writer[w] = Free
  /\ Fits
  /\ \E id \in Ids \ InUse :
       Become(w, [step |-> "inserted",
                  row |-> [id |-> id, chain |-> ChainOf[w], at |-> Stamp(w),
                           prev |-> NoHash, hash |-> NoHash, late |-> FALSE]])
  /\ UNCHANGED <<records, holder, now>>

-----------------------------------------------------------------------------
\* mutant: the lock is a session's and outlives the transaction
UnlockNever(w) == UNCHANGED holder

\* The advisory lock belongs to the transaction.
Unlock(w) == holder' = [c \in Chains |-> holder[c] \ {w}]

Commit(w) ==
  /\ writer[w].step = "inserted"
  /\ records' = records \cup {writer[w].row}
  /\ Unlock(w)
  /\ Become(w, Free)
  /\ UNCHANGED now

Rollback(w) ==
  /\ writer[w] # Free
  /\ Unlock(w)
  /\ Become(w, Free)
  /\ UNCHANGED <<records, now>>

Tick ==
  /\ now < MaxTime
  /\ now' = now + 1
  /\ UNCHANGED <<records, holder, writer>>

Next ==
  \/ \E w \in Writers : \/ Request(w) \/ Lock(w) \/ Seal(w)
                        \/ InsertPlain(w) \/ Commit(w) \/ Rollback(w)
  \/ Tick

Spec == Init /\ [][Next]_vars

\* A transaction ends, at the latest at its timeout, and those that wait for a
\* lock are served in turn.
Fairness ==
  \A w \in Writers : /\ SF_vars(Lock(w))
                     /\ WF_vars(Seal(w) \/ Commit(w) \/ (writer[w].step # "waiting" /\ Rollback(w)))

FairSpec == Spec /\ Fairness

-----------------------------------------------------------------------------
\* What the verifiers read

\* The rows of R that come before y.
Earlier(y, R) == {x \in R : Before(x, y)}

\* Records whose previousHash is not the recordHash of the record before them
\* among the rows R that were selected.
BrokenLinks(R) == {y \in R : y.prev # LastHash(Earlier(y, R))}

Unsealed(R) == {x \in R : x.hash = NoHash}

\* verifyAuditChain(c)
VerifyAuditChain(c) ==
  /\ BrokenLinks(Chain(c)) = {}
  /\ Unsealed(Chain(c)) = {}

Since(c, time) == {x \in Chain(c) : x.at >= time}

\* mutant: records without a hash are skipped
RunVerificationSkipping(c, time) == BrokenLinks(Since(c, time))

\* runIntegrityVerification: the records of chain c since a time that it
\* reports.  The first one selected is compared with null.
RunIntegrityVerification(c, time) == BrokenLinks(Since(c, time)) \cup Unsealed(Since(c, time))

-----------------------------------------------------------------------------
\* The rows, the locks and the transactions have their types, and the lock of a
\* chain is held by exactly one transaction that is writing to it, or by none.
TypeOK ==
  /\ records \subseteq Records
  /\ writer \in [Writers -> WriterStates]
  /\ now \in 0 .. MaxTime
  /\ \A w \in Plain : writer[w].step \in {"free", "inserted"}
  /\ holder = [c \in Chains |->
                  {w \in Writers \ Plain : ChainOf[w] = c
                                           /\ writer[w].step \in {"linking", "inserted"}}]
  /\ \A c \in Chains : \A v, w \in holder[c] : v = w

\* A chain that only log and createSealedAuditLog append to, none of them late,
\* passes its full verification: each record carries the hash of the one before
\* it, whoever waits for the lock, rolls back, or appends to other chains.
ChainValid ==
  \A c \in Chains :
    (\A w \in Plain : ChainOf[w] # c) /\ (\A x \in Chain(c) : ~x.late) => VerifyAuditChain(c)

\* The records of chain c that are late, or that a late one has come right before.
Displaced(c) ==
  {y \in Chain(c) : y.late \/ \E x \in Earlier(y, Chain(c)) : x.late /\ IsLast(x, Earlier(y, Chain(c)))}

\* The link of a sealed record is broken only right behind a record without
\* hashes, at a late record or right behind one: stretches of the others stay
\* linked whatever is mixed in, in whatever order the transactions commit.
BreaksOnlyAtPlainOrLate ==
  \A c \in Chains : \A y \in BrokenLinks(Chain(c)) \ Displaced(c) :
    y.hash # NoHash => \E x \in Chain(c) : x.hash = NoHash /\ IsLast(x, Earlier(y, Chain(c)))

\* What the full verification of a chain would object to, the monitor's check
\* of the records since a time objects to as well if it is that recent: a window
\* that starts inside the chain hides nothing, direct writers included, except at
\* a record that claims to be the first and that a late one has displaced.
MonitorMissesNothing ==
  \A c \in Chains, time \in 0 .. MaxTime :
    (BrokenLinks(Chain(c)) \cup Unsealed(Chain(c))) \cap Since(c, time)
      \subseteq RunIntegrityVerification(c, time) \cup {y \in Displaced(c) : y.prev = NoHash}

\* A transaction that waits to append gets to do so, or is rolled back.
EveryLogEnds == \A w \in Writers : writer[w].step = "waiting" ~> writer[w] = Free

SealedChains == {c \in Chains : \A w \in Plain : ChainOf[w] # c}

\* The hashes of the records R.
LinksOf(R) == {[prev |-> x.prev, hash |-> x.hash, late |-> x.late] : x \in R}

Log == INSTANCE AppendLog
         WITH Chains <- SealedChains, Hashes <- Ids,
              links <- [c \in SealedChains |-> LinksOf(Chain(c))],
              head <- [c \in SealedChains |-> LastHash(Chain(c))]

\* The chains that only log and createSealedAuditLog append to are AppendLog's:
\* whoever commits, and in whatever order, appends one record that is linked to
\* the last one committed, and becomes the last unless it is late.
Implements == Log!Spec
=============================================================================
