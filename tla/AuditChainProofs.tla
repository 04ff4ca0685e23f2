-------------------------- MODULE AuditChainProofs --------------------------
(***************************************************************************)
(* What holds of the audit chains for any number of writers, chains and    *)
(* records, and for clocks that differ or tie.  The advisory lock gives    *)
(* mutual exclusion (TypeOK); under it the row a sealed writer has         *)
(* inserted follows every sealed record of its chain or is late, so that   *)
(* committing it leaves the links of the others alone unless it is late;   *)
(* a plain record can only come between two records as one without a hash. *)
(***************************************************************************)
EXTENDS AuditChain, TLAPS

USE DEF NoHash, None

Pending(w) == writer[w].step = "inserted"

\* Among the records R, y follows the last one before it in its chain, or a
\* record without a hash, or a late one.
Linked(y, R) ==
  LET P == Earlier(y, {x \in R : x.chain = y.chain})
  IN \/ P = {} /\ y.prev = NoHash
     \/ \E x \in P : IsLast(x, P) /\ (x.hash = NoHash \/ x.late \/ y.prev = x.hash)

\* What Request, InsertPlain and Seal put in place.
PendingRow(w) ==
  LET r == writer[w].row
  IN /\ r.chain = ChainOf[w]
     /\ w \in Plain <=> r.hash = NoHash
     /\ \A x \in records : x.id # r.id
     /\ \A v \in Writers \ {w} : Pending(v) => writer[v].row.id # r.id

\* A sealed row that is not committed yet comes after every sealed record, or
\* before some record if it is late.
SealedRow(w) ==
  LET r == writer[w].row
      R == Chain(ChainOf[w])
  IN IF r.late THEN \E x \in R : Before(r, x)
               ELSE Linked(r, records) /\ \A x \in R : x.hash # NoHash => Before(x, r)

Rows ==
  /\ \A w \in Writers : Pending(w) => PendingRow(w)
  /\ \A x, y \in records : x.id = y.id => x = y
  /\ \A x \in records : x.hash = NoHash => \E w \in Plain : ChainOf[w] = x.chain

Links ==
  /\ \A w \in Writers \ Plain : Pending(w) => SealedRow(w)
  /\ \A y \in records : y.hash # NoHash /\ ~y.late => Linked(y, records)

\* Every chain has a last record, so that LastHash means something.
Ordered == \A c \in Chains : Chain(c) = {} \/ \E x \in Chain(c) : IsLast(x, Chain(c))

\* So has the part of it before any record.
HasLast(R) == R = {} \/ \E x \in R : IsLast(x, R)
Prefixed == \A c \in Chains, y \in Records : HasLast(Earlier(y, Chain(c)))

-----------------------------------------------------------------------------
\* The step a transaction can be in.
LEMMA States ==
  ASSUME NEW s \in WriterStates
  PROVE  /\ s = Free <=> s.step = "free"
         /\ s.step \in {"free", "waiting", "linking", "inserted"}
         /\ s.step = "inserted" => s.row \in Records
  BY DEF WriterStates, Free

\* Two records with different identities are ordered one way or the other.
LEMMA Total ==
  ASSUME NEW x \in Records, NEW y \in Records, x.id # y.id
  PROVE  Before(x, y) \/ Before(y, x)
  BY DEF Records, Before

LEMMA Strict ==
  ASSUME NEW x \in Records, NEW y \in Records, Before(x, y)
  PROVE  ~Before(y, x)
  BY DEF Records, Before

LEMMA Transitive ==
  ASSUME NEW x \in Records, NEW y \in Records, NEW z \in Records,
         Before(x, y), Before(y, z)
  PROVE  Before(x, z)
  BY DEF Records, Before

\* LastHash is the hash of the last row.
LEMMA LastIsLast ==
  ASSUME NEW R \in SUBSET Records, NEW x \in R, IsLast(x, R)
  PROVE  LastHash(R) = x.hash
<1>1. \A y \in R : IsLast(y, R) => y = x
  <2> SUFFICES ASSUME NEW y \in R, IsLast(y, R), y # x
               PROVE  FALSE
    OBVIOUS
  <2>1. Before(x, y) /\ Before(y, x)
    BY DEF IsLast
  <2> QED
    BY <2>1, Strict
<1> QED
  BY <1>1 DEF LastHash

\* The hash of a record is a natural number wherever there is a last one.
LEMMA HashType ==
  ASSUME NEW R \in SUBSET Records, R = {} \/ \E x \in R : IsLast(x, R)
  PROVE  LastHash(R) \in Nat
<1>1. CASE R = {}
  BY <1>1 DEF LastHash
<1>2. ASSUME NEW x \in R, IsLast(x, R)
      PROVE  LastHash(R) \in Nat
  BY <1>2, LastIsLast DEF Records
<1> QED
  BY <1>1, <1>2

-----------------------------------------------------------------------------
\* What a step that stamps a row puts in place: a row with a fresh identity and
\* of the writer's own chain, sealed exactly if the writer seals.
LEMMA NewRow ==
  ASSUME TypeOK, Ordered, NEW w \in Writers, Seal(w) \/ InsertPlain(w)
  PROVE  \E r \in Records :
           /\ writer' = [writer EXCEPT ![w] = [step |-> "inserted", row |-> r]]
           /\ r.chain = ChainOf[w]
           /\ w \in Plain <=> r.hash = NoHash
           /\ r.id \notin InUse
           /\ r.hash # NoHash => r.hash = r.id /\ r.id \in Ids
           /\ w \notin Plain /\ r.late => \E x \in Chain(ChainOf[w]) : Before(r, x)
           /\ w \notin Plain /\ ~r.late => \A x \in Chain(ChainOf[w]) : Before(x, r)
           /\ w \notin Plain => r.prev = LastHash(Chain(ChainOf[w]))
<1> USE ChainAssumption
<1>1. CASE Seal(w)
  <2>0. w \notin Plain
    BY <1>1 DEF TypeOK, Seal
  <2>1. PICK id \in Ids \ InUse :
          Become(w, [step |-> "inserted",
                     row |-> [id |-> id, chain |-> ChainOf[w], at |-> Stamp(w),
                              prev |-> LastHash(Chain(ChainOf[w])), hash |-> id,
                              late |-> Late(w, id)]])
    BY <1>1 DEF Seal
  <2> DEFINE r == [id |-> id, chain |-> ChainOf[w], at |-> Stamp(w),
                   prev |-> LastHash(Chain(ChainOf[w])), hash |-> id, late |-> Late(w, id)]
  <2>2. Stamp(w) \in Nat /\ Late(w, id) \in BOOLEAN
    BY DEF Stamp, Late, TypeOK
  <2>3. LastHash(Chain(ChainOf[w])) \in Nat
    <3>1. ChainOf[w] \in Chains /\ Chain(ChainOf[w]) \subseteq Records
      BY DEF Chain, TypeOK
    <3> QED
      BY <3>1, HashType DEF Ordered
  <2>4. r \in Records
    BY <2>2, <2>3 DEF Records
  <2>5. writer' = [writer EXCEPT ![w] = [step |-> "inserted", row |-> r]]
    BY <2>1 DEF Become
  <2>6. r.hash # NoHash /\ r.hash = r.id /\ r.id \in Ids \ InUse
    OBVIOUS
  <2>9. r.chain = ChainOf[w] /\ r.prev = LastHash(Chain(ChainOf[w]))
    OBVIOUS
  <2>7. r.late => \E x \in Chain(ChainOf[w]) : Before(r, x)
    BY DEF Late, Before
  <2>8. ASSUME ~r.late, NEW x \in Chain(ChainOf[w])
        PROVE  Before(x, r)
    <3>1. x \in Records /\ x.id # r.id
      BY DEF Chain, TypeOK, InUse
    <3>2. ~Before(r, x)
      BY <2>8 DEF Late, Before
    <3> QED
      BY <2>4, <3>1, <3>2, Total
  <2> HIDE DEF r
  <2> QED
    BY <2>0, <2>4, <2>5, <2>6, <2>7, <2>8, <2>9
<1>2. CASE InsertPlain(w)
  <2>1. PICK id \in Ids \ InUse :
          Become(w, [step |-> "inserted",
                     row |-> [id |-> id, chain |-> ChainOf[w], at |-> Stamp(w),
                              prev |-> NoHash, hash |-> NoHash, late |-> FALSE]])
    BY <1>2 DEF InsertPlain
  <2> DEFINE r == [id |-> id, chain |-> ChainOf[w], at |-> Stamp(w),
                   prev |-> NoHash, hash |-> NoHash, late |-> FALSE]
  <2>2. Stamp(w) \in Nat
    BY DEF Stamp, TypeOK
  <2>3. r \in Records
    BY <2>2 DEF Records
  <2>4. writer' = [writer EXCEPT ![w] = [step |-> "inserted", row |-> r]]
    BY <2>1 DEF Become
  <2>5. w \in Plain
    BY <1>2 DEF InsertPlain
  <2> QED
    BY <2>2, <2>3, <2>4, <2>5
<1> QED
  BY <1>1, <1>2

-----------------------------------------------------------------------------
\* Type correctness, which contains the mutual exclusion of the sealed writers.
\* (AuditLoggerService.log, createSealedAuditLog, auditLog.create.)
LEMMA TInvStep ==
  ASSUME TypeOK, Ordered, [Next]_vars
  PROVE  TypeOK'
<1> USE ChainAssumption
<1>0. CASE UNCHANGED vars
  BY <1>0 DEF TypeOK, vars
<1>1. ASSUME NEW w \in Writers, Request(w)
      PROVE  TypeOK'
  <2>1. writer' \in [Writers -> WriterStates]
    BY <1>1 DEF TypeOK, Request, Become, WriterStates
  <2>2. \A c \in Chains : holder'[c] = {v \in Writers \ Plain : ChainOf[v] = c
                                /\ writer'[v].step \in {"linking", "inserted"}}
    BY <1>1 DEF TypeOK, Request, Become, Free
  <2> QED
    BY <1>1, <2>1, <2>2 DEF TypeOK, Request, Become
<1>2. ASSUME NEW w \in Writers, Lock(w)
      PROVE  TypeOK'
  <2>0. w \notin Plain
    BY <1>2 DEF TypeOK, Lock
  <2>1. writer' \in [Writers -> WriterStates]
    BY <1>2 DEF TypeOK, Lock, Become, WriterStates
  <2>2. ASSUME NEW c \in Chains
        PROVE  holder'[c] = {v \in Writers \ Plain : ChainOf[v] = c
                                /\ writer'[v].step \in {"linking", "inserted"}}
    <3>1. CASE c = ChainOf[w]
      <4>1. holder'[c] = {w} /\ holder[c] = {}
        BY <1>2, <3>1 DEF Lock, TypeOK
      <4>2. \A v \in Writers : writer'[v] = IF v = w THEN [step |-> "linking"] ELSE writer[v]
        BY <1>2 DEF Lock, Become, TypeOK
      <4>3. \A v \in Writers \ Plain :
              ChainOf[v] = c => writer[v].step \notin {"linking", "inserted"}
        BY <4>1 DEF TypeOK
      <4>4. \A v \in Writers \ Plain :
              v = w <=> ChainOf[v] = c /\ writer'[v].step \in {"linking", "inserted"}
        BY <3>1, <4>2, <4>3
      <4> QED
        BY <2>0, <4>1, <4>4
    <3>2. CASE c # ChainOf[w]
      BY <1>2, <3>2 DEF Lock, Become, TypeOK
    <3> QED
      BY <3>1, <3>2
  <2>3. \A c \in Chains : \A u, v \in holder'[c] : u = v
    BY <1>2 DEF Lock, TypeOK
  <2> QED
    BY <1>2, <2>0, <2>1, <2>2, <2>3 DEF TypeOK, Lock, Become
<1>3. ASSUME NEW w \in Writers, Seal(w) \/ InsertPlain(w)
      PROVE  TypeOK'
  <2>1. PICK r \in Records : writer' = [writer EXCEPT ![w] = [step |-> "inserted", row |-> r]]
    BY <1>3, NewRow
  <2>2. writer' \in [Writers -> WriterStates]
    BY <2>1 DEF TypeOK, WriterStates
  <2>3. w \in Plain => writer[w].step # "linking"
    BY DEF TypeOK
  <2>4. \A c \in Chains : holder'[c] = {v \in Writers \ Plain : ChainOf[v] = c
                                /\ writer'[v].step \in {"linking", "inserted"}}
    BY <1>3, <2>1, <2>3 DEF TypeOK, Seal, InsertPlain
  <2> QED
    BY <1>3, <2>1, <2>2, <2>3, <2>4 DEF TypeOK, Seal, InsertPlain
<1>4. ASSUME NEW w \in Writers, Commit(w) \/ Rollback(w)
      PROVE  TypeOK'
  <2>0. records' \subseteq Records
    <3>1. writer[w].step = "inserted" => writer[w].row \in Records
      BY States DEF TypeOK
    <3> QED
      BY <1>4, <3>1 DEF TypeOK, Commit, Rollback
  <2>1. writer' \in [Writers -> WriterStates]
    BY <1>4 DEF TypeOK, Commit, Rollback, Become, WriterStates
  <2>2. \A v \in Writers : writer'[v] = IF v = w THEN Free ELSE writer[v]
    BY <1>4 DEF TypeOK, Commit, Rollback, Become
  <2>3. holder' = [c \in Chains |-> holder[c] \ {w}]
    BY <1>4 DEF Commit, Rollback, Unlock
  <2>4. \A c \in Chains : holder'[c] = {v \in Writers \ Plain : ChainOf[v] = c
                                /\ writer'[v].step \in {"linking", "inserted"}}
    BY <2>2, <2>3 DEF TypeOK, Free
  <2>5. now' = now
    BY <1>4 DEF Commit, Rollback
  <2>6. \A v \in Plain : writer'[v].step \in {"free", "inserted"}
    BY <2>2, ChainAssumption DEF TypeOK, Free
  <2>7. \A c \in Chains : \A u, v \in holder'[c] : u = v
    BY <2>3 DEF TypeOK
  <2> QED
    BY <2>0, <2>1, <2>3, <2>4, <2>5, <2>6, <2>7 DEF TypeOK
<1>5. ASSUME Tick
      PROVE  TypeOK'
  BY <1>5 DEF Tick, TypeOK
<1> QED
  BY <1>0, <1>1, <1>2, <1>3, <1>4, <1>5 DEF Next

-----------------------------------------------------------------------------
\* The steps by their effect on the records: they stay, or grow by the row of
\* the writer that commits.
LEMMA Effects ==
  ASSUME TypeOK, [Next]_vars
  PROVE  \/ /\ records' = records
            /\ \/ \E w \in Writers : Seal(w) \/ InsertPlain(w)
               \/ \A w \in Writers : Pending(w)' => Pending(w) /\ writer'[w] = writer[w]
         \/ \E w \in Writers : Commit(w)
<1>0. CASE UNCHANGED vars
  BY <1>0 DEF vars, Pending
<1>1. CASE Tick
  BY <1>1 DEF Tick, Pending
<1>2. ASSUME NEW w \in Writers, Request(w) \/ Lock(w) \/ Rollback(w)
      PROVE  /\ records' = records
             /\ \A v \in Writers : Pending(v)' => Pending(v) /\ writer'[v] = writer[v]
  BY <1>2 DEF TypeOK, Request, Lock, Rollback, Become, Free, Pending
<1>3. ASSUME NEW w \in Writers, Seal(w) \/ InsertPlain(w)
      PROVE  records' = records
  BY <1>3 DEF Seal, InsertPlain
<1> QED
  BY <1>0, <1>1, <1>2, <1>3 DEF Next

\* What a commit does.
LEMMA CommitEffect ==
  ASSUME TypeOK, Rows, NEW w \in Writers, Commit(w)
  PROVE  /\ writer[w].row \in Records
         /\ records' = records \cup {writer[w].row}
         /\ Pending(w) /\ PendingRow(w)
         /\ \A v \in Writers : Pending(v)' => /\ v # w
                                            /\ Pending(v) /\ PendingRow(v)
                                            /\ writer'[v] = writer[v]
<1>1. Pending(w) /\ writer[w] \in WriterStates
  BY DEF Commit, Pending, TypeOK
<1>2. \A v \in Writers : writer'[v] = IF v = w THEN Free ELSE writer[v]
  BY DEF Commit, Become, TypeOK
<1>3. records' = records \cup {writer[w].row}
  BY DEF Commit
<1> QED
  BY <1>1, <1>2, <1>3, States DEF Rows, Pending, Free

\* Identities stay unique, and a row without a hash has a plain writer.
LEMMA RowsStep ==
  ASSUME TypeOK, Ordered, Rows, [Next]_vars
  PROVE  Rows'
<1>1. ASSUME records' = records,
             \A w \in Writers : Pending(w)' => Pending(w) /\ writer'[w] = writer[w]
      PROVE  Rows'
  BY <1>1 DEF Rows, PendingRow
<1>2. ASSUME NEW w \in Writers, Seal(w) \/ InsertPlain(w), records' = records
      PROVE  Rows'
  <2>1. PICK r \in Records :
           /\ writer' = [writer EXCEPT ![w] = [step |-> "inserted", row |-> r]]
           /\ r.chain = ChainOf[w]
           /\ w \in Plain <=> r.hash = NoHash
           /\ r.id \notin InUse
    BY <1>2, NewRow
  <2>2. \A x \in records : x.id # r.id
    BY <2>1 DEF InUse
  <2>3. \A v \in Writers : Pending(v) => writer[v].row.id # r.id
    BY <2>1 DEF InUse, Pending
  <2>4. \A v \in Writers : writer'[v] = IF v = w THEN [step |-> "inserted", row |-> r]
                                      ELSE writer[v]
    BY <2>1 DEF TypeOK
  <2>5. \A v \in Writers \ {w} : Pending(v)' => Pending(v)
    BY <2>4 DEF Pending
  <2>6. ASSUME NEW v \in Writers, Pending(v)'
        PROVE  PendingRow(v)'
    <3>1. CASE v = w
      <4>1. writer'[v].row = r
        BY <2>4, <3>1
      <4>2. \A u \in Writers \ {w} : Pending(u)' => writer'[u].row.id # r.id
        BY <2>3, <2>4, <2>5
      <4> QED
        BY <1>2, <2>1, <2>2, <3>1, <4>1, <4>2 DEF PendingRow
    <3>2. CASE v # w
      <4>1. Pending(v) /\ PendingRow(v) /\ writer'[v] = writer[v]
        BY <2>4, <2>5, <2>6, <3>2 DEF Rows
      <4>2. ASSUME NEW u \in Writers \ {v}, Pending(u)'
            PROVE  writer'[u].row.id # writer[v].row.id
        BY <2>3, <2>4, <2>5, <4>1, <4>2 DEF PendingRow
      <4> QED
        BY <1>2, <4>1, <4>2 DEF PendingRow
    <3> QED
      BY <3>1, <3>2
  <2> QED
    BY <1>2, <2>6 DEF Rows
<1>3. ASSUME NEW w \in Writers, Commit(w)
      PROVE  Rows'
  <2> DEFINE r == writer[w].row
  <2>1. /\ records' = records \cup {r}
        /\ Pending(w) /\ PendingRow(w)
        /\ \A v \in Writers : Pending(v)' => /\ v # w
                                           /\ Pending(v) /\ PendingRow(v)
                                           /\ writer'[v] = writer[v]
    BY <1>3, CommitEffect
  <2>2. ASSUME NEW v \in Writers, Pending(v)'
        PROVE  PendingRow(v)'
    <3>1. v # w /\ Pending(v) /\ PendingRow(v) /\ writer'[v] = writer[v]
      BY <2>1, <2>2
    <3>2. r.id # writer[v].row.id
      BY <2>1, <3>1 DEF PendingRow
    <3> QED
      BY <2>1, <3>1, <3>2 DEF PendingRow
  <2>3. \A x, y \in records' : x.id = y.id => x = y
    BY <2>1 DEF Rows, PendingRow
  <2>4. \A x \in records' : x.hash = NoHash => \E v \in Plain : ChainOf[v] = x.chain
    BY <2>1 DEF Rows, PendingRow
  <2> QED
    BY <2>2, <2>3, <2>4 DEF Rows
<1> QED
  BY <1>1, <1>2, <1>3, Effects

-----------------------------------------------------------------------------
\* A row more is a last row more: the new one, or the old one still.
LEMMA LastOfMore ==
  ASSUME NEW R \in SUBSET Records, NEW r \in Records, NEW x \in R, IsLast(x, R),
         \A z \in R : z.id # r.id
  PROVE  \/ IsLast(r, R \cup {r})
         \/ IsLast(x, R \cup {r}) /\ Before(r, x)
<1>1. CASE Before(x, r)
  <2>1. \A z \in R : Before(z, r)
    BY <1>1, Transitive DEF IsLast
  <2> QED
    BY <2>1 DEF IsLast
<1>2. CASE Before(r, x)
  BY <1>2 DEF IsLast
<1> QED
  BY <1>1, <1>2, Total

\* Every chain keeps a last record.
LEMMA OrderedStep ==
  ASSUME TypeOK, Ordered, Rows, [Next]_vars
  PROVE  Ordered'
<1>1. CASE records' = records
  BY <1>1 DEF Ordered, Chain
<1>2. ASSUME NEW w \in Writers, Commit(w)
      PROVE  Ordered'
  <2> DEFINE r == writer[w].row
  <2>1. /\ r \in Records
        /\ records' = records \cup {r}
        /\ PendingRow(w)
    BY <1>2, CommitEffect
  <2>2. ASSUME NEW c \in Chains
        PROVE  Chain(c)' = {} \/ \E x \in Chain(c)' : IsLast(x, Chain(c)')
    <3>1. CASE r.chain # c
      <4>1. Chain(c)' = Chain(c)
        BY <2>1, <3>1 DEF Chain
      <4> QED
        BY <4>1 DEF Ordered
    <3>2. CASE r.chain = c
      <4> HIDE DEF r
      <4>1. Chain(c)' = Chain(c) \cup {r}
        BY <2>1, <3>2 DEF Chain
      <4>2. CASE Chain(c) = {}
        BY <4>1, <4>2 DEF IsLast
      <4>3. ASSUME NEW x \in Chain(c), IsLast(x, Chain(c))
            PROVE  \E y \in Chain(c)' : IsLast(y, Chain(c)')
        <5>1. Chain(c) \subseteq Records /\ \A z \in Chain(c) : z.id # r.id
          BY <2>1 DEF Chain, TypeOK, PendingRow, r
        <5>2. IsLast(r, Chain(c) \cup {r}) \/ IsLast(x, Chain(c) \cup {r})
          BY <2>1, <4>3, <5>1, LastOfMore
        <5> QED
          BY <4>1, <5>2
      <4> QED
        BY <4>2, <4>3 DEF Ordered
    <3> QED
      BY <3>1, <3>2
  <2> QED
    BY <2>2 DEF Ordered
<1> QED
  BY <1>1, <1>2, Effects

LEMMA PrefixedStep ==
  ASSUME TypeOK, Prefixed, Rows, [Next]_vars
  PROVE  Prefixed'
<1>1. CASE records' = records
  BY <1>1 DEF Prefixed, Chain
<1>2. ASSUME NEW w \in Writers, Commit(w), NEW c \in Chains, NEW y \in Records
      PROVE  HasLast(Earlier(y, Chain(c)'))
  <2> DEFINE r == writer[w].row
             P == Earlier(y, Chain(c))
             Q == Earlier(y, Chain(c)')
  <2>1. /\ r \in Records
        /\ records' = records \cup {r}
        /\ \A x \in records : x.id # r.id
    BY <1>2, CommitEffect DEF PendingRow
  <2>2. P \subseteq Records /\ P \subseteq records /\ HasLast(P)
    BY DEF Prefixed, Earlier, Chain, TypeOK
  <2>3. Q = P \/ Q = P \cup {r}
    BY <2>1 DEF Earlier, Chain
  <2> HIDE DEF P, Q, r
  <2>4. ASSUME Q = P \cup {r}
        PROVE  HasLast(Q)
    <3>1. CASE P = {}
      BY <2>4, <3>1 DEF HasLast, IsLast
    <3>2. ASSUME NEW x \in P, IsLast(x, P)
          PROVE  HasLast(Q)
      <4>1. IsLast(r, P \cup {r}) \/ IsLast(x, P \cup {r})
        BY <2>1, <2>2, <3>2, LastOfMore
      <4> QED
        BY <2>4, <4>1 DEF HasLast
    <3> QED
      BY <2>2, <3>1, <3>2 DEF HasLast
  <2> QED
    BY <2>2, <2>3, <2>4 DEF Q
<1> QED
  BY <1>1, <1>2, Effects DEF Prefixed

\* A record more leaves the links alone unless it is a sealed one that comes
\* before a record of its own chain and is not late.
LEMMA LinkKept ==
  ASSUME NEW R \in SUBSET Records, NEW r \in Records, NEW y \in Records,
         \A z \in R : z.id # r.id,
         Linked(y, R),
         r.chain # y.chain \/ r.hash = NoHash \/ r.late \/ ~Before(r, y)
  PROVE  Linked(y, R \cup {r})
<1> DEFINE P == Earlier(y, {x \in R : x.chain = y.chain})
           Q == Earlier(y, {x \in R \cup {r} : x.chain = y.chain})
<1>1. CASE r.chain # y.chain \/ ~Before(r, y)
  <2>1. Q = P
    BY <1>1 DEF Earlier
  <2> QED
    BY <2>1 DEF Linked
<1>2. CASE r.chain = y.chain /\ Before(r, y) /\ (r.hash = NoHash \/ r.late)
  <2>1. Q = P \cup {r}
    BY <1>2 DEF Earlier
  <2>2. CASE P = {}
    BY <1>2, <2>1, <2>2 DEF Linked, IsLast
  <2>3. ASSUME NEW x \in P, IsLast(x, P), x.hash = NoHash \/ x.late \/ y.prev = x.hash
        PROVE  Linked(y, R \cup {r})
    <3>1. P \subseteq Records /\ \A z \in P : z.id # r.id
      BY DEF Earlier
    <3>2. IsLast(r, P \cup {r}) \/ IsLast(x, P \cup {r})
      <4> HIDE DEF P
      <4> QED
        BY <2>3, <3>1, LastOfMore
    <3> QED
      BY <1>2, <2>1, <2>3, <3>2 DEF Linked
  <2> QED
    BY <2>2, <2>3 DEF Linked
<1> QED
  BY <1>1, <1>2

\* The links stay as they are, except at late records and right behind them.
LEMMA LinksStep ==
  ASSUME TypeOK, Ordered, Rows, Links, [Next]_vars
  PROVE  Links'
<1>1. ASSUME records' = records,
             \A w \in Writers : Pending(w)' => Pending(w) /\ writer'[w] = writer[w]
      PROVE  Links'
  BY <1>1 DEF Links, SealedRow, Chain
<1>2. ASSUME NEW w \in Writers, Seal(w) \/ InsertPlain(w), records' = records
      PROVE  Links'
  <2>1. PICK r \in Records :
           /\ writer' = [writer EXCEPT ![w] = [step |-> "inserted", row |-> r]]
           /\ r.chain = ChainOf[w]
           /\ w \notin Plain /\ r.late => \E x \in Chain(ChainOf[w]) : Before(r, x)
           /\ w \notin Plain /\ ~r.late => \A x \in Chain(ChainOf[w]) : Before(x, r)
           /\ w \notin Plain => r.prev = LastHash(Chain(ChainOf[w]))
    BY <1>2, NewRow
  <2>2. \A v \in Writers : writer'[v] = IF v = w THEN [step |-> "inserted", row |-> r]
                                      ELSE writer[v]
    BY <2>1 DEF TypeOK
  <2>3. ASSUME w \notin Plain, ~r.late
        PROVE  Linked(r, records)
    <3> DEFINE c == ChainOf[w]
    <3>1. c \in Chains /\ Chain(c) \subseteq Records
      BY ChainAssumption DEF Chain, TypeOK
    <3>2. Earlier(r, {x \in records : x.chain = r.chain}) = Chain(c)
      BY <2>1, <2>3 DEF Earlier, Chain
    <3>3. CASE Chain(c) = {}
      BY <2>1, <2>3, <3>2, <3>3 DEF Linked, LastHash
    <3>4. ASSUME NEW x \in Chain(c), IsLast(x, Chain(c))
          PROVE  Linked(r, records)
      <4>1. r.prev = x.hash
        BY <2>1, <2>3, <3>1, <3>4, LastIsLast
      <4> QED
        BY <3>2, <3>4, <4>1 DEF Linked
    <3> QED
      BY <3>1, <3>3, <3>4 DEF Ordered
  <2>4. ASSUME NEW v \in Writers \ Plain, Pending(v)'
        PROVE  SealedRow(v)'
    <3>1. CASE v = w
      BY <1>2, <2>1, <2>2, <2>3, <2>4, <3>1 DEF SealedRow, Chain
    <3>2. CASE v # w
      BY <1>2, <2>2, <2>4, <3>2 DEF Links, SealedRow, Chain, Pending
    <3> QED
      BY <3>1, <3>2
  <2> QED
    BY <1>2, <2>4 DEF Links
<1>3. ASSUME NEW w \in Writers, Commit(w)
      PROVE  Links'
  <2> DEFINE r == writer[w].row
  <2>1. /\ r \in Records
        /\ records' = records \cup {r}
        /\ Pending(w) /\ PendingRow(w)
        /\ \A v \in Writers : Pending(v)' => /\ v # w
                                           /\ Pending(v) /\ PendingRow(v)
                                           /\ writer'[v] = writer[v]
    BY <1>3, CommitEffect
  <2>2. records \subseteq Records /\ \A z \in records : z.id # r.id
    BY <2>1 DEF TypeOK, PendingRow
  <2>3. ASSUME NEW y \in records', y.hash # NoHash, ~y.late
        PROVE  Linked(y, records')
    <3>1. CASE y = r
      <4>1. Linked(r, records) /\ w \notin Plain
        BY <2>1, <2>3, <3>1 DEF Links, SealedRow, PendingRow
      <4>2. ~Before(r, r)
        BY <2>1, Strict
      <4> QED
        BY <2>1, <2>2, <3>1, <4>1, <4>2, LinkKept
    <3>2. CASE y \in records
      <4>1. Linked(y, records)
        BY <2>3, <3>2 DEF Links
      <4>2. r.chain # y.chain \/ r.hash = NoHash \/ r.late \/ ~Before(r, y)
        <5> SUFFICES ASSUME r.chain = y.chain, r.hash # NoHash, ~r.late
                     PROVE  ~Before(r, y)
          OBVIOUS
        <5>1. Before(y, r)
          BY <2>1, <2>3, <3>2 DEF Links, SealedRow, PendingRow, Chain
        <5> QED
          BY <2>1, <2>2, <3>2, <5>1, Strict
      <4> QED
        BY <2>1, <2>2, <3>2, <4>1, <4>2, LinkKept
    <3> QED
      BY <2>1, <3>1, <3>2
  <2>4. ASSUME NEW v \in Writers \ Plain, Pending(v)'
        PROVE  SealedRow(v)'
    <3> DEFINE y == writer[v].row
    <3>1. v # w /\ Pending(v) /\ PendingRow(v) /\ SealedRow(v) /\ writer'[v] = writer[v]
      BY <2>1, <2>4 DEF Links
    <3>2. y \in Records
      BY <3>1, States DEF Pending, TypeOK
    <3>3. r.chain # y.chain \/ r.hash = NoHash
      <4>1. w \notin Plain => ChainOf[w] # ChainOf[v]
        <5> SUFFICES ASSUME w \notin Plain, ChainOf[w] = ChainOf[v]
                     PROVE  FALSE
          OBVIOUS
        <5>1. ChainOf[w] \in Chains
          BY ChainAssumption
        <5>2. w \in holder[ChainOf[w]] /\ v \in holder[ChainOf[w]]
          BY <2>1, <3>1, <5>1 DEF TypeOK, Pending
        <5> QED
          BY <3>1, <5>1, <5>2 DEF TypeOK
      <4> QED
        BY <2>1, <3>1, <4>1 DEF PendingRow
    <3>4. ~y.late => Linked(y, records')
      BY <2>1, <2>2, <3>1, <3>2, <3>3, LinkKept DEF SealedRow
    <3>5. ~y.late => \A x \in Chain(ChainOf[v])' : x.hash # NoHash => Before(x, y)
      BY <2>1, <3>1, <3>3 DEF SealedRow, Chain, PendingRow
    <3>6. y.late => \E x \in Chain(ChainOf[v])' : Before(y, x)
      BY <2>1, <3>1 DEF SealedRow, Chain
    <3> QED
      BY <3>1, <3>4, <3>5, <3>6 DEF SealedRow
  <2> QED
    BY <2>3, <2>4 DEF Links
<1> QED
  BY <1>1, <1>2, <1>3, Effects

-----------------------------------------------------------------------------
LEMMA InitAll == Init => TypeOK /\ Ordered /\ Prefixed /\ Rows /\ Links
<1> SUFFICES ASSUME Init PROVE TypeOK /\ Ordered /\ Prefixed /\ Rows /\ Links
  OBVIOUS
<1>1. \A w \in Writers : writer[w] = Free /\ ~Pending(w)
  BY DEF Init, Free, Pending
<1>2. TypeOK
  <2>1. writer \in [Writers -> WriterStates] /\ now \in 0 .. MaxTime
    BY ChainAssumption DEF Init, WriterStates
  <2>2. \A c \in Chains : {w \in Writers \ Plain : ChainOf[w] = c
                            /\ writer[w].step \in {"linking", "inserted"}} = {}
    BY <1>1 DEF Free
  <2> QED
    BY <1>1, <2>1, <2>2, ChainAssumption DEF Init, TypeOK, Free
<1> QED
  BY <1>1, <1>2 DEF Init, Ordered, Prefixed, HasLast, Earlier, Chain, Rows, Links

\* At every moment at most one transaction holds the advisory lock of a chain,
\* one that is linking a record to it or has linked one, and all rows are well
\* formed, in the order of the clocks or not.
THEOREM ChainTypeCorrect == Spec => []TypeOK
<1>1. TypeOK /\ Ordered /\ Rows /\ [Next]_vars => (TypeOK /\ Ordered /\ Rows)'
  BY TInvStep, OrderedStep, RowsStep
<1> QED
  BY InitAll, <1>1, PTL DEF Spec

\* The invariant the theorems on the links rest on.
LEMMA LinksAlways == Spec => [](TypeOK /\ Ordered /\ Prefixed /\ Rows /\ Links)
<1>1. TypeOK /\ Ordered /\ Prefixed /\ Rows /\ Links /\ [Next]_vars
        => (TypeOK /\ Ordered /\ Prefixed /\ Rows /\ Links)'
  BY TInvStep, OrderedStep, PrefixedStep, RowsStep, LinksStep
<1> QED
  BY InitAll, <1>1, PTL DEF Spec

LEMMA LinkedBreaks ==
  ASSUME TypeOK, NEW c \in Chains, NEW y \in BrokenLinks(Chain(c)), Linked(y, records)
  PROVE  \E x \in Earlier(y, Chain(c)) : /\ IsLast(x, Earlier(y, Chain(c)))
                                         /\ x.hash = NoHash \/ x.late
<1> DEFINE P == Earlier(y, Chain(c))
<1>1. P \subseteq Records /\ P \subseteq Chain(c) /\ y.chain = c
  BY DEF Earlier, Chain, TypeOK, BrokenLinks
<1>2. P = Earlier(y, {x \in records : x.chain = y.chain}) /\ y.prev # LastHash(P)
  BY <1>1 DEF Chain, BrokenLinks
<1>3. ~(P = {} /\ y.prev = NoHash)
  BY <1>2 DEF LastHash
<1> HIDE DEF P
<1>4. PICK x \in P : IsLast(x, P) /\ (x.hash = NoHash \/ x.late \/ y.prev = x.hash)
  BY <1>2, <1>3 DEF Linked
<1>5. LastHash(P) = x.hash
  BY <1>1, <1>4, LastIsLast
<1> QED
  BY <1>1, <1>2, <1>4, <1>5 DEF P

\* The records that log and createSealedAuditLog append stay linked to one
\* another, however many servers and direct auditLog.create calls append between
\* them: what a direct call breaks is its own link and the next, and so does a
\* record that a clock behind the others, or a tie, has put before another.
THEOREM SealedRecordsStayLinked == Spec => []BreaksOnlyAtPlainOrLate
<1>1. ASSUME TypeOK, Links
      PROVE  BreaksOnlyAtPlainOrLate
  <2> SUFFICES ASSUME NEW c \in Chains, NEW y \in BrokenLinks(Chain(c)) \ Displaced(c),
                      y.hash # NoHash
               PROVE  \E x \in Chain(c) : x.hash = NoHash /\ IsLast(x, Earlier(y, Chain(c)))
    BY DEF BreaksOnlyAtPlainOrLate
  <2>1. y \in Chain(c)
    BY DEF BrokenLinks
  <2>2. Linked(y, records)
    BY <1>1, <2>1 DEF Links, Chain, Displaced
  <2> QED
    BY <1>1, <2>1, <2>2, LinkedBreaks DEF Displaced, Earlier
<1> QED
  BY LinksAlways, <1>1, PTL

\* Every chain to which no service calls auditLog.create itself passes
\* verifyAuditChain at every moment, as long as no record of it was late.
THEOREM SealedChainsAreValid == Spec => []ChainValid
<1>1. ASSUME TypeOK, Rows, Links
      PROVE  ChainValid
  <2> SUFFICES ASSUME NEW c \in Chains, \A w \in Plain : ChainOf[w] # c,
                      \A x \in Chain(c) : ~x.late
               PROVE  BrokenLinks(Chain(c)) = {} /\ Unsealed(Chain(c)) = {}
    BY DEF ChainValid, VerifyAuditChain
  <2>1. \A x \in Chain(c) : x.hash # NoHash
    BY <1>1 DEF Rows, Chain
  <2>2. ASSUME NEW y \in BrokenLinks(Chain(c))
        PROVE  FALSE
    <3>1. Linked(y, records)
      BY <1>1, <2>1 DEF Links, BrokenLinks, Chain
    <3>2. Earlier(y, Chain(c)) \subseteq Chain(c)
      BY DEF Earlier
    <3> QED
      BY <1>1, <2>1, <3>1, <3>2, LinkedBreaks
  <2> QED
    BY <2>1, <2>2 DEF Unsealed
<1> QED
  BY LinksAlways, <1>1, PTL

\* What comes before a record of a window, but not in the window, comes before
\* everything in it.
LEMMA WindowPrefix ==
  ASSUME TypeOK, NEW c \in Chains, NEW time \in 0 .. MaxTime, NEW y \in Since(c, time),
         NEW x \in Earlier(y, Chain(c)), IsLast(x, Earlier(y, Chain(c)))
  PROVE  /\ x.at >= time => IsLast(x, Earlier(y, Since(c, time)))
         /\ x.at < time => Earlier(y, Since(c, time)) = {}
<1>1. Chain(c) \subseteq Records
  BY DEF Chain, TypeOK
<1>2. Earlier(y, Since(c, time)) \subseteq Earlier(y, Chain(c))
  BY DEF Earlier, Since
<1>3. ASSUME x.at >= time
      PROVE  IsLast(x, Earlier(y, Since(c, time)))
  <2>1. x \in Earlier(y, Since(c, time))
    BY <1>3 DEF Earlier, Since
  <2> QED
    BY <1>2, <2>1 DEF IsLast
<1>4. ASSUME x.at < time, NEW z \in Earlier(y, Since(c, time))
      PROVE  FALSE
  <2>1. z \in Records /\ x \in Records /\ z.at >= time
    BY <1>1 DEF Earlier, Since
  <2>2. z = x \/ Before(z, x)
    BY <1>2 DEF IsLast
  <2> QED
    BY <1>4, <2>1, <2>2 DEF Records, Before
<1> QED
  BY <1>3, <1>4

\* The monitor's window hides nothing that is wrong with the records in it,
\* except at a record that claims to be the first and that a late one displaced.
THEOREM MonitorHidesNothing == Spec => []MonitorMissesNothing
<1>1. ASSUME TypeOK, Prefixed, Links
      PROVE  MonitorMissesNothing
  <2> SUFFICES ASSUME NEW c \in Chains, NEW time \in 0 .. MaxTime, NEW y \in Since(c, time),
                      y \in BrokenLinks(Chain(c)), y.hash # NoHash,
                      ~(y \in Displaced(c) /\ y.prev = NoHash)
               PROVE  y \in BrokenLinks(Since(c, time))
    BY DEF MonitorMissesNothing, RunIntegrityVerification, Unsealed, Since
  <2> DEFINE P == Earlier(y, Chain(c))
             Q == Earlier(y, Since(c, time))
  <2>1. /\ Chain(c) \subseteq Records /\ P \subseteq Records /\ Q \subseteq Records
        /\ P \subseteq Chain(c) /\ Q \subseteq P /\ y \in Chain(c)
    BY <1>1 DEF Chain, TypeOK, Earlier, Since
  <2>2. y.prev # LastHash(P) /\ time \in Nat
    BY DEF BrokenLinks
  <2>3. CASE P = {}
    BY <2>1, <2>2, <2>3 DEF BrokenLinks
  <2>4. ASSUME NEW x \in P, IsLast(x, P)
        PROVE  y \in BrokenLinks(Since(c, time))
    <3>1. LastHash(P) = x.hash
      <4> HIDE DEF P
      <4> QED
        BY <2>1, <2>4, LastIsLast
    <3>2. CASE x.at >= time
      <4>1. IsLast(x, Q) /\ x \in Q
        BY <1>1, <2>1, <2>4, <3>2, WindowPrefix DEF IsLast
      <4>2. LastHash(Q) = x.hash
        <5> HIDE DEF Q
        <5> QED
          BY <2>1, <4>1, LastIsLast
      <4> QED
        BY <2>2, <3>1, <4>2 DEF BrokenLinks
    <3>3. CASE x.at < time
      <4>1. LastHash(Q) = NoHash
        BY <1>1, <2>1, <2>4, <3>3, WindowPrefix DEF LastHash
      <4>2. ASSUME y.prev = NoHash
            PROVE  FALSE
        <5>1. y \notin Displaced(c)
          BY <4>2
        <5>2. Linked(y, records)
          BY <1>1, <2>1, <5>1 DEF Links, Chain, Displaced
        <5>3. PICK z \in P : IsLast(z, P) /\ (z.hash = NoHash \/ z.late)
          BY <1>1, <5>2, LinkedBreaks
        <5>4. LastHash(P) = z.hash
          <6> HIDE DEF P
          <6> QED
            BY <2>1, <5>3, LastIsLast
        <5>5. ~z.late
          BY <2>1, <5>1, <5>3 DEF Displaced
        <5> QED
          BY <2>2, <4>2, <5>3, <5>4, <5>5
      <4> QED
        BY <4>1, <4>2 DEF BrokenLinks
    <3>4. x.at \in Int /\ time \in Int
      BY <2>1, <2>2 DEF Records
    <3> QED
      BY <3>2, <3>3, <3>4
  <2>5. P = {} \/ \E x \in P : IsLast(x, P)
    BY <1>1, <2>1 DEF Prefixed, HasLast
  <2> QED
    BY <2>3, <2>4, <2>5
<1> QED
  BY LinksAlways, <1>1, PTL

-----------------------------------------------------------------------------
\* The chains without direct writers are append-only logs

\* The hash of a sealed record is its identity, which is drawn from Ids.
Hashed ==
  /\ \A x \in records : x.hash # NoHash => x.hash = x.id /\ x.id \in Ids
  /\ \A w \in Writers : Pending(w) =>
       LET r == writer[w].row IN r.hash # NoHash => r.hash = r.id /\ r.id \in Ids

\* In a chain without direct writers a row that is not committed yet is linked to
\* the last that is.
Tail ==
  \A w \in Writers : Pending(w) /\ ChainOf[w] \in SealedChains
                       => writer[w].row.prev = LastHash(Chain(ChainOf[w]))

LEMMA HashedStep ==
  ASSUME TypeOK, Ordered, Rows, Hashed, [Next]_vars
  PROVE  Hashed'
<1>1. ASSUME records' = records,
             \A w \in Writers : Pending(w)' => Pending(w) /\ writer'[w] = writer[w]
      PROVE  Hashed'
  BY <1>1 DEF Hashed
<1>2. ASSUME NEW w \in Writers, Seal(w) \/ InsertPlain(w), records' = records
      PROVE  Hashed'
  <2>1. PICK r \in Records :
           /\ writer' = [writer EXCEPT ![w] = [step |-> "inserted", row |-> r]]
           /\ r.hash # NoHash => r.hash = r.id /\ r.id \in Ids
    BY <1>2, NewRow
  <2>2. \A v \in Writers : writer'[v] = IF v = w THEN [step |-> "inserted", row |-> r]
                                        ELSE writer[v]
    BY <2>1 DEF TypeOK
  <2> QED
    BY <1>2, <2>1, <2>2 DEF Hashed, Pending
<1>3. ASSUME NEW w \in Writers, Commit(w)
      PROVE  Hashed'
  BY <1>3, CommitEffect DEF Hashed
<1> QED
  BY <1>1, <1>2, <1>3, Effects

LEMMA TailStep ==
  ASSUME TypeOK, Ordered, Rows, Tail, [Next]_vars
  PROVE  Tail'
<1>1. ASSUME records' = records,
             \A w \in Writers : Pending(w)' => Pending(w) /\ writer'[w] = writer[w]
      PROVE  Tail'
  BY <1>1 DEF Tail, Chain, LastHash
<1>2. ASSUME NEW w \in Writers, Seal(w) \/ InsertPlain(w), records' = records
      PROVE  Tail'
  <2>1. PICK r \in Records :
           /\ writer' = [writer EXCEPT ![w] = [step |-> "inserted", row |-> r]]
           /\ w \notin Plain => r.prev = LastHash(Chain(ChainOf[w]))
    BY <1>2, NewRow
  <2>2. \A v \in Writers : writer'[v] = IF v = w THEN [step |-> "inserted", row |-> r]
                                        ELSE writer[v]
    BY <2>1 DEF TypeOK
  <2>3. ASSUME NEW v \in Writers, Pending(v)', ChainOf[v] \in SealedChains
        PROVE  writer'[v].row.prev = LastHash(Chain(ChainOf[v]))
    BY <2>1, <2>2, <2>3 DEF Tail, Pending, SealedChains
  <2>4. \A c : LastHash(Chain(c))' = LastHash(Chain(c))
    BY <1>2 DEF LastHash, Chain
  <2> QED
    BY <2>3, <2>4 DEF Tail, SealedChains
<1>3. ASSUME NEW w \in Writers, Commit(w),
             NEW v \in Writers, Pending(v)', ChainOf[v] \in SealedChains
      PROVE  writer'[v].row.prev = LastHash(Chain(ChainOf[v]))'
  <2> DEFINE r == writer[w].row
             c == ChainOf[v]
  <2>1. /\ records' = records \cup {r}
        /\ Pending(w) /\ PendingRow(w)
        /\ v # w /\ Pending(v) /\ writer'[v] = writer[v]
    BY <1>3, CommitEffect
  <2>2. r.chain # c
    <3>1. c \in Chains /\ v \notin Plain
      BY <1>3 DEF SealedChains
    <3>2. ASSUME ChainOf[w] = c
          PROVE  FALSE
      <4>1. w \in holder[c] /\ v \in holder[c]
        BY <1>3, <2>1, <3>1, <3>2 DEF TypeOK, Pending, SealedChains
      <4> QED
        BY <2>1, <3>1, <4>1 DEF TypeOK
    <3> QED
      BY <2>1, <3>2 DEF PendingRow
  <2>3. Chain(c)' = Chain(c)
    BY <2>1, <2>2 DEF Chain
  <2>4. LastHash(Chain(c))' = LastHash(Chain(c))
    BY <2>3 DEF LastHash
  <2> QED
    BY <1>3, <2>1, <2>4 DEF Tail
<1>4. ASSUME NEW w \in Writers, Commit(w)
      PROVE  Tail'
  BY <1>3, <1>4 DEF Tail, SealedChains
<1> QED
  BY <1>1, <1>2, <1>4, Effects

LogInv == TypeOK /\ Ordered /\ Rows /\ Links /\ Hashed /\ Tail

\* A row committed to a sealed chain is linked to the last row there, and is last
\* from then on unless it is late.
LEMMA Appends ==
  ASSUME LogInv, NEW w \in Writers, Commit(w), ChainOf[w] \in SealedChains
  PROVE  LET r == writer[w].row
             R == Chain(ChainOf[w])
         IN /\ r.hash \in Ids \ {NoHash}
            /\ r.prev = LastHash(R)
            /\ IF r.late THEN R # {} /\ LastHash(R \cup {r}) = LastHash(R)
                         ELSE LastHash(R \cup {r}) = r.hash
<1> DEFINE r == writer[w].row
           R == Chain(ChainOf[w])
<1>1. /\ r \in Records /\ r.chain = ChainOf[w]
      /\ w \in Plain <=> r.hash = NoHash
      /\ \A x \in records : x.id # r.id
      /\ Pending(w)
  BY CommitEffect DEF LogInv, PendingRow
<1>2. w \notin Plain /\ ChainOf[w] \in Chains
  BY DEF SealedChains
<1>3. R \subseteq Records /\ \A x \in R : x \in records /\ x.hash # NoHash
  BY DEF LogInv, TypeOK, Rows, Chain, SealedChains
<1>4. IF r.late THEN \E x \in R : Before(r, x) ELSE \A x \in R : Before(x, r)
  BY <1>1, <1>2, <1>3 DEF LogInv, Links, SealedRow
<1>5. r.prev = LastHash(R)
  BY <1>1 DEF LogInv, Tail
<1>6. r.hash \in Ids \ {NoHash}
  BY <1>1, <1>2 DEF LogInv, Hashed
<1>7. R = {} \/ \E x \in R : IsLast(x, R)
  BY <1>2 DEF LogInv, Ordered
<1>8. \A x \in R : x.id # r.id
  BY <1>1, <1>3
<1> HIDE DEF r, R
<1>9. R \cup {r} \in SUBSET Records
  BY <1>1, <1>3 DEF r
<1>10. CASE ~r.late
  <2>1. IsLast(r, R \cup {r})
    BY <1>4, <1>10 DEF IsLast
  <2>2. LastHash(R \cup {r}) = r.hash
    BY <1>9, <2>1, LastIsLast
  <2> QED
    BY <1>5, <1>6, <1>10, <2>2 DEF r, R
<1>11. CASE r.late
  <2>1. PICK z \in R : Before(r, z)
    BY <1>4, <1>11
  <2>2. PICK x \in R : IsLast(x, R)
    BY <1>7, <2>1
  <2>3. Before(r, x)
    BY <1>1, <1>3, <2>1, <2>2, Transitive DEF IsLast, r
  <2>4. IsLast(x, R \cup {r})
    BY <2>2, <2>3 DEF IsLast
  <2>5. LastHash(R \cup {r}) = x.hash /\ LastHash(R) = x.hash
    BY <1>3, <1>9, <2>2, <2>4, LastIsLast
  <2> QED
    BY <1>5, <1>6, <1>11, <2>1, <2>5 DEF r, R
<1> QED
  BY <1>10, <1>11

LEMMA MapsCommit ==
  ASSUME LogInv, NEW w \in Writers, Commit(w)
  PROVE  [Log!Next]_(Log!vars)
<1> DEFINE r == writer[w].row
           c == ChainOf[w]
<1>1. /\ records' = records \cup {r} /\ r.chain = c
      /\ \A x \in records : x.id # r.id
  BY CommitEffect DEF LogInv, PendingRow
<1>2. Chain(c)' = Chain(c) \cup {r} /\ \A d \in Chains \ {c} : Chain(d)' = Chain(d)
  BY <1>1 DEF Chain
<1>3. CASE c \notin SealedChains
  <2>1. \A d \in SealedChains : Chain(d)' = Chain(d)
    BY <1>2, <1>3 DEF SealedChains
  <2>2. \A d \in SealedChains : LinksOf(Chain(d))' = LinksOf(Chain(d))
                               /\ LastHash(Chain(d))' = LastHash(Chain(d))
    BY <2>1
  <2> QED
    BY <2>2 DEF Log!vars
<1>4. CASE c \in SealedChains
  <2>1. /\ r.hash \in Ids \ {NoHash} /\ r.prev = LastHash(Chain(c))
        /\ IF r.late THEN Chain(c) # {} /\ LastHash(Chain(c) \cup {r}) = LastHash(Chain(c))
                     ELSE LastHash(Chain(c) \cup {r}) = r.hash
    BY <1>4, Appends
  <2>2. PICK row : row = r
    OBVIOUS
  <2>3. \A d \in SealedChains : \A l \in LinksOf(Chain(d)) : l.hash # row.hash
    <3>1. \A x \in records : x.hash # NoHash => x.hash # row.hash
      BY <1>1, <2>1, <2>2, CommitEffect DEF LogInv, Hashed
    <3>2. \A d \in SealedChains : \A x \in Chain(d) : x \in records /\ x.hash # NoHash
      BY DEF LogInv, Rows, Chain, SealedChains
    <3> QED
      BY <3>1, <3>2 DEF LinksOf
  <2>4. LinksOf(Chain(c))' = LinksOf(Chain(c)) \cup {[prev |-> LastHash(Chain(c)),
                                                    hash |-> row.hash, late |-> row.late]}
    BY <1>2, <2>1, <2>2 DEF LinksOf
  <2>5. LastHash(Chain(c))' = IF row.late THEN LastHash(Chain(c)) ELSE row.hash
    BY <1>2, <2>1, <2>2 DEF LastHash
  <2>6. \A d \in SealedChains \ {c} : LinksOf(Chain(d))' = LinksOf(Chain(d))
                                      /\ LastHash(Chain(d))' = LastHash(Chain(d))
    BY <1>2 DEF SealedChains
  <2>7. row.late \in BOOLEAN
    BY <2>2, CommitEffect DEF LogInv, Records
  <2>8. CASE ~row.late
    <3>1. Log!Append(c, row.hash)
      BY <1>4, <2>1, <2>2, <2>3, <2>4, <2>5, <2>6, <2>7, <2>8 DEF Log!Append, Log!Link
    <3> QED
      BY <1>4, <2>1, <2>2, <3>1 DEF Log!Next
  <2>9. CASE row.late
    <3>1. LinksOf(Chain(c)) # {}
      BY <2>1, <2>2, <2>9 DEF LinksOf
    <3>2. [d \in SealedChains |-> LastHash(Chain(d))]' = [d \in SealedChains |-> LastHash(Chain(d))]
      BY <2>5, <2>6, <2>9
    <3>3. Log!Fork(c, row.hash)
      BY <1>4, <2>1, <2>2, <2>3, <2>4, <2>6, <2>7, <2>9, <3>1, <3>2 DEF Log!Fork, Log!Link
    <3> QED
      BY <1>4, <2>1, <2>2, <3>3 DEF Log!Next
  <2> QED
    BY <2>7, <2>8, <2>9
<1> QED
  BY <1>3, <1>4

\* A chain that no service writes to directly is an append-only log: every
\* transaction that commits to it appends one record that is linked to the last
\* one, and is last itself unless it was stamped before it, and no record changes
\* or goes (Implements).
THEOREM SealedChainsAreLogs == Spec => Implements
<1>1. Init => LogInv
  BY InitAll DEF Init, LogInv, Hashed, Tail, Pending, Free
<1>2. LogInv /\ [Next]_vars => LogInv'
  BY TInvStep, OrderedStep, RowsStep, LinksStep, HashedStep, TailStep DEF LogInv
<1>3. Init => Log!Init
  BY DEF Init, Log!Init, Chain, LinksOf, LastHash
<1>4. LogInv /\ [Next]_vars => [Log!Next]_(Log!vars)
  <2> SUFFICES ASSUME LogInv, [Next]_vars
               PROVE  [Log!Next]_(Log!vars)
    OBVIOUS
  <2>1. CASE records' = records
    BY <2>1 DEF Log!vars, Chain, LinksOf, LastHash
  <2> QED
    BY <2>1, Effects, MapsCommit DEF LogInv
<1> QED
  BY <1>1, <1>2, <1>3, <1>4, PTL DEF Spec, Implements, Log!Spec
=============================================================================
