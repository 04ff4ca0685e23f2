------------------------- MODULE SessionGuardProofs -------------------------
(***************************************************************************)
(* What holds of the guard for any number of processes, sessions and       *)
(* users, and any durations with CacheTtl + Throttle < IdleLimit and       *)
(* CacheTtl <= Absolute.                                                   *)
(*                                                                         *)
(* Two dozen actions touch the same few things.  The proofs first say what *)
(* any step may do to each of them (Step): a row only grows, a token is    *)
(* forgotten, used or given by the request at hand, a request is answered  *)
(* or reads, the platform's state is what a request read.  Each invariant  *)
(* is then proved once, of Step.                                           *)
(***************************************************************************)
EXTENDS SessionGuard, TLAPS

\* A row that was read is still there, and still revoked if it was: nothing deletes a row
\* or takes a revocation back.
SnapshotKept ==
  \A p \in Procs : req[p] # None /\ req[p].row # None =>
    Known(req[p].s) /\ (req[p].row.revokedAt # Never => Revoked(req[p].s))

TInv == TypeOK /\ SnapshotKept

-----------------------------------------------------------------------------
\* What a step may do

RowStep(s) ==
  IF Known(s)
  THEN /\ row'[s] \in Rows
       /\ row'[s].created = row[s].created
       /\ row'[s].active \in {row[s].active, now}
       /\ row'[s].revokedAt \in {row[s].revokedAt, now}
  ELSE \/ row'[s] = None
       \/ /\ row'[s] \in Rows
          /\ row'[s].created = now
          /\ row'[s].active = now
          /\ row'[s].revokedAt = Never

RowsStep ==
  /\ row' \in [Sessions -> Rows \cup {None}]
  /\ \A s \in Sessions : RowStep(s)

\* A token used from memory only dates its use.
Used(p, s) ==
  /\ token[p][s] # None
  /\ Hit(p, s)
  /\ token'[p][s] \in Tokens
  /\ token'[p][s].created = token[p][s].created
  /\ token'[p][s].expires = token[p][s].expires
  /\ token'[p][s].remember = token[p][s].remember
  /\ token'[p][s].active = now

\* What a request that is let in says of its session: when it was created, and its use,
\* which may not have been written.
Noted(p, s) ==
  LET r == req[p]
      t == token'[p][s]
  IN \/ r.row = None /\ row'[s] = None /\ t.created = r.start /\ t.active = r.start
     \/ /\ r.row = None /\ row'[s] # None
        /\ t.created = row'[s].created /\ t.active = row'[s].active
     \/ /\ r.row # None
        /\ r.row.revokedAt = Never
        /\ t.created = r.row.created
        /\ \/ r.start <= r.row.active + Throttle /\ t.active = r.row.active
           \/ /\ t.active = r.start
              /\ row'[s].active = now \/ s \in unseen'

Given(p, s) ==
  /\ req[p] # None
  /\ req[p].s = s
  /\ Welcome(req[p])
  /\ token'[p][s] \in Tokens
  /\ token'[p][s].expires = req[p].start + CacheTtl
  /\ token'[p][s].remember \in Headers(s)
  /\ Noted(p, s)

TokensStep ==
  /\ token' \in [Procs -> [Sessions -> Tokens \cup {None}]]
  /\ \A p \in Procs, s \in Sessions :
       token'[p][s] = token[p][s] \/ token'[p][s] = None \/ Used(p, s) \/ Given(p, s)

BlocksStep ==
  /\ blocked' \in [Procs -> SUBSET Sessions]
  /\ \A p \in Procs, s \in Sessions :
       s \in blocked'[p] \ blocked[p] =>
         \/ ~Active(s)'
         \/ s \in leaving'[p]
         \/ req[p] # None /\ req[p].s = s /\ (req[p].locked \/ RanOut(req[p]))
         \/ row' = row /\ Hit(p, s) /\ Outlived(token[p][s])

Remembered(p) == state[p] # None /\ now < state[p].expires

Reads(p, r) ==
  /\ r \in Requests
  /\ r.start = now
  /\ r.row = row[r.s]
  /\ r.emergency = IF Remembered(p) THEN state[p].on ELSE Emergency
  /\ r.fresh = ~Remembered(p)

ReqsStep ==
  /\ req' \in [Procs -> Requests \cup {None}]
  /\ \A p \in Procs : req'[p] = req[p] \/ req'[p] = None \/ Reads(p, req'[p])

StatesStep ==
  /\ state' \in [Procs -> States \cup {None}]
  /\ \A p \in Procs :
       \/ state'[p] = state[p]
       \/ state'[p] = None
       \/ /\ req[p] # None
          /\ req[p].fresh
          /\ state'[p] = [on |-> req[p].emergency, expires |-> req[p].start + StateTtl]

EmergencyStep ==
  \/ emergency' \in {emergency, Never}
  \/ emergency = Never /\ emergency' = now

\* As the clock moves, what a process remembers may expire.
ClockStep ==
  \/ now' = now
  \/ /\ now < MaxTime
     /\ now' = now + 1
     /\ UNCHANGED <<row, req, emergency, unseen>>

\* A session's use is recorded again only as it is.
UnseenStep ==
  /\ unseen' \in SUBSET Sessions
  /\ \A s \in unseen \ unseen' : row'[s] # None /\ row'[s].active = now

LeavingStep == leaving' \in [Procs -> SUBSET Sessions]

Step ==
  /\ RowsStep /\ TokensStep /\ BlocksStep /\ ReqsStep /\ StatesStep
  /\ EmergencyStep /\ ClockStep /\ UnseenStep /\ LeavingStep
  /\ locked' \in SUBSET Users
  /\ chosen' = chosen

-----------------------------------------------------------------------------
\* Facts about the values

LEMMA RowFields ==
  ASSUME NEW r \in Rows
  PROVE  /\ r.created \in Times /\ r.active \in Times /\ r.expires \in Nat
         /\ r.remember \in BOOLEAN /\ r.revokedAt \in Times
  BY DEF Rows

LEMMA RowKnown ==
  ASSUME TypeOK, NEW s \in Sessions, Known(s)
  PROVE  row[s] \in Rows
  BY DEF TypeOK, Known

LEMMA ReqFields ==
  ASSUME TypeOK, NEW p \in Procs, req[p] # None
  PROVE  /\ req[p] \in Requests
         /\ req[p].s \in Sessions /\ req[p].start \in Times
         /\ req[p].row # None => req[p].row \in Rows
         /\ req[p].locked \in BOOLEAN /\ req[p].emergency \in BOOLEAN
         /\ req[p].fresh \in BOOLEAN
  BY DEF TypeOK, Requests

LEMMA TokenFields ==
  ASSUME NEW t \in Tokens
  PROVE  /\ t.created \in Times /\ t.active \in Times
         /\ t.expires \in Nat /\ t.remember \in BOOLEAN
  BY DEF Tokens

LEMMA Clock ==
  ASSUME TypeOK
  PROVE  /\ now \in Nat /\ now \in Times /\ now < Never /\ Never \in Nat /\ Never \in Times
         /\ now < MaxTime => now + 1 \in 0 .. MaxTime
         /\ Absolute \in Nat /\ Persistent \in Nat /\ CacheTtl \in Nat /\ StateTtl \in Nat
         /\ Throttle \in Nat /\ IdleLimit \in Nat
         /\ \A t \in Times : t \in Nat
  BY GuardAssumption DEF TypeOK, Times, Never, Duration

LEMMA HeadersChoose ==
  ASSUME TypeOK, NEW s \in Sessions, NEW h \in Headers(s)
  PROVE  h \in BOOLEAN /\ (h => chosen[s])
  BY GuardAssumption DEF TypeOK, Headers

\* What leaves a thing alone is a step of it.
LEMMA Same ==
  ASSUME TypeOK
  PROVE  /\ row' = row => RowsStep
         /\ token' = token => TokensStep
         /\ blocked' = blocked => BlocksStep
         /\ req' = req => ReqsStep
         /\ state' = state => StatesStep
         /\ emergency' = emergency => EmergencyStep
         /\ now' = now => ClockStep
         /\ locked' = locked => locked' \in SUBSET Users
         /\ unseen' = unseen => UnseenStep
         /\ leaving' = leaving => LeavingStep
<1>1. ASSUME row' = row
      PROVE  RowsStep
  <2>1. row' \in [Sessions -> Rows \cup {None}]
    BY <1>1 DEF TypeOK
  <2>2. ASSUME NEW s \in Sessions
        PROVE  RowStep(s)
    <3>1. CASE Known(s)
      BY <1>1, <3>1, RowKnown DEF RowStep
    <3>2. CASE ~Known(s)
      BY <1>1, <3>2 DEF RowStep, Known
    <3> QED
      BY <3>1, <3>2
  <2> QED
    BY <2>1, <2>2 DEF RowsStep
<1>2. token' = token => TokensStep
  BY DEF TypeOK, TokensStep
<1>3. blocked' = blocked => BlocksStep
  BY DEF TypeOK, BlocksStep
<1>4. req' = req => ReqsStep
  BY DEF TypeOK, ReqsStep
<1>5. state' = state => StatesStep
  BY DEF TypeOK, StatesStep
<1>6. emergency' = emergency => EmergencyStep
  BY DEF EmergencyStep
<1>7. now' = now => ClockStep
  BY DEF ClockStep
<1>8. locked' = locked => locked' \in SUBSET Users
  BY DEF TypeOK
<1>9. (unseen' = unseen => UnseenStep) /\ (leaving' = leaving => LeavingStep)
  BY DEF TypeOK, UnseenStep, LeavingStep
<1> QED
  BY <1>1, <1>2, <1>3, <1>4, <1>5, <1>6, <1>7, <1>8, <1>9

-----------------------------------------------------------------------------
\* The helpers of the actions

LEMMA Forgets ==
  ASSUME TypeOK, NEW p \in Procs, NEW s \in Sessions, Forget(p, s)
  PROVE  TokensStep
<1>1. \A q \in Procs, z \in Sessions : token'[q][z] = token[q][z] \/ token'[q][z] = None
  BY DEF Forget, TypeOK
<1>2. token' \in [Procs -> [Sessions -> Tokens \cup {None}]]
  BY DEF Forget, TypeOK
<1> QED
  BY <1>1, <1>2 DEF TokensStep

LEMMA Blocks ==
  ASSUME TypeOK, NEW p \in Procs, NEW s \in Sessions, Block(p, s),
         \/ ~Active(s)'
         \/ req[p] # None /\ req[p].s = s /\ (req[p].locked \/ RanOut(req[p]))
         \/ row' = row /\ Hit(p, s) /\ Outlived(token[p][s])
  PROVE  BlocksStep
<1>1. blocked' \in [Procs -> SUBSET Sessions]
  BY DEF Block, TypeOK
<1>2. \A q \in Procs, z \in Sessions : z \in blocked'[q] \ blocked[q] => q = p /\ z = s
  BY DEF Block, TypeOK
<1> QED
  BY <1>1, <1>2 DEF BlocksStep

LEMMA Answers ==
  ASSUME TypeOK, NEW p \in Procs, Answer(p)
  PROVE  ReqsStep
  BY DEF Answer, ReqsStep, TypeOK

LEMMA Judges ==
  ASSUME TypeOK, NEW p \in Procs, Judge(p)
  PROVE  ReqsStep /\ StatesStep /\ EmergencyStep /\ ClockStep /\ locked' \in SUBSET Users
<1>1. ReqsStep
  BY Answers DEF Judge
<1>2. CASE req[p].fresh
  <2> DEFINE new == [on |-> req[p].emergency, expires |-> req[p].start + StateTtl]
  <2>1. new \in States
    BY ReqFields, Clock DEF Judge, States
  <2>2. state' = [state EXCEPT ![p] = new]
    BY <1>2 DEF Judge
  <2> HIDE DEF new
  <2>3. \A q \in Procs : state'[q] = IF q = p THEN new ELSE state[q]
    BY <2>2 DEF TypeOK
  <2>4. state' \in [Procs -> States \cup {None}]
    BY <2>1, <2>2 DEF TypeOK
  <2> QED
    BY <1>1, <1>2, <2>3, <2>4, Same DEF Judge, StatesStep, new
<1>3. CASE ~req[p].fresh
  BY <1>1, <1>3, Same DEF Judge
<1> QED
  BY <1>2, <1>3

\* Signing sessions out only dates their revocation.
LEMMA SignsOut ==
  ASSUME TypeOK, NEW S, \A s \in S : Active(s), S \subseteq Sessions, SignOut(S)
  PROVE  /\ RowsStep
         /\ \A s \in S : ~Active(s)'
         /\ \A s \in Sessions \ S : row'[s] = row[s]
<1> DEFINE out(s) == [row[s] EXCEPT !.revokedAt = now]
<1>1. \A s \in Sessions : row'[s] = IF s \in S THEN out(s) ELSE row[s]
  BY DEF SignOut
<1>2. ASSUME NEW s \in S
      PROVE  /\ out(s) \in Rows
             /\ out(s).created = row[s].created
             /\ out(s).active = row[s].active
             /\ out(s).revokedAt = now
  <2>1. row[s] \in Rows
    BY <1>2, RowKnown DEF Active
  <2> QED
    BY <2>1, Clock DEF Rows
<1>3. row' = [s \in Sessions |-> IF s \in S THEN out(s) ELSE row[s]]
  BY DEF SignOut
<1> HIDE DEF out
<1>4. ASSUME NEW s \in Sessions
      PROVE  RowStep(s)
  <2>1. CASE s \in S
    BY <1>1, <1>2, <2>1 DEF RowStep, Active
  <2>2. CASE s \notin S /\ Known(s)
    BY <1>1, <2>2, RowKnown DEF RowStep
  <2>3. CASE s \notin S /\ ~Known(s)
    BY <1>1, <2>3 DEF RowStep, Known
  <2> QED
    BY <2>1, <2>2, <2>3
<1>5. row' \in [Sessions -> Rows \cup {None}]
  BY <1>2, <1>3 DEF TypeOK
<1>6. \A s \in S : ~Active(s)'
  BY <1>1, <1>2, Clock DEF Active
<1> QED
  BY <1>1, <1>4, <1>5, <1>6 DEF RowsStep

LEMMA BlocksHere ==
  ASSUME TypeOK, NEW p \in Procs, NEW S \in SUBSET Sessions, NEW U, BlockHere(p, S, U),
         \A s \in S : ~Active(s)' \/ s \in leaving'[p]
  PROVE  BlocksStep /\ TokensStep
<1>1. BlocksStep
  <2>1. blocked' \in [Procs -> SUBSET Sessions]
    BY DEF BlockHere, TypeOK
  <2>2. \A q \in Procs, z \in Sessions : z \in blocked'[q] \ blocked[q] => q = p /\ z \in S
    BY DEF BlockHere, TypeOK
  <2> QED
    BY <2>1, <2>2 DEF BlocksStep
<1> DEFINE left == [s \in Sessions |-> IF s \in S \/ UserOf[s] \in U THEN None ELSE token[p][s]]
<1>2. token' = [token EXCEPT ![p] = left]
  BY DEF BlockHere
<1>3. left \in [Sessions -> Tokens \cup {None}]
  BY DEF TypeOK
<1>4. \A s \in Sessions : left[s] = token[p][s] \/ left[s] = None
  OBVIOUS
<1> HIDE DEF left
<1> QED
  BY <1>1, <1>2, <1>3, <1>4 DEF TypeOK, TokensStep

-----------------------------------------------------------------------------
\* Every step is one

\* The row of the request, whether or not the header's choice was written.
LEMMA Upgrades ==
  ASSUME TInv, NEW p \in Procs, req[p] # None, req[p].row # None,
         NEW h \in Headers(req[p].s), NEW new \in Rewritten(req[p], h)
  PROVE  /\ Known(req[p].s)
         /\ new \in Rows
         /\ new.created = row[req[p].s].created
         /\ new.active = row[req[p].s].active
         /\ new.revokedAt = row[req[p].s].revokedAt
<1> DEFINE r == req[p]
           old == row[r.s]
<1>1. Known(r.s) /\ r.s \in Sessions
  BY ReqFields DEF TInv, SnapshotKept
<1>2. old \in Rows
  BY <1>1, RowKnown DEF TInv
<1>3. r.row \in Rows /\ r.row.created + Persistent \in Nat
  BY ReqFields, RowFields, Clock DEF TInv
<1> HIDE DEF r, old
<1> DEFINE up == [old EXCEPT !.remember = TRUE, !.expires = r.row.created + Persistent]
<1>4. /\ up \in Rows
      /\ up.created = old.created /\ up.active = old.active
      /\ up.revokedAt = old.revokedAt
  BY <1>2, <1>3 DEF Rows
<1>5. new = up \/ new = old
  BY DEF Upgraded, Rewritten, old, r
<1> HIDE DEF up
<1> QED
  BY <1>1, <1>2, <1>4, <1>5 DEF r, old

\* Writing one row is a step of the rows, if it is one of that row.
LEMMA WritesRow ==
  ASSUME TypeOK, NEW s \in Sessions, NEW new \in Rows, row' = [row EXCEPT ![s] = new],
         IF Known(s)
         THEN /\ new.created = row[s].created
              /\ new.active \in {row[s].active, now}
              /\ new.revokedAt \in {row[s].revokedAt, now}
         ELSE new.created = now /\ new.active = now /\ new.revokedAt = Never
  PROVE  RowsStep /\ row'[s] = new
<1>1. row' \in [Sessions -> Rows \cup {None}] /\ row'[s] = new
  BY DEF TypeOK
<1>2. ASSUME NEW z \in Sessions
      PROVE  RowStep(z)
  <2>1. CASE z = s
    BY <1>1, <2>1 DEF RowStep
  <2>2. CASE z # s
    <3>1. row'[z] = row[z]
      BY <2>2 DEF TypeOK
    <3>2. CASE Known(z)
      BY <3>1, <3>2, RowKnown DEF RowStep
    <3>3. CASE ~Known(z)
      BY <3>1, <3>3 DEF RowStep, Known
    <3> QED
      BY <3>2, <3>3
  <2> QED
    BY <2>1, <2>2
<1> QED
  BY <1>1, <1>2 DEF RowsStep

\* The token a request is let in with.
LEMMA Remembers ==
  ASSUME TypeOK, NEW p \in Procs, req[p] # None, Welcome(req[p]),
         NEW h \in Headers(req[p].s), NEW c \in Times, NEW a \in Times,
         Remember(p, req[p], h, c, a),
         \/ /\ req[p].row = None /\ row'[req[p].s] = None
            /\ c = req[p].start /\ a = req[p].start
         \/ /\ req[p].row = None /\ row'[req[p].s] # None
            /\ c = row'[req[p].s].created /\ a = row'[req[p].s].active
         \/ /\ req[p].row # None /\ req[p].row.revokedAt = Never
            /\ c = req[p].row.created
            /\ \/ req[p].start <= req[p].row.active + Throttle /\ a = req[p].row.active
               \/ a = req[p].start /\ (row'[req[p].s].active = now \/ req[p].s \in unseen')
  PROVE  TokensStep
<1> DEFINE s == req[p].s
           t == [created |-> c, active |-> a, remember |-> h, expires |-> req[p].start + CacheTtl]
<1>1. s \in Sessions /\ req[p].start \in Nat /\ CacheTtl \in Nat /\ h \in BOOLEAN
  BY ReqFields, Clock, HeadersChoose
<1>2. t \in Tokens
  BY <1>1 DEF Tokens
<1>3. t.created = c /\ t.active = a /\ t.remember = h /\ t.expires = req[p].start + CacheTtl
  OBVIOUS
<1>4. token' = [token EXCEPT ![p][s] = t]
  BY DEF Remember
<1> HIDE DEF t
<1>5. token' \in [Procs -> [Sessions -> Tokens \cup {None}]] /\ token'[p][s] = t
  BY <1>1, <1>2, <1>4 DEF TypeOK
<1>6. \A q \in Procs, z \in Sessions : token'[q][z] # token[q][z] => q = p /\ z = s
  BY <1>1, <1>4 DEF TypeOK
<1>7. Noted(p, s)
  BY <1>3, <1>5 DEF Noted
<1>8. Given(p, s)
  BY <1>2, <1>3, <1>5, <1>7 DEF Given
<1> QED
  BY <1>5, <1>6, <1>8 DEF TokensStep

LEMMA MemoryStep ==
  ASSUME TInv, UNCHANGED <<chosen, leaving, unseen>>, NEW p \in Procs, NEW s \in Sessions,
         ServeFromMemory(p, s) \/ RefuseFromMemory(p, s) \/ OutliveInMemory(p, s)
  PROVE  Step
<1> USE DEF TInv
<1>1. CASE ServeFromMemory(p, s)
  <2> DEFINE t == [token[p][s] EXCEPT !.active = now]
  <2>1. token[p][s] \in Tokens /\ Hit(p, s)
    BY <1>1 DEF ServeFromMemory, Hit, TypeOK
  <2>2. /\ t \in Tokens /\ t.created = token[p][s].created /\ t.expires = token[p][s].expires
        /\ t.remember = token[p][s].remember /\ t.active = now
    BY <2>1, Clock DEF Tokens
  <2>3. token' = [token EXCEPT ![p][s] = t]
    BY <1>1 DEF ServeFromMemory
  <2> HIDE DEF t
  <2>4. token' \in [Procs -> [Sessions -> Tokens \cup {None}]] /\ token'[p][s] = t
    BY <2>2, <2>3 DEF TypeOK
  <2>5. \A q \in Procs, z \in Sessions : token'[q][z] # token[q][z] => q = p /\ z = s
    BY <2>3 DEF TypeOK
  <2>6. Used(p, s)
    BY <2>1, <2>2, <2>4 DEF Used, Hit
  <2>7. TokensStep
    BY <2>4, <2>5, <2>6 DEF TokensStep
  <2> QED
    BY <1>1, <2>7, Same DEF ServeFromMemory, Step
<1>2. CASE RefuseFromMemory(p, s)
  BY <1>2, Forgets, Same DEF RefuseFromMemory, Step
<1>3. CASE OutliveInMemory(p, s)
  BY <1>3, Forgets, Blocks, Same DEF OutliveInMemory, Step
<1> QED
  BY <1>1, <1>2, <1>3

LEMMA ReadStep ==
  ASSUME TInv, UNCHANGED <<chosen, leaving, unseen>>, NEW p \in Procs, NEW s \in Sessions, Read(p, s)
  PROVE  Step
<1> USE DEF TInv
<1> DEFINE r == [s |-> s, start |-> now, row |-> row[s], locked |-> UserOf[s] \in locked,
                 emergency |-> IF Remembered(p) THEN state[p].on ELSE Emergency,
                 fresh |-> ~Remembered(p)]
<1>1. (IF Remembered(p) THEN state[p].on ELSE Emergency) \in BOOLEAN
  BY DEF TypeOK, States, Remembered, Emergency
<1>2. (~Remembered(p)) \in BOOLEAN
  BY DEF Remembered
<1>3. r \in Requests
  BY <1>1, <1>2, Clock DEF TypeOK, Requests
<1>4. req' = [req EXCEPT ![p] = r]
  BY DEF Read, Remembered
<1>5. Reads(p, r)
  BY <1>3 DEF Reads
<1> HIDE DEF r
<1>6. ReqsStep
  BY <1>3, <1>4, <1>5 DEF TypeOK, ReqsStep
<1> QED
  BY <1>6, Same DEF Read, Step

LEMMA RefusalStep ==
  ASSUME TInv, UNCHANGED <<chosen, leaving, unseen>>, NEW p \in Procs, RefuseEmergency(p) \/ RefuseLocked(p)
  PROVE  Step
<1> USE DEF TInv
<1>1. req[p] # None /\ req[p].s \in Sessions
  BY ReqFields DEF RefuseEmergency, RefuseLocked, Judge
<1>2. CASE RefuseEmergency(p)
  BY <1>1, <1>2, Judges, Forgets, Same DEF RefuseEmergency, Step
<1>3. CASE RefuseLocked(p)
  BY <1>1, <1>3, Judges, Forgets, Blocks, Same DEF RefuseLocked, Step
<1> QED
  BY <1>2, <1>3

LEMMA RefusedStep ==
  ASSUME TInv, UNCHANGED <<chosen, leaving, unseen>>, NEW p \in Procs, req[p] # None,
         NEW s \in Sessions, req[p].s = s, NEW h \in Headers(s),
         RefuseRevoked(p, h) \/ RefuseExpired(p, h)
  PROVE  Step
<1> USE DEF TInv
<1> DEFINE r == req[p]
<1>0. r.s = s /\ (r.row # None => r.row \in Rows)
  BY ReqFields
<1>1. CASE RefuseRevoked(p, h)
  <2>1. r.row # None /\ Revoked(s)
    BY <1>0, <1>1 DEF RefuseRevoked, SnapshotKept
  <2>2. PICK new \in Rewritten(r, h) : row' = [row EXCEPT ![s] = new]
    BY <1>0, <1>1 DEF RefuseRevoked
  <2>3. /\ Known(s) /\ new \in Rows /\ new.created = row[s].created
        /\ new.active = row[s].active /\ new.revokedAt = row[s].revokedAt
    BY <1>0, <2>1, Upgrades
  <2>4. RowsStep /\ row'[s] = new
    BY <2>2, <2>3, WritesRow
  <2>5. ~Active(s)'
    BY <2>1, <2>3, <2>4 DEF Active, Revoked, Known
  <2>6. Judge(p) /\ Block(p, s) /\ Forget(p, s)
    BY <1>0, <1>1 DEF RefuseRevoked
  <2> QED
    BY <2>4, <2>5, <2>6, Judges, Forgets, Blocks, Same DEF Step
<1>2. CASE RefuseExpired(p, h)
  <2>1. r.row # None /\ Expired(r, h) /\ Judge(p) /\ Block(p, s) /\ Forget(p, s)
    BY <1>0, <1>2 DEF RefuseExpired
  <2>2. PICK new \in Rewritten(r, h) :
          row' \in {[row EXCEPT ![s] = new], [row EXCEPT ![s] = [new EXCEPT !.revokedAt = now]]}
    BY <1>0, <1>2 DEF RefuseExpired
  <2>3. /\ Known(s) /\ new \in Rows /\ new.created = row[s].created
        /\ new.active = row[s].active /\ new.revokedAt = row[s].revokedAt
    BY <1>0, <2>1, Upgrades
  <2> DEFINE out == [new EXCEPT !.revokedAt = now]
  <2>4. /\ out \in Rows /\ out.created = new.created /\ out.active = new.active
        /\ out.revokedAt = now
    BY <2>3, Clock DEF Rows
  <2>5. row' = [row EXCEPT ![s] = new] \/ row' = [row EXCEPT ![s] = out]
    BY <2>2
  <2> HIDE DEF out
  <2>6. RowsStep
    BY <2>3, <2>4, <2>5, WritesRow
  <2>7. RanOut(r)
    <3>1. /\ r.row.created \in Nat /\ r.row.active \in Nat /\ r.start \in Nat
          /\ Absolute \in Nat /\ Persistent \in Nat /\ Absolute <= Persistent
      BY <1>0, <2>1, ReqFields, RowFields, Clock, GuardAssumption
    <3>2. CASE r.start > r.row.expires
      BY <2>1, <3>2 DEF RanOut
    <3>3. CASE r.start > r.row.active + IdleLimit
      BY <2>1, <3>3 DEF RanOut
    <3>4. CASE r.start > r.row.created + Lifetime(h \/ r.row.remember)
      <4>1. r.start > r.row.created + Absolute
        BY <3>1, <3>4 DEF Lifetime
      <4> QED
        BY <2>1, <4>1 DEF RanOut
    <3> QED
      BY <2>1, <3>2, <3>3, <3>4 DEF Expired
  <2> QED
    BY <1>0, <2>1, <2>6, <2>7, Judges, Forgets, Blocks, Same DEF Step
<1> QED
  BY <1>1, <1>2

LEMMA AdmitStep ==
  ASSUME TInv, UNCHANGED <<chosen, leaving>>, NEW p \in Procs, req[p] # None,
         NEW s \in Sessions, req[p].s = s, NEW h \in Headers(s), Admit(p, h)
  PROVE  Step
<1> USE DEF TInv
<1> DEFINE r == req[p]
           quiet == r.start > r.row.active + Throttle
           a == IF quiet THEN r.start ELSE r.row.active
<1>0. r.start \in Times /\ r.s = s
  BY ReqFields
<1>1. /\ r.row # None /\ r.row \in Rows
      /\ r.row.revokedAt = Never /\ Welcome(r) /\ Judge(p) /\ blocked' = blocked
      /\ Remember(p, r, h, r.row.created, a)
  BY <1>0, ReqFields DEF Admit
<1>2. PICK new \in Rewritten(r, h), active \in {row[s].active} \cup (IF quiet THEN {now} ELSE {}) :
        /\ row' = [row EXCEPT ![s] = [new EXCEPT !.active = active]]
        /\ unseen' = IF ~quiet THEN unseen ELSE IF active = now THEN unseen \ {s}
                                                              ELSE unseen \cup {s}
  BY <1>0 DEF Admit
<1>3. /\ Known(s) /\ new \in Rows /\ new.created = row[s].created
      /\ new.active = row[s].active /\ new.revokedAt = row[s].revokedAt
  BY <1>0, <1>1, Upgrades
<1>4. active \in Times /\ active \in {row[s].active, now}
  BY <1>2, <1>3, RowFields, Clock
<1> DEFINE seen == [new EXCEPT !.active = active]
<1>5. /\ seen \in Rows /\ seen.created = new.created /\ seen.active = active
      /\ seen.revokedAt = new.revokedAt
  BY <1>3, <1>4 DEF Rows
<1>6. row' = [row EXCEPT ![s] = seen]
  BY <1>2
<1> HIDE DEF seen
<1>7. RowsStep /\ row'[s] = seen
  <2>1. /\ Known(s) /\ seen \in Rows /\ seen.created = row[s].created
        /\ seen.active \in {row[s].active, now} /\ seen.revokedAt = row[s].revokedAt
    BY <1>3, <1>4, <1>5
  <2> QED
    BY <1>6, <2>1, WritesRow
<1>8. r.row.created \in Times /\ r.row.active \in Times /\ Throttle \in Nat
  BY <1>1, RowFields, Clock
<1>9. UnseenStep
  <2>1. unseen' \in SUBSET Sessions
    BY <1>2 DEF TypeOK
  <2>2. \A z \in unseen \ unseen' : z = s /\ active = now
    BY <1>2
  <2>3. row'[s] # None
    BY <1>5, <1>7, NoneAssumption
  <2> QED
    BY <1>5, <1>7, <2>1, <2>2, <2>3 DEF UnseenStep
<1>10. \/ r.start <= r.row.active + Throttle /\ a = r.row.active
       \/ a = r.start /\ (row'[s].active = now \/ s \in unseen')
  <2>1. CASE quiet
    <3>1. row'[s].active = now \/ s \in unseen'
      BY <1>2, <1>5, <1>7, <2>1
    <3> QED
      BY <2>1, <3>1
  <2>2. CASE ~quiet
    BY <1>0, <1>8, <2>2 DEF Times
  <2> QED
    BY <2>1, <2>2
<1>11. a \in Times
  BY <1>0, <1>8
<1>12. TokensStep
  BY <1>0, <1>1, <1>8, <1>10, <1>11, Remembers
<1> QED
  BY <1>1, <1>7, <1>9, <1>12, Judges, Same DEF Step

LEMMA RegisterStep ==
  ASSUME TInv, UNCHANGED <<chosen, leaving, unseen>>, NEW p \in Procs, req[p] # None,
         NEW s \in Sessions, req[p].s = s, NEW h \in Headers(s), Register(p, h)
  PROVE  Step
<1> USE DEF TInv
<1> DEFINE r == req[p]
           new == [created |-> now, active |-> now, expires |-> r.start + Lifetime(h),
                   remember |-> h, revokedAt |-> Never]
           kept == IF Known(s) THEN row[s] ELSE new
<1>0. r.start \in Times /\ r.s = s
  BY ReqFields
<1>1. /\ row' = row \/ row' = [row EXCEPT ![s] = kept]
      /\ r.row = None /\ Welcome(r) /\ Judge(p) /\ blocked' = blocked
      /\ IF row'[s] = None THEN Remember(p, r, h, r.start, r.start)
                           ELSE Remember(p, r, h, row'[s].created, row'[s].active)
  BY <1>0 DEF Register
<1>2. new \in Rows
  <2>1. h \in BOOLEAN
    BY HeadersChoose
  <2> QED
    BY <1>0, <2>1, Clock DEF Rows, Lifetime
<1>3. new.created = now /\ new.active = now /\ new.revokedAt = Never
  OBVIOUS
<1> HIDE DEF new
<1>4. kept \in Rows
  BY <1>2, RowKnown
<1>5. RowsStep /\ row'[s] \in Rows \cup {None}
  <2>1. CASE row' = row
    BY <2>1, Same DEF TypeOK
  <2>2. CASE row' = [row EXCEPT ![s] = kept]
    <3>1. IF Known(s)
          THEN /\ kept.created = row[s].created /\ kept.active \in {row[s].active, now}
               /\ kept.revokedAt \in {row[s].revokedAt, now}
          ELSE kept.created = now /\ kept.active = now /\ kept.revokedAt = Never
      BY <1>3
    <3> HIDE DEF kept
    <3> QED
      BY <1>4, <2>2, <3>1, WritesRow
  <2> QED
    BY <1>1, <2>1, <2>2
<1>6. row'[s] # None => row'[s].created \in Times /\ row'[s].active \in Times
  BY <1>5, RowFields
<1>7. TokensStep
  <2>1. CASE row'[s] = None
    BY <1>0, <1>1, <2>1, Remembers
  <2>2. CASE row'[s] # None
    BY <1>0, <1>1, <1>6, <2>2, Remembers
  <2> QED
    BY <2>1, <2>2
<1> QED
  BY <1>1, <1>5, <1>7, Judges, Same DEF Step

LEMMA RevocationStep ==
  ASSUME TInv, UNCHANGED <<chosen, leaving, unseen>>, NEW p \in Procs, Revocation(p)
  PROVE  Step
<1> USE DEF TInv
<1>0. \A U : ActiveOf(U) \subseteq Sessions /\ (\A s \in ActiveOf(U) : Active(s))
  BY DEF ActiveOf
<1>1. ASSUME NEW s \in Sessions, RevokeSession(p, s)
      PROVE  Step
  <2>1. RowsStep /\ \A z \in {s} : ~Active(z)'
    BY <1>1, SignsOut DEF RevokeSession
  <2> QED
    BY <1>1, <2>1, BlocksHere, Same DEF RevokeSession, Step
<1>2. ASSUME NEW u \in Users, NEW k,
             RevokeAllOtherSessions(p, u, k) \/ PasswordChanged(p, u, k) \/ PasswordReset(p, u, k)
      PROVE  Step
  <2> DEFINE S == ActiveOf({u}) \ {k}
  <2>0. S \subseteq Sessions /\ \A z \in S : Active(z)
    BY <1>0
  <2>1. /\ SignOut(S)
        /\ BlockHere(p, S, {}) \/ BlockHere(p, S, {u})
        /\ UNCHANGED <<now, locked, emergency, state, req>>
    BY <1>2 DEF RevokeAllOtherSessions, PasswordChanged, PasswordReset
  <2> HIDE DEF S
  <2>2. RowsStep /\ \A z \in S : ~Active(z)'
    BY <2>0, <2>1, SignsOut
  <2>3. BlocksStep /\ TokensStep
    BY <2>0, <2>1, <2>2, BlocksHere
  <2> QED
    BY <2>1, <2>2, <2>3, Same DEF Step
<1>3. ASSUME NEW u \in Users, ForcePasswordReset(p, u)
      PROVE  Step
  <2>1. RowsStep
    BY <1>0, <1>3, SignsOut DEF ForcePasswordReset
  <2>2. BlocksStep
    BY <1>3 DEF ForcePasswordReset, TypeOK, BlocksStep
  <2> DEFINE left == [s \in Sessions |-> IF UserOf[s] = u THEN None ELSE token[p][s]]
  <2>3. token' = [token EXCEPT ![p] = left]
    BY <1>3 DEF ForcePasswordReset
  <2>4. left \in [Sessions -> Tokens \cup {None}]
    BY DEF TypeOK
  <2>5. \A s \in Sessions : left[s] = token[p][s] \/ left[s] = None
    OBVIOUS
  <2> HIDE DEF left
  <2>6. TokensStep
    BY <2>3, <2>4, <2>5 DEF TypeOK, TokensStep
  <2> QED
    BY <1>3, <2>1, <2>2, <2>6, Same DEF ForcePasswordReset, Step
<1> QED
  BY <1>1, <1>2, <1>3 DEF Revocation

LEMMA LogoutStep ==
  ASSUME TInv, UNCHANGED <<chosen, unseen>>, NEW p \in Procs, NEW s \in Sessions,
         Logout(p, s) \/ EndLogout(p, s)
  PROVE  Step
<1> USE DEF TInv
<1>1. CASE Logout(p, s)
  <2>1. s \in leaving'[p] /\ LeavingStep
    BY <1>1 DEF Logout, TypeOK, LeavingStep
  <2>2. BlocksStep /\ TokensStep
    BY <1>1, <2>1, BlocksHere DEF Logout
  <2> QED
    BY <1>1, <2>1, <2>2, Same DEF Logout, Step
<1>2. CASE EndLogout(p, s)
  <2>1. LeavingStep
    BY <1>2 DEF EndLogout, TypeOK, LeavingStep
  <2>2. CASE UNCHANGED <<row, blocked, token>>
    BY <1>2, <2>1, <2>2, Same DEF EndLogout, Step
  <2>3. CASE Active(s) /\ SignOut({s}) /\ BlockHere(p, {s}, {UserOf[s]})
    <3>1. RowsStep /\ \A z \in {s} : ~Active(z)'
      BY <2>3, SignsOut
    <3>2. BlocksStep /\ TokensStep
      BY <2>3, <3>1, BlocksHere
    <3> QED
      BY <1>2, <2>1, <3>1, <3>2, Same DEF EndLogout, Step
  <2> QED
    BY <1>2, <2>2, <2>3 DEF EndLogout
<1> QED
  BY <1>1, <1>2

LEMMA ControlStep ==
  ASSUME TInv, UNCHANGED <<chosen, leaving, unseen>>,
         EmergencyControl \/ DisablePlatformEmergency \/ \E u \in Users : UnlockUser(u)
  PROVE  Step
<1> USE DEF TInv
<1>0. \A U : ActiveOf(U) \subseteq Sessions /\ (\A s \in ActiveOf(U) : Active(s))
  BY DEF ActiveOf
<1>1. ASSUME NEW u \in Users, RevokeUserSessions(u)
      PROVE  Step
  BY <1>0, <1>1, SignsOut, Same DEF RevokeUserSessions, guardVars, Step
<1>2. ASSUME NEW u \in Users, LockUser(u)
      PROVE  Step
  <2>1. locked' \in SUBSET Users
    BY <1>2 DEF LockUser, TypeOK
  <2> QED
    BY <1>0, <1>2, <2>1, SignsOut, Same DEF LockUser, guardVars, Step
<1>3. ASSUME NEW t \in Tenants, LockTenant(t)
      PROVE  Step
  BY <1>0, <1>3, SignsOut, Same DEF LockTenant, guardVars, Step
<1>4. CASE EnablePlatformEmergency
  BY <1>4, Same DEF EnablePlatformEmergency, Emergency, EmergencyStep, guardVars, Step
<1>5. CASE DisablePlatformEmergency
  BY <1>5, Same DEF DisablePlatformEmergency, EmergencyStep, guardVars, Step
<1>6. ASSUME NEW u \in Users, UnlockUser(u)
      PROVE  Step
  <2>1. locked' \in SUBSET Users
    BY <1>6 DEF UnlockUser, TypeOK
  <2> QED
    BY <1>6, <2>1, Same DEF UnlockUser, guardVars, Step
<1> QED
  BY <1>1, <1>2, <1>3, <1>4, <1>5, <1>6 DEF EmergencyControl

LEMMA RestartStep ==
  ASSUME TInv, UNCHANGED <<chosen, unseen>>, NEW p \in Procs, Restart(p)
  PROVE  Step
<1> USE DEF TInv
<1> DEFINE none == [s \in Sessions |-> None]
<1>1. token' = [token EXCEPT ![p] = none] /\ none \in [Sessions -> Tokens \cup {None}]
  BY DEF Restart
<1>2. \A s \in Sessions : none[s] = None
  OBVIOUS
<1> HIDE DEF none
<1>3. TokensStep
  BY <1>1, <1>2 DEF TypeOK, TokensStep
<1>4. BlocksStep
  BY DEF Restart, TypeOK, BlocksStep
<1>5. StatesStep
  BY DEF Restart, TypeOK, StatesStep
<1>6. LeavingStep
  BY DEF Restart, TypeOK, LeavingStep
<1> QED
  BY <1>3, <1>4, <1>5, <1>6, Answers, Same DEF Restart, Step

LEMMA TickStep ==
  ASSUME TInv, UNCHANGED <<chosen, leaving, unseen>>, Tick
  PROVE  Step
<1> USE DEF TInv
<1>1. ClockStep
  BY DEF Tick, ClockStep
<1>2. TokensStep
  <2>1. \A p \in Procs, s \in Sessions : token'[p][s] = token[p][s] \/ token'[p][s] = None
    BY DEF Tick, Unexpired
  <2>2. token' \in [Procs -> [Sessions -> Tokens \cup {None}]]
    BY DEF Tick, Unexpired, TypeOK
  <2> QED
    BY <2>1, <2>2 DEF TokensStep
<1>3. StatesStep
  <2>1. \A p \in Procs : state'[p] = state[p] \/ state'[p] = None
    BY DEF Tick, Unexpired
  <2>2. state' \in [Procs -> States \cup {None}]
    BY DEF Tick, Unexpired, TypeOK
  <2> QED
    BY <2>1, <2>2 DEF StatesStep
<1> QED
  BY <1>1, <1>2, <1>3, Same DEF Tick, Step

LEMMA NextStep ==
  ASSUME TInv, Next
  PROVE  Step
<1>0. chosen' = chosen
  BY DEF Next
<1>1. ASSUME NEW p \in Procs, Request(p), leaving' = leaving
      PROVE  Step
  <2>1. ASSUME NEW s \in Sessions, NEW h \in Headers(s), req[p] # None, req[p].s = s,
               \/ unseen' = unseen /\ (RefuseRevoked(p, h) \/ RefuseExpired(p, h))
               \/ Admit(p, h)
               \/ unseen' = unseen /\ Register(p, h)
        PROVE  Step
    BY <1>0, <1>1, <2>1, RefusedStep, AdmitStep, RegisterStep
  <2> QED
    BY <1>0, <1>1, <2>1, MemoryStep, ReadStep, RefusalStep DEF Request
<1>2. CASE Order
  BY <1>0, <1>2, ControlStep, RevocationStep, RestartStep, LogoutStep DEF Order
<1>3. CASE Other
  BY <1>0, <1>1, <1>3, TickStep, ControlStep, LogoutStep DEF Other
<1> QED
  BY <1>2, <1>3 DEF Next

-----------------------------------------------------------------------------
\* Types

LEMMA StepTypes ==
  ASSUME TInv, Step, orders' \in 0 .. MaxOrders
  PROVE  TInv'
<1>1. now' \in 0 .. MaxTime
  BY Clock DEF Step, ClockStep, TInv, TypeOK
<1>2. emergency' \in Times
  BY Clock DEF Step, EmergencyStep, TInv, TypeOK
<1>3. TypeOK'
  BY <1>1, <1>2 DEF TInv, TypeOK, Step, RowsStep, TokensStep, BlocksStep, ReqsStep, StatesStep,
                    UnseenStep, LeavingStep
<1>4. ASSUME NEW s \in Sessions, row[s] # None
      PROVE  row'[s] # None /\ (row[s].revokedAt # Never => row'[s].revokedAt # Never)
  BY <1>4, NoneAssumption, Clock DEF TInv, Step, RowsStep, RowStep, Known
<1>5. ASSUME NEW p \in Procs, req'[p] # None, req'[p].row # None
      PROVE  /\ row'[req'[p].s] # None
             /\ req'[p].row.revokedAt # Never => row'[req'[p].s].revokedAt # Never
  <2>1. CASE req'[p] = req[p]
    BY <1>4, <1>5, <2>1, ReqFields DEF TInv, SnapshotKept, Known, Revoked
  <2>2. CASE Reads(p, req'[p])
    <3>1. req'[p].s \in Sessions /\ req'[p].row = row[req'[p].s]
      BY <2>2 DEF Reads, Requests
    <3> QED
      BY <1>4, <1>5, <3>1
  <2> QED
    BY <1>5, <2>1, <2>2 DEF Step, ReqsStep
<1> QED
  BY <1>3, <1>5 DEF TInv, SnapshotKept, Known, Revoked

LEMMA OrdersBounded ==
  ASSUME TypeOK, Next
  PROVE  orders' \in 0 .. MaxOrders
  BY GuardAssumption DEF TypeOK, Next, Order, Other

LEMMA InitTypes == Init => TInv
  BY GuardAssumption DEF Init, TInv, TypeOK, SnapshotKept, Times, Never

\* The types of the variables, in every run of the guard.
THEOREM TypeInvariant == Spec => []TypeOK
<1>1. TInv /\ [Next]_vars => TInv'
  <2>1. CASE Next
    BY <2>1, NextStep, StepTypes, OrdersBounded DEF TInv
  <2>2. CASE UNCHANGED vars
    BY <2>2 DEF vars, TInv, TypeOK, SnapshotKept, Known, Revoked
  <2> QED
    BY <2>1, <2>2
<1> QED
  BY <1>1, InitTypes, PTL DEF Spec, TInv

-----------------------------------------------------------------------------
\* How old things are

RowsOld ==
  \A s \in Sessions : Known(s) =>
    /\ row[s].created <= row[s].active
    /\ row[s].active <= now
    /\ Revoked(s) => row[s].created <= row[s].revokedAt /\ row[s].revokedAt <= now

\* What a request read was true when it arrived, so that what is younger was not read.
SnapshotOld(p) ==
  LET r == req[p]
  IN /\ r.start <= now
     /\ r.row = None => (Known(r.s) => r.start <= row[r.s].created)
     /\ r.row # None =>
          /\ r.row.created = row[r.s].created
          /\ r.row.active <= row[r.s].active
          /\ r.row.revokedAt = Never /\ Revoked(r.s) => r.start <= row[r.s].revokedAt

SnapshotsOld == \A p \in Procs : req[p] # None => SnapshotOld(p)

\* A token's expiry, against all there is to compare it with.  A token of a session whose
\* registration failed is as young as what it says of its creation.
TokenOld(p, s) ==
  LET t == token[p][s]
  IN /\ t.remember => chosen[s]
     /\ t.created <= now
     /\ t.expires <= now + CacheTtl
     /\ t.expires <= t.active + Throttle + CacheTtl
     /\ Known(s) => t.created <= row[s].created
     /\ (Known(s) /\ t.created = row[s].created) \/ t.expires <= t.created + CacheTtl
     /\ Known(s) /\ s \notin unseen => t.expires <= row[s].active + Throttle + CacheTtl
     /\ Revoked(s) => t.expires <= row[s].revokedAt + CacheTtl

TokensOld == \A p \in Procs, s \in Sessions : token[p][s] # None => TokenOld(p, s)

AgeInv == TInv /\ RowsOld /\ SnapshotsOld /\ TokensOld

\* The numbers a step leaves.
LEMMA StepNumbers ==
  ASSUME TInv, Step
  PROVE  /\ now \in Nat /\ now' \in Nat /\ now <= now' /\ now < Never
         /\ now # now' => UNCHANGED <<row, req, unseen>>
         /\ \A s \in Sessions : row[s] # None =>
              /\ row[s].created \in Nat /\ row[s].active \in Nat /\ row[s].revokedAt \in Nat
              /\ row'[s] # None
              /\ row'[s].created = row[s].created
              /\ row'[s].active \in {row[s].active, now}
              /\ row'[s].revokedAt \in {row[s].revokedAt, now}
         /\ \A s \in Sessions : row[s] = None /\ row'[s] # None =>
              row'[s].created = now /\ row'[s].active = now /\ row'[s].revokedAt = Never
<1>1. now \in Nat /\ now' \in Nat /\ now <= now' /\ now < Never
  BY Clock DEF TInv, Step, ClockStep
<1>2. now # now' => UNCHANGED <<row, req, unseen>>
  BY DEF Step, ClockStep
<1>3. ASSUME NEW s \in Sessions, row[s] # None
      PROVE  /\ row[s].created \in Nat /\ row[s].active \in Nat /\ row[s].revokedAt \in Nat
             /\ row'[s] # None
             /\ row'[s].created = row[s].created
             /\ row'[s].active \in {row[s].active, now}
             /\ row'[s].revokedAt \in {row[s].revokedAt, now}
  <2>1. row[s] \in Rows
    BY <1>3 DEF TInv, TypeOK
  <2>2. row[s].created \in Nat /\ row[s].active \in Nat /\ row[s].revokedAt \in Nat
    BY <2>1, RowFields, Clock DEF TInv
  <2> QED
    BY <1>3, <2>2, NoneAssumption DEF Step, RowsStep, RowStep, Known
<1>4. ASSUME NEW s \in Sessions, row[s] = None, row'[s] # None
      PROVE  row'[s].created = now /\ row'[s].active = now /\ row'[s].revokedAt = Never
  BY <1>4 DEF Step, RowsStep, RowStep, Known
<1> QED
  BY <1>1, <1>2, <1>3, <1>4

LEMMA RowsStayOld ==
  ASSUME AgeInv, Step
  PROVE  RowsOld'
<1> SUFFICES ASSUME NEW s \in Sessions, row'[s] # None
             PROVE  /\ row'[s].created <= row'[s].active
                    /\ row'[s].active <= now'
                    /\ row'[s].revokedAt # Never =>
                         row'[s].created <= row'[s].revokedAt /\ row'[s].revokedAt <= now'
  BY DEF RowsOld, Known, Revoked
<1>1. CASE row[s] = None
  BY <1>1, StepNumbers DEF AgeInv
<1>2. CASE row[s] # None
  <2>1. /\ row[s].created <= row[s].active
        /\ row[s].active <= now
        /\ row[s].revokedAt # Never =>
             row[s].created <= row[s].revokedAt /\ row[s].revokedAt <= now
    BY <1>2 DEF AgeInv, RowsOld, Known, Revoked
  <2> QED
    BY <1>2, <2>1, StepNumbers DEF AgeInv
<1> QED
  BY <1>1, <1>2

LEMMA SnapshotsStayOld ==
  ASSUME AgeInv, Step
  PROVE  SnapshotsOld'
<1> SUFFICES ASSUME NEW p \in Procs, req'[p] # None,
                    NEW r, r = req'[p], NEW s \in Sessions, s = r.s
             PROVE  /\ r.start <= now'
                    /\ r.row = None => (row'[s] # None => r.start <= row'[s].created)
                    /\ r.row # None =>
                         /\ r.row.created = row'[s].created
                         /\ r.row.active <= row'[s].active
                         /\ r.row.revokedAt = Never /\ row'[s] # None /\ row'[s].revokedAt # Never =>
                              r.start <= row'[s].revokedAt
  <2>1. \A p \in Procs : req'[p] # None => req'[p].s \in Sessions
    BY DEF Step, ReqsStep, Requests
  <2> QED
    BY <2>1 DEF SnapshotsOld, SnapshotOld, Known, Revoked
<1>0. /\ now \in Nat /\ now' \in Nat /\ now <= now' /\ now < Never
      /\ row[s] # None =>
           /\ row[s].created \in Nat /\ row[s].active \in Nat /\ row[s].revokedAt \in Nat
           /\ row'[s] # None
           /\ row'[s].created = row[s].created
           /\ row'[s].active \in {row[s].active, now}
           /\ row'[s].revokedAt \in {row[s].revokedAt, now}
      /\ row[s] = None /\ row'[s] # None =>
           row'[s].created = now /\ row'[s].active = now /\ row'[s].revokedAt = Never
  BY StepNumbers DEF AgeInv
<1>1. row[s] # None => row[s].active <= now
  BY DEF AgeInv, RowsOld, Known
<1>2. CASE r = req[p]
  <2>1. /\ r.start <= now
        /\ r.row = None => (row[s] # None => r.start <= row[s].created)
        /\ r.row # None =>
             /\ row[s] # None
             /\ r.row.created = row[s].created
             /\ r.row.active <= row[s].active
             /\ r.row.revokedAt = Never /\ row[s].revokedAt # Never => r.start <= row[s].revokedAt
    BY <1>2 DEF AgeInv, TInv, SnapshotKept, SnapshotsOld, SnapshotOld, Known, Revoked
  <2>2. r.start \in Nat /\ (r.row # None => r.row.active \in Nat)
    BY <1>2, ReqFields, RowFields, Clock DEF AgeInv, TInv
  <2> QED
    BY <1>0, <1>1, <2>1, <2>2
<1>3. CASE Reads(p, r)
  <2>1. r.start = now /\ r.row = row[s]
    BY <1>3 DEF Reads
  <2> QED
    BY <1>0, <1>1, <2>1
<1> QED
  BY <1>2, <1>3 DEF Step, ReqsStep

LEMMA TokensStayOld ==
  ASSUME AgeInv, Step
  PROVE  TokensOld'
<1> SUFFICES ASSUME NEW p \in Procs, NEW s \in Sessions, token'[p][s] # None,
                    NEW t, t = token'[p][s]
             PROVE  /\ t.remember => chosen'[s]
                    /\ t.created <= now'
                    /\ t.expires <= now' + CacheTtl
                    /\ t.expires <= t.active + Throttle + CacheTtl
                    /\ row'[s] # None => t.created <= row'[s].created
                    /\ (row'[s] # None /\ t.created = row'[s].created)
                         \/ t.expires <= t.created + CacheTtl
                    /\ row'[s] # None /\ s \notin unseen' =>
                         t.expires <= row'[s].active + Throttle + CacheTtl
                    /\ row'[s] # None /\ row'[s].revokedAt # Never =>
                         t.expires <= row'[s].revokedAt + CacheTtl
  BY DEF TokensOld, TokenOld, Known, Revoked
<1>0. /\ now \in Nat /\ now' \in Nat /\ now <= now' /\ now < Never
      /\ row[s] # None =>
           /\ row[s].created \in Nat /\ row[s].active \in Nat /\ row[s].revokedAt \in Nat
           /\ row'[s] # None
           /\ row'[s].created = row[s].created
           /\ row'[s].active \in {row[s].active, now}
           /\ row'[s].revokedAt \in {row[s].revokedAt, now}
      /\ row[s] = None /\ row'[s] # None =>
           row'[s].created = now /\ row'[s].active = now /\ row'[s].revokedAt = Never
  BY StepNumbers DEF AgeInv
<1>1. row[s] # None => /\ row[s].created <= row[s].active /\ row[s].active <= now
                       /\ row[s].revokedAt # Never => row[s].created <= row[s].revokedAt
  BY DEF AgeInv, RowsOld, Known, Revoked
<1>2. CacheTtl \in Nat /\ Throttle \in Nat
  BY Clock DEF AgeInv, TInv
<1>3. token[p][s] # None =>
        /\ token[p][s].remember => chosen[s]
        /\ token[p][s].created <= now
        /\ token[p][s].expires <= now + CacheTtl
        /\ token[p][s].expires <= token[p][s].active + Throttle + CacheTtl
        /\ row[s] # None => token[p][s].created <= row[s].created
        /\ (row[s] # None /\ token[p][s].created = row[s].created)
             \/ token[p][s].expires <= token[p][s].created + CacheTtl
        /\ row[s] # None /\ s \notin unseen =>
             token[p][s].expires <= row[s].active + Throttle + CacheTtl
        /\ row[s] # None /\ row[s].revokedAt # Never =>
             token[p][s].expires <= row[s].revokedAt + CacheTtl
        /\ token[p][s].expires \in Nat /\ token[p][s].active \in Nat
        /\ token[p][s].created \in Nat
  BY TokenFields, Clock DEF AgeInv, TInv, TypeOK, TokensOld, TokenOld, Known, Revoked
<1>4. chosen' = chosen /\ (s \in unseen \ unseen' => row'[s] # None /\ row'[s].active = now)
  BY DEF Step, UnseenStep
<1>5. ASSUME token[p][s] # None, t.created = token[p][s].created, t.remember = token[p][s].remember,
             t.expires = token[p][s].expires, t.active = token[p][s].active \/ t.active = now
      PROVE  /\ t.remember => chosen'[s]
             /\ t.created <= now'
             /\ t.expires <= now' + CacheTtl
             /\ t.expires <= t.active + Throttle + CacheTtl
             /\ row'[s] # None => t.created <= row'[s].created
             /\ (row'[s] # None /\ t.created = row'[s].created)
                  \/ t.expires <= t.created + CacheTtl
             /\ row'[s] # None /\ s \notin unseen' =>
                  t.expires <= row'[s].active + Throttle + CacheTtl
             /\ row'[s] # None /\ row'[s].revokedAt # Never =>
                  t.expires <= row'[s].revokedAt + CacheTtl
  <2>1. t.remember => chosen'[s]
    BY <1>3, <1>4, <1>5
  <2>2. /\ t.created <= now'
        /\ t.expires <= now' + CacheTtl
        /\ t.expires <= t.active + Throttle + CacheTtl
    BY <1>0, <1>2, <1>3, <1>5
  <2>3. /\ row'[s] # None => t.created <= row'[s].created
        /\ (row'[s] # None /\ t.created = row'[s].created) \/ t.expires <= t.created + CacheTtl
    BY <1>0, <1>3, <1>5
  <2>4. row'[s] # None /\ s \notin unseen' => t.expires <= row'[s].active + Throttle + CacheTtl
    BY <1>0, <1>1, <1>2, <1>3, <1>4, <1>5
  <2>5. row'[s] # None /\ row'[s].revokedAt # Never => t.expires <= row'[s].revokedAt + CacheTtl
    BY <1>0, <1>1, <1>2, <1>3, <1>5
  <2> QED
    BY <2>1, <2>2, <2>3, <2>4, <2>5
<1>6. CASE t = token[p][s]
  BY <1>5, <1>6
<1>7. CASE Used(p, s)
  BY <1>5, <1>7 DEF Used
<1>8. CASE Given(p, s)
  <2> DEFINE r == req[p]
  <2>1. /\ r # None /\ r.s = s
        /\ t.expires = r.start + CacheTtl
        /\ t.remember \in Headers(s)
        /\ Noted(p, s)
    BY <1>8 DEF Given
  <2>2. r.start \in Nat /\ (r.row # None => r.row.active \in Nat)
    BY <2>1, ReqFields, RowFields, Clock DEF AgeInv, TInv
  <2>3. /\ r.start <= now
        /\ r.row = None => (row[s] # None => r.start <= row[s].created)
        /\ r.row # None =>
             /\ row[s] # None
             /\ r.row.created = row[s].created
             /\ r.row.active <= row[s].active
             /\ r.row.revokedAt = Never /\ row[s].revokedAt # Never => r.start <= row[s].revokedAt
    BY <2>1 DEF AgeInv, TInv, SnapshotKept, SnapshotsOld, SnapshotOld, Known, Revoked
  <2>4. t.remember => chosen'[s]
    BY <1>4, <2>1, HeadersChoose DEF AgeInv, TInv
  <2>5. \/ r.row = None /\ row'[s] = None /\ t.created = r.start /\ t.active = r.start
        \/ /\ r.row = None /\ row'[s] # None
           /\ t.created = row'[s].created /\ t.active = row'[s].active
        \/ /\ r.row # None
           /\ r.row.revokedAt = Never
           /\ t.created = r.row.created
           /\ \/ r.start <= r.row.active + Throttle /\ t.active = r.row.active
              \/ /\ t.active = r.start
                 /\ row'[s].active = now \/ s \in unseen'
    BY <2>1 DEF Noted
  <2> HIDE DEF r
  <2>6. CASE r.row = None /\ row'[s] = None
    BY <1>0, <1>2, <2>1, <2>2, <2>3, <2>4, <2>5, <2>6
  <2>7. CASE r.row = None /\ row'[s] # None
    BY <1>0, <1>1, <1>2, <2>1, <2>2, <2>3, <2>4, <2>5, <2>7
  <2>8. CASE r.row # None
    BY <1>0, <1>1, <1>2, <2>1, <2>2, <2>3, <2>4, <2>5, <2>8
  <2> QED
    BY <2>6, <2>7, <2>8
<1> QED
  BY <1>6, <1>7, <1>8 DEF Step, TokensStep

LEMMA AgesKept ==
  ASSUME AgeInv, [Next]_vars
  PROVE  AgeInv'
<1>1. CASE Next
  <2>1. Step
    BY <1>1, NextStep DEF AgeInv
  <2>2. TInv'
    BY <1>1, <2>1, StepTypes, OrdersBounded DEF AgeInv, TInv
  <2> QED
    BY <2>1, <2>2, RowsStayOld, SnapshotsStayOld, TokensStayOld DEF AgeInv
<1>2. CASE UNCHANGED vars
  BY <1>2 DEF vars, AgeInv, TInv, TypeOK, SnapshotKept, RowsOld, SnapshotsOld, SnapshotOld,
              TokensOld, TokenOld, Known, Revoked
<1> QED
  BY <1>1, <1>2

LEMMA AgesHold == Spec => []AgeInv
<1>1. Init => AgeInv
  BY InitTypes DEF Init, AgeInv, RowsOld, SnapshotsOld, TokensOld, Known
<1> QED
  BY <1>1, AgesKept, PTL DEF Spec

\* A session revoked anywhere is served from memory nowhere longer than CacheTtl.
THEOREM RevocationReaches == Spec => []RevokedWithinTtl
<1>1. AgeInv => RevokedWithinTtl
  BY DEF AgeInv, TokensOld, TokenOld, RevokedWithinTtl
<1> QED
  BY <1>1, AgesHold, PTL

\* The row of a session served from memory is at most CacheTtl + Throttle behind its use.
THEOREM UseIsRecorded == Spec => []UseRecorded
<1>1. AgeInv => UseRecorded
  BY DEF AgeInv, TokensOld, TokenOld, UseRecorded
<1> QED
  BY <1>1, AgesHold, PTL

-----------------------------------------------------------------------------
\* The emergency

\* A process that still believes there is no emergency read so before it, within StateTtl.
CalmIsOld ==
  /\ Emergency => emergency <= now
  /\ \A p \in Procs :
       /\ state[p] # None =>
            /\ state[p].expires <= now + StateTtl
            /\ Emergency /\ ~state[p].on => state[p].expires <= emergency + StateTtl
       /\ req[p] # None /\ ~req[p].emergency /\ Emergency =>
            /\ req[p].start <= emergency + StateTtl
            /\ req[p].fresh => req[p].start <= emergency

EmergencyInv == AgeInv /\ CalmIsOld /\ EmergencyWithinTtls

LEMMA StaysCalm ==
  ASSUME EmergencyInv, Step
  PROVE  CalmIsOld'
<1> USE DEF EmergencyInv, AgeInv, TInv
<1>0. /\ now \in Nat /\ now' \in Nat /\ now <= now' /\ now < Never /\ StateTtl \in Nat
      /\ emergency \in Nat /\ (emergency # Never => emergency <= now)
      /\ now # now' => req' = req /\ emergency' = emergency
      /\ emergency' \in {emergency, Never} \/ (emergency = Never /\ emergency' = now)
  BY StepNumbers, Clock DEF Step, ClockStep, EmergencyStep, CalmIsOld, Emergency, TypeOK
<1>1. emergency' # Never => emergency' <= now'
  BY <1>0
<1>2. \A p \in Procs : state[p] # None =>
        /\ state[p].on \in BOOLEAN /\ state[p].expires \in Nat
        /\ state[p].expires <= now + StateTtl
        /\ emergency # Never /\ ~state[p].on => state[p].expires <= emergency + StateTtl
  BY DEF TypeOK, States, CalmIsOld, Emergency
<1>3. \A p \in Procs : req[p] # None =>
        /\ req[p].start \in Nat /\ req[p].start <= now
        /\ ~req[p].emergency /\ emergency # Never =>
             /\ req[p].start <= emergency + StateTtl
             /\ req[p].fresh => req[p].start <= emergency
  BY ReqFields, Clock DEF CalmIsOld, Emergency, SnapshotsOld, SnapshotOld
<1>4. ASSUME NEW p \in Procs, state'[p] # None
      PROVE  /\ state'[p].expires <= now' + StateTtl
             /\ emergency' # Never /\ ~state'[p].on => state'[p].expires <= emergency' + StateTtl
  <2>1. CASE state'[p] = state[p]
    BY <1>0, <1>2, <1>4, <2>1
  <2>2. CASE /\ req[p] # None
             /\ req[p].fresh
             /\ state'[p] = [on |-> req[p].emergency, expires |-> req[p].start + StateTtl]
    <3>1. state'[p].expires = req[p].start + StateTtl /\ state'[p].on = req[p].emergency
      BY <2>2
    <3> QED
      BY <1>0, <1>3, <2>2, <3>1
  <2> QED
    BY <1>4, <2>1, <2>2 DEF Step, StatesStep
<1>5. ASSUME NEW p \in Procs, req'[p] # None, ~req'[p].emergency, emergency' # Never
      PROVE  /\ req'[p].start <= emergency' + StateTtl
             /\ req'[p].fresh => req'[p].start <= emergency'
  <2>1. CASE req'[p] = req[p]
    BY <1>0, <1>3, <1>5, <2>1
  <2>2. CASE Reads(p, req'[p])
    <3>1. /\ req'[p].start = now
          /\ req'[p].emergency = IF Remembered(p) THEN state[p].on ELSE Emergency
          /\ req'[p].fresh = ~Remembered(p)
      BY <2>2 DEF Reads
    <3>2. CASE Remembered(p)
      <4>1. state[p] # None /\ now < state[p].expires /\ ~state[p].on /\ ~req'[p].fresh
        BY <1>5, <3>1, <3>2 DEF Remembered
      <4> QED
        BY <1>0, <1>2, <1>5, <3>1, <4>1
    <3>3. CASE ~Remembered(p)
      <4>1. emergency = Never
        BY <1>5, <3>1, <3>3 DEF Emergency
      <4> QED
        BY <1>0, <1>5, <3>1, <4>1
    <3> QED
      BY <3>2, <3>3
  <2> QED
    BY <1>5, <2>1, <2>2 DEF Step, ReqsStep
<1> QED
  BY <1>1, <1>4, <1>5 DEF CalmIsOld, Emergency

LEMMA EmergencyStays ==
  ASSUME EmergencyInv, Step
  PROVE  EmergencyWithinTtls'
<1> USE DEF EmergencyInv, AgeInv, TInv
<1> SUFFICES ASSUME NEW p \in Procs, NEW s \in Sessions, emergency' # Never,
                    UserOf[s] \notin Admins, token'[p][s] # None
             PROVE  token'[p][s].expires <= emergency' + StateTtl + CacheTtl
  BY DEF EmergencyWithinTtls, Emergency
<1>0. /\ now \in Nat /\ StateTtl \in Nat /\ CacheTtl \in Nat /\ emergency \in Nat
      /\ emergency' = emergency \/ (emergency = Never /\ emergency' = now)
  BY Clock DEF Step, EmergencyStep, TypeOK
<1>1. token[p][s] # None =>
        /\ token[p][s].expires \in Nat
        /\ token[p][s].expires <= now + CacheTtl
        /\ emergency # Never => token[p][s].expires <= emergency + StateTtl + CacheTtl
  BY TokenFields DEF TypeOK, TokensOld, TokenOld, EmergencyWithinTtls, Emergency
<1>2. CASE token'[p][s] = token[p][s]
  BY <1>0, <1>1, <1>2
<1>3. CASE Used(p, s)
  <2>1. token[p][s] # None /\ token'[p][s].expires = token[p][s].expires
    BY <1>3 DEF Used
  <2> QED
    BY <1>0, <1>1, <2>1
<1>4. CASE Given(p, s)
  <2>1. /\ req[p] # None /\ token'[p][s].expires = req[p].start + CacheTtl
        /\ ~req[p].emergency
    BY <1>4 DEF Given, Welcome, Barred
  <2>2. /\ req[p].start \in Nat /\ req[p].start <= now
        /\ emergency # Never => req[p].start <= emergency + StateTtl
    BY <2>1, ReqFields, Clock DEF CalmIsOld, Emergency, SnapshotsOld, SnapshotOld
  <2> QED
    BY <1>0, <2>1, <2>2
<1> QED
  BY <1>2, <1>3, <1>4 DEF Step, TokensStep

\* An emergency shuts out everyone but the super admins within StateTtl + CacheTtl.
THEOREM EmergencyReaches == Spec => []EmergencyWithinTtls
<1>1. Init => EmergencyInv
  BY InitTypes DEF Init, EmergencyInv, AgeInv, RowsOld, SnapshotsOld, TokensOld, Known,
                   CalmIsOld, EmergencyWithinTtls, Emergency
<1>2. EmergencyInv /\ [Next]_vars => EmergencyInv'
  <2>1. CASE Next
    BY <2>1, NextStep, AgesKept, StaysCalm, EmergencyStays DEF EmergencyInv, AgeInv
  <2>2. CASE UNCHANGED vars
    <3>1. EmergencyInv => AgeInv'
      BY <2>2, AgesKept DEF EmergencyInv
    <3>2. EmergencyInv => CalmIsOld' /\ EmergencyWithinTtls'
      BY <2>2 DEF vars, EmergencyInv, CalmIsOld, EmergencyWithinTtls, Emergency
    <3> QED
      BY <3>1, <3>2 DEF EmergencyInv
  <2> QED
    BY <2>1, <2>2
<1>3. EmergencyInv => EmergencyWithinTtls
  BY DEF EmergencyInv
<1> QED
  BY <1>1, <1>2, <1>3, PTL DEF Spec

-----------------------------------------------------------------------------
\* The limits of a session

\* No process serves a session from memory for longer than its user chose: a token says
\* "remember me" only of a session whose user did, and is no younger than its row.
THEOREM LifeIsLimited == Spec => []LifeLimited
<1>1. ASSUME AgeInv, NEW p \in Procs, NEW s \in Sessions, Known(s), Hit(p, s),
             ~Outlived(token[p][s])
      PROVE  now <= row[s].created + Lifetime(chosen[s])
  <2> DEFINE t == token[p][s]
  <2>1. t # None /\ (t.remember => chosen[s]) /\ t.created <= row[s].created
    BY <1>1 DEF Hit, AgeInv, TokensOld, TokenOld
  <2>2. /\ t.created \in Nat /\ t.remember \in BOOLEAN /\ row[s].created \in Nat
        /\ now \in Nat /\ Absolute \in Nat /\ Persistent \in Nat /\ Absolute <= Persistent
    BY <1>1, <2>1, TokenFields, RowKnown, RowFields, Clock, GuardAssumption DEF AgeInv, TInv, TypeOK
  <2>3. now <= t.created + IF t.remember THEN Persistent ELSE Absolute
    BY <1>1, <2>2 DEF Outlived
  <2> HIDE DEF t
  <2> QED
    BY <2>1, <2>2, <2>3 DEF Lifetime
<1>2. AgeInv => LifeLimited
  BY <1>1 DEF LifeLimited
<1> QED
  BY <1>2, AgesHold, PTL

\* A session is outlived in memory only when its ordinary time is over: it cannot be idle
\* there, as CacheTtl + Throttle < IdleLimit, nor can the token of a failed registration
\* grow old, as CacheTtl <= Absolute.
LEMMA OutlivedIndeed ==
  ASSUME AgeInv, NEW p \in Procs, NEW s \in Sessions, Known(s), Hit(p, s), Outlived(token[p][s])
  PROVE  now > row[s].created + Absolute
<1> DEFINE t == token[p][s]
<1>1. /\ t # None /\ now < t.expires
      /\ t.expires <= t.active + Throttle + CacheTtl
      /\ t.created = row[s].created \/ t.expires <= t.created + CacheTtl
  BY DEF Hit, AgeInv, TokensOld, TokenOld
<1>2. /\ t.created \in Nat /\ t.active \in Nat /\ t.expires \in Nat /\ t.remember \in BOOLEAN
      /\ row[s].created \in Nat
      /\ now \in Nat /\ Absolute \in Nat /\ Persistent \in Nat /\ IdleLimit \in Nat
      /\ CacheTtl \in Nat /\ Throttle \in Nat
  BY <1>1, TokenFields, RowKnown, RowFields, Clock DEF AgeInv, TInv, TypeOK
<1>3. CacheTtl + Throttle < IdleLimit /\ CacheTtl <= Absolute /\ Absolute <= Persistent
  BY GuardAssumption
<1>4. now > t.created + Absolute \/ now > t.active + IdleLimit
  BY <1>2, <1>3 DEF Outlived
<1> HIDE DEF t
<1> QED
  BY <1>1, <1>2, <1>3, <1>4

\* A process begins to block an active session only for a logout, a lock or a time that is
\* over, whatever writes the database refuses.
THEOREM BlockedOnlyForCause == Spec => BlockedForCause
<1>1. ASSUME AgeInv, [Next]_vars, NEW p \in Procs, NEW s \in Sessions,
             s \in blocked'[p] \ blocked[p], Active(s)'
      PROVE  \/ s \in leaving'[p]
             \/ now > row[s].created + Absolute
             \/ req[p] # None /\ req[p].s = s /\ (req[p].locked \/ RanOut(req[p]))
  <2>1. Next
    BY <1>1 DEF vars
  <2>2. BlocksStep
    BY <1>1, <2>1, NextStep DEF AgeInv, Step
  <2>3. CASE row' = row /\ Hit(p, s) /\ Outlived(token[p][s])
    <3>1. Known(s)
      BY <1>1, <2>3 DEF Active, Known
    <3> QED
      BY <1>1, <2>3, <3>1, OutlivedIndeed
  <2> QED
    BY <1>1, <2>2, <2>3 DEF BlocksStep
<1>2. AgeInv /\ [Next]_vars =>
        [\A p \in Procs, s \in Sessions :
           s \in blocked'[p] \ blocked[p] /\ Active(s)' =>
             \/ s \in leaving'[p]
             \/ now > row[s].created + Absolute
             \/ req[p] # None /\ req[p].s = s /\ (req[p].locked \/ RanOut(req[p]))]_vars
  BY <1>1
<1> QED
  BY <1>2, AgesHold, PTL DEF Spec, BlockedForCause
=============================================================================
