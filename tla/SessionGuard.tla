---------------------------- MODULE SessionGuard ----------------------------
(***************************************************************************)
(* Which requests the API lets in (src/api/src/auth/supabase.guard.ts),    *)
(* and how long a revoked session, a locked user or an emergency takes to  *)
(* reach every process (auth/sessions.service.ts, auth/auth.service.ts,    *)
(* super-admin/services/emergency-security.service.ts).                    *)
(*                                                                         *)
(* Sessions are rows of the database.  Each process keeps in memory the    *)
(* tokens it let in, for CacheTtl, the sessions it blocks, and the         *)
(* platform's security state, for StateTtl.  A request is served from the  *)
(* memory or takes three steps: the token's claims are awaited, the rows   *)
(* are read, and what was read is judged, written back and remembered.     *)
(*                                                                         *)
(* A session has one token.  The guard runs before the one that finds the  *)
(* tenant, so the tenant's lock is not among what it reads.  Any write of  *)
(* the guard, and the revocation of a logout, may fail, which the code     *)
(* ignores.  Reads do not fail; maintenance mode is left out.              *)
(***************************************************************************)
EXTENDS Naturals

CONSTANTS
  Procs, Sessions, Users, Tenants,
  UserOf,     \* UserOf[s]: whose session s is
  MembersOf,  \* MembersOf[t]: the users of tenant t
  Admins,     \* the super admins, all with a second factor
  Bare,       \* whether the AI workspace's requests, which lack the header, come along
  CacheTtl, StateTtl, Throttle, IdleLimit, Absolute, Persistent,
  MaxTime,    \* bound on the clock
  MaxLead,    \* bound on the clock before the first session is recorded
  MaxOrders,  \* bound on the revocations, emergency controls and restarts
  None        \* no row, no entry, no session

Duration == Nat \ {0}

ASSUME GuardAssumption ==
  /\ UserOf \in [Sessions -> Users]
  /\ MembersOf \in [Tenants -> SUBSET Users]
  /\ Admins \subseteq Users
  /\ Bare \in BOOLEAN
  /\ CacheTtl \in Duration /\ StateTtl \in Duration /\ Throttle \in Duration
  /\ IdleLimit \in Duration /\ Absolute \in Duration /\ Persistent \in Duration
  /\ Absolute <= Persistent
  /\ CacheTtl + Throttle < IdleLimit
  /\ CacheTtl <= Absolute
  /\ MaxTime \in Nat
  /\ MaxLead \in Nat
  /\ MaxOrders \in Nat
  /\ None \notin Sessions

VARIABLES
  chosen,    \* chosen[s]: the "remember me" of the sign-in, which the browser keeps sending
  now,       \* the clock
  row,       \* row[s]: the UserSession of s
  locked,    \* the users with securityStatus LOCKED
  emergency, \* since when the PlatformSecurityState says emergencyMode
  token,     \* token[p][s]: what process p remembers of the token of s
  blocked,   \* blocked[p]: the sessions process p has seen revoked
  state,     \* state[p]: the platform state process p remembers
  req,       \* req[p]: the request process p is at
  leaving,   \* leaving[p]: the sessions being logged out at p, whose rows are not written yet
  unseen,    \* the sessions whose last use the database refused to record (history)
  orders     \* how many revocations, emergency controls and restarts there were

vars == <<chosen, now, row, locked, emergency, token, blocked, state, req, leaving, unseen,
          orders>>

Never == MaxTime + 1

Times == 0 .. Never

Rows == [created : Times, active : Times, expires : Nat, remember : BOOLEAN, revokedAt : Times]

Tokens == [created : Times, active : Times, remember : BOOLEAN, expires : Nat]

States == [on : BOOLEAN, expires : Nat]

Requests ==
  [s : Sessions, start : Times, row : Rows \cup {None}, locked : BOOLEAN,
   emergency : BOOLEAN, fresh : BOOLEAN]

ASSUME NoneAssumption ==
  None \notin Rows /\ None \notin Tokens /\ None \notin States /\ None \notin Requests

Init ==
  /\ chosen \in [Sessions -> BOOLEAN]
  /\ now = 0
  /\ row = [s \in Sessions |-> None]
  /\ locked = {}
  /\ emergency = Never
  /\ token = [p \in Procs |-> [s \in Sessions |-> None]]
  /\ blocked = [p \in Procs |-> {}]
  /\ state = [p \in Procs |-> None]
  /\ req = [p \in Procs |-> None]
  /\ leaving = [p \in Procs |-> {}]
  /\ unseen = {}
  /\ orders = 0

Known(s) == row[s] # None
Revoked(s) == Known(s) /\ row[s].revokedAt # Never
Active(s) == Known(s) /\ row[s].revokedAt = Never
Emergency == emergency # Never
Lifetime(remember) == IF remember THEN Persistent ELSE Absolute

guardVars == <<token, blocked, state, req>>

Unexpired(entry, time) == IF entry # None /\ time < entry.expires THEN entry ELSE None

\* What has expired is forgotten at once.  The code clears expired tokens every minute and
\* overwrites an expired state, and reads neither before that.
Tick ==
  /\ now < MaxTime
  /\ now < MaxLead \/ \E s \in Sessions : Known(s)
  /\ now' = now + 1
  /\ token' = [p \in Procs |-> [s \in Sessions |-> Unexpired(token[p][s], now')]]
  /\ state' = [p \in Procs |-> Unexpired(state[p], now')]
  /\ UNCHANGED <<row, locked, emergency, blocked, req>>

-----------------------------------------------------------------------------
\* SupabaseAuthGuard.canActivate

Forget(p, s) == token' = [token EXCEPT ![p][s] = None]
Block(p, s) == blocked' = [blocked EXCEPT ![p] = @ \cup {s}]
Answer(p) == req' = [req EXCEPT ![p] = None]

\* The process remembers the token.
Hit(p, s) == token[p][s] # None /\ now < token[p][s].expires

\* mutant: only the idle limit is checked in memory
OutlivedIdle(t) == ~t.remember /\ now > t.active + IdleLimit

Outlived(t) ==
  IF t.remember THEN now > t.created + Persistent
                ELSE now > t.created + Absolute \/ now > t.active + IdleLimit

ServeFromMemory(p, s) ==
  /\ req[p] = None
  /\ Hit(p, s)
  /\ s \notin blocked[p]
  /\ ~Outlived(token[p][s])
  /\ token' = [token EXCEPT ![p][s].active = now]
  /\ UNCHANGED <<now, row, locked, emergency, blocked, state, req>>

RefuseFromMemory(p, s) ==
  /\ req[p] = None
  /\ Hit(p, s)
  /\ s \in blocked[p]
  /\ Forget(p, s)
  /\ UNCHANGED <<now, row, locked, emergency, blocked, state, req>>

\* An outlived token blocks its session here, so that the request is refused as well.
OutliveInMemory(p, s) ==
  /\ req[p] = None
  /\ Hit(p, s)
  /\ s \notin blocked[p]
  /\ Outlived(token[p][s])
  /\ Forget(p, s)
  /\ Block(p, s)
  /\ UNCHANGED <<now, row, locked, emergency, state, req>>

\* Promise.all of the five reads; the platform's state comes from memory if fresh enough.
\* The claims are awaited just before, which is not a step of its own.
Read(p, s) ==
  LET remembered == state[p] # None /\ now < state[p].expires
  IN /\ req[p] = None
     /\ ~Hit(p, s)
     /\ s \notin blocked[p]
     /\ req' = [req EXCEPT ![p] =
          [s |-> s, start |-> now, row |-> row[s],
           locked |-> UserOf[s] \in locked,
           emergency |-> IF remembered THEN state[p].on ELSE Emergency,
           fresh |-> ~remembered]]
     /\ UNCHANGED <<now, row, locked, emergency, token, blocked, state>>

\* mutant: the platform's state counts from when it was read, late
JudgeLate(p) ==
  /\ req[p] # None
  /\ state' = IF req[p].fresh
              THEN [state EXCEPT ![p] = [on |-> req[p].emergency, expires |-> now + StateTtl]]
              ELSE state
  /\ Answer(p)
  /\ UNCHANGED <<now, locked, emergency>>

\* The state read is remembered before anything is judged.
Judge(p) ==
  /\ req[p] # None
  /\ state' = IF req[p].fresh
              THEN [state EXCEPT ![p] = [on |-> req[p].emergency,
                                         expires |-> req[p].start + StateTtl]]
              ELSE state
  /\ Answer(p)
  /\ UNCHANGED <<now, locked, emergency>>

Barred(r) == r.emergency /\ UserOf[r.s] \notin Admins
Welcome(r) == ~Barred(r) /\ ~r.locked

RefuseEmergency(p) ==
  /\ Judge(p)
  /\ Barred(req[p])
  /\ Forget(p, req[p].s)
  /\ UNCHANGED <<row, blocked>>

RefuseLocked(p) ==
  /\ Judge(p)
  /\ ~Barred(req[p])
  /\ req[p].locked
  /\ Block(p, req[p].s)
  /\ Forget(p, req[p].s)
  /\ UNCHANGED row

\* A request with the header makes its session a remembered one, whatever comes next;
\* unless the write fails.
Upgraded(r, header) ==
  IF header /\ ~r.row.remember
  THEN [row[r.s] EXCEPT !.remember = TRUE, !.expires = r.row.created + Persistent]
  ELSE row[r.s]

Rewritten(r, header) == {row[r.s], Upgraded(r, header)}

Expired(r, header) ==
  LET remember == header \/ r.row.remember
  IN \/ r.start > r.row.created + Lifetime(remember)
     \/ r.start > r.row.expires
     \/ ~remember /\ r.start > r.row.active + IdleLimit

RefuseRevoked(p, header) ==
  LET r == req[p]
  IN /\ Judge(p)
     /\ Welcome(r)
     /\ r.row # None
     /\ r.row.revokedAt # Never
     /\ \E new \in Rewritten(r, header) : row' = [row EXCEPT ![r.s] = new]
     /\ Block(p, r.s)
     /\ Forget(p, r.s)

RefuseExpired(p, header) ==
  LET r == req[p]
  IN /\ Judge(p)
     /\ Welcome(r)
     /\ r.row # None
     /\ r.row.revokedAt = Never
     /\ Expired(r, header)
     /\ \E new \in Rewritten(r, header) :
          row' \in {[row EXCEPT ![r.s] = new], [row EXCEPT ![r.s] = [new EXCEPT !.revokedAt = now]]}
     /\ Block(p, r.s)
     /\ Forget(p, r.s)

\* mutant: the expiry counts from the writing
RememberLate(p, r, header, created, active) ==
  token' = [token EXCEPT ![p][r.s] = [created |-> created, active |-> active,
                                      remember |-> header, expires |-> now + CacheTtl]]

\* mutant: the expiry is left out
RememberForever(p, r, header, created, active) ==
  token' = [token EXCEPT ![p][r.s] = [created |-> created, active |-> active,
                                      remember |-> header, expires |-> None]]

\* What is remembered of the token: remember is the header's, not the row's, and the
\* expiry counts from the arrival.
Remember(p, r, header, created, active) ==
  token' = [token EXCEPT ![p][r.s] = [created |-> created, active |-> active,
                                      remember |-> header, expires |-> r.start + CacheTtl]]

\* mutant: the row's last use is never written
AdmitUnseen(p, header) ==
  LET r == req[p]
  IN /\ Judge(p)
     /\ Welcome(r)
     /\ r.row # None
     /\ r.row.revokedAt = Never
     /\ ~Expired(r, header)
     /\ \E new \in Rewritten(r, header) : row' = [row EXCEPT ![r.s] = new]
     /\ Remember(p, r, header, r.row.created, r.start)
     /\ UNCHANGED <<blocked, unseen>>

\* mutant: the process remembers the last use it has read
AdmitStale(p, header) ==
  LET r == req[p]
  IN /\ Judge(p)
     /\ Welcome(r)
     /\ r.row # None
     /\ r.row.revokedAt = Never
     /\ ~Expired(r, header)
     /\ row' = [row EXCEPT ![r.s] = [Upgraded(r, header) EXCEPT !.active = now]]
     /\ Remember(p, r, header, r.row.created, r.row.active)
     /\ UNCHANGED <<blocked, unseen>>

Admit(p, header) ==
  LET r == req[p]
      quiet == r.start > r.row.active + Throttle
  IN /\ Judge(p)
     /\ Welcome(r)
     /\ r.row # None
     /\ r.row.revokedAt = Never
     /\ ~Expired(r, header)
     /\ \E new \in Rewritten(r, header), active \in {row[r.s].active} \cup (IF quiet THEN {now} ELSE {}) :
          /\ row' = [row EXCEPT ![r.s] = [new EXCEPT !.active = active]]
          /\ unseen' = IF ~quiet THEN unseen ELSE IF active = now THEN unseen \ {r.s}
                                                                ELSE unseen \cup {r.s}
     /\ Remember(p, r, header, r.row.created, IF quiet THEN r.start ELSE r.row.active)
     /\ UNCHANGED blocked

\* There was no row: insert one, unless another process has meanwhile (sessionId is unique)
\* or the database refuses.
Register(p, header) ==
  LET r == req[p]
      new == [created |-> now, active |-> now, expires |-> r.start + Lifetime(header),
              remember |-> header, revokedAt |-> Never]
  IN /\ Judge(p)
     /\ Welcome(r)
     /\ r.row = None
     /\ row' \in {row, [row EXCEPT ![r.s] = IF Known(r.s) THEN @ ELSE new]}
     /\ IF row'[r.s] = None
        THEN Remember(p, r, header, r.start, r.start)
        ELSE Remember(p, r, header, row'[r.s].created, row'[r.s].active)
     /\ UNCHANGED blocked

-----------------------------------------------------------------------------
\* Revocation.  The rows are written and then, in the same process, the memory is cleared.

SignOut(S) == row' = [s \in Sessions |-> IF s \in S THEN [row[s] EXCEPT !.revokedAt = now] ELSE row[s]]

ActiveOf(U) == {s \in Sessions : UserOf[s] \in U /\ Active(s)}

\* invalidateSessionCache(s) for each s of S, then invalidateTokenUserCache for each of U
BlockHere(p, S, U) ==
  /\ blocked' = [blocked EXCEPT ![p] = @ \cup S]
  /\ token' = [token EXCEPT ![p] =
       [s \in Sessions |-> IF s \in S \/ UserOf[s] \in U THEN None ELSE @[s]]]

\* SessionsService.revokeSession
RevokeSession(p, s) ==
  /\ Active(s)
  /\ SignOut({s})
  /\ BlockHere(p, {s}, {UserOf[s]})
  /\ UNCHANGED <<now, locked, emergency, state, req>>

\* AuthController.logout blocks the session here, whose request the guard let in ...
Logout(p, s) ==
  /\ Known(s) \/ token[p][s] # None
  /\ leaving' = [leaving EXCEPT ![p] = @ \cup {s}]
  /\ BlockHere(p, {s}, {UserOf[s]})
  /\ UNCHANGED <<now, row, locked, emergency, state, req>>

\* ... and then revokes it, if it is not yet; a failure is ignored.
EndLogout(p, s) ==
  /\ s \in leaving[p]
  /\ leaving' = [leaving EXCEPT ![p] = @ \ {s}]
  /\ \/ UNCHANGED <<row, blocked, token>>
     \/ Active(s) /\ SignOut({s}) /\ BlockHere(p, {s}, {UserOf[s]})
  /\ UNCHANGED <<now, locked, emergency, state, req>>

\* keep is the session that asks, None if it is not one of Sessions.
RevokeAllOtherSessions(p, u, keep) ==
  LET others == ActiveOf({u}) \ {keep}
  IN /\ others # {}
     /\ SignOut(others)
     /\ BlockHere(p, others, {})
     /\ UNCHANGED <<now, locked, emergency, state, req>>

\* AuthService.handlePasswordChanged
PasswordChanged(p, u, keep) ==
  LET others == ActiveOf({u}) \ {keep}
  IN /\ SignOut(others)
     /\ BlockHere(p, others, {u})
     /\ UNCHANGED <<now, locked, emergency, state, req>>

\* AuthService.handlePasswordReset
PasswordReset(p, u, keep) == PasswordChanged(p, u, keep)

-----------------------------------------------------------------------------
\* EmergencySecurityService

RevokeUserSessions(u) ==
  /\ SignOut(ActiveOf({u}))
  /\ UNCHANGED <<now, locked, emergency, guardVars>>

LockUser(u) ==
  /\ u \notin locked
  /\ locked' = locked \cup {u}
  /\ SignOut(ActiveOf({u}))
  /\ UNCHANGED <<now, emergency, guardVars>>

UnlockUser(u) ==
  /\ u \in locked
  /\ locked' = locked \ {u}
  /\ UNCHANGED <<now, row, emergency, guardVars>>

\* The tenant's own securityStatus is not kept, since no guard comes to read it.
LockTenant(t) ==
  /\ SignOut(ActiveOf(MembersOf[t]))
  /\ UNCHANGED <<now, locked, emergency, guardVars>>

\* Called without a session, invalidateSessionCache forgets every blocked session.
ForcePasswordReset(p, u) ==
  /\ SignOut(ActiveOf({u}))
  /\ blocked' = [blocked EXCEPT ![p] = {}]
  /\ token' = [token EXCEPT ![p] = [s \in Sessions |-> IF UserOf[s] = u THEN None ELSE @[s]]]
  /\ UNCHANGED <<now, locked, emergency, state, req>>

\* The break-glass code that the super admin must give is not kept.
EnablePlatformEmergency ==
  /\ ~Emergency
  /\ emergency' = now
  /\ UNCHANGED <<now, row, locked, guardVars>>

DisablePlatformEmergency ==
  /\ Emergency
  /\ emergency' = Never
  /\ UNCHANGED <<now, row, locked, guardVars>>

-----------------------------------------------------------------------------
\* The process restarts: its memory and its requests are gone.
Restart(p) ==
  /\ token' = [token EXCEPT ![p] = [s \in Sessions |-> None]]
  /\ blocked' = [blocked EXCEPT ![p] = {}]
  /\ state' = [state EXCEPT ![p] = None]
  /\ leaving' = [leaving EXCEPT ![p] = {}]
  /\ Answer(p)
  /\ UNCHANGED <<now, row, locked, emergency>>

\* What the header of a request with the token of s says of "remember me".
Headers(s) == {chosen[s]} \cup (IF Bare THEN {FALSE} ELSE {})

Request(p) ==
  \/ /\ UNCHANGED unseen
     /\ \/ \E s \in Sessions : \/ ServeFromMemory(p, s)
                               \/ RefuseFromMemory(p, s)
                               \/ OutliveInMemory(p, s)
                               \/ Read(p, s)
        \/ RefuseEmergency(p)
        \/ RefuseLocked(p)
  \/ \E s \in Sessions : \E h \in Headers(s) :
       /\ req[p] # None
       /\ req[p].s = s
       /\ \/ UNCHANGED unseen /\ RefuseRevoked(p, h)
          \/ UNCHANGED unseen /\ RefuseExpired(p, h)
          \/ Admit(p, h)
          \/ UNCHANGED unseen /\ Register(p, h)

Revocation(p) ==
  \/ \E s \in Sessions : RevokeSession(p, s)
  \/ \E u \in Users :
       \/ ForcePasswordReset(p, u)
       \/ \E k \in {None} \cup {s \in Sessions : UserOf[s] = u} :
            RevokeAllOtherSessions(p, u, k) \/ PasswordChanged(p, u, k) \/ PasswordReset(p, u, k)

EmergencyControl ==
  \/ \E u \in Users : RevokeUserSessions(u) \/ LockUser(u)
  \/ \E t \in Tenants : LockTenant(t)
  \/ EnablePlatformEmergency

Order ==
  /\ orders < MaxOrders
  /\ orders' = orders + 1
  /\ UNCHANGED unseen
  /\ \/ UNCHANGED leaving /\ (EmergencyControl \/ \E p \in Procs : Revocation(p))
     \/ \E p \in Procs : Restart(p) \/ \E s \in Sessions : Logout(p, s)

\* What undoes a control, and the end of a logout, is not counted.
Other ==
  /\ UNCHANGED orders
  /\ \/ /\ UNCHANGED <<leaving, unseen>>
        /\ Tick \/ DisablePlatformEmergency \/ \E u \in Users : UnlockUser(u)
     \/ UNCHANGED leaving /\ \E p \in Procs : Request(p)
     \/ UNCHANGED unseen /\ \E p \in Procs, s \in Sessions : EndLogout(p, s)

Next == UNCHANGED chosen /\ (Order \/ Other)

Spec == Init /\ [][Next]_vars

-----------------------------------------------------------------------------
\* The types of the variables.
TypeOK ==
  /\ chosen \in [Sessions -> BOOLEAN]
  /\ now \in 0 .. MaxTime
  /\ row \in [Sessions -> Rows \cup {None}]
  /\ locked \in SUBSET Users
  /\ emergency \in Times
  /\ token \in [Procs -> [Sessions -> Tokens \cup {None}]]
  /\ blocked \in [Procs -> SUBSET Sessions]
  /\ state \in [Procs -> States \cup {None}]
  /\ req \in [Procs -> Requests \cup {None}]
  /\ leaving \in [Procs -> SUBSET Sessions]
  /\ unseen \in SUBSET Sessions
  /\ orders \in 0 .. MaxOrders

\* A session revoked anywhere is let in nowhere longer than CacheTtl: no process keeps its
\* token past that, whatever it was reading when the session was revoked, and whatever
\* memory another operation cleared.
RevokedWithinTtl ==
  \A p \in Procs, s \in Sessions :
    Revoked(s) /\ token[p][s] # None => token[p][s].expires <= row[s].revokedAt + CacheTtl

\* An emergency shuts out everyone but the super admins, each process after the two
\* memories that stack: the platform's state may be old when a token is remembered by it.
EmergencyWithinTtls ==
  \A p \in Procs, s \in Sessions :
    Emergency /\ UserOf[s] \notin Admins /\ token[p][s] # None =>
      token[p][s].expires <= emergency + StateTtl + CacheTtl

\* While a process serves a session from memory, the row is at most CacheTtl + Throttle
\* behind its use, so that no session in use passes for idle elsewhere; unless the
\* database refused to record the last use that was to be recorded.
UseRecorded ==
  \A p \in Procs, s \in Sessions :
    Known(s) /\ token[p][s] # None /\ s \notin unseen =>
      token[p][s].expires <= row[s].active + Throttle + CacheTtl

\* No process serves a session from memory for longer than its user chose, whichever of
\* its requests told the choice and whichever of them the row records.
LifeLimited ==
  \A p \in Procs, s \in Sessions :
    Known(s) /\ Hit(p, s) /\ ~Outlived(token[p][s]) => now <= row[s].created + Lifetime(chosen[s])

\* The request at hand found the session's time over in what it read of the row.
RanOut(r) ==
  /\ r.row # None
  /\ \/ r.start > r.row.created + Absolute
     \/ r.start > r.row.expires
     \/ r.start > r.row.active + IdleLimit

\* A process begins to block an active session only if its user logs out there or was
\* found locked, or its ordinary time is over: what a process remembers never makes a
\* session idle that is used, whatever the database refuses to record.
BlockedForCause ==
  [][\A p \in Procs, s \in Sessions :
       s \in blocked'[p] \ blocked[p] /\ Active(s)' =>
         \/ s \in leaving'[p]
         \/ now > row[s].created + Absolute
         \/ req[p] # None /\ req[p].s = s /\ (req[p].locked \/ RanOut(req[p]))]_vars

\* A session that its row says is remembered is not outlived in the memory of any process
\* before its time.
RememberedLasts ==
  \A p \in Procs, s \in Sessions :
    Active(s) /\ row[s].remember /\ now <= row[s].created + Persistent /\ Hit(p, s) =>
      ~Outlived(token[p][s])
=============================================================================
