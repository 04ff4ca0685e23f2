---------------------------- MODULE InboxProofs ----------------------------
(***************************************************************************)
(* What holds of the synchronization for any mailbox, any number of        *)
(* workers and any faults, and what holds as long as no worker outlives    *)
(* its lock.                                                               *)
(***************************************************************************)
EXTENDS Inbox, TLAPS

Batch == {"search", "store", "advance"}
Running == Batch \cup {"mark", "connect", "fetch"}

\* A run has only mails behind it that are stored, and a batch has only mails that arrived.
RunOK(r, st, arr) ==
  /\ r.at \in Running => r.uid >= 1 /\ \A u \in Uids : 1 <= u /\ u < r.uid => st[IdOf[u]] > 0
  /\ r.at \in Batch => r.uid <= r.last /\ r.last <= arr
  /\ r.at = "advance" => st[IdOf[r.uid]] > 0

RunsOK == \A w \in Workers : RunOK(run[w], stored, arrived)

\* Types; a job that waits or runs has an attempt left.
TInv ==
  /\ TypeOK
  /\ job.state \in {"waiting", "active"} => job.tries < Attempts

Inv == TInv /\ RunsOK /\ CursorCovers

-----------------------------------------------------------------------------
\* Records and places

LEMMA HereIs ==
  ASSUME NEW place \in Places
  PROVE  /\ Here(place) \in Runs
         /\ Here(place).at = place
BY InboxAssumption DEF Here, Runs, Uids

LEMMA MarkAt ==
  ASSUME NEW uid \in Uids
  PROVE  [Here("mark") EXCEPT !.uid = uid] \in Runs
<1>1. ASSUME NEW r \in Runs
      PROVE  [r EXCEPT !.uid = uid] \in Runs
  BY <1>1 DEF Runs
<1>2. "mark" \in Places
  BY DEF Places
<1> QED
  BY <1>1, <1>2, HereIs

LEMMA HereOK ==
  ASSUME NEW place \in Places \ Running, NEW st, NEW arr
  PROVE  RunOK(Here(place), st, arr)
BY DEF Here, RunOK, Running, Batch

\* The run of one worker changes, the others' do not.
LEMMA Becomes ==
  ASSUME run \in [Workers -> Runs], NEW w \in Workers, NEW r \in Runs, Become(w, r)
  PROVE  /\ run' \in [Workers -> Runs]
         /\ run'[w] = r
         /\ \A v \in Workers : v # w => run'[v] = run[v]
BY DEF Become

\* What a run relies on stays: mails are not taken back.
LEMMA RunStays ==
  ASSUME NEW r \in Runs, NEW st \in [Ids -> Nat], NEW st2 \in [Ids -> Nat],
         NEW arr \in 0 .. MaxMail, NEW arr2 \in 0 .. MaxMail,
         \A i \in Ids : st[i] <= st2[i], arr <= arr2, RunOK(r, st, arr)
  PROVE  RunOK(r, st2, arr2)
<1>1. r.at \in Batch => r.uid \in 1 .. MaxMail
  BY InboxAssumption DEF RunOK, Runs, Uids, Batch, Running
<1>2. \A u \in 1 .. MaxMail : IdOf[u] \in Ids
  BY InboxAssumption
<1>3. ASSUME NEW u \in 1 .. MaxMail, st[IdOf[u]] > 0
      PROVE  st2[IdOf[u]] > 0
  BY <1>2, <1>3
<1>4. r.uid \in Uids
  BY DEF Runs
<1>5. ASSUME NEW u \in Uids, 1 <= u, u < r.uid
      PROVE  u \in 1 .. MaxMail
  BY <1>4, <1>5, InboxAssumption DEF Uids
<1>6. r.at = "advance" => r.at \in Batch
  BY DEF Batch
<1>7. r.at = "advance" => st2[IdOf[r.uid]] > 0
  BY <1>1, <1>3, <1>6 DEF RunOK
<1>8. r.at \in Running => r.uid >= 1 /\ \A u \in Uids : 1 <= u /\ u < r.uid => st2[IdOf[u]] > 0
  BY <1>3, <1>5 DEF RunOK
<1>9. r.at \in Batch => r.uid <= r.last /\ r.last <= arr2
  BY InboxAssumption DEF RunOK, Runs
<1> QED
  BY <1>7, <1>8, <1>9 DEF RunOK

LEMMA MailIds == \A u \in 1 .. MaxMail : IdOf[u] \in Ids
BY InboxAssumption

\* What may be found is a thread or none.
LEMMA FoundIs ==
  ASSUME threads \in [Ids -> SUBSET Ids], NEW id \in Ids
  PROVE  Found(id) \subseteq Ids \cup {None}
BY InboxAssumption DEF Found

-----------------------------------------------------------------------------
\* What a step may do to the store, the cursor and the runs

Same == UNCHANGED <<arrived, stored, threads>>

SameCursor == account' \in Accounts /\ account'.cursor = account.cursor

\* Nothing a run relies on changes.
Outside ==
  /\ arrived' \in {arrived, arrived + 1}
  /\ arrived' <= MaxMail
  /\ UNCHANGED <<stored, threads, run>>
  /\ SameCursor

\* w is outside of a run afterwards.
Leaves(w) ==
  /\ \E place \in Places \ Running : Goto(w, place)
  /\ Same
  /\ SameCursor

Starts(w) ==
  /\ At(w, "look")
  /\ Become(w, [Here("mark") EXCEPT !.uid = account.cursor + 1])
  /\ Same
  /\ SameCursor

Readies(w) ==
  /\ \/ At(w, "mark") /\ Become(w, [run[w] EXCEPT !.at = "connect"])
     \/ At(w, "connect") /\ Become(w, [run[w] EXCEPT !.at = "fetch"])
  /\ Same
  /\ SameCursor

Fetches(w) ==
  /\ At(w, "fetch")
  /\ \E last \in run[w].uid .. arrived :
       Become(w, [run[w] EXCEPT !.at = "search", !.last = last])
  /\ Same
  /\ SameCursor

Searches(w) == Search(w) /\ SameCursor

Stores(w) == Store(w) /\ SameCursor

Step ==
  \/ Outside
  \/ \E w \in Workers :
       \/ Leaves(w) \/ Starts(w) \/ Readies(w) \/ Fetches(w)
       \/ Searches(w) \/ Stores(w) \/ AdvanceSyncCursor(w)

JobOK ==
  /\ job \in Jobs
  /\ job.state = "active" <=> job.holder # None
  /\ job.state \in {"waiting", "active"} => job.tries < Attempts

LEMMA JobInv == TInv => JobOK
BY DEF TInv, TypeOK, JobOK

LEMMA Synced ==
  ASSUME account \in Accounts,
         NEW status \in {"IDLE", "SYNCING", "SUCCESS", "AUTH_FAILED", "ERROR"}, Sync(status)
  PROVE  SameCursor
<1>1. account' = [account EXCEPT !.sync = status]
  BY DEF Sync
<1>2. [account EXCEPT !.sync = status] \in Accounts
  BY DEF Accounts
<1>3. [account EXCEPT !.sync = status].cursor = account.cursor
  BY DEF Accounts
<1> QED
  BY <1>1, <1>2, <1>3 DEF SameCursor

\* The job stays well-formed.
LEMMA JobKept ==
  ASSUME TInv, Next
  PROVE  JobOK'
<1> USE JobInv DEF Jobs, NoJob, Attempts, MaxStalledCount
<1>1. CASE EnqueueSyncInbox
  BY <1>1 DEF EnqueueSyncInbox, JobOK
<1>2. CASE Evict
  BY <1>2 DEF Evict, JobOK
<1>3. CASE Stall
  <2>1. job' \in Jobs
    <3>1. job' = [job EXCEPT !.holder = None, !.stalls = job'.stalls, !.state = job'.state]
      BY <1>3 DEF Stall, JobOK
    <3>2. job'.stalls \in 0 .. 1
      BY <1>3 DEF Stall, JobOK
    <3>3. job'.state \in {"waiting", "failed"}
      BY <1>3 DEF Stall, JobOK
    <3> QED
      BY <3>1, <3>2, <3>3 DEF JobOK
  <2>2. /\ job'.tries = job.tries
        /\ job'.holder = None
        /\ job'.state \in {"waiting", "failed"}
    BY <1>3 DEF Stall, JobOK
  <2> QED
    BY <1>3, <2>1, <2>2 DEF Stall, JobOK
<1>4. ASSUME NEW w \in Workers, Take(w)
      PROVE  JobOK'
  BY <1>4, InboxAssumption DEF Take, JobOK
<1>5. ASSUME NEW w \in Workers, Report(w)
      PROVE  JobOK'
  <2>1. w # None
    BY InboxAssumption
  <2>2. CASE job.holder = w /\ At(w, "threw")
    <3>1. job' = Again(job)
      BY <1>5, <2>2 DEF Report, At
    <3>2. job.state = "active" /\ job.tries + 1 <= 3
      BY <2>1, <2>2 DEF JobOK
    <3>3. /\ job'.tries = job.tries + 1
          /\ job'.holder = None
          /\ job'.stalls = job.stalls
          /\ job'.state = IF job.tries + 1 < 3 THEN "waiting" ELSE "failed"
      BY <3>1 DEF Again, JobOK
    <3>4. job' = [state |-> job'.state, tries |-> job'.tries, stalls |-> job'.stalls,
                  holder |-> job'.holder]
      BY <3>1 DEF Again, JobOK
    <3>5. job.tries \in Nat /\ job.stalls \in 0 .. 1
      BY DEF JobOK
    <3>6. job'.tries \in 0 .. 3
      BY <3>2, <3>3, <3>5
    <3>7. job' \in Jobs
      BY <3>3, <3>4, <3>5, <3>6
    <3> QED
      BY <3>2, <3>3, <3>7 DEF JobOK
  <2> QED
    BY <1>5, <2>2 DEF Report, JobOK
<1>6. CASE UNCHANGED job
  BY <1>6 DEF JobOK
<1> QED
  BY <1>1, <1>2, <1>3, <1>4, <1>5, <1>6
  DEF Next, Proceed, Breaks, Arrive, LookUp, Mark, Connect, FetchMessages, Search, Store,
      AdvanceSyncCursor, Finish, Fail, Unsafe, ConnectFails, FetchFails, MessageFails, Crash,
      UpdateAccount, DeleteAccount, CreateAccount, VerifyAccount, rest

LEMMA NextStep ==
  ASSUME TInv, Next
  PROVE  Step
<1> USE DEF Step
<1>t. account \in Accounts /\ arrived \in 0 .. MaxMail /\ run \in [Workers -> Runs]
  BY DEF TInv, TypeOK
<1>a. UNCHANGED account => SameCursor
  BY <1>t DEF SameCursor
<1>1. CASE Arrive
  BY <1>1, <1>t, <1>a, InboxAssumption DEF Arrive, Outside
<1>2. CASE EnqueueSyncInbox \/ Evict \/ Stall
  BY <1>2, <1>t, <1>a DEF EnqueueSyncInbox, Evict, Stall, Outside
<1>3. CASE UpdateAccount \/ DeleteAccount
  <2>1. SameCursor
    BY <1>3, <1>t DEF UpdateAccount, DeleteAccount, SameCursor, Accounts
  <2> QED
    BY <1>3, <1>t, <2>1 DEF UpdateAccount, DeleteAccount, Outside, rest
<1>4. CASE CreateAccount
  <2>1. SameCursor
    BY <1>4, <1>t DEF CreateAccount, SameCursor, Accounts
  <2> QED
    BY <1>4, <1>t, <2>1 DEF CreateAccount, Outside, rest
<1>5. CASE VerifyAccount
  <2>1. SameCursor
    BY <1>5, <1>t, Synced DEF VerifyAccount
  <2> QED
    BY <1>5, <1>t, <2>1 DEF VerifyAccount, Outside, rest
<1>6. ASSUME NEW w \in Workers, Take(w) \/ Proceed(w) \/ Breaks(w)
      PROVE  Leaves(w) \/ Starts(w) \/ Readies(w) \/ Fetches(w) \/ Searches(w) \/ Stores(w)
             \/ AdvanceSyncCursor(w)
  <2> USE DEF Same
  <2>o. {"look", "idle", "done", "threw", "finish", "fail"} \subseteq Places \ Running
    BY DEF Places, Running, Batch
  <2>l. ASSUME NEW place \in {"look", "idle", "done", "threw", "finish", "fail"},
               Goto(w, place), Same, SameCursor
        PROVE  Leaves(w)
    BY <2>l, <2>o DEF Leaves
  <2>1. CASE Take(w)
    BY <2>1, <1>a, <2>l DEF Take
  <2>2. CASE Report(w)
    BY <2>2, <1>a, <2>l DEF Report
  <2>3. CASE Crash(w)
    BY <2>3, <1>a, <2>l DEF Crash
  <2>4. CASE Unsafe(w) \/ FetchFails(w) \/ MessageFails(w)
    BY <2>4, <1>a, <2>l DEF Unsafe, FetchFails, MessageFails, rest
  <2>5. CASE ConnectFails(w)
    <3>1. SameCursor
      BY <2>5, <1>t, Synced DEF ConnectFails
    <3> QED
      BY <2>5, <3>1, <2>l DEF ConnectFails, rest
  <2>6. CASE Fail(w)
    <3>1. SameCursor
      BY <2>6, <1>t, Synced DEF Fail
    <3> QED
      BY <2>6, <3>1, <2>l DEF Fail, rest
  <2>7. CASE Finish(w)
    <3>1. SameCursor
      BY <2>7, <1>t, Synced DEF Finish
    <3> QED
      BY <2>7, <3>1, <2>l DEF Finish, rest
  <2>8. CASE LookUp(w)
    BY <2>8, <1>a, <2>l DEF LookUp, Starts, rest
  <2>9. CASE Mark(w)
    <3>1. SameCursor
      BY <2>9, <1>t, Synced DEF Mark
    <3> QED
      BY <2>9, <3>1 DEF Mark, Readies, rest
  <2>10. CASE Connect(w)
    BY <2>10, <1>a DEF Connect, Readies, rest
  <2>11. CASE FetchMessages(w)
    <3>1. CASE arrived < run[w].uid
      BY <2>11, <3>1, <1>a, <2>l DEF FetchMessages, rest
    <3>2. CASE ~(arrived < run[w].uid)
      <4> DEFINE end == run[w].uid + Limit - 1
                 last == IF end < arrived THEN end ELSE arrived
      <4>1. run[w].uid \in Nat
        BY <1>t DEF Runs, Uids
      <4>2. last \in run[w].uid .. arrived
        BY <4>1, <1>t, <3>2, InboxAssumption
      <4>3. Become(w, [run[w] EXCEPT !.at = "search", !.last = last])
        BY <2>11, <3>2 DEF FetchMessages
      <4>4. At(w, "fetch") /\ Same /\ UNCHANGED account
        BY <2>11 DEF FetchMessages, rest
      <4> HIDE DEF last
      <4> QED
        BY <4>2, <4>3, <4>4, <1>a DEF Fetches
    <3> QED
      BY <3>1, <3>2
  <2>12. CASE Search(w)
    BY <2>12, <1>a DEF Search, Searches
  <2>13. CASE Store(w)
    BY <2>13, <1>a DEF Store, Stores
  <2>14. CASE AdvanceSyncCursor(w)
    BY <2>14
  <2> QED
    BY <1>6, <2>1, <2>2, <2>3, <2>4, <2>5, <2>6, <2>7, <2>8, <2>9, <2>10, <2>11, <2>12, <2>13,
       <2>14 DEF Proceed, Breaks
<1> QED
  BY <1>1, <1>2, <1>3, <1>4, <1>5, <1>6 DEF Next

-----------------------------------------------------------------------------
\* The cursor

StoreTypes ==
  /\ arrived \in 0 .. MaxMail
  /\ account \in Accounts
  /\ stored \in [Ids -> Nat]
  /\ threads \in [Ids -> SUBSET Ids]
  /\ run \in [Workers -> Runs]

StoreInv == StoreTypes /\ RunsOK /\ CursorCovers

\* The mail a batch is at.
LEMMA BatchMail ==
  ASSUME StoreTypes, NEW r \in Runs, r.at \in Batch, RunOK(r, stored, arrived)
  PROVE  r.uid \in 1 .. MaxMail /\ r.uid <= r.last /\ r.last <= arrived /\ r.uid <= arrived
<1>1. arrived \in 0 .. MaxMail /\ r.uid \in Nat /\ r.last \in Nat
  BY InboxAssumption DEF StoreTypes, Runs, Uids
<1>2. r.uid >= 1 /\ r.uid <= r.last /\ r.last <= arrived
  BY DEF RunOK, Running
<1> QED
  BY <1>1, <1>2, InboxAssumption

\* A step of w's run that keeps the store and the cursor.
LEMMA Moved ==
  ASSUME StoreInv, Same, SameCursor, NEW w \in Workers, NEW r \in Runs, Become(w, r),
         RunOK(r, stored, arrived)
  PROVE  StoreInv'
<1>1. /\ run' \in [Workers -> Runs]
      /\ run'[w] = r
      /\ \A v \in Workers : v # w => run'[v] = run[v]
  BY Becomes DEF StoreInv, StoreTypes
<1>2. StoreTypes'
  BY <1>1 DEF StoreInv, StoreTypes, Same, SameCursor
<1>3. CursorCovers'
  BY DEF StoreInv, CursorCovers, Same, SameCursor
<1>4. ASSUME NEW v \in Workers
      PROVE  RunOK(run'[v], stored', arrived')
  BY <1>1 DEF StoreInv, RunsOK, Same
<1> QED
  BY <1>2, <1>3, <1>4 DEF StoreInv, RunsOK

LEMMA StepStore ==
  ASSUME StoreInv, Step
  PROVE  StoreInv'
<1>t. StoreTypes
  BY DEF StoreInv
<1>r. ASSUME NEW w \in Workers
      PROVE  /\ run[w] \in Runs
             /\ RunOK(run[w], stored, arrived)
  BY DEF StoreInv, StoreTypes, RunsOK
<1>1. CASE Outside
  <2>1. StoreTypes'
    BY <1>1, <1>t DEF Outside, StoreTypes, SameCursor
  <2>2. CursorCovers'
    BY <1>1 DEF Outside, SameCursor, StoreInv, CursorCovers
  <2>3. ASSUME NEW w \in Workers
        PROVE  RunOK(run'[w], stored', arrived')
    <3>1. stored' = stored /\ run' = run /\ arrived' \in 0 .. MaxMail /\ arrived <= arrived'
      BY <1>1, <1>t, InboxAssumption DEF Outside, StoreTypes
    <3>2. RunOK(run[w], stored, arrived')
      BY <3>1, <1>r, <1>t, RunStays DEF StoreTypes
    <3> QED
      BY <3>1, <3>2
  <2> QED
    BY <2>1, <2>2, <2>3 DEF StoreInv, RunsOK
<1>2. ASSUME NEW w \in Workers, Leaves(w)
      PROVE  StoreInv'
  <2>1. PICK place \in Places \ Running : Goto(w, place)
    BY <1>2 DEF Leaves
  <2> QED
    BY <1>2, <2>1, HereIs, HereOK, Moved DEF Leaves, Goto
<1>3. ASSUME NEW w \in Workers, Starts(w)
      PROVE  StoreInv'
  <2> DEFINE r == [Here("mark") EXCEPT !.uid = account.cursor + 1]
  <2>1. account.cursor \in 0 .. MaxMail
    BY <1>t DEF StoreTypes, Accounts
  <2>2. r.at = "mark" /\ r.uid = account.cursor + 1
    BY DEF Here
  <2>3. r \in Runs
    <3>1. account.cursor + 1 \in Uids
      BY <2>1, InboxAssumption DEF Uids
    <3> QED
      BY <3>1, MarkAt
  <2>4. RunOK(r, stored, arrived)
    <3> HIDE DEF r
    <3>1. ASSUME NEW u \in Uids, 1 <= u, u < r.uid
          PROVE  stored[IdOf[u]] > 0
      BY <2>1, <2>2, <3>1, InboxAssumption DEF StoreInv, CursorCovers, Uids
    <3> QED
      BY <2>1, <2>2, <3>1 DEF RunOK, Batch
  <2> QED
    BY <1>3, <2>3, <2>4, Moved DEF Starts
<1>4. ASSUME NEW w \in Workers, Readies(w)
      PROVE  StoreInv'
  <2>1. ASSUME NEW place \in {"connect", "fetch"}, run[w].at \in {"mark", "connect"},
               Become(w, [run[w] EXCEPT !.at = place])
        PROVE  StoreInv'
    <3> DEFINE r == [run[w] EXCEPT !.at = place]
    <3>1. r.at = place /\ r.uid = run[w].uid /\ r \in Runs
      BY <1>r DEF Runs, Places
    <3>2. RunOK(r, stored, arrived)
      <4> HIDE DEF r
      <4> QED
        BY <3>1, <2>1, <1>r DEF RunOK, Running, Batch
    <3> QED
      BY <1>4, <2>1, <3>1, <3>2, Moved DEF Readies
  <2> QED
    BY <1>4, <2>1 DEF Readies, At
<1>5. ASSUME NEW w \in Workers, Fetches(w)
      PROVE  StoreInv'
  <2>1. PICK last \in run[w].uid .. arrived :
          Become(w, [run[w] EXCEPT !.at = "search", !.last = last])
    BY <1>5 DEF Fetches
  <2> DEFINE r == [run[w] EXCEPT !.at = "search", !.last = last]
  <2>2. r.at = "search" /\ r.uid = run[w].uid /\ r.last = last
    BY <1>r DEF Runs
  <2>3. last \in 0 .. MaxMail /\ run[w].uid <= last /\ last <= arrived
    BY <1>r, <1>t, InboxAssumption DEF StoreTypes, Runs, Uids
  <2>4. r \in Runs
    BY <1>r, <2>3 DEF Runs, Places
  <2>5. RunOK(r, stored, arrived)
    <3>1. run[w].at = "fetch"
      BY <1>5 DEF Fetches, At
    <3> HIDE DEF r
    <3> QED
      BY <2>2, <2>3, <3>1, <1>r DEF RunOK, Running, Batch
  <2> QED
    BY <1>5, <2>1, <2>4, <2>5, Moved DEF Fetches
<1>6. ASSUME NEW w \in Workers, Searches(w)
      PROVE  StoreInv'
  <2>1. Same /\ SameCursor /\ run[w].at = "search"
    BY <1>6 DEF Searches, Search, Same, rest, At
  <2>2. run[w].uid \in 1 .. MaxMail /\ run[w].uid <= run[w].last /\ run[w].last <= arrived
    BY <2>1, <1>r, <1>t, BatchMail DEF RunOK, Batch
  <2>3. CASE stored[IdOf[run[w].uid]] > 0
    <3> DEFINE r == [run[w] EXCEPT !.at = "advance"]
    <3>0. stored[IdOf[run[w].uid]] # 0
      BY <2>2, <2>3, <1>t, MailIds DEF StoreTypes
    <3>1. Become(w, r)
      BY <1>6, <3>0 DEF Searches, Search
    <3>2. r.at = "advance" /\ r.uid = run[w].uid /\ r.last = run[w].last /\ r \in Runs
      BY <1>r DEF Runs, Places
    <3>3. RunOK(r, stored, arrived)
      <4> HIDE DEF r
      <4> QED
        BY <3>2, <2>1, <2>2, <2>3, <1>r DEF RunOK, Running, Batch
    <3> QED
      BY <2>1, <3>1, <3>2, <3>3, Moved
  <2>4. CASE ~(stored[IdOf[run[w].uid]] > 0)
    <3>4. PICK hit \in Ids \cup {None} : Become(w, [run[w] EXCEPT !.at = "store", !.match = hit])
      <4>1. \E hit \in Found(IdOf[run[w].uid]) :
              Become(w, [run[w] EXCEPT !.at = "store", !.match = hit])
        BY <1>6, <2>4 DEF Searches, Search
      <4>2. Found(IdOf[run[w].uid]) \subseteq Ids \cup {None}
        BY <2>2, <1>t, MailIds, FoundIs DEF StoreTypes
      <4> QED
        BY <4>1, <4>2
    <3> DEFINE r == [run[w] EXCEPT !.at = "store", !.match = hit]
    <3>1. Become(w, r)
      BY <3>4
    <3>2. r.at = "store" /\ r.uid = run[w].uid /\ r.last = run[w].last /\ r \in Runs
      BY <1>r DEF Runs, Places
    <3>3. RunOK(r, stored, arrived)
      <4> HIDE DEF r
      <4> QED
        BY <3>2, <2>1, <2>2, <1>r DEF RunOK, Running, Batch
    <3> QED
      BY <2>1, <3>1, <3>2, <3>3, Moved
  <2> QED
    BY <2>3, <2>4
<1>7. ASSUME NEW w \in Workers, Stores(w)
      PROVE  StoreInv'
  <2> DEFINE id == IdOf[run[w].uid]
             r == [run[w] EXCEPT !.at = "advance", !.match = None]
  <2>1. run[w].at = "store" /\ SameCursor /\ arrived' = arrived
    BY <1>7 DEF Stores, Store, At
  <2>2. run[w].uid \in 1 .. MaxMail /\ run[w].uid <= run[w].last /\ run[w].last <= arrived
    BY <2>1, <1>r, <1>t, BatchMail DEF RunOK, Batch
  <2>3. id \in Ids
    BY <2>2, MailIds
  <2>4. /\ stored' \in [Ids -> Nat]
        /\ \A i \in Ids : stored[i] <= stored'[i]
        /\ stored'[id] > 0
    BY <1>7, <2>3, <1>t DEF Stores, Store, StoreTypes
  <2>5. threads' \in [Ids -> SUBSET Ids]
    <3>1. run[w].match \in Ids \cup {None}
      BY <1>r DEF Runs
    <3> QED
      BY <1>7, <2>3, <3>1, <1>t DEF Stores, Store, StoreTypes
  <2>6. r.at = "advance" /\ r.uid = run[w].uid /\ r.last = run[w].last /\ r \in Runs
    BY <1>r DEF Runs, Places
  <2>7. /\ run' \in [Workers -> Runs]
        /\ run'[w] = r
        /\ \A v \in Workers : v # w => run'[v] = run[v]
    BY <1>7, <1>t, <2>6, Becomes DEF Stores, Store, StoreTypes
  <2>8. ASSUME NEW v \in Workers
        PROVE  RunOK(run[v], stored', arrived')
    BY <2>1, <2>4, <1>r, <1>t, RunStays DEF StoreTypes
  <2>9. RunOK(r, stored', arrived')
    <3>1. stored'[IdOf[r.uid]] > 0
      BY <2>4, <2>6
    <3> HIDE DEF r, id
    <3> QED
      BY <2>1, <2>2, <2>6, <3>1, <2>8 DEF RunOK, Running, Batch
  <2>10. CursorCovers'
    <3>1. ASSUME NEW u \in 1 .. account.cursor
          PROVE  stored'[IdOf[u]] > 0
      <4>0. account.cursor \in 0 .. MaxMail
        BY <1>t DEF StoreTypes, Accounts
      <4>1. u \in 1 .. MaxMail /\ stored[IdOf[u]] > 0
        <5>1. stored[IdOf[u]] > 0
          BY DEF StoreInv, CursorCovers
        <5> QED
          BY <4>0, <5>1, InboxAssumption
      <4> QED
        BY <4>1, <2>4, <1>t, MailIds DEF StoreTypes
    <3> QED
      BY <3>1, <2>1 DEF CursorCovers, SameCursor
  <2>11. StoreTypes'
    BY <1>t, <2>1, <2>4, <2>5, <2>7 DEF StoreTypes, SameCursor
  <2> HIDE DEF r, id
  <2> QED
    BY <2>7, <2>8, <2>9, <2>10, <2>11 DEF StoreInv, RunsOK
<1>8. ASSUME NEW w \in Workers, AdvanceSyncCursor(w)
      PROVE  StoreInv'
  <2>1. Same /\ run[w].at = "advance"
    BY <1>8 DEF AdvanceSyncCursor, rest, Same, At
  <2>2. /\ run[w].uid \in 1 .. MaxMail
        /\ run[w].uid <= run[w].last
        /\ run[w].last <= arrived
        /\ stored[IdOf[run[w].uid]] > 0
    BY <2>1, <1>r, <1>t, BatchMail DEF RunOK, Batch
  <2>3. account' \in Accounts /\ account'.cursor = run[w].uid
    BY <1>8, <2>2, <1>t DEF AdvanceSyncCursor, StoreTypes, Accounts
  <2>u. ASSUME NEW u \in Uids, 1 <= u, u < run[w].uid
        PROVE  stored[IdOf[u]] > 0
    BY <2>1, <2>u, <1>r DEF RunOK, Running, Batch
  <2>4. CursorCovers'
    <3>1. ASSUME NEW u \in 1 .. run[w].uid
          PROVE  stored[IdOf[u]] > 0
      BY <2>2, <2>u, InboxAssumption DEF Uids
    <3> QED
      BY <3>1, <2>1, <2>3 DEF CursorCovers, Same
  <2>5. PICK r \in Runs : Become(w, r) /\ RunOK(r, stored, arrived)
    <3>1. CASE run[w].uid < run[w].last
      <4> DEFINE r == [run[w] EXCEPT !.at = "search", !.uid = @ + 1]
      <4>1. Become(w, r)
        BY <1>8, <3>1 DEF AdvanceSyncCursor
      <4>4. run[w].uid + 1 \in Uids
        BY <2>2, InboxAssumption DEF Uids
      <4>2. /\ r.at = "search" /\ r.uid = run[w].uid + 1 /\ r.last = run[w].last
            /\ r \in Runs
        <5>1. "search" \in Places
          BY DEF Places
        <5>2. PICK n \in Uids : n = run[w].uid + 1
          BY <4>4
        <5>3. r = [run[w] EXCEPT !.at = "search", !.uid = n]
          BY <5>2, Zenon
        <5>4. run[w] \in Runs
          BY <1>r
        <5> DEFINE e == [run[w] EXCEPT !.at = "search", !.uid = n]
        <5>5. /\ e \in Runs
              /\ e.at = "search" /\ e.uid = n /\ e.last = run[w].last
          BY <5>1, <5>4 DEF Runs
        <5> HIDE DEF e
        <5>6. r = e
          BY <5>3 DEF e
        <5> HIDE DEF r
        <5> QED
          BY <5>2, <5>5, <5>6
      <4>3. RunOK(r, stored, arrived)
        <5> HIDE DEF r
        <5>1. ASSUME NEW u \in Uids, 1 <= u, u < run[w].uid + 1
              PROVE  stored[IdOf[u]] > 0
          BY <5>1, <2>2, <2>u, InboxAssumption DEF Uids
        <5>2. r.uid >= 1 /\ r.uid <= r.last /\ r.last <= arrived
          BY <2>2, <3>1, <4>2, <1>r DEF Runs
        <5> QED
          BY <4>2, <5>1, <5>2 DEF RunOK
      <4> HIDE DEF r
      <4> QED
        BY <4>1, <4>2, <4>3
    <3>2. CASE ~(run[w].uid < run[w].last)
      <4>1. "finish" \in Places \ Running
        BY DEF Places, Running, Batch
      <4>2. Become(w, Here("finish"))
        BY <1>8, <3>2 DEF AdvanceSyncCursor, Goto
      <4> QED
        BY <4>1, <4>2, HereIs, HereOK
    <3> QED
      BY <3>1, <3>2
  <2>6. /\ run' \in [Workers -> Runs]
        /\ run'[w] = r
        /\ \A v \in Workers : v # w => run'[v] = run[v]
    BY <2>5, <1>t, Becomes DEF StoreTypes
  <2>7. StoreTypes'
    BY <2>1, <2>3, <2>6, <1>t DEF StoreTypes, Same
  <2>8. ASSUME NEW v \in Workers
        PROVE  RunOK(run'[v], stored', arrived')
    BY <2>1, <2>5, <2>6, <1>r DEF Same
  <2> QED
    BY <2>4, <2>7, <2>8 DEF StoreInv, RunsOK
<1> QED
  BY <1>1, <1>2, <1>3, <1>4, <1>5, <1>6, <1>7, <1>8 DEF Step

LEMMA Parts == Inv <=> StoreInv /\ JobOK
BY DEF Inv, TInv, TypeOK, StoreInv, StoreTypes, JobOK

LEMMA InvHolds == Spec => []Inv
<1>1. Init => Inv
  <2> SUFFICES ASSUME Init
               PROVE  Inv
    OBVIOUS
  <2>1. "idle" \in Places \ Running
    BY DEF Places, Running, Batch
  <2>2. Idle \in Runs /\ RunOK(Idle, stored, arrived)
    BY <2>1, HereIs, HereOK DEF Idle
  <2>3. StoreTypes
    BY <2>2, InboxAssumption DEF Init, StoreTypes, Accounts
  <2>4. RunsOK
    BY <2>2 DEF Init, RunsOK
  <2>5. CursorCovers
    BY DEF Init, CursorCovers
  <2>6. JobOK
    BY DEF Init, JobOK, NoJob, Jobs, Attempts, MaxStalledCount
  <2> QED
    BY <2>3, <2>4, <2>5, <2>6, Parts DEF StoreInv
<1>2. Inv /\ [Next]_vars => Inv'
  <2> SUFFICES ASSUME Inv, [Next]_vars
               PROVE  Inv'
    OBVIOUS
  <2>1. CASE Next
    <3>1. StoreInv' /\ JobOK'
      BY <2>1, Parts, NextStep, StepStore, JobKept DEF Inv
    <3> QED
      BY <3>1 DEF Inv, TInv, TypeOK, StoreInv, StoreTypes, JobOK
  <2>2. CASE UNCHANGED vars
    BY <2>2 DEF vars, Inv, TInv, TypeOK, RunsOK, CursorCovers
  <2> QED
    BY <2>1, <2>2
<1> QED
  BY <1>1, <1>2, PTL DEF Spec

\* The variables keep their types, and a job has a holder exactly while it is active.
THEOREM TypeInvariant == Spec => []TypeOK
<1>1. Inv => TypeOK
  BY DEF Inv, TInv
<1> QED
  BY <1>1, InvHolds, PTL

\* The cursor never passes a mail that is not stored: whatever fails, and however many
\* workers run for the account at once.
THEOREM CursorIsCovered == Spec => []CursorCovers
<1>1. Inv => CursorCovers
  BY DEF Inv
<1> QED
  BY <1>1, InvHolds, PTL

-----------------------------------------------------------------------------
\* Replies

\* A run that is to store a reply has found the thread of what it answers.
RunJoins(r, th) ==
  r.at = "store" /\ Answers(IdOf[r.uid]) => r.match \in th[ReplyTo[IdOf[r.uid]]]

RunsJoin == \A w \in Workers : RunJoins(run[w], threads)

JoinInv == RepliesJoin /\ RunsJoin

LEMMA Answered ==
  ASSUME NEW i \in Ids, Answers(i)
  PROVE  ReplyTo[i] \in Ids
BY InboxAssumption DEF Answers

LEMMA JoinStep ==
  ASSUME Inv, JoinInv, Step
  PROVE  JoinInv'
<1>t. StoreTypes
  BY Parts DEF StoreInv
<1>r. ASSUME NEW w \in Workers
      PROVE  run[w] \in Runs /\ RunOK(run[w], stored, arrived) /\ RunJoins(run[w], threads)
  BY <1>t DEF Inv, JoinInv, RunsOK, RunsJoin, StoreTypes
<1>k. ASSUME UNCHANGED threads, NEW w \in Workers, NEW r \in Runs, Become(w, r),
             RunJoins(r, threads)
      PROVE  JoinInv'
  <2>1. run'[w] = r /\ \A v \in Workers : v # w => run'[v] = run[v]
    BY <1>k, <1>t, Becomes DEF StoreTypes
  <2>2. \A v \in Workers : RunJoins(run'[v], threads')
    BY <1>k, <1>r, <2>1
  <2> QED
    BY <1>k, <2>2 DEF JoinInv, RepliesJoin, RunsJoin
<1>1. CASE Outside
  BY <1>1 DEF Outside, JoinInv, RepliesJoin, RunsJoin
<1>2. ASSUME NEW w \in Workers, Leaves(w)
      PROVE  JoinInv'
  <2>1. PICK place \in Places \ Running : Become(w, Here(place))
    BY <1>2 DEF Leaves, Goto
  <2>2. RunJoins(Here(place), threads)
    BY <2>1, HereIs DEF RunJoins, Running, Batch
  <2> QED
    BY <1>2, <1>k, <2>1, <2>2, HereIs DEF Leaves, Same
<1>3. ASSUME NEW w \in Workers, Starts(w)
      PROVE  JoinInv'
  <2> DEFINE r == [Here("mark") EXCEPT !.uid = account.cursor + 1]
  <2>1. account.cursor + 1 \in Uids
    BY <1>t, InboxAssumption DEF StoreTypes, Accounts, Uids
  <2>2. r \in Runs /\ r.at = "mark"
    BY <2>1, MarkAt DEF Here
  <2>3. Become(w, r) /\ UNCHANGED threads
    BY <1>3 DEF Starts, Same
  <2> HIDE DEF r
  <2> QED
    BY <1>k, <2>2, <2>3 DEF RunJoins
<1>4. ASSUME NEW w \in Workers, Readies(w)
      PROVE  JoinInv'
  <2>1. ASSUME NEW place \in {"connect", "fetch"}, Become(w, [run[w] EXCEPT !.at = place])
        PROVE  JoinInv'
    <3> DEFINE r == [run[w] EXCEPT !.at = place]
    <3>1. r \in Runs /\ r.at = place
      BY <1>r DEF Runs, Places
    <3>2. Become(w, r) /\ UNCHANGED threads
      BY <1>4, <2>1 DEF Readies, Same
    <3> HIDE DEF r
    <3> QED
      BY <1>k, <3>1, <3>2 DEF RunJoins
  <2> QED
    BY <1>4, <2>1 DEF Readies
<1>5. ASSUME NEW w \in Workers, Fetches(w)
      PROVE  JoinInv'
  <2>1. PICK last \in run[w].uid .. arrived :
          Become(w, [run[w] EXCEPT !.at = "search", !.last = last])
    BY <1>5 DEF Fetches
  <2> DEFINE r == [run[w] EXCEPT !.at = "search", !.last = last]
  <2>2. last \in 0 .. MaxMail
    BY <1>r, <1>t, InboxAssumption DEF StoreTypes, Runs, Uids
  <2>3. r \in Runs /\ r.at = "search"
    BY <1>r, <2>2 DEF Runs, Places
  <2>4. Become(w, r) /\ UNCHANGED threads
    BY <1>5, <2>1 DEF Fetches, Same
  <2> HIDE DEF r
  <2> QED
    BY <1>k, <2>3, <2>4 DEF RunJoins
<1>6. ASSUME NEW w \in Workers, Searches(w)
      PROVE  JoinInv'
  <2> DEFINE id == IdOf[run[w].uid]
  <2>1. Same /\ run[w].at = "search"
    BY <1>6 DEF Searches, Search, Same, rest, At
  <2>2. run[w].uid \in 1 .. MaxMail /\ id \in Ids
    BY <2>1, <1>r, <1>t, BatchMail, MailIds DEF Batch
  <2>3. CASE Become(w, [run[w] EXCEPT !.at = "advance"])
    <3> DEFINE r == [run[w] EXCEPT !.at = "advance"]
    <3>1. r \in Runs /\ r.at = "advance"
      BY <1>r DEF Runs, Places
    <3>2. Become(w, r)
      BY <2>3
    <3> HIDE DEF r
    <3> QED
      BY <1>k, <2>1, <3>1, <3>2 DEF RunJoins, Same
  <2>4. ASSUME NEW hit \in Found(id), Become(w, [run[w] EXCEPT !.at = "store", !.match = hit])
        PROVE  JoinInv'
    <3> DEFINE r == [run[w] EXCEPT !.at = "store", !.match = hit]
    <3>1. hit \in Ids \cup {None}
      BY <2>2, <1>t, FoundIs DEF StoreTypes
    <3>2. r \in Runs /\ r.at = "store" /\ r.match = hit /\ r.uid = run[w].uid
      BY <1>r, <3>1 DEF Runs, Places
    <3>3. ASSUME Answers(id)
          PROVE  hit \in threads[ReplyTo[id]]
      <4>1. PICK u \in 1 .. run[w].uid - 1 : IdOf[u] = ReplyTo[id]
        BY <2>2, <3>3 DEF Answers
      <4>2. u \in Uids /\ 1 <= u /\ u < run[w].uid
        BY <2>2, <4>1, InboxAssumption DEF Uids
      <4>3. stored[ReplyTo[id]] > 0
        BY <2>1, <4>1, <4>2, <1>r DEF RunOK, Running, Batch
      <4> QED
        BY <2>4, <3>3, <4>3 DEF Found, Answers
    <3>4. Become(w, r)
      BY <2>4
    <3>5. RunJoins(r, threads)
      <4>1. IdOf[r.uid] = id
        BY <3>2
      <4> HIDE DEF r, id
      <4> QED
        BY <3>2, <3>3, <4>1 DEF RunJoins
    <3> HIDE DEF r
    <3> QED
      BY <1>k, <2>1, <3>2, <3>4, <3>5 DEF Same
  <2> QED
    BY <1>6, <2>3, <2>4 DEF Searches, Search
<1>7. ASSUME NEW w \in Workers, Stores(w)
      PROVE  JoinInv'
  <2> DEFINE id == IdOf[run[w].uid]
             thread == IF run[w].match = None THEN id ELSE run[w].match
             r == [run[w] EXCEPT !.at = "advance", !.match = None]
  <2>1. /\ run[w].at = "store"
        /\ threads' = [threads EXCEPT ![id] = @ \cup {thread}]
        /\ Become(w, r)
    BY <1>7 DEF Stores, Store, At
  <2>2. id \in Ids
    BY <2>1, <1>r, <1>t, BatchMail, MailIds DEF Batch
  <2>3. r \in Runs /\ r.at = "advance"
    BY <1>r DEF Runs, Places
  <2>4. run'[w] = r /\ \A v \in Workers : v # w => run'[v] = run[v]
    BY <1>t, <2>1, <2>3, Becomes DEF StoreTypes
  <2>5. Answers(id) => thread \in threads[ReplyTo[id]]
    <3>1. Answers(id) => run[w].match \in threads[ReplyTo[id]]
      BY <2>1, <1>r DEF RunJoins
    <3>2. Answers(id) => threads[ReplyTo[id]] \subseteq Ids
      BY <2>2, <1>t, Answered DEF StoreTypes
    <3> QED
      BY <3>1, <3>2, InboxAssumption
  <2> HIDE DEF id, thread, r
  <2>6. \A i \in Ids : /\ threads[i] \subseteq threads'[i]
                       /\ i # id => threads'[i] = threads[i]
                       /\ threads'[id] = threads[id] \cup {thread}
    BY <1>t, <2>1, <2>2 DEF StoreTypes
  <2>7. ASSUME NEW i \in Ids, Answers(i)
        PROVE  threads'[i] \subseteq threads'[ReplyTo[i]]
    <3>1. threads[i] \subseteq threads[ReplyTo[i]] /\ ReplyTo[i] \in Ids
      BY <2>7, Answered DEF JoinInv, RepliesJoin
    <3> QED
      BY <2>2, <2>5, <2>6, <2>7, <3>1
  <2>8. ASSUME NEW v \in Workers
        PROVE  RunJoins(run'[v], threads')
    <3>1. CASE v = w
      BY <2>3, <2>4, <3>1 DEF RunJoins
    <3>2. CASE v # w /\ run[v].at = "store" /\ Answers(IdOf[run[v].uid])
      <4>1. IdOf[run[v].uid] \in Ids
        BY <3>2, <1>r, <1>t, BatchMail, MailIds DEF Batch
      <4>2. ReplyTo[IdOf[run[v].uid]] \in Ids
        BY <3>2, <4>1, Answered
      <4> QED
        BY <2>4, <2>6, <3>2, <4>2, <1>r DEF RunJoins
    <3>3. CASE v # w /\ ~(run[v].at = "store" /\ Answers(IdOf[run[v].uid]))
      BY <2>4, <3>3 DEF RunJoins
    <3> QED
      BY <3>1, <3>2, <3>3
  <2>9. RepliesJoin'
    BY <2>7 DEF RepliesJoin, Answers
  <2> QED
    BY <2>8, <2>9 DEF JoinInv, RunsJoin
<1>8. ASSUME NEW w \in Workers, AdvanceSyncCursor(w)
      PROVE  JoinInv'
  <2>1. UNCHANGED threads /\ run[w].at = "advance"
    BY <1>8 DEF AdvanceSyncCursor, rest, At
  <2>2. CASE Become(w, [run[w] EXCEPT !.at = "search", !.uid = @ + 1])
    <3>1. /\ run'[w].at = "search"
          /\ \A v \in Workers : v # w => run'[v] = run[v]
      BY <1>r, <1>t, <2>2 DEF Become, StoreTypes, Runs
    <3>2. \A v \in Workers : RunJoins(run'[v], threads')
      BY <1>r, <2>1, <3>1 DEF RunJoins
    <3> QED
      BY <2>1, <3>2 DEF JoinInv, RepliesJoin, RunsJoin
  <2>3. CASE Goto(w, "finish")
    <3>1. "finish" \in Places
      BY DEF Places
    <3>2. RunJoins(Here("finish"), threads)
      BY <3>1, HereIs DEF RunJoins
    <3> QED
      BY <1>k, <2>1, <2>3, <3>1, <3>2, HereIs DEF Goto
  <2> QED
    BY <1>8, <2>2, <2>3 DEF AdvanceSyncCursor
<1> QED
  BY <1>1, <1>2, <1>3, <1>4, <1>5, <1>6, <1>7, <1>8 DEF Step

\* A reply that comes after the mail it answers is in the thread of that mail: whatever
\* fails, and however many workers run for the account at once.
THEOREM RepliesJoinTheirThread == Spec => []RepliesJoin
<1>1. Init => JoinInv
  BY HereIs DEF Init, JoinInv, RepliesJoin, RunsJoin, RunJoins, Idle, Places
<1>2. Inv /\ JoinInv /\ [Next]_vars => JoinInv'
  <2>1. ASSUME Inv, JoinInv, Next
        PROVE  JoinInv'
    BY <2>1, NextStep, JoinStep DEF Inv
  <2>2. ASSUME JoinInv, UNCHANGED vars
        PROVE  JoinInv'
    BY <2>2 DEF vars, JoinInv, RepliesJoin, RunsJoin
  <2> QED
    BY <2>1, <2>2
<1>3. JoinInv => RepliesJoin
  BY DEF JoinInv
<1> QED
  BY <1>1, <1>2, <1>3, InvHolds, PTL DEF Spec

-----------------------------------------------------------------------------
\* If no worker outlives its lock

\* Only the holder of the job is in a run, at the mail behind the cursor, and what it has
\* searched for is still not stored.
RunOwn(r, st, cur) ==
  /\ r.at \in Running => r.uid = cur + 1
  /\ r.at = "store" => st[IdOf[r.uid]] = 0

HolderRuns == \A w \in Workers : run[w].at # "idle" => job.holder = w

RunsOwn == \A w \in Workers : RunOwn(run[w], stored, account.cursor)

OwnInv == Inv /\ HolderRuns /\ RunsOwn /\ StoredOnce

LEMMA IdleOwn ==
  ASSUME NEW r \in Runs, r.at \notin Running, NEW st, NEW cur
  PROVE  RunOwn(r, st, cur)
BY DEF RunOwn, Running, Batch

LEMMA HolderKept ==
  ASSUME Inv, HolderRuns, "slow" \notin Faults, Next
  PROVE  HolderRuns'
<1>t. run \in [Workers -> Runs] /\ JobOK
  BY Parts DEF StoreInv, StoreTypes
<1>r. ASSUME NEW w \in Workers, NEW r \in Runs, Become(w, r)
      PROVE  /\ run'[w] = r
             /\ \A v \in Workers : v # w => run'[v] = run[v]
  BY <1>r, <1>t, Becomes
<1>1. CASE EnqueueSyncInbox \/ Evict
  BY <1>1, <1>t DEF EnqueueSyncInbox, Evict, HolderRuns, JobOK, NoJob
<1>2. CASE Stall
  BY <1>2, <1>t DEF Stall, Deserted, At, HolderRuns
<1>3. ASSUME NEW w \in Workers, Take(w)
      PROVE  HolderRuns'
  <2>1. /\ run'[w] = Here("look")
        /\ \A v \in Workers : v # w => run'[v] = run[v]
    BY <1>3, <1>r, HereIs DEF Take, Goto, Places
  <2>2. job'.holder = w /\ job.holder = None
    BY <1>3, <1>t DEF Take, JobOK, Jobs
  <2> QED
    BY <2>1, <2>2, InboxAssumption DEF HolderRuns
<1>4. ASSUME NEW w \in Workers, Report(w)
      PROVE  HolderRuns'
  <2>1. /\ run'[w] = Here("idle")
        /\ \A v \in Workers : v # w => run'[v] = run[v]
    BY <1>4, <1>r, HereIs DEF Report, Goto, Places
  <2>2. job.holder = w
    BY <1>4 DEF Report, At, HolderRuns
  <2> QED
    BY <2>1, <2>2, HereIs DEF HolderRuns, Places
<1>5. ASSUME NEW w \in Workers, Crash(w)
      PROVE  HolderRuns'
  <2>1. /\ run'[w] = Here("idle")
        /\ \A v \in Workers : v # w => run'[v] = run[v]
    BY <1>5, <1>r, HereIs DEF Crash, Goto, Places
  <2> QED
    BY <1>5, <2>1, HereIs DEF HolderRuns, Places, Crash
<1>6. CASE UNCHANGED <<run, job>>
  BY <1>6 DEF HolderRuns
<1>7. ASSUME NEW w \in Workers, run[w].at # "idle", UNCHANGED job,
             \A v \in Workers : v # w => run'[v] = run[v]
      PROVE  HolderRuns'
  BY <1>7 DEF HolderRuns
<1>8. ASSUME NEW w \in Workers, NEW r, Become(w, r), run[w].at # "idle", UNCHANGED job
      PROVE  HolderRuns'
  <2>1. \A v \in Workers : v # w => run'[v] = run[v]
    BY <1>8, <1>t DEF Become
  <2> QED
    BY <1>7, <1>8, <2>1
<1>9. ASSUME NEW w \in Workers, Proceed(w) \/ Breaks(w), ~Report(w), ~Crash(w)
      PROVE  HolderRuns'
  BY <1>8, <1>9
  DEF Proceed, Breaks, LookUp, Mark, Connect, FetchMessages, Search, Store,
      AdvanceSyncCursor, Finish, Fail, Unsafe, ConnectFails, FetchFails, MessageFails, At,
      rest, Goto
<1> QED
  BY <1>1, <1>2, <1>3, <1>4, <1>5, <1>6, <1>9
  DEF Next, Proceed, Breaks, Arrive, UpdateAccount, DeleteAccount, CreateAccount,
      VerifyAccount, rest

\* A step of w's run, the only one, that keeps the store and the cursor.
LEMMA OwnMoved ==
  ASSUME StoreTypes, RunsOwn, StoredOnce, Same, SameCursor, NEW w \in Workers, NEW r \in Runs,
         Become(w, r), RunOwn(r, stored, account.cursor)
  PROVE  RunsOwn' /\ StoredOnce'
<1>1. /\ run'[w] = r
      /\ \A v \in Workers : v # w => run'[v] = run[v]
  BY Becomes DEF StoreTypes
<1>2. ASSUME NEW v \in Workers
      PROVE  RunOwn(run'[v], stored', account'.cursor)
  BY <1>1 DEF RunsOwn, Same, SameCursor
<1> QED
  BY <1>2 DEF RunsOwn, StoredOnce, Same

\* The others of a worker that is in a run are idle.
LEMMA Alone ==
  ASSUME HolderRuns, NEW w \in Workers, run[w].at # "idle", NEW v \in Workers, v # w
  PROVE  run[v].at \notin Running
BY DEF HolderRuns, Running, Batch

LEMMA StepOwn ==
  ASSUME OwnInv, Step
  PROVE  RunsOwn' /\ StoredOnce'
<1>t. StoreTypes /\ RunsOwn /\ StoredOnce /\ HolderRuns
  BY Parts DEF OwnInv, StoreInv
<1>r. ASSUME NEW w \in Workers
      PROVE  /\ run[w] \in Runs
             /\ RunOK(run[w], stored, arrived)
             /\ RunOwn(run[w], stored, account.cursor)
  BY <1>t, Parts DEF OwnInv, StoreInv, StoreTypes, RunsOK, RunsOwn
<1>1. CASE Outside
  BY <1>1, <1>t DEF Outside, SameCursor, RunsOwn, StoredOnce
<1>2. ASSUME NEW w \in Workers, Leaves(w)
      PROVE  RunsOwn' /\ StoredOnce'
  <2>1. PICK place \in Places \ Running : Become(w, Here(place))
    BY <1>2 DEF Leaves, Goto
  <2> QED
    BY <1>2, <1>t, <2>1, HereIs, IdleOwn, OwnMoved DEF Leaves
<1>3. ASSUME NEW w \in Workers, Starts(w)
      PROVE  RunsOwn' /\ StoredOnce'
  <2> DEFINE r == [Here("mark") EXCEPT !.uid = account.cursor + 1]
  <2>1. account.cursor \in 0 .. MaxMail
    BY <1>t DEF StoreTypes, Accounts
  <2>2. r.at = "mark" /\ r.uid = account.cursor + 1
    BY DEF Here
  <2>3. r \in Runs
    <3>1. account.cursor + 1 \in Uids
      BY <2>1, InboxAssumption DEF Uids
    <3> QED
      BY <3>1, MarkAt
  <2>4. RunOwn(r, stored, account.cursor)
    <3> HIDE DEF r
    <3> QED
      BY <2>2 DEF RunOwn
  <2> QED
    BY <1>3, <1>t, <2>3, <2>4, OwnMoved DEF Starts
<1>4. ASSUME NEW w \in Workers, Readies(w)
      PROVE  RunsOwn' /\ StoredOnce'
  <2>1. ASSUME NEW place \in {"connect", "fetch"}, run[w].at \in {"mark", "connect"},
               Become(w, [run[w] EXCEPT !.at = place])
        PROVE  RunsOwn' /\ StoredOnce'
    <3> DEFINE r == [run[w] EXCEPT !.at = place]
    <3>1. r.at = place /\ r.uid = run[w].uid /\ r \in Runs
      BY <1>r DEF Runs, Places
    <3>2. RunOwn(r, stored, account.cursor)
      <4> HIDE DEF r
      <4> QED
        BY <3>1, <2>1, <1>r DEF RunOwn, Running, Batch
    <3> QED
      BY <1>4, <1>t, <2>1, <3>1, <3>2, OwnMoved DEF Readies
  <2> QED
    BY <1>4, <2>1 DEF Readies, At
<1>5. ASSUME NEW w \in Workers, Fetches(w)
      PROVE  RunsOwn' /\ StoredOnce'
  <2>1. PICK last \in run[w].uid .. arrived :
          Become(w, [run[w] EXCEPT !.at = "search", !.last = last])
    BY <1>5 DEF Fetches
  <2> DEFINE r == [run[w] EXCEPT !.at = "search", !.last = last]
  <2>2. r.at = "search" /\ r.uid = run[w].uid
    BY <1>r DEF Runs
  <2>3. last \in 0 .. MaxMail
    BY <1>r, <1>t, InboxAssumption DEF StoreTypes, Runs, Uids
  <2>4. r \in Runs
    BY <1>r, <2>3 DEF Runs, Places
  <2>5. RunOwn(r, stored, account.cursor)
    <3>1. run[w].at = "fetch"
      BY <1>5 DEF Fetches, At
    <3> HIDE DEF r
    <3> QED
      BY <2>2, <3>1, <1>r DEF RunOwn, Running, Batch
  <2> QED
    BY <1>5, <1>t, <2>1, <2>4, <2>5, OwnMoved DEF Fetches
<1>6. ASSUME NEW w \in Workers, Searches(w)
      PROVE  RunsOwn' /\ StoredOnce'
  <2>1. Same /\ SameCursor /\ run[w].at = "search"
    BY <1>6 DEF Searches, Search, Same, rest, At
  <2>2. run[w].uid = account.cursor + 1 /\ run[w].uid \in 1 .. MaxMail
    BY <2>1, <1>r, <1>t, BatchMail DEF RunOK, RunOwn, Running, Batch
  <2> DEFINE id == IdOf[run[w].uid]
  <2>3. CASE stored[id] > 0
    <3> DEFINE r == [run[w] EXCEPT !.at = "advance"]
    <3>0. stored[id] # 0
      BY <2>2, <2>3, <1>t, MailIds DEF StoreTypes
    <3>1. Become(w, r)
      BY <1>6, <3>0 DEF Searches, Search
    <3>2. r.at = "advance" /\ r.uid = run[w].uid /\ r \in Runs
      BY <1>r DEF Runs, Places
    <3>3. RunOwn(r, stored, account.cursor)
      <4> HIDE DEF r
      <4> QED
        BY <3>2, <2>2 DEF RunOwn, Running, Batch
    <3> QED
      BY <1>t, <2>1, <3>1, <3>2, <3>3, OwnMoved
  <2>4. CASE ~(stored[id] > 0)
    <3>1. PICK hit \in Ids \cup {None} : Become(w, [run[w] EXCEPT !.at = "store", !.match = hit])
      <4>1. \E hit \in Found(id) : Become(w, [run[w] EXCEPT !.at = "store", !.match = hit])
        BY <1>6, <2>4 DEF Searches, Search
      <4>2. Found(id) \subseteq Ids \cup {None}
        BY <2>2, <1>t, MailIds, FoundIs DEF StoreTypes
      <4> QED
        BY <4>1, <4>2
    <3> DEFINE r == [run[w] EXCEPT !.at = "store", !.match = hit]
    <3>2. r.at = "store" /\ r.uid = run[w].uid /\ r \in Runs
      BY <1>r DEF Runs, Places
    <3>3. stored[id] = 0
      BY <2>2, <2>4, <1>t, MailIds DEF StoreTypes
    <3>4. RunOwn(r, stored, account.cursor)
      <4>1. IdOf[r.uid] = id
        BY <3>2
      <4> HIDE DEF r, id
      <4> QED
        BY <3>2, <3>3, <2>2, <4>1 DEF RunOwn
    <3> HIDE DEF r
    <3>5. Become(w, r)
      BY <3>1 DEF r
    <3> QED
      BY <1>t, <2>1, <3>2, <3>4, <3>5, OwnMoved
  <2> QED
    BY <2>3, <2>4
<1>7. ASSUME NEW w \in Workers, Stores(w)
      PROVE  RunsOwn' /\ StoredOnce'
  <2> DEFINE id == IdOf[run[w].uid]
             r == [run[w] EXCEPT !.at = "advance", !.match = None]
  <2>1. run[w].at = "store" /\ SameCursor
    BY <1>7 DEF Stores, Store, At
  <2>2. run[w].uid = account.cursor + 1 /\ run[w].uid \in 1 .. MaxMail
    BY <2>1, <1>r, <1>t, BatchMail DEF RunOK, RunOwn, Running, Batch
  <2>3. id \in Ids
    BY <2>2, MailIds
  <2>4. stored[id] = 0
    BY <2>1, <1>r DEF RunOwn
  <2>5. StoredOnce'
    BY <1>7, <1>t, <2>3, <2>4 DEF Stores, Store, StoreTypes, StoredOnce
  <2>6. r.at = "advance" /\ r.uid = run[w].uid /\ r \in Runs
    BY <1>r DEF Runs, Places
  <2>7. /\ run'[w] = r
        /\ \A v \in Workers : v # w => run'[v] = run[v]
    BY <1>7, <1>t, <2>6, Becomes DEF Stores, Store, StoreTypes
  <2>8. RunOwn(r, stored', account'.cursor)
    <3> HIDE DEF r, id
    <3> QED
      BY <2>1, <2>2, <2>6 DEF RunOwn, SameCursor
  <2>9. ASSUME NEW v \in Workers, v # w
        PROVE  RunOwn(run'[v], stored', account'.cursor)
    BY <2>9, <2>1, <2>7, <1>r, <1>t, Alone, IdleOwn
  <2> HIDE DEF r, id
  <2> QED
    BY <2>5, <2>7, <2>8, <2>9 DEF RunsOwn
<1>8. ASSUME NEW w \in Workers, AdvanceSyncCursor(w)
      PROVE  RunsOwn' /\ StoredOnce'
  <2>1. Same /\ run[w].at = "advance"
    BY <1>8 DEF AdvanceSyncCursor, rest, Same, At
  <2>2. run[w].uid \in 1 .. MaxMail /\ run[w].uid <= run[w].last
    BY <2>1, <1>r, <1>t, BatchMail DEF RunOK, Batch
  <2>3. account'.cursor = run[w].uid
    BY <1>8, <1>t DEF AdvanceSyncCursor, StoreTypes, Accounts
  <2>4. ASSUME NEW v \in Workers, v # w
        PROVE  run[v].at \notin Running
    BY <2>4, <2>1, <1>t, Alone
  <2>5. ASSUME NEW v \in Workers, v # w
        PROVE  run'[v] = run[v]
    <3>1. ASSUME NEW r, Become(w, r)
          PROVE  run'[v] = run[v]
      BY <2>5, <3>1, <1>t DEF Become, StoreTypes
    <3> QED
      BY <1>8, <3>1 DEF AdvanceSyncCursor, Goto
  <2>6. RunOwn(run'[w], stored', account'.cursor)
    <3>1. CASE run[w].uid < run[w].last
      <4>1. run'[w].uid = run[w].uid + 1 /\ run'[w].at = "search"
        <5>1. Become(w, [run[w] EXCEPT !.at = "search", !.uid = @ + 1])
          BY <1>8, <3>1 DEF AdvanceSyncCursor
        <5> QED
          BY <5>1, <1>r, <1>t DEF Become, StoreTypes, Runs
      <4> QED
        BY <4>1, <2>3 DEF RunOwn
    <3>2. CASE ~(run[w].uid < run[w].last)
      <4>1. run'[w] = Here("finish")
        BY <1>8, <1>t, <3>2 DEF AdvanceSyncCursor, Become, Goto, StoreTypes
      <4>2. Here("finish").at = "finish"
        BY DEF Here
      <4> QED
        BY <4>1, <4>2 DEF RunOwn, Running, Batch
    <3> QED
      BY <3>1, <3>2
  <2>7. ASSUME NEW v \in Workers, v # w
        PROVE  RunOwn(run'[v], stored', account'.cursor)
    BY <2>4, <2>5, <2>7, <1>r, IdleOwn
  <2> QED
    BY <2>1, <2>6, <2>7, <1>t DEF RunsOwn, StoredOnce, Same
<1> QED
  BY <1>1, <1>2, <1>3, <1>4, <1>5, <1>6, <1>7, <1>8 DEF Step

LEMMA OwnHolds ==
  ASSUME "slow" \notin Faults
  PROVE  Spec => []OwnInv
<1>1. Init /\ Inv => OwnInv
  <2> SUFFICES ASSUME Init, Inv
               PROVE  OwnInv
    OBVIOUS
  <2>1. "idle" \in Places \ Running
    BY DEF Places, Running, Batch
  <2>2. \A w \in Workers : run[w] = Idle
    BY DEF Init
  <2>3. Idle.at = "idle" /\ Idle \in Runs
    BY <2>1, HereIs DEF Idle
  <2>4. HolderRuns
    BY <2>2, <2>3 DEF HolderRuns
  <2>5. RunsOwn
    BY <2>1, <2>2, <2>3, IdleOwn DEF RunsOwn
  <2>6. StoredOnce
    BY DEF Init, StoredOnce
  <2> QED
    BY <2>4, <2>5, <2>6 DEF OwnInv
<1>2. OwnInv /\ Inv' /\ [Next]_vars => OwnInv'
  <2>1. ASSUME OwnInv, Inv', Next
        PROVE  OwnInv'
    BY <2>1, NextStep, StepOwn, HolderKept DEF OwnInv, Inv
  <2>2. ASSUME OwnInv, Inv', UNCHANGED vars
        PROVE  OwnInv'
    BY <2>2 DEF vars, OwnInv, HolderRuns, RunsOwn, StoredOnce
  <2> QED
    BY <2>1, <2>2
<1> QED
  BY <1>1, <1>2, InvHolds, PTL DEF Spec

\* As long as no worker outlives its lock, a Message-ID is stored once.
THEOREM MailStoredOnce ==
  ASSUME "slow" \notin Faults
  PROVE  Spec => []StoredOnce
<1>1. OwnInv => StoredOnce
  BY DEF OwnInv
<1> QED
  BY <1>1, OwnHolds, PTL

-----------------------------------------------------------------------------
\* The refinement

LEMMA StepMaps ==
  ASSUME OwnInv, Step
  PROVE  [Mail!Next]_(Mail!vars)
<1> USE DEF Mail!Next, Mail!vars, Mail!next
<1>t. StoreTypes
  BY Parts DEF OwnInv, StoreInv
<1>r. ASSUME NEW w \in Workers
      PROVE  /\ run[w] \in Runs
             /\ RunOK(run[w], stored, arrived)
             /\ RunOwn(run[w], stored, account.cursor)
  BY <1>t, Parts DEF OwnInv, StoreInv, StoreTypes, RunsOK, RunsOwn
<1>1. CASE Outside
  BY <1>1, <1>t, InboxAssumption DEF Outside, SameCursor, StoreTypes, Mail!Arrive
<1>2. ASSUME NEW w \in Workers, Leaves(w) \/ Starts(w) \/ Readies(w) \/ Fetches(w) \/ Searches(w)
      PROVE  UNCHANGED Mail!vars
  BY <1>2 DEF Leaves, Starts, Readies, Fetches, Searches, Search, Same, SameCursor, rest
<1>3. ASSUME NEW w \in Workers, Stores(w)
      PROVE  Mail!Keep
  <2> DEFINE id == IdOf[run[w].uid]
  <2>1. run[w].at = "store"
    BY <1>3 DEF Stores, Store, At
  <2>2. /\ run[w].uid = account.cursor + 1
        /\ run[w].uid \in 1 .. MaxMail
        /\ run[w].uid <= arrived
    BY <2>1, <1>r, <1>t, BatchMail DEF RunOK, RunOwn, Running, Batch
  <2>3. id \in Ids
    BY <2>2, MailIds
  <2>4. stored[id] = 0
    BY <2>1, <1>r DEF RunOwn
  <2>5. stored' = [stored EXCEPT ![id] = 1]
    BY <1>3, <2>3, <2>4 DEF Stores, Store
  <2> QED
    BY <1>3, <2>2, <2>4, <2>5 DEF Mail!Keep, Stores, Store, SameCursor
<1>4. ASSUME NEW w \in Workers, AdvanceSyncCursor(w)
      PROVE  Mail!Pass
  <2>1. run[w].at = "advance"
    BY <1>4 DEF AdvanceSyncCursor, At
  <2>2. /\ run[w].uid = account.cursor + 1
        /\ run[w].uid \in 1 .. MaxMail
        /\ run[w].uid <= arrived
        /\ stored[IdOf[run[w].uid]] > 0
    BY <2>1, <1>r, <1>t, BatchMail DEF RunOK, RunOwn, Running, Batch
  <2>3. account'.cursor = run[w].uid
    BY <1>4, <1>t DEF AdvanceSyncCursor, StoreTypes, Accounts
  <2> QED
    BY <1>4, <2>2, <2>3 DEF Mail!Pass, AdvanceSyncCursor, rest
<1> QED
  BY <1>1, <1>2, <1>3, <1>4 DEF Step

\* As long as no worker outlives its lock, the synchronization implements MailStore: it
\* stores the next mail or passes a stored one, through retries, crashes and changes of the
\* account.
THEOREM SyncImplementsMailStore ==
  ASSUME "slow" \notin Faults
  PROVE  Spec => Implements
<1>1. Init => Mail!Init
  BY DEF Init, Mail!Init
<1>2. OwnInv /\ [Next]_vars => [Mail!Next]_(Mail!vars)
  <2>1. ASSUME OwnInv, Next
        PROVE  [Mail!Next]_(Mail!vars)
    BY <2>1, NextStep, StepMaps DEF OwnInv, Inv
  <2>2. ASSUME UNCHANGED vars
        PROVE  UNCHANGED Mail!vars
    BY <2>2 DEF vars, Mail!vars
  <2> QED
    BY <2>1, <2>2
<1> QED
  BY <1>1, <1>2, OwnHolds, PTL DEF Spec, Implements, Mail!Spec
=============================================================================
