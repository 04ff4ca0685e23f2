------------------------------- MODULE Inbox -------------------------------
(***************************************************************************)
(* The synchronization of one mailbox                                      *)
(* (src/api/src/email/services/inbound-email.service.ts) with the queue    *)
(* that runs it (queue/producers/email-queue.producer.ts) and the account  *)
(* it belongs to (email/services/email-accounts.service.ts).               *)
(*                                                                         *)
(* The mails of the mailbox have the UIDs 1, 2, ...; two of them may carry *)
(* one Message-ID.  A run looks the account up, connects, fetches up to    *)
(* Limit mails behind the cursor and, mail by mail, searches for the       *)
(* Message-ID and a thread, stores, and moves the cursor.  Searching and   *)
(* storing are one transaction at READ COMMITTED: what was searched for    *)
(* may exist when it is stored.  A thread is named after the mail that     *)
(* began it; References, the provider's identifier and the subject may     *)
(* find any thread or none.                                                *)
(*                                                                         *)
(* The queue is external: one job for the account, Attempts attempts, and  *)
(* a failed job kept.  A process runs one job at a time, so that it never  *)
(* finds the account among its own activeSyncAccounts.  Bodies,            *)
(* attachments, credentials, the folder (always INBOX) and a super admin   *)
(* who runs the failed job again by hand are left out.                     *)
(***************************************************************************)
EXTENDS Naturals

CONSTANTS
  Workers,   \* the processes that run the queue's jobs
  Ids,       \* Message-IDs
  MaxMail,   \* bound on the mails that arrive
  IdOf,      \* IdOf[u]: the Message-ID of the mail with UID u
  ReplyTo,   \* ReplyTo[i]: the In-Reply-To of the mails with Message-ID i
  Limit,     \* mails a run fetches
  Faults,    \* what may fail
  None       \* no worker, no mail, no thread

ASSUME InboxAssumption ==
  /\ MaxMail \in Nat
  /\ IdOf \in [1 .. MaxMail -> Ids]
  /\ ReplyTo \in [Ids -> Ids \cup {None}]
  /\ Limit \in Nat \ {0}
  /\ Faults \subseteq {"connect", "fetch", "message", "crash", "slow"}
  /\ None \notin Workers /\ None \notin Ids

Attempts == 3          \* EMAIL_DEFAULT_JOB_OPTS.attempts
MaxStalledCount == 1   \* the default of the queue

VARIABLES
  arrived,  \* how many mails are in the mailbox
  account,  \* the EmailAccount
  stored,   \* stored[i]: the EmailMessage rows with Message-ID i
  threads,  \* threads[i]: the EmailThread rows the mails with Message-ID i are in
  job,      \* the job sync-inbox:tenant:account
  run       \* run[w]: where worker w is in processSyncInboxJob

vars == <<arrived, account, stored, threads, job, run>>

Uids == 0 .. MaxMail + 1

Accounts ==
  [state : {"active", "inactive", "deleted"},
   host : BOOLEAN,
   sync : {"IDLE", "SYNCING", "SUCCESS", "AUTH_FAILED", "ERROR"},
   cursor : 0 .. MaxMail]

Jobs ==
  [state : {"none", "waiting", "active", "failed"}, tries : 0 .. Attempts,
   stalls : 0 .. MaxStalledCount, holder : Workers \cup {None}]

Places ==
  {"idle", "look", "mark", "connect", "fetch", "search", "store", "advance", "finish",
   "fail", "done", "threw"}

\* The run is at the mail uid of a batch that ends with last.
Runs == [at : Places, uid : Uids, last : 0 .. MaxMail, match : Ids \cup {None}]

NoJob == [state |-> "none", tries |-> 0, stalls |-> 0, holder |-> None]

Here(place) == [at |-> place, uid |-> 0, last |-> 0, match |-> None]

Idle == Here("idle")

Init ==
  /\ arrived = 0
  /\ \E host \in BOOLEAN :
       account = [state |-> "active", host |-> host, sync |-> "IDLE", cursor |-> 0]
  /\ stored = [i \in Ids |-> 0]
  /\ threads = [i \in Ids |-> {}]
  /\ job = NoJob
  /\ run = [w \in Workers |-> Idle]

Arrive ==
  /\ arrived < MaxMail
  /\ arrived' = arrived + 1
  /\ UNCHANGED <<account, stored, threads, job, run>>

-----------------------------------------------------------------------------
\* The queue

\* EmailQueueProducer.enqueueSyncInbox.  It answers that the job is enqueued unless one is
\* waiting or active; but the queue takes no job whose identity a failed one still has.
EnqueueSyncInbox ==
  /\ job.state \notin {"waiting", "active"}
  /\ job' = IF job.state = "none" THEN [NoJob EXCEPT !.state = "waiting"] ELSE job
  /\ UNCHANGED <<arrived, account, stored, threads, run>>

\* A hundred jobs of the queue have failed since (removeOnFail), or a super admin cleans it.
Evict ==
  /\ job.state = "failed"
  /\ job' = NoJob
  /\ UNCHANGED <<arrived, account, stored, threads, run>>

Become(w, r) == run' = [run EXCEPT ![w] = r]
At(w, place) == run[w].at = place
Goto(w, place) == Become(w, Here(place))

Take(w) ==
  /\ At(w, "idle")
  /\ job.state = "waiting"
  /\ job' = [job EXCEPT !.state = "active", !.holder = w]
  /\ Goto(w, "look")
  /\ UNCHANGED <<arrived, account, stored, threads>>

\* mutant: the last attempt is not the last
AgainLate(j) ==
  [j EXCEPT !.tries = @ + 1, !.holder = None,
            !.state = IF j.tries < Attempts THEN "waiting" ELSE "failed"]

\* A job that threw waits again until its attempts are used up.
Again(j) ==
  [j EXCEPT !.tries = @ + 1, !.holder = None,
            !.state = IF j.tries + 1 < Attempts THEN "waiting" ELSE "failed"]

\* mutant: a job that threw waits again, however often
ReportAnew(w) ==
  /\ At(w, "done") \/ At(w, "threw")
  /\ job' = IF job.holder # w THEN job
            ELSE IF At(w, "done") THEN NoJob
            ELSE [job EXCEPT !.holder = None, !.state = "waiting"]
  /\ Goto(w, "idle")
  /\ UNCHANGED <<arrived, account, stored, threads>>

\* A worker that has lost the job has no say in it.
Report(w) ==
  /\ At(w, "done") \/ At(w, "threw")
  /\ job' = IF job.holder # w THEN job
            ELSE IF At(w, "done") THEN NoJob
            ELSE Again(job)
  /\ Goto(w, "idle")
  /\ UNCHANGED <<arrived, account, stored, threads>>

Crash(w) ==
  /\ "crash" \in Faults
  /\ ~At(w, "idle")
  /\ Goto(w, "idle")
  /\ UNCHANGED <<arrived, account, stored, threads, job>>

Deserted == \A w \in Workers : w = job.holder => At(w, "idle")

\* The lock of the active job runs out: its worker is gone, or too slow.
Stall ==
  /\ job.state = "active"
  /\ Deserted \/ "slow" \in Faults
  /\ job' = [job EXCEPT !.holder = None,
                        !.stalls = IF @ < MaxStalledCount THEN @ + 1 ELSE @,
                        !.state = IF job.stalls < MaxStalledCount THEN "waiting" ELSE "failed"]
  /\ UNCHANGED <<arrived, account, stored, threads, run>>

-----------------------------------------------------------------------------
\* InboundEmailService.processSyncInboxJob

rest == <<arrived, stored, threads, job>>

\* updateAccountState
Sync(status) == account' = [account EXCEPT !.sync = status]

\* The account is active and has an IMAP host; the job of another ends without an error.
Usable == account.state = "active" /\ account.host

\* mutant: every run starts at the first mail
LookUpAnew(w) ==
  /\ At(w, "look")
  /\ IF Usable
     THEN Become(w, [Here("mark") EXCEPT !.uid = 1])
     ELSE Goto(w, "done")
  /\ UNCHANGED <<account, rest>>

\* The account is read once: the cursor of the run is the one it has here.
LookUp(w) ==
  /\ At(w, "look")
  /\ IF Usable
     THEN Become(w, [Here("mark") EXCEPT !.uid = account.cursor + 1])
     ELSE Goto(w, "done")
  /\ UNCHANGED <<account, rest>>

\* assertSafeHost throws; the account keeps its status.
Unsafe(w) ==
  /\ "connect" \in Faults
  /\ At(w, "mark")
  /\ Goto(w, "threw")
  /\ UNCHANGED <<account, rest>>

Mark(w) ==
  /\ At(w, "mark")
  /\ Sync("SYNCING")
  /\ Become(w, [run[w] EXCEPT !.at = "connect"])
  /\ UNCHANGED rest

Connect(w) ==
  /\ At(w, "connect")
  /\ Become(w, [run[w] EXCEPT !.at = "fetch"])
  /\ UNCHANGED <<account, rest>>

ConnectFails(w) ==
  /\ "connect" \in Faults
  /\ At(w, "connect")
  /\ Sync("AUTH_FAILED") \/ Sync("ERROR")
  /\ Goto(w, "threw")
  /\ UNCHANGED rest

\* The batch: at most Limit mails from uid on.
FetchMessages(w) ==
  LET end == run[w].uid + Limit - 1
  IN /\ At(w, "fetch")
     /\ IF arrived < run[w].uid
        THEN Goto(w, "finish")
        ELSE Become(w, [run[w] EXCEPT !.at = "search",
                                      !.last = IF end < arrived THEN end ELSE arrived])
     /\ UNCHANGED <<account, rest>>

\* Outside of the try of a mail: the account stays SYNCING.
FetchFails(w) ==
  /\ "fetch" \in Faults
  /\ At(w, "fetch")
  /\ Goto(w, "threw")
  /\ UNCHANGED <<account, rest>>

-----------------------------------------------------------------------------
\* persistInboundMessageAtomic and advanceSyncCursor

\* mutant: nothing is searched for
SearchNothing(w) ==
  /\ At(w, "search")
  /\ Become(w, [run[w] EXCEPT !.at = "store"])
  /\ UNCHANGED <<account, rest>>

\* mutant: the subject comes before In-Reply-To
FoundAny(id) == (UNION {threads[i] : i \in Ids}) \cup {None}

\* The threads that may be found for a mail: by In-Reply-To, if what it answers is stored,
\* or else by References, the provider's identifier or the subject.
Found(id) ==
  IF ReplyTo[id] # None /\ stored[ReplyTo[id]] > 0
  THEN threads[ReplyTo[id]]
  ELSE (UNION {threads[i] : i \in Ids}) \cup {None}

Search(w) ==
  LET id == IdOf[run[w].uid]
  IN /\ At(w, "search")
     /\ \/ stored[id] > 0 /\ Become(w, [run[w] EXCEPT !.at = "advance"])
        \/ /\ stored[id] = 0
           /\ \E thread \in Found(id) : Become(w, [run[w] EXCEPT !.at = "store", !.match = thread])
     /\ UNCHANGED <<account, rest>>

Store(w) ==
  LET id == IdOf[run[w].uid]
      thread == IF run[w].match = None THEN id ELSE run[w].match
  IN /\ At(w, "store")
     /\ stored' = [stored EXCEPT ![id] = @ + 1]
     /\ threads' = [threads EXCEPT ![id] = @ \cup {thread}]
     /\ Become(w, [run[w] EXCEPT !.at = "advance", !.match = None])
     /\ UNCHANGED <<arrived, account, job>>

\* mutant: the cursor is moved before the mail is stored
AdvanceFirst(w) ==
  /\ At(w, "search") \/ At(w, "advance")
  /\ account' = [account EXCEPT !.cursor = run[w].uid]
  /\ IF At(w, "search") THEN Become(w, [run[w] EXCEPT !.at = "store"])
     ELSE IF run[w].uid < run[w].last
     THEN Become(w, [run[w] EXCEPT !.at = "search", !.uid = @ + 1])
     ELSE Goto(w, "finish")
  /\ UNCHANGED rest

AdvanceSyncCursor(w) ==
  /\ At(w, "advance")
  /\ account' = [account EXCEPT !.cursor = run[w].uid]
  /\ IF run[w].uid < run[w].last
     THEN Become(w, [run[w] EXCEPT !.at = "search", !.uid = @ + 1])
     ELSE Goto(w, "finish")
  /\ UNCHANGED rest

\* The mail cannot be parsed, or a statement of it fails: what was written of it is undone.
MessageFails(w) ==
  /\ "message" \in Faults
  /\ At(w, "search") \/ At(w, "store") \/ At(w, "advance")
  /\ Goto(w, "fail")
  /\ UNCHANGED <<account, rest>>

Fail(w) ==
  /\ At(w, "fail")
  /\ Sync("ERROR")
  /\ Goto(w, "threw")
  /\ UNCHANGED rest

Finish(w) ==
  /\ At(w, "finish")
  /\ Sync("SUCCESS")
  /\ Goto(w, "done")
  /\ UNCHANGED rest

-----------------------------------------------------------------------------
\* EmailAccountsService

\* updateAccount, of isActive and imapHost
UpdateAccount ==
  /\ account.state # "deleted"
  /\ \/ account' = [account EXCEPT !.state = IF @ = "active" THEN "inactive" ELSE "active"]
     \/ account' = [account EXCEPT !.host = ~@]
  /\ UNCHANGED <<rest, run>>

DeleteAccount ==
  /\ account.state # "deleted"
  /\ account' = [account EXCEPT !.state = "deleted"]
  /\ UNCHANGED <<rest, run>>

\* createAccount revives a deleted account, with its cursor.
CreateAccount ==
  /\ account.state = "deleted"
  /\ \E host \in BOOLEAN :
       account' = [account EXCEPT !.state = "active", !.host = host, !.sync = "IDLE"]
  /\ UNCHANGED <<rest, run>>

VerifyAccount ==
  /\ account.state # "deleted"
  /\ Sync("SUCCESS") \/ Sync("AUTH_FAILED")
  /\ UNCHANGED <<rest, run>>

-----------------------------------------------------------------------------
\* The next statement of w.
Proceed(w) ==
  \/ LookUp(w) \/ Mark(w) \/ Connect(w) \/ FetchMessages(w)
  \/ Search(w) \/ Store(w) \/ AdvanceSyncCursor(w)
  \/ Finish(w) \/ Fail(w) \/ Report(w)

Breaks(w) ==
  \/ Unsafe(w)
  \/ ConnectFails(w)
  \/ FetchFails(w)
  \/ MessageFails(w)
  \/ Crash(w)

Next ==
  \/ Arrive
  \/ EnqueueSyncInbox
  \/ Evict
  \/ Stall
  \/ \E w \in Workers : Take(w) \/ Proceed(w) \/ Breaks(w)
  \/ UpdateAccount
  \/ DeleteAccount
  \/ CreateAccount
  \/ VerifyAccount

Spec == Init /\ [][Next]_vars

\* A waiting job is taken and a deserted one found; a worker goes on to its next statement.
\* Nobody has to enqueue.
Fairness ==
  /\ WF_vars(\E w \in Workers : Take(w))
  /\ WF_vars(Deserted /\ Stall)
  /\ \A w \in Workers : WF_vars(Proceed(w))

FairSpec == Spec /\ Fairness

-----------------------------------------------------------------------------
\* The types of the variables; a job has a holder exactly while it is active.
TypeOK ==
  /\ arrived \in 0 .. MaxMail
  /\ account \in Accounts
  /\ stored \in [Ids -> Nat]
  /\ threads \in [Ids -> SUBSET Ids]
  /\ job \in Jobs
  /\ job.state = "active" <=> job.holder # None
  /\ run \in [Workers -> Runs]

\* The cursor never passes a mail that is not stored, whatever fails and whoever else runs.
CursorCovers == \A u \in 1 .. account.cursor : stored[IdOf[u]] > 0

\* A Message-ID is stored once, over retries, crashes and mails that carry the same
\* Message-ID, if no worker outlives its lock.
StoredOnce == \A i \in Ids : stored[i] <= 1

\* What i answers was always in the mailbox before it.
Answers(i) ==
  /\ ReplyTo[i] # None
  /\ \A v \in 1 .. MaxMail : IdOf[v] = i => \E u \in 1 .. v - 1 : IdOf[u] = ReplyTo[i]

\* A reply that comes after the mail it answers is in the thread of that mail, whatever
\* failed or ran twice in between, and whatever else it resembles.
RepliesJoin == \A i \in Ids : Answers(i) => threads[i] \subseteq threads[ReplyTo[i]]

\* A waiting job brings the next mail, if there is one, or fails for good, or finds that the
\* account is not to be synchronized; through failed attempts, crashes and stalls.
JobBringsMail ==
  \A c \in 0 .. MaxMail - 1 :
    job.state = "waiting" /\ account.cursor = c /\ arrived > c ~>
      account.cursor > c \/ job.state = "failed" \/ ~Usable

Mail == INSTANCE MailStore WITH cursor <- account.cursor

\* The synchronization implements MailStore: through retries, crashes and two workers it
\* stores the next mail or moves the cursor past it, and never jumps, falls back or stores
\* again, if no worker outlives its lock.
Implements == Mail!Spec
=============================================================================
