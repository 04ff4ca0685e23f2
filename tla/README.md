# Verification of ClixProCRM

TLA+ models of the parts of ClixProCRM where several actors change the same
rows, the TLC runs that check them on small instances, and theorems about them
that TLAPS has checked for every value of the constants.  `src/` below is the
repository; line numbers of every definition are in `PROJECT.json` (`map`).

    tlc -workers 2 -config BillingOnce.cfg BillingMC      one run
    tlapm AuditArchiveProofs.tla                          one module of proofs

Contents: [1 the system](#1-the-system) ·
[2 the models](#2-the-models) · [3 the runs](#3-the-runs) ·
[4 fairness](#4-fairness) · [5 the proofs](#5-the-proofs) ·
[6 what the runs refute](#6-what-the-runs-refute) ·
[7 what is left out](#7-what-is-left-out-and-why) · [8 what the plan has left](#8-what-the-plan-has-left)

## 1 The system

ClixProCRM is a multi-tenant CRM: a NestJS API (`src/api`) over PostgreSQL
through Prisma, a Redis-backed BullMQ queue, a Next.js client (`src/web`) and a
small MCP adapter (`src/mcp-server`).  All shared state is in PostgreSQL; several
API processes may run, each with in-memory caches of its own.  An operation is
usually one interactive transaction opened by `PrismaService.withTenantContext`
(`src/api/src/prisma/prisma.service.ts`) at PostgreSQL's default isolation level,
READ COMMITTED, with a timeout and a row-level-security context.  What the code
reads in such a transaction may be stale when it writes; nothing in it takes
`FOR UPDATE` locks.  That, the queue's redeliveries, and caches that outlive what
they cache, are the source of nearly every hard behaviour below.

### Components

| component | state | operations | who it meets | what is hard | what makes it correct |
|---|---|---|---|---|---|
| **Invoices and payments** (`finance/services/{invoices,payments,invoice-email}`) | `Invoice` (total, paidAmount, balanceDue, status), `Payment` | create, update, status, send, delete invoice; record and delete payment | audit log, email queue | two requests on one invoice; stale rows written back; numbers that are counts | the figures agree with the payments; refusals hold; nothing paid is lost |
| **Audit log and its chains** (`common/audit`) | `AuditLog` with `previousHash`, `recordHash`; a PostgreSQL advisory lock per chain | `log`, direct `auditLog.create`, full and windowed verification | every service | who is last; lock until the end of a surrounding transaction; writers that bypass the logger | a chain verifies as long as its records come in the order of their time stamps, and forks only where they do not |
| **Audit archive outbox** (`common/audit/archive`) | `AuditArchiveOutbox` (status, attempts, nextAttemptAt), objects in a write-once store | enqueue with the record, `processPendingOutbox` | audit log, S3 | several drainers, lost answers, outages, crashes | ARCHIVED means stored; nothing given up early; nothing forgotten |
| **Subscription payments** (`common/billing`, `common/plans`, `queue`) | `PlatformWebhookEvent`, `PlatformInvoice`, `PlatformPayment`, `PlatformSubscription`, BullMQ jobs | receive webhook, queue, process, verify payment, activate | provider, browser, super admin, queue | redelivery, retries, stalled jobs, crashes, two routes to one activation | every payment activates once, nothing acknowledged is lost |
| **Platform billing of the super admin** (`super-admin/services/platform-billing`) | the same rows, `PlatformRefund` | create or update subscription, missing subscriptions, refunds | provider, subscription payments | stale paid amounts | refunds never exceed what was paid |
| **Deletion of organizations and accounts** | `Tenant` and everything that cascades | delete a tenant, an account | everything | rows that others count or hold | nothing that must survive goes with it |
| **Quotations, revenue, documents** | `Quotation` | numbering, status, conversion | invoices | numbers from the last row by date | unique numbers |
| **Email queue and mail workers** (`queue/processors/email-queue`) | jobs, `Invoice.status` | enqueue, send, retry | invoices | a retry sends again; a stale status | a document is sent once |
| **Inbound mail** (`email/services/inbound-email`, `email-accounts`) | `EmailAccount` with its cursor, `EmailMessage`, `EmailThread`, one queue job per account | synchronize; switch, delete, revive an account | IMAP, Gmail, email queue | the cursor is written from a value read once; a retry or a second worker starts between storing and moving the cursor | each mail once, none skipped |
| **Sessions and the guard** (`auth/sessions`, `auth/supabase.guard`) | `UserSession` rows; per process tokens, blocked sessions, the platform's state | register, admit, refuse; revoke, log out, change a password | emergency security | memories filled after they were cleared, and one filled from another; rows that fall behind | what is withdrawn is refused after a bounded time, what is in use is not |
| **Emergency security, break-glass** (`emergency-security`) | locked users and tenants, platform emergency, hashed codes | lock down, recover | guard | it runs in one process, the memories are in all; a code is checked outside the write that consumes it | a lock-down reaches everyone; a code is used once |
| **MFA and authorization caches** | in-memory caches | check, invalidate | guard, roles | filled after invalidated | bounded staleness |
| **Incidents, alerts, governance** | incident and review rows | life cycles | audit log | two reviewers | legal transitions only |
| **AI entitlement and plans** (`ai/ai-entitlement`, `super-admin/services/platform-{ai,plans}`) | `AIModel`, `Plan` and entitlements, `Tenant.plan`, an entry per tenant in Redis, usage rows | resolve, change models and plans, clear the entries | chat, super admin, billing | an answer read before a change is stored after the clearing; clearings that fail | what is withdrawn is used for a bounded time only |
| **Lead import** (`leads/services/leads.import`, import queue) | `Lead`, `AuditLog`, one queue job per upload | check the limit, import batch by batch, audit, retry | plans, audit log | an execution ends between batches; a row the database refuses takes the batch along | a retry repeats nothing of an upload that skips or updates (one that creates is repeated); a batch without a reported row is there |
| **Leads, deals, activities** | rows | CRUD, convert | imports | converting twice | one customer per lead |
| **Support tickets** | tickets, messages | create, reply, close | email | replies that reopen | legal transitions only |
| **Roles, employees, departments** | rows | CRUD | authorization cache | last administrator | one always remains |
| **Media queue** | files | resize, store | storage | retries | idempotence |
| **Prices, utilities, web client, MCP server** | none shared | arithmetic, reading, forwarding | | | |

The hazards, each at its line and with the property that covers it or a note
why none does, are in `PROJECT.json` (`hazards`).

## 2 The models

Each component is a module; `*MC` gives its constants values for TLC, `*Proofs`
holds its theorems.  A transaction of the code is cut where the order of its
statements among other actors' steps matters: its reads are steps, and all its
writes become visible in its last step.  Locks, unique indexes and foreign keys
are guards of the steps at which PostgreSQL enforces them.  Requests the code
rejects change nothing and are not steps.

### InvoiceLedger — `finance/services`

State: `invoice[i]` (the row), `payments` (the `Payment` rows), `req[p]` (what
request p is doing and the snapshot it read).  Money is counted in the smallest
unit, so the tolerance of 0.01 is 1.

| action | code |
|---|---|
| `CreateInvoice` | `InvoicesService.createInvoice` (balance = total, nothing paid) |
| `RecordRead`, `RecordCount`, `RecordCommit` | `PaymentsService.recordPayment`: checks on the row read, `allocatePaymentNumber`, insert and the invoice's figures computed from the row read |
| `UpdateRead`, `UpdateCommit` | `updateInvoice`: refused when PAID; new items rewrite total, balance and also paidAmount |
| `StatusRead`, `StatusCommit` | `updateInvoiceStatus` |
| `SendRead`, `SendCommit` | `sendInvoice` and the worker of the email queue |
| `UnpayRead`, `UnpayResum`, `UnpayCommit` | `deletePayment`: delete, sum what remains, rewrite figures and status |
| `DropRead`, `DropCommit` | `deleteInvoice`: refused with payments; the foreign key cascades |
| `Abort` | a constraint, a deadlock victim, or the transaction's timeout |

`Owed` keeps the `||` of the code: a balance of zero is falsy and the difference
of total and paid is used instead.

Nothing in the code keeps two requests off one invoice, so nothing in the model does.
`stale` and `raced` are history and no guard reads them: a request becomes stale when
another one commits on the invoice it has read, and an invoice becomes raced when a stale
request commits on it.  The properties say what holds of all other invoices, that is, of
those on which a check of the row's version would have refused nobody.  `RecordedPaymentKept`
and `PaidInvoiceFrozen` say for every invoice which overtaken request alone can break the rule.

`SerialLedger` is what the services promise: each operation is one action on the rows as
they are, and what is paid on an invoice is what its payments add up to
(`PaymentSums`, which both modules extend).  `Serial == INSTANCE SerialLedger WITH bill
<- ...` keeps of a row what is not a figure, and hides invoices that were raced.  A
`...Commit` is the operation, or `Race` if the request was overtaken; everything before it
and `Abort` are stutters.

### AuditChain — `common/audit`

State: `records` (committed rows), `holder[c]` (advisory lock), `writer[w]`
(the transaction), `now`.  `Request`, `Lock`, `Seal`, `Commit`, `Rollback` are
`AuditLoggerService.log` inside its transaction: the lock is taken first and
released with the transaction; `Seal` reads the last row by (createdAt, id),
stamps the new one and inserts it.  `InsertPlain` is a service that calls
`auditLog.create` itself.  The hash of a record is abstracted to its identity: two
records have the same hash only if they are the same.  `VerifyAuditChain`
and `RunIntegrityVerification` are the two verifiers.  `Skew` puts servers' clocks apart,
the identity is drawn at random, and the clock ticks when it likes: so a sealed record may sort
before the one it was linked to.  Such a record is `late`, which is history; the properties are
about what it does to the chain (`Displaced`) as well as about the others.

`AppendLog` is what a chain without direct writers promises: it grows by one record at a time
that is linked to its end and becomes its end, unless it is late (`Fork`), and nothing in it
changes.  `Log == INSTANCE AppendLog` maps a chain to the hashes of its committed records and
to the hash of the last by (createdAt, id): `Commit` of a sealed record is `Append` or `Fork`.

### AuditArchive — `common/audit/archive`

State: `entry[l]` (the outbox row), `due` (nextAttemptAt has passed),
`stored[l][w]` (versions of the object that w stored), `failures[l]` (history),
`worker[w]` (the batch it holds and where it is in it), `up`.  A worker reads a
batch once (`Fetch`) and goes through it: give up an entry at its limit, ask the
store whether the object exists (`Head`), store it (`Put`, `PutFails`; an answer
may be lost after the object was stored), mark it (`Mark`), write a failure off
(`WriteOff`), all by id and from what the batch said.  `Crash`, `Outage`,
`Restore` and `Elapse` (backoff runs out) are the environment.  A worker is whoever calls
`processPendingOutbox`; nothing in the API does, so nothing here says that an entry is ever
handled.  The store is external and modelled from how `s3-object-lock.provider.ts` uses it.

`WriteOnceArchive` is the promise: a record that was entered stays entered, each worker
stores it at most once, and it is called ARCHIVED or FAILED only with cause.  It does not
say that these are final, because with two workers they are not.

### Billing — `common/billing`, `common/plans`, `queue`, `super-admin`

State: `done` (events recorded as PROCESSED), `intake` (deliveries inside the
controller), `job[e]` (the queue's job of an event), `proc[q]` (what a worker or
request has read), `sold` (invoices with their payments), `subs`, `alive`.

| action | code |
|---|---|
| `Receive`, `Enqueue`, `Refuse` | `BillingWebhookController.handleWebhook`, `enqueueBillingWebhook` |
| `Take`, `Skip`, `Check`, `Mark`, `Report` | the queue's worker and `processBillingWebhookEvent` |
| `Verify` | `verifyAndActivatePayment` up to its transaction |
| `SetByHand` | `createOrUpdateSubscription` of the super admin |
| `Begin`, `Count`, `Insert`, `Commit` | the statements of the three transactions: find and update or create the subscription; count invoices; insert; count payments and insert |
| `Grant` | the super admin's transaction when the plan costs nothing: no invoice and no payment |
| `Rollback`, `Crash`, `Stall` | a rejected number or a database failure; the end of a process; the queue's lock of a job running out |
| `DeleteTenant` | the cascade of deleting a tenant |

BullMQ is external and modelled from how the code configures it: a job added
under the identity of an existing job is dropped (`jobId`
`billing-webhook:{eventId}`), a completed job is removed, a failed one kept
(`removeOnFail`), three attempts, and the default of one stall before a job
fails.  The identities of all queues (webhook, mail, import, media) contain colons, which
recent versions of BullMQ may refuse in custom identities, and `src/api/package.json:40` asks
for ^6.3.4; the models take them to be accepted, since the other
reading is that no job of any queue is ever run.  Other interleavings come from
READ COMMITTED: the upsert of the event's row makes a second transaction of the
same event wait (`EventFree`), an update of a subscription makes others wait for
that row (`RowLocked`), and an insert under a number that another transaction has
inserted waits for its end (`Insert`).

A number is a prefix, a year and a count, and unique as a whole (`schema.prisma:1398`).  Prefix
and year together are a series: webhooks take the year of the event, the browser's
verification the current one, and the super admin the configured prefix (`SeriesOf`).
Counts are over all series, so that two transactions with one count collide in one series
and both commit in two; the number of a payment goes with its invoice's year.

`Activation` is what billing promises: a sale is one step that takes numbers no other has in
its series, extends a subscription of the tenant or creates one, and marks its event, once.
The two modules share their variables `done`, `sold`, `subs` and `alive`; `Commit` is
`Sell`, `Grant` is `Grant`, `Mark` is `Ignore`, the rest of the queue's and the
transactions' steps are stutters. What Activation does not promise, that a payment is not
activated twice by webhook and browser, or that a tenant has one subscription, is refuted in
section 6.

### SessionGuard — `auth`, `super-admin/services/emergency-security`

State: `row[s]` (the `UserSession`), `locked`, `emergency` (since when), and per process
`token[p][s]` (the token cache), `blocked[p]` (sessions seen revoked), `state[p]` (the
remembered platform state), `req[p]` (what the request being judged has read), `leaving[p]`
(logouts that have not written their row yet).  `unseen`, the sessions whose last use the
database refused to record, is history.  `chosen[s]` is the "remember me" of the sign-in,
which the web client sends with every request except those of the AI workspace; `Bare` says
whether these come along.

| action | code |
|---|---|
| `ServeFromMemory`, `RefuseFromMemory`, `OutliveInMemory` | `canActivate` when the token is remembered |
| `Read` | the five reads of `Promise.all`, the platform's state from memory if it is fresh |
| `RefuseEmergency`, `RefuseLocked`, `RefuseRevoked`, `RefuseExpired`, `Admit`, `Register` | what follows them, in the code's order: what was read is judged, written back and remembered |
| `RevokeSession`, `RevokeAllOtherSessions` | `SessionsService` |
| `Logout`, `EndLogout` | `AuthController.logout`: the session is blocked in this process first, and then its row is revoked, unless that fails, which is swallowed |
| `PasswordChanged`, `PasswordReset` | `AuthService.handlePassword...` |
| `RevokeUserSessions`, `LockUser`, `UnlockUser`, `LockTenant`, `ForcePasswordReset`, `EnablePlatformEmergency`, `DisablePlatformEmergency` | `EmergencySecurityService` |
| `Restart` | a process loses its memories |

Every write of the guard (the upgrade to "remember me", the last use, the revocation of what
has expired, the registration) may fail, as each is followed by `.catch(() => {})` or its
like; the request goes on as if it had not.

Any other revocation writes its rows and then clears the memory of its own process; both are
one step.  `RevokedWithinTtl` bounds what every process does by the token's expiry and does
not depend on the clearing.  `BlockedForCause` does: it is about sessions that are active
when a process begins to block them, and a revocation that blocked first and revoked later
would have to be named in it, as the logout is, whose two halves are two steps.  The unit of
time is arbitrary: only the assumptions on the limits that the code's numbers satisfy
(`CacheTtl + Throttle < IdleLimit`, `CacheTtl <= Absolute <= Persistent`) are used.

### Inbox and MailStore — `email/services`

`MailStore` is what a synchronization promises: mails are kept in the order of arrival,
each Message-ID once, and the cursor passes one kept mail at a time.  `Inbox` is the
code: `account` (state, IMAP host or none, status, cursor), `stored[i]` (rows of a Message-ID),
`threads[i]` (the threads its mails are in), `job` (the queue's one job of the account),
`run[w]` (the statement a worker is at).

| action | code |
|---|---|
| `EnqueueSyncInbox`, `Evict`, `Take`, `Report`, `Stall` | `EmailQueueProducer.enqueueSyncInbox` and the queue |
| `LookUp`, `Unsafe`, `Mark`, `Connect`, `ConnectFails`, `FetchMessages`, `FetchFails`, `Finish`, `Fail` | `processSyncInboxJob` |
| `Search`, `Store`, `AdvanceSyncCursor`, `MessageFails` | `persistInboundMessageAtomic`, `advanceSyncCursor` |
| `UpdateAccount`, `DeleteAccount`, `CreateAccount`, `VerifyAccount` | `EmailAccountsService` |
| `Crash`, `Arrive` | a process ends; mail comes in |

The search and the store are one transaction, but a search sees only what others committed,
so they are two steps.  The search for a thread (`Found`) finds that of the mail answered if
that mail is stored; otherwise References, the provider's identifier and the subject may
find any thread or none, so that a reply that arrives before its parent, or whose subject is
changed or empty, may begin a thread of its own.  A thread is named after the Message-ID
that began it, so two threads begun by one Message-ID would count as one.  The job of an
account that is switched off, deleted or without an IMAP host ends without an error and
without storing anything (`Usable`).  Nothing under `src/` but a test calls
`enqueueSyncInbox`; `EnqueueSyncInbox` is whoever does, and nothing is claimed of when.
`Mail == INSTANCE MailStore WITH cursor <- account.cursor`: the other variables have the
same names.  A search that finds the Message-ID, a retry of stored mails, a crash and every
operation on the account are stutters of it.

### LeadImport — `leads/services/leads.import`, import queue

State: `leads` (each knows the upload, batch, row and execution that made it, which the
table does not: history), `deleted`, `audited`, `job[u]`, `run[w]`.

| action | code |
|---|---|
| `ImportLeads`, `Take`, `Report`, `Stall` | `LeadsController.importLeads`, the producer, the processor, the queue |
| `AssertWithinLimit` | the check of the plan's limit, before any batch and by the whole file |
| `Look`, `Commit` | a batch's transaction: which e-mails exist; its creations and updates |
| `Poison` | a row the database refuses (its assignee does not exist): caught in the loop, but the transaction has failed and is rolled back without an error |
| `BatchFails`, `AuditFails`, `Crash` | the other ways an execution ends |
| `Audit` | the record, only if something was imported |
| `DeleteLead` | `LeadsService.deleteLead` |

A row is an e-mail and its kind: good; incomplete, which fails before it is looked at; or
unknown, with a stage or priority that the Prisma client refuses before any SQL.  The latter
two are caught in the same loop as a poisonous one and lose only themselves.  The job's
result has counts and messages; of them the model keeps which batches had a failed row.
Without Redis the controller runs the import itself: that is a `Take` that is never
repeated, and no model of its own.

`AtomicImport` is the promise: an upload is open, done or failed, and while it is open its
current execution makes leads batch by batch, whole batches, and none that the upload made
before if it is to skip or to update; an upload that is to create makes all of them
again.  `Atomic == INSTANCE AtomicImport` maps a job to its number of executions, whether
it has ended, and what it reported: `Commit` is `Import`, a report `Complete`, `Retry` or
`GiveUp`, a stalled job `Retry` or `GiveUp`; looking for e-mails, a refused row, a failing batch
and a crash are stutters.

### AiEntitlement — `ai/ai-entitlement`, `super-admin/services`

State: `off[m]` and `plans[p]` (with the time since when something is withdrawn),
`planOf[t]`, `on` (the switch), `cache[t]` (Redis), `req[r]` (a resolution and how far it
is), `edit[e]` (a request of the super admin: what it has checked, or the keys it has
left to delete).

| action | code |
|---|---|
| `Ask`, `Hit`, `Bypass`, `ReadTenant`, `ReadPlan`, `ReadFallback`, `Fill`, `FillFails`, `Answer` | `validateModelAccess`, `getEffectiveEntitlements` |
| `SwitchModel`, `SetFallbackModel`, `CheckDefaultModel` + `SetDefaultModel`, `CheckPlanDefaultModel` + `SetPlanDefaultModel`, `ToggleGlobalAiKillswitch`, `UpdatePlanAiConfiguration` | `PlatformAiService` |
| `CheckNewPlan` + `CreatePlan`, `UpdatePlan`, `CheckPlanInUse` + `DeletePlan`, `Fail` | `PlatformPlansService` |
| `ChangePlan` | whoever changes a tenant's plan, without clearing anything |
| `List`, `Clear`, `ClearFails` | `invalidateAllCache` |

`Check...` is what the code decides before its transaction and does not look at again.
`sure` in an answer is history: the database has not changed since the plan was read, and
no clearing failed.  `Span` is how long a resolution takes: the code sets no timeout on its
queries, so that it has a bound at all is an assumption (`Tick` waits for it).
`StaleIsBeingCleared` is about what an answer says of its own plan: `ChangePlan` clears
nothing, so which plan a tenant has is bounded by `WithdrawnWithinTtl` and the findings of
section 6.  The run has one editor; clearings that overlap are only in the theorem.

The models share nothing at run time that could break a property: the audit records a
payment or an import writes are the plain writers of AuditChain, the entry a sealed record
adds is `Log` of AuditArchive, and the payment that changes a tenant's plan is
`ChangePlan` of AiEntitlement.  `Inbox` composes a mailbox, the queue's job and the
account; `SessionGuard` the guard, the sessions and the emergency controls; `Billing` the
webhook, the queue, the browser and the super admin.

## 3 The runs

Passing runs.  A bound is named in the module (`MaxPayments`, `MaxRecords`, `MaxTime`,
`MaxManual`, `MaxOrders`, `MaxLead`, `MaxMail`, `MaxDeleted`, `MaxChanges`, the sets) and everything
else is unbounded.

| run | instance | shows |
|---|---|---|
| `InvoiceLedgerOverlap` | two requests on one invoice, all operations, totals 0 and 2, two payments | types; `LedgerAgrees`; `NoOverpayment`; `RecordedPaymentKept`; `Implements` (SerialLedger) |
| `InvoiceLedgerNumbers` | two requests on one invoice, no deletion, three payments of 1 and 2 | `PaymentNumbersSequential`, `PaidNotOverstated` |
| `AuditChainAppend` | two sealed writers on a tenant's chain, a sealed and a direct one on the platform's, one server's clock ahead, records of one millisecond, three records | types and lock; `BreaksOnlyAtPlainOrLate`; `MonitorMissesNothing`; `EveryLogEnds`; `Implements` (AppendLog) |
| `AuditArchiveWorkers` | two workers with limits 2 and 3, two records, batches of two | types; `ArchivedIsStored`; `GivenUpAfterLimit`; `Implements` (WriteOnceArchive) |
| `BillingOnce` | two events of two tenants in two years, two workers that crash, a browser, a tenant that may be deleted | types; `ProcessedIffApplied`; `Implements` (Activation) |
| `BillingSettles` | one event, two workers, a browser and the super admin, whose invoice may be in another series or not exist; crashes, rollbacks, lost jobs | `NumbersFollowCounts`; `AcknowledgedSettles` |
| `SessionGuard` | two processes, a session, one logout, revocation, lock-down or restart, requests with and without the header, writes that fail, seven ticks | types; `RevokedWithinTtl`; `EmergencyWithinTtls`; `UseRecorded`; `LifeLimited`; `BlockedForCause` |
| `InboxSync` | two workers, four mails in batches of two, the first and the last with one Message-ID, the third an answer to the first; every fault but the slow worker | types; `CursorCovers`; `StoredOnce`; `RepliesJoin`; `JobBringsMail`; `Implements` (MailStore) |
| `LeadImport` | two workers, two uploads with common e-mails: one to skip, of two batches, with a row of unknown stage; one to update, with an incomplete row; a deletion; every fault but the slow worker | types; `ReportTrue`; `ImportAudited`; `Implements` (AtomicImport) |
| `AiEntitlement` | a request, a super admin, a tenant, two plans, two models; two changes; three ticks | types; `WithdrawnWithinTtl`; `StaleIsBeingCleared` |

Six modules define `Implements`, that the code's steps implement an abstract
specification of the component (section 2).  Those runs no longer check what is a part of
it one by one: `PaidInvoiceFrozen`, `ChainValid`, `StoredOncePerWorker`, `EventAppliedOnce`
and `ImportedOnce` keep their definitions and each is a theorem of its own (section 5).

Why the bounds suffice to meet the interesting cases.  Ledger (1.15 million states): the
hazards are all between two requests on one invoice, which a second invoice does not change;
totals 0 and 2 with two payments of 1 make an invoice that is partly paid, paid, overpaid by
the tolerance, emptied again and deleted.  Chain (130,000): a fork takes two writers after
one record, and three records on a chain; with two ticks and a clock that is one ahead,
records come late by their time and by their identity; the other chain has a sealed record
next to a direct one.  Archive: two workers holding one entry with different limits is the
smallest case in which one gives up what another archives, and with two entries a batch has
a rest while the other worker is at it.  Billing: two events of two tenants draw the same
number, in one series or two, one event delivered twice meets both the queue's and the
table's check, and two workers are needed for a job to change hands.  The deliveries of one
event that are inside the controller at the same time are told apart only by the tenant they
carry.

SessionGuard (4.1 million): what is withdrawn in one process is served by another, so two; a
session's properties mention no other session; one order is enough because every property
speaks of the time since one of them, and the theorems have no bound.  The limits are the
smallest that differ from each other and leave a session time to be idle, to outlive the
absolute limit, to outlive the limit of a remembered one, and to be served from an old
memory; `MaxLead` says how late the first request may come.  InboxSync (136,000): a cursor
inside a batch, at its end, and a batch with a rest; a Message-ID that comes back in a later
batch; a reply whose parent is stored by another worker.  LeadImport: an e-mail in two
batches of one upload and in the other upload, so that every branch of `Written`, `Refuses`
and `Created` occurs, and a plan's limit of five that a retry behind the first batch still
passes and one behind both exceeds; "create" makes duplicates on purpose and is left to the
theorems.  AiEntitlement (2.1 million): two changes are what it takes to withdraw something
and give it back while an older answer is still on its way; that two clearings overlap takes
two super admins and is left to the theorem; `Span` and `Ttl` are one tick each, so that
three ticks pass both.

Runs that TLC finds violated are in section 6.

`CHECK_DEADLOCK FALSE` is given where bounds make the system stop: InvoiceLedger
(payments), AuditChain (records), SessionGuard and AiEntitlement (the clock and the number of
orders or changes), LeadImport (every upload has ended).

## 4 Fairness

Safety runs assume none.  The liveness runs assume:

- `AuditChainAppend`: every step of a writer that is in its transaction is weakly
  fair (a transaction ends: it commits or its timeout rolls it back) and taking
  the lock is strongly fair, since PostgreSQL queues those who wait for a lock and
  serves them in order.  Starting to log is not fair.
- `BillingSettles`: waiting jobs are eventually taken and stalled jobs found (BullMQ's
  worker loop and stalled check), and the next statement of a process that can run
  it again and again is run (`SF`: row locks and unique indexes are waited for in
  turn).  Crashes, rollbacks and redeliveries are not fair and not bounded.
- `InboxSync`: a waiting job is taken and a deserted one found, as above, and a worker goes
  on to its next statement (`WF`: it waits for nobody).  Nobody has to enqueue anything:
  `JobBringsMail` begins with a job that waits.  Faults are not fair, and need no bound: the
  queue's attempts bound them, which is why the property has the failed job as one of
  its ends.

`AcknowledgedSettles` and `JobBringsMail` thus do not say that a failed job is ever run
again, and what becomes of later deliveries and synchronizations then is in section 6.

## 5 The proofs

TLAPS checks these for all values of the constants that satisfy the modules'
assumptions (`LedgerAssumption`, `ChainAssumption`, `ArchiveAssumption`,
`BillingAssumption`, `GuardAssumption`, `InboxAssumption`, `ImportAssumption`,
`EntitlementAssumption`: the constants have their types; GuardAssumption also orders the
limits as the code's numbers do.  `NoneAssumption`: None is no record).

**InvoiceLedgerProofs.**  Requests overlap as they like.  `TypeCorrect`, `LedgerCorrect`,
`OverpaymentBounded`, `PaidInvoicesAreFrozen`, `PaymentsAreKept` and
`LedgerImplementsSerialLedger` assume nothing; `PaymentNumbersHaveNoGap` and
`PaidIsNeverOverstated` assume that nothing is deleted (`NothingDeleted`) and then hold of every
invoice, raced or not.  Types alone are not inductive: `TInv` adds that payments are finitely
many.  The ledger's agreement needs that what a request holds is still true: `LInv` adds `Held`
(unless the request is stale, the snapshot in `req[p]` is the row, and the sum a `deletePayment`
took is the sum of what remains) and `Referential` (payments have live invoices, identities are
unique and below `nextPay`).  A commit makes every other request on its invoice stale, which is
why `Held` of the others survives it (`OthersHeld`), and a request that is stale races its
invoice, which is why that agrees or is not spoken of (`AgreesAfter`, `CommitStep`).  The three
action properties follow from `LInv` and the steps that change the rows.  Numbers: `NInv` says
the number a request counted is at most one above the number of payments (`NumberHeld`); with
the unique index, it can only be committed if it is exactly that.  `PInv` says that the row a
request has read is `Understated`, which stays true because a committed payment only adds to the
sum of its invoice (`RecordAdds`), so writing a stale row loses payments and never invents one.
For the refinement it is not enough that a snapshot is still the row: what the request *decided*
from it must hold too.  `SInv` adds `Firm`: unless the request is stale, a status change is
still allowed, an invoice to be sent is still a draft, a payment to be deleted is still there.
`MapsRace` is the commit of a stale request; there is then a lemma per commit, in which the figures
the code writes are the sums SerialLedger computes.

**AuditChainProofs.**  Nothing is assumed of clocks and identities.  `ChainTypeCorrect` includes
that a chain's lock is held by at most one writer, exactly while it links or has inserted.
`SealedRecordsStayLinked`, `SealedChainsAreValid` and `MonitorHidesNothing` say which links break
and that a window reports what is wrong with the records in it.  The strengthening: `Ordered` and
`Prefixed` (every chain, and what comes before any record in it, has a last record), `Rows`
(identities differ, and a record without a hash has a direct writer of its chain) and `Links`
(every sealed record, committed or not, follows the record before it, a plain one or a late one;
and one not yet committed comes after every sealed record of its chain, since nobody else can
commit a sealed record while its lock is held, or is marked late).  `SealedChainsAreLogs` adds
`Hashed`, that a hash is that of one record only, and `Tail`: in a chain without direct writers a
row not committed yet is linked to the last that is, late or not; `Appends` takes from these
that a commit is `Append` or `Fork`.  A commit by a direct writer, or to a chain that has one,
is a stutter, because it changes no sealed chain.

**AuditArchiveProofs.**  `ArchiveTypeCorrect`, `ArchivedMeansStored`,
`NoWorkerStoresTwice`, `NothingGivenUpEarly`.  The inductive invariant `Inv` adds
`Knows`: a worker about to mark an entry has seen or stored the object, and one
about to store has not stored it before.  `Counted` relates the attempts of entries
and batches to the history of failures.  `OutboxImplementsArchive` needs besides that what
a worker holds was entered (`Recorded`), however long ago it read it; `HeldMoves` and
`EntryMoves` say once for all steps what gets into a worker's hands and who changes an
entry.  With `Workers = {w}` more holds, and is proved from the same lemmas: `AloneInv` says that
what the worker holds is as it read it and held once (`Fresh`); `AloneCountsAreExact` then
says that attempts are the failures, and FAILED their limit; `AloneOutcomesAreFinal`, that
ARCHIVED and FAILED are never overwritten.  With two workers both are false (section 6).

**BillingProofs.**  `BillingTypeCorrect`, `ProcessedWithItsSale` and
`NumbersFollowTheirCounts` hold under every fault of the model, for any number of workers
and clients.  `EventsApplyOnce` assumes `"slow" \notin Faults`: no worker goes on
with a job whose lock it lost; with one the property fails (section 6).  Each has
an invariant of its own over `TInv`, which adds to the types that rows are finitely
many and that a job that may run again has an attempt left.  `OInv`: the run of an
event belongs to the holder of its job (`Owned`), so two runs are never of one
event, and past the check that the event is not PROCESSED it still is not.  `NInv`:
no two sales of a series share a number (`Unique`), and nobody has the number of an invoice
that was inserted and not yet committed (`Untaken`, `Apart`), since a second insert of it waits;
until a tenant is deleted a number that was counted is at most the next one (`Numbered`,
`Bounded`), and if all sales are in one series the unique index then leaves only the next
one (`Sequential`).  `PInv`: the tenant an event names travels
unchanged from the intake through the job to the run, so `Mark`, which records an
event without activating anybody, can only be reached once that tenant is gone.
`BillingImplementsActivation`, again without slow workers, puts them together: `KInv` is their
conjunction with `RInv`, which holds under every fault and says that what a transaction has read
is still there when it commits (`Sound`): its tenant and the row of the subscription it extends
(rows of a tenant are numbered uniquely, `RowIds`).
`MapsCommit` is the step that matters: the number is free in its series (from `NInv`), the event is
not PROCESSED yet (from `OInv`), and payment and tenant are those of the event (from `PInv`).

**SessionGuardProofs.**  Every action is summarised once as a `Step`: what it may do to
the clock, rows, tokens, requests and the emergency, in a handful of clauses
(`RowStep` and its companions).  The invariants are then preserved by any `Step`, and
no proof repeats the actions.  `AgeInv` (`RowsOld`, `SnapshotsOld`, `TokensOld`) relates
the times in rows, in what requests have read, and in tokens (`Noted`: a token dates a use that
was recorded, or whose session is `unseen`); it gives `RevocationReaches`, `UseIsRecorded`, and,
without more, `LifeIsLimited` and `BlockedOnlyForCause`: a token says "remember me" only of a
session whose user did, whatever headers its requests carry, and `OutlivedIndeed` shows that a
token is outlived only when its session's ordinary time is over, since `CacheTtl + Throttle <
IdleLimit` keeps it from being idle.  None of them assumes that requests carry the header or that
writes succeed.  `EmergencyInv` adds `CalmIsOld`: a memory or request that knows of
no emergency read it before the emergency began; it gives `EmergencyReaches`.

**InboxProofs.**  `Inv` (`TInv`, `RunsOK`, `CursorCovers`): the mails of a batch before the
one a run is at are stored; it needs no assumption on faults, so `CursorIsCovered` holds
with slow workers too.  So does `RepliesJoinTheirThread`: `RunsJoin` says that a run about
to store a reply has found a thread of what it answers, which the cursor says is stored.
`OwnInv` adds `HolderRuns` (who is not idle holds the job), `RunsOwn` (the run's place is
the cursor's, and what its search did not find is not there) and `StoredOnce`; it needs that
no worker outlives its lock.  `SyncImplementsMailStore` is proved from `OwnInv` by
`StepMaps`: `Store` is `Keep`, `AdvanceSyncCursor` is `Pass`, `Arrive` is `Arrive`, every
other step is a stutter.

**LeadImportProofs.**  `ShowInv`: what a run has done so far, and what a completed job did,
is among the e-mails known (leads or deleted) or reported; the known only grow
(`KnownGrows`), and that preserves everything said of them (`ShowsMonotone`); so
`ReportsAreTrue` holds whatever fails.  `OwnInv`: the run of an upload belongs to the holder
of its job (`Owns`), whose execution has a later number than that of every lead of an
earlier one (`Executions`), what a batch's search did not find no other execution of the
upload can make meanwhile (`FoundOwn`), and a run that made a lead has counted it
(`Counted`).  `SkippingUploadsImportOnce` and `ImportsAreAudited` follow, if no worker
outlives its lock.  `ImportImplementsAtomicImport` is under the same assumption: `InOrder`
adds that a run is past every batch of which its execution has made leads, so that batches
come in order and `Commit` is one `Import` (`MapsCommit`, with `RowShows` for each row); a
report's truth is `ShowInv`, its audit record `Counted`, and that only the holder reports is
`Owns`.

**AiEntitlementProofs.**  Writes, edits and clearings are summarised in three lemmas.
`RInv`, for `WithdrawalReaches`: what a request has read itself and is no longer so went
after its start; what an entry says and is no longer so went at most `Span + Ttl` before it
expires.  `SInv`, for `StaleIsCleared`: a request that is `sure` holds what the database
says, and an entry that is stale but `sure` has someone about to clear it.

All safety properties the passing runs check, and all six refinements, are theorems.  What they
assume beyond the constants' types is said above: `NothingDeleted` (two of the ledger), `"slow"
\notin Faults`, no worker goes on with a job it lost (two of Billing, two of Inbox, three of
LeadImport), and one worker alone (two of AuditArchive).  Only model-checked: liveness
(`EveryLogEnds`, `AcknowledgedSettles`, `JobBringsMail`), which is outside the prover's reach.

## 6 What the runs refute

Each of these runs checks one statement the repository makes and TLC finds a
behaviour of the code that contradicts it.

| run | the repository says | what happens |
|---|---|---|
| `BillingPayment` | `subscription-payment-activator.util.ts:19` replay protection | webhook and browser both activate |
| `SessionGuardRemembered` | `auth/sessions.spec.ts:618` a remembered session remains valid beyond 24 hours | the AI workspace's requests come without the header, the token is remembered without it, and the process blocks the session |

The same models show, and no run is kept for:

*Ledger.*  Without the exception for raced invoices, `LedgerAgrees`, `NoOverpayment` and
`Implements` fail, and so do `PaidInvoiceFrozen` and `RecordedPaymentKept` without theirs:
`recordPayment` (`payments.service.ts:154`),
`updateInvoice` (`invoices.service.ts:304`) and `deleteInvoice`
(`invoices.service.ts:711`) check before they write, and nothing keeps two requests off one
invoice.  After a payment other than the last is
deleted the count yields a number that exists (`payments.service.ts:32`).  Deleting the last
payment of a cancelled invoice reopens it (`payments.service.ts:301`).

*Audit.*  Records of one millisecond sort by a random id, and servers' clocks differ, so
that the chain forks in spite of the lock that "ensures atomic chain linking"
(`audit-logger.service.ts:37`), and its full verification then reports two broken links in a
chain nobody tampered with.  The monitor compares the first record of its window with null,
so `verifyRecent` reports a broken link in an intact chain, and without a tenant it mixes
the chains (`audit-integrity-monitor.service.ts:77`); `MonitorMissesNothing` is the half
that holds, for one chain.  Missing hashes do not make its status CRITICAL (line 252).

*Archive.*  One worker's failure overwrites another's ARCHIVED
(`audit-archive.service.ts:77`: "safe from background workers").  Nothing in the API calls
`processPendingOutbox`, so entries stay PENDING, though `SECURITY_OPERATIONS_RUNBOOK.md:69`
says it runs every minute, and what FAILED during an outage is not tried again (line 71
expects coverage of 100%).  A limit of attempts that is not a number retries forever (line
34 of the service).

*Billing.*  With a worker that loses its job's lock (`"slow"` in `Faults`) and goes on,
`EventAppliedOnce` fails: the event's row is looked up outside the transaction and upserted
inside it (`billing-webhook.service.ts:56`).  `BillingSettles` has this fault: numbers and
liveness survive it, and by its theorem so does `ProcessedIffApplied`. Two first payments of
a tenant, or a payment and the super admin, find no subscription and create one each
(`subscription-payment-activator.util.ts:74`).  Deleting a tenant makes the next number one
that exists, and no payment of anybody is activated any more in that series
(`billing-webhook.spec.ts:223` promises no silent loss).  Between series, at the turn of a
year or with a configured prefix, numbers repeat a count or skip one: each count is over all
invoices, each series has its own numbers.  A job that failed three times keeps its
identity, and until a hundred others have failed or a super admin cleans the queue every
later delivery of its event is answered 200 and dropped (`webhook-queue.producer.ts:84`).
An event whose tenant is not known yet is marked PROCESSED and never applied
(`billing-webhook.service.ts:139`).

*Sessions.*  The repository calls revocation instant (`SECURITY_CONTROL_MATRIX.md:8`); it
takes up to `CacheTtl` in every other process, and after `lockUser` and `revokeUserSessions`
in every process, since they clear no memory, though `SECURITY_OPERATIONS_RUNBOOK.md:111`
says so.  A forced reset of one user's password clears the blocked sessions of all
(`emergency-security.service.ts:276`): the properties hold all the same, because they bound
a token by its expiry and not by that set.

*Sessions, writes that fail.*  All of them are ignored.  A logout whose revocation fails
(`auth.controller.ts:344`) answers "Logged out successfully" and every other process goes on
serving the session; a session whose last use cannot be recorded (`supabase.guard.ts:609`)
is ended as idle in the next process although it is used; a registration that fails leaves a
session without a row, which no revocation finds until a later request registers it.

*Mail.*  A failed job keeps its identity, and until a hundred others have failed every
`enqueueSyncInbox` answers that it was enqueued and is dropped
(`email-queue.producer.ts:280`).  A deleted account that is revived keeps its cursor even if
it is another mailbox now (`email-accounts.service.ts:116`).  A run goes on after its account
was switched off or deleted.  An account whose fetch failed stays SYNCING.  An active account
without an IMAP host is synchronized with success and without a mail
(`inbound-email.service.ts:115`).  With a slow worker
`StoredOnce` and `Implements` fail: there is no unique index on the Message-ID.

*Import.*  The limit is checked before the first batch by count
(`leads.import.service.ts:37`), so that two uploads exceed it together, and a retry is refused
because of the leads its first execution made.  A deleted lead is made again by a retry.  A
retry of an upload that is to "create" makes the leads of committed batches again.  The leads
of an execution that dies before its audit record (line 227) are in no audit record: the retry skips
them, and if it imports nothing it audits nothing.  After a row the database refused, the
rows before it stay counted as imported although they are rolled back, in the audit record
and in what the job returns, which is counts only (`import-queue.processor.ts:101`).  There
is no unique index on the e-mail's hash: with a slow worker `ImportedOnce` fails.

*AI.*  `platform-plans.service.ts:470` invalidates the cache "so updated model entitlements
take effect immediately"; a resolution that has read before fills it again after, for up to
`Span + Ttl`.  Nobody calls `invalidateTenantCache` (`ai-entitlement.service.ts:455`), so a
tenant that changes its plan keeps the old answer for `Ttl`.  A plan that does not exist, or
has no available model, gets the catalogue's first model, and the former has AI enabled
(lines 172 and 225).  Setting a default or fallback model makes one available that was
switched off meanwhile.

## 7 What is left out, and why

- Data that no property depends on: items, taxes, currencies, addresses, PDF and
  e-mail contents; the signature check of webhooks; plan prices and limits
  (floating point arithmetic).
- Reading endpoints, dashboards and reports; the web client; the MCP server, a
  stateless adapter.  They are most of the repository's lines and change no shared state.
- Invoice numbers of tenants (`createInvoice`): one insert under a unique index that
  the code retries; payment numbers, which are held across statements, are modelled.
- A super admin who runs a failed job again or cleans a queue by hand
  (`platform-security-operations.controller.ts:124`, 146): a failed job stays failed here, except that
  Inbox lets it be forgotten (`Evict`).  "An upload that ended stays as it is" is said without it.
- BullMQ itself: that it accepts custom identities with a colon (section 2) is taken for granted for every
  queue.
- Of the import: leads entered by hand, and e-mails changed by `updateLead`
  (`leads.service.ts:331`), both of which a batch may meet as a lead that came or went.
- Row-level security and tenant isolation: every model is of one tenant's rows, or
  of rows of the platform.
- Refunds and `syncMissingTenantSubscriptions`: two refunds of one invoice both compare
  with the paid amount they read (`platform-billing.service.ts:849`), though only if the
  second draws its number after the first has committed.
- Of the guard: maintenance mode; users who must reset their password, and the paths
  open to them; the tenant's lock flag, which is read before the guard knows the tenant; reads that
  fail (the guard lets in whom it finds nothing about: no bound holds then); the deletion
  of a user; the break-glass code, which is compared (`emergency-security.service.ts:454`)
  and overwritten afterwards, so that two requests may both use it (line 43 says single-use).
- Of the mail: attachments (they go with the message, and stay in the object store when its
  transaction is undone), the timeline, a change of folder, which starts again at the first mail.
- Of AI: limits on usage (chat records its usage without token counts, `ai.controller.ts:82`,
  so the daily limit is never reached), capabilities and the choice of a default model; the
  seeding of plans and models at start; a kill switch that cannot be read counts as on.  The
  plan's row, entitlements and models, one query of Prisma that reads them one after another,
  are one step.
- Components with status `not_modelled` in `PROJECT.json`; their notes say why.

## 8 What the plan has left

1. An abstract guard, "a request is judged by what was so at most `Ttl` ago", that
   SessionGuard implements, and the same of AiEntitlement.
2. `Refunds`, with the activations that change the same invoices.
3. The authorization cache and MFA, in the way of SessionGuard; the break-glass code.
4. Running a failed job again by hand (`platform-security-operations.controller.ts:124`), in
   Billing, Inbox and LeadImport.
5. Life cycles of leads, tickets, roles: one customer per lead, the last administrator.
