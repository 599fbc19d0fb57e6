# Verification of the TFT traders' e-mail platform

The repository is an e-mail sending and tracking platform: a NestJS API and a
worker process (`src/apps/api`), a web dashboard (`src/apps/web`), shared types
(`src/packages/shared`), PostgreSQL, Redis with BullMQ queues, SMTP and IMAP
servers. This directory holds TLA+ modules of the parts whose correctness
depends on the order in which several actors work on the same rows, TLC
configurations that check them, and TLAPS proofs.

## 1. The system

One API process (HTTP handlers, no state of its own between requests) and one
worker process (`worker.ts`) that runs seven BullMQ workers. They share
PostgreSQL and Redis and nothing else. Hardly any handler holds a transaction
over its awaits, so two handlers interleave at every database, Redis, SMTP or
IMAP call; the worker may die at any of them, and BullMQ then re-runs the job.

| part | state | operations | talks to |
|---|---|---|---|
| Compose (`email-messages`) | `email_messages`, attachments, links | compose: guards, render, insert, enqueue, insert `scheduled_sends` | send queue, suppressions, templates |
| Scheduled sends | `scheduled_sends` | list, cancel, reschedule | send queue, messages |
| Send queue and worker (`send`) | BullMQ job: state, attempts, stalled count | enqueue, remove; `processSendJob`: check, meter, mark sending, SMTP, mark sent, catch | SMTP, messages, sender accounts, webhooks, notifications |
| Sender accounts | status, quotas, IMAP cursor | CRUD, connection test, usage | send worker, inbound worker |
| Inbound worker (`inbound`) | `inbound_messages`, `bounces`, cursor | pass, sync a mailbox, record a bounce or reply, delivery heuristic | IMAP, messages, suppressions, notifications, webhooks |
| Suppressions, unsubscribe | `suppressions`, `unsubscribed_at` | upsert, release, one-click unsubscribe | compose, inbound worker |
| Webhooks | `webhook_endpoints`, `webhook_deliveries`, BullMQ job | dispatch, test, deliver, retry, auto-disable, switch, delete | send, inbound and tracking workers |
| Tracking | `tracking_events`, counters, BullMQ job | pixel, click; worker: read, judge, commit, tell | realtime, notifications, webhooks |
| Realtime | LISTEN connection, SSE streams | listen, reconnect, read the message, broadcast | tracking, dashboard |
| Auth, users | `sessions`, `invitations`, `users`, two cookies per browser | login, refresh, logout, invite, accept, roles, deactivate | all controllers |
| API keys, public API | `api_keys`, rate-limit windows | create, revoke, request | compose, customers |
| Customers | customers, custom values, tags | CRUD, import, erase | messages, suppressions |
| Engagement | reminders on messages, score | score, follow-up reminders | notifications |
| Compliance | partitions of `tracking_events` | purge, create partitions, IP truncation | tracking |
| Analytics | `daily_stats` | nightly rollup, queries | messages, tracking |
| Templates, categories | versions, approval | save, submit, approve | compose |
| Settings, tags, field definitions, audit log, reports, sent mail | rows | CRUD and queries | - |

### What is hard, and what correctness means

- **Send pipeline.** The worker acts on a status it read several awaits before;
  cancel and reschedule act on a row they read before they touch the queue;
  a stalled job is run again from the start; SMTP acceptance and `markSent` are
  two steps; the quota is read and then used; the final attempt is decided by
  arithmetic that must agree with the queue's. Correct: the status shown is what
  happened, a message is not sent more often than the design admits, an open
  message has a job, a cancelled one is not mailed, deferred jobs come back.
- **Inbound worker.** Commit, notifications and cursor are three steps; a pass
  works with the cursors read at its start; mails are processed again after a
  crash. Correct: no mail below the cursor was missed, nothing counts twice,
  bounces reach the suppression list, one bad mailbox does not hold up others.
- **Webhooks.** At-least-once POSTs, a log row updated by whichever handler runs
  last, an endpoint disabled by a count over rows other handlers write. Correct:
  the log says what happened, POSTs are bounded, the endpoint is disabled when
  and only when deliveries were given up on.
- **Tracking and realtime.** Ten jobs run at a time and each decides from an
  `open_count` it read before its transaction; a job that stalls or loses the
  answer to its commit inserts its rows again; the API process reads the
  counters some time after the commit it was told of. Correct: the counters are
  what the log holds, no hit is lost, a first open is told about once per worker
  slot at most and toasted once.
- **Customers and suppression.** Compose reads customers and flags once and then
  inserts message by message, without a transaction; an erasure is a transaction
  of three statements that sees what others commit in between; two spellings of
  an address are one to citext and two to `text[]`; a compose that fails in the
  middle leaves what it did. Correct: nobody who was stopped before a request is
  written to by it, an erased address is nowhere, a repeated send repeats little.
- **Sessions and accounts.** The access token is trusted without a look at the
  account; rotation is two statements; the tabs of a browser share cookies that
  whichever answer is last overwrites; the last-admin rule counts and then
  writes. Correct: access ends one token life after the change that takes it
  away, no live session is left in nobody's hands, an admin remains.
- **Retention, statistics, reminders.** Purge, rollup and reminders run by cron
  over the same rows, may be interrupted between statements, and their settings
  change. Correct: figures outlive the events they were made from, events find
  their partition, a reminder is not repeated.

`PROJECT.json` lists each of these as hazards with their lines and the
properties that cover them.

## 2. Modules

| module | what it is |
|---|---|
| `SendPipeline` | compose, send queue, worker, cancel, reschedule, bounces, delivery heuristic |
| `Outbox` | abstract: the message state machine seen from outside |
| `SendOutbox` | the refinement mapping from `SendPipeline` to `Outbox` |
| `InboundSync` | the inbound worker's passes over the mailboxes |
| `Ledger` | abstract: mails taken in one after the other, each once |
| `InboundLedger` | the refinement mapping from `InboundSync` to `Ledger` |
| `WebhookDelivery` | deliveries to one endpoint, its disabling, the admin |
| `HookLog` | abstract: attempts, answers and what the delivery log shows |
| `WebhookLog` | the refinement mapping from `WebhookDelivery` to `HookLog` |
| `Tracking` | hits, the tracking queue and worker, counters, first opens, the realtime stream |
| `Contacts` | customers, erasure, suppressions, unsubscribe, the compose page and its request |
| `Access` | sign-in, refresh, sign-out, cookies and tokens, roles, deactivation, invitations |
| `Housekeeping` | partitions and their purge, the rollup of figures per day, follow-up reminders |
| `MC...` | symmetry sets for TLC |
| `SendPipelineProofs` | invariants and the refinement to `Outbox` |
| `SendQueueProofs` | the bounds on the quota's overshoot and on mails; open messages keep their job and cancelled schedules settle |
| `InboundSyncProofs` | the types and safety properties of `InboundSync`, and the refinement to `Ledger` |
| `WebhookDeliveryProofs` | those of `WebhookDelivery`, and the refinement to `HookLog` |
| `TrackingProofs` | those of `Tracking` |
| `ContactsProofs` | those of `Contacts` |
| `AccessProofs` | those of `Access` |
| `HousekeepingProofs` | those of `Housekeeping` |

### SendPipeline

Variables are the columns and job fields the handlers read (`status`,
`scheduled_sends` as `row` and `rowAt`, `sender_accounts.status` as `account`,
the messages with `sent_at` in the quota window as `window`, the BullMQ job as
`job`, `jobAt`, `made`, `stalls`), the program counters of the handlers
(`composing`, `request`, `pc`), and history (`accepted`, `recorded`,
`bounces`, `struck`). One action is the code between two awaits on shared state:

- compose: `ComposeCheck` (guards and account), `ComposeCreate`,
  `ComposeEnqueue`, `ComposeRecord`; `ComposeAbort` is a failure in between;
- `cancel`: `CancelBegin`, `RemoveJob`, `CancelMarkRow`, `CancelMarkMessage`;
  `reschedule`: `RescheduleBegin`, `RemoveJob`, `RescheduleAdd`,
  `RescheduleMarkRow`;
- `processSendJob`: `Load`, `CheckAccount`, `RejectInactive`, `DeferForQuota`,
  `Clear`, `StartSending`, `Transmit`, `Record`, `Catch`, with `HandlerFault` for
  a call that throws;
- BullMQ (external, modelled from how it is used): `Promote`, `Pick`,
  `StalledCheck`, `Complete`, `FailAttempt`; `Crash` is the worker process dying.

`SendOutbox` reads a message of `SendPipeline` as one of `Outbox`: `Abstract ==
INSTANCE Outbox WITH phase <- Phase, mailed <- Mailed`. `Outbox` has no queue,
worker, request or account, only the moves a message may make.

`struck` holds the messages that a failure took the job from, or a table out of
step with: compose that fails between its row and its job, a cancel or
reschedule that fails after it has removed the job, a call of the last attempt
that throws outside the `try` block or in its `catch` clause, and a job that
stalls more often than BullMQ forgives. Promises about jobs are made of the
others. So they hold with faults and crashes, and the steps that break them are
named in the model; any other step that loses a job violates them.

Abstractions: one sender account; one quota window stands for the daily and the
hourly one; the clock is the nondeterminism of `Promote`, `NewWindow` and
`AssumeDelivered`; a database call that fails has no effect (a lost answer to a
commit is not modelled); an account that is missing behaves as an inactive one;
there is one worker process, and BullMQ's lock renewal works, so a job is taken
for stalled only when its handler is gone. SMTP may take a mail and still answer
with an error.

### InboundSync

`inbox` is each mailbox in UID order, `cursor` is `imap_last_uid`, `intake` the
unique index of `inbound_messages` on account and UID, `pass` the state of the
one pass in progress with the cursors it read at its start. The transaction of
`processMessage` is one step (`ProcessMessage`), its notifications (`Tell`) and
the cursor (`Advance`) follow. A transaction may be rolled back (`SyncFault`), or
take effect and lose the answer to its COMMIT (`CommitUnanswered`): then
`withTransaction` throws, and the next pass finds the mail taken in and tells
nobody. `notify` and `dispatch` log an error of the database or of Redis and
return, so a notification may be lost and the cursor moves (`TellFails`). `losses`
counts these two. A mail is a kind and the message it is about:
`hard` and `soft` are delivery reports, `bare` a mail fetched without a source,
`poison` one whose processing always throws. DSN parsing is the choice of the
kind. `Books == INSTANCE Ledger WITH ...` in `InboundLedger` forgets the pass,
the connection, the crash and the notifications. All messages go to one
recipient address, since the suppression policy works per address. `listActive`
orders the accounts by creation; the model takes them in any order. Not modelled: the 30-day window of the soft-bounce count, a
change of UIDVALIDITY, mails that are expunged.

### WebhookDelivery

One endpoint and its deliveries: `row` has the columns the worker writes
(`null` is a missing `response_status`), `rank` the order of `created_at`, the
job and handler as in `SendPipeline`. `Rows`, `Completed` and `Streak` are
`countRecentConsecutiveFailures`. The audit record and the notification that
follow `setActive(false)` are left out: nothing reads them. The query's `LIMIT`
is left out as well: the streak is at most the threshold long when it matters.
Editing the URL, secret or events of an endpoint is not modelled. `posts`
counts the requests the worker made, whether or not they reached the endpoint.
`struck` holds the deliveries whose last run ended without the handler's word:
a call of the last attempt threw, or the job stalled too often. `Log ==
INSTANCE HookLog WITH ...` in `WebhookLog` keeps the endpoint, the attempts
under way, the answers and what the rows show.

### Tracking

`hits` is the data of the queued jobs; `job`, `made`, `stalls` and `pc` are as
in `SendPipeline`; `seen` and `bot` are what a handler read and judged. `events`
is `tracking_events`, whose rows carry the run that inserted them; `openCount`,
`clickCount` and `linkClicks` are the counters of messages and links; `told`
counts first-open notifications; `notes` are the `pg_notify` messages the API
process is handling and `toasts` what it broadcast as a first open.

- `Pixel` and `ClickLink` queue a hit; `Load`, `Judge`, `Commit` and `Tell` are
  the handler; `Commit` is the one transaction, whose answer may be lost
  although it took effect; `HandlerFault` and `Crash` end handlers;
- `ConnectionError`, `Reconnect`, `HandleNotification` and `ApiRestart` are the
  realtime side.

User agents, proxy lists, hosting providers and the seconds since the send are
one input per hit, whether it is a machine's; the burst rule (several links of
a message within the sibling window) is computed, in ticks of that window. The
rate limiter only keeps hits out. Only opens are followed to the stream; clicks
are handled alike with `click_count`. The stream's own reconnection is the
browser's.

### Contacts

`customer`, `suppressed` and `message` are the rows, `page` and `compose` the
compose page and the request it has sent, `request` the erasures and
unsubscribes in progress. An address is a mailbox, which is what citext
compares, and a spelling. An erased message gets `erased-<id>@erased.invalid`,
for which the customer's id stands.

- customers: `Create` (an import is one per row), `SoftDelete`, and the erasure
  `EraseRead`, `Anonymise`, `ClearCustomerId`, `HardDelete`: its transaction
  runs at READ COMMITTED, so other requests commit between its statements, rows
  it changed stay locked to its end, and the foreign keys have the last word;
- suppressions: `Suppress` (an address, with or without a customer),
  `Release`, and `ReportRead` and `ReportCommit` for
  an unsubscribe and for a hard bounce, which write what they read before;
- compose: `AddCustomer`, `RemoveCustomer`, `HandleSend`, `ReadCustomers`,
  `ReadFlags`, then per customer `Skip`, `CreateMessage` or
  `CreateMessageRefused`, `EnqueueSend`, and `Answer`, after which the page drops
  the recipients that went well; `ComposeFault` ends the request anywhere.

`stopped`, `barred`, `confirmed` and `raced` are history. The worker is `Mail`;
its own steps are in `SendPipeline`. Left out: the unsubscribe event,
`unsubscribed_at` and the webhook; tags and field values.

### Access

`account`, `session` and `invitation` are the rows, `cookies` the two cookies of
each person's browser, `request` the handlers in progress with what they read
and will answer. Handlers go statement by statement: `Login`; `Refresh`,
`RefreshUser`, `Rotate`; `IssueTokens`, `Answer`; `Logout`; `UpdateRead`,
`CountAdmins`, `UpdateWrite` or, when the patch says what the row has by then,
`UpdateRestates`; `InviteRead`, `InviteInsert`, `RevokeInvitation`;
`AcceptRead`, `AcceptCreate`, `MarkAccepted`. `Fail` is a statement that fails, a
process that stops or an answer that is lost. `Tick` ages the tokens.

The tabs of a browser share its cookies, each refreshes on its own and only
once it was answered 401, and answers arrive in any order. The rules tell admins
from others, so manager, agent and viewer are one role. Passwords, hashes and
token strings are abstracted: a request presents what it has. Names and the list
of users are left out.

### Housekeeping

`today` is the clock in days, from the migration on; `month` the partitions,
`event` where each row of `tracking_events` is, `message` the columns the jobs
read, `stats` the rows of `daily_stats` over all accounts and templates; `purge`
and `reminding` what a running job holds.

- purge: `PurgeStart`, `PurgeDrop` per partition, `PurgeDropped`, `PurgeEnsure`
  per month ahead, `PurgeRefused` when the default partition has rows of it;
- `Rollup` is one statement; `RemindScan`, `Remind`, `MarkNotified` the reminders;
- `Send`, `Bounce`, `Open`, `Reply`, `UpdateRetention`, `NextDay` are what others do.

Months are all `DaysPerMonth` long; the code takes them from the calendar and
only compares them. An open is recorded on its day or the day after
(`MaxDelay`): the tracking queue retries within seconds, so a longer delay needs
a worker that is down for a day. Rollups would not cover such an open. IP
truncation and the engagement score are one idempotent statement each and left
out.

## 3. Runs

| run | question | bounds |
|---|---|---|
| `SendSafety` | with faults, crashes and two racing requests, is the status truthful and a cancelled message not mailed, is each message recorded as sent once per bounce and mailed no more often than its jobs may run, does an open message keep its job, is a cancelled schedule settled, and is every step one of `Outbox`? | 1 message, 2 requests, 2 attempts, 2 crashes, faults |
| `SendQuota` | by how much do two workers that read the usage at the same time exceed the quota? | 3 messages, 2 slots, quota 1, 1 attempt, faults |
| `SendLive` | is every message settled that no failure struck? | 2 messages, 1 slot, quota 1, 1 attempt, 1 crash, faults |
| `SendCancelRace` (violation) | can a cancelled message start to send? | 1 message, 1 request |
| `InboundSafety` | is anything skipped, recorded twice, or kept off the suppression list? how much is left untold? is every step one of `Ledger`? | 1 mailbox, 3 mails of 6 kinds, 2 messages, threshold 2, 2 crashes, 2 losses, faults |
| `InboundLive` | is every mail taken in that no unprocessable mail precedes? | 2 mailboxes, 2 mails each, 1 crash |
| `HookSafety` | are POSTs bounded, is the endpoint disabled for failures only and always after enough answered ones, does a row with a next retry have a job, is every step one of `HookLog`? | 2 deliveries, 2 slots, 2 attempts, threshold 2, 1 crash, admin, faults |
| `HookLive` | is every delivery settled that no failure struck? | 2 deliveries, 2 slots, 2 attempts, 1 crash, faults, no network errors |
| `Tracking` | are the counters those of the log, is every completed hit in it, how often is a first open told, inferred and toasted? | 1 message with 1 link, 3 hits, 2 attempts, 1 stall, 2 slots, 1 mishap |
| `Contacts` | does compose spare everyone who was stopped, is an erasure complete, how many copies does sending again make? | 2 customers, 2 mailboxes in 2 spellings, 2 requests, 2 sends, 4 changes, 1 fault |
| `Access` | does access end with the token, is every live session in somebody's hands, is an admin left? | 3 people, 2 of them admins, 3 sessions, 1 invitation, 2 requests at a time and 4 in all, tokens of 2 ticks, 1 fault |
| `Housekeeping` | do figures outlive their events, does every event find its partition, are reminders bounded? | 2 opens, 1 message, 4 days in months of 2, look-ahead 1, retention of 1 or 3 days, 1 fault |

Why these bounds are enough for the questions:

- *Send.* Cancel, reschedule, stalls and retries act on one message at a time,
  and messages meet only in the quota and in the worker's slots, so one message
  carries the race runs. Two requests give every pair of operations; a third
  acts on the same two rows and one job. Two attempts have a first and a final
  one; the proofs are for any number. With `MaxStalled` = 1 the queue forgives one
  crash and fails the job after a second one, which `SendSafety` reaches. There
  `MailsBound` is 9, three runs of the first job and of the one each reschedule
  adds. It counts the share of those that have yet to add their job, and is
  reached with both of them pending after three runs of the first job; TLC also
  reaches 8 mails, all its two crashes admit. `SendQuota` has two slots and a
  third message that waits for one: its bound of 2 over a quota of one is reached
  by two workers that both read no usage, and the third message must not be sent
  on top of them. It has no crash, since a crash frees every slot at once.
- *Inbound.* Three mails are needed for a soft bounce, another one and a mail of
  any kind before, between or after them.
- *Webhooks.* Two deliveries with a threshold of two need both handlers' rows.
  For the question of `HookLive` a network error is an error.
- *Tracking.* Two slots give two hits that read the same count, the third hit
  comes after or waits; messages meet nowhere but in the slots. A threshold of
  one instant link makes the second click of a window a machine's; with a larger
  one fewer clicks are judged so. One mishap is one of a crash, a fault, a lost
  answer, a lost connection or an API restart; its job is repeated once.
- *Contacts.* Two customers give two spellings of one address or two addresses,
  a customer made anew after an erasure, and a request that fails between two
  recipients. Two sends are a send and its repetition. Four changes are, for
  example, two creations, an erasure and an unsubscribe between its statements.
- *Access.* Two admins may demote each other and a third person may be invited,
  accept or be deactivated; two requests at a time give every pair, four in all a
  sign-in, two refreshes of it in two tabs and a change. A life of two ticks
  tells a token that was signed just before a change from one signed after it.
- *Housekeeping.* The four days span a boundary of months between two rollups and
  a purge that comes late; a retention of one day drops a month
  the second day after its end at the earliest, one of three keeps it longer. Two opens fall on one day, on two, in two months.

Each run is complete: TLC explores every state within the bounds. The theorems
of section 5 hold for all values of the constants.

`CHECK_DEADLOCK FALSE` is set for webhooks, tracking, contacts, access and
housekeeping: when the bounded events, hits, requests or days have been used up
the model has nothing more to do. The others always have mail, account changes
or passes to come.

### Fairness

`FairSpec` of the first three modules assumes that handlers that started go on
(the event loop; every SMTP, IMAP and HTTP call of the code has a timeout), that
the queue promotes delayed jobs, detects stalled ones and starts passes, and
that quota windows end. `Pick` is strongly fair: slots are freed and taken
again, and BullMQ takes waiting jobs in order, so a job cannot be overtaken for
ever. Calls may fail at any time in `SendLive` and `HookLive`: a failed attempt is
counted, so a job ends. `InboundLive` has no faults, since a pass over an IMAP
server that always fails takes nothing in. Nothing is assumed of users, mail
servers' answers, crashes or arrivals. The other modules state safety properties
and no fairness.

## 4. What the code does not keep

`SendCancelRace` ends in a violation of something the repository says:
`markSending` has no condition, so a cancel between the worker's check and it is
overwritten and the mail goes out, after the request was told that the message
is cancelled. `findings` quotes the lines.

The properties of the passing runs say precisely how far some other promises go:

- `RecordedOnce` of the send pipeline and `ImplementsOutbox` allow a second
  sending after a bounce: a stalled job whose message bounced is sent again,
  since the guard knows `sent`, `delivered` and `cancelled` only.
- `UsageBound` allows the quota to be exceeded by `Concurrency - 1`. `UntoldBound`
  allows a crash, a COMMIT whose answer is lost and a notification that fails to
  lose the notifications of one mail each.
- `OpenHasJob`, `CancelledRowSettled`, `RetryHasJob` and `AnsweredFailuresDisable`
  except what was struck: a message whose last attempt throws at
  `email-sender.service.ts:102-107` stays in `sending` for good, one whose
  reschedule fails after `scheduled-sends.service.ts:118` is never sent, and a
  delivery whose last attempt throws before it is recorded shows a next retry for
  ever.
- `HitsRecorded` allows one more row for each run that threw or stalled: a job
  repeated after its commit counts twice. `FirstOpensBound` allows a first-open
  notification and an inferred open per slot. `OneToast` says at most one: with
  two opens in quick succession neither handler may see a count of one.
- `NoMailToStopped` is about addresses spelled as the entry spells them:
  `getSuppressionFlags` and `findByEmails` compare as text
  (`customers.repository.ts:298`, `:133`), while `docs/ERD.md:382-383` keeps an
  address suppressed "even if the customer record is deleted/re-imported". It
  allows mail to those who unsubscribe after the request came.
- `ErasureIsComplete` excepts the messages that compose inserts between the
  anonymisation and the delete: they lose the customer and keep the address.
- `CopiesBound` allows one copy per failed compose: the page keeps all its
  recipients, those whose message was already queued included.
- `AccessEnds` excepts tokens signed by a handler that had read the account
  before the change, `SessionsHeld` the sessions an answer overwrote or that were
  lost with one. `LastAdminStays` does not settle the race at
  `users.service.ts:56`, which the code loses: two admins who demote each other,
  both having counted the other, leave none. It says that nothing else does: the
  last admin is taken away only by an update that had read or counted before
  another one was written.
- `StatsKept` is about days that changed no more after a rollup: a bounce later
  than the next day never reaches the figures, although the comment at
  `stats-rollup.service.ts:5-9` expects reruns to correct them.
- `DefaultStaysEmpty` needs a purge in every `Lookahead` months; after a longer
  gap `createPartition` fails on the rows in the default partition for good, and
  those rows are never purged.
- `RemindersBound` allows a second reminder for each interruption.

Other differences met while reading, which no run shows:

- A cancel that read `scheduled` removes the backoff job of a message that
  meanwhile failed an attempt (`scheduled-sends.service.ts:89`): it stays
  `queued` and is not sent again, against `docs/PRD.md:331-332`.
- A reschedule whose job is active changes the row only (`:117`), so the list
  shows a date at which nothing happens (`docs/PRD.md:328-329`).
- A hard bounce after a soft one leaves `bounce_type` at soft
  (`inbound-sync.service.ts:205`, `docs/TASKS.md:140-141`).
- Network errors have no status and never disable an endpoint
  (`webhook-deliveries.repository.ts:120`, `docs/ERD.md:355`).
- A sign-out is undone by the answer to a refresh that arrives after it; the
  second tab's refresh with a rotated token gets 401.
- An invitation revoked while the password is hashed is still accepted, and two
  admins may invite one address twice.
- Two unsubscribes at the same time both dispatch the webhook; one after an
  erasure suppresses the anonymised address.

## 5. Proofs

All theorems hold for every value of the constants that the named assumption of
the module admits.

`SendPipelineProofs` shows, for any finite or infinite set of messages and
requests and any number of attempts, stalls, slots and crashes, from
`ConstantsAssumption` alone:

- `TypeCorrect`: `Spec => []TypeOK`;
- `StatusIsTruthful`, `SentOncePerBounce`: the status shown is backed by what
  the SMTP server took, a cancelled message by its taking nothing, and a second
  record of a sending needs a bounce;
- `Implementation`: `Spec => ImplementsOutbox`, the refinement to `Outbox`.

None of them is inductive. `TypeOK` needs to know that a handler's job has
attempts left (else `made` could leave its range). The status invariants need to
know what the status may be at each program counter. `Inv` conjoins

- `TypeOK`;
- `JobInv`: a handler runs only an active job, and a job that may run again has
  attempts left;
- `UnbornInv`: a message that does not exist has no job, row, handler, request or mail;
- `HandlerInv`: which statuses are possible while a handler is at a given place,
  and that a cancelled message was never accepted;
- `CountInv`: `recorded`, `accepted` and `bounces` against the status, one more
  acceptance while a worker waits to record it.

There is one lemma per conjunct and one step per action; the refinement uses
`Inv` before each step.

`SendQueueProofs` adds `UsageIsBounded`. `SlotInv` says that no more than
`Concurrency` handlers run, `QuotaInv` adds the counted messages and those past
the gate: a worker that clears a message has just seen fewer than `Quota`
counted, and past the gate are at most `Concurrency`; from then on a message
moves from one summand to the other. The set of messages may be infinite.

It also proves `OpenHasJob` and `CancelledRowSettled` for any number of messages,
requests, attempts, crashes and failing calls, without a hypothesis:
`OpenMessagesHaveJobs` and `CancelledRowsSettle` speak of the messages that are
not `struck`. `EndInv` says that a handler ends for good only with a message that
is not open, or struck; `OpenInv` that an open message without a job is one from
which a request has just taken it; `OrderInv` that rows and jobs come in
compose's order; `CancelInv` that a cancelled row whose message still waits has a
request about to mark it. `NothingIsStruck` shows what the exemption amounts to:
with `~Faults` and `MaxCrashes <= MaxStalled` no message is ever struck, since by
`StallInv` a job whose handler is gone counts as one more crash, so the two
invariants then hold of every message.

`MailsAreBounded` (for a finite set of requests): `MailInv` says of a message that
was mailed that the mails, the runs its job has left and `Runs` for each
reschedule that may still add a job are within the bound. A request checks the
status first, so none can join once the message was mailed; the hypothesis is
there because an infinite set of requests has no cardinality to bound with.

`InboundSyncProofs`, from `InboundAssumption` alone. `Inv` ties the pass to the
tables: `BoxInv` keeps cursor and intake inside the mailbox; `PassInv` says that
the cursors the pass read at its start still hold for the mailboxes it has not
come to (there is one pass at a time), and that in the open one it works on the
mail after the cursor, which is in the intake by the time the cursor moves.
`NothingIsSkipped` needs that, and cannot be proved from the tables alone. The
counting theorems `NothingRecordedTwice` and `NotificationsLost` add that
the counted sets are finite; a mail that is new is not in them yet. A crash, an
unanswered commit and a failing notification each leave at most the one mail the
pass is at untold (`OneLost`).
`BouncesReachTheList` is inductive by itself. `Implementation` shows `Spec =>
ImplementsLedger`: a `ProcessMessage` that finds the mail new books the position
after the mark, which is `PassInv`; `Advance` moves the mark by one over a mail
in the intake; everything else of a pass leaves the books alone.

`WebhookDeliveryProofs`, from `HookAssumption`. `JobInv`, `AnswerInv` and
`PostInv` (each run of a job posts once, and each run ends with an attempt, a
stall or the job) give `PostsAreBounded` and `DeliveredWasAcknowledged`;
`FailureInv` (a row that counts as a failure was given up on) gives
`DisabledAfterFailures`. By `ThrowInv` a handler that throws in the last attempt
was struck, which `RetriesHaveJobs` needs. For `FailuresSwitchOff`, `GaveUpInv`
says that what was given up on is in its last attempt, so no later run of it
writes a retry into the row, and `RankInv` that its row exists. Hence a handler
that counts sees the rows of all that gave up before it (`AllCount`), and
`DecideInv` says that once `Threshold` deliveries have settled, which includes the
count, the endpoint is off. Both hold whatever fails and crashes.
`Implementation` shows `Spec => ImplementsHookLog`: `Load` at an active endpoint is
the begin of an attempt, `Post` its answer, and a crash abandons the attempts.

`TrackingProofs`, from `TrackingAssumption`. `JobInv` says that a queued request
has its data, that a job which may run again has an attempt left, and that
handlers run active jobs only. By `RunInv` a run that is under way or next
(`Ahead`) has inserted nothing yet, so the rows of a commit are new and the
counters and the log grow together: `CountersAgree`. `RowsInv` bounds the rows of
a hit by its runs that ended and puts them in the log before anybody is told,
which gives `HitsAreRecorded`. `OpenInv` adds to the first opens told and inferred
the handlers that read no open and are still on the way (`Pending`): there are at
most as many as slots, each moves from one summand to the other, and none can join
once the message is open; `FirstOpensAreBound` follows. `ToastInv` counts the
toasts with the notifications that may still become one, for `OneToastEach`.

`ContactsProofs`, from `ContactsAssumption`. `RowsInv` says what rows that are
not there hold, and that an erasure has rows that exist. `SendsInv` ties the
page's count of requests to the messages: those of the running request are its
results, the recipients still to come have none. `CopiesInv` counts the messages
the page does not know of without the running request's, which is what
`CopiesAreBound` adds as one. `StoppedInv` says that an address in `stopped` has
a live entry, and that once the flags are read every barred recipient still to
come is among them: `StoppedNotMailed`, an action property, needs it at
`CreateMessage`. `ErasingInv` says that an erasure which has anonymised knows
every message of its customer but those that raced with it, which
`ErasureCompletes` needs at `HardDelete`, several statements later.

`AccessProofs`, from `AccessAssumption`. `HandlerInv` says what a handler holds at
each statement; `OwnerInv` that sessions, cookies and answers belong to one
person; `RevokedInv` that the session a refresh presented is dead by the time
its answer is made, without which an answer could drop a live one from the
cookie; `SeenInv` that what a handler read of an account still holds unless it
is marked stale, with the second admin that the count saw; `TokenInv` that a
token which says more than its account ends in time. They give
`AccessEndsInTime`, `EverySessionHeld` and `AdminRemains`.

`HousekeepingProofs`, from `HousekeepingAssumption`. `PartitionInv` says that the
months from yesterday's to the look-ahead of the last purge have partitions,
and that a running purge drops only months that ended before yesterday:
`DefaultIsEmpty` follows, and no rollup meets a day that is half dropped, which
is what `StatsInv` needs for `FiguresAreKept`. `ReminderInv` adds the notice that is
told and not yet marked to the interruptions, for `RemindersAreBound`.

The three refinements are used: each abstract specification has so few moves that
a claim about single steps can be read off it. `OutStays` (a message shown as sent
is shown so until it bounces, although the worker writes statuses without a
condition), `CursorMovesInOrder`, `DeliveredStays` and `SwitchedOnByAdmin` are
action properties proved that way, from the lemma that every concrete step is an
abstract one. No run states them.

Only model-checked are the liveness properties `Settles`, `MailTakenIn` and
`DeliverySettles`: fairness and ENABLED are beyond the prover. Every safety
property of a passing run is also proved. No module declares a recursive operator.

## 6. What is left

Done: the send pipeline, inbound worker, webhooks, tracking and realtime,
contacts and compose, access, housekeeping, each with its run and its proofs.

What would come next: liveness of tracking (every hit is in the log in the end),
as for the other queues; a specification of what compose promises, as `Outbox`
is of the send pipeline; IMAP mailboxes that are rebuilt, once the code keeps
UIDVALIDITY.

### Not modelled

- **Templates and categories.** Versions are appended under a unique key and
  approval is one status column. Compose copies what it renders, so nothing in
  flight depends on them.
- **API keys and rate limiters.** Creating and revoking a key are single
  statements; the limiters are a counter with an expiry in Redis, one command.
  The public controllers call the services that are modelled.
- **Settings, tags, field definitions, audit log.** Single rows that are written
  whole. The retention setting, which a job reads, is in `Housekeeping`.
- **Notification preferences and read state.** One row, one statement.
- **Sender account CRUD and connection tests.** The workers see an account
  through its status, usage and cursor, which are modelled.
- **Sent mail, reports, analytics queries, exports.** Read only.
- **Rendering.** Merge fields, link rewriting, MIME, DSN parsing and user-agent
  tables are functions of text; where a decision depends on one, its outcome is
  an input of a model.
- **Dashboard.** The compose page's recipients, the client's refresh and the
  toast are modelled; the other pages are forms, tables and charts over the API.
  They are the larger part of the lines that no definition maps.
- **Shared package, configuration, health checks, logging.** No state.
