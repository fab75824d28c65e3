# cloudflare-mail in TLA+

Specifications of the core of cloudflare-mail: the places where several Worker
invocations, connections or browser callbacks work on the same rows, blobs or cached
lists without a lock, and the pure functions whose answers are hard to test. The modules
are translated from the source (unqualified paths below are relative to
`apps/worker/src`), checked with TLC on small instances and, as far as the provers
reach, proved with TLAPS for all instances.

## 1. The system

One Cloudflare Worker with four entry points (`index.ts`) and one Durable Object:

| Entry point | What runs | How it overlaps |
| --- | --- | --- |
| `fetch` | the Hono API under `api/`, and the web app's assets | any number of requests |
| `email` | one inbound message (`mail/receive.ts`) | one invocation per recipient |
| `connect` | one IMAP connection (`imap/`) | one invocation lives as long as the socket |
| `scheduled` | the cron (`cron.ts`), every minute | a slow invocation overlaps the next one |
| `UserHub` | the user's event stream (`hub.ts`) | one object per user, best effort |

State lives in D1 (SQLite behind an HTTP API) and R2 (blobs). **Each D1 statement is
atomic, and no code path uses a transaction or a batch over several statements.** R2
has no foreign keys, so a blob's lifetime is kept by hand. Between any two awaits of an
invocation every other one may take any number of steps, and an invocation may be
killed. That is why an action of these specifications is one statement, one R2 call or
one delivery wherever the interleaving matters, and why a whole handler is one action
where it is a single statement. The clients (`apps/web`, `apps/ios`) are single-threaded:
there a step is what runs between two awaits.

### Components

State, operations and neighbours of each part; "hard" is what its properties are for;
"here" says how much of it is modelled, `PROJECT.json` what is left out.

| Component | State | Operations | Talks to | Hard | Here |
| --- | --- | --- | --- | --- | --- |
| IMAP UID space (`imap/store.ts`) | `imap_folder`, `imap_uid` | `loadView` | sessions of one user, deliveries, deletes | two loads interleave; reservation and insertion are apart; a chunk of inserts fails | modelled |
| IMAP session, hub listener (`imap/session.ts`, `hub-listener.ts`) | selected view, latch, what the client was told | SELECT, sync, IDLE, FETCH, STORE, EXPUNGE, MOVE, APPEND, CLOSE | UID space, UserHub, client | EXPUNGE renumbers; events race loads, get lost; the poll timer | partly |
| IMAP wire formats (`imap/protocol.ts`, `search.ts`, `fetch.ts`) | none | frame, parse, render | session | literals, sets, MIME parts | partly |
| Scheduled and outbound send (`cron.ts`, `mail/send.ts`, `api/drafts.ts`) | draft row, upload blob, Sent message, deliveries | schedule, cancel, edit, discard, dispatch, roll back, retry, revert | cron, R2, mail provider | failure after delivery; author changes the draft mid-dispatch; overlapping invocations | partly |
| Mailbox purge (`mailbox-purge.ts`, `cron.ts`) | `pendingPurge`, threads, the address | mark, drain in batches, finalize; routing and re-creation beside it | cron, receive, admin API | stale finalization, budget, resumption | partly |
| Message storage and retention (`mail/ingest.ts`, `mail/blobs.ts`, `api/messages.ts`, `cron.ts`) | thread/message/attachment rows, blobs | ingest, trash, restore, purge stale trash, delete message, delete thread | receive, import, IMAP APPEND, cron | blobs without rows, rows without blobs, count-then-delete | partly |
| Thread aggregates (`mail/threads.ts`) | `msgCount`, `unreadCount` | bump, recompute | every writer of messages and flags | read-then-write updates lost | partly |
| Inbound delivery (`mail/receive.ts`) | progress of one message | check, insert, file, bump, act, defer | rules, spam, storage, notices | an error late in a delivery is retried; checks go stale | partly |
| Buckets, folders, labels, rules (`api/threads.ts`, `folders.ts`, `labels.ts`, `rules.ts`) | rows and what refers to them | create, edit, delete, file | receive, IMAP | what was checked is gone when it is written | partly |
| Addresses and routing (`api/admin.ts`, `temp.ts`, `mail/receive.ts`) | mailboxes, aliases, redirects | create, delete, hand over, redirect, look up | cron, receive | lookups that go stale, two creations of one address | partly |
| Reminders (`cron.ts`, `api/reminders.ts`) | status, time | create, reschedule, dismiss, cancel on reply, fire | cron, receive, send | fire races dismissal, reply and a second invocation | modelled |
| Rule sends (`mail/rule-sends.ts`) | `rule_send_log` | forward, auto-reply | receive, mail provider | check-then-send limits | modelled |
| System secrets (`config.ts`, `mail/push.ts`) | `system_config` | first-call initialisation | auth, PGP, push | racing isolates | modelled |
| Rate limiting (`rate-limit.ts`) | one counter per key | check | API, IMAP login | late upserts, window boundaries | modelled |
| App passwords; AI and spam budgets | rows, meters, cached summaries | mint, sign in; charge, summarise | API, IMAP login, receive | caps passed together; stale summaries | partly |
| Accounts, invites, mailbox access, keys | users, members, invites, keys | bootstrap, grant, revoke, accept, ban, confirm | every route | half-done creation, revoked access that comes back, keys that change under a confirmation | partly |
| Blocklist (`mail/blocklist.ts`, `api/admin-block.ts`) | entries, requests | request, review, protect | receive, composer | two reviews of one request | partly |
| Spam, user rules' matching | none | score or match one message | receive | weak evidence adding up, forged headers, operators and their negations | partly |
| Formats (`mime`, `otp`, `trackers`, `img-proxy`, `pgp`) | none | parse, rewrite, seal | all | nesting, redirects, what is not text | partly |
| Search (`api/search.ts`) | FTS index | search | API | quoting, combined fields, pages | partly |
| Web app (`apps/web`) | composer, cached lists | save, send, pop out; refetch, mutate | API, hub | saves overlap; events race answers | partly |
| iOS app (`apps/ios`) | thread list, compose sheet | load, page, move, undo; autosave | API | pages race reloads; autosave beside a save | partly |
| Realtime hub (`hub.ts`) | subscriber table, ping timer | subscribe, broadcast | API, receive, IMAP, clients | lost events | subscribers' side |
| DNS checks, statistics, settings, push transport, UI | | | | independent rows, network, markup | no |

### What makes a component correct

* **UID space**: a UID never means two messages; every session that shows a UID means
  the same message by it; sessions converge to the folder.
* **Session**: a sequence number means the same message to client and server; no event
  is forgotten while a client idles; lost events are made up for.
* **Scheduled send**: nobody gets a payload twice; a draft disappears only once it went
  out; the author is told of failures that are ones; Sent tells the truth; nothing stays due.
* **Purge**: what was to be emptied is gone when the mark goes; the address belongs to one
  mailbox; a request ends.
* **Storage**: a row has its bytes, bytes have a row, retention happens, one delete
  deletes one thing; counters equal what they count; references point to rows.
* **Delivery**: an accepted mail is stored, once; nothing of a blocked sender is; mail finds
  the mailbox its address stands for.
* **People**: revoked means revoked; an invitation is spent once; there is an administrator;
  a verified key is the one that was confirmed; a review ends as it was decided.
* **Services**: one secret per installation; no limit is exceeded and nobody below it is
  refused; a poller misses nothing; a reminder fires once and not after it was dismissed.
* **Pure parts**: verdicts need evidence; what is written reads back; nothing remote is
  loaded behind the reader's back.
* **Clients**: what is on screen is saved; one composer makes one draft; a list that has
  come to rest shows what the server has.

## 2. Modules

| Module | Models | Checked / proved in |
| --- | --- | --- |
| `UidLedger` | what a UID space promises (abstract) | implemented by `ImapUidSpace` |
| `ImapUidSpace` | `loadView`, statement by statement, for several sessions of a user | `MCImapUidSpace`, `ImapUidSpaceProofs` |
| `ImapSession` | one connection with a selected folder, its hub subscription, its client | itself, `ImapSessionProofs` |
| `ScheduledSend` | a scheduled draft, its author, overlapping cron invocations, `sendFromMailbox` | `MCScheduledSend`, `ScheduledSendProofs` |
| `MailStore` | rows, cascades and blobs under ingestion, retention and deletes | `MCMailStore`, `MailStoreProofs` |
| `MailboxPurge` | the background purge of a mailbox, routing and re-creation beside it | `MCMailStore`, `MailStoreProofs` |
| `ThreadCounters` | the counters of a thread and everybody who writes them or what they count | `MCThreadCounters`, `ThreadCountersProofs` |
| `InboundDelivery` | deliveries to one conversation, their checks, failures and retries | `MCThreadCounters`, `ThreadCountersProofs` |
| `Organizing` | all tables with their foreign and unique keys; labels, folders, rules, filing | `MCThreadCounters`, `ThreadCountersProofs` |
| `Accounts`, `MailboxAccess`, `Blocking` | users and invitations; members and keys; the blocklist | `MCPeople`, `PeopleProofs` |
| `SystemSecrets`, `ServicePolling`, `Addresses`, `Reminders` | the services of these names | `MCServices`, `ServicesProofs` |
| `RateLimit`, `RuleSends`, `AiFeatures` | the limiter and app passwords; forwards and vacation replies; meters and summaries | `MCServices`, `ServicesProofs` |
| `RealtimeView`, `Composer`, `IosStore` | cached lists of a tab; the web composer; thread list and compose sheet of the iOS app | `MCClient`, `ClientProofs` |
| `SpamFilter`, `MailRules`, `ImapWire`, `PgpMail`, `Otp`, `RemoteContent`, `MailText`, `MailSearch` | the pure parts | `MCEvaluations`, `PeopleProofs` (`SpamFilter`, `Otp`) |

Modules that share no state are checked together where it saves a run: the `MC` module
extends them and a behaviour is that of the one part it begins with. `MCServices`,
`MCPeople`, `MCClient`, `MCMailStore` and `MCThreadCounters` are of this kind; nothing is
said about how their parts interact. Where parts do interact, one module holds both sides:
`Addresses` has deliveries beside the requests, `ScheduledSend` the author beside the cron,
`MailboxPurge` the routing beside the purge, `ImapSession` the hub beside the connection.

### How the state corresponds to the code

**`ImapUidSpace`.** `uidNext` is `imap_folder.uid_next` (0: no row), `uidOf` the rows of
`imap_uid`, `members` what the membership filter selects. A session's `rows`, `mapped`
and `plan` are the local variables of `loadView`; `FindFolder`/`CreateFolder` are
`folderState`, `ReadMembers` and `ReadMapped` the two parallel reads, `DeleteGone`,
`Reserve` (the atomic `uid_next + n`), `InsertChunk` and `ChunkFails` (each parallel
chunk inserts or fails on its own), `PublishKnown`/`PublishReread` the two ways to a
view. Messages are numbers in the order in which `loadView` sorts them.

**`ImapSession`.** `view` is `selected.view.entries`, `client` the list the client builds
from EXISTS, EXPUNGE and FETCH: per position the UID and flag it was told, or nothing.
`cmd` is where the session is in a command, `dirty`, `expired` are the fields of
`HubListener`, `frames` events on their way. `loadView` is one action here
(`SelectLoads`, `SyncLoads`); another connection's load is `PeerLoads`. Each command is
an action and ends in `BeginSync` where the code calls `sync`; after its load every
EXPUNGE is a step of its own, as every one is awaited, with the positions still to be sent
in `leaving`. Of the flags only `\Deleted` is kept, the one that other commands read.

**`ScheduledSend`.** `draft` is the row (time, payload, attempts, error; `rev` numbers the
author's versions so that properties can tell payloads apart), `upload` the blob under
`draft/<user>/`. An invocation's `row` is the draft it selected; everything after works
on that copy, as in the code. `Persist`, `Attach`, `Deliver`, `Delivered`, `Rollback`,
`Finish` are the parts of `sendFromMailbox`; `DropUploads`, `DropDraft`, `Retry`,
`Revert` those of `dispatchScheduledSends`. With `Pgp` there is one delivery per
recipient. `Killed` ends an invocation anywhere. `MCScheduledSend` adds `excused`: whether
invocations have overlapped, or a step has failed after somebody was served.

**`MailboxPurge`.** `purge` is `pendingPurge`; an invocation remembers the `mode` it
selected, as `mb.pendingPurge` is in the code. `Mark` is `markMailboxPurge` and its
callers' guards, `Recreate` the creation of a mailbox at a freed address, `Route` and
`Store` the two halves of a delivery, `SelectBatch`, `RemoveBatch`, `OutOfBudget`,
`Drop`, `Clear` the loop of `purgePendingMailboxes`.

**`MailStore`.** `thread` and `atts` are the rows, `blobs` the objects, `box` the bucket
of a thread. `PutRaw`, `Resolve`, `InsertMessage`, `PutAtt`, `InsertAtt`, `Bump` are
`ingestRaw` in order; `SelectStale`/`SelectThread`, `CollectRaw`, `CollectAtts`, `DropBlobs`,
`DropThreads` are the purge and the delete of a thread, `StartDelete`, ..., `CountRest`,
`DropMessage`, `DropHome`/`KeepHome` the delete of a message. Foreign-key cascades are
part of `RemoveThreads` and `RemoveMessages`. `swept` is history: messages
that the delete of *another* message took along with its thread.

**`ThreadCounters`.** `count` and `unread` are the thread's `msgCount` and `unreadCount`;
`stored`, `inbound`, `seen`, `trashed` are its message rows by existence, direction and
flag. A writer is a request, a delivery or a connection: `BumpRead`/`BumpWrite` are
`bumpThread`, `CountUnseen`/`WriteUnseen` `recomputeThreadUnread`, `CountAll`/`WriteAll`
the rest of `recomputeThreadAfterMessageDelete`, `ReadRow`/`PatchRow` the PATCH of a message,
`Recount`/`RecountUnread` the single-statement recounts of IMAP and read-all. `held` is
what a writer carries from its read to its write. `exact`, `safe` and `counted` are history:
which overlaps there have been.

**`InboundDelivery`.** A mail's `fact` is what the code can find out about it (its two
senders, verdict, authentication, matching rules), `progress` where `handleInbound` and
`ingestRaw` are with it, `deferred` what was handed to `waitUntil`. `Fail` throws out of
any step and leads to a retry by the sending server. `chronicle` counts what the
properties ask about: copies stored, attempts that failed late, senders seen blocked.

**`Organizing`.** `records` are the rows of every table as records of their columns;
`DeleteRows` removes rows with everything that hangs from them and clears what only
mentions them. `Below` adds to a set of rows what hangs from them by one reference, and
`Cascaded` does so four times, which is as deep as the references of `schema.ts` go. The
handlers load, check permission, and write in a later step: a statement waits in `desks`
while other statements and deletes run. `Databases` are the tables there may be to begin
with, which are in order (`OrganizingInit`); `origin` keeps the rows there were at first and
`deleted` those that were deleted for themselves.

**People.** In `Accounts` and `MailboxAccess` a request is a process with the statement it is
about to run, which may die before it; the history (`past`, `trail`) keeps who was put
out, what was redeemed and which key was shown to the owner. In `Blocking`,
`clerks` are the reviews in progress.

**Services.** `SystemSecrets`: a secret is named after the draw it comes from, `isolates`
are calls between two statements, with the cache of each. `RateLimit`: a caller holds the
clock it read; the upsert decides over the row alone. `ServicePolling`: ids are random, so
an arrival may sort before the cursor within its second. `Addresses`: `workers` are
requests and deliveries between their lookups and their writes. `Reminders`: an
invocation has selected rows and marks and notifies them one at a time. `RuleSends`: a run
counts the hour's log once and then sends and logs. `AiFeatures`: check, ask and charge
are three steps.

**Clients.** `Composer`: `form` with its refs, `timer` the debounce, `queued` the save behind
the one in flight, `task` a mutation; a request may fail before it is handled or lose its
answer after. `RealtimeView`: `cache` and `invalid` are the query cache, `fetches` answers on
the way, `events` the stream, `pending` the coalescer; a mutation writes ahead, and settles.
`IosStore`: `loads` in flight share `flags`; `moves` leave the list before the server has
answered. Its compose sheet is `sheet`, `autosave` and `requests`.

**Pure parts.** Operators over abstract letters, tokens and headers, each with a
definition of what it should be: a search against the set of messages that match, a
framing against the data that was sent, a verdict against the evidence it is entitled to.

## 3. Runs

All bounds are constants of the configurations.

| Run | Asks | Instance | Result |
| --- | --- | --- | --- |
| `imap_uid` | `UidNeverReused`, `ImplementsLedger` (refinement), `ViewsConverge` (liveness) | 2 sessions, 2 messages of which one is there, chunks of 1, 2 changes by others | holds, 419k states |
| `imap_session` | `SequenceNumbersAgree`, `LatchWakes`, `IdleCatchesUp` (liveness) | 2 messages, 2 changes or failing loads | holds, 759k |
| `send` | `ScheduledIsComplete`, `OnceUnlessExcused`, `ReportsAreTrue`, `DroppedAfterDelivery`, `DueSettles` (liveness) | 2 overlapping invocations, 2 recipients, 1 author change, 1 fault, an upload | holds, 139k |
| `mail_store` | `BytesBehindRows`, `StoredBytesFreed`, `StaleTrashLeaves` (liveness); of the purge `AddressExclusive`, `FirstRequestDrains`, `PurgeEnds` (liveness) | 3 messages (2 stored, 1 arriving), 1 purge, 1 request, 2 reader changes, 1 fault; 2 requests, 2 invocations, 1 killed, 2 old threads, 1 message, batch and budget 1 | holds, 258k |
| `thread_counters` | `CountersExact`, `ArrivalsStayUnread`, `Delivered`, `RecordsHold` | 2 writers, 2 messages (symmetric), operations unbounded; 2 mails, 1 failure, 1 blocklist change; 2 handlers, 2 pieces of work and a delete beside them, and every sequence of deletes in a full deployment | holds, 1.3M |
| `people` | `Administered`, `InvitationsSpentOnce`, `OutsidersStayOut`, `KeysAreTrusted`, `ReviewsTakeEffect` | 2 overlapping requests that may die; 2 addresses, 3 user ids, 2 tokens; 2 people, 2 keys; 1 sender, 2 reviews | holds, 1.7M |
| `services` | `SecretsShared`, `LimitsHold`, `NoGaps`, `MailFindsItsWay`, `SummaryIsCurrent`, `RemindersHold` | 2 of everything that overlaps, limits of 1 or 2, 2 or 3 ticks of each clock | holds, 0.8M |
| `client` | `CacheSettles`, `AtRestIsSaved`, `DraftsFollowComposer`, `IosListSettles`, `IosSheetKeepsOne` | 2 texts, 2 draft ids, 3 edits; 2 threads, 2 lists, 3 moves; 4 threads in pages of 1, 3 taps; 1 fault each | holds, 1.5M |
| `evaluations` | `VerdictsAreEarned`, `WireReadsBack`, `ContentIsServed` | every input up to the stated lengths | holds, 269k |
| `mail_store_delete` | `DeletesOnlyItself` | 2 requests for one message of two | **violated** |
| `vapid_keys` | `VapidConverges` | 2 isolates, nobody evicted | **violated** |
| `search` | `FieldsCombine` | a request with a free text and a field | **violated** |

Deadlock is checked in `imap_uid` and `thread_counters`: elsewhere the bounds on requests,
faults and changes let the system stop with everything done.

**Why the bounds are enough to be interesting.** Two sessions, two invocations and two
requests are what the races need: each is between a reader with a stale copy and one
writer. `Chunk = 1` makes two messages two INSERT statements, so that one may fail
without the other. One killed or failed step in each place covers every crash point;
the second fault is what the retry is for and is counted by `MaxAttempts`. A budget and a
batch of one thread make a two-thread mailbox exceed both. Two messages suffice for an
EXPUNGE to renumber another, four threads in pages of one for a page to be the first, an
inner and the last one. Limits of one and two are passed by one check too many. Where a
property is proved, section 5 covers the unbounded case.

**What the histories excuse.** Much of this code is correct only while certain things
do not overlap, and says so nowhere. The properties name these exceptions by a history
variable and hold outside of them; `excused` of `MCScheduledSend`, `swept` of `MailStore`,
`exact` and `safe` of `ThreadCounters`, `past`, `trail`, `ledger`, `notes`, `story`, `excused`,
`told`, `mishaps`, `missed`, `excuses` and `pardons` are of this kind. The comment above a
property lists its exceptions; each was found by TLC and is a behaviour of the code. An
exception ends where the code makes up for it: a recount, a reload, a new reservation.

**The violations** are behaviours of the code that a comment in the repository says
do not happen; each is quoted in `PROJECT.json`.

* `mail_store_delete`: two requests to delete the same message; the second counts after
  the first one's delete, subtracts one for the message it thinks is still there, and
  drops the thread with the remaining message.
* `vapid_keys`: two isolates that find no pair each generate one, write its halves in two
  statements and return their own without reading back.
* `search`: clauses are joined by a space, which FTS5 accepts between plain words only; a
  free text with a column filter is a syntax error.

**Disagreements met while modelling, without a run of their own.**

* Send: after everybody got the mail `cron.ts:289` deletes uploads and draft inside the
  same `try`, so a failure there counts as a failed attempt and the next tick sends again
  (`mail/send.ts:183-186`). The draft is deleted by id (`cron.ts:288`): an edit, cancel or
  new schedule made during the dispatch is lost. Overlapping invocations send twice. With
  PGP one failing recipient leads to a retry to those already served.
* Purge: a stale finalization clears the mark of a later request (`cron.ts:206` against
  `mailbox-purge.ts:12-13`). Deleting a user or a domain cascades to mailboxes and leaves
  their blobs (`domains.ts:101-107` against `mailbox-purge.ts:8-11`).
* Storage: two deletes of different messages of one thread can cascade a message whose
  bytes are then never freed (`swept`). PATCH with `trashed` and `spam` sets both buckets
  (`threads.ts:313-322`).
* Counters: mail that is appended to Trash unseen lights the badge; a move to Spam
  brings trashed mail back without a recount; a message read between its insertion and its
  bump leaves a badge without an unseen message (`api/mailboxes.ts:122`).
* Delivery: rules, member checks and bumps come after the insert, so a failure there
  stores the message again on retry. "Never reject on PGP failure" (`receive.ts:167`): the
  unwrapping of a stored key may throw. Keys are captured before the rejects
  (`receive.ts:229-238`). A redirect's target is loaded without the filter on pending deletion
  (`receive.ts:108`).
* IMAP: a UID reserved by one connection and inserted late sorts into the middle of
  another's view, and `sync` announces only the new length (`session.ts:861`,
  `store.ts:106`). The parts of a `message/rfc822` and a multipart without children are
  numbered differently from what their structure says.
* Services: a poller misses a message that arrives with a smaller id in the cursor's second,
  and what followed a deleted cursor (`svc.ts:79-81`). An administrator may ban himself
  (`users.ts:123`). Rows of `mailboxInvite` are read and never made. `rules.ts` does not validate
  label and folder ids; `labels.ts` PATCH answers a duplicate name with 500.
* Pure parts: the soft signals of `spam.ts` may add up to a rejection (`spam.ts:180`
  against 55-57); a character reference above 0x10FFFF throws (`mime.ts:195`); the preamble of
  a multipart is not skipped (`pgp.ts:608`); "bob@example.com" is searched as one word that
  the index does not have.
* Clients: popping out while the first save is in flight opens an empty window
  (`use-draft-persistence.ts:181-183`). In the iOS app a page in flight while new mail reloads
  the list leaves a gap, a second category while a page loads leaves the spinner on
  (`MailStore.swift:363-372`), and a cancelled autosave or a save beside one leaves a second
  draft (`ComposeModel.swift:247-254`).

## 4. Fairness

* `ImapUidSpace`: weak fairness of each session's steps. A connected session is polled
  (NOOP, or IDLE's three-minute tick) and a statement sent to D1 is answered.
* `ImapSession`: weak fairness of the session's own steps, which are enabled while it
  waits for D1 and, in IDLE, by the poll timer. Nothing is assumed of the client or of
  the hub: events may stay in flight or get lost.
* `ScheduledSend`, `MailboxPurge`, `MailStore`: the cron fires every minute and an awaited
  call settles, one way or the other. Nothing is assumed of authors, readers and senders,
  and no step is assumed to succeed: failures are bounded by `MaxFaults`, since a system
  whose every attempt fails makes no progress. Failing *deliveries* are not bounded,
  except by the code's own `MaxAttempts`.
* All other modules state safety properties and assume no fairness. What a client's list
  or composer comes to is stated for the states in which nothing is outstanding.

## 5. Proofs

The theorems hold for every value of the constants under the named ASSUMEs of the modules,
which say that constants are sets or numbers of the right kind, that names do not collide
and, where something is counted, that a set is finite. Every invariant below was first
checked by TLC as an invariant of the module's run.

| Module | Theorem | Says |
| --- | --- | --- |
| `ImapUidSpaceProofs` | `TypeCorrect`, `NeverReused`, `BelowNext`, `ViewsAgreement` | `UidNeverReused` and that views agree, for any messages, sessions and chunk size |
| | `Refinement` | `ImplementsLedger` |
| `ImapSessionProofs` | `SessionInvariant`, `SessionTypes`, `NumbersAgree`, `Latched` | `SequenceNumbersAgree`, `LatchWakes`, for any messages and any number of changes and failing loads |
| `ScheduledSendProofs` | `TypeCorrect`, `ScheduledRowComplete`, `DroppedWasDelivered` | `ScheduledIsComplete`, `DroppedAfterDelivery`, for any number of invocations and recipients |
| | `NobodyIsServedTwice`, `ReportsStayTrue` | `OnceUnlessExcused`, `ReportsAreTrue`, with and without PGP |
| `MailStoreProofs` | `TypeCorrect`, `RowsKeepTheirBytes`, `StoredBytesAreFreed` | `BytesBehindRows`, `StoredBytesFreed`, for any number of threads, messages and deletes |
| | `PurgeTypeCorrect`, `AddressNeverShared`, `FirstRequestIsDrained` | `AddressExclusive`, `FirstRequestDrains`, for any batch size and budget |
| `ThreadCountersProofs` | `TypeCorrect`, `BadgeIsExact`, `UnreadStaysLit`, `CountIsExact`, `CountersAreExact` | `ArrivalsStayUnread`, `CountersExact`, for any number of writers and messages |
| | `DeliveryInvariant`, `MailIsDelivered` | `Delivered`, for any mails, failures and blocklist changes |
| | `OrganizingInvariant`, `RecordsAlwaysHold` | `RecordsHold`, for any tables to begin with, any number of handlers and any deletes |
| `PeopleProofs` | `AccountsInvariant`, `AdministeredForever`, `InvitationsAreSpentOnce` | `Administered`, `InvitationsSpentOnce` |
| | `AccessInvariant`, `OutsidersAreKeptOut`, `KeysStayTrusted` | `OutsidersStayOut`, `KeysAreTrusted` |
| | `BlockingInvariant`, `ReviewsTakeTheirEffect` | `ReviewsTakeEffect` |
| | `AuthenticatedIsFiled`, `ClassifierOnlyEscalates`, `CodesAreBound`, `CodesHaveReasons` | the parts `RefusesOnlyForged` and `ClassifierNeverAcquits` of `VerdictsAreEarned`, `BoundToSender` and `FoundForAReason` of `ContentIsServed`, for every message, text, level, key and answer |
| `ServicesProofs` | `SecretsInvariant`, `SecretsAreShared` | `SecretsShared` |
| | `PollingLeavesNoGaps` | `NoGaps`, for every page size |
| | `AddressesInvariant`, `MailAlwaysFindsItsWay` | `MailFindsItsWay` |
| | `RemindersInvariant`, `RemindersFireOnce` | `RemindersHold`, an action property |
| | `RateInvariant`, `RulesInvariant`, `AiInvariant`, `LimitsAlwaysHold` | `LimitsHold`, for every limit, window and cap |
| | `ServedSummariesAreCurrent` | `SummaryIsCurrent` |
| `ClientProofs` | `ViewsSettle` | `CacheSettles`, for any number of threads |
| | `ComposerSaves`, `ComposerDrafts` | `AtRestIsSaved`, `DraftsFollowComposer`, for any number of edits and drafts |
| | `ListInvariance`, `ListSettles` | `IosListSettles`, for any number of threads, any page size and any loads, moves and losses |
| | `SheetKeepsOne` | `IosSheetKeepsOne` |

**UID space.** `UidNeverReused` is not inductive: it says nothing of the
UIDs a session has reserved and not inserted. `Inv` adds that two plans never share a
UID (`PlanDistinct`), that a planned UID was never given (`PlanUnused`), and that
everything read or shown was once given (`RowsGiven`, `MappedGiven`, `ViewsGiven`).
`Reserve` preserves it since ranks in a finite set of naturals are distinct and below
its cardinality (`RankBound`, `RankIncreases`, `RankInjective`); `InsertChunk` since it
only moves pairs from plans to the table. The refinement maps a chunk's insertion to
`Assign` and a deletion to `Drop`; `used` is the set of UIDs given.

**IMAP session.** `SessionInv` says of a view, and of what was loaded and not yet announced,
that its UIDs ascend and that every UID given since is above them (`Listing`), which
`loadView` establishes as the ranks of new messages are distinct numbers from `uid_next` on
(`Renumbered`, `Loaded`). In an announcement what was told to be gone comes after what is
still to be told (`Announcing`), so an EXPUNGE leaves the numbers before it alone and moves
those behind it by one (`ExpungeAgrees`). At the end the entries that stayed are the first of the new
view, in their order: counting those before an entry gives its old number without the gone
ones and its new number alike (`OldComesFirst`), so EXISTS and the FETCHes complete the list
(`AnnounceAgrees`). Nothing here is an induction over sequences: positions are compared by the
cardinality of what lies before them. `LatchWakes` needs `UpToDate`: unless an event is latched,
coming or excused, the view, or what was loaded and is about to be the view, is what the
folder holds. Both hold as far as loads are single steps; what overlapping loads do to the order
of UIDs is among the disagreements of section 3.

**Scheduled send.** `ScheduledIsComplete` alone is not inductive because `Retry` and `Revert`
write to the draft from a stale row. `Inv` adds what a selected row was when it was
selected (`RowsSelected`), that versions are bounded by the author's changes
(`RevBounded`), and where in the code copies are out (`CopiesOut`). For the two properties
about duplicates and reports, `OnceInv` says what holds as long as nothing is excused: at
most one invocation is at work (`Alone`); a copy that is out is the only one of its
payload, and the invocation that sent it is on its way to deleting the draft, or the
draft is gone (`OneCopy`); no error is reported meanwhile (`NothingReported`); the Sent
folder has a row for the running attempt and for nothing else (`Rows`). What ends an
invocation early ends it before anybody was served, or sets `excused`.

**Mail store.** `BytesBehindRows` is strengthened to `Behind` (every existing row's key is in
R2 or held by a delete that has yet to drop the row), which needs that a row is
inserted after its blob (`Written`), that held keys were written (`HeldIsWritten`) and
that the rows behind them are still reached by the delete's own selection
(`HeldIsReached`). `StoredBytesFreed` needs `Collected`: whatever rows a delete is about to
drop, at each of its steps it has collected, or has already freed, what was completely stored
there. A message that the delete of another one took for gone is in `swept`; the
theorem shows that nothing else loses a key.

**Purge.** `AddressExclusive` needs that a stale finalization can only move
`pendingPurge` of a row that still exists; `PurgeTypeOK` needs `BatchBounded`. `FirstInv`
carries, while at most one request was made, that what is condemned and still there
belongs to the mailbox and that an invocation at its finalization has seen it empty
of those (`Drained`).

**Thread counters.** The properties speak of moments at which nobody is at work, so the
invariants say what holds in between. `BadgeInv`: while the history is exact, either all
writers are atomic flag changes and the badge is right or a recount that will make it right is
still to come, or there is one other writer, and the badge, what it holds and what it will add
make up the number of unseen messages. `LitInv` does the same for "unread mail lights the badge",
with any number of arrivals among the harmless writers, and `CountInv` for `msgCount`.

**Deliveries.** Per mail, every copy is that of an attempt that failed late or of the one under
way (`Accounted`); a sender that stayed on the blocklist does not get past its check
(`Checked`); a conversation that had mail is not taken for a new one (`Remembers`); what was not
refused may be stored, and people are called for it only if it is wanted (`Fits`).

**Organizing.** References go down: every table has a level, what a row refers to is on a lower
one, and there are five (`SchemaIsGood`, checked table by table). So four steps of `Below` leave
nothing out that hangs from what is taken (`CascadeIsClosed`), nothing is taken that need not be
(`CascadeIsLeast`), and what is left keeps its references (`WhatStays`). A delete after another
takes what one delete of both would have taken and clears the same columns (`CascadesAddUp`),
which is `DeletesReachBelow`. The other parts of `RecordsHold` are not inductive: a handler
writes what it found out earlier. `OrganizingInv` says of the rows that they have their columns,
that ids are unique and nothing dangles, and that labels, filing and rules fit (`Tidy`);
of each waiting statement that it would be right if it ran now (`Timely`); and of the ids that
are still to be drawn, or drawn and not yet written, that no row and no waiting statement but
the one that has it knows them (`IdsAreNew`). That is what makes the early check good enough: a
row that a statement knows can be renamed or go, but no other row comes to have its id
(`TimelyStays`). The run checks the invariant's parts of the rows at the start (`OrganizingInit`);
the whole was an invariant of TLC before it was proved.

**People.** In `Accounts` the installation claims the empty table and is alone with its user
until that one can sign in (`InstallsAlone`, `SomebodyThere`), whoever acts as an administrator
had signed in (`AdminsSignedIn`), and acceptances hold tokens that were drawn and of
which every row knows whether they made their account (`TokensDrawn`,
`AcceptancesKnowTheirs`, `SpentIsUsed`). In `MailboxAccess` nobody who was put out is invited or
selected to join (`OutsidersUninvited`), a member with an invitation on file is about to lose
it (`InvitedMembersAreKnown`), the members were shed before a mailbox is made personal
(`MigratesUnshared`), and a mode that was let through saw a key (`ModesSawKey`). In `Blocking`
a promoted sender is on the list or was taken off it since (`PromotedIsTaken`).

**Services.** A secret's row is what every isolate is handed, and unless two isolates raced the
pair is completed from its own first half (`RowsAreFinal`, `PairIsWhole`). The cursor of a
poller is a message it was given (`CursorWasSeen`). A handover puts its redirect in place
before it marks the mailbox, and a delivery holds a mailbox that was live when it was looked
up (`HandoversKeepRedirects`, `RoutedToLive`). An invocation holds reminders that were due and
marks them before it notifies (`RowsTellStories`, `HoldersKnow`, `NotifiedIsOver`).

**Limits.** The limiter's row tells what was logged in its window, and of the windows before
one at most reaches into the last `Window` ticks (`RowTellsLog`), which bounds a burst by twice
the limit. A minter that passed the count leaves room for its row (`RoomForEach`). A run of
rule sends has counted what the last hour saw, as long as runs of its mailbox did not
overlap (`Accounted`). Calls that overlap are noted for the months they are charged in
(`OverlapsNoted`); in the others the meter is exact and a call in flight found tokens left
(`MeterExact`, `RoomWasLeft`). A summary that was gathered of a thread nothing was removed from
is of messages that are there, at least as many as were counted (`GatheredIsThere`).

**Clients.** `CacheSettles`: a query that differs from the server is marked invalid, or an event,
the coalescer's timer or a mutation is outstanding that will mark it, and the same is true of
the answer on its way to it (`Outstanding`, `Current`). The composer: saves are serial
(`Serial`); unless a request failed there is one draft, which the form or an answer knows
(`OneDraft`); once sent or discarded none is left and no save can make another (`Ghostless`);
what is popped out or scheduled is what the form showed (`Carried`); the last save follows the
form (`Following`), what the form takes to be saved is (`Faithful`), and so are the requests
that outlive the page (`Outlived`). The list of the iOS app: `Descending` and `Spared` tell
positions by the number of those before them, so what they return is proved without induction
over sequences (`DescendingIs`, `SparedIs`, `Joined`), and a page is all there is from its next
cursor to below the one it was asked with (`PageIs`). `ListInv`: an answer that missed nothing
is still that (`AnswerRight`); unless a reload is due or on its way, or the list is excused, the
rows are what the server has down to the cursor, but for threads that a move took from the list
and has yet to move on the server (`RowsRight`, `Taken`); and a spinner that runs has a load
that will stop it, unless fills collided (`SpinnersOwned`). A page of the list before cannot
land as this list's, since its place or its cursor tells it apart (`CarriedOn`). The sheet of the iOS app: who asks for what and what it
stands in the way of (`Asked`), a draft is only deleted once the sheet is about to close
(`Closing`), it knows of its one draft unless it has lost count (`Single`), and the last change
is written or going to be, and lasts (`Written`, `Lasting`, over the number of the last
change).

**What a message is taken for.** Parts of the evaluations need no induction over their input.
A refusal of a name or a relay asks whether the message passed DMARC before anything else
(`NamesSpare`), so sums and lookups need not be opened; the classifier's answer meets the
verdict in one place (`RefineRank`). Of the codes found in a text the best has the greatest
score (`BestIs`, over the least element of a set of naturals, `MinIs`), and one that is better
at something and worse at nothing would be found too and score higher (`BetterScores`). The
last is true only as far as a distance counts, twice the window: of two codes on lines of their
own, both further from every code word than that, the first is offered, whichever is nearer.
`CodesHaveReasons` takes for granted that the places in a text are numbers, which is induction
over a fold; `evaluations` checks it (`Measured`).

**Only model-checked.**

* Liveness (`ViewsConverge`, `IdleCatchesUp`, `DueSettles`, `StaleTrashLeaves`,
  `PurgeEnds`): fairness and ENABLED are beyond the prover.
* The other pure parts (`evaluations`): recursive definitions and folds over their inputs.
  Of `VerdictsAreEarned` these are what a lost or a single listing comes to and the rules; of
  `ContentIsServed` all but the codes offered; `WireReadsBack` as a whole.

## 6. Not modelled

Listed with reasons in `PROJECT.json`: rendering and markup, cryptography, read-only
queries and statistics, the transport of pushes, the hub's subscriber table, DNS checks, the
sessions of the auth library. Within the modelled parts the following are abstracted: times
(a draft is future or due, trash is fresh or stale), addresses and contents, flags
but those another step reads, which permission bit a route asks for, notifications.
UIDVALIDITY, which is the second of a folder row's creation, is not part of the UID
space: the row is created once and lives as long as the mailbox. Modules that share a run
are not composed with each other; the effects of one on another (a deleted user's
mailbox, a stored message's counters) are inputs of the other.

## 7. Plan

Thread participants and `lastMsgAt` beside the counters; IMAP login and folder
management; calendars and quoting among the formats.
