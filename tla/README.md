# A TLA+ model of ElecPostal

ElecPostal is a mail service: workspaces own mailboxes, mail comes in by SMTP and
through an HTTP import, is read and filed by an HTTP app and by IMAP, POP3 and JMAP
clients, and goes out through a relay. It is one Go program that can run as several
processes. They share a PostgreSQL database, a NATS JetStream work queue, the file
store DysonFS and Redis. Nothing else keeps state, so everything that can go wrong
between two clients, two processes or two steps of one request goes wrong in the
database, the queue or the files.

This directory holds TLA+ modules of the parts where that matters most, TLC
configurations that check them on small instances, and proofs, checked by TLAPS,
that hold for every value of the constants. `PROJECT.json` lists the components,
the runs, which source lines each definition stands for, the known hazards with the
properties about them, and the theorems. Paths below are relative to
`src/internal/` unless they start with `src/`.

## 1. The system

### Parts, their state and their operations

| Part | Code | State | Operations | What makes it correct |
|---|---|---|---|---|
| Inbound delivery | `smtp/queue.go`, `smtp/server.go`, `service/email.go` (ReceiveEmail, StageIncomingAttachments) | the stream with its pending jobs, staged DysonFS files, rows of `emails` | DATA, Enqueue, handle, deliverJob, ACK, NAK | what was answered with 250 reaches every mailbox, once; a job is ACKed only then; files live as long as what names them |
| Folder store | `service/protocol_store.go`, `service/email.go` (moves, deletes, purges) | `emails.folder`, `mail_folders` (next UID, highest mod-sequence), `folder_messages` (UID, mod-sequence, flags) | arrival, APPEND, MOVE, COPY, STORE, EXPUNGE, HTTP moves, EmptyTrash, permanent deletes | both sides of the folder model agree; UIDs are never reused; every change shows in the mod-sequences; only Trash is emptied |
| Outbound mail | `service/email.go` (SendEmail, ResendEmail, DeliverScheduledEmails, send limits), `smtp/server.go` (submit) | `delivery_status` and `delivery_attempts` of a message, `mail_send_usages` | send, schedule, resend, submit, the schedulers, purging old counters | one relay call per request, limits hold, scheduled mail is tried, attempts are recorded |
| Mailbox quota and archive | `service/email.go`, `grpcsvc/quota.go` | `archived_at`, sizes | the quota pass after each send, delivery and import, the purge of archived mail | the newest mail is kept, and what passes have accounted for fits |
| Attachment files | `service/email.go`, `service/jmap_helpers.go`, `filesystem/client.go` | `attachments`, files in DysonFS | references, copies, deleteUnreferencedAttachments | a file lives as long as a message names it, and no longer |
| JMAP folders | `jmap/handler.go`, `service/protocol_store.go` | `mail_folders`; a state string is a sum of mod-sequences | Mailbox/set create, update, destroy | destroying a folder loses no mail that was there |
| IMAP, POP3, JMAP mail | `imap/server.go`, `pop3/server.go`, `jmap/handler.go` | the listing of a session or call | the commands, on the folder store | a session acts on the messages it has shown |
| Relays and local routing | `relay/`, `service/email.go`, `smtp/server.go` | local copies, what providers have accepted | Send, DeliverLocal, resend, submission | "sent" means every recipient |
| Import, threading | `service/import.go`, `service/email.go` | what a batch has seen, thread IDs | ImportEmails, findThreadByMessageID | no duplicate, no loss that is not reported |
| Keywords and labels | `service/keywords.go` | `email_labels`, mappings | keyword changes of protocol clients, label CRUD | all spellings of a tag are one |
| Spam scoring and training | `spam/`, `service/spam.go` | token counts, markers and totals in Redis | Classify, Learn, Unlearn | counts stay counts |
| Sender authentication | `senderauth/` | a cache of TXT records | SPF, DKIM, DMARC over shared lookups | the cache never says what DNS has not |
| Domains, aliases, forwarding | `service/email.go`, `relay/ses.go`, `relay/dns.go` | domain, alias and rule rows, provider identities | create, refresh, delete; forwarding of arriving mail | nothing dangles, forwarding ends |
| Application | `app/app.go`, `src/cmd/main.go` | listeners, tickers, what is in hand | start, stop, minute and daily work | work ends before what it uses is closed |
| Mail credentials | `service/mail_credentials.go` | credential rows | create, rotate, revoke, authenticate | a revoked one is not accepted |
| Notifications, insight, summaries, contacts | `service/`, `ring/`, `personality/`, `realtime/`, `mailintel/`, `mailtext/` | caches | best-effort calls after a commit | mail does not depend on them |

### How they interact

- SMTP DATA stages attachments in DysonFS, then publishes to JetStream; the PubAck
  is what 250 waits for. A subscription per process runs `handle`, which calls
  `ReceiveEmail` once per mailbox: one transaction with the message, its recipients,
  attachments and folder row, and after it the quota pass and notifications.
- The HTTP app lists by `emails.folder`. IMAP, POP3 and JMAP list by
  `folder_messages`. Operations of either side write both, in one transaction, at
  PostgreSQL's default isolation level, Read Committed. UIDs and mod-sequences come
  from `mail_folders` rows that are locked with `SELECT ... FOR UPDATE`.
- Sending stores the message and charges the workspace's and the mailbox's counters
  in one transaction, calls the relay outside any transaction, and writes the outcome
  in another. A ticker in each process does the same for scheduled mail, which it
  claims with a conditional UPDATE.
- EXPUNGE and JMAP destroy are moves to Trash outside Trash, and purges in it; POP3
  DELE is the move.
- The relay is behind a router that serves domains hosted here by storing copies.
- Quota passes, spam training, forwarding and the deletion of attachment files come
  after the commit that calls for them, outside its transaction.
- The process stops its servers one after the other, then the queue, then the clients
  of other services.

### What is hard

Redelivery of jobs whose first half is done; a publish whose acknowledgement is
lost; steps of two transactions in orders that lock some rows and not others; reads
before a transaction that the transaction trusts; counters read and written back;
decisions taken on a listing, a count or a sum that is no longer true; several
schedulers; crashes between the relay call and its record; counters whose
period ends while they are in use. `PROJECT.json` lists each of these at its line.

## 2. Modules

| Module | What it is |
|---|---|
| `MailEnvelope` | constants of inbound mail: jobs, envelopes, Message-IDs |
| `IntakeContract` | abstract: what inbound SMTP promises |
| `Delivery` | DATA, JetStream, the handlers and their faults; implements `IntakeContract` |
| `DeliveryLiveness` | `Delivery` with fairness, and interruptions that end |
| `FolderStore` | both sides of the folder model, a transaction per action |
| `FolderRows` | the same transactions statement by statement, with row locks |
| `MailClients` | IMAP, POP3 and JMAP mail on top of `FolderStore`, whose transactions they call |
| `JmapMailboxes` | Mailbox/set while mail is filed |
| `Outbound` | sending, scheduling, resending, submission, send limits |
| `Relaying` | the way of an outgoing message to each recipient |
| `MailQuota` | quota passes, archiving and the purge of archived mail |
| `AttachmentFiles` | attachment rows, shared files and their deletion |
| `MailImport` | a batch of imported messages, with the choice of conversations |
| `MailLabels` | tags as protocol clients and the HTTP app change them |
| `SpamTraining` | what moves teach the spam filter, Redis call by Redis call |
| `SenderAuth` | SPF, DKIM and DMARC over the shared cache of TXT records |
| `MailDirectory` | domains, aliases, forwarding rules, and forwarding |
| `Lifecycle` | Start and Stop of the process, with what runs meanwhile |
| `MC...` | instances for TLC; `MCServices` holds those of the ten modules from `Relaying` down and `JmapMailboxes` |
| `DeliveryProofs`, `FolderStoreProofs`, `FolderRowsProofs`, `MailClientsProofs`, `OutboundProofs` | theorems about the module of that name, and their proofs |
| `MailboxServicesProofs` | the same for `AttachmentFiles`, `JmapMailboxes`, `MailQuota`, `MailLabels` and `MailImport` |
| `ServerServicesProofs` | the same for `SenderAuth`, `SpamTraining`, `MailDirectory`, `Lifecycle` and `Relaying` |
| `ServicesProofs` | the theorems of these two for the ten modules side by side, as `MCServices` has them |

Definitions keep the source's names where there is one. Definitions that begin with
a comment "Mutant:" are plausible bugs; the specifications do not use them. Each
property of a run is shown to fail when one of them replaces the definition before
which it stands.

### Delivery

State: `intake[j]` is how far the DATA transaction of job `j` has come, `staged` is
`job.AttachmentReferences`, `files` the DysonFS files. `stream`, `pending`, `pushed`
and `acked` are JetStream's: the stored jobs, those delivered at least once, those
on their way to a subscriber, those acknowledged. `running[h]` and `seen[h]` are the
job of handler `h` and the set `unique` of `deliverJob`; `storing[h]` is the mailbox
whose copy is committed while the quota pass is still to come. `copies[j][m]` counts
the rows that job `j` wrote in mailbox `m`, up to `MaxCopies`.

| Code | Actions |
|---|---|
| `Data`, `Enqueue` | `Data`, `StageAttachments` per mailbox, `StagingFails`, `Publish`, `PublishFails`, `PublishUnconfirmed`, `AcceptData`, `IntakeCrash` |
| JetStream | `Push` within `MaxAckPending`, `Redeliver` after a NAK's delay or AckWait |
| `handle`, `deliverJob`, `ReceiveEmail` | `Take`, `StoreCopy`, `StoreConflicts` (unique index), `StoreFails`, `FinishCopy`, `QuotaFails`, `Ack`, `HandlerCrash` |

`RejectIntake` leaves the staged files where they are: `deleteStagedAttachments` asks the
backend for a method that `EmailService` does not have. `Faults` selects the faults that
may happen. `DeliveryLiveness` adds `calm`: until it is set the walks of the handlers
(`Walk`) may be interrupted (`Interrupt`) at any point and any number of times, so jobs
with copies in some of their mailboxes are the rule there and not the exception.

### FolderStore and FolderRows

`folder[e]` is `emails.folder`; `uid[f][e]`, `modSeq[f][e]` and `deleted[f]` are the
rows of `folder_messages`; `nextUID` and `highestModSeq` the counters of
`mail_folders`. In `FolderStore` a transaction is one action. `listed[s]` is what
EmptyTrash or PurgeProtocolMessages has read before its transaction, which is why
they are two actions. Folders outside `DefaultFolders` are those that JMAP made and
the HTTP app cannot name.

`FolderStore` takes for granted that transactions do not disturb each other, which
Read Committed does not give for nothing. `FolderRows` checks what they do to each
other: `tx[s]` is the transaction of session `s`, with the statement it has come to
(`step`) and what it has read so far, `held[s]` its row locks, and

| Transaction | Statements |
|---|---|
| MOVE | `BeginTransfer` (locks source), `LockTarget`, `ReadRow` (no lock), `InsertRow`, `LockRow` (DELETE), `LockEmail`, `CommitMove` |
| COPY | `BeginTransfer`, `LockTarget`, `ReadRow`, `InsertRow`, `CommitCopy` |
| STORE | `BeginFlags`, `LockTarget`, `ReadRow`, `LockRow` (Save), `CommitFlags` |
| HTTP move | `BeginHttp` (locks the message), `LockTarget`, `FindRows`/`LockRows` (FOR UPDATE), `LockLosers`, `InsertRow`, `CommitHttp` |
| purge | `BeginPurge` (reads memberships), `FindRows`/`LockRows` (DELETE), `LockLosers`, `LockEmail`, `CommitPurge` |

A statement that changes or locks rows is two steps where the difference shows:
what it finds when it begins, and what is left of it when it has the locks. `Abort`
is a rollback at any statement, be it a deadlock, a taken key or a cancelled request.
Each transaction is about one message; `FolderStore` has those about several. A commit
makes all changes of its transaction, which nobody else could see before. `given`,
`copied` and `late` are history: the UIDs a message has had, the messages that were
copied, and the rows that came into a folder after a purge of their message had looked.

`Atomic` is `FolderStore` again, over the tables of `FolderRows`, and
`TransactionsAreAtomic` says what ties the two modules together: each commit is the one
step that `FolderStore` has for that transaction, taken on the tables as they are when it
commits. Three things escape that, and `Overtaken` names them: a transaction whose
message was purged meanwhile, a purge during which rows of its message came or went, and
an HTTP move that did not find a row which a COPY puts into a third folder. The last was
met when the run was given a third folder; with two, the copy and the move ask for the
same key and one of them rolls back.

### MailClients

`pop[c]` is a POP3 session: the listing taken at PASS and the marks of DELE; `Quit`
moves the messages at the marked places to Trash, and ignores the error if that
fails. `request[c]` is an IMAP command or a JMAP call between two of its
transactions: what it has read (`ids`, `from`) and what it has yet to do (`op`). An
IMAP command is `AskTransfer`, `AskFlags` or `AskExpunge` (the listing), then
`Transfer`, `Flag` or `FileIntoTrash`/`NarrowPurge`/`CarryOutPurge`. Email/set is
`AskPatch`, `ReplaceFlags` and `Relocate`, or `AskDestroy` and the move or purge;
Email/import `AskImport`, `FileImport`, `FlagImport`; an upload `Upload` and
`NameUpload`; Email/copy is one transaction. `GiveUp` is an error at any point.

### Relaying and Outbound

In `Outbound`, `status` and `attempts` are the message's columns, `usage` the counters
`(scope, day or month, period start)`. `work[w]` is what request or scheduler `w` is
at: stored and before the quota pass, before local delivery, a resend that has read
its row, ready for the relay, answered by the relay. `reservedOn`, `resends` and
`calls` are history variables that the properties need. The calendar is a number of
days with `DaysPerMonth` days a month. `Claim` and `Send` charge the day on which
they commit; the code reads the clock just before.

`Outbound` has the relay call as one step. `Relaying` takes it apart: an `attempt` has
domains `todo`, and goes with each of them to its own copies (`RouteLocal`, then
`StoreCopy`, `CopyExists`, `NoCopy` or `CopyKeptButFails` per address), into the list
for SES (`RouteToProvider`, and `AskProvider` at the end) or to the domain's hosts one
after the other (`RouteDirect`, `HostAccepts`, `HostFails`, `NoHostLeft`). A
submission stores its local copies before it calls the relay; a resend starts over.
`named` says whether an attempt relays a Message-ID: SendEmail relays the one of its
client, if there is one (`ClientNamed`), while resends and the scheduler relay the one of
the row. Only copies that were stored with it are `indexed`; the sender's own Sent row
always is.

### The other modules

| Module | State | Actions and the code they stand for |
|---|---|---|
| `MailQuota` | `mail[m]`, `pass[p]`: what a pass has read and done, `owed`: stored messages that no committed pass has taken into account | `StoreCounted`, then `AddUp`, `FindOldest`, `Archive` row by row, `CommitPass` (enforceWorkspaceMailboxQuota); `StoreUncounted` (append, JMAP copy); `PurgeMessage` |
| `AttachmentFiles` | `letter`, `names`, `onDisk`, what purges have still `todo` and have `doomed` | `ResolveReferences`, `ReadSource`, `Save`; `PurgeLetters`, `CountReferences`, `DeleteFile`, with failures and `PurgerDies` |
| `SpamTraining` | `folder`, `marker`, `tokens`, `learns`, `mover[v]` | `ReadFolder`, `CommitMove` (MoveEmail), then `Mark`, `Count` per batch, `Check`, `Floor`, `Unmark` (Learn, Unlearn, Incr), `RedisFails` |
| `MailImport` | the `batch`, `item` and `step` in it, `seen`, threads, `report`, `stored` | `CheckDuplicate`, `CheckNew`, `ResolveAttachments`, `Chain`, `Insert`, `InsertDuplicate`, `InsertFails`, `ItemFails`; `ReceiveMail` meanwhile |
| `MailLabels` | `label`, `name`, `on[m]`, `tag[c]`: a transaction | `SetKeyword`, `SetEmailLabel`, `Resolve`, `AttachFound`, `AttachNew`, `Drop`, `CommitTag`, `AbortTag`, `CreateLabel`, `DeleteLabel` |
| `JmapMailboxes` | `row`, `called`, `high`, `filed`, `device[d]`: what a request has read | `AskCreate`/`InsertFolder`, `AskUpdate`/`WriteUpdate`, `AskDestroy`/`CountMessages`/`DeleteFolder`; `FileMail`, `TakeOut` |
| `SenderAuth` | `cache`, `order`, `check[c]`; `dns` and `clock` outside | `LookUp`, `AskDns`, `StoreAnswer` (lookupTXT), `FollowInclude`, `JudgeSpf`, `TryKey`, `JudgeDkim`, `JudgeDmarc`, `DnsFails`, `OutOfTime`; `Publish`, `Expire`, `Tick` |
| `MailDirectory` | `identity`, `domain`, `alias`, `rule`, `asking[c]`, `arriving` | `AskDomain`, `Provision`, `InsertDomain`; `AskRefresh`, `GetIdentity`, `SaveDomain`; `AskDeleteDomain`, `CountAliases`, `DeleteIdentity`, `DeleteDomain`; the same for aliases and rules; `Receive`, `Forward`, `Leave` |
| `Lifecycle` | `phase`, `steps` left, servers `taking` work, `shut`, `doing[w]` | `StartServer`, `Serve`, `StartFails`, `Signal`, `BeginStop`, `CloseStep`, `Exit`; `BeginWork`, `JoinGroup` (wg.Add), `OpenTransaction`, `CloseTransaction`, `Finish` |

## 3. What TLC checks

| Run | Instance | Shows |
|---|---|---|
| `delivery_all_faults` | 3 jobs, 2 mailboxes, 2 handlers, all faults | `AckedMeansDelivered`, `AcceptedIsHeld`, `OneCopyPerMessage`, `HeldMailHasItsFiles`, and that `Delivery` implements `IntakeContract` |
| `delivery_liveness` | the same jobs, 2 handlers, 2 places for unacknowledged jobs, interruptions at any point | `AcceptedJobsFinish` |
| `folder_store` | 2 messages, INBOX, Trash and a JMAP folder, 1 request that deletes for good | `UidsAreNeverReused`, `NoMessageDropsOut` |
| `rows_locks` | 2 messages, 3 folders, 2 sessions, all transactions | `UidsNameOneMessage`, `SidesAgree`, `ChangesAreVisible`, `TransactionsAreAtomic` |
| `mail_clients` | 2 messages, INBOX and Trash, one POP3 session, one IMAP or JMAP client, HTTP and SMTP beside them | `UploadNamesItsMessage`, `QuitTakesMarkedOnly` |
| `outbound_claims` | 1 immediate and 1 scheduled message, 2 requests, 2 schedulers, a resend, all faults | `SentOncePerRequest`, `PaidWhenDelivered` |
| `outbound_limits` | 3 messages of 2 mailboxes, 2 schedulers, 5 days | `CountersAgree`, `LimitsHold`, `ScheduledMailIsTried` |
| `services` | the parts that no other module acts on, one per behaviour | for quota `MailFitsThePlan`, `NewestAreRetained`; for files `UnusedFilesAreCollected`, `SharedFilesSurvive`; for relays `SentMeansEveryone`; for training `CountsFloorAtZero`; for import `EveryLossIsReported`; for tags `RemovedKeywordsAreGone`; for JMAP folders `DestroyTakesLateMailOnly`; for sender authentication `CacheIsSound`; for the directory `NothingDangles`, `ForwardingStops`; for the process `OrderlyStop` |

Several of these properties name the gap that the code leaves open and say that
nothing else is lost: a folder that is destroyed takes mail filed after its count, a
file is missed only by a message stored while it was being deleted, an alias dangles
only if it was inserted after the count. `AcceptedJobsFinish` is the most important of
them. A job whose first mailbox stores the message already, be it from a walk of its own
that was interrupted after that commit or from another transmission, comes back for ever
(`Stuck`), and as many of those as `MaxAckPending` has places stop the queue (`Clogged`).
The run shows that there is no third case: a job that is not stuck itself goes through
all its mailboxes, whatever failed before, and one stuck job does not hold up the others.

Four more runs end in a counterexample, because they check what a comment or the
documentation says and the code does not do:

| Run | Promise | What happens |
|---|---|---|
| `folder_stale_purge` | EmptyTrash removes what is in Trash; stale IDs are ignored (`service/email.go:2530`, `service/protocol_store.go:462-463`) | a message restored between the read and the transaction is deleted for good |
| `relay_resend` | a failed message can be retried (`src/docs/API_DOCS.md:594-597`) | a sender who is among the recipients has the Sent row in the mailbox; the first attempt gets past it, without a Message-ID, and each resend, which has the row's, fails there |
| `jmap_rename` | counters advance under a row lock (`database/models.go:317-318`) | a rename writes back the mod-sequence it read before mail was filed, plus one |
| `shutdown_stuck` | Stop shuts down gracefully (`app/app.go:427`) | a POP3 session, or a health Watch stream, that its client leaves open keeps Stop waiting for ever |

Other disagreements were met that have no run of their own:

- A redelivered job meets its own copy at the unique index and returns there each time,
  so later mailboxes of the envelope never get the message (`smtp/queue.go:139-141`,
  `257`); what a refused intake has staged is never deleted (`smtp/queue.go:282-287`).
- A message filed into Trash by EXPUNGE keeps `\Deleted`, and the next EXPUNGE there
  destroys it (`service/protocol_store.go:446-448`); a purge leaves the row that a move
  inserts meanwhile (`service/email.go:2570-2573`); an HTTP move leaves the row that a
  COPY inserts meanwhile (`service/protocol_store.go:839-840`); a move into a JMAP folder leaves
  `emails.folder` behind (`src/docs/API_DOCS.md:643-646`); COPY gives a message two
  folders (`:795`).
- Of two resends that overlap one attempt is lost (`:595`); a resend is not counted
  (`src/README.md:58`); a failed quota pass leaves a charged message pending; the first
  attempt is relayed without the Message-ID that was stored for it
  (`service/email.go:1461-1462`).
- POP3 QUIT answers `+OK` whatever its move returned (`pop3/server.go:35-36`).
- A training marker does not name its class, so a message moved into Spam a second time
  trains nothing (`service/spam.go:151-153`); `Incr` counts a message once per batch of
  tokens (`spam/store.go:13-14`).
- A mail relayed with a Message-ID to two addresses of one mailbox meets its own first
  copy; a message that one resend stored copies of stops the next resend; an identity
  that the provider made and whose row was not written is refused at the next try.

### Bounds

- Delivery: job 1 goes to both mailboxes, one of them twice, and to an address that
  did not resolve; job 2 is the same message sent again; job 3 has no Message-ID.
  Two handlers are enough for a redelivery that overlaps the first delivery.
  `MaxAckPending = 1` makes the jobs wait for each other. `MaxCopies = 2` tells one
  copy from more; the counter stops there, so redelivery without end is finite. The
  liveness run has the same jobs, and two places in `MaxAckPending`, so that one stuck job
  leaves a place and two do not. It has no attachments and none of the faults of DATA,
  which end before a job is accepted, and no slow handlers: those only add deliveries of a
  job that is being handled, which the safety run has.
- FolderStore: `MaxChanges = 6` bounds the mod-sequences all folders count together;
  six are an arrival, a few moves there and back, a copy and a purge. Messages, which
  are interchangeable, are a symmetry set.
- FolderRows: two sessions (every conflict of two transactions), two messages (a UID
  that is given twice needs them), three folders (a message comes into one while it
  moves between the others) and `MaxChanges = 4`, which lets each of two transactions
  follow an arrival and change a folder or two. Three sessions with one message and
  `MaxChanges = 3` and two folders with `MaxChanges = 5` were checked as well.
- MailClients: one session of each kind, since the others that interfere, the HTTP app
  and deliveries, keep nothing between their steps; five changes are two arrivals, a
  move away, one back and QUIT's.
- Outbound: five days of two-day months cross two month boundaries, and `Retention` is
  as short as it may be, so a purge meets every counter at its edge. One message a day,
  two a month for the workspace and one a month for mailbox `a` make each kind of limit
  the one that refuses. Resends are bounded by `MaxResends`.
- Services: two requests of each kind throughout, which are interchangeable, as are the
  messages or addresses they are about where there are two. The rest is as small as
  lets the case happen: quota, three messages of sizes 5, 1 and 1 where 3 fit beside
  the 2 bytes of files, so that one message alone is too large; relays, a message to a
  hosted and an outside address, to which the client gave a Message-ID, and one to two
  hosted addresses, one of them the sender's, two hosts per domain;
  training, two batches and three moves of one message; import, three items with two
  Message-IDs of which one also arrives; tags, two rows and two keywords of which IMAP
  can carry one; JMAP folders, two that differ in case alone and mod-sequences up to 3;
  sender authentication, two names in a cache of one, answers valid for 2 and 1 ticks,
  one change of DNS; directory, one domain row, two mailboxes, two aliases, two rules and one receipt, since
  receipts have nothing to do with each other;
  process, one handler, session, callback or ticker of each kind that Stop treats in its
  own way. `part` says which module a behaviour is about; their variables are disjoint,
  so one behaviour for all of them would only multiply the states.

Deadlock is not checked: mail that was delivered, a bound that is reached, a calendar
that ends and a process that has exited are proper ends of these instances.

### Fairness

- `DeliveryLiveness!Fairness`: JetStream keeps pushing and redelivering, processes go on
  with the callback that runs and with waiting for a PubAck (weak fairness), and each
  pushed job gets its turn, even if others are pushed again and again (strong fairness of
  `Take` per job, since a subscription hands out its messages in the order of their
  arrival). The failures of the database and of processes end at some time
  (`CalmDown`): a database that fails at every try delivers nothing. No fairness is
  assumed of clients or of a fault.
- `Outbound!Fairness`: days pass, the ticker of each scheduler fires, a worker that has
  begun goes on; all weak. Crashes and failed writes are left out of the run, since
  the code gives nothing after them: a message they strike stays pending.
- `LifecycleFairness`: Start and Stop go on, transactions close and handlers end, all
  weak. Not assumed are a signal, new work, and the end of a POP3 session or Watch
  stream: those are up to clients.

## 4. What is proved

TLAPS checks these for all values of the constants that satisfy the modules'
assumptions: `EnvelopeAssumption`, `DeliveryAssumption`, `FolderAssumption`,
`RowsAssumption`, `ClientsAssumption`, `OutboundAssumption`, `RelayingAssumption`,
`MailboxesAssumption`, `QuotaAssumption`, `LabelsAssumption`, `ImportAssumption`,
`AuthAssumption`, `TrainingAssumption`, `DirectoryAssumption`, `KindAssumption`.
They say that sets are finite or not empty, that bounds are numbers, that markers such
as `NoRecord` are not among the values they stand beside, and that the map constants
have their types. TLC evaluates them on every run.

| Module | Theorem | States |
|---|---|---|
| `DeliveryProofs` | `TypeCorrect`, `AckedJobsAreDelivered`, `AcceptedJobsAreHeld`, `MailboxesStoreOnce`, `HeldMailAlwaysHasItsFiles` | the safety invariants of the pipeline, for any envelopes, handlers and faults |
| | `DeliveryImplementsContract` | every step of `Delivery` is a step of `IntakeContract` or none |
| `FolderStoreProofs` | `TypeCorrect`, `UidsAlwaysSound`, `SidesAlwaysAgree` | invariants, for any number of messages, folders and requests |
| | `UidsGivenOutOnce`, `ChangesAlwaysVisible`, `NoMessageEverDropsOut` | action properties |
| `FolderRowsProofs` | `TypeCorrect`, `UidsNameOneMessageAlways`, `SidesAlwaysAgree`, `ChangesAreVisibleAlways` | three invariants and an action property, for any number of sessions, messages and folders and any interleaving of their statements |
| | `TransactionsAlwaysAtomic` | serializability: each commit is a step of `FolderStore`, but for what `Overtaken` names |
| `MailClientsProofs` | `UploadsNameTheirMessages`, `QuitsTakeMarkedOnly`, `ClientsTypeCorrect` | an upload names its message, QUIT takes marked messages only, marks stay within the listing |
| `OutboundProofs` | `TypeCorrect`, `RelayedOncePerRequest`, `AlwaysPaidWhenDelivered`, `CountersAlwaysAgree`, `LimitsAlwaysHold` | invariants, for any number of schedulers, requests, messages, days and limits |
| `MailboxServicesProofs` | `FilesTypeCorrect`, `AbandonedFilesAreAlwaysCollected`, `SharedFilesAlwaysSurvive` | invariants, for any messages, files and purges |
| | `MailboxesTypeCorrect`, `DestroyAlwaysTakesLateMailOnly` | invariants, for any folders, messages and requests |
| | `QuotaTypeCorrect`, `QuotaIsKept`, `OldestGoFirst` | two invariants and an action property, for any messages of any sizes and any number of passes |
| | `LabelsTypeCorrect`, `KeywordsGo` | an invariant and an action property, for any tags, keywords, messages and clients |
| | `ImportTypeCorrect`, `LossesAreReported` | invariants, for a batch of any length |
| `ServerServicesProofs` | `AuthTypeCorrect`, `CacheStaysSound` | invariants, for any names, answers, checks and size of the cache |
| | `TrainingTypeCorrect`, `CountsFloor` | invariants, for any messages, requests and batches |
| | `DirectoryTypeCorrect`, `NothingIsLeftDangling`, `ForwardingEnds` | invariants, for any rows, requests and mail |
| | `LifecycleTypeCorrect`, `StopIsOrderly` | invariants, for any handlers, sessions, callbacks and tickers |
| | `RelayingTypeCorrect`, `SentAlwaysMeansEveryone` | invariants, for any recipients, domains, hosts and attempts |
| `ServicesProofs` | `ServicesTypeCorrect`, `ServicesHold` | what is proved of the ten parts above holds of the specification that the run `services` checks |

The arguments:

- **Delivery.** `IInv` adds to the invariants that a handler has stored a copy for each
  mailbox in `seen` and in `storing` (`HandlersStored`) and that a job which is
  accepted, pending, pushed or running is in the stream or acknowledged
  (`JobsTracked`). Without the first, `Ack` could not conclude from `seen` that every
  mailbox has its copy; without the second, `Take` might bring back a job that was
  never published. `WalkIsComplete` is the lemma that the walk over an envelope ends
  only when its local mailboxes are all visited. `HeldMailHasItsFiles` needs in
  addition that the files named in a job are on disk (`StagedUploaded`) and that only a job
  whose mailboxes were all staged is published (`PublishedStaged`).
- **FolderStore.** `IInv` adds to `UidsAreSound` that a message without a row in a folder
  has no mod-sequence and no flag there (`NoRowNoData`), and that only stored messages
  have rows (`RowsAreStored`). One lemma per operation says what it does to a folder
  that gains, loses or keeps rows; UIDs and mod-sequences follow for any folder.
  `SidesAlwaysAgree` and `NoMessageEverDropsOut` then go through the operations once
  more. `UidsAreSound`, `ChangesAreVisible` and `SidesAgree` of this module have no run:
  the runs of `FolderRows` check the stronger statements of them.
- **FolderRows.** The code reads a folder's counters in one statement and writes them
  back in a later one. `Sound` says why that is safe: a transaction past `target` holds
  the lock of the folder that gets the row and what it read of both counters is
  current (`TargetOwned`), a move or copy holds its source (`SourceOwned`), and an HTTP
  move or purge holds every folder it counts up (`LosersOwned`). Each commit is then one
  `TableStep` that writes counters of its own folders only, which leaves what the
  others have read current since locks are exclusive (part of `TypeOK`). A flag change
  may bring back a row that a purge deleted under it; `RowKnown` says that the row has
  a UID it had before. Without `FOR UPDATE` on a folder the proof does not go through.
  `SidesAlwaysAgree` needs the locks on rows and messages as well (`LocksTaken`) and
  what they are good for: a row that a move, copy or flag change has read without a
  lock cannot leave a folder it has locked unless the message is purged (`RowStays`),
  and an HTTP move, which has the message locked, has found the row of the folder that
  shows it (`HttpOwns`). `Files` is what a commit does to its message, `Leaves` what it
  leaves to the others. That a purged message has no row but late ones needs `LateInv`:
  while a purge is past its look for rows, each row of its message is among those it is
  to delete or in `late` (`Watched`).
  `TransactionsAlwaysAtomic` needs that what a transaction has read of its rows is what
  there is when it commits. `AtomicInv` adds two things for that: a row has no
  mod-sequence without a UID (`RowsWhole`), and as long as its message is stored, the
  row that a flag change has read is as it was and no row has come where a move or copy
  inserts one (`Undisturbed`). `OwnRows` says that a commit changes the rows of a stored
  message only in folders it has locked, so that the others stay undisturbed
  (`OthersUndisturbed`), and one lemma per kind compares what the commit writes with the
  step of `FolderStore` (`AtomicMove` to `AtomicPurge`).
- **MailClients.** Each step of a client is one of `FolderStore`'s or leaves its
  variables alone; the proof goes through them with the types of what requests carry.
  `UploadNamesItsMessage` follows from `UidsAreSound`: a UID that the store gave once
  names no other message. `ClientsTypeCorrect` needs it too: a listing is defined as the
  sequence that is ordered by UID, and there is one because UIDs differ. The proof
  counts for each row those with no greater UID (`PlaceOf`), and an injection between
  finite sets of one size takes every place.
- **Outbound.** `CallInv` bounds the relay calls made for a message together with the
  workers that have yet to make one, by its resends plus one if it has been charged
  (`CallsAreAsked`), and says that waiting mail has not been charged (`WaitingIsFree`).
  `SentOncePerRequest` alone is not inductive, since it does not see the calls to
  come. `CounterInv` says that a counter in force
  equals the cardinality of the messages charged to it. That needs `Retention` to be
  at least a month, which the assumption takes from the constants in the code, and a
  lemma about remainders: the month's counter of today began less than a month ago.
- **Relaying.** An attempt forgets domains and batches as it works on them. `Placed` says
  where each recipient is meanwhile: in a domain still to come, in the batch, among the
  local copies, in the list that SES gets, or accepted. At the end only served
  recipients are left.
- **AttachmentFiles.** Both invariants are made inductive by saying what a purge holds in
  its hands: a file that it has doomed is named by no stored message but those that
  were stored since (`DoomedAreUnused`).
- **JmapMailboxes.** What is in a folder that a request is about to delete has come
  after its count (`CountedEmpty`).

- **MailQuota.** Passes that run at the same time each work on a sum of their own and
  may archive the same rows. `PassInv` says what one pass knows: what it has still to
  count, of the messages it saw, is no more than its `used` (`Counted`), and whatever is
  older than a message it took is taken as well. `SightInv` says why several passes add
  up: messages are stored one after the other, so of two passes one saw all that the
  other saw, and the same holds of what has been taken into account (`Weighed`). When a
  commit leaves nothing owed, either its pass saw everything, and what it left active
  is within its `used`, or nothing was owed before, and the commit only archives.
  `seen` and `owed` speak of every message that was ever stored (`Stored`), since
  comparing what is active would be upset by each purge. The sums themselves are a fold over a set, which is defined by
  recursion over its subsets. `SumsUnique`, `SumsExist` and the lemmas from `BytesNat` to
  `BytesMonotone` prove what is needed of it from a smallest counterexample: the finite
  sets are well founded under inclusion (`FS_StrictSubsetOrderingWellFounded`), which
  needs no induction theorem with an operator parameter.
- **MailLabels.** `TagInv` follows a transaction: between resolving a name and its
  commit, each tag of an unwanted name on one of its messages is among those it found,
  among those it drops, or came late. Two more facts make that inductive: rows that it
  is to insert belong to a tag that is committed or its own (`Settled`), and no two
  transactions have made the same row.
- **MailImport.** `Held` says of every Message-ID that the import is past with: it is in the
  mailbox or an earlier item that carried it is reported as failed. `ImportInv` keeps it
  for what is in `seen` and for every item done, and adds that the report is as long
  as the items that are done, so that a later item cannot change an earlier verdict.
- **SenderAuth.** An answer that is about to be stored was given no earlier than when the check
  began to ask (`Reliable`), which is why `Expiry`, reckoned from that moment, keeps
  `FreshInv` however late it is stored. `Lists` says that the eviction order has each
  cached name once; with a cardinality lemma for adding and evicting a name the bound
  follows.
- **SpamTraining.** A count below zero always has a request that has lowered it and has
  yet to read it, or has read it and has yet to write the zero (`TokensOwed`,
  `TotalsOwed`). When all requests rest, there is none, so no count is negative.
- **MailDirectory.** A request about to delete a domain or an alias has counted what
  names it, and still nothing does but what is marked as inserted late (`Going`). `ForwardInv`
  says that a receipt has one copy on its way at a time, that what this copy may still
  make an alias send has not been sent, and that the aliases which have sent for it, or
  may still, belong to one mailbox (`OneBoxInv`). A copy that comes back to another alias
  finds no rules, which ends each chain.
- **Lifecycle.** `StopsInOrder` and `UndoesInOrder` say for each number of steps that Stop, or a
  failed Start, has left which servers are gone (`NotThere`) and which jobs are quiet;
  `StepsLeft` ties the number to the steps themselves. The type of `steps` needs that
  Start's last step is the HTTP server's, so that it never runs out of steps while it
  starts (`Starting`).
- **The parts together.** The variables of a part change by its own steps only, so a
  behaviour of `ServicesSpec` is a behaviour of each part (`QuotaPart` to
  `LifecyclePart`), and the theorems of the parts carry over.

Only checked by TLC: the liveness properties (`AcceptedJobsFinish`,
`ScheduledMailIsTried`), since fairness and ENABLED are out of the
provers' reach, and the four counterexamples. Every invariant and every action property
of a passing run is a theorem.

## 5. What is not modelled

Texts of messages, addresses, MIME and what a relay does with a message are data that
no property here depends on. Cryptography (DKIM), floating-point spam scores, remote
services and configuration are outside what TLC can say something about. Mail
credentials, contacts and the HTTP and gRPC surface consist of requests that read or
write one row and depend on no other; notifications, insight and summaries change no
mail. Migrations run once before anything else. `PROJECT.json` gives the reason for
each component.

In the modelled components the following is left out: legacy and malformed jobs in the
stream; the SMTP dialogue before DATA, and that DATA waits for the PubAck without a
limit of its own; the contents of staged files, and that the upload for a second mailbox
of an envelope reads a reader which the first has used up; flags other than `\Deleted`
(`MailLabels` has the keywords); FETCH, SEARCH, queries and Email/get, which change
nothing; changes of a send limit while mail is sent; drafts; MIME assembly, TLS and the
SMTP client's dialogue; the parsing of DNS records and signatures; mailboxes and
their limit, DNS advice and permissions in the directory; the choice of a conversation
outside imports.
