------------------------------ MODULE Delivery ------------------------------
(***************************************************************************)
(* Inbound mail from SMTP DATA to the recipients' mailboxes: the DATA      *)
(* handler stages attachments in DysonFS and publishes a job to a          *)
(* JetStream work queue; queue handlers, in any number of processes, take  *)
(* jobs and store one copy per local mailbox; only then is a job           *)
(* acknowledged.                                                           *)
(*                                                                         *)
(* Code: internal/smtp/queue.go, Data in internal/smtp/server.go, and the  *)
(* staging and storing halves of internal/service/email.go.  JetStream and *)
(* DysonFS are outside the repository and are modelled from their use.     *)
(***************************************************************************)
EXTENDS MailEnvelope, FiniteSets

CONSTANTS
    Attached,       \* jobs whose message has attachments
    Handlers,       \* queue handlers: one per process, which runs its callbacks one at a time
    NoJob,          \* the job of an idle handler
    MaxAckPending,  \* cfg.Workers
    Faults          \* the environment faults that may happen

FaultKinds == {
    "stage_fails",    \* DysonFS or the mailbox lookup fails while staging
    "publish_fails",  \* the publish is rejected
    "publish_unconfirmed", \* JetStream keeps the job, the connection closes before its PubAck
    "intake_crash",   \* the process dies inside DATA
    "store_fails",    \* the database fails before a copy commits
    "quota_fails",    \* the quota pass after the commit fails
    "handler_crash",  \* the process dies inside a handler, or its ACK is lost
    "slow_handler"}   \* AckWait runs out while a handler still works on the job

ASSUME DeliveryAssumption ==
    /\ Attached \subseteq Jobs
    /\ NoJob \notin Jobs
    /\ MaxAckPending \in Nat \ {0}
    /\ Faults \subseteq FaultKinds

VARIABLES
    intake,   \* progress of each DATA transaction
    staged,   \* staged[j]: the mailboxes in job.AttachmentReferences
    files,    \* DysonFS files that exist; <<j, m>> is what j uploaded for m
    stream,   \* jobs JetStream holds
    pending,  \* jobs pushed at least once and not yet acknowledged
    pushed,   \* jobs pushed to a subscriber and not yet taken up
    acked,    \* jobs JetStream has seen an ACK for
    running,  \* running[h]: the job handler h works on
    seen,     \* seen[h]: the set `unique` of deliverJob
    storing,  \* storing[h]: mailbox whose copy is committed, quota pass to come
    copies    \* copies[j][m]: rows of emails that job j wrote in mailbox m

intakeVars == <<intake, staged>>
queueVars == <<stream, pending, pushed, acked>>
handlerVars == <<running, seen, storing>>
vars == <<intakeVars, files, queueVars, handlerVars, copies>>

IntakeStates == {"idle", "staging", "published", "accepted", "refused", "crashed"}

\* The state of intakes, queue, handlers and mailboxes has its types.
TypeOK ==
    /\ intake \in [Jobs -> IntakeStates]
    /\ staged \in [Jobs -> SUBSET Mailboxes]
    /\ files \subseteq Jobs \X Mailboxes
    /\ stream \subseteq Jobs
    /\ pending \subseteq stream
    /\ pushed \subseteq Jobs
    /\ acked \subseteq Jobs
    /\ running \in [Handlers -> Jobs \cup {NoJob}]
    /\ seen \in [Handlers -> SUBSET Mailboxes]
    /\ storing \in [Handlers -> Mailboxes \cup {NoMailbox}]
    /\ copies \in [Jobs -> [Mailboxes -> Nat]]

Init ==
    /\ intake = [j \in Jobs |-> "idle"]
    /\ staged = [j \in Jobs |-> {}]
    /\ files = {}
    /\ stream = {}
    /\ pending = {}
    /\ pushed = {}
    /\ acked = {}
    /\ running = [h \in Handlers |-> NoJob]
    /\ seen = [h \in Handlers |-> {}]
    /\ storing = [h \in Handlers |-> NoMailbox]
    /\ copies = [j \in Jobs |-> [m \in Mailboxes |-> 0]]

-----------------------------------------------------------------------------
(* Both Enqueue and deliverJob walk the envelope in order and skip          *)
(* addresses without a mailbox and mailboxes they have met before.          *)

Unvisited(j, visited) ==
    {k \in DOMAIN Envelope[j] : Envelope[j][k] \notin visited \cup {NoMailbox}}

IsNext(j, visited, m) ==
    \E k \in Unvisited(j, visited) :
        /\ Envelope[j][k] = m
        /\ \A i \in Unvisited(j, visited) : k <= i

NeedsStaging(j) == j \in Attached /\ Unvisited(j, staged[j]) # {}

HasMessage(j, m) ==
    \E i \in Jobs : SameMessage(i, j) /\ copies[i][m] > 0

\* The unique index of emails on (mailbox_id, message_id) WHERE message_id IS
\* NOT NULL refuses another copy.
IsTaken(j, m) == Named(j) /\ HasMessage(j, m)

StagedFiles(j) == {j} \X staged[j]

-----------------------------------------------------------------------------
(* SMTP DATA: smtpSession.Data and NATSQueue.Enqueue.                       *)

Data(j) ==
    /\ intake[j] = "idle"
    /\ intake' = [intake EXCEPT ![j] = "staging"]
    /\ UNCHANGED <<staged, files, queueVars, handlerVars, copies>>

StageAttachments(j) ==
    /\ intake[j] = "staging"
    /\ NeedsStaging(j)
    /\ \E m \in Mailboxes :
        /\ IsNext(j, staged[j], m)
        /\ staged' = [staged EXCEPT ![j] = @ \cup {m}]
        /\ files' = files \cup {<<j, m>>}
    /\ UNCHANGED <<intake, queueVars, handlerVars, copies>>

\* Mutant: the backend has the method that deleteStagedAttachments looks for.
RejectAndCleanUp(j) ==
    /\ files' = files \ StagedFiles(j)
    /\ intake' = [intake EXCEPT ![j] = "refused"]
    /\ UNCHANGED <<staged, queueVars, handlerVars, copies>>

\* What every failure of Enqueue does: it reports an error, which the client
\* hears. deleteStagedAttachments, which it calls before, deletes files only if
\* the backend has a method DeleteAttachment; EmailService, the backend that
\* app.go gives the queue, has none, so that what was staged stays in DysonFS.
RejectIntake(j) ==
    /\ intake' = [intake EXCEPT ![j] = "refused"]
    /\ UNCHANGED <<staged, files, queueVars, handlerVars, copies>>

\* StageIncomingAttachments deletes what it uploaded for the mailbox at which it
\* fails, but drops the errors of that, so some of it may stay as well.
StagingFails(j) ==
    /\ "stage_fails" \in Faults
    /\ intake[j] = "staging"
    /\ NeedsStaging(j)
    /\ intake' = [intake EXCEPT ![j] = "refused"]
    /\ \E m \in Mailboxes :
        /\ IsNext(j, staged[j], m)
        /\ files' \in {files, files \cup {<<j, m>>}}
    /\ UNCHANGED <<staged, queueVars, handlerVars, copies>>

\* JetStream persists the message; the publisher waits for its PubAck.
Publish(j) ==
    /\ intake[j] = "staging"
    /\ ~NeedsStaging(j)
    /\ stream' = stream \cup {j}
    /\ intake' = [intake EXCEPT ![j] = "published"]
    /\ UNCHANGED <<staged, files, pending, pushed, acked, handlerVars, copies>>

\* Mutant: DATA answers 250 without waiting for the publish.
AcceptEarly(j) ==
    /\ intake[j] \in {"staging", "published"}
    /\ intake' = [intake EXCEPT ![j] = "accepted"]
    /\ UNCHANGED <<staged, files, queueVars, handlerVars, copies>>

\* Mutant: a PubAck that comes after the error is answered to the client, too.
AcceptTwice(j) ==
    /\ intake[j] = "published" \/ (intake[j] = "refused" /\ j \in stream)
    /\ intake' = [intake EXCEPT ![j] = "accepted"]
    /\ UNCHANGED <<staged, files, queueVars, handlerVars, copies>>

\* The PubAck arrives: Enqueue returns nil and DATA answers 250.
AcceptData(j) ==
    /\ intake[j] = "published"
    /\ intake' = [intake EXCEPT ![j] = "accepted"]
    /\ UNCHANGED <<staged, files, queueVars, handlerVars, copies>>

PublishFails(j) ==
    /\ "publish_fails" \in Faults
    /\ intake[j] = "staging"
    /\ ~NeedsStaging(j)
    /\ RejectIntake(j)

\* The connection closes before the PubAck: Enqueue gets an error, as it does
\* when the publish is rejected.
PublishUnconfirmed(j) ==
    /\ "publish_unconfirmed" \in Faults
    /\ intake[j] = "published"
    /\ RejectIntake(j)

IntakeCrash(j) ==
    /\ "intake_crash" \in Faults
    /\ intake[j] \in {"staging", "published"}
    /\ intake' = [intake EXCEPT ![j] = "crashed"]
    /\ UNCHANGED <<staged, files, queueVars, handlerVars, copies>>

-----------------------------------------------------------------------------
(* JetStream: a work-queue stream with one durable consumer, explicit ACKs  *)
(* and at most MaxAckPending unacknowledged jobs.                           *)

Idle(j) == j \notin pushed /\ \A h \in Handlers : running[h] # j

\* First delivery. Jobs that were NAKed still count against MaxAckPending.
Push(j) ==
    /\ j \in stream \ pending
    /\ Cardinality(pending) < MaxAckPending
    /\ pending' = pending \cup {j}
    /\ pushed' = pushed \cup {j}
    /\ UNCHANGED <<intakeVars, files, stream, acked, handlerVars, copies>>

\* The delay of a NAK or the consumer's AckWait is over.
Redeliver(j) ==
    /\ j \in pending
    /\ j \notin pushed
    /\ Idle(j) \/ "slow_handler" \in Faults
    /\ pushed' = pushed \cup {j}
    /\ UNCHANGED <<intakeVars, files, stream, pending, acked, handlerVars, copies>>

-----------------------------------------------------------------------------
(* Queue handlers: NATSQueue.handle, deliverJob and ReceiveEmail.           *)

Release(h) ==
    /\ running' = [running EXCEPT ![h] = NoJob]
    /\ seen' = [seen EXCEPT ![h] = {}]
    /\ storing' = [storing EXCEPT ![h] = NoMailbox]

Take(h, j) ==
    /\ running[h] = NoJob
    /\ j \in pushed
    /\ pushed' = pushed \ {j}
    /\ running' = [running EXCEPT ![h] = j]
    /\ UNCHANGED <<intakeVars, files, stream, pending, acked, seen, storing, copies>>

\* h is about to store the copy of the next mailbox of its job.
AtMailbox(h, m) ==
    /\ running[h] # NoJob
    /\ storing[h] = NoMailbox
    /\ IsNext(running[h], seen[h], m)

\* Mutant: no unique index on (mailbox_id, message_id).
StoreAgain(h, m) ==
    /\ AtMailbox(h, m)
    /\ copies' = [copies EXCEPT ![running[h]][m] = OneMore(@)]
    /\ storing' = [storing EXCEPT ![h] = m]
    /\ UNCHANGED <<intakeVars, files, queueVars, running, seen>>

\* The transaction of ReceiveEmail commits.
StoreCopy(h, m) ==
    /\ AtMailbox(h, m)
    /\ ~IsTaken(running[h], m)
    /\ copies' = [copies EXCEPT ![running[h]][m] = OneMore(@)]
    /\ storing' = [storing EXCEPT ![h] = m]
    /\ UNCHANGED <<intakeVars, files, queueVars, running, seen>>

\* deliverJob returned an error: handle sends a NAK with a delay, so the job
\* stays pending and comes back through Redeliver.
Nak(h) ==
    /\ Release(h)
    /\ UNCHANGED <<intakeVars, files, queueVars, copies>>

\* The transaction aborts on the unique index.
StoreConflicts(h, m) ==
    /\ AtMailbox(h, m)
    /\ IsTaken(running[h], m)
    /\ Nak(h)

StoreFails(h, m) ==
    /\ "store_fails" \in Faults
    /\ AtMailbox(h, m)
    /\ Nak(h)

\* enforceWorkspaceMailboxQuota succeeds; everything after it in ReceiveEmail
\* is best-effort, so deliverJob goes on to the next mailbox.
FinishCopy(h) ==
    /\ storing[h] # NoMailbox
    /\ seen' = [seen EXCEPT ![h] = @ \cup {storing[h]}]
    /\ storing' = [storing EXCEPT ![h] = NoMailbox]
    /\ UNCHANGED <<intakeVars, files, queueVars, running, copies>>

QuotaFails(h) ==
    /\ "quota_fails" \in Faults
    /\ storing[h] # NoMailbox
    /\ Nak(h)

\* Mutant: the job is acknowledged after its first mailbox.
AckAfterFirst(h) ==
    /\ running[h] # NoJob
    /\ storing[h] = NoMailbox
    /\ seen[h] # {}
    /\ stream' = stream \ {running[h]}
    /\ pending' = pending \ {running[h]}
    /\ acked' = acked \cup {running[h]}
    /\ Release(h)
    /\ UNCHANGED <<intakeVars, files, pushed, copies>>

\* Mutant: an acknowledged job keeps its place among the pending ones.
AckKeepsPending(h) ==
    /\ running[h] # NoJob
    /\ storing[h] = NoMailbox
    /\ Unvisited(running[h], seen[h]) = {}
    /\ stream' = stream \ {running[h]}
    /\ acked' = acked \cup {running[h]}
    /\ Release(h)
    /\ UNCHANGED <<intakeVars, files, pending, pushed, copies>>

\* Mutant: the handler returns without acknowledging.
NeverAck(h) ==
    /\ running[h] # NoJob
    /\ storing[h] = NoMailbox
    /\ Unvisited(running[h], seen[h]) = {}
    /\ Nak(h)

\* Every mailbox is done: the ACK takes the job off the work queue.
Ack(h) ==
    /\ running[h] # NoJob
    /\ storing[h] = NoMailbox
    /\ Unvisited(running[h], seen[h]) = {}
    /\ stream' = stream \ {running[h]}
    /\ pending' = pending \ {running[h]}
    /\ acked' = acked \cup {running[h]}
    /\ Release(h)
    /\ UNCHANGED <<intakeVars, files, pushed, copies>>

HandlerCrash(h) ==
    /\ "handler_crash" \in Faults
    /\ running[h] # NoJob
    /\ Nak(h)

-----------------------------------------------------------------------------

Intake(j) ==
    \/ Data(j)
    \/ StageAttachments(j)
    \/ StagingFails(j)
    \/ Publish(j)
    \/ AcceptData(j)
    \/ PublishFails(j)
    \/ PublishUnconfirmed(j)
    \/ IntakeCrash(j)

Walk(h) ==
    \/ \E m \in Mailboxes : StoreCopy(h, m) \/ StoreConflicts(h, m)
    \/ FinishCopy(h)
    \/ Ack(h)

Interrupt(h) ==
    \/ \E m \in Mailboxes : StoreFails(h, m)
    \/ QuotaFails(h)
    \/ HandlerCrash(h)

Handle(h) == (\E j \in Jobs : Take(h, j)) \/ Walk(h) \/ Interrupt(h)

Next ==
    \/ \E j \in Jobs : Intake(j) \/ Push(j) \/ Redeliver(j)
    \/ \E h \in Handlers : Handle(h)

Spec == Init /\ [][Next]_vars

-----------------------------------------------------------------------------
(* Safety                                                                   *)

\* A job leaves the work queue only after every local mailbox of its envelope
\* got the copy this job carried (queue.go, NATSQueue).
AckedMeansDelivered ==
    \A j \in acked : \A m \in LocalMailboxes(j) : copies[j][m] > 0

\* A message the client was told is accepted is in the stream or delivered;
\* no crash and no failing handler loses it.
AcceptedIsHeld ==
    \A j \in Jobs : intake[j] = "accepted" => j \in stream \cup acked

\* However often a job is redelivered, by however many handlers at once, and
\* even if the client sends the message again, a mailbox stores it once. Only
\* for messages with a Message-ID: the others come again at each redelivery.
OneCopyPerMessage ==
    \A m \in Mailboxes, i, j \in Jobs :
        Named(j) =>
            /\ copies[j][m] <= 1
            /\ SameMessage(i, j) /\ i # j => copies[i][m] = 0 \/ copies[j][m] = 0

\* Whenever a handler gets to a job, be it one whose client was told that it
\* was refused, the attachment files of every mailbox are there, and they stay
\* as long as copies name them.
HeldMailHasItsFiles ==
    \A j \in Attached \cap (stream \cup acked) : \A m \in LocalMailboxes(j) :
        <<j, m>> \in files

(* Refinement                                                               *)

ReplyOf(j) ==
    CASE intake[j] = "accepted" -> "ok"
      [] intake[j] = "refused" -> "error"
      [] OTHER -> "none"

WorkOf(j) ==
    IF j \in acked THEN "done" ELSE IF j \in stream THEN "held" ELSE "none"

Contract == INSTANCE IntakeContract WITH
    reply <- [j \in Jobs |-> ReplyOf(j)],
    work <- [j \in Jobs |-> WorkOf(j)]

\* Staging, queueing, redelivery and the handlers together do what
\* IntakeContract allows and nothing else.
ImplementsContract == Contract!ContractSpec
=============================================================================
