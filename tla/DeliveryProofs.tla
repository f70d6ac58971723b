--------------------------- MODULE DeliveryProofs ---------------------------
(***************************************************************************)
(* Delivery proved for every set of jobs, envelopes, mailboxes, handlers   *)
(* and faults: its types, its safety invariants, and that it implements    *)
(* IntakeContract.                                                         *)
(***************************************************************************)
EXTENDS Delivery, TLAPS

-----------------------------------------------------------------------------
(* The strengthening of the safety invariants that is inductive.            *)

\* What handler h has been through in deliverJob is in the database: an ACK
\* needs nothing else.
WalkStored(h) ==
    IF running[h] = NoJob
    THEN seen[h] = {} /\ storing[h] = NoMailbox
    ELSE /\ \A m \in seen[h] : copies[running[h]][m] > 0
         /\ storing[h] # NoMailbox => copies[running[h]][storing[h]] > 0

HandlersStored == \A h \in Handlers : WalkStored(h)

\* A job is published once, and nothing but an ACK takes it off the stream.
JobsTracked ==
    /\ stream \cap acked = {}
    /\ pushed \subseteq stream \cup acked
    /\ \A h \in Handlers : running[h] # NoJob => running[h] \in stream \cup acked
    /\ \A j \in Jobs :
        /\ intake[j] \in {"idle", "staging"} => j \notin stream \cup acked
        /\ intake[j] \in {"published", "accepted"} => j \in stream \cup acked

IInv ==
    /\ TypeOK
    /\ HandlersStored
    /\ JobsTracked
    /\ AckedMeansDelivered
    /\ OneCopyPerMessage

-----------------------------------------------------------------------------
(* Facts about the envelope.                                                *)

LEMMA LocalMailboxesType ==
    ASSUME NEW j \in Jobs
    PROVE  LocalMailboxes(j) \subseteq Mailboxes
<1>1. Envelope[j] \in Seq(Mailboxes \cup {NoMailbox})
    BY EnvelopeAssumption
<1>2. \A k \in DOMAIN Envelope[j] : Envelope[j][k] \in Mailboxes \cup {NoMailbox}
    BY <1>1
<1> QED
    BY <1>2 DEF LocalMailboxes

\* The mailbox deliverJob turns to next is one of the envelope's, and new.
LEMMA NextIsLocal ==
    ASSUME NEW j \in Jobs, NEW visited, NEW m \in Mailboxes, IsNext(j, visited, m)
    PROVE  m \in LocalMailboxes(j) /\ m \notin visited
BY EnvelopeAssumption DEF IsNext, Unvisited, LocalMailboxes

\* A walk that finds nothing new has been to every local mailbox.
LEMMA WalkIsComplete ==
    ASSUME NEW j \in Jobs, NEW visited, Unvisited(j, visited) = {}
    PROVE  LocalMailboxes(j) \subseteq visited
BY DEF Unvisited, LocalMailboxes

-----------------------------------------------------------------------------
(* Types.                                                                   *)

\* TypeOK is inductive by itself.
LEMMA TypeInit == Init => TypeOK
BY EnvelopeAssumption DEF Init, TypeOK, IntakeStates

LEMMA TypeStep == TypeOK /\ [Next]_vars => TypeOK'
<1> SUFFICES ASSUME TypeOK, [Next]_vars PROVE TypeOK'
    OBVIOUS
<1>1. ASSUME NEW j \in Jobs, Data(j) PROVE TypeOK'
    BY <1>1 DEF Data, TypeOK, IntakeStates, intakeVars, queueVars, handlerVars
<1>2. ASSUME NEW j \in Jobs, StageAttachments(j) PROVE TypeOK'
    BY <1>2 DEF StageAttachments, TypeOK, IntakeStates, intakeVars, queueVars, handlerVars
<1>3. ASSUME NEW j \in Jobs, StagingFails(j) PROVE TypeOK'
    BY <1>3 DEF StagingFails, TypeOK, IntakeStates, intakeVars, queueVars, handlerVars
<1>4. ASSUME NEW j \in Jobs, Publish(j) PROVE TypeOK'
    BY <1>4 DEF Publish, TypeOK, IntakeStates, intakeVars, queueVars, handlerVars
<1>5. ASSUME NEW j \in Jobs, AcceptData(j) PROVE TypeOK'
    BY <1>5 DEF AcceptData, TypeOK, IntakeStates, intakeVars, queueVars, handlerVars
<1>6. ASSUME NEW j \in Jobs, PublishFails(j) PROVE TypeOK'
    BY <1>6 DEF PublishFails, RejectIntake, TypeOK, IntakeStates, intakeVars, queueVars, handlerVars
<1>7. ASSUME NEW j \in Jobs, PublishUnconfirmed(j) PROVE TypeOK'
    BY <1>7 DEF PublishUnconfirmed, RejectIntake, TypeOK, IntakeStates, intakeVars, queueVars, handlerVars
<1>8. ASSUME NEW j \in Jobs, IntakeCrash(j) PROVE TypeOK'
    BY <1>8 DEF IntakeCrash, TypeOK, IntakeStates, intakeVars, queueVars, handlerVars
<1>9. ASSUME NEW j \in Jobs, Push(j) PROVE TypeOK'
    BY <1>9 DEF Push, TypeOK, IntakeStates, intakeVars, queueVars, handlerVars
<1>10. ASSUME NEW j \in Jobs, Redeliver(j) PROVE TypeOK'
    BY <1>10 DEF Redeliver, TypeOK, IntakeStates, intakeVars, queueVars, handlerVars
<1>11. ASSUME NEW h \in Handlers, NEW j \in Jobs, Take(h, j) PROVE TypeOK'
    BY <1>11 DEF Take, TypeOK, IntakeStates, intakeVars, queueVars, handlerVars
<1>12. ASSUME NEW h \in Handlers, NEW m \in Mailboxes, StoreCopy(h, m) PROVE TypeOK'
    BY <1>12, EnvelopeAssumption DEF StoreCopy, AtMailbox, OneMore, TypeOK, IntakeStates, intakeVars, queueVars, handlerVars
<1>13. ASSUME NEW h \in Handlers, NEW m \in Mailboxes, StoreConflicts(h, m) PROVE TypeOK'
    BY <1>13 DEF StoreConflicts, Nak, Release, TypeOK, IntakeStates, intakeVars, queueVars, handlerVars
<1>14. ASSUME NEW h \in Handlers, NEW m \in Mailboxes, StoreFails(h, m) PROVE TypeOK'
    BY <1>14 DEF StoreFails, Nak, Release, TypeOK, IntakeStates, intakeVars, queueVars, handlerVars
<1>15. ASSUME NEW h \in Handlers, FinishCopy(h) PROVE TypeOK'
    BY <1>15 DEF FinishCopy, TypeOK, IntakeStates, intakeVars, queueVars, handlerVars
<1>16. ASSUME NEW h \in Handlers, QuotaFails(h) PROVE TypeOK'
    BY <1>16 DEF QuotaFails, Nak, Release, TypeOK, IntakeStates, intakeVars, queueVars, handlerVars
<1>17. ASSUME NEW h \in Handlers, Ack(h) PROVE TypeOK'
    BY <1>17 DEF Ack, Release, TypeOK, IntakeStates, intakeVars, queueVars, handlerVars
<1>18. ASSUME NEW h \in Handlers, HandlerCrash(h) PROVE TypeOK'
    BY <1>18 DEF HandlerCrash, Nak, Release, TypeOK, IntakeStates, intakeVars, queueVars, handlerVars
<1>19. CASE UNCHANGED vars
    BY <1>19 DEF TypeOK, IntakeStates, intakeVars, queueVars, handlerVars, vars
<1> QED
    BY <1>1, <1>2, <1>3, <1>4, <1>5, <1>6, <1>7, <1>8, <1>9, <1>10, <1>11, <1>12, <1>13, <1>14, <1>15, <1>16, <1>17, <1>18, <1>19 DEF Next, Intake, Handle, Walk, Interrupt

\* Every variable keeps its type.
THEOREM TypeCorrect == Spec => []TypeOK
<1> QED
    BY TypeInit, TypeStep, PTL DEF Spec

-----------------------------------------------------------------------------
(* Safety: what each kind of step does to the invariant.                    *)

\* Only a commit writes a copy, and only an ACK adds to acked.
LEMMA CopyOrAck ==
    ASSUME [Next]_vars
    PROVE  \/ \E h \in Handlers, m \in Mailboxes : StoreCopy(h, m)
           \/ \E h \in Handlers : Ack(h)
           \/ UNCHANGED <<acked, copies>>
BY DEF Next, Intake, Handle, Walk, Interrupt, vars, intakeVars, queueVars, handlerVars, Data,
    StageAttachments, StagingFails, RejectIntake, Publish, AcceptData, PublishFails,
    PublishUnconfirmed, IntakeCrash, Push, Redeliver, Take, StoreConflicts,
    StoreFails, FinishCopy, QuotaFails, HandlerCrash, Nak

\* A commit writes a copy in a mailbox of the envelope, the first of a message
\* that has a Message-ID.
LEMMA CommitAddsOne ==
    ASSUME TypeOK, NEW h \in Handlers, NEW m \in Mailboxes, StoreCopy(h, m)
    PROVE  /\ running[h] \in Jobs
           /\ m \in LocalMailboxes(running[h])
           /\ Named(running[h]) => ~HasMessage(running[h], m) /\ copies'[running[h]][m] = 1
           /\ copies'[running[h]][m] > 0
           /\ \A j \in Jobs, n \in Mailboxes :
                <<j, n>> # <<running[h], m>> => copies'[j][n] = copies[j][n]
<1>1. running[h] \in Jobs
    BY DEF TypeOK, StoreCopy, AtMailbox
<1>2. m \in LocalMailboxes(running[h])
    BY <1>1, NextIsLocal DEF StoreCopy, AtMailbox
<1>3. Named(running[h]) => ~HasMessage(running[h], m)
    BY DEF StoreCopy, IsTaken
<1>4. Named(running[h]) => copies[running[h]][m] = 0
    BY <1>1, <1>3 DEF HasMessage, SameMessage, TypeOK
<1>5. OneMore(copies[running[h]][m]) > 0 /\ OneMore(0) = 1
    BY <1>1, EnvelopeAssumption DEF OneMore, TypeOK
<1>6. copies'[running[h]][m] = OneMore(copies[running[h]][m])
    BY <1>1 DEF StoreCopy, TypeOK
<1>7. \A j \in Jobs, n \in Mailboxes :
        <<j, n>> # <<running[h], m>> => copies'[j][n] = copies[j][n]
    BY <1>1 DEF StoreCopy, TypeOK
<1> QED
    BY <1>1, <1>2, <1>3, <1>4, <1>5, <1>6, <1>7

LEMMA CopiesNeverVanish ==
    ASSUME TypeOK, [Next]_vars, NEW j \in Jobs, NEW m \in Mailboxes, copies[j][m] > 0
    PROVE  copies'[j][m] > 0
<1>1. CASE \E h \in Handlers, n \in Mailboxes : StoreCopy(h, n)
    <2>1. PICK h \in Handlers, n \in Mailboxes : StoreCopy(h, n)
        BY <1>1
    <2> QED
        BY <2>1, CommitAddsOne DEF TypeOK
<1>2. CASE \E h \in Handlers : Ack(h)
    BY <1>2 DEF Ack
<1>3. CASE UNCHANGED <<acked, copies>>
    BY <1>3
<1> QED
    BY <1>1, <1>2, <1>3, CopyOrAck

LEMMA OneCopyStep == TypeOK /\ OneCopyPerMessage /\ [Next]_vars => OneCopyPerMessage'
<1> SUFFICES ASSUME TypeOK, OneCopyPerMessage, [Next]_vars
             PROVE  OneCopyPerMessage'
    OBVIOUS
<1>1. CASE \E h \in Handlers, m \in Mailboxes : StoreCopy(h, m)
    <2>1. PICK h \in Handlers, m \in Mailboxes : StoreCopy(h, m)
        BY <1>1
    <2> DEFINE job == running[h]
    <2>2. /\ job \in Jobs
          /\ Named(job) => copies'[job][m] = 1
          /\ \A i \in Jobs, n \in Mailboxes : <<i, n>> # <<job, m>> => copies'[i][n] = copies[i][n]
        BY <2>1, CommitAddsOne
    <2>3. Named(job) => \A i \in Jobs : SameMessage(i, job) => copies[i][m] = 0
        BY <2>1, CommitAddsOne DEF HasMessage, TypeOK
    <2>4. SUFFICES ASSUME NEW n \in Mailboxes, NEW i \in Jobs, NEW j \in Jobs, Named(j)
                   PROVE  /\ copies'[j][n] <= 1
                          /\ SameMessage(i, j) /\ i # j => copies'[i][n] = 0 \/ copies'[j][n] = 0
        BY DEF OneCopyPerMessage
    <2>5. copies'[j][n] <= 1
        BY <2>2, <2>4 DEF OneCopyPerMessage
    <2>6. ASSUME SameMessage(i, j), i # j PROVE copies'[i][n] = 0 \/ copies'[j][n] = 0
        <3>1. copies[i][n] = 0 \/ copies[j][n] = 0
            BY <2>4, <2>6 DEF OneCopyPerMessage
        <3>2. Named(i) /\ SameMessage(j, i)
            BY <2>4, <2>6 DEF SameMessage, Named
        <3> QED
            BY <2>2, <2>3, <2>4, <2>6, <3>1, <3>2
    <2> QED
        BY <2>5, <2>6
<1>2. CASE \E h \in Handlers : Ack(h)
    BY <1>2 DEF Ack, OneCopyPerMessage
<1>3. CASE UNCHANGED <<acked, copies>>
    BY <1>3 DEF OneCopyPerMessage
<1> QED
    BY <1>1, <1>2, <1>3, CopyOrAck

\* A handler's walk records only mailboxes whose copy is committed.
LEMMA HandlersStep == TypeOK /\ HandlersStored /\ [Next]_vars => HandlersStored'
<1> SUFFICES ASSUME TypeOK, HandlersStored, [Next]_vars, NEW g \in Handlers
             PROVE  WalkStored(g)'
    BY DEF HandlersStored
<1> USE DEF HandlersStored, WalkStored
<1>1. \A j \in Jobs, m \in Mailboxes : copies[j][m] > 0 => copies'[j][m] > 0
    BY CopiesNeverVanish
<1>2. CASE UNCHANGED <<running, seen, storing>>
    BY <1>1, <1>2 DEF TypeOK
<1>3. ASSUME NEW h \in Handlers, NEW j \in Jobs, Take(h, j) PROVE WalkStored(g)'
    BY <1>1, <1>3 DEF Take, TypeOK
<1>4. ASSUME NEW h \in Handlers, NEW m \in Mailboxes, StoreCopy(h, m) PROVE WalkStored(g)'
    <2>1. copies'[running[h]][m] > 0 /\ running[h] \in Jobs
        BY <1>4, CommitAddsOne
    <2>2. running' = running /\ seen' = seen /\ storing' = [storing EXCEPT ![h] = m]
        BY <1>4 DEF StoreCopy
    <2>3. running[h] # NoJob
        BY <1>4 DEF StoreCopy, AtMailbox
    <2>4. CASE g = h
        BY <1>1, <2>1, <2>2, <2>3, <2>4 DEF TypeOK
    <2>5. CASE g # h
        BY <1>1, <2>2, <2>5 DEF TypeOK
    <2> QED
        BY <2>4, <2>5
<1>5. ASSUME NEW h \in Handlers, Release(h), UNCHANGED copies PROVE WalkStored(g)'
    BY <1>1, <1>5 DEF Release, TypeOK
<1>6. ASSUME NEW h \in Handlers, FinishCopy(h) PROVE WalkStored(g)'
    BY <1>1, <1>6 DEF FinishCopy, TypeOK
<1>7. \/ UNCHANGED <<running, seen, storing>>
      \/ \E h \in Handlers, j \in Jobs : Take(h, j)
      \/ \E h \in Handlers, m \in Mailboxes : StoreCopy(h, m)
      \/ \E h \in Handlers : Release(h) /\ UNCHANGED copies
      \/ \E h \in Handlers : FinishCopy(h)
    BY DEF Next, Intake, Handle, Walk, Interrupt, vars, intakeVars, queueVars, handlerVars, Data,
        StageAttachments, StagingFails, RejectIntake, Publish, AcceptData,
        PublishFails, PublishUnconfirmed, IntakeCrash, Push, Redeliver,
        StoreConflicts, StoreFails, QuotaFails, HandlerCrash, Nak, Ack
<1> QED
    BY <1>2, <1>3, <1>4, <1>5, <1>6, <1>7

\* An ACK is sent at the end of a walk, and the walk stored a copy everywhere.
LEMMA AckStep ==
    TypeOK /\ HandlersStored /\ AckedMeansDelivered /\ [Next]_vars => AckedMeansDelivered'
<1> SUFFICES ASSUME TypeOK, HandlersStored, AckedMeansDelivered, [Next]_vars,
                    NEW j \in acked', NEW m \in LocalMailboxes(j)
             PROVE  copies'[j][m] > 0
    BY DEF AckedMeansDelivered
<1>1. CASE j \in acked
    <2>1. j \in Jobs /\ m \in Mailboxes
        BY <1>1, LocalMailboxesType DEF TypeOK
    <2> QED
        BY <1>1, <2>1, CopiesNeverVanish DEF AckedMeansDelivered
<1>2. CASE j \notin acked
    <2>1. PICK h \in Handlers : Ack(h)
        BY <1>2, CopyOrAck DEF StoreCopy, queueVars
    <2>2. j = running[h] /\ j \in Jobs
        BY <1>2, <2>1 DEF Ack, TypeOK
    <2>3. m \in seen[h]
        BY <2>1, <2>2, WalkIsComplete DEF Ack
    <2> QED
        BY <2>1, <2>2, <2>3 DEF Ack, HandlersStored, WalkStored
<1> QED
    BY <1>1, <1>2

\* A job enters the stream once, before any handler sees it, and an ACK moves it
\* from the stream to acked.
LEMMA JobsStep == TypeOK /\ JobsTracked /\ [Next]_vars => JobsTracked'
<1> SUFFICES ASSUME TypeOK, JobsTracked, [Next]_vars
             PROVE  JobsTracked'
    OBVIOUS
<1> USE DEF TypeOK, JobsTracked, IntakeStates, intakeVars, queueVars, handlerVars
<1>1. ASSUME NEW j \in Jobs, Intake(j) PROVE JobsTracked'
    <2>1. UNCHANGED <<pushed, acked, running>> /\ stream \subseteq stream'
        BY <1>1 DEF Intake, Data, StageAttachments, StagingFails, RejectIntake, Publish,
            AcceptData, PublishFails, PublishUnconfirmed, IntakeCrash
    <2>2. CASE Publish(j)
        BY <2>1, <2>2 DEF Publish
    <2>3. CASE AcceptData(j)
        BY <2>3 DEF AcceptData
    <2>4. CASE UNCHANGED stream /\ \E s \in IntakeStates \ {"published", "accepted"} :
                /\ intake' = [intake EXCEPT ![j] = s]
                /\ s \in {"idle", "staging"} => intake[j] \in {"idle", "staging"}
        BY <2>1, <2>4
    <2>5. CASE UNCHANGED <<stream, intake>>
        BY <2>1, <2>5
    <2> QED
        BY <1>1, <2>2, <2>3, <2>4, <2>5 DEF Intake, Data, StageAttachments, StagingFails,
            RejectIntake, PublishFails, PublishUnconfirmed, IntakeCrash
<1>2. ASSUME NEW j \in Jobs, Push(j) \/ Redeliver(j) PROVE JobsTracked'
    BY <1>2 DEF Push, Redeliver
<1>3. ASSUME NEW h \in Handlers, NEW j \in Jobs, Take(h, j) PROVE JobsTracked'
    BY <1>3 DEF Take
<1>4. ASSUME NEW h \in Handlers, Ack(h) PROVE JobsTracked'
    BY <1>4, DeliveryAssumption DEF Ack, Release
<1>5. ASSUME NEW h \in Handlers, Release(h), UNCHANGED <<intakeVars, queueVars>>
      PROVE  JobsTracked'
    BY <1>5 DEF Release
<1>6. CASE UNCHANGED <<intakeVars, queueVars, running>>
    BY <1>6
<1>7. ASSUME NEW h \in Handlers, Interrupt(h) PROVE JobsTracked'
    <2>1. Release(h) /\ UNCHANGED <<intakeVars, queueVars>>
        BY <1>7 DEF Interrupt, StoreFails, QuotaFails, HandlerCrash, Nak
    <2> QED
        BY <1>5, <2>1
<1>8. ASSUME NEW h \in Handlers, Walk(h) PROVE JobsTracked'
    <2>1. ASSUME NEW m \in Mailboxes, StoreConflicts(h, m) PROVE JobsTracked'
        BY <1>5, <2>1 DEF StoreConflicts, Nak
    <2>2. ASSUME NEW m \in Mailboxes, StoreCopy(h, m) PROVE JobsTracked'
        BY <1>6, <2>2 DEF StoreCopy
    <2>3. ASSUME FinishCopy(h) PROVE JobsTracked'
        BY <1>6, <2>3 DEF FinishCopy
    <2> QED
        BY <1>4, <1>8, <2>1, <2>2, <2>3 DEF Walk
<1>9. CASE UNCHANGED vars
    BY <1>6, <1>9 DEF vars
<1> QED
    BY <1>1, <1>2, <1>3, <1>7, <1>8, <1>9 DEF Next, Handle

-----------------------------------------------------------------------------

LEMMA InvInit == Init => IInv
BY TypeInit DEF Init, IInv, HandlersStored, WalkStored, JobsTracked, AckedMeansDelivered,
    OneCopyPerMessage

LEMMA InvStep == IInv /\ [Next]_vars => IInv'
BY TypeStep, HandlersStep, JobsStep, AckStep, OneCopyStep DEF IInv

LEMMA InvCorrect == Spec => []IInv
BY InvInit, InvStep, PTL DEF Spec

\* A job leaves the work queue only when each mailbox of its envelope has the
\* copy this job carried, whatever was redelivered, run twice or interrupted.
THEOREM AckedJobsAreDelivered == Spec => []AckedMeansDelivered
<1>1. IInv => AckedMeansDelivered
    BY DEF IInv
<1> QED
    BY <1>1, InvCorrect, PTL

\* A message that was answered with 250 is in the stream or delivered.
THEOREM AcceptedJobsAreHeld == Spec => []AcceptedIsHeld
<1>1. IInv => AcceptedIsHeld
    BY DEF IInv, JobsTracked, AcceptedIsHeld
<1> QED
    BY <1>1, InvCorrect, PTL

\* No redelivery, concurrent handler or repeated transmission makes a mailbox
\* store a message twice that has a Message-ID.
THEOREM MailboxesStoreOnce == Spec => []OneCopyPerMessage
<1>1. IInv => OneCopyPerMessage
    BY DEF IInv
<1> QED
    BY <1>1, InvCorrect, PTL
-----------------------------------------------------------------------------
(* Attachment files.                                                        *)

\* What the references of a job name has been uploaded.
StagedUploaded == \A j \in Jobs : \A m \in staged[j] : <<j, m>> \in files

\* A job is published when all its mailboxes have been staged.
PublishedStaged ==
    \A j \in Attached \cap (stream \cup acked) : LocalMailboxes(j) \subseteq staged[j]

\* No step takes a file away, or a mailbox out of the references of a job.
LEMMA FilesStay ==
    ASSUME TypeOK, [Next]_vars
    PROVE  files \subseteq files' /\ \A j \in Jobs : staged[j] \subseteq staged'[j]
<1>1. CASE UNCHANGED files /\ UNCHANGED staged
    BY <1>1
<1>2. ASSUME NEW j \in Jobs, StageAttachments(j)
      PROVE  files \subseteq files' /\ \A i \in Jobs : staged[i] \subseteq staged'[i]
    BY <1>2 DEF StageAttachments, TypeOK
<1>3. ASSUME NEW j \in Jobs, StagingFails(j)
      PROVE  files \subseteq files' /\ \A i \in Jobs : staged[i] \subseteq staged'[i]
    BY <1>3 DEF StagingFails
<1> QED
    BY <1>1, <1>2, <1>3 DEF Next, Intake, Handle, Walk, Interrupt, vars, intakeVars, Data,
        RejectIntake, Publish, AcceptData, PublishFails, PublishUnconfirmed, IntakeCrash,
        Push, Redeliver, Take, StoreCopy, StoreConflicts, StoreFails, FinishCopy,
        QuotaFails, Ack, HandlerCrash, Nak

\* A mailbox enters the references of a job together with its files.
LEMMA StagedStep == TypeOK /\ StagedUploaded /\ [Next]_vars => StagedUploaded'
<1> SUFFICES ASSUME TypeOK, StagedUploaded, [Next]_vars,
                    NEW j \in Jobs, NEW m \in staged'[j]
             PROVE  <<j, m>> \in files'
    BY DEF StagedUploaded
<1>1. CASE m \in staged[j]
    BY <1>1, FilesStay DEF StagedUploaded
<1>2. CASE m \notin staged[j]
    <2>1. PICK i \in Jobs : StageAttachments(i)
        BY <1>2 DEF Next, Intake, Handle, Walk, Interrupt, vars, intakeVars, Data,
            RejectIntake, StagingFails, Publish, AcceptData, PublishFails,
            PublishUnconfirmed, IntakeCrash, Push, Redeliver, Take, StoreCopy,
            StoreConflicts, StoreFails, FinishCopy, QuotaFails, Ack, HandlerCrash, Nak
    <2>2. PICK n \in Mailboxes :
            /\ staged' = [staged EXCEPT ![i] = @ \cup {n}]
            /\ files' = files \cup {<<i, n>>}
        BY <2>1 DEF StageAttachments
    <2>3. i = j /\ n = m
        BY <1>2, <2>2 DEF TypeOK
    <2> QED
        BY <2>2, <2>3
<1> QED
    BY <1>1, <1>2

\* Publish waits for the last mailbox, and handlers meet published jobs only.
LEMMA PublishedStep ==
    TypeOK /\ JobsTracked /\ PublishedStaged /\ [Next]_vars => PublishedStaged'
<1> SUFFICES ASSUME TypeOK, JobsTracked, PublishedStaged, [Next]_vars,
                    NEW j \in Attached \cap (stream' \cup acked')
             PROVE  LocalMailboxes(j) \subseteq staged'[j]
    BY DEF PublishedStaged
<1>1. j \in Jobs
    BY DeliveryAssumption
<1>2. CASE j \in stream \cup acked
    BY <1>1, <1>2, FilesStay DEF PublishedStaged
<1>3. CASE j \notin stream \cup acked
    <2>1. \/ \E i \in Jobs : Publish(i)
          \/ \E h \in Handlers : Ack(h)
          \/ UNCHANGED <<stream, acked>>
        BY DEF Next, Intake, Handle, Walk, Interrupt, vars, queueVars, Data,
            StageAttachments, RejectIntake, StagingFails, AcceptData, PublishFails,
            PublishUnconfirmed, IntakeCrash, Push, Redeliver, Take, StoreCopy,
            StoreConflicts, StoreFails, FinishCopy, QuotaFails, HandlerCrash, Nak
    <2>2. ASSUME NEW h \in Handlers, Ack(h) PROVE stream' \cup acked' = stream \cup acked
        BY <2>2 DEF Ack, JobsTracked
    <2>3. Publish(j)
        BY <1>3, <2>1, <2>2 DEF Publish
    <2>4. Unvisited(j, staged[j]) = {} /\ staged' = staged
        BY <2>3 DEF Publish, NeedsStaging
    <2> QED
        BY <1>1, <2>4, WalkIsComplete
<1> QED
    BY <1>2, <1>3

\* Whichever handler comes to a job, however late and whatever its client was
\* told, finds the attachment files of every mailbox (Enqueue,
\* deleteStagedAttachments, deliverJob).
THEOREM HeldMailAlwaysHasItsFiles == Spec => []HeldMailHasItsFiles
<1>1. Init => StagedUploaded /\ PublishedStaged
    BY DEF Init, StagedUploaded, PublishedStaged
<1>2. IInv /\ StagedUploaded /\ PublishedStaged /\ [Next]_vars
        => (StagedUploaded /\ PublishedStaged)'
    BY StagedStep, PublishedStep DEF IInv
<1>3. StagedUploaded /\ PublishedStaged => HeldMailHasItsFiles
    BY DeliveryAssumption DEF StagedUploaded, PublishedStaged, HeldMailHasItsFiles
<1> QED
    BY <1>1, <1>2, <1>3, InvCorrect, PTL DEF Spec

-----------------------------------------------------------------------------
(* Refinement: every step is a step of the contract or a stutter of it.     *)

AbstractReply == [j \in Jobs |-> ReplyOf(j)]
AbstractWork == [j \in Jobs |-> WorkOf(j)]

LEMMA ContractInitially == Init => Contract!ContractInit
BY DEF Init, Contract!ContractInit, ReplyOf, WorkOf

\* A step that neither answers a client, nor publishes, acknowledges or stores.
LEMMA StutterStep ==
    ASSUME UNCHANGED <<stream, acked, copies>>,
           \A j \in Jobs : ReplyOf(j)' = ReplyOf(j)
    PROVE  UNCHANGED Contract!contractVars
BY DEF Contract!contractVars, WorkOf

LEMMA ContractStep == IInv /\ [Next]_vars => [Contract!ContractNext]_(Contract!contractVars)
<1> SUFFICES ASSUME IInv, [Next]_vars
             PROVE  Contract!ContractNext \/ UNCHANGED Contract!contractVars
    OBVIOUS
<1> USE DEF intakeVars, queueVars, handlerVars
<1>t. TypeOK /\ JobsTracked
    BY DEF IInv
<1>1. ASSUME NEW j \in Jobs, Data(j) \/ IntakeCrash(j)
      PROVE  UNCHANGED Contract!contractVars
    <2>1. \A i \in Jobs : ReplyOf(i)' = ReplyOf(i)
        BY <1>1, <1>t DEF Data, IntakeCrash, ReplyOf, TypeOK
    <2> QED
        BY <1>1, <2>1, StutterStep DEF Data, IntakeCrash
<1>2. ASSUME NEW j \in Jobs, StagingFails(j) \/ PublishFails(j) \/ PublishUnconfirmed(j)
      PROVE  Contract!Refuse(j)
    <2>1. /\ intake[j] \in {"staging", "published"}
          /\ intake' = [intake EXCEPT ![j] = "refused"]
          /\ UNCHANGED <<stream, acked, copies>>
        BY <1>2 DEF StagingFails, PublishFails, PublishUnconfirmed, RejectIntake
    <2>2. AbstractReply[j] = "none" /\ AbstractReply' = [AbstractReply EXCEPT ![j] = "error"]
        BY <2>1, <1>t DEF AbstractReply, ReplyOf, TypeOK
    <2>3. AbstractWork' = AbstractWork
        BY <2>1 DEF AbstractWork, WorkOf
    <2> QED
        BY <2>1, <2>2, <2>3 DEF Contract!Refuse, AbstractReply, AbstractWork
<1>3. ASSUME NEW j \in Jobs, Publish(j) PROVE Contract!Hold(j)
    <2>1. j \notin stream \cup acked
        BY <1>3, <1>t DEF JobsTracked, Publish
    <2>2. AbstractReply[j] = "none" /\ AbstractReply' = AbstractReply
        BY <1>3, <1>t DEF Publish, AbstractReply, ReplyOf, TypeOK
    <2>3. AbstractWork[j] = "none" /\ AbstractWork' = [AbstractWork EXCEPT ![j] = "held"]
        BY <1>3, <2>1, <1>t DEF Publish, AbstractWork, WorkOf, TypeOK
    <2> QED
        BY <1>3, <2>2, <2>3 DEF Contract!Hold, AbstractReply, AbstractWork, Publish
<1>4. ASSUME NEW j \in Jobs, AcceptData(j) PROVE Contract!Accept(j)
    <2>1. AbstractReply[j] = "none" /\ AbstractReply' = [AbstractReply EXCEPT ![j] = "ok"]
        BY <1>4, <1>t DEF AcceptData, AbstractReply, ReplyOf, TypeOK
    <2>2. AbstractWork[j] # "none" /\ AbstractWork' = AbstractWork
        BY <1>4, <1>t DEF AcceptData, AbstractWork, WorkOf, JobsTracked
    <2> QED
        BY <1>4, <2>1, <2>2 DEF Contract!Accept, AbstractReply, AbstractWork, AcceptData
<1>5. ASSUME NEW h \in Handlers, NEW m \in Mailboxes, StoreCopy(h, m)
      PROVE  Contract!Deliver(running[h], m)
    <2>1. /\ running[h] \in Jobs
          /\ m \in LocalMailboxes(running[h])
          /\ Named(running[h]) => ~HasMessage(running[h], m)
        BY <1>5, <1>t, CommitAddsOne
    <2>2. AbstractWork[running[h]] # "none"
        BY <1>5, <1>t, <2>1 DEF AbstractWork, WorkOf, JobsTracked, StoreCopy, AtMailbox
    <2>3. AbstractReply' = AbstractReply /\ AbstractWork' = AbstractWork
        BY <1>5 DEF StoreCopy, AbstractReply, AbstractWork, ReplyOf, WorkOf
    <2> QED
        BY <1>5, <2>1, <2>2, <2>3 DEF Contract!Deliver, Contract!HasMessage, Contract!AddCopy,
            Contract!LocalMailboxes, LocalMailboxes, Contract!Named, Named,
            Contract!SameMessage, SameMessage, Contract!OneMore, OneMore,
            StoreCopy, HasMessage, AbstractReply, AbstractWork
<1>6. ASSUME NEW h \in Handlers, Ack(h)
      PROVE  Contract!Finish(running[h]) \/ UNCHANGED Contract!contractVars
    <2>1. running[h] \in Jobs /\ AbstractReply' = AbstractReply
        BY <1>6, <1>t DEF Ack, TypeOK, AbstractReply, ReplyOf
    <2>2. CASE running[h] \in acked
        <3>1. UNCHANGED <<stream, acked, copies>> /\ \A j \in Jobs : ReplyOf(j)' = ReplyOf(j)
            BY <1>6, <1>t, <2>2 DEF Ack, JobsTracked, TypeOK, ReplyOf
        <3> QED
            BY <3>1, StutterStep
    <2>3. CASE running[h] \notin acked
        <3>1. AbstractWork[running[h]] = "held"
            BY <1>6, <1>t, <2>1, <2>3 DEF JobsTracked, AbstractWork, WorkOf, Ack
        <3>2. AbstractWork' = [AbstractWork EXCEPT ![running[h]] = "done"]
            BY <1>6, <1>t, <2>1 DEF AbstractWork, WorkOf, Ack, TypeOK
        <3>3. \A m \in LocalMailboxes(running[h]) : copies[running[h]][m] > 0
            BY <1>6, <2>1, AckStep, <2>3 DEF IInv, AckedMeansDelivered, Ack
        <3> QED
            BY <1>6, <2>1, <3>1, <3>2, <3>3 DEF Contract!Finish, Contract!LocalMailboxes, LocalMailboxes, AbstractReply, AbstractWork, Ack
    <2> QED
        BY <2>2, <2>3
<1>7. CASE UNCHANGED <<intake, stream, acked, copies>>
    BY <1>7, StutterStep DEF ReplyOf
<1> QED
    <2>1. \/ \E j \in Jobs : Data(j) \/ IntakeCrash(j)
          \/ \E j \in Jobs : StagingFails(j) \/ PublishFails(j) \/ PublishUnconfirmed(j)
          \/ \E j \in Jobs : Publish(j)
          \/ \E j \in Jobs : AcceptData(j)
          \/ \E h \in Handlers, m \in Mailboxes : StoreCopy(h, m)
          \/ \E h \in Handlers : Ack(h)
          \/ UNCHANGED <<intake, stream, acked, copies>>
        BY DEF Next, Intake, Handle, Walk, Interrupt, vars, StageAttachments, Push, Redeliver, Take,
            StoreConflicts, StoreFails, FinishCopy, QuotaFails, HandlerCrash, Nak
    <2>2. ASSUME NEW h \in Handlers, NEW m \in Mailboxes, StoreCopy(h, m)
          PROVE  running[h] \in Jobs
        BY <2>2, <1>t, CommitAddsOne
    <2>3. ASSUME NEW h \in Handlers, Ack(h) PROVE running[h] \in Jobs
        BY <2>3, <1>t DEF Ack, TypeOK
    <2> QED
        BY <1>1, <1>2, <1>3, <1>4, <1>5, <1>6, <1>7, <2>1, <2>2, <2>3 DEF Contract!ContractNext

\* Staging, the work queue, redelivery, crashes and concurrent handlers together
\* do nothing that the contract of inbound mail forbids.
THEOREM DeliveryImplementsContract == Spec => ImplementsContract
<1>1. Spec => Contract!ContractInit /\ [][Contract!ContractNext]_(Contract!contractVars)
    BY ContractInitially, ContractStep, InvCorrect, PTL DEF Spec
<1> QED
    BY <1>1 DEF ImplementsContract, Contract!ContractSpec
=============================================================================
