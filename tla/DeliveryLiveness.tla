-------------------------- MODULE DeliveryLiveness --------------------------
(***************************************************************************)
(* What becomes of accepted mail in the end, if JetStream keeps pushing,   *)
(* the handlers keep working and the interruptions of their walks end.     *)
(*                                                                         *)
(* Code: handle and deliverJob of internal/smtp/queue.go, with the unique  *)
(* index of internal/database/db.go.                                       *)
(***************************************************************************)
EXTENDS Delivery

VARIABLE calm   \* the database and the processes fail no more

Undisturbed ==
    \/ \E j \in Jobs : Intake(j) \/ Push(j) \/ Redeliver(j)
    \/ \E h \in Handlers : Walk(h) \/ \E j \in Jobs : Take(h, j)

\* A walk may be interrupted at any point and any number of times before.
Disturbed == ~calm /\ \E h \in Handlers : Interrupt(h)

CalmDown ==
    /\ ~calm
    /\ calm' = TRUE
    /\ UNCHANGED vars

LiveNext ==
    \/ (Undisturbed \/ Disturbed) /\ UNCHANGED calm
    \/ CalmDown

\* JetStream keeps pushing and redelivering, each pushed job gets its turn even
\* if others come back again and again, and a callback that runs goes on.
Fairness ==
    /\ \A j \in Jobs :
        /\ WF_vars(StageAttachments(j) \/ Publish(j) \/ AcceptData(j))
        /\ WF_vars(Push(j) \/ Redeliver(j))
        /\ SF_vars(\E h \in Handlers : Take(h, j))
    /\ \A h \in Handlers : WF_vars(Walk(h))
    /\ WF_calm(CalmDown)

FairSpec == Init /\ calm = FALSE /\ [][LiveNext]_<<vars, calm>> /\ Fairness

-----------------------------------------------------------------------------

\* No handler is past the first mailbox of j, and that one stores the message
\* already, either as j's own copy, of a walk that was interrupted, or as the
\* copy of another transmission: from now on each try ends at the unique index.
Stuck(j) ==
    /\ j \in stream \cap pending
    /\ \E m \in Mailboxes : IsNext(j, {}, m) /\ IsTaken(j, m)
    /\ \A h \in Handlers :
        running[h] = j => seen[h] = {} /\ storing[h] = NoMailbox

\* Jobs that are stuck take up the whole of MaxAckPending.
Clogged == Cardinality({j \in Jobs : Stuck(j)}) >= MaxAckPending

\* An accepted job leaves the work queue, by way of all its mailboxes, whatever
\* failed on the way (handle, deliverJob). Two things only keep it there for
\* ever: a first mailbox that stores the message already, and as many such jobs
\* as MaxAckPending has places. Fewer of them hold up no other mail.
AcceptedJobsFinish ==
    \A j \in Jobs :
        intake[j] = "accepted" ~> j \in acked \/ Stuck(j) \/ Clogged
=============================================================================
