--------------------------- MODULE IntakeContract ---------------------------
(***************************************************************************)
(* What inbound SMTP promises, without its machinery: a DATA transaction   *)
(* becomes a held job, only the local mailboxes of its envelope get the    *)
(* message, at most once if it has a Message-ID, a job is finished only    *)
(* when all of them have a copy, and the client hears 250 only about a job *)
(* that is held.                                                           *)
(*                                                                         *)
(* Staging, the stream, acknowledgements, redelivery, handlers and crashes *)
(* are in Delivery.tla, which implements this module.                      *)
(***************************************************************************)
EXTENDS MailEnvelope

VARIABLES
    reply,   \* what the SMTP client heard about a job
    work,    \* whether the service holds the job
    copies   \* copies[j][m]: rows of emails that job j wrote in mailbox m

contractVars == <<reply, work, copies>>

\* Mailbox m already stores the message of job j, written by j or by another
\* job that carries the same Message-ID.
HasMessage(j, m) ==
    \E i \in Jobs : SameMessage(i, j) /\ copies[i][m] > 0

AddCopy(j, m) == copies' = [copies EXCEPT ![j][m] = OneMore(@)]

-----------------------------------------------------------------------------

ContractInit ==
    /\ reply = [j \in Jobs |-> "none"]
    /\ work = [j \in Jobs |-> "none"]
    /\ copies = [j \in Jobs |-> [m \in Mailboxes |-> 0]]

Hold(j) ==
    /\ work[j] = "none"
    /\ reply[j] = "none"
    /\ work' = [work EXCEPT ![j] = "held"]
    /\ UNCHANGED <<reply, copies>>

Accept(j) ==
    /\ reply[j] = "none"
    /\ work[j] # "none"
    /\ reply' = [reply EXCEPT ![j] = "ok"]
    /\ UNCHANGED <<work, copies>>

\* A refusal promises nothing: the client cannot tell whether the job is held.
Refuse(j) ==
    /\ reply[j] = "none"
    /\ reply' = [reply EXCEPT ![j] = "error"]
    /\ UNCHANGED <<work, copies>>

\* A message without a Message-ID may arrive again, even late.
Deliver(j, m) ==
    /\ work[j] # "none"
    /\ m \in LocalMailboxes(j)
    /\ Named(j) => ~HasMessage(j, m)
    /\ AddCopy(j, m)
    /\ UNCHANGED <<reply, work>>

Finish(j) ==
    /\ work[j] = "held"
    /\ \A m \in LocalMailboxes(j) : copies[j][m] > 0
    /\ work' = [work EXCEPT ![j] = "done"]
    /\ UNCHANGED <<reply, copies>>

ContractNext ==
    \E j \in Jobs :
        \/ Hold(j)
        \/ Accept(j)
        \/ Refuse(j)
        \/ \E m \in Mailboxes : Deliver(j, m)
        \/ Finish(j)

ContractSpec == ContractInit /\ [][ContractNext]_contractVars
=============================================================================
