---------------------------- MODULE MailEnvelope ----------------------------
(***************************************************************************)
(* The inbound messages a model is about: one job per SMTP DATA            *)
(* transaction, its Message-ID, and the mailboxes its RCPT commands named. *)
(***************************************************************************)
EXTENDS Naturals, Sequences

CONSTANTS
    Jobs,         \* DATA transactions; each one gets a fresh job ID
    MessageIds,   \* RFC 5322 Message-IDs
    Mailboxes,    \* local mailboxes
    NoMailbox,    \* mailbox of an envelope address that did not resolve
    NoMessageId,  \* of a message that came without one
    MessageIdOf,  \* [Jobs -> MessageIds \cup {NoMessageId}]; two jobs may carry one message
    Envelope,     \* [Jobs -> Seq(Mailboxes \cup {NoMailbox})], in RCPT order
    MaxCopies     \* bound up to which the copies of a message are counted

ASSUME EnvelopeAssumption ==
    /\ MessageIdOf \in [Jobs -> MessageIds \cup {NoMessageId}]
    /\ NoMessageId \notin MessageIds
    /\ Envelope \in [Jobs -> Seq(Mailboxes \cup {NoMailbox})]
    /\ NoMailbox \notin Mailboxes
    /\ MaxCopies \in Nat /\ MaxCopies >= 2

\* The mailboxes a job must reach: those its envelope names. Addresses that
\* did not resolve at RCPT time are dropped.
LocalMailboxes(j) == {Envelope[j][k] : k \in DOMAIN Envelope[j]} \ {NoMailbox}

\* Only a message with a Message-ID can be told from another one.
Named(j) == MessageIdOf[j] # NoMessageId

SameMessage(i, j) == i = j \/ (Named(i) /\ MessageIdOf[i] = MessageIdOf[j])

OneMore(n) == IF n < MaxCopies THEN n + 1 ELSE n
=============================================================================
