------------------------------ MODULE MailImport ------------------------------
(***************************************************************************)
(* The import of a batch of messages into a mailbox.  Items are taken one  *)
(* after the other: an item whose Message-ID the batch or the mailbox has  *)
(* already is a duplicate; otherwise its attachments are resolved, its     *)
(* conversation is chosen from the reply headers, and it is inserted in a  *)
(* transaction of its own, where a unique index has the last word.  An     *)
(* item that fails is reported and the batch goes on.  Mail keeps arriving *)
(* meanwhile.                                                              *)
(*                                                                         *)
(* Code: ImportEmails of internal/service/import.go; findThreadByMessageID *)
(* of internal/service/email.go.                                           *)
(***************************************************************************)
EXTENDS Naturals, Sequences

CONSTANTS
    Ids,       \* Message-IDs of the items
    NoId,      \* of an item that answers no message
    Arriving,  \* those of mail that may come in during the import
    MaxItems   \* bound on the items of a batch

ASSUME ImportAssumption == NoId \notin Ids /\ Arriving \subseteq Ids /\ MaxItems \in Nat \ {0}

VARIABLES
    batch,         \* the items: [id, parent]
    mode,          \* dedupe: "message_id" or "off"
    item,          \* the item being imported
    step,          \* what is next for it
    thread,        \* the conversation chosen for it
    seen,          \* Message-IDs past the duplicate check
    batchThreads,  \* batchThreads[i]: conversation of the item with Message-ID i
    referenced,    \* referenced[i]: conversation of the first item that answers i
    report,        \* the statuses of the items so far
    stored         \* stored[i]: the conversation of the message i in the mailbox

importVars == <<batch, mode, item, step, thread, seen, batchThreads, referenced, report, stored>>

NoThread == <<>>
Threads == {<<"item", n>> : n \in 1 .. MaxItems} \cup {<<"mail", i>> : i \in Ids}
Items == {x \in [id : Ids, parent : Ids \cup {NoId}] : x.id # x.parent}

ImportTypeOK ==
    /\ Len(batch) <= MaxItems /\ batch \in Seq(Items)
    /\ mode \in {"message_id", "off"}
    /\ item \in 1 .. MaxItems + 1
    /\ step \in {"idle", "check", "resolve", "chain", "insert", "done"}
    /\ thread \in Threads \cup {NoThread}
    /\ seen \subseteq Ids
    /\ batchThreads \in [Ids -> Threads \cup {NoThread}]
    /\ referenced \in [Ids -> Threads \cup {NoThread}]
    /\ report \in Seq({"imported", "duplicate", "failed"})
    /\ stored \in [Ids -> Threads \cup {NoThread}]

ImportInit ==
    /\ batch = <<>>
    /\ mode \in {"message_id", "off"}
    /\ item = 1
    /\ step = "idle"
    /\ thread = NoThread
    /\ seen = {}
    /\ batchThreads = [i \in Ids |-> NoThread]
    /\ referenced = [i \in Ids |-> NoThread]
    /\ report = <<>>
    /\ stored = [i \in Ids |-> NoThread]

Id == batch[item].id
Parent == batch[item].parent

\* continue: the status of the item, and the next one.
Reported(outcome) ==
    /\ report' = Append(report, outcome)
    /\ item' = item + 1
    /\ thread' = NoThread
    /\ step' = IF item = Len(batch) THEN "done" ELSE "check"

-----------------------------------------------------------------------------

StartImport(b) ==
    /\ step = "idle"
    /\ batch' = b
    /\ step' = "check"
    /\ UNCHANGED <<mode, item, thread, seen, batchThreads, referenced, report, stored>>

\* ReceiveEmail: another message, or another copy of one of the batch.
ReceiveMail(i, p) ==
    /\ step # "done"
    /\ stored[i] = NoThread
    /\ stored' = [stored EXCEPT ![i] =
            IF p # NoId /\ stored[p] # NoThread THEN stored[p] ELSE <<"mail", i>>]
    /\ UNCHANGED <<batch, mode, item, step, thread, seen, batchThreads, referenced, report>>

CheckDuplicate ==
    /\ step = "check"
    /\ mode = "message_id"
    /\ Id \in seen \/ stored[Id] # NoThread
    /\ Reported("duplicate")
    /\ UNCHANGED <<batch, mode, seen, batchThreads, referenced, stored>>

CheckNew ==
    /\ step = "check"
    /\ mode = "message_id" => Id \notin seen /\ stored[Id] = NoThread
    /\ seen' = IF mode = "message_id" THEN seen \cup {Id} ELSE seen
    /\ step' = "resolve"
    /\ UNCHANGED <<batch, mode, item, thread, batchThreads, referenced, report, stored>>

\* The mailbox may not be the caller's, the count or an attachment may fail, and
\* so may the search for the conversation.
ItemFails ==
    /\ step \in {"check", "resolve", "chain"}
    /\ Reported("failed")
    /\ UNCHANGED <<batch, mode, seen, batchThreads, referenced, stored>>

ResolveAttachments ==
    /\ step = "resolve"
    /\ step' = "chain"
    /\ UNCHANGED <<batch, mode, item, thread, seen, batchThreads, referenced, report, stored>>

\* The conversation of the message answered, as the batch knows it or else as
\* the mailbox does; or the one that an earlier answer to this item has started;
\* or a new one.
Conversation ==
    LET answered(f) == Parent # NoId /\ f[Parent] # NoThread
    IN IF answered(batchThreads) THEN batchThreads[Parent]
       ELSE IF answered(stored) THEN stored[Parent]
       ELSE IF referenced[Id] # NoThread THEN referenced[Id]
       ELSE <<"item", item>>

Chain ==
    /\ step = "chain"
    /\ thread' = Conversation
    /\ referenced' = [i \in Ids |->
            IF i = Parent /\ batchThreads[i] = NoThread /\ referenced[i] = NoThread
            THEN Conversation ELSE referenced[i]]
    /\ batchThreads' = [batchThreads EXCEPT ![Id] = Conversation]
    /\ step' = "insert"
    /\ UNCHANGED <<batch, mode, item, seen, report, stored>>

Insert ==
    /\ step = "insert"
    /\ stored[Id] = NoThread
    /\ stored' = [stored EXCEPT ![Id] = thread]
    /\ Reported("imported")
    /\ UNCHANGED <<batch, mode, seen, batchThreads, referenced>>

\* The index refuses it.
InsertDuplicate ==
    /\ step = "insert"
    /\ stored[Id] # NoThread
    /\ Reported("duplicate")
    /\ UNCHANGED <<batch, mode, seen, batchThreads, referenced, stored>>

\* Mutant: any error of the insert counts as a duplicate.
InsertFailsUnseen ==
    /\ step = "insert"
    /\ Reported("duplicate")
    /\ UNCHANGED <<batch, mode, seen, batchThreads, referenced, stored>>

InsertFails ==
    /\ step = "insert"
    /\ Reported("failed")
    /\ UNCHANGED <<batch, mode, seen, batchThreads, referenced, stored>>

ImportNext ==
    \/ \E b \in UNION {[1 .. n -> Items] : n \in 1 .. MaxItems} : StartImport(b)
    \/ \E i \in Arriving, p \in Ids \cup {NoId} : ReceiveMail(i, p)
    \/ CheckDuplicate \/ CheckNew \/ ItemFails \/ ResolveAttachments \/ Chain
    \/ Insert \/ InsertDuplicate \/ InsertFails

ImportSpec == ImportInit /\ [][ImportNext]_importVars
-----------------------------------------------------------------------------

\* A user who retries what the result calls failed loses nothing: a message of
\* the batch that is not in the mailbox has an item that failed, although later
\* items with its Message-ID are called duplicates of the one that failed.
EveryLossIsReported ==
    step = "done" => \A n \in DOMAIN batch :
        \/ stored[batch[n].id] # NoThread
        \/ \E k \in DOMAIN batch : batch[k].id = batch[n].id /\ report[k] = "failed"
=============================================================================
