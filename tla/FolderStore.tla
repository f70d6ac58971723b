---------------------------- MODULE FolderStore ----------------------------
(***************************************************************************)
(* One mailbox as its three kinds of client share it.  The HTTP app lists  *)
(* by the column emails.folder; IMAP, POP3 and JMAP list the rows of       *)
(* folder_messages, one per folder and message, each with a UID and a      *)
(* mod-sequence.  Every operation that moves a message has to keep both    *)
(* sides, and all of them draw on the same per-folder counters.            *)
(*                                                                         *)
(* Code: internal/service/protocol_store.go and the folder half of         *)
(* internal/service/email.go.  A database transaction is one action here,  *)
(* and an operation that reads before its transaction is two: this module  *)
(* is about sequences of transactions.  FolderRows takes the transactions  *)
(* apart into statements and shows what they do to each other.  Of the     *)
(* flags of a row only \Deleted is kept, which EXPUNGE acts upon.          *)
(***************************************************************************)
EXTENDS Naturals, FiniteSets, FiniteSetsExt

CONSTANTS
    Emails,
    Folders,         \* the folders of mail_folders, by protocol name
    DefaultFolders,  \* those that emails.folder can name; the others come from JMAP
    Sessions,        \* requests that delete for good, running at the same time
    MaxChanges       \* bound of the mod-sequences that the folders count

ASSUME FolderAssumption ==
    /\ IsFiniteSet(Emails)
    /\ DefaultFolders \subseteq Folders
    /\ {"INBOX", "Trash"} \subseteq DefaultFolders
    /\ DefaultFolders \subseteq {"INBOX", "Sent", "Drafts", "Spam", "Trash", "Archive"}

VARIABLES
    folder,         \* emails.folder, "unstored" before and "purged" after the row exists
    uid,            \* uid[f][e] of e's row in f, 0 if there is none
    modSeq,         \* modSeq[f][e], 0 if there is none
    deleted,        \* deleted[f]: messages whose row in f carries \Deleted
    nextUID,        \* mail_folders.next_uid
    highestModSeq,  \* mail_folders.highest_mod_seq
    listed          \* listed[s]: what session s read before its transaction

rowVars == <<uid, modSeq, deleted>>
counterVars == <<nextUID, highestModSeq>>
vars == <<folder, rowVars, counterVars, listed>>

\* Columns, rows, counters and lists have their types.
TypeOK ==
    /\ folder \in [Emails -> DefaultFolders \cup {"unstored", "purged"}]
    /\ uid \in [Folders -> [Emails -> Nat]]
    /\ modSeq \in [Folders -> [Emails -> Nat]]
    /\ deleted \in [Folders -> SUBSET Emails]
    /\ nextUID \in [Folders -> Nat \ {0}]
    /\ highestModSeq \in [Folders -> Nat \ {0}]
    /\ listed \in [Sessions -> SUBSET Emails]

Init ==
    /\ folder = [e \in Emails |-> "unstored"]
    /\ uid = [f \in Folders |-> [e \in Emails |-> 0]]
    /\ modSeq = [f \in Folders |-> [e \in Emails |-> 0]]
    /\ deleted = [f \in Folders |-> {}]
    /\ nextUID = [f \in Folders |-> 1]
    /\ highestModSeq = [f \in Folders |-> 1]
    /\ listed = [s \in Sessions |-> {}]

-----------------------------------------------------------------------------

Rows(f) == {e \in Emails : uid[f][e] # 0}

FoldersOf(e) == {f \in Folders : uid[f][e] # 0}

Stored(e) == folder[e] \in DefaultFolders

\* The HTTP folder of a message appended to protocol folder f: a message
\* always has one, so a protocol-only folder becomes the inbox.
HttpFolder(f) == IF f \in DefaultFolders THEN f ELSE "INBOX"

\* The order in which the rows of S are numbered; the query that reads them
\* has no ORDER BY.
Rankings(S) ==
    {rank \in [S -> 1..Cardinality(S)] : \A d, e \in S : d # e => rank[d] # rank[e]}

\* Mutant: the UID counter is read but not advanced.
AddRowSameUid(f, e, isDeleted) ==
    /\ uid' = [uid EXCEPT ![f][e] = nextUID[f]]
    /\ modSeq' = [modSeq EXCEPT ![f][e] = highestModSeq[f] + 1]
    /\ deleted' = [deleted EXCEPT ![f] = IF isDeleted THEN @ \cup {e} ELSE @]
    /\ nextUID' = [nextUID EXCEPT ![f] = IF Rows(f) = {} THEN @ + 1 ELSE @]
    /\ highestModSeq' = [highestModSeq EXCEPT ![f] = @ + 1]

\* One new row under the next UID and mod-sequence of f.
AddRow(f, e, isDeleted) ==
    /\ uid' = [uid EXCEPT ![f][e] = nextUID[f]]
    /\ modSeq' = [modSeq EXCEPT ![f][e] = highestModSeq[f] + 1]
    /\ deleted' = [deleted EXCEPT ![f] = IF isDeleted THEN @ \cup {e} ELSE @]
    /\ nextUID' = [nextUID EXCEPT ![f] = @ + 1]
    /\ highestModSeq' = [highestModSeq EXCEPT ![f] = @ + 1]

-----------------------------------------------------------------------------
(* Arrival.                                                                 *)

\* ReceiveEmail, ImportEmails and SendEmail: the folder column and the row are
\* written in one transaction, and name the same folder.
Store(e, f) ==
    /\ folder[e] = "unstored"
    /\ f \in DefaultFolders \cap {"INBOX", "Spam", "Sent", "Drafts"}
    /\ folder' = [folder EXCEPT ![e] = f]
    /\ AddRow(f, e, FALSE)
    /\ UNCHANGED listed

\* ReceiveEmail of a DMARC report: machine mail that no protocol client lists.
StoreIntake(e) ==
    /\ folder[e] = "unstored"
    /\ folder' = [folder EXCEPT ![e] = "INBOX"]
    /\ UNCHANGED <<rowVars, counterVars, listed>>

\* AppendProtocolMessage.
AppendMessage(e, f, isDeleted) ==
    /\ folder[e] = "unstored"
    /\ folder' = [folder EXCEPT ![e] = HttpFolder(f)]
    /\ AddRow(f, e, isDeleted)
    /\ UNCHANGED listed

-----------------------------------------------------------------------------
(* Protocol clients.  S is what is left in folder `from` of the messages    *)
(* the client listed, so it may be empty.                                   *)

Numbered(row, base, S, rank) ==
    [e \in Emails |-> IF e \in S THEN base + rank[e] ELSE row[e]]

Without(row, S) == [e \in Emails |-> IF e \in S THEN 0 ELSE row[e]]

\* Both need rows to read and no row of the same message in `to`, where the
\* primary key would abort the transaction.
CanTransfer(S, from, to) ==
    /\ from # to
    /\ S \subseteq Rows(from)
    /\ S \cap Rows(to) = {}

\* Mutant: a move of rows leaves emails.folder as it was.
FiledNever(S, to) == folder

\* updateEmailFolderTx for the messages of S: protocol-only folders have no
\* HTTP folder to record.
Filed(S, to) ==
    [e \in Emails |-> IF e \in S /\ to \in DefaultFolders THEN to ELSE folder[e]]

\* MoveProtocolMessages: a MOVE, an EXPUNGE or a JMAP destroy outside Trash, a
\* JMAP change of mailbox, or a POP3 DELE. Flags move along, \Deleted included.
Move(S, from, to) ==
    /\ CanTransfer(S, from, to)
    /\ \E rank \in Rankings(S) :
        /\ uid' = [uid EXCEPT ![to] = Numbered(@, nextUID[to] - 1, S, rank),
                              ![from] = Without(@, S)]
        /\ modSeq' = [modSeq EXCEPT ![to] = Numbered(@, highestModSeq[to], S, rank),
                                    ![from] = Without(@, S)]
    /\ deleted' = [deleted EXCEPT ![to] = @ \cup (S \cap deleted[from]), ![from] = @ \ S]
    /\ nextUID' = [nextUID EXCEPT ![to] = @ + Cardinality(S)]
    /\ highestModSeq' = [highestModSeq EXCEPT ![to] = @ + Cardinality(S), ![from] = @ + 1]
    /\ folder' = Filed(S, to)
    /\ UNCHANGED listed

\* CopyProtocolMessages: a second row of the same message, which leaves
\* emails.folder alone.
Copy(S, from, to) ==
    /\ S # {}
    /\ CanTransfer(S, from, to)
    /\ \E rank \in Rankings(S) :
        /\ uid' = [uid EXCEPT ![to] = Numbered(@, nextUID[to] - 1, S, rank)]
        /\ modSeq' = [modSeq EXCEPT ![to] = Numbered(@, highestModSeq[to], S, rank)]
    /\ deleted' = [deleted EXCEPT ![to] = @ \cup (S \cap deleted[from])]
    /\ nextUID' = [nextUID EXCEPT ![to] = @ + Cardinality(S)]
    /\ highestModSeq' = [highestModSeq EXCEPT ![to] = @ + Cardinality(S)]
    /\ UNCHANGED <<folder, listed>>

\* StoreProtocolFlags: sets or clears \Deleted, or touches other flags only.
StoreFlags(S, f) ==
    /\ S # {}
    /\ S \subseteq Rows(f)
    /\ \E after \in {deleted[f] \cup S, deleted[f] \ S, deleted[f]} :
        deleted' = [deleted EXCEPT ![f] = after]
    /\ \E rank \in Rankings(S) :
        modSeq' = [modSeq EXCEPT ![f] = Numbered(@, highestModSeq[f], S, rank)]
    /\ highestModSeq' = [highestModSeq EXCEPT ![f] = @ + Cardinality(S)]
    /\ UNCHANGED <<folder, uid, nextUID, listed>>

-----------------------------------------------------------------------------
(* HTTP clients.                                                            *)

\* Mutant: only a message without rows gets one.
GainedWhenLost(e, f) == IF FoldersOf(e) = {} THEN {f} ELSE {}

\* Folders that get a row of e when it is filed into f.
Gained(e, f) == {f} \ FoldersOf(e)

\* Folders whose row of e goes away.
Lost(e, f) == FoldersOf(e) \ {f}

\* moveEmailFolderTx, for MoveEmail and DeleteEmail: takes e out of every
\* other folder, files it into f unless it is there, sets emails.folder. The
\* new row inherits the flags of one of the old ones.
HttpMove(e, f) ==
    LET lost == Lost(e, f)
        gained == Gained(e, f)
    IN  /\ Stored(e)
        /\ f \in DefaultFolders
        /\ folder' = [folder EXCEPT ![e] = f]
        /\ uid' = [g \in Folders |-> [uid[g] EXCEPT ![e] =
                IF g \in lost THEN 0 ELSE IF g \in gained THEN nextUID[g] ELSE @]]
        /\ modSeq' = [g \in Folders |-> [modSeq[g] EXCEPT ![e] =
                IF g \in lost THEN 0 ELSE IF g \in gained THEN highestModSeq[g] + 1 ELSE @]]
        /\ \E isDeleted \in BOOLEAN :
            /\ IF FoldersOf(e) = {}
               THEN ~isDeleted
               ELSE \E g \in FoldersOf(e) : isDeleted <=> e \in deleted[g]
            /\ deleted' = [g \in Folders |->
                IF g \in lost THEN deleted[g] \ {e}
                ELSE IF g \in gained /\ isDeleted THEN deleted[g] \cup {e} ELSE deleted[g]]
        /\ nextUID' = [g \in Folders |-> nextUID[g] + (IF g \in gained THEN 1 ELSE 0)]
        /\ highestModSeq' =
            [g \in Folders |-> highestModSeq[g] + (IF g \in lost \cup gained THEN 1 ELSE 0)]
        /\ UNCHANGED listed

-----------------------------------------------------------------------------
(* Deleting for good.                                                       *)

\* Mutant: folders do not count the messages they lost.
PurgeQuietly(S) ==
    /\ folder' = [e \in Emails |-> IF e \in S THEN "purged" ELSE folder[e]]
    /\ uid' = [f \in Folders |-> [e \in Emails |-> IF e \in S THEN 0 ELSE uid[f][e]]]
    /\ modSeq' = [f \in Folders |-> [e \in Emails |-> IF e \in S THEN 0 ELSE modSeq[f][e]]]
    /\ deleted' = [f \in Folders |-> deleted[f] \ S]
    /\ UNCHANGED <<nextUID, highestModSeq>>

\* Mutant: UIDs of purged messages are given out again.
PurgeReclaimsUids(S) ==
    /\ folder' = [e \in Emails |-> IF e \in S THEN "purged" ELSE folder[e]]
    /\ uid' = [f \in Folders |-> [e \in Emails |-> IF e \in S THEN 0 ELSE uid[f][e]]]
    /\ modSeq' = [f \in Folders |-> [e \in Emails |-> IF e \in S THEN 0 ELSE modSeq[f][e]]]
    /\ deleted' = [f \in Folders |-> deleted[f] \ S]
    /\ highestModSeq' = [f \in Folders |-> highestModSeq[f] + Cardinality(S \cap Rows(f))]
    /\ nextUID' = [f \in Folders |-> IF Rows(f) \subseteq S THEN 1 ELSE nextUID[f]]

\* purgeEmailRows for each message of S: rows in all folders go, and each
\* folder counts one mod-sequence per message it lost.
PurgeRows(S) ==
    /\ folder' = [e \in Emails |-> IF e \in S THEN "purged" ELSE folder[e]]
    /\ uid' = [f \in Folders |-> [e \in Emails |-> IF e \in S THEN 0 ELSE uid[f][e]]]
    /\ modSeq' = [f \in Folders |-> [e \in Emails |-> IF e \in S THEN 0 ELSE modSeq[f][e]]]
    /\ deleted' = [f \in Folders |-> deleted[f] \ S]
    /\ highestModSeq' = [f \in Folders |-> highestModSeq[f] + Cardinality(S \cap Rows(f))]
    /\ UNCHANGED nextUID

\* DeleteEmailPermanently, and PurgeArchivedEmails for each message it finds.
DeletePermanently(e) ==
    /\ Stored(e)
    /\ PurgeRows({e})
    /\ UNCHANGED listed

List(s, S) ==
    /\ listed[s] = {}
    /\ S # {}
    /\ listed' = [listed EXCEPT ![s] = S]
    /\ UNCHANGED <<folder, rowVars, counterVars>>

\* EmptyTrash lists the mailbox's Trash by emails.folder.
ListTrash(s) == List(s, {e \in Emails : folder[e] = "Trash"})

\* PurgeProtocolMessages keeps of the client's messages those with a row in
\* Trash: the flagged ones for an EXPUNGE, any for a JMAP destroy.
ListExpunged(s) == \E S \in SUBSET Rows("Trash") : List(s, S)

\* The transaction of either, on what it read before.
Purge(s) ==
    /\ listed[s] # {}
    /\ PurgeRows(listed[s])
    /\ listed' = [listed EXCEPT ![s] = {}]

\* The transaction fails, or the process dies before it.
Abandon(s) ==
    /\ listed[s] # {}
    /\ listed' = [listed EXCEPT ![s] = {}]
    /\ UNCHANGED <<folder, rowVars, counterVars>>

-----------------------------------------------------------------------------

Arrive(e) ==
    \/ \E f \in Folders : Store(e, f)
    \/ StoreIntake(e)
    \/ \E f \in Folders, isDeleted \in BOOLEAN : AppendMessage(e, f, isDeleted)

ProtocolChange ==
    \E S \in SUBSET Emails, f \in Folders :
        \/ \E to \in Folders : Move(S, f, to) \/ Copy(S, f, to)
        \/ StoreFlags(S, f)

Bounded ==
    MapThenSumSet(LAMBDA f : highestModSeq[f] - 1, Folders) <= MaxChanges

Next ==
    /\ \/ \E e \in Emails : Arrive(e)
       \/ ProtocolChange
       \/ \E e \in Emails, f \in Folders : HttpMove(e, f)
       \/ \E e \in Emails : DeletePermanently(e)
       \/ \E s \in Sessions : ListTrash(s) \/ ListExpunged(s) \/ Purge(s) \/ Abandon(s)
    /\ Bounded'

Spec == Init /\ [][Next]_vars
-----------------------------------------------------------------------------
(* Safety                                                                   *)

\* Two messages of a folder never share a UID, and the next UID is free.
UidsAreSound ==
    \A f \in Folders :
        /\ \A e \in Rows(f) : uid[f][e] < nextUID[f]
        /\ \A d, e \in Rows(f) : d # e => uid[f][d] # uid[f][e]

\* A client that cached a message under its UID never finds another one there:
\* a row keeps its UID for life, and a row that appears, be it of a message
\* that was in the folder before, has a UID the folder never gave out.
UidsAreNeverReused ==
    [][\A f \in Folders :
        /\ nextUID'[f] >= nextUID[f]
        /\ \A e \in Emails :
            uid'[f][e] # uid[f][e] =>
                \/ uid'[f][e] = 0
                \/ uid[f][e] = 0 /\ uid'[f][e] >= nextUID[f] /\ uid'[f][e] < nextUID'[f]]_vars

\* What a protocol client sees of message e in folder f.
View(f, e) == <<uid[f][e], modSeq[f][e], e \in deleted[f]>>

\* A client that remembers the mod-sequence of a folder notices every change:
\* one that adds, changes or removes a row raises highest_mod_seq, and the rows
\* added or changed are above every mod-sequence the folder had reported.
ChangesAreVisible ==
    [][\A f \in Folders :
        /\ highestModSeq'[f] >= highestModSeq[f]
        /\ \A e \in Emails :
            View(f, e)' # View(f, e) =>
                /\ highestModSeq'[f] > highestModSeq[f]
                /\ uid'[f][e] # 0 =>
                    modSeq'[f][e] > highestModSeq[f] /\ modSeq'[f][e] <= highestModSeq'[f]]_vars

\* A message that protocol clients find in one folder is shown in that folder by
\* the HTTP app, whatever moves, copies and JMAP folders it went through. What
\* a COPY has put in two folders, or a move in a protocol-only one, the app
\* shows in one of those it was in.
SidesAgree ==
    \A e \in Emails, f \in DefaultFolders : FoldersOf(e) = {f} => folder[e] = f

\* A message that protocol clients can list stays listed until it is deleted
\* for good: no move or copy makes it drop out of every folder.
NoMessageDropsOut ==
    [][\A e \in Emails : FoldersOf(e) # {} /\ FoldersOf(e)' = {} => ~Stored(e)']_vars

(* What the documentation says and the code does not keep.                  *)

\* EmptyTrash removes every message a mailbox keeps in Trash, and
\* PurgeProtocolMessages ignores IDs that are not in its folder: neither deletes
\* for good a message that has left Trash on both sides.
PurgeTakesTrashOnly ==
    [][\A s \in Sessions, e \in Emails :
        Purge(s) /\ e \in listed[s] /\ Stored(e)
            => folder[e] = "Trash" \/ uid["Trash"][e] # 0]_vars
=============================================================================
