-------------------------- MODULE AttachmentFiles --------------------------
(***************************************************************************)
(* Attachment files of DysonFS and the rows that refer to them.  Several   *)
(* messages may share a file: the author sends one that is stored already, *)
(* or a JMAP client copies a message.  A purge commits the removal of its  *)
(* rows, and only then counts, file after file, who else refers to it, and *)
(* deletes what nobody does.  Nothing else ever looks for unused files.    *)
(*                                                                         *)
(* Code: purgeEmailRows, deleteUnreferencedAttachments and                 *)
(* resolveAttachmentReferences of internal/service/email.go, CopyEmail of  *)
(* jmap_helpers.go, and internal/filesystem/client.go.                     *)
(***************************************************************************)
EXTENDS Naturals, FiniteSets

CONSTANTS
    Letters,   \* messages
    Files,     \* file IDs
    Authors,   \* requests that store messages
    Purgers    \* requests and tickers that delete messages for good

VARIABLES
    onDisk,   \* files that DysonFS has
    letter,   \* letter[m]: "new", "stored" or "purged"
    names,    \* names[m]: the files of m's attachment rows, kept after a purge
    draft,    \* draft[a]: the files of the message that a is about to store
    todo,     \* todo[p]: files that p has still to look at
    doomed,   \* doomed[p]: files, one at most, that p found unused
    leaked,   \* files that a failed deletion or a crash left behind
    raced     \* raced[m]: files that were being deleted when m was stored

filesVars == <<onDisk, letter, names, draft, todo, doomed, leaked, raced>>

FilesTypeOK ==
    /\ onDisk \subseteq Files
    /\ letter \in [Letters -> {"new", "stored", "purged"}]
    /\ names \in [Letters -> SUBSET Files]
    /\ draft \in [Authors -> SUBSET Files]
    /\ todo \in [Purgers -> SUBSET Files]
    /\ doomed \in [Purgers -> SUBSET Files]
    /\ \A p \in Purgers : \A f, g \in doomed[p] : f = g
    /\ leaked \subseteq Files
    /\ raced \in [Letters -> SUBSET Files]

\* The files were uploaded to DysonFS by their owner.
FilesInit ==
    /\ onDisk = Files
    /\ letter = [m \in Letters |-> "new"]
    /\ names = [m \in Letters |-> {}]
    /\ draft = [a \in Authors |-> {}]
    /\ todo = [p \in Purgers |-> {}]
    /\ doomed = [p \in Purgers |-> {}]
    /\ leaked = {}
    /\ raced = [m \in Letters |-> {}]

\* Files with an attachment row.
Referenced == UNION {names[m] : m \in {n \in Letters : letter[n] = "stored"}}

-----------------------------------------------------------------------------

\* resolveAttachmentReferences, for a message that is sent or imported: every
\* file is opened once.
ResolveReferences(a, F) ==
    /\ draft[a] = {}
    /\ F # {}
    /\ F \subseteq onDisk
    /\ draft' = [draft EXCEPT ![a] = F]
    /\ UNCHANGED <<onDisk, letter, names, todo, doomed, leaked, raced>>

\* CopyEmail takes the rows of its source and opens no file.
ReadSource(a, m) ==
    /\ draft[a] = {}
    /\ letter[m] = "stored"
    /\ draft' = [draft EXCEPT ![a] = names[m]]
    /\ UNCHANGED <<onDisk, letter, names, todo, doomed, leaked, raced>>

\* The transaction that stores the message with its rows.
Save(a, m) ==
    /\ draft[a] # {}
    /\ letter[m] = "new"
    /\ letter' = [letter EXCEPT ![m] = "stored"]
    /\ names' = [names EXCEPT ![m] = draft[a]]
    /\ raced' = [raced EXCEPT ![m] =
            {f \in draft[a] : f \notin onDisk \/ \E p \in Purgers : f \in doomed[p]}]
    /\ draft' = [draft EXCEPT ![a] = {}]
    /\ UNCHANGED <<onDisk, todo, doomed, leaked>>

\* The request fails before its transaction commits.
Discard(a) ==
    /\ draft[a] # {}
    /\ draft' = [draft EXCEPT ![a] = {}]
    /\ UNCHANGED <<onDisk, letter, names, todo, doomed, leaked, raced>>

\* A transaction of purgeEmailRows: one message, or all that EmptyTrash,
\* PurgeProtocolMessages or PurgeArchivedEmails had listed.
PurgeLetters(p, S) ==
    /\ todo[p] = {} /\ doomed[p] = {}
    /\ S # {}
    /\ \A m \in S : letter[m] = "stored"
    /\ letter' = [m \in Letters |-> IF m \in S THEN "purged" ELSE letter[m]]
    /\ todo' = [todo EXCEPT ![p] = UNION {names[m] : m \in S}]
    /\ UNCHANGED <<onDisk, names, draft, doomed, leaked, raced>>

\* Mutant: one reference is taken for that of the purged message.
UnusedButOnce(f) == Cardinality({m \in Letters : letter[m] = "stored" /\ f \in names[m]}) <= 1

\* Mutant: rows of purged messages are counted too.
NeverUsed(f) == \A m \in Letters : f \notin names[m]

\* The count of attachment rows by storage key or file ID is zero.
Unused(f) == f \notin Referenced

CountReferences(p, f) ==
    /\ doomed[p] = {}
    /\ f \in todo[p]
    /\ todo' = [todo EXCEPT ![p] = @ \ {f}]
    /\ doomed' = [doomed EXCEPT ![p] = IF Unused(f) THEN {f} ELSE {}]
    /\ UNCHANGED <<onDisk, letter, names, draft, leaked, raced>>

\* A count that fails is logged; the file stays.
CountFails(p, f) ==
    /\ doomed[p] = {}
    /\ f \in todo[p]
    /\ todo' = [todo EXCEPT ![p] = @ \ {f}]
    /\ leaked' = leaked \cup {f}
    /\ UNCHANGED <<onDisk, letter, names, draft, doomed, raced>>

\* DeleteAttachment of a file that another purge has deleted fails, which is
\* logged.
DeleteFile(p) ==
    /\ doomed[p] # {}
    /\ onDisk' = onDisk \ doomed[p]
    /\ doomed' = [doomed EXCEPT ![p] = {}]
    /\ UNCHANGED <<letter, names, draft, todo, leaked, raced>>

DeleteFails(p) ==
    /\ doomed[p] # {}
    /\ leaked' = leaked \cup doomed[p]
    /\ doomed' = [doomed EXCEPT ![p] = {}]
    /\ UNCHANGED <<onDisk, letter, names, draft, todo, raced>>

\* The process ends after the commit, with files left to look at.
PurgerDies(p) ==
    /\ todo[p] \cup doomed[p] # {}
    /\ leaked' = leaked \cup todo[p] \cup doomed[p]
    /\ todo' = [todo EXCEPT ![p] = {}]
    /\ doomed' = [doomed EXCEPT ![p] = {}]
    /\ UNCHANGED <<onDisk, letter, names, draft, raced>>

FilesNext ==
    \/ \E a \in Authors :
        \/ \E F \in SUBSET Files : ResolveReferences(a, F)
        \/ \E m \in Letters : ReadSource(a, m) \/ Save(a, m)
        \/ Discard(a)
    \/ \E p \in Purgers :
        \/ \E S \in SUBSET Letters : PurgeLetters(p, S)
        \/ \E f \in Files : CountReferences(p, f) \/ CountFails(p, f)
        \/ DeleteFile(p) \/ DeleteFails(p) \/ PurgerDies(p)

FilesSpec == FilesInit /\ [][FilesNext]_filesVars
-----------------------------------------------------------------------------

\* No file stays behind unnoticed: one whose last row is gone is on some purge's
\* list, whichever of several purges of messages that share it came last, unless
\* a call failed or a process died on the way.
UnusedFilesAreCollected ==
    \A f \in onDisk :
        /\ f \notin Referenced
        /\ \E m \in Letters : letter[m] = "purged" /\ f \in names[m]
        => f \in leaked \/ \E p \in Purgers : f \in todo[p] \cup doomed[p]

\* A file that another message shares survives a purge: a stored message misses
\* a file only if that was being deleted, or was gone, when it was stored.
SharedFilesSurvive ==
    \A m \in Letters : letter[m] = "stored" => names[m] \subseteq onDisk \cup raced[m]
=============================================================================
