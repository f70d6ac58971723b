----------------------------- MODULE JmapMailboxes -----------------------------
(***************************************************************************)
(* The folders of a mailbox as JMAP clients manage them, while mail is     *)
(* filed and taken out.  Mailbox/set works outside transactions: it lists  *)
(* the folders, decides, and writes.  Delivery and the mail protocols lock *)
(* the folder row, and delivery creates the standard folders that are      *)
(* missing.  Rows of folder_messages may outlive their folder: no foreign  *)
(* key ties them.                                                          *)
(*                                                                         *)
(* Code: mailboxGet, mailboxQuery and mailboxSet of internal/jmap/handler.go;     *)
(* ensureProtocolFoldersTx and addFolderMembershipTx of                    *)
(* internal/service/protocol_store.go.                                     *)
(***************************************************************************)
EXTENDS Naturals, FiniteSets

CONSTANTS
    Rows,     \* rows of mail_folders, each used once
    Names,    \* folder names
    Lower,    \* Lower[n]: n in lower case
    Inbox,    \* the folder mail is filed in, one of defaultProtocolFolders
    Notes,    \* messages
    Devices,  \* JMAP requests
    MaxSeq    \* bound on mod-sequences

ASSUME MailboxesAssumption == Rows # {} /\ Inbox \in Names /\ MaxSeq \in Nat \ {0, 1}

VARIABLES
    row,     \* row[f]: "unused", "there" or "gone"
    called,  \* called[f]: its name
    high,    \* high[f]: highest_mod_seq
    filed,   \* <<f, e>>: rows of folder_messages
    device,  \* device[d]: what a request has read
    late     \* rows filed while a request that found the folder empty deletes it

mailboxVars == <<row, called, high, filed, device, late>>

Asleep == [at |-> "idle", row |-> CHOOSE f \in Rows : TRUE,
           name |-> CHOOSE n \in Names : TRUE, seq |-> 0]

MailboxesTypeOK ==
    /\ row \in [Rows -> {"unused", "there", "gone"}]
    /\ called \in [Rows -> Names]
    /\ high \in [Rows -> 0 .. MaxSeq]
    /\ filed \subseteq Rows \X Notes
    /\ device \in [Devices -> [at : {"idle", "create", "update", "count", "delete"},
                                row : Rows, name : Names, seq : 0 .. MaxSeq]]
    /\ late \subseteq Rows \X Notes

\* CreateMailbox makes the standard folders in its transaction, Inbox among them.
Standard == CHOOSE f \in Rows : TRUE

MailboxesInit ==
    /\ row = [f \in Rows |-> IF f = Standard THEN "there" ELSE "unused"]
    /\ called = [f \in Rows |-> Inbox]
    /\ high = [f \in Rows |-> IF f = Standard THEN 1 ELSE 0]
    /\ filed = {}
    /\ device = [d \in Devices |-> Asleep]
    /\ late = {}

There == {f \in Rows : row[f] = "there"}
Taken == {called[f] : f \in There}
Begin(d, at, f, n) == device' = [device EXCEPT ![d] =
    [at |-> at, row |-> f, name |-> n, seq |-> high[f]]]
End(d) == device' = [device EXCEPT ![d] = Asleep]

-----------------------------------------------------------------------------

\* Mailbox/set create: no folder has the name in any case, when listed.
AskCreate(d, n) ==
    /\ device[d].at = "idle"
    /\ \A m \in Taken : Lower[m] # Lower[n]
    /\ Begin(d, "create", CHOOSE f \in Rows : TRUE, n)
    /\ UNCHANGED <<row, called, high, filed, late>>

\* The unique index compares names as they are written.
InsertFolder(d, f) ==
    /\ device[d].at = "create"
    /\ device[d].name \notin Taken
    /\ row[f] = "unused"
    /\ row' = [row EXCEPT ![f] = "there"]
    /\ called' = [called EXCEPT ![f] = device[d].name]
    /\ high' = [high EXCEPT ![f] = 1]
    /\ End(d)
    /\ UNCHANGED <<filed, late>>

\* Mailbox/set update: the folder as listed.
AskUpdate(d, f, n) ==
    /\ device[d].at = "idle"
    /\ row[f] = "there"
    /\ Begin(d, "update", f, n)
    /\ UNCHANGED <<row, called, high, filed, late>>

\* UPDATE of the name and of the mod-sequence that was read, plus one. A folder
\* that is gone meanwhile is no error.
WriteUpdate(d) ==
    LET f == device[d].row IN
    /\ device[d].at = "update"
    /\ row[f] = "there" => device[d].name \notin {called[g] : g \in There \ {f}}
    /\ device[d].seq < MaxSeq
    /\ called' = [called EXCEPT ![f] = IF row[f] = "there" THEN device[d].name ELSE @]
    /\ high' = [high EXCEPT ![f] = IF row[f] = "there" THEN device[d].seq + 1 ELSE @]
    /\ End(d)
    /\ UNCHANGED <<row, filed, late>>

\* A write that the index or the database refuses is reported.
DeviceFails(d) ==
    /\ device[d].at # "idle"
    /\ End(d)
    /\ UNCHANGED <<row, called, high, filed, late>>

\* Mailbox/set destroy: the folder is listed,
AskDestroy(d, f) ==
    /\ device[d].at = "idle"
    /\ row[f] = "there"
    /\ Begin(d, "count", f, called[f])
    /\ UNCHANGED <<row, called, high, filed, late>>

\* Mutant: one message does not count.
NearlyEmpty(f) == Cardinality({e \in Notes : <<f, e>> \in filed}) <= 1

Empty(f) == \A e \in Notes : <<f, e>> \notin filed

\* its messages are counted,
CountMessages(d) ==
    /\ device[d].at = "count"
    /\ IF Empty(device[d].row) THEN device' = [device EXCEPT ![d].at = "delete"] ELSE End(d)
    /\ UNCHANGED <<row, called, high, filed, late>>

\* and it is deleted by its ID, whatever has been filed since.
DeleteFolder(d) ==
    /\ device[d].at = "delete"
    /\ row' = [row EXCEPT ![device[d].row] = "gone"]
    /\ End(d)
    /\ UNCHANGED <<called, high, filed, late>>

\* addFolderMembershipTx, in the transaction that stores the message: Inbox is
\* created when it is missing, and locked.
FileMail(e, f) ==
    /\ \A g \in Rows : <<g, e>> \notin filed
    /\ high[f] < MaxSeq
    /\ IF row[f] = "there" THEN called[f] = Inbox ELSE row[f] = "unused" /\ Inbox \notin Taken
    /\ row' = [row EXCEPT ![f] = "there"]
    /\ called' = [called EXCEPT ![f] = Inbox]
    /\ high' = [high EXCEPT ![f] = IF row[f] = "there" THEN @ + 1 ELSE 2]
    /\ filed' = filed \cup {<<f, e>>}
    /\ late' = IF \E d \in Devices : device[d].at = "delete" /\ device[d].row = f
               THEN late \cup {<<f, e>>} ELSE late
    /\ UNCHANGED device

\* A message moves away or is deleted.
TakeOut(f, e) ==
    /\ row[f] = "there"
    /\ <<f, e>> \in filed
    /\ high[f] < MaxSeq
    /\ filed' = filed \ {<<f, e>>}
    /\ high' = [high EXCEPT ![f] = @ + 1]
    /\ UNCHANGED <<row, called, device, late>>

MailboxesNext ==
    \/ \E d \in Devices :
        \/ \E n \in Names : AskCreate(d, n)
        \/ \E f \in Rows : InsertFolder(d, f) \/ AskDestroy(d, f)
        \/ \E f \in Rows, n \in Names : AskUpdate(d, f, n)
        \/ WriteUpdate(d) \/ CountMessages(d) \/ DeleteFolder(d) \/ DeviceFails(d)
    \/ \E f \in Rows, e \in Notes : FileMail(e, f) \/ TakeOut(f, e)

MailboxesSpec == MailboxesInit /\ [][MailboxesNext]_mailboxVars
-----------------------------------------------------------------------------

\* Mail that was in a folder when its messages were counted is never left behind
\* in a folder that is gone: only mail filed between the count and the deletion is.
DestroyTakesLateMailOnly ==
    \A f \in Rows, e \in Notes : <<f, e>> \in filed /\ row[f] = "gone" => <<f, e>> \in late

\* "UID and mod-sequence counters are advanced under a row lock" (models.go:312):
\* what a client has synchronised up to stays behind it. It does not hold: a
\* renamed folder gets the mod-sequence that was read before, plus one.
ModSeqsOnlyGrow ==
    [][\A f \in There : row'[f] = "there" => high'[f] >= high[f]]_mailboxVars
=============================================================================
