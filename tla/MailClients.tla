---------------------------- MODULE MailClients ----------------------------
(***************************************************************************)
(* The protocol clients of a mailbox on top of FolderStore, whose Sessions  *)
(* are here the IMAP commands and JMAP calls that run at a time.  None of  *)
(* the three servers holds a lock between commands: POP3 works until QUIT  *)
(* on the listing it took at PASS, an IMAP command lists the folder, picks *)
(* its messages and changes them in a second transaction, and a JMAP call  *)
(* makes several transactions from one read.  HTTP clients and arriving    *)
(* mail come in between.                                                   *)
(*                                                                         *)
(* Code: internal/pop3/server.go, internal/imap/server.go, the Email       *)
(* methods and Upload of internal/jmap/handler.go, and                     *)
(* internal/service/jmap_helpers.go.  The transactions are those of        *)
(* FolderStore.  Of the flags only \Deleted is kept, as there.             *)
(***************************************************************************)
EXTENDS FolderStore, Sequences

CONSTANTS
    PopClients,   \* POP3 connections
    FirstFolder   \* the folder whose name comes first

ASSUME ClientsAssumption == FirstFolder \in Folders

VARIABLES
    pop,         \* pop[c]: listing and deletion marks of a POP3 session
    request      \* request[c]: what a command or call read and still has to do

clientVars == <<pop, request>>
allVars == <<vars, clientVars>>

NoSession == [open |-> FALSE, listing |-> <<>>, marked |-> {}]
NoFolder == "none"
NoRequest == [op |-> "none", ids |-> {}, from |-> NoFolder, to |-> NoFolder,
              uid |-> 0, flagged |-> FALSE]

Ops == {"none", "move", "copy", "flags", "delete", "purge", "patch", "import",
        "relocate", "reflag", "upload"}

Requests ==
    [op : Ops, ids : SUBSET Emails, from : Folders \cup {NoFolder},
     to : Folders \cup {NoFolder}, uid : Nat, flagged : BOOLEAN]

\* Sessions and requests have their types.
ClientsTypeOK ==
    /\ TypeOK
    /\ request \in [Sessions -> Requests]
    /\ \A c \in PopClients :
        /\ pop[c].open \in BOOLEAN
        /\ pop[c].listing \in Seq(Emails)
        /\ pop[c].marked \subseteq 1..Len(pop[c].listing)

ClientsInit ==
    /\ Init
    /\ pop = [c \in PopClients |-> NoSession]
    /\ request = [c \in Sessions |-> NoRequest]

-----------------------------------------------------------------------------
(* POP3.                                                                    *)

\* ListProtocolFolder: the rows of f in the order of their UIDs.
Listing(f) ==
    CHOOSE s \in [1..Cardinality(Rows(f)) -> Rows(f)] :
        \A i, j \in DOMAIN s : i < j => uid[f][s[i]] < uid[f][s[j]]

\* PASS.
Login(c) ==
    /\ ~pop[c].open
    /\ pop' = [pop EXCEPT ![c] =
            [open |-> TRUE, listing |-> Listing("INBOX"), marked |-> {}]]
    /\ UNCHANGED <<vars, request>>

\* Mutant: the mark is the message's index from 0.
DeleFromZero(c, n) ==
    /\ pop[c].open
    /\ n \in 1..Len(pop[c].listing) \ pop[c].marked
    /\ pop' = [pop EXCEPT ![c].marked = @ \cup {n - 1}]
    /\ UNCHANGED <<vars, request>>

Dele(c, n) ==
    /\ pop[c].open
    /\ n \in 1..Len(pop[c].listing) \ pop[c].marked
    /\ pop' = [pop EXCEPT ![c].marked = @ \cup {n}]
    /\ UNCHANGED <<vars, request>>

Rset(c) ==
    /\ pop[c].open
    /\ pop[c].marked # {}
    /\ pop' = [pop EXCEPT ![c].marked = {}]
    /\ UNCHANGED <<vars, request>>

\* The connection is lost: the marks go with it.
Drop(c) ==
    /\ pop[c].open
    /\ pop' = [pop EXCEPT ![c] = NoSession]
    /\ UNCHANGED <<vars, request>>

\* Mutant: the numbers are looked up in the mailbox as it is at QUIT.
MarkedNow(c) ==
    {Listing("INBOX")[n] : n \in pop[c].marked \cap 1..Cardinality(Rows("INBOX"))}

\* The messages behind the numbers the client gave to DELE.
Marked(c) == {pop[c].listing[n] : n \in pop[c].marked}

\* QUIT: one move to Trash of what is left of the marked messages in INBOX. It
\* aborts if Trash has a row of one of them, and the error is ignored. A
\* database that fails leaves what Drop leaves.
Quit(c) ==
    /\ pop[c].open
    /\ IF Marked(c) = {} \/ Marked(c) \cap Rows("INBOX") \cap Rows("Trash") # {}
       THEN UNCHANGED vars
       ELSE Move(Marked(c) \cap Rows("INBOX"), "INBOX", "Trash")
    /\ pop' = [pop EXCEPT ![c] = NoSession]
    /\ UNCHANGED request

-----------------------------------------------------------------------------
(* IMAP commands: the first step lists the folder and resolves the numbers  *)
(* or UIDs of the command to messages.                                      *)

Ask(c, r) ==
    /\ request[c] = NoRequest
    /\ request' = [request EXCEPT ![c] = r]
    /\ UNCHANGED <<vars, pop>>

Done(c) ==
    /\ request' = [request EXCEPT ![c] = NoRequest]
    /\ UNCHANGED pop

\* MOVE and COPY.
AskTransfer(c, S, from, to) ==
    /\ S # {}
    /\ S \subseteq Rows(from)
    /\ from # to
    /\ \E op \in {"move", "copy"} :
        Ask(c, [NoRequest EXCEPT !.op = op, !.ids = S, !.from = from, !.to = to])

\* STORE with \Deleted, to add or to remove it.
AskFlags(c, S, f) ==
    /\ S # {}
    /\ S \subseteq Rows(f)
    /\ \E on \in BOOLEAN :
        Ask(c, [NoRequest EXCEPT !.op = "flags", !.ids = S, !.from = f, !.flagged = on])

\* EXPUNGE.
AskExpunge(c, f) ==
    /\ deleted[f] # {}
    /\ Ask(c, [NoRequest EXCEPT !.op = "delete", !.ids = deleted[f], !.from = f])

\* What is left in its folder of the messages a request names.
Left(c) == request[c].ids \cap Rows(request[c].from)

Transfer(c) ==
    LET r == request[c] IN
    /\ \/ r.op = "move" /\ Move(Left(c), r.from, r.to)
       \/ r.op = "copy" /\ Copy(Left(c), r.from, r.to)
    /\ Done(c)

\* mergeFlags with "add" or "remove", for one flag; "replace" by a flag list
\* that has it, or has not, is the same for this flag.
SetDeleted(S, f, on) ==
    /\ StoreFlags(S, f)
    /\ deleted' = [deleted EXCEPT ![f] = IF on THEN @ \cup S ELSE @ \ S]

Flag(c) ==
    /\ request[c].op = "flags"
    /\ SetDeleted(Left(c), request[c].from, request[c].flagged)
    /\ Done(c)

-----------------------------------------------------------------------------
(* Deletion by IMAP and JMAP: DeleteProtocolMessages.                       *)

\* IsTrashFolderName: Trash exists to be emptied.
PurgesFrom(f) == f = "Trash"

\* Outside Trash the messages are filed into Trash.
FileIntoTrash(c) ==
    /\ request[c].op = "delete"
    /\ ~PurgesFrom(request[c].from)
    /\ Move(Left(c), request[c].from, "Trash")
    /\ Done(c)

\* PurgeProtocolMessages reads which of the messages are still there ...
NarrowPurge(c) ==
    /\ request[c].op = "delete"
    /\ PurgesFrom(request[c].from)
    /\ List(c, Left(c))
    /\ request' = [request EXCEPT ![c].op = "purge"]
    /\ UNCHANGED pop

\* ... and removes them from every folder.
CarryOutPurge(c) ==
    /\ request[c].op = "purge"
    /\ Purge(c)
    /\ Done(c)

-----------------------------------------------------------------------------
(* JMAP.                                                                    *)

\* What Email/set and Email/import find for a message: one of its rows, in no
\* particular order, with its flags.
FindRow(e) == {[from |-> f, flagged |-> e \in deleted[f]] : f \in FoldersOf(e)}

\* Email/set, update: a patch of keywords, of the mailbox, or of both.
AskPatch(c, e) ==
    \E row \in FindRow(e), to \in Folders \cup {NoFolder} :
        Ask(c, [NoRequest EXCEPT !.op = "patch", !.ids = {e}, !.to = to,
                                 !.from = row.from, !.flagged = row.flagged])

\* Email/set, destroy.
AskDestroy(c, e) ==
    \E row \in FindRow(e) :
        Ask(c, [NoRequest EXCEPT !.op = "delete", !.ids = {e}, !.from = row.from])

\* Email/import names the message that an upload stored, and may file it into
\* another folder.
AskImport(c, e) ==
    \E row \in FindRow(e), to \in Folders :
        Ask(c, [NoRequest EXCEPT !.op = "import", !.ids = {e}, !.from = row.from, !.to = to])

\* The patched keywords replace all flags of the row, those of other names by
\* what the call had read. A row that is gone is no error.
ReplaceFlags(c) ==
    LET r == request[c] IN
    /\ r.op = "patch"
    /\ IF Left(c) = {}
       THEN UNCHANGED vars
       ELSE SetDeleted(Left(c), r.from, r.flagged)
    /\ request' = [request EXCEPT ![c] =
            IF r.to \in {NoFolder, r.from} THEN NoRequest ELSE [@ EXCEPT !.op = "relocate"]]
    /\ UNCHANGED pop

\* The mailbox of the patch: the last transaction of the call.
Relocate(c) ==
    /\ request[c].op = "relocate"
    /\ Move(Left(c), request[c].from, request[c].to)
    /\ Done(c)

\* Email/import moves first, then gives the row the keywords of the request,
\* none of which is \Deleted.
FileImport(c) ==
    LET r == request[c] IN
    /\ r.op = "import"
    /\ IF r.from = r.to THEN UNCHANGED vars ELSE Move(Left(c), r.from, r.to)
    /\ request' = [request EXCEPT ![c].op = "reflag", ![c].from = r.to]
    /\ UNCHANGED pop

FlagImport(c) ==
    /\ request[c].op = "reflag"
    /\ IF Left(c) = {}
       THEN UNCHANGED vars
       ELSE SetDeleted(Left(c), request[c].from, FALSE)
    /\ Done(c)

\* Email/copy: CopyEmail makes a new message e of another one, in the first
\* folder of the mailbox.
CopyEmail(d, e) ==
    /\ FoldersOf(d) # {}
    /\ AppendMessage(e, FirstFolder, FALSE)
    /\ UNCHANGED clientVars

\* UploadMessage appends to INBOX, remembers the UID ...
Upload(c, e) ==
    /\ request[c] = NoRequest
    /\ AppendMessage(e, "INBOX", FALSE)
    /\ request' = [request EXCEPT ![c] =
            [NoRequest EXCEPT !.op = "upload", !.ids = {e}, !.from = "INBOX",
                              !.uid = nextUID["INBOX"]]]
    /\ UNCHANGED pop

\* ... and looks the message up by it. The blob it names, if there is any.
UploadedAs(c) == {e \in Emails : uid[request[c].from][e] = request[c].uid}

NameUpload(c) ==
    /\ request[c].op = "upload"
    /\ Done(c)
    /\ UNCHANGED vars

\* A transaction that fails, or finds a row of the message in its target; an
\* empty set of messages; the connection that is lost.
GiveUp(c) ==
    /\ request[c] # NoRequest
    /\ IF listed[c] = {} THEN UNCHANGED vars ELSE Abandon(c)
    /\ Done(c)

-----------------------------------------------------------------------------

PopStep(c) ==
    \/ Login(c) \/ Rset(c) \/ Drop(c) \/ Quit(c)
    \/ \E n \in 1..Cardinality(Emails) : Dele(c, n)

ImapStep(c) ==
    \/ \E S \in SUBSET Emails, f \in Folders :
        AskFlags(c, S, f) \/ \E to \in Folders : AskTransfer(c, S, f, to)
    \/ \E f \in Folders : AskExpunge(c, f)
    \/ Transfer(c) \/ Flag(c) \/ FileIntoTrash(c) \/ NarrowPurge(c) \/ CarryOutPurge(c)

JmapStep(c) ==
    \/ \E d, e \in Emails : CopyEmail(d, e)
    \/ \E e \in Emails : AskPatch(c, e) \/ AskDestroy(c, e) \/ AskImport(c, e) \/ Upload(c, e)
    \/ ReplaceFlags(c) \/ Relocate(c) \/ FileImport(c) \/ FlagImport(c) \/ NameUpload(c)

\* The HTTP app and SMTP.
OthersStep ==
    /\ \E e \in Emails :
        \/ \E f \in Folders : HttpMove(e, f) \/ Store(e, f)
        \/ DeletePermanently(e)
    /\ UNCHANGED clientVars

ClientsNext ==
    /\ \/ \E c \in PopClients : PopStep(c)
       \/ \E c \in Sessions : ImapStep(c) \/ JmapStep(c) \/ GiveUp(c)
       \/ OthersStep
    /\ Bounded'

ClientsSpec == ClientsInit /\ [][ClientsNext]_allVars
-----------------------------------------------------------------------------

\* QUIT deletes what its client has marked and nothing else: a message that
\* arrived, or took another's number, while the session was open stays.
QuitTakesMarkedOnly ==
    [][\A c \in PopClients : Quit(c) =>
        \A e \in Emails, f \in Folders : View(f, e)' # View(f, e) =>
            e \in {pop[c].listing[n] : n \in pop[c].marked}]_allVars

\* The blob ID that an upload returns is that of the message it stored,
\* whatever other clients did to INBOX before it looked the UID up.
UploadNamesItsMessage ==
    \A c \in Sessions : request[c].op = "upload" => UploadedAs(c) \subseteq request[c].ids
=============================================================================
