------------------------- MODULE MailClientsProofs -------------------------
(***************************************************************************)
(* What is proved of MailClients for every set of messages, folders and    *)
(* clients: that an upload names its own message, which needs the          *)
(* invariant of the store; that QUIT files what its client marked; and     *)
(* that what a client marks stays within its listing, which needs that     *)
(* there is one.                                                           *)
(***************************************************************************)
EXTENDS MailClients, FolderStoreProofs

-----------------------------------------------------------------------------
(* What the requests of the clients name.                                   *)

\* A request that will change rows names the folders they are in and go to.
FoldersNamed ==
    \A c \in Sessions :
        /\ request[c].op # "none" => request[c].from \in Folders
        /\ request[c].op \in {"move", "copy", "import", "relocate"} => request[c].to \in Folders

RequestsOK == request \in [Sessions -> Requests] /\ FoldersNamed

LEMMA LeftType == ASSUME NEW c \in Sessions PROVE Left(c) \in SUBSET Emails
BY DEF Left, Rows

LEMMA AskType ==
    ASSUME RequestsOK, NEW c \in Sessions, NEW r \in Requests, Ask(c, r),
           r.op # "none" => r.from \in Folders,
           r.op \in {"move", "copy", "import", "relocate"} => r.to \in Folders
    PROVE  RequestsOK'
BY DEF Ask, RequestsOK, FoldersNamed

LEMMA DoneType ==
    ASSUME RequestsOK, NEW c \in Sessions, Done(c)
    PROVE  RequestsOK'
BY DEF Done, RequestsOK, FoldersNamed, NoRequest, Requests, Ops, NoFolder

LEMMA ImapType ==
    ASSUME TypeOK, RequestsOK, NEW c \in Sessions, ImapStep(c)
    PROVE  RequestsOK'
<1> USE DEF NoRequest, Requests, Ops, NoFolder
<1>1. ASSUME NEW S \in SUBSET Emails, NEW f \in Folders, NEW to \in Folders,
             AskTransfer(c, S, f, to)
      PROVE  RequestsOK'
    BY <1>1, AskType DEF AskTransfer
<1>2. ASSUME NEW S \in SUBSET Emails, NEW f \in Folders, AskFlags(c, S, f)
      PROVE  RequestsOK'
    BY <1>2, AskType DEF AskFlags
<1>3. ASSUME NEW f \in Folders, AskExpunge(c, f)
      PROVE  RequestsOK'
    BY <1>3, AskType DEF AskExpunge, TypeOK
<1>4. CASE NarrowPurge(c)
    BY <1>4 DEF NarrowPurge, RequestsOK, FoldersNamed
<1> QED
    BY <1>1, <1>2, <1>3, <1>4, DoneType
    DEF ImapStep, Transfer, Flag, FileIntoTrash, CarryOutPurge

LEMMA FindRowType ==
    ASSUME NEW e \in Emails, NEW row \in FindRow(e)
    PROVE  row.from \in Folders /\ row.flagged \in BOOLEAN
<1>1. PICK f \in FoldersOf(e) : row = [from |-> f, flagged |-> e \in deleted[f]]
    BY DEF FindRow
<1>2. CASE e \in deleted[f]
    BY <1>1, <1>2 DEF FoldersOf
<1>3. CASE e \notin deleted[f]
    BY <1>1, <1>3 DEF FoldersOf
<1> QED
    BY <1>2, <1>3

LEMMA JmapType ==
    ASSUME TypeOK, RequestsOK, NEW c \in Sessions, JmapStep(c)
    PROVE  RequestsOK'
<1> USE DEF NoRequest, Requests, Ops, NoFolder
<1>1. ASSUME NEW d \in Emails, NEW e \in Emails, CopyEmail(d, e)
      PROVE  RequestsOK'
    BY <1>1, ClientsAssumption DEF CopyEmail, clientVars, RequestsOK, FoldersNamed
<1>2. ASSUME NEW e \in Emails, AskPatch(c, e)
      PROVE  RequestsOK'
    <2>1. ASSUME NEW row \in FindRow(e), NEW to \in Folders \cup {NoFolder},
                 Ask(c, [NoRequest EXCEPT !.op = "patch", !.ids = {e}, !.to = to,
                                 !.from = row.from, !.flagged = row.flagged])
          PROVE  RequestsOK'
        BY <2>1, FindRowType, AskType
    <2> QED
        BY <1>2, <2>1 DEF AskPatch
<1>3. ASSUME NEW e \in Emails, AskDestroy(c, e)
      PROVE  RequestsOK'
    <2>1. ASSUME NEW row \in FindRow(e),
                 Ask(c, [NoRequest EXCEPT !.op = "delete", !.ids = {e}, !.from = row.from])
          PROVE  RequestsOK'
        BY <2>1, FindRowType, AskType
    <2> QED
        BY <1>3, <2>1 DEF AskDestroy
<1>4. ASSUME NEW e \in Emails, AskImport(c, e)
      PROVE  RequestsOK'
    <2>1. ASSUME NEW row \in FindRow(e), NEW to \in Folders,
                 Ask(c, [NoRequest EXCEPT !.op = "import", !.ids = {e}, !.from = row.from, !.to = to])
          PROVE  RequestsOK'
        BY <2>1, FindRowType, AskType
    <2> QED
        BY <1>4, <2>1 DEF AskImport
<1>5. ASSUME NEW e \in Emails, Upload(c, e)
      PROVE  RequestsOK'
    <2> DEFINE r == [NoRequest EXCEPT !.op = "upload", !.ids = {e}, !.from = "INBOX",
                                      !.uid = nextUID["INBOX"]]
    <2>1. request' = [request EXCEPT ![c] = r]
        BY <1>5 DEF Upload
    <2>2. r \in Requests /\ r.op = "upload" /\ r.from \in Folders
        BY FolderAssumption DEF TypeOK
    <2> HIDE DEF r
    <2> QED
        BY <2>1, <2>2 DEF RequestsOK, FoldersNamed
<1>6. CASE ReplaceFlags(c)
    BY <1>6 DEF ReplaceFlags, RequestsOK, FoldersNamed
<1>7. CASE FileImport(c)
    <2> DEFINE r == [request[c] EXCEPT !.op = "reflag", !.from = request[c].to]
    <2>1. request' = [request EXCEPT ![c] = r]
        BY <1>7 DEF FileImport, RequestsOK
    <2>2. request[c] \in Requests /\ request[c].to \in Folders
        BY <1>7 DEF FileImport, RequestsOK, FoldersNamed
    <2>3. r \in Requests /\ r.op = "reflag" /\ r.from \in Folders
        BY <2>2
    <2> HIDE DEF r
    <2> QED
        BY <2>1, <2>3 DEF RequestsOK, FoldersNamed
<1>8. CASE Relocate(c) \/ FlagImport(c) \/ NameUpload(c)
    BY <1>8, DoneType DEF Relocate, FlagImport, NameUpload
<1> QED
    BY <1>1, <1>2, <1>3, <1>4, <1>5, <1>6, <1>7, <1>8 DEF JmapStep

LEMMA RequestsStep == TypeOK /\ RequestsOK /\ [ClientsNext]_allVars => RequestsOK'
<1> SUFFICES ASSUME TypeOK, RequestsOK, [ClientsNext]_allVars PROVE RequestsOK'
    OBVIOUS
<1>1. ASSUME NEW c \in PopClients, PopStep(c) PROVE RequestsOK'
    BY <1>1 DEF PopStep, Login, Rset, Drop, Quit, Dele, RequestsOK, FoldersNamed
<1>2. ASSUME NEW c \in Sessions, GiveUp(c) PROVE RequestsOK'
    BY <1>2, DoneType DEF GiveUp
<1>3. CASE UNCHANGED clientVars
    BY <1>3 DEF clientVars, RequestsOK, FoldersNamed
<1> QED
    BY <1>1, <1>2, <1>3, ImapType, JmapType DEF ClientsNext, OthersStep, allVars, clientVars

-----------------------------------------------------------------------------
(* The clients' steps are steps of the store.                               *)

LEMMA PopImplements ==
    ASSUME NEW c \in PopClients, PopStep(c)
    PROVE  ProtocolChange \/ UNCHANGED vars
<1>1. Marked(c) \cap Rows("INBOX") \in SUBSET Emails
    BY DEF Rows
<1>2. CASE Quit(c)
    BY <1>1, <1>2, FolderAssumption DEF Quit, ProtocolChange
<1> QED
    BY <1>2 DEF PopStep, Login, Rset, Drop, Dele

\* One request at a time, and between two transactions of it nothing changes.
SessionStep(c) ==
    \/ ProtocolChange
    \/ \E e \in Emails : Arrive(e)
    \/ ListExpunged(c) \/ Purge(c) \/ Abandon(c)
    \/ UNCHANGED vars

LEMMA ImapImplements ==
    ASSUME RequestsOK, NEW c \in Sessions, ImapStep(c)
    PROVE  SessionStep(c)
<1> USE DEF SessionStep
<1>1. CASE Transfer(c)
    BY <1>1, LeftType DEF Transfer, ProtocolChange, RequestsOK, FoldersNamed
<1>2. CASE Flag(c)
    BY <1>2, LeftType DEF Flag, SetDeleted, ProtocolChange, RequestsOK, FoldersNamed
<1>3. CASE FileIntoTrash(c)
    BY <1>3, LeftType, FolderAssumption
    DEF FileIntoTrash, ProtocolChange, RequestsOK, FoldersNamed
<1>4. CASE NarrowPurge(c)
    <2>1. List(c, Left(c)) /\ Left(c) \in SUBSET Rows("Trash")
        BY <1>4 DEF NarrowPurge, PurgesFrom, Left
    <2> QED
        BY <2>1 DEF ListExpunged
<1>5. CASE CarryOutPurge(c)
    BY <1>5 DEF CarryOutPurge
<1> QED
    BY <1>1, <1>2, <1>3, <1>4, <1>5 DEF ImapStep, AskTransfer, AskFlags, AskExpunge, Ask

LEMMA JmapImplements ==
    ASSUME TypeOK, RequestsOK, NEW c \in Sessions, JmapStep(c)
    PROVE  SessionStep(c)
<1> USE DEF SessionStep
<1>1. ASSUME NEW d \in Emails, NEW e \in Emails, CopyEmail(d, e)
      PROVE  Arrive(e)
    BY <1>1, ClientsAssumption DEF CopyEmail, Arrive
<1>2. ASSUME NEW e \in Emails, Upload(c, e)
      PROVE  Arrive(e)
    BY <1>2, FolderAssumption DEF Upload, Arrive
<1>3. CASE ReplaceFlags(c)
    BY <1>3, LeftType DEF ReplaceFlags, SetDeleted, ProtocolChange, RequestsOK, FoldersNamed
<1>4. CASE Relocate(c)
    BY <1>4, LeftType DEF Relocate, ProtocolChange, RequestsOK, FoldersNamed
<1>5. CASE FileImport(c)
    BY <1>5, LeftType DEF FileImport, ProtocolChange, RequestsOK, FoldersNamed
<1>6. CASE FlagImport(c)
    BY <1>6, LeftType DEF FlagImport, SetDeleted, ProtocolChange, RequestsOK, FoldersNamed
<1> QED
    BY <1>1, <1>2, <1>3, <1>4, <1>5, <1>6
    DEF JmapStep, AskPatch, AskDestroy, AskImport, Ask, NameUpload

LEMMA StepImplements ==
    TypeOK /\ RequestsOK /\ [ClientsNext]_allVars => [Next]_vars
<1> SUFFICES ASSUME TypeOK, RequestsOK, [ClientsNext]_allVars
             PROVE  [Next]_vars
    OBVIOUS
<1>1. CASE UNCHANGED allVars
    BY <1>1 DEF allVars
<1>2. CASE ClientsNext
    <2>1. Bounded'
        BY <1>2 DEF ClientsNext
    <2>2. ASSUME NEW c \in PopClients, PopStep(c) PROVE [Next]_vars
        BY <2>1, <2>2, PopImplements DEF Next
    <2>3. ASSUME NEW c \in Sessions, SessionStep(c) PROVE [Next]_vars
        BY <2>1, <2>3 DEF SessionStep, Next
    <2>4. ASSUME NEW c \in Sessions, GiveUp(c) PROVE SessionStep(c)
        BY <2>4 DEF GiveUp, SessionStep
    <2>5. CASE OthersStep
        BY <2>1, <2>5 DEF OthersStep, Next, Arrive
    <2> QED
        BY <1>2, <2>2, <2>3, <2>4, <2>5, ImapImplements, JmapImplements DEF ClientsNext
<1> QED
    BY <1>1, <1>2

LEMMA RequestsInit == ClientsInit => RequestsOK
BY DEF ClientsInit, RequestsOK, FoldersNamed, NoRequest, Requests, Ops, NoFolder

LEMMA RequestsCorrect == ClientsSpec => [](TypeOK /\ RequestsOK)
<1>1. ClientsInit => TypeOK /\ RequestsOK
    BY RequestsInit, TypeInit DEF ClientsInit
<1>2. TypeOK /\ RequestsOK /\ [ClientsNext]_allVars => (TypeOK /\ RequestsOK)'
    BY RequestsStep, StepImplements, TypeStep
<1> QED
    BY <1>1, <1>2, PTL DEF ClientsSpec

-----------------------------------------------------------------------------
(* An upload and its message.                                               *)

\* The upload's UID was given out, and no other message has it in INBOX.
UploadKeepsUid(c) ==
    request[c].op = "upload" =>
        /\ request[c].from = "INBOX"
        /\ request[c].uid \in Nat \ {0}
        /\ request[c].uid < nextUID["INBOX"]
        /\ \A e \in Emails : uid["INBOX"][e] = request[c].uid => e \in request[c].ids

UploadsKeepUids == \A c \in Sessions : UploadKeepsUid(c)

\* Rows that appear have a fresh UID, and rows that stay keep theirs.
LEMMA UidKept ==
    ASSUME IInv, [Next]_vars, NEW c \in Sessions, UploadKeepsUid(c), request'[c] = request[c]
    PROVE  UploadKeepsUid(c)'
<1>1. FolderStep("INBOX")
    BY EveryStep, FolderAssumption
<1>2. nextUID["INBOX"] \in Nat /\ nextUID'["INBOX"] \in Nat
    BY TypeStep, FolderAssumption DEF IInv, TypeOK
<1>3. ASSUME NEW e \in Emails, request[c].op = "upload", uid'["INBOX"][e] = request[c].uid
      PROVE  e \in request[c].ids
    BY <1>1, <1>2, <1>3 DEF FolderStep, Gains, Loses, Keeps, UploadKeepsUid
<1> QED
    BY <1>1, <1>2, <1>3 DEF FolderStep, UploadKeepsUid

LEMMA NoUpload ==
    ASSUME RequestsOK, NEW c \in Sessions, NEW d \in Sessions, NEW r, r.op # "upload",
           request' = [request EXCEPT ![d] = r], request'[c] # request[c]
    PROVE  request'[c].op # "upload"
BY DEF RequestsOK

LEMMA DoneNoUpload ==
    ASSUME RequestsOK, NEW c \in Sessions, NEW d \in Sessions, Done(d), request'[c] # request[c]
    PROVE  request'[c].op # "upload"
BY NoUpload DEF Done, NoRequest

\* A step that changes requests gives none of them the name of an upload,
\* except Upload itself.
LEMMA OtherRequests ==
    ASSUME TypeOK, RequestsOK, [ClientsNext]_allVars, NEW c \in Sessions,
           request'[c] # request[c], request'[c].op = "upload"
    PROVE  \E e \in Emails : Upload(c, e)
<1> USE DEF RequestsOK, NoRequest
<1>1. ASSUME NEW p \in PopClients, PopStep(p) PROVE FALSE
    BY <1>1 DEF PopStep, Login, Rset, Drop, Quit, Dele
<1>2. ASSUME NEW d \in Sessions, ImapStep(d) PROVE FALSE
    <2>1. ASSUME NEW S \in SUBSET Emails, NEW f \in Folders, NEW to \in Folders,
                 AskTransfer(d, S, f, to)
          PROVE  FALSE
        BY <2>1, NoUpload DEF AskTransfer, Ask
    <2>2. ASSUME NEW S \in SUBSET Emails, NEW f \in Folders, AskFlags(d, S, f) PROVE FALSE
        BY <2>2, NoUpload DEF AskFlags, Ask
    <2>3. ASSUME NEW f \in Folders, AskExpunge(d, f) PROVE FALSE
        BY <2>3, NoUpload DEF AskExpunge, Ask
    <2>4. CASE NarrowPurge(d)
        BY <2>4 DEF NarrowPurge
    <2> QED
        BY <1>2, <2>1, <2>2, <2>3, <2>4, DoneNoUpload
        DEF ImapStep, Transfer, Flag, FileIntoTrash, CarryOutPurge
<1>3. ASSUME NEW d \in Sessions, JmapStep(d) PROVE \E e \in Emails : Upload(c, e)
    <2>1. ASSUME NEW e \in Emails, Upload(d, e) PROVE c = d
        BY <2>1 DEF Upload
    <2>2. ASSUME NEW e \in Emails, AskPatch(d, e) \/ AskDestroy(d, e) \/ AskImport(d, e)
          PROVE  FALSE
        <3>1. ASSUME NEW r, r.op # "upload", Ask(d, r) PROVE FALSE
            BY <3>1, NoUpload DEF Ask
        <3>2. CASE AskPatch(d, e)
            BY <3>1, <3>2 DEF AskPatch
        <3>3. CASE AskDestroy(d, e)
            BY <3>1, <3>3 DEF AskDestroy
        <3>4. CASE AskImport(d, e)
            BY <3>1, <3>4 DEF AskImport
        <3> QED
            BY <2>2, <3>2, <3>3, <3>4
    <2>3. CASE ReplaceFlags(d)
        <3> DEFINE r == IF request[d].to \in {NoFolder, request[d].from} THEN NoRequest
                        ELSE [request[d] EXCEPT !.op = "relocate"]
        <3>1. request' = [request EXCEPT ![d] = r]
            BY <2>3 DEF ReplaceFlags
        <3>2. r.op # "upload"
            BY DEF Requests
        <3> HIDE DEF r
        <3> QED
            BY <3>1, <3>2, NoUpload
    <2>5. CASE FileImport(d)
        BY <2>5 DEF FileImport
    <2>4. ASSUME NEW e \in Emails, NEW x \in Emails, CopyEmail(x, e) PROVE FALSE
        BY <2>4 DEF CopyEmail, clientVars
    <2>6. CASE Relocate(d) \/ FlagImport(d) \/ NameUpload(d)
        BY <2>6, DoneNoUpload DEF Relocate, FlagImport, NameUpload
    <2> QED
        BY <1>3, <2>1, <2>2, <2>3, <2>4, <2>5, <2>6 DEF JmapStep
<1>4. ASSUME NEW d \in Sessions, GiveUp(d) PROVE FALSE
    BY <1>4, DoneNoUpload DEF GiveUp
<1> QED
    BY <1>1, <1>2, <1>3, <1>4 DEF ClientsNext, OthersStep, allVars, clientVars

LEMMA UploadStep ==
    ASSUME IInv, RequestsOK, UploadsKeepUids, [ClientsNext]_allVars
    PROVE  UploadsKeepUids'
<1> SUFFICES ASSUME NEW c \in Sessions PROVE UploadKeepsUid(c)'
    BY DEF UploadsKeepUids
<1>1. [Next]_vars /\ IInv' /\ TypeOK
    BY StepImplements, InvStep DEF IInv
<1>2. CASE request'[c] = request[c]
    BY <1>1, <1>2, UidKept DEF UploadsKeepUids
<1>3. CASE request'[c] # request[c] /\ request'[c].op = "upload"
    <2>1. PICK e \in Emails : Upload(c, e)
        BY <1>1, <1>3, OtherRequests
    <2>2. /\ request'[c].from = "INBOX" /\ request'[c].uid = nextUID["INBOX"]
          /\ request'[c].ids = {e}
        BY <2>1 DEF Upload, RequestsOK, NoRequest
    <2>3. uid'["INBOX"][e] = nextUID["INBOX"] /\ nextUID'["INBOX"] = nextUID["INBOX"] + 1
        BY <1>1, <2>1, FolderAssumption DEF Upload, AppendMessage, AddRow, TypeOK
    <2>4. \A d \in Emails : uid'["INBOX"][d] = nextUID["INBOX"] => d = e
        BY <1>1, <2>3, FolderAssumption DEF IInv, UidsAreSound, Rows, TypeOK
    <2> QED
        BY <1>1, <2>2, <2>3, <2>4, FolderAssumption DEF UploadKeepsUid, TypeOK
<1>4. CASE request'[c].op # "upload"
    BY <1>4 DEF UploadKeepsUid
<1> QED
    BY <1>2, <1>3, <1>4

\* The blob ID of an upload is that of the message it stored.
THEOREM UploadsNameTheirMessages == ClientsSpec => []UploadNamesItsMessage
<1> DEFINE Inv == IInv /\ RequestsOK /\ UploadsKeepUids
<1>1. ClientsInit => Inv
    BY InvInit, RequestsInit DEF ClientsInit, UploadsKeepUids, UploadKeepsUid, NoRequest
<1>2. Inv /\ [ClientsNext]_allVars => Inv'
    BY InvStep, RequestsStep, StepImplements, UploadStep DEF IInv
<1>3. Inv => UploadNamesItsMessage
    BY DEF UploadsKeepUids, UploadKeepsUid, UploadNamesItsMessage, UploadedAs
<1> QED
    BY <1>1, <1>2, <1>3, PTL DEF ClientsSpec

-----------------------------------------------------------------------------
(* What QUIT takes.                                                         *)

LEMMA QuitStep ==
    ASSUME TypeOK, NEW c \in PopClients, Quit(c), NEW e \in Emails, NEW f \in Folders,
           View(f, e)' # View(f, e)
    PROVE  e \in Marked(c)
<1> DEFINE S == Marked(c) \cap Rows("INBOX")
<1>1. CASE UNCHANGED vars
    BY <1>1 DEF vars, rowVars, View
<1>2. CASE Move(S, "INBOX", "Trash") /\ e \notin S
    <2>1. uid'[f][e] = uid[f][e]
        BY <1>2, FolderAssumption DEF Move, Numbered, Without, TypeOK
    <2>2. modSeq'[f][e] = modSeq[f][e]
        BY <1>2, FolderAssumption DEF Move, Numbered, Without, TypeOK
    <2>3. e \in deleted'[f] <=> e \in deleted[f]
        BY <1>2, FolderAssumption DEF Move, TypeOK
    <2>4. (e \in deleted[f])' = (e \in deleted[f])
        BY <2>3
    <2> QED
        BY <2>1, <2>2, <2>4 DEF View
<1> QED
    BY <1>1, <1>2 DEF Quit

\* Whatever came in or changed its number since PASS, QUIT deletes what its
\* client marked and nothing else.
THEOREM QuitsTakeMarkedOnly == ClientsSpec => QuitTakesMarkedOnly
<1> DEFINE Step ==
        \A c \in PopClients : Quit(c) =>
            \A e \in Emails, f \in Folders : View(f, e)' # View(f, e) =>
                e \in {pop[c].listing[n] : n \in pop[c].marked}
<1>1. TypeOK /\ [ClientsNext]_allVars => Step
    BY QuitStep DEF Marked
<1> QED
    BY <1>1, RequestsCorrect, PTL DEF ClientsSpec, QuitTakesMarkedOnly

-----------------------------------------------------------------------------
(* Listings.  A folder's rows have an order, since their UIDs differ, and a *)
(* listing is that order: the numbers that a POP3 client marks stand for    *)
(* one message each.                                                        *)

\* The rows of a folder whose UIDs are no greater than that of e.
UpTo(f, e) == {d \in Rows(f) : uid[f][d] <= uid[f][e]}

\* The place of a row in its folder.
PlaceOf(f) == [e \in Rows(f) |-> Cardinality(UpTo(f, e))]

LEMMA RowsFinite ==
    ASSUME TypeOK, NEW f \in Folders
    PROVE  /\ IsFiniteSet(Rows(f)) /\ Cardinality(Rows(f)) \in Nat
           /\ \A e \in Rows(f) : uid[f][e] \in Nat
<1>1. Rows(f) \in SUBSET Emails
    BY DEF Rows
<1>2. IsFiniteSet(Rows(f))
    BY <1>1, FS_Subset, FolderAssumption
<1> QED
    BY <1>1, <1>2, FS_CardinalityType DEF TypeOK

LEMMA UpToType ==
    ASSUME TypeOK, NEW f \in Folders, NEW e \in Rows(f)
    PROVE  /\ UpTo(f, e) \in SUBSET Rows(f) /\ IsFiniteSet(UpTo(f, e)) /\ e \in UpTo(f, e)
           /\ Cardinality(UpTo(f, e)) \in 1..Cardinality(Rows(f))
<1>1. UpTo(f, e) \in SUBSET Rows(f)
    BY DEF UpTo
<1>2. e \in UpTo(f, e)
    BY RowsFinite DEF UpTo
<1>3. /\ IsFiniteSet(UpTo(f, e)) /\ Cardinality(UpTo(f, e)) \in Nat
      /\ Cardinality(UpTo(f, e)) <= Cardinality(Rows(f))
    BY <1>1, RowsFinite, FS_Subset, FS_CardinalityType
<1>4. Cardinality(UpTo(f, e)) # 0
    BY <1>2, <1>3, FS_EmptySet
<1> QED
    BY <1>1, <1>2, <1>3, <1>4, RowsFinite

\* Of two rows the one with the smaller UID has the smaller place.
LEMMA PlacesInOrder ==
    ASSUME TypeOK, NEW f \in Folders, NEW d \in Rows(f), NEW e \in Rows(f),
           uid[f][d] < uid[f][e]
    PROVE  PlaceOf(f)[d] < PlaceOf(f)[e]
<1>1. UpTo(f, d) \in SUBSET UpTo(f, e) /\ e \notin UpTo(f, d)
    BY RowsFinite DEF UpTo
<1>2. /\ Cardinality(UpTo(f, d)) <= Cardinality(UpTo(f, e))
      /\ Cardinality(UpTo(f, e)) = Cardinality(UpTo(f, d)) => UpTo(f, e) = UpTo(f, d)
    BY <1>1, UpToType, FS_Subset
<1>3. Cardinality(UpTo(f, d)) # Cardinality(UpTo(f, e))
    BY <1>1, <1>2, UpToType
<1>4. Cardinality(UpTo(f, d)) \in Nat /\ Cardinality(UpTo(f, e)) \in Nat
    BY UpToType, RowsFinite
<1> QED
    BY <1>2, <1>3, <1>4 DEF PlaceOf

\* Every place is taken.
LEMMA PlacesAreTaken ==
    ASSUME TypeOK, UidsAreSound, NEW f \in Folders
    PROVE  \A i \in 1..Cardinality(Rows(f)) : \E e \in Rows(f) : PlaceOf(f)[e] = i
<1> DEFINE n == Cardinality(Rows(f))
<1>1. PlaceOf(f) \in [Rows(f) -> 1..n]
    BY UpToType DEF PlaceOf
<1>2. ASSUME NEW d \in Rows(f), NEW e \in Rows(f), PlaceOf(f)[d] = PlaceOf(f)[e]
      PROVE  d = e
    <2>1. PlaceOf(f)[d] \in Int /\ uid[f][d] \in Nat /\ uid[f][e] \in Nat
        BY <1>1, RowsFinite
    <2>2. ~(uid[f][d] < uid[f][e]) /\ ~(uid[f][e] < uid[f][d])
        BY <1>2, <2>1, PlacesInOrder
    <2> QED
        BY <2>1, <2>2 DEF UidsAreSound
<1>3. PlaceOf(f) \in Injection(Rows(f), 1..n)
    BY <1>1, <1>2 DEF Injection, IsInjective
<1>4. IsFiniteSet(1..n) /\ Cardinality(1..n) = n
    BY RowsFinite, FS_Interval
<1>5. PlaceOf(f) \in Surjection(Rows(f), 1..n)
    BY <1>3, <1>4, FS_Injection
<1> QED
    BY <1>5 DEF Surjection

\* A listing has each row of its folder once, in the order of the UIDs.
LEMMA ListingIsInOrder ==
    ASSUME TypeOK, UidsAreSound, NEW f \in Folders
    PROVE  /\ Listing(f) \in [1..Cardinality(Rows(f)) -> Rows(f)]
           /\ \A i, j \in DOMAIN Listing(f) :
                  i < j => uid[f][Listing(f)[i]] < uid[f][Listing(f)[j]]
<1> DEFINE n == Cardinality(Rows(f))
           s == [i \in 1..n |-> CHOOSE e \in Rows(f) : PlaceOf(f)[e] = i]
<1>1. \A i \in 1..n : s[i] \in Rows(f) /\ PlaceOf(f)[s[i]] = i
    BY PlacesAreTaken
<1>2. s \in [1..n -> Rows(f)] /\ DOMAIN s = 1..n
    BY <1>1
<1> HIDE DEF s
<1>3. ASSUME NEW i \in 1..n, NEW j \in 1..n, i < j
      PROVE  uid[f][s[i]] < uid[f][s[j]]
    <2>1. uid[f][s[i]] \in Nat /\ uid[f][s[j]] \in Nat
        BY <1>1, RowsFinite
    <2>2. ~(uid[f][s[j]] < uid[f][s[i]])
        <3> SUFFICES ASSUME uid[f][s[j]] < uid[f][s[i]] PROVE FALSE
            OBVIOUS
        <3>1. PlaceOf(f)[s[j]] < PlaceOf(f)[s[i]]
            BY <1>1, PlacesInOrder
        <3>2. i \in Int /\ j \in Int
            OBVIOUS
        <3> QED
            BY <1>1, <1>3, <3>1, <3>2
    <2>3. s[i] # s[j]
        BY <1>1, <1>3
    <2> QED
        BY <1>1, <2>1, <2>2, <2>3 DEF UidsAreSound
<1>4. \E t \in [1..n -> Rows(f)] : \A i, j \in DOMAIN t : i < j => uid[f][t[i]] < uid[f][t[j]]
    BY <1>2, <1>3
<1> QED
    BY <1>4 DEF Listing

\* Sessions as POP3 leaves them.
SessionsOK ==
    /\ pop \in [PopClients -> [open : BOOLEAN, listing : Seq(Emails), marked : SUBSET Nat]]
    /\ \A c \in PopClients : pop[c].marked \subseteq 1..Len(pop[c].listing)

LEMMA NoSessionType ==
    /\ NoSession \in [open : BOOLEAN, listing : Seq(Emails), marked : SUBSET Nat]
    /\ NoSession.marked \subseteq 1..Len(NoSession.listing)
BY DEF NoSession

LEMMA SessionGoes ==
    ASSUME SessionsOK, NEW c \in PopClients,
           NEW r \in [open : BOOLEAN, listing : Seq(Emails), marked : SUBSET Nat],
           r.marked \subseteq 1..Len(r.listing), pop' = [pop EXCEPT ![c] = r]
    PROVE  SessionsOK'
BY DEF SessionsOK

LEMMA PopType ==
    ASSUME TypeOK, UidsAreSound, SessionsOK, NEW c \in PopClients, PopStep(c)
    PROVE  SessionsOK'
<1> DEFINE S == [open : BOOLEAN, listing : Seq(Emails), marked : SUBSET Nat]
<1>1. pop[c] \in S /\ pop[c].marked \subseteq 1..Len(pop[c].listing)
    BY DEF SessionsOK
<1>2. CASE Login(c)
    <2> DEFINE l == Listing("INBOX")
    <2>1. "INBOX" \in Folders
        BY FolderAssumption
    <2>2. l \in [1..Cardinality(Rows("INBOX")) -> Rows("INBOX")] /\ Cardinality(Rows("INBOX")) \in Nat
        BY <2>1, ListingIsInOrder, RowsFinite
    <2> HIDE DEF l
    <2>3. l \in Seq(Emails)
        <3>1. Rows("INBOX") \in SUBSET Emails
            BY DEF Rows
        <3>2. l \in Seq(Rows("INBOX"))
            BY <2>2
        <3> QED
            BY <3>1, <3>2
    <2>4. pop' = [pop EXCEPT ![c] = [open |-> TRUE, listing |-> l, marked |-> {}]]
        BY <1>2 DEF Login, l
    <2> DEFINE r == [open |-> TRUE, listing |-> l, marked |-> {}]
    <2>5. r \in S /\ r.marked \subseteq 1..Len(r.listing)
        BY <2>3
    <2> QED
        BY <2>4, <2>5, SessionGoes
<1>3. ASSUME NEW n \in 1..Cardinality(Emails), Dele(c, n) PROVE SessionsOK'
    <2> DEFINE r == [pop[c] EXCEPT !.marked = pop[c].marked \cup {n}]
    <2>1. r \in S /\ r.marked \subseteq 1..Len(r.listing)
        BY <1>1, <1>3 DEF Dele
    <2>2. pop' = [pop EXCEPT ![c] = r]
        BY <1>3 DEF Dele
    <2> QED
        BY <2>1, <2>2, SessionGoes
<1>4. CASE Rset(c)
    <2> DEFINE r == [pop[c] EXCEPT !.marked = {}]
    <2>1. r \in S /\ r.marked \subseteq 1..Len(r.listing)
        BY <1>1
    <2>2. pop' = [pop EXCEPT ![c] = r]
        BY <1>4 DEF Rset
    <2> QED
        BY <2>1, <2>2, SessionGoes
<1>5. CASE Drop(c) \/ Quit(c)
    BY <1>5, NoSessionType, SessionGoes DEF Drop, Quit
<1> QED
    BY <1>2, <1>3, <1>4, <1>5 DEF PopStep

LEMMA SessionsStep ==
    TypeOK /\ UidsAreSound /\ SessionsOK /\ [ClientsNext]_allVars => SessionsOK'
<1> SUFFICES ASSUME TypeOK, UidsAreSound, SessionsOK, [ClientsNext]_allVars PROVE SessionsOK'
    OBVIOUS
<1>1. CASE pop' = pop
    BY <1>1 DEF SessionsOK
<1>2. ASSUME NEW c \in Sessions, ImapStep(c) PROVE pop' = pop
    BY <1>2 DEF ImapStep, AskTransfer, AskFlags, AskExpunge, Ask, Transfer, Flag, FileIntoTrash,
        NarrowPurge, CarryOutPurge, Done
<1>3. ASSUME NEW c \in Sessions, JmapStep(c) PROVE pop' = pop
    BY <1>3 DEF JmapStep, AskPatch, AskDestroy, AskImport, Ask, Upload, CopyEmail, ReplaceFlags,
        FileImport, Relocate, FlagImport, NameUpload, Done, clientVars
<1>4. ASSUME NEW c \in Sessions, GiveUp(c) PROVE pop' = pop
    BY <1>4 DEF GiveUp, Done
<1> QED
    BY <1>1, <1>2, <1>3, <1>4, PopType DEF ClientsNext, OthersStep, allVars, clientVars

\* Sessions and requests keep their types: a session's marks stay within its
\* listing.
THEOREM ClientsTypeCorrect == ClientsSpec => []ClientsTypeOK
<1> DEFINE Inv == IInv /\ RequestsOK /\ SessionsOK
<1>1. ClientsInit => Inv
    BY InvInit, RequestsInit, NoSessionType DEF ClientsInit, SessionsOK
<1>2. Inv /\ [ClientsNext]_allVars => Inv'
    BY InvStep, RequestsStep, StepImplements, SessionsStep DEF IInv
<1>3. Inv => ClientsTypeOK
    BY DEF IInv, RequestsOK, SessionsOK, ClientsTypeOK
<1> QED
    BY <1>1, <1>2, <1>3, PTL DEF ClientsSpec
=============================================================================
