------------------------ MODULE MailboxServicesProofs ------------------------
(***************************************************************************)
(* What the services of a mailbox promise, proved for every value of       *)
(* their constants. Attachment files and Mailbox/set destroy leave a gap   *)
(* between counting and deleting in which nothing is locked: their         *)
(* invariants say which messages, and which references, came inside it.    *)
(* The trimming of the quota adds up sizes under the lock of the plan, so  *)
(* its proof rests on what a sum over a set of messages is. Labels change  *)
(* in transactions that commit once, and the report of an import is as     *)
(* long as the items that it is done with.                                 *)
(***************************************************************************)
EXTENDS AttachmentFiles, JmapMailboxes, MailQuota, MailLabels, MailImport,
        FiniteSetTheorems, WellFoundedInduction, TLAPS

-----------------------------------------------------------------------------
(* Attachment files: types.                                                 *)

LEMMA FilesInitType == FilesInit => FilesTypeOK
BY DEF FilesInit, FilesTypeOK

LEMMA FilesStepType == FilesTypeOK /\ [FilesNext]_filesVars => FilesTypeOK'
<1> SUFFICES ASSUME FilesTypeOK, [FilesNext]_filesVars PROVE FilesTypeOK'
    OBVIOUS
<1> USE DEF FilesTypeOK
<1>1. ASSUME NEW a \in Authors, NEW F \in SUBSET Files, ResolveReferences(a, F)
      PROVE  FilesTypeOK'
    BY <1>1 DEF ResolveReferences
<1>2. ASSUME NEW a \in Authors, NEW m \in Letters, ReadSource(a, m)
      PROVE  FilesTypeOK'
    BY <1>2 DEF ReadSource
<1>3. ASSUME NEW a \in Authors, NEW m \in Letters, Save(a, m)
      PROVE  FilesTypeOK'
    BY <1>3 DEF Save
<1>4. ASSUME NEW a \in Authors, Discard(a)
      PROVE  FilesTypeOK'
    BY <1>4 DEF Discard
<1>5. ASSUME NEW p \in Purgers, NEW S \in SUBSET Letters, PurgeLetters(p, S)
      PROVE  FilesTypeOK'
    <2>1. UNION {names[m] : m \in S} \in SUBSET Files
        OBVIOUS
    <2> QED
        BY <1>5, <2>1 DEF PurgeLetters
<1>6. ASSUME NEW p \in Purgers, NEW f \in Files, CountReferences(p, f)
      PROVE  FilesTypeOK'
    BY <1>6 DEF CountReferences
<1>7. ASSUME NEW p \in Purgers, NEW f \in Files, CountFails(p, f)
      PROVE  FilesTypeOK'
    BY <1>7 DEF CountFails
<1>8. ASSUME NEW p \in Purgers, DeleteFile(p) \/ DeleteFails(p) \/ PurgerDies(p)
      PROVE  FilesTypeOK'
    BY <1>8 DEF DeleteFile, DeleteFails, PurgerDies
<1>9. CASE UNCHANGED filesVars
    BY <1>9 DEF filesVars
<1> QED
    BY <1>1, <1>2, <1>3, <1>4, <1>5, <1>6, <1>7, <1>8, <1>9 DEF FilesNext

\* The type invariant of the attachment model.
THEOREM FilesTypeCorrect == FilesSpec => []FilesTypeOK
<1> QED
    BY FilesInitType, FilesStepType, PTL DEF FilesSpec

-----------------------------------------------------------------------------
(* Attachment files: unused files are collected.                            *)

LEMMA ReferencedBy ==
    ASSUME NEW f
    PROVE  f \in Referenced <=> \E m \in Letters : letter[m] = "stored" /\ f \in names[m]
BY DEF Referenced

\* The same, after a step.
LEMMA ReferencedByNext ==
    ASSUME NEW f
    PROVE  f \in Referenced' <=> \E m \in Letters : letter'[m] = "stored" /\ f \in names'[m]
BY DEF Referenced

\* f has lost its last row.
Abandoned(f) ==
    /\ f \notin Referenced
    /\ \E m \in Letters : letter[m] = "purged" /\ f \in names[m]

Collected(f) == f \in leaked \/ \E p \in Purgers : f \in todo[p] \cup doomed[p]

LEMMA CollectedStep ==
    ASSUME FilesTypeOK, UnusedFilesAreCollected, [FilesNext]_filesVars,
           NEW f \in onDisk', Abandoned(f)'
    PROVE  Collected(f)'
<1> USE DEF Abandoned, Collected, FilesTypeOK
<1>a. f \in onDisk /\ f \in Files
    BY DEF FilesNext, filesVars, ResolveReferences, ReadSource, Save, Discard,
           PurgeLetters, CountReferences, CountFails, DeleteFile, DeleteFails, PurgerDies
<1>b. Abandoned(f) => Collected(f)
    BY <1>a DEF UnusedFilesAreCollected
<1>c. ASSUME UNCHANGED <<letter, names>>
      PROVE  Abandoned(f)
    BY <1>c DEF Referenced
<1>1. ASSUME NEW a \in Authors, NEW F \in SUBSET Files, ResolveReferences(a, F)
      PROVE  Collected(f)'
    BY <1>1, <1>b, <1>c DEF ResolveReferences
<1>2. ASSUME NEW a \in Authors, NEW m \in Letters, ReadSource(a, m)
      PROVE  Collected(f)'
    BY <1>2, <1>b, <1>c DEF ReadSource
<1>3. ASSUME NEW a \in Authors, NEW m \in Letters, Save(a, m)
      PROVE  Collected(f)'
    \* The new message only adds references.
    <2>1. ASSUME NEW n \in Letters, n # m
          PROVE  letter'[n] = letter[n] /\ names'[n] = names[n]
        BY <1>3, <2>1 DEF Save
    <2>2. letter[m] = "new" /\ letter'[m] = "stored"
        BY <1>3 DEF Save
    <2>3. f \notin Referenced
        BY <2>1, <2>2, ReferencedBy, ReferencedByNext
    <2>4. \E n \in Letters : letter[n] = "purged" /\ f \in names[n]
        BY <2>1, <2>2
    <2> QED
        BY <1>3, <1>b, <2>3, <2>4 DEF Save
<1>4. ASSUME NEW a \in Authors, Discard(a)
      PROVE  Collected(f)'
    BY <1>4, <1>b, <1>c DEF Discard
<1>5. ASSUME NEW p \in Purgers, NEW S \in SUBSET Letters, PurgeLetters(p, S)
      PROVE  Collected(f)'
    <2>0. names' = names /\ todo[p] = {} /\ doomed[p] = {} /\ leaked' = leaked /\ doomed' = doomed
        BY <1>5 DEF PurgeLetters
    <2>1. CASE \E m \in S : f \in names[m]
        <3>1. f \in UNION {names[m] : m \in S}
            BY <2>1
        <3>2. todo'[p] = UNION {names[m] : m \in S}
            BY <1>5 DEF PurgeLetters
        <3> QED
            BY <3>1, <3>2
    <2>2. CASE \A m \in S : f \notin names[m]
        <3>1. \A n \in Letters : f \in names[n] => letter'[n] = letter[n]
            BY <1>5, <2>2 DEF PurgeLetters
        <3>2. Abandoned(f)
            BY <2>0, <3>1, ReferencedBy, ReferencedByNext
        <3>3. \A q \in Purgers : q # p => todo'[q] = todo[q]
            BY <1>5 DEF PurgeLetters
        <3> QED
            BY <1>b, <2>0, <3>2, <3>3
    <2> QED
        BY <2>1, <2>2
<1>6. ASSUME NEW p \in Purgers, NEW g \in Files, CountReferences(p, g)
      PROVE  Collected(f)'
    <2>1. f \notin Referenced /\ Collected(f)
        BY <1>6, <1>b, <1>c DEF CountReferences
    <2>2. CASE f = g
        BY <1>6, <2>1, <2>2 DEF CountReferences, Unused
    <2>3. CASE f # g
        BY <1>6, <2>1, <2>3 DEF CountReferences
    <2> QED
        BY <2>2, <2>3
<1>7. ASSUME NEW p \in Purgers, NEW g \in Files, CountFails(p, g)
      PROVE  Collected(f)'
    BY <1>7, <1>b, <1>c DEF CountFails
<1>8. ASSUME NEW p \in Purgers, DeleteFile(p)
      PROVE  Collected(f)'
    <2>1. Collected(f) /\ f \notin doomed[p]
        BY <1>8, <1>b, <1>c DEF DeleteFile
    <2> QED
        BY <1>8, <2>1 DEF DeleteFile
<1>9. ASSUME NEW p \in Purgers, DeleteFails(p) \/ PurgerDies(p)
      PROVE  Collected(f)'
    <2>1. Collected(f)
        BY <1>9, <1>b, <1>c DEF DeleteFails, PurgerDies
    <2> QED
        BY <1>9, <2>1 DEF DeleteFails, PurgerDies
<1>10. CASE UNCHANGED filesVars
    BY <1>10, <1>b, <1>c DEF filesVars
<1> QED
    BY <1>1, <1>2, <1>3, <1>4, <1>5, <1>6, <1>7, <1>8, <1>9, <1>10 DEF FilesNext

\* However many purges share a file, the one that removes the last row of it has
\* it on its list and finds it unused: no file is left behind unless a call fails
\* or a process dies (deleteUnreferencedAttachments after purgeEmailRows).
THEOREM AbandonedFilesAreAlwaysCollected == FilesSpec => []UnusedFilesAreCollected
<1>1. FilesInit => UnusedFilesAreCollected
    BY DEF FilesInit, UnusedFilesAreCollected
<1>2. FilesTypeOK /\ UnusedFilesAreCollected /\ [FilesNext]_filesVars => UnusedFilesAreCollected'
    BY CollectedStep DEF UnusedFilesAreCollected, Abandoned, Collected
<1> QED
    BY <1>1, <1>2, FilesTypeCorrect, PTL DEF FilesSpec

-----------------------------------------------------------------------------
(* Attachment files: shared files survive.                                  *)

\* What a purge has found unused is named only by messages that were stored
\* since, and these know it.
DoomedAreUnused ==
    \A p \in Purgers : \A f \in doomed[p] : \A m \in Letters :
        letter[m] = "stored" /\ f \in names[m] => f \in raced[m]

SharedInv == SharedFilesSurvive /\ DoomedAreUnused

LEMMA SharedStep ==
    ASSUME FilesTypeOK, SharedInv, [FilesNext]_filesVars
    PROVE  SharedInv'
<1> USE DEF SharedInv, SharedFilesSurvive, DoomedAreUnused, FilesTypeOK
<1>1. ASSUME NEW a \in Authors, NEW F \in SUBSET Files, ResolveReferences(a, F)
      PROVE  SharedInv'
    BY <1>1 DEF ResolveReferences
<1>2. ASSUME NEW a \in Authors, NEW m \in Letters, ReadSource(a, m)
      PROVE  SharedInv'
    BY <1>2 DEF ReadSource
<1>3. ASSUME NEW a \in Authors, NEW m \in Letters, Save(a, m)
      PROVE  SharedInv'
    <2>1. \A n \in Letters : n # m =>
            letter'[n] = letter[n] /\ names'[n] = names[n] /\ raced'[n] = raced[n]
        BY <1>3 DEF Save
    <2>2. /\ names'[m] = draft[a]
          /\ raced'[m] = {f \in draft[a] : f \notin onDisk \/ \E p \in Purgers : f \in doomed[p]}
          /\ onDisk' = onDisk /\ doomed' = doomed
        BY <1>3 DEF Save
    <2>3. SharedFilesSurvive'
        BY <2>1, <2>2
    <2>4. DoomedAreUnused'
        BY <2>1, <2>2
    <2> QED
        BY <2>3, <2>4
<1>4. ASSUME NEW a \in Authors, Discard(a)
      PROVE  SharedInv'
    BY <1>4 DEF Discard
<1>5. ASSUME NEW p \in Purgers, NEW S \in SUBSET Letters, PurgeLetters(p, S)
      PROVE  SharedInv'
    <2>1. \A m \in Letters : letter'[m] = "stored" => letter[m] = "stored"
        BY <1>5 DEF PurgeLetters
    <2> QED
        BY <1>5, <2>1 DEF PurgeLetters
<1>6. ASSUME NEW p \in Purgers, NEW g \in Files, CountReferences(p, g)
      PROVE  SharedInv'
    <2>1. SharedFilesSurvive'
        BY <1>6 DEF CountReferences
    <2>2. ASSUME NEW q \in Purgers, NEW f \in doomed'[q], NEW m \in Letters,
                 letter[m] = "stored", f \in names[m]
          PROVE  f \in raced[m]
        <3>1. CASE q # p
            BY <1>6, <2>2, <3>1 DEF CountReferences
        <3>2. CASE q = p
            <4>1. f = g /\ Unused(g)
                BY <1>6, <2>2, <3>2 DEF CountReferences
            <4> QED
                BY <2>2, <4>1, ReferencedBy DEF Unused
        <3> QED
            BY <3>1, <3>2
    <2>3. DoomedAreUnused'
        BY <1>6, <2>2 DEF CountReferences
    <2> QED
        BY <2>1, <2>3
<1>7. ASSUME NEW p \in Purgers, NEW g \in Files, CountFails(p, g)
      PROVE  SharedInv'
    BY <1>7 DEF CountFails
<1>8. ASSUME NEW p \in Purgers, DeleteFile(p)
      PROVE  SharedInv'
    BY <1>8 DEF DeleteFile
<1>9. ASSUME NEW p \in Purgers, DeleteFails(p) \/ PurgerDies(p)
      PROVE  SharedInv'
    BY <1>9 DEF DeleteFails, PurgerDies
<1>10. CASE UNCHANGED filesVars
    BY <1>10 DEF filesVars
<1> QED
    BY <1>1, <1>2, <1>3, <1>4, <1>5, <1>6, <1>7, <1>8, <1>9, <1>10 DEF FilesNext

\* A purge takes no file from a message that was stored before the purge counted
\* (the count by storage key and file ID in deleteUnreferencedAttachments).
THEOREM SharedFilesAlwaysSurvive == FilesSpec => []SharedFilesSurvive
<1>1. FilesInit => SharedInv
    BY DEF FilesInit, SharedInv, SharedFilesSurvive, DoomedAreUnused
<1>2. FilesTypeOK /\ SharedInv /\ [FilesNext]_filesVars => SharedInv'
    BY SharedStep
<1>3. SharedInv => SharedFilesSurvive
    BY DEF SharedInv
<1> QED
    BY <1>1, <1>2, <1>3, FilesTypeCorrect, PTL DEF FilesSpec

-----------------------------------------------------------------------------
(* JMAP mailboxes: types.                                                   *)

DeviceStates == [at : {"idle", "create", "update", "count", "delete"},
                 row : Rows, name : Names, seq : 0 .. MaxSeq]

LEMMA AsleepType == Asleep \in DeviceStates
<1>1. (CHOOSE f \in Rows : TRUE) \in Rows /\ (CHOOSE n \in Names : TRUE) \in Names
    BY MailboxesAssumption
<1>2. 0 \in 0 .. MaxSeq
    BY MailboxesAssumption
<1> QED
    BY <1>1, <1>2 DEF Asleep, DeviceStates

LEMMA MailboxesInitType == MailboxesInit => MailboxesTypeOK
<1>1. Inbox \in Names /\ 0 \in 0 .. MaxSeq /\ 1 \in 0 .. MaxSeq
    BY MailboxesAssumption
<1> QED
    BY <1>1, AsleepType DEF MailboxesInit, MailboxesTypeOK, DeviceStates

\* A request that reads a folder, and one that ends.
LEMMA BeginType ==
    ASSUME MailboxesTypeOK, NEW d \in Devices, NEW at \in {"create", "update", "count"},
           NEW f \in Rows, NEW n \in Names, Begin(d, at, f, n)
    PROVE  /\ device' \in [Devices -> DeviceStates]
           /\ device'[d].at = at
           /\ \A c \in Devices \ {d} : device'[c] = device[c]
BY DEF Begin, MailboxesTypeOK, DeviceStates

LEMMA EndType ==
    ASSUME MailboxesTypeOK, NEW d \in Devices, End(d)
    PROVE  /\ device' \in [Devices -> DeviceStates]
           /\ device'[d].at = "idle"
           /\ \A c \in Devices \ {d} : device'[c] = device[c]
<1>1. Asleep.at = "idle"
    BY DEF Asleep
<1> QED
    BY <1>1, AsleepType DEF End, MailboxesTypeOK, DeviceStates

LEMMA CreateChoice == (CHOOSE f \in Rows : TRUE) \in Rows
BY MailboxesAssumption

LEMMA MailboxesStepType == MailboxesTypeOK /\ [MailboxesNext]_mailboxVars => MailboxesTypeOK'
<1> SUFFICES ASSUME MailboxesTypeOK, [MailboxesNext]_mailboxVars PROVE MailboxesTypeOK'
    OBVIOUS
<1>1. ASSUME NEW d \in Devices, NEW n \in Names, AskCreate(d, n)
      PROVE  MailboxesTypeOK'
    BY <1>1, BeginType, CreateChoice DEF AskCreate, MailboxesTypeOK, DeviceStates
<1>2. ASSUME NEW d \in Devices, NEW f \in Rows, InsertFolder(d, f)
      PROVE  MailboxesTypeOK'
    <2>1. device[d].name \in Names /\ 1 \in 0 .. MaxSeq
        BY MailboxesAssumption DEF MailboxesTypeOK
    <2> QED
        BY <1>2, <2>1, EndType DEF InsertFolder, MailboxesTypeOK, DeviceStates
<1>3. ASSUME NEW d \in Devices, NEW f \in Rows, NEW n \in Names, AskUpdate(d, f, n)
      PROVE  MailboxesTypeOK'
    BY <1>3, BeginType DEF AskUpdate, MailboxesTypeOK, DeviceStates
<1>4. ASSUME NEW d \in Devices, WriteUpdate(d)
      PROVE  MailboxesTypeOK'
    <2>1. /\ device[d].name \in Names /\ device[d].row \in Rows
          /\ device[d].seq \in 0 .. MaxSeq /\ device[d].seq < MaxSeq
        BY <1>4 DEF WriteUpdate, MailboxesTypeOK
    <2>2. device[d].seq + 1 \in 0 .. MaxSeq
        BY <2>1, MailboxesAssumption
    <2> QED
        BY <1>4, <2>1, <2>2, EndType DEF WriteUpdate, MailboxesTypeOK, DeviceStates
<1>5. ASSUME NEW d \in Devices, DeviceFails(d)
      PROVE  MailboxesTypeOK'
    BY <1>5, EndType DEF DeviceFails, MailboxesTypeOK, DeviceStates
<1>6. ASSUME NEW d \in Devices, NEW f \in Rows, AskDestroy(d, f)
      PROVE  MailboxesTypeOK'
    <2>1. called[f] \in Names
        BY DEF MailboxesTypeOK
    <2> QED
        BY <1>6, <2>1, BeginType DEF AskDestroy, MailboxesTypeOK, DeviceStates
<1>7. ASSUME NEW d \in Devices, CountMessages(d)
      PROVE  MailboxesTypeOK'
    BY <1>7, EndType DEF CountMessages, MailboxesTypeOK, DeviceStates
<1>8. ASSUME NEW d \in Devices, DeleteFolder(d)
      PROVE  MailboxesTypeOK'
    BY <1>8, EndType DEF DeleteFolder, MailboxesTypeOK, DeviceStates
<1>9. ASSUME NEW f \in Rows, NEW e \in Notes, FileMail(e, f)
      PROVE  MailboxesTypeOK'
    <2>1. /\ 2 \in 0 .. MaxSeq /\ Inbox \in Names
          /\ high[f] \in 0 .. MaxSeq /\ high[f] < MaxSeq
        BY <1>9, MailboxesAssumption DEF FileMail, MailboxesTypeOK
    <2>2. high[f] + 1 \in 0 .. MaxSeq
        BY <2>1, MailboxesAssumption
    <2> QED
        BY <1>9, <2>1, <2>2 DEF FileMail, MailboxesTypeOK
<1>10. ASSUME NEW f \in Rows, NEW e \in Notes, TakeOut(f, e)
      PROVE  MailboxesTypeOK'
    <2>1. high[f] + 1 \in 0 .. MaxSeq
        BY <1>10, MailboxesAssumption DEF TakeOut, MailboxesTypeOK
    <2> QED
        BY <1>10, <2>1 DEF TakeOut, MailboxesTypeOK
<1>11. CASE UNCHANGED mailboxVars
    BY <1>11 DEF mailboxVars, MailboxesTypeOK
<1> QED
    BY <1>1, <1>2, <1>3, <1>4, <1>5, <1>6, <1>7, <1>8, <1>9, <1>10, <1>11 DEF MailboxesNext

\* The type invariant of the folder model.
THEOREM MailboxesTypeCorrect == MailboxesSpec => []MailboxesTypeOK
<1> QED
    BY MailboxesInitType, MailboxesStepType, PTL DEF MailboxesSpec

-----------------------------------------------------------------------------
(* JMAP mailboxes: what a deletion leaves behind.                           *)

\* What is in a folder that a request is about to delete came after its count.
CountedEmpty ==
    \A d \in Devices, e \in Notes :
        device[d].at = "delete" /\ <<device[d].row, e>> \in filed
            => <<device[d].row, e>> \in late

LateInv == DestroyTakesLateMailOnly /\ CountedEmpty

LEMMA LateStep ==
    ASSUME MailboxesTypeOK, LateInv, [MailboxesNext]_mailboxVars
    PROVE  LateInv'
<1> USE DEF LateInv, DestroyTakesLateMailOnly, CountedEmpty
\* Requests that read or end without deleting anything.
<1>a. ASSUME NEW d \in Devices, device'[d].at # "delete",
             \A c \in Devices \ {d} : device'[c] = device[c],
             filed' = filed, late' = late,
             \A f \in Rows : row'[f] = "gone" => row[f] = "gone"
      PROVE  LateInv'
    BY <1>a
<1>1. ASSUME NEW d \in Devices, NEW n \in Names, AskCreate(d, n)
      PROVE  LateInv'
    BY <1>1, <1>a, BeginType, CreateChoice DEF AskCreate
<1>2. ASSUME NEW d \in Devices, NEW f \in Rows, InsertFolder(d, f)
      PROVE  LateInv'
    <2>1. \A g \in Rows : row'[g] = "gone" => row[g] = "gone"
        BY <1>2 DEF InsertFolder, MailboxesTypeOK
    <2> QED
        BY <1>2, <2>1, <1>a, EndType DEF InsertFolder
<1>3. ASSUME NEW d \in Devices, NEW f \in Rows, NEW n \in Names, AskUpdate(d, f, n)
      PROVE  LateInv'
    BY <1>3, <1>a, BeginType DEF AskUpdate
<1>4. ASSUME NEW d \in Devices, WriteUpdate(d)
      PROVE  LateInv'
    BY <1>4, <1>a, EndType DEF WriteUpdate
<1>5. ASSUME NEW d \in Devices, DeviceFails(d)
      PROVE  LateInv'
    BY <1>5, <1>a, EndType DEF DeviceFails
<1>6. ASSUME NEW d \in Devices, NEW f \in Rows, AskDestroy(d, f)
      PROVE  LateInv'
    <2>1. called[f] \in Names
        BY DEF MailboxesTypeOK
    <2> QED
        BY <1>6, <2>1, <1>a, BeginType DEF AskDestroy
<1>7. ASSUME NEW d \in Devices, CountMessages(d)
      PROVE  LateInv'
    <2>1. CASE Empty(device[d].row)
        <3>1. /\ device'[d].row = device[d].row
              /\ \A c \in Devices \ {d} : device'[c] = device[c]
              /\ row' = row /\ filed' = filed /\ late' = late
            BY <1>7, <2>1 DEF CountMessages, MailboxesTypeOK
        <3> QED
            BY <2>1, <3>1 DEF Empty
    <2>2. CASE ~Empty(device[d].row)
        BY <1>7, <2>2, <1>a, EndType DEF CountMessages
    <2> QED
        BY <2>1, <2>2
<1>8. ASSUME NEW d \in Devices, DeleteFolder(d)
      PROVE  LateInv'
    <2>1. /\ device'[d].at # "delete"
          /\ \A c \in Devices \ {d} : device'[c] = device[c]
        BY <1>8, EndType DEF DeleteFolder
    <2>2. /\ device[d].at = "delete" /\ filed' = filed /\ late' = late
          /\ \A g \in Rows : g # device[d].row => row'[g] = row[g]
        BY <1>8 DEF DeleteFolder, MailboxesTypeOK
    <2> QED
        BY <2>1, <2>2
<1>9. ASSUME NEW f \in Rows, NEW e \in Notes, FileMail(e, f)
      PROVE  LateInv'
    <2>1. /\ device' = device /\ filed' = filed \cup {<<f, e>>}
          /\ row'[f] = "there" /\ \A g \in Rows : g # f => row'[g] = row[g]
        BY <1>9 DEF FileMail, MailboxesTypeOK
    <2>2. late \subseteq late'
        BY <1>9 DEF FileMail
    <2>3. ASSUME NEW d \in Devices, device[d].at = "delete", device[d].row = f
          PROVE  <<f, e>> \in late'
        BY <1>9, <2>3 DEF FileMail
    <2>4. DestroyTakesLateMailOnly'
        BY <2>1, <2>2
    <2>5. ASSUME NEW d \in Devices, NEW x \in Notes,
                 device[d].at = "delete", <<device[d].row, x>> \in filed'
          PROVE  <<device[d].row, x>> \in late'
        <3>1. CASE <<device[d].row, x>> \in filed
            BY <2>2, <2>5, <3>1
        <3>2. CASE device[d].row = f /\ x = e
            BY <2>3, <2>5, <3>2
        <3> QED
            BY <2>1, <2>5, <3>1, <3>2
    <2>6. CountedEmpty'
        BY <2>1, <2>5
    <2> QED
        BY <2>4, <2>6
<1>10. ASSUME NEW f \in Rows, NEW e \in Notes, TakeOut(f, e)
      PROVE  LateInv'
    BY <1>10 DEF TakeOut
<1>11. CASE UNCHANGED mailboxVars
    BY <1>11 DEF mailboxVars
<1> QED
    BY <1>1, <1>2, <1>3, <1>4, <1>5, <1>6, <1>7, <1>8, <1>9, <1>10, <1>11 DEF MailboxesNext

\* Destroying a folder leaves no message behind that was in it when its messages
\* were counted, however many requests count and delete at once (mailboxSet).
THEOREM DestroyAlwaysTakesLateMailOnly == MailboxesSpec => []DestroyTakesLateMailOnly
<1>1. MailboxesInit => LateInv
    BY AsleepType DEF MailboxesInit, LateInv, DestroyTakesLateMailOnly, CountedEmpty
<1>2. MailboxesTypeOK /\ LateInv /\ [MailboxesNext]_mailboxVars => LateInv'
    BY LateStep
<1>3. LateInv => DestroyTakesLateMailOnly
    BY DEF LateInv
<1> QED
    BY <1>1, <1>2, <1>3, MailboxesTypeCorrect, PTL DEF MailboxesSpec

-----------------------------------------------------------------------------
(* Quota: sums.  Bytes folds a set by taking one message out at a time, so  *)
(* what it computes is defined by recursion over the subsets of a set.  The *)
(* facts about it are proved from a smallest counterexample: the finite     *)
(* sets are well founded.                                                   *)

First(s) == CHOOSE x \in s : TRUE

\* g is the sums of the subsets of S.
SumsOf(S, g) ==
    g = [s \in SUBSET S |-> IF s = {} THEN 0 ELSE Size[First(s)] + g[s \ {First(s)}]]

LEMMA BytesFolds == \A S : Bytes(S) = (CHOOSE g : SumsOf(S, g))[S]
BY DEF Bytes, MapThenSumSet, MapThenFoldSet, SumsOf, First

LEMMA FirstIn ==
    ASSUME NEW s, s # {}
    PROVE  First(s) \in s
BY DEF First

\* A set of finite sets of messages that is not empty has a smallest one.
LEMMA SmallestSet ==
    ASSUME NEW T, T \subseteq SUBSET Messages, T # {}
    PROVE  \E s \in T : \A t \in T : t \subseteq s => t = s
<1>1. IsWellFoundedOn(StrictSubsetOrdering(Messages), FiniteSubsetsOf(Messages))
    BY FS_StrictSubsetOrderingWellFounded
<1>2. FiniteSubsetsOf(Messages) = SUBSET Messages
    BY QuotaAssumption, FS_FiniteSubsetsOfFinite
<1>3. PICK s \in T : \A t \in T : <<t, s>> \notin StrictSubsetOrdering(Messages)
    <2>1. T \subseteq FiniteSubsetsOf(Messages)
        BY <1>2
    <2> QED
        BY <1>1, <2>1, WFMin
<1>4. ASSUME NEW t \in T, t \subseteq s PROVE t = s
    <2>1. s \in SUBSET Messages /\ t \in SUBSET Messages
        OBVIOUS
    <2>2. <<t, s>> \in (SUBSET Messages) \X (SUBSET Messages)
        BY <2>1
    <2> QED
        BY <1>3, <1>4, <2>2 DEF StrictSubsetOrdering
<1> QED
    BY <1>4

LEMMA SumsStep ==
    ASSUME NEW S, NEW g, SumsOf(S, g), NEW s \in SUBSET S
    PROVE  /\ s = {} => g[s] = 0
           /\ s # {} => g[s] = Size[First(s)] + g[s \ {First(s)}]
BY DEF SumsOf

\* The sums of a set and of one of its subsets agree on the subset.
LEMMA SumsUnique ==
    ASSUME NEW S \in SUBSET Messages, NEW R \in SUBSET S, NEW g, NEW h,
           SumsOf(S, g), SumsOf(R, h)
    PROVE  g[R] = h[R]
<1> DEFINE T == {t \in SUBSET R : g[t] # h[t]}
<1>1. SUFFICES T = {}
    BY <1>1
<1>2. SUFFICES ASSUME T # {} PROVE FALSE
    OBVIOUS
<1>3. T \subseteq SUBSET Messages
    OBVIOUS
<1>4. PICK s \in T : \A t \in T : t \subseteq s => t = s
    <2> HIDE DEF T
    <2> QED
        BY <1>2, <1>3, SmallestSet
<1>5. s \in SUBSET S /\ s \in SUBSET R /\ g[s] # h[s]
    BY <1>4
<1> HIDE DEF T
<1>g. (s = {} => g[s] = 0) /\ (s # {} => g[s] = Size[First(s)] + g[s \ {First(s)}])
    BY <1>5, SumsStep
<1>h. (s = {} => h[s] = 0) /\ (s # {} => h[s] = Size[First(s)] + h[s \ {First(s)}])
    BY <1>5, SumsStep
<1>6. s # {}
    BY <1>5, <1>g, <1>h
<1>7. First(s) \in s
    BY <1>6, FirstIn
<1>8. g[s \ {First(s)}] # h[s \ {First(s)}]
    BY <1>5, <1>6, <1>g, <1>h
<1>9. s \ {First(s)} \in T
    BY <1>5, <1>8 DEF T
<1> QED
    BY <1>4, <1>7, <1>9

\* The sums of any set of messages exist.
LEMMA SumsExist ==
    ASSUME NEW S \in SUBSET Messages
    PROVE  \E g : SumsOf(S, g)
<1> DEFINE T == {t \in SUBSET Messages : ~ \E g : SumsOf(t, g)}
<1>1. SUFFICES T = {}
    BY <1>1
<1>2. SUFFICES ASSUME T # {} PROVE FALSE
    OBVIOUS
<1>3. T \subseteq SUBSET Messages
    OBVIOUS
<1>4. PICK s \in T : \A t \in T : t \subseteq s => t = s
    <2> HIDE DEF T
    <2> QED
        BY <1>2, <1>3, SmallestSet
<1> DEFINE Rest(t) == t \ {First(t)}
           G(t) == CHOOSE g : SumsOf(t, g)
           sum == [t \in SUBSET s |-> IF t = {} THEN 0 ELSE Size[First(t)] + G(Rest(t))[Rest(t)]]
<1>5. ASSUME NEW t \in SUBSET s, t # {}
      PROVE  Rest(t) \in SUBSET s /\ SumsOf(Rest(t), G(Rest(t)))
    <2>1. First(t) \in t
        BY <1>5, FirstIn
    <2>2. Rest(t) \in SUBSET s /\ Rest(t) # s /\ Rest(t) \in SUBSET Messages
        BY <2>1
    <2>3. Rest(t) \notin T
        BY <1>4, <2>2
    <2>4. \E g : SumsOf(Rest(t), g)
        BY <2>2, <2>3
    <2> QED
        BY <2>2, <2>4
<1>6. ASSUME NEW t \in SUBSET s, t # {}
      PROVE  sum[Rest(t)] = G(Rest(t))[Rest(t)]
    <2> DEFINE u == Rest(t)
    <2>1. u \in SUBSET s /\ SumsOf(u, G(u))
        BY <1>5, <1>6
    <2>2. CASE u = {}
        <3>1. sum[u] = 0
            BY <2>1, <2>2
        <3>2. G(u)[u] = 0
            BY <2>1, <2>2, SumsStep
        <3> QED
            BY <3>1, <3>2
    <2>3. CASE u # {}
        <3>1. Rest(u) \in SUBSET s /\ SumsOf(Rest(u), G(Rest(u)))
            BY <1>5, <2>1, <2>3
        <3>2. sum[u] = Size[First(u)] + G(Rest(u))[Rest(u)]
            BY <2>1, <2>3
        <3>3. G(u)[u] = Size[First(u)] + G(u)[Rest(u)]
            <4>1. u \in SUBSET u
                OBVIOUS
            <4> HIDE DEF u, G
            <4> QED
                BY <2>1, <2>3, <4>1, SumsStep
        <3>4. G(u)[Rest(u)] = G(Rest(u))[Rest(u)]
            <4>1. u \in SUBSET Messages /\ Rest(u) \in SUBSET Messages
                BY <2>1, <3>1
            <4>2. Rest(u) \in SUBSET u
                OBVIOUS
            <4>3. SumsOf(u, G(u)) /\ SumsOf(Rest(u), G(Rest(u)))
                BY <2>1, <3>1
            <4> DEFINE v == Rest(u)
                       gu == G(u)
                       gv == G(v)
            <4>4. SumsOf(u, gu) /\ SumsOf(v, gv) /\ v \in SUBSET u
                BY <4>2, <4>3
            <4>5. u \in SUBSET Messages
                BY <4>1
            <4> HIDE DEF u, v, gu, gv
            <4>6. gu[v] = gv[v]
                BY <4>4, <4>5, SumsUnique
            <4> QED
                BY <4>6 DEF gu, gv, v
        <3> QED
            BY <3>2, <3>3, <3>4
    <2> QED
        BY <2>2, <2>3
<1>7. SumsOf(s, sum)
    <2>1. \A t \in SUBSET s : t # {} => sum[Rest(t)] = G(Rest(t))[Rest(t)]
        BY <1>6
    <2>2. sum = [t \in SUBSET s |-> IF t = {} THEN 0 ELSE Size[First(t)] + sum[Rest(t)]]
        <3> DEFINE again == [t \in SUBSET s |->
                                IF t = {} THEN 0 ELSE Size[First(t)] + sum[Rest(t)]]
        <3>1. ASSUME NEW t \in SUBSET s, t # {} PROVE sum[t] = Size[First(t)] + sum[Rest(t)]
            <4>1. sum[t] = Size[First(t)] + G(Rest(t))[Rest(t)]
                BY <3>1
            <4> HIDE DEF sum
            <4> QED
                BY <2>1, <3>1, <4>1
        <3>2. \A t \in SUBSET s : t = {} => sum[t] = 0
            OBVIOUS
        <3>3. DOMAIN sum = SUBSET s /\ sum = [t \in SUBSET s |-> sum[t]]
            OBVIOUS
        <3> HIDE DEF sum
        <3>4. \A t \in SUBSET s : sum[t] = again[t]
            BY <3>1, <3>2
        <3> QED
            BY <3>3, <3>4
    <2> HIDE DEF sum
    <2> QED
        BY <2>2 DEF SumsOf
<1> HIDE DEF sum
<1> QED
    BY <1>4, <1>7

LEMMA BytesOfEmpty == Bytes({}) = 0
<1>1. \E g : SumsOf({}, g)
    BY SumsExist
<1>2. SumsOf({}, CHOOSE g : SumsOf({}, g))
    BY <1>1
<1> QED
    BY <1>2, SumsStep, BytesFolds

LEMMA BytesOfFirst ==
    ASSUME NEW S \in SUBSET Messages, S # {}
    PROVE  Bytes(S) = Size[First(S)] + Bytes(S \ {First(S)})
<1> DEFINE R == S \ {First(S)}
           G(t) == CHOOSE g : SumsOf(t, g)
<1>1. SumsOf(S, G(S)) /\ SumsOf(R, G(R))
    <2>1. (\E g : SumsOf(S, g)) /\ (\E g : SumsOf(R, g))
        BY SumsExist
    <2> QED
        BY <2>1
<1>2. Bytes(S) = G(S)[S] /\ Bytes(R) = G(R)[R]
    BY BytesFolds
<1>3. G(S)[S] = Size[First(S)] + G(S)[R]
    BY <1>1, SumsStep
<1>4. G(S)[R] = G(R)[R]
    <2>1. R \in SUBSET S
        OBVIOUS
    <2> HIDE DEF R, G
    <2> QED
        BY <1>1, <2>1, SumsUnique
<1> QED
    BY <1>2, <1>3, <1>4

LEMMA SizeType == \A m \in Messages : Size[m] \in Nat
BY QuotaAssumption

LEMMA BytesNat ==
    ASSUME NEW S \in SUBSET Messages
    PROVE  Bytes(S) \in Nat
<1> DEFINE T == {t \in SUBSET Messages : Bytes(t) \notin Nat}
<1>1. SUFFICES ASSUME T # {} PROVE FALSE
    OBVIOUS
<1>2. PICK s \in T : \A t \in T : t \subseteq s => t = s
    <2>1. T \subseteq SUBSET Messages
        OBVIOUS
    <2> HIDE DEF T
    <2> QED
        BY <1>1, <2>1, SmallestSet
<1>3. s \in SUBSET Messages /\ Bytes(s) \notin Nat
    BY <1>2
<1>4. s # {}
    BY <1>3, BytesOfEmpty
<1>5. First(s) \in s /\ Bytes(s) = Size[First(s)] + Bytes(s \ {First(s)})
    BY <1>3, <1>4, FirstIn, BytesOfFirst
<1>6. Bytes(s \ {First(s)}) \in Nat
    BY <1>2, <1>3, <1>5
<1>7. Size[First(s)] \in Nat
    BY <1>3, <1>5, SizeType
<1> QED
    BY <1>3, <1>5, <1>6, <1>7

\* Whichever message is taken out of a set, the sum is less by its size.
LEMMA BytesWithout ==
    ASSUME NEW S \in SUBSET Messages, NEW m \in S
    PROVE  Bytes(S) = Size[m] + Bytes(S \ {m})
<1> DEFINE Fails(t) == \E x \in t : Bytes(t) # Size[x] + Bytes(t \ {x})
           T == {t \in SUBSET Messages : Fails(t)}
<1>1. SUFFICES ASSUME T # {} PROVE FALSE
    OBVIOUS
<1>2. PICK s \in T : \A t \in T : t \subseteq s => t = s
    <2>1. T \subseteq SUBSET Messages
        OBVIOUS
    <2> HIDE DEF T
    <2> QED
        BY <1>1, <2>1, SmallestSet
<1>3. s \in SUBSET Messages /\ Fails(s)
    BY <1>2
<1>4. PICK x \in s : Bytes(s) # Size[x] + Bytes(s \ {x})
    BY <1>3
<1> DEFINE y == First(s)
           z == (s \ {x}) \ {y}
<1>5. y \in s /\ Bytes(s) = Size[y] + Bytes(s \ {y})
    BY <1>3, <1>4, FirstIn, BytesOfFirst
<1>6. x # y
    BY <1>4, <1>5
<1>7. \A t \in SUBSET s : t # s => ~Fails(t)
    BY <1>2, <1>3
<1> HIDE DEF y, T
<1>8. Bytes(s \ {y}) = Size[x] + Bytes((s \ {y}) \ {x})
    <2>1. s \ {y} \in SUBSET s /\ s \ {y} # s /\ x \in s \ {y}
        BY <1>5, <1>6
    <2> QED
        BY <1>7, <2>1
<1>9. Bytes(s \ {x}) = Size[y] + Bytes(z)
    <2>1. s \ {x} \in SUBSET s /\ s \ {x} # s /\ y \in s \ {x}
        BY <1>5, <1>6
    <2> QED
        BY <1>7, <2>1
<1>10. (s \ {y}) \ {x} = z
    OBVIOUS
<1>11. Bytes(z) \in Nat /\ Size[x] \in Nat /\ Size[y] \in Nat
    <2>1. z \in SUBSET Messages /\ x \in Messages /\ y \in Messages
        BY <1>3, <1>5
    <2> QED
        BY <2>1, BytesNat, SizeType
<1> HIDE DEF z
<1>12. Bytes(s) = Size[y] + (Size[x] + Bytes(z))
    BY <1>5, <1>8, <1>10
<1> QED
    BY <1>4, <1>9, <1>11, <1>12

LEMMA BytesMonotone ==
    ASSUME NEW S \in SUBSET Messages, NEW R \in SUBSET S
    PROVE  Bytes(R) <= Bytes(S)
<1> DEFINE T == {t \in SUBSET Messages : R \subseteq t /\ ~(Bytes(R) <= Bytes(t))}
<1>1. SUFFICES ASSUME T # {} PROVE FALSE
    OBVIOUS
<1>2. PICK s \in T : \A t \in T : t \subseteq s => t = s
    <2>1. T \subseteq SUBSET Messages
        OBVIOUS
    <2> HIDE DEF T
    <2> QED
        BY <1>1, <2>1, SmallestSet
<1>3. s \in SUBSET Messages /\ R \subseteq s /\ ~(Bytes(R) <= Bytes(s))
    BY <1>2
<1>4. Bytes(R) \in Nat /\ Bytes(s) \in Nat
    BY <1>3, BytesNat
<1>5. PICK x \in s : x \notin R
    <2>1. s # R
        BY <1>3, <1>4
    <2> QED
        BY <1>3, <2>1
<1>6. s \ {x} \in SUBSET Messages /\ R \subseteq s \ {x} /\ s \ {x} # s
    BY <1>3, <1>5
<1>7. Bytes(R) <= Bytes(s \ {x})
    BY <1>2, <1>6
<1>8. Bytes(s) = Size[x] + Bytes(s \ {x}) /\ Size[x] \in Nat /\ Bytes(s \ {x}) \in Nat
    BY <1>3, <1>6, BytesWithout, BytesNat, SizeType
<1> QED
    BY <1>3, <1>4, <1>7, <1>8

-----------------------------------------------------------------------------
(* Quota: the passes.                                                       *)

PassStates ==
    [at : {"idle", "owed", "looping", "updating"}, used : Int, seen : SUBSET Messages,
     next : Messages \cup {NoMessage}, picked : SUBSET Messages]

PassGoes(p, r) == pass' = [pass EXCEPT ![p] = r]

\* The messages a pass has archived and the one it is about to.
Reached(r) == r.picked \cup (IF r.at = "updating" THEN {r.next} ELSE {})

\* What a pass still counts: the active messages it saw and has not archived, and
\* the one it is about to, which another pass may have archived.
Counted(r) ==
    ((Active \cap r.seen) \ r.picked) \cup (IF r.at = "updating" THEN {r.next} ELSE {})

\* A pass that has only archived what it saw counts no less than what is left of
\* it, and every active message it saw that is older than one it archived it has
\* archived too.
PassInv(r) ==
    /\ r.at \in {"idle", "owed"} => r.picked = {} /\ r.seen = {}
    /\ r.at = "updating" => r.next \in Messages
    /\ r.seen \subseteq Stored
    /\ Reached(r) \subseteq Stored
    /\ r.at \in {"looping", "updating"} /\ Reached(r) \subseteq r.seen =>
           Bytes(Counted(r)) + OtherBytes <= r.used
    /\ \A m \in Reached(r) : \A n \in r.seen :
           n < m => n \in r.picked \/ mail[n] # "active"

Comparable(S, T) == S \subseteq T \/ T \subseteq S

\* What a pass that committed has taken into account.
Weighed == Stored \ owed

\* Messages are stored one after the other, so of two passes one saw all that the
\* other saw; and so it is with those that committed.
SightInv ==
    /\ owed \subseteq Stored
    /\ \A p \in Passes : Comparable(pass[p].seen, Weighed)
    /\ \A p, q \in Passes : Comparable(pass[p].seen, pass[q].seen)

QuotaInv ==
    /\ QuotaTypeOK
    /\ \A p \in Passes : PassInv(pass[p])
    /\ SightInv
    /\ MailFitsThePlan

LEMMA IdleType ==
    /\ Idle \in PassStates /\ Idle.at = "idle" /\ Idle.seen = {} /\ Idle.picked = {}
BY DEF Idle, PassStates

LEMMA PassType ==
    ASSUME QuotaTypeOK
    PROVE  /\ pass \in [Passes -> PassStates] /\ \A p \in Passes : pass[p] \in PassStates
           /\ mail \in [Messages -> {"none", "active", "archived", "purged"}]
           /\ Active \in SUBSET Messages /\ Stored \in SUBSET Messages
           /\ Active \subseteq Stored
BY DEF QuotaTypeOK, PassStates, Active, Stored

LEMMA PassGoesType ==
    ASSUME QuotaTypeOK, NEW p \in Passes, NEW r \in PassStates, PassGoes(p, r)
    PROVE  /\ pass' \in [Passes -> PassStates] /\ pass'[p] = r
           /\ \A q \in Passes \ {p} : pass'[q] = pass[q]
BY PassType DEF PassGoes

\* No step makes a stored message active again.
NoRevival ==
    \A m \in Messages : mail[m] # "none" =>
        mail'[m] # "none" /\ (mail'[m] = "active" => mail[m] = "active")

LEMMA CountedType ==
    ASSUME QuotaTypeOK, NEW r \in PassStates, PassInv(r)
    PROVE  Counted(r) \in SUBSET Messages /\ Reached(r) \in SUBSET Messages
<1>1. r.seen \in SUBSET Messages /\ r.picked \in SUBSET Messages
    BY DEF PassStates
<1>2. r.at = "updating" => r.next \in Messages
    BY DEF PassInv
<1> QED
    BY <1>1, <1>2, PassType DEF Counted, Reached

\* A pass that does not step keeps what it knows: what it counts only shrinks.
LEMMA PassStays ==
    ASSUME QuotaTypeOK, QuotaTypeOK', NEW r \in PassStates, PassInv(r), NoRevival
    PROVE  PassInv(r)'
<1>0. r.seen \in SUBSET Messages /\ r.picked \in SUBSET Messages /\ r.used \in Int
    BY DEF PassStates
<1>1. /\ \A m \in Stored : m \in Stored'
      /\ \A m \in r.seen : m \in Active' => m \in Active
      /\ \A m \in r.seen : mail'[m] = "active" => mail[m] = "active"
    <2>1. \A m \in r.seen : m \in Messages /\ mail[m] # "none"
        BY <1>0 DEF PassInv, Stored
    <2> QED
        BY <2>1 DEF NoRevival, Stored, Active
<1>2. Counted(r)' \subseteq Counted(r)
    BY <1>1 DEF Counted
<1>3. Bytes(Counted(r)') <= Bytes(Counted(r)) /\ Bytes(Counted(r)) \in Nat /\ Bytes(Counted(r)') \in Nat
    <2>1. Counted(r) \in SUBSET Messages /\ Counted(r)' \in SUBSET Messages
        BY <1>2, CountedType
    <2> QED
        BY <1>2, <2>1, BytesMonotone, BytesNat
<1>4. Reached(r)' = Reached(r)
    BY DEF Reached
<1>5. Bytes(Counted(r))' = Bytes(Counted(r)')
    OBVIOUS
<1>6. ASSUME r.at \in {"looping", "updating"}, Reached(r) \subseteq r.seen
      PROVE  Bytes(Counted(r)') + OtherBytes <= r.used
    <2>1. Bytes(Counted(r)) + OtherBytes <= r.used
        BY <1>6 DEF PassInv
    <2> QED
        BY <1>0, <1>3, <2>1, QuotaAssumption
<1>7. \A m \in Reached(r) : \A n \in r.seen :
          n < m => n \in r.picked \/ mail'[n] # "active"
    BY <1>1 DEF PassInv
<1>8. r.seen \subseteq Stored' /\ Reached(r) \subseteq Stored'
    BY <1>1 DEF PassInv
<1> QED
    BY <1>4, <1>5, <1>6, <1>7, <1>8 DEF PassInv

-----------------------------------------------------------------------------
\* A step of one pass: the record it leaves.
LEMMA StoreCountedDoes ==
    ASSUME QuotaTypeOK, NEW p \in Passes, NEW m \in Messages, StoreCounted(p, m)
    PROVE  \E r \in PassStates :
               /\ PassGoes(p, r) /\ r.at = "owed"
               /\ r.seen = pass[p].seen /\ r.picked = pass[p].picked
<1> DEFINE q == pass[p]
           r == [q EXCEPT !.at = "owed"]
<1>1. q \in PassStates /\ pass \in [Passes -> PassStates]
    BY PassType
<1>2. PassGoes(p, r)
    BY <1>1 DEF StoreCounted, PassGoes, PassStates
<1> HIDE DEF q
<1>3. r \in PassStates /\ r.at = "owed" /\ r.seen = q.seen /\ r.picked = q.picked
    BY <1>1 DEF PassStates
<1> HIDE DEF r
<1> QED
    BY <1>2, <1>3 DEF q

LEMMA AddUpDoes ==
    ASSUME QuotaTypeOK, NEW p \in Passes, AddUp(p)
    PROVE  \E r \in PassStates :
               /\ PassGoes(p, r) /\ r.at = "looping" /\ r.seen = Stored /\ r.picked = {}
               /\ r.used = Bytes(Active) + OtherBytes
<1> DEFINE u == Bytes(Active) + OtherBytes
           r == [Idle EXCEPT !.at = "looping", !.used = u, !.seen = Stored]
<1>1. Stored \in SUBSET Messages /\ u \in Int
    <2>1. Active \in SUBSET Messages /\ Stored \in SUBSET Messages
        BY PassType
    <2>2. Bytes(Active) \in Nat /\ OtherBytes \in Nat
        BY <2>1, BytesNat, QuotaAssumption
    <2>3. u \in Int
        BY <2>2
    <2> QED
        BY <2>1, <2>3
<1>2. PassGoes(p, r)
    BY DEF AddUp, PassGoes
<1> HIDE DEF u
<1>3. r \in PassStates /\ r.at = "looping" /\ r.used = u /\ r.seen = Stored /\ r.picked = {}
    BY <1>1, IdleType DEF PassStates
<1> HIDE DEF r
<1> QED
    BY <1>2, <1>3 DEF u

LEMMA FindOldestDoes ==
    ASSUME QuotaTypeOK, NEW p \in Passes, FindOldest(p)
    PROVE  \E m \in Messages : \E r \in PassStates :
               /\ PassGoes(p, r) /\ Found(p, m) /\ r.at = "updating" /\ r.next = m
               /\ r.used = pass[p].used /\ r.seen = pass[p].seen /\ r.picked = pass[p].picked
<1> DEFINE q == pass[p]
<1>1. q \in PassStates /\ pass \in [Passes -> PassStates]
    BY PassType
<1>2. PICK m \in Messages :
          Found(p, m) /\ pass' = [pass EXCEPT ![p].next = m, ![p].at = "updating"]
    BY DEF FindOldest
<1> DEFINE r == [q EXCEPT !.next = m, !.at = "updating"]
<1>3. PassGoes(p, r)
    BY <1>1, <1>2 DEF PassGoes, PassStates
<1> HIDE DEF q
<1>4. /\ r \in PassStates /\ r.at = "updating" /\ r.next = m
      /\ r.used = q.used /\ r.seen = q.seen /\ r.picked = q.picked
    BY <1>1 DEF PassStates
<1> HIDE DEF r
<1> QED
    BY <1>2, <1>3, <1>4 DEF q

LEMMA ArchiveDoes ==
    ASSUME QuotaTypeOK, NEW p \in Passes, Archive(p), PassInv(pass[p])
    PROVE  \E r \in PassStates :
               /\ PassGoes(p, r) /\ r.at = "looping" /\ r.picked = pass[p].picked \cup {pass[p].next}
               /\ r.seen = pass[p].seen /\ r.used = pass[p].used - Size[pass[p].next]
<1> DEFINE q == pass[p]
           s == q.picked \cup {q.next}
           u == q.used - Size[q.next]
           r == [q EXCEPT !.picked = s, !.used = u, !.next = NoMessage, !.at = "looping"]
<1>1. q \in PassStates /\ pass \in [Passes -> PassStates]
    BY PassType
<1>2. q.next \in Messages
    BY DEF Archive, PassInv
<1>3. s \in SUBSET Messages /\ u \in Int
    <2>1. q.picked \in SUBSET Messages /\ q.used \in Int
        BY <1>1 DEF PassStates
    <2>2. u \in Int
        BY <1>2, <2>1, SizeType
    <2> QED
        BY <1>2, <2>1, <2>2
<1>4. PassGoes(p, r)
    <2>1. pass' = [pass EXCEPT ![p].picked = s, ![p].used = u, ![p].next = NoMessage,
                               ![p].at = "looping"]
        BY <1>1 DEF Archive, PassStates
    <2> HIDE DEF s, u
    <2> QED
        BY <1>1, <2>1 DEF PassGoes, PassStates
<1> HIDE DEF q, s, u
<1>5. r \in PassStates /\ r.at = "looping" /\ r.picked = s /\ r.used = u /\ r.seen = q.seen
    BY <1>1, <1>3 DEF PassStates
<1> HIDE DEF r
<1> QED
    BY <1>4, <1>5 DEF q, s, u

-----------------------------------------------------------------------------
\* The mail moves on: what is stored stays stored, and nothing is revived.
MailMoves ==
    /\ mail' \in [Messages -> {"none", "active", "archived", "purged"}]
    /\ NoRevival

LEMMA StoreMoves ==
    ASSUME QuotaTypeOK, NEW m \in Messages, mail[m] = "none",
           mail' = [mail EXCEPT ![m] = "active"], owed' = owed \cup {m}
    PROVE  MailMoves /\ Weighed' = Weighed /\ (owed \subseteq Stored => owed' \subseteq Stored')
<1>1. mail \in [Messages -> {"none", "active", "archived", "purged"}]
    BY PassType
<1>2. MailMoves
    BY <1>1 DEF MailMoves, NoRevival
<1>3. Stored' = Stored \cup {m} /\ m \notin Stored
    BY <1>1 DEF Stored
<1> QED
    BY <1>2, <1>3 DEF Weighed

LEMMA StillMoves ==
    ASSUME QuotaTypeOK, mail' = mail
    PROVE  MailMoves /\ Active' = Active /\ Stored' = Stored
BY PassType DEF MailMoves, NoRevival, Active, Stored

LEMMA CommitMoves ==
    ASSUME QuotaTypeOK, NEW p \in Passes, CommitPass(p)
    PROVE  /\ MailMoves /\ Active' = Active \ pass[p].picked /\ Stored' = Stored
           /\ \A m \in Messages : m \in pass[p].picked => mail'[m] # "active"
<1>1. mail \in [Messages -> {"none", "active", "archived", "purged"}]
    BY PassType
<1>2. \A m \in Messages : mail'[m] =
          IF m \in pass[p].picked /\ mail[m] = "active" THEN "archived" ELSE mail[m]
    BY DEF CommitPass
<1>3. mail' \in [Messages -> {"none", "active", "archived", "purged"}]
    <2>1. mail' = [m \in Messages |->
              IF m \in pass[p].picked /\ mail[m] = "active" THEN "archived" ELSE mail[m]]
        BY DEF CommitPass
    <2> QED
        BY <1>1, <2>1
<1> QED
    BY <1>2, <1>3 DEF MailMoves, NoRevival, Active, Stored

LEMMA PurgeMoves ==
    ASSUME QuotaTypeOK, NEW m \in Messages, PurgeMessage(m)
    PROVE  MailMoves /\ Active' \subseteq Active /\ Stored' = Stored
<1>1. mail \in [Messages -> {"none", "active", "archived", "purged"}]
    BY PassType
<1>2. mail' = [mail EXCEPT ![m] = "purged"] /\ mail[m] # "none"
    BY DEF PurgeMessage
<1> QED
    BY <1>1, <1>2 DEF MailMoves, NoRevival, Active, Stored

LEMMA MailMovesStored ==
    ASSUME QuotaTypeOK, MailMoves
    PROVE  Stored \subseteq Stored'
BY DEF MailMoves, NoRevival, Stored

\* Active mail that is part of what fitted fits.
LEMMA LessFits ==
    ASSUME QuotaInv, QuotaTypeOK', Active' \subseteq Active, owed' = {} => owed = {}
    PROVE  MailFitsThePlan'
<1>1. /\ Active \in SUBSET Messages /\ Active' \in SUBSET Active
      /\ Bytes(Active) \in Nat /\ Bytes(Active') \in Nat /\ Bytes(Active') <= Bytes(Active)
    <2>1. Active \in SUBSET Messages /\ Active' \in SUBSET Messages /\ Active' \in SUBSET Active
        BY DEF Active
    <2> QED
        BY <2>1, BytesNat, BytesMonotone
<1>2. OtherBytes \in Nat /\ QuotaLimit \in Nat
    BY QuotaAssumption
<1>3. Bytes(Active)' = Bytes(Active')
    OBVIOUS
<1>4. ASSUME owed' = {}, Active' # {} PROVE Bytes(Active') + OtherBytes <= QuotaLimit
    <2>1. Bytes(Active) + OtherBytes <= QuotaLimit
        BY <1>1, <1>4 DEF QuotaInv, MailFitsThePlan
    <2> QED
        BY <1>1, <1>2, <2>1
<1> QED
    BY <1>3, <1>4 DEF MailFitsThePlan

-----------------------------------------------------------------------------
\* A step of one pass.
LEMMA OnePassSteps ==
    ASSUME QuotaInv, NEW p \in Passes, NEW r \in PassStates, PassGoes(p, r), MailMoves,
           owed' \subseteq Stored', PassInv(r)', MailFitsThePlan',
           \/ Weighed' = Weighed /\ r.seen \in {pass[p].seen, {}, Stored}
           \/ Weighed' = Weighed \cup pass[p].seen /\ r.seen = {}
    PROVE  QuotaInv'
<1>0. QuotaTypeOK /\ SightInv /\ Stored \subseteq Stored' /\ Weighed \subseteq Stored
    BY MailMovesStored DEF QuotaInv, Weighed
<1>1. /\ pass' \in [Passes -> PassStates] /\ pass'[p] = r
      /\ \A q \in Passes \ {p} : pass'[q] = pass[q]
    BY <1>0, PassGoesType
<1>2. QuotaTypeOK'
    <2>1. owed' \subseteq Messages
        BY DEF Stored
    <2> QED
        BY <1>1, <2>1 DEF MailMoves, QuotaTypeOK, PassStates
<1>3. ASSUME NEW q \in Passes PROVE PassInv(pass[q])'
    <2>1. CASE q = p
        BY <1>1, <2>1
    <2>2. CASE q # p
        <3>1. PICK o \in PassStates : o = pass[q]
            BY <1>0, PassType
        <3>2. PassInv(o)'
            BY <1>0, <1>2, <3>1, PassStays DEF QuotaInv, MailMoves
        <3> QED
            BY <1>1, <2>2, <3>1, <3>2
    <2> QED
        BY <2>1, <2>2
<1>4. \A q \in Passes : pass[q].seen \subseteq Stored
    BY DEF QuotaInv, PassInv
<1>5. \A q \in Passes : Comparable(pass'[q].seen, Weighed')
    <2> SUFFICES ASSUME NEW q \in Passes PROVE Comparable(pass'[q].seen, Weighed')
        OBVIOUS
    <2>1. /\ Comparable(pass[q].seen, Weighed) /\ Comparable(pass[q].seen, pass[p].seen)
          /\ Comparable(pass[p].seen, Weighed)
        BY <1>0 DEF SightInv
    <2>2. CASE q = p
        BY <1>0, <1>1, <2>1, <2>2 DEF Comparable
    <2>3. CASE q # p
        BY <1>1, <2>1, <2>3 DEF Comparable
    <2> QED
        BY <2>2, <2>3
<1>6. \A q, o \in Passes : Comparable(pass'[q].seen, pass'[o].seen)
    <2>1. \A q \in Passes : pass'[q].seen \in {pass[q].seen, {}, Stored}
        BY <1>1
    <2>2. \A q, o \in Passes : Comparable(pass[q].seen, pass[o].seen)
        BY <1>0 DEF SightInv
    <2> QED
        BY <1>4, <2>1, <2>2 DEF Comparable
<1>7. SightInv'
    BY <1>5, <1>6 DEF SightInv
<1> QED
    BY <1>2, <1>3, <1>7 DEF QuotaInv

\* A step of none.
LEMMA NoPassSteps ==
    ASSUME QuotaInv, pass' = pass, MailMoves, owed' \subseteq Stored', Weighed' = Weighed,
           MailFitsThePlan'
    PROVE  QuotaInv'
<1>0. QuotaTypeOK /\ SightInv
    BY DEF QuotaInv
<1>1. QuotaTypeOK'
    <2>1. owed' \subseteq Messages
        BY DEF Stored
    <2> QED
        BY <1>0, <2>1 DEF MailMoves, QuotaTypeOK
<1>2. ASSUME NEW q \in Passes PROVE PassInv(pass[q])'
    <2>1. PICK o \in PassStates : o = pass[q]
        BY <1>0, PassType
    <2>2. PassInv(o)'
        BY <1>0, <1>1, <2>1, PassStays DEF QuotaInv, MailMoves
    <2> QED
        BY <2>1, <2>2
<1>3. SightInv'
    BY <1>0 DEF SightInv
<1> QED
    BY <1>1, <1>2, <1>3 DEF QuotaInv

LEMMA StoreKeeps ==
    ASSUME QuotaInv, NEW m \in Messages, StoreUncounted(m)
    PROVE  QuotaInv'
<1>1. mail[m] = "none" /\ mail' = [mail EXCEPT ![m] = "active"] /\ owed' = owed \cup {m} /\ pass' = pass
    BY DEF StoreUncounted
<1>2. MailMoves /\ Weighed' = Weighed /\ owed' \subseteq Stored'
    BY <1>1, StoreMoves DEF QuotaInv, SightInv
<1>3. MailFitsThePlan'
    BY <1>1 DEF MailFitsThePlan
<1> QED
    BY <1>1, <1>2, <1>3, NoPassSteps

LEMMA StoreCountedKeeps ==
    ASSUME QuotaInv, NEW p \in Passes, NEW m \in Messages, StoreCounted(p, m)
    PROVE  QuotaInv'
<1>0. QuotaTypeOK /\ PassInv(pass[p]) /\ pass[p].at = "idle"
    BY DEF QuotaInv, StoreCounted
<1>1. mail[m] = "none" /\ mail' = [mail EXCEPT ![m] = "active"] /\ owed' = owed \cup {m}
    BY DEF StoreCounted
<1>2. MailMoves /\ Weighed' = Weighed /\ owed' \subseteq Stored'
    BY <1>1, StoreMoves DEF QuotaInv, SightInv
<1>3. MailFitsThePlan'
    BY <1>1 DEF MailFitsThePlan
<1>4. PICK r \in PassStates :
          /\ PassGoes(p, r) /\ r.at = "owed"
          /\ r.seen = pass[p].seen /\ r.picked = pass[p].picked
    BY <1>0, StoreCountedDoes
<1>5. r.seen = {} /\ r.picked = {}
    BY <1>0, <1>4 DEF PassInv
<1>6. PassInv(r)'
    BY <1>4, <1>5 DEF PassInv, Reached
<1> QED
    BY <1>2, <1>3, <1>4, <1>6, OnePassSteps

LEMMA QuietPass ==
    ASSUME QuotaInv, NEW p \in Passes, NEW r \in PassStates, PassGoes(p, r),
           UNCHANGED <<mail, owed>>, r.seen \in {pass[p].seen, {}, Stored}, PassInv(r)
    PROVE  QuotaInv'
<1>1. QuotaTypeOK /\ owed \subseteq Stored
    BY DEF QuotaInv, SightInv
<1>2. MailMoves /\ Active' = Active /\ Stored' = Stored
    BY <1>1, StillMoves
<1>3. Weighed' = Weighed /\ owed' \subseteq Stored'
    BY <1>1, <1>2 DEF Weighed
<1>4. QuotaTypeOK'
    BY <1>1, PassGoesType DEF QuotaTypeOK, PassStates
<1>5. PassInv(r)'
    BY <1>1, <1>2, <1>4, PassStays DEF MailMoves
<1>6. MailFitsThePlan'
    BY <1>2, <1>4, LessFits
<1> QED
    BY <1>2, <1>3, <1>5, <1>6, OnePassSteps

LEMMA FailKeeps ==
    ASSUME QuotaInv, NEW p \in Passes, FailPass(p)
    PROVE  QuotaInv'
<1>1. PassGoes(p, Idle) /\ UNCHANGED <<mail, owed>>
    BY DEF FailPass, PassGoes
<1>2. PassInv(Idle)
    BY IdleType DEF PassInv, Reached
<1> QED
    BY <1>1, <1>2, IdleType, QuietPass

LEMMA AddUpKeeps ==
    ASSUME QuotaInv, NEW p \in Passes, AddUp(p)
    PROVE  QuotaInv'
<1>1. PICK r \in PassStates :
          /\ PassGoes(p, r) /\ r.at = "looping" /\ r.seen = Stored /\ r.picked = {}
          /\ r.used = Bytes(Active) + OtherBytes
    BY AddUpDoes DEF QuotaInv
<1>2. Active \in SUBSET Messages /\ Active \subseteq Stored /\ Bytes(Active) \in Nat /\ OtherBytes \in Nat
    BY PassType, BytesNat, QuotaAssumption DEF QuotaInv
<1>3. Counted(r) = Active /\ Reached(r) = {}
    BY <1>1, <1>2 DEF Counted, Reached
<1>4. Bytes(Counted(r)) + OtherBytes <= r.used
    BY <1>1, <1>2, <1>3
<1>5. PassInv(r)
    BY <1>1, <1>3, <1>4 DEF PassInv
<1>6. UNCHANGED <<mail, owed>>
    BY DEF AddUp
<1> QED
    BY <1>1, <1>5, <1>6, QuietPass

\* The next message to archive is the oldest that is active and not archived yet.
LEMMA FindOldestKeeps ==
    ASSUME QuotaInv, NEW p \in Passes, FindOldest(p)
    PROVE  QuotaInv'
<1> DEFINE q == pass[p]
<1>0. QuotaTypeOK /\ PassInv(q) /\ q.at = "looping" /\ q \in PassStates /\ Active \subseteq Stored
    BY PassType DEF QuotaInv, FindOldest
<1>1. PICK m \in Messages, r \in PassStates :
          /\ PassGoes(p, r) /\ Found(p, m) /\ r.at = "updating" /\ r.next = m
          /\ r.used = q.used /\ r.seen = q.seen /\ r.picked = q.picked
    BY <1>0, FindOldestDoes
<1>2. /\ m \in Active /\ m \notin q.picked
      /\ \A n \in Messages : mail[n] = "active" /\ n \notin q.picked => m <= n
    BY <1>1 DEF Found, Visible, Active
<1>3. \A n \in q.seen : n \in Messages /\ n \in Nat /\ m \in Nat
    BY <1>0, QuotaAssumption DEF PassStates
<1> HIDE DEF q
<1>4. Reached(q) = q.picked /\ Reached(r) = q.picked \cup {m}
    BY <1>0, <1>1 DEF Reached
<1>5. Reached(r) \subseteq r.seen => Counted(r) = Counted(q) /\ Reached(q) \subseteq q.seen
    BY <1>0, <1>1, <1>2, <1>4 DEF Counted
<1>6. ASSUME Reached(r) \subseteq r.seen
      PROVE  Bytes(Counted(r)) + OtherBytes <= r.used
    BY <1>0, <1>1, <1>5, <1>6 DEF PassInv
<1>7. ASSUME NEW k \in Reached(r), NEW n \in r.seen, n < k
      PROVE  n \in r.picked \/ mail[n] # "active"
    <2>1. CASE k = m
        BY <1>1, <1>2, <1>3, <1>7, <2>1
    <2>2. CASE k \in Reached(q)
        BY <1>0, <1>1, <1>7, <2>2 DEF PassInv
    <2> QED
        BY <1>4, <2>1, <2>2
<1>8. r.seen \subseteq Stored /\ Reached(r) \subseteq Stored
    BY <1>0, <1>1, <1>2, <1>4 DEF PassInv
<1>9. PassInv(r)
    BY <1>1, <1>6, <1>7, <1>8 DEF PassInv
<1>10. UNCHANGED <<mail, owed>>
    BY DEF FindOldest
<1> QED
    BY <1>1, <1>9, <1>10, QuietPass DEF q

\* The size taken off the count is that of a message that was part of it.
LEMMA ArchiveKeeps ==
    ASSUME QuotaInv, NEW p \in Passes, Archive(p)
    PROVE  QuotaInv'
<1> DEFINE q == pass[p]
           m == q.next
<1>0. QuotaTypeOK /\ PassInv(q) /\ q.at = "updating" /\ q \in PassStates
    BY PassType DEF QuotaInv, Archive
<1>1. PICK r \in PassStates :
          /\ PassGoes(p, r) /\ r.at = "looping" /\ r.picked = q.picked \cup {m}
          /\ r.seen = q.seen /\ r.used = q.used - Size[m]
    BY <1>0, ArchiveDoes
<1>2. m \in Messages /\ Size[m] \in Nat /\ q.used \in Int /\ OtherBytes \in Nat
    BY <1>0, SizeType, QuotaAssumption DEF PassInv, PassStates
<1> HIDE DEF q, m
<1>3. Reached(r) = Reached(q)
    BY <1>0, <1>1 DEF Reached, m
<1>4. Counted(r) = Counted(q) \ {m} /\ m \in Counted(q)
    BY <1>0, <1>1 DEF Counted, m
<1>5. Bytes(Counted(q)) = Size[m] + Bytes(Counted(r)) /\ Bytes(Counted(r)) \in Nat
    <2>1. Counted(q) \in SUBSET Messages
        BY <1>0, CountedType
    <2>2. Counted(r) \in SUBSET Messages
        BY <1>4, <2>1
    <2> QED
        BY <1>4, <2>1, <2>2, BytesWithout, BytesNat
<1>6. ASSUME Reached(r) \subseteq r.seen
      PROVE  Bytes(Counted(r)) + OtherBytes <= r.used
    <2>1. Bytes(Counted(q)) + OtherBytes <= q.used
        BY <1>0, <1>1, <1>3, <1>6 DEF PassInv
    <2> QED
        BY <1>1, <1>2, <1>5, <2>1
<1>7. \A k \in Reached(r) : \A n \in r.seen : n < k => n \in r.picked \/ mail[n] # "active"
    BY <1>0, <1>1, <1>3 DEF PassInv
<1>8. PassInv(r)
    BY <1>0, <1>1, <1>3, <1>6, <1>7 DEF PassInv
<1>9. UNCHANGED <<mail, owed>>
    BY DEF Archive
<1> QED
    BY <1>1, <1>8, <1>9, QuietPass DEF q

\* When a commit leaves nothing to take into account, the pass saw all mail or all
\* of it fitted before.
LEMMA CommitPassKeeps ==
    ASSUME QuotaInv, NEW p \in Passes, CommitPass(p)
    PROVE  QuotaInv'
<1> DEFINE q == pass[p]
<1>0. /\ QuotaTypeOK /\ PassInv(q) /\ q.at = "looping" /\ q \in PassStates /\ SightInv
      /\ q.used <= QuotaLimit /\ owed' = owed \ q.seen /\ PassGoes(p, Idle)
    BY PassType DEF QuotaInv, CommitPass, Fits, PassGoes
<1>1. MailMoves /\ Active' = Active \ q.picked /\ Stored' = Stored
    BY <1>0, CommitMoves
<1>2. q.seen \subseteq Stored /\ owed \subseteq Stored
    BY <1>0 DEF PassInv, SightInv
<1>3. Weighed' = Weighed \cup q.seen /\ owed' \subseteq Stored'
    BY <1>0, <1>1, <1>2 DEF Weighed
<1>4. QuotaTypeOK'
    <2>1. pass' \in [Passes -> PassStates]
        BY <1>0, IdleType, PassGoesType
    <2>2. owed' \subseteq Messages
        BY <1>0 DEF QuotaTypeOK
    <2> QED
        BY <1>1, <2>1, <2>2 DEF MailMoves, QuotaTypeOK, PassStates
<1>5. MailFitsThePlan'
    <2>1. CASE owed = {}
        BY <1>1, <1>4, <2>1, LessFits
    <2>2. CASE owed' # {}
        BY <2>2 DEF MailFitsThePlan
    <2>3. ASSUME owed # {}, owed' = {}
          PROVE  Bytes(Active') + OtherBytes <= QuotaLimit
        <3>1. PICK w \in owed : w \in q.seen /\ w \notin Weighed
            BY <1>0, <2>3 DEF Weighed
        <3>2. Weighed \subseteq q.seen
            BY <1>0, <3>1 DEF SightInv, Comparable
        <3>3. Stored \subseteq q.seen
            BY <1>0, <2>3, <3>2 DEF Weighed
        <3>4. Active \subseteq q.seen
            BY <1>0, <3>3, PassType
        <3>5. Reached(q) \subseteq q.seen
            BY <1>0, <3>3 DEF PassInv
        <3>6. Counted(q) = Active'
            BY <1>0, <1>1, <3>4 DEF Counted
        <3>7. Bytes(Counted(q)) + OtherBytes <= q.used
            BY <1>0, <3>5 DEF PassInv
        <3>8. /\ q.used \in Int /\ QuotaLimit \in Nat /\ OtherBytes \in Nat
              /\ Bytes(Counted(q)) \in Nat
            BY <1>0, CountedType, BytesNat, QuotaAssumption DEF PassStates
        <3> QED
            BY <1>0, <3>6, <3>7, <3>8
    <2>4. Bytes(Active)' = Bytes(Active')
        OBVIOUS
    <2> QED
        BY <2>1, <2>2, <2>3, <2>4 DEF MailFitsThePlan
<1>6. PassInv(Idle)'
    BY IdleType DEF PassInv, Reached
<1> QED
    BY <1>0, <1>1, <1>3, <1>5, <1>6, IdleType, OnePassSteps

LEMMA PurgeKeeps ==
    ASSUME QuotaInv, NEW m \in Messages, PurgeMessage(m)
    PROVE  QuotaInv'
<1>0. QuotaTypeOK /\ owed \subseteq Stored /\ pass' = pass /\ owed' = owed
    BY DEF QuotaInv, SightInv, PurgeMessage
<1>1. MailMoves /\ Active' \subseteq Active /\ Stored' = Stored
    BY <1>0, PurgeMoves
<1>2. Weighed' = Weighed /\ owed' \subseteq Stored'
    BY <1>0, <1>1 DEF Weighed
<1>3. QuotaTypeOK'
    BY <1>0, <1>1 DEF MailMoves, QuotaTypeOK
<1>4. MailFitsThePlan'
    BY <1>0, <1>1, <1>3, LessFits
<1> QED
    BY <1>0, <1>1, <1>2, <1>4, NoPassSteps

LEMMA QuotaInvStep ==
    ASSUME QuotaInv, [QuotaNext]_quotaVars
    PROVE  QuotaInv'
<1>1. CASE UNCHANGED quotaVars
    <2>1. pass' = pass /\ mail' = mail /\ owed' = owed /\ QuotaTypeOK /\ owed \subseteq Stored
        BY <1>1 DEF quotaVars, QuotaInv, SightInv
    <2>2. MailMoves /\ Active' = Active /\ Stored' = Stored
        BY <2>1, StillMoves
    <2>3. QuotaTypeOK' /\ Weighed' = Weighed /\ owed' \subseteq Stored'
        BY <2>1, <2>2 DEF QuotaTypeOK, Weighed
    <2> QED
        BY <2>1, <2>2, <2>3, LessFits, NoPassSteps
<1>2. CASE QuotaNext
    BY <1>2, StoreKeeps, StoreCountedKeeps, AddUpKeeps, FindOldestKeeps, ArchiveKeeps, CommitPassKeeps,
       FailKeeps, PurgeKeeps DEF QuotaNext
<1> QED
    BY <1>1, <1>2

LEMMA QuotaInvInit ==
    ASSUME QuotaInit
    PROVE  QuotaInv
<1>1. Active = {} /\ Stored = {} /\ owed = {}
    BY DEF QuotaInit, Active, Stored
<1>2. pass \in [Passes -> PassStates] /\ \A p \in Passes : pass[p] = Idle
    BY IdleType DEF QuotaInit
<1>3. QuotaTypeOK
    BY <1>1, <1>2 DEF QuotaInit, QuotaTypeOK, PassStates
<1>4. PassInv(Idle)
    BY IdleType DEF PassInv, Reached
<1>5. SightInv
    BY <1>1, <1>2, IdleType DEF SightInv, Comparable
<1>6. MailFitsThePlan
    BY <1>1 DEF MailFitsThePlan
<1> QED
    BY <1>2, <1>3, <1>4, <1>5, <1>6 DEF QuotaInv

LEMMA QuotaInvHolds == QuotaSpec => []QuotaInv
<1>1. QuotaInit => QuotaInv
    BY QuotaInvInit
<1>2. QuotaInv /\ [QuotaNext]_quotaVars => QuotaInv'
    BY QuotaInvStep
<1> QED
    BY <1>1, <1>2, PTL DEF QuotaSpec

\* The state of the quota passes keeps its type.
THEOREM QuotaTypeCorrect == QuotaSpec => []QuotaTypeOK
<1>1. QuotaInv => QuotaTypeOK
    BY DEF QuotaInv
<1> QED
    BY <1>1, QuotaInvHolds, PTL

\* Once every stored message has been taken into account by a pass that committed,
\* active mail fits the plan, for any number of passes that run at the same time
\* and any sizes.
THEOREM QuotaIsKept == QuotaSpec => []MailFitsThePlan
<1>1. QuotaInv => MailFitsThePlan
    BY DEF QuotaInv
<1> QED
    BY <1>1, QuotaInvHolds, PTL

\* When a pass commits, no message it saw is left active that is older than one it
\* archived.
THEOREM OldestGoFirst == QuotaSpec => NewestAreRetained
<1>1. ASSUME QuotaInv, NEW p \in Passes, CommitPass(p), NEW m \in pass[p].picked,
             NEW n \in pass[p].seen, n < m
      PROVE  mail'[n] # "active"
    <2>1. QuotaTypeOK /\ PassInv(pass[p]) /\ pass[p] \in PassStates
        BY <1>1, PassType DEF QuotaInv
    <2>2. n \in Messages
        BY <2>1 DEF PassStates
    <2>3. m \in Reached(pass[p])
        BY DEF Reached
    <2>4. n \in pass[p].picked \/ mail[n] # "active"
        BY <1>1, <2>1, <2>3 DEF PassInv
    <2>5. CASE n \in pass[p].picked
        BY <1>1, <2>1, <2>2, <2>5, CommitMoves
    <2>6. CASE mail[n] # "active"
        BY <1>1, <2>2, <2>6 DEF CommitPass
    <2> QED
        BY <2>4, <2>5, <2>6
<1>2. QuotaInv => \A p \in Passes : CommitPass(p) =>
          \A m \in pass[p].picked, n \in pass[p].seen : n < m => mail'[n] # "active"
    BY <1>1
<1> QED
    BY <1>2, QuotaInvHolds, PTL DEF NewestAreRetained

-----------------------------------------------------------------------------
(* Labels and keywords.                                                     *)

TagStates ==
    [at : {"idle", "resolve", "drop", "attach", "commit"},
     op : {"add", "remove", "replace", "set", "unset"}, key : Keywords,
     mails : SUBSET Tagged, ids : SUBSET Labels, created : SUBSET Labels,
     drops : SUBSET (Tagged \X Labels), adds : SUBSET (Tagged \X Labels),
     late : SUBSET (Tagged \X Labels)]

TagGoes(c, r) == tag' = [tag EXCEPT ![c] = r]

LEMMA NoTagType ==
    /\ NoTag \in TagStates /\ NoTag.at = "idle" /\ NoTag.op = "add" /\ NoTag.mails = {}
    /\ NoTag.ids = {} /\ NoTag.created = {} /\ NoTag.drops = {} /\ NoTag.adds = {}
    /\ NoTag.late = {}
<1>1. (CHOOSE k \in Keywords : TRUE) \in Keywords
    BY LabelsAssumption
<1> QED
    BY <1>1 DEF NoTag, TagStates

LEMMA TagType ==
    ASSUME LabelsTypeOK, NEW c \in Taggers
    PROVE  tag[c] \in TagStates
BY DEF LabelsTypeOK, TagStates

LEMMA TagGoesType ==
    ASSUME LabelsTypeOK, NEW c \in Taggers, NEW r \in TagStates, TagGoes(c, r)
    PROVE  /\ tag' \in [Taggers -> TagStates]
           /\ tag'[c] = r
           /\ \A d \in Taggers \ {c} : tag'[d] = tag[d]
BY DEF TagGoes, LabelsTypeOK, TagStates

LEMMA MappedPairs ==
    ASSUME NEW m \in Tagged, NEW l \in Labels
    PROVE  <<m, l>> \in Mapped <=> l \in on[m]
BY DEF Mapped

LEMMA MappedType == Mapped \in SUBSET (Tagged \X Labels)
BY DEF Mapped

-----------------------------------------------------------------------------
\* One statement of a transaction: the record it leaves, by what it changes.
LEMMA SetKeywordDoes ==
    ASSUME LabelsTypeOK, NEW c \in Taggers, NEW op \in {"add", "remove", "replace"},
           NEW k \in Keywords, NEW S \in SUBSET Tagged, SetKeyword(c, op, k, S)
    PROVE  \E r \in TagStates :
               /\ TagGoes(c, r) /\ r.at \in {"attach", "resolve"}
               /\ (op # "add" => r.at = "resolve")
               /\ r.op = op /\ r.ids = {} /\ r.created = {} /\ r.adds = {}
<1> DEFINE a == IF op = "add" THEN "attach" ELSE "resolve"
           r == [NoTag EXCEPT !.at = a, !.op = op, !.key = k, !.mails = S]
<1>1. a \in {"attach", "resolve"}
    OBVIOUS
<1>2. TagGoes(c, r)
    BY DEF SetKeyword, TagGoes
<1> HIDE DEF a
<1>3. /\ r \in TagStates /\ r.at = a /\ r.op = op /\ r.key = k /\ r.ids = {}
      /\ r.created = {} /\ r.adds = {}
    BY <1>1, NoTagType DEF TagStates
<1> HIDE DEF r
<1> QED
    BY <1>2, <1>3 DEF a

LEMMA SetEmailLabelDoes ==
    ASSUME LabelsTypeOK, NEW c \in Taggers, NEW op \in {"set", "unset"}, NEW l \in Labels,
           NEW m \in Tagged, SetEmailLabel(c, op, l, m)
    PROVE  \E r \in TagStates :
               /\ TagGoes(c, r) /\ r.at \in {"attach", "drop"}
               /\ r.op = op /\ r.ids = {l} /\ r.created = {} /\ r.adds = {}
<1> DEFINE a == IF op = "set" THEN "attach" ELSE "drop"
           r == [NoTag EXCEPT !.at = a, !.op = op, !.key = name[l], !.mails = {m}, !.ids = {l}]
<1>1. a \in {"attach", "drop"} /\ name[l] \in Keywords
    BY DEF LabelsTypeOK
<1>2. TagGoes(c, r)
    BY DEF SetEmailLabel, TagGoes
<1> HIDE DEF a
<1>3. /\ r \in TagStates /\ r.at = a /\ r.op = op /\ r.ids = {l}
      /\ r.created = {} /\ r.adds = {}
    BY <1>1, NoTagType DEF TagStates
<1> HIDE DEF r
<1> QED
    BY <1>2, <1>3 DEF a

LEMMA ResolveDoes ==
    ASSUME LabelsTypeOK, NEW c \in Taggers, Resolve(c)
    PROVE  \E r \in TagStates :
               /\ TagGoes(c, r) /\ r.at = "drop" /\ r.ids = Doomed(c)
               /\ r.op = tag[c].op /\ r.key = tag[c].key /\ r.mails = tag[c].mails
               /\ r.created = tag[c].created /\ r.drops = tag[c].drops
               /\ r.adds = tag[c].adds /\ r.late = tag[c].late
<1> DEFINE q == tag[c]
           r == [q EXCEPT !.ids = Doomed(c), !.at = "drop"]
<1>1. q \in TagStates
    BY TagType
<1>2. Doomed(c) \in SUBSET Labels
    BY DEF Doomed, Live, LabelsTypeOK
<1>3. TagGoes(c, r)
    <2>1. tag' = [tag EXCEPT ![c].ids = Doomed(c), ![c].at = "drop"]
        BY DEF Resolve
    <2>2. tag \in [Taggers -> TagStates]
        BY DEF LabelsTypeOK, TagStates
    <2> QED
        BY <2>1, <2>2 DEF TagGoes, TagStates
<1> HIDE DEF q
<1>4. /\ r \in TagStates /\ r.at = "drop" /\ r.ids = Doomed(c) /\ r.op = q.op /\ r.key = q.key
      /\ r.mails = q.mails /\ r.created = q.created /\ r.drops = q.drops /\ r.adds = q.adds
      /\ r.late = q.late
    BY <1>1, <1>2 DEF TagStates
<1> HIDE DEF r
<1> QED
    BY <1>3, <1>4 DEF q

LEMMA DropDoes ==
    ASSUME LabelsTypeOK, NEW c \in Taggers, Drop(c)
    PROVE  \E r \in TagStates :
               /\ TagGoes(c, r) /\ r.at = (IF tag[c].op = "replace" THEN "attach" ELSE "commit")
               /\ r.drops = Mapped \cap (tag[c].mails \X tag[c].ids) /\ r.ids = tag[c].ids
               /\ r.op = tag[c].op /\ r.key = tag[c].key /\ r.mails = tag[c].mails
               /\ r.created = tag[c].created /\ r.adds = tag[c].adds /\ r.late = tag[c].late
<1> DEFINE q == tag[c]
           a == IF q.op = "replace" THEN "attach" ELSE "commit"
           d == Mapped \cap (q.mails \X q.ids)
           r == [q EXCEPT !.drops = d, !.at = a]
<1>1. q \in TagStates
    BY TagType
<1>2. a \in {"attach", "commit"} /\ d \in SUBSET (Tagged \X Labels)
    BY MappedType
<1>3. TagGoes(c, r)
    <2>1. tag' = [tag EXCEPT ![c].drops = d, ![c].at = a]
        BY DEF Drop
    <2>2. tag \in [Taggers -> TagStates]
        BY DEF LabelsTypeOK, TagStates
    <2> HIDE DEF d, a
    <2> QED
        BY <2>1, <2>2 DEF TagGoes, TagStates
<1> HIDE DEF q, a, d
<1>4. /\ r \in TagStates /\ r.at = a /\ r.drops = d /\ r.op = q.op /\ r.key = q.key
      /\ r.mails = q.mails /\ r.created = q.created /\ r.ids = q.ids /\ r.adds = q.adds
      /\ r.late = q.late
    BY <1>1, <1>2 DEF TagStates
<1> HIDE DEF r
<1> QED
    BY <1>3, <1>4 DEF q, a, d

LEMMA AttachDoes ==
    ASSUME LabelsTypeOK, NEW c \in Taggers, NEW l \in Labels, Attaches(c, l)
    PROVE  \E r \in TagStates :
               /\ TagGoes(c, r) /\ r.at = "commit" /\ tag[c].at = "attach"
               /\ r.adds = (tag[c].mails \X {l}) \ (Mapped \ tag[c].drops)
               /\ r.created = (IF label[l] = "free" THEN {l} ELSE {}) /\ r.ids = tag[c].ids
               /\ r.op = tag[c].op /\ r.key = tag[c].key /\ r.mails = tag[c].mails
               /\ r.drops = tag[c].drops /\ r.late = tag[c].late
<1> DEFINE q == tag[c]
           n == IF label[l] = "free" THEN {l} ELSE {}
           a == (q.mails \X {l}) \ (Mapped \ q.drops)
           r == [q EXCEPT !.adds = a, !.created = n, !.at = "commit"]
<1>1. q \in TagStates
    BY TagType
<1>2. n \in SUBSET Labels /\ a \in SUBSET (Tagged \X Labels)
    <2>1. q.mails \in SUBSET Tagged
        BY <1>1 DEF TagStates
    <2> QED
        BY <2>1
<1>3. TagGoes(c, r) /\ q.at = "attach"
    <2>1. tag' = [tag EXCEPT ![c].adds = a, ![c].created = n, ![c].at = "commit"]
        BY DEF Attaches
    <2>2. tag \in [Taggers -> TagStates]
        BY DEF LabelsTypeOK, TagStates
    <2>3. q.at = "attach"
        BY DEF Attaches
    <2> HIDE DEF n, a
    <2> QED
        BY <2>1, <2>2, <2>3 DEF TagGoes, TagStates
<1> HIDE DEF q, a, n
<1>4. /\ r \in TagStates /\ r.at = "commit" /\ r.adds = a /\ r.created = n /\ r.op = q.op
      /\ r.key = q.key /\ r.mails = q.mails /\ r.drops = q.drops /\ r.ids = q.ids
      /\ r.late = q.late
    BY <1>1, <1>2 DEF TagStates
<1> HIDE DEF r
<1> QED
    BY <1>3, <1>4 DEF q, a, n

\* A commit ends its transaction and is late for those that have read already.
LEMMA CommitDoes ==
    ASSUME LabelsTypeOK, NEW c \in Taggers, CommitTag(c)
    PROVE  /\ tag' \in [Taggers -> TagStates]
           /\ tag'[c] = NoTag
           /\ \A d \in Taggers \ {c} :
                  /\ tag'[d].at = tag[d].at /\ tag'[d].op = tag[d].op /\ tag'[d].key = tag[d].key
                  /\ tag'[d].mails = tag[d].mails /\ tag'[d].ids = tag[d].ids
                  /\ tag'[d].created = tag[d].created /\ tag'[d].drops = tag[d].drops
                  /\ tag'[d].adds = tag[d].adds /\ tag[d].late \subseteq tag'[d].late
                  /\ tag[d].at \in {"idle", "resolve"} \/ tag[c].adds \subseteq tag'[d].late
<1> DEFINE Later(d) == [tag[d] EXCEPT !.late = @ \cup tag[c].adds]
           Next(d) == IF d = c THEN NoTag
                      ELSE IF tag[d].at \in {"idle", "resolve"} THEN tag[d] ELSE Later(d)
<1>1. tag' = [d \in Taggers |-> Next(d)]
    BY DEF CommitTag
<1>2. ASSUME NEW d \in Taggers
      PROVE  /\ Later(d) \in TagStates
             /\ Later(d).at = tag[d].at /\ Later(d).op = tag[d].op /\ Later(d).key = tag[d].key
             /\ Later(d).mails = tag[d].mails /\ Later(d).ids = tag[d].ids
             /\ Later(d).created = tag[d].created /\ Later(d).drops = tag[d].drops
             /\ Later(d).adds = tag[d].adds /\ Later(d).late = tag[d].late \cup tag[c].adds
    <2>1. tag[d] \in TagStates /\ tag[c] \in TagStates
        BY TagType
    <2> QED
        BY <2>1 DEF TagStates
<1> HIDE DEF Later
<1>3. \A d \in Taggers : Next(d) \in TagStates
    BY <1>2, NoTagType, TagType
<1>4. \A d \in Taggers : tag'[d] = Next(d)
    BY <1>1
<1>5. tag' \in [Taggers -> TagStates]
    BY <1>1, <1>3
<1> QED
    BY <1>2, <1>4, <1>5

-----------------------------------------------------------------------------
\* The rest of the state.
LEMMA LabelsTypeStep ==
    ASSUME LabelsTypeOK, [LabelsNext]_labelVars
    PROVE  LabelsTypeOK'
<1> DEFINE States == {"free", "pending", "live", "deleted"}
<1>0. /\ label \in [Labels -> States] /\ name \in [Labels -> Keywords]
      /\ on \in [Tagged -> SUBSET Labels] /\ tag \in [Taggers -> TagStates]
    BY DEF LabelsTypeOK, TagStates
<1>1. SUFFICES /\ label' \in [Labels -> States] /\ name' \in [Labels -> Keywords]
               /\ on' \in [Tagged -> SUBSET Labels] /\ tag' \in [Taggers -> TagStates]
    BY DEF LabelsTypeOK, TagStates
<1>2. CASE UNCHANGED labelVars
    BY <1>0, <1>2 DEF labelVars
<1>3. ASSUME NEW l \in Labels, CreateLabel(l) \/ DeleteLabel(l)
      PROVE  /\ label' \in [Labels -> States] /\ UNCHANGED <<name, tag>>
             /\ on' \in [Tagged -> SUBSET Labels]
    BY <1>0, <1>3 DEF CreateLabel, DeleteLabel
<1>4. ASSUME NEW c \in Taggers, NEW op \in {"add", "remove", "replace"}, NEW k \in Keywords,
             NEW S \in SUBSET Tagged, SetKeyword(c, op, k, S)
      PROVE  UNCHANGED <<label, name, on>> /\ tag' \in [Taggers -> TagStates]
    <2>1. UNCHANGED <<label, name, on>>
        BY <1>4 DEF SetKeyword
    <2>2. PICK r \in TagStates : TagGoes(c, r)
        BY <1>4, SetKeywordDoes
    <2> QED
        BY <2>1, <2>2, TagGoesType
<1>5. ASSUME NEW c \in Taggers, NEW op \in {"set", "unset"}, NEW l \in Labels, NEW m \in Tagged,
             SetEmailLabel(c, op, l, m)
      PROVE  UNCHANGED <<label, name, on>> /\ tag' \in [Taggers -> TagStates]
    BY <1>5, SetEmailLabelDoes, TagGoesType DEF SetEmailLabel
<1>6. ASSUME NEW c \in Taggers, Resolve(c) \/ Drop(c)
      PROVE  UNCHANGED <<label, name, on>> /\ tag' \in [Taggers -> TagStates]
    BY <1>6, ResolveDoes, DropDoes, TagGoesType DEF Resolve, Drop
<1>7. ASSUME NEW c \in Taggers, NEW l \in Labels, AttachFound(c, l) \/ AttachNew(c, l)
      PROVE  /\ label' \in [Labels -> States] /\ UNCHANGED <<name, on>>
             /\ tag' \in [Taggers -> TagStates]
    <2>1. Attaches(c, l) /\ UNCHANGED <<name, on>>
        BY <1>7 DEF AttachFound, AttachNew
    <2>2. label' \in [Labels -> States]
        BY <1>0, <1>7 DEF AttachFound, AttachNew
    <2>3. PICK r \in TagStates : TagGoes(c, r)
        BY <2>1, AttachDoes
    <2> QED
        BY <2>1, <2>2, <2>3, TagGoesType
<1>8. ASSUME NEW c \in Taggers, CommitTag(c)
      PROVE  /\ label' \in [Labels -> States] /\ name' = name
             /\ on' \in [Tagged -> SUBSET Labels] /\ tag' \in [Taggers -> TagStates]
    <2>1. label' \in [Labels -> States] /\ name' = name
        BY <1>0, <1>8 DEF CommitTag
    <2>2. on' \in [Tagged -> SUBSET Labels]
        BY <1>8 DEF CommitTag
    <2> QED
        BY <1>8, <2>1, <2>2, CommitDoes
<1>9. ASSUME NEW c \in Taggers, AbortTag(c)
      PROVE  /\ label' \in [Labels -> States] /\ UNCHANGED <<name, on>>
             /\ tag' \in [Taggers -> TagStates]
    <2>1. label' \in [Labels -> States]
        BY <1>0, <1>9 DEF AbortTag
    <2>2. TagGoes(c, NoTag) /\ UNCHANGED <<name, on>>
        BY <1>9 DEF AbortTag, TagGoes
    <2> QED
        BY <2>1, <2>2, NoTagType, TagGoesType
<1> QED
    BY <1>0, <1>2, <1>3, <1>4, <1>5, <1>6, <1>7, <1>8, <1>9 DEF LabelsNext

LEMMA LabelsTypeInit == LabelsInit => LabelsTypeOK
<1> SUFFICES ASSUME LabelsInit PROVE LabelsTypeOK
    OBVIOUS
<1>1. tag \in [Taggers -> TagStates]
    BY NoTagType DEF LabelsInit
<1>2. label \in [Labels -> {"free", "pending", "live", "deleted"}]
    BY DEF LabelsInit
<1>3. on \in [Tagged -> SUBSET Labels]
    BY DEF LabelsInit
<1> QED
    BY <1>1, <1>2, <1>3 DEF LabelsInit, LabelsTypeOK, TagStates

\* The state of the labels keeps its type: a transaction carries what its next
\* statement needs.
THEOREM LabelsTypeCorrect == LabelsSpec => []LabelsTypeOK
<1>1. LabelsTypeOK /\ [LabelsNext]_labelVars => LabelsTypeOK'
    BY LabelsTypeStep
<1> QED
    BY <1>1, LabelsTypeInit, PTL DEF LabelsSpec

-----------------------------------------------------------------------------
\* A label that others can see, or could; a mapping has no other.
Settled(l) == label[l] \in {"live", "deleted"}

\* A label that the transaction c has to take off its messages.
Unwanted(c, l) ==
    /\ label[l] = "live"
    /\ \/ tag[c].op = "remove" /\ name[l] = tag[c].key
       \/ tag[c].op = "replace" /\ name[l] \in Atoms \ {tag[c].key}

\* What a transaction knows: the labels it adds are not those it removes, and
\* what it removes is among the labels it found, or the mappings it deleted, or
\* came late.
TagInv(c) ==
    /\ tag[c].op = "remove" => tag[c].adds = {} /\ tag[c].at # "attach"
    /\ tag[c].op = "replace" =>
           \A m \in Tagged, l \in Labels : <<m, l>> \in tag[c].adds => name[l] = tag[c].key
    /\ \A l \in tag[c].ids : Settled(l)
    /\ \A m \in Tagged, l \in Labels :
           <<m, l>> \in tag[c].adds => Settled(l) \/ l \in tag[c].created
    /\ \A l \in tag[c].created : label[l] = "pending"
    /\ tag[c].at # "commit" => tag[c].created = {} /\ tag[c].adds = {}
    /\ tag[c].at = "drop" => \A m \in tag[c].mails : \A l \in on[m] :
           Unwanted(c, l) => l \in tag[c].ids \/ <<m, l>> \in tag[c].late
    /\ tag[c].at \in {"attach", "commit"} => \A m \in tag[c].mails : \A l \in on[m] :
           Unwanted(c, l) => <<m, l>> \in tag[c].drops \cup tag[c].late

\* No two transactions have created the same row.
CreatedOnce ==
    \A c, d \in Taggers : c # d => tag[c].created \cap tag[d].created = {}

LabelInv ==
    /\ LabelsTypeOK
    /\ \A c \in Taggers : TagInv(c)
    /\ CreatedOnce
    /\ \A m \in Tagged : \A l \in on[m] : Settled(l)

\* A transaction that does not step keeps what it knows: what is settled stays
\* so, its own rows stay pending, and a mapping of a live label that is new is
\* late for it.
LEMMA OtherTags ==
    ASSUME LabelInv, NEW d \in Taggers, name' = name,
           tag'[d].at = tag[d].at, tag'[d].op = tag[d].op, tag'[d].key = tag[d].key,
           tag'[d].mails = tag[d].mails, tag'[d].ids = tag[d].ids,
           tag'[d].created = tag[d].created, tag'[d].drops = tag[d].drops,
           tag'[d].adds = tag[d].adds, tag[d].late \subseteq tag'[d].late,
           \A l \in Labels : Settled(l) => Settled(l)',
           \A l \in tag[d].created : label'[l] = label[l],
           \A m \in Tagged : \A l \in on'[m] : label'[l] = "live" =>
               \/ l \in on[m] /\ label[l] = "live"
               \/ <<m, l>> \in tag'[d].late
               \/ tag[d].at \in {"idle", "resolve"}
    PROVE  TagInv(d)'
<1>0. tag[d] \in TagStates /\ TagInv(d)
    BY TagType DEF LabelInv
<1>1. tag[d].mails \subseteq Tagged /\ tag[d].ids \subseteq Labels /\ tag[d].created \subseteq Labels
    BY <1>0 DEF TagStates
<1>2. /\ tag'[d].op = "remove" => tag'[d].adds = {} /\ tag'[d].at # "attach"
      /\ tag'[d].op = "replace" =>
             \A m \in Tagged, l \in Labels : <<m, l>> \in tag'[d].adds => name'[l] = tag'[d].key
      /\ \A l \in tag'[d].ids : Settled(l)'
      /\ \A m \in Tagged, l \in Labels :
             <<m, l>> \in tag'[d].adds => Settled(l)' \/ l \in tag'[d].created
      /\ \A l \in tag'[d].created : label'[l] = "pending"
      /\ tag'[d].at # "commit" => tag'[d].created = {} /\ tag'[d].adds = {}
    BY <1>0, <1>1 DEF TagInv
<1>3. tag'[d].at = "drop" => \A m \in tag'[d].mails : \A l \in on'[m] :
          Unwanted(d, l)' => l \in tag'[d].ids \/ <<m, l>> \in tag'[d].late
    <2> SUFFICES ASSUME tag[d].at = "drop", NEW m \in tag[d].mails, NEW l \in on'[m], Unwanted(d, l)'
                 PROVE  l \in tag[d].ids \/ <<m, l>> \in tag'[d].late
        OBVIOUS
    <2>1. (l \in on[m] /\ Unwanted(d, l)) \/ <<m, l>> \in tag'[d].late
        BY <1>1 DEF Unwanted
    <2> QED
        BY <1>0, <2>1 DEF TagInv
<1>4. tag'[d].at \in {"attach", "commit"} => \A m \in tag'[d].mails : \A l \in on'[m] :
          Unwanted(d, l)' => <<m, l>> \in tag'[d].drops \cup tag'[d].late
    <2> SUFFICES ASSUME tag[d].at \in {"attach", "commit"}, NEW m \in tag[d].mails,
                        NEW l \in on'[m], Unwanted(d, l)'
                 PROVE  <<m, l>> \in tag[d].drops \cup tag'[d].late
        OBVIOUS
    <2>1. (l \in on[m] /\ Unwanted(d, l)) \/ <<m, l>> \in tag'[d].late
        BY <1>1 DEF Unwanted
    <2> QED
        BY <1>0, <2>1 DEF TagInv
<1> QED
    BY <1>2, <1>3, <1>4 DEF TagInv

\* A step of c alone: the labels and the mappings stay, or a free row becomes
\* pending.
LEMMA OneTagSteps ==
    ASSUME LabelInv, NEW c \in Taggers, NEW r \in TagStates, TagGoes(c, r),
           name' = name, on' = on, NEW l \in Labels,
           label' = label \/ (label[l] = "free" /\ label' = [label EXCEPT ![l] = "pending"]),
           \A d \in Taggers \ {c} : tag[d].created \cap r.created = {},
           TagInv(c)'
    PROVE  LabelInv'
<1>0. LabelsTypeOK /\ label \in [Labels -> {"free", "pending", "live", "deleted"}]
    BY DEF LabelInv, LabelsTypeOK
<1>1. /\ tag'[c] = r /\ \A d \in Taggers \ {c} : tag'[d] = tag[d]
      /\ tag' \in [Taggers -> TagStates]
    BY <1>0, TagGoesType
<1>2. /\ \A k \in Labels : label[k] # "free" => label'[k] = label[k]
      /\ \A k \in Labels : label'[k] = "live" => label[k] = "live"
      /\ label' \in [Labels -> {"free", "pending", "live", "deleted"}]
    BY <1>0
<1>3. \A k \in Labels : Settled(k) => Settled(k)'
    BY <1>2 DEF Settled
<1>4. ASSUME NEW d \in Taggers \ {c} PROVE TagInv(d)'
    <2>1. \A k \in tag[d].created : k \in Labels /\ label[k] = "pending"
        BY <1>0, TagType DEF LabelInv, TagInv, TagStates
    <2>2. \A m \in Tagged : \A k \in on[m] : k \in Labels
        BY <1>0 DEF LabelsTypeOK
    <2> QED
        BY <1>1, <1>2, <1>3, <2>1, <2>2, OtherTags
<1>5. CreatedOnce'
    BY <1>1 DEF LabelInv, CreatedOnce
<1>6. LabelsTypeOK'
    BY <1>0, <1>1, <1>2 DEF LabelsTypeOK, TagStates
<1>7. \A m \in Tagged : \A k \in on'[m] : Settled(k)'
    BY <1>0, <1>3 DEF LabelInv, LabelsTypeOK
<1> QED
    BY <1>4, <1>5, <1>6, <1>7 DEF LabelInv

\* Before its commit a transaction has added and created nothing.
LEMMA BeforeCommit ==
    ASSUME LabelInv, NEW c \in Taggers, tag[c].at # "commit"
    PROVE  tag[c].created = {} /\ tag[c].adds = {}
BY DEF LabelInv, TagInv

LEMMA QuietTag ==
    ASSUME LabelInv, NEW c \in Taggers, NEW r \in TagStates, TagGoes(c, r),
           UNCHANGED <<label, name, on>>, r.created = {}, TagInv(c)'
    PROVE  LabelInv'
<1>1. CASE Labels = {}
    <2>1. tag'[c] = r /\ (\A d \in Taggers \ {c} : tag'[d] = tag[d]) /\ tag' \in [Taggers -> TagStates]
        BY TagGoesType DEF LabelInv
    <2>2. ASSUME NEW d \in Taggers \ {c} PROVE TagInv(d)'
        BY <2>1, OtherTags DEF Settled, LabelInv
    <2>3. CreatedOnce'
        BY <2>1 DEF LabelInv, CreatedOnce
    <2>4. LabelsTypeOK'
        BY <2>1 DEF LabelInv, LabelsTypeOK, TagStates
    <2> QED
        BY <2>2, <2>3, <2>4 DEF LabelInv, Settled
<1>2. ASSUME NEW l \in Labels PROVE LabelInv'
    <2>1. \A d \in Taggers \ {c} : tag[d].created \cap r.created = {}
        OBVIOUS
    <2>2. label' = label /\ name' = name /\ on' = on
        OBVIOUS
    <2>3. label' = label \/ (label[l] = "free" /\ label' = [label EXCEPT ![l] = "pending"])
        BY <2>2
    <2> QED
        BY <2>1, <2>2, <2>3, OneTagSteps
<1> QED
    BY <1>1, <1>2

LEMMA SetKeywordKeeps ==
    ASSUME LabelInv, NEW c \in Taggers, NEW op \in {"add", "remove", "replace"},
           NEW k \in Keywords, NEW S \in SUBSET Tagged, SetKeyword(c, op, k, S)
    PROVE  LabelInv'
<1>0. LabelsTypeOK
    BY DEF LabelInv
<1>1. PICK r \in TagStates :
          /\ TagGoes(c, r) /\ r.at \in {"attach", "resolve"} /\ (op # "add" => r.at = "resolve")
          /\ r.op = op /\ r.ids = {} /\ r.created = {} /\ r.adds = {}
    BY <1>0, SetKeywordDoes
<1>2. tag'[c] = r
    BY <1>1, TagGoesType DEF LabelInv
<1>3. TagInv(c)'
    BY <1>1, <1>2 DEF TagInv, Unwanted
<1>4. UNCHANGED <<label, name, on>>
    BY DEF SetKeyword
<1> QED
    BY <1>1, <1>3, <1>4, QuietTag

LEMMA SetEmailLabelKeeps ==
    ASSUME LabelInv, NEW c \in Taggers, NEW op \in {"set", "unset"}, NEW l \in Labels,
           NEW m \in Tagged, SetEmailLabel(c, op, l, m)
    PROVE  LabelInv'
<1>0. LabelsTypeOK
    BY DEF LabelInv
<1>1. PICK r \in TagStates :
          /\ TagGoes(c, r) /\ r.at \in {"attach", "drop"}
          /\ r.op = op /\ r.ids = {l} /\ r.created = {} /\ r.adds = {}
    BY <1>0, SetEmailLabelDoes
<1>2. tag'[c] = r
    BY <1>1, TagGoesType DEF LabelInv
<1>3. UNCHANGED <<label, name, on>> /\ label[l] = "live"
    BY DEF SetEmailLabel
<1>4. TagInv(c)'
    BY <1>1, <1>2, <1>3 DEF TagInv, Unwanted, Settled
<1> QED
    BY <1>1, <1>3, <1>4, QuietTag

LEMMA ResolveKeeps ==
    ASSUME LabelInv, NEW c \in Taggers, Resolve(c)
    PROVE  LabelInv'
<1> DEFINE q == tag[c]
<1>1. PICK r \in TagStates :
          /\ TagGoes(c, r) /\ r.at = "drop" /\ r.ids = Doomed(c)
          /\ r.op = q.op /\ r.key = q.key /\ r.mails = q.mails
          /\ r.created = q.created /\ r.adds = q.adds
    BY ResolveDoes DEF LabelInv
<1>2. tag'[c] = r /\ q \in TagStates
    BY <1>1, TagGoesType, TagType DEF LabelInv
<1>3. UNCHANGED <<label, name, on>>
    BY DEF Resolve
<1>4. r.created = {} /\ r.adds = {}
    BY <1>1, BeforeCommit DEF Resolve
<1>5. \A l \in r.ids : Settled(l)
    BY <1>1 DEF Doomed, Live, Settled
<1>6. ASSUME NEW m \in r.mails, NEW l \in on[m], label[l] = "live",
             \/ r.op = "remove" /\ name[l] = r.key
             \/ r.op = "replace" /\ name[l] \in Atoms \ {r.key}
      PROVE  l \in r.ids
    <2>1. m \in q.mails /\ l \in Labels
        BY <1>1, <1>2, <1>6 DEF LabelInv, LabelsTypeOK, TagStates
    <2> QED
        BY <1>1, <1>6, <2>1 DEF Doomed, Live
<1> HIDE DEF q
<1>7. TagInv(c)'
    BY <1>1, <1>2, <1>3, <1>4, <1>5, <1>6 DEF TagInv, Unwanted, Settled
<1> QED
    BY <1>1, <1>3, <1>4, <1>7, QuietTag

LEMMA DropKeeps ==
    ASSUME LabelInv, NEW c \in Taggers, Drop(c)
    PROVE  LabelInv'
<1> DEFINE q == tag[c]
<1>1. PICK r \in TagStates :
          /\ TagGoes(c, r) /\ r.at = (IF q.op = "replace" THEN "attach" ELSE "commit")
          /\ r.drops = Mapped \cap (q.mails \X q.ids) /\ r.ids = q.ids
          /\ r.op = q.op /\ r.key = q.key /\ r.mails = q.mails
          /\ r.created = q.created /\ r.adds = q.adds /\ r.late = q.late
    BY DropDoes DEF LabelInv
<1>2. tag'[c] = r /\ q \in TagStates /\ TagInv(c) /\ q.at = "drop"
    BY <1>1, TagGoesType, TagType DEF LabelInv, Drop
<1>3. UNCHANGED <<label, name, on>>
    BY DEF Drop
<1>4. r.created = {} /\ r.adds = {}
    BY <1>1, BeforeCommit DEF Drop
<1>5. \A l \in r.ids : Settled(l)
    BY <1>1, <1>2 DEF TagInv
<1>6. ASSUME NEW m \in r.mails, NEW l \in on[m], Unwanted(c, l)
      PROVE  <<m, l>> \in r.drops \cup r.late
    <2>1. m \in q.mails /\ m \in Tagged /\ l \in Labels
        BY <1>1, <1>2, <1>6 DEF LabelInv, LabelsTypeOK, TagStates
    <2>2. l \in q.ids \/ <<m, l>> \in q.late
        BY <1>2, <1>6, <2>1 DEF TagInv
    <2>3. <<m, l>> \in Mapped
        BY <1>6, <2>1, MappedPairs
    <2> QED
        BY <1>1, <2>1, <2>2, <2>3
<1> HIDE DEF q
<1>7. \A m \in r.mails : \A l \in on[m] : Unwanted(c, l)' => Unwanted(c, l)
    BY <1>1, <1>2, <1>3 DEF Unwanted, q
<1>8. TagInv(c)'
    BY <1>1, <1>2, <1>3, <1>4, <1>5, <1>6, <1>7 DEF TagInv, Settled
<1> QED
    BY <1>1, <1>3, <1>4, <1>8, QuietTag

LEMMA AttachKeeps ==
    ASSUME LabelInv, NEW c \in Taggers, NEW l \in Labels, AttachFound(c, l) \/ AttachNew(c, l)
    PROVE  LabelInv'
<1>0. label' = label \/ (label[l] = "free" /\ label' = [label EXCEPT ![l] = "pending"])
    <2>1. AttachFound(c, l) => label' = label
        BY DEF AttachFound
    <2>2. AttachNew(c, l) => label[l] = "free" /\ label' = [label EXCEPT ![l] = "pending"]
        BY DEF AttachNew
    <2> QED
        BY <2>1, <2>2
<1> DEFINE q == tag[c]
<1>1. Attaches(c, l) /\ name' = name /\ on' = on
    BY DEF AttachFound, AttachNew
<1>2. PICK r \in TagStates :
          /\ TagGoes(c, r) /\ r.at = "commit" /\ q.at = "attach"
          /\ r.adds = (q.mails \X {l}) \ (Mapped \ q.drops)
          /\ r.created = (IF label[l] = "free" THEN {l} ELSE {}) /\ r.ids = q.ids
          /\ r.op = q.op /\ r.key = q.key /\ r.mails = q.mails
          /\ r.drops = q.drops /\ r.late = q.late
    BY <1>1, AttachDoes DEF LabelInv
<1>3. tag'[c] = r /\ q \in TagStates /\ TagInv(c)
    BY <1>2, TagGoesType, TagType DEF LabelInv
<1>4. label \in [Labels -> {"free", "pending", "live", "deleted"}]
    BY DEF LabelInv, LabelsTypeOK
<1>5. \/ label' = label /\ Settled(l) /\ (q.op = "set" \/ name[l] = q.key)
      \/ label[l] = "free" /\ label' = [label EXCEPT ![l] = "pending"] /\ name[l] = q.key
    <2>1. AttachFound(c, l) => label' = label /\ Settled(l) /\ (q.op = "set" \/ name[l] = q.key)
        BY <1>3 DEF AttachFound, Live, Settled, TagInv
    <2>2. AttachNew(c, l) =>
              label[l] = "free" /\ label' = [label EXCEPT ![l] = "pending"] /\ name[l] = q.key
        BY DEF AttachNew
    <2> QED
        BY <2>1, <2>2
<1>6. q.op # "remove" /\ q.created = {}
    BY <1>2, <1>3 DEF TagInv
<1>7. \A m \in Tagged, k \in Labels : <<m, k>> \in r.adds => k = l
    BY <1>2
<1>8. \A d \in Taggers \ {c} : tag[d].created \cap r.created = {}
    <2>1. \A d \in Taggers : \A k \in tag[d].created : label[k] = "pending"
        BY DEF LabelInv, TagInv
    <2> QED
        BY <1>2, <2>1
<1> HIDE DEF q
<1>9. \A k \in Labels : Settled(k) => Settled(k)'
    BY <1>4, <1>5 DEF Settled
<1>10. \A m \in q.mails : \A k \in on[m] : Unwanted(c, k)' => Unwanted(c, k)
    <2>1. \A m \in q.mails : \A k \in on[m] : k \in Labels
        BY <1>3 DEF LabelInv, LabelsTypeOK, TagStates
    <2>2. \A k \in Labels : label'[k] = "live" => label[k] = "live"
        BY <1>4, <1>5
    <2> QED
        BY <1>1, <1>2, <1>3, <2>1, <2>2 DEF Unwanted, q
<1>11. /\ Settled(l)' \/ l \in r.created
       /\ \A k \in r.created : label'[k] = "pending"
    BY <1>2, <1>4, <1>5, <1>9 DEF Settled
<1>12. r.op = "replace" => name[l] = r.key
    BY <1>2, <1>5
<1>13. \A k \in r.ids : Settled(k)'
    BY <1>2, <1>3, <1>9 DEF TagInv, TagStates, q
<1>14. \A m \in r.mails : \A k \in on[m] : Unwanted(c, k)' => <<m, k>> \in r.drops \cup r.late
    BY <1>2, <1>3, <1>10 DEF TagInv, q
<1>15. TagInv(c)'
    BY <1>1, <1>2, <1>3, <1>6, <1>7, <1>11, <1>12, <1>13, <1>14 DEF TagInv
<1> QED
    BY <1>0, <1>1, <1>2, <1>8, <1>15, OneTagSteps

LEMMA CommitTagKeeps ==
    ASSUME LabelInv, NEW c \in Taggers, CommitTag(c)
    PROVE  LabelInv'
<1> DEFINE q == tag[c]
<1>1. /\ LabelsTypeOK /\ q \in TagStates /\ TagInv(c) /\ name' = name /\ q.at = "commit"
      /\ label \in [Labels -> {"free", "pending", "live", "deleted"}]
    BY TagType DEF LabelInv, CommitTag, LabelsTypeOK
<1>2. /\ \A l \in Labels : label'[l] = IF l \in q.created THEN "live" ELSE label[l]
      /\ \A m \in Tagged : on'[m] = {l \in Labels : <<m, l>> \in (Mapped \ q.drops) \cup q.adds}
    BY DEF CommitTag
<1>3. \A l \in q.created : l \in Labels /\ label[l] = "pending"
    BY <1>1 DEF TagInv, TagStates
<1>4. \A l \in Labels : Settled(l) => Settled(l)'
    BY <1>2, <1>3 DEF Settled
<1>5. \A m \in Tagged : \A l \in on'[m] :
          l \in Labels /\ (l \in on[m] \/ <<m, l>> \in q.adds)
    BY <1>2, MappedPairs
<1>6. \A m \in Tagged : \A l \in on'[m] : Settled(l)'
    <2> SUFFICES ASSUME NEW m \in Tagged, NEW l \in on'[m] PROVE Settled(l)'
        OBVIOUS
    <2>1. CASE l \in on[m]
        BY <1>4, <1>5, <2>1 DEF LabelInv
    <2>2. CASE <<m, l>> \in q.adds
        <3>1. Settled(l) \/ l \in q.created
            BY <1>1, <1>5, <2>2 DEF TagInv
        <3> QED
            BY <1>2, <1>4, <1>5, <3>1 DEF Settled
    <2> QED
        BY <1>5, <2>1, <2>2
<1>7. /\ tag'[c] = NoTag
      /\ \A d \in Taggers \ {c} :
             /\ tag'[d].at = tag[d].at /\ tag'[d].op = tag[d].op /\ tag'[d].key = tag[d].key
             /\ tag'[d].mails = tag[d].mails /\ tag'[d].ids = tag[d].ids
             /\ tag'[d].created = tag[d].created /\ tag'[d].drops = tag[d].drops
             /\ tag'[d].adds = tag[d].adds /\ tag[d].late \subseteq tag'[d].late
             /\ tag[d].at \in {"idle", "resolve"} \/ q.adds \subseteq tag'[d].late
    BY <1>1, CommitDoes
<1>8. TagInv(c)'
    BY <1>7, NoTagType DEF TagInv
<1> HIDE DEF q
<1>9. ASSUME NEW d \in Taggers \ {c} PROVE TagInv(d)'
    <2>1. \A l \in tag[d].created : label'[l] = label[l]
        <3>1. tag[d].created \subseteq Labels
            BY <1>1, TagType DEF TagStates
        <3>2. tag[d].created \cap q.created = {}
            BY DEF LabelInv, CreatedOnce, q
        <3> QED
            BY <1>2, <3>1, <3>2
    <2>2. ASSUME NEW m \in Tagged, NEW l \in on'[m], label'[l] = "live"
          PROVE  \/ l \in on[m] /\ label[l] = "live"
                 \/ <<m, l>> \in tag'[d].late
                 \/ tag[d].at \in {"idle", "resolve"}
        <3>1. CASE l \in on[m]
            <4>1. Settled(l) /\ l \in Labels
                BY <1>5, <3>1 DEF LabelInv
            <4> QED
                BY <1>2, <1>3, <2>2, <3>1, <4>1 DEF Settled
        <3>2. CASE <<m, l>> \in q.adds
            BY <1>7, <3>2
        <3> QED
            BY <1>5, <3>1, <3>2
    <2> QED
        BY <1>1, <1>4, <1>7, <2>1, <2>2, OtherTags
<1>10. CreatedOnce'
    BY <1>7, NoTagType DEF LabelInv, CreatedOnce
<1>11. LabelsTypeOK'
    BY <1>1, LabelsTypeStep DEF LabelsNext
<1> QED
    BY <1>6, <1>8, <1>9, <1>10, <1>11 DEF LabelInv

LEMMA AbortKeeps ==
    ASSUME LabelInv, NEW c \in Taggers, AbortTag(c)
    PROVE  LabelInv'
<1> DEFINE q == tag[c]
<1>1. /\ LabelsTypeOK /\ q \in TagStates /\ TagInv(c) /\ UNCHANGED <<name, on>>
      /\ TagGoes(c, NoTag)
    BY TagType DEF LabelInv, AbortTag, TagGoes
<1>2. \A l \in Labels : label'[l] = IF l \in q.created THEN "free" ELSE label[l]
    BY DEF AbortTag
<1>3. \A l \in q.created : l \in Labels /\ label[l] = "pending"
    BY <1>1 DEF TagInv, TagStates
<1>4. /\ \A l \in Labels : Settled(l) => Settled(l)'
      /\ \A l \in Labels : label'[l] = "live" => label[l] = "live"
    BY <1>2, <1>3 DEF Settled
<1>5. tag'[c] = NoTag /\ \A d \in Taggers \ {c} : tag'[d] = tag[d]
    BY <1>1, NoTagType, TagGoesType
<1>6. TagInv(c)'
    BY <1>5, NoTagType DEF TagInv
<1>7. \A m \in Tagged : \A l \in on[m] : l \in Labels
    BY <1>1 DEF LabelsTypeOK
<1> HIDE DEF q
<1>8. ASSUME NEW d \in Taggers \ {c} PROVE TagInv(d)'
    <2>1. \A l \in tag[d].created : label'[l] = label[l]
        <3>1. tag[d].created \subseteq Labels
            BY <1>1, TagType DEF TagStates
        <3>2. tag[d].created \cap q.created = {}
            BY DEF LabelInv, CreatedOnce, q
        <3> QED
            BY <1>2, <3>1, <3>2
    <2> QED
        BY <1>1, <1>4, <1>5, <1>7, <2>1, OtherTags
<1>9. CreatedOnce'
    BY <1>5, NoTagType DEF LabelInv, CreatedOnce
<1>10. LabelsTypeOK'
    BY <1>1, LabelsTypeStep DEF LabelsNext
<1>11. \A m \in Tagged : \A l \in on'[m] : Settled(l)'
    BY <1>1, <1>4, <1>7 DEF LabelInv
<1> QED
    BY <1>6, <1>8, <1>9, <1>10, <1>11 DEF LabelInv

LEMMA RowKeeps ==
    ASSUME LabelInv, NEW l \in Labels, CreateLabel(l) \/ DeleteLabel(l)
    PROVE  LabelInv'
<1>1. /\ LabelsTypeOK /\ UNCHANGED <<name, tag>>
      /\ label \in [Labels -> {"free", "pending", "live", "deleted"}]
    BY DEF LabelInv, LabelsTypeOK, CreateLabel, DeleteLabel
<1>2. /\ label[l] \in {"free", "live"}
      /\ label'[l] = (IF label[l] = "free" THEN "live" ELSE "deleted")
      /\ \A k \in Labels \ {l} : label'[k] = label[k]
    BY <1>1 DEF CreateLabel, DeleteLabel
<1>3. \A k \in Labels : Settled(k) => Settled(k)'
    BY <1>2 DEF Settled
<1>4. \A m \in Tagged : \A k \in on'[m] : k \in Labels /\ k \in on[m]
    BY <1>1 DEF CreateLabel, DeleteLabel, LabelsTypeOK
<1>5. ASSUME NEW d \in Taggers PROVE TagInv(d)'
    <2>1. \A k \in tag[d].created : label'[k] = label[k]
        <3>1. \A k \in tag[d].created : k \in Labels /\ label[k] = "pending"
            BY <1>1, TagType DEF TagStates, LabelInv, TagInv
        <3> QED
            BY <1>2, <3>1
    <2>2. \A m \in Tagged : \A k \in on'[m] :
              label'[k] = "live" => k \in on[m] /\ label[k] = "live"
        BY <1>2, <1>4 DEF LabelInv, Settled
    <2> QED
        BY <1>1, <1>3, <2>1, <2>2, OtherTags
<1>6. CreatedOnce'
    BY <1>1 DEF LabelInv, CreatedOnce
<1>7. LabelsTypeOK'
    BY <1>1, LabelsTypeStep DEF LabelsNext
<1>8. \A m \in Tagged : \A k \in on'[m] : Settled(k)'
    BY <1>3, <1>4 DEF LabelInv
<1> QED
    BY <1>5, <1>6, <1>7, <1>8 DEF LabelInv

LEMMA LabelStep ==
    ASSUME LabelInv, [LabelsNext]_labelVars
    PROVE  LabelInv'
<1>1. CASE UNCHANGED labelVars
    BY <1>1 DEF labelVars, LabelInv, LabelsTypeOK, TagInv, CreatedOnce, Settled, Unwanted
<1>2. CASE LabelsNext
    BY <1>2, SetKeywordKeeps, SetEmailLabelKeeps, ResolveKeeps, DropKeeps, AttachKeeps,
        CommitTagKeeps, AbortKeeps, RowKeeps DEF LabelsNext
<1> QED
    BY <1>1, <1>2

LEMMA LabelInit == LabelsInit => LabelInv
<1> SUFFICES ASSUME LabelsInit PROVE LabelInv
    OBVIOUS
<1>1. \A c \in Taggers : tag[c] = NoTag
    BY DEF LabelsInit
<1>2. \A c \in Taggers : TagInv(c)
    BY <1>1, NoTagType DEF TagInv
<1>3. CreatedOnce
    BY <1>1, NoTagType DEF CreatedOnce
<1>4. \A m \in Tagged : on[m] = {}
    BY DEF LabelsInit
<1> QED
    BY <1>2, <1>3, <1>4, LabelsTypeInit DEF LabelInv

LEMMA CommitRemoves ==
    ASSUME LabelInv, NEW c \in Taggers, CommitTag(c), NEW m \in tag[c].mails, NEW l \in on'[m],
           label'[l] = "live",
           \/ tag[c].op = "remove" /\ name[l] = tag[c].key
           \/ tag[c].op = "replace" /\ name[l] \in Atoms \ {tag[c].key}
    PROVE  <<m, l>> \in tag[c].late
<1>1. tag[c] \in TagStates /\ TagInv(c) /\ tag[c].at = "commit" /\ m \in Tagged
    BY TagType DEF LabelInv, CommitTag, TagStates
<1>2. /\ \A k \in Labels : label'[k] = IF k \in tag[c].created THEN "live" ELSE label[k]
      /\ on'[m] = {k \in Labels : <<m, k>> \in (Mapped \ tag[c].drops) \cup tag[c].adds}
    BY <1>1 DEF CommitTag
<1>3. l \in Labels
    BY <1>2
<1>4. <<m, l>> \notin tag[c].adds
    BY <1>1, <1>3 DEF TagInv
<1>5. l \in on[m] /\ <<m, l>> \notin tag[c].drops
    BY <1>1, <1>2, <1>3, <1>4, MappedPairs
<1>6. label[l] = "live"
    BY <1>1, <1>2, <1>3, <1>5 DEF LabelInv, Settled, TagInv
<1> QED
    BY <1>1, <1>5, <1>6 DEF TagInv, Unwanted

\* A keyword that a client removed, or left out of a replacement, is off the
\* message when the transaction commits, whichever of several tags of that name
\* carried it, unless it was put there while the transaction ran.
THEOREM KeywordsGo == LabelsSpec => RemovedKeywordsAreGone
<1>1. LabelInv /\ [LabelsNext]_labelVars => LabelInv'
    BY LabelStep
<1>2. LabelInv /\ [LabelsNext]_labelVars =>
          [\A c \in Taggers : CommitTag(c) =>
              \A m \in tag[c].mails : \A l \in on'[m] :
                  /\ label'[l] = "live"
                  /\ \/ tag[c].op = "remove" /\ name[l] = tag[c].key
                     \/ tag[c].op = "replace" /\ name[l] \in Atoms \ {tag[c].key}
                  => <<m, l>> \in tag[c].late]_labelVars
    BY CommitRemoves
<1> QED
    BY <1>1, <1>2, LabelInit, PTL DEF LabelsSpec, RemovedKeywordsAreGone

-----------------------------------------------------------------------------
(* The import of a batch.                                                   *)

Importing == step \in {"check", "resolve", "chain", "insert"}

\* The message i is in the mailbox, or an item before the current one that
\* carried it is reported as failed.
Held(i) ==
    \/ stored[i] # NoThread
    \/ \E k \in 1 .. item - 1 : batch[k].id = i /\ report[k] = "failed"

\* The report is as long as the items are done, and what is past the duplicate
\* check is held or is the current item's.
ImportInv ==
    /\ ImportTypeOK
    /\ Len(report) = item - 1
    /\ step = "idle" => item = 1 /\ seen = {}
    /\ Importing => item <= Len(batch)
    /\ step = "done" => item = Len(batch) + 1
    /\ step = "insert" => thread \in Threads
    /\ \A n \in 1 .. item - 1 : Held(batch[n].id)
    /\ \A i \in seen : Held(i) \/ (step \in {"resolve", "chain", "insert"} /\ Id = i)

LEMMA NoThreadIsNone == NoThread \notin Threads
<1>1. ASSUME NEW x, NEW y PROVE <<x, y>> # NoThread
    <2>1. Len(<<x, y>>) = 2 /\ Len(NoThread) = 0
        BY DEF NoThread
    <2> QED
        BY <2>1
<1> QED
    BY <1>1 DEF Threads

LEMMA ImportTypes ==
    ASSUME ImportTypeOK
    PROVE  /\ batch \in Seq(Items) /\ item \in Nat /\ item >= 1 /\ item <= MaxItems + 1
           /\ Len(batch) \in Nat /\ Len(batch) <= MaxItems /\ MaxItems \in Nat
           /\ \A n \in 1 .. Len(batch) : batch[n].id \in Ids /\ batch[n].parent \in Ids \cup {NoId}
<1>1. MaxItems \in Nat
    BY ImportAssumption
<1>2. batch \in Seq(Items) /\ Len(batch) <= MaxItems
    BY DEF ImportTypeOK
<1>3. item \in Nat /\ item >= 1 /\ item <= MaxItems + 1
    BY <1>1 DEF ImportTypeOK
<1>4. \A n \in 1 .. Len(batch) : batch[n] \in Items
    BY <1>2
<1>5. \A n \in 1 .. Len(batch) : batch[n].id \in Ids /\ batch[n].parent \in Ids \cup {NoId}
    BY <1>4 DEF Items
<1> QED
    BY <1>1, <1>2, <1>3, <1>5

LEMMA CurrentItem ==
    ASSUME ImportInv, Importing
    PROVE  /\ item \in 1 .. Len(batch) /\ item \in 1 .. MaxItems
           /\ Id \in Ids /\ Parent \in Ids \cup {NoId}
<1>1. item \in 1 .. Len(batch) /\ item \in 1 .. MaxItems
    BY ImportTypes DEF ImportInv
<1> QED
    BY <1>1, ImportTypes DEF ImportInv, Id, Parent

\* A status is added to the report, and the item it is about is held by then.
LEMMA ReportedKeeps ==
    ASSUME ImportInv, Importing, NEW outcome \in {"imported", "duplicate", "failed"},
           Reported(outcome), UNCHANGED <<batch, mode, seen, batchThreads, referenced>>,
           stored' \in [Ids -> Threads \cup {NoThread}],
           \A i \in Ids : stored[i] # NoThread => stored'[i] # NoThread,
           outcome = "failed" \/ stored'[Id] # NoThread \/ Held(Id)
    PROVE  ImportInv'
<1>0. /\ item \in 1 .. Len(batch) /\ item \in 1 .. MaxItems /\ Id \in Ids
      /\ ImportTypeOK /\ item \in Nat /\ Len(batch) \in Nat /\ MaxItems \in Nat
    BY CurrentItem, ImportTypes DEF ImportInv
<1>1. /\ report' = Append(report, outcome) /\ item' = item + 1 /\ thread' = NoThread
      /\ step' = IF item = Len(batch) THEN "done" ELSE "check"
    BY DEF Reported
<1>2. report \in Seq({"imported", "duplicate", "failed"}) /\ Len(report) = item - 1
    BY <1>0 DEF ImportInv, ImportTypeOK
<1>3. report' \in Seq({"imported", "duplicate", "failed"}) /\ Len(report') = item
    BY <1>0, <1>1, <1>2
<1>4. /\ report'[item] = outcome
      /\ \A k \in 1 .. item - 1 : report'[k] = report[k]
    <2>1. Len(report) + 1 = item
        BY <1>0, <1>2
    <2> QED
        BY <1>1, <1>2, <2>1
<1>5. item \in 1 .. item' - 1 /\ \A k \in 1 .. item - 1 : k \in 1 .. item' - 1
    BY <1>0, <1>1
<1>6. ASSUME NEW i \in Ids, Held(i) PROVE Held(i)'
    BY <1>4, <1>5, <1>6 DEF Held
<1>7. PICK d \in Ids : d = Id
    BY <1>0
<1>8. d = batch[item].id
    BY <1>7 DEF Id
<1>9. Held(d)'
    <2>1. CASE outcome = "failed"
        BY <1>4, <1>5, <1>8, <2>1 DEF Held
    <2>2. CASE stored'[d] # NoThread
        BY <2>2 DEF Held
    <2>3. CASE Held(d)
        BY <1>6, <2>3
    <2> QED
        BY <1>7, <2>1, <2>2, <2>3
<1>10. ASSUME NEW n \in 1 .. item' - 1 PROVE Held(batch[n].id)'
    <2>1. n = item \/ n \in 1 .. item - 1
        BY <1>0, <1>1
    <2>2. PICK i \in Ids : i = batch[n].id
        BY <1>0, <2>1, ImportTypes
    <2>3. CASE n = item
        BY <1>8, <1>9, <2>3
    <2>4. CASE n \in 1 .. item - 1
        <3>1. Held(i)
            BY <2>2, <2>4 DEF ImportInv
        <3> QED
            BY <1>6, <2>2, <3>1
    <2> QED
        BY <2>1, <2>3, <2>4
<1>11. ASSUME NEW i \in seen PROVE Held(i)'
    <2>1. i \in Ids
        BY <1>0 DEF ImportTypeOK
    <2>2. Held(i) \/ d = i
        BY <1>7 DEF ImportInv
    <2> QED
        BY <1>6, <1>9, <2>1, <2>2
<1>12. item' \in 1 .. MaxItems + 1
    BY <1>0, <1>1
<1>13. ImportTypeOK'
    BY <1>0, <1>1, <1>3, <1>12 DEF ImportTypeOK
<1>14. /\ step' = "done" => item' = Len(batch) + 1
       /\ Importing' => item' <= Len(batch)
    BY <1>0, <1>1 DEF Importing
<1>15. step' # "idle" /\ step' # "insert" /\ Len(report') = item' - 1
    BY <1>0, <1>1, <1>3
<1> QED
    BY <1>10, <1>11, <1>13, <1>14, <1>15 DEF ImportInv

\* A step that leaves the items done and the report alone.
LEMMA QuietImport ==
    ASSUME ImportInv, UNCHANGED <<batch, item, report>>, ImportTypeOK',
           \A i \in Ids : stored[i] # NoThread => stored'[i] # NoThread,
           step' = step \/ (Importing /\ Importing'),
           step' = "insert" => thread' \in Threads,
           \A i \in seen' : i \in seen \/ (step' \in {"resolve", "chain", "insert"} /\ Id = i),
           step \in {"resolve", "chain", "insert"} => step' \in {"resolve", "chain", "insert"},
           step = "idle" => seen' = seen
    PROVE  ImportInv'
<1>0. ImportTypeOK
    BY DEF ImportInv
<1>1. ASSUME NEW i \in Ids, Held(i) PROVE Held(i)'
    BY <1>1 DEF Held
<1>2. ASSUME NEW n \in 1 .. item - 1 PROVE Held(batch[n].id)'
    <2>1. n \in 1 .. Len(batch)
        <3>1. /\ step = "idle" => item = 1
              /\ Importing => item <= Len(batch)
              /\ step = "done" => item = Len(batch) + 1
            BY DEF ImportInv
        <3>2. Importing \/ step \in {"idle", "done"}
            BY <1>0 DEF Importing, ImportTypeOK
        <3> QED
            BY <1>0, <3>1, <3>2, ImportTypes
    <2>2. PICK i \in Ids : i = batch[n].id
        BY <1>0, <2>1, ImportTypes
    <2>3. Held(i)
        BY <2>2 DEF ImportInv
    <2> QED
        BY <1>1, <2>2, <2>3
<1>3. Id' = Id
    BY DEF Id
<1>4. ASSUME NEW i \in seen'
      PROVE  Held(i)' \/ (step' \in {"resolve", "chain", "insert"} /\ Id' = i)
    <2>1. i \in Ids
        BY DEF ImportTypeOK
    <2>2. CASE i \in seen
        BY <1>1, <1>3, <2>1, <2>2 DEF ImportInv
    <2> QED
        BY <1>3, <2>2
<1>5. /\ Len(report') = item' - 1
      /\ step' = "idle" => item' = 1 /\ seen' = {}
      /\ Importing' => item' <= Len(batch')
      /\ step' = "done" => item' = Len(batch') + 1
    BY DEF ImportInv, Importing
<1> QED
    BY <1>2, <1>4, <1>5 DEF ImportInv

-----------------------------------------------------------------------------
LEMMA StartImportKeeps ==
    ASSUME ImportInv, NEW k \in 1 .. MaxItems, NEW b \in [1 .. k -> Items], StartImport(b)
    PROVE  ImportInv'
<1>1. MaxItems \in Nat /\ ImportTypeOK
    BY ImportAssumption DEF ImportInv
<1>2. batch' \in Seq(Items) /\ Len(batch') = k /\ k \in Nat /\ k >= 1 /\ k <= MaxItems
    BY <1>1 DEF StartImport
<1>3. /\ step = "idle" /\ step' = "check" /\ item' = item /\ seen' = seen /\ report' = report
      /\ UNCHANGED <<mode, thread, batchThreads, referenced, stored>>
    BY DEF StartImport
<1>4. item' = 1 /\ seen' = {} /\ Len(report') = item' - 1
    BY <1>3 DEF ImportInv
<1>5. ImportTypeOK'
    BY <1>1, <1>2, <1>3 DEF ImportTypeOK
<1> QED
    BY <1>2, <1>3, <1>4, <1>5 DEF ImportInv

LEMMA ReceiveMailKeeps ==
    ASSUME ImportInv, NEW i \in Arriving, NEW p \in Ids \cup {NoId}, ReceiveMail(i, p)
    PROVE  ImportInv'
<1>1. /\ UNCHANGED <<batch, mode, item, step, thread, seen, batchThreads, referenced, report>>
      /\ stored' = [stored EXCEPT ![i] =
            IF p # NoId /\ stored[p] # NoThread THEN stored[p] ELSE <<"mail", i>>]
    BY DEF ReceiveMail
<1>2. i \in Ids /\ stored \in [Ids -> Threads \cup {NoThread}]
    BY ImportAssumption DEF ImportInv, ImportTypeOK
<1>3. stored'[i] \in Threads
    <2>1. <<"mail", i>> \in Threads
        BY <1>2 DEF Threads
    <2>2. p # NoId /\ stored[p] # NoThread => stored[p] \in Threads
        BY <1>2
    <2>3. stored'[i] = IF p # NoId /\ stored[p] # NoThread THEN stored[p] ELSE <<"mail", i>>
        BY <1>1, <1>2
    <2> QED
        BY <2>1, <2>2, <2>3
<1>4. /\ stored' \in [Ids -> Threads \cup {NoThread}]
      /\ \A j \in Ids : stored[j] # NoThread => stored'[j] # NoThread
    BY <1>1, <1>2, <1>3, NoThreadIsNone
<1>5. ImportTypeOK'
    BY <1>1, <1>4 DEF ImportInv, ImportTypeOK
<1>6. step = "insert" => thread \in Threads
    BY DEF ImportInv
<1> QED
    BY <1>1, <1>4, <1>5, <1>6, QuietImport

LEMMA DuplicateKeeps ==
    ASSUME ImportInv, CheckDuplicate \/ InsertDuplicate \/ ItemFails \/ InsertFails
    PROVE  ImportInv'
<1>1. Importing /\ UNCHANGED <<batch, mode, seen, batchThreads, referenced, stored>>
    BY DEF CheckDuplicate, InsertDuplicate, ItemFails, InsertFails, Importing
<1>2. PICK o \in {"duplicate", "failed"} :
          Reported(o) /\ (o = "failed" \/ stored[Id] # NoThread \/ Held(Id))
    <2>1. CheckDuplicate => Reported("duplicate") /\ (stored[Id] # NoThread \/ Held(Id))
        BY DEF CheckDuplicate, ImportInv
    <2>2. InsertDuplicate => Reported("duplicate") /\ stored[Id] # NoThread
        BY DEF InsertDuplicate
    <2>3. ItemFails \/ InsertFails => Reported("failed")
        BY DEF ItemFails, InsertFails
    <2> QED
        BY <2>1, <2>2, <2>3
<1>3. stored \in [Ids -> Threads \cup {NoThread}]
    BY DEF ImportInv, ImportTypeOK
<1> QED
    BY <1>1, <1>2, <1>3, ReportedKeeps

LEMMA InsertKeeps ==
    ASSUME ImportInv, Insert
    PROVE  ImportInv'
<1>1. /\ Importing /\ UNCHANGED <<batch, mode, seen, batchThreads, referenced>>
      /\ Reported("imported") /\ stored' = [stored EXCEPT ![Id] = thread] /\ step = "insert"
    BY DEF Insert, Importing
<1>2. thread \in Threads /\ stored \in [Ids -> Threads \cup {NoThread}] /\ Id \in Ids
    BY <1>1, CurrentItem DEF ImportInv, ImportTypeOK
<1>3. /\ stored' \in [Ids -> Threads \cup {NoThread}] /\ stored'[Id] # NoThread
      /\ \A i \in Ids : stored[i] # NoThread => stored'[i] # NoThread
    BY <1>1, <1>2, NoThreadIsNone
<1> QED
    BY <1>1, <1>3, ReportedKeeps

LEMMA CheckNewKeeps ==
    ASSUME ImportInv, CheckNew \/ ResolveAttachments
    PROVE  ImportInv'
<1>1. /\ UNCHANGED <<batch, mode, item, thread, batchThreads, referenced, report, stored>>
      /\ step \in {"check", "resolve"} /\ step' \in {"resolve", "chain"}
      /\ seen' = seen \/ (seen' = seen \cup {Id} /\ step' = "resolve")
    BY DEF CheckNew, ResolveAttachments
<1>2. Id \in Ids
    BY <1>1, CurrentItem DEF Importing
<1>3. ImportTypeOK'
    BY <1>1, <1>2 DEF ImportInv, ImportTypeOK
<1>4. Importing /\ Importing'
    BY <1>1 DEF Importing
<1>5. \A i \in seen' : i \in seen \/ (step' \in {"resolve", "chain", "insert"} /\ Id = i)
    BY <1>1
<1> QED
    BY <1>1, <1>3, <1>4, <1>5, QuietImport

\* Every item gets a conversation before it is inserted.
LEMMA ChainKeeps ==
    ASSUME ImportInv, Chain
    PROVE  ImportInv'
<1>1. /\ UNCHANGED <<batch, mode, item, seen, report, stored>>
      /\ step = "chain" /\ step' = "insert" /\ thread' = Conversation
      /\ referenced' = [i \in Ids |->
            IF i = Parent /\ batchThreads[i] = NoThread /\ referenced[i] = NoThread
            THEN Conversation ELSE referenced[i]]
      /\ batchThreads' = [batchThreads EXCEPT ![Id] = Conversation]
    BY DEF Chain
<1>2. Importing /\ Importing'
    BY <1>1 DEF Importing
<1>3. Id \in Ids /\ Parent \in Ids \cup {NoId} /\ item \in 1 .. MaxItems
    BY <1>2, CurrentItem
<1>4. /\ stored \in [Ids -> Threads \cup {NoThread}]
      /\ batchThreads \in [Ids -> Threads \cup {NoThread}]
      /\ referenced \in [Ids -> Threads \cup {NoThread}]
    BY DEF ImportInv, ImportTypeOK
<1>5. Conversation \in Threads
    <2>1. <<"item", item>> \in Threads
        BY <1>3 DEF Threads
    <2> QED
        BY <1>3, <1>4, <2>1 DEF Conversation
<1> HIDE DEF Conversation
<1>6. /\ batchThreads' \in [Ids -> Threads \cup {NoThread}]
      /\ referenced' \in [Ids -> Threads \cup {NoThread}]
    BY <1>1, <1>4, <1>5
<1>7. ImportTypeOK'
    BY <1>1, <1>5, <1>6 DEF ImportInv, ImportTypeOK
<1> QED
    BY <1>1, <1>2, <1>5, <1>7, QuietImport

-----------------------------------------------------------------------------
LEMMA ImportInvStep ==
    ASSUME ImportInv, [ImportNext]_importVars
    PROVE  ImportInv'
<1>1. CASE UNCHANGED importVars
    BY <1>1 DEF importVars, ImportInv, ImportTypeOK, Importing, Held, Id
<1>2. ASSUME NEW b \in UNION {[1 .. n -> Items] : n \in 1 .. MaxItems}, StartImport(b)
      PROVE  ImportInv'
    <2>1. PICK k \in 1 .. MaxItems : b \in [1 .. k -> Items]
        OBVIOUS
    <2> QED
        BY <1>2, <2>1, StartImportKeeps
<1>3. CASE ImportNext
    BY <1>2, <1>3, ReceiveMailKeeps, DuplicateKeeps, InsertKeeps, CheckNewKeeps, ChainKeeps
       DEF ImportNext
<1> QED
    BY <1>1, <1>3

LEMMA ImportInvInit ==
    ASSUME ImportInit
    PROVE  ImportInv
<1>1. /\ batch = <<>> /\ Len(batch) = 0 /\ batch \in Seq(Items)
      /\ report \in Seq({"imported", "duplicate", "failed"}) /\ Len(report) = 0
      /\ item = 1 /\ step = "idle" /\ seen = {}
    BY DEF ImportInit
<1>2. MaxItems \in Nat /\ 1 \in 1 .. MaxItems + 1
    BY ImportAssumption
<1>3. ImportTypeOK
    BY <1>1, <1>2 DEF ImportInit, ImportTypeOK
<1> QED
    BY <1>1, <1>3 DEF ImportInv, Importing

LEMMA ImportInvHolds == ImportSpec => []ImportInv
<1>1. ImportInit => ImportInv
    BY ImportInvInit
<1>2. ImportInv /\ [ImportNext]_importVars => ImportInv'
    BY ImportInvStep
<1> QED
    BY <1>1, <1>2, PTL DEF ImportSpec

\* The state of an import keeps its type.
THEOREM ImportTypeCorrect == ImportSpec => []ImportTypeOK
<1>1. ImportInv => ImportTypeOK
    BY DEF ImportInv
<1> QED
    BY <1>1, ImportInvHolds, PTL

\* Whatever mail arrives meanwhile and whichever items fail, a message of the
\* batch that the mailbox does not have when the import is done has an item that
\* is reported as failed.
THEOREM LossesAreReported == ImportSpec => []EveryLossIsReported
<1>1. ASSUME ImportInv PROVE EveryLossIsReported
    <2> SUFFICES ASSUME step = "done", NEW n \in DOMAIN batch
                 PROVE  \/ stored[batch[n].id] # NoThread
                        \/ \E k \in DOMAIN batch :
                               batch[k].id = batch[n].id /\ report[k] = "failed"
        BY DEF EveryLossIsReported
    <2>1. batch \in Seq(Items) /\ Len(batch) \in Nat /\ item = Len(batch) + 1
        BY <1>1, ImportTypes DEF ImportInv
    <2>2. DOMAIN batch = 1 .. Len(batch) /\ item - 1 = Len(batch)
        BY <2>1
    <2>3. Held(batch[n].id)
        BY <1>1, <2>2 DEF ImportInv
    <2> QED
        BY <2>2, <2>3 DEF Held
<1>2. ImportInv => EveryLossIsReported
    BY <1>1
<1> QED
    BY <1>2, ImportInvHolds, PTL

===============================================================================
