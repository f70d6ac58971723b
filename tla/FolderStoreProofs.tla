------------------------- MODULE FolderStoreProofs -------------------------
(***************************************************************************)
(* FolderStore proved for every set of messages, folders and sessions: its *)
(* types, that UIDs are sound and never reused, that every change of a     *)
(* folder is visible in its mod-sequence, and that the two sides of the    *)
(* folder model agree on every message that is in one folder.              *)
(***************************************************************************)
EXTENDS FolderStore, FiniteSetTheorems, TLAPS

-----------------------------------------------------------------------------
(* Facts about sets of messages and their numbering.                        *)

LEMMA CountType ==
    ASSUME NEW S, S \subseteq Emails
    PROVE  /\ Cardinality(S) \in Nat
           /\ S # {} => Cardinality(S) > 0
<1>1. IsFiniteSet(S)
    BY FolderAssumption, FS_Subset
<1> QED
    BY <1>1, FS_CardinalityType, FS_EmptySet

\* A ranking numbers the messages of S from 1, each with its own number.
LEMMA RankingType ==
    ASSUME NEW S, S \subseteq Emails, NEW rank \in Rankings(S)
    PROVE  /\ \A e \in S : rank[e] \in Nat /\ 1 <= rank[e] /\ rank[e] <= Cardinality(S)
           /\ \A d, e \in S : d # e => rank[d] # rank[e]
BY CountType DEF Rankings

-----------------------------------------------------------------------------
(* Types.                                                                   *)

LEMMA TypeInit == Init => TypeOK
BY DEF Init, TypeOK

LEMMA CounterType == \A n \in Nat \ {0}, k \in Nat : n + k \in Nat \ {0}
OBVIOUS

LEMMA NumberedType ==
    ASSUME NEW row \in [Emails -> Nat], NEW base \in Nat, NEW S, S \subseteq Emails,
           NEW rank \in Rankings(S)
    PROVE  Numbered(row, base, S, rank) \in [Emails -> Nat]
BY RankingType DEF Numbered

LEMMA TypeStep == TypeOK /\ [Next]_vars => TypeOK'
<1> SUFFICES ASSUME TypeOK, [Next]_vars PROVE TypeOK'
    OBVIOUS
<1> USE DEF TypeOK, rowVars, counterVars
<1>a. ASSUME NEW f \in Folders, NEW e \in Emails, NEW isDeleted \in BOOLEAN,
             AddRow(f, e, isDeleted), UNCHANGED listed,
             folder' \in [Emails -> DefaultFolders \cup {"unstored", "purged"}]
      PROVE  TypeOK'
    BY <1>a DEF AddRow
<1>1. ASSUME NEW e \in Emails, NEW f \in Folders, Store(e, f) PROVE TypeOK'
    BY <1>1, <1>a DEF Store
<1>2. ASSUME NEW e \in Emails, StoreIntake(e) PROVE TypeOK'
    BY <1>2, FolderAssumption DEF StoreIntake
<1>3. ASSUME NEW e \in Emails, NEW f \in Folders, NEW d \in BOOLEAN, AppendMessage(e, f, d) PROVE TypeOK'
    BY <1>3, <1>a, FolderAssumption DEF AppendMessage, HttpFolder
<1>4. ASSUME NEW S \in SUBSET Emails, NEW from \in Folders, NEW to \in Folders, Move(S, from, to)
      PROVE  TypeOK'
    <2>1. PICK rank \in Rankings(S) :
            /\ uid' = [uid EXCEPT ![to] = Numbered(@, nextUID[to] - 1, S, rank),
                                  ![from] = Without(@, S)]
            /\ modSeq' = [modSeq EXCEPT ![to] = Numbered(@, highestModSeq[to], S, rank),
                                        ![from] = Without(@, S)]
        BY <1>4 DEF Move
    <2>2. nextUID[to] - 1 \in Nat
        OBVIOUS
    <2>3. \A row \in [Emails -> Nat], base \in Nat : Numbered(row, base, S, rank) \in [Emails -> Nat]
        BY NumberedType
    <2>4. \A row \in [Emails -> Nat] : Without(row, S) \in [Emails -> Nat]
        BY DEF Without
    <2>5. uid' \in [Folders -> [Emails -> Nat]]
        BY <1>4, <2>1, <2>2, <2>3, <2>4 DEF Move, CanTransfer
    <2>6. modSeq' \in [Folders -> [Emails -> Nat]]
        BY <1>4, <2>1, <2>3, <2>4 DEF Move, CanTransfer
    <2>7. folder' \in [Emails -> DefaultFolders \cup {"unstored", "purged"}]
        BY <1>4 DEF Move, Filed
    <2>8. deleted' \in [Folders -> SUBSET Emails]
        BY <1>4 DEF Move, Filed
    <2>9. Cardinality(S) \in Nat
        BY CountType
    <2>10. nextUID' \in [Folders -> Nat \ {0}] /\ highestModSeq' \in [Folders -> Nat \ {0}]
        BY <1>4, <2>9, CounterType DEF Move, CanTransfer
    <2> QED
        BY <1>4, <2>5, <2>6, <2>7, <2>8, <2>10 DEF Move
<1>5. ASSUME NEW S \in SUBSET Emails, NEW from \in Folders, NEW to \in Folders, Copy(S, from, to)
      PROVE  TypeOK'
    <2>1. PICK rank \in Rankings(S) :
            /\ uid' = [uid EXCEPT ![to] = Numbered(@, nextUID[to] - 1, S, rank)]
            /\ modSeq' = [modSeq EXCEPT ![to] = Numbered(@, highestModSeq[to], S, rank)]
        BY <1>5 DEF Copy
    <2>2. nextUID[to] - 1 \in Nat
        OBVIOUS
    <2>3. \A row \in [Emails -> Nat], base \in Nat : Numbered(row, base, S, rank) \in [Emails -> Nat]
        BY NumberedType
    <2>4. uid' \in [Folders -> [Emails -> Nat]] /\ modSeq' \in [Folders -> [Emails -> Nat]]
        BY <2>1, <2>2, <2>3
    <2>5. deleted' \in [Folders -> SUBSET Emails]
        BY <1>5 DEF Copy
    <2>6. Cardinality(S) \in Nat
        BY CountType
    <2>7. nextUID' \in [Folders -> Nat \ {0}] /\ highestModSeq' \in [Folders -> Nat \ {0}]
        BY <1>5, <2>6, CounterType DEF Copy
    <2> QED
        BY <1>5, <2>4, <2>5, <2>7 DEF Copy
<1>6. ASSUME NEW S \in SUBSET Emails, NEW f \in Folders, StoreFlags(S, f) PROVE TypeOK'
    <2>1. PICK rank \in Rankings(S) :
            modSeq' = [modSeq EXCEPT ![f] = Numbered(@, highestModSeq[f], S, rank)]
        BY <1>6 DEF StoreFlags
    <2>2. Numbered(modSeq[f], highestModSeq[f], S, rank) \in [Emails -> Nat]
        BY NumberedType
    <2>3. modSeq' \in [Folders -> [Emails -> Nat]]
        BY <2>1, <2>2
    <2>4. deleted' \in [Folders -> SUBSET Emails]
        BY <1>6 DEF StoreFlags
    <2>5. Cardinality(S) \in Nat
        BY CountType
    <2>6. highestModSeq' \in [Folders -> Nat \ {0}]
        BY <1>6, <2>5, CounterType DEF StoreFlags
    <2> QED
        BY <1>6, <2>3, <2>4, <2>6 DEF StoreFlags
<1>7. ASSUME NEW e \in Emails, NEW f \in Folders, HttpMove(e, f) PROVE TypeOK'
    BY <1>7 DEF HttpMove, Lost, Gained
<1>b. ASSUME NEW S \in SUBSET Emails, PurgeRows(S),
             listed' \in [Sessions -> SUBSET Emails]
      PROVE  TypeOK'
    <2>1. \A f \in Folders : Cardinality(S \cap Rows(f)) \in Nat
        BY CountType
    <2>2. highestModSeq' \in [Folders -> Nat \ {0}]
        BY <1>b, <2>1, CounterType DEF PurgeRows
    <2> QED
        BY <1>b, <2>2 DEF PurgeRows
<1>8. ASSUME NEW e \in Emails, DeletePermanently(e) PROVE TypeOK'
    BY <1>8, <1>b DEF DeletePermanently
<1>9. ASSUME NEW s \in Sessions, ListTrash(s) \/ ListExpunged(s) PROVE TypeOK'
    <2>1. PICK S \in SUBSET Emails : List(s, S)
        BY <1>9 DEF ListTrash, ListExpunged, Rows
    <2> QED
        BY <2>1 DEF List
<1>10. ASSUME NEW s \in Sessions, Purge(s) PROVE TypeOK'
    BY <1>10, <1>b DEF Purge
<1>11. ASSUME NEW s \in Sessions, Abandon(s) PROVE TypeOK'
    BY <1>11 DEF Abandon
<1>12. CASE UNCHANGED vars
    BY <1>12 DEF vars
<1>13. ASSUME NEW e \in Emails, Arrive(e) PROVE TypeOK'
    BY <1>1, <1>2, <1>3, <1>13 DEF Arrive
<1>14. ASSUME ProtocolChange PROVE TypeOK'
    BY <1>4, <1>5, <1>6, <1>14 DEF ProtocolChange
<1> QED
    BY <1>7, <1>8, <1>9, <1>10, <1>11, <1>12, <1>13, <1>14 DEF Next

\* Every variable keeps its type.
THEOREM TypeCorrect == Spec => []TypeOK
<1> QED
    BY TypeInit, TypeStep, PTL DEF Spec
-----------------------------------------------------------------------------
(* What a step does to the rows of one folder.  UID soundness, UID reuse    *)
(* and the visibility of changes all follow from this.                      *)

\* e gets a row, under numbers the folder has never given out.
Gains(f, e) ==
    /\ uid[f][e] = 0
    /\ nextUID[f] <= uid'[f][e] /\ uid'[f][e] < nextUID'[f]
    /\ highestModSeq[f] < modSeq'[f][e] /\ modSeq'[f][e] <= highestModSeq'[f]

Loses(f, e) ==
    /\ uid'[f][e] = 0 /\ modSeq'[f][e] = 0 /\ e \notin deleted'[f]
    /\ highestModSeq[f] < highestModSeq'[f]

\* e keeps its UID; if anything else of its row changes, the folder counts it.
Keeps(f, e) ==
    /\ uid'[f][e] = uid[f][e]
    /\ \/ modSeq'[f][e] = modSeq[f][e] /\ (e \in deleted'[f] <=> e \in deleted[f])
       \/ /\ uid[f][e] # 0
          /\ highestModSeq[f] < modSeq'[f][e] /\ modSeq'[f][e] <= highestModSeq'[f]

FolderStep(f) ==
    /\ nextUID'[f] >= nextUID[f]
    /\ highestModSeq'[f] >= highestModSeq[f]
    /\ \A e \in Emails : Gains(f, e) \/ Loses(f, e) \/ Keeps(f, e)
    /\ \A d, e \in Emails : d # e /\ Gains(f, d) /\ Gains(f, e) => uid'[f][d] # uid'[f][e]

\* Mod-sequences and flags belong to rows.
NoRowNoData ==
    \A f \in Folders, e \in Emails :
        uid[f][e] = 0 => modSeq[f][e] = 0 /\ e \notin deleted[f]

RowsAreStored == \A e \in Emails : ~Stored(e) => FoldersOf(e) = {}

IInv == TypeOK /\ UidsAreSound /\ NoRowNoData /\ RowsAreStored

LEMMA QuietStep ==
    ASSUME TypeOK, UNCHANGED <<rowVars, counterVars>>, NEW f \in Folders
    PROVE  FolderStep(f)
BY DEF TypeOK, rowVars, counterVars, FolderStep, Keeps, Gains

LEMMA AddRowStep ==
    ASSUME IInv, NEW f \in Folders, NEW e \in Emails, NEW isDeleted \in BOOLEAN, uid[f][e] = 0,
           AddRow(f, e, isDeleted), NEW g \in Folders
    PROVE  FolderStep(g)
<1> USE DEF IInv, TypeOK, AddRow, Gains, Keeps
<1>1. CASE g = f
    <2>1. Gains(f, e)
        OBVIOUS
    <2>2. \A d \in Emails : d # e => Keeps(f, d) /\ ~Gains(f, d)
        OBVIOUS
    <2> QED
        BY <1>1, <2>1, <2>2 DEF FolderStep
<1>2. CASE g # f
    <2>1. \A d \in Emails : Keeps(g, d) /\ ~Gains(g, d)
        BY <1>2
    <2> QED
        BY <1>2, <2>1 DEF FolderStep
<1> QED
    BY <1>1, <1>2

\* The target of a move or a copy.
LEMMA TargetStep ==
    ASSUME IInv, NEW to \in Folders, NEW S \in SUBSET Emails, S \cap Rows(to) = {},
           NEW rank \in Rankings(S), NEW D, D \subseteq S,
           uid'[to] = Numbered(uid[to], nextUID[to] - 1, S, rank),
           modSeq'[to] = Numbered(modSeq[to], highestModSeq[to], S, rank),
           deleted'[to] = deleted[to] \cup D,
           nextUID'[to] = nextUID[to] + Cardinality(S),
           highestModSeq'[to] = highestModSeq[to] + Cardinality(S)
    PROVE  FolderStep(to)
<1> USE DEF IInv, TypeOK
<1>1. /\ nextUID[to] \in Nat /\ highestModSeq[to] \in Nat /\ Cardinality(S) \in Nat
      /\ \A e \in Emails : uid[to][e] \in Nat
    BY CountType
<1>2. \A e \in S : Gains(to, e) /\ uid'[to][e] = nextUID[to] - 1 + rank[e]
    BY <1>1, RankingType DEF Numbered, Rows, Gains
<1>3. \A e \in Emails \ S : Keeps(to, e) /\ ~Gains(to, e)
    BY <1>1 DEF Numbered, Keeps, Gains
<1>4. ASSUME NEW d \in S, NEW e \in S, d # e PROVE uid'[to][d] # uid'[to][e]
    <2>1. rank[d] # rank[e] /\ rank[d] \in Nat /\ rank[e] \in Nat
        BY <1>4, RankingType
    <2>2. uid'[to][d] = nextUID[to] - 1 + rank[d] /\ uid'[to][e] = nextUID[to] - 1 + rank[e]
        BY <1>2
    <2>3. \A n, i, k \in Nat : i # k => n - 1 + i # n - 1 + k
        OBVIOUS
    <2> HIDE DEF IInv, TypeOK
    <2> QED
        BY <1>1, <2>1, <2>2, <2>3
<1> QED
    BY <1>1, <1>2, <1>3, <1>4 DEF FolderStep

\* The source of a move.
LEMMA SourceStep ==
    ASSUME IInv, NEW from \in Folders, NEW S \in SUBSET Emails, S \subseteq Rows(from),
           uid'[from] = Without(uid[from], S),
           modSeq'[from] = Without(modSeq[from], S),
           deleted'[from] = deleted[from] \ S,
           nextUID'[from] = nextUID[from],
           highestModSeq'[from] = highestModSeq[from] + 1
    PROVE  FolderStep(from)
<1> USE DEF IInv, TypeOK
<1>1. \A e \in S : Loses(from, e) /\ ~Gains(from, e)
    BY DEF Without, Loses, Gains, Rows
<1>2. \A e \in Emails \ S : Keeps(from, e) /\ ~Gains(from, e)
    BY DEF Without, Keeps, Gains
<1> QED
    BY <1>1, <1>2 DEF FolderStep

LEMMA MoveStep ==
    ASSUME IInv, NEW S \in SUBSET Emails, NEW from \in Folders, NEW to \in Folders,
           Move(S, from, to), NEW g \in Folders
    PROVE  FolderStep(g)
<1>0. TypeOK
    BY DEF IInv
<1>1. CASE g = to
    <2>1. PICK rank \in Rankings(S) :
            /\ uid'[to] = Numbered(uid[to], nextUID[to] - 1, S, rank)
            /\ modSeq'[to] = Numbered(modSeq[to], highestModSeq[to], S, rank)
        BY <1>0 DEF TypeOK, Move, CanTransfer
    <2>2. /\ S \cap Rows(to) = {}
          /\ deleted'[to] = deleted[to] \cup (S \cap deleted[from])
          /\ nextUID'[to] = nextUID[to] + Cardinality(S)
          /\ highestModSeq'[to] = highestModSeq[to] + Cardinality(S)
        BY <1>0 DEF TypeOK, Move, CanTransfer
    <2> QED
        BY <1>1, <2>1, <2>2, TargetStep
<1>2. CASE g = from
    <2>1. /\ S \subseteq Rows(from)
          /\ uid'[from] = Without(uid[from], S)
          /\ modSeq'[from] = Without(modSeq[from], S)
          /\ deleted'[from] = deleted[from] \ S
          /\ nextUID'[from] = nextUID[from]
          /\ highestModSeq'[from] = highestModSeq[from] + 1
        BY <1>0 DEF TypeOK, Move, CanTransfer
    <2> QED
        BY <1>2, <2>1, SourceStep
<1>3. CASE g # from /\ g # to
    BY <1>0, <1>3 DEF TypeOK, Move, FolderStep, Keeps, Gains
<1> QED
    BY <1>1, <1>2, <1>3

LEMMA CopyStep ==
    ASSUME IInv, NEW S \in SUBSET Emails, NEW from \in Folders, NEW to \in Folders,
           Copy(S, from, to), NEW g \in Folders
    PROVE  FolderStep(g)
<1>0. TypeOK
    BY DEF IInv
<1>1. CASE g = to
    <2>1. PICK rank \in Rankings(S) :
            /\ uid'[to] = Numbered(uid[to], nextUID[to] - 1, S, rank)
            /\ modSeq'[to] = Numbered(modSeq[to], highestModSeq[to], S, rank)
        BY <1>0 DEF TypeOK, Copy
    <2>2. /\ S \cap Rows(to) = {}
          /\ deleted'[to] = deleted[to] \cup (S \cap deleted[from])
          /\ nextUID'[to] = nextUID[to] + Cardinality(S)
          /\ highestModSeq'[to] = highestModSeq[to] + Cardinality(S)
        BY <1>0 DEF TypeOK, Copy, CanTransfer
    <2> QED
        BY <1>1, <2>1, <2>2, TargetStep
<1>2. CASE g # to
    BY <1>0, <1>2 DEF TypeOK, Copy, FolderStep, Keeps, Gains
<1> QED
    BY <1>1, <1>2

LEMMA StoreFlagsStep ==
    ASSUME IInv, NEW S \in SUBSET Emails, NEW f \in Folders, StoreFlags(S, f), NEW g \in Folders
    PROVE  FolderStep(g)
<1> USE DEF IInv, TypeOK
<1>1. CASE g = f
    <2>1. PICK rank \in Rankings(S) :
            modSeq'[f] = Numbered(modSeq[f], highestModSeq[f], S, rank)
        BY DEF StoreFlags
    <2>2. highestModSeq'[f] = highestModSeq[f] + Cardinality(S) /\ Cardinality(S) \in Nat
        BY CountType DEF StoreFlags
    <2>3. uid' = uid /\ nextUID' = nextUID /\ S \subseteq Rows(f)
        BY DEF StoreFlags
    <2>4. \A e \in S : Keeps(f, e)
        BY <2>1, <2>2, <2>3, RankingType DEF Keeps, Numbered, Rows
    <2>5. \A e \in Emails \ S : e \in deleted'[f] <=> e \in deleted[f]
        BY DEF StoreFlags
    <2>6. \A e \in Emails \ S : Keeps(f, e)
        BY <2>1, <2>3, <2>5 DEF Keeps, Numbered
    <2>7. \A e \in Emails : ~Gains(f, e)
        BY <2>3 DEF Gains
    <2> QED
        BY <1>1, <2>2, <2>3, <2>4, <2>6, <2>7 DEF FolderStep
<1>2. CASE g # f
    BY <1>2 DEF StoreFlags, FolderStep, Keeps, Gains
<1> QED
    BY <1>1, <1>2

LEMMA HttpMoveStep ==
    ASSUME IInv, NEW e \in Emails, NEW f \in Folders, HttpMove(e, f), NEW g \in Folders
    PROVE  FolderStep(g)
<1> USE DEF IInv, TypeOK
<1>1. \A d \in Emails : d # e => Keeps(g, d) /\ ~Gains(g, d)
    BY DEF HttpMove, Lost, Gained, Keeps, Gains
<1>2. nextUID'[g] >= nextUID[g] /\ highestModSeq'[g] >= highestModSeq[g]
    BY DEF HttpMove, Lost, Gained
<1>3. CASE g \in FoldersOf(e) \ {f}
    <2>1. Loses(g, e)
        BY <1>3 DEF HttpMove, Lost, Gained, Loses
    <2> QED
        BY <1>1, <1>2, <2>1 DEF FolderStep
<1>4. CASE g = f /\ g \notin FoldersOf(e)
    <2>1. Gains(g, e)
        BY <1>4 DEF HttpMove, Lost, Gained, Gains, FoldersOf
    <2> QED
        BY <1>1, <1>2, <2>1 DEF FolderStep
<1>5. CASE g \notin FoldersOf(e) \ {f} /\ g \notin {f} \ FoldersOf(e)
    <2>1. Keeps(g, e)
        BY <1>5 DEF HttpMove, Lost, Gained, Keeps
    <2> QED
        BY <1>1, <1>2, <2>1 DEF FolderStep
<1> QED
    BY <1>3, <1>4, <1>5

LEMMA PurgeStep ==
    ASSUME IInv, NEW S \in SUBSET Emails, PurgeRows(S), NEW g \in Folders
    PROVE  FolderStep(g)
<1> USE DEF IInv, TypeOK
<1>1. /\ Cardinality(S \cap Rows(g)) \in Nat
      /\ S \cap Rows(g) # {} => Cardinality(S \cap Rows(g)) > 0
    BY CountType
<1>2. highestModSeq'[g] = highestModSeq[g] + Cardinality(S \cap Rows(g)) /\ nextUID' = nextUID
    BY DEF PurgeRows
<1>3. \A e \in S \cap Rows(g) : Loses(g, e)
    BY <1>1, <1>2 DEF PurgeRows, Loses
<1>4. \A e \in Emails \ S : Keeps(g, e)
    BY DEF PurgeRows, Keeps
<1>5. \A e \in S \ Rows(g) : Keeps(g, e)
    BY DEF PurgeRows, Rows, NoRowNoData, Keeps
<1>6. \A e \in Emails : ~Gains(g, e)
    BY DEF PurgeRows, Gains
<1> QED
    BY <1>1, <1>2, <1>3, <1>4, <1>5, <1>6 DEF FolderStep
LEMMA EveryStep ==
    ASSUME IInv, [Next]_vars, NEW g \in Folders
    PROVE  FolderStep(g)
<1>1. ASSUME NEW e \in Emails, Arrive(e) PROVE FolderStep(g)
    <2>1. folder[e] = "unstored"
        BY <1>1 DEF Arrive, Store, StoreIntake, AppendMessage
    <2>2. \A f \in Folders : uid[f][e] = 0
        BY <2>1, FolderAssumption DEF IInv, RowsAreStored, Stored, FoldersOf
    <2>3. CASE StoreIntake(e)
        BY <2>3, QuietStep DEF IInv, StoreIntake
    <2>4. CASE \E f \in Folders, isDeleted \in BOOLEAN : AddRow(f, e, isDeleted)
        BY <2>2, <2>4, AddRowStep
    <2> QED
        BY <1>1, <2>3, <2>4 DEF Arrive, Store, AppendMessage
<1>2. CASE ProtocolChange
    BY <1>2, MoveStep, CopyStep, StoreFlagsStep DEF ProtocolChange
<1>3. ASSUME NEW s \in Sessions, Purge(s) PROVE FolderStep(g)
    <2>1. listed[s] \in SUBSET Emails
        BY DEF IInv, TypeOK
    <2> QED
        BY <1>3, <2>1, PurgeStep DEF Purge
<1>4. ASSUME NEW e \in Emails, DeletePermanently(e) PROVE FolderStep(g)
    BY <1>4, PurgeStep DEF DeletePermanently
<1>5. CASE UNCHANGED <<rowVars, counterVars>>
    BY <1>5, QuietStep DEF IInv
<1> QED
    BY <1>1, <1>2, <1>3, <1>4, <1>5, HttpMoveStep
    DEF Next, vars, ListTrash, ListExpunged, List, Abandon

-----------------------------------------------------------------------------
(* The invariant.                                                           *)

LEMMA UidsStep == IInv /\ [Next]_vars => UidsAreSound'
<1> SUFFICES ASSUME IInv, [Next]_vars, NEW f \in Folders
             PROVE  /\ \A e \in Rows(f)' : uid'[f][e] < nextUID'[f]
                    /\ \A d, e \in Rows(f)' : d # e => uid'[f][d] # uid'[f][e]
    BY DEF UidsAreSound
<1>1. FolderStep(f)
    BY EveryStep
<1>2. /\ nextUID[f] \in Nat /\ nextUID'[f] \in Nat
      /\ \A e \in Emails : uid[f][e] \in Nat /\ uid'[f][e] \in Nat
    BY TypeStep DEF IInv, TypeOK
<1>3. \A e \in Emails : uid[f][e] # 0 => uid[f][e] < nextUID[f]
    BY DEF IInv, UidsAreSound, Rows
<1>4. \A e \in Emails : uid'[f][e] # 0 => Gains(f, e) \/ uid'[f][e] = uid[f][e]
    BY <1>1 DEF FolderStep, Loses, Keeps
<1>5. \A e \in Emails : uid'[f][e] # 0 => uid'[f][e] < nextUID'[f]
    BY <1>1, <1>2, <1>3, <1>4 DEF FolderStep, Gains
<1>6. ASSUME NEW d \in Emails, NEW e \in Emails, d # e, uid'[f][d] # 0, uid'[f][e] # 0
      PROVE  uid'[f][d] # uid'[f][e]
    <2>1. CASE Gains(f, d) /\ Gains(f, e)
        BY <1>1, <1>6, <2>1 DEF FolderStep
    <2>2. CASE Gains(f, d) /\ uid'[f][e] = uid[f][e]
        BY <1>2, <1>3, <1>6, <2>2 DEF Gains
    <2>3. CASE Gains(f, e) /\ uid'[f][d] = uid[f][d]
        BY <1>2, <1>3, <1>6, <2>3 DEF Gains
    <2>4. CASE uid'[f][d] = uid[f][d] /\ uid'[f][e] = uid[f][e]
        BY <1>6, <2>4 DEF IInv, UidsAreSound, Rows
    <2> QED
        BY <1>4, <1>6, <2>1, <2>2, <2>3, <2>4
<1> QED
    BY <1>5, <1>6 DEF Rows

LEMMA RowDataStep == IInv /\ [Next]_vars => NoRowNoData'
<1> SUFFICES ASSUME IInv, [Next]_vars, NEW f \in Folders, NEW e \in Emails, uid'[f][e] = 0
             PROVE  modSeq'[f][e] = 0 /\ e \notin deleted'[f]
    BY DEF NoRowNoData
<1>1. Gains(f, e) \/ Loses(f, e) \/ Keeps(f, e)
    BY EveryStep DEF FolderStep
<1>2. ~Gains(f, e)
    BY DEF Gains, IInv, TypeOK
<1> QED
    BY <1>1, <1>2 DEF Loses, Keeps, IInv, NoRowNoData

LEMMA StoredStep == IInv /\ [Next]_vars => RowsAreStored'
<1> SUFFICES ASSUME IInv, [Next]_vars PROVE RowsAreStored'
    OBVIOUS
<1> USE DEF IInv, TypeOK, RowsAreStored, Stored, FoldersOf
<1>a. \A d \in Emails : folder[d] \notin DefaultFolders => \A f \in Folders : uid[f][d] = 0
    OBVIOUS
<1>1. ASSUME NEW e \in Emails, Arrive(e) PROVE RowsAreStored'
    <2>1. folder' = [folder EXCEPT ![e] = folder'[e]] /\ folder'[e] \in DefaultFolders
        BY <1>1, FolderAssumption DEF Arrive, Store, StoreIntake, AppendMessage, HttpFolder
    <2>2. \A d \in Emails, f \in Folders : d # e => uid'[f][d] = uid[f][d]
        <3>1. ASSUME NEW g \in Folders, NEW isDeleted \in BOOLEAN, AddRow(g, e, isDeleted)
              PROVE  \A d \in Emails, f \in Folders : d # e => uid'[f][d] = uid[f][d]
            BY <3>1 DEF AddRow
        <3> QED
            BY <1>1, <3>1 DEF Arrive, Store, StoreIntake, AppendMessage, rowVars
    <2> QED
        BY <1>a, <2>1, <2>2
<1>2. ASSUME NEW S \in SUBSET Emails, NEW from \in Folders, NEW to \in Folders, Move(S, from, to)
      PROVE  RowsAreStored'
    <2>1. \A d \in S : folder[d] \in DefaultFolders
        BY <1>a, <1>2 DEF Move, CanTransfer, Rows
    <2>2. \A d \in S : folder'[d] \in DefaultFolders
        BY <1>2, <2>1 DEF Move, Filed
    <2>3. \A d \in Emails \ S : folder'[d] = folder[d]
        BY <1>2 DEF Move, Filed
    <2>4. \A d \in Emails \ S, f \in Folders : uid'[f][d] = uid[f][d]
        BY <1>2 DEF Move, CanTransfer, Numbered, Without
    <2> QED
        BY <1>a, <2>1, <2>2, <2>3, <2>4
<1>3. ASSUME NEW S \in SUBSET Emails, NEW from \in Folders, NEW to \in Folders, Copy(S, from, to)
      PROVE  RowsAreStored'
    <2>1. \A d \in S : folder[d] \in DefaultFolders
        BY <1>3 DEF Copy, CanTransfer, Rows
    <2>2. \A d \in Emails \ S, f \in Folders : uid'[f][d] = uid[f][d]
        BY <1>3 DEF Copy, Numbered
    <2> QED
        BY <1>a, <1>3, <2>1, <2>2 DEF Copy
<1>4. ASSUME NEW e \in Emails, NEW f \in Folders, HttpMove(e, f) PROVE RowsAreStored'
    <2>1. folder' = [folder EXCEPT ![e] = f] /\ f \in DefaultFolders
        BY <1>4 DEF HttpMove, Lost, Gained
    <2>2. \A d \in Emails, g \in Folders : d # e => uid'[g][d] = uid[g][d]
        BY <1>4 DEF HttpMove, Lost, Gained
    <2> QED
        BY <1>a, <2>1, <2>2
<1>5. ASSUME NEW S \in SUBSET Emails, PurgeRows(S) PROVE RowsAreStored'
    BY <1>a, <1>5 DEF PurgeRows
<1>6. CASE UNCHANGED <<folder, uid>>
    BY <1>6
<1>7. \A s \in Sessions : listed[s] \in SUBSET Emails
    OBVIOUS
<1>8. ASSUME ProtocolChange PROVE RowsAreStored'
    BY <1>2, <1>3, <1>6, <1>8 DEF ProtocolChange, StoreFlags
<1>9. ASSUME NEW s \in Sessions, Purge(s) PROVE RowsAreStored'
    BY <1>5, <1>7, <1>9 DEF Purge
<1>10. ASSUME NEW e \in Emails, DeletePermanently(e) PROVE RowsAreStored'
    BY <1>5, <1>10 DEF DeletePermanently
<1> QED
    BY <1>1, <1>4, <1>6, <1>8, <1>9, <1>10
    DEF Next, vars, rowVars, ListTrash, ListExpunged, List, Abandon

LEMMA InvInit == Init => IInv
BY TypeInit, FolderAssumption DEF Init, IInv, UidsAreSound, NoRowNoData, RowsAreStored, Rows,
    FoldersOf

LEMMA InvStep == IInv /\ [Next]_vars => IInv'
BY TypeStep, UidsStep, RowDataStep, StoredStep DEF IInv

LEMMA InvCorrect == Spec => []IInv
BY InvInit, InvStep, PTL DEF Spec

\* Whatever clients do at the same time, two messages of a folder never share a
\* UID and UIDNEXT is above all of them.
THEOREM UidsAlwaysSound == Spec => []UidsAreSound
<1>1. IInv => UidsAreSound
    BY DEF IInv
<1> QED
    BY <1>1, InvCorrect, PTL

\* A row keeps its UID for life, and no UID is given out twice.
THEOREM UidsGivenOutOnce == Spec => UidsAreNeverReused
<1> DEFINE UidStep ==
        \A f \in Folders :
            /\ nextUID'[f] >= nextUID[f]
            /\ \A e \in Emails :
                uid'[f][e] # uid[f][e] =>
                    \/ uid'[f][e] = 0
                    \/ uid[f][e] = 0 /\ uid'[f][e] >= nextUID[f] /\ uid'[f][e] < nextUID'[f]
<1>1. IInv /\ [Next]_vars => UidStep
    <2> SUFFICES ASSUME IInv, [Next]_vars, NEW f \in Folders
                 PROVE  /\ nextUID'[f] >= nextUID[f]
                        /\ \A e \in Emails :
                            uid'[f][e] # uid[f][e] =>
                                \/ uid'[f][e] = 0
                                \/ /\ uid[f][e] = 0
                                   /\ uid'[f][e] >= nextUID[f] /\ uid'[f][e] < nextUID'[f]
        OBVIOUS
    <2>1. FolderStep(f)
        BY EveryStep
    <2>2. nextUID[f] \in Nat /\ \A e \in Emails : uid'[f][e] \in Nat
        BY TypeStep DEF IInv, TypeOK
    <2> QED
        BY <2>1, <2>2 DEF FolderStep, Gains, Loses, Keeps
<1>2. Spec => [][UidStep]_vars
    BY <1>1, InvCorrect, PTL DEF Spec
<1> QED
    BY <1>2 DEF UidsAreNeverReused

\* Every change of a folder raises its mod-sequence above all it had reported.
THEOREM ChangesAlwaysVisible == Spec => ChangesAreVisible
<1> DEFINE VisibleStep ==
        \A f \in Folders :
            /\ highestModSeq'[f] >= highestModSeq[f]
            /\ \A e \in Emails :
                View(f, e)' # View(f, e) =>
                    /\ highestModSeq'[f] > highestModSeq[f]
                    /\ uid'[f][e] # 0 =>
                        modSeq'[f][e] > highestModSeq[f] /\ modSeq'[f][e] <= highestModSeq'[f]
<1>1. IInv /\ [Next]_vars => VisibleStep
    <2> SUFFICES ASSUME IInv, [Next]_vars, NEW f \in Folders
                 PROVE  /\ highestModSeq'[f] >= highestModSeq[f]
                        /\ \A e \in Emails :
                            View(f, e)' # View(f, e) =>
                                /\ highestModSeq'[f] > highestModSeq[f]
                                /\ uid'[f][e] # 0 =>
                                    /\ modSeq'[f][e] > highestModSeq[f]
                                    /\ modSeq'[f][e] <= highestModSeq'[f]
        OBVIOUS
    <2>1. FolderStep(f)
        BY EveryStep
    <2>2. highestModSeq'[f] >= highestModSeq[f]
        BY <2>1 DEF FolderStep
    <2>3. ASSUME NEW e \in Emails, View(f, e)' # View(f, e)
          PROVE  /\ highestModSeq'[f] > highestModSeq[f]
                 /\ uid'[f][e] # 0 =>
                     modSeq'[f][e] > highestModSeq[f] /\ modSeq'[f][e] <= highestModSeq'[f]
        <3>1. /\ highestModSeq[f] \in Nat /\ highestModSeq'[f] \in Nat
              /\ modSeq[f][e] \in Nat /\ modSeq'[f][e] \in Nat
            BY TypeStep DEF IInv, TypeOK
        <3>2. CASE Gains(f, e)
            BY <3>1, <3>2 DEF Gains
        <3>3. CASE Loses(f, e)
            BY <3>1, <3>3 DEF Loses
        <3>4. CASE Keeps(f, e)
            BY <2>3, <3>1, <3>4 DEF View, Keeps
        <3> QED
            BY <2>1, <3>2, <3>3, <3>4 DEF FolderStep
    <2> QED
        BY <2>2, <2>3
<1>2. Spec => [][VisibleStep]_vars
    BY <1>1, InvCorrect, PTL DEF Spec
<1> QED
    BY <1>2 DEF ChangesAreVisible

-----------------------------------------------------------------------------
(* The two sides of the folder model.                                       *)

LEMMA SidesStep ==
    ASSUME IInv, SidesAgree, [Next]_vars, NEW d \in Emails, NEW f \in DefaultFolders,
           FoldersOf(d)' = {f}
    PROVE  folder'[d] = f
<1> USE DEF IInv, TypeOK, FoldersOf
<1> DEFINE Same == folder'[d] = folder[d] /\ \A g \in Folders : uid'[g][d] = uid[g][d]
<1>1. f \in Folders /\ uid'[f][d] # 0 /\ \A g \in Folders \ {f} : uid'[g][d] = 0
    BY FolderAssumption
<1>2. CASE Same
    <2>1. FoldersOf(d) = {f}
        BY <1>1, <1>2
    <2> QED
        BY <1>2, <2>1 DEF SidesAgree
<1>3. ASSUME NEW e \in Emails, Arrive(e) PROVE folder'[d] = f
    <2>0. folder[e] = "unstored"
        BY <1>3 DEF Arrive, Store, StoreIntake, AppendMessage
    <2>1. \A g \in Folders : uid[g][e] = 0
        BY <2>0, FolderAssumption DEF RowsAreStored, Stored
    <2>2. CASE StoreIntake(e)
        BY <1>1, <1>2, <2>1, <2>2 DEF StoreIntake, rowVars
    <2>3. ASSUME NEW g \in Folders, NEW isDeleted \in BOOLEAN, AddRow(g, e, isDeleted)
          PROVE  IF d = e THEN f = g ELSE \A h \in Folders : uid'[h][d] = uid[h][d]
        BY <1>1, <2>1, <2>3 DEF AddRow
    <2>4. ASSUME NEW g \in Folders, Store(e, g) PROVE folder'[d] = f
        BY <1>2, <2>3, <2>4 DEF Store
    <2>5. ASSUME NEW g \in Folders, NEW isDeleted \in BOOLEAN, AppendMessage(e, g, isDeleted)
          PROVE  folder'[d] = f
        BY <1>2, <2>3, <2>5 DEF AppendMessage, HttpFolder
    <2> QED
        BY <1>3, <2>2, <2>4, <2>5 DEF Arrive
<1>4. ASSUME NEW S \in SUBSET Emails, NEW from \in Folders, NEW to \in Folders,
             Move(S, from, to) \/ Copy(S, from, to)
      PROVE  folder'[d] = f
    <2>1. CASE d \notin S
        <3>1. folder'[d] = folder[d]
            BY <1>4, <2>1 DEF Move, Copy, Filed
        <3>2. \A g \in Folders : uid'[g][d] = uid[g][d]
            <4>1. CASE Move(S, from, to)
                BY <2>1, <4>1 DEF Move, CanTransfer, Numbered, Without
            <4>2. CASE Copy(S, from, to)
                BY <2>1, <4>2 DEF Copy, CanTransfer, Numbered
            <4> QED
                BY <1>4, <4>1, <4>2
        <3> QED
            BY <1>2, <3>1, <3>2
    <2>2. ASSUME d \in S PROVE uid'[to][d] # 0
        <3>1. PICK rank \in Rankings(S) : uid'[to] = Numbered(uid[to], nextUID[to] - 1, S, rank)
            BY <1>4 DEF Move, Copy, CanTransfer
        <3>2. rank[d] \in Nat \ {0} /\ nextUID[to] \in Nat \ {0}
            BY <2>2, RankingType
        <3>3. uid'[to][d] = nextUID[to] - 1 + rank[d]
            BY <2>2, <3>1 DEF Numbered
        <3>4. \A n, k \in Nat \ {0} : n - 1 + k # 0
            OBVIOUS
        <3> QED
            BY <3>2, <3>3, <3>4
    <2>3. CASE d \in S /\ Move(S, from, to)
        BY <1>1, <2>2, <2>3 DEF Move, Filed
    <2>4. CASE d \in S /\ Copy(S, from, to)
        <3>1. from # to /\ uid'[from] = uid[from] /\ uid[from][d] # 0
            BY <2>4 DEF Copy, CanTransfer, Rows
        <3> QED
            BY <1>1, <2>2, <2>4, <3>1
    <2> QED
        BY <1>4, <2>1, <2>3, <2>4
<1>5. ASSUME NEW e \in Emails, NEW g \in Folders, HttpMove(e, g) PROVE folder'[d] = f
    <2>1. folder' = [folder EXCEPT ![e] = g] /\ \A h \in Folders \ {g} : uid'[h][e] = 0
        BY <1>5 DEF HttpMove, Lost, Gained
    <2>2. d # e => \A h \in Folders : uid'[h][d] = uid[h][d]
        BY <1>5 DEF HttpMove, Lost, Gained
    <2> QED
        BY <1>1, <1>2, <2>1, <2>2
<1>6. ASSUME NEW S \in SUBSET Emails, PurgeRows(S) PROVE folder'[d] = f
    BY <1>1, <1>2, <1>6 DEF PurgeRows
<1>7. CASE UNCHANGED <<folder, uid>>
    BY <1>2, <1>7
<1>8. ASSUME ProtocolChange PROVE folder'[d] = f
    BY <1>4, <1>7, <1>8 DEF ProtocolChange, StoreFlags
<1>9. ASSUME NEW s \in Sessions, Purge(s) PROVE folder'[d] = f
    BY <1>6, <1>9 DEF Purge
<1>10. ASSUME NEW e \in Emails, DeletePermanently(e) PROVE folder'[d] = f
    BY <1>6, <1>10 DEF DeletePermanently
<1> QED
    BY <1>3, <1>5, <1>7, <1>8, <1>9, <1>10
    DEF Next, vars, rowVars, ListTrash, ListExpunged, List, Abandon

\* A message that protocol clients find in one folder is shown there by the
\* HTTP app, after any sequence of the operations of either.
THEOREM SidesAlwaysAgree == Spec => []SidesAgree
<1>1. Init => SidesAgree
    BY FolderAssumption DEF Init, SidesAgree, FoldersOf
<1>2. IInv /\ SidesAgree /\ [Next]_vars => SidesAgree'
    BY SidesStep DEF SidesAgree
<1> QED
    BY <1>1, <1>2, InvCorrect, PTL DEF Spec

-----------------------------------------------------------------------------

LEMMA DropsStep ==
    ASSUME IInv, [Next]_vars, NEW d \in Emails, FoldersOf(d) # {}, FoldersOf(d)' = {}
    PROVE  ~Stored(d)'
<1> USE DEF IInv, TypeOK, FoldersOf
<1>1. /\ \A g \in Folders : uid'[g][d] = 0
      /\ \E g \in Folders : uid[g][d] # 0
    OBVIOUS
<1> DEFINE Same == \A g \in Folders : uid'[g][d] = uid[g][d]
<1>2. ~Same
    BY <1>1
<1>3. ASSUME NEW e \in Emails, Arrive(e) PROVE FALSE
    <2>1. folder[e] = "unstored"
        BY <1>3 DEF Arrive, Store, StoreIntake, AppendMessage
    <2>2. d # e
        BY <1>1, <2>1, FolderAssumption DEF RowsAreStored, Stored
    <2>3. ASSUME NEW g \in Folders, NEW isDeleted \in BOOLEAN, AddRow(g, e, isDeleted)
          PROVE  Same
        BY <2>2, <2>3 DEF AddRow
    <2> QED
        BY <1>2, <1>3, <2>3 DEF Arrive, Store, StoreIntake, AppendMessage, rowVars
<1>4. ASSUME NEW S \in SUBSET Emails, NEW from \in Folders, NEW to \in Folders,
             Move(S, from, to) \/ Copy(S, from, to)
      PROVE  FALSE
    <2>1. CASE d \in S
        <3>1. PICK rank \in Rankings(S) : uid'[to] = Numbered(uid[to], nextUID[to] - 1, S, rank)
            BY <1>4 DEF Move, Copy, CanTransfer
        <3>2. rank[d] \in Nat \ {0} /\ nextUID[to] \in Nat \ {0}
            BY <2>1, RankingType
        <3>3. uid'[to][d] = nextUID[to] - 1 + rank[d]
            BY <2>1, <3>1 DEF Numbered
        <3>4. \A n, k \in Nat \ {0} : n - 1 + k # 0
            OBVIOUS
        <3> QED
            BY <1>1, <3>2, <3>3, <3>4
    <2>2. CASE d \notin S /\ Move(S, from, to)
        BY <1>2, <2>2 DEF Move, CanTransfer, Numbered, Without
    <2>3. CASE d \notin S /\ Copy(S, from, to)
        BY <1>2, <2>3 DEF Copy, CanTransfer, Numbered
    <2> QED
        BY <1>4, <2>1, <2>2, <2>3
\* The folder that a message is filed into has its row, old or new.
<1>5. ASSUME NEW e \in Emails, NEW g \in Folders, HttpMove(e, g) PROVE FALSE
    <2>1. \A h \in Folders : uid'[h][e] =
            IF h \in Lost(e, g) THEN 0 ELSE IF h \in Gained(e, g) THEN nextUID[h] ELSE uid[h][e]
        BY <1>5 DEF HttpMove
    <2>2. uid'[g][e] # 0
        BY <2>1 DEF Lost, Gained
    <2>3. d # e => Same
        BY <1>5 DEF HttpMove
    <2> QED
        BY <1>1, <1>2, <2>2, <2>3
<1>6. ASSUME NEW S \in SUBSET Emails, PurgeRows(S) PROVE ~Stored(d)'
    <2>1. CASE d \in S
        BY <1>6, <2>1, FolderAssumption DEF PurgeRows, Stored
    <2>2. CASE d \notin S
        BY <1>2, <1>6, <2>2 DEF PurgeRows
    <2> QED
        BY <2>1, <2>2
<1>7. ASSUME UNCHANGED uid PROVE FALSE
    BY <1>2, <1>7
<1>8. ASSUME ProtocolChange PROVE FALSE
    BY <1>4, <1>7, <1>8 DEF ProtocolChange, StoreFlags
<1>9. ASSUME NEW s \in Sessions, Purge(s) PROVE ~Stored(d)'
    BY <1>6, <1>9 DEF Purge
<1>10. ASSUME NEW e \in Emails, DeletePermanently(e) PROVE ~Stored(d)'
    BY <1>6, <1>10 DEF DeletePermanently
<1> QED
    BY <1>3, <1>5, <1>7, <1>8, <1>9, <1>10
    DEF Next, vars, rowVars, ListTrash, ListExpunged, List, Abandon

\* A message that protocol clients can list is in some folder until it is deleted
\* for good, whatever moves, copies and filings it goes through.
THEOREM NoMessageEverDropsOut == Spec => NoMessageDropsOut
<1>1. IInv /\ [Next]_vars =>
        [\A e \in Emails : FoldersOf(e) # {} /\ FoldersOf(e)' = {} => ~Stored(e)']_vars
    BY DropsStep
<1> QED
    BY <1>1, InvCorrect, PTL DEF Spec, NoMessageDropsOut
=============================================================================
