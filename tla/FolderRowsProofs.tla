-------------------------- MODULE FolderRowsProofs --------------------------
(***************************************************************************)
(* The folder locks do what they are for: whatever transactions run at     *)
(* once, a UID names one message and every change shows in the             *)
(* mod-sequences.  The argument is that a transaction owns the lock of     *)
(* each folder whose counters it has read, until it writes them back.      *)
(* The second part adds the row and message locks, and shows that both     *)
(* sides of the folder model agree. The third compares each commit with the*)
(* step of FolderStore that it stands for: transactions are serializable   *)
(* but for the cases that Overtaken names.                                 *)
(***************************************************************************)
EXTENDS FolderRows, FiniteSetTheorems, TLAPS

\* The statements of each kind of transaction.
StepsOf(kind) ==
    CASE kind = "move" -> {"target", "read", "insert", "row", "email", "commit"}
      [] kind = "copy" -> {"target", "read", "insert", "commit"}
      [] kind = "flags" -> {"target", "read", "row", "commit"}
      [] kind = "http" -> {"target", "find", "rows", "losses", "insert", "commit"}
      [] kind = "purge" -> {"find", "rows", "losses", "email", "commit"}

\* It owns the folder it adds to, and what it read of its counters is current.
TargetOwned(s) ==
    tx[s].kind # "purge" /\ tx[s].step # "target" =>
        /\ FolderLock(tx[s].to) \in held[s]
        /\ tx[s].next = nextUID[tx[s].to]
        /\ tx[s].high = highestModSeq[tx[s].to]

SourceOwned(s) ==
    tx[s].kind \in {"move", "copy"} =>
        /\ tx[s].from # tx[s].to
        /\ FolderLock(tx[s].from) \in held[s]
        /\ tx[s].source = highestModSeq[tx[s].from]

LosersOwned(s) ==
    tx[s].kind \in {"http", "purge"} /\ tx[s].step \in {"insert", "email", "commit"} =>
        \A f \in Losers(tx[s]) : FolderLock(f) \in held[s]

\* The row that a flag change saves is one the folder has had.
RowKnown(s) ==
    tx[s].kind = "flags" /\ tx[s].step \in {"row", "commit"} /\ tx[s].rows # {} =>
        <<tx[s].to, tx[s].old, tx[s].mail>> \in given

Sound(s) ==
    tx[s] # NoTx =>
        /\ tx[s].step \in StepsOf(tx[s].kind)
        /\ tx[s].kind = "flags" => tx[s].from = tx[s].to
        /\ TargetOwned(s)
        /\ SourceOwned(s)
        /\ LosersOwned(s)
        /\ RowKnown(s)

\* The history holds every row there is, and the next UID is in none of it.
GivenSound ==
    /\ \A f \in Folders : nextUID[f] > 0
    /\ \A x \in given : x[2] < nextUID[x[1]]
    /\ \A f \in Folders, e \in Emails : uid[f][e] # 0 => <<f, uid[f][e], e>> \in given

IInv ==
    /\ TypeOK
    /\ \A s \in Sessions : Sound(s)
    /\ GivenSound
    /\ UidsNameOneMessage
-----------------------------------------------------------------------------
(* Types.                                                                   *)

LEMMA TypeInit == Init => TypeOK
BY DEF Init, TypeOK

LEMMA NewType ==
    ASSUME NEW kind \in AllKinds, NEW step \in Steps, NEW e \in Emails, NEW from \in Folders,
           NEW to \in Folders
    PROVE  New(kind, step, e, from, to) \in Transactions
BY DEF New, Transactions

\* A session that takes free locks keeps the locks exclusive.
LEMMA LockType ==
    ASSUME TypeOK, NEW s \in Sessions, NEW X \in SUBSET Locks, Lock(s, X)
    PROVE  /\ held' \in [Sessions -> SUBSET Locks]
           /\ held'[s] = held[s] \cup X
           /\ \A t \in Sessions \ {s} : held'[t] = held[t]
           /\ \A r, t \in Sessions : r # t => held'[r] \cap held'[t] = {}
<1>1. /\ held' = [held EXCEPT ![s] = @ \cup X]
      /\ held \in [Sessions -> SUBSET Locks]
      /\ \A r, t \in Sessions : r # t => held[r] \cap held[t] = {}
    BY DEF Lock, TypeOK
<1>2. /\ held' \in [Sessions -> SUBSET Locks]
      /\ held'[s] = held[s] \cup X
      /\ \A t \in Sessions \ {s} : held'[t] = held[t]
    BY <1>1
<1>3. \A t \in Sessions \ {s} : X \cap held[t] = {}
    BY DEF Lock, Free
<1> QED
    BY <1>1, <1>2, <1>3

LEMMA LocksType ==
    ASSUME NEW f \in Folders, NEW e \in Emails
    PROVE  FolderLock(f) \in Locks /\ RowLock(f, e) \in Locks /\ EmailLock(e) \in Locks
BY DEF Locks, FolderLock, RowLock, EmailLock

LEMMA EndType ==
    ASSUME TypeOK, NEW s \in Sessions, End(s)
    PROVE  /\ held' \in [Sessions -> SUBSET Locks]
           /\ \A r, t \in Sessions : r # t => held'[r] \cap held'[t] = {}
           /\ tx' \in [Sessions -> Transactions \cup {NoTx}]
           /\ tx'[s] = NoTx
           /\ \A t \in Sessions \ {s} : held'[t] = held[t] /\ tx'[t] = tx[t]
<1>1. held' = [held EXCEPT ![s] = {}] /\ tx' = [tx EXCEPT ![s] = NoTx]
    BY DEF End
<1> QED
    BY <1>1 DEF TypeOK

\* The transaction that a session runs, and one that it goes on with.
LEMMA RunningType ==
    ASSUME TypeOK, NEW s \in Sessions, tx[s] # NoTx
    PROVE  /\ tx[s] \in Transactions
           /\ tx[s].kind \in AllKinds
           /\ tx[s].mail \in Emails
           /\ tx[s].from \in Folders
           /\ tx[s].to \in Folders
           /\ tx[s].source \in Nat
           /\ tx[s].next \in Nat
           /\ tx[s].high \in Nat
           /\ tx[s].old \in Nat
           /\ tx[s].rows \in SUBSET Folders
           /\ tx[s].seen \in SUBSET Folders
<1>1. tx[s] \in Transactions
    BY DEF TypeOK
<1> QED
    BY <1>1 DEF Transactions

LEMMA BeginType ==
    ASSUME TypeOK, NEW s \in Sessions, NEW t \in Transactions, Begin(s, t)
    PROVE  /\ tx' \in [Sessions -> Transactions \cup {NoTx}]
           /\ tx'[s] = t
           /\ \A r \in Sessions \ {s} : tx'[r] = tx[r]
BY DEF Begin, TypeOK

\* What a statement may change of the session's transaction.
Goes(s) ==
    /\ tx' \in [Sessions -> Transactions \cup {NoTx}]
    /\ \A r \in Sessions \ {s} : tx'[r] = tx[r]
    /\ tx'[s].kind = tx[s].kind
    /\ tx'[s].mail = tx[s].mail
    /\ tx'[s].from = tx[s].from
    /\ tx'[s].to = tx[s].to
    /\ tx'[s].source = tx[s].source
    /\ tx'[s].seen = tx[s].seen

LEMMA GoToType ==
    ASSUME TypeOK, NEW s \in Sessions, tx[s] # NoTx, NEW step \in Steps, GoTo(s, step)
    PROVE  /\ Goes(s)
           /\ tx'[s].step = step
           /\ tx'[s].next = tx[s].next
           /\ tx'[s].high = tx[s].high
           /\ tx'[s].old = tx[s].old
           /\ tx'[s].rows = tx[s].rows
<1>1. tx[s] \in Transactions
    BY RunningType
<1> DEFINE t == [tx[s] EXCEPT !.step = step]
<1>2. t \in Transactions
    BY <1>1 DEF Transactions
<1>3. /\ t.kind = tx[s].kind
      /\ t.step = step
      /\ t.mail = tx[s].mail
      /\ t.from = tx[s].from
      /\ t.to = tx[s].to
      /\ t.source = tx[s].source
      /\ t.next = tx[s].next
      /\ t.high = tx[s].high
      /\ t.old = tx[s].old
      /\ t.rows = tx[s].rows
      /\ t.seen = tx[s].seen
    BY <1>1 DEF Transactions
<1>4. tx' = [tx EXCEPT ![s] = t]
    BY DEF GoTo
<1> HIDE DEF t
<1> QED
    BY <1>2, <1>3, <1>4 DEF Goes, TypeOK

LEMMA LockTargetType ==
    ASSUME TypeOK, NEW s \in Sessions, LockTarget(s)
    PROVE  /\ Goes(s)
           /\ tx'[s].step = IF tx[s].kind = "http" THEN "find" ELSE "read"
           /\ tx'[s].next = nextUID[tx[s].to]
           /\ tx'[s].high = highestModSeq[tx[s].to]
<1>1. tx[s] \in Transactions /\ tx[s].to \in Folders
    BY RunningType DEF LockTarget, At
<1>2. nextUID[tx[s].to] \in Nat /\ highestModSeq[tx[s].to] \in Nat
    BY <1>1 DEF TypeOK
<1> DEFINE step == IF tx[s].kind = "http" THEN "find" ELSE "read"
           t == [tx[s] EXCEPT !.step = step, !.next = nextUID[tx[s].to],
                              !.high = highestModSeq[tx[s].to]]
<1>3. t \in Transactions
    BY <1>1, <1>2 DEF Transactions, Steps
<1>4. /\ t.kind = tx[s].kind
      /\ t.step = step
      /\ t.mail = tx[s].mail
      /\ t.from = tx[s].from
      /\ t.to = tx[s].to
      /\ t.source = tx[s].source
      /\ t.next = nextUID[tx[s].to]
      /\ t.high = highestModSeq[tx[s].to]
      /\ t.seen = tx[s].seen
    BY <1>1 DEF Transactions
<1>5. tx' = [tx EXCEPT ![s] = t]
    BY DEF LockTarget, TypeOK
<1> HIDE DEF t
<1> QED
    BY <1>3, <1>4, <1>5 DEF Goes, TypeOK

LEMMA ReadRowType ==
    ASSUME TypeOK, NEW s \in Sessions, ReadRow(s)
    PROVE  /\ Goes(s)
           /\ tx'[s].step \in {"commit", "row", "insert"}
           /\ tx'[s].step = "row" => tx[s].kind = "flags"
           /\ tx'[s].step = "insert" => tx[s].kind # "flags"
           /\ tx'[s].next = tx[s].next
           /\ tx'[s].high = tx[s].high
           /\ tx'[s].old = uid[tx[s].from][tx[s].mail]
           /\ tx'[s].rows # {} => uid[tx[s].from][tx[s].mail] # 0 /\ tx'[s].step # "commit"
<1>1. tx[s] \in Transactions /\ tx[s].from \in Folders /\ tx[s].mail \in Emails
    BY RunningType DEF ReadRow, At
<1> DEFINE old == uid[tx[s].from][tx[s].mail]
           found == old # 0
           step == CASE ~found -> "commit"
                     [] found /\ tx[s].kind = "flags" -> "row"
                     [] OTHER -> "insert"
           rows == IF found THEN {tx[s].from} ELSE {}
           t == [tx[s] EXCEPT !.step = step, !.old = old, !.rows = rows]
<1>2. old \in Nat /\ rows \in SUBSET Folders
    BY <1>1 DEF TypeOK
<1>3. /\ step \in {"commit", "row", "insert"}
      /\ step = "row" => tx[s].kind = "flags"
      /\ step = "insert" => tx[s].kind # "flags"
      /\ rows # {} => old # 0 /\ step # "commit"
    OBVIOUS
<1>4. tx' = [tx EXCEPT ![s] = t]
    BY DEF ReadRow, TypeOK
<1> HIDE DEF old, step, rows
<1>5. t \in Transactions
    BY <1>1, <1>2, <1>3 DEF Transactions, Steps
<1>6. /\ t.kind = tx[s].kind
      /\ t.step = step
      /\ t.mail = tx[s].mail
      /\ t.from = tx[s].from
      /\ t.to = tx[s].to
      /\ t.source = tx[s].source
      /\ t.next = tx[s].next
      /\ t.high = tx[s].high
      /\ t.old = old
      /\ t.rows = rows
      /\ t.seen = tx[s].seen
    BY <1>1 DEF Transactions
<1> HIDE DEF t
<1>7. /\ Goes(s)
      /\ tx'[s] = t
    BY <1>4, <1>5, <1>6 DEF Goes, TypeOK
<1> QED
    BY <1>3, <1>6, <1>7 DEF old

\* FindRows and LockRows: the folders found are replaced.
Found(s, step, rows) == tx' = [tx EXCEPT ![s].step = step, ![s].rows = rows]

LEMMA FoundType ==
    ASSUME TypeOK, NEW s \in Sessions, tx[s] # NoTx, NEW step \in Steps,
           NEW rows \in SUBSET Folders, Found(s, step, rows)
    PROVE  /\ Goes(s)
           /\ tx'[s].step = step
           /\ tx'[s].next = tx[s].next
           /\ tx'[s].high = tx[s].high
           /\ tx'[s].old = tx[s].old
           /\ tx'[s].rows = rows
<1>1. tx[s] \in Transactions
    BY RunningType
<1> DEFINE t == [tx[s] EXCEPT !.step = step, !.rows = rows]
<1>2. t \in Transactions
    BY <1>1 DEF Transactions
<1>3. /\ t.kind = tx[s].kind
      /\ t.step = step
      /\ t.mail = tx[s].mail
      /\ t.from = tx[s].from
      /\ t.to = tx[s].to
      /\ t.source = tx[s].source
      /\ t.next = tx[s].next
      /\ t.high = tx[s].high
      /\ t.old = tx[s].old
      /\ t.rows = rows
      /\ t.seen = tx[s].seen
    BY <1>1 DEF Transactions
<1>4. tx' = [tx EXCEPT ![s] = t]
    BY DEF Found, TypeOK
<1> HIDE DEF t
<1>5. /\ tx' \in [Sessions -> Transactions \cup {NoTx}]
      /\ tx'[s] = t
      /\ \A r \in Sessions \ {s} : tx'[r] = tx[r]
    BY <1>2, <1>4 DEF TypeOK
<1> QED
    BY <1>3, <1>5 DEF Goes

LEMMA FindRowsType ==
    ASSUME TypeOK, NEW s \in Sessions, FindRows(s)
    PROVE  /\ Goes(s)
           /\ tx'[s].step = "rows"
           /\ tx'[s].rows = FoldersOf(tx[s].mail)
           /\ tx'[s].next = tx[s].next
           /\ tx'[s].high = tx[s].high
<1>1. Found(s, "rows", FoldersOf(tx[s].mail))
    BY DEF FindRows, Found
<1>2. tx[s] # NoTx /\ "rows" \in Steps /\ FoldersOf(tx[s].mail) \in SUBSET Folders
    BY DEF FindRows, At, Steps, FoldersOf
<1> QED
    BY <1>1, <1>2, FoundType

LEMMA LockRowsType ==
    ASSUME TypeOK, NEW s \in Sessions, LockRows(s)
    PROVE  /\ Goes(s)
           /\ tx'[s].step = "losses"
           /\ tx'[s].rows = tx[s].rows \cap FoldersOf(tx[s].mail)
           /\ tx'[s].next = tx[s].next
           /\ tx'[s].high = tx[s].high
<1>1. tx[s] # NoTx
    BY DEF LockRows, At
<1>2. tx[s].rows \in SUBSET Folders
    BY <1>1, RunningType
<1> DEFINE rows == tx[s].rows \cap FoldersOf(tx[s].mail)
<1>3. Found(s, "losses", rows)
    BY DEF LockRows, Found
<1>4. "losses" \in Steps /\ rows \in SUBSET Folders
    BY <1>2 DEF Steps
<1> HIDE DEF rows
<1> QED
    BY <1>1, <1>3, <1>4, FoundType DEF rows

LEMMA SetRowsType ==
    ASSUME TypeOK, NEW e \in Emails, NEW u \in [Folders -> Nat], NEW m \in [Folders -> Nat],
           SetRows(e, u, m)
    PROVE  /\ uid' \in [Folders -> [Emails -> Nat]]
           /\ modSeq' \in [Folders -> [Emails -> Nat]]
           /\ given' \subseteq Folders \X Nat \X Emails
           /\ \A f \in Folders : uid'[f][e] = u[f] /\ modSeq'[f][e] = m[f]
           /\ \A f \in Folders, d \in Emails \ {e} :
                uid'[f][d] = uid[f][d] /\ modSeq'[f][d] = modSeq[f][d]
           /\ given' = given \cup {<<f, u[f], e>> : f \in {g \in Folders : u[g] # 0}}
<1>1. /\ uid' = [f \in Folders |-> [uid[f] EXCEPT ![e] = u[f]]]
      /\ modSeq' = [f \in Folders |-> [modSeq[f] EXCEPT ![e] = m[f]]]
      /\ given' = given \cup {<<f, u[f], e>> : f \in {g \in Folders : u[g] # 0}}
    BY DEF SetRows
<1>2. /\ uid \in [Folders -> [Emails -> Nat]]
      /\ modSeq \in [Folders -> [Emails -> Nat]]
      /\ given \subseteq Folders \X Nat \X Emails
    BY DEF TypeOK
<1>3. \A f \in Folders : [uid[f] EXCEPT ![e] = u[f]] \in [Emails -> Nat]
    BY <1>2
<1>4. \A f \in Folders : [modSeq[f] EXCEPT ![e] = m[f]] \in [Emails -> Nat]
    BY <1>2
<1>5. given' \subseteq Folders \X Nat \X Emails
    BY <1>1, <1>2
<1>6. \A f \in Folders : uid'[f][e] = u[f] /\ modSeq'[f][e] = m[f]
    BY <1>1, <1>2
<1>7. \A f \in Folders, d \in Emails \ {e} :
        uid'[f][d] = uid[f][d] /\ modSeq'[f][d] = modSeq[f][d]
    BY <1>1, <1>2
<1> QED
    BY <1>1, <1>3, <1>4, <1>5, <1>6, <1>7

LocksGrow ==
    /\ held' \in [Sessions -> SUBSET Locks]
    /\ \A r, t \in Sessions : r # t => held'[r] \cap held'[t] = {}
    /\ \A t \in Sessions : held[t] \subseteq held'[t]

LEMMA LocksGrowType ==
    ASSUME TypeOK, NEW s \in Sessions,
           held' = held \/ \E X \in SUBSET Locks : Lock(s, X)
    PROVE  LocksGrow
<1>1. CASE held' = held
    BY <1>1 DEF LocksGrow, TypeOK
<1>2. CASE \E X \in SUBSET Locks : Lock(s, X)
    BY <1>2, LockType DEF LocksGrow
<1> QED
    BY <1>1, <1>2

\* The locks that statements take are there to be taken.
LEMMA RowLocksType ==
    ASSUME NEW e \in Emails, NEW F \in SUBSET Folders
    PROVE  /\ {RowLock(f, e) : f \in F} \in SUBSET Locks
           /\ {FolderLock(f) : f \in F} \in SUBSET Locks
BY LocksType

LEMMA LosersType ==
    ASSUME TypeOK, NEW s \in Sessions, tx[s] # NoTx
    PROVE  Losers(tx[s]) \in SUBSET Folders
BY RunningType DEF Losers

LEMMA ExecuteType ==
    ASSUME TypeOK, NEW s \in Sessions, Execute(s)
    PROVE  LocksGrow /\ Goes(s) /\ UNCHANGED <<tables, history>>
<1>0. tx[s] # NoTx
    BY DEF Execute, LockTarget, ReadRow, InsertRow, LockRow, LockEmail, FindRows, LockRows,
           LockLosers, At
<1>t. /\ tx[s].mail \in Emails
      /\ tx[s].from \in Folders
      /\ tx[s].to \in Folders
      /\ tx[s].rows \in SUBSET Folders
    BY <1>0, RunningType
<1>1. CASE LockTarget(s)
    <2>1. {FolderLock(tx[s].to)} \in SUBSET Locks
        BY <1>t, LocksType
    <2> QED
        BY <1>1, <2>1, LocksGrowType, LockTargetType DEF LockTarget
<1>2. CASE ReadRow(s)
    BY <1>2, LocksGrowType, ReadRowType DEF ReadRow
<1>3. CASE InsertRow(s)
    <2>1. {RowLock(tx[s].to, tx[s].mail)} \in SUBSET Locks
        BY <1>t, LocksType
    <2>2. (IF tx[s].kind = "move" THEN "row" ELSE "commit") \in Steps
        BY DEF Steps
    <2> QED
        BY <1>0, <1>3, <2>1, <2>2, LocksGrowType, GoToType DEF InsertRow
<1>4. CASE LockRow(s)
    <2>1. {RowLock(tx[s].from, tx[s].mail)} \in SUBSET Locks
        BY <1>t, LocksType
    <2>2. (IF tx[s].kind = "move" THEN "email" ELSE "commit") \in Steps
        BY DEF Steps
    <2> QED
        BY <1>0, <1>4, <2>1, <2>2, LocksGrowType, GoToType DEF LockRow
<1>5. CASE LockEmail(s)
    <2>1. {EmailLock(tx[s].mail)} \in SUBSET Locks
        BY <1>t, LocksType
    <2>2. "commit" \in Steps
        BY DEF Steps
    <2> QED
        BY <1>0, <1>5, <2>1, <2>2, LocksGrowType, GoToType DEF LockEmail
<1>6. CASE FindRows(s)
    BY <1>6, LocksGrowType, FindRowsType DEF FindRows
<1>7. CASE LockRows(s)
    BY <1>7, <1>t, RowLocksType, LocksGrowType, LockRowsType DEF LockRows
<1>8. CASE LockLosers(s)
    <2>1. {FolderLock(f) : f \in Losers(tx[s])} \in SUBSET Locks
        BY <1>0, <1>t, LosersType, RowLocksType
    <2>2. (CASE tx[s].kind = "purge" -> "email"
             [] tx[s].kind # "purge" /\ tx[s].to \in tx[s].rows -> "commit"
             [] OTHER -> "insert") \in Steps
        BY DEF Steps
    <2> QED
        BY <1>0, <1>8, <2>1, <2>2, LocksGrowType, GoToType DEF LockLosers
<1> QED
    BY <1>1, <1>2, <1>3, <1>4, <1>5, <1>6, <1>7, <1>8 DEF Execute

\* A new transaction, by the statement it begins with.
Begun(s) ==
    /\ tx' \in [Sessions -> Transactions \cup {NoTx}]
    /\ \A r \in Sessions \ {s} : tx'[r] = tx[r]

LEMMA AskType ==
    ASSUME TypeOK, NEW s \in Sessions, Ask(s)
    PROVE  LocksGrow /\ Begun(s) /\ UNCHANGED <<tables, history>>
<1>1. ASSUME NEW e \in Emails, NEW from \in Folders, NEW to \in Folders,
             NEW kind \in {"move", "copy"}, BeginTransfer(s, kind, e, from, to)
      PROVE  LocksGrow /\ Begun(s) /\ UNCHANGED <<tables, history>>
    <2>1. [New(kind, "target", e, from, to) EXCEPT !.source = highestModSeq[from]] \in Transactions
        BY DEF New, Transactions, AllKinds, Steps, TypeOK
    <2>2. {FolderLock(from)} \in SUBSET Locks
        BY LocksType
    <2> QED
        BY <1>1, <2>1, <2>2, BeginType, LocksGrowType DEF BeginTransfer, Begun
<1>2. ASSUME NEW e \in Emails, NEW f \in Folders, BeginFlags(s, e, f)
      PROVE  LocksGrow /\ Begun(s) /\ UNCHANGED <<tables, history>>
    <2>1. New("flags", "target", e, f, f) \in Transactions
        BY NewType DEF AllKinds, Steps
    <2> QED
        BY <1>2, <2>1, BeginType, LocksGrowType DEF BeginFlags, Begun
<1>3. ASSUME NEW e \in Emails, NEW f \in Folders, BeginHttp(s, e, f)
      PROVE  LocksGrow /\ Begun(s) /\ UNCHANGED <<tables, history>>
    <2>1. New("http", "target", e, f, f) \in Transactions
        BY NewType DEF AllKinds, Steps
    <2>2. {EmailLock(e)} \in SUBSET Locks
        BY LocksType
    <2> QED
        BY <1>3, <2>1, <2>2, BeginType, LocksGrowType DEF BeginHttp, Begun
<1>4. ASSUME NEW e \in Emails, BeginPurge(s, e)
      PROVE  LocksGrow /\ Begun(s) /\ UNCHANGED <<tables, history>>
    <2> DEFINE step == IF FoldersOf(e) = {} THEN "email" ELSE "find"
               t == New("purge", step, e, column[e], column[e])
    <2>1. t \in Transactions
        BY <1>4, NewType DEF BeginPurge, Stored, AllKinds, Steps
    <2>2. [t EXCEPT !.seen = FoldersOf(e)] \in Transactions
        BY <2>1 DEF Transactions, FoldersOf
    <2>3. Begin(s, [t EXCEPT !.seen = FoldersOf(e)]) /\ UNCHANGED <<tables, held, history>>
        BY <1>4 DEF BeginPurge
    <2> HIDE DEF t
    <2> QED
        BY <2>2, <2>3, BeginType, LocksGrowType DEF Begun
<1> QED
    BY <1>1, <1>2, <1>3, <1>4 DEF Ask

-----------------------------------------------------------------------------
(* What an arrival or a commit does to the tables.                          *)

\* A row stays, goes away, or appears under a mod-sequence that is new and a
\* UID that is new, or its own.
RowStep(f, e) ==
    \/ uid'[f][e] = uid[f][e] /\ modSeq'[f][e] = modSeq[f][e]
    \/ uid'[f][e] = 0 /\ highestModSeq'[f] > highestModSeq[f]
    \/ uid'[f][e] = 0 /\ column'[e] \notin Folders
    \/ /\ modSeq'[f][e] \in highestModSeq[f] + 1 .. highestModSeq'[f]
       /\ \/ <<f, uid'[f][e], e>> \in given
          \/ uid'[f][e] = nextUID[f] /\ nextUID'[f] > nextUID[f]

\* Only rows of e change, and the history remembers them.
TableStep(e) ==
    /\ uid' \in [Folders -> [Emails -> Nat]]
    /\ modSeq' \in [Folders -> [Emails -> Nat]]
    /\ nextUID' \in [Folders -> Nat]
    /\ highestModSeq' \in [Folders -> Nat]
    /\ given' \subseteq Folders \X Nat \X Emails
    /\ \A f \in Folders : nextUID'[f] >= nextUID[f] /\ highestModSeq'[f] >= highestModSeq[f]
    /\ \A f \in Folders : RowStep(f, e)
    /\ \A f \in Folders, d \in Emails \ {e} :
            uid'[f][d] = uid[f][d] /\ modSeq'[f][d] = modSeq[f][d]
    /\ given' = given \cup {<<f, uid'[f][e], e>> : f \in {g \in Folders : uid'[g][e] # 0}}

\* Counters are written only by the owner of their folder.
OwnCounters(s) ==
    \A f \in Folders :
        FolderLock(f) \notin held[s] =>
            nextUID'[f] = nextUID[f] /\ highestModSeq'[f] = highestModSeq[f]

\* The counters that a session has locked stay as they are.
KeptFor(s) ==
    \A f \in Folders :
        FolderLock(f) \in held[s] =>
            nextUID'[f] = nextUID[f] /\ highestModSeq'[f] = highestModSeq[f]

LEMMA OwnCountersKept ==
    ASSUME TypeOK, NEW s \in Sessions, OwnCounters(s), NEW t \in Sessions \ {s}
    PROVE  KeptFor(t)
<1>1. held[s] \cap held[t] = {}
    BY DEF TypeOK
<1> QED
    BY <1>1 DEF OwnCounters, KeptFor

LEMMA SameRowsStep ==
    ASSUME IInv, NEW e \in Emails, UNCHANGED <<uid, modSeq, given>>,
           nextUID' \in [Folders -> Nat], highestModSeq' \in [Folders -> Nat],
           \A f \in Folders : nextUID'[f] >= nextUID[f] /\ highestModSeq'[f] >= highestModSeq[f]
    PROVE  TableStep(e)
<1>1. {<<f, uid'[f][e], e>> : f \in {g \in Folders : uid'[g][e] # 0}} \subseteq given
    BY DEF IInv, GivenSound
<1> QED
    BY <1>1 DEF TableStep, RowStep, IInv, TypeOK

LEMMA SetRowsStep ==
    ASSUME IInv, NEW e \in Emails, NEW u \in [Folders -> Nat], NEW m \in [Folders -> Nat],
           SetRows(e, u, m),
           nextUID' \in [Folders -> Nat], highestModSeq' \in [Folders -> Nat],
           \A f \in Folders : nextUID'[f] >= nextUID[f] /\ highestModSeq'[f] >= highestModSeq[f],
           \A f \in Folders : RowStep(f, e)
    PROVE  TableStep(e)
<1>1. TypeOK
    BY DEF IInv
<1>2. /\ uid' \in [Folders -> [Emails -> Nat]]
      /\ modSeq' \in [Folders -> [Emails -> Nat]]
      /\ given' \subseteq Folders \X Nat \X Emails
      /\ \A f \in Folders : uid'[f][e] = u[f]
      /\ \A f \in Folders, d \in Emails \ {e} :
            uid'[f][d] = uid[f][d] /\ modSeq'[f][d] = modSeq[f][d]
      /\ given' = given \cup {<<f, u[f], e>> : f \in {g \in Folders : u[g] # 0}}
    BY <1>1, SetRowsType
<1>3. {<<f, u[f], e>> : f \in {g \in Folders : u[g] # 0}}
        = {<<f, uid'[f][e], e>> : f \in {g \in Folders : uid'[g][e] # 0}}
    BY <1>2
<1> QED
    BY <1>2, <1>3 DEF TableStep

LEMMA ArriveStep ==
    ASSUME IInv, NEW e \in Emails, NEW f \in Folders, Arrive(e, f)
    PROVE  /\ TableStep(e)
           /\ \A s \in Sessions : KeptFor(s)
<1> USE DEF IInv, TypeOK
<1>1. /\ uid' = [uid EXCEPT ![f][e] = nextUID[f]]
      /\ modSeq' = [modSeq EXCEPT ![f][e] = highestModSeq[f] + 1]
      /\ nextUID' = [nextUID EXCEPT ![f] = @ + 1]
      /\ highestModSeq' = [highestModSeq EXCEPT ![f] = @ + 1]
      /\ given' = given \cup {<<f, nextUID[f], e>>}
      /\ \A s \in Sessions : FolderLock(f) \notin held[s]
    BY DEF Arrive
<1>2. /\ uid' \in [Folders -> [Emails -> Nat]]
      /\ modSeq' \in [Folders -> [Emails -> Nat]]
      /\ nextUID' \in [Folders -> Nat]
      /\ highestModSeq' \in [Folders -> Nat]
      /\ given' \subseteq Folders \X Nat \X Emails
    BY <1>1
<1>3. /\ uid'[f][e] = nextUID[f]
      /\ modSeq'[f][e] = highestModSeq[f] + 1
      /\ nextUID'[f] = nextUID[f] + 1
      /\ highestModSeq'[f] = highestModSeq[f] + 1
    BY <1>1
<1>4. \A g \in Folders \ {f} :
        /\ uid'[g] = uid[g] /\ modSeq'[g] = modSeq[g]
        /\ nextUID'[g] = nextUID[g] /\ highestModSeq'[g] = highestModSeq[g]
    BY <1>1
<1>5. \A g \in Folders, d \in Emails \ {e} :
        uid'[g][d] = uid[g][d] /\ modSeq'[g][d] = modSeq[g][d]
    BY <1>1
<1>6. \A g \in Folders : nextUID'[g] >= nextUID[g] /\ highestModSeq'[g] >= highestModSeq[g]
    BY <1>3, <1>4
<1>7. \A g \in Folders : RowStep(g, e)
    BY <1>3, <1>4 DEF RowStep
<1>8. given' = given \cup {<<g, uid'[g][e], e>> : g \in {h \in Folders : uid'[h][e] # 0}}
    <2> DEFINE rows == {<<g, uid'[g][e], e>> : g \in {h \in Folders : uid'[h][e] # 0}}
    <2>1. \A g \in Folders \ {f} : uid'[g][e] # 0 => <<g, uid'[g][e], e>> \in given
        BY <1>4 DEF GivenSound
    <2>2. nextUID[f] # 0 => <<f, nextUID[f], e>> \in rows
        BY <1>3
    <2>3. rows \subseteq given'
        BY <1>1, <1>3, <2>1
    <2>4. nextUID[f] # 0
        BY DEF GivenSound
    <2> QED
        BY <1>1, <2>2, <2>3, <2>4
<1>9. TableStep(e)
    BY <1>2, <1>5, <1>6, <1>7, <1>8 DEF TableStep
<1>10. \A s \in Sessions : KeptFor(s)
    BY <1>1, <1>4 DEF KeptFor
<1> QED
    BY <1>9, <1>10

\* What each commit does to the tables, and that it writes counters of its own
\* folders only.
LEMMA CommitMoveStep ==
    ASSUME IInv, NEW s \in Sessions, CommitMove(s)
    PROVE  TableStep(tx[s].mail) /\ OwnCounters(s)
<1> DEFINE t == tx[s]
           one == IF t.rows # {} THEN 1 ELSE 0
           u == [UidsOf(t.mail) EXCEPT ![t.to] = t.next, ![t.from] = 0]
           m == [ModSeqsOf(t.mail) EXCEPT ![t.to] = t.high + 1, ![t.from] = 0]
<1>1. TypeOK /\ t # NoTx /\ t.kind = "move" /\ t.step = "commit" /\ Sound(s)
    BY DEF CommitMove, Committing, At, IInv
<1>2. /\ t.mail \in Emails /\ t.from \in Folders /\ t.to \in Folders
      /\ t.source \in Nat /\ t.next \in Nat /\ t.high \in Nat
    BY <1>1, RunningType
<1>3. /\ FolderLock(t.to) \in held[s] /\ FolderLock(t.from) \in held[s]
      /\ t.next = nextUID[t.to] /\ t.high = highestModSeq[t.to]
      /\ t.source = highestModSeq[t.from] /\ t.from # t.to
    BY <1>1 DEF Sound, TargetOwned, SourceOwned
<1>4. /\ nextUID' = [nextUID EXCEPT ![t.to] = t.next + one]
      /\ highestModSeq' = [highestModSeq EXCEPT ![t.to] = t.high + one,
                                                ![t.from] = t.source + 1]
      /\ t.rows = {} => UNCHANGED <<uid, modSeq, given>>
      /\ t.rows # {} => SetRows(t.mail, u, m)
    BY DEF CommitMove
<1>5. one \in {0, 1} /\ (t.rows # {} => one = 1)
    OBVIOUS
<1> HIDE DEF one
<1>6. nextUID' \in [Folders -> Nat] /\ highestModSeq' \in [Folders -> Nat]
    BY <1>1, <1>2, <1>4, <1>5 DEF TypeOK
<1>7. /\ nextUID'[t.to] = nextUID[t.to] + one
      /\ highestModSeq'[t.to] = highestModSeq[t.to] + one
      /\ highestModSeq'[t.from] = highestModSeq[t.from] + 1
      /\ \A f \in Folders \ {t.to} : nextUID'[f] = nextUID[f]
      /\ \A f \in Folders \ {t.to, t.from} : highestModSeq'[f] = highestModSeq[f]
    BY <1>1, <1>2, <1>3, <1>4 DEF TypeOK
<1>8. nextUID \in [Folders -> Nat] /\ highestModSeq \in [Folders -> Nat]
    BY <1>1 DEF TypeOK
<1> HIDE DEF t
<1>9. \A f \in Folders : nextUID'[f] >= nextUID[f] /\ highestModSeq'[f] >= highestModSeq[f]
    <2> TAKE f \in Folders
    <2>1. CASE f = t.to
        BY <2>1, <1>3, <1>5, <1>7, <1>8
    <2>2. CASE f = t.from
        BY <2>2, <1>3, <1>7, <1>8
    <2>3. CASE f \notin {t.to, t.from}
        BY <2>3, <1>7, <1>8
    <2> QED
        BY <2>1, <2>2, <2>3
<1>10. OwnCounters(s)
    BY <1>3, <1>7 DEF OwnCounters
<1>11. TableStep(t.mail)
    <2>1. CASE t.rows = {}
        BY <2>1, <1>2, <1>4, <1>6, <1>9, SameRowsStep
    <2>2. CASE t.rows # {}
        <3>1. u \in [Folders -> Nat] /\ m \in [Folders -> Nat]
            <4>1. /\ UidsOf(t.mail) \in [Folders -> Nat]
                  /\ ModSeqsOf(t.mail) \in [Folders -> Nat]
                BY <1>1, <1>2 DEF UidsOf, ModSeqsOf, TypeOK
            <4> QED
                BY <4>1, <1>2
        <3>2. /\ u[t.to] = t.next /\ m[t.to] = t.high + 1 /\ u[t.from] = 0
              /\ \A f \in Folders \ {t.to, t.from} : u[f] = uid[f][t.mail] /\ m[f] = modSeq[f][t.mail]
            BY <1>2, <1>3 DEF UidsOf, ModSeqsOf
        <3> HIDE DEF u, m
        <3>3. /\ \A f \in Folders : uid'[f][t.mail] = u[f]
              /\ \A f \in Folders : modSeq'[f][t.mail] = m[f]
            BY <2>2, <1>1, <1>2, <1>4, <3>1, SetRowsType
        <3>4. \A f \in Folders : RowStep(f, t.mail)
            <4> TAKE f \in Folders
            <4>1. CASE f = t.to
                BY <4>1, <2>2, <3>2, <3>3, <1>3, <1>5, <1>7, <1>8 DEF RowStep
            <4>2. CASE f = t.from
                BY <4>2, <3>2, <3>3, <1>3, <1>7, <1>8 DEF RowStep
            <4>3. CASE f \notin {t.to, t.from}
                BY <4>3, <3>2, <3>3 DEF RowStep
            <4> QED
                BY <4>1, <4>2, <4>3
        <3> QED
            BY <2>2, <1>2, <1>4, <1>6, <1>9, <3>1, <3>4, SetRowsStep
    <2> QED
        BY <2>1, <2>2
<1> QED
    BY <1>10, <1>11 DEF t

LEMMA CommitCopyStep ==
    ASSUME IInv, NEW s \in Sessions, CommitCopy(s)
    PROVE  TableStep(tx[s].mail) /\ OwnCounters(s)
<1> DEFINE t == tx[s]
           one == IF t.rows # {} THEN 1 ELSE 0
           u == [UidsOf(t.mail) EXCEPT ![t.to] = t.next]
           m == [ModSeqsOf(t.mail) EXCEPT ![t.to] = t.high + 1]
<1>1. TypeOK /\ t # NoTx /\ t.kind = "copy" /\ t.step = "commit" /\ Sound(s)
    BY DEF CommitCopy, Committing, At, IInv
<1>2. t.mail \in Emails /\ t.to \in Folders /\ t.next \in Nat /\ t.high \in Nat
    BY <1>1, RunningType
<1>3. /\ FolderLock(t.to) \in held[s]
      /\ t.next = nextUID[t.to] /\ t.high = highestModSeq[t.to]
    BY <1>1 DEF Sound, TargetOwned
<1>4. /\ nextUID' = [nextUID EXCEPT ![t.to] = t.next + one]
      /\ highestModSeq' = [highestModSeq EXCEPT ![t.to] = t.high + one]
      /\ t.rows = {} => UNCHANGED <<uid, modSeq, given>>
      /\ t.rows # {} => SetRows(t.mail, u, m)
    BY DEF CommitCopy
<1>5. one \in {0, 1} /\ (t.rows # {} => one = 1)
    OBVIOUS
<1> HIDE DEF one
<1>6. nextUID' \in [Folders -> Nat] /\ highestModSeq' \in [Folders -> Nat]
    BY <1>1, <1>2, <1>4, <1>5 DEF TypeOK
<1>7. /\ nextUID'[t.to] = nextUID[t.to] + one
      /\ highestModSeq'[t.to] = highestModSeq[t.to] + one
      /\ \A f \in Folders \ {t.to} :
            nextUID'[f] = nextUID[f] /\ highestModSeq'[f] = highestModSeq[f]
    BY <1>1, <1>2, <1>3, <1>4 DEF TypeOK
<1>8. nextUID \in [Folders -> Nat] /\ highestModSeq \in [Folders -> Nat]
    BY <1>1 DEF TypeOK
<1> HIDE DEF t
<1>9. \A f \in Folders : nextUID'[f] >= nextUID[f] /\ highestModSeq'[f] >= highestModSeq[f]
    BY <1>5, <1>7, <1>8
<1>10. OwnCounters(s)
    BY <1>3, <1>7 DEF OwnCounters
<1>11. TableStep(t.mail)
    <2>1. CASE t.rows = {}
        BY <2>1, <1>2, <1>4, <1>6, <1>9, SameRowsStep
    <2>2. CASE t.rows # {}
        <3>1. u \in [Folders -> Nat] /\ m \in [Folders -> Nat]
            BY <1>1, <1>2 DEF UidsOf, ModSeqsOf, TypeOK
        <3>2. /\ u[t.to] = t.next /\ m[t.to] = t.high + 1
              /\ \A f \in Folders \ {t.to} : u[f] = uid[f][t.mail] /\ m[f] = modSeq[f][t.mail]
            BY <1>2 DEF UidsOf, ModSeqsOf
        <3> HIDE DEF u, m
        <3>3. /\ \A f \in Folders : uid'[f][t.mail] = u[f]
              /\ \A f \in Folders : modSeq'[f][t.mail] = m[f]
            BY <2>2, <1>1, <1>2, <1>4, <3>1, SetRowsType
        <3>4. \A f \in Folders : RowStep(f, t.mail)
            BY <2>2, <3>2, <3>3, <1>3, <1>5, <1>7, <1>8 DEF RowStep
        <3> QED
            BY <2>2, <1>2, <1>4, <1>6, <1>9, <3>1, <3>4, SetRowsStep
    <2> QED
        BY <2>1, <2>2
<1> QED
    BY <1>10, <1>11 DEF t

LEMMA CommitFlagsStep ==
    ASSUME IInv, NEW s \in Sessions, CommitFlags(s)
    PROVE  TableStep(tx[s].mail) /\ OwnCounters(s)
<1> DEFINE t == tx[s]
           one == IF t.rows # {} THEN 1 ELSE 0
           u == [UidsOf(t.mail) EXCEPT ![t.to] = t.old]
           m == [ModSeqsOf(t.mail) EXCEPT ![t.to] = t.high + 1]
<1>1. TypeOK /\ t # NoTx /\ t.kind = "flags" /\ t.step = "commit" /\ Sound(s)
    BY DEF CommitFlags, Committing, At, IInv
<1>2. /\ t.mail \in Emails /\ t.to \in Folders
      /\ t.next \in Nat /\ t.high \in Nat /\ t.old \in Nat
    BY <1>1, RunningType
<1>3. /\ FolderLock(t.to) \in held[s]
      /\ t.next = nextUID[t.to] /\ t.high = highestModSeq[t.to]
      /\ t.rows # {} => <<t.to, t.old, t.mail>> \in given
    BY <1>1 DEF Sound, TargetOwned, RowKnown
<1>4. /\ nextUID' = [nextUID EXCEPT ![t.to] = t.next]
      /\ highestModSeq' = [highestModSeq EXCEPT ![t.to] = t.high + one]
      /\ t.rows = {} => UNCHANGED <<uid, modSeq, given>>
      /\ t.rows # {} => SetRows(t.mail, u, m)
    BY DEF CommitFlags
<1>5. one \in {0, 1} /\ (t.rows # {} => one = 1)
    OBVIOUS
<1> HIDE DEF one
<1>6. nextUID' \in [Folders -> Nat] /\ highestModSeq' \in [Folders -> Nat]
    BY <1>1, <1>2, <1>4, <1>5 DEF TypeOK
<1>7. /\ nextUID'[t.to] = nextUID[t.to]
      /\ highestModSeq'[t.to] = highestModSeq[t.to] + one
      /\ \A f \in Folders \ {t.to} :
            nextUID'[f] = nextUID[f] /\ highestModSeq'[f] = highestModSeq[f]
    BY <1>1, <1>2, <1>3, <1>4 DEF TypeOK
<1>8. nextUID \in [Folders -> Nat] /\ highestModSeq \in [Folders -> Nat]
    BY <1>1 DEF TypeOK
<1> HIDE DEF t
<1>9. \A f \in Folders : nextUID'[f] >= nextUID[f] /\ highestModSeq'[f] >= highestModSeq[f]
    BY <1>5, <1>7, <1>8
<1>10. OwnCounters(s)
    BY <1>3, <1>7 DEF OwnCounters
<1>11. TableStep(t.mail)
    <2>1. CASE t.rows = {}
        BY <2>1, <1>2, <1>4, <1>6, <1>9, SameRowsStep
    <2>2. CASE t.rows # {}
        <3>1. u \in [Folders -> Nat] /\ m \in [Folders -> Nat]
            BY <1>1, <1>2 DEF UidsOf, ModSeqsOf, TypeOK
        <3>2. /\ u[t.to] = t.old /\ m[t.to] = t.high + 1
              /\ \A f \in Folders \ {t.to} : u[f] = uid[f][t.mail] /\ m[f] = modSeq[f][t.mail]
            BY <1>2 DEF UidsOf, ModSeqsOf
        <3> HIDE DEF u, m
        <3>3. /\ \A f \in Folders : uid'[f][t.mail] = u[f]
              /\ \A f \in Folders : modSeq'[f][t.mail] = m[f]
            BY <2>2, <1>1, <1>2, <1>4, <3>1, SetRowsType
        <3>4. \A f \in Folders : RowStep(f, t.mail)
            BY <2>2, <3>2, <3>3, <1>3, <1>5, <1>7, <1>8 DEF RowStep
        <3> QED
            BY <2>2, <1>2, <1>4, <1>6, <1>9, <3>1, <3>4, SetRowsStep
    <2> QED
        BY <2>1, <2>2
<1> QED
    BY <1>10, <1>11 DEF t

LEMMA CommitHttpStep ==
    ASSUME IInv, NEW s \in Sessions, CommitHttp(s)
    PROVE  TableStep(tx[s].mail) /\ OwnCounters(s)
<1> DEFINE t == tx[s]
           lost == Losers(t)
           gained == {t.to} \ t.rows
           u == [f \in Folders |-> IF f \in lost THEN 0
                                   ELSE IF f \in gained THEN t.next ELSE uid[f][t.mail]]
           m == [f \in Folders |-> IF f \in lost THEN 0
                                   ELSE IF f \in gained THEN t.high + 1 ELSE modSeq[f][t.mail]]
<1>1. TypeOK /\ t # NoTx /\ t.kind = "http" /\ t.step = "commit" /\ Sound(s)
    BY DEF CommitHttp, Committing, At, IInv
<1>2. /\ t.mail \in Emails /\ t.to \in Folders
      /\ t.next \in Nat /\ t.high \in Nat
    BY <1>1, RunningType
<1>3. /\ FolderLock(t.to) \in held[s]
      /\ t.next = nextUID[t.to] /\ t.high = highestModSeq[t.to]
      /\ \A f \in lost : FolderLock(f) \in held[s]
    BY <1>1 DEF Sound, TargetOwned, LosersOwned
<1>4. t.to \notin lost
    BY <1>1 DEF Losers
<1>5. /\ nextUID' = [f \in Folders |-> IF f \in gained THEN t.next + 1 ELSE nextUID[f]]
      /\ highestModSeq' = [f \in Folders |->
             IF f \in lost THEN highestModSeq[f] + 1
             ELSE IF f \in gained THEN t.high + 1 ELSE highestModSeq[f]]
      /\ SetRows(t.mail, u, m)
    BY DEF CommitHttp
<1>6. /\ uid \in [Folders -> [Emails -> Nat]]
      /\ modSeq \in [Folders -> [Emails -> Nat]]
      /\ nextUID \in [Folders -> Nat]
      /\ highestModSeq \in [Folders -> Nat]
    BY <1>1 DEF TypeOK
<1>7. gained \subseteq {t.to}
    OBVIOUS
<1> HIDE DEF lost, gained, t
<1>8. nextUID' \in [Folders -> Nat] /\ highestModSeq' \in [Folders -> Nat]
    BY <1>2, <1>5, <1>6
<1>9. /\ u \in [Folders -> Nat] /\ m \in [Folders -> Nat]
      /\ \A f \in Folders :
            /\ f \in lost => u[f] = 0 /\ m[f] = 0
            /\ f \in gained \ lost => u[f] = t.next /\ m[f] = t.high + 1
            /\ f \notin gained \cup lost => u[f] = uid[f][t.mail] /\ m[f] = modSeq[f][t.mail]
    BY <1>2, <1>6
<1>10. \A f \in Folders :
        /\ f \in lost => highestModSeq'[f] = highestModSeq[f] + 1
        /\ f \in gained \ lost => highestModSeq'[f] = t.high + 1
        /\ f \notin gained \cup lost => highestModSeq'[f] = highestModSeq[f]
        /\ f \in gained => nextUID'[f] = t.next + 1
        /\ f \notin gained => nextUID'[f] = nextUID[f]
    BY <1>5
<1>11. \A f \in Folders : nextUID'[f] >= nextUID[f] /\ highestModSeq'[f] >= highestModSeq[f]
    BY <1>3, <1>4, <1>6, <1>7, <1>10
<1>12. OwnCounters(s)
    BY <1>3, <1>7, <1>10 DEF OwnCounters
<1> HIDE DEF u, m
<1>13. \A f \in Folders : uid'[f][t.mail] = u[f] /\ modSeq'[f][t.mail] = m[f]
    BY <1>1, <1>2, <1>5, <1>9, SetRowsType
<1>14. \A f \in Folders : RowStep(f, t.mail)
    <2> TAKE f \in Folders
    <2>1. CASE f \in lost
        BY <2>1, <1>6, <1>9, <1>10, <1>13 DEF RowStep
    <2>2. CASE f \in gained
        BY <2>2, <1>3, <1>4, <1>6, <1>7, <1>9, <1>10, <1>13 DEF RowStep
    <2>3. CASE f \notin gained \cup lost
        BY <2>3, <1>9, <1>13 DEF RowStep
    <2> QED
        BY <2>1, <2>2, <2>3
<1>15. TableStep(t.mail)
    BY <1>2, <1>5, <1>8, <1>9, <1>11, <1>14, SetRowsStep
<1> QED
    BY <1>12, <1>15 DEF t

LEMMA CommitPurgeStep ==
    ASSUME IInv, NEW s \in Sessions, CommitPurge(s)
    PROVE  TableStep(tx[s].mail) /\ OwnCounters(s)
<1> DEFINE t == tx[s]
           u == [f \in Folders |-> IF f \in t.rows THEN 0 ELSE uid[f][t.mail]]
           m == [f \in Folders |-> IF f \in t.rows THEN 0 ELSE modSeq[f][t.mail]]
           one(f) == IF f \in Losers(t) THEN 1 ELSE 0
<1>1. TypeOK /\ t # NoTx /\ t.kind = "purge" /\ t.step = "commit" /\ Sound(s)
    BY DEF CommitPurge, Committing, At, IInv
<1>2. t.mail \in Emails
    BY <1>1, RunningType
<1>3. \A f \in Losers(t) : FolderLock(f) \in held[s]
    BY <1>1 DEF Sound, LosersOwned
<1>4. /\ nextUID' = nextUID
      /\ highestModSeq' = [f \in Folders |-> highestModSeq[f] + one(f)]
      /\ column' = [column EXCEPT ![t.mail] = "gone"]
      /\ SetRows(t.mail, u, m)
    BY DEF CommitPurge
<1>5. /\ uid \in [Folders -> [Emails -> Nat]]
      /\ modSeq \in [Folders -> [Emails -> Nat]]
      /\ nextUID \in [Folders -> Nat]
      /\ highestModSeq \in [Folders -> Nat]
      /\ column \in [Emails -> Folders \cup {"unstored", "gone"}]
    BY <1>1 DEF TypeOK
<1>6. \A f : one(f) \in {0, 1} /\ (f \notin Losers(t) => one(f) = 0)
    OBVIOUS
<1> HIDE DEF one, t
<1>7. /\ nextUID' \in [Folders -> Nat] /\ highestModSeq' \in [Folders -> Nat]
      /\ \A f \in Folders : highestModSeq'[f] = highestModSeq[f] + one(f)
    <2>1. \A n, k : n \in Nat /\ k \in {0, 1} => n + k \in Nat
        OBVIOUS
    <2>2. \A f \in Folders : highestModSeq[f] + one(f) \in Nat
        BY <1>5, <1>6, <2>1
    <2>3. /\ nextUID' = nextUID
          /\ highestModSeq' = [f \in Folders |-> highestModSeq[f] + one(f)]
        BY <1>4
    <2> QED
        BY <1>5, <2>2, <2>3
<1>8. \A f \in Folders : nextUID'[f] >= nextUID[f] /\ highestModSeq'[f] >= highestModSeq[f]
    <2>1. \A n \in Nat : n >= n /\ n + 0 >= n /\ n + 1 >= n
        OBVIOUS
    <2>2. nextUID' = nextUID
        BY <1>4
    <2> HIDE DEF u, m
    <2> QED
        BY <1>5, <1>6, <1>7, <2>1, <2>2
<1>9. OwnCounters(s)
    <2>1. \A f \in Folders \ Losers(t) : highestModSeq'[f] = highestModSeq[f] + 0
        BY <1>6, <1>7
    <2>2. \A f \in Folders \ Losers(t) : highestModSeq'[f] = highestModSeq[f]
        BY <1>5, <2>1
    <2> QED
        BY <1>3, <1>4, <2>2 DEF OwnCounters
<1>10. /\ u \in [Folders -> Nat] /\ m \in [Folders -> Nat]
       /\ \A f \in Folders :
            /\ f \in t.rows => u[f] = 0 /\ m[f] = 0
            /\ f \notin t.rows => u[f] = uid[f][t.mail] /\ m[f] = modSeq[f][t.mail]
    BY <1>2, <1>5
<1> HIDE DEF u, m
<1>11. \A f \in Folders : uid'[f][t.mail] = u[f] /\ modSeq'[f][t.mail] = m[f]
    BY <1>1, <1>2, <1>4, <1>10, SetRowsType
<1>12. column'[t.mail] \notin Folders
    BY <1>2, <1>4, <1>5, RowsAssumption
<1>13. \A f \in Folders : RowStep(f, t.mail)
    BY <1>10, <1>11, <1>12 DEF RowStep
<1>14. TableStep(t.mail)
    BY <1>2, <1>4, <1>7, <1>8, <1>10, <1>13, SetRowsStep
<1> QED
    BY <1>9, <1>14 DEF t

\* The history of rows that came behind the back of a purge.
LateStep(e) ==
    /\ late' \subseteq Folders \X Emails
    /\ late \subseteq late'
    /\ PurgeHasLooked(e) =>
        \A f \in Folders : uid[f][e] = 0 /\ uid'[f][e] # 0 => <<f, e>> \in late'

LEMMA SetRowsLate ==
    ASSUME TypeOK, NEW e \in Emails, NEW u, NEW m, SetRows(e, u, m)
    PROVE  LateStep(e)
<1>1. /\ uid' = [f \in Folders |-> [uid[f] EXCEPT ![e] = u[f]]]
      /\ late' = IF PurgeHasLooked(e)
                 THEN late \cup {<<f, e>> : f \in {g \in Folders : uid[g][e] = 0 /\ u[g] # 0}}
                 ELSE late
    BY DEF SetRows
<1>2. uid \in [Folders -> [Emails -> Nat]] /\ late \subseteq Folders \X Emails
    BY DEF TypeOK
<1>3. \A f \in Folders : uid'[f][e] = u[f]
    BY <1>1, <1>2
<1> QED
    BY <1>1, <1>2, <1>3 DEF LateStep

LEMMA CommitLate ==
    ASSUME IInv, NEW s \in Sessions, Commit(s)
    PROVE  LateStep(tx[s].mail)
<1>1. TypeOK /\ tx[s] # NoTx
    BY DEF IInv, Commit, CommitMove, CommitCopy, CommitFlags, CommitHttp, CommitPurge,
           Committing, At
<1>2. tx[s].mail \in Emails
    BY <1>1, RunningType
<1>3. UNCHANGED <<uid, late>> => LateStep(tx[s].mail)
    BY <1>1 DEF LateStep, TypeOK
<1>4. CASE CommitMove(s)
    BY <1>1, <1>2, <1>3, <1>4, SetRowsLate DEF CommitMove
<1>5. CASE CommitCopy(s)
    BY <1>1, <1>2, <1>3, <1>5, SetRowsLate DEF CommitCopy
<1>6. CASE CommitFlags(s)
    BY <1>1, <1>2, <1>3, <1>6, SetRowsLate DEF CommitFlags
<1>7. CASE CommitHttp(s)
    BY <1>1, <1>2, <1>7, SetRowsLate DEF CommitHttp
<1>8. CASE CommitPurge(s)
    BY <1>1, <1>2, <1>8, SetRowsLate DEF CommitPurge
<1> QED
    BY <1>4, <1>5, <1>6, <1>7, <1>8 DEF Commit

\* The other variables that commits write.
LEMMA CommitType ==
    ASSUME IInv, NEW s \in Sessions, Commit(s)
    PROVE  /\ tx[s] # NoTx
           /\ tx[s].mail \in Emails
           /\ TableStep(tx[s].mail)
           /\ OwnCounters(s)
           /\ End(s)
           /\ column' \in [Emails -> Folders \cup {"unstored", "gone"}]
           /\ copied' \subseteq Emails
           /\ late' \subseteq Folders \X Emails
<1>1. tx[s] # NoTx /\ End(s)
    BY DEF Commit, CommitMove, CommitCopy, CommitFlags, CommitHttp, CommitPurge, Committing, At
<1>2. TypeOK
    BY DEF IInv
<1>3. tx[s].mail \in Emails /\ tx[s].to \in Folders
    BY <1>1, <1>2, RunningType
<1>4. TableStep(tx[s].mail) /\ OwnCounters(s)
    BY CommitMoveStep, CommitCopyStep, CommitFlagsStep, CommitHttpStep, CommitPurgeStep DEF Commit
<1>5. /\ column \in [Emails -> Folders \cup {"unstored", "gone"}]
      /\ copied \subseteq Emails
    BY <1>2 DEF TypeOK
<1>6. column' \in [Emails -> Folders \cup {"unstored", "gone"}]
    <2>1. CASE CommitMove(s)
        BY <2>1, <1>3, <1>5 DEF CommitMove
    <2>2. CASE CommitCopy(s) \/ CommitFlags(s)
        BY <2>2, <1>5 DEF CommitCopy, CommitFlags
    <2>3. CASE CommitHttp(s)
        BY <2>3, <1>3, <1>5 DEF CommitHttp
    <2>4. CASE CommitPurge(s)
        BY <2>4, <1>3, <1>5 DEF CommitPurge
    <2> QED
        BY <2>1, <2>2, <2>3, <2>4 DEF Commit
<1>7. copied' \subseteq Emails
    BY <1>3, <1>5 DEF Commit, CommitMove, CommitCopy, CommitFlags, CommitHttp, CommitPurge
<1>8. late' \subseteq Folders \X Emails
    BY CommitLate DEF LateStep
<1> QED
    BY <1>1, <1>3, <1>4, <1>6, <1>7, <1>8

-----------------------------------------------------------------------------
(* Each step preserves the invariant.                                       *)

\* No new row takes a UID that the folder has given before.
LEMMA TableStepSound ==
    ASSUME IInv, NEW e \in Emails, TableStep(e)
    PROVE  /\ GivenSound'
           /\ UidsNameOneMessage'
           /\ given \subseteq given'
<1>1. /\ nextUID \in [Folders -> Nat] /\ highestModSeq \in [Folders -> Nat]
      /\ uid \in [Folders -> [Emails -> Nat]]
      /\ given \subseteq Folders \X Nat \X Emails
    BY DEF IInv, TypeOK
<1>2. /\ nextUID' \in [Folders -> Nat] /\ highestModSeq' \in [Folders -> Nat]
      /\ uid' \in [Folders -> [Emails -> Nat]]
      /\ \A f \in Folders : nextUID'[f] >= nextUID[f]
      /\ \A f \in Folders, d \in Emails \ {e} : uid'[f][d] = uid[f][d]
      /\ given' = given \cup {<<f, uid'[f][e], e>> : f \in {g \in Folders : uid'[g][e] # 0}}
    BY DEF TableStep
<1>3. /\ \A f \in Folders : nextUID[f] > 0
      /\ \A x \in given : x[2] < nextUID[x[1]]
      /\ \A f \in Folders, d \in Emails : uid[f][d] # 0 => <<f, uid[f][d], d>> \in given
      /\ \A x, y \in given : x[1] = y[1] /\ x[2] = y[2] => x[3] = y[3]
    BY DEF IInv, GivenSound, UidsNameOneMessage
<1>4. \A f \in Folders : uid'[f][e] # 0 =>
        \/ <<f, uid'[f][e], e>> \in given
        \/ uid'[f][e] = nextUID[f] /\ nextUID'[f] > nextUID[f]
    BY <1>3 DEF TableStep, RowStep
<1>5. \A x \in given' :
        \/ x \in given
        \/ \E f \in Folders : x = <<f, nextUID[f], e>> /\ nextUID'[f] > nextUID[f]
    BY <1>2, <1>4
<1>6. \A f \in Folders : nextUID'[f] > 0
    BY <1>1, <1>2, <1>3
<1>7. \A x \in given' : x[2] < nextUID'[x[1]]
    BY <1>1, <1>2, <1>3, <1>5
<1>8. \A f \in Folders, d \in Emails : uid'[f][d] # 0 => <<f, uid'[f][d], d>> \in given'
    BY <1>2, <1>3
<1>9. \A x, y \in given' : x[1] = y[1] /\ x[2] = y[2] => x[3] = y[3]
    <2> TAKE x, y \in given'
    <2> HAVE x[1] = y[1] /\ x[2] = y[2]
    <2>1. CASE x \in given /\ y \in given
        BY <2>1, <1>3
    <2>2. CASE x \in given /\ y \notin given
        BY <2>2, <1>1, <1>3, <1>5
    <2>3. CASE x \notin given /\ y \in given
        BY <2>3, <1>1, <1>3, <1>5
    <2>4. CASE x \notin given /\ y \notin given
        BY <2>4, <1>5
    <2> QED
        BY <2>1, <2>2, <2>3, <2>4
<1> QED
    BY <1>2, <1>6, <1>7, <1>8, <1>9 DEF GivenSound, UidsNameOneMessage

\* A transaction that does nothing stays as it was, if nobody writes counters
\* that it has locked.
LEMMA OthersSound ==
    ASSUME IInv, NEW t \in Sessions, tx'[t] = tx[t], held[t] \subseteq held'[t],
           KeptFor(t), given \subseteq given'
    PROVE  Sound(t)'
<1> SUFFICES ASSUME tx[t] # NoTx
             PROVE  Sound(t)'
    BY DEF Sound
<1>1. /\ Sound(t)
      /\ tx[t].to \in Folders /\ tx[t].from \in Folders
    BY RunningType DEF IInv
<1>2. Losers(tx[t])' = Losers(tx[t])
    BY DEF Losers
<1>3. TargetOwned(t)'
    BY <1>1 DEF Sound, TargetOwned, KeptFor
<1>4. SourceOwned(t)'
    BY <1>1 DEF Sound, SourceOwned, KeptFor
<1>5. LosersOwned(t)'
    BY <1>1, <1>2 DEF Sound, LosersOwned
<1>6. RowKnown(t)'
    BY <1>1 DEF Sound, RowKnown
<1> QED
    BY <1>1, <1>3, <1>4, <1>5, <1>6 DEF Sound

\* A transaction that begins is sound.
LEMMA AskSound ==
    ASSUME IInv, NEW s \in Sessions, Ask(s)
    PROVE  Sound(s)'
<1>0. TypeOK
    BY DEF IInv
<1>1. ASSUME NEW e \in Emails, NEW from \in Folders, NEW to \in Folders,
             NEW kind \in {"move", "copy"}, BeginTransfer(s, kind, e, from, to)
      PROVE  Sound(s)'
    <2> DEFINE t == [New(kind, "target", e, from, to) EXCEPT !.source = highestModSeq[from]]
    <2>1. /\ t \in Transactions /\ t.kind = kind /\ t.step = "target"
          /\ t.from = from /\ t.to = to /\ t.source = highestModSeq[from]
        BY <1>0 DEF New, Transactions, AllKinds, Steps, TypeOK
    <2>2. /\ Begin(s, t) /\ from # to /\ Lock(s, {FolderLock(from)})
          /\ highestModSeq' = highestModSeq
        BY <1>1 DEF BeginTransfer, tables
    <2> HIDE DEF t
    <2>3. tx'[s] = t
        BY <1>0, <2>1, <2>2, BeginType
    <2>4. {FolderLock(from)} \in SUBSET Locks
        BY LocksType
    <2>5. FolderLock(from) \in held'[s]
        BY <1>0, <2>2, <2>4, LockType
    <2> QED
        BY <2>1, <2>2, <2>3, <2>5
        DEF Sound, StepsOf, TargetOwned, SourceOwned, LosersOwned, RowKnown
<1>2. ASSUME NEW e \in Emails, NEW f \in Folders, NEW kind \in {"flags", "http"},
             Begin(s, New(kind, "target", e, f, f))
      PROVE  Sound(s)'
    <2> DEFINE t == New(kind, "target", e, f, f)
    <2>1. t \in Transactions
        BY NewType DEF AllKinds, Steps
    <2>2. t.kind = kind /\ t.step = "target" /\ t.from = t.to
        BY DEF New
    <2> HIDE DEF t
    <2>3. tx'[s] = t
        BY <1>0, <1>2, <2>1, BeginType DEF t
    <2> QED
        BY <2>2, <2>3 DEF Sound, StepsOf, TargetOwned, SourceOwned, LosersOwned, RowKnown
<1>3. ASSUME NEW e \in Emails, BeginPurge(s, e)
      PROVE  Sound(s)'
    <2> DEFINE step == IF FoldersOf(e) = {} THEN "email" ELSE "find"
               n == New("purge", step, e, column[e], column[e])
               t == [n EXCEPT !.seen = FoldersOf(e)]
    <2>1. n \in Transactions
        BY <1>3, NewType DEF BeginPurge, Stored, AllKinds, Steps
    <2>2. t \in Transactions
        BY <2>1 DEF Transactions, FoldersOf
    <2>3. /\ t.kind = "purge" /\ t.step = step /\ t.seen = FoldersOf(e)
          /\ step = "email" => FoldersOf(e) = {}
          /\ step \in {"email", "find"}
        BY DEF New
    <2>4. Begin(s, t)
        BY <1>3 DEF BeginPurge
    <2> HIDE DEF t, n, step
    <2>5. tx'[s] = t
        BY <1>0, <2>2, <2>4, BeginType
    <2> QED
        BY <2>3, <2>5 DEF Sound, StepsOf, TargetOwned, SourceOwned, LosersOwned, RowKnown, Losers
<1> QED
    BY <1>1, <1>2, <1>3 DEF Ask, BeginFlags, BeginHttp

\* What statements have in common.
LEMMA StatementKeeps ==
    ASSUME NEW s \in Sessions, tx[s] # NoTx, Sound(s), Goes(s), held[s] \subseteq held'[s],
           UNCHANGED tables
    PROVE  /\ tx'[s].kind = "flags" => tx'[s].from = tx'[s].to
           /\ SourceOwned(s)'
           /\ tx[s].step # "target" /\ tx'[s].next = tx[s].next /\ tx'[s].high = tx[s].high
                => TargetOwned(s)'
           /\ tx'[s].rows = tx[s].rows => Losers(tx[s])' = Losers(tx[s])
BY DEF Sound, Goes, SourceOwned, TargetOwned, Losers, tables

LEMMA ExecuteSound ==
    ASSUME IInv, NEW s \in Sessions, Execute(s)
    PROVE  Sound(s)'
<1>1. /\ TypeOK /\ GivenSound /\ Sound(s)
      /\ LocksGrow /\ Goes(s) /\ UNCHANGED tables /\ given' = given
    BY ExecuteType DEF IInv, history
<1>2. tx[s] # NoTx
    BY DEF Execute, LockTarget, ReadRow, InsertRow, LockRow, LockEmail, FindRows, LockRows,
           LockLosers, At
<1>3. /\ tx[s].kind \in AllKinds /\ tx[s].mail \in Emails /\ tx[s].rows \in SUBSET Folders
      /\ tx[s].from \in Folders /\ tx[s].to \in Folders
    BY <1>1, <1>2, RunningType
<1>4. held[s] \subseteq held'[s]
    BY <1>1 DEF LocksGrow
<1>5. /\ tx[s].step \in StepsOf(tx[s].kind)
      /\ LosersOwned(s)
      /\ RowKnown(s)
      /\ tx[s].kind = "flags" => tx[s].from = tx[s].to
      /\ tx'[s].kind = tx[s].kind
      /\ tx'[s].mail = tx[s].mail
      /\ tx'[s].to = tx[s].to
      /\ tx'[s].seen = tx[s].seen
    BY <1>1, <1>2 DEF Sound, Goes
<1>6. /\ tx'[s].kind = "flags" => tx'[s].from = tx'[s].to
      /\ SourceOwned(s)'
      /\ tx[s].step # "target" /\ tx'[s].next = tx[s].next /\ tx'[s].high = tx[s].high
                => TargetOwned(s)'
      /\ tx'[s].rows = tx[s].rows => Losers(tx[s])' = Losers(tx[s])
    BY <1>1, <1>2, <1>4, StatementKeeps
<1>7. SUFFICES /\ tx'[s].step \in StepsOf(tx[s].kind)
               /\ TargetOwned(s)'
               /\ LosersOwned(s)'
               /\ RowKnown(s)'
    BY <1>5, <1>6 DEF Sound
<1>8. CASE LockTarget(s)
    <2>1. /\ tx'[s].step = IF tx[s].kind = "http" THEN "find" ELSE "read"
          /\ tx'[s].next = nextUID[tx[s].to] /\ tx'[s].high = highestModSeq[tx[s].to]
          /\ tx[s].step = "target"
        BY <1>1, <1>8, LockTargetType DEF LockTarget, At
    <2>2. {FolderLock(tx[s].to)} \in SUBSET Locks
        BY <1>3, LocksType
    <2>3. FolderLock(tx[s].to) \in held'[s]
        BY <1>1, <1>8, <2>2, LockType DEF LockTarget
    <2>4. TargetOwned(s)'
        BY <1>1, <1>5, <2>1, <2>3 DEF TargetOwned, tables
    <2> QED
        BY <1>3, <1>5, <2>1, <2>4 DEF StepsOf, AllKinds, LosersOwned, RowKnown
<1>9. CASE ReadRow(s)
    <2>1. /\ tx'[s].step \in {"commit", "row", "insert"}
          /\ tx'[s].step = "row" => tx[s].kind = "flags"
          /\ tx'[s].step = "insert" => tx[s].kind # "flags"
          /\ tx'[s].next = tx[s].next
          /\ tx'[s].high = tx[s].high
          /\ tx'[s].old = uid[tx[s].from][tx[s].mail]
          /\ tx'[s].rows # {} => uid[tx[s].from][tx[s].mail] # 0
        BY <1>1, <1>9, ReadRowType
    <2>2. tx[s].step = "read"
        BY <1>9 DEF ReadRow, At
    <2>3. tx[s].kind \in {"move", "copy", "flags"}
        BY <1>3, <1>5, <2>2 DEF StepsOf, AllKinds
    <2>4. RowKnown(s)'
        BY <1>1, <1>3, <1>5, <2>1 DEF RowKnown, GivenSound
    <2>5. LosersOwned(s)'
        BY <1>5, <2>3 DEF LosersOwned
    <2> QED
        BY <1>6, <2>1, <2>2, <2>3, <2>4, <2>5 DEF StepsOf
<1>10. CASE InsertRow(s) \/ LockRow(s) \/ LockEmail(s)
    <2> DEFINE step == CASE tx[s].kind = "move" /\ tx[s].step = "insert" -> "row"
                         [] tx[s].kind = "move" /\ tx[s].step = "row" -> "email"
                         [] OTHER -> "commit"
    <2>1. GoTo(s, step) /\ tx[s].step \in {"insert", "row", "email"} /\ step \in Steps
        BY <1>10 DEF InsertRow, LockRow, LockEmail, At, Steps
    <2>2. /\ tx'[s].step = step
          /\ tx'[s].next = tx[s].next /\ tx'[s].high = tx[s].high
          /\ tx'[s].old = tx[s].old /\ tx'[s].rows = tx[s].rows
        BY <1>1, <1>2, <2>1, GoToType
    <2>3. step \in StepsOf(tx[s].kind)
        BY <1>3, <1>5, <2>1 DEF StepsOf, AllKinds
    <2> HIDE DEF step
    <2>4. TargetOwned(s)'
        BY <1>6, <2>1, <2>2
    <2>5. LosersOwned(s)'
        <3>1. tx[s].kind \in {"http", "purge"} => tx[s].step \in {"insert", "email"}
            BY <1>5, <2>1 DEF StepsOf
        <3> QED
            BY <1>4, <1>5, <1>6, <2>2, <3>1 DEF LosersOwned
    <2>6. RowKnown(s)'
        <3>1. tx[s].kind = "flags" => tx[s].step = "row"
            BY <1>5, <2>1 DEF StepsOf
        <3> QED
            BY <1>1, <1>5, <2>2, <3>1 DEF RowKnown
    <2> QED
        BY <2>2, <2>3, <2>4, <2>5, <2>6
<1>11. CASE FindRows(s) \/ LockRows(s)
    <2>1. /\ tx'[s].step = IF tx[s].step = "find" THEN "rows" ELSE "losses"
          /\ tx'[s].next = tx[s].next /\ tx'[s].high = tx[s].high
          /\ tx[s].step \in {"find", "rows"}
        BY <1>1, <1>11, FindRowsType, LockRowsType DEF FindRows, LockRows, At
    <2> QED
        BY <1>3, <1>5, <1>6, <2>1 DEF StepsOf, AllKinds, LosersOwned, RowKnown
<1>12. CASE LockLosers(s)
    <2> DEFINE step == CASE tx[s].kind = "purge" -> "email"
                         [] tx[s].kind # "purge" /\ tx[s].to \in tx[s].rows -> "commit"
                         [] OTHER -> "insert"
    <2>1. GoTo(s, step) /\ tx[s].step = "losses" /\ step \in Steps
        BY <1>12 DEF LockLosers, At, Steps
    <2>2. /\ tx'[s].step = step
          /\ tx'[s].next = tx[s].next /\ tx'[s].high = tx[s].high
          /\ tx'[s].rows = tx[s].rows
        BY <1>1, <1>2, <2>1, GoToType
    <2>3. step \in StepsOf(tx[s].kind) /\ tx[s].kind # "flags"
        BY <1>3, <1>5, <2>1 DEF StepsOf, AllKinds
    <2> HIDE DEF step
    <2>4. {FolderLock(f) : f \in Losers(tx[s])} \in SUBSET Locks
        BY <1>1, <1>2, <1>3, LosersType, RowLocksType
    <2>5. {FolderLock(f) : f \in Losers(tx[s])} \subseteq held'[s]
        BY <1>1, <1>12, <2>4, LockType DEF LockLosers
    <2>6. LosersOwned(s)'
        BY <1>6, <2>2, <2>5 DEF LosersOwned
    <2>7. RowKnown(s)'
        BY <1>5, <2>3 DEF RowKnown
    <2> QED
        BY <1>6, <2>1, <2>2, <2>3, <2>6, <2>7
<1> QED
    BY <1>8, <1>9, <1>10, <1>11, <1>12 DEF Execute

\* A step of the model: an arrival or a commit, which change tables, or one that
\* leaves them alone.
LEMMA StepKinds ==
    ASSUME IInv, Next
    PROVE  \/ \E e \in Emails, f \in Folders : Arrive(e, f)
           \/ \E s \in Sessions : Commit(s)
           \/ \E s \in Sessions :
                /\ Ask(s) \/ Execute(s) \/ Abort(s)
                /\ UNCHANGED <<tables, history>>
<1> IInv => TypeOK
    BY DEF IInv
<1> QED
    BY AskType, ExecuteType DEF Next, Abort

LEMMA InvInit == Init => IInv
<1> SUFFICES ASSUME Init
             PROVE  IInv
    OBVIOUS
<1>1. GivenSound /\ UidsNameOneMessage
    BY DEF Init, GivenSound, UidsNameOneMessage
<1>2. \A s \in Sessions : Sound(s)
    BY DEF Init, Sound
<1> QED
    BY <1>1, <1>2, TypeInit DEF IInv

LEMMA InvStep == IInv /\ [Next]_vars => IInv'
<1> SUFFICES ASSUME IInv, [Next]_vars
             PROVE  IInv'
    OBVIOUS
<1>0. TypeOK
    BY DEF IInv
<1>1. ASSUME NEW e \in Emails, NEW f \in Folders, Arrive(e, f)
      PROVE  IInv'
    <2>1. TableStep(e) /\ \A s \in Sessions : KeptFor(s)
        BY <1>1, ArriveStep
    <2>2. GivenSound' /\ UidsNameOneMessage' /\ given \subseteq given'
        BY <2>1, TableStepSound
    <2>3. held' = held /\ tx' = tx /\ copied' = copied /\ late' = late
        BY <1>1 DEF Arrive
    <2>4. column' \in [Emails -> Folders \cup {"unstored", "gone"}]
        BY <1>0, <1>1 DEF Arrive, TypeOK
    <2>5. TypeOK'
        BY <1>0, <2>1, <2>3, <2>4 DEF TypeOK, TableStep
    <2>6. \A s \in Sessions : Sound(s)'
        BY <2>1, <2>2, <2>3, OthersSound
    <2> QED
        BY <2>2, <2>5, <2>6 DEF IInv
<1>2. ASSUME NEW s \in Sessions, Commit(s)
      PROVE  IInv'
    <2>1. /\ tx[s].mail \in Emails /\ TableStep(tx[s].mail) /\ OwnCounters(s) /\ End(s)
          /\ column' \in [Emails -> Folders \cup {"unstored", "gone"}]
          /\ copied' \subseteq Emails
          /\ late' \subseteq Folders \X Emails
        BY <1>2, CommitType
    <2>2. GivenSound' /\ UidsNameOneMessage' /\ given \subseteq given'
        BY <2>1, TableStepSound
    <2>3. /\ held' \in [Sessions -> SUBSET Locks]
          /\ \A r, t \in Sessions : r # t => held'[r] \cap held'[t] = {}
          /\ tx' \in [Sessions -> Transactions \cup {NoTx}]
          /\ tx'[s] = NoTx
          /\ \A t \in Sessions \ {s} : held'[t] = held[t] /\ tx'[t] = tx[t]
        BY <1>0, <2>1, EndType
    <2>4. TypeOK'
        BY <2>1, <2>3 DEF TypeOK, TableStep
    <2>5. Sound(s)'
        BY <2>3 DEF Sound
    <2>6. \A t \in Sessions \ {s} : Sound(t)'
        BY <1>0, <2>1, <2>2, <2>3, OwnCountersKept, OthersSound
    <2> QED
        BY <2>2, <2>4, <2>5, <2>6 DEF IInv
<1>3. ASSUME NEW s \in Sessions, Ask(s) \/ Execute(s)
      PROVE  IInv'
    <2>1. /\ UNCHANGED <<tables, history>>
          /\ LocksGrow
          /\ tx' \in [Sessions -> Transactions \cup {NoTx}]
          /\ \A r \in Sessions \ {s} : tx'[r] = tx[r]
        BY <1>0, <1>3, AskType, ExecuteType DEF Begun, Goes
    <2>2. TypeOK'
        BY <1>0, <2>1 DEF TypeOK, LocksGrow, tables, history
    <2>3. Sound(s)'
        BY <1>3, AskSound, ExecuteSound
    <2>4. \A t \in Sessions \ {s} : Sound(t)'
        BY <2>1, OthersSound DEF KeptFor, LocksGrow, tables, history
    <2>5. GivenSound' /\ UidsNameOneMessage'
        BY <2>1 DEF IInv, GivenSound, UidsNameOneMessage, tables, history
    <2> QED
        BY <2>2, <2>3, <2>4, <2>5 DEF IInv
<1>4. ASSUME NEW s \in Sessions, Abort(s)
      PROVE  IInv'
    <2>1. UNCHANGED <<tables, history>> /\ End(s)
        BY <1>4 DEF Abort
    <2>2. /\ held' \in [Sessions -> SUBSET Locks]
          /\ \A r, t \in Sessions : r # t => held'[r] \cap held'[t] = {}
          /\ tx' \in [Sessions -> Transactions \cup {NoTx}]
          /\ tx'[s] = NoTx
          /\ \A t \in Sessions \ {s} : held'[t] = held[t] /\ tx'[t] = tx[t]
        BY <1>0, <2>1, EndType
    <2>3. TypeOK'
        BY <1>0, <2>1, <2>2 DEF TypeOK, tables, history
    <2>4. Sound(s)'
        BY <2>2 DEF Sound
    <2>5. \A t \in Sessions \ {s} : Sound(t)'
        BY <2>1, <2>2, OthersSound DEF KeptFor, tables, history
    <2>6. GivenSound' /\ UidsNameOneMessage'
        BY <2>1 DEF IInv, GivenSound, UidsNameOneMessage, tables, history
    <2> QED
        BY <2>3, <2>4, <2>5, <2>6 DEF IInv
<1>5. CASE UNCHANGED vars
    <2>1. UNCHANGED <<tables, held, tx, history>>
        BY <1>5 DEF vars
    <2>2. TypeOK'
        BY <1>0, <2>1 DEF TypeOK, tables, history
    <2>3. \A t \in Sessions : Sound(t)'
        BY <2>1, OthersSound DEF KeptFor, tables, history
    <2>4. GivenSound' /\ UidsNameOneMessage'
        BY <2>1 DEF IInv, GivenSound, UidsNameOneMessage, tables, history
    <2> QED
        BY <2>2, <2>3, <2>4 DEF IInv
<1> QED
    BY <1>1, <1>2, <1>3, <1>4, <1>5 DEF Next

LEMMA InvCorrect == Spec => []IInv
BY InvInit, InvStep, PTL DEF Spec

-----------------------------------------------------------------------------

\* The tables, the locks and what each transaction has read keep their types,
\* and no row is locked by two sessions.
THEOREM TypeCorrect == Spec => []TypeOK
<1>1. IInv => TypeOK
    BY DEF IInv
<1> QED
    BY <1>1, InvCorrect, PTL

\* A UID of a folder names one message, however many transactions read the
\* folder's next UID and write it back.
THEOREM UidsNameOneMessageAlways == Spec => []UidsNameOneMessage
<1>1. IInv => UidsNameOneMessage
    BY DEF IInv
<1> QED
    BY <1>1, InvCorrect, PTL

\* No transaction adds, changes or removes a row behind the mod-sequences that
\* clients have seen, although it writes back counters it read statements before.
THEOREM ChangesAreVisibleAlways == Spec => ChangesAreVisible
<1> DEFINE Seen(f, e) ==
        <<uid[f][e], modSeq[f][e]>>' # <<uid[f][e], modSeq[f][e]>> =>
            \/ uid'[f][e] = 0 /\ ~Stored(e)'
            \/ uid'[f][e] = 0 /\ highestModSeq'[f] > highestModSeq[f]
            \/ modSeq'[f][e] \in highestModSeq[f] + 1 .. highestModSeq'[f]
           Visible ==
        \A f \in Folders :
            /\ highestModSeq'[f] >= highestModSeq[f]
            /\ \A e \in Emails : Seen(f, e)
<1>1. ASSUME NEW d \in Emails, TableStep(d)
      PROVE  Visible
    <2> SUFFICES ASSUME NEW f \in Folders
                 PROVE  /\ highestModSeq'[f] >= highestModSeq[f]
                        /\ \A e \in Emails : Seen(f, e)
        OBVIOUS
    <2>1. highestModSeq'[f] >= highestModSeq[f]
        BY <1>1 DEF TableStep
    <2>2. ASSUME NEW e \in Emails \ {d} PROVE Seen(f, e)
        <3>1. uid'[f][e] = uid[f][e] /\ modSeq'[f][e] = modSeq[f][e]
            BY <1>1 DEF TableStep
        <3> QED
            BY <3>1
    <2>3. Seen(f, d)
        <3>1. RowStep(f, d)
            BY <1>1 DEF TableStep
        <3> QED
            BY <3>1 DEF RowStep, Stored
    <2> QED
        BY <2>1, <2>2, <2>3
<1>2. ASSUME TypeOK, UNCHANGED tables
      PROVE  Visible
    BY <1>2 DEF TypeOK, tables
<1>3. IInv /\ [Next]_vars => [Visible]_vars
    <2> SUFFICES ASSUME IInv, Next
                 PROVE  Visible
        OBVIOUS
    <2>1. TypeOK
        BY DEF IInv
    <2> QED
        BY <1>1, <1>2, <2>1, StepKinds, ArriveStep, CommitType
<1> QED
    BY <1>3, InvCorrect, PTL DEF Spec, ChangesAreVisible
-----------------------------------------------------------------------------
(* The two sides of the folder model agree.  What a transaction may rely on  *)
(* is that a row it has locked and the column of a message it has locked     *)
(* stay, and that no row of a stored message leaves a folder that it has     *)
(* locked.                                                                   *)

\* The row and message locks that a transaction has taken by its statement.
LocksTaken(s) ==
    LET t == tx[s] IN
    /\ t.kind = "http" => EmailLock(t.mail) \in held[s]
    /\ t.kind \in {"http", "purge"} /\ t.step \in {"losses", "insert", "email", "commit"}
        => \A f \in t.rows : RowLock(f, t.mail) \in held[s]
    /\ t.kind = "move" /\ t.rows # {} =>
        /\ t.step \in {"email", "commit"} => RowLock(t.from, t.mail) \in held[s]
        /\ t.step = "commit" => EmailLock(t.mail) \in held[s]
    /\ t.kind = "purge" /\ t.step = "commit" => EmailLock(t.mail) \in held[s]

\* A move, copy or flag change that found the row has it still, unless the
\* message has been purged: the row cannot leave a folder that is locked.
RowStays(s) ==
    LET t == tx[s] IN
    t.kind \in {"move", "copy", "flags"} /\ t.step \notin {"target", "read"} /\ t.rows # {} =>
        /\ t.old # 0
        /\ Stored(t.mail) => uid[t.from][t.mail] # 0

\* An HTTP move owns the message: it is stored, the folder that shows it is
\* among those it has found, and the rows it has locked are there.
HttpOwns(s) ==
    LET t == tx[s] IN
    t.kind = "http" =>
        /\ Stored(t.mail)
        /\ t.step \in {"rows", "losses", "insert", "commit"} => column[t.mail] \in t.rows
        /\ t.step \in {"losses", "insert", "commit"} => \A f \in t.rows : uid[f][t.mail] # 0

Filed(s) ==
    tx[s] # NoTx =>
        /\ column[tx[s].mail] # "unstored"
        /\ LocksTaken(s)
        /\ RowStays(s)
        /\ HttpOwns(s)

\* Only messages that have arrived have had rows.
GivenArrived ==
    \A f \in Folders, u \in Nat, e \in Emails : <<f, u, e>> \in given => column[e] # "unstored"

StoredAgree ==
    \A e \in Emails :
        Stored(e) => column[e] \in FoldersOf(e) /\ (e \in copied \/ FoldersOf(e) = {column[e]})

SidesInv ==
    /\ IInv
    /\ \A s \in Sessions : Filed(s)
    /\ GivenArrived
    /\ StoredAgree

\* What a commit does to the rows and the column of the message it is about.
Files(s, e) ==
    /\ \A d \in Emails \ {e} : column'[d] = column[d]
    /\ copied \subseteq copied'
    /\ column'[e] # "unstored"
    /\ column'[e] \in Folders => column[e] \in Folders
    /\ column'[e] # column[e] => EmailLock(e) \in held[s]
    /\ \A f \in Folders : uid[f][e] # 0 /\ uid'[f][e] = 0 =>
            /\ RowLock(f, e) \in held[s]
            /\ column'[e] \in Folders => FolderLock(f) \in held[s]
    /\ column'[e] \in Folders =>
            /\ uid'[column'[e]][e] # 0
            /\ e \in copied' \/ \A f \in Folders : uid'[f][e] # 0 => f = column'[e]

\* What a step leaves to a session that takes no part in it.
Leaves(t) ==
    \A e \in Emails : column[e] # "unstored" =>
        /\ column'[e] # "unstored"
        /\ column'[e] \in Folders => column[e] \in Folders
        /\ EmailLock(e) \in held[t] => column'[e] = column[e]
        /\ \A f \in Folders : uid[f][e] # 0 /\ uid'[f][e] = 0 =>
                /\ RowLock(f, e) \notin held[t]
                /\ column'[e] \in Folders => FolderLock(f) \notin held[t]

LEMMA SidesRead ==
    ASSUME StoredAgree, NEW e \in Emails, column[e] \in Folders
    PROVE  /\ uid[column[e]][e] # 0
           /\ column[e] \in FoldersOf(e)
           /\ e \in copied \/ \A f \in Folders : uid[f][e] # 0 => f = column[e]
BY DEF StoredAgree, Stored, FoldersOf

\* The commits, one by one.
LEMMA CommitMoveFiles ==
    ASSUME SidesInv, NEW s \in Sessions, CommitMove(s)
    PROVE  Files(s, tx[s].mail)
<1> DEFINE t == tx[s]
           u == [UidsOf(t.mail) EXCEPT ![t.to] = t.next, ![t.from] = 0]
           m == [ModSeqsOf(t.mail) EXCEPT ![t.to] = t.high + 1, ![t.from] = 0]
<1>1. /\ TypeOK /\ t # NoTx /\ t.kind = "move" /\ t.step = "commit" /\ Sound(s)
      /\ Filed(s) /\ StoredAgree /\ GivenSound
    BY DEF CommitMove, Committing, At, SidesInv, IInv
<1>2. /\ t.mail \in Emails /\ t.from \in Folders /\ t.to \in Folders
      /\ t.next \in Nat /\ t.high \in Nat
    BY <1>1, RunningType
<1>3. /\ FolderLock(t.from) \in held[s]
      /\ t.next = nextUID[t.to] /\ t.from # t.to
    BY <1>1 DEF Sound, TargetOwned, SourceOwned
<1>4. t.next # 0
    BY <1>1, <1>2, <1>3 DEF GivenSound
<1>5. /\ column[t.mail] # "unstored"
      /\ t.rows # {} => /\ RowLock(t.from, t.mail) \in held[s]
                        /\ EmailLock(t.mail) \in held[s]
                        /\ Stored(t.mail) => uid[t.from][t.mail] # 0
    BY <1>1 DEF Filed, LocksTaken, RowStays
<1>6. /\ t.rows = {} => UNCHANGED <<uid, column>>
      /\ t.rows # {} => /\ SetRows(t.mail, u, m)
                        /\ column' = IF Stored(t.mail) THEN [column EXCEPT ![t.mail] = t.to]
                                     ELSE column
      /\ copied' = copied
    BY DEF CommitMove
<1>7. column \in [Emails -> Folders \cup {"unstored", "gone"}]
    BY <1>1 DEF TypeOK
<1>8. CASE t.rows = {}
    BY <1>1, <1>2, <1>5, <1>6, <1>8, SidesRead DEF Files
<1>9. CASE t.rows # {}
    <2>1. u \in [Folders -> Nat] /\ m \in [Folders -> Nat]
        <3>1. UidsOf(t.mail) \in [Folders -> Nat] /\ ModSeqsOf(t.mail) \in [Folders -> Nat]
            BY <1>1, <1>2 DEF UidsOf, ModSeqsOf, TypeOK
        <3> QED
            BY <3>1, <1>2
    <2>2. /\ u[t.to] = t.next /\ u[t.from] = 0
          /\ \A f \in Folders \ {t.to, t.from} : u[f] = uid[f][t.mail]
        BY <1>2, <1>3 DEF UidsOf
    <2> HIDE DEF u, m
    <2>3. \A f \in Folders : uid'[f][t.mail] = u[f]
        BY <1>1, <1>2, <1>6, <1>9, <2>1, SetRowsType
    <2>4. /\ \A d \in Emails \ {t.mail} : column'[d] = column[d]
          /\ Stored(t.mail) => column'[t.mail] = t.to
          /\ ~Stored(t.mail) => column'[t.mail] = column[t.mail]
        BY <1>2, <1>6, <1>7, <1>9
    <2> HIDE DEF t
    <2>5. column'[t.mail] \in Folders => column[t.mail] \in Folders
        BY <2>4 DEF Stored
    <2>6. \A f \in Folders : uid[f][t.mail] # 0 /\ uid'[f][t.mail] = 0 => f = t.from
        BY <1>2, <1>3, <1>4, <2>2, <2>3
    <2>7. column'[t.mail] # "unstored"
        BY <1>2, <1>5, <2>4, RowsAssumption
    <2>8. ASSUME Stored(t.mail)
          PROVE  /\ uid'[t.to][t.mail] # 0
                 /\ t.mail \in copied \/ \A f \in Folders : uid'[f][t.mail] # 0 => f = t.to
        <3>1. t.mail \in copied \/ \A f \in Folders : uid[f][t.mail] # 0 => f = column[t.mail]
            BY <1>1, <1>2, <2>8, SidesRead DEF Stored
        <3>2. t.mail \in copied \/ \A f \in Folders : uid[f][t.mail] # 0 => f = t.from
            BY <1>2, <1>5, <1>9, <2>8, <3>1
        <3> QED
            BY <1>2, <1>3, <1>4, <2>2, <2>3, <3>2
    <2> QED
        BY <1>3, <1>5, <1>6, <1>9, <2>4, <2>5, <2>6, <2>7, <2>8 DEF Files, Stored, t
<1> QED
    BY <1>8, <1>9 DEF t

LEMMA CommitCopyFiles ==
    ASSUME SidesInv, NEW s \in Sessions, CommitCopy(s)
    PROVE  Files(s, tx[s].mail)
<1> DEFINE t == tx[s]
           u == [UidsOf(t.mail) EXCEPT ![t.to] = t.next]
           m == [ModSeqsOf(t.mail) EXCEPT ![t.to] = t.high + 1]
<1>1. /\ TypeOK /\ t # NoTx /\ t.kind = "copy" /\ t.step = "commit" /\ Sound(s)
      /\ Filed(s) /\ StoredAgree /\ GivenSound
    BY DEF CommitCopy, Committing, At, SidesInv, IInv
<1>2. t.mail \in Emails /\ t.to \in Folders /\ t.next \in Nat /\ t.high \in Nat
    BY <1>1, RunningType
<1>3. t.next # 0
    BY <1>1, <1>2 DEF GivenSound, Sound, TargetOwned
<1>4. /\ column' = column /\ copied' = copied \cup {t.mail}
      /\ t.rows = {} => uid' = uid
      /\ t.rows # {} => SetRows(t.mail, u, m)
    BY DEF CommitCopy
<1>5. \A f \in Folders : uid[f][t.mail] # 0 => uid'[f][t.mail] # 0
    <2>1. CASE t.rows = {}
        BY <2>1, <1>4
    <2>2. CASE t.rows # {}
        <3>1. u \in [Folders -> Nat] /\ m \in [Folders -> Nat]
            <4>1. UidsOf(t.mail) \in [Folders -> Nat] /\ ModSeqsOf(t.mail) \in [Folders -> Nat]
                BY <1>1, <1>2 DEF UidsOf, ModSeqsOf, TypeOK
            <4> QED
                BY <4>1, <1>2
        <3>2. u[t.to] = t.next /\ \A f \in Folders \ {t.to} : u[f] = uid[f][t.mail]
            BY <1>2 DEF UidsOf
        <3> HIDE DEF u, m
        <3>3. \A f \in Folders : uid'[f][t.mail] = u[f]
            BY <1>1, <1>2, <1>4, <2>2, <3>1, SetRowsType
        <3> QED
            BY <1>3, <3>2, <3>3
    <2> QED
        BY <2>1, <2>2
<1>6. column[t.mail] # "unstored"
    BY <1>1 DEF Filed
<1> HIDE DEF u, m
<1> QED
    BY <1>1, <1>2, <1>4, <1>5, <1>6, SidesRead DEF Files

LEMMA CommitFlagsFiles ==
    ASSUME SidesInv, NEW s \in Sessions, CommitFlags(s)
    PROVE  Files(s, tx[s].mail)
<1> DEFINE t == tx[s]
           u == [UidsOf(t.mail) EXCEPT ![t.to] = t.old]
           m == [ModSeqsOf(t.mail) EXCEPT ![t.to] = t.high + 1]
<1>1. /\ TypeOK /\ t # NoTx /\ t.kind = "flags" /\ t.step = "commit" /\ Sound(s)
      /\ Filed(s) /\ StoredAgree
    BY DEF CommitFlags, Committing, At, SidesInv, IInv
<1>2. t.mail \in Emails /\ t.to \in Folders /\ t.old \in Nat /\ t.high \in Nat
    BY <1>1, RunningType
<1>3. /\ column[t.mail] # "unstored"
      /\ t.rows # {} => t.old # 0 /\ (Stored(t.mail) => uid[t.to][t.mail] # 0)
    BY <1>1 DEF Filed, RowStays, Sound
<1>4. /\ column' = column /\ copied' = copied
      /\ t.rows = {} => uid' = uid
      /\ t.rows # {} => SetRows(t.mail, u, m)
    BY DEF CommitFlags
<1>5. \A f \in Folders : /\ uid[f][t.mail] # 0 => uid'[f][t.mail] # 0
                         /\ Stored(t.mail) /\ uid'[f][t.mail] # 0 => uid[f][t.mail] # 0
    <2>1. CASE t.rows = {}
        BY <2>1, <1>4
    <2>2. CASE t.rows # {}
        <3>1. u \in [Folders -> Nat] /\ m \in [Folders -> Nat]
            <4>1. UidsOf(t.mail) \in [Folders -> Nat] /\ ModSeqsOf(t.mail) \in [Folders -> Nat]
                BY <1>1, <1>2 DEF UidsOf, ModSeqsOf, TypeOK
            <4> QED
                BY <4>1, <1>2
        <3>2. u[t.to] = t.old /\ \A f \in Folders \ {t.to} : u[f] = uid[f][t.mail]
            BY <1>2 DEF UidsOf
        <3> HIDE DEF u, m
        <3>3. \A f \in Folders : uid'[f][t.mail] = u[f]
            BY <1>1, <1>2, <1>4, <2>2, <3>1, SetRowsType
        <3> QED
            BY <1>3, <2>2, <3>2, <3>3
    <2> QED
        BY <2>1, <2>2
<1> HIDE DEF u, m
<1> QED
    BY <1>1, <1>2, <1>3, <1>4, <1>5, SidesRead DEF Files, Stored

LEMMA CommitHttpFiles ==
    ASSUME SidesInv, NEW s \in Sessions, CommitHttp(s)
    PROVE  Files(s, tx[s].mail)
<1> DEFINE t == tx[s]
           lost == Losers(t)
           gained == {t.to} \ t.rows
           u == [f \in Folders |-> IF f \in lost THEN 0
                                   ELSE IF f \in gained THEN t.next ELSE uid[f][t.mail]]
           m == [f \in Folders |-> IF f \in lost THEN 0
                                   ELSE IF f \in gained THEN t.high + 1 ELSE modSeq[f][t.mail]]
<1>1. /\ TypeOK /\ t # NoTx /\ t.kind = "http" /\ t.step = "commit" /\ Sound(s)
      /\ Filed(s) /\ StoredAgree /\ GivenSound
    BY DEF CommitHttp, Committing, At, SidesInv, IInv
<1>2. /\ t.mail \in Emails /\ t.to \in Folders /\ t.rows \in SUBSET Folders
      /\ t.next \in Nat /\ t.high \in Nat
    BY <1>1, RunningType
<1>3. \A f \in lost : FolderLock(f) \in held[s]
    BY <1>1 DEF Sound, LosersOwned
<1>4. t.next # 0
    BY <1>1, <1>2 DEF GivenSound, Sound, TargetOwned
<1>5. lost = t.rows \ {t.to}
    BY <1>1 DEF Losers
<1>6. /\ EmailLock(t.mail) \in held[s]
      /\ \A f \in t.rows : RowLock(f, t.mail) \in held[s] /\ uid[f][t.mail] # 0
      /\ column[t.mail] \in Folders /\ column[t.mail] \in t.rows
    BY <1>1 DEF Filed, LocksTaken, HttpOwns, Stored
<1>7. /\ SetRows(t.mail, u, m)
      /\ column' = [column EXCEPT ![t.mail] = t.to]
      /\ copied' = copied
    BY DEF CommitHttp
<1>8. /\ column' \in [Emails -> Folders \cup {"unstored", "gone"}]
      /\ column'[t.mail] = t.to
      /\ \A d \in Emails \ {t.mail} : column'[d] = column[d]
    BY <1>1, <1>2, <1>7 DEF TypeOK
<1>9. /\ u \in [Folders -> Nat] /\ m \in [Folders -> Nat]
      /\ \A f \in Folders :
            /\ f \in lost => u[f] = 0
            /\ f \in gained \ lost => u[f] = t.next
            /\ f \notin gained \cup lost => u[f] = uid[f][t.mail]
    BY <1>1, <1>2 DEF TypeOK
<1> HIDE DEF u, m, lost, t
<1>10. \A f \in Folders : uid'[f][t.mail] = u[f]
    BY <1>1, <1>2, <1>7, <1>9, SetRowsType
<1>11. \A f \in Folders : uid[f][t.mail] # 0 /\ uid'[f][t.mail] = 0 => f \in lost
    BY <1>4, <1>9, <1>10
<1>12. uid'[t.to][t.mail] # 0
    BY <1>2, <1>4, <1>5, <1>6, <1>9, <1>10
<1>13. t.mail \in copied \/ \A f \in Folders : uid'[f][t.mail] # 0 => f = t.to
    <2>1. t.mail \in copied \/ \A f \in Folders : uid[f][t.mail] # 0 => f = column[t.mail]
        BY <1>1, <1>2, <1>6, SidesRead
    <2> QED
        BY <1>5, <1>6, <1>9, <1>10, <2>1
<1>14. column'[t.mail] # "unstored"
    BY <1>2, <1>8, RowsAssumption
<1>15. \A f \in Folders : uid[f][t.mail] # 0 /\ uid'[f][t.mail] = 0 =>
            RowLock(f, t.mail) \in held[s] /\ FolderLock(f) \in held[s]
    BY <1>3, <1>5, <1>6, <1>11
<1> HIDE DEF gained
<1>16. Files(s, t.mail)
    BY <1>6, <1>7, <1>8, <1>12, <1>13, <1>14, <1>15 DEF Files
<1> QED
    BY <1>16 DEF t

LEMMA CommitPurgeFiles ==
    ASSUME SidesInv, NEW s \in Sessions, CommitPurge(s)
    PROVE  Files(s, tx[s].mail)
<1> DEFINE t == tx[s]
           u == [f \in Folders |-> IF f \in t.rows THEN 0 ELSE uid[f][t.mail]]
           m == [f \in Folders |-> IF f \in t.rows THEN 0 ELSE modSeq[f][t.mail]]
<1>1. /\ TypeOK /\ t # NoTx /\ t.kind = "purge" /\ t.step = "commit" /\ Filed(s)
    BY DEF CommitPurge, Committing, At, SidesInv, IInv
<1>2. t.mail \in Emails
    BY <1>1, RunningType
<1>3. /\ EmailLock(t.mail) \in held[s]
      /\ \A f \in t.rows : RowLock(f, t.mail) \in held[s]
    BY <1>1 DEF Filed, LocksTaken
<1>4. /\ SetRows(t.mail, u, m)
      /\ column' = [column EXCEPT ![t.mail] = "gone"]
      /\ copied' = copied
    BY DEF CommitPurge
<1>5. /\ column'[t.mail] = "gone" /\ "gone" \notin Folders
      /\ \A d \in Emails \ {t.mail} : column'[d] = column[d]
    BY <1>1, <1>2, <1>4, RowsAssumption DEF TypeOK
<1>6. /\ u \in [Folders -> Nat] /\ m \in [Folders -> Nat]
      /\ \A f \in Folders \ t.rows : u[f] = uid[f][t.mail]
    BY <1>1, <1>2 DEF TypeOK
<1> HIDE DEF u, m
<1>7. \A f \in Folders : uid'[f][t.mail] = u[f]
    BY <1>1, <1>2, <1>4, <1>6, SetRowsType
<1> QED
    BY <1>3, <1>4, <1>5, <1>6, <1>7 DEF Files

LEMMA CommitFiles ==
    ASSUME SidesInv, NEW s \in Sessions, Commit(s)
    PROVE  Files(s, tx[s].mail)
BY CommitMoveFiles, CommitCopyFiles, CommitFlagsFiles, CommitHttpFiles, CommitPurgeFiles DEF Commit

\* Locks are exclusive, so a commit leaves alone what others rely on.
LEMMA CommitLeaves ==
    ASSUME TypeOK, NEW s \in Sessions, NEW e \in Emails, TableStep(e), Files(s, e),
           NEW t \in Sessions \ {s}
    PROVE  Leaves(t)
<1>1. held[s] \cap held[t] = {}
    BY DEF TypeOK
<1>2. \A d \in Emails \ {e} : column'[d] = column[d] /\ \A f \in Folders : uid'[f][d] = uid[f][d]
    BY DEF Files, TableStep
<1> SUFFICES ASSUME NEW d \in Emails, column[d] # "unstored"
             PROVE  /\ column'[d] # "unstored"
                    /\ column'[d] \in Folders => column[d] \in Folders
                    /\ EmailLock(d) \in held[t] => column'[d] = column[d]
                    /\ \A f \in Folders : uid[f][d] # 0 /\ uid'[f][d] = 0 =>
                            /\ RowLock(f, d) \notin held[t]
                            /\ column'[d] \in Folders => FolderLock(f) \notin held[t]
    BY DEF Leaves
<1>3. CASE d = e
    BY <1>1, <1>3 DEF Files
<1>4. CASE d # e
    BY <1>2, <1>4
<1> QED
    BY <1>3, <1>4

LEMMA CommitSides ==
    ASSUME SidesInv, NEW s \in Sessions, NEW e \in Emails, TableStep(e), Files(s, e)
    PROVE  StoredAgree' /\ GivenArrived'
<1>1. /\ \A d \in Emails \ {e} : column'[d] = column[d] /\ \A f \in Folders : uid'[f][d] = uid[f][d]
      /\ copied \subseteq copied'
      /\ given' = given \cup {<<f, uid'[f][e], e>> : f \in {g \in Folders : uid'[g][e] # 0}}
      /\ column'[e] # "unstored"
    BY DEF Files, TableStep
<1>2. StoredAgree'
    <2> SUFFICES ASSUME NEW d \in Emails, Stored(d)'
                 PROVE  /\ column'[d] \in FoldersOf(d)'
                        /\ d \in copied' \/ FoldersOf(d)' = {column'[d]}
        BY DEF StoredAgree
    <2>1. /\ uid'[column'[d]][d] # 0
          /\ d \in copied' \/ \A f \in Folders : uid'[f][d] # 0 => f = column'[d]
        <3>1. CASE d = e
            BY <3>1 DEF Files, Stored
        <3>2. CASE d # e
            <4>1. StoredAgree /\ column[d] \in Folders /\ column'[d] = column[d]
                BY <1>1, <3>2 DEF SidesInv, Stored
            <4> QED
                BY <1>1, <3>2, <4>1, SidesRead
        <3> QED
            BY <3>1, <3>2
    <2> QED
        BY <2>1 DEF FoldersOf, Stored
<1>3. GivenArrived'
    <2> SUFFICES ASSUME NEW f \in Folders, NEW n \in Nat, NEW d \in Emails, <<f, n, d>> \in given'
                 PROVE  column'[d] # "unstored"
        BY DEF GivenArrived
    <2>1. d = e \/ <<f, n, d>> \in given
        BY <1>1
    <2> QED
        BY <1>1, <2>1 DEF SidesInv, GivenArrived
<1> QED
    BY <1>2, <1>3

LEMMA ArriveSides ==
    ASSUME SidesInv, NEW e \in Emails, NEW f \in Folders, Arrive(e, f)
    PROVE  /\ StoredAgree' /\ GivenArrived'
           /\ \A t \in Sessions : Leaves(t)
<1>1. /\ column[e] = "unstored"
      /\ column' = [column EXCEPT ![e] = f]
      /\ uid' = [uid EXCEPT ![f][e] = nextUID[f]]
      /\ given' = given \cup {<<f, nextUID[f], e>>}
      /\ copied' = copied
    BY DEF Arrive
<1>2. /\ column \in [Emails -> Folders \cup {"unstored", "gone"}]
      /\ uid \in [Folders -> [Emails -> Nat]]
      /\ nextUID[f] # 0
      /\ IInv /\ GivenSound /\ GivenArrived /\ StoredAgree
    BY DEF SidesInv, IInv, TypeOK, GivenSound
<1>3. /\ column'[e] = f
      /\ uid'[f][e] = nextUID[f]
      /\ \A g \in Folders \ {f} : uid'[g][e] = uid[g][e]
      /\ \A d \in Emails \ {e} : column'[d] = column[d] /\ \A g \in Folders : uid'[g][d] = uid[g][d]
    BY <1>1, <1>2
<1>4. \A g \in Folders : uid[g][e] = 0
    BY <1>1, <1>2 DEF GivenSound, GivenArrived
<1>5. StoredAgree'
    <2> SUFFICES ASSUME NEW d \in Emails, Stored(d)'
                 PROVE  /\ column'[d] \in FoldersOf(d)'
                        /\ d \in copied' \/ FoldersOf(d)' = {column'[d]}
        BY DEF StoredAgree
    <2>1. /\ uid'[column'[d]][d] # 0
          /\ d \in copied' \/ \A g \in Folders : uid'[g][d] # 0 => g = column'[d]
        <3>1. CASE d = e
            BY <1>2, <1>3, <1>4, <3>1
        <3>2. CASE d # e
            <4>1. column[d] \in Folders /\ column'[d] = column[d]
                BY <1>3, <3>2 DEF Stored
            <4> QED
                BY <1>1, <1>2, <1>3, <3>2, <4>1, SidesRead
        <3> QED
            BY <3>1, <3>2
    <2> QED
        BY <2>1 DEF FoldersOf, Stored
<1>6. GivenArrived'
    <2> SUFFICES ASSUME NEW g \in Folders, NEW n \in Nat, NEW d \in Emails, <<g, n, d>> \in given'
                 PROVE  column'[d] # "unstored"
        BY DEF GivenArrived
    <2>1. d = e \/ <<g, n, d>> \in given
        BY <1>1
    <2> QED
        BY <1>2, <1>3, <2>1, RowsAssumption DEF GivenArrived
<1>7. \A t \in Sessions : Leaves(t)
    BY <1>1, <1>3 DEF Leaves
<1> QED
    BY <1>5, <1>6, <1>7

\* A transaction keeps what it relies on while others take their steps.
LEMMA OthersFiled ==
    ASSUME SidesInv, NEW t \in Sessions, tx'[t] = tx[t], held[t] \subseteq held'[t], Leaves(t)
    PROVE  Filed(t)'
<1> SUFFICES ASSUME tx[t] # NoTx
             PROVE  Filed(t)'
    BY DEF Filed
<1>1. /\ Filed(t) /\ Sound(t) /\ tx[t] \in Transactions
      /\ tx[t].mail \in Emails /\ tx[t].from \in Folders /\ tx[t].rows \in SUBSET Folders
    BY RunningType DEF SidesInv, IInv
<1>2. /\ column[tx[t].mail] # "unstored"
      /\ column'[tx[t].mail] # "unstored"
      /\ column'[tx[t].mail] \in Folders => column[tx[t].mail] \in Folders
      /\ EmailLock(tx[t].mail) \in held[t] => column'[tx[t].mail] = column[tx[t].mail]
      /\ \A f \in Folders : uid[f][tx[t].mail] # 0 /\ uid'[f][tx[t].mail] = 0 =>
            /\ RowLock(f, tx[t].mail) \notin held[t]
            /\ column'[tx[t].mail] \in Folders => FolderLock(f) \notin held[t]
    BY <1>1 DEF Filed, Leaves
<1>3. LocksTaken(t)'
    BY <1>1 DEF Filed, LocksTaken
<1>4. RowStays(t)'
    <2> SUFFICES ASSUME /\ tx[t].kind \in {"move", "copy", "flags"}
                        /\ tx[t].step \notin {"target", "read"} /\ tx[t].rows # {}
                 PROVE  /\ tx[t].old # 0
                        /\ column'[tx[t].mail] \in Folders => uid'[tx[t].from][tx[t].mail] # 0
        BY DEF RowStays, Stored
    <2>1. FolderLock(tx[t].from) \in held[t]
        BY <1>1 DEF Sound, SourceOwned, TargetOwned
    <2>2. /\ tx[t].old # 0
          /\ column[tx[t].mail] \in Folders => uid[tx[t].from][tx[t].mail] # 0
        BY <1>1 DEF Filed, RowStays, Stored
    <2> QED
        BY <1>1, <1>2, <2>1, <2>2
<1>5. HttpOwns(t)'
    <2> SUFFICES ASSUME tx[t].kind = "http"
                 PROVE  HttpOwns(t)'
        BY DEF HttpOwns
    <2>1. /\ EmailLock(tx[t].mail) \in held[t]
          /\ tx[t].step \in {"losses", "insert", "commit"} =>
                \A f \in tx[t].rows : RowLock(f, tx[t].mail) \in held[t]
        BY <1>1 DEF Filed, LocksTaken
    <2>2. /\ column[tx[t].mail] \in Folders
          /\ tx[t].step \in {"rows", "losses", "insert", "commit"} => column[tx[t].mail] \in tx[t].rows
          /\ tx[t].step \in {"losses", "insert", "commit"} =>
                \A f \in tx[t].rows : uid[f][tx[t].mail] # 0
        BY <1>1 DEF Filed, HttpOwns, Stored
    <2> QED
        BY <1>1, <1>2, <2>1, <2>2 DEF HttpOwns, Stored
<1> QED
    BY <1>2, <1>3, <1>4, <1>5 DEF Filed

\* A transaction that begins.
LEMMA AskFiled ==
    ASSUME SidesInv, NEW s \in Sessions, Ask(s)
    PROVE  Filed(s)'
<1>0. TypeOK /\ GivenArrived
    BY DEF SidesInv, IInv
<1>1. ASSUME NEW e \in Emails, NEW f \in Folders, Shown(f, e)
      PROVE  column[e] # "unstored"
    BY <1>0, <1>1 DEF Shown, GivenArrived, TypeOK
<1>2. ASSUME NEW e \in Emails, Stored(e)
      PROVE  column[e] # "unstored"
    BY <1>2, RowsAssumption DEF Stored
<1>3. ASSUME NEW e \in Emails, NEW from \in Folders, NEW to \in Folders,
             NEW kind \in {"move", "copy"}, BeginTransfer(s, kind, e, from, to)
      PROVE  Filed(s)'
    <2> DEFINE t == [New(kind, "target", e, from, to) EXCEPT !.source = highestModSeq[from]]
    <2>1. /\ t \in Transactions /\ t.kind = kind /\ t.step = "target" /\ t.mail = e /\ t.rows = {}
        BY <1>0 DEF New, Transactions, AllKinds, Steps, TypeOK
    <2>2. Begin(s, t) /\ Shown(from, e) /\ column' = column
        BY <1>3 DEF BeginTransfer, tables
    <2> HIDE DEF t
    <2>3. tx'[s] = t
        BY <1>0, <2>1, <2>2, BeginType
    <2> QED
        BY <1>1, <2>1, <2>2, <2>3 DEF Filed, LocksTaken, RowStays, HttpOwns
<1>4. ASSUME NEW e \in Emails, NEW f \in Folders, BeginFlags(s, e, f)
      PROVE  Filed(s)'
    <2> DEFINE t == New("flags", "target", e, f, f)
    <2>1. /\ t \in Transactions /\ t.kind = "flags" /\ t.step = "target" /\ t.mail = e
        BY NewType DEF New, AllKinds, Steps
    <2>2. Begin(s, t) /\ Shown(f, e) /\ column' = column
        BY <1>4 DEF BeginFlags, tables
    <2> HIDE DEF t
    <2>3. tx'[s] = t
        BY <1>0, <2>1, <2>2, BeginType
    <2> QED
        BY <1>1, <2>1, <2>2, <2>3 DEF Filed, LocksTaken, RowStays, HttpOwns
<1>5. ASSUME NEW e \in Emails, NEW f \in Folders, BeginHttp(s, e, f)
      PROVE  Filed(s)'
    <2> DEFINE t == New("http", "target", e, f, f)
    <2>1. /\ t \in Transactions /\ t.kind = "http" /\ t.step = "target" /\ t.mail = e
        BY NewType DEF New, AllKinds, Steps
    <2>2. Begin(s, t) /\ Stored(e) /\ column' = column /\ Lock(s, {EmailLock(e)})
        BY <1>5 DEF BeginHttp, tables
    <2> HIDE DEF t
    <2>3. tx'[s] = t
        BY <1>0, <2>1, <2>2, BeginType
    <2>4. {EmailLock(e)} \in SUBSET Locks
        BY LocksType
    <2>5. EmailLock(e) \in held'[s]
        BY <1>0, <2>2, <2>4, LockType
    <2> QED
        BY <1>2, <2>1, <2>2, <2>3, <2>5 DEF Filed, LocksTaken, RowStays, HttpOwns, Stored
<1>6. ASSUME NEW e \in Emails, BeginPurge(s, e)
      PROVE  Filed(s)'
    <2> DEFINE step == IF FoldersOf(e) = {} THEN "email" ELSE "find"
               n == New("purge", step, e, column[e], column[e])
               t == [n EXCEPT !.seen = FoldersOf(e)]
    <2>1. n \in Transactions
        BY <1>6, NewType DEF BeginPurge, Stored, AllKinds, Steps
    <2>2. t \in Transactions
        BY <2>1 DEF Transactions, FoldersOf
    <2>3. t.kind = "purge" /\ t.step \in {"email", "find"} /\ t.mail = e /\ t.rows = {}
        BY DEF New
    <2>4. Begin(s, t) /\ Stored(e) /\ column' = column
        BY <1>6 DEF BeginPurge, tables
    <2> HIDE DEF t, n, step
    <2>5. tx'[s] = t
        BY <1>0, <2>2, <2>4, BeginType
    <2> QED
        BY <1>2, <2>3, <2>4, <2>5 DEF Filed, LocksTaken, RowStays, HttpOwns
<1> QED
    BY <1>3, <1>4, <1>5, <1>6 DEF Ask

\* A transaction after one of its statements.
LEMMA ExecuteFiled ==
    ASSUME SidesInv, NEW s \in Sessions, Execute(s)
    PROVE  Filed(s)'
<1>1. /\ TypeOK /\ Sound(s) /\ Filed(s) /\ StoredAgree
      /\ LocksGrow /\ Goes(s) /\ uid' = uid /\ column' = column
    BY ExecuteType DEF SidesInv, IInv, tables
<1>2. tx[s] # NoTx
    BY DEF Execute, LockTarget, ReadRow, InsertRow, LockRow, LockEmail, FindRows, LockRows,
           LockLosers, At
<1>3. /\ tx[s].kind \in AllKinds /\ tx[s].mail \in Emails /\ tx[s].rows \in SUBSET Folders
      /\ tx[s].from \in Folders /\ tx[s].to \in Folders
    BY <1>1, <1>2, RunningType
<1>4. /\ held[s] \subseteq held'[s]
      /\ tx[s].step \in StepsOf(tx[s].kind)
      /\ tx'[s].kind = tx[s].kind
      /\ tx'[s].mail = tx[s].mail
      /\ tx'[s].from = tx[s].from
      /\ column[tx[s].mail] # "unstored"
      /\ LocksTaken(s) /\ RowStays(s) /\ HttpOwns(s)
    BY <1>1, <1>2 DEF LocksGrow, Sound, Goes, Filed
<1> SUFFICES LocksTaken(s)' /\ RowStays(s)' /\ HttpOwns(s)'
    BY <1>1, <1>4 DEF Filed
<1>5. CASE LockTarget(s)
    <2>1. tx'[s].step = IF tx[s].kind = "http" THEN "find" ELSE "read"
        BY <1>1, <1>5, LockTargetType
    <2> QED
        BY <1>1, <1>4, <2>1 DEF LocksTaken, RowStays, HttpOwns, Stored
<1>6. CASE ReadRow(s)
    <2>1. /\ tx'[s].step \in {"commit", "row", "insert"}
          /\ tx'[s].old = uid[tx[s].from][tx[s].mail]
          /\ tx'[s].rows # {} => uid[tx[s].from][tx[s].mail] # 0 /\ tx'[s].step # "commit"
        BY <1>1, <1>6, ReadRowType
    <2>2. tx[s].kind \in {"move", "copy", "flags"}
        BY <1>3, <1>4, <1>6 DEF ReadRow, At, StepsOf, AllKinds
    <2> QED
        BY <1>1, <1>4, <2>1, <2>2 DEF LocksTaken, RowStays, HttpOwns
<1>7. CASE InsertRow(s) \/ LockRow(s) \/ LockEmail(s)
    <2> DEFINE step == CASE tx[s].kind = "move" /\ tx[s].step = "insert" -> "row"
                         [] tx[s].kind = "move" /\ tx[s].step = "row" -> "email"
                         [] OTHER -> "commit"
    <2>1. /\ GoTo(s, step) /\ tx[s].step \in {"insert", "row", "email"} /\ step \in Steps
          /\ tx[s].step = "row" => Lock(s, {RowLock(tx[s].from, tx[s].mail)})
          /\ tx[s].step = "email" => Lock(s, {EmailLock(tx[s].mail)})
        BY <1>7 DEF InsertRow, LockRow, LockEmail, At, Steps
    <2>2. /\ tx'[s].step = step
          /\ tx'[s].old = tx[s].old /\ tx'[s].rows = tx[s].rows
        BY <1>1, <1>2, <2>1, GoToType
    <2>3. /\ {RowLock(tx[s].from, tx[s].mail)} \in SUBSET Locks
          /\ {EmailLock(tx[s].mail)} \in SUBSET Locks
        BY <1>3, LocksType
    <2>4. /\ tx[s].step = "row" => RowLock(tx[s].from, tx[s].mail) \in held'[s]
          /\ tx[s].step = "email" => EmailLock(tx[s].mail) \in held'[s]
        BY <1>1, <2>1, <2>3, LockType
    <2>5. /\ tx[s].kind = "http" => tx[s].step = "insert"
          /\ tx[s].kind = "purge" => tx[s].step = "email"
          /\ step \in {"row", "email", "commit"}
          /\ step \in {"row", "email"} => tx[s].kind = "move"
          /\ step = "email" => tx[s].step = "row"
          /\ step = "commit" /\ tx[s].kind = "move" => tx[s].step = "email"
        BY <1>4, <2>1 DEF StepsOf
    <2> HIDE DEF step
    <2>6. LocksTaken(s)'
        BY <1>4, <2>1, <2>2, <2>4, <2>5 DEF LocksTaken
    <2>7. RowStays(s)'
        BY <1>1, <1>4, <2>1, <2>2 DEF RowStays, Stored
    <2>8. HttpOwns(s)'
        BY <1>1, <1>4, <2>2, <2>5 DEF HttpOwns, Stored
    <2> QED
        BY <2>6, <2>7, <2>8
<1>8. CASE FindRows(s)
    <2>1. tx'[s].step = "rows" /\ tx'[s].rows = FoldersOf(tx[s].mail)
        BY <1>1, <1>8, FindRowsType
    <2>2. tx[s].kind \in {"http", "purge"}
        BY <1>3, <1>4, <1>8 DEF FindRows, At, StepsOf, AllKinds
    <2>3. tx[s].kind = "http" => column[tx[s].mail] \in FoldersOf(tx[s].mail)
        BY <1>1, <1>3, <1>4, SidesRead DEF HttpOwns, Stored
    <2>4. LocksTaken(s)' /\ RowStays(s)'
        BY <1>4, <2>1, <2>2 DEF LocksTaken, RowStays
    <2>5. HttpOwns(s)'
        BY <1>1, <1>4, <2>1, <2>3 DEF HttpOwns, Stored
    <2> QED
        BY <2>4, <2>5
<1>9. CASE LockRows(s)
    <2>1. tx'[s].step = "losses" /\ tx'[s].rows = tx[s].rows \cap FoldersOf(tx[s].mail)
        BY <1>1, <1>9, LockRowsType
    <2>2. tx[s].kind \in {"http", "purge"} /\ tx[s].step = "rows"
        BY <1>3, <1>4, <1>9 DEF LockRows, At, StepsOf, AllKinds
    <2>3. tx[s].kind = "http" => column[tx[s].mail] \in FoldersOf(tx[s].mail)
        BY <1>1, <1>3, <1>4, SidesRead DEF HttpOwns, Stored
    <2>4. \A f \in tx'[s].rows : uid[f][tx[s].mail] # 0
        BY <2>1 DEF FoldersOf
    <2>5. \A f \in tx'[s].rows : RowLock(f, tx[s].mail) \in held'[s]
        <3> DEFINE X == {RowLock(f, tx[s].mail) : f \in tx[s].rows}
        <3>1. X \in SUBSET Locks
            BY <1>3, RowLocksType
        <3>2. Lock(s, X)
            BY <1>9 DEF LockRows
        <3> HIDE DEF X
        <3>3. X \subseteq held'[s]
            BY <1>1, <3>1, <3>2, LockType
        <3> QED
            BY <2>1, <3>3 DEF X
    <2>6. LocksTaken(s)' /\ RowStays(s)'
        BY <1>4, <2>1, <2>2, <2>5 DEF LocksTaken, RowStays
    <2>7. tx[s].kind = "http" => column[tx[s].mail] \in tx'[s].rows
        BY <1>4, <2>1, <2>2, <2>3 DEF HttpOwns
    <2>8. HttpOwns(s)'
        BY <1>1, <1>4, <2>1, <2>4, <2>7 DEF HttpOwns, Stored
    <2> QED
        BY <2>6, <2>8
<1>10. CASE LockLosers(s)
    <2> DEFINE step == CASE tx[s].kind = "purge" -> "email"
                         [] tx[s].kind # "purge" /\ tx[s].to \in tx[s].rows -> "commit"
                         [] OTHER -> "insert"
    <2>1. GoTo(s, step) /\ tx[s].step = "losses" /\ step \in Steps
        BY <1>10 DEF LockLosers, At, Steps
    <2>2. tx'[s].step = step /\ tx'[s].rows = tx[s].rows
        BY <1>1, <1>2, <2>1, GoToType
    <2>3. /\ tx[s].kind = "purge" => step = "email"
          /\ tx[s].kind = "http" => step \in {"insert", "commit"}
        OBVIOUS
    <2>4. tx[s].kind \in {"http", "purge"}
        BY <1>3, <1>4, <2>1 DEF StepsOf, AllKinds
    <2> HIDE DEF step
    <2> QED
        BY <1>1, <1>4, <2>1, <2>2, <2>3, <2>4 DEF LocksTaken, RowStays, HttpOwns, Stored
<1> QED
    BY <1>5, <1>6, <1>7, <1>8, <1>9, <1>10 DEF Execute

LEMMA SidesInit == Init => SidesInv
<1> SUFFICES ASSUME Init
             PROVE  SidesInv
    OBVIOUS
<1>1. GivenArrived /\ \A s \in Sessions : Filed(s)
    BY DEF Init, GivenArrived, Filed
<1>2. StoredAgree
    BY RowsAssumption DEF Init, StoredAgree, Stored
<1> QED
    BY <1>1, <1>2, InvInit DEF SidesInv

LEMMA SidesStep == SidesInv /\ [Next]_vars => SidesInv'
<1> SUFFICES ASSUME SidesInv, [Next]_vars
             PROVE  SidesInv'
    OBVIOUS
<1>0. IInv /\ TypeOK /\ IInv'
    BY InvStep DEF SidesInv, IInv
<1>1. ASSUME NEW e \in Emails, NEW f \in Folders, Arrive(e, f)
      PROVE  SidesInv'
    <2>1. held' = held /\ tx' = tx
        BY <1>1 DEF Arrive
    <2> QED
        BY <1>0, <1>1, <2>1, ArriveSides, OthersFiled DEF SidesInv
<1>2. ASSUME NEW s \in Sessions, Commit(s)
      PROVE  SidesInv'
    <2>1. /\ tx[s].mail \in Emails /\ TableStep(tx[s].mail) /\ Files(s, tx[s].mail) /\ End(s)
        BY <1>0, <1>2, CommitType, CommitFiles
    <2>2. tx'[s] = NoTx /\ \A t \in Sessions \ {s} : held'[t] = held[t] /\ tx'[t] = tx[t]
        BY <1>0, <2>1, EndType
    <2>3. \A t \in Sessions \ {s} : Filed(t)'
        BY <1>0, <2>1, <2>2, CommitLeaves, OthersFiled
    <2>4. Filed(s)'
        BY <2>2 DEF Filed
    <2> QED
        BY <1>0, <2>1, <2>3, <2>4, CommitSides DEF SidesInv
<1>3. ASSUME UNCHANGED <<tables, history>>
      PROVE  StoredAgree' /\ GivenArrived' /\ \A t \in Sessions : Leaves(t)
    <2>1. StoredAgree /\ GivenArrived
        BY DEF SidesInv
    <2> QED
        BY <1>3, <2>1 DEF tables, history, StoredAgree, GivenArrived, Leaves, Stored, FoldersOf
<1>4. ASSUME NEW s \in Sessions, Ask(s) \/ Execute(s)
      PROVE  SidesInv'
    <2>1. /\ UNCHANGED <<tables, history>>
          /\ \A t \in Sessions : held[t] \subseteq held'[t]
          /\ \A t \in Sessions \ {s} : tx'[t] = tx[t]
        BY <1>0, <1>4, AskType, ExecuteType DEF Begun, Goes, LocksGrow
    <2>2. \A t \in Sessions \ {s} : Filed(t)'
        BY <1>3, <2>1, OthersFiled
    <2>3. Filed(s)'
        BY <1>4, AskFiled, ExecuteFiled
    <2> QED
        BY <1>0, <1>3, <2>1, <2>2, <2>3 DEF SidesInv
<1>5. ASSUME NEW s \in Sessions, Abort(s)
      PROVE  SidesInv'
    <2>1. UNCHANGED <<tables, history>> /\ End(s)
        BY <1>5 DEF Abort
    <2>2. tx'[s] = NoTx /\ \A t \in Sessions \ {s} : held'[t] = held[t] /\ tx'[t] = tx[t]
        BY <1>0, <2>1, EndType
    <2>3. \A t \in Sessions \ {s} : Filed(t)'
        BY <1>3, <2>1, <2>2, OthersFiled
    <2>4. Filed(s)'
        BY <2>2 DEF Filed
    <2> QED
        BY <1>0, <1>3, <2>1, <2>3, <2>4 DEF SidesInv
<1>6. CASE UNCHANGED vars
    <2>1. UNCHANGED <<tables, held, tx, history>>
        BY <1>6 DEF vars
    <2> QED
        BY <1>0, <1>3, <2>1, OthersFiled DEF SidesInv
<1> QED
    BY <1>1, <1>2, <1>4, <1>5, <1>6 DEF Next

-----------------------------------------------------------------------------
(* The rows of a message that was deleted for good are those that came after *)
(* the DELETE of its purge had looked for rows.                              *)

GoneAgree ==
    \A e \in Emails : column[e] = "gone" => \A f \in FoldersOf(e) : <<f, e>> \in late

\* A purge that has looked knows the rows of its message, but for late ones.
Watched(s) ==
    tx[s] # NoTx /\ tx[s].kind = "purge" /\ tx[s].step # "find" =>
        \A f \in FoldersOf(tx[s].mail) : f \in tx[s].rows \/ <<f, tx[s].mail>> \in late

LateInv ==
    /\ SidesInv
    /\ GoneAgree
    /\ \A s \in Sessions : Watched(s)

\* What the commit of a purge leaves.
LEMMA CommitPurgeLeaves ==
    ASSUME TypeOK, NEW s \in Sessions, CommitPurge(s)
    PROVE  \A f \in tx[s].rows : uid'[f][tx[s].mail] = 0
<1> DEFINE u == [f \in Folders |-> IF f \in tx[s].rows THEN 0 ELSE uid[f][tx[s].mail]]
           m == [f \in Folders |-> IF f \in tx[s].rows THEN 0 ELSE modSeq[f][tx[s].mail]]
<1>1. tx[s] # NoTx /\ SetRows(tx[s].mail, u, m)
    BY DEF CommitPurge, Committing, At
<1>2. tx[s].mail \in Emails /\ tx[s].rows \in SUBSET Folders
    BY <1>1, RunningType
<1>3. u \in [Folders -> Nat] /\ m \in [Folders -> Nat] /\ \A f \in tx[s].rows : u[f] = 0
    BY <1>2 DEF TypeOK
<1> HIDE DEF u, m
<1> QED
    BY <1>1, <1>2, <1>3, SetRowsType

\* Only a purge deletes the message.
LEMMA OnlyPurgeDeletes ==
    ASSUME SidesInv, NEW s \in Sessions, Commit(s), column'[tx[s].mail] = "gone"
    PROVE  column[tx[s].mail] = "gone" \/ CommitPurge(s)
<1>1. TypeOK /\ tx[s] # NoTx
    BY DEF SidesInv, IInv, Commit, CommitMove, CommitCopy, CommitFlags, CommitHttp, CommitPurge,
           Committing, At
<1>2. tx[s].mail \in Emails /\ tx[s].to \in Folders
    BY <1>1, RunningType
<1>3. column \in [Emails -> Folders \cup {"unstored", "gone"}] /\ "gone" \notin Folders
    BY <1>1, RowsAssumption DEF TypeOK
<1>4. CASE CommitMove(s)
    BY <1>2, <1>3, <1>4 DEF CommitMove
<1>5. CASE CommitCopy(s) \/ CommitFlags(s)
    BY <1>5 DEF CommitCopy, CommitFlags
<1>6. CASE CommitHttp(s)
    BY <1>2, <1>3, <1>6 DEF CommitHttp
<1> QED
    BY <1>4, <1>5, <1>6 DEF Commit

LEMMA CommitWatched ==
    ASSUME LateInv, NEW s \in Sessions, Commit(s)
    PROVE  GoneAgree' /\ \A t \in Sessions : Watched(t)'
<1>1. /\ SidesInv /\ IInv /\ TypeOK /\ GoneAgree
      /\ \A t \in Sessions : Watched(t)
    BY DEF LateInv, SidesInv, IInv
<1>e. PICK e \in Emails : e = tx[s].mail
    BY <1>1, CommitType
<1>2. /\ TableStep(e) /\ Files(s, e) /\ LateStep(e)
      /\ tx'[s] = NoTx /\ \A t \in Sessions \ {s} : tx'[t] = tx[t]
    BY <1>1, <1>e, CommitType, CommitFiles, CommitLate, EndType
<1>3. /\ \A d \in Emails \ {e} : column'[d] = column[d] /\ FoldersOf(d)' = FoldersOf(d)
      /\ late \subseteq late'
    BY <1>2 DEF TableStep, Files, LateStep, FoldersOf
<1>4. \A f \in FoldersOf(e)' :
        uid[f][e] = 0 /\ PurgeHasLooked(e) => <<f, e>> \in late'
    BY <1>2 DEF LateStep, FoldersOf
<1>5. ASSUME column'[e] = "gone", NEW f \in FoldersOf(e)'
      PROVE  <<f, e>> \in late'
    <2>1. f \in Folders /\ uid'[f][e] # 0
        BY <1>5 DEF FoldersOf
    <2>2. CASE column[e] = "gone"
        <3>1. PurgeHasLooked(e)
            BY <2>2, RowsAssumption DEF PurgeHasLooked, Stored
        <3>2. uid[f][e] # 0 => <<f, e>> \in late
            BY <1>1, <1>2, <2>1, <2>2 DEF GoneAgree, FoldersOf
        <3> QED
            BY <1>3, <1>4, <1>5, <3>1, <3>2
    <2>3. CASE CommitPurge(s)
        <3>1. tx[s] # NoTx /\ tx[s].kind = "purge" /\ tx[s].step = "commit"
            BY <2>3 DEF CommitPurge, Committing, At
        <3>2. PurgeHasLooked(e)
            BY <1>e, <3>1 DEF PurgeHasLooked
        <3>3. f \notin tx[s].rows
            BY <1>1, <1>e, <2>1, <2>3, CommitPurgeLeaves
        <3>4. uid[f][e] # 0 => <<f, e>> \in late
            BY <1>1, <1>e, <2>1, <3>1, <3>3 DEF Watched, FoldersOf
        <3> QED
            BY <1>3, <1>4, <1>5, <3>2, <3>4
    <2> QED
        BY <1>1, <1>e, <1>5, <2>2, <2>3, OnlyPurgeDeletes
<1>6. GoneAgree'
    <2> SUFFICES ASSUME NEW d \in Emails, column'[d] = "gone", NEW f \in FoldersOf(d)'
                 PROVE  <<f, d>> \in late'
        BY DEF GoneAgree
    <2>1. CASE d = e
        BY <1>5, <2>1
    <2>2. CASE d # e
        BY <1>1, <1>3, <2>2 DEF GoneAgree
    <2> QED
        BY <2>1, <2>2
<1>7. ASSUME NEW t \in Sessions \ {s}
      PROVE  Watched(t)'
    <2> SUFFICES ASSUME tx[t] # NoTx, tx[t].kind = "purge", tx[t].step # "find",
                        NEW f \in Folders, uid'[f][tx[t].mail] # 0
                 PROVE  f \in tx[t].rows \/ <<f, tx[t].mail>> \in late'
        BY <1>2 DEF Watched, FoldersOf
    <2>1. tx[t].mail \in Emails
        BY <1>1, RunningType
    <2>2. \A g \in FoldersOf(tx[t].mail) : g \in tx[t].rows \/ <<g, tx[t].mail>> \in late
        BY <1>1 DEF Watched
    <2>3. CASE tx[t].mail # e
        <3>1. uid[f][tx[t].mail] # 0
            BY <1>2, <2>1, <2>3 DEF TableStep
        <3> QED
            BY <1>3, <2>2, <3>1 DEF FoldersOf
    <2>4. CASE tx[t].mail = e
        <3>1. PurgeHasLooked(e)
            BY <2>4 DEF PurgeHasLooked
        <3>2. f \in FoldersOf(e)' /\ (uid[f][e] # 0 => f \in FoldersOf(e))
            BY <2>4 DEF FoldersOf
        <3> QED
            BY <1>3, <1>4, <2>2, <2>4, <3>1, <3>2
    <2> QED
        BY <2>3, <2>4
<1>8. Watched(s)'
    BY <1>2 DEF Watched
<1> QED
    BY <1>6, <1>7, <1>8

\* A purge that begins or runs its next statement.
LEMMA BeginPurgeWatched ==
    ASSUME TypeOK, NEW s \in Sessions, NEW e \in Emails, BeginPurge(s, e)
    PROVE  Watched(s)'
<1> DEFINE step == IF FoldersOf(e) = {} THEN "email" ELSE "find"
           n == New("purge", step, e, column[e], column[e])
           t == [n EXCEPT !.seen = FoldersOf(e)]
<1>1. n \in Transactions
    BY NewType DEF BeginPurge, Stored, AllKinds, Steps
<1>2. t \in Transactions
    BY <1>1 DEF Transactions, FoldersOf
<1>3. t.mail = e /\ (t.step # "find" => FoldersOf(e) = {})
    BY DEF New
<1>4. Begin(s, t) /\ uid' = uid
    BY DEF BeginPurge, tables
<1> HIDE DEF t, n, step
<1>5. tx'[s] = t
    BY <1>2, <1>4, BeginType
<1> QED
    BY <1>3, <1>4, <1>5 DEF Watched, FoldersOf

LEMMA AskWatched ==
    ASSUME TypeOK, NEW s \in Sessions, Ask(s)
    PROVE  Watched(s)'
<1>1. ASSUME NEW t \in Transactions, Begin(s, t), t.kind # "purge"
      PROVE  Watched(s)'
    BY <1>1, BeginType DEF Watched
<1>2. ASSUME NEW e \in Emails, NEW from \in Folders, NEW to \in Folders,
             NEW kind \in {"move", "copy"}, BeginTransfer(s, kind, e, from, to)
      PROVE  Watched(s)'
    <2> DEFINE t == [New(kind, "target", e, from, to) EXCEPT !.source = highestModSeq[from]]
    <2>1. t \in Transactions /\ t.kind # "purge"
        BY DEF New, Transactions, AllKinds, Steps, TypeOK
    <2>2. Begin(s, t)
        BY <1>2 DEF BeginTransfer
    <2> HIDE DEF t
    <2> QED
        BY <1>1, <2>1, <2>2
<1>3. ASSUME NEW e \in Emails, NEW f \in Folders, NEW kind \in {"flags", "http"},
             Begin(s, New(kind, "target", e, f, f))
      PROVE  Watched(s)'
    <2> DEFINE t == New(kind, "target", e, f, f)
    <2>1. t \in Transactions /\ t.kind # "purge"
        BY NewType DEF New, AllKinds, Steps
    <2> HIDE DEF t
    <2> QED
        BY <1>1, <1>3, <2>1 DEF t
<1> QED
    BY <1>2, <1>3, BeginPurgeWatched DEF Ask, BeginFlags, BeginHttp

LEMMA ExecuteWatched ==
    ASSUME LateInv, NEW s \in Sessions, Execute(s)
    PROVE  Watched(s)'
<1>1. /\ TypeOK /\ Sound(s) /\ Watched(s)
      /\ Goes(s) /\ uid' = uid /\ late' = late
    BY ExecuteType DEF LateInv, SidesInv, IInv, tables, history
<1>2. tx[s] # NoTx
    BY DEF Execute, LockTarget, ReadRow, InsertRow, LockRow, LockEmail, FindRows, LockRows,
           LockLosers, At
<1> SUFFICES ASSUME tx[s].kind = "purge"
             PROVE  \A f \in FoldersOf(tx[s].mail) :
                        f \in tx'[s].rows \/ <<f, tx[s].mail>> \in late
    BY <1>1 DEF Watched, Goes, FoldersOf
<1>3. tx[s].step \in {"find", "rows", "losses", "email", "commit"}
    BY <1>1, <1>2 DEF Sound, StepsOf
<1>4. CASE FindRows(s)
    BY <1>1, <1>4, FindRowsType
<1>5. CASE LockRows(s)
    <2>1. tx[s].step # "find"
        BY <1>5 DEF LockRows, At
    <2> QED
        BY <1>1, <1>2, <1>5, <2>1, LockRowsType DEF Watched
<1>6. ASSUME NEW step \in Steps, GoTo(s, step), tx[s].step # "find"
      PROVE  \A f \in FoldersOf(tx[s].mail) : f \in tx'[s].rows \/ <<f, tx[s].mail>> \in late
    BY <1>1, <1>2, <1>6, GoToType DEF Watched
<1>7. CASE LockEmail(s)
    BY <1>6, <1>7 DEF LockEmail, At, Steps
<1>8. CASE LockLosers(s)
    BY <1>6, <1>8 DEF LockLosers, At, Steps
<1> QED
    BY <1>3, <1>4, <1>5, <1>7, <1>8 DEF Execute, LockTarget, ReadRow, InsertRow, LockRow, At

LEMMA LateInit == Init => LateInv
<1> SUFFICES ASSUME Init
             PROVE  LateInv
    OBVIOUS
<1>1. GoneAgree /\ \A s \in Sessions : Watched(s)
    BY DEF Init, GoneAgree, Watched, FoldersOf
<1> QED
    BY <1>1, SidesInit DEF LateInv

LEMMA LateInvStep == LateInv /\ [Next]_vars => LateInv'
<1> SUFFICES ASSUME LateInv, [Next]_vars
             PROVE  LateInv'
    OBVIOUS
<1>0. /\ SidesInv /\ IInv /\ TypeOK /\ GoneAgree /\ SidesInv'
      /\ \A s \in Sessions : Watched(s) /\ Filed(s)
    BY SidesStep DEF LateInv, SidesInv, IInv
<1>1. ASSUME NEW e \in Emails, NEW f \in Folders, Arrive(e, f)
      PROVE  LateInv'
    <2>1. /\ tx' = tx /\ late' = late
          /\ column[e] = "unstored" /\ column' = [column EXCEPT ![e] = f]
        BY <1>1 DEF Arrive
    <2>2. /\ column'[e] # "gone"
          /\ \A d \in Emails \ {e} : column'[d] = column[d] /\ FoldersOf(d)' = FoldersOf(d)
        <3>1. column \in [Emails -> Folders \cup {"unstored", "gone"}]
            BY <1>0 DEF TypeOK
        <3> QED
            BY <1>0, <1>1, <2>1, <3>1, ArriveStep, RowsAssumption DEF TableStep, FoldersOf
    <2>3. GoneAgree'
        BY <1>0, <2>1, <2>2 DEF GoneAgree
    <2>4. ASSUME NEW s \in Sessions
          PROVE  Watched(s)'
        <3>1. tx[s] # NoTx => tx[s].mail \in Emails \ {e}
            BY <1>0, <2>1, RunningType DEF Filed
        <3> QED
            BY <1>0, <2>1, <2>2, <3>1 DEF Watched
    <2> QED
        BY <1>0, <2>3, <2>4 DEF LateInv
<1>2. ASSUME NEW s \in Sessions, Commit(s)
      PROVE  LateInv'
    BY <1>0, <1>2, CommitWatched DEF LateInv
<1>3. ASSUME UNCHANGED <<tables, history>>
      PROVE  /\ GoneAgree'
             /\ \A t \in Sessions : tx'[t] = tx[t] => Watched(t)'
    <2>1. uid' = uid /\ column' = column /\ late' = late
        BY <1>3 DEF tables, history
    <2> QED
        BY <1>0, <2>1 DEF GoneAgree, Watched, FoldersOf
<1>4. ASSUME NEW s \in Sessions, Ask(s) \/ Execute(s) \/ Abort(s)
      PROVE  LateInv'
    <2>1. /\ UNCHANGED <<tables, history>>
          /\ \A t \in Sessions \ {s} : tx'[t] = tx[t]
        BY <1>0, <1>4, AskType, ExecuteType, EndType DEF Begun, Goes, Abort
    <2>2. Watched(s)'
        <3>1. CASE Abort(s)
            <4>1. tx'[s] = NoTx
                BY <1>0, <3>1, EndType DEF Abort
            <4> QED
                BY <4>1 DEF Watched
        <3> QED
            BY <1>0, <1>4, <3>1, AskWatched, ExecuteWatched
    <2> QED
        BY <1>0, <1>3, <2>1, <2>2 DEF LateInv
<1>5. CASE UNCHANGED vars
    <2>1. UNCHANGED <<tables, held, tx, history>>
        BY <1>5 DEF vars
    <2> QED
        BY <1>0, <1>3, <2>1 DEF LateInv
<1> QED
    BY <1>1, <1>2, <1>4, <1>5 DEF Next

LEMMA LateCorrect == Spec => []LateInv
BY LateInit, LateInvStep, PTL DEF Spec

\* Whatever transactions move, copy, flag or purge a message at the same time,
\* protocol clients find a stored message where the HTTP app shows it, and in no
\* other folder unless it was copied there; and of a message that was deleted
\* for good no row is left but those that came after the DELETE had looked.
THEOREM SidesAlwaysAgree == Spec => []SidesAgree
<1>1. LateInv => SidesAgree
    BY DEF LateInv, SidesInv, StoredAgree, GoneAgree, SidesAgree
<1> QED
    BY <1>1, LateCorrect, PTL
-----------------------------------------------------------------------------
(* Serializability.  What is needed beyond the above is that the rows a      *)
(* transaction has read in folders it has locked are those it finds when it  *)
(* commits, as long as its message is stored.                                *)

\* The row that a flag change has read is still as it was, and no row has come
\* where one is inserted.
Undisturbed(s) ==
    tx[s] # NoTx /\ tx[s].rows # {} /\ Stored(tx[s].mail) =>
        /\ tx[s].kind = "flags" /\ tx[s].step \in {"row", "commit"} =>
            uid[tx[s].to][tx[s].mail] = tx[s].old
        /\ \/ tx[s].kind = "move" /\ tx[s].step \in {"row", "email", "commit"}
           \/ tx[s].kind = "copy" /\ tx[s].step = "commit"
           => uid[tx[s].to][tx[s].mail] = 0

\* A row that is not there has no mod-sequence.
RowsWhole == \A f \in Folders, e \in Emails : uid[f][e] = 0 => modSeq[f][e] = 0

AtomicInv ==
    /\ SidesInv
    /\ RowsWhole
    /\ \A s \in Sessions : Undisturbed(s)

\* The messages that a transfer or flag change has found in its folder.
Taken(t) == IF t.rows = {} THEN {} ELSE {t.mail}

LEMMA TakenSize ==
    ASSUME NEW t
    PROVE  Cardinality(Taken(t)) = IF t.rows = {} THEN 0 ELSE 1
BY FS_EmptySet, FS_Singleton DEF Taken

\* The rows that each commit writes: what SetRows does, message by message.
LEMMA SetRowsWrites ==
    ASSUME TypeOK, NEW e \in Emails, NEW u, NEW m, SetRows(e, u, m)
    PROVE  \A f \in Folders, d \in Emails :
                /\ uid'[f][d] = IF d = e THEN u[f] ELSE uid[f][d]
                /\ modSeq'[f][d] = IF d = e THEN m[f] ELSE modSeq[f][d]
<1>1. /\ uid' = [f \in Folders |-> [uid[f] EXCEPT ![e] = u[f]]]
      /\ modSeq' = [f \in Folders |-> [modSeq[f] EXCEPT ![e] = m[f]]]
    BY DEF SetRows
<1>2. /\ uid \in [Folders -> [Emails -> Nat]]
      /\ modSeq \in [Folders -> [Emails -> Nat]]
    BY DEF TypeOK
<1> QED
    BY <1>1, <1>2

LEMMA MoveWrites ==
    ASSUME IInv, NEW s \in Sessions, CommitMove(s), NEW t, t = tx[s], NEW S, S = Taken(t)
    PROVE  /\ t.mail \in Emails /\ t.from \in Folders /\ t.to \in Folders /\ t.from # t.to
           /\ \A f \in Folders, d \in Emails :
                /\ uid'[f][d] = IF d \in S /\ f = t.from THEN 0
                                ELSE IF d \in S /\ f = t.to THEN nextUID[t.to]
                                ELSE uid[f][d]
                /\ modSeq'[f][d] = IF d \in S /\ f = t.from THEN 0
                                   ELSE IF d \in S /\ f = t.to THEN highestModSeq[t.to] + 1
                                   ELSE modSeq[f][d]
           /\ nextUID' = [nextUID EXCEPT ![t.to] = @ + Cardinality(S)]
           /\ highestModSeq' = [highestModSeq EXCEPT ![t.to] = @ + Cardinality(S),
                                                     ![t.from] = @ + 1]
<1> DEFINE u == [UidsOf(t.mail) EXCEPT ![t.to] = t.next, ![t.from] = 0]
           m == [ModSeqsOf(t.mail) EXCEPT ![t.to] = t.high + 1, ![t.from] = 0]
           one == IF t.rows # {} THEN 1 ELSE 0
<1>1. TypeOK /\ t # NoTx /\ t.kind = "move" /\ t.step = "commit" /\ Sound(s)
    BY DEF CommitMove, Committing, At, IInv
<1>2. /\ t.mail \in Emails /\ t.from \in Folders /\ t.to \in Folders
      /\ t.source \in Nat /\ t.next \in Nat /\ t.high \in Nat
    BY <1>1, RunningType
<1>3. /\ t.next = nextUID[t.to] /\ t.high = highestModSeq[t.to]
      /\ t.source = highestModSeq[t.from] /\ t.from # t.to
    BY <1>1 DEF Sound, TargetOwned, SourceOwned
<1>4. /\ nextUID' = [nextUID EXCEPT ![t.to] = t.next + one]
      /\ highestModSeq' = [highestModSeq EXCEPT ![t.to] = t.high + one,
                                                ![t.from] = t.source + 1]
      /\ t.rows = {} => UNCHANGED <<uid, modSeq>>
      /\ t.rows # {} => SetRows(t.mail, u, m)
    BY DEF CommitMove
<1>5. one = Cardinality(S)
    BY TakenSize
<1>6. nextUID \in [Folders -> Nat] /\ highestModSeq \in [Folders -> Nat]
    BY <1>1 DEF TypeOK
<1> HIDE DEF one
<1>7. nextUID' = [nextUID EXCEPT ![t.to] = @ + Cardinality(S)]
    BY <1>2, <1>3, <1>4, <1>5, <1>6
<1>8. highestModSeq' = [highestModSeq EXCEPT ![t.to] = @ + Cardinality(S), ![t.from] = @ + 1]
    BY <1>2, <1>3, <1>4, <1>5, <1>6
<1>9. \A f \in Folders :
        /\ u[f] = IF f = t.from THEN 0 ELSE IF f = t.to THEN t.next ELSE uid[f][t.mail]
        /\ m[f] = IF f = t.from THEN 0 ELSE IF f = t.to THEN t.high + 1 ELSE modSeq[f][t.mail]
    BY <1>2, <1>3 DEF UidsOf, ModSeqsOf
<1> HIDE DEF u, m
<1>10. CASE t.rows = {}
    BY <1>2, <1>3, <1>4, <1>7, <1>8, <1>10 DEF Taken
<1>11. CASE t.rows # {}
    <2>1. S = {t.mail}
        BY <1>11 DEF Taken
    <2>2. \A f \in Folders, d \in Emails :
            /\ uid'[f][d] = IF d = t.mail THEN u[f] ELSE uid[f][d]
            /\ modSeq'[f][d] = IF d = t.mail THEN m[f] ELSE modSeq[f][d]
        BY <1>1, <1>2, <1>4, <1>11, SetRowsWrites
    <2> QED
        BY <1>2, <1>3, <1>7, <1>8, <1>9, <2>1, <2>2
<1> QED
    BY <1>10, <1>11

LEMMA CopyWrites ==
    ASSUME IInv, NEW s \in Sessions, CommitCopy(s), NEW t, t = tx[s], NEW S, S = Taken(t)
    PROVE  /\ t.mail \in Emails /\ t.from \in Folders /\ t.to \in Folders /\ t.from # t.to
           /\ \A f \in Folders, d \in Emails :
                /\ uid'[f][d] = IF d \in S /\ f = t.to THEN nextUID[t.to] ELSE uid[f][d]
                /\ modSeq'[f][d] = IF d \in S /\ f = t.to THEN highestModSeq[t.to] + 1
                                   ELSE modSeq[f][d]
           /\ nextUID' = [nextUID EXCEPT ![t.to] = @ + Cardinality(S)]
           /\ highestModSeq' = [highestModSeq EXCEPT ![t.to] = @ + Cardinality(S)]
           /\ t.rows = {} => UNCHANGED tables
<1> DEFINE u == [UidsOf(t.mail) EXCEPT ![t.to] = t.next]
           m == [ModSeqsOf(t.mail) EXCEPT ![t.to] = t.high + 1]
           one == IF t.rows # {} THEN 1 ELSE 0
<1>1. TypeOK /\ t # NoTx /\ t.kind = "copy" /\ t.step = "commit" /\ Sound(s)
    BY DEF CommitCopy, Committing, At, IInv
<1>2. /\ t.mail \in Emails /\ t.from \in Folders /\ t.to \in Folders
      /\ t.next \in Nat /\ t.high \in Nat
    BY <1>1, RunningType
<1>3. t.next = nextUID[t.to] /\ t.high = highestModSeq[t.to] /\ t.from # t.to
    BY <1>1 DEF Sound, TargetOwned, SourceOwned
<1>4. /\ nextUID' = [nextUID EXCEPT ![t.to] = t.next + one]
      /\ highestModSeq' = [highestModSeq EXCEPT ![t.to] = t.high + one]
      /\ t.rows = {} => UNCHANGED <<uid, modSeq>>
      /\ t.rows # {} => SetRows(t.mail, u, m)
      /\ column' = column
    BY DEF CommitCopy
<1>5. one = Cardinality(S) /\ (t.rows = {} => one = 0)
    BY TakenSize
<1>6. nextUID \in [Folders -> Nat] /\ highestModSeq \in [Folders -> Nat]
    BY <1>1 DEF TypeOK
<1> HIDE DEF one
<1>7. /\ nextUID' = [nextUID EXCEPT ![t.to] = @ + Cardinality(S)]
      /\ highestModSeq' = [highestModSeq EXCEPT ![t.to] = @ + Cardinality(S)]
    BY <1>2, <1>3, <1>4, <1>5, <1>6
<1>8. t.rows = {} => UNCHANGED <<nextUID, highestModSeq>>
    BY <1>2, <1>3, <1>4, <1>5, <1>6
<1>9. \A f \in Folders :
        /\ u[f] = IF f = t.to THEN t.next ELSE uid[f][t.mail]
        /\ m[f] = IF f = t.to THEN t.high + 1 ELSE modSeq[f][t.mail]
    BY <1>2 DEF UidsOf, ModSeqsOf
<1> HIDE DEF u, m
<1>10. CASE t.rows = {}
    BY <1>2, <1>3, <1>4, <1>7, <1>8, <1>10 DEF Taken, tables
<1>11. CASE t.rows # {}
    <2>1. S = {t.mail}
        BY <1>11 DEF Taken
    <2>2. \A f \in Folders, d \in Emails :
            /\ uid'[f][d] = IF d = t.mail THEN u[f] ELSE uid[f][d]
            /\ modSeq'[f][d] = IF d = t.mail THEN m[f] ELSE modSeq[f][d]
        BY <1>1, <1>2, <1>4, <1>11, SetRowsWrites
    <2> QED
        BY <1>2, <1>3, <1>7, <1>9, <1>11, <2>1, <2>2
<1> QED
    BY <1>10, <1>11

LEMMA FlagsWrites ==
    ASSUME IInv, NEW s \in Sessions, CommitFlags(s), NEW t, t = tx[s], NEW S, S = Taken(t)
    PROVE  /\ t.mail \in Emails /\ t.to \in Folders
           /\ \A f \in Folders, d \in Emails :
                /\ uid'[f][d] = IF d \in S /\ f = t.to THEN t.old ELSE uid[f][d]
                /\ modSeq'[f][d] = IF d \in S /\ f = t.to THEN highestModSeq[t.to] + 1
                                   ELSE modSeq[f][d]
           /\ nextUID' = nextUID
           /\ highestModSeq' = [highestModSeq EXCEPT ![t.to] = @ + Cardinality(S)]
           /\ t.rows = {} => UNCHANGED tables
<1> DEFINE u == [UidsOf(t.mail) EXCEPT ![t.to] = t.old]
           m == [ModSeqsOf(t.mail) EXCEPT ![t.to] = t.high + 1]
           one == IF t.rows # {} THEN 1 ELSE 0
<1>1. TypeOK /\ t # NoTx /\ t.kind = "flags" /\ t.step = "commit" /\ Sound(s)
    BY DEF CommitFlags, Committing, At, IInv
<1>2. t.mail \in Emails /\ t.to \in Folders /\ t.next \in Nat /\ t.high \in Nat
    BY <1>1, RunningType
<1>3. t.next = nextUID[t.to] /\ t.high = highestModSeq[t.to]
    BY <1>1 DEF Sound, TargetOwned
<1>4. /\ nextUID' = [nextUID EXCEPT ![t.to] = t.next]
      /\ highestModSeq' = [highestModSeq EXCEPT ![t.to] = t.high + one]
      /\ t.rows = {} => UNCHANGED <<uid, modSeq>>
      /\ t.rows # {} => SetRows(t.mail, u, m)
      /\ column' = column
    BY DEF CommitFlags
<1>5. one = Cardinality(S) /\ (t.rows = {} => one = 0)
    BY TakenSize
<1>6. nextUID \in [Folders -> Nat] /\ highestModSeq \in [Folders -> Nat]
    BY <1>1 DEF TypeOK
<1> HIDE DEF one
<1>7. /\ nextUID' = nextUID
      /\ highestModSeq' = [highestModSeq EXCEPT ![t.to] = @ + Cardinality(S)]
    BY <1>2, <1>3, <1>4, <1>5, <1>6
<1>8. t.rows = {} => highestModSeq' = highestModSeq
    BY <1>2, <1>3, <1>4, <1>5, <1>6
<1>9. \A f \in Folders :
        /\ u[f] = IF f = t.to THEN t.old ELSE uid[f][t.mail]
        /\ m[f] = IF f = t.to THEN t.high + 1 ELSE modSeq[f][t.mail]
    BY <1>2 DEF UidsOf, ModSeqsOf
<1> HIDE DEF u, m
<1>10. CASE t.rows = {}
    BY <1>2, <1>4, <1>7, <1>8, <1>10 DEF Taken, tables
<1>11. CASE t.rows # {}
    <2>1. S = {t.mail}
        BY <1>11 DEF Taken
    <2>2. \A f \in Folders, d \in Emails :
            /\ uid'[f][d] = IF d = t.mail THEN u[f] ELSE uid[f][d]
            /\ modSeq'[f][d] = IF d = t.mail THEN m[f] ELSE modSeq[f][d]
        BY <1>1, <1>2, <1>4, <1>11, SetRowsWrites
    <2> QED
        BY <1>2, <1>3, <1>7, <1>9, <1>11, <2>1, <2>2
<1> QED
    BY <1>10, <1>11

LEMMA HttpWrites ==
    ASSUME IInv, NEW s \in Sessions, CommitHttp(s), NEW t, t = tx[s]
    PROVE  /\ t.mail \in Emails /\ t.to \in Folders
           /\ \A f \in Folders, d \in Emails :
                /\ uid'[f][d] = IF d = t.mail /\ f \in t.rows \ {t.to} THEN 0
                                ELSE IF d = t.mail /\ f \in {t.to} \ t.rows THEN nextUID[f]
                                ELSE uid[f][d]
                /\ modSeq'[f][d] = IF d = t.mail /\ f \in t.rows \ {t.to} THEN 0
                                   ELSE IF d = t.mail /\ f \in {t.to} \ t.rows
                                        THEN highestModSeq[f] + 1
                                   ELSE modSeq[f][d]
           /\ nextUID' = [f \in Folders |-> IF f \in {t.to} \ t.rows THEN nextUID[f] + 1
                                            ELSE nextUID[f]]
           /\ highestModSeq' = [f \in Folders |->
                IF f \in (t.rows \ {t.to}) \cup ({t.to} \ t.rows) THEN highestModSeq[f] + 1
                ELSE highestModSeq[f]]
<1> DEFINE lost == t.rows \ {t.to}
           gained == {t.to} \ t.rows
           u == [f \in Folders |-> IF f \in lost THEN 0
                                   ELSE IF f \in gained THEN t.next ELSE uid[f][t.mail]]
           m == [f \in Folders |-> IF f \in lost THEN 0
                                   ELSE IF f \in gained THEN t.high + 1 ELSE modSeq[f][t.mail]]
<1>1. TypeOK /\ t # NoTx /\ t.kind = "http" /\ t.step = "commit" /\ Sound(s)
    BY DEF CommitHttp, Committing, At, IInv
<1>2. t.mail \in Emails /\ t.to \in Folders
    BY <1>1, RunningType
<1>3. t.next = nextUID[t.to] /\ t.high = highestModSeq[t.to]
    BY <1>1 DEF Sound, TargetOwned
<1>4. /\ nextUID' = [f \in Folders |-> IF f \in gained THEN t.next + 1 ELSE nextUID[f]]
      /\ highestModSeq' = [f \in Folders |->
             IF f \in lost THEN highestModSeq[f] + 1
             ELSE IF f \in gained THEN t.high + 1 ELSE highestModSeq[f]]
      /\ SetRows(t.mail, u, m)
    BY <1>1 DEF CommitHttp, Losers
<1>5. \A f \in gained : t.next = nextUID[f] /\ t.high = highestModSeq[f]
    BY <1>3
<1> HIDE DEF lost, gained
<1>6. nextUID' = [f \in Folders |-> IF f \in gained THEN nextUID[f] + 1 ELSE nextUID[f]]
    BY <1>4, <1>5
<1>7. highestModSeq' = [f \in Folders |-> IF f \in lost \cup gained THEN highestModSeq[f] + 1
                                          ELSE highestModSeq[f]]
    BY <1>4, <1>5
<1>8. \A f \in Folders :
        /\ u[f] = IF f \in lost THEN 0 ELSE IF f \in gained THEN nextUID[f] ELSE uid[f][t.mail]
        /\ m[f] = IF f \in lost THEN 0
                  ELSE IF f \in gained THEN highestModSeq[f] + 1 ELSE modSeq[f][t.mail]
    BY <1>5
<1> HIDE DEF u, m
<1>9. \A f \in Folders, d \in Emails :
        /\ uid'[f][d] = IF d = t.mail THEN u[f] ELSE uid[f][d]
        /\ modSeq'[f][d] = IF d = t.mail THEN m[f] ELSE modSeq[f][d]
    BY <1>1, <1>2, <1>4, SetRowsWrites
<1>10. \A f \in Folders, d \in Emails :
        /\ uid'[f][d] = IF d = t.mail /\ f \in lost THEN 0
                        ELSE IF d = t.mail /\ f \in gained THEN nextUID[f] ELSE uid[f][d]
        /\ modSeq'[f][d] = IF d = t.mail /\ f \in lost THEN 0
                           ELSE IF d = t.mail /\ f \in gained THEN highestModSeq[f] + 1
                           ELSE modSeq[f][d]
    BY <1>8, <1>9
<1> QED
    BY <1>2, <1>6, <1>7, <1>10 DEF lost, gained

LEMMA PurgeWrites ==
    ASSUME IInv, NEW s \in Sessions, CommitPurge(s), NEW t, t = tx[s]
    PROVE  /\ t.mail \in Emails
           /\ \A f \in Folders, d \in Emails :
                /\ uid'[f][d] = IF d = t.mail /\ f \in t.rows THEN 0 ELSE uid[f][d]
                /\ modSeq'[f][d] = IF d = t.mail /\ f \in t.rows THEN 0 ELSE modSeq[f][d]
           /\ nextUID' = nextUID
           /\ highestModSeq' =
                [f \in Folders |-> highestModSeq[f] + (IF f \in t.seen THEN 1 ELSE 0)]
           /\ column' = [column EXCEPT ![t.mail] = "gone"]
<1> DEFINE u == [f \in Folders |-> IF f \in t.rows THEN 0 ELSE uid[f][t.mail]]
           m == [f \in Folders |-> IF f \in t.rows THEN 0 ELSE modSeq[f][t.mail]]
<1>1. TypeOK /\ t # NoTx /\ t.kind = "purge"
    BY DEF CommitPurge, Committing, At, IInv
<1>2. t.mail \in Emails
    BY <1>1, RunningType
<1>3. /\ SetRows(t.mail, u, m)
      /\ nextUID' = nextUID
      /\ highestModSeq' =
            [f \in Folders |-> highestModSeq[f] + (IF f \in t.seen THEN 1 ELSE 0)]
      /\ column' = [column EXCEPT ![t.mail] = "gone"]
    BY <1>1 DEF CommitPurge, Losers
<1>4. \A f \in Folders :
        /\ u[f] = IF f \in t.rows THEN 0 ELSE uid[f][t.mail]
        /\ m[f] = IF f \in t.rows THEN 0 ELSE modSeq[f][t.mail]
    OBVIOUS
<1> HIDE DEF u, m
<1>5. \A f \in Folders, d \in Emails :
        /\ uid'[f][d] = IF d = t.mail THEN u[f] ELSE uid[f][d]
        /\ modSeq'[f][d] = IF d = t.mail THEN m[f] ELSE modSeq[f][d]
    BY <1>1, <1>2, <1>3, SetRowsWrites
<1> QED
    BY <1>2, <1>3, <1>4, <1>5

\* A commit writes rows of a message that stays only in folders it has locked.
LEMMA OwnRows ==
    ASSUME IInv, NEW s \in Sessions, Commit(s), NEW f \in Folders, FolderLock(f) \notin held[s],
           NEW d \in Emails, column'[d] \in Folders
    PROVE  uid'[f][d] = uid[f][d]
<1> DEFINE t == tx[s]
<1>1. /\ t # NoTx /\ t.step = "commit" /\ Sound(s)
      /\ column \in [Emails -> Folders \cup {"unstored", "gone"}]
    BY DEF Commit, CommitMove, CommitCopy, CommitFlags, CommitHttp, CommitPurge, Committing, At,
           IInv, TypeOK
<1>2. t.kind # "purge" => f # t.to
    BY <1>1 DEF Sound, TargetOwned
<1>3. t.kind \in {"move", "copy"} => f # t.from
    BY <1>1 DEF Sound, SourceOwned
<1>4. t.kind = "http" => f \notin t.rows \ {t.to}
    BY <1>1 DEF Sound, LosersOwned, Losers
<1>5. CASE CommitMove(s)
    <2>1. t.kind = "move"
        BY <1>5 DEF CommitMove, Committing
    <2> HIDE DEF t
    <2> QED
        BY <1>2, <1>3, <1>5, <2>1, MoveWrites DEF t
<1>6. CASE CommitCopy(s)
    <2>1. t.kind = "copy"
        BY <1>6 DEF CommitCopy, Committing
    <2> QED
        BY <1>2, <1>6, <2>1, CopyWrites
<1>7. CASE CommitFlags(s)
    <2>1. t.kind = "flags"
        BY <1>7 DEF CommitFlags, Committing
    <2> QED
        BY <1>2, <1>7, <2>1, FlagsWrites
<1>8. CASE CommitHttp(s)
    <2>1. t.kind = "http"
        BY <1>8 DEF CommitHttp, Committing
    <2> QED
        BY <1>2, <1>4, <1>8, <2>1, HttpWrites
<1>9. CASE CommitPurge(s)
    <2>1. t.mail \in Emails /\ column' = [column EXCEPT ![t.mail] = "gone"]
        BY <1>9, PurgeWrites
    <2>2. d # t.mail
        BY <1>1, <2>1, RowsAssumption
    <2> QED
        BY <1>9, <2>2, PurgeWrites
<1> QED
    BY <1>5, <1>6, <1>7, <1>8, <1>9 DEF Commit

\* What a transaction relies on, others leave alone as long as its message is
\* stored.
LEMMA OthersUndisturbed ==
    ASSUME AtomicInv, NEW t \in Sessions, tx'[t] = tx[t],
           tx[t] # NoTx /\ column'[tx[t].mail] \in Folders =>
                /\ column[tx[t].mail] \in Folders
                /\ \A f \in Folders :
                    FolderLock(f) \in held[t] => uid'[f][tx[t].mail] = uid[f][tx[t].mail]
    PROVE  Undisturbed(t)'
<1> SUFFICES ASSUME tx[t] # NoTx, tx[t].rows # {}, column'[tx[t].mail] \in Folders
             PROVE  Undisturbed(t)'
    BY DEF Undisturbed, Stored
<1>1. /\ Undisturbed(t) /\ Sound(t) /\ Stored(tx[t].mail)
      /\ tx[t].mail \in Emails /\ tx[t].to \in Folders
    BY RunningType DEF AtomicInv, SidesInv, IInv, Stored
<1>2. tx[t].kind \in {"move", "copy", "flags"} /\ tx[t].step # "target" =>
        uid'[tx[t].to][tx[t].mail] = uid[tx[t].to][tx[t].mail]
    BY <1>1 DEF Sound, TargetOwned
<1> QED
    BY <1>1, <1>2 DEF Undisturbed

LEMMA CommitUndisturbed ==
    ASSUME AtomicInv, NEW s \in Sessions, Commit(s), NEW t \in Sessions \ {s}
    PROVE  Undisturbed(t)'
<1>1. SidesInv /\ IInv /\ TypeOK
    BY DEF AtomicInv, SidesInv, IInv
<1>2. /\ tx[s].mail \in Emails /\ Files(s, tx[s].mail)
      /\ tx'[t] = tx[t]
    BY <1>1, CommitType, CommitFiles, EndType
<1>3. held[s] \cap held[t] = {}
    BY <1>1 DEF TypeOK
<1>4. tx[t] # NoTx => tx[t].mail \in Emails
    BY <1>1, RunningType
<1>5. ASSUME tx[t] # NoTx, column'[tx[t].mail] \in Folders
      PROVE  /\ column[tx[t].mail] \in Folders
             /\ \A f \in Folders :
                    FolderLock(f) \in held[t] => uid'[f][tx[t].mail] = uid[f][tx[t].mail]
    <2>1. column[tx[t].mail] \in Folders
        BY <1>2, <1>4, <1>5 DEF Files
    <2>2. ASSUME NEW f \in Folders, FolderLock(f) \in held[t]
          PROVE  uid'[f][tx[t].mail] = uid[f][tx[t].mail]
        <3>1. FolderLock(f) \notin held[s]
            BY <1>3, <2>2
        <3> QED
            BY <1>1, <1>4, <1>5, <3>1, OwnRows
    <2> QED
        BY <2>1, <2>2
<1> QED
    BY <1>2, <1>5, OthersUndisturbed

\* A transaction that begins has not read its row, and one that goes on reads
\* it, or finds the place of the new one free.
LEMMA AskUndisturbed ==
    ASSUME TypeOK, NEW s \in Sessions, Ask(s)
    PROVE  Undisturbed(s)'
<1>1. ASSUME NEW t \in Transactions, Begin(s, t), t.kind = "purge" \/ t.step = "target"
      PROVE  Undisturbed(s)'
    BY <1>1, BeginType DEF Undisturbed
<1>2. ASSUME NEW e \in Emails, NEW from \in Folders, NEW to \in Folders,
             NEW kind \in {"move", "copy"}, BeginTransfer(s, kind, e, from, to)
      PROVE  Undisturbed(s)'
    <2> DEFINE t == [New(kind, "target", e, from, to) EXCEPT !.source = highestModSeq[from]]
    <2>1. t \in Transactions /\ t.step = "target"
        BY DEF New, Transactions, AllKinds, Steps, TypeOK
    <2>2. Begin(s, t)
        BY <1>2 DEF BeginTransfer
    <2> HIDE DEF t
    <2> QED
        BY <1>1, <2>1, <2>2
<1>3. ASSUME NEW e \in Emails, NEW f \in Folders, NEW kind \in {"flags", "http"},
             Begin(s, New(kind, "target", e, f, f))
      PROVE  Undisturbed(s)'
    <2> DEFINE t == New(kind, "target", e, f, f)
    <2>1. t \in Transactions /\ t.step = "target"
        BY NewType DEF New, AllKinds, Steps
    <2> HIDE DEF t
    <2> QED
        BY <1>1, <1>3, <2>1 DEF t
<1>4. ASSUME NEW e \in Emails, BeginPurge(s, e)
      PROVE  Undisturbed(s)'
    <2> DEFINE step == IF FoldersOf(e) = {} THEN "email" ELSE "find"
               n == New("purge", step, e, column[e], column[e])
               t == [n EXCEPT !.seen = FoldersOf(e)]
    <2>1. n \in Transactions /\ n.kind = "purge"
        BY <1>4, NewType DEF BeginPurge, Stored, AllKinds, Steps, New
    <2>2. t \in Transactions /\ t.kind = "purge"
        BY <2>1 DEF Transactions, FoldersOf
    <2>3. Begin(s, t)
        BY <1>4 DEF BeginPurge
    <2> HIDE DEF t
    <2> QED
        BY <1>1, <2>2, <2>3
<1> QED
    BY <1>2, <1>3, <1>4 DEF Ask, BeginFlags, BeginHttp

LEMMA ExecuteUndisturbed ==
    ASSUME AtomicInv, NEW s \in Sessions, Execute(s)
    PROVE  Undisturbed(s)'
<1>1. /\ TypeOK /\ Sound(s) /\ Undisturbed(s)
      /\ Goes(s) /\ uid' = uid /\ column' = column
    BY ExecuteType DEF AtomicInv, SidesInv, IInv, tables
<1>2. /\ tx[s] # NoTx
      /\ tx[s].step \in StepsOf(tx[s].kind) /\ tx[s].kind \in AllKinds
    <2>1. tx[s] # NoTx
        BY DEF Execute, LockTarget, ReadRow, InsertRow, LockRow, LockEmail, FindRows, LockRows,
               LockLosers, At
    <2> QED
        BY <1>1, <2>1, RunningType DEF Sound
<1>3. CASE LockTarget(s)
    BY <1>1, <1>3, LockTargetType DEF Undisturbed
<1>4. CASE ReadRow(s)
    <2>1. /\ tx'[s].step \in {"commit", "row", "insert"}
          /\ tx'[s].step = "row" => tx[s].kind = "flags"
          /\ tx'[s].old = uid[tx[s].from][tx[s].mail]
          /\ tx'[s].rows # {} => tx'[s].step # "commit"
        BY <1>1, <1>4, ReadRowType
    <2>2. tx[s].kind = "flags" => tx[s].from = tx[s].to
        BY <1>1, <1>2 DEF Sound
    <2> QED
        BY <1>1, <2>1, <2>2 DEF Undisturbed, Goes
<1>5. CASE InsertRow(s)
    <2>1. uid[tx[s].to][tx[s].mail] = 0 /\ tx[s].kind # "flags"
        BY <1>2, <1>5 DEF InsertRow, At, StepsOf
    <2> QED
        BY <1>1, <2>1 DEF Undisturbed, Goes
<1>6. ASSUME NEW step \in Steps, GoTo(s, step),
             \/ tx[s].kind = "flags" /\ tx[s].step = "row"
             \/ tx[s].kind = "move" /\ tx[s].step \in {"row", "email"}
             \/ tx[s].kind \in {"http", "purge"}
      PROVE  Undisturbed(s)'
    <2>1. /\ tx'[s].old = tx[s].old /\ tx'[s].rows = tx[s].rows
          /\ tx'[s].kind = tx[s].kind /\ tx'[s].mail = tx[s].mail /\ tx'[s].to = tx[s].to
        BY <1>1, <1>2, <1>6, GoToType DEF Goes
    <2> SUFFICES ASSUME tx[s].rows # {}, Stored(tx[s].mail)
                 PROVE  Undisturbed(s)'
        BY <1>1, <2>1 DEF Undisturbed, Stored
    <2>2. /\ tx[s].kind = "flags" => uid[tx[s].to][tx[s].mail] = tx[s].old
          /\ tx[s].kind = "move" => uid[tx[s].to][tx[s].mail] = 0
        BY <1>1, <1>2, <1>6 DEF Undisturbed
    <2> QED
        BY <1>1, <1>6, <2>1, <2>2 DEF Undisturbed
<1>7. CASE LockRow(s)
    BY <1>2, <1>6, <1>7 DEF LockRow, At, Steps, StepsOf, AllKinds
<1>8. CASE LockEmail(s)
    BY <1>2, <1>6, <1>8 DEF LockEmail, At, Steps, StepsOf, AllKinds
<1>9. CASE FindRows(s) \/ LockRows(s) \/ LockLosers(s)
    <2>1. tx[s].kind \in {"http", "purge"}
        BY <1>2, <1>9 DEF FindRows, LockRows, LockLosers, At, StepsOf, AllKinds
    <2> QED
        BY <1>1, <2>1 DEF Undisturbed, Goes
<1> QED
    BY <1>3, <1>4, <1>5, <1>7, <1>8, <1>9 DEF Execute

\* A commit removes and writes rows as a whole.
LEMMA CommitWhole ==
    ASSUME AtomicInv, NEW s \in Sessions, Commit(s)
    PROVE  RowsWhole'
<1>1. /\ IInv /\ TypeOK /\ RowsWhole /\ Filed(s)
      /\ \A f \in Folders : nextUID[f] # 0
    BY DEF AtomicInv, SidesInv, IInv, GivenSound
<1> SUFFICES ASSUME NEW f \in Folders, NEW d \in Emails, uid'[f][d] = 0
             PROVE  modSeq'[f][d] = 0
    BY DEF RowsWhole
<1>2. uid[f][d] = 0 => modSeq[f][d] = 0
    BY <1>1 DEF RowsWhole
<1> DEFINE t == tx[s]
           S == Taken(t)
<1>3. CASE CommitMove(s)
    <2> HIDE DEF t, S
    <2>1. /\ t.to \in Folders
          /\ uid'[f][d] = IF d \in S /\ f = t.from THEN 0
                          ELSE IF d \in S /\ f = t.to THEN nextUID[t.to] ELSE uid[f][d]
          /\ modSeq'[f][d] = IF d \in S /\ f = t.from THEN 0
                             ELSE IF d \in S /\ f = t.to THEN highestModSeq[t.to] + 1
                             ELSE modSeq[f][d]
        BY <1>1, <1>3, MoveWrites DEF t, S
    <2> QED
        BY <1>1, <1>2, <2>1
<1>4. CASE CommitCopy(s)
    <2> HIDE DEF t, S
    <2>1. /\ t.to \in Folders
          /\ uid'[f][d] = IF d \in S /\ f = t.to THEN nextUID[t.to] ELSE uid[f][d]
          /\ modSeq'[f][d] = IF d \in S /\ f = t.to THEN highestModSeq[t.to] + 1
                             ELSE modSeq[f][d]
        BY <1>1, <1>4, CopyWrites DEF t, S
    <2> QED
        BY <1>1, <1>2, <2>1
<1>5. CASE CommitFlags(s)
    <2>1. d \in S => t.old # 0
        BY <1>1, <1>5 DEF CommitFlags, Committing, At, Filed, RowStays, Taken
    <2> HIDE DEF t, S
    <2>2. /\ uid'[f][d] = IF d \in S /\ f = t.to THEN t.old ELSE uid[f][d]
          /\ modSeq'[f][d] = IF d \in S /\ f = t.to THEN highestModSeq[t.to] + 1
                             ELSE modSeq[f][d]
        BY <1>1, <1>5, FlagsWrites DEF t, S
    <2> QED
        BY <1>2, <2>1, <2>2
<1>6. CASE CommitHttp(s)
    BY <1>1, <1>2, <1>6, HttpWrites
<1>7. CASE CommitPurge(s)
    BY <1>1, <1>2, <1>7, PurgeWrites
<1> QED
    BY <1>3, <1>4, <1>5, <1>6, <1>7 DEF Commit

LEMMA AtomicInit == Init => AtomicInv
BY SidesInit DEF AtomicInv, Init, Undisturbed, RowsWhole

LEMMA AtomicInvStep == AtomicInv /\ [Next]_vars => AtomicInv'
<1> SUFFICES ASSUME AtomicInv, [Next]_vars
             PROVE  AtomicInv'
    OBVIOUS
<1>0. /\ SidesInv /\ IInv /\ TypeOK /\ SidesInv' /\ RowsWhole
      /\ \A s \in Sessions : Undisturbed(s) /\ Filed(s)
    BY SidesStep DEF AtomicInv, SidesInv, IInv
<1>1. ASSUME NEW e \in Emails, NEW f \in Folders, Arrive(e, f)
      PROVE  AtomicInv'
    <2>1. /\ tx' = tx /\ column[e] = "unstored" /\ column' = [column EXCEPT ![e] = f]
          /\ column \in [Emails -> Folders \cup {"unstored", "gone"}]
        BY <1>0, <1>1 DEF Arrive, TypeOK
    <2>2. \A d \in Emails \ {e} : column'[d] = column[d] /\ \A g \in Folders : uid'[g][d] = uid[g][d]
        BY <1>0, <1>1, <2>1, ArriveStep DEF TableStep
    <2>3. ASSUME NEW s \in Sessions
          PROVE  Undisturbed(s)'
        <3>1. tx[s] # NoTx => tx[s].mail \in Emails \ {e}
            BY <1>0, <2>1, RunningType DEF Filed
        <3> QED
            BY <2>1, <2>2, <3>1, OthersUndisturbed
    <2>4. RowsWhole'
        <3>1. /\ uid' = [uid EXCEPT ![f][e] = nextUID[f]]
              /\ modSeq' = [modSeq EXCEPT ![f][e] = highestModSeq[f] + 1]
              /\ nextUID[f] # 0
              /\ uid \in [Folders -> [Emails -> Nat]] /\ modSeq \in [Folders -> [Emails -> Nat]]
            BY <1>0, <1>1 DEF Arrive, TypeOK, IInv, GivenSound
        <3> QED
            BY <1>0, <3>1 DEF RowsWhole
    <2> QED
        BY <1>0, <2>3, <2>4 DEF AtomicInv
<1>2. ASSUME NEW s \in Sessions, Commit(s)
      PROVE  AtomicInv'
    <2>1. tx'[s] = NoTx
        BY <1>0, <1>2, CommitType, EndType
    <2>2. Undisturbed(s)'
        BY <2>1 DEF Undisturbed
    <2> QED
        BY <1>0, <1>2, <2>2, CommitUndisturbed, CommitWhole DEF AtomicInv
<1>3. ASSUME UNCHANGED tables, NEW t \in Sessions, tx'[t] = tx[t]
      PROVE  Undisturbed(t)'
    <2>1. uid' = uid /\ column' = column
        BY <1>3 DEF tables
    <2> QED
        BY <1>3, <2>1, OthersUndisturbed
<1>w. UNCHANGED tables => RowsWhole'
    BY <1>0 DEF tables, RowsWhole
<1>4. ASSUME NEW s \in Sessions, Ask(s) \/ Execute(s) \/ Abort(s)
      PROVE  AtomicInv'
    <2>1. /\ UNCHANGED tables
          /\ \A t \in Sessions \ {s} : tx'[t] = tx[t]
        BY <1>0, <1>4, AskType, ExecuteType, EndType DEF Begun, Goes, Abort
    <2>2. Undisturbed(s)'
        <3>1. CASE Abort(s)
            <4>1. tx'[s] = NoTx
                BY <1>0, <3>1, EndType DEF Abort
            <4> QED
                BY <4>1 DEF Undisturbed
        <3> QED
            BY <1>0, <1>4, <3>1, AskUndisturbed, ExecuteUndisturbed
    <2> QED
        BY <1>0, <1>3, <1>w, <2>1, <2>2 DEF AtomicInv
<1>5. CASE UNCHANGED vars
    <2>1. UNCHANGED <<tables, held, tx, history>>
        BY <1>5 DEF vars
    <2> QED
        BY <1>0, <1>3, <1>w, <2>1 DEF AtomicInv
<1> QED
    BY <1>1, <1>2, <1>4, <1>5 DEF Next

LEMMA AtomicCorrect == Spec => []AtomicInv
BY AtomicInit, AtomicInvStep, PTL DEF Spec

\* FolderStore counts as this module does.
LEMMA AtomicCardinality ==
    ASSUME NEW S
    PROVE  Atomic!Cardinality(S) = Cardinality(S)
BY DEF Cardinality, Atomic!Cardinality

\* A transaction as a whole: what each commit does is the action of FolderStore,
\* on the rows that it finds.
LEMMA AtomicArrive ==
    ASSUME TypeOK, NEW e \in Emails, NEW f \in Folders, Arrive(e, f)
    PROVE  Atomic!AppendMessage(e, f, FALSE)
<1>1. /\ column[e] = "unstored"
      /\ column' = [column EXCEPT ![e] = f]
      /\ uid' = [uid EXCEPT ![f][e] = nextUID[f]]
      /\ modSeq' = [modSeq EXCEPT ![f][e] = highestModSeq[f] + 1]
      /\ nextUID' = [nextUID EXCEPT ![f] = @ + 1]
      /\ highestModSeq' = [highestModSeq EXCEPT ![f] = @ + 1]
    BY DEF Arrive
<1>2. column \in [Emails -> Folders \cup {"unstored", "gone"}] /\ f # "gone"
    BY RowsAssumption DEF TypeOK
<1>3. Atomic!HttpFolder(f) = f
    BY DEF Atomic!HttpFolder
<1>4. Atomic!AddRow(f, e, FALSE)
    BY <1>1 DEF Atomic!AddRow
<1> QED
    BY <1>1, <1>2, <1>3, <1>4 DEF Atomic!AppendMessage

LEMMA AtomicMove ==
    ASSUME AtomicInv, NEW s \in Sessions, CommitMove(s), Stored(tx[s].mail),
           NEW S, S = Taken(tx[s]), NEW from, from = tx[s].from, NEW to, to = tx[s].to
    PROVE  /\ S \in SUBSET Emails /\ from \in Folders /\ to \in Folders
           /\ Atomic!Move(S, from, to)
<1> DEFINE t == tx[s]
           rank == [e \in S |-> 1]
<1>1. /\ IInv /\ TypeOK /\ Filed(s) /\ Undisturbed(s)
      /\ t # NoTx /\ t.kind = "move" /\ t.step = "commit"
    BY DEF AtomicInv, SidesInv, IInv, CommitMove, Committing, At
<1>2. /\ t.mail \in Emails /\ from \in Folders /\ to \in Folders /\ from # to
      /\ \A f \in Folders, d \in Emails :
            /\ uid'[f][d] = IF d \in S /\ f = from THEN 0
                            ELSE IF d \in S /\ f = to THEN nextUID[to]
                            ELSE uid[f][d]
            /\ modSeq'[f][d] = IF d \in S /\ f = from THEN 0
                               ELSE IF d \in S /\ f = to THEN highestModSeq[to] + 1
                               ELSE modSeq[f][d]
      /\ nextUID' = [nextUID EXCEPT ![to] = @ + Cardinality(S)]
      /\ highestModSeq' = [highestModSeq EXCEPT ![to] = @ + Cardinality(S), ![from] = @ + 1]
    BY <1>1, MoveWrites
<1>3. /\ uid' \in [Folders -> [Emails -> Nat]]
      /\ modSeq' \in [Folders -> [Emails -> Nat]]
      /\ uid \in [Folders -> [Emails -> Nat]]
      /\ modSeq \in [Folders -> [Emails -> Nat]]
      /\ nextUID \in [Folders -> Nat] /\ highestModSeq \in [Folders -> Nat]
      /\ column \in [Emails -> Folders \cup {"unstored", "gone"}]
    BY <1>1, CommitType DEF Commit, TableStep, TypeOK
<1>4. t.rows # {} => uid[from][t.mail] # 0 /\ uid[to][t.mail] = 0
    BY <1>1 DEF Filed, RowStays, Undisturbed
<1>5. S \in SUBSET Emails /\ (S # {} => S = {t.mail} /\ t.rows # {})
    BY <1>2 DEF Taken
<1>6. column' = IF t.rows # {} THEN [column EXCEPT ![t.mail] = to] ELSE column
    BY DEF CommitMove
<1>7. Cardinality(S) = IF S = {} THEN 0 ELSE 1
    BY FS_EmptySet, FS_Singleton DEF Taken
<1>8. column' = [e \in Emails |-> IF e \in S THEN to ELSE column[e]]
    BY <1>2, <1>3, <1>6 DEF Taken
<1> HIDE DEF t
<1>9. rank \in Atomic!Rankings(S) /\ \A e \in S : rank[e] = 1
    <2>1. \A e \in S : rank[e] = 1 /\ Cardinality(S) = 1
        BY <1>7
    <2>2. rank \in [S -> 1..Cardinality(S)]
        BY <2>1
    <2>3. \A d, e \in S : d = e
        BY <1>5
    <2> HIDE DEF rank
    <2> QED
        BY <2>1, <2>2, <2>3, AtomicCardinality DEF Atomic!Rankings
<1> HIDE DEF rank
<1>10. Atomic!CanTransfer(S, from, to)
    BY <1>2, <1>4, <1>5 DEF Atomic!CanTransfer, Atomic!Rows
<1>11. ASSUME NEW row \in [Emails -> Nat], NEW n \in Nat
       PROVE  /\ Atomic!Numbered(row, n - 1, S, rank) = [e \in Emails |-> IF e \in S THEN n ELSE row[e]]
              /\ Atomic!Without(row, S) = [e \in Emails |-> IF e \in S THEN 0 ELSE row[e]]
    <2>1. \A e \in S : n - 1 + rank[e] = n
        BY <1>9
    <2> QED
        BY <2>1 DEF Atomic!Numbered, Atomic!Without
<1> DEFINE Moves(rows, new, n) ==
        \A f \in Folders, d \in Emails :
            new[f][d] = IF d \in S /\ f = from THEN 0
                        ELSE IF d \in S /\ f = to THEN n ELSE rows[f][d]
           Moved(rows, n) ==
                [rows EXCEPT ![to] = Atomic!Numbered(@, n - 1, S, rank),
                             ![from] = Atomic!Without(@, S)]
<1>12. ASSUME NEW rows \in [Folders -> [Emails -> Nat]], NEW new \in [Folders -> [Emails -> Nat]],
              NEW n \in Nat, Moves(rows, new, n)
       PROVE  new = Moved(rows, n)
    <2> DEFINE N == [e \in Emails |-> IF e \in S THEN n ELSE rows[to][e]]
               W == [e \in Emails |-> IF e \in S THEN 0 ELSE rows[from][e]]
    <2>0. rows[to] \in [Emails -> Nat] /\ rows[from] \in [Emails -> Nat]
        BY <1>2
    <2>1. /\ Atomic!Numbered(rows[to], n - 1, S, rank) = N
          /\ Atomic!Without(rows[from], S) = W
        BY <1>11, <2>0
    <2>2. new[to] = N /\ new[from] = W /\ \A f \in Folders \ {to, from} : new[f] = rows[f]
        <3>1. /\ from \in Folders /\ to \in Folders /\ from # to
              /\ \A f \in Folders : new[f] \in [Emails -> Nat] /\ rows[f] \in [Emails -> Nat]
            BY <1>2
        <3>2. \A d \in Emails : new[to][d] = N[d] /\ new[from][d] = W[d]
            BY <1>12, <3>1
        <3>3. new[to] = N /\ new[from] = W
            BY <3>1, <3>2
        <3> QED
            BY <1>12, <3>1, <3>3
    <2> HIDE DEF N, W
    <2>3. new = [rows EXCEPT ![to] = N, ![from] = W]
        BY <1>2, <2>2
    <2> QED
        BY <1>2, <2>1, <2>3
<1>13. Moves(uid, uid', nextUID[to]) /\ Moves(modSeq, modSeq', highestModSeq[to] + 1)
    BY <1>2
<1> HIDE DEF Moves, Moved
<1>14. nextUID[to] \in Nat /\ highestModSeq[to] + 1 \in Nat
    BY <1>2, <1>3
<1>15. uid' = Moved(uid, nextUID[to]) /\ modSeq' = Moved(modSeq, highestModSeq[to] + 1)
    BY <1>3, <1>12, <1>13, <1>14
<1>16. (highestModSeq[to] + 1) - 1 = highestModSeq[to]
    BY <1>2, <1>3
<1>17. \E r \in Atomic!Rankings(S) :
        /\ uid' = [uid EXCEPT ![to] = Atomic!Numbered(@, nextUID[to] - 1, S, r),
                              ![from] = Atomic!Without(@, S)]
        /\ modSeq' = [modSeq EXCEPT ![to] = Atomic!Numbered(@, highestModSeq[to], S, r),
                                    ![from] = Atomic!Without(@, S)]
    BY <1>9, <1>15, <1>16 DEF Moved
<1>18. Atomic!Move(S, from, to)
    <2>1. [e \in Emails |-> IF column'[e] = "gone" THEN "purged" ELSE column'[e]]
            = Atomic!Filed(S, to)
        BY <1>2, <1>5, <1>8, RowsAssumption DEF Atomic!Filed
    <2>2. [f \in Folders |-> {}] =
            [[f \in Folders |-> {}] EXCEPT ![to] = @ \cup (S \cap [f \in Folders |-> {}][from]),
                                           ![from] = @ \ S]
        BY <1>2
    <2> QED
        BY <1>2, <1>10, <1>17, <2>1, <2>2, AtomicCardinality DEF Atomic!Move
<1> QED
    BY <1>2, <1>5, <1>18

\* G differs from F in that the number of message e in folder `to` is n: one
\* message is numbered with the number after the base.
Differs(F, G, e, to, n) ==
    \A f \in Folders, d \in Emails : G[f][d] = IF d = e /\ f = to THEN n ELSE F[f][d]

LEMMA NumberedOne ==
    ASSUME NEW e \in Emails, NEW to \in Folders, NEW n \in Nat,
           NEW F \in [Folders -> [Emails -> Nat]], NEW G \in [Folders -> [Emails -> Nat]],
           Differs(F, G, e, to, n)
    PROVE  G = [F EXCEPT ![to] = Atomic!Numbered(@, n - 1, {e}, [d \in {e} |-> 1])]
<1> DEFINE N == [d \in Emails |-> IF d = e THEN n ELSE F[to][d]]
<1>1. Atomic!Numbered(F[to], n - 1, {e}, [d \in {e} |-> 1]) = N
    BY DEF Atomic!Numbered
<1>2. G[to] = N /\ \A f \in Folders \ {to} : G[f] = F[f]
    BY DEF Differs
<1> HIDE DEF N
<1>3. G = [F EXCEPT ![to] = N]
    BY <1>2
<1> QED
    BY <1>1, <1>3

LEMMA RankOne ==
    ASSUME NEW e
    PROVE  [d \in {e} |-> 1] \in Atomic!Rankings({e}) /\ Atomic!Cardinality({e}) = 1
<1>1. Atomic!Cardinality({e}) = 1
    BY AtomicCardinality, FS_Singleton
<1>2. [d \in {e} |-> 1] \in [{e} -> 1..1]
    OBVIOUS
<1> QED
    BY <1>1, <1>2 DEF Atomic!Rankings

LEMMA AtomicCopy ==
    ASSUME AtomicInv, NEW s \in Sessions, CommitCopy(s), Stored(tx[s].mail), tx[s].rows # {},
           NEW e, e = tx[s].mail, NEW from, from = tx[s].from, NEW to, to = tx[s].to
    PROVE  /\ e \in Emails /\ from \in Folders /\ to \in Folders
           /\ Atomic!Copy({e}, from, to)
<1> DEFINE t == tx[s]
<1>1. /\ IInv /\ TypeOK /\ Filed(s) /\ Undisturbed(s)
      /\ t # NoTx /\ t.kind = "copy" /\ t.step = "commit"
    BY DEF AtomicInv, SidesInv, IInv, CommitCopy, Committing, At
<1>2. /\ e \in Emails /\ from \in Folders /\ to \in Folders /\ from # to
      /\ Differs(uid, uid', e, to, nextUID[to])
      /\ Differs(modSeq, modSeq', e, to, highestModSeq[to] + 1)
      /\ nextUID' = [nextUID EXCEPT ![to] = @ + 1]
      /\ highestModSeq' = [highestModSeq EXCEPT ![to] = @ + 1]
    <2> DEFINE S == Taken(t)
    <2>1. S = {e} /\ Cardinality(S) = 1
        BY FS_Singleton DEF Taken
    <2> HIDE DEF S
    <2>2. /\ e \in Emails /\ from \in Folders /\ to \in Folders /\ from # to
          /\ \A f \in Folders, d \in Emails :
                /\ uid'[f][d] = IF d \in S /\ f = to THEN nextUID[to] ELSE uid[f][d]
                /\ modSeq'[f][d] = IF d \in S /\ f = to THEN highestModSeq[to] + 1
                                   ELSE modSeq[f][d]
          /\ nextUID' = [nextUID EXCEPT ![to] = @ + Cardinality(S)]
          /\ highestModSeq' = [highestModSeq EXCEPT ![to] = @ + Cardinality(S)]
        BY <1>1, CopyWrites DEF S
    <2> QED
        BY <2>1, <2>2 DEF Differs
<1>3. /\ uid' \in [Folders -> [Emails -> Nat]]
      /\ modSeq' \in [Folders -> [Emails -> Nat]]
      /\ uid \in [Folders -> [Emails -> Nat]]
      /\ modSeq \in [Folders -> [Emails -> Nat]]
      /\ nextUID \in [Folders -> Nat] /\ highestModSeq \in [Folders -> Nat]
    BY <1>1, CommitType DEF Commit, TableStep, TypeOK
<1>4. uid[from][e] # 0 /\ uid[to][e] = 0
    BY <1>1 DEF Filed, RowStays, Undisturbed
<1>5. column' = column
    BY DEF CommitCopy
<1> HIDE DEF t
<1>6. /\ nextUID[to] \in Nat /\ highestModSeq[to] + 1 \in Nat
      /\ (highestModSeq[to] + 1) - 1 = highestModSeq[to]
    <2>1. nextUID[to] \in Nat /\ highestModSeq[to] \in Nat
        BY <1>2, <1>3
    <2> QED
        BY <2>1
<1>7. uid' = [uid EXCEPT ![to] = Atomic!Numbered(@, nextUID[to] - 1, {e}, [d \in {e} |-> 1])]
    BY <1>2, <1>3, <1>6, NumberedOne
<1>8. modSeq' = [modSeq EXCEPT ![to] =
                    Atomic!Numbered(@, (highestModSeq[to] + 1) - 1, {e}, [d \in {e} |-> 1])]
    BY <1>2, <1>3, <1>6, NumberedOne
<1>9. Atomic!CanTransfer({e}, from, to)
    BY <1>2, <1>4 DEF Atomic!CanTransfer, Atomic!Rows
<1>10. \E rank \in Atomic!Rankings({e}) :
        /\ uid' = [uid EXCEPT ![to] = Atomic!Numbered(@, nextUID[to] - 1, {e}, rank)]
        /\ modSeq' = [modSeq EXCEPT ![to] = Atomic!Numbered(@, highestModSeq[to], {e}, rank)]
    BY <1>6, <1>7, <1>8, RankOne
<1>11. Atomic!Copy({e}, from, to)
    <2>1. [f \in Folders |-> {}] =
            [[f \in Folders |-> {}] EXCEPT ![to] = @ \cup ({e} \cap [f \in Folders |-> {}][from])]
        BY <1>2
    <2> QED
        BY <1>2, <1>5, <1>9, <1>10, <2>1, RankOne DEF Atomic!Copy
<1> QED
    BY <1>2, <1>11

LEMMA AtomicFlags ==
    ASSUME AtomicInv, NEW s \in Sessions, CommitFlags(s), Stored(tx[s].mail), tx[s].rows # {},
           NEW e, e = tx[s].mail, NEW to, to = tx[s].to
    PROVE  e \in Emails /\ to \in Folders /\ Atomic!StoreFlags({e}, to)
<1> DEFINE t == tx[s]
<1>1. /\ IInv /\ TypeOK /\ Filed(s) /\ Undisturbed(s) /\ Sound(s)
      /\ t # NoTx /\ t.kind = "flags" /\ t.step = "commit"
    BY DEF AtomicInv, SidesInv, IInv, CommitFlags, Committing, At
<1>2. uid[to][e] # 0 /\ uid[to][e] = t.old
    BY <1>1 DEF Filed, RowStays, Undisturbed, Sound
<1>3. /\ e \in Emails /\ to \in Folders
      /\ \A f \in Folders, d \in Emails : uid'[f][d] = uid[f][d]
      /\ Differs(modSeq, modSeq', e, to, highestModSeq[to] + 1)
      /\ nextUID' = nextUID
      /\ highestModSeq' = [highestModSeq EXCEPT ![to] = @ + 1]
    <2> DEFINE S == Taken(t)
    <2>1. S = {e} /\ Cardinality(S) = 1
        BY FS_Singleton DEF Taken
    <2> HIDE DEF S
    <2>2. /\ e \in Emails /\ to \in Folders
          /\ \A f \in Folders, d \in Emails :
                /\ uid'[f][d] = IF d \in S /\ f = to THEN t.old ELSE uid[f][d]
                /\ modSeq'[f][d] = IF d \in S /\ f = to THEN highestModSeq[to] + 1
                                   ELSE modSeq[f][d]
          /\ nextUID' = nextUID
          /\ highestModSeq' = [highestModSeq EXCEPT ![to] = @ + Cardinality(S)]
        BY <1>1, FlagsWrites DEF S
    <2> QED
        BY <1>2, <2>1, <2>2 DEF Differs
<1>4. /\ uid' \in [Folders -> [Emails -> Nat]]
      /\ modSeq' \in [Folders -> [Emails -> Nat]]
      /\ uid \in [Folders -> [Emails -> Nat]]
      /\ modSeq \in [Folders -> [Emails -> Nat]]
      /\ highestModSeq \in [Folders -> Nat]
    BY <1>1, CommitType DEF Commit, TableStep, TypeOK
<1>5. column' = column
    BY DEF CommitFlags
<1> HIDE DEF t
<1>6. uid' = uid
    BY <1>3, <1>4
<1>7. highestModSeq[to] + 1 \in Nat /\ (highestModSeq[to] + 1) - 1 = highestModSeq[to]
    <2>1. highestModSeq[to] \in Nat
        BY <1>3, <1>4
    <2> QED
        BY <2>1
<1>8. modSeq' = [modSeq EXCEPT ![to] =
                    Atomic!Numbered(@, (highestModSeq[to] + 1) - 1, {e}, [d \in {e} |-> 1])]
    BY <1>3, <1>4, <1>7, NumberedOne
<1>9. \E rank \in Atomic!Rankings({e}) :
        modSeq' = [modSeq EXCEPT ![to] = Atomic!Numbered(@, highestModSeq[to], {e}, rank)]
    BY <1>7, <1>8, RankOne
<1>10. {e} \subseteq Atomic!Rows(to)
    BY <1>2, <1>3 DEF Atomic!Rows
<1>11. [f \in Folders |-> {}] = [[f \in Folders |-> {}] EXCEPT ![to] = [f \in Folders |-> {}][to]]
    BY <1>3
<1>12. Atomic!StoreFlags({e}, to)
    BY <1>3, <1>5, <1>6, <1>9, <1>10, <1>11, RankOne DEF Atomic!StoreFlags
<1> QED
    BY <1>3, <1>12

LEMMA AtomicHttp ==
    ASSUME AtomicInv, NEW s \in Sessions, CommitHttp(s), Stored(tx[s].mail),
           NEW e, e = tx[s].mail, NEW to, to = tx[s].to, tx[s].rows = FoldersOf(e)
    PROVE  e \in Emails /\ to \in Folders /\ Atomic!HttpMove(e, to)
<1> DEFINE t == tx[s]
           lost == Atomic!Lost(e, to)
           gained == Atomic!Gained(e, to)
<1>1. IInv /\ TypeOK /\ t.rows = FoldersOf(e)
    BY DEF AtomicInv, SidesInv, IInv
<1>2. lost = t.rows \ {to} /\ gained = {to} \ t.rows
    BY <1>1 DEF Atomic!Lost, Atomic!Gained, Atomic!FoldersOf, FoldersOf
<1>3. /\ e \in Emails /\ to \in Folders
      /\ \A f \in Folders, d \in Emails :
            /\ uid'[f][d] = IF d = e /\ f \in lost THEN 0
                            ELSE IF d = e /\ f \in gained THEN nextUID[f] ELSE uid[f][d]
            /\ modSeq'[f][d] = IF d = e /\ f \in lost THEN 0
                               ELSE IF d = e /\ f \in gained THEN highestModSeq[f] + 1
                               ELSE modSeq[f][d]
      /\ nextUID' = [f \in Folders |-> IF f \in gained THEN nextUID[f] + 1 ELSE nextUID[f]]
      /\ highestModSeq' = [f \in Folders |-> IF f \in lost \cup gained THEN highestModSeq[f] + 1
                                             ELSE highestModSeq[f]]
    BY <1>1, <1>2, HttpWrites
<1>4. /\ uid' \in [Folders -> [Emails -> Nat]]
      /\ modSeq' \in [Folders -> [Emails -> Nat]]
      /\ uid \in [Folders -> [Emails -> Nat]]
      /\ modSeq \in [Folders -> [Emails -> Nat]]
      /\ nextUID \in [Folders -> Nat] /\ highestModSeq \in [Folders -> Nat]
      /\ column \in [Emails -> Folders \cup {"unstored", "gone"}]
    BY <1>1, CommitType DEF Commit, TableStep, TypeOK
<1>5. column' = [column EXCEPT ![e] = to] /\ column[e] \in Folders
    BY DEF CommitHttp, Stored
<1> HIDE DEF t, lost, gained
<1>6. uid' = [g \in Folders |-> [uid[g] EXCEPT ![e] =
                IF g \in lost THEN 0 ELSE IF g \in gained THEN nextUID[g] ELSE @]]
    BY <1>3, <1>4
<1>7. modSeq' = [g \in Folders |-> [modSeq[g] EXCEPT ![e] =
                IF g \in lost THEN 0 ELSE IF g \in gained THEN highestModSeq[g] + 1 ELSE @]]
    BY <1>3, <1>4
<1>8. /\ nextUID' = [g \in Folders |-> nextUID[g] + (IF g \in gained THEN 1 ELSE 0)]
      /\ highestModSeq' =
            [g \in Folders |-> highestModSeq[g] + (IF g \in lost \cup gained THEN 1 ELSE 0)]
    BY <1>3, <1>4
<1>9. /\ [d \in Emails |-> IF column'[d] = "gone" THEN "purged" ELSE column'[d]]
            = [[d \in Emails |-> IF column[d] = "gone" THEN "purged" ELSE column[d]]
                    EXCEPT ![e] = to]
      /\ Atomic!Stored(e)
    <2>1. e \in Emails /\ to \in Folders /\ to # "gone" /\ column[e] # "gone"
        BY <1>3, <1>5, RowsAssumption
    <2>2. Atomic!Stored(e)
        BY <1>5, <2>1 DEF Atomic!Stored
    <2>3. \A d \in Emails : column'[d] = IF d = e THEN to ELSE column[d]
        BY <1>4, <1>5
    <2> QED
        BY <2>1, <2>2, <2>3
<1>10. \E isDeleted \in BOOLEAN :
        /\ IF Atomic!FoldersOf(e) = {}
           THEN ~isDeleted
           ELSE \E g \in Atomic!FoldersOf(e) : isDeleted <=> e \in [f \in Folders |-> {}][g]
        /\ [f \in Folders |-> {}] = [g \in Folders |->
                IF g \in lost THEN [f \in Folders |-> {}][g] \ {e}
                ELSE IF g \in gained /\ isDeleted THEN [f \in Folders |-> {}][g] \cup {e}
                ELSE [f \in Folders |-> {}][g]]
    <2>1. /\ IF Atomic!FoldersOf(e) = {}
             THEN ~FALSE
             ELSE \E g \in Atomic!FoldersOf(e) : FALSE <=> e \in [f \in Folders |-> {}][g]
          /\ [f \in Folders |-> {}] = [g \in Folders |->
                IF g \in lost THEN [f \in Folders |-> {}][g] \ {e}
                ELSE IF g \in gained /\ FALSE THEN [f \in Folders |-> {}][g] \cup {e}
                ELSE [f \in Folders |-> {}][g]]
        BY DEF Atomic!FoldersOf
    <2> QED
        BY <2>1
<1>11. Atomic!HttpMove(e, to)
    BY <1>3, <1>6, <1>7, <1>8, <1>9, <1>10 DEF Atomic!HttpMove, lost, gained
<1> QED
    BY <1>3, <1>11

LEMMA AtomicPurge ==
    ASSUME AtomicInv, NEW s \in Sessions, CommitPurge(s), Stored(tx[s].mail),
           NEW e, e = tx[s].mail, tx[s].rows = FoldersOf(e), tx[s].seen = FoldersOf(e)
    PROVE  e \in Emails /\ Atomic!DeletePermanently(e)
<1>1. IInv /\ TypeOK /\ RowsWhole
    BY DEF AtomicInv, SidesInv, IInv
<1>2. /\ e \in Emails
      /\ \A f \in Folders, d \in Emails :
            /\ uid'[f][d] = IF d = e /\ f \in FoldersOf(e) THEN 0 ELSE uid[f][d]
            /\ modSeq'[f][d] = IF d = e /\ f \in FoldersOf(e) THEN 0 ELSE modSeq[f][d]
      /\ nextUID' = nextUID
      /\ highestModSeq' =
            [f \in Folders |-> highestModSeq[f] + (IF f \in FoldersOf(e) THEN 1 ELSE 0)]
      /\ column' = [column EXCEPT ![e] = "gone"]
    BY <1>1, PurgeWrites
<1>3. /\ uid' \in [Folders -> [Emails -> Nat]]
      /\ modSeq' \in [Folders -> [Emails -> Nat]]
      /\ uid \in [Folders -> [Emails -> Nat]]
      /\ modSeq \in [Folders -> [Emails -> Nat]]
      /\ column \in [Emails -> Folders \cup {"unstored", "gone"}]
    BY <1>1, CommitType DEF Commit, TableStep, TypeOK
<1>4. column[e] \in Folders
    BY DEF Stored
<1>5. uid' = [f \in Folders |-> [d \in Emails |-> IF d \in {e} THEN 0 ELSE uid[f][d]]]
    BY <1>2, <1>3 DEF FoldersOf
<1>6. modSeq' = [f \in Folders |-> [d \in Emails |-> IF d \in {e} THEN 0 ELSE modSeq[f][d]]]
    BY <1>1, <1>2, <1>3 DEF FoldersOf, RowsWhole
<1>7. highestModSeq' = [f \in Folders |->
            highestModSeq[f] + Atomic!Cardinality({e} \cap Atomic!Rows(f))]
    <2>1. \A f \in Folders :
            {e} \cap Atomic!Rows(f) = IF f \in FoldersOf(e) THEN {e} ELSE {}
        BY <1>2 DEF Atomic!Rows, FoldersOf
    <2>2. \A f \in Folders :
            Atomic!Cardinality({e} \cap Atomic!Rows(f)) = IF f \in FoldersOf(e) THEN 1 ELSE 0
        BY <2>1, AtomicCardinality, FS_Singleton, FS_EmptySet
    <2> QED
        BY <1>2, <2>2
<1>8. /\ [d \in Emails |-> IF column'[d] = "gone" THEN "purged" ELSE column'[d]]
            = [d \in Emails |-> IF d \in {e} THEN "purged"
                                ELSE [c \in Emails |-> IF column[c] = "gone" THEN "purged"
                                                       ELSE column[c]][d]]
      /\ Atomic!Stored(e)
    BY <1>2, <1>3, <1>4, RowsAssumption DEF Atomic!Stored
<1>9. Atomic!PurgeRows({e})
    <2>1. [f \in Folders |-> {}] = [f \in Folders |-> [g \in Folders |-> {}][f] \ {e}]
        OBVIOUS
    <2>2. nextUID' = nextUID
        BY <1>2
    <2>3. [d \in Emails |-> IF column'[d] = "gone" THEN "purged" ELSE column'[d]]
            = [d \in Emails |-> IF d \in {e} THEN "purged"
                                ELSE [c \in Emails |-> IF column[c] = "gone" THEN "purged"
                                                       ELSE column[c]][d]]
        BY <1>8
    <2> QED
        BY <1>5, <1>6, <1>7, <2>1, <2>2, <2>3 DEF Atomic!PurgeRows
<1> QED
    BY <1>2, <1>8, <1>9 DEF Atomic!DeletePermanently

\* Each step is one of FolderStore, changes no table, or is that of a transaction
\* that a purge of its message overtook.
LEMMA ArriveAtomic ==
    ASSUME AtomicInv, NEW e \in Emails, NEW f \in Folders, Arrive(e, f)
    PROVE  AtomicStep
<1>1. TypeOK
    BY DEF AtomicInv, SidesInv, IInv
<1> QED
    BY <1>1, AtomicArrive DEF AtomicStep

LEMMA CommitAtomic ==
    ASSUME AtomicInv, NEW s \in Sessions, Commit(s), ~Overtaken(s)
    PROVE  AtomicStep \/ UNCHANGED tables
<1>1. /\ IInv /\ TypeOK /\ Stored(tx[s].mail)
      /\ tx[s].kind \in {"http", "purge"} => tx[s].rows = FoldersOf(tx[s].mail)
      /\ tx[s].kind = "purge" => tx[s].seen = FoldersOf(tx[s].mail)
    BY DEF AtomicInv, SidesInv, IInv, Overtaken
<1>t. /\ tx[s].mail \in Emails /\ tx[s].from \in Folders /\ tx[s].to \in Folders
      /\ Taken(tx[s]) \in SUBSET Emails
    BY <1>1, CommitType, RunningType DEF Taken
<1>e. PICK e \in Emails, from \in Folders, to \in Folders, S \in SUBSET Emails :
        e = tx[s].mail /\ from = tx[s].from /\ to = tx[s].to /\ S = Taken(tx[s])
    BY <1>t
<1>2. CASE CommitMove(s)
    <2>1. Atomic!Move(S, from, to)
        BY <1>1, <1>e, <1>2, AtomicMove
    <2>2. Atomic!ProtocolChange
        BY <2>1 DEF Atomic!ProtocolChange
    <2> QED
        BY <2>2 DEF AtomicStep
<1>3. CASE CommitCopy(s)
    <2>1. CASE tx[s].rows = {}
        BY <1>1, <1>3, <2>1, CopyWrites
    <2>2. CASE tx[s].rows # {}
        <3>1. {e} \in SUBSET Emails /\ Atomic!Copy({e}, from, to)
            BY <1>1, <1>e, <1>3, <2>2, AtomicCopy
        <3>2. Atomic!ProtocolChange
            BY <3>1 DEF Atomic!ProtocolChange
        <3> QED
            BY <3>2 DEF AtomicStep
    <2> QED
        BY <2>1, <2>2
<1>4. CASE CommitFlags(s)
    <2>1. CASE tx[s].rows = {}
        BY <1>1, <1>4, <2>1, FlagsWrites
    <2>2. CASE tx[s].rows # {}
        <3>1. {e} \in SUBSET Emails /\ Atomic!StoreFlags({e}, to)
            BY <1>1, <1>e, <1>4, <2>2, AtomicFlags
        <3>2. Atomic!ProtocolChange
            BY <3>1 DEF Atomic!ProtocolChange
        <3> QED
            BY <3>2 DEF AtomicStep
    <2> QED
        BY <2>1, <2>2
<1>5. CASE CommitHttp(s)
    <2>1. tx[s].kind = "http"
        BY <1>5 DEF CommitHttp, Committing
    <2>2. Atomic!HttpMove(e, to)
        BY <1>1, <1>e, <1>5, <2>1, AtomicHttp
    <2> QED
        BY <2>2 DEF AtomicStep
<1>6. CASE CommitPurge(s)
    <2>1. tx[s].kind = "purge"
        BY <1>6 DEF CommitPurge, Committing
    <2>2. Atomic!DeletePermanently(e)
        BY <1>1, <1>e, <1>6, <2>1, AtomicPurge
    <2> QED
        BY <2>2 DEF AtomicStep
<1> QED
    BY <1>2, <1>3, <1>4, <1>5, <1>6 DEF Commit

\* Serializability, for any number of messages, folders and sessions: whatever
\* statements of other transactions run between its own, a transaction commits
\* what FolderStore says it does in one step, unless it handles a message that a
\* purge deleted meanwhile, or is a purge or an HTTP move and the rows it found
\* are not those that are there.
THEOREM TransactionsAlwaysAtomic == Spec => TransactionsAreAtomic
<1>1. AtomicInv /\ [Next]_vars => [AtomicStep \/ \E s \in Sessions : Overtaken(s)]_tables
    <2> SUFFICES ASSUME AtomicInv, [Next]_vars
                 PROVE  AtomicStep \/ (\E s \in Sessions : Overtaken(s)) \/ UNCHANGED tables
        OBVIOUS
    <2>1. CASE UNCHANGED vars
        BY <2>1 DEF vars
    <2>2. CASE Next
        <3>1. IInv
            BY DEF AtomicInv, SidesInv
        <3>2. ASSUME NEW s \in Sessions, Commit(s)
              PROVE  AtomicStep \/ (\E t \in Sessions : Overtaken(t)) \/ UNCHANGED tables
            BY <3>2, CommitAtomic
        <3> QED
            BY <2>2, <3>1, <3>2, StepKinds, ArriveAtomic
    <2> QED
        BY <2>1, <2>2
<1> QED
    BY <1>1, AtomicCorrect, PTL DEF Spec, TransactionsAreAtomic
=============================================================================
