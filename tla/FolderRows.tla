----------------------------- MODULE FolderRows -----------------------------
(***************************************************************************)
(* The transactions of FolderStore taken apart into their SQL statements,  *)
(* as PostgreSQL runs them under Read Committed, the isolation level the   *)
(* code leaves in force: a statement sees what is committed when it        *)
(* begins, a statement that changes a row or reads it FOR UPDATE waits for *)
(* the row's lock and then looks at the row again, and locks are kept to   *)
(* the end.  A transaction handles one message here, and every folder is   *)
(* one that emails.folder can name.                                        *)
(*                                                                         *)
(* Code: internal/service/protocol_store.go and purgeEmailRows in          *)
(* internal/service/email.go.  PostgreSQL is modelled from its use.  What  *)
(* a transaction has written is visible to nobody before it commits, and   *)
(* none of them reads what it wrote itself: so its commit makes all of its *)
(* changes.                                                                *)
(***************************************************************************)
EXTENDS Naturals, FiniteSets, FiniteSetsExt

CONSTANTS
    Emails,
    Folders,
    Sessions,    \* database sessions, each with one transaction at a time
    Kinds,       \* the transactions that clients ask for
    MaxChanges   \* bound of the mod-sequences that the folders count

AllKinds == {"move", "copy", "flags", "http", "purge"}

ASSUME RowsAssumption ==
    /\ IsFiniteSet(Emails)
    /\ IsFiniteSet(Folders)
    /\ Folders \cap {"unstored", "gone"} = {}
    /\ Kinds \subseteq AllKinds

VARIABLES
    column,         \* emails.folder, "unstored" before and "gone" after the row exists
    uid,            \* uid[f][e] of e's row in f, 0 if there is none
    modSeq,         \* modSeq[f][e], 0 if there is none
    nextUID,        \* mail_folders.next_uid
    highestModSeq,  \* mail_folders.highest_mod_seq
    held,           \* held[s]: the row locks of session s
    tx,             \* tx[s]: its transaction, and what that has read
    given,          \* history: <<f, u, e>> when e was in f under UID u
    copied,         \* history: messages that a client has copied
    late            \* history: <<f, e>> when a purge of e did not see it come into f

tables == <<column, uid, modSeq, nextUID, highestModSeq>>
history == <<given, copied, late>>
vars == <<tables, held, tx, history>>

Steps == {"target", "read", "insert", "row", "email", "find", "rows", "losses",
          "commit"}

Transactions ==
    [kind : AllKinds, step : Steps, mail : Emails, from : Folders, to : Folders,
     source : Nat,             \* highest_mod_seq read of `from`
     next : Nat, high : Nat,   \* both counters read of `to`
     old : Nat,                \* UID read of the row in `from`
     rows : SUBSET Folders,    \* folders whose row of the message it found
     seen : SUBSET Folders]    \* those a purge found before

NoTx == [step |-> "idle"]

Locks ==
    ({"folder"} \X Folders) \cup ({"row"} \X Folders \X Emails) \cup ({"email"} \X Emails)

\* The state has its types, and a row is locked by one session at a time.
TypeOK ==
    /\ column \in [Emails -> Folders \cup {"unstored", "gone"}]
    /\ uid \in [Folders -> [Emails -> Nat]]
    /\ modSeq \in [Folders -> [Emails -> Nat]]
    /\ nextUID \in [Folders -> Nat]
    /\ highestModSeq \in [Folders -> Nat]
    /\ held \in [Sessions -> SUBSET Locks]
    /\ \A s, t \in Sessions : s # t => held[s] \cap held[t] = {}
    /\ tx \in [Sessions -> Transactions \cup {NoTx}]
    /\ given \subseteq Folders \X Nat \X Emails
    /\ copied \subseteq Emails
    /\ late \subseteq Folders \X Emails

Init ==
    /\ column = [e \in Emails |-> "unstored"]
    /\ uid = [f \in Folders |-> [e \in Emails |-> 0]]
    /\ modSeq = [f \in Folders |-> [e \in Emails |-> 0]]
    /\ nextUID = [f \in Folders |-> 1]
    /\ highestModSeq = [f \in Folders |-> 1]
    /\ held = [s \in Sessions |-> {}]
    /\ tx = [s \in Sessions |-> NoTx]
    /\ given = {}
    /\ copied = {}
    /\ late = {}

-----------------------------------------------------------------------------
(* Locks and transactions.                                                  *)

FolderLock(f) == <<"folder", f>>
RowLock(f, e) == <<"row", f, e>>
EmailLock(e) == <<"email", e>>

Free(s, x) == \A t \in Sessions \ {s} : x \notin held[t]

\* Mutant: FOR SHARE where the code says FOR UPDATE.
LockShared(s, X) == held' = [held EXCEPT ![s] = @ \cup X]

\* What INSERT, UPDATE, DELETE and SELECT ... FOR UPDATE do.
Lock(s, X) ==
    /\ \A x \in X : Free(s, x)
    /\ held' = [held EXCEPT ![s] = @ \cup X]

FoldersOf(e) == {f \in Folders : uid[f][e] # 0}

Stored(e) == column[e] \in Folders

\* A protocol client names messages it has been shown in the folder.
Shown(f, e) == \E u \in 1..nextUID[f] : <<f, u, e>> \in given

New(kind, step, e, from, to) ==
    [kind |-> kind, step |-> step, mail |-> e, from |-> from, to |-> to,
     source |-> 0, next |-> 0, high |-> 0, old |-> 0, rows |-> {}, seen |-> {}]

Begin(s, t) ==
    /\ tx[s] = NoTx
    /\ t.kind \in Kinds
    /\ tx' = [tx EXCEPT ![s] = t]

At(s, step) == tx[s] # NoTx /\ tx[s].step = step

End(s) ==
    /\ tx' = [tx EXCEPT ![s] = NoTx]
    /\ held' = [held EXCEPT ![s] = {}]

\* The transaction rolls back: a unique key is taken, it is the victim of a
\* deadlock, or the request is cancelled.
Abort(s) ==
    /\ tx[s] # NoTx
    /\ End(s)
    /\ UNCHANGED <<tables, history>>

-----------------------------------------------------------------------------
(* First statements.                                                        *)

\* ReceiveEmail and AppendProtocolMessage: of their statements only the lock on
\* the folder meets others, so the transaction is one action.
Arrive(e, f) ==
    /\ column[e] = "unstored"
    /\ \A s \in Sessions : FolderLock(f) \notin held[s]
    /\ column' = [column EXCEPT ![e] = f]
    /\ uid' = [uid EXCEPT ![f][e] = nextUID[f]]
    /\ modSeq' = [modSeq EXCEPT ![f][e] = highestModSeq[f] + 1]
    /\ nextUID' = [nextUID EXCEPT ![f] = @ + 1]
    /\ highestModSeq' = [highestModSeq EXCEPT ![f] = @ + 1]
    /\ given' = given \cup {<<f, nextUID[f], e>>}
    /\ UNCHANGED <<held, tx, copied, late>>

\* Mutant: SELECT of the source folder without FOR UPDATE.
BeginTransferUnlocked(s, kind, e, from, to) ==
    /\ from # to
    /\ Shown(from, e)
    /\ Begin(s, [New(kind, "target", e, from, to) EXCEPT !.source = highestModSeq[from]])
    /\ UNCHANGED <<tables, held, history>>

\* MoveProtocolMessages and CopyProtocolMessages lock the source folder first.
BeginTransfer(s, kind, e, from, to) ==
    /\ from # to
    /\ Shown(from, e)
    /\ Begin(s, [New(kind, "target", e, from, to) EXCEPT !.source = highestModSeq[from]])
    /\ Lock(s, {FolderLock(from)})
    /\ UNCHANGED <<tables, history>>

\* StoreProtocolFlags.
BeginFlags(s, e, f) ==
    /\ Shown(f, e)
    /\ Begin(s, New("flags", "target", e, f, f))
    /\ UNCHANGED <<tables, held, history>>

\* moveEmailFolderTx locks the message; one that is gone is nothing to do.
BeginHttp(s, e, f) ==
    /\ Stored(e)
    /\ Begin(s, New("http", "target", e, f, f))
    /\ Lock(s, {EmailLock(e)})
    /\ UNCHANGED <<tables, history>>

\* purgeEmailRows reads the memberships of the message; without any it goes on
\* to the message itself.
BeginPurge(s, e) ==
    /\ Stored(e)
    /\ LET step == IF FoldersOf(e) = {} THEN "email" ELSE "find"
           t == New("purge", step, e, column[e], column[e])
       IN  Begin(s, [t EXCEPT !.seen = FoldersOf(e)])
    /\ UNCHANGED <<tables, held, history>>

-----------------------------------------------------------------------------
(* Statements that several transactions share.                              *)

GoTo(s, step) == tx' = [tx EXCEPT ![s].step = step]

\* Mutant: SELECT of the target folder without FOR UPDATE.
LockTargetNot(s) ==
    /\ At(s, "target")
    /\ tx' = [tx EXCEPT ![s].step = IF tx[s].kind = "http" THEN "find" ELSE "read",
                        ![s].next = nextUID[tx[s].to],
                        ![s].high = highestModSeq[tx[s].to]]
    /\ UNCHANGED <<tables, held, history>>

\* SELECT ... FOR UPDATE of the folder that gets or keeps the row.
LockTarget(s) ==
    /\ At(s, "target")
    /\ Lock(s, {FolderLock(tx[s].to)})
    /\ tx' = [tx EXCEPT ![s].step = IF tx[s].kind = "http" THEN "find" ELSE "read",
                        ![s].next = nextUID[tx[s].to],
                        ![s].high = highestModSeq[tx[s].to]]
    /\ UNCHANGED <<tables, history>>

\* The rows of a transfer or flag change are read without locking them.
ReadRow(s) ==
    /\ At(s, "read")
    /\ LET t == tx[s]
           found == uid[t.from][t.mail] # 0
           step == CASE ~found -> "commit"
                     [] found /\ t.kind = "flags" -> "row"
                     [] OTHER -> "insert"
       IN  tx' = [tx EXCEPT ![s].step = step,
                            ![s].old = uid[t.from][t.mail],
                            ![s].rows = IF found THEN {t.from} ELSE {}]
    /\ UNCHANGED <<tables, held, history>>

\* Mutant: INSERT ... ON CONFLICT DO UPDATE.
UpsertRow(s) ==
    /\ At(s, "insert")
    /\ Lock(s, {RowLock(tx[s].to, tx[s].mail)})
    /\ GoTo(s, IF tx[s].kind = "move" THEN "row" ELSE "commit")
    /\ UNCHANGED <<tables, history>>

\* INSERT waits for whoever deletes the same row, and fails (Abort) if the row
\* is there.
InsertRow(s) ==
    /\ At(s, "insert")
    /\ Lock(s, {RowLock(tx[s].to, tx[s].mail)})
    /\ uid[tx[s].to][tx[s].mail] = 0
    /\ GoTo(s, IF tx[s].kind = "move" THEN "row" ELSE "commit")
    /\ UNCHANGED <<tables, history>>

\* The DELETE of a move and the UPDATE of a flag change.
LockRow(s) ==
    /\ At(s, "row")
    /\ Lock(s, {RowLock(tx[s].from, tx[s].mail)})
    /\ GoTo(s, IF tx[s].kind = "move" THEN "email" ELSE "commit")
    /\ UNCHANGED <<tables, history>>

\* updateEmailFolderTx of a move, and the DELETE of a purged message.
LockEmail(s) ==
    /\ At(s, "email")
    /\ Lock(s, {EmailLock(tx[s].mail)})
    /\ GoTo(s, "commit")
    /\ UNCHANGED <<tables, history>>

\* Mutant: the DELETE of a purge names the memberships read before.
FindRowsSeen(s) ==
    /\ At(s, "find")
    /\ LET rows == IF tx[s].kind = "purge" THEN tx[s].seen ELSE FoldersOf(tx[s].mail)
       IN  tx' = [tx EXCEPT ![s].step = "rows", ![s].rows = rows]
    /\ UNCHANGED <<tables, held, history>>

\* What the SELECT ... FOR UPDATE of an HTTP move and the DELETE of a purge see
\* as they begin ...
FindRows(s) ==
    /\ At(s, "find")
    /\ tx' = [tx EXCEPT ![s].step = "rows", ![s].rows = FoldersOf(tx[s].mail)]
    /\ UNCHANGED <<tables, held, history>>

\* ... and what is left of it when they have the locks.
LockRows(s) ==
    /\ At(s, "rows")
    /\ Lock(s, {RowLock(f, tx[s].mail) : f \in tx[s].rows})
    /\ tx' = [tx EXCEPT ![s].step = "losses", ![s].rows = @ \cap FoldersOf(tx[s].mail)]
    /\ UNCHANGED <<tables, history>>

\* Folders whose mod-sequence the transaction counts up: those an HTTP move
\* takes the message out of, those in which a purge saw it first.
Losers(t) == IF t.kind = "purge" THEN t.seen ELSE t.rows \ {t.to}

LockLosers(s) ==
    /\ At(s, "losses")
    /\ Lock(s, {FolderLock(f) : f \in Losers(tx[s])})
    /\ GoTo(s, CASE tx[s].kind = "purge" -> "email"
                 [] tx[s].kind # "purge" /\ tx[s].to \in tx[s].rows -> "commit"
                 [] OTHER -> "insert")
    /\ UNCHANGED <<tables, history>>

-----------------------------------------------------------------------------
(* Commits.                                                                 *)

Committing(s, kind) == At(s, "commit") /\ tx[s].kind = kind

\* A purge of the message has begun to delete its rows, or is over.
PurgeHasLooked(e) ==
    \/ ~Stored(e)
    \/ \E s \in Sessions :
        /\ tx[s] # NoTx
        /\ tx[s].kind = "purge" /\ tx[s].mail = e /\ tx[s].step # "find"

\* The rows of message e become those with the UIDs and mod-sequences u and m.
SetRows(e, u, m) ==
    /\ uid' = [f \in Folders |-> [uid[f] EXCEPT ![e] = u[f]]]
    /\ modSeq' = [f \in Folders |-> [modSeq[f] EXCEPT ![e] = m[f]]]
    /\ given' = given \cup {<<f, u[f], e>> : f \in {g \in Folders : u[g] # 0}}
    /\ late' = IF PurgeHasLooked(e)
               THEN late \cup {<<f, e>> : f \in {g \in Folders : uid[g][e] = 0 /\ u[g] # 0}}
               ELSE late

UidsOf(e) == [f \in Folders |-> uid[f][e]]
ModSeqsOf(e) == [f \in Folders |-> modSeq[f][e]]

\* Save(&source) and Save(&target) write what was read, or what became of it.
CommitMove(s) ==
    /\ Committing(s, "move")
    /\ LET t == tx[s]
           found == t.rows # {}
           one == IF found THEN 1 ELSE 0
       IN  /\ IF found
              THEN SetRows(t.mail,
                       [UidsOf(t.mail) EXCEPT ![t.to] = t.next, ![t.from] = 0],
                       [ModSeqsOf(t.mail) EXCEPT ![t.to] = t.high + 1, ![t.from] = 0])
              ELSE UNCHANGED <<uid, modSeq, given, late>>
           /\ nextUID' = [nextUID EXCEPT ![t.to] = t.next + one]
           /\ highestModSeq' = [highestModSeq EXCEPT ![t.to] = t.high + one,
                                                     ![t.from] = t.source + 1]
           /\ column' = IF found /\ Stored(t.mail) THEN [column EXCEPT ![t.mail] = t.to]
                        ELSE column
    /\ End(s)
    /\ UNCHANGED copied

CommitCopy(s) ==
    /\ Committing(s, "copy")
    /\ LET t == tx[s]
           one == IF t.rows # {} THEN 1 ELSE 0
       IN  /\ IF t.rows # {}
              THEN SetRows(t.mail,
                       [UidsOf(t.mail) EXCEPT ![t.to] = t.next],
                       [ModSeqsOf(t.mail) EXCEPT ![t.to] = t.high + 1])
              ELSE UNCHANGED <<uid, modSeq, given, late>>
           /\ nextUID' = [nextUID EXCEPT ![t.to] = t.next + one]
           /\ highestModSeq' = [highestModSeq EXCEPT ![t.to] = t.high + one]
           /\ copied' = copied \cup {t.mail}
    /\ End(s)
    /\ UNCHANGED column

\* tx.Save(&row) inserts the row it has read if there is none to update.
CommitFlags(s) ==
    /\ Committing(s, "flags")
    /\ LET t == tx[s]
           one == IF t.rows # {} THEN 1 ELSE 0
       IN  /\ IF t.rows # {}
              THEN SetRows(t.mail,
                       [UidsOf(t.mail) EXCEPT ![t.to] = t.old],
                       [ModSeqsOf(t.mail) EXCEPT ![t.to] = t.high + 1])
              ELSE UNCHANGED <<uid, modSeq, given, late>>
           /\ nextUID' = [nextUID EXCEPT ![t.to] = t.next]
           /\ highestModSeq' = [highestModSeq EXCEPT ![t.to] = t.high + one]
    /\ End(s)
    /\ UNCHANGED <<column, copied>>

CommitHttp(s) ==
    /\ Committing(s, "http")
    /\ LET t == tx[s]
           lost == Losers(t)
           gained == {t.to} \ t.rows
       IN  /\ SetRows(t.mail,
                  [f \in Folders |-> IF f \in lost THEN 0
                                     ELSE IF f \in gained THEN t.next ELSE uid[f][t.mail]],
                  [f \in Folders |-> IF f \in lost THEN 0
                                     ELSE IF f \in gained THEN t.high + 1 ELSE modSeq[f][t.mail]])
           /\ nextUID' = [f \in Folders |-> IF f \in gained THEN t.next + 1 ELSE nextUID[f]]
           /\ highestModSeq' = [f \in Folders |->
                  IF f \in lost THEN highestModSeq[f] + 1
                  ELSE IF f \in gained THEN t.high + 1 ELSE highestModSeq[f]]
           /\ column' = [column EXCEPT ![t.mail] = t.to]
    /\ End(s)
    /\ UNCHANGED copied

CommitPurge(s) ==
    /\ Committing(s, "purge")
    /\ LET t == tx[s]
       IN  /\ SetRows(t.mail,
                  [f \in Folders |-> IF f \in t.rows THEN 0 ELSE uid[f][t.mail]],
                  [f \in Folders |-> IF f \in t.rows THEN 0 ELSE modSeq[f][t.mail]])
           /\ highestModSeq' =
                  [f \in Folders |-> highestModSeq[f] + (IF f \in Losers(t) THEN 1 ELSE 0)]
           /\ column' = [column EXCEPT ![t.mail] = "gone"]
    /\ End(s)
    /\ UNCHANGED <<nextUID, copied>>

-----------------------------------------------------------------------------

Ask(s) ==
    \/ \E e \in Emails, f \in Folders :
        \/ \E kind \in {"move", "copy"}, to \in Folders : BeginTransfer(s, kind, e, f, to)
        \/ BeginFlags(s, e, f)
        \/ BeginHttp(s, e, f)
    \/ \E e \in Emails : BeginPurge(s, e)

Execute(s) ==
    \/ LockTarget(s)
    \/ ReadRow(s)
    \/ InsertRow(s)
    \/ LockRow(s)
    \/ LockEmail(s)
    \/ FindRows(s)
    \/ LockRows(s)
    \/ LockLosers(s)

Commit(s) ==
    \/ CommitMove(s)
    \/ CommitCopy(s)
    \/ CommitFlags(s)
    \/ CommitHttp(s)
    \/ CommitPurge(s)

Bounded ==
    MapThenSumSet(LAMBDA f : highestModSeq[f] - 1, Folders) <= MaxChanges

Next ==
    /\ \/ \E e \in Emails, f \in Folders : Arrive(e, f)
       \/ \E s \in Sessions : Ask(s) \/ Execute(s) \/ Commit(s) \/ Abort(s)
    /\ Bounded'

Spec == Init /\ [][Next]_vars

-----------------------------------------------------------------------------
(* Safety                                                                   *)

\* A UID of a folder names one message for ever, whatever runs at once: a row
\* that a flag change brings back has its own, and every new row a fresh one.
UidsNameOneMessage ==
    \A x, y \in given : x[1] = y[1] /\ x[2] = y[2] => x[3] = y[3]

\* A folder never reports a row added or changed under a mod-sequence it had
\* reached before, nor loses a row of a message that is still stored without
\* counting up.
ChangesAreVisible ==
    [][\A f \in Folders :
        /\ highestModSeq'[f] >= highestModSeq[f]
        /\ \A e \in Emails :
            <<uid[f][e], modSeq[f][e]>>' # <<uid[f][e], modSeq[f][e]>> =>
                \/ uid'[f][e] = 0 /\ ~Stored(e)'
                \/ uid'[f][e] = 0 /\ highestModSeq'[f] > highestModSeq[f]
                \/ modSeq'[f][e] \in highestModSeq[f] + 1 .. highestModSeq'[f]]_vars

\* Whatever moves it at the same time from whichever side, protocol clients find
\* a stored message in the folder in which the HTTP app shows it, and in no
\* other unless it was copied there.  A message that was deleted for good they
\* find in no folder, unless its row came there behind the back of the purge,
\* after the DELETE had looked for rows.
SidesAgree ==
    \A e \in Emails :
        /\ Stored(e) =>
            column[e] \in FoldersOf(e) /\ (e \in copied \/ FoldersOf(e) = {column[e]})
        /\ column[e] = "gone" => \A f \in FoldersOf(e) : <<f, e>> \in late

-----------------------------------------------------------------------------
(* The transactions as FolderStore has them.                                *)

\* Here emails.folder can name every folder, no flag of a row is kept, and a
\* purge knows its message.
Atomic == INSTANCE FolderStore WITH
    DefaultFolders <- Folders,
    folder <- [e \in Emails |-> IF column[e] = "gone" THEN "purged" ELSE column[e]],
    deleted <- [f \in Folders |-> {}],
    listed <- [s \in Sessions |-> {}]

\* The actions of FolderStore that are taken apart here.
AtomicStep ==
    \/ \E e \in Emails, f \in Folders :
        Atomic!AppendMessage(e, f, FALSE) \/ Atomic!HttpMove(e, f)
    \/ Atomic!ProtocolChange
    \/ \E e \in Emails : Atomic!DeletePermanently(e)

\* A transaction commits although a purge of its message was faster; or the rows
\* that an HTTP move or a purge found are not those that are there, because a
\* COPY or another transaction put the message into a folder in which it had no
\* row to lock; or a purge deletes other rows than it counted.
Overtaken(s) ==
    /\ Commit(s)
    /\ \/ ~Stored(tx[s].mail)
       \/ tx[s].kind \in {"http", "purge"} /\ tx[s].rows # FoldersOf(tx[s].mail)
       \/ tx[s].kind = "purge" /\ tx[s].rows # tx[s].seen

\* Serializability: whatever statements of other transactions run between its
\* own, a transaction that commits has done to the tables what FolderStore says
\* it does in one step to the tables as they are when it commits. The exceptions
\* are those of Overtaken: a purge and what happens to its message meanwhile, and
\* an HTTP move that leaves the row which a COPY put into another folder.
TransactionsAreAtomic ==
    [][AtomicStep \/ \E s \in Sessions : Overtaken(s)]_tables
=============================================================================
