------------------------------ MODULE MailQuota ------------------------------
(***************************************************************************)
(* The mail allowance of a workspace.  Every SendEmail, ReceiveEmail and   *)
(* ImportEmails is followed by a pass that archives the oldest messages    *)
(* until the rest fits, in a transaction of its own; appends and JMAP      *)
(* copies store mail without one.  Passes of several requests run at the   *)
(* same time under READ COMMITTED: a pass adds up what is committed, or    *)
(* asks the shared quota service to, and then reads and updates one row    *)
(* after the other.                                                        *)
(*                                                                         *)
(* Code: enforceWorkspaceMailboxQuota and PurgeArchivedEmails of           *)
(* internal/service/email.go, and internal/grpcsvc/quota.go.               *)
(***************************************************************************)
EXTENDS Integers, FiniteSets, FiniteSetsExt

CONSTANTS
    Messages,     \* by created_at: a smaller number is an older message
    Size,         \* Size[m]: raw_size_bytes
    Passes,       \* requests whose quota pass may run at the same time
    OtherBytes,   \* what DysonFS keeps for the workspace, in a shared quota
    QuotaLimit    \* the plan's storage

ASSUME QuotaAssumption ==
    /\ IsFiniteSet(Messages) /\ Messages \subseteq Nat
    /\ Size \in [Messages -> Nat]
    /\ OtherBytes \in Nat /\ QuotaLimit \in Nat \ {0}

VARIABLES
    mail,   \* mail[m]: "none", "active", "archived" or "purged", as committed
    pass,   \* pass[p]: what a quota pass has read and done so far
    owed    \* messages stored since the last pass that took them into account

quotaVars == <<mail, pass, owed>>

NoMessage == 0
Idle == [at |-> "idle", used |-> 0, seen |-> {}, next |-> NoMessage, picked |-> {}]

QuotaTypeOK ==
    /\ mail \in [Messages -> {"none", "active", "archived", "purged"}]
    /\ pass \in [Passes -> [at : {"idle", "owed", "looping", "updating"}, used : Int,
                            seen : SUBSET Messages, next : Messages \cup {NoMessage},
                            picked : SUBSET Messages]]
    /\ owed \subseteq Messages

QuotaInit ==
    /\ mail = [m \in Messages |-> "none"]
    /\ pass = [p \in Passes |-> Idle]
    /\ owed = {}

Active == {m \in Messages : mail[m] = "active"}
\* Stored at some time: what a sum taken now has either counted or left out as
\* archived or purged.
Stored == {m \in Messages : mail[m] # "none"}

Bytes(S) == MapThenSumSet(LAMBDA m : Size[m], S)

-----------------------------------------------------------------------------

\* SendEmail, ReceiveEmail or ImportEmails: the rows of a request are
\* committed, and its pass comes next. created_at was set before the commit, so
\* an older message may come after a younger one.
StoreCounted(p, m) ==
    /\ pass[p].at = "idle"
    /\ mail[m] = "none"
    /\ mail' = [mail EXCEPT ![m] = "active"]
    /\ owed' = owed \cup {m}
    /\ pass' = [pass EXCEPT ![p].at = "owed"]

\* AppendProtocolMessage and CopyEmail.
StoreUncounted(m) ==
    /\ mail[m] = "none"
    /\ mail' = [mail EXCEPT ![m] = "active"]
    /\ owed' = owed \cup {m}
    /\ UNCHANGED pass

\* The sum: this service's query, or the shared quota service's, which asks
\* quota.go and adds the files.
AddUp(p) ==
    /\ pass[p].at = "owed"
    /\ pass' = [pass EXCEPT ![p] = [Idle EXCEPT
            !.at = "looping", !.used = Bytes(Active) + OtherBytes, !.seen = Stored]]
    /\ UNCHANGED <<mail, owed>>

\* What the query of a pass finds active: its own updates are not.
Visible(p) == Active \ pass[p].picked

\* Mutant: the newest message is archived.
FoundNewest(p, m) == m \in Visible(p) /\ \A n \in Visible(p) : n <= m

\* ORDER BY created_at.
Found(p, m) == m \in Visible(p) /\ \A n \in Visible(p) : m <= n

FindOldest(p) ==
    /\ pass[p].at = "looping"
    /\ pass[p].used > QuotaLimit
    /\ \E m \in Messages :
        /\ Found(p, m)
        /\ pass' = [pass EXCEPT ![p].next = m, ![p].at = "updating"]
    /\ UNCHANGED <<mail, owed>>

\* The update waits for the row lock of another pass. A row that is gone by
\* then, or was archived by the other pass, is counted all the same.
Archive(p) ==
    LET m == pass[p].next IN
    /\ pass[p].at = "updating"
    /\ \A q \in Passes \ {p} : m \notin pass[q].picked
    /\ pass' = [pass EXCEPT
            ![p].picked = @ \cup {m},
            ![p].used = @ - Size[m],
            ![p].next = NoMessage,
            ![p].at = "looping"]
    /\ UNCHANGED <<mail, owed>>

\* Mutant: a pass ends with the first message it archived.
FitsSooner(p) == pass[p].used <= QuotaLimit \/ pass[p].picked # {}

Fits(p) == pass[p].used <= QuotaLimit

CommitPass(p) ==
    /\ pass[p].at = "looping"
    /\ Fits(p)
    /\ mail' = [m \in Messages |->
            IF m \in pass[p].picked /\ mail[m] = "active" THEN "archived" ELSE mail[m]]
    /\ owed' = owed \ pass[p].seen
    /\ pass' = [pass EXCEPT ![p] = Idle]

\* The pass fails and rolls back, or the process dies before it. When nothing
\* is left to archive, this is the only way out.
FailPass(p) ==
    /\ pass[p].at # "idle"
    /\ pass' = [pass EXCEPT ![p] = Idle]
    /\ UNCHANGED <<mail, owed>>

\* PurgeArchivedEmails, some time after the deadline; DeleteEmailPermanently,
\* EmptyTrash and EXPUNGE for mail that is not archived.
PurgeMessage(m) ==
    /\ mail[m] \in {"active", "archived"}
    /\ \A p \in Passes : m \notin pass[p].picked
    /\ mail' = [mail EXCEPT ![m] = "purged"]
    /\ UNCHANGED <<pass, owed>>

QuotaNext ==
    \/ \E p \in Passes :
        \/ \E m \in Messages : StoreCounted(p, m)
        \/ AddUp(p) \/ FindOldest(p) \/ Archive(p) \/ CommitPass(p) \/ FailPass(p)
    \/ \E m \in Messages : StoreUncounted(m) \/ PurgeMessage(m)

QuotaSpec == QuotaInit /\ [][QuotaNext]_quotaVars
-----------------------------------------------------------------------------

\* Once every stored message has been taken into account by a pass that
\* committed, active mail fits the plan, although passes that ran at the same
\* time worked on sums of their own and counted the same rows.
MailFitsThePlan ==
    owed = {} /\ Active # {} => Bytes(Active) + OtherBytes <= QuotaLimit

\* A pass retains the newest: when it commits, no message it had seen is left
\* active that is older than one it archived.
NewestAreRetained ==
    [][\A p \in Passes : CommitPass(p) =>
        \A m \in pass[p].picked, n \in pass[p].seen : n < m => mail'[n] # "active"]_quotaVars
=============================================================================
