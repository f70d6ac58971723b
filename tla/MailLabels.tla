------------------------------ MODULE MailLabels ------------------------------
(***************************************************************************)
(* Tags of an account, which IMAP and JMAP clients see as keywords.  A     *)
(* client's keyword names every tag that has the name in any case, since   *)
(* nothing keeps two requests from creating the same one; storing it       *)
(* creates the tag if there is none.  The statements of a transaction see  *)
(* what others have committed in between (READ COMMITTED).                 *)
(*                                                                         *)
(* Code: internal/service/keywords.go; CreateLabel, DeleteLabel and        *)
(* SetEmailLabel of internal/service/email.go.                             *)
(***************************************************************************)
EXTENDS Naturals, FiniteSets

CONSTANTS
    Labels,     \* rows of email_labels, used or not
    Keywords,   \* names in lower case
    Atoms,      \* those IMAP can carry
    Tagged,     \* messages
    Taggers     \* requests that change tags

ASSUME LabelsAssumption == Atoms \subseteq Keywords /\ Keywords # {}

VARIABLES
    label,   \* label[l]: "free", "pending" (not committed yet), "live" or "deleted"
    name,    \* name[l]
    on,      \* on[m]: labels with a mapping to m
    tag      \* tag[c]: the transaction of c, its statements so far

labelVars == <<label, name, on, tag>>

NoTag == [at |-> "idle", op |-> "add", key |-> CHOOSE k \in Keywords : TRUE, mails |-> {},
          ids |-> {}, created |-> {}, drops |-> {}, adds |-> {}, late |-> {}]

LabelsTypeOK ==
    /\ label \in [Labels -> {"free", "pending", "live", "deleted"}]
    /\ name \in [Labels -> Keywords]
    /\ on \in [Tagged -> SUBSET Labels]
    /\ tag \in [Taggers -> [
            at : {"idle", "resolve", "drop", "attach", "commit"},
            op : {"add", "remove", "replace", "set", "unset"}, key : Keywords,
            mails : SUBSET Tagged, ids : SUBSET Labels, created : SUBSET Labels,
            drops : SUBSET (Tagged \X Labels), adds : SUBSET (Tagged \X Labels),
            late : SUBSET (Tagged \X Labels)]]

LabelsInit ==
    /\ label = [l \in Labels |-> "free"]
    /\ name \in [Labels -> Keywords]
    /\ on = [m \in Tagged |-> {}]
    /\ tag = [c \in Taggers |-> NoTag]

Mapped == {x \in Tagged \X Labels : x[2] \in on[x[1]]}
Live(k) == {l \in Labels : label[l] = "live" /\ name[l] = k}

-----------------------------------------------------------------------------

\* CreateLabel looks for no tag of that name. The name of a row is settled with it.
CreateLabel(l) ==
    /\ label[l] = "free"
    /\ label' = [label EXCEPT ![l] = "live"]
    /\ UNCHANGED <<name, on, tag>>

\* DeleteLabel: the mappings it finds, and the tag.
DeleteLabel(l) ==
    /\ label[l] = "live"
    /\ label' = [label EXCEPT ![l] = "deleted"]
    /\ on' = [m \in Tagged |-> on[m] \ {l}]
    /\ UNCHANGED <<name, tag>>

\* SetProtocolKeywords, for the messages that are in the client's folder.
SetKeyword(c, op, k, S) ==
    /\ tag[c].at = "idle"
    /\ op \in {"add", "remove", "replace"}
    /\ S # {}
    /\ tag' = [tag EXCEPT ![c] = [NoTag EXCEPT
            !.at = IF op = "add" THEN "attach" ELSE "resolve",
            !.op = op, !.key = k, !.mails = S]]
    /\ UNCHANGED <<label, name, on>>

\* SetEmailLabel has found the message and the tag.
SetEmailLabel(c, op, l, m) ==
    /\ tag[c].at = "idle"
    /\ op \in {"set", "unset"}
    /\ label[l] = "live"
    /\ tag' = [tag EXCEPT ![c] = [NoTag EXCEPT
            !.at = IF op = "set" THEN "attach" ELSE "drop",
            !.op = op, !.key = name[l], !.mails = {m}, !.ids = {l}]]
    /\ UNCHANGED <<label, name, on>>

\* Mutant: a keyword names the first tag found.
OneDoomed(c) ==
    IF tag[c].op = "remove"
    THEN {l \in Live(tag[c].key) : l = CHOOSE x \in Live(tag[c].key) : TRUE}
    ELSE {l \in UNION {on[m] : m \in tag[c].mails} :
            label[l] = "live" /\ name[l] \in Atoms \ {tag[c].key}}

\* labelIDsTx for a removal; releaseKeywordsTx, for a replacement, takes the tags
\* that IMAP can carry and the client did not list.
Doomed(c) ==
    IF tag[c].op = "remove" THEN Live(tag[c].key)
    ELSE {l \in UNION {on[m] : m \in tag[c].mails} :
            label[l] = "live" /\ name[l] \in Atoms \ {tag[c].key}}

Resolve(c) ==
    /\ tag[c].at = "resolve"
    /\ tag' = [tag EXCEPT ![c].ids = Doomed(c), ![c].at = "drop"]
    /\ UNCHANGED <<label, name, on>>

\* The DELETE takes the mappings committed by now.
Drop(c) ==
    /\ tag[c].at = "drop"
    /\ tag' = [tag EXCEPT
            ![c].drops = Mapped \cap (tag[c].mails \X tag[c].ids),
            ![c].at = IF tag[c].op = "replace" THEN "attach" ELSE "commit"]
    /\ UNCHANGED <<label, name, on>>

Attaches(c, l) == tag[c].at = "attach" /\ tag' = [tag EXCEPT
    ![c].adds = (tag[c].mails \X {l}) \ (Mapped \ tag[c].drops),
    ![c].created = IF label[l] = "free" THEN {l} ELSE {},
    ![c].at = "commit"]

\* findOrCreateLabelTx finds a tag, whichever of several, or SetEmailLabel has
\* its own; FirstOrCreate adds the mappings that are missing.
AttachFound(c, l) ==
    /\ IF tag[c].op = "set" THEN l \in tag[c].ids ELSE l \in Live(tag[c].key)
    /\ Attaches(c, l)
    /\ UNCHANGED <<label, name, on>>

\* There is none, so it is created. Another transaction may do the same.
AttachNew(c, l) ==
    /\ tag[c].op # "set"
    /\ Live(tag[c].key) = {}
    /\ label[l] = "free" /\ name[l] = tag[c].key
    /\ Attaches(c, l)
    /\ label' = [label EXCEPT ![l] = "pending"]
    /\ UNCHANGED <<name, on>>

\* A mapping that another transaction has added meanwhile is a duplicate key.
CommitTag(c) ==
    /\ tag[c].at = "commit"
    /\ tag[c].adds \cap (Mapped \ tag[c].drops) = {}
    /\ label' = [l \in Labels |-> IF l \in tag[c].created THEN "live" ELSE label[l]]
    /\ on' = [m \in Tagged |->
            {l \in Labels : <<m, l>> \in (Mapped \ tag[c].drops) \cup tag[c].adds}]
    /\ tag' = [d \in Taggers |->
            IF d = c THEN NoTag
            ELSE IF tag[d].at \in {"idle", "resolve"} THEN tag[d]
            ELSE [tag[d] EXCEPT !.late = @ \cup tag[c].adds]]
    /\ UNCHANGED name

AbortTag(c) ==
    /\ tag[c].at # "idle"
    /\ label' = [l \in Labels |-> IF l \in tag[c].created THEN "free" ELSE label[l]]
    /\ tag' = [tag EXCEPT ![c] = NoTag]
    /\ UNCHANGED <<name, on>>

LabelsNext ==
    \/ \E l \in Labels : CreateLabel(l) \/ DeleteLabel(l)
    \/ \E c \in Taggers :
        \/ \E op \in {"add", "remove", "replace"}, k \in Keywords, S \in SUBSET Tagged :
            SetKeyword(c, op, k, S)
        \/ \E op \in {"set", "unset"}, l \in Labels, m \in Tagged : SetEmailLabel(c, op, l, m)
        \/ Resolve(c) \/ Drop(c) \/ CommitTag(c) \/ AbortTag(c)
        \/ \E l \in Labels : AttachFound(c, l) \/ AttachNew(c, l)

LabelsSpec == LabelsInit /\ [][LabelsNext]_labelVars
-----------------------------------------------------------------------------

\* A keyword a client removed, or left out of a replacement, is gone: no tag of
\* that name is left on the message, however many requests created one each,
\* unless another transaction put it there while this one was under way.
RemovedKeywordsAreGone ==
    [][\A c \in Taggers : CommitTag(c) =>
        \A m \in tag[c].mails : \A l \in on'[m] :
            /\ label'[l] = "live"
            /\ \/ tag[c].op = "remove" /\ name[l] = tag[c].key
               \/ tag[c].op = "replace" /\ name[l] \in Atoms \ {tag[c].key}
            => <<m, l>> \in tag[c].late]_labelVars
=============================================================================
