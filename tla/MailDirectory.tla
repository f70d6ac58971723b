---------------------------- MODULE MailDirectory ----------------------------
(***************************************************************************)
(* The addresses a workspace gives its mailboxes: custom domains with the  *)
(* identity the mail provider keeps for them, aliases on those domains,    *)
(* forwarding rules of the aliases, and what forwarding does with mail.    *)
(*                                                                         *)
(* One domain name and one provider identity are modelled, which the       *)
(* workspaces' rows compete for.  A row has an ID of its own and is used   *)
(* once; the address of an alias is its ID.  No transaction spans a        *)
(* request: each statement and each provider call is a step, and requests  *)
(* interleave.                                                             *)
(*                                                                         *)
(* Code: custom domains, aliases and forwarding of                         *)
(* internal/service/email.go; internal/relay/ses.go, relay/dns.go.         *)
(***************************************************************************)
EXTENDS Naturals

CONSTANTS
    Workspaces, DomainRows, HostedBoxes, Aliases, Rules,
    Outside,       \* an address this server does not host
    Callers,       \* concurrent HTTP requests
    Receipts,      \* times that a mailbox stores mail from outside
    WorkspaceOf,   \* the workspace of a mailbox
    DomainLimit    \* CustomDomainLimit: rows a workspace may have

ASSUME DirectoryAssumption ==
    /\ WorkspaceOf \in [HostedBoxes -> Workspaces]
    /\ DomainLimit \in Nat
    /\ Outside \notin Aliases
    /\ Aliases \cap Rules = {}

VARIABLES
    identity,      \* the provider's identity for the domain name
    domain, alias, rule,   \* the tables
    asking,        \* the request of each caller, between two of its statements
    arriving,      \* stored mail, with what is left to send of the rules that were found
    sends,         \* how often a receipt made a rule's alias send to its destination
    insertedLate   \* aliases and rules inserted while what they name was going away

directoryVars == <<identity, domain, alias, rule, asking, arriving, sends, insertedLate>>

Destinations == Aliases \cup {Outside}
NoAsk == [op |-> "none"]
Identities == {"absent", "pending", "verified"}

\* A row of each table: not inserted yet, there, or deleted.  That of a deleted
\* alias tells whose it was.
New == [state |-> "new"]
Gone == [state |-> "gone"]
DomainTable == [DomainRows -> {New, Gone}
                   \cup [state : {"live"}, workspace : Workspaces, verified : BOOLEAN]]
AliasTable == [Aliases -> {New} \cup [state : {"live", "gone"}, box : HostedBoxes,
                                      row : DomainRows]]
RuleTable == [Rules -> {New, Gone} \cup [state : {"live"}, alias : Aliases,
                                        destination : Destinations]]

Requests ==
    {NoAsk}
    \cup [op : {"provision", "insert domain"}, row : DomainRows, workspace : Workspaces]
    \cup [op : {"refresh"}, row : DomainRows, workspace : Workspaces]
    \cup [op : {"save"}, row : DomainRows, workspace : Workspaces, verified : BOOLEAN]
    \cup [op : {"count aliases", "delete identity", "delete domain"}, row : DomainRows]
    \cup [op : {"insert alias"}, alias : Aliases, box : HostedBoxes, row : DomainRows]
    \cup [op : {"delete alias"}, alias : Aliases]
    \cup [op : {"insert rule"}, rule : Rules, alias : Aliases, destination : Destinations]

DirectoryTypeOK ==
    /\ identity \in Identities
    /\ domain \in DomainTable /\ alias \in AliasTable /\ rule \in RuleTable
    /\ asking \in [Callers -> Requests]
    /\ arriving \subseteq [receipt : Receipts, box : HostedBoxes,
                           left : SUBSET (Aliases \X Destinations)]
    /\ sends \in [Receipts -> [Aliases \X Destinations -> Nat]]
    /\ insertedLate \subseteq Aliases \cup Rules

DirectoryInit ==
    /\ identity = "absent"
    /\ domain = [d \in DomainRows |-> New]
    /\ alias = [a \in Aliases |-> New]
    /\ rule = [r \in Rules |-> New]
    /\ asking = [c \in Callers |-> NoAsk]
    /\ arriving = {} /\ insertedLate = {}
    /\ sends = [l \in Receipts |-> [k \in Aliases \X Destinations |-> 0]]

Present(table) == {x \in DOMAIN table : table[x].state = "live"}
RowsOf(w) == {d \in Present(domain) : domain[d].workspace = w}
Reply(c) == asking' = [asking EXCEPT ![c] = NoAsk]
Go(c, request) == asking' = [asking EXCEPT ![c] = request]

(***************************************************************************)
(* Custom domains.                                                         *)
(***************************************************************************)
\* CreateCustomDomain looks for the workspace's row and refreshes it, or
\* counts the rows against the limit.
AskDomain(c, w) ==
    /\ asking[c] = NoAsk
    /\ \/ \E d \in RowsOf(w) : Go(c, [op |-> "refresh", row |-> d, workspace |-> w])
       \/ /\ RowsOf(w) = {} /\ DomainLimit > 0
          /\ \E d \in DomainRows : /\ domain[d].state = "new"
                                   /\ Go(c, [op |-> "provision", row |-> d, workspace |-> w])
    /\ UNCHANGED <<identity, domain, alias, rule, arriving, sends, insertedLate>>

\* The provider refuses an identity it has; one it created stays when the
\* mail-from call after it fails.
Provision(c) ==
    /\ asking[c].op = "provision"
    /\ \/ /\ identity = "absent"
          /\ identity' = "pending"
          /\ \/ Go(c, [asking[c] EXCEPT !.op = "insert domain"])
             \/ Reply(c)
       \/ identity # "absent" /\ Reply(c) /\ UNCHANGED identity
    /\ UNCHANGED <<domain, alias, rule, arriving, sends, insertedLate>>

\* The index admits one row per workspace, provider and name.
InsertDomain(c) ==
    /\ asking[c].op = "insert domain"
    /\ LET d == asking[c].row
           w == asking[c].workspace
       IN  domain' = IF RowsOf(w) = {} /\ domain[d].state = "new"
                       THEN [domain EXCEPT ![d] = [state |-> "live", workspace |-> w,
                                                   verified |-> FALSE]]
                       ELSE domain
    /\ Reply(c)
    /\ UNCHANGED <<identity, alias, rule, arriving, sends, insertedLate>>

\* The customer publishes the records the provider asks for.
Verify ==
    /\ identity = "pending"
    /\ identity' = "verified"
    /\ UNCHANGED <<domain, alias, rule, asking, arriving, sends, insertedLate>>

AskRefresh(c, d) ==
    /\ asking[c] = NoAsk /\ d \in Present(domain)
    /\ Go(c, [op |-> "refresh", row |-> d, workspace |-> domain[d].workspace])
    /\ UNCHANGED <<identity, domain, alias, rule, arriving, sends, insertedLate>>

GetIdentity(c) ==
    /\ asking[c].op = "refresh"
    /\ IF identity = "absent"
         THEN Reply(c)
         ELSE Go(c, [op |-> "save", row |-> asking[c].row, workspace |-> asking[c].workspace,
                     verified |-> identity = "verified"])
    /\ UNCHANGED <<identity, domain, alias, rule, arriving, sends, insertedLate>>

\* gorm's Save updates the row, and inserts it when the update matched none:
\* a row deleted since it was read comes back.
SaveDomain(c) ==
    /\ asking[c].op = "save"
    /\ LET d == asking[c].row
           w == asking[c].workspace
       IN  domain' = IF RowsOf(w) \subseteq {d}
                       THEN [domain EXCEPT ![d] = [state |-> "live", workspace |-> w,
                                                   verified |-> asking[c].verified]]
                       ELSE domain
    /\ Reply(c)
    /\ UNCHANGED <<identity, alias, rule, arriving, sends, insertedLate>>

\* DeleteCustomDomain reads the row and counts those of other workspaces.
AskDeleteDomain(c, d) ==
    /\ asking[c] = NoAsk /\ Present(domain) = {d}
    /\ Go(c, [op |-> "count aliases", row |-> d])
    /\ UNCHANGED <<identity, domain, alias, rule, arriving, sends, insertedLate>>

AliasesOn(d) == {a \in Present(alias) : alias[a].row = d}

CountAliases(c) ==
    /\ asking[c].op = "count aliases"
    /\ IF AliasesOn(asking[c].row) = {}
         THEN Go(c, [asking[c] EXCEPT !.op = "delete identity"])
         ELSE Reply(c)
    /\ UNCHANGED <<identity, domain, alias, rule, arriving, sends, insertedLate>>

\* The provider's refusal, or an identity that is gone, ends the request.
DeleteIdentity(c) ==
    /\ asking[c].op = "delete identity"
    /\ \/ /\ identity # "absent"
          /\ identity' = "absent"
          /\ Go(c, [asking[c] EXCEPT !.op = "delete domain"])
       \/ Reply(c) /\ UNCHANGED identity
    /\ UNCHANGED <<domain, alias, rule, arriving, sends, insertedLate>>

DeleteDomain(c) ==
    /\ asking[c].op = "delete domain"
    /\ domain' = IF asking[c].row \in Present(domain)
                   THEN [domain EXCEPT ![asking[c].row] = Gone] ELSE domain
    /\ Reply(c)
    /\ UNCHANGED <<identity, alias, rule, arriving, sends, insertedLate>>

(***************************************************************************)
(* Aliases and forwarding rules.                                           *)
(***************************************************************************)
\* The row a request is about to delete, counted as unused already.
DomainsGoing == {asking[c].row : c \in {x \in Callers :
                     asking[x].op \in {"delete identity", "delete domain"}}}
AliasesGoing == {asking[c].alias : c \in {x \in Callers : asking[x].op = "delete alias"}}

AskAlias(c, b, a) ==
    /\ asking[c] = NoAsk /\ alias[a].state = "new"
    /\ \E d \in RowsOf(WorkspaceOf[b]) :
           /\ domain[d].verified
           /\ Go(c, [op |-> "insert alias", alias |-> a, box |-> b, row |-> d])
    /\ UNCHANGED <<identity, domain, alias, rule, arriving, sends, insertedLate>>

\* The index on the address refuses the second of two that ask for it.
InsertAlias(c) ==
    /\ asking[c].op = "insert alias"
    /\ LET a == asking[c].alias
           d == asking[c].row
       IN  IF alias[a].state = "new"
             THEN /\ alias' = [alias EXCEPT ![a] = [state |-> "live", box |-> asking[c].box,
                                                    row |-> d]]
                  /\ insertedLate' = IF d \in Present(domain) \ DomainsGoing
                                       THEN insertedLate ELSE insertedLate \cup {a}
             ELSE UNCHANGED <<alias, insertedLate>>
    /\ Reply(c)
    /\ UNCHANGED <<identity, domain, rule, arriving, sends>>

\* Mutant: counts the rules that lead outside.
RulesOutside(a) == {r \in Present(rule) : rule[r].alias = a /\ rule[r].destination = Outside}
RulesOf(a) == {r \in Present(rule) : rule[r].alias = a}

AskDeleteAlias(c, a) ==
    /\ asking[c] = NoAsk /\ a \in Present(alias)
    /\ RulesOf(a) = {}
    /\ Go(c, [op |-> "delete alias", alias |-> a])
    /\ UNCHANGED <<identity, domain, alias, rule, arriving, sends, insertedLate>>

DeleteAlias(c) ==
    /\ asking[c].op = "delete alias"
    /\ alias' = IF asking[c].alias \in Present(alias)
                  THEN [alias EXCEPT ![asking[c].alias].state = "gone"] ELSE alias
    /\ insertedLate' = insertedLate \ {asking[c].alias}
    /\ Reply(c)
    /\ UNCHANGED <<identity, domain, rule, arriving, sends>>

AskRule(c, r, a, to) ==
    /\ asking[c] = NoAsk /\ rule[r].state = "new"
    /\ a \in Present(alias) /\ to # a
    /\ Go(c, [op |-> "insert rule", rule |-> r, alias |-> a, destination |-> to])
    /\ UNCHANGED <<identity, domain, alias, rule, arriving, sends, insertedLate>>

\* One rule per alias and destination.
InsertRule(c) ==
    /\ asking[c].op = "insert rule"
    /\ LET r == asking[c].rule
           a == asking[c].alias
           to == asking[c].destination
       IN  IF rule[r].state = "new" /\ \A x \in RulesOf(a) : rule[x].destination # to
             THEN /\ rule' = [rule EXCEPT ![r] = [state |-> "live", alias |-> a,
                                                  destination |-> to]]
                  /\ insertedLate' = IF a \in Present(alias) \ AliasesGoing
                                       THEN insertedLate ELSE insertedLate \cup {r}
             ELSE UNCHANGED <<rule, insertedLate>>
    /\ Reply(c)
    /\ UNCHANGED <<identity, domain, alias, arriving, sends>>

DeleteRule(r) ==
    /\ r \in Present(rule)
    /\ rule' = [rule EXCEPT ![r] = Gone]
    /\ insertedLate' = insertedLate \ {r}
    /\ UNCHANGED <<identity, domain, alias, asking, arriving, sends>>

(***************************************************************************)
(* Mail and its forwarding.                                                *)
(***************************************************************************)
\* Mutant: without the test of the subject.
RulesForAny(addresses, copy) == UNION {RulesOf(a) : a \in addresses}

\* A subject that starts with "fwd:", as every copy's does, is not forwarded.
RulesFor(addresses, copy) ==
    IF copy THEN {} ELSE UNION {RulesOf(a) : a \in addresses}

\* What forwardIncomingEmail has to do for a message stored in a mailbox.
Received(receipt, b, addresses, copy) ==
    LET found == {<<rule[r].alias, rule[r].destination>> : r \in RulesFor(addresses, copy)}
    IN  IF found = {} THEN {} ELSE {[receipt |-> receipt, box |-> b, left |-> found]}

\* ReceiveEmail has stored a message for one mailbox, addressed to some of its
\* aliases, and takes up their rules.  Each time it does is a receipt of its
\* own: a message without a Message-ID is stored, and forwarded, again when the
\* queue delivers its job again, and so is one whose stored copy was deleted.
Receive(receipt, b) ==
    /\ \A m \in arriving : m.receipt # receipt
    /\ sends[receipt] = [k \in Aliases \X Destinations |-> 0]
    /\ \E addresses \in SUBSET {a \in Present(alias) : alias[a].box = b} :
           /\ addresses # {}
           /\ arriving' = arriving \cup Received(receipt, b, addresses, FALSE)
    /\ UNCHANGED <<identity, domain, alias, rule, asking, sends, insertedLate>>

\* ensureMailboxSendingIdentity.
MaySend(b) == \E d \in RowsOf(WorkspaceOf[b]) : domain[d].verified

\* One rule of a message: the relay takes the copy, which comes back to a
\* mailbox of this server when its address is hosted here; or it fails.
Forward(m, key) ==
    /\ m \in arriving /\ key \in m.left
    /\ LET rest == (arriving \ {m})
                   \cup {n \in {[m EXCEPT !.left = @ \ {key}]} : n.left # {}}
       IN  IF MaySend(m.box)
             THEN /\ sends' = [sends EXCEPT ![m.receipt][key] = @ + 1]
                  /\ arriving' = IF key[2] \in Present(alias)
                                   THEN rest \cup Received(m.receipt, alias[key[2]].box,
                                                           {key[2]}, TRUE)
                                   ELSE rest
             ELSE arriving' = rest /\ UNCHANGED sends
    /\ UNCHANGED <<identity, domain, alias, rule, asking, insertedLate>>

\* The process goes down, or the quota pass before it fails: nothing is kept
\* that would resume this receipt's forwarding.  A redelivery of the job finds
\* its message stored, or is another receipt.
Leave(m) ==
    /\ m \in arriving
    /\ arriving' = arriving \ {m}
    /\ UNCHANGED <<identity, domain, alias, rule, asking, sends, insertedLate>>

DirectoryNext ==
    \/ \E c \in Callers :
           \/ \E w \in Workspaces : AskDomain(c, w)
           \/ Provision(c) \/ InsertDomain(c) \/ GetIdentity(c) \/ SaveDomain(c)
           \/ \E d \in DomainRows : AskRefresh(c, d) \/ AskDeleteDomain(c, d)
           \/ CountAliases(c) \/ DeleteIdentity(c) \/ DeleteDomain(c)
           \/ \E b \in HostedBoxes, a \in Aliases : AskAlias(c, b, a)
           \/ \E a \in Aliases : AskDeleteAlias(c, a)
           \/ InsertAlias(c) \/ DeleteAlias(c) \/ InsertRule(c)
           \/ \E r \in Rules, a \in Aliases, to \in Destinations : AskRule(c, r, a, to)
    \/ Verify
    \/ \E r \in Rules : DeleteRule(r)
    \/ \E l \in Receipts, b \in HostedBoxes : Receive(l, b)
    \/ \E m \in arriving : Leave(m) \/ \E key \in m.left : Forward(m, key)

DirectorySpec == DirectoryInit /\ [][DirectoryNext]_directoryVars

(***************************************************************************)
(* The custom domain of an alias and the alias of a forwarding rule exist, *)
(* unless the alias or the rule was inserted after a deletion had counted  *)
(* and before it was done, or after it.                                    *)
(***************************************************************************)
NothingDangles ==
    /\ \A a \in Present(alias) \ insertedLate : alias[a].row \in Present(domain)
    /\ \A r \in Present(rule) \ insertedLate : rule[r].alias \in Present(alias)

(***************************************************************************)
(* Each time that a mailbox stores mail from outside, an alias of its own   *)
(* sends a destination one copy at most, and no alias of another mailbox    *)
(* sends any: the copies start nothing, however the rules of the mailboxes  *)
(* lead to one another and whatever becomes of them meanwhile.              *)
(***************************************************************************)
ForwardingStops ==
    \A l \in Receipts : \A k \in Aliases \X Destinations :
        /\ sends[l][k] <= 1
        /\ \A j \in Aliases \X Destinations :
               sends[l][j] > 0 /\ sends[l][k] > 0 => alias[j[1]].box = alias[k[1]].box
=============================================================================
