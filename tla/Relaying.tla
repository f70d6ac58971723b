------------------------------- MODULE Relaying -------------------------------
(***************************************************************************)
(* The way of an outgoing message to each of its recipients.  A message    *)
(* sent from the web may be resent at any time; one submitted over SMTP    *)
(* has its local copies stored first, and the client may submit it again   *)
(* under the same Message-ID.  Send works on one recipient domain after    *)
(* the other, in the order of a Go map: a domain whose MX is this server   *)
(* gets local copies, one address after the other, the others go to the    *)
(* provider in one call (SES) or to their own servers (direct SMTP).  The  *)
(* first error ends the attempt, and nothing is taken back.                *)
(*                                                                         *)
(* SendEmail gives its row a Message-ID, but relays the one of its client,  *)
(* which has none as a rule; resends and scheduled sends relay the row's.  *)
(* The copies of a message relayed without one are outside the unique      *)
(* index.                                                                  *)
(*                                                                         *)
(* Code: internal/relay/local_mx_router.go, direct_smtp.go and ses.go;     *)
(* ResendEmail, deliverStoredEmail, DeliverLocal and SendOutbound of       *)
(* internal/service/email.go; the submission session of                    *)
(* internal/smtp/server.go.                                                *)
(***************************************************************************)
EXTENDS Naturals

CONSTANTS
    Outgoing,      \* messages
    Attempts,      \* requests that send one: send, resend, submission
    Recipients,    \* addresses
    To,            \* To[m]: those that m goes to
    DomainOf,      \* DomainOf[a]
    HostedDomains, \* domains whose MX is this server
    Boxes,         \* mailboxes
    BoxOf,         \* BoxOf[a]: what ResolveLocalMailbox finds, or NoBox
    NoBox,
    OwnBox,        \* the sender's mailbox
    ClientNamed,   \* messages to which the client gave a Message-ID
    Hosts          \* MX hosts of a domain that direct SMTP tries

ASSUME RelayingAssumption ==
    /\ Outgoing # {} /\ ClientNamed \subseteq Outgoing
    /\ To \in [Outgoing -> SUBSET Recipients]
    /\ BoxOf \in [Recipients -> Boxes \cup {NoBox}] /\ NoBox \notin Boxes
    /\ HostedDomains \subseteq {DomainOf[a] : a \in Recipients}
    /\ Hosts \in Nat

VARIABLES
    router,    \* the configured provider: "ses" or "direct"
    status,    \* status[m]: delivery_status of a message sent from the web
    copies,    \* <<m, b>>: mailbox b has received m
    indexed,   \* those of them with the Message-ID of m
    accepted,  \* <<m, a>>: taken by the provider or a server of a's domain
    attempt    \* attempt[r]: how far a request is

relayVars == <<router, status, copies, indexed, accepted, attempt>>

DomainsOf(S) == {DomainOf[a] : a \in S}
Domains == DomainsOf(Recipients)
At(d) == {a \in Recipients : DomainOf[a] = d}
Resolved == {a \in Recipients : BoxOf[a] # NoBox}

NotStarted == [at |-> "idle", of |-> CHOOSE m \in Outgoing : TRUE, from |-> "web",
               todo |-> {}, batch |-> {}, local |-> {}, hosts |-> 0,
               named |-> FALSE, retry |-> FALSE, hurt |-> FALSE]

RelayingTypeOK ==
    /\ router \in {"ses", "direct"}
    /\ status \in [Outgoing -> {"none", "pending", "sent", "failed"}]
    /\ copies \subseteq Outgoing \X Boxes /\ indexed \subseteq Outgoing \X Boxes
    /\ accepted \subseteq Outgoing \X Recipients
    /\ attempt \in [Attempts ->
            [at : {"idle", "routing", "storing", "dialling", "done", "failed", "over"},
             of : Outgoing, from : {"web", "smtp"}, todo : SUBSET Domains,
             batch : SUBSET Recipients, local : SUBSET Recipients,
             hosts : 0 .. Hosts, named : BOOLEAN, retry : BOOLEAN, hurt : BOOLEAN]]

RelayingInit ==
    /\ router \in {"ses", "direct"}
    /\ status = [m \in Outgoing |-> "none"]
    /\ copies = {} /\ indexed = {}
    /\ accepted = {}
    /\ attempt = [r \in Attempts |-> NotStarted]

\* A submission leaves only the unresolved addresses to Send.
Bound(r) ==
    IF attempt[r].from = "web" THEN To[attempt[r].of] ELSE To[attempt[r].of] \ Resolved
Of(r, d) == At(d) \cap Bound(r)

Ends(r, how) == attempt' = [attempt EXCEPT ![r].at = how]

Aborts(r) ==
    /\ attempt' = [attempt EXCEPT ![r].at = "failed", ![r].hurt = TRUE]
    /\ UNCHANGED <<router, status, copies, indexed, accepted>>

-----------------------------------------------------------------------------

\* The unique index on mailbox and Message-ID has a row for m: an earlier copy
\* that has the Message-ID, or the Sent row of SendEmail in the sender's mailbox.
Indexed(m, b) == <<m, b>> \in indexed \/ (b = OwnBox /\ status[m] # "none")

\* SendEmail, its Sent row committed, relays the Message-ID of the client; the
\* scheduler has the row's.
SendWeb(r, m) ==
    /\ attempt[r].at = "idle"
    /\ status[m] = "none"
    /\ \A q \in Attempts : attempt[q].at # "idle" => attempt[q].of # m
    /\ status' = [status EXCEPT ![m] = "pending"]
    /\ \E named \in BOOLEAN :
        /\ m \in ClientNamed => named
        /\ attempt' = [attempt EXCEPT ![r] = [NotStarted EXCEPT
                !.at = "routing", !.of = m, !.todo = DomainsOf(To[m]), !.named = named]]
    /\ UNCHANGED <<router, copies, indexed, accepted>>

\* ResendEmail takes a message in any status, and the Message-ID of its row.
Resend(r, m) ==
    /\ attempt[r].at = "idle"
    /\ status[m] # "none"
    /\ status' = [status EXCEPT ![m] = "pending"]
    /\ attempt' = [attempt EXCEPT ![r] = [NotStarted EXCEPT
            !.at = "routing", !.of = m, !.todo = DomainsOf(To[m]),
            !.named = TRUE, !.retry = (status[m] = "failed")]]
    /\ UNCHANGED <<router, copies, indexed, accepted>>

\* An authenticated session: RCPT TO resolved every address, DATA calls submit.
Submit(r, m) ==
    /\ attempt[r].at = "idle"
    /\ status[m] = "none"
    /\ attempt' = [attempt EXCEPT ![r] = [NotStarted EXCEPT
            !.at = "storing", !.of = m, !.from = "smtp", !.batch = To[m] \cap Resolved,
            !.todo = DomainsOf(To[m] \ Resolved), !.named = (m \in ClientNamed)]]
    /\ UNCHANGED <<router, status, copies, indexed, accepted>>

\* ReceiveEmail for the next address of DeliverLocal, which knows addresses, or
\* the next mailbox of deliverJob, which puts the addresses of one together.
Delivered(r, a) ==
    IF attempt[r].from = "web" THEN {a} ELSE {b \in Recipients : BoxOf[b] = BoxOf[a]}

\* The insertion meets a row of the unique index.
Blocked(r, a) == attempt[r].named /\ Indexed(attempt[r].of, BoxOf[a])

Inserts(r, a) ==
    LET copy == <<attempt[r].of, BoxOf[a]>> IN
    /\ ~Blocked(r, a)
    /\ copies' = copies \cup {copy}
    /\ indexed' = IF attempt[r].named THEN indexed \cup {copy} ELSE indexed

StoreCopy(r, a) ==
    /\ attempt[r].at = "storing"
    /\ a \in attempt[r].batch \cap Resolved
    /\ Inserts(r, a)
    /\ attempt' = [attempt EXCEPT
            ![r].batch = @ \ Delivered(r, a), ![r].local = @ \cup Delivered(r, a)]
    /\ UNCHANGED <<router, status, accepted>>

\* The unique index refuses a second copy, and the error ends the attempt.
CopyExists(r, a) ==
    /\ attempt[r].at = "storing"
    /\ a \in attempt[r].batch
    /\ Blocked(r, a)
    /\ Ends(r, "failed")
    /\ UNCHANGED <<router, status, copies, indexed, accepted>>

\* No such mailbox, or the transaction fails.
NoCopy(r, a) ==
    /\ attempt[r].at = "storing"
    /\ a \in attempt[r].batch
    /\ Aborts(r)

\* The quota pass that follows the commit fails.
CopyKeptButFails(r, a) ==
    /\ attempt[r].at = "storing"
    /\ a \in attempt[r].batch \cap Resolved
    /\ Inserts(r, a)
    /\ attempt' = [attempt EXCEPT ![r].at = "failed", ![r].hurt = TRUE]
    /\ UNCHANGED <<router, status, accepted>>

EndOfBatch(r) ==
    /\ attempt[r].at = "storing"
    /\ attempt[r].batch = {}
    /\ Ends(r, "routing")
    /\ UNCHANGED <<router, status, copies, indexed, accepted>>

\* The MX records of the next domain name this server.
RouteLocal(r, d) ==
    /\ attempt[r].at = "routing"
    /\ d \in attempt[r].todo \cap HostedDomains
    /\ attempt' = [attempt EXCEPT ![r].at = "storing",
            ![r].todo = @ \ {d}, ![r].batch = Of(r, d)]
    /\ UNCHANGED <<router, status, copies, indexed, accepted>>

\* Mutant: a domain whose MX is this server is never the provider's.
RemainingElsewhere(r) == {a \in Bound(r) : DomainOf[a] \notin HostedDomains}

\* excludeRecipients: what was not delivered locally is the provider's.
Remaining(r) == Bound(r) \ attempt[r].local

\* SES: domains served elsewhere, and those whose lookup fails, come last.
RouteToProvider(r, d) ==
    /\ router = "ses"
    /\ attempt[r].at = "routing"
    /\ d \in attempt[r].todo
    /\ attempt' = [attempt EXCEPT ![r].todo = @ \ {d}]
    /\ UNCHANGED <<router, status, copies, indexed, accepted>>

AskProvider(r) ==
    /\ router = "ses"
    /\ attempt[r].at = "routing"
    /\ attempt[r].todo = {}
    /\ Remaining(r) # {}
    /\ accepted' = accepted \cup ({attempt[r].of} \X Remaining(r))
    /\ Ends(r, "done")
    /\ UNCHANGED <<router, status, copies, indexed>>

\* The call fails, or its answer is lost.
ProviderFails(r) ==
    /\ router = "ses"
    /\ attempt[r].at = "routing"
    /\ attempt[r].todo = {}
    /\ Remaining(r) # {}
    /\ \E S \in {{}, Remaining(r)} : accepted' = accepted \cup ({attempt[r].of} \X S)
    /\ attempt' = [attempt EXCEPT ![r].at = "failed", ![r].hurt = TRUE]
    /\ UNCHANGED <<router, status, copies, indexed>>

\* Direct SMTP: the hosts of the next domain, by preference.
RouteDirect(r, d) ==
    /\ router = "direct"
    /\ attempt[r].at = "routing"
    /\ d \in attempt[r].todo \ HostedDomains
    /\ attempt' = [attempt EXCEPT ![r].at = "dialling",
            ![r].todo = @ \ {d}, ![r].batch = Of(r, d), ![r].hosts = Hosts]
    /\ UNCHANGED <<router, status, copies, indexed, accepted>>

LookupFails(r, d) ==
    /\ router = "direct"
    /\ attempt[r].at = "routing"
    /\ d \in attempt[r].todo
    /\ Aborts(r)

HostAccepts(r) ==
    /\ attempt[r].at = "dialling"
    /\ attempt[r].hosts > 0
    /\ accepted' = accepted \cup ({attempt[r].of} \X attempt[r].batch)
    /\ attempt' = [attempt EXCEPT ![r].at = "routing", ![r].batch = {}]
    /\ UNCHANGED <<router, status, copies, indexed>>

\* Refused, or accepted with the answer lost: the next host is tried.
HostFails(r) ==
    /\ attempt[r].at = "dialling"
    /\ attempt[r].hosts > 0
    /\ \E S \in {{}, attempt[r].batch} : accepted' = accepted \cup ({attempt[r].of} \X S)
    /\ attempt' = [attempt EXCEPT ![r].hosts = @ - 1, ![r].hurt = TRUE]
    /\ UNCHANGED <<router, status, copies, indexed>>

NoHostLeft(r) ==
    /\ attempt[r].at = "dialling"
    /\ attempt[r].hosts = 0
    /\ Aborts(r)

\* Every domain has been dealt with.
AllDelivered(r) ==
    /\ attempt[r].at = "routing"
    /\ attempt[r].todo = {}
    /\ router = "ses" => Remaining(r) = {}
    /\ Ends(r, "done")
    /\ UNCHANGED <<router, status, copies, indexed, accepted>>

\* The outcome is written to the row of a message sent from the web, unless the
\* update fails or the process is gone.
Record(r) ==
    /\ attempt[r].from = "web"
    /\ attempt[r].at \in {"done", "failed"}
    /\ status' = [status EXCEPT ![attempt[r].of] =
            IF attempt[r].at = "done" THEN "sent" ELSE "failed"]
    /\ Ends(r, "over")
    /\ UNCHANGED <<router, copies, indexed, accepted>>

RelayingNext ==
    \E r \in Attempts :
        \/ \E m \in Outgoing : SendWeb(r, m) \/ Resend(r, m) \/ Submit(r, m)
        \/ \E a \in Recipients :
            StoreCopy(r, a) \/ CopyExists(r, a) \/ NoCopy(r, a) \/ CopyKeptButFails(r, a)
        \/ \E d \in Domains :
            RouteLocal(r, d) \/ RouteToProvider(r, d) \/ RouteDirect(r, d) \/ LookupFails(r, d)
        \/ EndOfBatch(r) \/ AllDelivered(r) \/ Record(r)
        \/ AskProvider(r) \/ ProviderFails(r)
        \/ HostAccepts(r) \/ HostFails(r) \/ NoHostLeft(r)

RelayingSpec == RelayingInit /\ [][RelayingNext]_relayVars
-----------------------------------------------------------------------------

Served(m) == \A a \in To[m] : <<m, a>> \in accepted \/ <<m, BoxOf[a]>> \in copies

\* "sent" and the reply 250 are promises: every recipient has a local copy or was
\* taken by the provider or a server of its domain, in whichever order the
\* domains came, whatever lookup failed and whatever earlier attempt gave up.
SentMeansEveryone ==
    /\ \A m \in Outgoing : status[m] = "sent" => Served(m)
    /\ \A r \in Attempts : attempt[r].at = "done" => Served(attempt[r].of)

\* "On failure the message remains available with a failed delivery status and
\* can be retried with the resend endpoint" (API_DOCS.md:594): a retry fails only
\* when something fails in it. It does not hold: a resend relays the Message-ID of
\* the row, and a sender who is among the recipients has that row in the mailbox.
\* The copies that one resend stored stop the next one in the same way.
RetriesCanSucceed ==
    \A r \in Attempts : attempt[r].retry /\ attempt[r].at = "failed" => attempt[r].hurt
=============================================================================
