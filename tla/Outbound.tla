------------------------------ MODULE Outbound ------------------------------
(***************************************************************************)
(* Outbound mail of one workspace: HTTP requests send, schedule and resend *)
(* messages, SMTP clients submit them, and in every process a scheduler    *)
(* claims the messages that are due.  All of them draw on the workspace's  *)
(* send counters, hand the message to a relay and record the outcome, each *)
(* in a database transaction of its own.                                   *)
(*                                                                         *)
(* Code: SendEmail, ResendEmail, DeliverScheduledEmails, deliverStoredEmail *)
(* and the send limits in internal/service/email.go, submit in             *)
(* internal/smtp/server.go.  The relay is a call that succeeds or fails.   *)
(* Counters whose limit is 0 are not kept.                                 *)
(***************************************************************************)
EXTENDS Naturals, FiniteSets

CONSTANTS
    Mails,         \* messages, each sent for the first time once
    Scheduled,     \* those sent with scheduled_at
    Submitted,     \* those that an SMTP client submits; the others come by HTTP
    Mailboxes,
    MailboxOf,     \* [Mails -> Mailboxes], the sending mailbox
    Requests,      \* HTTP requests and SMTP sessions running at the same time
    Schedulers,    \* one per process
    Limit,         \* [Scopes \X Spans -> Nat], 0 for no limit
    DaysPerMonth,
    Retention,     \* days that a counter is kept (sendUsageRetention)
    LastDay,       \* bound of the calendar
    MaxResends,    \* bound of the resends of one message
    Faults         \* the faults that may happen

Workers == Requests \cup Schedulers
Scopes == {"workspace"} \cup Mailboxes
Spans == {"day", "month"}
Days == 1..LastDay
Counters == Scopes \X Spans \X Days   \* the last part is period_start

FaultKinds == {
    "relay_fails",   \* the relay returns an error
    "quota_fails",   \* the quota pass after the commit fails
    "status_fails",  \* the outcome cannot be written: the request was cancelled
    "crash"}         \* the process dies

ASSUME OutboundAssumption ==
    /\ IsFiniteSet(Mails)
    /\ IsFiniteSet(Requests)
    /\ IsFiniteSet(Schedulers)
    /\ Scheduled \subseteq Mails
    /\ Submitted \subseteq Mails \ Scheduled
    /\ MailboxOf \in [Mails -> Mailboxes]
    /\ "workspace" \notin Mailboxes
    /\ Requests \cap Schedulers = {}
    /\ Limit \in [Scopes \X Spans -> Nat]
    /\ DaysPerMonth \in Nat \ {0}
    /\ Retention \in Nat /\ Retention >= DaysPerMonth
    /\ LastDay \in Nat \ {0}
    /\ MaxResends \in Nat
    /\ Faults \subseteq FaultKinds

VARIABLES
    day,
    status,      \* emails.delivery_status; "new" before there is a row
    attempts,    \* emails.delivery_attempts
    usage,       \* mail_send_usages.sent_count, 0 without a row
    due,         \* due[p]: what scheduler p listed and has not come to
    work,        \* work[w]: the message w delivers, how far it is, and the
                 \* attempts that a resend read
    reservedOn,  \* history: day whose counters the message was charged to, or 0
    resends,     \* history: resends of the message
    calls        \* history: relay calls made for it

history == <<resends, calls>>
vars == <<day, status, attempts, usage, due, work, reservedOn, history>>

Statuses == {"new", "scheduled", "submitted", "pending", "sent", "failed"}
Steps == {"stored", "local", "read", "ready", "accepted", "rejected"}
Jobs == [mail : Mails, step : Steps, read : Nat]
NoWork == [step |-> "idle"]

\* Counters, messages and running work have their types.
TypeOK ==
    /\ day \in Days
    /\ status \in [Mails -> Statuses]
    /\ attempts \in [Mails -> Nat]
    /\ usage \in [Counters -> Nat]
    /\ due \in [Schedulers -> SUBSET Scheduled]
    /\ work \in [Workers -> Jobs \cup {NoWork}]
    /\ reservedOn \in [Mails -> Days \cup {0}]
    /\ resends \in [Mails -> Nat]
    /\ calls \in [Mails -> Nat]

Init ==
    /\ day = 1
    /\ status = [e \in Mails |-> "new"]
    /\ attempts = [e \in Mails |-> 0]
    /\ usage = [c \in Counters |-> 0]
    /\ due = [p \in Schedulers |-> {}]
    /\ work = [w \in Workers |-> NoWork]
    /\ reservedOn = [e \in Mails |-> 0]
    /\ resends = [e \in Mails |-> 0]
    /\ calls = [e \in Mails |-> 0]

-----------------------------------------------------------------------------
(* Send limits: reserveOutboundSend.                                        *)

MonthStart(d) == d - ((d - 1) % DaysPerMonth)

LimitOf(c) == Limit[<<c[1], c[2]>>]

\* The counters that a message of this mailbox sent on day d counts in.
Charged(e, d) ==
    {c \in {"workspace", MailboxOf[e]} \X Spans \X Days :
        /\ c[3] = IF c[2] = "day" THEN d ELSE MonthStart(d)
        /\ LimitOf(c) > 0}

\* Mutant: off by one.
CanReserveOneMore(e) == \A c \in Charged(e, day) : usage[c] <= LimitOf(c)

CanReserve(e) == \A c \in Charged(e, day) : usage[c] < LimitOf(c)

\* All counters or none: the transaction around it rolls back otherwise.
Reserve(e) ==
    /\ CanReserve(e)
    /\ usage' = [c \in Counters |-> usage[c] + (IF c \in Charged(e, day) THEN 1 ELSE 0)]
    /\ reservedOn' = [reservedOn EXCEPT ![e] = day]

NewDay ==
    /\ day < LastDay
    /\ day' = day + 1
    /\ UNCHANGED <<status, attempts, usage, due, work, reservedOn, history>>

\* Mutant: purges every counter that began before today.
PurgeBeforeToday ==
    /\ usage' = [c \in Counters |-> IF c[3] < day THEN 0 ELSE usage[c]]
    /\ UNCHANGED <<day, status, attempts, due, work, reservedOn, history>>

\* PurgeExpiredSendUsage.
PurgeUsage ==
    /\ usage' = [c \in Counters |-> IF c[3] + Retention <= day THEN 0 ELSE usage[c]]
    /\ UNCHANGED <<day, status, attempts, due, work, reservedOn, history>>

-----------------------------------------------------------------------------
(* HTTP requests and SMTP sessions.                                         *)

Assign(w, e, step, read) ==
    work' = [work EXCEPT ![w] = [mail |-> e, step |-> step, read |-> read]]

Finish(w) == work' = [work EXCEPT ![w] = NoWork]

GoTo(w, step) == work' = [work EXCEPT ![w].step = step]

\* SendEmail without scheduled_at, up to the commit. Over the limit it stores
\* nothing.
Send(w, e) ==
    /\ work[w] = NoWork
    /\ status[e] = "new"
    /\ e \notin Scheduled \cup Submitted
    /\ Reserve(e)
    /\ status' = [status EXCEPT ![e] = "pending"]
    /\ attempts' = [attempts EXCEPT ![e] = 1]
    /\ Assign(w, e, "stored", 0)
    /\ UNCHANGED <<day, due, history>>

PassQuota(w) ==
    /\ work[w].step = "stored"
    /\ GoTo(w, "ready")
    /\ UNCHANGED <<day, status, attempts, usage, due, reservedOn, history>>

\* SendEmail returns the error of enforceWorkspaceMailboxQuota.
QuotaFails(w) ==
    /\ "quota_fails" \in Faults
    /\ work[w].step = "stored"
    /\ Finish(w)
    /\ UNCHANGED <<day, status, attempts, usage, due, reservedOn, history>>

\* SendEmail with scheduled_at; nothing is left to do after the commit. When
\* the message comes due is a matter of when the schedulers run.
Schedule(w, e) ==
    /\ work[w] = NoWork
    /\ status[e] = "new"
    /\ e \in Scheduled
    /\ status' = [status EXCEPT ![e] = "scheduled"]
    /\ UNCHANGED <<day, attempts, usage, due, work, reservedOn, history>>

\* An SMTP client submits: ReserveOutboundSend commits by itself, nothing
\* else is stored for the sender.
Submit(w, e) ==
    /\ work[w] = NoWork
    /\ status[e] = "new"
    /\ e \in Submitted
    /\ Reserve(e)
    /\ status' = [status EXCEPT ![e] = "submitted"]
    /\ Assign(w, e, "local", 0)
    /\ UNCHANGED <<day, attempts, due, history>>

\* deliverJob to the local recipients; then the relay gets the others.
DeliverLocally(w) ==
    /\ work[w].step = "local"
    /\ GoTo(w, "ready")
    /\ UNCHANGED <<day, status, attempts, usage, due, reservedOn, history>>

\* Nothing goes out: all recipients are local, or a delivery to one of them or
\* the staging of the attachments fails.
StayLocal(w) ==
    /\ work[w].step = "local"
    /\ Finish(w)
    /\ UNCHANGED <<day, status, attempts, usage, due, reservedOn, history>>

\* ResendEmail reads the row, whatever its status ...
ReadForResend(w, e) ==
    /\ work[w] = NoWork
    /\ status[e] \notin {"new", "submitted"}
    /\ resends[e] < MaxResends
    /\ resends' = [resends EXCEPT ![e] = @ + 1]
    /\ Assign(w, e, "read", attempts[e])
    /\ UNCHANGED <<day, status, attempts, usage, due, reservedOn, calls>>

\* ... and later overwrites what it has read.
MarkResend(w) ==
    /\ work[w].step = "read"
    /\ status' = [status EXCEPT ![work[w].mail] = "pending"]
    /\ attempts' = [attempts EXCEPT ![work[w].mail] = work[w].read + 1]
    /\ GoTo(w, "ready")
    /\ UNCHANGED <<day, usage, due, reservedOn, history>>

-----------------------------------------------------------------------------
(* The scheduler: DeliverScheduledEmails, once a minute in every process.   *)

\* Mutant: the query does not ask for the status.
ListAll(p) ==
    /\ work[p] = NoWork
    /\ due[p] = {}
    /\ due' = [due EXCEPT ![p] = {e \in Mails : status[e] \in {"scheduled", "pending"}}]
    /\ due'[p] # {}
    /\ UNCHANGED <<day, status, attempts, usage, work, reservedOn, history>>

ListDue(p) ==
    /\ work[p] = NoWork
    /\ due[p] = {}
    /\ due' = [due EXCEPT ![p] = {e \in Scheduled : status[e] = "scheduled"}]
    /\ due'[p] # {}
    /\ UNCHANGED <<day, status, attempts, usage, work, reservedOn, history>>

\* Mutant: the UPDATE takes a message that another scheduler has claimed.
ClaimableAgain(e) == status[e] \in {"scheduled", "pending"}

\* A message nobody has claimed: the UPDATE is conditional on its status.
Claimable(e) == status[e] = "scheduled"

\* Mutant: claims without reserving.
ClaimForFree(p, e) ==
    /\ work[p] = NoWork
    /\ e \in due[p]
    /\ due' = [due EXCEPT ![p] = @ \ {e}]
    /\ Claimable(e)
    /\ status' = [status EXCEPT ![e] = "pending"]
    /\ attempts' = [attempts EXCEPT ![e] = 1]
    /\ Assign(p, e, "ready", 0)
    /\ UNCHANGED <<day, usage, reservedOn, history>>

Claim(p, e) ==
    /\ work[p] = NoWork
    /\ e \in due[p]
    /\ due' = [due EXCEPT ![p] = @ \ {e}]
    /\ Claimable(e)
    /\ Reserve(e)
    /\ status' = [status EXCEPT ![e] = "pending"]
    /\ attempts' = [attempts EXCEPT ![e] = 1]
    /\ Assign(p, e, "ready", 0)
    /\ UNCHANGED <<day, history>>

\* Mutant: over the limit, the claim stays.
SkipClaimed(p, e) ==
    /\ work[p] = NoWork
    /\ e \in due[p]
    /\ ~Claimable(e) \/ ~CanReserve(e)
    /\ due' = [due EXCEPT ![p] = @ \ {e}]
    /\ status' = [status EXCEPT ![e] = IF Claimable(e) THEN "pending" ELSE @]
    /\ UNCHANGED <<day, attempts, usage, work, reservedOn, history>>

\* Claimed by another scheduler, resent meanwhile, or over the limit: the
\* claim is rolled back and the message stays for a later run.
Skip(p, e) ==
    /\ work[p] = NoWork
    /\ e \in due[p]
    /\ ~Claimable(e) \/ ~CanReserve(e)
    /\ due' = [due EXCEPT ![p] = @ \ {e}]
    /\ UNCHANGED <<day, status, attempts, usage, work, reservedOn, history>>

-----------------------------------------------------------------------------
(* deliverStoredEmail, and SendOutbound for a submission.                   *)

CallRelay(w, outcome) ==
    /\ work[w].step = "ready"
    /\ GoTo(w, outcome)
    /\ calls' = [calls EXCEPT ![work[w].mail] = @ + 1]
    /\ UNCHANGED <<day, status, attempts, usage, due, reservedOn, resends>>

RelayAccepts(w) == CallRelay(w, "accepted")

RelayFails(w) ==
    /\ "relay_fails" \in Faults
    /\ CallRelay(w, "rejected")

\* A submission has no row to record its outcome in.
Record(w) ==
    /\ work[w].step \in {"accepted", "rejected"}
    /\ LET e == work[w].mail
           outcome == IF work[w].step = "accepted" THEN "sent" ELSE "failed"
       IN  status' = [status EXCEPT ![e] = IF e \in Submitted THEN @ ELSE outcome]
    /\ Finish(w)
    /\ UNCHANGED <<day, attempts, usage, due, reservedOn, history>>

StatusFails(w) ==
    /\ "status_fails" \in Faults
    /\ work[w].step \in {"accepted", "rejected"}
    /\ Finish(w)
    /\ UNCHANGED <<day, status, attempts, usage, due, reservedOn, history>>

Crash(w) ==
    /\ "crash" \in Faults
    /\ work[w] # NoWork \/ (w \in Schedulers /\ due[w] # {})
    /\ Finish(w)
    /\ due' = [p \in Schedulers |-> IF p = w THEN {} ELSE due[p]]
    /\ UNCHANGED <<day, status, attempts, usage, reservedOn, history>>

-----------------------------------------------------------------------------

Ask(w) ==
    \E e \in Mails : Send(w, e) \/ Schedule(w, e) \/ Submit(w, e) \/ ReadForResend(w, e)

RunScheduler(p) == ListDue(p) \/ \E e \in Mails : Claim(p, e) \/ Skip(p, e)

Deliver(w) ==
    \/ PassQuota(w)
    \/ QuotaFails(w)
    \/ DeliverLocally(w)
    \/ StayLocal(w)
    \/ MarkResend(w)
    \/ RelayAccepts(w)
    \/ RelayFails(w)
    \/ Record(w)
    \/ StatusFails(w)

Next ==
    \/ NewDay
    \/ PurgeUsage
    \/ \E w \in Requests : Ask(w)
    \/ \E p \in Schedulers : RunScheduler(p)
    \/ \E w \in Workers : Deliver(w) \/ Crash(w)

Spec == Init /\ [][Next]_vars

\* Days pass, the tickers fire, and a worker that has begun goes on.
Fairness ==
    /\ WF_vars(NewDay)
    /\ \A p \in Schedulers : WF_vars(RunScheduler(p))
    /\ \A w \in Workers : WF_vars(Deliver(w))

FairSpec == Spec /\ Fairness

-----------------------------------------------------------------------------
(* Safety                                                                   *)

ChargedTo(c) == {e \in Mails : reservedOn[e] # 0 /\ c \in Charged(e, reservedOn[e])}

\* A counter of the current day or month is the number of messages charged to
\* it: a claim that is rolled back counts nowhere, a message counts in all
\* counters of its mailbox and workspace, and no counter in use is purged.
CountersAgree ==
    \A e \in Mails : \A c \in Charged(e, day) : usage[c] = Cardinality(ChargedTo(c))

\* No day and no month ever sees more messages charged than its limit, whoever
\* charges them at the same time and whatever is purged.
LimitsHold ==
    \A c \in Counters : LimitOf(c) > 0 => Cardinality(ChargedTo(c)) <= LimitOf(c)

\* However many schedulers run, crash and run again, a message is handed to the
\* relay once for being sent and once for each resend.
SentOncePerRequest == \A e \in Mails : calls[e] <= 1 + resends[e]

\* README, Outbound send limits: a scheduled message consumes quota when it is
\* delivered. Waiting it has consumed none, and nothing but a resend gets to
\* the relay without.
PaidWhenDelivered ==
    \A e \in Mails :
        /\ status[e] = "scheduled" => reservedOn[e] = 0
        /\ calls[e] > resends[e] => reservedOn[e] # 0

(* Liveness                                                                 *)

\* A scheduled message is tried in the end and its outcome recorded, be it over
\* the limit on the day it was due; only the last day of the calendar may leave
\* it over the limit. Holds while no process dies and outcomes can be written.
ScheduledMailIsTried ==
    \A e \in Mails :
        status[e] = "scheduled" ~>
            \/ status[e] \in {"sent", "failed"}
            \/ day = LastDay /\ ~CanReserve(e)
=============================================================================
