CONSTANTS
    m1 = m1
    m2 = m2
    m3 = m3
    a = a
    b = b
    Mails = {m1, m2, m3}
    Scheduled = {m2}
    Submitted = {m3}
    Mailboxes = {a, b}
    MailboxOf <- MCMailboxOf
    Requests = {r1}
    Schedulers = {p1, p2}
    Limit <- MCLimit
    DaysPerMonth = 2
    Retention = 2
    LastDay = 5
    MaxResends = 0
    Faults <- RelayFaults
SPECIFICATION FairSpec
CHECK_DEADLOCK FALSE
INVARIANTS CountersAgree LimitsHold
PROPERTY ScheduledMailIsTried
