CONSTANTS
    m1 = m1
    m2 = m2
    m3 = m3
    a = a
    b = b
    Mails = {m1, m2}
    Scheduled = {m1}
    Submitted = {}
    Mailboxes = {a, b}
    MailboxOf <- MCMailboxOf
    Requests = {r1, r2}
    Schedulers = {p1, p2}
    Limit <- TwoPerDay
    DaysPerMonth = 2
    Retention = 2
    LastDay = 2
    MaxResends = 1
    Faults <- AllFaults
SPECIFICATION Spec
CHECK_DEADLOCK FALSE
INVARIANTS TypeOK SentOncePerRequest PaidWhenDelivered
