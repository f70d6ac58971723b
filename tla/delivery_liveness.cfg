CONSTANTS
    j1 = j1
    j2 = j2
    j3 = j3
    a = a
    b = b
    msgX = msgX
    NoMessageId = NoMessageId
    NoMailbox = NoMailbox
    NoJob = NoJob
    Jobs = {j1, j2, j3}
    MessageIds = {msgX}
    MaxCopies = 2
    Mailboxes = {a, b}
    MessageIdOf <- MCMessageIdOf
    Envelope <- MCEnvelope
    Attached = {}
    Handlers = {h1, h2}
    MaxAckPending = 2
    Faults <- QueueFaults
SPECIFICATION FairSpec
CHECK_DEADLOCK FALSE
PROPERTY AcceptedJobsFinish
