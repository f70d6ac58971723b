CONSTANTS
    j1 = j1
    j2 = j2
    j3 = j3
    a = a
    b = b
    msgX = msgX
    NoMessageId = NoMessageId
    NoMailbox = NoMailbox
    NoJob = NoJob
    Jobs = {j1, j2, j3}
    MessageIds = {msgX}
    MaxCopies = 2
    Mailboxes = {a, b}
    MessageIdOf <- MCMessageIdOf
    Envelope <- MCEnvelope
    Attached = {j1}
    Handlers = {h1, h2}
    MaxAckPending = 1
    Faults <- AllFaults
SPECIFICATION Spec
CHECK_DEADLOCK FALSE
INVARIANTS TypeOK AckedMeansDelivered AcceptedIsHeld OneCopyPerMessage
    HeldMailHasItsFiles
PROPERTY ImplementsContract
