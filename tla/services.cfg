SPECIFICATION ServicesSpec
CONSTANTS
  Messages = {1, 2, 3}
  Size <- QuotaSizes
  Passes = {c1, c2}
  OtherBytes = 2
  QuotaLimit = 3
  Letters = {x1, x2}
  Files = {f1, f2}
  Authors = {u1}
  Purgers = {c1, c2}
  Outgoing = {"m1", "m2"}
  Attempts = {c1, c2}
  Recipients = {"ann", "bob", "cyd"}
  To <- LettersTo
  DomainOf <- AddressDomain
  HostedDomains = {"here"}
  Boxes = {"boxA", "boxB"}
  BoxOf <- AddressBox
  NoBox = "none"
  OwnBox = "boxB"
  ClientNamed = {"m1"}
  Hosts = 2
  MovedMail = {m1}
  Movers = {c1, c2}
  Batches = 2
  MaxMoves = 3
  Ids = {i1, i2}
  NoId = noId
  Arriving = {i1}
  MaxItems = 3
  Labels = {x1, x2}
  Keywords = {k1, k2}
  Atoms = {k1}
  Tagged = {m1}
  Taggers = {c1, c2}
  Rows = {f1, f2}
  Names = {"INBOX", "Inbox"}
  Lower <- LowerNames
  Inbox = "INBOX"
  Notes = {x1, x2}
  Devices = {c1, c2}
  MaxSeq = 3
  TxtNames = {"a", "b"}
  Asks <- TxtAsked
  Versions = {"v1"}
  NoRecord = "absent"
  Checks = {c1, c2}
  CacheMax = 1
  Ttl = 2
  NegativeTtl = 1
  MaxTime = 2
  MaxChanges = 1
  Workspaces = {"w1"}
  DomainRows = {d1}
  HostedBoxes = {"b1", "b2"}
  Aliases = {x1, x2}
  Rules = {r1, r2}
  Outside = outside
  Callers = {c1, c2}
  Receipts = {m1}
  WorkspaceOf <- OneWorkspace
  DomainLimit = 1
  Work = {"j", "s", "p", "h", "w", "t"}
  Kind <- KindsOfWork
INVARIANTS
  ServicesTypeOK
  MailFitsThePlan
  UnusedFilesAreCollected
  SharedFilesSurvive
  SentMeansEveryone
  CountsFloorAtZero
  EveryLossIsReported
  DestroyTakesLateMailOnly
  CacheIsSound
  NothingDangles
  ForwardingStops
  OrderlyStop
PROPERTIES
  NewestAreRetained
  RemovedKeywordsAreGone
CHECK_DEADLOCK FALSE
SYMMETRY Alike
