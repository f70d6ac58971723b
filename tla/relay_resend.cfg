SPECIFICATION RelayingSpec
CONSTANTS
  Outgoing = {"m1", "m2"}
  Attempts = {"r1", "r2"}
  Recipients = {"ann", "bob", "cyd"}
  To <- LettersTo
  DomainOf <- AddressDomain
  HostedDomains = {"here"}
  Boxes = {"boxA", "boxB"}
  BoxOf <- AddressBox
  NoBox = "none"
  OwnBox = "boxB"
  ClientNamed = {"m1"}
  Hosts = 2
INVARIANT RetriesCanSucceed
CHECK_DEADLOCK FALSE
