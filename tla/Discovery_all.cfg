SPECIFICATION FairSpec

CONSTANTS
  Devices <- MCDevices
  Proxy = "proxy"
  Nowhere = "nowhere"
  Silent = "none"
  Deadline = 2
  MaxQueue = 2

INVARIANTS
  HeardAreReturned
  ProxiesAreNamed

PROPERTY SearchEnds
