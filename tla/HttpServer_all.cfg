SPECIFICATION FairSpec

CONSTANTS
  Conns = {c1, c2}
  WebUI = WebUI
  Peers = {p}
  Commands = {PWON, PWQ}
  Queries = {PWQ}
  Joined = Joined
  Left = Left
  MaxEntries = 1
  MaxPushes = 2
  MaxRecords = 2

INVARIANTS
  SubscribersUpToDate
  LostIsForgotten
  LogKeepsNewest

PROPERTY EventuallyTold
