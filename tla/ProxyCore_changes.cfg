SPECIFICATION FairSpec

CONSTANTS
  f = f
  g = g
  h = h
  u = u
  v = v
  Clients = {c1}
  Fields = {f, h}
  Stepped = {f}
  Untold = {h}
  Values = {u, v}
  None = None
  Defaults <- MCDefaults
  Input <- MCInput
  HttpInput <- MCHttpInput
  AvrAtStart <- MCAvrAtStart
  MaxCommands = 1
  MaxTurns = 1
  MaxLosses = 1

INVARIANTS
  ViewsAgree
  Converges

PROPERTY EventuallyConsistent
