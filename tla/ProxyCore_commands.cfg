SPECIFICATION Spec

CONSTANTS
  f = f
  g = g
  h = h
  u = u
  v = v
  Clients = {c1}
  Fields = {f, g}
  Stepped = {f}
  Untold = {}
  Values = {u, v}
  None = None
  Defaults <- MCDefaults
  Input <- MCInput
  HttpInput <- MCHttpInput
  AvrAtStart <- MCAvrAtStart
  MaxCommands = 2
  MaxTurns = 0
  MaxLosses = 1

INVARIANTS
  TypeOK
  ViewsAgree
  Converges
  SentInOrder
