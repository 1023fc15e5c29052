SPECIFICATION Spec

CONSTANTS
  Stems <- MCStems
  SuppressAfter = 2
  MaxQueries = 3
  MaxTurns = 1
  MaxLosses = 1

INVARIANTS
  TypeOK
  PendingHasWaiter
  SuppressedIffCounted
  AnsweredIsNotCounted

\* All queries have been sent and settled.
CHECK_DEADLOCK FALSE
