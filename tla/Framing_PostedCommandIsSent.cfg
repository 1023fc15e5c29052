SPECIFICATION Spec

CONSTANTS
  TelnetBytes = {"x", "CR"}
  MaxBytes = 2

CHECK_DEADLOCK FALSE

INVARIANT PostedCommandIsSent
