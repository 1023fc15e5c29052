SPECIFICATION Spec

CONSTANTS
  TelnetBytes = {"x", "?", " ", "o", "CR", "IAC", "NEG", "SB", "SE"}
  MaxBytes = 5

CHECK_DEADLOCK FALSE

INVARIANTS
  CutsDoNotMatter
  CommandsSurviveNegotiation
  WholeRequestIsAnswered
  CommandWithHeadIsSent
