SPECIFICATION StateSpec

CONSTANTS
  Step = 5
  Reported <- MCReported
  Limits <- MCLimits
  Asked <- MCAsked
  NoNumber = NoNumber
  Powers = {"ON", "STANDBY", "OFF"}
  Inputs = {"CD"}
  Modes = {"STEREO", "SMART"}
  Slots = {"0"}
  Levels <- MCLevels
  None = None
  Bad = Bad

INVARIANTS
  MirrorAgrees
  VirtualPowerIsKnown
  DbKeepsLevel

PROPERTIES
  ImplementsVolume
  StepsWhereClear
  HttpSetsLevel
