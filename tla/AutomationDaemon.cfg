\* Writes enabled; settings, suspends, signals and requests in any order.
CONSTANTS
  U64Max = 9
  Tolerance = 0
  Dwell = 1
  WritesEnabled = TRUE
  MaxClock = 2
  MaxAge = 2
  Profiles = {"quiet", "balanced"}
  NoProfile = "none"
  ByHand = "performance"
  Choices <- AcChoice
SPECIFICATION Spec
INVARIANTS
  ManualValueSticks
  RetryMatchesRules
  ApplyingIsCurrent
PROPERTIES
  WriteNeedsDwell
  PauseIsReported
  TicksEnd
