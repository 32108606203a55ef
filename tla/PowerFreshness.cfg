\* Barrier and clock-gap detector; the wall clock may be set back once.
CONSTANTS
  U64Max = 5
  Tolerance = 1
  StartTime = 1
  MaxClock = 3
SPECIFICATION Spec
INVARIANTS
  TypeOK
  CachedReadingNeverClears
  WokenNeedsRefresh
  EligibleNeedsRefresh
  SuspendedStaysRaised
