\* Two presets, one invalidation, delays of one and two time units.
CONSTANTS
  MaxTime = 5
  FirstDelay = 1
  SecondDelay = 2
  MaxGeneration = 1
  Profiles = {"both", "one"}
  Unwanted = "unwanted"
  Desired <- ChosenDesired
SPECIFICATION RetrySpec
INVARIANTS
  ThreeAttempts
PROPERTIES
  RetriesSpaced
  ConfirmedNotRewritten
  ScheduledRetryEnds
