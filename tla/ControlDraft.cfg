CONSTANTS
  Low = Low
  Middle = Middle
  High = High
  Off = Low
  Values <- MCValues
  Kinds <- MCKinds
SPECIFICATION ControlsSpec
INVARIANTS LastRequestCounts ApplyingHasRequest
PROPERTY ApplySettles
