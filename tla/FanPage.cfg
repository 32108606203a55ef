CONSTANTS
  Cpu = Cpu
  Gpu = Gpu
  Quiet = Quiet
  Loud = Loud
  Fans <- MCFans
  Curves <- MCCurves
SPECIFICATION Spec
INVARIANTS
  ConfirmedWasApplied
  DirtyMeansDifferent
PROPERTY CurveIsAnswered
