CONSTANTS
  Cpu = Cpu
  Mid = Mid
  Fans <- MCFans
  Untracked <- MCUntracked
  DirectWrites = TRUE
SPECIFICATION WatchSpec
INVARIANTS AppliedIsWatched StopReleasesApplied
PROPERTY DangerIsAnswered
