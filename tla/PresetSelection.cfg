\* Three rule sets, a level below, between and above the thresholds.
CONSTANTS
  Dwell = 2
  MaxTime = 7
  ObservedLevels <- ChosenLevels
  RuleChoices <- ChosenRules
SPECIFICATION Spec
INVARIANTS
  SelectionNeedsSourceDwell
  SelectionNeedsLevelDwell
  SelectedUnderCurrentRules
  NoSelectionBeforeResume
