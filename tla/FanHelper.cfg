\* The three ASUS WMI channels, no marker of an older helper.
CONSTANTS
  Fans = {"cpu", "gpu", "mid"}
  LegacyMarker = FALSE
SPECIFICATION Spec
INVARIANTS
  CleanStopIsAuto
PROPERTY ImplementsArmedFans
