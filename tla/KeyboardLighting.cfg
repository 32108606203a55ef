CONSTANTS
  Here = Here
  There = There
  Red = Red
  Rainbow = Rainbow
  Callers <- MCCallers
  Effects <- MCEffects
  Reports = 3
  MaxDevice = 2
  Daemon = Here
  ModeOf <- MCModeOf
  ColourOf <- MCColourOf
SPECIFICATION LightingSpec
INVARIANTS YieldsToAsusd AcceptedIsShown
PROPERTIES SuppressedIsShown UnnamedFieldsKept
