CONSTANTS
  Quiet = Quiet
  Automatic = Automatic
  Profiles <- MCProfiles
  Keys <- MCKeys
  Automation = Automatic
SPECIFICATION Spec
INVARIANTS RestartKeepsConfirmed ProfilesKept SettingsAgree
