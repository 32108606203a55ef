------------------------- MODULE MCAutomationRetry -------------------------
(* An instance of AutomationRetry for TLC: a preset with both settings and *)
(* one with the platform profile only.                                     *)
EXTENDS AutomationRetry, TLC

BothSettings ==
  "platform_profile" :> "quiet" @@ "battery_charge_limit" :> "80"
ProfileOnly ==
  "platform_profile" :> "performance" @@ "battery_charge_limit" :> Unwanted
ChosenDesired == "both" :> BothSettings @@ "one" :> ProfileOnly

=============================================================================
