------------------------- MODULE MCAutomationDaemon -------------------------
(* AutomationDaemon for a user who chose a preset for AC only, and may     *)
(* reset the configuration and choose it again.                            *)
EXTENDS AutomationDaemon, TLC

AcChoice == {"Ac" :> "quiet" @@ "Battery" :> "none"}
=============================================================================
