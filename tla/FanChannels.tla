----------------------------- MODULE FanChannels -----------------------------
(* The fan channels that the daemon and its root helper share.             *)
CONSTANT Fans    \* semantic ids of the channels
VARIABLE custom  \* channels whose pwm_enable selects the custom curve
=============================================================================
