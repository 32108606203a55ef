------------------------------- MODULE MCFanPage -------------------------------
(* FanPage for two fans and two curves. *)
EXTENDS FanPage
CONSTANTS Cpu, Gpu, Quiet, Loud

MCFans == {Cpu, Gpu}
MCCurves == {Quiet, Loud}
=============================================================================
