---------------------------- MODULE MCFanControl ----------------------------
(* FanControl with a channel whose temperature is known and one without. *)
EXTENDS FanControl
CONSTANTS Cpu, Mid

MCFans == {Cpu, Mid}
MCUntracked == {Mid}
=============================================================================
