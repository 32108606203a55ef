---------------------------- MODULE MCConfigStore ----------------------------
(* ConfigStore with one saved profile and one preference. *)
EXTENDS ConfigStore
CONSTANTS Quiet, Automatic

MCProfiles == {Quiet}
MCKeys == {Automatic}
=============================================================================
