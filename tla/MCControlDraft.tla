---------------------------- MODULE MCControlDraft ----------------------------
(* The controls with three values, one of which is brightness 0. *)
EXTENDS KeyboardBrightness
CONSTANTS Low, Middle, High

MCValues == {Low, Middle, High}
MCKinds == {"guarded", "shared", "open", "radio", "switch"}
=============================================================================
