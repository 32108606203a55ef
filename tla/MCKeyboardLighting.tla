-------------------------- MODULE MCKeyboardLighting --------------------------
(* KeyboardLighting with another session, a mode with a colour and one     *)
(* without.                                                                *)
EXTENDS KeyboardLighting
CONSTANTS Here, There, Red, Rainbow

MCCallers == {Here, There}
MCEffects == {Red, Rainbow}
MCModeOf == [e \in MCEffects |-> IF e = Rainbow THEN "rainbow" ELSE "static"]
MCColourOf == [e \in MCEffects |-> IF e = Rainbow THEN "none" ELSE e]
=============================================================================
