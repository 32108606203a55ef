------------------------- MODULE MCPresetSelection -------------------------
(* Instances of PresetSelection for TLC. *)
EXTENDS PresetSelection

OneWay == [lower |-> 20, upper |-> NoLevel, recovery |-> FALSE]
TwoWay == [lower |-> 20, upper |-> 80, recovery |-> TRUE]

ChosenRules == {NoThresholds, OneWay, TwoWay}
ChosenLevels == {10, 50, 90}

=============================================================================
