---------------------------- MODULE PowerSource ----------------------------
(* rog-core/src/model.rs: the power source, and Option<PowerSource>. *)

Sources == {"Ac", "Battery"}
NoSource == "NoSource"
SourceOption == Sources \union {NoSource}

=============================================================================
