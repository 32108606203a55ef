--------------------------- MODULE MCCpuTransaction ---------------------------
(* CpuTransaction on two policies, of which one has frequency limits. *)
EXTENDS CpuTransaction, TLC
CONSTANTS Here, There, P0, P1, Save, Fast

MCCallers == {Here, There}
MCPolicies == {P0, P1}
MCOffering ==
  [control \in {"governor", "epp", "limits"} |->
     IF control = "governor" THEN <<P0, P1>> ELSE <<P0>>]
MCTokens == {Save, Fast}

MCSymmetry == Permutations(MCCallers) \union Permutations(MCTokens)
=============================================================================
