--------------------------- MODULE MCPolicyEngine ---------------------------
EXTENDS PolicyEngine, TLC

Symmetry == Permutations(Handlers)
=============================================================================
