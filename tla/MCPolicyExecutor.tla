-------------------------- MODULE MCPolicyExecutor --------------------------
(* Small instances of PolicyExecutor.                                        *)
EXTENDS PolicyExecutor, TLC

CallerSymmetry == Permutations(Callers)
=============================================================================
