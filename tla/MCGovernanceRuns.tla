-------------------------- MODULE MCGovernanceRuns --------------------------
(* Symmetry for checking GovernanceRuns with TLC.                          *)
EXTENDS GovernanceRuns, TLC

Symmetry == Permutations(Runs) \cup Permutations(Callers)

=============================================================================
