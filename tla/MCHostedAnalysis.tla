-------------------------- MODULE MCHostedAnalysis --------------------------
EXTENDS HostedAnalysis, TLC

CONSTANTS c1, c2

Symmetry == Permutations(Callers)
=============================================================================
