-------------------------- MODULE MCDeferredHandoff --------------------------
EXTENDS DeferredHandoff, TLC

CONSTANTS d1, d2

DrainSymmetry == Permutations(Drains)

=============================================================================
