--------------------------- MODULE MCRunLifecycle ---------------------------
(* Two session.idle handlers on one run, with and without an API caller.     *)
EXTENDS RunLifecycle, TLC

CONSTANTS h1, h2, c1

MCHandlers == {h1, h2}
MCCallers == {c1}
MCNoCallers == {}
MCSymmetry == Permutations(MCHandlers)
=============================================================================
