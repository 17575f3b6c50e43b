-------------------------- MODULE MCChildLifecycle --------------------------
(* Two Task calls to the same specialist. *)
EXTENDS ChildLifecycle, TLC

CONSTANTS c1, c2, p1, a1

OneAgent == [c \in Children |-> a1]

=============================================================================
