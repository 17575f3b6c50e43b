---------------------------- MODULE MCTokenBudget ----------------------------
EXTENDS TokenBudget, TLC

Sym == Permutations(Ids) \cup Permutations(Messages) \cup Permutations(Workstreams)

=============================================================================
