-------------------------- MODULE MCSubscriptions --------------------------
EXTENDS Subscriptions, TLC

MCPeriod == [MONTHLY |-> 1, YEARLY |-> 2]

Symmetry == Permutations(Requests) \cup Permutations(Plans)
=============================================================================
