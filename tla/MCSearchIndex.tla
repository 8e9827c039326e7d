---------------------------- MODULE MCSearchIndex ----------------------------
EXTENDS SearchIndex, TLC

CONSTANTS n1, n2

Symmetry == Permutations({n1, n2})

=============================================================================
