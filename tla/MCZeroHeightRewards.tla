------------------------ MODULE MCZeroHeightRewards ------------------------
EXTENDS ZeroHeightRewards, TLC
Symmetry == Permutations(Validator) \cup Permutations(Delegator)
=============================================================================
