------------------------ MODULE MCBatchSizeOptimizer ------------------------
EXTENDS BatchSizeOptimizer, TLC
ClientSymmetry == Permutations(Clients)
=============================================================================
