------------------------ MODULE MCPowerLimitOptimizer ------------------------
EXTENDS PowerLimitOptimizer
TwoRanks == [r \in {"rank0", "rank1"} |-> IF r = "rank0" THEN <<0>> ELSE <<1>>]
=============================================================================
