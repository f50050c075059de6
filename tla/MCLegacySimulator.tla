------------------------ MODULE MCLegacySimulator ------------------------
EXTENDS LegacySimulator
(* A cheaper batch size below the default one; above it, one of which not  *)
(* an epoch is allowed once a cost is known.                               *)
MCEpochCost == 8 :> (100 :> 3 @@ 200 :> 2) @@ 16 :> (100 :> 2 @@ 200 :> 4)
               @@ 32 :> (100 :> 9 @@ 200 :> 7)
MCTargets == [b \in BatchSizes |-> {0, 1}]
==========================================================================
