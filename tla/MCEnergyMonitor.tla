--------------------------- MODULE MCEnergyMonitor ---------------------------
(* A Jetson-like board: the input rail also carries what the other rail draws. *)
EXTENDS EnergyMonitor, TLC

TwoRails == <<"cpu_rail", "input_rail">>
FedByInput == "cpu_rail" :> {"input_rail"} @@ "input_rail" :> {}
=============================================================================
