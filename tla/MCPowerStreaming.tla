--------------------------- MODULE MCPowerStreaming ---------------------------
(* Two GPUs that are read in turn. *)
EXTENDS PowerStreaming, TLC

TwoGpus == <<"gpu0", "gpu1">>

(* The second GPU draws the same all the time, and only fails to be read. *)
OneVaries == "gpu0" :> {1, 2} @@ "gpu1" :> {1}
=============================================================================
