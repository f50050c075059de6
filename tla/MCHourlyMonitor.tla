--------------------------- MODULE MCHourlyMonitor ---------------------------
(* Windows of both monitors over a few short hours. *)
EXTENDS HourlyMonitor
AllHardware == {{"gpu", "cpu", "dram"}}
NoDram == {{"gpu", "cpu"}}
=============================================================================
