---------------------------- MODULE RailDiscovery ----------------------------
(***************************************************************************)
(* How the power rails of a Jetson board are found below the directories   *)
(* of the INA3221 driver: by device/soc_jetson.h, and by the Python code   *)
(* that header refers to, zeus.device.soc.jetson.                          *)
(*                                                                         *)
(* A directory lists, in the order the system gives them, the files that   *)
(* name a rail, with their pattern, index and the name they hold; then the *)
(* inputs there are, and its directories.  A name is "" for an empty file  *)
(* and, in C++, for one that cannot be read, for which Python raises.      *)
(***************************************************************************)
EXTENDS Sequences, SequencesExt

CONSTANT Words  \* per rail name, which of the words that are looked for it contains

Kinds == {"in*_label", "rail_name_*"}
Quantities == {"power", "voltage", "current"}

-----------------------------------------------------------------------------
(* Both programs: the files the power is read from, of one kind with the   *)
(* file that holds the name.  A power file comes first.                    *)

Exists(dir, e, quantity) == <<e.kind, quantity, e.index>> \in dir.inputs

Strategy(dir, e) ==
  IF Exists(dir, e, "power") THEN "DirectPower"
  ELSE IF Exists(dir, e, "voltage") /\ Exists(dir, e, "current") THEN "VoltageCurrentProduct"
  ELSE "none"

-----------------------------------------------------------------------------
(* JetsonSoCBackend::discover_power_rails: every rail under its own name,  *)
(* the first of a name.                                                    *)

Keys(power_rails) == {rail.key : rail \in ToSet(power_rails)}

DiscoverFrom(kind, dir, power_rails) ==
  LET add(rails, e) ==
        IF e.kind = kind /\ e.name # "" /\ e.name \notin Keys(rails) /\ Strategy(dir, e) # "none"
        THEN Append(rails, [key |-> e.name, strategy |-> Strategy(dir, e)])
        ELSE rails
  IN FoldLeft(add, power_rails, dir.names)

DiscoverFromLabels(dir, power_rails) == DiscoverFrom("in*_label", dir, power_rails)
DiscoverFromRailNames(dir, power_rails) == DiscoverFrom("rail_name_*", dir, power_rails)

DiscoverFromDir(power_rails, dir) == DiscoverFromRailNames(dir, DiscoverFromLabels(dir, power_rails))

(* Each device's directories, and one level below. *)
DiscoverPowerRails(devices) ==
  LET withChildren(rails, sub) == FoldLeft(DiscoverFromDir, DiscoverFromDir(rails, sub), sub.dirs)
  IN FoldLeft(LAMBDA rails, device : FoldLeft(withChildren, rails, device), <<>>, devices)

-----------------------------------------------------------------------------
(* Jetson._discover_available_metrics: at most one rail each for the CPU,  *)
(* the GPU and the whole board, the last of each.                          *)

Simplified(name) ==
  CASE "cpu" \in Words[name] -> "cpu_power_mw"
    [] "cpu" \notin Words[name] /\ "gpu" \in Words[name] -> "gpu_power_mw"
    [] Words[name] \cap {"cpu", "gpu"} = {} /\ Words[name] \cap {"system", "_in", "total"} # {} ->
         "total_power_mw"
    [] OTHER -> "unsupported"

ExtractDirectories(dir, metrics, e) ==
  IF Simplified(e.name) = "unsupported" \/ Strategy(dir, e) = "none" THEN metrics
  ELSE [m \in DOMAIN metrics \cup {Simplified(e.name)} |->
          IF m = Simplified(e.name) THEN Strategy(dir, e) ELSE metrics[m]]

NoMetrics == [m \in {} |-> "none"]

DiscoverAvailableMetrics(devices) ==
  LET of(kind, dir, metrics) ==
        FoldLeft(LAMBDA acc, e : IF e.kind = kind THEN ExtractDirectories(dir, acc, e) ELSE acc,
                 metrics, dir.names)
      subdevice(metrics, dir) == of("rail_name_*", dir, of("in*_label", dir, metrics))
  IN FoldLeft(LAMBDA metrics, device : FoldLeft(subdevice, metrics, device), NoMetrics, devices)
=============================================================================
