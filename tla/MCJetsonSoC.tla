----------------------------- MODULE MCJetsonSoC -----------------------------
(* Small instances of JetsonSoC, over the rails its constructor finds.     *)
EXTENDS JetsonSoC, RailDiscovery, FiniteSets

(* The words in the names, of which Python looks for some. *)
MCWords == [name \in {"", "VDD_IN", "VDD_SOC", "VDD_CPU_GPU_CV"} |->
  CASE name = "VDD_IN" -> {"_in"} [] name = "VDD_CPU_GPU_CV" -> {"cpu", "gpu"} [] OTHER -> {}]

Named(kind, index, name) == [kind |-> kind, index |-> index, name |-> name]
Directory(names, inputs, dirs) == [names |-> names, inputs |-> inputs, dirs |-> dirs]

(* The inputs of a board: hwmon/hwmon1 below its device, with a rail whose *)
(* power is a product, one with a power file, and one that has no inputs.  *)
Inputs == {<<"in*_label", "power", 1>>, <<"in*_label", "voltage", 1>>, <<"in*_label", "power", 2>>,
           <<"rail_name_*", "voltage", 1>>, <<"rail_name_*", "current", 1>>}
Hwmon == Directory(<<Named("in*_label", 2, "VDD_IN"), Named("in*_label", 3, "VDD_SOC"),
                     Named("rail_name_*", 1, "VDD_CPU_GPU_CV"), Named("in*_label", 1, "VDD_IN")>>,
                   Inputs, <<>>)
Board == <<<<Directory(<<>>, {}, <<Hwmon>>)>>>>

(* All directories with up to two files that name rails, of two names. *)
NameFiles == {Named("in*_label", 1, n) : n \in {"", "VDD_IN", "VDD_SOC"}}
        \cup {Named("in*_label", 2, n) : n \in {"", "VDD_IN", "VDD_SOC"}}
        \cup {Named("rail_name_*", 1, n) : n \in {"", "VDD_IN", "VDD_SOC"}}
Different(e, f) == <<e.kind, e.index>> # <<f.kind, f.index>>
Directories ==
  {Directory(names, inputs, <<>>) : inputs \in SUBSET Inputs,
     names \in {<<>>} \cup {<<e>> : e \in NameFiles}
                \cup {<<p[1], p[2]>> : p \in {q \in NameFiles \X NameFiles : Different(q[1], q[2])}}}

(* The names are those of the files for which there are inputs, whatever   *)
(* the order of the files, and no name is taken twice; and the metrics the *)
(* Python code finds are each a rail of the C++ code.                      *)
RightRails(devices) ==
  LET rails == DiscoverPowerRails(devices)
      dirs == UNION {UNION {{d} \cup ToSet(d.dirs) : d \in ToSet(device)} : device \in ToSet(devices)}
  IN /\ Keys(rails) = UNION {{e.name : e \in {f \in ToSet(d.names) :
                                f.name # "" /\ Strategy(d, f) # "none"}} : d \in dirs}
     /\ Len(rails) = Cardinality(Keys(rails))
     /\ DOMAIN DiscoverAvailableMetrics(devices) \subseteq {Simplified(key) : key \in Keys(rails)}

ASSUME DiscoveryAssumption ==
  /\ \A d \in Directories : RightRails(<<<<d, Hwmon>>>>)
  /\ RightRails(Board) /\ Rails = Keys(DiscoverPowerRails(Board))
=============================================================================
