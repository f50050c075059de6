---------------------------- MODULE HourlyMonitor ----------------------------
(***************************************************************************)
(* zeus.monitor.carbon and zeus.monitor.price: windows whose energy is     *)
(* charged hour by hour, at the hour's carbon intensity or price.  The     *)
(* training process sends begins and ends through command_q to a polling   *)
(* process, which is started for the first window, measures every window   *)
(* in pieces that end with the hours, answers through finished_q and exits *)
(* with the last window.                                                   *)
(*                                                                         *)
(* The two monitors are one program with two kinds of provider.  One unit  *)
(* of energy is used in a tick.  The polling process is slow to start, and *)
(* takes no time to handle a command or an hour's end.                     *)
(***************************************************************************)
EXTENDS Integers, Sequences, FiniteSets

CONSTANTS
  WindowKeys, NoKey,
  Kinds,        \* those to check: "carbon", "price"
  Hardware,        \* the sets of hardware to check that ZeusMonitor can measure
  HistoryLength,   \* the hours a provider of carbon intensities knows
  UnratedFrom,     \* the hours without a price are those from this one
  TicksPerHour, MaxTicks,
  MaxErrors        \* bound on the requests to a provider that fail

ASSUME HourlyAssumption ==
  /\ NoKey \notin WindowKeys /\ Kinds \subseteq {"carbon", "price"}
  /\ TicksPerHour \in Nat \ {0} /\ MaxTicks \in Nat
  /\ HistoryLength \in Nat \ {0, 1} /\ UnratedFrom \in Nat /\ MaxErrors \in Nat

VARIABLES
  monitor, hardware,
  now, errors,
  current_keys, waiting,      \* the training process
  command_q, finished_q,
  proc                        \* the polling process

hourlyVars == <<monitor, hardware, now, errors, current_keys, waiting, command_q, finished_q, proc>>
world == <<monitor, hardware, now>>

Hours == 0..(MaxTicks \div TicksPerHour)
HourOf(tick) == tick \div TicksPerHour

NoProcess ==
  [is |-> "none", hour_floor |-> 0, index |-> 0, last_index |-> 0, keys |-> {},
   since |-> [k \in WindowKeys |-> 0],      \* where zeus_monitor's window begins
   begun |-> [k \in WindowKeys |-> 0],      \* where the first of them began
   measured |-> [k \in WindowKeys |-> <<>>],
   charged |-> [k \in WindowKeys |-> <<>>]]

HourlyInit ==
  /\ monitor \in Kinds /\ hardware \in Hardware
  /\ now = 0 /\ errors = 0
  /\ current_keys = {} /\ waiting = NoKey
  /\ command_q = <<>> /\ finished_q = <<>> /\ proc = NoProcess

-----------------------------------------------------------------------------
(* The training process.                                                   *)

BeginHourlyWindow(k) ==
  /\ waiting = NoKey /\ k \notin current_keys
  /\ current_keys' = current_keys \union {k}
  /\ command_q' = Append(command_q, <<"BEGIN", k>>)
  /\ proc' = IF Cardinality(current_keys') = 1 THEN [NoProcess EXCEPT !.is = "starting"] ELSE proc
  /\ UNCHANGED <<world, errors, waiting, finished_q>>

EndHourlyWindow(k) ==
  /\ waiting = NoKey /\ k \in current_keys
  /\ command_q' = Append(command_q, <<"END", k>>) /\ waiting' = k
  /\ UNCHANGED <<world, errors, current_keys, finished_q, proc>>

(* The rest of end_window; nothing else can end its wait. *)
GetFinished ==
  /\ waiting # NoKey /\ finished_q # <<>>
  /\ finished_q' = Tail(finished_q)
  /\ current_keys' = current_keys \ {waiting} /\ waiting' = NoKey
  /\ UNCHANGED <<world, errors, command_q, proc>>

-----------------------------------------------------------------------------
(* What the polling process adds up, for each of some windows.  A map of   *)
(* hours has an entry for every hour there is something of.                *)

Put(map, hour, value) == [h \in DOMAIN map \union {hour} |-> IF h = hour THEN value ELSE map[h]]

Amount(map, hour) == IF hour \in DOMAIN map THEN map[hour] ELSE 0

(* _update_energy_measurements: the end of zeus_monitor's windows. *)
UpdateEnergyMeasurements(p, windows) ==
  [p EXCEPT !.measured = [k \in WindowKeys |->
     IF k \in windows THEN Put(@[k], p.hour_floor, now - p.since[k]) ELSE @[k]]]

(* What was measured in some hours is charged. *)
Charge(p, windows, hours) ==
  [p EXCEPT !.charged = [k \in WindowKeys |->
     IF k \notin windows THEN @[k]
     ELSE [h \in DOMAIN @[k] \union (DOMAIN p.measured[k] \intersect hours) |->
             Amount(@[k], h) + (IF h \in hours THEN Amount(p.measured[k], h) ELSE 0)]]]

Forget(p, windows) ==
  [p EXCEPT !.measured = [k \in WindowKeys |-> IF k \in windows THEN <<>> ELSE @[k]]]

(* get_recent_carbon_intensity *)
History == {h \in Hours : HourOf(now) - HistoryLength < h /\ h <= HourOf(now)}

(* An hour without an intensity is a KeyError. *)
UpdateCarbonEmissions(p, windows) ==
  IF \A k \in windows : DOMAIN p.measured[k] \subseteq History
  THEN Forget(Charge(p, windows, History), windows)
  ELSE [p EXCEPT !.is = "no intensity"]

(* At an hour without a rate it returns, with the measurements of all hours. *)
UpdateEnergyCosts(p, k) ==
  LET rated == {h \in Hours : h < UnratedFrom}
      costs == Charge(p, {k}, rated)
  IN IF DOMAIN p.measured[k] \subseteq rated THEN Forget(costs, {k}) ELSE costs

(* The end of a window. *)
Update(p, k) ==
  LET q == UpdateEnergyMeasurements(p, {k}) IN
  IF monitor = "carbon" THEN UpdateCarbonEmissions(q, {k}) ELSE UpdateEnergyCosts(q, k)

(* The maps of GPUs, CPUs and DRAM have the window if they were charged.   *)
CanPop(p, k) ==
  /\ hardware = {"gpu", "cpu", "dram"} /\ p.charged[k] # <<>>

-----------------------------------------------------------------------------
(* _polling_process                                                        *)

(* A request that fails; the process ends with its exception. *)
RequestFails ==
  /\ errors < MaxErrors /\ errors' = errors + 1
  /\ proc' = [proc EXCEPT !.is = "failed"]
  /\ UNCHANGED <<world, current_keys, waiting, command_q, finished_q>>

(* The prices are fetched first, and without them the process returns.     *)
ProcessStarts ==
  /\ proc.is = "starting"
  /\ \/ /\ proc' = [proc EXCEPT !.is = "top"]
        /\ UNCHANGED <<world, errors, current_keys, waiting, command_q, finished_q>>
     \/ monitor = "price" /\ RequestFails

TopKeepsWindows ==
  /\ proc.is = "top"
  /\ proc' = [proc EXCEPT !.is = "polling", !.hour_floor = HourOf(now)]
  /\ UNCHANGED <<world, errors, current_keys, waiting, command_q, finished_q>>

(* A new hour: the windows begin again. *)
TopOfLoop ==
  /\ proc.is = "top"
  /\ proc' = [proc EXCEPT !.is = "polling", !.hour_floor = HourOf(now),
                          !.since = [k \in WindowKeys |-> IF k \in proc.keys THEN now ELSE @[k]]]
  /\ UNCHANGED <<world, errors, current_keys, waiting, command_q, finished_q>>

HourIsOver == HourOf(now) > proc.hour_floor

GetBegin ==
  /\ proc.is = "polling" /\ ~HourIsOver
  /\ command_q # <<>> /\ Head(command_q)[1] = "BEGIN"
  /\ command_q' = Tail(command_q)
  /\ LET k == Head(command_q)[2] IN
     proc' = [proc EXCEPT !.keys = @ \union {k}, !.since[k] = now, !.begun[k] = now]
  /\ UNCHANGED <<world, errors, current_keys, waiting, finished_q>>

Answer(k, p) == [key |-> k, begun |-> p.begun[k], ended |-> now, charged |-> p.charged[k]]

Answers(k, p, exits) ==
  IF p.is = "polling" /\ CanPop(p, k)
  THEN /\ finished_q' = Append(finished_q, Answer(k, p))
       /\ proc' = IF exits THEN NoProcess
                  ELSE [p EXCEPT !.charged[k] = <<>>, !.keys = @ \ {k}]
  ELSE /\ proc' = [p EXCEPT !.is = IF @ = "polling" THEN "cannot pop" ELSE @]
       /\ UNCHANGED finished_q

GetEndOfAny ==
  /\ proc.is = "polling" /\ ~HourIsOver
  /\ command_q # <<>> /\ Head(command_q)[1] = "END"
  /\ LET k == Head(command_q)[2] IN
     \/ /\ Answers(k, Update(proc, k), TRUE)
        /\ command_q' = Tail(command_q) /\ UNCHANGED <<world, errors, current_keys, waiting>>
     \/ monitor = "carbon" /\ RequestFails

(* The answer has no key; the process returns with its last window. *)
GetEnd ==
  /\ proc.is = "polling" /\ ~HourIsOver
  /\ command_q # <<>> /\ Head(command_q)[1] = "END"
  /\ LET k == Head(command_q)[2] IN
     \/ /\ Answers(k, Update(proc, k), proc.keys = {k})
        /\ command_q' = Tail(command_q) /\ UNCHANGED <<world, errors, current_keys, waiting>>
     \/ monitor = "carbon" /\ RequestFails

FetchesTooLate(p) == p.index - p.last_index = HistoryLength
(* Intensities are fetched before the first hour leaves the history. *)
Fetches(p) == monitor = "carbon" /\ p.index - p.last_index = HistoryLength - 1

(* The timeout of get, or a command handled as the hour ended. *)
EndOfHour ==
  /\ proc.is = "polling" /\ HourIsOver
  /\ LET measured == UpdateEnergyMeasurements(proc, proc.keys)
         p == [measured EXCEPT !.index = @ + 1, !.is = "top"]
     IN IF Fetches(p)
        THEN \/ /\ proc' = [UpdateCarbonEmissions(p, p.keys) EXCEPT !.last_index = p.index]
                /\ UNCHANGED <<world, errors, current_keys, waiting, command_q, finished_q>>
             \/ RequestFails
        ELSE /\ proc' = p
             /\ UNCHANGED <<world, errors, current_keys, waiting, command_q, finished_q>>

-----------------------------------------------------------------------------
(* The polling process handles at once what it is there to handle. *)
Tick ==
  /\ now < MaxTicks
  /\ proc.is # "top"
  /\ proc.is = "polling" => ~HourIsOver /\ command_q = <<>>
  /\ now' = now + 1
  /\ UNCHANGED <<monitor, hardware, errors, current_keys, waiting, command_q, finished_q, proc>>

Client == (\E k \in WindowKeys : BeginHourlyWindow(k) \/ EndHourlyWindow(k)) \/ GetFinished
Polling == ProcessStarts \/ TopOfLoop \/ GetBegin \/ GetEnd \/ EndOfHour

HourlyNext == Client \/ Polling \/ Tick

(* Both processes run. *)
Fairness == WF_hourlyVars(Polling) /\ WF_hourlyVars(GetFinished)
HourlySpec == HourlyInit /\ [][HourlyNext]_hourlyVars /\ Fairness

-----------------------------------------------------------------------------
TicksOf(hour, from, to) ==
  Cardinality({t \in from..(to - 1) : HourOf(t) = hour})

(* An answer is for the window that waits for it, and charges at each      *)
(* hour's rate the energy used in that hour since the polling process      *)
(* began the window, as long as every hour had a rate.                     *)
EachHourAtItsRate ==
  \A i \in DOMAIN finished_q :
    LET a == finished_q[i] IN
    /\ a.key = waiting
    /\ monitor = "carbon" \/ HourOf(a.ended) < UnratedFrom =>
         \A h \in Hours :
           TicksOf(h, a.begun, a.ended) = Amount(a.charged, h)

(* Whenever carbon intensities are needed, the provider's history still    *)
(* has every hour that was measured since they were fetched last.          *)
HistoryCoversMeasurements == proc.is # "no intensity"

(* end_window returns, unless a request has failed, an hour has no rate or *)
(* some hardware cannot be measured.                                       *)
WindowEnds ==
  \A k \in WindowKeys : waiting = k ~> waiting # k \/ proc.is \in {"failed", "cannot pop"}

(* "This can be 'None' if CPU measurement is not available or DRAM         *)
(* measurement is not available" (carbon.py): who waits for the end of a   *)
(* window has a polling process, whatever hardware there is.               *)
EndsWithoutDram == waiting # NoKey => proc.is # "cannot pop"
=============================================================================
