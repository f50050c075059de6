------------------------------ MODULE ZeusMonitor ------------------------------
(***************************************************************************)
(* zeus.monitor.energy.ZeusMonitor over the devices it reads: GPUs, of     *)
(* which only the failing reads matter here, a CPU package behind RAPL,    *)
(* whose counter wraps around and is corrected by the count of a tracker   *)
(* process, and a Jetson SoC, whose energy is integrated by a polling      *)
(* process that answers through a pair of queues.                          *)
(*                                                                         *)
(* One thread uses the monitors, which share the devices.  Every device    *)
(* draws the same, one unit at a time: drawn stands for the energy of each *)
(* and for the passing of time.                                            *)
(***************************************************************************)
EXTENDS Integers, Sequences, FiniteSets, SequencesExt

CONSTANTS
  Monitors,    \* the ZeusMonitor objects
  NoOne,
  Keys,        \* the windows' names
  RaplRange,   \* max_energy_range_uj
  MaxDrawn,    \* bound on the energy drawn
  MaxTimeouts  \* bound on the calls that give up waiting for the SoC

ASSUME MonitorAssumption ==
  RaplRange \in Nat \ {0} /\ MaxDrawn \in Nat /\ MaxTimeouts \in Nat

VARIABLES
  drawn,
  tracker,             \* what the wraparound tracker last read: last_energy_uj
  wraparound_counter,
  checked,             \* history: drawn when the tracker last read
  poller,              \* the Jetson process: "measure", "get" or "dead"
  cumulative,          \* cumulative_measurement
  command_queue, result_queue,
  timeouts,            \* history: calls that gave up
  soc_states,          \* SoC.measurement_states
  measurement_states,  \* per monitor
  op, self, key, pc,   \* the user's call, its monitor, its key and where it is
  reading,             \* the values read by the call so far
  opened,              \* what the window being ended began with
  todo                 \* reset_windows: the windows whose SoC part is not ended

trackerVars == <<tracker, wraparound_counter, checked>>
pollerVars == <<poller, cumulative>>
callVars == <<op, self, key, pc, reading, opened, todo>>
vars == <<drawn, trackerVars, pollerVars, command_queue, result_queue, timeouts, soc_states,
          measurement_states, callVars>>

NoStates == [k \in {} |-> 0]
Without(map, k) == [j \in DOMAIN map \ {k} |-> map[j]]
With(map, k, v) == [j \in DOMAIN map \cup {k} |-> IF j = k THEN v ELSE map[j]]

(* drew is history: what the CPU had drawn when its counter was read. *)
NoReading == [cpu |-> 0, drew |-> 0, soc |-> 0]

EnergyUj == drawn % RaplRange

(* RaplWraparoundTracker's process has read the counter once. *)
TrackerStarted == tracker = EnergyUj /\ wraparound_counter = 0 /\ checked = drawn

(* Jetson's process has measured nothing. *)
PollerStarted == poller = "measure" /\ cumulative = 0

Init ==
  /\ drawn = 0
  /\ TrackerStarted /\ PollerStarted
  /\ command_queue = <<>> /\ result_queue = <<>> /\ timeouts = 0
  /\ soc_states = NoStates /\ measurement_states = [m \in Monitors |-> NoStates]
  /\ op = "none" /\ self = NoOne /\ key = NoOne /\ pc = "idle" /\ reading = NoReading /\ opened = NoReading
  /\ todo = {}

(* The tracker reads once a second at least, and a read of the counter is  *)
(* followed by that of the count at once: in neither time is a whole range *)
(* drawn.                                                                  *)
Draw ==
  /\ drawn < MaxDrawn /\ drawn + 1 - checked < RaplRange
  /\ pc = "wraparounds" => drawn + 1 - reading.drew < RaplRange
  /\ drawn' = drawn + 1
  /\ UNCHANGED <<trackerVars, pollerVars, command_queue, result_queue, timeouts, soc_states,
                 measurement_states, callVars>>

-----------------------------------------------------------------------------
(* _polling_process of rapl.py. *)

CheckTwice ==
  /\ checked # drawn
  /\ wraparound_counter' = wraparound_counter + (IF EnergyUj < tracker THEN 2 ELSE 0)
  /\ tracker' = EnergyUj /\ checked' = drawn
  /\ UNCHANGED <<drawn, pollerVars, command_queue, result_queue, timeouts, soc_states,
                 measurement_states, callVars>>

CheckWraparound ==
  /\ checked # drawn  \* otherwise nothing changes
  /\ wraparound_counter' = wraparound_counter + (IF EnergyUj < tracker THEN 1 ELSE 0)
  /\ tracker' = EnergyUj /\ checked' = drawn
  /\ UNCHANGED <<drawn, pollerVars, command_queue, result_queue, timeouts, soc_states,
                 measurement_states, callVars>>

-----------------------------------------------------------------------------
(* _polling_process_async of soc/jetson.py. *)

pollerFrame == <<drawn, trackerVars, timeouts, soc_states, measurement_states, callVars>>

(* The energy since the process began, up to this measurement. *)
Measure ==
  /\ poller = "measure"
  /\ cumulative' = drawn /\ poller' = "get"
  /\ UNCHANGED <<command_queue, result_queue, pollerFrame>>

(* A rail that cannot be read ends the process. *)
MeasureFails ==
  /\ poller = "measure" /\ poller' = "dead"
  /\ UNCHANGED <<cumulative, command_queue, result_queue, pollerFrame>>

GetTimesOut ==
  /\ poller = "get" /\ command_queue = <<>> /\ poller' = "measure"
  /\ UNCHANGED <<cumulative, command_queue, result_queue, pollerFrame>>

AnswerInFront ==
  /\ poller = "get" /\ command_queue # <<>>
  /\ command_queue' = Tail(command_queue)
  /\ result_queue' = <<cumulative>> \o result_queue
  /\ poller' = "measure"
  /\ UNCHANGED <<cumulative, pollerFrame>>

AnswerRead ==
  /\ poller = "get" /\ command_queue # <<>>
  /\ command_queue' = Tail(command_queue)
  /\ result_queue' = Append(result_queue, cumulative)
  /\ poller' = "measure"
  /\ UNCHANGED <<cumulative, pollerFrame>>

-----------------------------------------------------------------------------
(* The user's calls.  A call reads the GPUs, then the CPUs (the counter    *)
(* and after it the number of wraparounds), then the SoC when it begins a  *)
(* window; end_window ends the SoC's window first.                         *)

userFrame == <<drawn, trackerVars, pollerVars>>
queues == <<command_queue, result_queue, timeouts>>
At(o, step) == op \in o /\ pc = step

(* The call returns or raises. *)
Leave ==
  /\ op' = "none" /\ pc' = "idle" /\ self' = NoOne /\ key' = NoOne /\ reading' = NoReading
  /\ opened' = NoReading /\ todo' = {}

BeginWindow(m, k) ==
  /\ pc = "idle"
  /\ k \notin DOMAIN measurement_states[m]  \* ValueError otherwise
  /\ op' = "begin" /\ self' = m /\ key' = k /\ pc' = "gpu"
  /\ UNCHANGED <<userFrame, queues, soc_states, measurement_states, reading, opened, todo>>

EndWindow(m, k) ==
  /\ pc = "idle"
  /\ k \in DOMAIN measurement_states[m]
  /\ opened' = measurement_states[m][k]
  /\ measurement_states' = [measurement_states EXCEPT ![m] = Without(@, k)]
  /\ op' = "end" /\ self' = m /\ key' = k /\ pc' = "soc"
  /\ UNCHANGED <<userFrame, queues, soc_states, reading, todo>>

(* get_total_energy_consumption of the GPU. *)
ReadGpu ==
  /\ At({"begin", "end"}, "gpu")
  /\ pc' = "cpu"
  /\ UNCHANGED <<userFrame, queues, soc_states, measurement_states, op, self, key, reading, opened, todo>>

(* RAPLFile.read: the file, and then the tracker's count. *)
ReadRaplFile ==
  /\ At({"begin", "end"}, "cpu")
  /\ reading' = [reading EXCEPT !.cpu = EnergyUj, !.drew = drawn] /\ pc' = "wraparounds"
  /\ UNCHANGED <<userFrame, queues, soc_states, measurement_states, op, self, key, opened, todo>>

ReadWraparounds ==
  /\ At({"begin", "end"}, "wraparounds")
  /\ reading' = [reading EXCEPT !.cpu = @ + wraparound_counter * RaplRange]
  /\ pc' = IF op = "begin" THEN "soc" ELSE "return"
  /\ UNCHANGED <<userFrame, queues, soc_states, measurement_states, op, self, key, opened, todo>>

(* A device that cannot be read: the exception leaves begin_window before  *)
(* the window is recorded, and end_window after it is forgotten.           *)
ReadFails ==
  /\ pc \in {"gpu", "cpu", "wraparounds"}
  /\ Leave
  /\ UNCHANGED <<userFrame, queues, soc_states, measurement_states>>

(* SoC.begin_window and SoC.end_window: KeyError for a window that exists, *)
(* or does not; otherwise the request.  All monitors share one SoC, whose  *)
(* windows have nothing but the key to tell them apart.  What is asked of a*)
(* dead process is not kept.                                               *)
AskSoC ==
  /\ pc = "soc" /\ (op = "begin" <=> key \notin DOMAIN soc_states)
  /\ opened' = IF op = "begin" THEN opened ELSE [opened EXCEPT !.soc = soc_states[key]]
  /\ soc_states' = Without(soc_states, key)
  /\ command_queue' = (IF poller = "dead" THEN command_queue ELSE Append(command_queue, "READ"))
  /\ pc' = "wait"
  /\ UNCHANGED <<userFrame, result_queue, timeouts, measurement_states, op, self, key, reading,
                 todo>>

SoCKeyError ==
  /\ pc = "soc" /\ op \in {"begin", "end"} /\ (op = "begin" <=> key \in DOMAIN soc_states)
  /\ Leave
  /\ UNCHANGED <<userFrame, queues, soc_states, measurement_states>>

SoCAnswers ==
  /\ At({"begin", "end"}, "wait") /\ result_queue # <<>>
  /\ reading' = [reading EXCEPT !.soc = Head(result_queue)]
  /\ result_queue' = Tail(result_queue)
  /\ IF op = "begin"
     THEN soc_states' = With(soc_states, key, Head(result_queue)) /\ pc' = "record"
     ELSE pc' = "gpu" /\ UNCHANGED soc_states
  /\ UNCHANGED <<userFrame, command_queue, timeouts, measurement_states, op, self, key, opened, todo>>

WaitForever == FALSE

(* result_queue.get(timeout=15): queue.Empty leaves the call; an answer    *)
(* that comes later stays in the queue.                                    *)
SoCTimesOut ==
  /\ At({"begin", "end"}, "wait") /\ result_queue = <<>>
  /\ poller = "dead" \/ timeouts < MaxTimeouts
  /\ timeouts' = IF poller = "dead" THEN timeouts ELSE timeouts + 1
  /\ Leave
  /\ UNCHANGED <<userFrame, command_queue, result_queue, soc_states, measurement_states>>

RecordWindow ==
  /\ At({"begin"}, "record")
  /\ measurement_states' = [measurement_states EXCEPT ![self] = With(@, key, [reading EXCEPT !.drew = 0])]
  /\ Leave
  /\ UNCHANGED <<userFrame, queues, soc_states>>

(* The measurement that end_window returns. *)
Measurement == [cpu |-> reading.cpu - opened.cpu, soc |-> reading.soc - opened.soc]

ReturnMeasurement ==
  /\ At({"end"}, "return")
  /\ Leave
  /\ UNCHANGED <<userFrame, queues, soc_states, measurement_states>>

(* end_window(cancel=True): after the SoC's window nothing more is read. *)
CancelWindow ==
  /\ At({"end"}, "gpu") /\ Leave
  /\ UNCHANGED <<userFrame, queues, soc_states, measurement_states>>

ResetClearsOnly(m) ==
  /\ pc = "idle" /\ measurement_states[m] # NoStates
  /\ op' = "reset" /\ self' = m /\ todo' = {} /\ pc' = "next"
  /\ UNCHANGED <<userFrame, queues, soc_states, measurement_states, key, reading, opened>>

ResetWindows(m) ==
  /\ pc = "idle" /\ measurement_states[m] # NoStates
  /\ op' = "reset" /\ self' = m /\ todo' = DOMAIN measurement_states[m] /\ pc' = "next"
  /\ UNCHANGED <<userFrame, queues, soc_states, measurement_states, key, reading, opened>>

ResetOne(k) ==
  /\ At({"reset"}, "next") /\ k \in todo
  /\ todo' = todo \ {k} /\ key' = k /\ pc' = "soc"
  /\ UNCHANGED <<userFrame, queues, soc_states, measurement_states, op, self, reading, opened>>

ResetOneIgnored ==
  /\ At({"reset"}, "wait") /\ pc' = "next"
  /\ UNCHANGED <<userFrame, queues, soc_states, measurement_states, op, self, key, reading,
                 opened, todo>>

(* Whatever becomes of the request, the exception is caught. *)
ResetOneDone ==
  /\ At({"reset"}, "wait")
  /\ \/ result_queue # <<>> /\ result_queue' = Tail(result_queue) /\ UNCHANGED timeouts
     \/ /\ result_queue = <<>> /\ UNCHANGED result_queue
        /\ poller = "dead" \/ timeouts < MaxTimeouts
        /\ timeouts' = IF poller = "dead" THEN timeouts ELSE timeouts + 1
  /\ pc' = "next"
  /\ UNCHANGED <<userFrame, command_queue, soc_states, measurement_states, op, self, key, reading,
                 opened, todo>>

ClearStates ==
  /\ At({"reset"}, "next") /\ todo = {}
  /\ measurement_states' = [measurement_states EXCEPT ![self] = NoStates]
  /\ Leave
  /\ UNCHANGED <<userFrame, queues, soc_states>>

-----------------------------------------------------------------------------
Devices == Draw \/ CheckWraparound \/ Measure \/ MeasureFails \/ GetTimesOut \/ AnswerRead

InCall ==
  \/ ReadGpu \/ ReadRaplFile \/ ReadWraparounds \/ AskSoC \/ SoCKeyError \/ SoCAnswers
  \/ SoCTimesOut \/ RecordWindow \/ ReturnMeasurement \/ ClearStates \/ ResetOneDone
  \/ \E k \in Keys : ResetOne(k)

Next ==
  \/ Devices \/ InCall \/ ReadFails \/ CancelWindow
  \/ \E m \in Monitors : ResetWindows(m) \/ \E k \in Keys : BeginWindow(m, k) \/ EndWindow(m, k)

(* A call goes on, and so does the SoC's process while it lives; neither   *)
(* the user, nor a failure, nor the tracker is bound to come.              *)
Spec ==
  /\ Init /\ [][Next]_vars
  /\ WF_vars(InCall)
  /\ WF_vars(Measure) /\ WF_vars(GetTimesOut) /\ WF_vars(AnswerRead)

-----------------------------------------------------------------------------
(* Between calls, the SoC has open exactly the windows its monitors have,  *)
(* and no two monitors the same, whatever failed or timed out before: a    *)
(* key that was used can be used again.                                    *)
TablesAgree ==
  pc = "idle" =>
    /\ DOMAIN soc_states = UNION {DOMAIN measurement_states[m] : m \in Monitors}
    /\ \A m, n \in Monitors : m # n =>
         DOMAIN measurement_states[m] \cap DOMAIN measurement_states[n] = {}

(* A RAPL reading is off by one range at most, downwards while a wrap      *)
(* around is not counted yet and upwards when it is counted between the    *)
(* two reads; and counting late heals: when the tracker is up to date, the *)
(* counter and the count give what was drawn.                              *)
CpuReadings ==
  /\ pc = "return" \/ (op = "begin" /\ pc \in {"soc", "wait", "record"}) =>
       reading.cpu - reading.drew \in {-RaplRange, 0, RaplRange}
  /\ checked = drawn => EnergyUj + wraparound_counter * RaplRange = drawn

(* A window's SoC energy is never negative, not even when an answer that   *)
(* came too late for one call is taken by a later one.                     *)
SoCNeverNegative == pc = "return" => Measurement.soc >= 0

(* Unless a call has given up, the answer a call takes is its own.         *)
AnswersMatch ==
  timeouts = 0 /\ poller # "dead" =>
    Len(command_queue) + Len(result_queue) = (IF pc = "wait" THEN 1 ELSE 0)

(* Every call returns, or raises when the SoC's process does not answer.   *)
CallsReturn == pc # "idle" ~> pc = "idle"
=============================================================================
