------------------------------ MODULE ZeusPollers ------------------------------
(***************************************************************************)
(* zeus.monitor.power.PowerMonitor and                                     *)
(* zeus.monitor.temperature.TemperatureMonitor: child processes that poll  *)
(* the GPUs and queue the readings that changed, and the parent that       *)
(* drains the queues to answer questions about the past and at the end     *)
(* joins, terminates and kills the children.                               *)
(*                                                                         *)
(* A multiprocessing.Queue is two sequences: what a child has put          *)
(* (unsent), and what its feeder thread has moved to the pipe (pipe).      *)
(* Times are ticks of a clock that ends at MaxTime; two passes of a child  *)
(* never read the same time.                                               *)
(***************************************************************************)
EXTENDS Integers, Sequences, FiniteSets, FiniteSetsExt, SequencesExt

CONSTANTS
  Domains,      \* the power domains
  Gpus,         \* gpu_indices, a sequence
  Readings,     \* what a counter may show, in W or degrees
  Periods,      \* the update periods a GPU may turn out to have
  SlowestPeriod,\* the 0.1 s above which an inferred period is cut
  MaxSamples,   \* max_samples_per_gpu
  PipeCapacity, \* messages that fit the pipe of a queue
  MaxTime

ASSUME PollersAssumption ==
  /\ Gpus \in Seq(Range(Gpus)) /\ Gpus # <<>> /\ "STOP" \notin Range(Gpus)
  /\ \A i, j \in DOMAIN Gpus : Gpus[i] = Gpus[j] => i = j
  /\ Readings \subseteq Nat /\ IsFiniteSet(Readings) /\ Readings # {}
  /\ Periods \subseteq Nat \ {0} /\ Periods # {}
  /\ MaxSamples \in Nat \ {0} /\ PipeCapacity \in Nat \ {0} /\ MaxTime \in Nat

VARIABLES
  now,
  kind,      \* which monitor this is: "power" or "temperature"
  main,      \* the parent: "new", "waiting", "running", "stopping", "stopped", "refused"
  measured,  \* measurement_domains
  detected,  \* per GPU, the update period of its counter, when the parent infers it
  period,    \* update_period
  child,     \* per domain, where its process is
  todo,      \* the GPUs the process has not read in this pass
  stamp,     \* the timestamp of this pass
  prev,      \* per domain, the readings to tell a change from
  ready, stop, \* the events, as sets of domains
  unsent, pipe,
  samples,
  joining    \* per domain, how far _cleanup_processes has got

parentVars == <<kind, main, measured, detected, period, samples, joining>>
childVars == <<child, todo, stamp, prev>>
vars == <<now, parentVars, childVars, ready, stop, unsent, pipe>>

Devices == Range(Gpus)
STOP == [gpu |-> "STOP", at |-> 0, value |-> 0]
NoReading == [g \in {} |-> 0]
Gone == {"none", "gone"}

Init ==
  /\ now = 0 /\ kind \in {"power", "temperature"} /\ main = "new"
  /\ measured = {} /\ detected = NoReading /\ period = 0
  /\ child = [d \in Domains |-> "none"] /\ todo = [d \in Domains |-> <<>>]
  /\ stamp = [d \in Domains |-> -1] /\ prev = [d \in Domains |-> NoReading]
  /\ ready = {} /\ stop = {}
  /\ unsent = [d \in Domains |-> <<>>] /\ pipe = [d \in Domains |-> <<>>]
  /\ samples = [d \in Domains |-> [g \in Devices |-> <<>>]]
  /\ joining = [d \in Domains |-> "none"]

Tick ==
  /\ now < MaxTime /\ now' = now + 1
  /\ UNCHANGED <<parentVars, childVars, ready, stop, unsent, pipe>>

-----------------------------------------------------------------------------
(* The constructors. *)

(* The period of one GPU's counter, from the gaps between its changes. *)
InferSingle == [Devices -> Periods]

(* The code takes the minimum with the 0.0 it starts from. *)
InferCounterUpdatePeriod(periods) ==
  LET fastest == FoldSet(LAMBDA g, least : Min({least, periods[g]}), 0, DOMAIN periods)
  IN  Min({fastest \div 2, SlowestPeriod})

(* _determine_supported_domains: whichever the first GPU answers for. *)
SupportedDomains == SUBSET Domains

(* PowerMonitor.__init__, up to the children's start: the domains the GPUs *)
(* support, or those the caller asks for if the GPUs support them all.     *)
NewPowerMonitor ==
  /\ kind = "power" /\ main = "new"
  /\ \E supported \in SupportedDomains, requested \in SUBSET Domains, infer \in BOOLEAN :
       /\ requested = {} \/ requested = supported \/ ~(requested \subseteq supported)
       /\ IF infer
          THEN detected' \in InferSingle /\ period' = InferCounterUpdatePeriod(detected')
          ELSE detected' = NoReading /\ period' \in Periods
       /\ IF requested \subseteq supported
          THEN /\ main' = "waiting"
               /\ measured' = supported
               /\ child' = [d \in Domains |-> IF d \in supported THEN "starting" ELSE "none"]
          ELSE main' = "refused" /\ UNCHANGED <<measured, child>>
  /\ UNCHANGED <<now, kind, todo, stamp, prev, ready, stop, unsent, pipe, samples, joining>>

(* TemperatureMonitor.__init__: one process, and a period that is given. *)
NewTemperatureMonitor ==
  /\ kind = "temperature" /\ main = "new"
  /\ \E d \in Domains :
       measured' = {d} /\ child' = [child EXCEPT ![d] = "starting"]
  /\ period' \in Periods /\ main' = "waiting"
  /\ UNCHANGED <<now, kind, detected, todo, stamp, prev, ready, stop, unsent, pipe, samples, joining>>

AllReady ==
  /\ main = "waiting" /\ measured \subseteq ready
  /\ main' = "running"
  /\ UNCHANGED <<now, kind, measured, detected, period, childVars, ready, stop, unsent, pipe,
                 samples, joining>>

-----------------------------------------------------------------------------
(* _cleanup_processes and _cleanup_temperature_process. *)

Cleanup ==
  /\ joining' = [d \in Domains |-> IF d \in measured THEN "join" ELSE "none"]
  /\ stop' = measured
  /\ main' = "stopping"
  /\ UNCHANGED <<now, kind, measured, detected, period, childVars, ready, unsent, pipe, samples>>

(* stop(), or the finalizer when the monitor is collected. *)
StopPower == kind = "power" /\ main = "running" /\ Cleanup
StopTemperature == kind = "temperature" /\ main = "running" /\ Cleanup

(* A child that is not ready after 10 s.  PowerMonitor.__init__ raises,    *)
(* and the finalizer runs when the half-built monitor goes away.           *)
PowerReadyTimeout ==
  /\ kind = "power" /\ main = "waiting" /\ ~(measured \subseteq ready)
  /\ Cleanup

(* TemperatureMonitor.__init__ warns, and goes on with the child as it is. *)
TemperatureReadyTimeout ==
  /\ kind = "temperature" /\ main = "waiting" /\ ~(measured \subseteq ready)
  /\ main' = "running"
  /\ UNCHANGED <<now, kind, measured, detected, period, childVars, ready, stop, unsent, pipe,
                 samples, joining>>

Joined(d) ==
  /\ main = "stopping" /\ joining[d] \in {"join", "terminate", "kill"}
  /\ child[d] \in Gone
  /\ joining' = [joining EXCEPT ![d] = "done"]
  /\ UNCHANGED <<now, kind, main, measured, detected, period, childVars, ready, stop, unsent,
                 pipe, samples>>

JoinForever(d) == FALSE

(* join(timeout) returns with the process alive. *)
JoinTimeout(d) ==
  /\ main = "stopping" /\ child[d] \notin Gone
  /\ \/ joining[d] = "join" /\ joining' = [joining EXCEPT ![d] = "terminate"]
     \/ joining[d] = "terminate" /\ joining' = [joining EXCEPT ![d] = "kill"]
     \/ joining[d] = "kill" /\ joining' = [joining EXCEPT ![d] = "done"]
  /\ UNCHANGED <<now, kind, main, measured, detected, period, childVars, ready, stop, unsent,
                 pipe, samples>>

Stopped ==
  /\ main = "stopping" /\ \A d \in measured : joining[d] = "done"
  /\ main' = "stopped"
  /\ UNCHANGED <<now, kind, measured, detected, period, childVars, ready, stop, unsent, pipe,
                 samples, joining>>

Signalled(d) ==
  \/ joining[d] \in {"terminate", "kill"}
  \/ joining[d] = "done" /\ child[d] \notin Gone

(* SIGTERM or SIGKILL takes the process with what its feeder had not sent; *)
(* no finally runs.                                                        *)
Die(d) ==
  /\ Signalled(d) /\ child[d] \notin Gone
  /\ child' = [child EXCEPT ![d] = "gone"]
  /\ unsent' = [unsent EXCEPT ![d] = <<>>]
  /\ UNCHANGED <<now, parentVars, todo, stamp, prev, ready, stop, pipe>>

-----------------------------------------------------------------------------
(* _domain_polling_process and _temperature_polling_process. *)

SetReady(d) ==
  /\ child[d] = "starting"
  /\ child' = [child EXCEPT ![d] = "idle"] /\ ready' = ready \cup {d}
  /\ UNCHANGED <<now, parentVars, todo, stamp, prev, stop, unsent, pipe>>

(* The finally of the process: whatever ended it, "STOP" is the last it puts. *)
Finish(d) ==
  /\ child' = [child EXCEPT ![d] = "exiting"]
  /\ todo' = [todo EXCEPT ![d] = <<>>]
  /\ unsent' = [unsent EXCEPT ![d] = Append(@, STOP)]
  /\ UNCHANGED <<now, parentVars, stamp, prev, ready, stop, pipe>>

(* while not stop_event.is_set() *)
BeginPass(d) ==
  /\ child[d] = "idle" /\ d \notin stop
  /\ now > stamp[d] /\ (stamp[d] >= 0 => now >= stamp[d] + period)
  /\ child' = [child EXCEPT ![d] = "polling"]
  /\ stamp' = [stamp EXCEPT ![d] = now] /\ todo' = [todo EXCEPT ![d] = Gpus]
  /\ UNCHANGED <<now, parentVars, prev, ready, stop, unsent, pipe>>

SeesStop(d) == child[d] = "idle" /\ d \in stop /\ Finish(d)

Put(d, g, r) ==
  unsent' = [unsent EXCEPT ![d] = Append(@, [gpu |-> g, at |-> stamp[d], value |-> r])]

KnownNever(d, g, r) == FALSE
Known(d, g, r) == g \in DOMAIN prev[d] /\ prev[d][g] = r

(* A reading that changed is remembered and sent. *)
Report(d, g, r) ==
  IF Known(d, g, r) THEN UNCHANGED <<prev, unsent>>
  ELSE Put(d, g, r) /\ prev' = [prev EXCEPT ![d] =
         [h \in DOMAIN @ \cup {g} |-> IF h = g THEN r ELSE @[h]]]

PollPower(d) ==
  /\ kind = "power" /\ child[d] = "polling" /\ todo[d] # <<>>
  /\ \/ \E r \in Readings \ {0} : Report(d, Head(todo[d]), r)
     \/ UNCHANGED <<prev, unsent>>  \* a reading of 0, or NotSupported
  /\ todo' = [todo EXCEPT ![d] = Tail(@)]
  /\ UNCHANGED <<now, parentVars, child, stamp, ready, stop, pipe>>

PollTemperature(d) ==
  /\ kind = "temperature" /\ child[d] = "polling" /\ todo[d] # <<>>
  /\ \/ /\ \E r \in Readings : Report(d, Head(todo[d]), r)
        /\ todo' = [todo EXCEPT ![d] = Tail(@)]
     \/ /\ todo' = [todo EXCEPT ![d] = <<>>]   \* NotSupported: break
        /\ UNCHANGED <<prev, unsent>>
  /\ UNCHANGED <<now, parentVars, child, stamp, ready, stop, pipe>>

EndPass(d) ==
  /\ child[d] = "polling" /\ todo[d] = <<>>
  /\ child' = [child EXCEPT ![d] = "idle"]
  /\ UNCHANGED <<now, parentVars, todo, stamp, prev, ready, stop, unsent, pipe>>

(* get_gpus or a reading raises, or Ctrl-C reaches the child. *)
PollFails(d) == child[d] \in {"starting", "idle", "polling"} /\ Finish(d)

(* The feeder thread of the queue, and the exit that waits for it. *)
Feed(d) ==
  /\ child[d] \notin Gone /\ unsent[d] # <<>> /\ Len(pipe[d]) < PipeCapacity
  /\ pipe' = [pipe EXCEPT ![d] = Append(@, Head(unsent[d]))]
  /\ unsent' = [unsent EXCEPT ![d] = Tail(@)]
  /\ UNCHANGED <<now, parentVars, childVars, ready, stop>>

Exit(d) ==
  /\ child[d] = "exiting" /\ unsent[d] = <<>>
  /\ child' = [child EXCEPT ![d] = "gone"]
  /\ UNCHANGED <<now, parentVars, todo, stamp, prev, ready, stop, unsent, pipe>>

-----------------------------------------------------------------------------
(* Questions, of a monitor that runs or that was stopped. *)

(* A deque with a maximum length: the new pushes out the oldest. *)
Extended(line, m) ==
  IF Len(line) < MaxSamples THEN Append(line, m) ELSE Append(Tail(line), m)

(* _process_queue_data: get_nowait() after get_nowait(), while the feeder  *)
(* goes on sending.                                                        *)
DrainWhenRoom(d) ==
  /\ main \in {"running", "stopped"} /\ d \in measured /\ pipe[d] # <<>>
  /\ pipe' = [pipe EXCEPT ![d] = Tail(@)]
  /\ LET m == Head(pipe[d]) IN
     samples' = IF m = STOP \/ Len(samples[d][m.gpu]) = MaxSamples THEN samples
                ELSE [samples EXCEPT ![d][m.gpu] = Append(@, m)]
  /\ UNCHANGED <<now, kind, main, measured, detected, period, childVars, ready, stop, unsent,
                 joining>>

Drain(d) ==
  /\ main \in {"running", "stopped"} /\ d \in measured /\ pipe[d] # <<>>
  /\ pipe' = [pipe EXCEPT ![d] = Tail(@)]
  /\ LET m == Head(pipe[d]) IN
     samples' = IF m = STOP THEN samples ELSE [samples EXCEPT ![d][m.gpu] = Extended(@, m)]
  /\ UNCHANGED <<now, kind, main, measured, detected, period, childVars, ready, stop, unsent,
                 joining>>

DrainPower(d) == kind = "power" /\ Drain(d)
DrainTemperature(d) == kind = "temperature" /\ Drain(d)

(* bisect_left over the timestamps, then the nearer neighbour. *)
BisectLeft(s, t) == 1 + Cardinality({i \in DOMAIN s : s[i].at < t})

ClosestLeft(s, t) == LET pos == BisectLeft(s, t) IN IF pos = 1 THEN s[1] ELSE s[pos - 1]

(* On a tie, the sample before. *)
Nearer(before, after, t) == IF t - before.at <= after.at - t THEN before ELSE after

ClosestSample(s, t) ==
  LET pos == BisectLeft(s, t) IN
  IF pos = 1 THEN s[1]
  ELSE IF pos > Len(s) THEN s[Len(s)]
  ELSE Nearer(s[pos - 1], s[pos], t)

(* get_power_timeline of one GPU, as the places of its samples, which are  *)
(* in the order of their times.                                            *)
TimelineOpenEnd(d, g, start, end) == {i \in DOMAIN samples[d][g] : start <= samples[d][g][i].at}
Timeline(d, g, start, end) ==
  {i \in DOMAIN samples[d][g] : start <= samples[d][g][i].at /\ samples[d][g][i].at <= end}

(* get_energy: twice the area under the lines between these samples.       *)
TwiceEnergy(d, g, start, end) ==
  LET line == Timeline(d, g, start, end)
      piece(i) == LET a == samples[d][g][i]
                      b == samples[d][g][Min({j \in line : j > i})]
                  IN  (b.at - a.at) * (b.value + a.value)
  IN  MapThenSumSet(piece, {i \in line : \E j \in line : j > i})

-----------------------------------------------------------------------------
ChildStep(d) ==
  \/ SetReady(d) \/ BeginPass(d) \/ SeesStop(d) \/ PollPower(d) \/ PollTemperature(d)
  \/ EndPass(d) \/ PollFails(d) \/ Feed(d) \/ Exit(d) \/ Die(d)

ParentStep ==
  \/ NewPowerMonitor \/ NewTemperatureMonitor \/ AllReady
  \/ PowerReadyTimeout \/ TemperatureReadyTimeout \/ StopPower \/ StopTemperature \/ Stopped
  \/ \E d \in Domains : Joined(d) \/ JoinTimeout(d) \/ DrainPower(d) \/ DrainTemperature(d)

Next == Tick \/ ParentStep \/ \E d \in Domains : ChildStep(d)

(* The parent's joins return, at the latest when they time out; a signal   *)
(* that was sent arrives.  Nothing is assumed of a child, which may hang   *)
(* in a driver call.                                                       *)
Spec ==
  /\ Init /\ [][Next]_vars
  /\ WF_vars(Stopped)
  /\ \A d \in Domains : WF_vars(Joined(d) \/ JoinTimeout(d)) /\ WF_vars(Die(d))

-----------------------------------------------------------------------------
(* What a child has reported and the monitor has not kept yet. *)
InFlight(d) == pipe[d] \o unsent[d]
Sent(d, g) == {i \in DOMAIN InFlight(d) : InFlight(d)[i].gpu = g}

Follows(old, new) == old.at < new.at /\ old.value # new.value

(* What a monitor has kept, what is in flight and what is still with the   *)
(* child is one timeline: times increase and neighbours differ, which      *)
(* get_power's bisect and get_energy's area both take for granted          *)
(* (power.py, get_power_timeline: "timeline data with deduplication").     *)
DedupTimeline ==
  \A d \in Domains, g \in Devices :
    LET kept == samples[d][g]
        msgs == InFlight(d)
    IN /\ \A i \in 1..(Len(kept) - 1) : Follows(kept[i], kept[i + 1])
       /\ \A j \in Sent(d, g) :
            LET before == {i \in Sent(d, g) : i < j} IN
            IF before # {} THEN Follows(msgs[Max(before)], msgs[j])
            ELSE kept # <<>> => Follows(kept[Len(kept)], msgs[j])

(* While a child lives, the newest of its timeline is the reading it last  *)
(* took: deduplication and the bounded deque never hide the present, so    *)
(* get_power() of a drained queue is the current power.                    *)
LatestIsKept ==
  \A d \in Domains : child[d] \notin Gone =>
    \A g \in DOMAIN prev[d] :
      IF Sent(d, g) # {} THEN InFlight(d)[Max(Sent(d, g))].value = prev[d][g]
      ELSE samples[d][g] # <<>> /\ samples[d][g][Len(samples[d][g])].value = prev[d][g]

(* get_power(t) and get_temperature(t) pick a sample than which no other   *)
(* is nearer to t.                                                         *)
ClosestIsNearest ==
  \A d \in Domains, g \in Devices, t \in 0..MaxTime : samples[d][g] # <<>> =>
    LET far(m) == IF m.at > t THEN m.at - t ELSE t - m.at IN
    \A i \in DOMAIN samples[d][g] :
      far(ClosestSample(samples[d][g], t)) <= far(samples[d][g][i])

(* The energy of a window is at most the highest reading over its length.  *)
EnergyIsBounded ==
  \A d \in Domains, g \in Devices, start \in 0..MaxTime, end \in 0..MaxTime :
    start <= end => TwiceEnergy(d, g, start, end) <= 2 * Max(Readings) * (end - start)

(* stop() returns whatever the children do, and none of them is left, also *)
(* of a monitor that gave up on a child that was not ready, or that went   *)
(* on with it.                                                             *)
StopEndsAll ==
  main = "stopping" ~> main = "stopped" /\ \A d \in Domains : child[d] \in Gone
=============================================================================
