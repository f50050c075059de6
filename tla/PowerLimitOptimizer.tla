------------------------- MODULE PowerLimitOptimizer -------------------------
(***************************************************************************)
(* zeus.optimizer.power_limit.GlobalPowerLimitOptimizer in the processes   *)
(* (ranks) of a training job: the state machine that the callbacks of the  *)
(* training loop drive, the all-reduce that combines the measurements of   *)
(* the ranks, and the profile that outlives the job.                       *)
(*                                                                         *)
(* Power limits are milliwatts, in the measurements watts.  Ranks keep     *)
(* step through their gradients: after a step's callback a rank makes its  *)
(* next one only when every rank has made that one.                        *)
(***************************************************************************)
EXTENDS Integers, Sequences, FiniteSets, FiniteSetsExt, SequencesExt, Functions

CONSTANTS
  Gpus,                       \* per rank, its monitor's GPUs in order
  MinLimit, MaxLimit, PlStep, \* in milliwatts
  WaitSteps, WarmupSteps, ProfileSteps,
  Epochs, EpochSteps,
  Energies, Times,            \* what a window may measure on one rank
  MaxKills, MaxFailures       \* bounds on jobs killed and calls that raise

Ranks == DOMAIN Gpus
AllGpus == UNION {Range(Gpus[r]) : r \in Ranks}

ASSUME OptimizerAssumption ==
  /\ Ranks # {} /\ IsFiniteSet(Ranks)
  /\ \A r \in Ranks : Gpus[r] \in Seq(AllGpus) \ {<<>>}
  /\ \A r, q \in Ranks : r # q => Range(Gpus[r]) \cap Range(Gpus[q]) = {}
  /\ {MinLimit, MaxLimit, PlStep} \subseteq {1000 * w : w \in 1..1000}
  /\ MinLimit <= MaxLimit
  /\ WaitSteps \in Nat /\ {WarmupSteps, ProfileSteps, EpochSteps} \subseteq Nat \ {0}
  /\ Energies \subseteq Nat \ {0} /\ Times \subseteq Nat \ {0}

(* list(range(max, min - 1, -step)) *)
power_limits ==
  [i \in 1..((MaxLimit - MinLimit) \div PlStep + 1) |-> MaxLimit - (i - 1) * PlStep]

VARIABLES
  selector, saves,  \* the job's arguments: which selector, and if there is a profile_path
  proc,             \* per rank: "starting", "training", "reducing", "reduced",
                    \* "saving", "exiting", "exited", "raised"
  calls,            \* per rank, the callbacks its training loop has made
  state, current_power_limit, measurements,
  window,           \* per rank, the limits whose window is open
  contribution,     \* per rank, what it brings to the all-reduce
  gpu,              \* per GPU, the limit in force
  file,             \* the profile: a missing one, an empty one, or what was written
  kills, failures

callVars == <<selector, saves, kills, failures>>
optVars == <<state, current_power_limit, measurements, window>>
vars == <<callVars, proc, calls, optVars, contribution, gpu, file>>

Selectors == {"Energy", "Time", "ZeusCost", "MaxSlowdownConstraint"}
NoState == [mode |-> "none", pl |-> 0, steps |-> 0]
Fresh == [r \in Ranks |-> <<>>]

Init ==
  /\ selector \in Selectors /\ saves \in BOOLEAN
  /\ proc = [r \in Ranks |-> "starting"] /\ calls = [r \in Ranks |-> 0]
  /\ state = [r \in Ranks |-> NoState] /\ current_power_limit = [r \in Ranks |-> 0]
  /\ measurements = Fresh /\ window = [r \in Ranks |-> {}] /\ contribution = Fresh
  /\ gpu = [g \in AllGpus |-> MaxLimit] /\ file = [is |-> "missing", holds |-> <<>>]
  /\ kills = 0 /\ failures = 0

-----------------------------------------------------------------------------
(* Selectors: the first of the least, as min() finds it. *)

FirstLeast(ms, cost) ==
  ms[Min({i \in DOMAIN ms : \A j \in DOMAIN ms : cost[i] <= cost[j]})].power_limit

HighestOf(ms) == Max({ms[i].power_limit : i \in DOMAIN ms})

(* eta is 1/2 and the factor 3/2; costs are doubled. *)
Cost(ms) == [i \in DOMAIN ms |-> ms[i].energy + HighestOf(ms) * ms[i].time]

Feasible(ms) ==
  LET shortest == ms[Min({i \in DOMAIN ms : ms[i].power_limit = HighestOf(ms)})].time IN
  {ms[i].power_limit : i \in {j \in DOMAIN ms : 2 * ms[j].time <= 3 * shortest}}

Select(ms) ==
  CASE selector = "Energy" -> FirstLeast(ms, [i \in DOMAIN ms |-> ms[i].energy])
    [] selector = "Time" -> FirstLeast(ms, [i \in DOMAIN ms |-> ms[i].time])
    [] selector = "ZeusCost" -> FirstLeast(ms, Cost(ms))
    [] selector = "MaxSlowdownConstraint" -> Min(Feasible(ms))

OptimalPowerLimit(ms) == Select(ms) * 1000

-----------------------------------------------------------------------------
(* _set_power_limit: nothing when the limit is the one set last. *)

SetPowerLimit(r, pl) ==
  /\ current_power_limit' = [current_power_limit EXCEPT ![r] = pl]
  /\ gpu' = IF current_power_limit[r] = pl THEN gpu
            ELSE [g \in AllGpus |-> IF g \in Range(Gpus[r]) THEN pl ELSE gpu[g]]

(* One of the GPUs raises: those before it have the new limit. *)
SetRaises(r, pl, after) ==
  /\ current_power_limit[r] # pl /\ failures < MaxFailures
  /\ failures' = failures + 1
  /\ \E n \in 0..(Len(Gpus[r]) - 1) :
       gpu' = [g \in AllGpus |-> IF g \in Range(SubSeq(Gpus[r], 1, n)) THEN pl ELSE gpu[g]]
  /\ proc' = [proc EXCEPT ![r] = after]
  /\ UNCHANGED <<selector, saves, kills, calls, optVars, contribution, file>>

Enter(r, mode, pl, steps) == state' = [state EXCEPT ![r] = [mode |-> mode, pl |-> pl, steps |-> steps]]
Goto(r, where) == proc' = [proc EXCEPT ![r] = where]

-----------------------------------------------------------------------------
(* __init__ *)

initFrame == <<callVars, calls, window, contribution, file>>

StartProfiling(r) ==
  /\ proc[r] = "starting" /\ (saves => file.is = "missing")
  /\ Enter(r, "Ready", power_limits[1], WaitSteps + 1)
  /\ SetPowerLimit(r, MaxLimit) /\ Goto(r, "training")
  /\ UNCHANGED <<measurements, initFrame>>

LoadProfile(r) ==
  /\ proc[r] = "starting" /\ saves /\ file.is = "saved"
  /\ measurements' = [measurements EXCEPT ![r] = file.holds]
  /\ Enter(r, "Done", OptimalPowerLimit(file.holds), 0)
  /\ SetPowerLimit(r, OptimalPowerLimit(file.holds)) /\ Goto(r, "training")
  /\ UNCHANGED initFrame

(* An empty profile does not parse. *)
ProfileDoesNotParse(r) ==
  /\ proc[r] = "starting" /\ saves /\ file.is = "empty"
  /\ Goto(r, "raised")
  /\ UNCHANGED <<optVars, gpu, initFrame>>

(* No permission, or a limit that cannot be set: atexit is not registered. *)
ConstructorRaises(r) ==
  /\ proc[r] = "starting" /\ (saves => file.is = "missing")
  /\ SetRaises(r, MaxLimit, "raised")

-----------------------------------------------------------------------------
(* The training loop and its callbacks. *)

EpochLength == EpochSteps + 1
AtEpochEnd(r) == calls[r] % EpochLength = EpochSteps

InStep(r) ==
  calls[r] % EpochLength # 0 => \A q \in Ranks : calls[q] >= calls[r]

Calls(r) ==
  /\ proc[r] = "training" /\ calls[r] < Epochs * EpochLength /\ InStep(r)
  /\ calls' = [calls EXCEPT ![r] = @ + 1]

StepBegins(r, mode) == Calls(r) /\ ~AtEpochEnd(r) /\ state[r].mode = mode

callFrame == <<callVars, contribution, file>>
quietFrame == <<callFrame, current_power_limit, measurements, gpu>>

(* A step in the middle of a state, or in Done. *)
CountStep(r) ==
  /\ \E mode \in {"Ready", "Warmup", "Profiling", "Done"} : StepBegins(r, mode)
  /\ state[r].mode = "Done" \/ state[r].steps > 1
  /\ state' = IF state[r].mode = "Done" THEN state ELSE [state EXCEPT ![r].steps = @ - 1]
  /\ UNCHANGED <<proc, window, quietFrame>>

StartWarmup(r) ==
  /\ StepBegins(r, "Ready") /\ state[r].steps = 1
  /\ SetPowerLimit(r, state[r].pl)
  /\ Enter(r, "Warmup", state[r].pl, WarmupSteps)
  /\ UNCHANGED <<proc, window, measurements, callFrame>>

BeginProfiling(r) ==
  /\ StepBegins(r, "Warmup") /\ state[r].steps = 1
  /\ Enter(r, "Profiling", state[r].pl, ProfileSteps)
  /\ window' = [window EXCEPT ![r] = @ \cup {state[r].pl}]
  /\ UNCHANGED <<proc, quietFrame>>

(* end_window, and the rank enters the all-reduce. *)
EndProfiling(r) ==
  /\ StepBegins(r, "Profiling") /\ state[r].steps = 1
  /\ state' = [state EXCEPT ![r].steps = 0]
  /\ window' = [window EXCEPT ![r] = @ \ {state[r].pl}]
  /\ \E e \in Energies, t \in Times :
       contribution' = [contribution EXCEPT ![r] = [energy |-> e, time |-> t]]
  /\ Goto(r, "reducing")
  /\ UNCHANGED <<callVars, current_power_limit, measurements, gpu, file>>

NoReduce ==
  /\ \A r \in Ranks : proc[r] = "reducing"
  /\ measurements' = [r \in Ranks |->
       Append(measurements[r], [power_limit |-> state[r].pl \div 1000,
                                energy |-> contribution[r].energy, time |-> contribution[r].time])]
  /\ proc' = [r \in Ranks |-> "reduced"] /\ contribution' = Fresh
  /\ UNCHANGED <<callVars, calls, state, current_power_limit, window, gpu, file>>

(* What the ranks brought, reduced. *)
TotalEnergy(brought) == MapThenSumSet(LAMBDA r : brought[r].energy, Ranks)
LongestTime(brought) == Max({brought[r].time : r \in Ranks})

(* Nobody leaves it before everybody is there. *)
AllReduce ==
  /\ \A r \in Ranks : proc[r] = "reducing"
  /\ measurements' = [r \in Ranks |->
       Append(measurements[r], [power_limit |-> state[r].pl \div 1000,
                                energy |-> TotalEnergy(contribution),
                                time |-> LongestTime(contribution)])]
  /\ proc' = [r \in Ranks |-> "reduced"] /\ contribution' = Fresh
  /\ UNCHANGED <<callVars, calls, state, current_power_limit, window, gpu, file>>

IndexOf(pl) == CHOOSE i \in DOMAIN power_limits : power_limits[i] = pl

NextLimit(r) ==
  LET i == IndexOf(state[r].pl) IN
  /\ proc[r] = "reduced" /\ i < Len(power_limits)
  /\ SetPowerLimit(r, power_limits[i + 1])
  /\ Enter(r, "Warmup", power_limits[i + 1], WarmupSteps) /\ Goto(r, "training")
  /\ UNCHANGED <<calls, window, measurements, callFrame>>

Finish(r) ==
  /\ proc[r] = "reduced" /\ IndexOf(state[r].pl) = Len(power_limits)
  /\ LET optimal == OptimalPowerLimit(measurements[r])
     IN Enter(r, "Done", optimal, 0) /\ SetPowerLimit(r, optimal)
  /\ Goto(r, IF saves THEN "saving" ELSE "training")
  /\ file' = IF saves THEN [is |-> "empty", holds |-> <<>>] ELSE file   \* open("w") truncates
  /\ UNCHANGED <<callVars, calls, window, measurements, contribution>>

SaveProfile(r) ==
  /\ proc[r] = "saving"
  /\ file' = [is |-> "saved", holds |-> measurements[r]] /\ Goto(r, "training")
  /\ UNCHANGED <<callVars, calls, optVars, contribution, gpu>>

EpochEndLeavesWindow(r) ==
  /\ Calls(r) /\ AtEpochEnd(r)
  /\ IF state[r].mode \in {"Warmup", "Profiling"}
     THEN /\ Enter(r, "Ready", state[r].pl, 1) /\ SetPowerLimit(r, MaxLimit)
     ELSE UNCHANGED <<state, current_power_limit, gpu>>
  /\ UNCHANGED <<proc, window, measurements, callFrame>>

EpochEndMovesOn(r) ==
  /\ Calls(r) /\ AtEpochEnd(r)
  /\ IF state[r].mode \in {"Warmup", "Profiling"}
     THEN /\ Enter(r, "Ready", Max({MinLimit, state[r].pl - PlStep}), 1) /\ SetPowerLimit(r, MaxLimit)
          /\ window' = [window EXCEPT ![r] = @ \ {state[r].pl}]
     ELSE UNCHANGED <<state, window, current_power_limit, gpu>>
  /\ UNCHANGED <<proc, measurements, callFrame>>

(* on_epoch_end: a window in progress is cancelled, and its limit is       *)
(* measured anew in the next epoch.                                        *)
OnEpochEnd(r) ==
  /\ Calls(r) /\ AtEpochEnd(r)
  /\ IF state[r].mode \in {"Warmup", "Profiling"}
     THEN /\ Enter(r, "Ready", state[r].pl, 1) /\ SetPowerLimit(r, MaxLimit)
          /\ window' = [window EXCEPT ![r] = @ \ {state[r].pl}]
     ELSE UNCHANGED <<state, window, current_power_limit, gpu>>
  /\ UNCHANGED <<proc, measurements, callFrame>>

(* A step whose _set_power_limit raises: the process ends. *)
CallbackRaises(r) ==
  \/ /\ proc[r] = "training" /\ state[r].mode = "Ready" /\ state[r].steps = 1
     /\ ~AtEpochEnd(r) /\ InStep(r) /\ calls[r] < Epochs * EpochLength
     /\ SetRaises(r, state[r].pl, "exiting")
  \/ /\ proc[r] = "reduced" /\ IndexOf(state[r].pl) < Len(power_limits)
     /\ SetRaises(r, power_limits[IndexOf(state[r].pl) + 1], "exiting")

-----------------------------------------------------------------------------
(* The end of a process, and of the job. *)

exitFrame == <<callVars, calls, state, measurements, window, contribution, file>>

TrainingOver(r) ==
  /\ proc[r] = "training" /\ calls[r] = Epochs * EpochLength /\ Goto(r, "exiting")
  /\ UNCHANGED <<current_power_limit, gpu, exitFrame>>

AtExitForgotten(r) ==
  /\ proc[r] = "exiting" /\ Goto(r, "exited")
  /\ UNCHANGED <<current_power_limit, gpu, exitFrame>>

AtExit(r) ==
  /\ proc[r] = "exiting" /\ Goto(r, "exited")
  /\ SetPowerLimit(r, MaxLimit)
  /\ UNCHANGED exitFrame

(* Every process is killed and the job is launched again: the GPUs keep    *)
(* their limits and the file what it holds.                                *)
KillAndRestart ==
  /\ kills < MaxKills /\ kills' = kills + 1
  /\ proc' = [r \in Ranks |-> "starting"] /\ calls' = [r \in Ranks |-> 0]
  /\ state' = [r \in Ranks |-> NoState] /\ current_power_limit' = [r \in Ranks |-> 0]
  /\ measurements' = Fresh /\ window' = [r \in Ranks |-> {}] /\ contribution' = Fresh
  /\ UNCHANGED <<selector, saves, failures, gpu, file>>

-----------------------------------------------------------------------------
RankStep(r) ==
  \/ StartProfiling(r) \/ LoadProfile(r) \/ ProfileDoesNotParse(r)
  \/ CountStep(r) \/ StartWarmup(r) \/ BeginProfiling(r) \/ EndProfiling(r)
  \/ NextLimit(r) \/ Finish(r) \/ SaveProfile(r) \/ OnEpochEnd(r)
  \/ TrainingOver(r) \/ AtExit(r)

Next ==
  \/ AllReduce \/ KillAndRestart
  \/ \E r \in Ranks : RankStep(r) \/ ConstructorRaises(r) \/ CallbackRaises(r)

(* Processes go on, and an all-reduce everybody has entered ends. *)
Spec ==
  /\ Init /\ [][Next]_vars
  /\ WF_vars(AllReduce) /\ \A r \in Ranks : WF_vars(RankStep(r))

-----------------------------------------------------------------------------
(* Every window is open while, and only while, its limit is in force on    *)
(* all the GPUs it measures, whatever epochs end in it.                    *)
MeasuredAtItsLimit ==
  \A r \in Ranks : proc[r] = "training" =>
    /\ window[r] = IF state[r].mode = "Profiling" THEN {state[r].pl} ELSE {}
    /\ state[r].mode \in {"Warmup", "Profiling", "Done"} =>
         \A g \in Range(Gpus[r]) : gpu[g] = state[r].pl

(* Each limit is measured once, in order, and the ranks measure the same   *)
(* limit at a time: what one has is what another has, but for what the     *)
(* latest all-reduce has given it.                                         *)
EachLimitOnce ==
  \A r \in Ranks :
    /\ \A i \in DOMAIN measurements[r] : measurements[r][i].power_limit = power_limits[i] \div 1000
    /\ proc[r] \in {"training", "reducing"} /\ state[r].mode # "Done"
         => state[r].pl = power_limits[Len(measurements[r]) + 1]

(* The ranks of a job settle on the same limit, and so does the same job   *)
(* when it is run again with the profile of the run before.                *)
RanksAgree ==
  \A r, q \in Ranks :
    /\ state[r].mode = "Done" /\ state[q].mode = "Done" => state[r].pl = state[q].pl
    /\ state[r].mode = "Done" /\ file.is = "saved" =>
         state[r].pl = OptimalPowerLimit(file.holds)

(* A job in which nothing raises and that nobody kills comes to its end,   *)
(* with no rank left in an all-reduce, and leaves all GPUs at the highest  *)
(* limit.                                                                  *)
EndsRestored ==
  <>(\/ kills > 0 \/ failures > 0
     \/ (\A r \in Ranks : proc[r] = "exited") /\ (\A g \in AllGpus : gpu[g] = MaxLimit))
=============================================================================
