---------------------------- MODULE LegacySimulator ----------------------------
(***************************************************************************)
(* zeus._legacy: the simulator of recurring jobs, either one at a time or  *)
(* the concurrent jobs of a group in a trace, with the policies it drives: *)
(* Thompson sampling for the batch size, either from the start or after    *)
(* pruning, and the power limit profiled when a batch size is first used.  *)
(*                                                                         *)
(* An epoch has a cost per batch size and power limit, which stands for    *)
(* its time and energy.  The path sampled from the trace is any of those   *)
(* the batch size has; the sample of the bandit is any arm.                *)
(***************************************************************************)
EXTENDS PruningExplore, Sequences, SequencesExt, TLC

CONSTANTS
  PowerLimits,
  EpochCost,  \* by batch size and power limit
  Targets,    \* by batch size, the target_epoch of its paths; 0 stands for none
  MaxEpochs,
  Beta,       \* beta_knob; 0 stands for np.inf
  WindowSize,
  Recurrences, \* num_recurrence, or the rows of the group
  MaxTries,    \* per recurrence of one job
  Gaps, Durations, \* of the rows: from one start to the next, from start to end
  MaxRuns     \* bound on the jobs launched

ASSUME SimulatorAssumption ==
  /\ BatchSizes \subseteq Nat \ {0} /\ IsFiniteSet(BatchSizes) /\ DefaultBatchSize \in BatchSizes
  /\ NumPruningRounds = 2 /\ WindowSize \in Nat \ {1}
  /\ PowerLimits \subseteq Nat \ {0} /\ PowerLimits # {}
  /\ EpochCost \in [BatchSizes -> [PowerLimits -> Nat \ {0}]]
  /\ Targets \in [BatchSizes -> SUBSET Nat]
  /\ {MaxEpochs, Recurrences, MaxTries} \subseteq Nat \ {0} /\ Beta \in Nat
  /\ Gaps \subseteq 0..((Infinity - 1) \div Recurrences) /\ Durations \subseteq Nat \ {0}

VARIABLES
  mode,       \* "one job" or "group"
  policy,     \* "Pruning" or "GTS"
  at,         \* where the simulation is
  bso,        \* gen, history and arms of the batch size optimizer
  best_pl,    \* of JITPowerLimitOptimizer
  min_cost,   \* Infinity until there is one
  best_bs,
  runs,       \* jobs launched
  \* of simulate_one_alibaba_group
  rec_i, current_time, running_jobs,
  \* of simulate_one_job
  tries, cost_acc,
  last_end    \* when the last job observed in the group had ended

simulatorVars == <<mode, policy, at, bso, best_pl, min_cost, best_bs, runs, rec_i,
          current_time, running_jobs, tries, cost_acc, last_end>>
chosen == <<mode, policy>>
groupVars == <<current_time, running_jobs, last_end>>
oneJobVars == <<tries, cost_acc>>

(* GaussianTS, by the number of observations of each arm. *)
NewMab(arms) == [a \in arms |-> 0]

(* register_job.  With pruning there is no bandit yet. *)
RegisterPruning == [gen |-> NewGenerator, history |-> <<>>, arms |-> <<>>]
RegisterGTS == [RegisterPruning EXCEPT !.arms = NewMab(BatchSizes)]
RegisterJob(p) == IF p = "GTS" THEN RegisterGTS ELSE RegisterPruning

SimulatorInit ==
  /\ mode \in {"one job", "group"} /\ policy \in {"Pruning", "GTS"} /\ at = "next"
  /\ bso = RegisterJob(policy)
  /\ best_pl = <<>> /\ min_cost = Infinity /\ best_bs = DefaultBatchSize /\ runs = 0
  /\ rec_i = 0 /\ current_time = 0 /\ running_jobs = <<>> /\ last_end = 0
  /\ tries = 0 /\ cost_acc = 0

-----------------------------------------------------------------------------
(* GTSBatchSizeOptimizer and PruningGTSBatchSizeOptimizer, the arms by     *)
(* their num_observations.                                                 *)

HistoryForBs(b, bs) ==
  LET n == Len(SelectSeq(b.history, LAMBDA o : o.bs = bs))
  IN IF policy = "GTS" \/ WindowSize = 0 \/ n < WindowSize THEN n ELSE WindowSize

ConstructMab(b, good) == [a \in good |-> HistoryForBs(b, a)]

(* GaussianTS.predict, with num_exploration=1 unless there was pruning. *)
MabPredict(arms) ==
  LET cold == {a \in DOMAIN arms : arms[a] < IF policy = "GTS" THEN 1 ELSE 2}
  IN IF cold # {} THEN cold ELSE DOMAIN arms

(* What predict may answer; none where it raises. *)
Predict(b) ==
  LET g == NextBatch(b.gen)
      enough == g.left # {} /\ \A a \in g.left : HistoryForBs(b, a) >= 2
      arms == IF b.arms = <<>> THEN ConstructMab(b, g.left) ELSE b.arms
  IN CASE policy = "GTS" -> {[bs |-> a, bso |-> b] : a \in MabPredict(b.arms)}
       [] policy = "Pruning" /\ g.is = "asked" ->
            {[bs |-> g.expecting, bso |-> [b EXCEPT !.gen = g]]}
       [] policy = "Pruning" /\ g.is = "over" /\ enough ->
            {[bs |-> a, bso |-> [b EXCEPT !.gen = g, !.arms = arms]] : a \in MabPredict(arms)}
       [] OTHER -> {}

Remember(b, bs, cost, reached) ==
  [b EXCEPT !.history = Append(@, [bs |-> bs, cost |-> cost, reached |-> reached])]

FitArm(b, bs) == [b EXCEPT !.arms = [a \in DOMAIN @ |-> IF a = bs THEN HistoryForBs(b, bs) ELSE @[a]]]

ObserveAll(b, bs, cost, reached) ==
  LET known == Remember(b, bs, cost, reached)
  IN IF b.arms # <<>> THEN FitArm(known, bs)
     ELSE [known EXCEPT !.gen = SendResult(@, bs, cost, reached)]

(* With concurrent jobs, a result the generator does not expect is only    *)
(* remembered.                                                             *)
Observe(b, bs, cost, reached) ==
  LET known == Remember(b, bs, cost, reached)
  IN IF b.arms # <<>> THEN FitArm(known, bs)
     ELSE IF mode = "group" /\ b.gen.expecting # bs THEN known
     ELSE [known EXCEPT !.gen = SendResult(@, bs, cost, reached)]

-----------------------------------------------------------------------------
(* JITPowerLimitOptimizer, observed from the largest power limit down.     *)
ObserveLimit(best, bs, pl) ==
  IF best = 0 \/ EpochCost[bs][pl] < EpochCost[bs][best] THEN pl ELSE best

ProfilePowerLimit(bs) ==
  FoldLeft(LAMBDA best, pl : ObserveLimit(best, bs, pl), 0, SetToSortSeq(PowerLimits, >))

NeedsProfiling(bs) == bs \notin DOMAIN best_pl
PowerLimit(bs) == IF NeedsProfiling(bs) THEN ProfilePowerLimit(bs) ELSE best_pl[bs]
Profiled(bs) == best_pl' = (bs :> PowerLimit(bs)) @@ best_pl

(* _run_job.  The first epoch of a batch size goes through all the limits. *)
CostUb == IF Beta = 0 \/ min_cost = Infinity THEN Infinity ELSE Beta * min_cost

EpochsAllowed(bs) ==
  IF CostUb = Infinity THEN MaxEpochs
  ELSE Min({CostUb \div EpochCost[bs][PowerLimit(bs)], MaxEpochs})

CostOf(bs, epochs) ==
  LET first == IF NeedsProfiling(bs)
               THEN MapThenSumSet(LAMBDA pl : EpochCost[bs][pl], PowerLimits) \div Cardinality(PowerLimits)
               ELSE EpochCost[bs][PowerLimit(bs)]
  IN IF epochs = 0 THEN 0 ELSE first + (epochs - 1) * EpochCost[bs][PowerLimit(bs)]

RunJob(bs) ==
  LET reaches(target) == target \in 1..EpochsAllowed(bs)
      outcome(target) ==
        [bs |-> bs, reached |-> reaches(target),
         cost |-> CostOf(bs, IF reaches(target) THEN target ELSE EpochsAllowed(bs))]
  IN {outcome(target) : target \in Targets[bs]}

-----------------------------------------------------------------------------
(* simulate_one_alibaba_group                                              *)

(* With jobs in flight the best batch size known is used, which must have  *)
(* been profiled.                                                          *)
Knobs(b, in_flight) ==
  IF in_flight # <<>> THEN {[bs |-> best_bs, bso |-> b]} ELSE Predict(b)

AssertsHold(choice, in_flight) == in_flight # <<>> => ~NeedsProfiling(choice.bs)

Submit(b, in_flight, start, end) ==
  \E choice \in Knobs(b, in_flight) :
    /\ runs < MaxRuns /\ runs' = runs + 1
    /\ AssertsHold(choice, in_flight)
    /\ bso' = choice.bso /\ Profiled(choice.bs)
    /\ \E result \in RunJob(choice.bs) :
         running_jobs' = Append(in_flight, [start |-> start, end |-> end, result |-> result])

Raises(b, in_flight) ==
  /\ \A choice \in Knobs(b, in_flight) : ~AssertsHold(choice, in_flight)
  /\ at' = "raised" /\ UNCHANGED <<best_pl, runs>>

(* The next row, or the end of the rows, when every job is to finish. *)
NextRow ==
  /\ mode = "group" /\ at = "next"
  /\ at' = "reap"
  /\ IF rec_i = Recurrences THEN current_time' = Infinity /\ UNCHANGED rec_i
     ELSE \E gap \in Gaps : current_time' = current_time + gap /\ rec_i' = rec_i + 1
  /\ UNCHANGED <<chosen, bso, best_pl, min_cost, best_bs, runs, running_jobs, last_end, oneJobVars>>

Finished == {i \in DOMAIN running_jobs : running_jobs[i].end <= current_time}

FirstSubmitted == Min(Finished)

(* The jobs in the order they end: the first of those that end first. *)
FirstToEnd ==
  Min({i \in Finished : \A k \in Finished : running_jobs[i].end <= running_jobs[k].end})

UpdateMin(bs, cost) ==
  IF cost < min_cost THEN min_cost' = cost /\ best_bs' = bs
  ELSE UNCHANGED <<min_cost, best_bs>>

ReapWithoutRetry ==
  /\ mode = "group" /\ at = "reap" /\ Finished # {}
  /\ LET job == running_jobs[FirstToEnd] IN
     /\ bso' = Observe(bso, job.result.bs, job.result.cost, job.result.reached)
     /\ running_jobs' = RemoveAt(running_jobs, FirstToEnd) /\ last_end' = job.end
     /\ IF job.result.reached THEN UpdateMin(job.result.bs, job.result.cost)
        ELSE UNCHANGED <<min_cost, best_bs>>
  /\ UNCHANGED <<chosen, at, best_pl, runs, rec_i, current_time, oneJobVars>>

(* A job has ended: the result is observed, and a job that did not reach   *)
(* the target is run again for as long as it took.                         *)
Reap ==
  /\ mode = "group" /\ at = "reap" /\ Finished # {}
  /\ LET job == running_jobs[FirstToEnd]
         left == RemoveAt(running_jobs, FirstToEnd)
         observed == Observe(bso, job.result.bs, job.result.cost, job.result.reached)
     IN
     /\ last_end' = job.end
     /\ \/ /\ job.result.reached
           /\ bso' = observed /\ running_jobs' = left
           /\ UpdateMin(job.result.bs, job.result.cost)
           /\ UNCHANGED <<at, best_pl, runs>>
        \/ /\ ~job.result.reached
           /\ \/ Submit(observed, left, job.end, job.end + (job.end - job.start)) /\ UNCHANGED at
              \/ Raises(observed, left) /\ bso' = observed /\ running_jobs' = left
           /\ UNCHANGED <<min_cost, best_bs>>
  /\ UNCHANGED <<chosen, rec_i, current_time, oneJobVars>>

(* The job of the row. *)
Launch ==
  /\ mode = "group" /\ at = "reap" /\ Finished = {} /\ current_time # Infinity
  /\ \/ /\ \E d \in Durations : Submit(bso, running_jobs, current_time, current_time + d)
        /\ at' = "next"
     \/ Raises(bso, running_jobs) /\ UNCHANGED <<bso, running_jobs>>
  /\ UNCHANGED <<chosen, min_cost, best_bs, rec_i, current_time, last_end, oneJobVars>>

AllReaped ==
  /\ mode = "group" /\ at = "reap" /\ Finished = {} /\ current_time = Infinity
  /\ at' = "done"
  /\ UNCHANGED <<chosen, bso, best_pl, min_cost, best_bs, runs, rec_i, groupVars, oneJobVars>>

-----------------------------------------------------------------------------
(* simulate_one_job                                                        *)

Recur ==
  /\ mode = "one job" /\ at = "next"
  /\ IF rec_i = Recurrences THEN at' = "done" /\ UNCHANGED <<rec_i, oneJobVars>>
     ELSE at' = "try" /\ rec_i' = rec_i + 1 /\ tries' = 0 /\ cost_acc' = 0
  /\ UNCHANGED <<chosen, bso, best_pl, min_cost, best_bs, runs, groupVars>>

(* A batch size of which not even one epoch is within the bound is         *)
(* observed as a bad one and does not count as a run.                      *)
NeverRan(result) == result.cost = 0

AfterFailure(result) ==
  IF (rec_i = 1 /\ ~NeverRan(result)) \/ tries + 1 = MaxTries THEN "raised" ELSE "try"

Try ==
  /\ mode = "one job" /\ at = "try" /\ runs < MaxRuns
  /\ \E choice \in Predict(bso) :
     \E result \in RunJob(choice.bs) :
       LET observed == IF NeverRan(result) THEN 100 * CostUb ELSE result.cost IN
       /\ bso' = Observe(choice.bso, result.bs, observed, result.reached)
       /\ Profiled(choice.bs)
       /\ cost_acc' = cost_acc + result.cost
       /\ at' = IF result.reached THEN "next" ELSE AfterFailure(result)
       /\ min_cost' = IF result.reached THEN Min({min_cost, cost_acc'}) ELSE min_cost
  /\ tries' = tries + 1 /\ runs' = runs + 1
  /\ UNCHANGED <<chosen, best_bs, rec_i, groupVars>>

TryRaises ==
  /\ mode = "one job" /\ at = "try" /\ Predict(bso) = {} /\ at' = "raised"
  /\ UNCHANGED <<chosen, bso, best_pl, min_cost, best_bs, runs, rec_i, groupVars, oneJobVars>>

-----------------------------------------------------------------------------
SimulatorNext == NextRow \/ Reap \/ Launch \/ AllReaped \/ Recur \/ Try \/ TryRaises

SimulatorSpec == SimulatorInit /\ [][SimulatorNext]_simulatorVars

-----------------------------------------------------------------------------
Observations(bs) == {i \in DOMAIN bso.history : bso.history[i].bs = bs}

(* "sort the jobs in the order they end": results reach the policies in    *)
(* the order the jobs end, those of retries included.                      *)
ObservedAsTheyEnd == \A i \in DOMAIN running_jobs : running_jobs[i].end >= last_end

(* No row of the group is lost or counted twice, however often it is       *)
(* retried: each is in flight or has reached the target once.              *)
RowsAreAccountedFor ==
  mode = "group" /\ at # "raised" =>
    LET reached == {i \in DOMAIN bso.history : bso.history[i].reached}
        launched == rec_i - (IF at = "reap" /\ current_time # Infinity THEN 1 ELSE 0)
    IN Cardinality(reached) + Len(running_jobs) = launched

(* The results of concurrent jobs do not upset the exploration: its        *)
(* generator is asked and answered in turn, and a batch size becomes an    *)
(* arm only when it reached the target in every round.                     *)
ArmsReachedInEveryRound ==
  /\ bso.gen.is # "broken"
  /\ policy = "Pruning" /\ bso.arms # <<>> => \A a \in DOMAIN bso.arms :
       Cardinality({i \in Observations(a) : bso.history[i].reached}) >= NumPruningRounds
=============================================================================
