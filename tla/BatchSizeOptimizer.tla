-------------------------- MODULE BatchSizeOptimizer --------------------------
(***************************************************************************)
(* zeus.optimizer.batch_size: the server's view of one job (its stage, its *)
(* trials and, once the pruning rounds are over, the arms of its bandit),  *)
(* and the training processes that register the job, ask for batch sizes,  *)
(* report after every epoch and end their trials when they exit.  A user   *)
(* may delete the job; the next process registers it again.                *)
(*                                                                         *)
(* A request holds the job's lock from its first read to its commit, so it *)
(* is one step.  The cost stands for the time and energy it is made from.  *)
(* Thompson sampling may pick any arm.                                     *)
(***************************************************************************)
EXTENDS Integers, Sequences, FiniteSets

CONSTANTS
  BatchSizes, DefaultBatchSize,
  NumPruningRounds, WindowSize, NumExplorations, MaxEpochs,
  Beta,       \* beta_knob; 0 stands for None
  EpochCosts, \* what an epoch may cost
  Clients,    \* the training processes that run at a time
  MaxTrials,  \* bound on the trials of the job
  MaxFaults   \* bound on the processes killed, responses lost and jobs deleted

(* What JobParams validates, with at least one round.  *)
ValidJob ==
  /\ BatchSizes \subseteq Nat \ {0} /\ DefaultBatchSize \in BatchSizes
  /\ NumPruningRounds \in Nat \ {0} /\ MaxEpochs \in Nat \ {0}
  /\ {WindowSize, NumExplorations, Beta} \subseteq Nat /\ EpochCosts \subseteq Nat

ASSUME JobAssumption == ValidJob

VARIABLES
  registered,             \* the job is in the database
  stage,                  \* "Pruning" or "MAB"
  min_cost,               \* -1 stands for None
  min_cost_batch_size,
  trials,                 \* by trial_number
  arms,                   \* per arm, its num_observations
  client, lost, deletes

jobVars == <<stage, min_cost, min_cost_batch_size, trials, arms>>
vars == <<registered, jobVars, client, lost, deletes>>
users == <<registered, deletes>>

Idle == [is |-> "new", trial |-> 0, bs |-> 0, epoch |-> 0, cost |-> 0]
Registered == [Idle EXCEPT !.is = "registered"]

Init ==
  /\ registered = FALSE
  /\ stage = "Pruning" /\ min_cost = -1 /\ min_cost_batch_size = DefaultBatchSize
  /\ trials = <<>> /\ arms = <<>>
  /\ client = [c \in Clients |-> Idle] /\ lost = 0 /\ deletes = 0

(* A process constructs its client: the job is created unless it is known. *)
RegisterJob(c) ==
  /\ client[c] = Idle /\ client' = [client EXCEPT ![c] = Registered]
  /\ registered' = TRUE
  /\ UNCHANGED <<jobVars, lost, deletes>>

(* The job goes with its trials and its arms. *)
RemoveJob ==
  /\ registered' = FALSE
  /\ stage' = "Pruning" /\ min_cost' = -1 /\ min_cost_batch_size' = DefaultBatchSize
  /\ trials' = <<>> /\ arms' = <<>>

DeleteJob ==
  /\ registered /\ lost + deletes < MaxFaults /\ deletes' = deletes + 1
  /\ RemoveJob
  /\ UNCHANGED <<client, lost>>

-----------------------------------------------------------------------------
(* PruningExploreManager.next_batch_size                                   *)

(* get_explorations_of_job: those that did not fail, in their order. *)
Explorations(bs) == {i \in DOMAIN trials :
  /\ trials[i].batch_size = bs /\ trials[i].type = "Exploration" /\ trials[i].status # "Failed"}

Place(i, of) == Cardinality({j \in of : j <= i})

Explored(bs, round) == Cardinality(Explorations(bs)) >= round
Result(bs, round) ==
  trials[CHOOSE i \in Explorations(bs) : Place(i, Explorations(bs)) = round]

(* Where a list of batch sizes ends: at one that waits for its result, has *)
(* none in this round, or did not converge.                                *)
Stops(bs, round) == ~Explored(bs, round) \/ Result(bs, round).converged # "yes"

(* The lists go away from the default batch size, down and up.             *)
Down(set, default) == {b \in set : b <= default}
Up(set, default) == {b \in set : b > default}

Distance(b, default) == IF b <= default THEN default - b ELSE b - default
First(list, default) ==
  CHOOSE b \in list : \A o \in list : Distance(b, default) <= Distance(o, default)

Walk(list, default, round) ==
  LET stops == {b \in list : Stops(b, round)}
      last == First(stops, default)
      kind == CASE stops = {} -> "over"
                [] stops # {} /\ ~Explored(last, round) -> "explore"
                [] stops # {} /\ Explored(last, round) ->
                     IF Result(last, round).status = "Dispatched" THEN "concurrent" ELSE "over"
  IN [kind |-> kind, bs |-> IF kind = "explore" THEN last ELSE 0,
      converged |-> {b \in list : \A s \in stops : Distance(b, default) < Distance(s, default)}]

(* The first of the cheapest, down before up. *)
Cheapest(set, default, round) ==
  LET least == {b \in set : \A o \in set : Result(b, round).cost <= Result(o, round).cost}
      down == Down(least, default)
  IN First(IF down # {} THEN down ELSE least, default)

(* One round over the batch sizes that are left. *)
PruningRound(acc, round) ==
  LET down == Walk(Down(acc.left, acc.default), acc.default, round)
      up == Walk(Up(acc.left, acc.default), acc.default, round)
      converged == down.converged \cup up.converged
  IN IF acc.kind # "over" THEN acc
     ELSE IF down.kind # "over" THEN [acc EXCEPT !.kind = down.kind, !.bs = down.bs]
     ELSE IF up.kind # "over" THEN [acc EXCEPT !.kind = up.kind, !.bs = up.bs]
     ELSE IF converged = {} THEN [acc EXCEPT !.kind = "none"]
     ELSE [acc EXCEPT !.left = converged, !.default = Cheapest(converged, acc.default, round)]

FirstRound == [kind |-> "over", bs |-> 0, left |-> BatchSizes, default |-> DefaultBatchSize]

AfterRound[round \in 0..NumPruningRounds] ==
  IF round = 0 THEN FirstRound ELSE PruningRound(AfterRound[round - 1], round)

NextBatchSize == AfterRound[NumPruningRounds]

-----------------------------------------------------------------------------
(* ZeusBatchSizeOptimizer.predict and the client's get_batch_size.         *)

NewTrial(bs, type) ==
  [batch_size |-> bs, type |-> type, status |-> "Dispatched", cost |-> -1, converged |-> "unknown"]

(* GaussianTS.predict: arms with too few observations come first. *)
MabChoices(of) ==
  LET cold == {a \in DOMAIN of : of[a] < NumExplorations}
  IN IF cold # {} THEN cold ELSE DOMAIN of

CreateTrial(bs, type) == trials' = Append(trials, NewTrial(bs, type))

(* Numbers start anew with a job that is registered again. *)
NextTrialNumber == Len(trials) + 1

(* What a process knows of its trial, and reports. *)
Training(trial, bs) == [is |-> "training", trial |-> trial, bs |-> bs, epoch |-> 0, cost |-> 0]

(* A response that is lost leaves a process that ends without knowing its  *)
(* trial.                                                                  *)
Issue(c, bs, type) ==
  /\ CreateTrial(bs, type)
  /\ \/ /\ client' = [client EXCEPT ![c] = Training(NextTrialNumber, bs)]
        /\ UNCHANGED lost
     \/ /\ lost + deletes < MaxFaults /\ lost' = lost + 1 /\ client' = [client EXCEPT ![c] = Idle]
  /\ UNCHANGED users

Asks(c) == client[c] = Registered /\ registered /\ Len(trials) < MaxTrials

(* The job is gone, or no batch size is left: the process raises before it *)
(* has a trial.                                                            *)
PredictRefused(c) ==
  /\ client[c] = Registered
  /\ ~registered \/ (stage = "Pruning" /\ NextBatchSize.kind = "none")
  /\ client' = [client EXCEPT ![c] = Idle]
  /\ UNCHANGED <<registered, jobVars, lost, deletes>>

PredictExploring(c) ==
  LET next == NextBatchSize IN
  /\ Asks(c) /\ stage = "Pruning" /\ next.kind \in {"explore", "concurrent"}
  /\ Issue(c, IF next.kind = "explore" THEN next.bs ELSE min_cost_batch_size, "Exploration")
  /\ UNCHANGED <<stage, min_cost, min_cost_batch_size, arms>>

PredictPruning(c) ==
  LET next == NextBatchSize IN
  /\ Asks(c) /\ stage = "Pruning" /\ next.kind \in {"explore", "concurrent"}
  /\ IF next.kind = "explore" THEN Issue(c, next.bs, "Exploration")
     ELSE Issue(c, min_cost_batch_size, "Concurrent")
  /\ UNCHANGED <<stage, min_cost, min_cost_batch_size, arms>>

ConstructMabOfAll(c) ==
  /\ Asks(c) /\ stage = "Pruning" /\ NextBatchSize.kind = "over"
  /\ stage' = "MAB" /\ arms' = [a \in BatchSizes |-> Cardinality(Explorations(a))]
  /\ \E bs \in BatchSizes : Issue(c, bs, "MAB")
  /\ UNCHANGED <<min_cost, min_cost_batch_size>>

UpdateStage(to) == stage' = to
CreateArms(new_arms) == arms' = new_arms
ToMab(new_arms) == UpdateStage("MAB") /\ CreateArms(new_arms)

(* An arm for every batch size that is left, fitted to its explorations.   *)
NewArms(good_bs) == [a \in good_bs |-> Cardinality(Explorations(a))]

ConstructMab(c) ==
  LET next == NextBatchSize
      new == NewArms(next.left)
  IN
  /\ Asks(c) /\ stage = "Pruning" /\ next.kind = "over"
  /\ ToMab(new)
  /\ \E bs \in MabChoices(new) : Issue(c, bs, "MAB")
  /\ UNCHANGED <<min_cost, min_cost_batch_size>>

PredictMab(c) ==
  /\ Asks(c) /\ stage = "MAB"
  /\ \E bs \in MabChoices(arms) : Issue(c, bs, "MAB")
  /\ UNCHANGED <<stage, min_cost, min_cost_batch_size, arms>>

-----------------------------------------------------------------------------
(* ZeusBatchSizeOptimizer.report and the client's on_evaluate.             *)

UpdatedTrial(n, cost, converged) ==
  [trials[n] EXCEPT !.status = "Succeeded", !.cost = cost, !.converged = converged]

UpdatedCurrentTrial(n, trial) == trials' = [trials EXCEPT ![n] = trial]

UpdateMin(cost, bs) == min_cost' = cost /\ min_cost_batch_size' = bs

UpdateAnyTrial(n, cost, converged) ==
  /\ trials' = [trials EXCEPT ![n] = UpdatedTrial(n, cost, converged)]
  /\ UpdateMin(cost, trials[n].batch_size)

(* update_trial, with the least cost so far. *)
UpdateTrial(n, cost, converged) ==
  /\ UpdatedCurrentTrial(n, UpdatedTrial(n, cost, converged))
  /\ IF min_cost = -1 \/ cost < min_cost
     THEN UpdateMin(cost, trials[n].batch_size)
     ELSE UNCHANGED <<min_cost, min_cost_batch_size>>

(* What a list of results of a batch size may hold, and which it holds. *)
IsResult(trial, bs) == trial.batch_size = bs /\ trial.status = "Succeeded"

ResultsOf(bs) == {i \in DOMAIN trials : IsResult(trials[i], bs)}

UpdateArmState(bs, observations) == arms' = [arms EXCEPT ![bs] = observations]

(* GaussianTS.report: the arm is fitted to the window of results, this one *)
(* included.                                                               *)
UpdateArm(bs) ==
  LET results == Cardinality(ResultsOf(bs)) IN
  UpdateArmState(bs, IF WindowSize > 0 /\ results >= WindowSize THEN WindowSize ELSE results + 1)

WithinCostRange(cost) == Beta = 0 \/ min_cost = -1 \/ cost <= Beta * min_cost

(* A trial of the bandit has an arm; another one that is still training    *)
(* when the bandit takes over is refused.                                  *)
HasArm(bs) == bs \in DOMAIN arms

Accepted(n) == stage = "Pruning" \/ (HasArm(trials[n].batch_size) /\ trials[n].type = "MAB")

Leave(c) == client' = [client EXCEPT ![c].is = "exiting"]

(* get_trial finds a trial of the process's number and batch size, which   *)
(* has no result: its own, or one of a job registered since.               *)
Dispatched(c) ==
  /\ client[c].trial \in DOMAIN trials
  /\ trials[client[c].trial].batch_size = client[c].bs
  /\ trials[client[c].trial].status = "Dispatched"

Evaluates(c, cost, met, stops) ==
  /\ client[c].is = "training" /\ Dispatched(c)
  /\ stops = (~WithinCostRange(cost) \/ client[c].epoch + 1 >= MaxEpochs \/ met)

KeepTraining(c) ==
  \E e \in EpochCosts :
    /\ Evaluates(c, client[c].cost + e, FALSE, FALSE)
    /\ client' = [client EXCEPT ![c].epoch = @ + 1, ![c].cost = @ + e]
    /\ UNCHANGED <<users, jobVars, lost>>

(* The training is over, whether the answer arrives or not. *)
StopTraining(c) ==
  \E e \in EpochCosts, met \in BOOLEAN :
    LET n == client[c].trial
        cost == client[c].cost + e
    IN /\ Evaluates(c, cost, met, TRUE)
       /\ Accepted(n)
       /\ UpdateTrial(n, cost, IF met /\ WithinCostRange(cost) THEN "yes" ELSE "no")
       /\ IF stage = "MAB" THEN UpdateArm(trials[n].batch_size) ELSE UNCHANGED arms
       /\ Leave(c) /\ UNCHANGED <<users, stage, lost>>

(* An error of the server, rolled back there and raised here, or the       *)
(* result that somebody reported before.                                   *)
ReportRefused(c) ==
  /\ client[c].is = "training"
  /\ \/ ~Dispatched(c)
     \/ /\ \E e \in EpochCosts, met \in BOOLEAN : Evaluates(c, client[c].cost + e, met, TRUE)
        /\ ~Accepted(client[c].trial)
  /\ Leave(c) /\ UNCHANGED <<users, jobVars, lost>>

-----------------------------------------------------------------------------
(* The end of a process. *)

(* The training script raises, or a report is lost on its way. *)
Abort(c) ==
  /\ client[c].is = "training" /\ Leave(c) /\ UNCHANGED <<users, jobVars, lost>>

EndTrialNever(c) ==
  /\ client[c].is = "exiting"
  /\ client' = [client EXCEPT ![c] = Idle] /\ UNCHANGED <<users, jobVars, lost>>

FailTrial(n) == UpdatedCurrentTrial(n, [trials[n] EXCEPT !.status = "Failed"])

(* report_end at exit, and end_trial: a trial without a result has failed. *)
EndTrial(c) ==
  /\ client[c].is = "exiting"
  /\ client' = [client EXCEPT ![c] = Idle]
  /\ IF Dispatched(c) THEN FailTrial(client[c].trial)
     ELSE UNCHANGED trials
  /\ UNCHANGED <<users, stage, min_cost, min_cost_batch_size, arms, lost>>

Kill(c) ==
  /\ client[c].is = "training" /\ lost + deletes < MaxFaults
  /\ lost' = lost + 1 /\ client' = [client EXCEPT ![c] = Idle]
  /\ UNCHANGED <<users, jobVars>>

-----------------------------------------------------------------------------
ClientStep(c) ==
  \/ RegisterJob(c) \/ PredictRefused(c) \/ PredictPruning(c) \/ ConstructMab(c) \/ PredictMab(c)
  \/ KeepTraining(c) \/ StopTraining(c) \/ ReportRefused(c) \/ EndTrial(c)

Next == DeleteJob \/ \E c \in Clients : ClientStep(c) \/ Abort(c) \/ Kill(c)

Spec == Init /\ [][Next]_vars

-----------------------------------------------------------------------------
(* Of all processes that run at a time one explores, and no batch size is  *)
(* explored again that has not converged every time before, nor more often *)
(* than there are rounds.                                                  *)
ExplorationsFollowRounds ==
  LET exploring == {i \in DOMAIN trials : trials[i].type = "Exploration" /\ trials[i].status # "Failed"}
      of(bs) == {i \in exploring : trials[i].batch_size = bs}
  IN /\ Cardinality({i \in exploring : trials[i].status = "Dispatched"}) <= 1
     /\ \A bs \in BatchSizes :
          /\ Cardinality(of(bs)) <= NumPruningRounds
          /\ \A i, j \in of(bs) : i < j => trials[i].converged = "yes"

(* The least cost and its batch size, which early stopping and concurrent  *)
(* trials go by, are those of a result, and no result costs less.          *)
MinCostIsLeast ==
  LET done == {i \in DOMAIN trials : trials[i].status = "Succeeded"} IN
  IF done = {} THEN min_cost = -1
  ELSE /\ \A i \in done : min_cost <= trials[i].cost
       /\ \E i \in done : trials[i].cost = min_cost /\ trials[i].batch_size = min_cost_batch_size

-----------------------------------------------------------------------------
(* The server has no generator: it works out from the trials what comes    *)
(* next.  The generator it stands for is the one that was sent the results *)
(* of the explorations.                                                    *)
Pruning == INSTANCE PruningExplore

Tell(g, t) ==
  IF t.type = "Exploration" /\ t.status = "Succeeded"
  THEN Pruning!NextBatch(Pruning!SendResult(g, t.batch_size, t.cost, t.converged = "yes"))
  ELSE g

GeneratorAfter[n \in 0..Len(trials)] ==
  IF n = 0 THEN Pruning!NextBatch(Pruning!NewGenerator) ELSE Tell(GeneratorAfter[n - 1], trials[n])

Generator == GeneratorAfter[Len(trials)]

(* Whatever processes run at a time, fail or are killed, the explorations  *)
(* completed are those of one generator, in its order; the next one is the *)
(* one it asks for, and the bandit gets the arms it returns, each with no  *)
(* more results than there are.                                            *)
AgreesWithGenerator ==
  LET next == NextBatchSize
      g == Generator
  IN
  /\ g.is # "broken"
  /\ stage = "Pruning" =>
       CASE next.kind = "explore" -> g.is = "asked" /\ g.expecting = next.bs
         [] next.kind = "concurrent" -> g.is = "asked"
         [] next.kind = "none" -> g.is = "infeasible" \/ g.left = {}
         [] next.kind = "over" -> g.is = "over" /\ g.left = next.left
  /\ stage = "MAB" =>
       /\ DOMAIN arms # {} /\ DOMAIN arms = g.left
       /\ \A a \in DOMAIN arms : arms[a] <= Cardinality(ResultsOf(a))

(* As long as no process is killed and no response lost, exploration never *)
(* waits for a trial nobody will end: a process that gets a concurrent     *)
(* trial runs beside one that explores.                                    *)
ExplorationNeverStuck ==
  lost = 0 /\ stage = "Pruning" /\ NextBatchSize.kind = "concurrent" =>
    \E c \in Clients : Dispatched(c) /\ trials[client[c].trial].type = "Exploration"
=============================================================================
