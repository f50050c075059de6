--------------------- MODULE BatchSizeOptimizer_proofs ----------------------
(***************************************************************************)
(* For any batch sizes, costs, rounds and number of training processes,    *)
(* and however processes, responses and the job are lost: the least cost   *)
(* the server keeps of a job is that of its cheapest result; and, from the *)
(* trials alone, it lets one process explore at a time, each batch size    *)
(* once per round, never waits for an exploration nobody carries out, and  *)
(* asks for the batch sizes the generator of PruningExplore asks for.      *)
(***************************************************************************)
EXTENDS BatchSizeOptimizer, Functions, FiniteSetTheorems, WellFoundedInduction, TLAPS

(* What the database does with a row, and what a row holds. *)
USE DEF RemoveJob, NextTrialNumber, Training, UpdateStage, CreateArms, UpdatedCurrentTrial,
        IsResult, UpdateArmState

(* A trial has a cost once it has succeeded; only then is it counted. *)
TrialInv ==
  /\ \E n \in Nat : DOMAIN trials = 1..n
  /\ trials \in Seq(Range(trials))
  /\ \A i \in DOMAIN trials :
       /\ DOMAIN trials[i] = {"batch_size", "type", "status", "cost", "converged"}
       /\ trials[i].status = "Succeeded" => trials[i].cost \in Nat

(* What a process has spent, which a report adds to. *)
ClientInv ==
  /\ DOMAIN client = Clients
  /\ \A c \in Clients :
       /\ DOMAIN client[c] = {"is", "trial", "bs", "epoch", "cost"}
       /\ client[c].cost \in Nat

CostInv == min_cost \in Nat \cup {-1} /\ MinCostIsLeast

IInv == TrialInv /\ ClientInv /\ CostInv

Done == {i \in DOMAIN trials : trials[i].status = "Succeeded"}

LEMMA InitInv == Init => IInv
<1> SUFFICES ASSUME Init PROVE IInv
  OBVIOUS
<1>1. TrialInv
  BY DEF Init, TrialInv
<1>2. ClientInv
  BY DEF Init, ClientInv, Idle
<1>3. CostInv
  BY DEF Init, CostInv, MinCostIsLeast
<1> QED
  BY <1>1, <1>2, <1>3 DEF IInv

-----------------------------------------------------------------------------
(* Steps that leave the results alone. *)

LEMMA IsSeq ==
  ASSUME NEW S, NEW m \in Nat, NEW f \in [1..m -> S]
  PROVE  f \in Seq(S)
  OBVIOUS

(* A trial is created: it has no result. *)
LEMMA CreateKeeps ==
  ASSUME TrialInv, CostInv, NEW bs, NEW type, CreateTrial(bs, type),
         UNCHANGED <<min_cost, min_cost_batch_size>>
  PROVE  TrialInv' /\ CostInv'
<1> DEFINE t == NewTrial(bs, type)
<1>1. /\ DOMAIN t = {"batch_size", "type", "status", "cost", "converged"}
      /\ t.status = "Dispatched"
  BY DEF NewTrial
<1> HIDE DEF t
<1>2. PICK n \in Nat : DOMAIN trials = 1..n
  BY DEF TrialInv
<1>3. trials' = Append(trials, t) /\ Len(trials) = n
  BY <1>2 DEF CreateTrial, TrialInv, t
<1>4. trials \in Seq(Range(trials) \cup {t})
  BY DEF TrialInv
<1>5. /\ DOMAIN trials' = 1..(n + 1) /\ trials' \in Seq(Range(trials) \cup {t})
      /\ trials'[n + 1] = t /\ \A i \in 1..n : trials'[i] = trials[i]
  BY <1>2, <1>3, <1>4
<1>6. trials' \in Seq(Range(trials'))
  BY <1>5 DEF Range
<1>7. TrialInv'
  BY <1>1, <1>2, <1>5, <1>6 DEF TrialInv
<1>8. Done' = Done /\ \A i \in Done : trials'[i] = trials[i]
  BY <1>1, <1>2, <1>5 DEF Done
<1>9. CostInv'
  BY <1>8 DEF CostInv, MinCostIsLeast, Done
<1> QED
  BY <1>7, <1>9

(* A trial without a result is replaced. *)
LEMMA Replaced ==
  ASSUME TrialInv, NEW n \in DOMAIN trials, trials[n].status = "Dispatched", NEW t,
         DOMAIN t = {"batch_size", "type", "status", "cost", "converged"},
         t.status = "Succeeded" => t.cost \in Nat,
         trials' = [trials EXCEPT ![n] = t]
  PROVE  /\ TrialInv' /\ trials'[n] = t /\ DOMAIN trials' = DOMAIN trials
         /\ Done' = Done \cup (IF t.status = "Succeeded" THEN {n} ELSE {})
         /\ n \notin Done /\ \A i \in Done : trials'[i] = trials[i]
<1>1. /\ DOMAIN trials' = DOMAIN trials /\ trials'[n] = t
      /\ \A i \in DOMAIN trials \ {n} : trials'[i] = trials[i]
  OBVIOUS
<1>2. trials' \in Seq(Range(trials'))
  <2>1. PICK k \in Nat : DOMAIN trials = 1..k
    BY DEF TrialInv
  <2>2. trials' \in [1..k -> Range(trials')]
    BY <1>1, <2>1 DEF Range
  <2> QED
    BY <2>2, IsSeq
<1>3. TrialInv'
  BY <1>1, <1>2 DEF TrialInv
<1> QED
  BY <1>1, <1>3 DEF Done

LEMMA IdleRecord ==
  /\ DOMAIN Idle = {"is", "trial", "bs", "epoch", "cost"} /\ Idle.cost \in Nat
  /\ DOMAIN Registered = {"is", "trial", "bs", "epoch", "cost"} /\ Registered.cost \in Nat
  BY DEF Idle, Registered

(* A process's record changes, and what it has spent stays a cost. *)
LEMMA ClientKeeps ==
  ASSUME ClientInv, NEW c \in Clients, NEW r, client' = [client EXCEPT ![c] = r],
         DOMAIN r = {"is", "trial", "bs", "epoch", "cost"}, r.cost \in Nat
  PROVE  ClientInv'
  BY DEF ClientInv

LEMMA Leaves ==
  ASSUME ClientInv, NEW c \in Clients, Leave(c)
  PROVE  ClientInv'
  BY DEF ClientInv, Leave

LEMMA Stutters ==
  ASSUME IInv, UNCHANGED <<trials, min_cost, min_cost_batch_size>>, ClientInv'
  PROVE  IInv'
  BY DEF IInv, TrialInv, CostInv, MinCostIsLeast

-----------------------------------------------------------------------------
(* A report that ends the training: the only step with a new result. *)
LEMMA StopInv ==
  ASSUME IInv, NEW c \in Clients, StopTraining(c)
  PROVE  IInv'
<1>1. PICK e \in EpochCosts, met \in BOOLEAN :
        LET n == client[c].trial
            cost == client[c].cost + e
        IN /\ Dispatched(c)
           /\ UpdateTrial(n, cost, IF met /\ WithinCostRange(cost) THEN "yes" ELSE "no")
           /\ Leave(c)
  BY DEF StopTraining, Evaluates
<1> DEFINE n == client[c].trial
           cost == client[c].cost + e
           converged == IF met /\ WithinCostRange(cost) THEN "yes" ELSE "no"
           t == UpdatedTrial(n, cost, converged)
<1>2. n \in DOMAIN trials /\ trials[n].status = "Dispatched"
  BY <1>1 DEF Dispatched
<1>3. cost \in Nat
  BY JobAssumption DEF ValidJob, IInv, ClientInv
<1>4. trials' = [trials EXCEPT ![n] = t]
  BY <1>1 DEF UpdateTrial
<1>5. IF min_cost = -1 \/ cost < min_cost
      THEN min_cost' = cost /\ min_cost_batch_size' = trials[n].batch_size
      ELSE min_cost' = min_cost /\ min_cost_batch_size' = min_cost_batch_size
  BY <1>1 DEF UpdateTrial, UpdateMin
<1>6. /\ DOMAIN t = {"batch_size", "type", "status", "cost", "converged"}
      /\ t.status = "Succeeded" /\ t.cost = cost /\ t.batch_size = trials[n].batch_size
  BY <1>2 DEF UpdatedTrial, IInv, TrialInv
<1> HIDE DEF t, converged
<1>7. /\ TrialInv' /\ trials'[n] = t /\ Done' = Done \cup {n}
      /\ \A i \in Done : trials'[i] = trials[i]
  BY <1>2, <1>3, <1>4, <1>6, Replaced DEF IInv
<1>8. \A i \in Done : trials[i].cost \in Nat
  BY DEF Done, IInv, TrialInv
<1> HIDE DEF n, cost
<1>9. CostInv'
  <2>1. IF Done = {} THEN min_cost = -1
        ELSE /\ min_cost # -1 /\ \A i \in Done : min_cost <= trials[i].cost
             /\ \E i \in Done : /\ trials[i].cost = min_cost
                                /\ trials[i].batch_size = min_cost_batch_size
    BY <1>8 DEF IInv, CostInv, MinCostIsLeast, Done
  <2>2. min_cost' \in Nat
    BY <1>3, <1>5 DEF IInv, CostInv
  <2>3. \A i \in Done' : min_cost' <= trials'[i].cost
    BY <1>3, <1>5, <1>6, <1>7, <1>8, <2>1 DEF IInv, CostInv
  <2>4. \E i \in Done' : /\ trials'[i].cost = min_cost'
                         /\ trials'[i].batch_size = min_cost_batch_size'
    <3>1. CASE min_cost = -1 \/ cost < min_cost
      BY <1>5, <1>6, <1>7, <3>1
    <3>2. CASE ~(min_cost = -1 \/ cost < min_cost)
      BY <1>5, <1>7, <2>1, <3>2
    <3> QED
      BY <3>1, <3>2
  <2> QED
    BY <1>7, <2>2, <2>3, <2>4 DEF CostInv, MinCostIsLeast, Done
<1> QED
  BY <1>1, <1>7, <1>9, Leaves DEF IInv

(* A trial that ends without a result has failed, and is not counted. *)
LEMMA EndInv ==
  ASSUME IInv, NEW c \in Clients, EndTrial(c)
  PROVE  IInv'
<1>1. ClientInv'
  BY ClientKeeps, IdleRecord DEF IInv, EndTrial
<1>2. CASE Dispatched(c)
  <2> DEFINE n == client[c].trial
             t == [trials[n] EXCEPT !.status = "Failed"]
  <2>1. n \in DOMAIN trials /\ trials[n].status = "Dispatched"
    BY <1>2 DEF Dispatched
  <2>2. trials' = [trials EXCEPT ![n] = t]
    BY <1>2 DEF EndTrial, FailTrial
  <2>3. DOMAIN t = {"batch_size", "type", "status", "cost", "converged"} /\ t.status = "Failed"
    BY <2>1 DEF IInv, TrialInv
  <2> HIDE DEF t, n
  <2>4. TrialInv' /\ Done' = Done /\ \A i \in Done : trials'[i] = trials[i]
    BY <2>1, <2>2, <2>3, Replaced DEF IInv
  <2>5. CostInv'
    BY <2>4 DEF IInv, CostInv, MinCostIsLeast, Done, EndTrial
  <2> QED
    BY <1>1, <2>4, <2>5 DEF IInv
<1>3. CASE ~Dispatched(c)
  BY <1>1, <1>3, Stutters DEF EndTrial
<1> QED
  BY <1>2, <1>3

(* A batch size is issued, by whichever stage. *)
LEMMA IssueInv ==
  ASSUME IInv, NEW c \in Clients,
         PredictPruning(c) \/ ConstructMab(c) \/ PredictMab(c)
  PROVE  IInv'
<1>1. PICK bs, type : Issue(c, bs, type)
  BY DEF PredictPruning, ConstructMab, PredictMab
<1>2. UNCHANGED <<min_cost, min_cost_batch_size>>
  BY DEF PredictPruning, ConstructMab, PredictMab
<1>3. TrialInv' /\ CostInv'
  BY <1>1, <1>2, CreateKeeps DEF Issue, IInv
<1>4. ClientInv'
  <2> DEFINE training == [is |-> "training", trial |-> Len(trials) + 1,
                          bs |-> bs, epoch |-> 0, cost |-> 0]
  <2>1. CASE client' = [client EXCEPT ![c] = training]
    <3>1. DOMAIN training = {"is", "trial", "bs", "epoch", "cost"} /\ training.cost \in Nat
      OBVIOUS
    <3> HIDE DEF training
    <3> QED
      BY <2>1, <3>1, ClientKeeps DEF IInv
  <2>2. CASE client' = [client EXCEPT ![c] = Idle]
    BY <2>2, ClientKeeps, IdleRecord DEF IInv
  <2> QED
    BY <1>1, <2>1, <2>2 DEF Issue
<1> QED
  BY <1>3, <1>4 DEF IInv

LEMMA StepInv == IInv /\ [Next]_vars => IInv'
<1> SUFFICES ASSUME IInv, [Next]_vars PROVE IInv'
  OBVIOUS
<1>1. CASE UNCHANGED vars
  <2>1. ClientInv'
    BY <1>1 DEF vars, IInv, ClientInv
  <2> QED
    BY <1>1, <2>1, Stutters DEF vars, jobVars
<1>2. CASE DeleteJob
  BY <1>2 DEF DeleteJob, IInv, TrialInv, ClientInv, CostInv, MinCostIsLeast
<1>3. ASSUME NEW c \in Clients,
             RegisterJob(c) \/ PredictRefused(c) \/ KeepTraining(c) \/ ReportRefused(c)
               \/ Abort(c) \/ Kill(c)
      PROVE  IInv'
  <2>1. UNCHANGED jobVars
    BY <1>3 DEF RegisterJob, PredictRefused, KeepTraining, ReportRefused, Abort, Kill
  <2>2. ClientInv'
    <3>1. CASE RegisterJob(c) \/ PredictRefused(c) \/ Kill(c)
      BY <3>1, ClientKeeps, IdleRecord DEF RegisterJob, PredictRefused, Kill, IInv
    <3>2. CASE KeepTraining(c)
      BY <3>2, JobAssumption DEF ValidJob, KeepTraining, IInv, ClientInv
    <3>3. CASE ReportRefused(c) \/ Abort(c)
      BY <3>3, Leaves DEF ReportRefused, Abort, IInv
    <3> QED
      BY <1>3, <3>1, <3>2, <3>3
  <2> QED
    BY <2>1, <2>2, Stutters DEF jobVars
<1> QED
  BY <1>1, <1>2, <1>3, IssueInv, StopInv, EndInv DEF Next, ClientStep

-----------------------------------------------------------------------------
(* The strengthened invariant of trials, processes and the least cost. *)
THEOREM Invariant == Spec => []IInv
  BY InitInv, StepInv, PTL DEF Spec

(* What early stopping and concurrent trials go by is a result's. *)
THEOREM LeastCost == Spec => []MinCostIsLeast
<1>1. IInv => MinCostIsLeast
  BY DEF IInv, CostInv
<1> QED
  BY <1>1, Invariant, PTL

-----------------------------------------------------------------------------
(* A set of numbers has a least one, from which induction follows. *)
LEMMA LeastOf ==
  ASSUME NEW S \in SUBSET Nat, S # {}
  PROVE  \E n \in S : \A m \in S : n <= m
<1> DEFINE R == OpToRel(<, Nat)
<1>1. \A m, n \in Nat : m < n => <<m, n>> \in R
  BY DEF OpToRel
<1>2. IsWellFoundedOn(R, Nat)
  BY NatLessThanWellFounded
<1> HIDE DEF R
<1>3. PICK n \in S : \A m \in S : <<m, n>> \notin R
  BY <1>2, WFMin
<1>4. \A m \in S : ~(m < n)
  BY <1>1, <1>3
<1> QED
  BY <1>4

LEMMA Induct ==
  ASSUME NEW S, 0 \in S, \A n \in Nat : n \in S => n + 1 \in S
  PROVE  Nat \subseteq S
<1> SUFFICES ASSUME Nat \ S # {} PROVE FALSE
  OBVIOUS
<1>1. PICK n \in Nat \ S : \A m \in Nat \ S : n <= m
  BY LeastOf
<1> QED
  BY <1>1

LEMMA LeastBy ==
  ASSUME NEW S, S # {}, NEW f, \A x \in S : f[x] \in Nat
  PROVE  \E x \in S : \A y \in S : f[x] <= f[y]
<1> DEFINE V == {f[x] : x \in S}
<1>1. V \in SUBSET Nat /\ V # {}
  OBVIOUS
<1>2. PICK v \in V : \A w \in V : v <= w
  BY <1>1, LeastOf
<1> QED
  BY <1>2

(* The places of a set's members are the numbers from one to their count. *)
LEMMA Places ==
  ASSUME NEW n \in Nat, NEW X \in SUBSET (1..n)
  PROVE  /\ IsFiniteSet(X) /\ Cardinality(X) \in Nat
         /\ \A i \in X : Place(i, X) \in 1..Cardinality(X)
         /\ \A i, j \in X : i < j => Place(i, X) < Place(j, X)
         /\ \A r \in 1..Cardinality(X) : \E i \in X : Place(i, X) = r
<1> DEFINE To(i) == {j \in X : j <= i}
           Count(i) == Cardinality(To(i))
<1>0. /\ \A i, j : j \in To(i) <=> j \in X /\ j <= i
      /\ \A j \in X : j \in Nat /\ 1 <= j /\ j <= n
  OBVIOUS
<1>1. \A s \in SUBSET (1..n) : IsFiniteSet(s) /\ Cardinality(s) \in Nat
  <2>1. IsFiniteSet(1..n)
    BY FS_Interval
  <2> QED
    BY <2>1, FS_Subset, FS_CardinalityType
<1>2. IsFiniteSet(X) /\ Cardinality(X) \in Nat
  BY <1>1
<1>3. \A i : Place(i, X) = Count(i)
  BY DEF Place
<1>4. \A i : IsFiniteSet(To(i)) /\ Count(i) \in Nat /\ Count(i) <= Cardinality(X)
  <2>1. \A i : To(i) \in SUBSET X /\ To(i) \in SUBSET (1..n)
    OBVIOUS
  <2> HIDE DEF To
  <2> QED
    BY <1>1, <1>2, <2>1, FS_Subset
<1>5. ASSUME NEW i \in X PROVE Count(i) \in 1..Cardinality(X)
  <2>1. i \in To(i)
    OBVIOUS
  <2>2. Count(i) # 0
    BY <2>1, <1>4, FS_EmptySet
  <2> HIDE DEF To, Count
  <2> QED
    BY <2>2, <1>2, <1>4
<1>6. ASSUME NEW i \in X, NEW j \in X, i < j PROVE Count(i) < Count(j)
  <2> HIDE DEF To
  <2>1. To(i) \in SUBSET To(j) /\ j \in To(j) /\ j \notin To(i)
    <3>1. ASSUME NEW k \in To(i) PROVE k \in To(j)
      <4>1. k \in X /\ k <= i
        BY <1>0
      <4>2. k <= j
        BY <4>1, <1>0, <1>6
      <4> QED
        BY <4>1, <4>2, <1>0
    <3> QED
      BY <3>1, <1>0, <1>6
  <2>2. Count(i) <= Count(j) /\ (Count(i) = Count(j) => To(i) = To(j))
    BY <2>1, <1>4, FS_Subset
  <2> HIDE DEF Count
  <2> QED
    BY <2>1, <2>2, <1>4
<1>7. ASSUME NEW r \in 1..Cardinality(X) PROVE \E i \in X : Count(i) = r
  <2> DEFINE S == {i \in Nat : Count(i) >= r}
  <2>1. To(n) = X /\ To(0) = {}
    <3>1. \A k \in X : k \in To(n) /\ k \notin To(0)
      BY <1>0
    <3> QED
      BY <3>1
  <2>2. Count(n) = Cardinality(X) /\ Count(0) = 0
    BY <2>1, FS_EmptySet
  <2> HIDE DEF Count
  <2>3. S \in SUBSET Nat /\ S # {} /\ 0 \notin S
    BY <2>2, <1>2
  <2>4. PICK i \in S : \A j \in S : i <= j
    BY <2>3, LeastOf
  <2>5. i \in Nat /\ i # 0 /\ Count(i) >= r /\ ~(Count(i - 1) >= r)
    BY <2>3, <2>4
  <2>6. i \in X
    <3>1. CASE i \notin X
      <4>1. To(i) = To(i - 1)
        <5>1. \A k \in X : k <= i <=> k <= i - 1
          BY <3>1, <2>5, <1>0
        <5> QED
          BY <5>1
      <4> QED
        BY <4>1, <2>5 DEF Count
    <3> QED
      BY <3>1
  <2>7. Count(i - 1) = Count(i) - 1
    <3>1. To(i - 1) = To(i) \ {i} /\ i \in To(i)
      <4>1. \A k \in X : k <= i - 1 <=> k <= i /\ k # i
        BY <2>5, <1>0
      <4>2. \A k : k \in To(i - 1) <=> k \in To(i) /\ k # i
        BY <4>1
      <4>3. i \in To(i)
        BY <2>5, <2>6
      <4> HIDE DEF To
      <4> QED
        BY <4>2, <4>3
    <3> HIDE DEF To
    <3> QED
      BY <3>1, <1>4, FS_RemoveElement DEF Count
  <2>8. Count(i) \in Nat /\ Count(i - 1) \in Nat
    BY <1>4 DEF Count
  <2> QED
    BY <2>5, <2>6, <2>7, <2>8
<1> HIDE DEF Count
<1> QED
  BY <1>2, <1>3, <1>5, <1>6, <1>7

-----------------------------------------------------------------------------
(* A round goes by the one before it. *)
LEMMA Rounds ==
  /\ AfterRound[0] = FirstRound
  /\ \A acc : \A r \in 1..NumPruningRounds :
       acc = AfterRound[r - 1] => AfterRound[r] = PruningRound(acc, r)
<1> DEFINE Steps(f, n) == [r \in 0..n |-> IF r = 0 THEN FirstRound ELSE PruningRound(f[r - 1], r)]
           Fits(n) == \E f : f = Steps(f, n)
           Good == {n \in Nat : Fits(n)}
<1>1. Fits(0)
  <2> DEFINE f == [r \in 0..0 |-> FirstRound]
  <2>1. f = Steps(f, 0)
    OBVIOUS
  <2> QED
    BY <2>1
<1>2. ASSUME NEW n \in Nat, Fits(n) PROVE Fits(n + 1)
  <2>1. PICK f : f = Steps(f, n)
    BY <1>2
  <2> DEFINE g == Steps(f, n + 1)
  <2>2. \A r \in 0..n : g[r] = f[r]
    <3>1. \A r \in 0..n : f[r] = IF r = 0 THEN FirstRound ELSE PruningRound(f[r - 1], r)
      BY <2>1
    <3> QED
      BY <3>1
  <2>3. \A r \in 0..(n + 1) : r # 0 => r - 1 \in 0..n
    OBVIOUS
  <2>4. g = Steps(g, n + 1)
    BY <2>2, <2>3
  <2> HIDE DEF g
  <2> QED
    BY <2>4
<1> HIDE DEF Fits
<1>3. 0 \in Good /\ \A n \in Nat : n \in Good => n + 1 \in Good
  BY <1>1, <1>2
<1>4. NumPruningRounds \in Good
  <2> HIDE DEF Good
  <2>1. Nat \subseteq Good
    BY <1>3, Induct
  <2> QED
    BY <2>1, JobAssumption DEF ValidJob
<1>5. \E f : f = Steps(f, NumPruningRounds)
  BY <1>4 DEF Fits
<1>6. AfterRound = CHOOSE f : f = Steps(f, NumPruningRounds)
  BY Zenon DEF AfterRound
<1>7. AfterRound = Steps(AfterRound, NumPruningRounds)
  BY <1>5, <1>6
<1>8. NumPruningRounds \in Nat
  BY JobAssumption DEF ValidJob
<1>9. \A r \in 0..NumPruningRounds : AfterRound[r] = IF r = 0 THEN FirstRound ELSE PruningRound(AfterRound[r - 1], r)
  BY <1>7, Zenon
<1> QED
  BY <1>8, <1>9

-----------------------------------------------------------------------------
(* An exploration that has no result yet. *)
Waiting(i) == trials[i].type = "Exploration" /\ trials[i].status = "Dispatched"

(* Until it has succeeded a trial has not converged. *)
ResultInv == \A i \in DOMAIN trials :
  trials[i].status # "Succeeded" => trials[i].converged = "unknown"

(* There is one exploration at a time, and whoever asks is told to wait. *)
WaitingInv ==
  /\ \A i, j \in DOMAIN trials : Waiting(i) /\ Waiting(j) => i = j
  /\ \A i \in DOMAIN trials : stage = "Pruning" /\ Waiting(i) => NextBatchSize.kind = "concurrent"

OrderInv == \A bs \in BatchSizes :
  /\ Cardinality(Explorations(bs)) <= NumPruningRounds
  /\ \A i, j \in Explorations(bs) : i < j => trials[i].converged = "yes"

(* Unless a process was lost, a trial without a result has one. *)
HeldInv ==
  /\ lost \in Nat
  /\ lost = 0 => \A i \in DOMAIN trials : trials[i].status = "Dispatched" =>
       \E c \in Clients : client[c].trial = i /\ Dispatched(c)

RoundInv == IInv /\ ResultInv /\ WaitingInv /\ OrderInv /\ HeldInv

-----------------------------------------------------------------------------
LEMMA InPlace ==
  ASSUME TrialInv
  PROVE  \A bs :
           /\ Explorations(bs) \subseteq DOMAIN trials
           /\ IsFiniteSet(Explorations(bs)) /\ Cardinality(Explorations(bs)) \in Nat
           /\ \A i \in Explorations(bs) :
                /\ i \in Nat /\ Place(i, Explorations(bs)) \in 1..Cardinality(Explorations(bs))
                /\ Result(bs, Place(i, Explorations(bs))) = trials[i]
           /\ \A round \in Nat \ {0} : Explored(bs, round) =>
                \E i \in Explorations(bs) :
                  Place(i, Explorations(bs)) = round /\ Result(bs, round) = trials[i]
<1> SUFFICES ASSUME NEW bs
             PROVE  /\ Explorations(bs) \subseteq DOMAIN trials
                    /\ IsFiniteSet(Explorations(bs)) /\ Cardinality(Explorations(bs)) \in Nat
                    /\ \A i \in Explorations(bs) :
                         /\ i \in Nat /\ Place(i, Explorations(bs)) \in 1..Cardinality(Explorations(bs))
                         /\ Result(bs, Place(i, Explorations(bs))) = trials[i]
                    /\ \A round \in Nat \ {0} : Explored(bs, round) =>
                         \E i \in Explorations(bs) :
                           Place(i, Explorations(bs)) = round /\ Result(bs, round) = trials[i]
  OBVIOUS
<1> DEFINE X == Explorations(bs)
<1>1. PICK n \in Nat : DOMAIN trials = 1..n
  BY DEF TrialInv
<1>2. X \in SUBSET (1..n) /\ X \subseteq DOMAIN trials /\ \A i \in X : i \in Nat
  BY <1>1 DEF Explorations
<1> HIDE DEF X
<1>3. /\ IsFiniteSet(X) /\ Cardinality(X) \in Nat
      /\ \A i \in X : Place(i, X) \in 1..Cardinality(X)
      /\ \A i, j \in X : i < j => Place(i, X) < Place(j, X)
      /\ \A r \in 1..Cardinality(X) : \E i \in X : Place(i, X) = r
  BY <1>2, Places
<1>4. \A i, j \in X : Place(i, X) = Place(j, X) => i = j
  BY <1>2, <1>3
<1>5. \A r : Result(bs, r) = trials[CHOOSE i \in X : Place(i, X) = r]
  BY DEF Result, X
<1>6. ASSUME NEW i \in X PROVE Result(bs, Place(i, X)) = trials[i]
  <2>1. (CHOOSE j \in X : Place(j, X) = Place(i, X)) = i
    BY <1>4
  <2> QED
    BY <2>1, <1>5
<1>7. ASSUME NEW round \in Nat \ {0}, Explored(bs, round)
      PROVE  \E i \in X : Place(i, X) = round /\ Result(bs, round) = trials[i]
  <2>1. round \in 1..Cardinality(X)
    BY <1>3, <1>7 DEF Explored, X
  <2> QED
    BY <2>1, <1>3, <1>6
<1> QED
  BY <1>2, <1>3, <1>6, <1>7 DEF X

(* What a batch size was explored for stays as it is. *)
LEMMA Unmoved ==
  ASSUME TrialInv, NEW bs, NEW round \in Nat \ {0}, Explorations(bs)' = Explorations(bs),
         \A i \in Explorations(bs) : trials'[i] = trials[i]
  PROVE  /\ Explored(bs, round)' <=> Explored(bs, round)
         /\ Explored(bs, round) => Result(bs, round)' = Result(bs, round)
<1>1. Explored(bs, round)' <=> Explored(bs, round)
  BY DEF Explored
<1>2. ASSUME Explored(bs, round) PROVE Result(bs, round)' = Result(bs, round)
  <2> DEFINE X == Explorations(bs)
             at == CHOOSE i \in X : Place(i, X) = round
  <2>1. \E i \in X : Place(i, X) = round
    BY <1>2, InPlace
  <2>2. at \in X
    BY <2>1
  <2>3. Result(bs, round) = trials[at] /\ Result(bs, round)' = trials'[at]
    BY Zenon DEF Result
  <2> QED
    BY <2>2, <2>3
<1> QED
  BY <1>1, <1>2

AllInPlace ==
  \A bs : \A i \in Explorations(bs), k \in Nat :
    k = Place(i, Explorations(bs)) => Result(bs, k) = trials[i]

LEMMA InPlaceHolds == TrialInv => AllInPlace
  BY InPlace DEF AllInPlace

(* One more exploration takes the next place, and leaves the others theirs. *)
LEMMA Appended ==
  ASSUME TrialInv, TrialInv', NEW bs, NEW round \in Nat \ {0}, NEW m \in Nat,
         Explorations(bs)' = Explorations(bs) \cup {m},
         \A i \in Explorations(bs) : i < m /\ trials'[i] = trials[i]
  PROVE  /\ Explored(bs, round) => Explored(bs, round)' /\ Result(bs, round)' = Result(bs, round)
         /\ ~Explored(bs, round) /\ Explored(bs, round)' => Result(bs, round)' = trials'[m]
         /\ round <= Cardinality(Explorations(bs)) + 1 => Explored(bs, round)'
<1> DEFINE X == Explorations(bs)
           Y == Explorations(bs)'
           n == Cardinality(X)
<1>1. IsFiniteSet(X) /\ n \in Nat /\ \A i \in X : i \in Nat /\ i < m /\ Place(i, X) \in 1..n
  BY InPlace
<1>2. Y = X \cup {m} /\ m \notin X
  BY <1>1
<1>3. Cardinality(Y) = n + 1
  BY <1>1, <1>2, FS_AddElement
<1>4. ASSUME NEW i \in X PROVE Place(i, Y) = Place(i, X)
  <2>1. {j \in Y : j <= i} = {j \in X : j <= i}
    <3>1. ~(m <= i)
      BY <1>1
    <3> HIDE DEF Y, X
    <3> QED
      BY <1>2, <3>1
  <2> QED
    BY <2>1 DEF Place
<1>5. Place(m, Y) = n + 1
  <2>1. {j \in Y : j <= m} = Y
    <3>1. \A j \in X : j <= m
      BY <1>1
    <3> HIDE DEF Y, X
    <3> QED
      BY <1>2, <3>1
  <2> QED
    BY <2>1, <1>3 DEF Place
<1>6. \A i \in Y, k \in Nat : k = Place(i, Y) => Result(bs, k)' = trials'[i]
  <2>1. AllInPlace'
    BY InPlaceHolds, PTL
  <2> QED
    BY <2>1 DEF AllInPlace
<1>7. Explored(bs, round) <=> n >= round
  BY DEF Explored
<1>8. Explored(bs, round)' <=> n + 1 >= round
  BY <1>3 DEF Explored
<1>9. ASSUME Explored(bs, round) PROVE Result(bs, round)' = Result(bs, round)
  <2>1. PICK i \in X : Place(i, X) = round /\ Result(bs, round) = trials[i]
    BY <1>9, InPlace
  <2>2. i \in Y /\ round = Place(i, Y)
    BY <2>1, <1>2, <1>4
  <2> HIDE DEF X, Y
  <2> QED
    BY <2>1, <2>2, <1>6 DEF X
<1>10. ASSUME ~Explored(bs, round), Explored(bs, round)' PROVE Result(bs, round)' = trials'[m]
  <2>1. round = n + 1
    BY <1>10, <1>1, <1>7, <1>8
  <2>2. m \in Y /\ round = Place(m, Y)
    BY <2>1, <1>2, <1>5
  <2> HIDE DEF X, Y
  <2> QED
    BY <2>2, <1>6
<1> HIDE DEF X, Y
<1> QED
  BY <1>1, <1>7, <1>8, <1>9, <1>10 DEF X

-----------------------------------------------------------------------------
(* What a walk over a list, a round and the rounds one after the other find. *)

Found(acc) ==
  /\ DOMAIN acc = {"kind", "bs", "left", "default"}
  /\ acc.kind \in {"over", "explore", "concurrent", "none"}
  /\ acc.left \subseteq BatchSizes /\ acc.default \in BatchSizes

LEMMA FirstIsIn ==
  ASSUME NEW S \in SUBSET BatchSizes, S # {}, NEW default \in BatchSizes
  PROVE  First(S, default) \in S
<1> DEFINE f == [b \in S |-> Distance(b, default)]
<1>1. \A b \in S : f[b] \in Nat
  BY JobAssumption DEF ValidJob, Distance
<1>2. \E b \in S : \A o \in S : f[b] <= f[o]
  <2> HIDE DEF f
  <2> QED
    BY <1>1, LeastBy
<1>3. \E b \in S : \A o \in S : Distance(b, default) <= Distance(o, default)
  BY <1>2
<1> QED
  BY <1>3 DEF First

LEMMA WalkFinds ==
  ASSUME TrialInv, NEW list \in SUBSET BatchSizes, NEW default \in BatchSizes,
         NEW round \in Nat \ {0}, NEW w, w = Walk(list, default, round)
  PROVE  /\ w.kind \in {"over", "explore", "concurrent"}
         /\ w.converged \subseteq {b \in list : ~Stops(b, round)}
         /\ w.kind = "explore" => w.bs \in list /\ ~Explored(w.bs, round)
         /\ w.kind = "concurrent" => \E i \in DOMAIN trials : Waiting(i)
<1> DEFINE stops == {b \in list : Stops(b, round)}
           last == First(stops, default)
<1>1. stops # {} => last \in stops
  <2> HIDE DEF stops
  <2> QED
    BY FirstIsIn DEF stops
<1>2. /\ w.kind = IF stops = {} THEN "over" ELSE IF ~Explored(last, round) THEN "explore"
                  ELSE IF Result(last, round).status = "Dispatched" THEN "concurrent" ELSE "over"
      /\ w.converged = {b \in list : \A s \in stops : Distance(b, default) < Distance(s, default)}
      /\ w.bs = IF w.kind = "explore" THEN last ELSE 0
  BY DEF Walk
<1>3. ASSUME NEW b \in w.converged PROVE b \in list /\ ~Stops(b, round)
  <2>1. Distance(b, default) \in Int
    <3>1. b \in list /\ b \in Nat /\ default \in Nat
      BY <1>2, JobAssumption DEF ValidJob
    <3> QED
      BY <3>1 DEF Distance
  <2>2. b \notin stops
    BY <1>2, <2>1
  <2> QED
    BY <1>2, <2>2
<1>4. ASSUME w.kind = "concurrent" PROVE \E i \in DOMAIN trials : Waiting(i)
  <2>1. Explored(last, round) /\ Result(last, round).status = "Dispatched"
    BY <1>2, <1>4
  <2>2. PICK i \in Explorations(last) : Result(last, round) = trials[i]
    BY <2>1, InPlace
  <2> QED
    BY <2>1, <2>2 DEF Waiting, Explorations
<1> HIDE DEF last
<1> QED
  BY <1>1, <1>2, <1>3, <1>4

LEMMA CheapestIsIn ==
  ASSUME TrialInv, ResultInv, NEW set \in SUBSET BatchSizes, set # {}, NEW default \in BatchSizes,
         NEW round \in Nat \ {0}, \A b \in set : ~Stops(b, round)
  PROVE  Cheapest(set, default, round) \in set
<1> DEFINE f == [b \in set |-> Result(b, round).cost]
           least == {b \in set : \A o \in set : Result(b, round).cost <= Result(o, round).cost}
           down == Down(least, default)
           of == IF down # {} THEN down ELSE least
<1>1. ASSUME NEW b \in set PROVE f[b] \in Nat
  <2>1. Explored(b, round) /\ Result(b, round).converged = "yes"
    BY DEF Stops
  <2>2. PICK i \in Explorations(b) : Result(b, round) = trials[i]
    BY <2>1, InPlace
  <2>3. i \in DOMAIN trials
    BY <2>2 DEF Explorations
  <2> QED
    BY <2>1, <2>2, <2>3 DEF ResultInv, TrialInv
<1>2. \E b \in set : \A o \in set : f[b] <= f[o]
  <2> HIDE DEF f
  <2> QED
    BY <1>1, LeastBy
<1>3. least # {} /\ least \subseteq set
  BY <1>2
<1>4. of \in SUBSET BatchSizes /\ of # {} /\ of \subseteq set
  BY <1>3 DEF Down
<1>5. Cheapest(set, default, round) = First(of, default)
  BY DEF Cheapest
<1> HIDE DEF of
<1> QED
  BY <1>4, <1>5, FirstIsIn

LEMMA RoundFinds ==
  ASSUME TrialInv, ResultInv, NEW acc, Found(acc), NEW round \in Nat \ {0},
         NEW next, next = PruningRound(acc, round)
  PROVE  /\ Found(next) /\ (acc.kind # "over" => next = acc)
         /\ acc.kind = "over" =>
              /\ next.kind = "over" => next.left \subseteq {b \in acc.left : ~Stops(b, round)}
              /\ next.kind = "explore" => next.bs \in acc.left /\ ~Explored(next.bs, round)
              /\ next.kind = "concurrent" => \E i \in DOMAIN trials : Waiting(i)
<1> DEFINE lower == Down(acc.left, acc.default)
           upper == Up(acc.left, acc.default)
           down == Walk(lower, acc.default, round)
           up == Walk(upper, acc.default, round)
           converged == down.converged \cup up.converged
<1>1. /\ lower \in SUBSET BatchSizes /\ lower \subseteq acc.left
      /\ upper \in SUBSET BatchSizes /\ upper \subseteq acc.left
      /\ acc.default \in BatchSizes
  BY DEF Found, Down, Up
<1>2. next = IF acc.kind # "over" THEN acc
             ELSE IF down.kind # "over" THEN [acc EXCEPT !.kind = down.kind, !.bs = down.bs]
             ELSE IF up.kind # "over" THEN [acc EXCEPT !.kind = up.kind, !.bs = up.bs]
             ELSE IF converged = {} THEN [acc EXCEPT !.kind = "none"]
             ELSE [acc EXCEPT !.left = converged, !.default = Cheapest(converged, acc.default, round)]
  BY DEF PruningRound
<1> HIDE DEF lower, upper
<1>3. /\ down.kind \in {"over", "explore", "concurrent"}
      /\ down.converged \subseteq {b \in lower : ~Stops(b, round)}
      /\ down.kind = "explore" => down.bs \in lower /\ ~Explored(down.bs, round)
      /\ down.kind = "concurrent" => \E i \in DOMAIN trials : Waiting(i)
  BY <1>1, WalkFinds
<1>4. /\ up.kind \in {"over", "explore", "concurrent"}
      /\ up.converged \subseteq {b \in upper : ~Stops(b, round)}
      /\ up.kind = "explore" => up.bs \in upper /\ ~Explored(up.bs, round)
      /\ up.kind = "concurrent" => \E i \in DOMAIN trials : Waiting(i)
  BY <1>1, WalkFinds
<1> HIDE DEF down, up
<1>5. converged \subseteq {b \in acc.left : ~Stops(b, round)} /\ converged \in SUBSET BatchSizes
  BY <1>1, <1>3, <1>4
<1>6. converged # {} => Cheapest(converged, acc.default, round) \in converged
  <2> HIDE DEF converged
  <2> QED
    BY <1>1, <1>5, CheapestIsIn
<1> HIDE DEF converged
<1>7. CASE acc.kind # "over"
  BY <1>7, <1>2
<1>8. CASE acc.kind = "over" /\ down.kind # "over"
  BY <1>8, <1>2, <1>1, <1>3 DEF Found
<1>9. CASE acc.kind = "over" /\ down.kind = "over" /\ up.kind # "over"
  BY <1>9, <1>2, <1>1, <1>4 DEF Found
<1>10. CASE acc.kind = "over" /\ down.kind = "over" /\ up.kind = "over"
  BY <1>10, <1>2, <1>5, <1>6 DEF Found
<1> QED
  BY <1>7, <1>8, <1>9, <1>10

(* Where the rounds are: the batch sizes left have converged in each; the  *)
(* one to explore has, up to the round it is missing from.                 *)
LeftAt(k, acc) ==
  /\ Found(acc)
  /\ acc.kind = "over" => \A b \in acc.left, q \in 1..k : ~Stops(b, q)
  /\ acc.kind = "explore" => \E r \in 1..k :
       acc.bs \in BatchSizes /\ ~Explored(acc.bs, r) /\ \A q \in 1..(r - 1) : ~Stops(acc.bs, q)
  /\ acc.kind = "concurrent" => \E i \in DOMAIN trials : Waiting(i)

LEMMA RoundsFind ==
  ASSUME TrialInv, ResultInv
  PROVE  \A k \in 0..NumPruningRounds : LeftAt(k, AfterRound[k])
<1> DEFINE P(k) == k <= NumPruningRounds => LeftAt(k, AfterRound[k])
           Good == {k \in Nat : P(k)}
<1>0. NumPruningRounds \in Nat
  BY JobAssumption DEF ValidJob
<1>1. P(0)
  <2>1. Found(FirstRound) /\ FirstRound.kind = "over"
    BY JobAssumption DEF ValidJob, Found, FirstRound
  <2>2. LeftAt(0, FirstRound)
    BY <2>1 DEF LeftAt
  <2> QED
    BY <2>2, Rounds
<1>2. ASSUME NEW k \in Nat, P(k) PROVE P(k + 1)
  <2> SUFFICES ASSUME k + 1 <= NumPruningRounds PROVE LeftAt(k + 1, AfterRound[k + 1])
    OBVIOUS
  <2> DEFINE acc == AfterRound[k]
             next == AfterRound[k + 1]
  <2>1. LeftAt(k, acc) /\ k + 1 \in Nat \ {0} /\ k + 1 \in 1..NumPruningRounds
    BY <1>0, <1>2
  <2>2. next = PruningRound(acc, k + 1)
    BY <2>1, Rounds
  <2> HIDE DEF acc, next
  <2>3. /\ Found(next) /\ (acc.kind # "over" => next = acc)
        /\ acc.kind = "over" =>
              /\ next.kind = "over" => next.left \subseteq {b \in acc.left : ~Stops(b, k + 1)}
              /\ next.kind = "explore" => next.bs \in acc.left /\ ~Explored(next.bs, k + 1)
              /\ next.kind = "concurrent" => \E i \in DOMAIN trials : Waiting(i)
    BY <2>1, <2>2, RoundFinds DEF LeftAt
  <2>4. ASSUME acc.kind # "over" PROVE LeftAt(k + 1, next)
    <3>1. next = acc /\ 1..k \subseteq 1..(k + 1)
      BY <2>3, <2>4
    <3> QED
      BY <2>1, <2>3, <2>4, <3>1 DEF LeftAt
  <2>5. ASSUME acc.kind = "over" PROVE LeftAt(k + 1, next)
    <3>1. \A q \in 1..(k + 1) : q \in 1..k \/ q = k + 1
      OBVIOUS
    <3>2. \A b \in acc.left, q \in 1..k : ~Stops(b, q)
      BY <2>1, <2>5 DEF LeftAt
    <3>3. next.kind = "over" => \A b \in next.left, q \in 1..(k + 1) : ~Stops(b, q)
      BY <2>3, <2>5, <3>1, <3>2
    <3>4. next.kind = "explore" =>
            /\ next.bs \in BatchSizes /\ ~Explored(next.bs, k + 1)
            /\ \A q \in 1..k : ~Stops(next.bs, q)
      BY <2>1, <2>3, <2>5, <3>2 DEF LeftAt, Found
    <3>5. k + 1 \in 1..(k + 1) /\ (k + 1) - 1 = k
      OBVIOUS
    <3> QED
      BY <2>3, <2>5, <3>3, <3>4, <3>5 DEF LeftAt
  <2> QED
    BY <2>4, <2>5 DEF next
<1> HIDE DEF P
<1>3. 0 \in Good /\ \A n \in Nat : n \in Good => n + 1 \in Good
  BY <1>1, <1>2
<1>4. Nat \subseteq Good
  <2> HIDE DEF Good
  <2> QED
    BY <1>3, Induct
<1> QED
  BY <1>0, <1>4 DEF P

-----------------------------------------------------------------------------
(* A step that adds no more than an exploration of B, or nothing. *)

Carries(B) == \A bs : \A round \in Nat \ {0} :
  /\ Stops(bs, round)' <=> Stops(bs, round)
  /\ Explored(bs, round) => Explored(bs, round)' /\ Result(bs, round)' = Result(bs, round)
  /\ ~Explored(bs, round) /\ Explored(bs, round)' => bs = B /\ Result(bs, round)'.status = "Dispatched"

RoundsForm ==
  /\ AfterRound[0] = FirstRound
  /\ \A acc : \A r \in 1..NumPruningRounds :
       acc = AfterRound[r - 1] => AfterRound[r] = PruningRound(acc, r)

LEMMA RoundsHaveForm == RoundsForm
  BY Rounds DEF RoundsForm

LEMMA WalkCarries ==
  ASSUME NEW B, Carries(B), NEW list, NEW default, NEW round \in Nat \ {0},
         NEW w, w = Walk(list, default, round), NEW v, v = Walk(list, default, round)'
  PROVE  /\ v.converged = w.converged
         /\ w.kind = "over" => v.kind = "over"
         /\ w.kind = "concurrent" => v.kind = "concurrent"
         /\ w.kind = "explore" /\ w.bs = B /\ Explored(B, round)' => v.kind = "concurrent"
<1>1. PICK stops, last : stops = {b \in list : Stops(b, round)} /\ last = First(stops, default)
  OBVIOUS
<1>2. stops = {b \in list : Stops(b, round)'}
  BY <1>1 DEF Carries
<1>3. /\ w.kind = IF stops = {} THEN "over" ELSE IF ~Explored(last, round) THEN "explore"
                  ELSE IF Result(last, round).status = "Dispatched" THEN "concurrent" ELSE "over"
      /\ w.converged = {b \in list : \A s \in stops : Distance(b, default) < Distance(s, default)}
      /\ w.bs = IF w.kind = "explore" THEN last ELSE 0
  BY <1>1 DEF Walk
<1>4. /\ v.kind = IF stops = {} THEN "over" ELSE IF ~Explored(last, round)' THEN "explore"
                  ELSE IF Result(last, round)'.status = "Dispatched" THEN "concurrent" ELSE "over"
      /\ v.converged = {b \in list : \A s \in stops : Distance(b, default) < Distance(s, default)}
  BY <1>1, <1>2 DEF Walk
<1>5. /\ Explored(last, round) => Explored(last, round)' /\ Result(last, round)' = Result(last, round)
      /\ ~Explored(last, round) /\ Explored(last, round)' => Result(last, round)'.status = "Dispatched"
  BY DEF Carries
<1> QED
  BY <1>1, <1>3, <1>4, <1>5

LEMMA CheapestCarries ==
  ASSUME NEW B, Carries(B), NEW set, NEW default, NEW round \in Nat \ {0},
         \A b \in set : ~Stops(b, round)
  PROVE  Cheapest(set, default, round)' = Cheapest(set, default, round)
<1>1. \A b \in set : Result(b, round)' = Result(b, round)
  BY DEF Carries, Stops
<1> DEFINE least == {b \in set : \A o \in set : Result(b, round).cost <= Result(o, round).cost}
           later == {b \in set : \A o \in set : Result(b, round)'.cost <= Result(o, round)'.cost}
<1>2. later = least
  BY <1>1
<1> DEFINE Of(s) == First(IF Down(s, default) # {} THEN Down(s, default) ELSE s, default)
<1>3. Cheapest(set, default, round) = Of(least)
  BY DEF Cheapest
<1>4. Cheapest(set, default, round)' = Of(later)
  BY DEF Cheapest
<1> HIDE DEF least, later, Of
<1> QED
  BY <1>2, <1>3, <1>4

LEMMA RoundCarries ==
  ASSUME TrialInv, NEW B, Carries(B), NEW acc, Found(acc), NEW round \in Nat \ {0},
         NEW next, next = PruningRound(acc, round), NEW later, later = PruningRound(acc, round)'
  PROVE  /\ acc.kind # "over" => later = acc
         /\ next.kind = "over" => later = next
         /\ next.kind = "concurrent" => later.kind = "concurrent"
         /\ acc.kind = "over" /\ next.kind = "explore" /\ next.bs = B /\ Explored(B, round)'
              => later.kind = "concurrent"
<1>1. PICK lower, upper : lower = Down(acc.left, acc.default) /\ upper = Up(acc.left, acc.default)
  OBVIOUS
<1>2. PICK down, up : down = Walk(lower, acc.default, round) /\ up = Walk(upper, acc.default, round)
  OBVIOUS
<1>3. PICK down2, up2 : down2 = Walk(lower, acc.default, round)' /\ up2 = Walk(upper, acc.default, round)'
  OBVIOUS
<1>4. PICK converged : converged = down.converged \cup up.converged
  OBVIOUS
<1>5. /\ down2.converged = down.converged
      /\ down.kind = "over" => down2.kind = "over"
      /\ down.kind = "concurrent" => down2.kind = "concurrent"
      /\ down.kind = "explore" /\ down.bs = B /\ Explored(B, round)' => down2.kind = "concurrent"
  BY <1>2, <1>3, WalkCarries
<1>6. /\ up2.converged = up.converged
      /\ up.kind = "over" => up2.kind = "over"
      /\ up.kind = "concurrent" => up2.kind = "concurrent"
      /\ up.kind = "explore" /\ up.bs = B /\ Explored(B, round)' => up2.kind = "concurrent"
  BY <1>2, <1>3, WalkCarries
<1>7. next = IF acc.kind # "over" THEN acc
             ELSE IF down.kind # "over" THEN [acc EXCEPT !.kind = down.kind, !.bs = down.bs]
             ELSE IF up.kind # "over" THEN [acc EXCEPT !.kind = up.kind, !.bs = up.bs]
             ELSE IF converged = {} THEN [acc EXCEPT !.kind = "none"]
             ELSE [acc EXCEPT !.left = converged, !.default = Cheapest(converged, acc.default, round)]
  BY <1>1, <1>2, <1>4 DEF PruningRound
<1>8. converged = down2.converged \cup up2.converged
  BY <1>4, <1>5, <1>6
<1>9. later = IF acc.kind # "over" THEN acc
              ELSE IF down2.kind # "over" THEN [acc EXCEPT !.kind = down2.kind, !.bs = down2.bs]
              ELSE IF up2.kind # "over" THEN [acc EXCEPT !.kind = up2.kind, !.bs = up2.bs]
              ELSE IF converged = {} THEN [acc EXCEPT !.kind = "none"]
              ELSE [acc EXCEPT !.left = converged, !.default = Cheapest(converged, acc.default, round)']
  BY <1>1, <1>3, <1>8 DEF PruningRound
<1>10. Cheapest(converged, acc.default, round)' = Cheapest(converged, acc.default, round)
  <2>1. lower \in SUBSET BatchSizes /\ upper \in SUBSET BatchSizes /\ acc.default \in BatchSizes
    BY <1>1 DEF Found, Down, Up
  <2>2. \A b \in down.converged : ~Stops(b, round)
    BY <2>1, <1>2, WalkFinds
  <2>3. \A b \in up.converged : ~Stops(b, round)
    BY <2>1, <1>2, WalkFinds
  <2>4. \A b \in converged : ~Stops(b, round)
    BY <2>2, <2>3, <1>4
  <2> QED
    BY <2>4, CheapestCarries
<1>11. CASE acc.kind # "over"
  BY <1>11, <1>7, <1>9
<1>12. CASE acc.kind = "over" /\ down.kind # "over"
  BY <1>12, <1>5, <1>7, <1>9 DEF Found
<1>13. CASE acc.kind = "over" /\ down.kind = "over" /\ up.kind # "over"
  BY <1>13, <1>5, <1>6, <1>7, <1>9 DEF Found
<1>14. CASE acc.kind = "over" /\ down.kind = "over" /\ up.kind = "over"
  BY <1>14, <1>5, <1>6, <1>7, <1>9, <1>10 DEF Found
<1> QED
  BY <1>11, <1>12, <1>13, <1>14

(* The rounds that are over stay over, and whoever has to wait still has   *)
(* to; once B is explored where it was missing, everybody waits for it.    *)
LEMMA RoundsCarry ==
  ASSUME TrialInv, ResultInv, NEW B, Carries(B)
  PROVE  /\ NextBatchSize.kind = "concurrent" => NextBatchSize'.kind = "concurrent"
         /\ /\ NextBatchSize.kind = "explore" /\ NextBatchSize.bs = B
            /\ \A r \in 1..NumPruningRounds :
                 ~Explored(B, r) /\ (\A q \in 1..(r - 1) : ~Stops(B, q)) => Explored(B, r)'
            => NextBatchSize'.kind = "concurrent"
<1>0. NumPruningRounds \in Nat
  BY JobAssumption DEF ValidJob
<1> DEFINE Fills == \A r \in 1..NumPruningRounds :
             ~Explored(B, r) /\ (\A q \in 1..(r - 1) : ~Stops(B, q)) => Explored(B, r)'
           Kept(acc, now) ==
             /\ acc.kind = "over" => now = acc
             /\ acc.kind = "concurrent" => now.kind = "concurrent"
             /\ acc.kind = "explore" /\ acc.bs = B /\ Fills => now.kind = "concurrent"
           P(k) == k <= NumPruningRounds => Kept(AfterRound[k], AfterRound'[k])
           Good == {k \in Nat : P(k)}
<1>1. RoundsForm /\ RoundsForm'
  BY RoundsHaveForm, PTL
<1>2. P(0)
  BY <1>1 DEF RoundsForm, FirstRound
<1>3. ASSUME NEW k \in Nat, P(k) PROVE P(k + 1)
  <2> SUFFICES ASSUME k + 1 <= NumPruningRounds PROVE Kept(AfterRound[k + 1], AfterRound'[k + 1])
    OBVIOUS
  <2>1. PICK acc, now, next, later :
          acc = AfterRound[k] /\ now = AfterRound'[k] /\ next = AfterRound[k + 1] /\ later = AfterRound'[k + 1]
    OBVIOUS
  <2>2. k + 1 \in Nat \ {0} /\ k + 1 \in 1..NumPruningRounds /\ k \in 0..NumPruningRounds /\ (k + 1) - 1 = k
    BY <1>0
  <2>3. next = PruningRound(acc, k + 1) /\ LeftAt(k, acc) /\ Kept(acc, now)
    BY <1>1, <1>3, <2>1, <2>2, RoundsFind DEF RoundsForm
  <2>4. later = PruningRound(now, k + 1)'
    BY <1>1, <2>1, <2>2 DEF RoundsForm
  <2>5. Found(acc)
    BY <2>3 DEF LeftAt
  <2> HIDE DEF Fills
  <2>6. CASE acc.kind = "over"
    <3>1. later = PruningRound(acc, k + 1)'
      BY <2>3, <2>4, <2>6
    <3>2. /\ next.kind = "over" => later = next
          /\ next.kind = "concurrent" => later.kind = "concurrent"
          /\ next.kind = "explore" /\ next.bs = B /\ Explored(B, k + 1)' => later.kind = "concurrent"
      BY <2>2, <2>3, <2>5, <2>6, <3>1, RoundCarries
    <3>3. ASSUME next.kind = "explore", next.bs = B, Fills PROVE Explored(B, k + 1)'
      <4>1. B \in acc.left /\ ~Explored(B, k + 1)
        BY <2>2, <2>3, <2>5, <2>6, <3>3, RoundFinds
      <4>2. \A q \in 1..k : ~Stops(B, q)
        BY <2>3, <2>6, <4>1 DEF LeftAt
      <4> QED
        BY <2>2, <3>3, <4>1, <4>2 DEF Fills
    <3> QED
      BY <2>1, <3>2, <3>3
  <2>7. CASE acc.kind # "over"
    <3>1. next = acc
      BY <2>2, <2>3, <2>5, <2>7, RoundFinds
    <3>2. now.kind = "concurrent" => later = now
      <4> SUFFICES ASSUME now.kind = "concurrent" PROVE later = now
        OBVIOUS
      <4> QED
        BY <2>4 DEF PruningRound
    <3> QED
      BY <2>1, <2>3, <2>7, <3>1, <3>2
  <2> QED
    BY <2>6, <2>7
<1> HIDE DEF P
<1>4. 0 \in Good /\ \A n \in Nat : n \in Good => n + 1 \in Good
  BY <1>2, <1>3
<1>5. Nat \subseteq Good
  <2> HIDE DEF Good
  <2> QED
    BY <1>4, Induct
<1>6. Kept(NextBatchSize, NextBatchSize')
  BY <1>0, <1>5 DEF P, NextBatchSize
<1> QED
  BY <1>6

-----------------------------------------------------------------------------
(* Steps that leave the explorations alone. *)

LEMMA SameCarries ==
  ASSUME TrialInv, NEW B,
         \A bs : /\ Explorations(bs)' = Explorations(bs)
                 /\ \A i \in Explorations(bs) : trials'[i] = trials[i]
  PROVE  Carries(B)
  BY Unmoved DEF Carries, Stops

LEMMA QuietRound ==
  ASSUME TrialInv, ResultInv, WaitingInv, OrderInv, stage' \in {stage, "MAB"},
         \A bs : /\ Explorations(bs)' = Explorations(bs)
                 /\ \A i \in Explorations(bs) : trials'[i] = trials[i]
  PROVE  WaitingInv' /\ OrderInv'
<1>1. NextBatchSize.kind = "concurrent" => NextBatchSize'.kind = "concurrent"
  BY SameCarries, RoundsCarry
<1>2. ASSUME NEW i \in DOMAIN trials', Waiting(i)' PROVE i \in DOMAIN trials /\ Waiting(i)
  <2>1. PICK bs : bs = trials'[i].batch_size
    OBVIOUS
  <2>2. i \in Explorations(bs)'
    BY <1>2, <2>1 DEF Waiting, Explorations
  <2>3. i \in Explorations(bs) /\ trials'[i] = trials[i]
    BY <2>2
  <2> QED
    BY <1>2, <2>3 DEF Waiting, Explorations
<1>3. WaitingInv'
  BY <1>1, <1>2 DEF WaitingInv
<1>4. OrderInv'
  BY DEF OrderInv
<1> QED
  BY <1>3, <1>4

LEMMA HeldKeeps ==
  ASSUME ClientInv, HeldInv, NEW c \in Clients, UNCHANGED <<trials, lost>>, DOMAIN client' = Clients,
         \A d \in Clients \ {c} : client'[d] = client[d],
         \/ client'[c].trial = client[c].trial /\ client'[c].bs = client[c].bs
         \/ ~Dispatched(c)
  PROVE  HeldInv'
<1>1. ASSUME NEW d \in Clients, Dispatched(d)
      PROVE  client'[d].trial = client[d].trial /\ Dispatched(d)'
  BY <1>1 DEF Dispatched
<1> QED
  BY <1>1 DEF HeldInv

LEMMA Unissued ==
  ASSUME TrialInv, NEW c \in Clients, client[c] \in {Idle, Registered}
  PROVE  ~Dispatched(c)
<1>1. 0 \notin DOMAIN trials
  BY DEF TrialInv
<1>2. client[c].trial = 0
  BY DEF Idle, Registered
<1> QED
  BY <1>1, <1>2 DEF Dispatched

-----------------------------------------------------------------------------
(* A trial is issued. *)

LEMMA Creates ==
  ASSUME TrialInv, NEW bs, NEW type, CreateTrial(bs, type)
  PROVE  \E n \in Nat :
           /\ n = Len(trials) /\ DOMAIN trials = 1..n /\ DOMAIN trials' = 1..(n + 1)
           /\ trials'[n + 1] = NewTrial(bs, type) /\ \A i \in 1..n : trials'[i] = trials[i]
<1> DEFINE t == NewTrial(bs, type)
<1>1. PICK n \in Nat : DOMAIN trials = 1..n
  BY DEF TrialInv
<1> HIDE DEF t
<1>2. trials' = Append(trials, t) /\ Len(trials) = n
  BY <1>1 DEF CreateTrial, TrialInv, t
<1>3. trials \in Seq(Range(trials) \cup {t})
  BY DEF TrialInv
<1>4. DOMAIN trials' = 1..(n + 1) /\ trials'[n + 1] = t /\ \A i \in 1..n : trials'[i] = trials[i]
  BY <1>1, <1>2, <1>3
<1> QED
  BY <1>1, <1>2, <1>4 DEF t

LEMMA IssueHolds ==
  ASSUME RoundInv, NEW c \in Clients, NEW bs, NEW type, Issue(c, bs, type), client[c] = Registered
  PROVE  ResultInv' /\ HeldInv'
<1>1. PICK n \in Nat :
        /\ n = Len(trials) /\ DOMAIN trials = 1..n /\ DOMAIN trials' = 1..(n + 1)
        /\ trials'[n + 1] = NewTrial(bs, type) /\ \A i \in 1..n : trials'[i] = trials[i]
  BY Creates DEF RoundInv, IInv, Issue
<1>2. /\ NewTrial(bs, type).status = "Dispatched" /\ NewTrial(bs, type).converged = "unknown"
      /\ NewTrial(bs, type).batch_size = bs
  BY DEF NewTrial
<1>3. \A i \in 1..(n + 1) : i \in 1..n \/ i = n + 1
  OBVIOUS
<1>4. ResultInv'
  BY <1>1, <1>2, <1>3 DEF RoundInv, ResultInv
<1>5. HeldInv'
  <2>1. CASE lost' = lost + 1
    BY <2>1 DEF RoundInv, HeldInv
  <2>2. CASE /\ client' = [client EXCEPT ![c] = [is |-> "training", trial |-> n + 1,
                                                bs |-> bs, epoch |-> 0, cost |-> 0]]
             /\ UNCHANGED lost
    <3>1. /\ client'[c].trial = n + 1 /\ client'[c].bs = bs
          /\ \A d \in Clients \ {c} : client'[d] = client[d]
      BY <2>2 DEF RoundInv, IInv, ClientInv
    <3>2. Dispatched(c)'
      BY <1>1, <1>2, <3>1 DEF Dispatched
    <3>3. ~Dispatched(c)
      BY Unissued DEF RoundInv, IInv
    <3>4. \A d \in Clients : Dispatched(d) => client'[d] = client[d] /\ Dispatched(d)'
      BY <1>1, <3>1, <3>3 DEF Dispatched
    <3> QED
      BY <1>1, <1>3, <2>2, <3>1, <3>2, <3>4 DEF RoundInv, HeldInv
  <2> QED
    BY <1>1, <2>1, <2>2 DEF Issue
<1> QED
  BY <1>4, <1>5

(* One that is no exploration. *)
LEMMA OtherIssued ==
  ASSUME RoundInv, NEW c \in Clients, NEW bs, NEW type, Issue(c, bs, type), client[c] = Registered,
         type # "Exploration", IInv', stage' \in {stage, "MAB"}
  PROVE  RoundInv'
<1>1. PICK n \in Nat :
        /\ n = Len(trials) /\ DOMAIN trials = 1..n /\ DOMAIN trials' = 1..(n + 1)
        /\ trials'[n + 1] = NewTrial(bs, type) /\ \A i \in 1..n : trials'[i] = trials[i]
  BY Creates DEF RoundInv, IInv, Issue
<1>2. NewTrial(bs, type).type # "Exploration"
  BY DEF NewTrial
<1>3. ASSUME NEW b PROVE /\ Explorations(b)' = Explorations(b)
                         /\ \A i \in Explorations(b) : trials'[i] = trials[i]
  <2>1. \A i \in 1..(n + 1) : i \in 1..n \/ i = n + 1
    OBVIOUS
  <2> QED
    BY <1>1, <1>2, <2>1 DEF Explorations
<1>4. WaitingInv' /\ OrderInv'
  BY <1>3, QuietRound DEF RoundInv, IInv
<1> QED
  BY <1>4, IssueHolds DEF RoundInv

(* The next exploration. *)
LEMMA ExplorationIssued ==
  ASSUME RoundInv, NEW c \in Clients, NEW B, Issue(c, B, "Exploration"), client[c] = Registered,
         stage = "Pruning", NextBatchSize.kind = "explore", B = NextBatchSize.bs, IInv', stage' = stage
  PROVE  RoundInv'
<1>0. NumPruningRounds \in Nat
  BY JobAssumption DEF ValidJob
<1>1. PICK n \in Nat :
        /\ n = Len(trials) /\ DOMAIN trials = 1..n /\ DOMAIN trials' = 1..(n + 1)
        /\ trials'[n + 1] = NewTrial(B, "Exploration") /\ \A i \in 1..n : trials'[i] = trials[i]
  BY Creates DEF RoundInv, IInv, Issue
<1> DEFINE m == n + 1
<1>2. /\ trials'[m].batch_size = B /\ trials'[m].type = "Exploration"
      /\ trials'[m].status = "Dispatched" /\ trials'[m].converged = "unknown"
  BY <1>1 DEF NewTrial
<1>3. \A i \in 1..m : i \in 1..n \/ i = m
  OBVIOUS
<1>4. /\ Explorations(B)' = Explorations(B) \cup {m}
      /\ \A b : b # B => Explorations(b)' = Explorations(b)
      /\ \A b : \A i \in Explorations(b) : i < m /\ trials'[i] = trials[i]
  BY <1>1, <1>2, <1>3 DEF Explorations
<1> HIDE DEF m
<1>5. m \in Nat /\ TrialInv /\ TrialInv' /\ ResultInv
  BY DEF m, RoundInv, IInv
<1>6. \A round \in Nat \ {0} :
        /\ Explored(B, round) => Explored(B, round)' /\ Result(B, round)' = Result(B, round)
        /\ ~Explored(B, round) /\ Explored(B, round)' => Result(B, round)' = trials'[m]
        /\ round <= Cardinality(Explorations(B)) + 1 => Explored(B, round)'
  BY <1>4, <1>5, Appended
<1>7. \A b : b # B => \A round \in Nat \ {0} :
        /\ Explored(b, round)' <=> Explored(b, round)
        /\ Explored(b, round) => Result(b, round)' = Result(b, round)
  BY <1>4, <1>5, Unmoved
<1>8. Carries(B)
  <2>1. ASSUME NEW b, NEW round \in Nat \ {0}
        PROVE  /\ Stops(b, round)' <=> Stops(b, round)
               /\ Explored(b, round) => Explored(b, round)' /\ Result(b, round)' = Result(b, round)
               /\ ~Explored(b, round) /\ Explored(b, round)'
                    => b = B /\ Result(b, round)'.status = "Dispatched"
    <3>1. CASE b = B
      BY <1>2, <1>6, <3>1 DEF Stops
    <3>2. CASE b # B
      BY <1>7, <3>2 DEF Stops
    <3> QED
      BY <3>1, <3>2
  <2> QED
    BY <2>1 DEF Carries
<1>9. /\ Cardinality(Explorations(B)) \in Nat /\ IsFiniteSet(Explorations(B))
      /\ \A i \in Explorations(B) :
           /\ Place(i, Explorations(B)) \in 1..Cardinality(Explorations(B))
           /\ Result(B, Place(i, Explorations(B))) = trials[i]
  BY <1>5, InPlace
<1>10. PICK r \in 1..NumPruningRounds : ~Explored(B, r) /\ \A q \in 1..(r - 1) : ~Stops(B, q)
  <2>1. LeftAt(NumPruningRounds, NextBatchSize)
    BY <1>0, <1>5, RoundsFind DEF NextBatchSize
  <2> QED
    BY <2>1 DEF LeftAt
<1>11. NextBatchSize'.kind = "concurrent"
  <2>1. ASSUME NEW k \in 1..NumPruningRounds, ~Explored(B, k), \A q \in 1..(k - 1) : ~Stops(B, q)
        PROVE  Explored(B, k)'
    <3>1. CASE k = 1
      BY <1>6, <1>9, <3>1
    <3>2. CASE k # 1
      <4>1. k - 1 \in 1..(k - 1) /\ k \in Nat \ {0}
        BY <1>0, <3>2
      <4>2. Cardinality(Explorations(B)) >= k - 1
        BY <2>1, <4>1 DEF Stops, Explored
      <4> QED
        BY <1>6, <1>9, <4>1, <4>2
    <3> QED
      BY <3>1, <3>2
  <2> QED
    BY <1>5, <1>8, <2>1, RoundsCarry
<1>12. WaitingInv'
  <2>1. ~\E i \in DOMAIN trials : Waiting(i)
    BY DEF RoundInv, WaitingInv
  <2>2. ASSUME NEW i \in 1..n PROVE ~Waiting(i)'
    BY <1>1, <2>1 DEF Waiting
  <2>3. \A i \in DOMAIN trials' : Waiting(i)' => i = m
    BY <1>1, <1>3, <2>2 DEF m
  <2> QED
    BY <1>11, <2>3 DEF WaitingInv
<1>13. OrderInv'
  <2>1. Cardinality(Explorations(B)) < r
    BY <1>0, <1>9, <1>10 DEF Explored
  <2>2. \A i \in Explorations(B) : trials[i].converged = "yes"
    <3>1. ASSUME NEW i \in Explorations(B) PROVE trials[i].converged = "yes"
      <4>1. Place(i, Explorations(B)) \in 1..(r - 1)
        BY <1>0, <1>9, <2>1
      <4>2. ~Stops(B, Place(i, Explorations(B)))
        BY <1>10, <4>1
      <4> QED
        BY <1>9, <4>2 DEF Stops
    <3> QED
      BY <3>1
  <2>3. Cardinality(Explorations(B)') <= NumPruningRounds
    <3>1. Cardinality(Explorations(B) \cup {m})
            = IF m \in Explorations(B) THEN Cardinality(Explorations(B))
              ELSE Cardinality(Explorations(B)) + 1
      BY <1>9, FS_AddElement
    <3> QED
      BY <1>0, <1>4, <1>9, <2>1, <3>1
  <2>4. ASSUME NEW i \in Explorations(B)', NEW j \in Explorations(B)', i < j
        PROVE  trials'[i].converged = "yes"
    <3>1. i # m
      <4>1. CASE i = m
        <5>1. j = m \/ j < m
          BY <1>4
        <5> QED
          BY <1>5, <2>4, <4>1, <5>1, InPlace
      <4> QED
        BY <4>1
    <3>2. i \in Explorations(B)
      BY <1>4, <3>1
    <3> QED
      BY <1>4, <2>2, <3>2
  <2>5. ASSUME NEW b \in BatchSizes
        PROVE  /\ Cardinality(Explorations(b)') <= NumPruningRounds
               /\ \A i, j \in Explorations(b)' : i < j => trials'[i].converged = "yes"
    <3>1. CASE b = B
      BY <2>3, <2>4, <3>1
    <3>2. CASE b # B
      BY <1>4, <3>2 DEF RoundInv, OrderInv
    <3> QED
      BY <3>1, <3>2
  <2> QED
    BY <2>5 DEF OrderInv
<1> QED
  BY <1>12, <1>13, IssueHolds DEF RoundInv

-----------------------------------------------------------------------------
(* A trial ends: with a result, or without. *)
LEMMA TrialEnds ==
  ASSUME RoundInv, NEW n \in DOMAIN trials, trials[n].status = "Dispatched",
         DOMAIN trials' = DOMAIN trials, \A i \in DOMAIN trials \ {n} : trials'[i] = trials[i],
         trials'[n].status \in {"Succeeded", "Failed"},
         trials'[n].batch_size = trials[n].batch_size, trials'[n].type = trials[n].type,
         trials'[n].status = "Failed" => trials'[n].converged = "unknown", TrialInv', stage' = stage
  PROVE  ResultInv' /\ WaitingInv' /\ OrderInv'
<1> DEFINE t == trials'[n]
<1>1. /\ DOMAIN trials' = DOMAIN trials /\ trials'[n] = t
      /\ \A i \in DOMAIN trials \ {n} : trials'[i] = trials[i]
  OBVIOUS
<1>2. ResultInv'
  BY <1>1 DEF RoundInv, ResultInv
<1>3. CASE t.type # "Exploration"
  <2>1. ASSUME NEW b PROVE /\ Explorations(b)' = Explorations(b)
                           /\ \A i \in Explorations(b) : trials'[i] = trials[i]
    BY <1>1, <1>3 DEF Explorations
  <2> QED
    BY <1>2, <2>1, QuietRound DEF RoundInv, IInv
<1>4. CASE t.type = "Exploration"
  <2>1. Waiting(n)
    BY <1>4 DEF Waiting
  <2>2. ASSUME NEW i \in DOMAIN trials' PROVE ~Waiting(i)'
    <3>1. CASE i = n
      BY <1>1, <3>1 DEF Waiting
    <3>2. CASE i # n
      <4>1. ~Waiting(i)
        BY <1>1, <2>1, <3>2 DEF RoundInv, WaitingInv
      <4> QED
        BY <1>1, <3>2, <4>1 DEF Waiting
    <3> QED
      BY <3>1, <3>2
  <2>3. WaitingInv'
    BY <2>2 DEF WaitingInv
  <2>4. trials[n].converged = "unknown"
    BY DEF RoundInv, ResultInv
  <2>5. ASSUME NEW b \in BatchSizes
        PROVE  /\ Cardinality(Explorations(b)') <= NumPruningRounds
               /\ \A i, j \in Explorations(b)' : i < j => trials'[i].converged = "yes"
    <3>1. Explorations(b)' \subseteq Explorations(b)
      BY <1>1 DEF Explorations
    <3>2. IsFiniteSet(Explorations(b)) /\ Cardinality(Explorations(b)) \in Nat
      BY InPlace DEF RoundInv, IInv
    <3>3. Cardinality(Explorations(b)') \in Nat /\ Cardinality(Explorations(b)') <= Cardinality(Explorations(b))
      BY <3>1, <3>2, FS_Subset, FS_CardinalityType
    <3>4. Cardinality(Explorations(b)) <= NumPruningRounds
      BY DEF RoundInv, OrderInv
    <3>5. ASSUME NEW i \in Explorations(b)', NEW j \in Explorations(b)', i < j
          PROVE  trials'[i].converged = "yes"
      <4>1. trials[i].converged = "yes"
        BY <3>1, <3>5 DEF RoundInv, OrderInv
      <4>2. i # n
        BY <2>4, <4>1
      <4>3. i \in DOMAIN trials
        BY <3>1 DEF Explorations
      <4> QED
        BY <1>1, <4>1, <4>2, <4>3
    <3>6. NumPruningRounds \in Nat
      BY JobAssumption DEF ValidJob
    <3> QED
      BY <3>2, <3>3, <3>4, <3>5, <3>6
  <2> QED
    BY <1>2, <2>3, <2>5 DEF OrderInv
<1> QED
  BY <1>3, <1>4

LEMMA StopRound ==
  ASSUME RoundInv, NEW c \in Clients, StopTraining(c), IInv'
  PROVE  RoundInv'
<1>1. PICK cost, converged :
        /\ Dispatched(c)
        /\ trials' = [trials EXCEPT ![client[c].trial] = UpdatedTrial(client[c].trial, cost, converged)]
        /\ Leave(c) /\ stage' = stage /\ lost' = lost
  BY DEF StopTraining, Evaluates, UpdateTrial
<1> DEFINE n == client[c].trial
           t == UpdatedTrial(n, cost, converged)
<1>2. n \in DOMAIN trials /\ trials[n].status = "Dispatched"
  BY <1>1 DEF Dispatched
<1>3. t.status = "Succeeded" /\ t.batch_size = trials[n].batch_size /\ t.type = trials[n].type
  BY <1>2 DEF UpdatedTrial, RoundInv, IInv, TrialInv
<1> HIDE DEF t
<1>4. trials' = [trials EXCEPT ![n] = t]
  BY <1>1 DEF t
<1> HIDE DEF n
<1>5. ResultInv' /\ WaitingInv' /\ OrderInv'
  <2>1. /\ TrialInv' /\ stage' = stage /\ t.status \in {"Succeeded", "Failed"}
        /\ t.status = "Failed" => t.converged = "unknown"
    BY <1>1, <1>3 DEF IInv
  <2>2. /\ DOMAIN trials' = DOMAIN trials /\ trials'[n] = t
        /\ \A i \in DOMAIN trials \ {n} : trials'[i] = trials[i]
    BY <1>2, <1>4
  <2> QED
    BY <2>1, <2>2, <1>2, <1>3, TrialEnds
<1>6. HeldInv'
  <2>1. \A d \in Clients : client'[d].trial = client[d].trial /\ client'[d].bs = client[d].bs
    BY <1>1 DEF Leave, RoundInv, IInv, ClientInv
  <2>2. \A i \in DOMAIN trials : trials'[i].status = "Dispatched" => trials'[i] = trials[i]
    BY <1>2, <1>3, <1>4
  <2>3. DOMAIN trials' = DOMAIN trials
    BY <1>4
  <2>4. ASSUME NEW d \in Clients, Dispatched(d), trials'[client[d].trial].status = "Dispatched"
        PROVE  Dispatched(d)'
    BY <2>1, <2>2, <2>3, <2>4 DEF Dispatched
  <2> QED
    BY <1>1, <2>1, <2>2, <2>3, <2>4 DEF HeldInv, RoundInv
<1> QED
  BY <1>5, <1>6 DEF RoundInv

LEMMA EndRoundInv ==
  ASSUME RoundInv, NEW c \in Clients, EndTrial(c), IInv'
  PROVE  RoundInv'
<1>1. /\ client' = [client EXCEPT ![c] = Idle] /\ stage' = stage /\ lost' = lost
      /\ DOMAIN client' = Clients /\ \A d \in Clients \ {c} : client'[d] = client[d]
  BY DEF EndTrial, RoundInv, IInv, ClientInv
<1>2. CASE Dispatched(c)
  <2> DEFINE n == client[c].trial
             t == [trials[n] EXCEPT !.status = "Failed"]
  <2>1. n \in DOMAIN trials /\ trials[n].status = "Dispatched" /\ trials[n].converged = "unknown"
    BY <1>2 DEF Dispatched, RoundInv, ResultInv
  <2>2. trials' = [trials EXCEPT ![n] = t]
    BY <1>2 DEF EndTrial, FailTrial
  <2>3. /\ t.status = "Failed" /\ t.batch_size = trials[n].batch_size
        /\ t.type = trials[n].type /\ t.converged = "unknown"
    BY <2>1 DEF RoundInv, IInv, TrialInv
  <2> HIDE DEF t, n
  <2>4. ResultInv' /\ WaitingInv' /\ OrderInv'
    <3>1. /\ TrialInv' /\ stage' = stage /\ t.status \in {"Succeeded", "Failed"}
          /\ t.status = "Failed" => t.converged = "unknown"
      BY <1>1, <2>3 DEF IInv
    <3>2. /\ DOMAIN trials' = DOMAIN trials /\ trials'[n] = t
          /\ \A i \in DOMAIN trials \ {n} : trials'[i] = trials[i]
      BY <2>1, <2>2
    <3> QED
      BY <3>1, <3>2, <2>1, <2>3, TrialEnds
  <2>5. HeldInv'
    <3>1. DOMAIN trials' = DOMAIN trials
      BY <2>2
    <3>2. \A i \in DOMAIN trials : trials'[i].status = "Dispatched" => i # n /\ trials'[i] = trials[i]
      BY <2>1, <2>2, <2>3
    <3>3. ASSUME NEW d \in Clients, Dispatched(d), client[d].trial # n
          PROVE  client'[d].trial = client[d].trial /\ Dispatched(d)'
      <4>1. client'[d] = client[d]
        BY <1>1, <3>3 DEF n
      <4>2. trials'[client[d].trial] = trials[client[d].trial]
        BY <2>2, <3>3 DEF Dispatched
      <4> QED
        BY <3>1, <3>3, <4>1, <4>2 DEF Dispatched
    <3> QED
      BY <1>1, <3>1, <3>2, <3>3 DEF HeldInv, RoundInv
  <2> QED
    BY <2>4, <2>5 DEF RoundInv
<1>3. CASE ~Dispatched(c)
  <2>1. UNCHANGED trials
    BY <1>3 DEF EndTrial
  <2>2. WaitingInv' /\ OrderInv' /\ ResultInv'
    BY <1>1, <2>1, QuietRound DEF RoundInv, IInv, ResultInv, Explorations
  <2>3. HeldInv'
    BY <1>1, <1>3, <2>1, HeldKeeps DEF RoundInv, IInv
  <2> QED
    BY <2>2, <2>3 DEF RoundInv
<1> QED
  BY <1>2, <1>3

LEMMA InitRound == Init => RoundInv
<1> SUFFICES ASSUME Init PROVE RoundInv
  OBVIOUS
<1>1. trials = <<>> /\ lost = 0 /\ NumPruningRounds \in Nat
  BY JobAssumption DEF Init, ValidJob
<1>2. \A b : Explorations(b) = {}
  BY <1>1 DEF Explorations
<1>3. ResultInv /\ WaitingInv /\ HeldInv
  BY <1>1 DEF ResultInv, WaitingInv, HeldInv
<1>4. OrderInv
  BY <1>1, <1>2, FS_EmptySet DEF OrderInv
<1> QED
  BY <1>3, <1>4, InitInv DEF RoundInv

LEMMA StepRound == RoundInv /\ [Next]_vars => RoundInv'
<1> SUFFICES ASSUME RoundInv, [Next]_vars PROVE RoundInv'
  OBVIOUS
<1>0. IInv /\ IInv' /\ TrialInv /\ ClientInv /\ NumPruningRounds \in Nat
  BY StepInv, JobAssumption DEF RoundInv, IInv, ValidJob
<1>1. ASSUME UNCHANGED <<trials, stage>>, HeldInv' PROVE RoundInv'
  <2>1. WaitingInv' /\ OrderInv' /\ ResultInv'
    BY <1>0, <1>1, QuietRound DEF RoundInv, ResultInv, Explorations
  <2> QED
    BY <1>0, <1>1, <2>1 DEF RoundInv
<1>2. CASE UNCHANGED vars
  <2>1. UNCHANGED <<trials, stage, client, lost>>
    BY <1>2 DEF vars, jobVars
  <2>2. HeldInv'
    BY <2>1 DEF RoundInv, HeldInv, Dispatched
  <2> QED
    BY <1>1, <2>1, <2>2
<1>3. CASE DeleteJob
  <2>1. trials' = <<>> /\ lost' = lost
    BY <1>3 DEF DeleteJob
  <2>2. \A b : Explorations(b)' = {}
    BY <2>1 DEF Explorations
  <2>3. ResultInv' /\ WaitingInv' /\ HeldInv'
    BY <2>1 DEF ResultInv, WaitingInv, HeldInv, RoundInv
  <2>4. OrderInv'
    <3>1. NumPruningRounds \in Nat /\ Cardinality({}) = 0
      BY JobAssumption, FS_EmptySet DEF ValidJob
    <3>2. ASSUME NEW bs \in BatchSizes
          PROVE  /\ Cardinality(Explorations(bs)') <= NumPruningRounds
                 /\ \A i, j \in Explorations(bs)' : i < j => trials'[i].converged = "yes"
      <4>1. Explorations(bs)' = {}
        BY <2>2
      <4> QED
        BY <3>1, <4>1
    <3> QED
      BY <3>2 DEF OrderInv
  <2> QED
    BY <1>0, <2>3, <2>4 DEF RoundInv
<1>4. ASSUME NEW c \in Clients, RegisterJob(c) \/ PredictRefused(c) PROVE RoundInv'
  <2>1. /\ client[c] \in {Idle, Registered} /\ UNCHANGED <<trials, stage, lost>>
        /\ DOMAIN client' = Clients /\ \A d \in Clients \ {c} : client'[d] = client[d]
    BY <1>0, <1>4 DEF RegisterJob, PredictRefused, jobVars, ClientInv
  <2>2. ~Dispatched(c)
    BY <1>0, <2>1, Unissued
  <2>3. HeldInv'
    BY <1>0, <2>1, <2>2, HeldKeeps DEF RoundInv
  <2> QED
    BY <1>1, <2>1, <2>3
<1>5. ASSUME NEW c \in Clients, KeepTraining(c) \/ ReportRefused(c) \/ Abort(c) PROVE RoundInv'
  <2>1. /\ UNCHANGED <<trials, stage, lost>> /\ DOMAIN client' = Clients
        /\ \A d \in Clients \ {c} : client'[d] = client[d]
        /\ client'[c].trial = client[c].trial /\ client'[c].bs = client[c].bs
    BY <1>0, <1>5 DEF KeepTraining, ReportRefused, Abort, Leave, jobVars, ClientInv
  <2>2. HeldInv'
    BY <1>0, <2>1, HeldKeeps DEF RoundInv
  <2> QED
    BY <1>1, <2>1, <2>2
<1>6. ASSUME NEW c \in Clients, Kill(c) PROVE RoundInv'
  <2>1. UNCHANGED <<trials, stage>> /\ lost' = lost + 1
    BY <1>6 DEF Kill, jobVars
  <2>2. HeldInv'
    BY <2>1 DEF RoundInv, HeldInv
  <2> QED
    BY <1>1, <2>1, <2>2
<1>7. ASSUME NEW c \in Clients, PredictPruning(c) PROVE RoundInv'
  <2>1. /\ client[c] = Registered /\ stage = "Pruning" /\ stage' = stage
        /\ NextBatchSize.kind \in {"explore", "concurrent"}
        /\ IF NextBatchSize.kind = "explore" THEN Issue(c, NextBatchSize.bs, "Exploration")
           ELSE Issue(c, min_cost_batch_size, "Concurrent")
    BY <1>7 DEF PredictPruning, Asks
  <2>2. CASE NextBatchSize.kind = "explore"
    BY <1>0, <2>1, <2>2, ExplorationIssued
  <2>3. CASE NextBatchSize.kind # "explore"
    BY <1>0, <2>1, <2>3, OtherIssued
  <2> QED
    BY <2>2, <2>3
<1>8. ASSUME NEW c \in Clients, ConstructMab(c) \/ PredictMab(c) PROVE RoundInv'
  <2>1. client[c] = Registered /\ stage' \in {stage, "MAB"} /\ \E bs : Issue(c, bs, "MAB")
    BY <1>8 DEF ConstructMab, PredictMab, Asks, ToMab
  <2> QED
    BY <1>0, <2>1, OtherIssued
<1> QED
  BY <1>0, <1>2, <1>3, <1>4, <1>5, <1>6, <1>7, <1>8, StopRound, EndRoundInv DEF Next, ClientStep

-----------------------------------------------------------------------------
(* One exploration at a time, in the order of the rounds, and held by the  *)
(* process it was issued to. *)
THEOREM RoundInvariant == Spec => []RoundInv
  BY InitRound, StepRound, PTL DEF Spec

(* However many processes ask at a time, fail, are killed or lose their    *)
(* answers, and whatever results they report, one of them explores, and a  *)
(* batch size is explored again only while it has converged every time     *)
(* (next_batch_size).                                                      *)
THEOREM OneExplores == Spec => []ExplorationsFollowRounds
<1>1. RoundInv => ExplorationsFollowRounds
  <2> SUFFICES ASSUME RoundInv PROVE ExplorationsFollowRounds
    OBVIOUS
  <2> DEFINE exploring == {i \in DOMAIN trials : trials[i].type = "Exploration" /\ trials[i].status # "Failed"}
             of(bs) == {i \in exploring : trials[i].batch_size = bs}
             waiting == {i \in exploring : trials[i].status = "Dispatched"}
  <2>1. \A bs : of(bs) = Explorations(bs)
    BY DEF Explorations
  <2>2. waiting = {} \/ \E i : waiting = {i}
    <3>1. \A i, j \in waiting : i = j
      BY DEF RoundInv, WaitingInv, Waiting
    <3> HIDE DEF waiting
    <3> QED
      BY <3>1
  <2>3. Cardinality(waiting) <= 1
    <3> HIDE DEF waiting
    <3>1. CASE waiting = {}
      BY <3>1, FS_EmptySet
    <3>2. CASE \E i : waiting = {i}
      BY <3>2, FS_Singleton
    <3> QED
      BY <2>2, <3>1, <3>2
  <2>4. \A bs \in BatchSizes :
          Cardinality(of(bs)) <= NumPruningRounds /\ \A i, j \in of(bs) : i < j => trials[i].converged = "yes"
    BY <2>1 DEF RoundInv, OrderInv
  <2> QED
    BY <2>3, <2>4 DEF ExplorationsFollowRounds
<1> QED
  BY <1>1, RoundInvariant, PTL

(* When nobody was killed and no response lost, whoever is told to train   *)
(* beside an exploration does: a process still has that trial and will end *)
(* it (next_batch_size, end_trial).                                        *)
THEOREM NeverStuck == Spec => []ExplorationNeverStuck
<1>1. RoundInv => ExplorationNeverStuck
  <2> SUFFICES ASSUME RoundInv, lost = 0, NextBatchSize.kind = "concurrent"
               PROVE  \E c \in Clients : Dispatched(c) /\ trials[client[c].trial].type = "Exploration"
    BY DEF ExplorationNeverStuck
  <2>1. NumPruningRounds \in Nat /\ TrialInv /\ ResultInv
    BY JobAssumption DEF ValidJob, RoundInv, IInv
  <2>2. LeftAt(NumPruningRounds, NextBatchSize)
    BY <2>1, RoundsFind DEF NextBatchSize
  <2>3. PICK i \in DOMAIN trials : Waiting(i)
    BY <2>2 DEF LeftAt
  <2>4. PICK c \in Clients : client[c].trial = i /\ Dispatched(c)
    BY <2>3 DEF RoundInv, HeldInv, Waiting
  <2> QED
    BY <2>3, <2>4 DEF Waiting
<1> QED
  BY <1>1, RoundInvariant, PTL
-----------------------------------------------------------------------------
(* The generator: where it is in the rounds that the trials show.          *)

GeneratorForm(g) ==
  /\ g = [is |-> g.is, round |-> g.round, left |-> g.left, default |-> g.default, down |-> g.down,
          up |-> g.up, good |-> g.good, best_cost |-> g.best_cost, expecting |-> g.expecting]

(* Which of two comes first in a round: down before up. *)
Before(d, o, default) == IF d <= default THEN o <= default => o < d ELSE d < o

IsCheapest(d, set, default, round) ==
  /\ d \in set
  /\ \A o \in set \ {d} :
       \/ Result(d, round).cost < Result(o, round).cost
       \/ Result(d, round).cost = Result(o, round).cost /\ Before(d, o, default)

(* In a round that began with acc: what is to come has not been explored,  *)
(* what is good has converged, and the cheapest is the next default.       *)
InRound(g, acc) ==
  /\ GeneratorForm(g) /\ g.round \in 1..NumPruningRounds
  /\ acc.kind = "over" /\ acc.default \in acc.left
  /\ \A b \in BatchSizes : ~Explored(b, g.round + 1)
  /\ g.down \cup g.up \subseteq acc.left /\ \A b \in g.down \cup g.up : ~Explored(b, g.round)
  /\ g.good \subseteq acc.left /\ \A b \in g.good : ~Stops(b, g.round)
  /\ IF g.good = {} THEN g.default = acc.default
     ELSE /\ IsCheapest(g.default, g.good, acc.default, g.round)
          /\ g.best_cost = Result(g.default, g.round).cost

Lower(acc) == Down(acc.left, acc.default)
Upper(acc) == Up(acc.left, acc.default)
WalkDown(acc, round) == Walk(Lower(acc), acc.default, round)
WalkUp(acc, round) == Walk(Upper(acc), acc.default, round)

(* It asks for b on the way down, or on the way up. *)
AsksDown(g, acc, b) ==
  /\ b \in Lower(acc) /\ g.up = Upper(acc)
  /\ g.down = {x \in Lower(acc) : x < b} /\ g.good = {x \in Lower(acc) : x > b}

AsksUp(g, acc, b) ==
  /\ b \in Upper(acc) /\ g.down = {} /\ WalkDown(acc, g.round).kind = "over"
  /\ g.up = {x \in Upper(acc) : x > b}
  /\ g.good = WalkDown(acc, g.round).converged \cup {x \in Upper(acc) : x < b}

Asking(g) ==
  /\ g.is = "asked"
  /\ LET acc == AfterRound[g.round - 1]
     IN InRound(g, acc) /\ (AsksDown(g, acc, g.expecting) \/ AsksUp(g, acc, g.expecting))

(* It has ended, with what the rounds leave. *)
Ended(g) ==
  LET last == AfterRound[NumPruningRounds] IN
  \/ /\ g.is = "over" /\ last.kind \in {"none", "over"}
     /\ g.left = IF last.kind = "none" THEN {} ELSE last.left
  \/ g.is = "infeasible" /\ last.kind = "none"

Follows(g) ==
  \/ /\ Asking(g)
     /\ Explored(g.expecting, g.round) => Result(g.expecting, g.round).status = "Dispatched"
  \/ Ended(g)

Completed(i) == trials[i].type = "Exploration" /\ trials[i].status = "Succeeded"

(* A trial that waits for its result comes after those that have one. *)
HeardInv ==
  /\ \A i \in DOMAIN trials : trials[i].status \in {"Dispatched", "Succeeded", "Failed"}
  /\ \A i, j \in DOMAIN trials : Waiting(i) /\ Completed(j) => j < i

BanditInv == stage = "MAB" =>
  /\ Generator.is = "over" /\ DOMAIN arms = Generator.left /\ DOMAIN arms # {}
  /\ \A a \in DOMAIN arms : arms[a] \in Nat /\ arms[a] <= Cardinality(ResultsOf(a))

FollowsInv == stage = "Pruning" => Follows(Generator)

GeneratorInv == HeardInv /\ stage \in {"Pruning", "MAB"} /\ FollowsInv /\ BanditInv

-----------------------------------------------------------------------------
(* Where a walk stops, and what the cheapest is. *)

LEMMA Sizes ==
  BatchSizes \subseteq Nat /\ DefaultBatchSize \in BatchSizes /\ NumPruningRounds \in Nat \ {0}
  BY JobAssumption DEF ValidJob

(* A walk ends at the first batch size that stops it. *)
LEMMA WalkStops ==
  ASSUME NEW list \in SUBSET BatchSizes, NEW default \in BatchSizes, NEW round, NEW b \in list,
         \A x, y \in list : Distance(x, default) = Distance(y, default) => x = y,
         Stops(b, round), \A x \in list : Distance(x, default) < Distance(b, default) => ~Stops(x, round)
  PROVE  LET w == Walk(list, default, round) IN
         /\ w.converged = {x \in list : Distance(x, default) < Distance(b, default)}
         /\ ~Explored(b, round) => w.kind = "explore" /\ w.bs = b
         /\ Explored(b, round) /\ Result(b, round).status = "Dispatched" => w.kind = "concurrent"
         /\ Explored(b, round) /\ Result(b, round).status # "Dispatched" => w.kind = "over"
<1> DEFINE w == Walk(list, default, round)
           stops == {x \in list : Stops(x, round)}
           last == First(stops, default)
<1>1. \A x \in list : Distance(x, default) \in Nat
  BY Sizes DEF Distance
<1>2. b \in stops /\ \A x \in stops : Distance(b, default) <= Distance(x, default)
  BY <1>1
<1>3. last = b
  <2>1. \A x \in stops : (\A o \in stops : Distance(x, default) <= Distance(o, default)) => x = b
    BY <1>1, <1>2
  <2> HIDE DEF stops
  <2> QED
    BY <1>2, <2>1 DEF First
<1>4. /\ w.kind = IF stops = {} THEN "over" ELSE IF ~Explored(last, round) THEN "explore"
                  ELSE IF Result(last, round).status = "Dispatched" THEN "concurrent" ELSE "over"
      /\ w.converged = {x \in list : \A s \in stops : Distance(x, default) < Distance(s, default)}
      /\ w.bs = IF w.kind = "explore" THEN last ELSE 0
  BY DEF Walk
<1>5. \A x \in list : (\A s \in stops : Distance(x, default) < Distance(s, default))
                        <=> Distance(x, default) < Distance(b, default)
  BY <1>1, <1>2
<1>6. w.converged = {x \in list : Distance(x, default) < Distance(b, default)}
  BY <1>4, <1>5
<1>7. stops # {}
  BY <1>2
<1> HIDE DEF w, stops, last
<1> QED
  BY <1>3, <1>4, <1>6, <1>7 DEF w

(* With none, it goes over the whole list. *)
LEMMA WalkOver ==
  ASSUME NEW list, NEW default, NEW round, \A b \in list : ~Stops(b, round)
  PROVE  LET w == Walk(list, default, round) IN w.kind = "over" /\ w.converged = list
<1>1. PICK stops : stops = {b \in list : Stops(b, round)}
  OBVIOUS
<1>2. stops = {}
  BY <1>1
<1> QED
  BY <1>1, <1>2 DEF Walk

(* The lists of a round. *)
LEMMA Lists ==
  ASSUME NEW acc, Found(acc)
  PROVE  /\ Lower(acc) \in SUBSET BatchSizes /\ Upper(acc) \in SUBSET BatchSizes
         /\ Lower(acc) \cup Upper(acc) = acc.left /\ Lower(acc) \cap Upper(acc) = {}
         /\ acc.default \in BatchSizes
         /\ \A x, y \in Lower(acc) :
              /\ Distance(x, acc.default) < Distance(y, acc.default) <=> x > y
              /\ Distance(x, acc.default) = Distance(y, acc.default) <=> x = y
         /\ \A x, y \in Upper(acc) :
              /\ Distance(x, acc.default) < Distance(y, acc.default) <=> x < y
              /\ Distance(x, acc.default) = Distance(y, acc.default) <=> x = y
<1>1. /\ acc.left \subseteq Nat /\ acc.default \in Nat
      /\ acc.left \subseteq BatchSizes /\ acc.default \in BatchSizes
  BY Sizes DEF Found
<1>2. /\ \A x : x \in Lower(acc) <=> x \in acc.left /\ x <= acc.default
      /\ \A x : x \in Upper(acc) <=> x \in acc.left /\ x > acc.default
  BY DEF Lower, Upper, Down, Up
<1>3. \A x \in Nat : x <= acc.default <=> ~(x > acc.default)
  BY <1>1
<1>4. \A x \in Lower(acc) : Distance(x, acc.default) = acc.default - x
  BY <1>2 DEF Distance
<1>5. \A x \in Upper(acc) : Distance(x, acc.default) = x - acc.default
  BY <1>1, <1>2 DEF Distance
<1>6. Lower(acc) \cup Upper(acc) = acc.left /\ Lower(acc) \cap Upper(acc) = {}
  BY <1>1, <1>2, <1>3
<1>7. \A x, y \in Lower(acc) :
              /\ Distance(x, acc.default) < Distance(y, acc.default) <=> x > y
              /\ Distance(x, acc.default) = Distance(y, acc.default) <=> x = y
  BY <1>1, <1>2, <1>4
<1>8. \A x, y \in Upper(acc) :
              /\ Distance(x, acc.default) < Distance(y, acc.default) <=> x < y
              /\ Distance(x, acc.default) = Distance(y, acc.default) <=> x = y
  BY <1>1, <1>2, <1>5
<1> QED
  BY <1>1, <1>2, <1>6, <1>7, <1>8

(* The way down, and the way up. *)
LEMMA DownStops ==
  ASSUME NEW acc, Found(acc), NEW round, NEW b \in Lower(acc),
         Stops(b, round), \A x \in Lower(acc) : x > b => ~Stops(x, round)
  PROVE  /\ WalkDown(acc, round).converged = {x \in Lower(acc) : x > b}
         /\ ~Explored(b, round) => WalkDown(acc, round).kind = "explore" /\ WalkDown(acc, round).bs = b
         /\ Explored(b, round) /\ Result(b, round).status = "Dispatched" =>
              WalkDown(acc, round).kind = "concurrent"
         /\ Explored(b, round) /\ Result(b, round).status # "Dispatched" =>
              WalkDown(acc, round).kind = "over"
<1> DEFINE w == Walk(Lower(acc), acc.default, round)
<1>1. /\ Lower(acc) \in SUBSET BatchSizes /\ acc.default \in BatchSizes
      /\ \A x, y \in Lower(acc) :
              /\ Distance(x, acc.default) < Distance(y, acc.default) <=> x > y
              /\ Distance(x, acc.default) = Distance(y, acc.default) => x = y
  BY Lists
<1>5. /\ \A x, y \in Lower(acc) : Distance(x, acc.default) = Distance(y, acc.default) => x = y
      /\ \A x \in Lower(acc) : Distance(x, acc.default) < Distance(b, acc.default) => ~Stops(x, round)
  BY <1>1
<1>2. /\ w.converged = {x \in Lower(acc) : Distance(x, acc.default) < Distance(b, acc.default)}
      /\ ~Explored(b, round) => w.kind = "explore" /\ w.bs = b
      /\ Explored(b, round) /\ Result(b, round).status = "Dispatched" => w.kind = "concurrent"
      /\ Explored(b, round) /\ Result(b, round).status # "Dispatched" => w.kind = "over"
  BY <1>1, <1>5, WalkStops
<1>3. {x \in Lower(acc) : Distance(x, acc.default) < Distance(b, acc.default)} = {x \in Lower(acc) : x > b}
  BY <1>1
<1>4. w = WalkDown(acc, round)
  BY DEF WalkDown
<1> HIDE DEF w
<1> QED
  BY <1>2, <1>3, <1>4

LEMMA UpStops ==
  ASSUME NEW acc, Found(acc), NEW round, NEW b \in Upper(acc),
         Stops(b, round), \A x \in Upper(acc) : x < b => ~Stops(x, round)
  PROVE  /\ WalkUp(acc, round).converged = {x \in Upper(acc) : x < b}
         /\ ~Explored(b, round) => WalkUp(acc, round).kind = "explore" /\ WalkUp(acc, round).bs = b
         /\ Explored(b, round) /\ Result(b, round).status = "Dispatched" =>
              WalkUp(acc, round).kind = "concurrent"
         /\ Explored(b, round) /\ Result(b, round).status # "Dispatched" =>
              WalkUp(acc, round).kind = "over"
<1> DEFINE w == Walk(Upper(acc), acc.default, round)
<1>1. /\ Upper(acc) \in SUBSET BatchSizes /\ acc.default \in BatchSizes
      /\ \A x, y \in Upper(acc) :
              /\ Distance(x, acc.default) < Distance(y, acc.default) <=> x < y
              /\ Distance(x, acc.default) = Distance(y, acc.default) => x = y
  BY Lists
<1>5. /\ \A x, y \in Upper(acc) : Distance(x, acc.default) = Distance(y, acc.default) => x = y
      /\ \A x \in Upper(acc) : Distance(x, acc.default) < Distance(b, acc.default) => ~Stops(x, round)
  BY <1>1
<1>2. /\ w.converged = {x \in Upper(acc) : Distance(x, acc.default) < Distance(b, acc.default)}
      /\ ~Explored(b, round) => w.kind = "explore" /\ w.bs = b
      /\ Explored(b, round) /\ Result(b, round).status = "Dispatched" => w.kind = "concurrent"
      /\ Explored(b, round) /\ Result(b, round).status # "Dispatched" => w.kind = "over"
  BY <1>1, <1>5, WalkStops
<1>3. {x \in Upper(acc) : Distance(x, acc.default) < Distance(b, acc.default)} = {x \in Upper(acc) : x < b}
  BY <1>1
<1>4. w = WalkUp(acc, round)
  BY DEF WalkUp
<1> HIDE DEF w
<1> QED
  BY <1>2, <1>3, <1>4

(* The cheapest of the generator is that of the server. *)
LEMMA CheapestIs ==
  ASSUME NEW set \in SUBSET BatchSizes, NEW default \in BatchSizes, NEW round, NEW d,
         IsCheapest(d, set, default, round), \A b \in set : Result(b, round).cost \in Nat
  PROVE  Cheapest(set, default, round) = d
<1> DEFINE least == {b \in set : \A o \in set : Result(b, round).cost <= Result(o, round).cost}
           down == Down(least, default)
<1>1. default \in Nat /\ set \subseteq Nat /\ d \in set /\ d \in Nat
  BY Sizes DEF IsCheapest
<1>2. d \in least
  BY <1>1 DEF IsCheapest
<1>3. ASSUME NEW o \in least, o # d PROVE o \in Nat /\ Before(d, o, default)
  <2>1. Result(o, round).cost <= Result(d, round).cost
    BY <1>1
  <2>2. o \in set \ {d}
    BY <1>3
  <2> HIDE DEF least
  <2> QED
    BY <1>1, <2>1, <2>2 DEF IsCheapest
<1>4. Cheapest(set, default, round) = First(IF down # {} THEN down ELSE least, default)
  BY DEF Cheapest
<1> HIDE DEF least
<1>5. \A o \in least : o \in Nat
  BY <1>1, <1>3
<1>6. CASE d <= default
  <2>1. d \in down /\ \A o \in down : o <= default /\ o \in Nat
    BY <1>2, <1>5, <1>6 DEF Down
  <2>2. \A o \in down : o # d => o < d
    BY <1>3, <1>6, <2>1 DEF Before, Down
  <2> HIDE DEF down
  <2>3. \A o \in down : Distance(o, default) = default - o
    BY <2>1 DEF Distance
  <2>4. \A o \in down : Distance(d, default) <= Distance(o, default)
    BY <1>1, <2>1, <2>2, <2>3
  <2>5. \A o \in down : (\A x \in down : Distance(o, default) <= Distance(x, default)) => o = d
    BY <1>1, <2>1, <2>2, <2>3
  <2>6. First(down, default) = d
    BY <2>1, <2>4, <2>5 DEF First
  <2> QED
    BY <1>4, <2>1, <2>6
<1>7. CASE ~(d <= default)
  <2>1. \A o \in least : o # d => d < o
    BY <1>3, <1>7 DEF Before
  <2>2. \A o \in least : ~(o <= default) /\ Distance(o, default) = o - default
    BY <1>1, <1>5, <1>7, <2>1 DEF Distance
  <2>3. down = {}
    BY <2>2 DEF Down
  <2>4. \A o \in least : Distance(d, default) <= Distance(o, default)
    BY <1>1, <1>2, <1>5, <2>1, <2>2
  <2>5. \A o \in least : (\A x \in least : Distance(o, default) <= Distance(x, default)) => o = d
    BY <1>1, <1>2, <1>5, <2>1, <2>2
  <2>6. First(least, default) = d
    BY <1>2, <2>4, <2>5 DEF First
  <2> QED
    BY <1>4, <2>3, <2>6
<1> QED
  BY <1>6, <1>7

-----------------------------------------------------------------------------
(* A round that is not over is the last one the server works out. *)
LEMMA Absorbed ==
  ASSUME NEW k \in 0..NumPruningRounds, AfterRound[k].kind # "over"
  PROVE  NextBatchSize = AfterRound[k]
<1> DEFINE S == {n \in Nat : k + n <= NumPruningRounds => AfterRound[k + n] = AfterRound[k]}
<1>0. NumPruningRounds \in Nat /\ k \in Nat
  BY Sizes
<1>1. 0 \in S
  BY <1>0
<1>2. ASSUME NEW n \in Nat, n \in S PROVE n + 1 \in S
  <2> SUFFICES ASSUME k + (n + 1) <= NumPruningRounds PROVE AfterRound[k + (n + 1)] = AfterRound[k]
    OBVIOUS
  <2>1. /\ k + n <= NumPruningRounds /\ k + (n + 1) \in 1..NumPruningRounds
        /\ (k + (n + 1)) - 1 = k + n
    BY <1>0
  <2>2. AfterRound[k + n] = AfterRound[k]
    BY <1>2, <2>1
  <2>3. PICK acc : acc = AfterRound[k]
    OBVIOUS
  <2>4. AfterRound[k + (n + 1)] = PruningRound(acc, k + (n + 1))
    BY <2>1, <2>2, <2>3, RoundsHaveForm DEF RoundsForm
  <2>5. acc.kind # "over"
    BY <2>3
  <2>6. PruningRound(acc, k + (n + 1)) = acc
    BY <2>5 DEF PruningRound
  <2> QED
    BY <2>3, <2>4, <2>6
<1>3. Nat \subseteq S
  <2> HIDE DEF S
  <2> QED
    BY <1>1, <1>2, Induct
<1>4. NumPruningRounds - k \in Nat /\ k + (NumPruningRounds - k) = NumPruningRounds
  BY <1>0
<1> QED
  BY <1>3, <1>4 DEF NextBatchSize

(* A batch size that has no result stops a walk. *)
LEMMA Unfinished ==
  ASSUME TrialInv, ResultInv, NEW b, NEW round \in Nat \ {0},
         Explored(b, round) => Result(b, round).status = "Dispatched"
  PROVE  Stops(b, round)
<1>1. CASE Explored(b, round)
  <2>1. PICK i \in Explorations(b) : Result(b, round) = trials[i]
    BY <1>1, InPlace
  <2>2. i \in DOMAIN trials /\ trials[i].status = "Dispatched"
    BY <1>1, <2>1 DEF Explorations
  <2> QED
    BY <2>1, <2>2 DEF Stops, ResultInv
<1>2. CASE ~Explored(b, round)
  BY <1>2 DEF Stops
<1> QED
  BY <1>1, <1>2

(* What has converged has a cost. *)
LEMMA Costs ==
  ASSUME TrialInv, ResultInv, NEW b, NEW round \in Nat \ {0}, ~Stops(b, round)
  PROVE  Result(b, round).cost \in Nat
<1>1. Explored(b, round) /\ Result(b, round).converged = "yes"
  BY DEF Stops
<1>2. PICK i \in Explorations(b) : Result(b, round) = trials[i]
  BY <1>1, InPlace
<1>3. i \in DOMAIN trials
  BY <1>2 DEF Explorations
<1> QED
  BY <1>1, <1>2, <1>3 DEF ResultInv, TrialInv

LEMMA ExploredBefore ==
  ASSUME TrialInv, NEW b, NEW round \in Nat, ~Explored(b, round)
  PROVE  ~Explored(b, round + 1)
<1>1. Cardinality(Explorations(b)) \in Nat
  BY InPlace
<1> QED
  BY <1>1 DEF Explored

(* The server asks for what the generator asks for. *)
LEMMA AskingAgrees ==
  ASSUME TrialInv, ResultInv, NEW g, Asking(g),
         Explored(g.expecting, g.round) => Result(g.expecting, g.round).status = "Dispatched"
  PROVE  IF Explored(g.expecting, g.round) THEN NextBatchSize.kind = "concurrent"
         ELSE NextBatchSize.kind = "explore" /\ NextBatchSize.bs = g.expecting
<1>1. PICK r, b : r = g.round /\ b = g.expecting
  OBVIOUS
<1>2. PICK acc : acc = AfterRound[r - 1]
  OBVIOUS
<1>3. InRound(g, acc) /\ (AsksDown(g, acc, b) \/ AsksUp(g, acc, b))
  BY <1>1, <1>2 DEF Asking
<1>4. /\ r \in 1..NumPruningRounds /\ r - 1 \in 0..NumPruningRounds
      /\ r \in 0..NumPruningRounds /\ r \in Nat \ {0}
  BY <1>1, <1>3, Sizes DEF InRound
<1>5. Found(acc) /\ acc.kind = "over"
  BY <1>2, <1>3, <1>4, RoundsFind DEF LeftAt, InRound
<1>6. Stops(b, r)
  BY <1>1, <1>4, Unfinished
<1>7. \A x \in g.good : ~Stops(x, r)
  BY <1>1, <1>3 DEF InRound
<1>8. PICK down, up, converged : /\ down = WalkDown(acc, r) /\ up = WalkUp(acc, r)
                                 /\ converged = down.converged \cup up.converged
  OBVIOUS
<1>9. AfterRound[r] = PruningRound(acc, r)
  BY <1>2, <1>4, RoundsHaveForm DEF RoundsForm
<1>10. AfterRound[r] =
           IF down.kind # "over" THEN [acc EXCEPT !.kind = down.kind, !.bs = down.bs]
           ELSE IF up.kind # "over" THEN [acc EXCEPT !.kind = up.kind, !.bs = up.bs]
           ELSE IF converged = {} THEN [acc EXCEPT !.kind = "none"]
           ELSE [acc EXCEPT !.left = converged, !.default = Cheapest(converged, acc.default, r)]
  BY <1>5, <1>8, <1>9 DEF PruningRound, WalkDown, WalkUp, Lower, Upper
<1>11. DOMAIN acc = {"kind", "bs", "left", "default"}
  BY <1>5 DEF Found
<1>12. \/ down.kind # "over" /\ down.kind = (IF Explored(b, r) THEN "concurrent" ELSE "explore")
             /\ (~Explored(b, r) => down.bs = b)
       \/ down.kind = "over" /\ up.kind = (IF Explored(b, r) THEN "concurrent" ELSE "explore")
             /\ (~Explored(b, r) => up.bs = b)
  <2>1. CASE AsksDown(g, acc, b)
    <3>1. b \in Lower(acc) /\ \A x \in Lower(acc) : x > b => ~Stops(x, r)
      BY <1>7, <2>1 DEF AsksDown
    <3>2. /\ ~Explored(b, r) => down.kind = "explore" /\ down.bs = b
          /\ Explored(b, r) /\ Result(b, r).status = "Dispatched" => down.kind = "concurrent"
      BY <1>5, <1>6, <1>8, <3>1, DownStops
    <3> QED
      BY <1>1, <3>2
  <2>2. CASE AsksUp(g, acc, b)
    <3>1. b \in Upper(acc) /\ (\A x \in Upper(acc) : x < b => ~Stops(x, r)) /\ down.kind = "over"
      BY <1>1, <1>7, <1>8, <2>2 DEF AsksUp
    <3>2. /\ ~Explored(b, r) => up.kind = "explore" /\ up.bs = b
          /\ Explored(b, r) /\ Result(b, r).status = "Dispatched" => up.kind = "concurrent"
      BY <1>5, <1>6, <1>8, <3>1, UpStops
    <3> QED
      BY <1>1, <3>1, <3>2
  <2> QED
    BY <1>3, <2>1, <2>2
<1>13. /\ AfterRound[r].kind = (IF Explored(b, r) THEN "concurrent" ELSE "explore")
       /\ ~Explored(b, r) => AfterRound[r].bs = b
  BY <1>10, <1>11, <1>12
<1>14. NextBatchSize = AfterRound[r]
  BY <1>4, <1>13, Absorbed
<1> QED
  BY <1>1, <1>13, <1>14

-----------------------------------------------------------------------------
ToldDown(p, acc) ==
  /\ p.down # {} /\ p.down \subseteq Lower(acc) /\ p.up = Upper(acc)
  /\ p.good = Lower(acc) \ p.down /\ \A x \in p.down, y \in Lower(acc) \ p.down : x < y

ToldUp(p, acc) ==
  /\ p.down = {} /\ p.up # {} /\ p.up \subseteq Upper(acc) /\ WalkDown(acc, p.round).kind = "over"
  /\ p.good = WalkDown(acc, p.round).converged \cup (Upper(acc) \ p.up)
  /\ \A x \in p.up, y \in Upper(acc) \ p.up : y < x

ToldAll(p, acc) ==
  /\ p.down = {} /\ p.up = {}
  /\ WalkDown(acc, p.round).kind = "over" /\ WalkUp(acc, p.round).kind = "over"
  /\ p.good = WalkDown(acc, p.round).converged \cup WalkUp(acc, p.round).converged

(* The operations of the generator, on a record of its form. *)
LEMMA SentForm ==
  ASSUME NEW g, GeneratorForm(g), g.is = "asked", NEW cost
  PROVE  /\ Pruning!SendResult(g, g.expecting, cost, FALSE) =
              [is |-> "told", round |-> g.round, left |-> g.left, default |-> g.default, down |-> {},
               up |-> IF g.expecting <= g.default THEN g.up ELSE {}, good |-> g.good,
               best_cost |-> g.best_cost, expecting |-> 0]
         /\ Pruning!SendResult(g, g.expecting, cost, TRUE) =
              [is |-> "told", round |-> g.round, left |-> g.left,
               default |-> IF g.good = {} \/ cost < g.best_cost THEN g.expecting ELSE g.default,
               down |-> g.down, up |-> g.up, good |-> g.good \cup {g.expecting},
               best_cost |-> IF g.good = {} \/ cost < g.best_cost THEN cost ELSE g.best_cost, expecting |-> 0]
<1>1. g = [is |-> g.is, round |-> g.round, left |-> g.left, default |-> g.default, down |-> g.down,
           up |-> g.up, good |-> g.good, best_cost |-> g.best_cost, expecting |-> g.expecting]
  BY DEF GeneratorForm
<1>2. /\ Pruning!SendResult(g, g.expecting, cost, FALSE) =
           [g EXCEPT !.is = "told", !.expecting = 0, !.down = {},
                     !.up = IF g.expecting <= g.default THEN g.up ELSE {}]
      /\ Pruning!SendResult(g, g.expecting, cost, TRUE) =
           [g EXCEPT !.is = "told", !.expecting = 0, !.good = g.good \cup {g.expecting},
                     !.default = IF g.good = {} \/ cost < g.best_cost THEN g.expecting ELSE g.default,
                     !.best_cost = IF g.good = {} \/ cost < g.best_cost THEN cost ELSE g.best_cost]
  BY DEF Pruning!SendResult, Pruning!Cheaper
<1>3. PICK n, m, up, default, best :
        /\ n = Pruning!SendResult(g, g.expecting, cost, FALSE)
        /\ m = Pruning!SendResult(g, g.expecting, cost, TRUE)
        /\ up = IF g.expecting <= g.default THEN g.up ELSE {}
        /\ default = IF g.good = {} \/ cost < g.best_cost THEN g.expecting ELSE g.default
        /\ best = IF g.good = {} \/ cost < g.best_cost THEN cost ELSE g.best_cost
  OBVIOUS
<1>4. PICK good, down : good = g.good \cup {g.expecting} /\ down = {}
  OBVIOUS
<1>5. /\ n = [g EXCEPT !.is = "told", !.expecting = 0, !.down = down, !.up = up]
      /\ m = [g EXCEPT !.is = "told", !.expecting = 0, !.good = good, !.default = default,
                        !.best_cost = best]
  BY ONLY <1>2, <1>3, <1>4
<1>6. n = [is |-> "told", round |-> g.round, left |-> g.left, default |-> g.default, down |-> down,
           up |-> up, good |-> g.good, best_cost |-> g.best_cost, expecting |-> 0]
  BY ONLY <1>1, <1>5
<1>7. m = [is |-> "told", round |-> g.round, left |-> g.left, default |-> default, down |-> g.down,
           up |-> g.up, good |-> good, best_cost |-> best, expecting |-> 0]
  BY ONLY <1>1, <1>5
<1> QED
  BY ONLY <1>3, <1>4, <1>6, <1>7

(* It asks for one. *)
Ask(p, b) == [p EXCEPT !.is = "asked", !.expecting = b, !.down = @ \ {b}, !.up = @ \ {b}]
ToAsk(p) == IF p.down # {} THEN Pruning!Max(p.down) ELSE Pruning!Min(p.up)

LEMMA AskForm ==
  ASSUME NEW p, GeneratorForm(p), NEW b
  PROVE  Ask(p, b) = [is |-> "asked", round |-> p.round, left |-> p.left, default |-> p.default,
                      down |-> p.down \ {b}, up |-> p.up \ {b}, good |-> p.good,
                      best_cost |-> p.best_cost, expecting |-> b]
<1>1. PICK n, down, up : n = Ask(p, b) /\ down = p.down \ {b} /\ up = p.up \ {b}
  OBVIOUS
<1>2. n = [p EXCEPT !.is = "asked", !.expecting = b, !.down = down, !.up = up]
  BY <1>1 DEF Ask
<1>3. n = [is |-> "asked", round |-> p.round, left |-> p.left, default |-> p.default, down |-> down,
           up |-> up, good |-> p.good, best_cost |-> p.best_cost, expecting |-> b]
  BY <1>2 DEF GeneratorForm
<1> QED
  BY <1>1, <1>3

LEMMA NextForm ==
  ASSUME NEW g, g.is # "asked", NEW p, p = Pruning!Proceed(g)
  PROVE  /\ p.is \in {"over", "infeasible"} => Pruning!NextBatch(g) = p
         /\ p.is \notin {"over", "infeasible"} => Pruning!NextBatch(g) = Ask(p, ToAsk(p))
  BY DEF Pruning!NextBatch, Ask, ToAsk

LEMMA Extremes ==
  ASSUME NEW S \in SUBSET BatchSizes, S # {}
  PROVE  /\ Pruning!Min(S) \in S /\ \A x \in S : Pruning!Min(S) <= x
         /\ \A top \in Nat : (\A x \in S : x <= top) =>
              Pruning!Max(S) \in S /\ \A x \in S : x <= Pruning!Max(S)
<1>1. S \in SUBSET Nat
  BY Sizes
<1>2. \E n \in S : \A m \in S : n <= m
  BY <1>1, LeastOf
<1>3. Pruning!Min(S) \in S /\ \A x \in S : Pruning!Min(S) <= x
  BY <1>2 DEF Pruning!Min
<1>4. ASSUME NEW top \in Nat, \A x \in S : x <= top
      PROVE  Pruning!Max(S) \in S /\ \A x \in S : x <= Pruning!Max(S)
  <2> DEFINE f == [x \in S |-> top - x]
  <2>1. \A x \in S : f[x] \in Nat
    BY <1>1, <1>4
  <2>2. \E x \in S : \A y \in S : f[x] <= f[y]
    <3> HIDE DEF f
    <3> QED
      BY <2>1, LeastBy
  <2>3. \E x \in S : \A y \in S : x >= y
    BY <1>1, <1>4, <2>2
  <2>4. Pruning!Max(S) \in S /\ \A x \in S : Pruning!Max(S) >= x
    BY <2>3 DEF Pruning!Max
  <2> QED
    BY <1>1, <2>4
<1> QED
  BY <1>3, <1>4

(* Told of the result it waits for. *)
LEMMA Sent ==
  ASSUME TrialInv, ResultInv, NEW g, Asking(g),
         Explored(g.expecting, g.round), Result(g.expecting, g.round).status = "Succeeded"
  PROVE  LET t == Result(g.expecting, g.round)
             p == Pruning!SendResult(g, g.expecting, t.cost, t.converged = "yes")
             acc == AfterRound[p.round - 1]
         IN p.is = "told" /\ InRound(p, acc) /\ (ToldDown(p, acc) \/ ToldUp(p, acc) \/ ToldAll(p, acc))
<1>1. PICK r, b : r = g.round /\ b = g.expecting
  OBVIOUS
<1>2. PICK acc, cost, converged, p :
        /\ acc = AfterRound[r - 1] /\ cost = Result(b, r).cost /\ converged = (Result(b, r).converged = "yes")
        /\ p = Pruning!SendResult(g, b, cost, converged)
  OBVIOUS
<1>3. InRound(g, acc) /\ (AsksDown(g, acc, b) \/ AsksUp(g, acc, b)) /\ g.is = "asked"
  BY <1>1, <1>2 DEF Asking
<1>4. r \in 1..NumPruningRounds /\ r - 1 \in 0..NumPruningRounds /\ r \in Nat \ {0}
  BY <1>1, <1>3, Sizes DEF InRound
<1>5. Found(acc) /\ acc.kind = "over"
  BY <1>2, <1>3, <1>4, RoundsFind DEF LeftAt, InRound
<1>6. /\ Lower(acc) \subseteq Nat /\ Upper(acc) \subseteq Nat /\ acc.default \in Nat
      /\ Lower(acc) \cup Upper(acc) = acc.left /\ Lower(acc) \cap Upper(acc) = {}
      /\ \A x \in Lower(acc) : x <= acc.default
      /\ \A x \in Upper(acc) : x > acc.default
      /\ acc.left \subseteq BatchSizes
  <2>1. /\ Lower(acc) \cup Upper(acc) = acc.left /\ Lower(acc) \cap Upper(acc) = {}
    BY <1>5, Lists
  <2> QED
    BY <1>5, <2>1, Sizes DEF Found, Lower, Upper, Down, Up
<1>7. /\ \A x \in BatchSizes : ~Explored(x, r + 1)
      /\ \A x \in g.down \cup g.up : ~Explored(x, r)
      /\ g.good \subseteq acc.left /\ \A x \in g.good : ~Stops(x, r)
      /\ g.down \cup g.up \subseteq acc.left
      /\ GeneratorForm(g) /\ acc.default \in acc.left
      /\ IF g.good = {} THEN g.default = acc.default
         ELSE IsCheapest(g.default, g.good, acc.default, r) /\ g.best_cost = Result(g.default, r).cost
  BY <1>1, <1>3 DEF InRound
<1>8. PICK down, up : down = WalkDown(acc, r) /\ up = WalkUp(acc, r)
  OBVIOUS
<1>9. Explored(b, r) /\ Result(b, r).status = "Succeeded"
  BY <1>1
<1>10. down.converged \subseteq Lower(acc) /\ down.converged \subseteq acc.left
  <2>1. Lower(acc) \in SUBSET BatchSizes /\ acc.default \in BatchSizes
    BY <1>5, Lists
  <2>2. down = Walk(Lower(acc), acc.default, r)
    BY <1>8 DEF WalkDown
  <2>3. down.converged \subseteq {x \in Lower(acc) : ~Stops(x, r)}
    BY <1>4, <2>1, <2>2, WalkFinds
  <2> QED
    BY <1>6, <2>3
<1>11. AsksDown(g, acc, b) => b \in Lower(acc) /\ b <= g.default
  <2> SUFFICES ASSUME AsksDown(g, acc, b) PROVE b \in Lower(acc) /\ b <= g.default
    OBVIOUS
  <2>1. b \in Lower(acc) /\ b <= acc.default /\ b \in Nat
    BY <1>6 DEF AsksDown
  <2>2. \A x \in g.good : x > b /\ x \in Nat
    BY <1>6 DEF AsksDown
  <2>3. g.good # {} => g.default \in g.good
    BY <1>7 DEF IsCheapest
  <2> QED
    BY <1>7, <2>1, <2>2, <2>3
<1>12. AsksUp(g, acc, b) => b \in Upper(acc) /\ ~(b <= g.default) /\ \A x \in g.good : x \in Nat /\ x < b
  <2> SUFFICES ASSUME AsksUp(g, acc, b)
               PROVE  b \in Upper(acc) /\ ~(b <= g.default) /\ \A x \in g.good : x \in Nat /\ x < b
    OBVIOUS
  <2>1. b \in Upper(acc) /\ b > acc.default /\ b \in Nat
    BY <1>6 DEF AsksUp
  <2>2. \A x \in g.good : x \in down.converged \/ (x < b /\ x \in Nat)
    BY <1>1, <1>6, <1>8, Zenon DEF AsksUp
  <2>3. \A x \in down.converged : x \in Nat /\ x <= acc.default
    BY <1>6, <1>10
  <2>4. \A x \in g.good : x \in Nat /\ x < b
    BY <1>6, <2>1, <2>2, <2>3
  <2>5. g.good # {} => g.default \in g.good
    BY <1>7 DEF IsCheapest
  <2> QED
    BY <1>6, <1>7, <2>1, <2>4, <2>5
<1> SUFFICES /\ p.is = "told" /\ p.round = r
             /\ InRound(p, acc) /\ (ToldDown(p, acc) \/ ToldUp(p, acc) \/ ToldAll(p, acc))
  BY <1>1, <1>2
<1>13. CASE ~converged
  <2>1. p = [is |-> "told", round |-> r, left |-> g.left, default |-> g.default, down |-> {},
               up |-> IF b <= g.default THEN g.up ELSE {}, good |-> g.good,
               best_cost |-> g.best_cost, expecting |-> 0]
    BY <1>1, <1>2, <1>3, <1>7, <1>13, SentForm
  <2>2. Stops(b, r)
    BY <1>2, <1>13 DEF Stops
  <2>3. p.is = "told" /\ p.round = r /\ InRound(p, acc)
    <3>1. p.down \cup p.up \subseteq g.down \cup g.up
      BY <2>1
    <3>2. /\ GeneratorForm(p) /\ p.is = "told" /\ p.round = r
          /\ p.good = g.good /\ p.default = g.default /\ p.best_cost = g.best_cost
      BY <2>1 DEF GeneratorForm
    <3> HIDE <2>1
    <3> QED
      BY <1>4, <1>5, <1>7, <3>1, <3>2 DEF InRound
  <2>4. CASE AsksDown(g, acc, b)
    <3>1. p.up = Upper(acc) /\ p.down = {} /\ p.good = {x \in Lower(acc) : x > b} /\ p.round = r
      BY <1>11, <2>1, <2>4 DEF AsksDown
    <3>2. \A x \in Lower(acc) : x > b => ~Stops(x, r)
      BY <1>7, <2>4 DEF AsksDown
    <3>3. down.kind = "over" /\ down.converged = {x \in Lower(acc) : x > b}
      BY <1>5, <1>8, <1>9, <1>11, <2>2, <2>4, <3>2, DownStops
    <3>4. CASE Upper(acc) = {}
      <4>1. \A x \in Upper(acc) : ~Stops(x, r)
        BY <3>4
      <4>2. up.kind = "over" /\ up.converged = {}
        BY <1>8, <3>4, <4>1, WalkOver DEF WalkUp
      <4>3. ToldAll(p, acc)
        BY <1>8, <3>1, <3>3, <3>4, <4>2 DEF ToldAll
      <4> QED
        BY <2>3, <4>3
    <3>5. CASE Upper(acc) # {}
      <4>1. ToldUp(p, acc)
        BY <1>8, <3>1, <3>3, <3>5 DEF ToldUp
      <4> QED
        BY <2>3, <4>1
    <3> QED
      BY <3>4, <3>5
  <2>5. CASE AsksUp(g, acc, b)
    <3>1. p.up = {} /\ p.down = {} /\ p.good = down.converged \cup {x \in Upper(acc) : x < b} /\ p.round = r
      BY <1>1, <1>8, <1>12, <2>1, <2>5 DEF AsksUp
    <3>2. \A x \in Upper(acc) : x < b => ~Stops(x, r)
      BY <1>7, <2>5 DEF AsksUp
    <3>3. up.kind = "over" /\ up.converged = {x \in Upper(acc) : x < b}
      BY <1>5, <1>8, <1>9, <1>12, <2>2, <2>5, <3>2, UpStops
    <3>4. down.kind = "over"
      BY <1>1, <1>8, <2>5 DEF AsksUp
    <3>5. ToldAll(p, acc)
      BY <1>8, <3>1, <3>3, <3>4 DEF ToldAll
    <3> QED
      BY <2>3, <3>5
  <2> QED
    BY <1>3, <2>4, <2>5
<1>14. CASE converged
  <2> DEFINE cheaper == g.good = {} \/ cost < g.best_cost
  <2>1. p = [is |-> "told", round |-> r, left |-> g.left, default |-> IF cheaper THEN b ELSE g.default,
             down |-> g.down, up |-> g.up, good |-> g.good \cup {b},
             best_cost |-> IF cheaper THEN cost ELSE g.best_cost, expecting |-> 0]
    BY <1>1, <1>2, <1>3, <1>7, <1>14, SentForm
  <2>2. ~Stops(b, r) /\ b \in acc.left /\ b \notin g.good /\ b \in Nat
    <3>1. ~Stops(b, r)
      BY <1>2, <1>9, <1>14 DEF Stops
    <3>2. b \in acc.left /\ b \in Nat
      BY <1>3, <1>6, <1>11, <1>12
    <3>3. b \notin g.good
      <4>1. CASE AsksDown(g, acc, b)
        BY <3>2, <4>1 DEF AsksDown
      <4>2. CASE AsksUp(g, acc, b)
        BY <1>12, <3>2, <4>2
      <4> QED
        BY <1>3, <4>1, <4>2
    <3> QED
      BY <3>1, <3>2, <3>3
  <2>3. \A x \in g.good : Before(x, b, acc.default) /\ x \in Nat
    <3>1. CASE AsksDown(g, acc, b)
      BY <1>6, <1>11, <3>1 DEF AsksDown, Before
    <3>2. CASE AsksUp(g, acc, b)
      BY <1>6, <1>12, <3>2 DEF Before
    <3> QED
      BY <1>3, <3>1, <3>2
  <2>4. IsCheapest(p.default, p.good, acc.default, r) /\ p.best_cost = Result(p.default, r).cost
    <3>1. cost = Result(b, r).cost /\ \A x \in g.good \cup {b} : Result(x, r).cost \in Nat
      BY <1>2, <1>4, <1>7, <2>2, Costs
    <3>2. p.default = (IF cheaper THEN b ELSE g.default) /\ p.good = g.good \cup {b}
          /\ p.best_cost = (IF cheaper THEN cost ELSE g.best_cost)
      BY <2>1
    <3>3. CASE g.good = {}
      BY <3>1, <3>2, <3>3 DEF IsCheapest
    <3>4. CASE g.good # {}
      <4>1. g.default \in g.good /\ g.best_cost = Result(g.default, r).cost /\ g.default # b
        BY <1>7, <2>2, <3>4 DEF IsCheapest
      <4>2. \A o \in g.good : Result(g.default, r).cost <= Result(o, r).cost
        BY <1>7, <3>1, <3>4, <4>1 DEF IsCheapest
      <4>3. CASE cost < g.best_cost
        BY <2>2, <3>1, <3>2, <4>1, <4>2, <4>3 DEF IsCheapest
      <4>4. CASE ~(cost < g.best_cost)
        <5>1. p.default = g.default /\ p.best_cost = g.best_cost
          BY <3>2, <3>4, <4>4
        <5>2. \A o \in p.good \ {g.default} : o = b \/ o \in g.good \ {g.default}
          BY <3>2
        <5>3. \/ Result(g.default, r).cost < Result(b, r).cost
              \/ Result(g.default, r).cost = Result(b, r).cost /\ Before(g.default, b, acc.default)
          BY <2>3, <3>1, <4>1, <4>4
        <5> QED
          BY <1>7, <3>2, <3>4, <4>1, <5>1, <5>2, <5>3 DEF IsCheapest
      <4> QED
        BY <4>3, <4>4
    <3> QED
      BY <3>3, <3>4
  <2>5. p.is = "told" /\ p.round = r /\ InRound(p, acc)
    <3>1. /\ GeneratorForm(p) /\ p.is = "told" /\ p.round = r
          /\ p.good = g.good \cup {b} /\ p.down = g.down /\ p.up = g.up
      BY <2>1 DEF GeneratorForm
    <3> HIDE <2>1
    <3> QED
      BY <1>4, <1>5, <1>7, <2>2, <2>4, <3>1 DEF InRound
  <2>6. CASE AsksDown(g, acc, b)
    <3>1. /\ p.up = Upper(acc) /\ p.down = {x \in Lower(acc) : x < b} /\ p.round = r
          /\ p.good = {x \in Lower(acc) : x > b} \cup {b} /\ b \in Lower(acc)
      BY <2>1, <2>6 DEF AsksDown
    <3>2. Lower(acc) \ p.down = p.good /\ \A x \in p.down, y \in Lower(acc) \ p.down : x < y
      BY <1>6, <2>2, <3>1
    <3>3. CASE p.down # {}
      <4>1. ToldDown(p, acc)
        BY <3>1, <3>2, <3>3 DEF ToldDown
      <4> QED
        BY <2>5, <4>1
    <3>4. CASE p.down = {}
      <4>1. p.good = Lower(acc)
        BY <3>2, <3>4
      <4>2. \A x \in Lower(acc) : ~Stops(x, r)
        BY <1>7, <2>2, <4>1, <2>1
      <4>3. down.kind = "over" /\ down.converged = Lower(acc)
        BY <1>8, <4>2, WalkOver DEF WalkDown
      <4>4. CASE Upper(acc) = {}
        <5>1. \A x \in Upper(acc) : ~Stops(x, r)
          BY <4>4
        <5>2. up.kind = "over" /\ up.converged = {}
          BY <1>8, <4>4, <5>1, WalkOver DEF WalkUp
        <5>3. ToldAll(p, acc)
          BY <1>8, <3>1, <3>4, <4>1, <4>3, <4>4, <5>2 DEF ToldAll
        <5> QED
          BY <2>5, <5>3
      <4>5. CASE Upper(acc) # {}
        <5>1. ToldUp(p, acc)
          BY <1>8, <3>1, <3>4, <4>1, <4>3, <4>5 DEF ToldUp
        <5> QED
          BY <2>5, <5>1
      <4> QED
        BY <4>4, <4>5
    <3> QED
      BY <3>3, <3>4
  <2>7. CASE AsksUp(g, acc, b)
    <3>1. /\ p.down = {} /\ p.up = {x \in Upper(acc) : x > b} /\ p.round = r /\ b \in Upper(acc)
          /\ p.good = down.converged \cup {x \in Upper(acc) : x < b} \cup {b} /\ down.kind = "over"
      BY <1>1, <1>8, <2>1, <2>7 DEF AsksUp
    <3>2. /\ Upper(acc) \ p.up = {x \in Upper(acc) : x < b} \cup {b}
          /\ \A x \in p.up, y \in Upper(acc) \ p.up : y < x
      BY <1>6, <2>2, <3>1
    <3>3. CASE p.up # {}
      <4>1. ToldUp(p, acc)
        BY <1>8, <3>1, <3>2, <3>3 DEF ToldUp
      <4> QED
        BY <2>5, <4>1
    <3>4. CASE p.up = {}
      <4>1. p.good = down.converged \cup Upper(acc)
        BY <3>1, <3>2, <3>4
      <4>2. \A x \in Upper(acc) : ~Stops(x, r)
        BY <1>7, <2>2, <4>1, <2>1
      <4>3. up.kind = "over" /\ up.converged = Upper(acc)
        BY <1>8, <4>2, WalkOver DEF WalkUp
      <4>4. ToldAll(p, acc)
        BY <1>8, <3>1, <3>4, <4>1, <4>3 DEF ToldAll
      <4> QED
        BY <2>5, <4>4
    <3> QED
      BY <3>3, <3>4
  <2> QED
    BY <1>3, <2>6, <2>7
<1> QED
  BY <1>13, <1>14

-----------------------------------------------------------------------------
(* The next one a round asks for. *)
LEMMA Picked ==
  ASSUME TrialInv, NEW p, NEW acc, Found(acc), InRound(p, acc), ToldDown(p, acc) \/ ToldUp(p, acc)
  PROVE  LET n == Ask(p, ToAsk(p)) IN
         /\ n.is = "asked" /\ n.round = p.round /\ InRound(n, acc)
         /\ AsksDown(n, acc, n.expecting) \/ AsksUp(n, acc, n.expecting)
         /\ ~Explored(n.expecting, n.round)
<1>0. PICK n, bs : bs = ToAsk(p) /\ n = Ask(p, bs)
  OBVIOUS
<1>1. n = [is |-> "asked", round |-> p.round, left |-> p.left, default |-> p.default, down |-> p.down \ {bs},
           up |-> p.up \ {bs}, good |-> p.good, best_cost |-> p.best_cost, expecting |-> bs]
  BY <1>0, AskForm DEF InRound
<1>2. /\ Lower(acc) \in SUBSET BatchSizes /\ Upper(acc) \in SUBSET BatchSizes
      /\ Lower(acc) \cap Upper(acc) = {} /\ acc.default \in Nat
      /\ Lower(acc) \subseteq Nat /\ Upper(acc) \subseteq Nat
      /\ \A x \in Lower(acc) : x <= acc.default
  <2>1. /\ Lower(acc) \in SUBSET BatchSizes /\ Upper(acc) \in SUBSET BatchSizes
        /\ Lower(acc) \cap Upper(acc) = {} /\ acc.default \in BatchSizes
    BY Lists
  <2> QED
    BY <2>1, Sizes DEF Lower, Down
<1>3. bs \in p.down \cup p.up /\ (ToldDown(p, acc) => bs \in p.down /\ \A x \in p.down : x <= bs)
      /\ (ToldUp(p, acc) => bs \in p.up /\ \A x \in p.up : bs <= x)
  <2>1. CASE ToldDown(p, acc)
    <3>1. p.down \in SUBSET BatchSizes /\ p.down # {} /\ \A x \in p.down : x <= acc.default
      BY <1>2, <2>1 DEF ToldDown
    <3>2. bs \in p.down /\ \A x \in p.down : x <= bs
      BY <1>0, <1>2, <3>1, Extremes DEF ToAsk
    <3> QED
      BY <2>1, <3>1, <3>2 DEF ToldUp
  <2>2. CASE ToldUp(p, acc)
    <3>1. p.up \in SUBSET BatchSizes /\ p.up # {} /\ p.down = {}
      BY <1>2, <2>2 DEF ToldUp
    <3>2. bs \in p.up /\ \A x \in p.up : bs <= x
      BY <1>0, <3>1, Extremes DEF ToAsk
    <3> QED
      BY <2>2, <3>1, <3>2 DEF ToldDown
  <2> QED
    BY <2>1, <2>2
<1>4. ~Explored(bs, p.round)
  BY <1>3 DEF InRound
<1>5. InRound(n, acc)
  <2>1. /\ GeneratorForm(n) /\ n.round = p.round
        /\ n.good = p.good /\ n.default = p.default /\ n.best_cost = p.best_cost
        /\ n.down = p.down \ {bs} /\ n.up = p.up \ {bs}
    BY ONLY <1>1 DEF GeneratorForm
  <2>2. n.down \cup n.up \subseteq p.down \cup p.up
    BY <2>1
  <2> HIDE <1>1
  <2> QED
    BY <2>1, <2>2 DEF InRound
<1>6. /\ n.is = "asked" /\ n.round = p.round /\ n.expecting = bs
      /\ n.down = p.down \ {bs} /\ n.up = p.up \ {bs} /\ n.good = p.good
  BY <1>1
<1>7. ASSUME ToldDown(p, acc) PROVE AsksDown(n, acc, bs)
  <2>1. bs \in Lower(acc) /\ n.up = Upper(acc)
    BY <1>2, <1>3, <1>6, <1>7 DEF ToldDown
  <2>2. \A x \in Lower(acc) : (x \in p.down \ {bs} <=> x < bs) /\ (x \in p.good <=> x > bs)
    BY <1>2, <1>3, <1>7 DEF ToldDown
  <2>3. p.down \ {bs} \subseteq Lower(acc) /\ p.good \subseteq Lower(acc)
    BY <1>7 DEF ToldDown
  <2>4. n.down = {x \in Lower(acc) : x < bs} /\ n.good = {x \in Lower(acc) : x > bs}
    BY <1>6, <2>2, <2>3
  <2>5. AsksDown(n, acc, bs)
    BY <2>1, <2>4 DEF AsksDown
  <2> QED
    BY <2>5
<1>8. ASSUME ToldUp(p, acc) PROVE AsksUp(n, acc, bs)
  <2>1. bs \in Upper(acc) /\ n.down = {} /\ WalkDown(acc, n.round).kind = "over"
    BY <1>3, <1>6, <1>8 DEF ToldUp
  <2>2. \A x \in Upper(acc) : (x \in p.up \ {bs} <=> x > bs) /\ (x \in Upper(acc) \ p.up <=> x < bs)
    BY <1>2, <1>3, <1>8 DEF ToldUp
  <2>3. n.up = {x \in Upper(acc) : x > bs} /\ Upper(acc) \ p.up = {x \in Upper(acc) : x < bs}
    BY <1>6, <2>2, <1>8 DEF ToldUp
  <2>4. n.good = WalkDown(acc, n.round).converged \cup {x \in Upper(acc) : x < bs}
    BY <1>6, <1>8, <2>3 DEF ToldUp
  <2>5. AsksUp(n, acc, bs)
    BY <2>1, <2>3, <2>4 DEF AsksUp
  <2> QED
    BY <2>5
<1> QED
  BY <1>0, <1>4, <1>5, <1>6, <1>7, <1>8

(* A round begins with what is left of the one before it. *)
LEMMA Begins ==
  ASSUME TrialInv, NEW g, GeneratorForm(g), NEW acc, Found(acc), acc.kind = "over", acc.default \in acc.left,
         g.default = acc.default, g.round \in Nat, g.round + 1 \in 1..NumPruningRounds,
         \A b \in BatchSizes : ~Explored(b, g.round + 1)
  PROVE  LET p == Pruning!StartRound(g, acc.left)
         IN p.is = g.is /\ p.round = g.round + 1 /\ InRound(p, acc) /\ ToldDown(p, acc)
<1> DEFINE p == Pruning!StartRound(g, acc.left)
<1>1. PICK q : q = p
  OBVIOUS
<1>2. PICK best : q = [is |-> g.is, round |-> g.round + 1, left |-> acc.left, default |-> g.default,
                       down |-> Lower(acc), up |-> Upper(acc), good |-> {}, best_cost |-> best,
                       expecting |-> g.expecting]
  BY <1>1 DEF GeneratorForm, Pruning!StartRound, Lower, Upper, Down, Up
<1>3. Lower(acc) \cup Upper(acc) = acc.left /\ acc.left \subseteq BatchSizes
  BY Lists DEF Found
<1>4. acc.default \in Lower(acc)
  <2>1. acc.default \in Nat
    BY <1>3, Sizes
  <2> QED
    BY <2>1 DEF Lower, Down
<1>5. \A b \in BatchSizes : ~Explored(b, (g.round + 1) + 1)
  BY ExploredBefore
<1>6. InRound(q, acc)
  <2>1. /\ GeneratorForm(q) /\ q.round = g.round + 1 /\ q.down \cup q.up = acc.left
        /\ q.good = {} /\ q.default = acc.default
    BY <1>2, <1>3 DEF GeneratorForm
  <2> HIDE <1>2
  <2> QED
    BY <1>3, <1>5, <2>1 DEF InRound
<1>7. ToldDown(q, acc)
  BY <1>2, <1>4 DEF ToldDown
<1> QED
  BY <1>1, <1>2, <1>6, <1>7

(* The first round. *)
LEMMA BeginsAnew ==
  ASSUME TrialInv, ResultInv, \A b \in BatchSizes : ~Explored(b, 1)
  PROVE  LET g == Pruning!NextBatch(Pruning!NewGenerator)
         IN Asking(g) /\ ~Explored(g.expecting, g.round)
<1> DEFINE g0 == Pruning!NewGenerator
<1>1. PICK g : g = g0
  OBVIOUS
<1>2. GeneratorForm(g) /\ g.is = "start" /\ g.round = 0 /\ g.default = DefaultBatchSize
  BY <1>1 DEF GeneratorForm, Pruning!NewGenerator
<1>3. PICK acc : acc = FirstRound
  OBVIOUS
<1>4. /\ acc = AfterRound[0] /\ Found(acc) /\ acc.kind = "over" /\ acc.default = DefaultBatchSize
      /\ acc.left = BatchSizes /\ DefaultBatchSize \in BatchSizes
  BY <1>3, Sizes, Rounds DEF Found, FirstRound
<1>5. PICK p : p = Pruning!StartRound(g, BatchSizes)
  OBVIOUS
<1>6. g.round + 1 \in 1..NumPruningRounds /\ g.round \in Nat /\ g.round + 1 = 1
  BY <1>2, Sizes
<1>7. p.is = "start" /\ p.round = 1 /\ InRound(p, acc) /\ ToldDown(p, acc)
  BY <1>2, <1>4, <1>5, <1>6, Begins
<1>8. Pruning!Proceed(g) = p
  BY <1>2, <1>5 DEF Pruning!Proceed
<1>9. PICK n : n = Pruning!NextBatch(g)
  OBVIOUS
<1>10. n = Ask(p, ToAsk(p))
  BY <1>2, <1>7, <1>8, <1>9, NextForm
<1>11. /\ n.is = "asked" /\ n.round = 1 /\ InRound(n, acc)
       /\ AsksDown(n, acc, n.expecting) \/ AsksUp(n, acc, n.expecting)
       /\ ~Explored(n.expecting, n.round)
  BY <1>4, <1>7, <1>10, Picked
<1>12. Asking(n)
  BY <1>4, <1>11 DEF Asking
<1> QED
  BY <1>1, <1>9, <1>11, <1>12

-----------------------------------------------------------------------------
(* What a round leaves is what is good, and its cheapest. *)
LEMMA RoundLeaves ==
  ASSUME TrialInv, ResultInv, NEW p, InRound(p, AfterRound[p.round - 1]), ToldAll(p, AfterRound[p.round - 1])
  PROVE  /\ p.good = {} => AfterRound[p.round].kind = "none"
         /\ p.good # {} => /\ AfterRound[p.round].kind = "over" /\ AfterRound[p.round].left = p.good
                           /\ AfterRound[p.round].default = p.default /\ p.default \in p.good
<1>1. PICK acc, r : acc = AfterRound[p.round - 1] /\ r = p.round
  OBVIOUS
<1>2. InRound(p, acc) /\ ToldAll(p, acc)
  BY <1>1
<1>3. r \in 1..NumPruningRounds /\ r - 1 \in 0..NumPruningRounds /\ r \in Nat \ {0}
  BY <1>1, <1>2, Sizes DEF InRound
<1>4. Found(acc) /\ acc.kind = "over"
  BY <1>1, <1>2, <1>3, RoundsFind DEF LeftAt, InRound
<1>5. PICK down, up, converged : /\ down = WalkDown(acc, r) /\ up = WalkUp(acc, r)
                                 /\ converged = down.converged \cup up.converged
  OBVIOUS
<1>6. AfterRound[r] = PruningRound(acc, r)
  BY <1>1, <1>3, RoundsHaveForm DEF RoundsForm
<1>7. AfterRound[r] =
           IF down.kind # "over" THEN [acc EXCEPT !.kind = down.kind, !.bs = down.bs]
           ELSE IF up.kind # "over" THEN [acc EXCEPT !.kind = up.kind, !.bs = up.bs]
           ELSE IF converged = {} THEN [acc EXCEPT !.kind = "none"]
           ELSE [acc EXCEPT !.left = converged, !.default = Cheapest(converged, acc.default, r)]
  BY <1>4, <1>5, <1>6 DEF PruningRound, WalkDown, WalkUp, Lower, Upper
<1>8. down.kind = "over" /\ up.kind = "over" /\ converged = p.good
  BY <1>1, <1>2, <1>5 DEF ToldAll
<1>9. DOMAIN acc = {"kind", "bs", "left", "default"}
  BY <1>4 DEF Found
<1>10. p.good # {} => Cheapest(p.good, acc.default, r) = p.default /\ p.default \in p.good
  <2> SUFFICES ASSUME p.good # {} PROVE Cheapest(p.good, acc.default, r) = p.default /\ p.default \in p.good
    OBVIOUS
  <2>1. IsCheapest(p.default, p.good, acc.default, r)
    BY <1>1, <1>2 DEF InRound
  <2>2. p.good \in SUBSET BatchSizes /\ acc.default \in BatchSizes
    BY <1>2, <1>4 DEF InRound, Found
  <2>3. \A b \in p.good : Result(b, r).cost \in Nat
    BY <1>1, <1>2, <1>3, Costs DEF InRound
  <2> QED
    BY <2>1, <2>2, <2>3, CheapestIs DEF IsCheapest
<1>11. p.good = {} => AfterRound[r].kind = "none"
  BY <1>7, <1>8, <1>9
<1>12. p.good # {} => /\ AfterRound[r].kind = "over" /\ AfterRound[r].left = p.good
                      /\ AfterRound[r].default = p.default
  BY <1>4, <1>7, <1>8, <1>9, <1>10
<1> QED
  BY <1>1, <1>10, <1>11, <1>12

(* A generator that is told of a result asks for the next one, in this     *)
(* round or the next, or has ended.                                        *)
LEMMA Proceeds ==
  ASSUME TrialInv, ResultInv, NEW p, p.is = "told", InRound(p, AfterRound[p.round - 1]),
         \/ ToldDown(p, AfterRound[p.round - 1])
         \/ ToldUp(p, AfterRound[p.round - 1])
         \/ ToldAll(p, AfterRound[p.round - 1])
  PROVE  Follows(Pruning!NextBatch(p))
<1>1. PICK acc, r, n : acc = AfterRound[p.round - 1] /\ r = p.round /\ n = Pruning!NextBatch(p)
  OBVIOUS
<1>2. InRound(p, acc) /\ (ToldDown(p, acc) \/ ToldUp(p, acc) \/ ToldAll(p, acc))
  BY <1>1
<1>3. r \in 1..NumPruningRounds /\ r - 1 \in 0..NumPruningRounds /\ r \in Nat \ {0}
  BY <1>1, <1>2, Sizes DEF InRound
<1>4. Found(acc) /\ acc.kind = "over"
  BY <1>1, <1>2, <1>3, RoundsFind DEF LeftAt, InRound
<1>5. CASE ToldDown(p, acc) \/ ToldUp(p, acc)
  <2>1. p.down \cup p.up # {}
    BY <1>5 DEF ToldDown, ToldUp
  <2>2. Pruning!Proceed(p) = p
    BY <2>1 DEF Pruning!Proceed
  <2>3. n = Ask(p, ToAsk(p))
    BY <1>1, <2>2, NextForm
  <2>4. /\ n.is = "asked" /\ n.round = p.round /\ InRound(n, acc)
        /\ AsksDown(n, acc, n.expecting) \/ AsksUp(n, acc, n.expecting)
        /\ ~Explored(n.expecting, n.round)
    BY <1>2, <1>4, <1>5, <2>3, Picked
  <2>5. Asking(n)
    BY <1>1, <2>4 DEF Asking
  <2> QED
    BY <1>1, <2>4, <2>5 DEF Follows
<1>6. CASE ToldAll(p, acc)
  <2>1. p.down = {} /\ p.up = {}
    BY <1>6 DEF ToldAll
  <2>2. PICK e : e = Pruning!Proceed(p) /\ e = Pruning!EndRound(p)
    BY <2>1 DEF Pruning!Proceed
  <2>3. PICK later : later = AfterRound[r]
    OBVIOUS
  <2>4. /\ p.good = {} => later.kind = "none"
        /\ p.good # {} => /\ later.kind = "over" /\ later.left = p.good
                          /\ later.default = p.default /\ p.default \in p.good
    BY <1>1, <1>6, <2>3, RoundLeaves
  <2>5. GeneratorForm(p)
    BY <1>2 DEF InRound
  <2>6. CASE r = NumPruningRounds
    <3>1. e.is = "over" /\ e.left = p.good
      BY <1>1, <2>2, <2>5, <2>6 DEF Pruning!EndRound, GeneratorForm
    <3>2. n = e
      BY <1>1, <2>2, <3>1, NextForm
    <3>3. Ended(n)
      BY <2>3, <2>4, <2>6, <3>1, <3>2 DEF Ended
    <3> QED
      BY <1>1, <3>3 DEF Follows
  <2>7. CASE r # NumPruningRounds /\ p.good = {}
    <3>1. e.is = "infeasible"
      BY <1>1, <2>2, <2>5, <2>7 DEF Pruning!EndRound, GeneratorForm
    <3>2. n = e
      BY <1>1, <2>2, <3>1, NextForm
    <3>3. AfterRound[NumPruningRounds].kind = "none"
      <4>1. r \in 0..NumPruningRounds /\ AfterRound[r].kind = "none"
        BY <1>3, <2>3, <2>4, <2>7
      <4> QED
        BY <4>1, Absorbed DEF NextBatchSize
    <3>4. Ended(n)
      BY <3>1, <3>2, <3>3 DEF Ended
    <3> QED
      BY <1>1, <3>4 DEF Follows
  <2>8. CASE r # NumPruningRounds /\ p.good # {}
    <3>1. e = Pruning!StartRound(p, p.good)
      BY <1>1, <2>2, <2>8 DEF Pruning!EndRound
    <3>2. r \in 0..NumPruningRounds /\ r + 1 \in 1..NumPruningRounds /\ p.round \in Nat
      BY <1>1, <1>3, <2>8, Sizes
    <3>3. Found(later)
      BY <2>3, <3>2, RoundsFind DEF LeftAt
    <3>4. \A b \in BatchSizes : ~Explored(b, p.round + 1)
      BY <1>2 DEF InRound
    <3>5. e.is = "told" /\ e.round = r + 1 /\ InRound(e, later) /\ ToldDown(e, later)
      <4>1. /\ later.kind = "over" /\ later.left = p.good
            /\ p.default = later.default /\ later.default \in later.left
        BY <2>4, <2>8
      <4>2. e = Pruning!StartRound(p, later.left)
        BY <3>1, <4>1
      <4> QED
        BY <1>1, <2>5, <3>2, <3>3, <3>4, <4>1, <4>2, Begins
    <3>6. n = Ask(e, ToAsk(e))
      BY <1>1, <2>2, <3>5, NextForm
    <3>7. /\ n.is = "asked" /\ n.round = e.round /\ InRound(n, later)
          /\ AsksDown(n, later, n.expecting) \/ AsksUp(n, later, n.expecting)
          /\ ~Explored(n.expecting, n.round)
      BY <3>3, <3>5, <3>6, Picked
    <3>8. n.round - 1 = r
      BY <1>3, <3>5, <3>7
    <3>9. Asking(n)
      BY <2>3, <3>7, <3>8 DEF Asking
    <3> QED
      BY <1>1, <3>7, <3>9 DEF Follows
  <2> QED
    BY <2>6, <2>7, <2>8
<1> QED
  BY <1>2, <1>5, <1>6

(* The result it waits for is in. *)
Due(g) ==
  /\ Asking(g) /\ Explored(g.expecting, g.round)
  /\ Result(g.expecting, g.round).status = "Succeeded"

TellsForm ==
  TrialInv /\ ResultInv => \A g : Due(g) =>
    LET t == Result(g.expecting, g.round)
    IN Follows(Pruning!NextBatch(Pruning!SendResult(g, g.expecting, t.cost, t.converged = "yes")))

LEMMA Tells == TellsForm
<1> SUFFICES ASSUME TrialInv, ResultInv, NEW g, Due(g)
             PROVE  LET t == Result(g.expecting, g.round)
                    IN Follows(Pruning!NextBatch(
                         Pruning!SendResult(g, g.expecting, t.cost, t.converged = "yes")))
  BY DEF TellsForm
<1>1. PICK t : t = Result(g.expecting, g.round)
  OBVIOUS
<1>2. PICK p : p = Pruning!SendResult(g, g.expecting, t.cost, t.converged = "yes")
  OBVIOUS
<1>3. PICK acc : acc = AfterRound[p.round - 1]
  OBVIOUS
<1>4. p.is = "told" /\ InRound(p, acc) /\ (ToldDown(p, acc) \/ ToldUp(p, acc) \/ ToldAll(p, acc))
  BY <1>1, <1>2, <1>3, Sent DEF Due
<1>5. Follows(Pruning!NextBatch(p))
  BY <1>3, <1>4, Proceeds
<1> QED
  BY <1>1, <1>2, <1>5

BeginsForm ==
  TrialInv /\ ResultInv /\ (\A b \in BatchSizes : ~Explored(b, 1)) =>
    Follows(Pruning!NextBatch(Pruning!NewGenerator))

LEMMA BeginsFollowing == BeginsForm
<1>1. PICK g : g = Pruning!NextBatch(Pruning!NewGenerator)
  OBVIOUS
<1>2. TrialInv /\ ResultInv /\ (\A b \in BatchSizes : ~Explored(b, 1)) =>
        Asking(g) /\ ~Explored(g.expecting, g.round)
  BY <1>1, BeginsAnew
<1> QED
  BY <1>1, <1>2 DEF BeginsForm, Follows

-----------------------------------------------------------------------------
(* What a list was explored for in a round stays as it is. *)
SameOn(list, round) == \A b \in list :
  /\ Explored(b, round)' <=> Explored(b, round)
  /\ Explored(b, round) => Result(b, round)' = Result(b, round)

LEMMA StopsSame ==
  ASSUME NEW list, NEW round, SameOn(list, round)
  PROVE  \A b \in list : Stops(b, round)' <=> Stops(b, round)
  BY DEF SameOn, Stops

LEMMA WalkSame ==
  ASSUME NEW list \in SUBSET BatchSizes, NEW default \in BatchSizes, NEW round, SameOn(list, round)
  PROVE  Walk(list, default, round)' = Walk(list, default, round)
<1>1. PICK stops, last : stops = {b \in list : Stops(b, round)} /\ last = First(stops, default)
  OBVIOUS
<1>2. stops = {b \in list : Stops(b, round)'}
  BY <1>1, StopsSame
<1>3. stops # {} => last \in list
  <2>1. stops \in SUBSET BatchSizes
    BY <1>1
  <2> QED
    BY <1>1, <2>1, FirstIsIn
<1>4. PICK kind : kind = IF stops = {} THEN "over" ELSE IF ~Explored(last, round) THEN "explore"
                  ELSE IF Result(last, round).status = "Dispatched" THEN "concurrent" ELSE "over"
  OBVIOUS
<1>5. Walk(list, default, round) = [kind |-> kind, bs |-> IF kind = "explore" THEN last ELSE 0,
        converged |-> {b \in list : \A s \in stops : Distance(b, default) < Distance(s, default)}]
  BY <1>1, <1>4 DEF Walk
<1>6. kind = IF stops = {} THEN "over" ELSE IF ~Explored(last, round)' THEN "explore"
                  ELSE IF Result(last, round)'.status = "Dispatched" THEN "concurrent" ELSE "over"
  BY <1>3, <1>4 DEF SameOn
<1>7. Walk(list, default, round)' = [kind |-> kind, bs |-> IF kind = "explore" THEN last ELSE 0,
        converged |-> {b \in list : \A s \in stops : Distance(b, default) < Distance(s, default)}]
  BY <1>1, <1>2, <1>6 DEF Walk
<1> QED
  BY <1>5, <1>7

LEMMA CheapestSame ==
  ASSUME NEW set, NEW default, NEW round, SameOn(set, round), \A b \in set : ~Stops(b, round)
  PROVE  Cheapest(set, default, round)' = Cheapest(set, default, round)
<1>1. \A b \in set : Result(b, round)' = Result(b, round)
  BY DEF SameOn, Stops
<1> DEFINE least == {b \in set : \A o \in set : Result(b, round).cost <= Result(o, round).cost}
           later == {b \in set : \A o \in set : Result(b, round)'.cost <= Result(o, round)'.cost}
<1>2. later = least
  BY <1>1
<1> DEFINE Of(s) == First(IF Down(s, default) # {} THEN Down(s, default) ELSE s, default)
<1>3. Cheapest(set, default, round) = Of(least)
  BY DEF Cheapest
<1>4. Cheapest(set, default, round)' = Of(later)
  BY DEF Cheapest
<1> HIDE DEF least, later, Of
<1> QED
  BY <1>2, <1>3, <1>4

LEMMA RoundSame ==
  ASSUME TrialInv, NEW acc, Found(acc), NEW round \in Nat \ {0}, SameOn(BatchSizes, round)
  PROVE  PruningRound(acc, round)' = PruningRound(acc, round)
<1>1. PICK lower, upper : lower = Down(acc.left, acc.default) /\ upper = Up(acc.left, acc.default)
  OBVIOUS
<1>2. PICK down, up : down = Walk(lower, acc.default, round) /\ up = Walk(upper, acc.default, round)
  OBVIOUS
<1>3. PICK converged : converged = down.converged \cup up.converged
  OBVIOUS
<1>4. lower \in SUBSET BatchSizes /\ upper \in SUBSET BatchSizes /\ acc.default \in BatchSizes
  BY <1>1 DEF Found, Down, Up
<1>5. down = Walk(lower, acc.default, round)' /\ up = Walk(upper, acc.default, round)'
  <2>1. SameOn(lower, round) /\ SameOn(upper, round)
    BY <1>4 DEF SameOn
  <2>2. down = Walk(lower, acc.default, round)'
    BY <1>2, <1>4, <2>1, WalkSame
  <2>3. up = Walk(upper, acc.default, round)'
    BY <1>2, <1>4, <2>1, WalkSame
  <2> QED
    BY <2>2, <2>3
<1>6. Cheapest(converged, acc.default, round)' = Cheapest(converged, acc.default, round)
  <2>1. \A b \in down.converged : b \in BatchSizes /\ ~Stops(b, round)
    BY <1>2, <1>4, WalkFinds
  <2>2. \A b \in up.converged : b \in BatchSizes /\ ~Stops(b, round)
    BY <1>2, <1>4, WalkFinds
  <2>3. \A b \in converged : b \in BatchSizes /\ ~Stops(b, round)
    BY <1>3, <2>1, <2>2
  <2>4. SameOn(converged, round)
    BY <2>3 DEF SameOn
  <2> QED
    BY <2>3, <2>4, CheapestSame
<1>7. PICK cheapest : cheapest = Cheapest(converged, acc.default, round)
  OBVIOUS
<1>8. PruningRound(acc, round) =
             IF acc.kind # "over" THEN acc
             ELSE IF down.kind # "over" THEN [acc EXCEPT !.kind = down.kind, !.bs = down.bs]
             ELSE IF up.kind # "over" THEN [acc EXCEPT !.kind = up.kind, !.bs = up.bs]
             ELSE IF converged = {} THEN [acc EXCEPT !.kind = "none"]
             ELSE [acc EXCEPT !.left = converged, !.default = cheapest]
  BY <1>1, <1>2, <1>3, <1>7 DEF PruningRound
<1>9. PruningRound(acc, round)' =
             IF acc.kind # "over" THEN acc
             ELSE IF down.kind # "over" THEN [acc EXCEPT !.kind = down.kind, !.bs = down.bs]
             ELSE IF up.kind # "over" THEN [acc EXCEPT !.kind = up.kind, !.bs = up.bs]
             ELSE IF converged = {} THEN [acc EXCEPT !.kind = "none"]
             ELSE [acc EXCEPT !.left = converged, !.default = cheapest]
  BY <1>1, <1>3, <1>5, <1>6, <1>7 DEF PruningRound
<1> QED
  BY <1>8, <1>9

LEMMA RoundsSame ==
  ASSUME TrialInv, ResultInv, NEW r \in Nat, \A q \in 1..r : SameOn(BatchSizes, q)
  PROVE  \A k \in 0..NumPruningRounds : k <= r => AfterRound'[k] = AfterRound[k]
<1>0. NumPruningRounds \in Nat
  BY Sizes
<1> DEFINE S == {k \in Nat : k <= NumPruningRounds /\ k <= r => AfterRound'[k] = AfterRound[k]}
<1>1. RoundsForm /\ RoundsForm'
  BY RoundsHaveForm, PTL
<1>2. 0 \in S
  BY <1>1 DEF RoundsForm, FirstRound
<1>3. ASSUME NEW k \in Nat, k \in S PROVE k + 1 \in S
  <2> SUFFICES ASSUME k + 1 <= NumPruningRounds, k + 1 <= r PROVE AfterRound'[k + 1] = AfterRound[k + 1]
    OBVIOUS
  <2>1. PICK acc : acc = AfterRound[k] /\ acc = AfterRound'[k]
    BY <1>0, <1>3
  <2>2. /\ k + 1 \in 1..NumPruningRounds /\ k \in 0..NumPruningRounds
        /\ (k + 1) - 1 = k /\ k + 1 \in Nat \ {0}
        /\ k + 1 \in 1..r
    BY <1>0
  <2>3. Found(acc)
    BY <2>1, <2>2, RoundsFind DEF LeftAt
  <2>4. AfterRound[k + 1] = PruningRound(acc, k + 1) /\ AfterRound'[k + 1] = PruningRound(acc, k + 1)'
    BY <1>1, <2>1, <2>2 DEF RoundsForm
  <2>5. PruningRound(acc, k + 1)' = PruningRound(acc, k + 1)
    BY <2>2, <2>3, RoundSame
  <2> QED
    BY <2>4, <2>5
<1>4. Nat \subseteq S
  <2> HIDE DEF S
  <2> QED
    BY <1>2, <1>3, Induct
<1> QED
  BY <1>0, <1>4

(* A step that touches no exploration but one of b in a round. *)
SameBut(b, r) == \A x \in BatchSizes : \A q \in Nat \ {0} : x # b \/ q # r =>
  /\ Explored(x, q)' <=> Explored(x, q)
  /\ Explored(x, q) => Result(x, q)' = Result(x, q)

LEMMA AskingStays ==
  ASSUME TrialInv, ResultInv, NEW g, Asking(g), SameBut(g.expecting, g.round)
  PROVE  Asking(g)'
<1>1. PICK acc, r, b : acc = AfterRound[g.round - 1] /\ r = g.round /\ b = g.expecting
  OBVIOUS
<1>2. InRound(g, acc) /\ (AsksDown(g, acc, b) \/ AsksUp(g, acc, b)) /\ g.is = "asked"
  BY <1>1 DEF Asking
<1>3. /\ r \in 1..NumPruningRounds /\ r - 1 \in 0..NumPruningRounds /\ r \in Nat \ {0} /\ r - 1 \in Nat
      /\ r + 1 \in Nat \ {0} /\ r + 1 # r /\ \A q \in 1..(r - 1) : q \in Nat \ {0} /\ q # r
  BY <1>1, <1>2, Sizes DEF InRound
<1>4. Found(acc)
  BY <1>1, <1>3, RoundsFind DEF LeftAt
<1>5. SameBut(b, r)
  BY <1>1
<1>6. AfterRound'[r - 1] = acc
  <2>1. \A q \in 1..(r - 1) : SameOn(BatchSizes, q)
    BY <1>3, <1>5 DEF SameOn, SameBut
  <2> QED
    BY <1>1, <1>3, <2>1, RoundsSame
<1>7. /\ Lower(acc) \in SUBSET BatchSizes /\ Upper(acc) \in SUBSET BatchSizes /\ acc.default \in BatchSizes
      /\ Lower(acc) \cap Upper(acc) = {} /\ Lower(acc) \subseteq Nat /\ Upper(acc) \subseteq Nat
      /\ acc.left \subseteq BatchSizes
  <2>1. /\ Lower(acc) \in SUBSET BatchSizes /\ Upper(acc) \in SUBSET BatchSizes /\ acc.default \in BatchSizes
        /\ Lower(acc) \cap Upper(acc) = {}
    BY <1>4, Lists
  <2> QED
    BY <1>4, <2>1, Sizes DEF Found
<1>8. AsksUp(g, acc, b) => /\ WalkDown(acc, r)' = WalkDown(acc, r)
                           /\ WalkDown(acc, r).converged \subseteq Lower(acc)
  <2> SUFFICES ASSUME AsksUp(g, acc, b)
               PROVE  /\ WalkDown(acc, r)' = WalkDown(acc, r)
                      /\ WalkDown(acc, r).converged \subseteq Lower(acc)
    OBVIOUS
  <2>1. PICK lower, w : lower = Lower(acc) /\ w = Walk(lower, acc.default, r)
    OBVIOUS
  <2>2. b \notin lower
    BY <1>7, <2>1 DEF AsksUp
  <2>3. SameOn(lower, r)
    BY <1>3, <1>5, <1>7, <2>1, <2>2 DEF SameOn, SameBut
  <2>4. Walk(lower, acc.default, r)' = w
    BY <1>7, <2>1, <2>3, WalkSame
  <2>5. w.converged \subseteq lower
    BY <1>3, <1>7, <2>1, WalkFinds
  <2> QED
    BY <2>1, <2>4, <2>5 DEF WalkDown, Lower
<1>9. b \notin g.down \cup g.up /\ b \notin g.good
  <2>1. CASE AsksDown(g, acc, b)
    BY <1>7, <2>1 DEF AsksDown
  <2>2. CASE AsksUp(g, acc, b)
    BY <1>1, <1>7, <1>8, <2>2 DEF AsksUp
  <2> QED
    BY <1>2, <2>1, <2>2
<1>10. g.down \cup g.up \subseteq BatchSizes /\ g.good \subseteq BatchSizes
  BY <1>2, <1>7 DEF InRound
<1>11. /\ \A x \in BatchSizes : ~Explored(x, r + 1)'
       /\ \A x \in g.down \cup g.up : ~Explored(x, r)'
  BY <1>1, <1>2, <1>3, <1>5, <1>9, <1>10 DEF InRound, SameBut
<1>12. \A x \in g.good : ~Stops(x, r)' /\ Result(x, r)' = Result(x, r)
  <2>1. \A x \in g.good : Explored(x, r) /\ Explored(x, r)' /\ Result(x, r)' = Result(x, r) /\ ~Stops(x, r)
    BY <1>1, <1>2, <1>3, <1>5, <1>9, <1>10 DEF InRound, SameBut, Stops
  <2> QED
    BY <2>1 DEF Stops
<1>13. g.good # {} => /\ IsCheapest(g.default, g.good, acc.default, r)'
                      /\ g.best_cost = Result(g.default, r)'.cost
  <2> SUFFICES ASSUME g.good # {} PROVE /\ IsCheapest(g.default, g.good, acc.default, r)'
                                        /\ g.best_cost = Result(g.default, r)'.cost
    OBVIOUS
  <2>1. IsCheapest(g.default, g.good, acc.default, r) /\ g.best_cost = Result(g.default, r).cost
    BY <1>1, <1>2 DEF InRound
  <2>2. g.default \in g.good
    BY <2>1 DEF IsCheapest
  <2> QED
    BY <1>12, <2>1, <2>2 DEF IsCheapest
<1>14. InRound(g, acc)'
  <2>1. /\ GeneratorForm(g) /\ acc.kind = "over"
        /\ acc.default \in acc.left /\ g.down \cup g.up \subseteq acc.left
        /\ g.good \subseteq acc.left /\ (g.good = {} => g.default = acc.default)
    BY <1>2 DEF InRound
  <2> QED
    BY <1>1, <1>3, <1>11, <1>12, <1>13, <2>1 DEF InRound, GeneratorForm
<1>15. AsksDown(g, acc, b)' \/ AsksUp(g, acc, b)'
  <2>1. CASE AsksDown(g, acc, b)
    BY <2>1 DEF AsksDown, Lower, Upper
  <2>2. CASE AsksUp(g, acc, b)
    BY <1>1, <1>8, <2>2 DEF AsksUp, Lower, Upper
  <2> QED
    BY <1>2, <2>1, <2>2
<1> QED
  BY <1>1, <1>2, <1>6, <1>14, <1>15 DEF Asking

-----------------------------------------------------------------------------
NewlyAsked == Pruning!NextBatch(Pruning!NewGenerator)

GeneratorSteps ==
  /\ GeneratorAfter[0] = NewlyAsked
  /\ \A g : \A n \in 1..Len(trials) :
       g = GeneratorAfter[n - 1] => GeneratorAfter[n] = Tell(g, trials[n])

(* The generator goes by the trials, one after the other. *)
LEMMA GeneratorTold == TrialInv => GeneratorSteps
<1> SUFFICES ASSUME TrialInv PROVE GeneratorSteps
  OBVIOUS
<1> DEFINE Steps(f, n) == [k \in 0..n |-> IF k = 0 THEN NewlyAsked ELSE Tell(f[k - 1], trials[k])]
           Fits(n) == \E f : f = Steps(f, n)
           Good == {n \in Nat : Fits(n)}
<1>1. Fits(0)
  <2> DEFINE f == [k \in 0..0 |-> NewlyAsked]
  <2>1. f = Steps(f, 0)
    OBVIOUS
  <2> QED
    BY <2>1
<1>2. ASSUME NEW n \in Nat, Fits(n) PROVE Fits(n + 1)
  <2>1. PICK f : f = Steps(f, n)
    BY <1>2
  <2> DEFINE g == Steps(f, n + 1)
  <2>2. \A k \in 0..n : g[k] = f[k]
    <3>1. \A k \in 0..n : f[k] = IF k = 0 THEN NewlyAsked ELSE Tell(f[k - 1], trials[k])
      BY <2>1
    <3> QED
      BY <3>1
  <2>3. \A k \in 0..(n + 1) : k # 0 => k - 1 \in 0..n
    OBVIOUS
  <2>4. g = Steps(g, n + 1)
    BY <2>2, <2>3
  <2> HIDE DEF g
  <2> QED
    BY <2>4
<1> HIDE DEF Fits
<1>3. 0 \in Good /\ \A n \in Nat : n \in Good => n + 1 \in Good
  BY <1>1, <1>2
<1>4. Len(trials) \in Nat
  BY DEF TrialInv
<1>5. Len(trials) \in Good
  <2> HIDE DEF Good
  <2>1. Nat \subseteq Good
    BY <1>3, Induct
  <2> QED
    BY <2>1, <1>4
<1>6. \E f : f = Steps(f, Len(trials))
  BY <1>5 DEF Fits
<1>7. GeneratorAfter = CHOOSE f : f = Steps(f, Len(trials))
  BY Zenon DEF GeneratorAfter, NewlyAsked
<1>8. GeneratorAfter = Steps(GeneratorAfter, Len(trials))
  BY <1>6, <1>7
<1>9. \A k \in 0..Len(trials) :
        GeneratorAfter[k] = IF k = 0 THEN NewlyAsked ELSE Tell(GeneratorAfter[k - 1], trials[k])
  BY <1>8, Zenon
<1> QED
  BY <1>4, <1>9 DEF GeneratorSteps

(* Trials are numbered from 1. *)
LEMMA Tallied ==
  TrialInv => Len(trials) \in Nat /\ DOMAIN trials = 1..Len(trials)
  BY DEF TrialInv

LEMMA Untold == \A i : ~Completed(i) => \A g : Tell(g, trials[i]) = g
  BY DEF Completed, Tell

(* It hears nothing of a step that completes no exploration. *)
HearsNothing ==
  /\ Len(trials)' \in {Len(trials), Len(trials) + 1}
  /\ \A i \in DOMAIN trials : trials'[i] = trials[i] \/ (~Completed(i) /\ ~Completed(i)')
  /\ \A i \in DOMAIN trials' \ DOMAIN trials : ~Completed(i)'

LEMMA GeneratorKept ==
  ASSUME TrialInv, TrialInv', HearsNothing
  PROVE  Generator' = Generator
<1>0. /\ Len(trials)' \in {Len(trials), Len(trials) + 1}
      /\ \A i \in DOMAIN trials : trials'[i] = trials[i] \/ (~Completed(i) /\ ~Completed(i)')
      /\ \A i \in DOMAIN trials' \ DOMAIN trials : ~Completed(i)'
  BY DEF HearsNothing
<1>1. PICK m, l : m = Len(trials) /\ l = Len(trials)'
  OBVIOUS
<1>2. m \in Nat /\ l \in Nat /\ DOMAIN trials = 1..m /\ DOMAIN trials' = 1..l /\ l \in {m, m + 1}
  <2>1. (TrialInv => Len(trials) \in Nat /\ DOMAIN trials = 1..Len(trials))'
    BY Tallied, PTL
  <2> QED
    BY <1>0, <1>1, <2>1, Tallied
<1>3. GeneratorSteps /\ GeneratorSteps'
  BY GeneratorTold, PTL
<1>4. \A i : ~Completed(i)' => \A g : Tell(g, trials'[i]) = g
  BY DEF Completed, Tell
<1> DEFINE S == {k \in Nat : k <= m => GeneratorAfter'[k] = GeneratorAfter[k]}
<1>5. 0 \in S
  BY <1>3 DEF GeneratorSteps, NewlyAsked
<1>6. ASSUME NEW k \in Nat, k \in S PROVE k + 1 \in S
  <2> SUFFICES ASSUME k + 1 <= m PROVE GeneratorAfter'[k + 1] = GeneratorAfter[k + 1]
    OBVIOUS
  <2>1. PICK g : g = GeneratorAfter[k] /\ g = GeneratorAfter'[k]
    BY <1>2, <1>6
  <2>2. k + 1 \in 1..m /\ k + 1 \in 1..l /\ (k + 1) - 1 = k
    BY <1>2
  <2>3. GeneratorAfter[k + 1] = Tell(g, trials[k + 1]) /\ GeneratorAfter'[k + 1] = Tell(g, trials'[k + 1])
    BY <1>1, <1>3, <2>1, <2>2 DEF GeneratorSteps
  <2>4. Tell(g, trials'[k + 1]) = Tell(g, trials[k + 1])
    BY <1>0, <1>2, <1>4, <2>2, Untold
  <2> QED
    BY <2>3, <2>4
<1>7. Nat \subseteq S
  <2> HIDE DEF S
  <2> QED
    BY <1>5, <1>6, Induct
<1>8. GeneratorAfter'[m] = GeneratorAfter[m]
  BY <1>2, <1>7
<1>9. GeneratorAfter'[l] = GeneratorAfter[m]
  <2>1. CASE l = m
    BY <1>8, <2>1
  <2>2. CASE l = m + 1
    <3>1. PICK g : g = GeneratorAfter'[m]
      OBVIOUS
    <3>2. l \in 1..l /\ l - 1 = m /\ l \notin 1..m
      BY <1>2, <2>2
    <3>3. GeneratorAfter'[l] = Tell(g, trials'[l])
      BY <1>1, <1>3, <3>1, <3>2 DEF GeneratorSteps
    <3>4. ~Completed(l)'
      BY <1>0, <1>2, <3>2
    <3> QED
      BY <1>4, <1>8, <3>1, <3>3, <3>4
  <2> QED
    BY <1>2, <2>1, <2>2
<1> QED
  BY <1>1, <1>9 DEF Generator

(* The result of the last exploration is the last it hears of. *)
LEMMA GeneratorHears ==
  ASSUME TrialInv, TrialInv', NEW n \in DOMAIN trials, DOMAIN trials' = DOMAIN trials,
         \A i \in DOMAIN trials \ {n} : trials'[i] = trials[i],
         ~Completed(n), Completed(n)', \A i \in DOMAIN trials : Completed(i) => i < n
  PROVE  Generator' = Tell(Generator, trials'[n])
<1>1. PICK m, t : m = Len(trials) /\ t = trials'[n]
  OBVIOUS
<1>2. m \in Nat /\ DOMAIN trials = 1..m /\ DOMAIN trials' = 1..m /\ n \in 1..m /\ Len(trials)' = m
  <2>1. (TrialInv => Len(trials) \in Nat /\ DOMAIN trials = 1..Len(trials))'
    BY Tallied, PTL
  <2>2. m \in Nat /\ DOMAIN trials = 1..m
    BY <1>1, Tallied
  <2>3. PICK l : l = Len(trials)'
    OBVIOUS
  <2>4. l \in Nat /\ 1..l = 1..m
    BY <2>1, <2>2, <2>3
  <2>5. l = m
    BY <2>2, <2>4
  <2> QED
    BY <2>2, <2>3, <2>5
<1>3. GeneratorSteps /\ GeneratorSteps'
  BY GeneratorTold, PTL
<1> DEFINE S == {k \in Nat : k <= m =>
                   GeneratorAfter'[k] = IF k < n THEN GeneratorAfter[k] ELSE Tell(GeneratorAfter[k], t)}
<1>5. 0 \in S
  BY <1>2, <1>3 DEF GeneratorSteps, NewlyAsked
<1>6. ASSUME NEW k \in Nat, k \in S PROVE k + 1 \in S
  <2> SUFFICES ASSUME k + 1 <= m
               PROVE  GeneratorAfter'[k + 1] =
                        IF k + 1 < n THEN GeneratorAfter[k + 1] ELSE Tell(GeneratorAfter[k + 1], t)
    OBVIOUS
  <2>1. PICK g, h : g = GeneratorAfter[k] /\ h = GeneratorAfter'[k]
    OBVIOUS
  <2>2. k + 1 \in 1..m /\ (k + 1) - 1 = k /\ n \in Nat
    BY <1>2
  <2>3. GeneratorAfter[k + 1] = Tell(g, trials[k + 1]) /\ GeneratorAfter'[k + 1] = Tell(h, trials'[k + 1])
    BY <1>1, <1>2, <1>3, <2>1, <2>2 DEF GeneratorSteps
  <2>4. h = IF k < n THEN g ELSE Tell(g, t)
    BY <1>2, <1>6, <2>1
  <2>5. CASE k + 1 < n
    BY <1>2, <2>2, <2>3, <2>4, <2>5
  <2>6. CASE k + 1 = n
    <3>1. h = g /\ trials'[k + 1] = t /\ Tell(g, trials[k + 1]) = g
      BY <1>1, <2>2, <2>4, <2>6, Untold
    <3> QED
      BY <2>2, <2>3, <2>6, <3>1
  <2>7. CASE k + 1 > n
    <3>1. h = Tell(g, t) /\ trials'[k + 1] = trials[k + 1]
      BY <1>2, <2>2, <2>4, <2>7
    <3>2. ~Completed(k + 1)
      BY <1>2, <2>2, <2>7
    <3>3. Tell(g, trials[k + 1]) = g /\ Tell(h, trials[k + 1]) = h
      BY <3>2, Untold
    <3> QED
      BY <2>2, <2>3, <2>7, <3>1, <3>3
  <2> QED
    BY <2>2, <2>5, <2>6, <2>7
<1>7. Nat \subseteq S
  <2> HIDE DEF S
  <2> QED
    BY <1>5, <1>6, Induct
<1>8. GeneratorAfter'[m] = Tell(GeneratorAfter[m], t)
  BY <1>2, <1>7
<1> QED
  BY <1>1, <1>2, <1>8 DEF Generator

-----------------------------------------------------------------------------
(* A step that touches no exploration leaves the server and the generator  *)
(* where they are.                                                         *)
LEMMA FollowsStays ==
  ASSUME TrialInv, ResultInv, NEW g, Follows(g), \A q \in Nat \ {0} : SameOn(BatchSizes, q)
  PROVE  Follows(g)'
<1>0. NumPruningRounds \in Nat \ {0}
  BY Sizes
<1>1. CASE Asking(g) /\ (Explored(g.expecting, g.round) => Result(g.expecting, g.round).status = "Dispatched")
  <2>1. SameBut(g.expecting, g.round)
    BY DEF SameOn, SameBut
  <2>2. Asking(g)'
    BY <1>1, <2>1, AskingStays
  <2>3. g.expecting \in BatchSizes /\ g.round \in Nat \ {0}
    <3>1. PICK acc : acc = AfterRound[g.round - 1]
      OBVIOUS
    <3>2. InRound(g, acc) /\ (AsksDown(g, acc, g.expecting) \/ AsksUp(g, acc, g.expecting))
      BY <1>1, <3>1 DEF Asking
    <3>3. g.round \in Nat \ {0} /\ g.round - 1 \in 0..NumPruningRounds
      BY <1>0, <3>2 DEF InRound
    <3>4. Found(acc)
      BY <3>1, <3>3, RoundsFind DEF LeftAt
    <3>5. Lower(acc) \in SUBSET BatchSizes /\ Upper(acc) \in SUBSET BatchSizes
      BY <3>4, Lists
    <3> QED
      BY <3>2, <3>3, <3>5 DEF AsksDown, AsksUp
  <2>4. PICK b, r : b = g.expecting /\ r = g.round
    OBVIOUS
  <2>5. Explored(b, r)' => Result(b, r)'.status = "Dispatched"
    BY <1>1, <2>3, <2>4 DEF SameOn
  <2> QED
    BY <2>2, <2>4, <2>5 DEF Follows
<1>2. CASE Ended(g)
  <2>1. \A q \in 1..NumPruningRounds : SameOn(BatchSizes, q)
    BY <1>0
  <2>2. AfterRound'[NumPruningRounds] = AfterRound[NumPruningRounds]
    BY <1>0, <2>1, RoundsSame
  <2>3. Ended(g)'
    BY <1>2, <2>2 DEF Ended
  <2> QED
    BY <2>3 DEF Follows
<1> QED
  BY <1>1, <1>2 DEF Follows

LEMMA Untouched ==
  ASSUME TrialInv, \A bs : /\ Explorations(bs)' = Explorations(bs)
                           /\ \A i \in Explorations(bs) : trials'[i] = trials[i]
  PROVE  \A q \in Nat \ {0} : SameOn(BatchSizes, q)
  BY Unmoved DEF SameOn

(* The server's view when the generator has ended. *)
LEMMA EndedAgrees ==
  ASSUME NEW g, Ended(g)
  PROVE  /\ NextBatchSize.kind \in {"over", "none"}
         /\ NextBatchSize.kind = "none" => g.is = "infeasible" \/ g.left = {}
         /\ NextBatchSize.kind = "over" => g.is = "over" /\ g.left = NextBatchSize.left
         /\ g.is \in {"over", "infeasible"}
  BY DEF Ended, NextBatchSize

(* A round that is over leaves a batch size. *)
LEMMA SomethingLeft ==
  ASSUME NextBatchSize.kind = "over", TrialInv, ResultInv
  PROVE  NextBatchSize.left # {}
<1>1. PICK acc, r : acc = AfterRound[NumPruningRounds - 1] /\ r = NumPruningRounds
  OBVIOUS
<1>2. r \in 1..NumPruningRounds /\ r - 1 \in 0..NumPruningRounds
  BY <1>1, Sizes
<1>3. Found(acc)
  BY <1>1, <1>2, RoundsFind DEF LeftAt
<1>4. PICK down, up, converged : /\ down = WalkDown(acc, r) /\ up = WalkUp(acc, r)
                                 /\ converged = down.converged \cup up.converged
  OBVIOUS
<1>5. AfterRound[r] = PruningRound(acc, r)
  BY <1>1, <1>2, RoundsHaveForm DEF RoundsForm
<1>6. AfterRound[r] =
           IF acc.kind # "over" THEN acc
           ELSE IF down.kind # "over" THEN [acc EXCEPT !.kind = down.kind, !.bs = down.bs]
           ELSE IF up.kind # "over" THEN [acc EXCEPT !.kind = up.kind, !.bs = up.bs]
           ELSE IF converged = {} THEN [acc EXCEPT !.kind = "none"]
           ELSE [acc EXCEPT !.left = converged, !.default = Cheapest(converged, acc.default, r)]
  BY <1>3, <1>4, <1>5 DEF PruningRound, WalkDown, WalkUp, Lower, Upper
<1>7. AfterRound[r].kind = "over"
  BY <1>1 DEF NextBatchSize
<1>8. DOMAIN acc = {"kind", "bs", "left", "default"}
  BY <1>3 DEF Found
<1>9. AfterRound[r].left = converged /\ converged # {}
  BY <1>6, <1>7, <1>8
<1> QED
  BY <1>1, <1>9 DEF NextBatchSize

(* An exploration that has no result is the one the generator waits for.   *)
LEMMA Awaited ==
  ASSUME RoundInv, NEW g, Follows(g), stage = "Pruning", NEW n \in DOMAIN trials, Waiting(n)
  PROVE  /\ Asking(g) /\ trials[n].batch_size = g.expecting /\ g.expecting \in BatchSizes
         /\ g.round \in Nat \ {0} /\ Explored(g.expecting, g.round)
         /\ n \in Explorations(g.expecting) /\ Place(n, Explorations(g.expecting)) = g.round
         /\ Cardinality(Explorations(g.expecting)) = g.round
         /\ \A i \in Explorations(g.expecting) : i # n => i < n
<1>1. NextBatchSize.kind = "concurrent" /\ TrialInv /\ ResultInv
  BY DEF RoundInv, IInv, WaitingInv
<1>2. Asking(g) /\ (Explored(g.expecting, g.round) => Result(g.expecting, g.round).status = "Dispatched")
  <2>1. ~Ended(g)
    BY <1>1, EndedAgrees
  <2> QED
    BY <2>1 DEF Follows
<1>3. Explored(g.expecting, g.round) /\ Result(g.expecting, g.round).status = "Dispatched"
  BY <1>1, <1>2, AskingAgrees
<1>4. PICK acc, r, b : acc = AfterRound[g.round - 1] /\ r = g.round /\ b = g.expecting
  OBVIOUS
<1>5. InRound(g, acc) /\ (AsksDown(g, acc, b) \/ AsksUp(g, acc, b))
  BY <1>2, <1>4 DEF Asking
<1>6. r \in Nat \ {0} /\ r - 1 \in 0..NumPruningRounds
  BY <1>4, <1>5, Sizes DEF InRound
<1>7. b \in BatchSizes
  <2>1. Found(acc)
    BY <1>1, <1>4, <1>6, RoundsFind DEF LeftAt
  <2>2. Lower(acc) \in SUBSET BatchSizes /\ Upper(acc) \in SUBSET BatchSizes
    BY <2>1, Lists
  <2> QED
    BY <1>5, <2>2 DEF AsksDown, AsksUp
<1>8. PICK i \in Explorations(b) : Place(i, Explorations(b)) = r /\ Result(b, r) = trials[i]
  BY <1>1, <1>3, <1>4, <1>6, InPlace
<1>9. i = n
  <2>1. i \in DOMAIN trials /\ Waiting(i)
    BY <1>3, <1>4, <1>8 DEF Waiting, Explorations
  <2> QED
    BY <2>1 DEF RoundInv, WaitingInv
<1>10. n \in Explorations(b) /\ Place(n, Explorations(b)) = r /\ trials[n].batch_size = b
  BY <1>8, <1>9 DEF Explorations
<1>11. Cardinality(Explorations(b)) = r
  <2>1. Cardinality(Explorations(b)) \in Nat
    BY <1>1, InPlace
  <2>2. Explored(b, r) /\ ~Explored(b, r + 1)
    BY <1>3, <1>4, <1>5, <1>7 DEF InRound
  <2> QED
    BY <1>6, <2>1, <2>2 DEF Explored
<1>12. \A j \in Explorations(b) : j # n => j < n
  <2>1. trials[n].converged # "yes"
    BY <1>1 DEF ResultInv, Waiting
  <2>2. \A j \in Explorations(b) : ~(n < j)
    BY <1>7, <1>10, <2>1 DEF RoundInv, OrderInv
  <2>3. \A j \in Explorations(b) : j \in Nat
    BY <1>1, InPlace
  <2> QED
    BY <1>10, <2>2, <2>3
<1> QED
  BY <1>2, <1>3, <1>4, <1>6, <1>7, <1>10, <1>11, <1>12

(* It has its result. *)
LEMMA AwaitedCompletes ==
  ASSUME RoundInv, RoundInv', NEW g, Follows(g), stage = "Pruning", NEW n \in DOMAIN trials, Waiting(n),
         DOMAIN trials' = DOMAIN trials, \A i \in DOMAIN trials \ {n} : trials'[i] = trials[i],
         trials'[n].batch_size = trials[n].batch_size, trials'[n].type = trials[n].type,
         trials'[n].status = "Succeeded"
  PROVE  \A h : h = Tell(g, trials'[n]) => Follows(h)'
<1>0. TrialInv /\ ResultInv /\ TrialInv' /\ ResultInv'
  BY DEF RoundInv, IInv
<1>1. PICK b, r : b = g.expecting /\ r = g.round
  OBVIOUS
<1>2. /\ Asking(g) /\ trials[n].batch_size = b /\ b \in BatchSizes /\ r \in Nat \ {0} /\ Explored(b, r)
      /\ n \in Explorations(b) /\ Place(n, Explorations(b)) = r
  BY <1>1, Awaited
<1>3. \A x : Explorations(x)' = Explorations(x)
  BY DEF Explorations, Waiting
<1>4. \A x, q : Explored(x, q)' <=> Explored(x, q)
  BY <1>3 DEF Explored
<1>5. \A x : \A i \in Explorations(x), q \in Nat : q = Place(i, Explorations(x)) => Result(x, q)' = trials'[i]
  <2>1. AllInPlace'
    BY <1>0, InPlaceHolds, PTL
  <2>2. \A x : \A i \in Explorations(x)', q \in Nat :
          q = Place(i, Explorations(x)') => Result(x, q)' = trials'[i]
    BY <2>1 DEF AllInPlace
  <2> QED
    BY <1>3, <2>2
<1>6. SameBut(b, r)
  <2>1. ASSUME NEW x \in BatchSizes, NEW q \in Nat \ {0}, x # b \/ q # r, Explored(x, q)
        PROVE  Result(x, q)' = Result(x, q)
    <3>1. PICK i \in Explorations(x) : Place(i, Explorations(x)) = q /\ Result(x, q) = trials[i]
      BY <1>0, <2>1, InPlace
    <3>2. i # n
      BY <1>2, <2>1, <3>1 DEF Explorations
    <3>3. trials'[i] = trials[i]
      BY <3>1, <3>2 DEF Explorations
    <3>4. Result(x, q)' = trials'[i]
      BY <1>5, <3>1
    <3> QED
      BY <3>1, <3>3, <3>4
  <2> QED
    BY <1>4, <2>1 DEF SameBut
<1>7. Asking(g)'
  BY <1>0, <1>1, <1>2, <1>6, AskingStays
<1>8. Result(b, r)' = trials'[n] /\ Explored(b, r)'
  BY <1>2, <1>4, <1>5
<1>9. Due(g)'
  BY <1>1, <1>7, <1>8 DEF Due
<1>10. PICK t : t = trials'[n]
  OBVIOUS
<1>11. Follows(Pruning!NextBatch(Pruning!SendResult(g, b, t.cost, t.converged = "yes")))'
  <2>1. TellsForm'
    BY Tells, PTL
  <2>2. (LET u == Result(g.expecting, g.round)
         IN Follows(Pruning!NextBatch(Pruning!SendResult(g, g.expecting, u.cost, u.converged = "yes"))))'
    BY <1>0, <1>9, <2>1 DEF TellsForm
  <2> QED
    BY <1>1, <1>8, <1>10, <2>2
<1>12. Tell(g, t) = Pruning!NextBatch(Pruning!SendResult(g, b, t.cost, t.converged = "yes"))
  BY <1>2, <1>10 DEF Tell, Waiting
<1>13. ASSUME NEW h, h = Tell(g, trials'[n]) PROVE Follows(h)'
  <2>1. h = Pruning!NextBatch(Pruning!SendResult(g, b, t.cost, t.converged = "yes"))
    BY <1>10, <1>12, <1>13
  <2> QED
    BY <1>11, <2>1
<1> QED
  BY <1>13

(* It has failed. *)
LEMMA AwaitedFails ==
  ASSUME RoundInv, RoundInv', NEW g, Follows(g), stage = "Pruning", NEW n \in DOMAIN trials, Waiting(n),
         DOMAIN trials' = DOMAIN trials, \A i \in DOMAIN trials \ {n} : trials'[i] = trials[i],
         trials'[n].status = "Failed"
  PROVE  Follows(g)'
<1>0. TrialInv /\ ResultInv /\ TrialInv' /\ ResultInv'
  BY DEF RoundInv, IInv
<1>1. PICK b, r, X, Y : b = g.expecting /\ r = g.round /\ X = Explorations(b) /\ Y = Explorations(b)'
  OBVIOUS
<1>2. /\ Asking(g) /\ trials[n].batch_size = b /\ b \in BatchSizes /\ r \in Nat \ {0} /\ Explored(b, r)
      /\ n \in X /\ Cardinality(X) = r /\ \A i \in X : i # n => i < n
  BY <1>1, Awaited
<1>3. Y = X \ {n} /\ IsFiniteSet(X) /\ \A i \in X : i \in Nat
  <2>1. Y = X \ {n}
    BY <1>1 DEF Explorations
  <2> QED
    BY <1>0, <1>1, <2>1, InPlace
<1>4. \A x : x # b => Explorations(x)' = Explorations(x) /\ \A i \in Explorations(x) : trials'[i] = trials[i]
  BY <1>2 DEF Explorations
<1>5. Cardinality(Y) = r - 1
  BY <1>2, <1>3, FS_RemoveElement
<1>6. \A q \in Nat \ {0} : (Explored(b, q) <=> r >= q) /\ (Explored(b, q)' <=> r - 1 >= q)
  BY <1>1, <1>2, <1>5 DEF Explored
<1>7. ASSUME NEW i \in Y PROVE Place(i, Y) = Place(i, X)
  <2>1. {j \in Y : j <= i} = {j \in X : j <= i}
    <3>1. ~(n <= i)
      BY <1>2, <1>3
    <3> QED
      BY <1>3, <3>1
  <2> QED
    BY <2>1 DEF Place
<1>8. \A i \in Y, q \in Nat : q = Place(i, Y) => Result(b, q)' = trials'[i]
  <2>1. AllInPlace'
    BY <1>0, InPlaceHolds, PTL
  <2> QED
    BY <1>1, <2>1 DEF AllInPlace
<1>9. ASSUME NEW q \in Nat \ {0}, q # r, Explored(b, q) PROVE Result(b, q)' = Result(b, q)
  <2>1. PICK i \in X : Place(i, X) = q /\ Result(b, q) = trials[i]
    BY <1>0, <1>1, <1>9, InPlace
  <2>2. Place(n, X) = r
    BY <1>1, Awaited
  <2>3. i \in Y
    BY <1>3, <1>9, <2>1, <2>2
  <2>4. Result(b, q)' = trials'[i]
    BY <1>7, <1>8, <2>1, <2>3
  <2>5. trials'[i] = trials[i]
    BY <1>1, <1>3, <2>1, <2>3 DEF Explorations
  <2> QED
    BY <2>1, <2>4, <2>5
<1>10. SameBut(b, r)
  <2>1. ASSUME NEW x \in BatchSizes, NEW q \in Nat \ {0}, x # b \/ q # r
        PROVE  /\ Explored(x, q)' <=> Explored(x, q)
               /\ Explored(x, q) => Result(x, q)' = Result(x, q)
    <3>1. CASE x # b
      BY <1>0, <1>4, <3>1, Unmoved
    <3>2. CASE x = b
      BY <1>2, <1>6, <1>9, <2>1, <3>2
    <3> QED
      BY <3>1, <3>2
  <2> QED
    BY <2>1 DEF SameBut
<1>11. Asking(g)'
  BY <1>0, <1>1, <1>2, <1>10, AskingStays
<1>12. ~Explored(b, r)'
  BY <1>2, <1>6
<1> QED
  BY <1>1, <1>11, <1>12 DEF Follows

(* The exploration it asks for is issued. *)
LEMMA AwaitedIssued ==
  ASSUME RoundInv, RoundInv', NEW g, Follows(g), NextBatchSize.kind = "explore", NEW n \in Nat,
         DOMAIN trials = 1..n, DOMAIN trials' = 1..(n + 1), \A i \in 1..n : trials'[i] = trials[i],
         trials'[n + 1] = NewTrial(NextBatchSize.bs, "Exploration")
  PROVE  Follows(g)'
<1>0. TrialInv /\ ResultInv /\ TrialInv' /\ ResultInv'
  BY DEF RoundInv, IInv
<1>1. Asking(g) /\ (Explored(g.expecting, g.round) => Result(g.expecting, g.round).status = "Dispatched")
  <2>1. ~Ended(g)
    BY EndedAgrees
  <2> QED
    BY <2>1 DEF Follows
<1>2. PICK b, r, m, acc : b = g.expecting /\ r = g.round /\ m = n + 1 /\ acc = AfterRound[g.round - 1]
  OBVIOUS
<1>3. ~Explored(b, r) /\ NextBatchSize.bs = b
  BY <1>0, <1>1, <1>2, AskingAgrees
<1>4. InRound(g, acc) /\ (AsksDown(g, acc, b) \/ AsksUp(g, acc, b))
  BY <1>1, <1>2 DEF Asking
<1>5. r \in Nat \ {0} /\ r - 1 \in 0..NumPruningRounds
  BY <1>2, <1>4, Sizes DEF InRound
<1>6. LeftAt(r - 1, acc) /\ acc.kind = "over"
  BY <1>0, <1>2, <1>4, <1>5, RoundsFind DEF InRound
<1>7. b \in acc.left /\ b \in BatchSizes
  <2>1. Lower(acc) \cup Upper(acc) = acc.left /\ acc.left \subseteq BatchSizes
    BY <1>6, Lists DEF LeftAt, Found
  <2> QED
    BY <1>4, <2>1 DEF AsksDown, AsksUp
<1>8. Cardinality(Explorations(b)) = r - 1 /\ Cardinality(Explorations(b)) \in Nat
  <2>1. Cardinality(Explorations(b)) \in Nat
    BY <1>0, InPlace
  <2>2. ~(Cardinality(Explorations(b)) >= r)
    BY <1>3 DEF Explored
  <2>3. r = 1 \/ Cardinality(Explorations(b)) >= r - 1
    <3>1. ASSUME r # 1 PROVE Cardinality(Explorations(b)) >= r - 1
      <4>1. r - 1 \in 1..(r - 1)
        BY <1>5, <3>1
      <4>2. ~Stops(b, r - 1)
        BY <1>6, <1>7, <4>1 DEF LeftAt
      <4> QED
        BY <4>2 DEF Stops, Explored
    <3> QED
      BY <3>1
  <2> QED
    BY <1>5, <2>1, <2>2, <2>3
<1>9. /\ trials'[m].batch_size = b /\ trials'[m].type = "Exploration" /\ trials'[m].status = "Dispatched"
  BY <1>2, <1>3 DEF NewTrial
<1>10. \A i \in 1..m : i \in 1..n \/ i = m
  BY <1>2
<1>11. /\ Explorations(b)' = Explorations(b) \cup {m} /\ m \in Nat
       /\ \A x : x # b => Explorations(x)' = Explorations(x)
       /\ \A x : \A i \in Explorations(x) : i < m /\ trials'[i] = trials[i]
  BY <1>2, <1>9, <1>10 DEF Explorations
<1>12. \A q \in Nat \ {0} :
        /\ Explored(b, q) => Explored(b, q)' /\ Result(b, q)' = Result(b, q)
        /\ ~Explored(b, q) /\ Explored(b, q)' => Result(b, q)' = trials'[m]
  BY <1>0, <1>11, Appended
<1>13. m \notin Explorations(b) /\ IsFiniteSet(Explorations(b))
  <2>1. ~(m < m)
    BY <1>11
  <2> QED
    BY <1>0, <1>11, <2>1, InPlace
<1>14. Cardinality(Explorations(b)') = r
  <2>1. Cardinality(Explorations(b) \cup {m}) = Cardinality(Explorations(b)) + 1
    BY <1>13, FS_AddElement
  <2> QED
    BY <1>5, <1>8, <1>11, <2>1
<1>15. \A q \in Nat \ {0} : (Explored(b, q) <=> r - 1 >= q) /\ (Explored(b, q)' <=> r >= q)
  BY <1>8, <1>14 DEF Explored
<1>16. SameBut(b, r)
  <2>1. ASSUME NEW x \in BatchSizes, NEW q \in Nat \ {0}, x # b \/ q # r
        PROVE  /\ Explored(x, q)' <=> Explored(x, q)
               /\ Explored(x, q) => Result(x, q)' = Result(x, q)
    <3>1. CASE x # b
      BY <1>0, <1>11, <3>1, Unmoved
    <3>2. CASE x = b
      BY <1>5, <1>12, <1>15, <2>1, <3>2
    <3> QED
      BY <3>1, <3>2
  <2> QED
    BY <2>1 DEF SameBut
<1>17. Asking(g)'
  BY <1>0, <1>1, <1>2, <1>16, AskingStays
<1>18. Explored(b, r)' => Result(b, r)'.status = "Dispatched"
  BY <1>3, <1>5, <1>9, <1>12
<1> QED
  BY <1>2, <1>17, <1>18 DEF Follows

-----------------------------------------------------------------------------
(* How the steps move the generator, and the arms of the bandit.           *)
LEMMA Counted ==
  ASSUME TrialInv
  PROVE  \A a : IsFiniteSet(ResultsOf(a)) /\ Cardinality(ResultsOf(a)) \in Nat
<1>1. PICK n \in Nat : DOMAIN trials = 1..n
  BY DEF TrialInv
<1>2. \A a : ResultsOf(a) \subseteq 1..n
  BY <1>1 DEF ResultsOf
<1>3. IsFiniteSet(1..n)
  BY <1>1, FS_Interval
<1> QED
  BY <1>2, <1>3, FS_Subset, FS_CardinalityType

(* A step that leaves the explorations as they are leaves the generator    *)
(* where it is.                                                            *)
LEMMA Unheard ==
  ASSUME RoundInv, RoundInv', FollowsInv, HeardInv, stage' = stage, HearsNothing,
         \A bs : /\ Explorations(bs)' = Explorations(bs)
                 /\ \A i \in Explorations(bs) : trials'[i] = trials[i]
  PROVE  Generator' = Generator /\ FollowsInv'
<1>0. TrialInv /\ ResultInv /\ TrialInv'
  BY DEF RoundInv, IInv
<1>1. PICK g : g = Generator
  OBVIOUS
<1>2. Generator' = g
  BY <1>0, <1>1, GeneratorKept
<1>3. ASSUME stage = "Pruning" PROVE Follows(g)'
  <2>1. Follows(g)
    BY <1>1, <1>3 DEF FollowsInv
  <2>2. \A q \in Nat \ {0} : SameOn(BatchSizes, q)
    BY <1>0, Untouched
  <2> QED
    BY <1>0, <2>1, <2>2, FollowsStays
<1> QED
  BY <1>1, <1>2, <1>3 DEF FollowsInv

LEMMA QuietGenerator ==
  ASSUME RoundInv, RoundInv', GeneratorInv, UNCHANGED <<trials, stage, arms>>
  PROVE  GeneratorInv'
<1>0. HearsNothing
  BY DEF HearsNothing
<1>5. \A bs : /\ Explorations(bs)' = Explorations(bs)
              /\ \A i \in Explorations(bs) : trials'[i] = trials[i]
  BY DEF Explorations
<1>1. Generator' = Generator /\ FollowsInv'
  BY <1>0, <1>5, Unheard DEF GeneratorInv
<1>2. HeardInv'
  BY DEF GeneratorInv, HeardInv, Waiting, Completed
<1>3. BanditInv'
  BY <1>1 DEF GeneratorInv, BanditInv, ResultsOf
<1> QED
  BY <1>1, <1>2, <1>3 DEF GeneratorInv

(* The job is new. *)
LEMMA JobBegins ==
  ASSUME trials = <<>>, stage = "Pruning", RoundInv
  PROVE  GeneratorInv
<1>0. TrialInv /\ ResultInv
  BY DEF RoundInv, IInv
<1>1. Len(trials) = 0 /\ DOMAIN trials = {}
  OBVIOUS
<1>2. Generator = NewlyAsked
  BY <1>0, <1>1, GeneratorTold DEF Generator, GeneratorSteps
<1>3. \A b \in BatchSizes : ~Explored(b, 1)
  <2>1. \A b : Explorations(b) = {}
    BY <1>1 DEF Explorations
  <2> QED
    BY <2>1, FS_EmptySet DEF Explored
<1>4. Follows(NewlyAsked)
  BY <1>0, <1>3, BeginsFollowing DEF BeginsForm, NewlyAsked
<1>5. HeardInv
  BY <1>1 DEF HeardInv
<1> QED
  BY <1>2, <1>4, <1>5 DEF GeneratorInv, FollowsInv, BanditInv

NewForm == trials = <<>> /\ stage = "Pruning" /\ RoundInv => GeneratorInv

LEMMA NewHolds == NewForm
  BY JobBegins DEF NewForm

(* A trial is issued. *)
LEMMA IssueHeard ==
  ASSUME RoundInv, HeardInv, NEW bs, NEW type, CreateTrial(bs, type)
  PROVE  /\ HeardInv' /\ HearsNothing /\ \A a : ResultsOf(a)' = ResultsOf(a)
         /\ type # "Exploration" => \A b : /\ Explorations(b)' = Explorations(b)
                                           /\ \A i \in Explorations(b) : trials'[i] = trials[i]
<1>1. PICK n \in Nat :
        /\ n = Len(trials) /\ DOMAIN trials = 1..n /\ DOMAIN trials' = 1..(n + 1)
        /\ trials'[n + 1] = NewTrial(bs, type) /\ \A i \in 1..n : trials'[i] = trials[i]
  BY Creates DEF RoundInv, IInv
<1>2. NewTrial(bs, type).status = "Dispatched" /\ NewTrial(bs, type).type = type
  BY DEF NewTrial
<1>3. \A i \in 1..(n + 1) : i \in 1..n \/ i = n + 1
  OBVIOUS
<1>4. Len(trials)' = n + 1
  BY <1>1 DEF CreateTrial, RoundInv, IInv, TrialInv
<1>5. HeardInv'
  <2>1. \A i \in DOMAIN trials' : trials'[i].status \in {"Dispatched", "Succeeded", "Failed"}
    BY <1>1, <1>2, <1>3 DEF HeardInv
  <2>2. ASSUME NEW i \in DOMAIN trials', NEW j \in DOMAIN trials', Waiting(i)', Completed(j)'
        PROVE  j < i
    <3>1. j \in 1..n /\ Completed(j)
      BY <1>1, <1>2, <1>3, <2>2 DEF Completed
    <3>2. CASE i = n + 1
      BY <3>1, <3>2
    <3>3. CASE i \in 1..n
      BY <1>1, <2>2, <3>1, <3>3 DEF HeardInv, Waiting
    <3> QED
      BY <1>1, <1>3, <3>2, <3>3
  <2> QED
    BY <2>1, <2>2 DEF HeardInv
<1>6. \A a : ResultsOf(a)' = ResultsOf(a)
  BY <1>1, <1>2, <1>3 DEF ResultsOf
<1>7. HearsNothing
  <2>1. \A i \in DOMAIN trials' \ DOMAIN trials : ~Completed(i)'
    BY <1>1, <1>2, <1>3 DEF Completed
  <2> QED
    BY <1>1, <1>4, <2>1 DEF HearsNothing
<1>8. ASSUME type # "Exploration"
      PROVE  \A b : /\ Explorations(b)' = Explorations(b)
                    /\ \A i \in Explorations(b) : trials'[i] = trials[i]
  BY <1>1, <1>2, <1>3, <1>8 DEF Explorations
<1> QED
  BY <1>1, <1>4, <1>5, <1>6, <1>7, <1>8

(* The next exploration. *)
LEMMA ExplorationHeard ==
  ASSUME RoundInv, RoundInv', GeneratorInv, stage = "Pruning", stage' = stage,
         NextBatchSize.kind = "explore", CreateTrial(NextBatchSize.bs, "Exploration")
  PROVE  GeneratorInv'
<1>0. TrialInv /\ TrialInv'
  BY DEF RoundInv, IInv
<1>1. PICK b : b = NextBatchSize.bs
  OBVIOUS
<1>2. HeardInv' /\ HearsNothing
  BY <1>1, IssueHeard DEF GeneratorInv
<1>3. PICK g : g = Generator
  OBVIOUS
<1>4. Generator' = g
  BY <1>0, <1>2, <1>3, GeneratorKept
<1>5. Follows(g)
  BY <1>3 DEF GeneratorInv, FollowsInv
<1>6. PICK n \in Nat :
        /\ DOMAIN trials = 1..n /\ DOMAIN trials' = 1..(n + 1) /\ \A i \in 1..n : trials'[i] = trials[i]
        /\ trials'[n + 1] = NewTrial(NextBatchSize.bs, "Exploration")
  BY <1>0, <1>1, Creates
<1>7. Follows(g)'
  BY <1>5, <1>6, AwaitedIssued
<1> QED
  BY <1>2, <1>4, <1>7 DEF GeneratorInv, FollowsInv, BanditInv

(* One that is no exploration. *)
LEMMA OtherHeard ==
  ASSUME RoundInv, RoundInv', GeneratorInv, stage' = stage, arms' = arms,
         NEW bs, NEW type, type # "Exploration", CreateTrial(bs, type)
  PROVE  GeneratorInv'
<1>1. /\ HeardInv' /\ HearsNothing /\ \A a : ResultsOf(a)' = ResultsOf(a)
      /\ \A b : /\ Explorations(b)' = Explorations(b)
                /\ \A i \in Explorations(b) : trials'[i] = trials[i]
  BY IssueHeard DEF GeneratorInv
<1>2. Generator' = Generator /\ FollowsInv'
  BY <1>1, Unheard DEF GeneratorInv
<1>3. BanditInv'
  BY <1>1, <1>2 DEF GeneratorInv, BanditInv
<1> QED
  BY <1>1, <1>2, <1>3 DEF GeneratorInv

(* The bandit takes over. *)
LEMMA MabHeard ==
  ASSUME RoundInv, RoundInv', GeneratorInv, stage = "Pruning", NextBatchSize.kind = "over",
         ToMab(NewArms(NextBatchSize.left)), NEW bs, CreateTrial(bs, "MAB")
  PROVE  GeneratorInv'
<1>0. TrialInv /\ TrialInv' /\ ResultInv
  BY DEF RoundInv, IInv
<1>1. PICK g, left : g = Generator /\ left = NextBatchSize.left
  OBVIOUS
<1>2. /\ HeardInv' /\ HearsNothing /\ \A a : ResultsOf(a)' = ResultsOf(a)
  BY IssueHeard DEF GeneratorInv
<1>3. Generator' = g
  BY <1>0, <1>1, <1>2, GeneratorKept
<1>4. Ended(g)
  <2>1. Follows(g)
    BY <1>1 DEF GeneratorInv, FollowsInv
  <2> QED
    BY <1>0, <2>1, AskingAgrees DEF Follows
<1>5. g.is = "over" /\ g.left = left /\ left # {}
  BY <1>0, <1>1, <1>4, EndedAgrees, SomethingLeft
<1>6. /\ stage' = "MAB" /\ DOMAIN arms' = left
      /\ \A a \in left : arms'[a] = Cardinality(Explorations(a))
  BY <1>1 DEF ToMab, NewArms
<1>7. ASSUME NEW a \in left
      PROVE  Cardinality(Explorations(a)) \in Nat /\ Cardinality(Explorations(a)) <= Cardinality(ResultsOf(a))
  <2>1. Explorations(a) \subseteq ResultsOf(a)
    <3>1. \A i \in DOMAIN trials : ~Waiting(i)
      BY DEF RoundInv, WaitingInv
    <3> QED
      BY <3>1 DEF GeneratorInv, HeardInv, Explorations, ResultsOf, Waiting
  <2>2. IsFiniteSet(ResultsOf(a)) /\ Cardinality(ResultsOf(a)) \in Nat
    BY <1>0, Counted
  <2>3. IsFiniteSet(Explorations(a)) /\ Cardinality(Explorations(a)) \in Nat
    BY <1>0, InPlace
  <2> QED
    BY <2>1, <2>2, <2>3, FS_Subset
<1>8. BanditInv'
  BY <1>2, <1>3, <1>5, <1>6, <1>7 DEF BanditInv
<1> QED
  BY <1>2, <1>6, <1>8 DEF GeneratorInv, FollowsInv

-----------------------------------------------------------------------------
(* A trial ends: with a result, or without. *)
LEMMA SameLength ==
  ASSUME TrialInv, TrialInv', DOMAIN trials' = DOMAIN trials
  PROVE  Len(trials)' = Len(trials)
<1>1. PICK m, l : m = Len(trials) /\ l = Len(trials)'
  OBVIOUS
<1>2. (TrialInv => Len(trials) \in Nat /\ DOMAIN trials = 1..Len(trials))'
  BY Tallied, PTL
<1>3. m \in Nat /\ l \in Nat /\ DOMAIN trials = 1..m /\ DOMAIN trials = 1..l
  BY <1>1, <1>2, Tallied
<1>4. 1..m = 1..l
  BY <1>3
<1>5. m = l
  BY <1>3, <1>4
<1> QED
  BY <1>1, <1>5

LEMMA EndedHeard ==
  ASSUME RoundInv, TrialInv', HeardInv, NEW n \in DOMAIN trials, trials[n].status = "Dispatched",
         DOMAIN trials' = DOMAIN trials, \A i \in DOMAIN trials \ {n} : trials'[i] = trials[i],
         trials'[n].status \in {"Succeeded", "Failed"},
         trials'[n].batch_size = trials[n].batch_size, trials'[n].type = trials[n].type
  PROVE  /\ HeardInv'
         /\ \A a : n \notin ResultsOf(a)
         /\ \A a : a # trials[n].batch_size \/ trials'[n].status = "Failed" => ResultsOf(a)' = ResultsOf(a)
         /\ trials'[n].status = "Succeeded" =>
              ResultsOf(trials[n].batch_size)' = ResultsOf(trials[n].batch_size) \cup {n}
         /\ ~Completed(n)' => HearsNothing
         /\ trials[n].type # "Exploration" =>
              /\ ~Completed(n)'
              /\ \A b : /\ Explorations(b)' = Explorations(b)
                        /\ \A i \in Explorations(b) : trials'[i] = trials[i]
<1>0. TrialInv
  BY DEF RoundInv, IInv
<1>1. ASSUME NEW i \in DOMAIN trials' PROVE Waiting(i)' => Waiting(i) /\ i # n
  BY <1>1 DEF Waiting
<1>2. ASSUME NEW i \in DOMAIN trials', Completed(i)' PROVE Completed(i) \/ (i = n /\ Waiting(n))
  BY <1>2 DEF Completed, Waiting
<1>3. HeardInv'
  <2>1. \A i \in DOMAIN trials' : trials'[i].status \in {"Dispatched", "Succeeded", "Failed"}
    BY DEF HeardInv
  <2>2. ASSUME NEW i \in DOMAIN trials', NEW j \in DOMAIN trials', Waiting(i)', Completed(j)'
        PROVE  j < i
    <3>1. Waiting(i) /\ i # n
      BY <1>1, <2>2
    <3>2. ~Waiting(n)
      BY <3>1 DEF RoundInv, WaitingInv
    <3>3. Completed(j)
      BY <1>2, <2>2, <3>2
    <3> QED
      BY <3>1, <3>3 DEF HeardInv
  <2> QED
    BY <2>1, <2>2 DEF HeardInv
<1>4. \A a : n \notin ResultsOf(a)
  BY DEF ResultsOf
<1>5. \A a : a # trials[n].batch_size \/ trials'[n].status = "Failed" => ResultsOf(a)' = ResultsOf(a)
  BY DEF ResultsOf
<1>6. ASSUME trials'[n].status = "Succeeded"
      PROVE  ResultsOf(trials[n].batch_size)' = ResultsOf(trials[n].batch_size) \cup {n}
  <2>1. PICK b : b = trials[n].batch_size
    OBVIOUS
  <2>2. ResultsOf(b)' = ResultsOf(b) \cup {n}
    BY <1>6, <2>1 DEF ResultsOf
  <2> QED
    BY <2>1, <2>2
<1>7. ASSUME ~Completed(n)' PROVE HearsNothing
  <2>1. Len(trials)' = Len(trials)
    BY <1>0, SameLength
  <2>2. ~Completed(n)
    BY DEF Completed
  <2> QED
    BY <1>7, <2>1, <2>2 DEF HearsNothing
<1>8. ASSUME trials[n].type # "Exploration"
      PROVE  /\ ~Completed(n)'
             /\ \A b : /\ Explorations(b)' = Explorations(b)
                       /\ \A i \in Explorations(b) : trials'[i] = trials[i]
  BY <1>8 DEF Completed, Explorations
<1> QED
  BY <1>3, <1>4, <1>5, <1>6, <1>7, <1>8

(* With a result: of an exploration, which the generator is sent, of a     *)
(* concurrent trial or of an arm, which has one more.                      *)
LEMMA StopHeard ==
  ASSUME RoundInv, RoundInv', GeneratorInv, NEW c \in Clients, StopTraining(c)
  PROVE  GeneratorInv'
<1>0. TrialInv /\ TrialInv' /\ ResultInv /\ HeardInv
  BY DEF RoundInv, IInv, GeneratorInv
<1>1. PICK n, cost, converged :
        /\ n \in DOMAIN trials /\ trials[n].status = "Dispatched" /\ Accepted(n) /\ stage' = stage
        /\ trials' = [trials EXCEPT ![n] = UpdatedTrial(n, cost, converged)]
        /\ IF stage = "MAB" THEN UpdateArm(trials[n].batch_size) ELSE UNCHANGED arms
  <2>1. PICK n : n = client[c].trial
    OBVIOUS
  <2>2. PICK cost, converged :
          /\ Dispatched(c) /\ Accepted(n) /\ UpdateTrial(n, cost, converged) /\ stage' = stage
          /\ IF stage = "MAB" THEN UpdateArm(trials[n].batch_size) ELSE UNCHANGED arms
    BY <2>1 DEF StopTraining, Evaluates
  <2>3. trials' = [trials EXCEPT ![n] = UpdatedTrial(n, cost, converged)]
    BY <2>2 DEF UpdateTrial
  <2>4. n \in DOMAIN trials /\ trials[n].status = "Dispatched"
    BY <2>1, <2>2 DEF Dispatched
  <2> QED
    BY <2>2, <2>3, <2>4
<1>2. PICK t : t = UpdatedTrial(n, cost, converged)
  OBVIOUS
<1>3. t.status = "Succeeded" /\ t.batch_size = trials[n].batch_size /\ t.type = trials[n].type
  BY <1>0, <1>1, <1>2 DEF UpdatedTrial, TrialInv
<1>4. /\ DOMAIN trials' = DOMAIN trials /\ trials'[n] = t
      /\ \A i \in DOMAIN trials \ {n} : trials'[i] = trials[i]
  BY <1>1, <1>2
<1>5. PICK b : b = trials[n].batch_size
  OBVIOUS
<1>6. /\ trials'[n].status \in {"Succeeded", "Failed"} /\ trials'[n].status = "Succeeded"
      /\ trials'[n].batch_size = trials[n].batch_size /\ trials'[n].type = trials[n].type
  BY <1>3, <1>4
<1>7. /\ HeardInv' /\ n \notin ResultsOf(b) /\ ResultsOf(b)' = ResultsOf(b) \cup {n}
      /\ \A a : a # b => ResultsOf(a)' = ResultsOf(a)
      /\ ~Completed(n)' => HearsNothing
      /\ trials[n].type # "Exploration" =>
              /\ ~Completed(n)'
              /\ \A x : /\ Explorations(x)' = Explorations(x)
                        /\ \A i \in Explorations(x) : trials'[i] = trials[i]
  BY <1>0, <1>1, <1>4, <1>5, <1>6, EndedHeard
<1>8. CASE trials[n].type = "Exploration"
  <2>1. stage = "Pruning" /\ Waiting(n)
    BY <1>1, <1>8 DEF Accepted, GeneratorInv, Waiting
  <2>2. PICK g, h : g = Generator /\ h = Tell(g, trials'[n])
    OBVIOUS
  <2>3. ~Completed(n) /\ Completed(n)' /\ \A i \in DOMAIN trials : Completed(i) => i < n
    BY <1>0, <1>1, <1>6, <1>8, <2>1 DEF Completed, HeardInv
  <2>4. Generator' = h
    BY <1>0, <1>1, <1>4, <2>2, <2>3, GeneratorHears
  <2>5. Follows(g)
    BY <2>1, <2>2 DEF GeneratorInv, FollowsInv
  <2>6. Follows(h)'
    BY <1>1, <1>4, <1>6, <2>1, <2>2, <2>5, AwaitedCompletes
  <2> QED
    BY <1>1, <1>7, <2>1, <2>4, <2>6 DEF GeneratorInv, FollowsInv, BanditInv
<1>9. CASE trials[n].type # "Exploration"
  <2>1. Generator' = Generator /\ FollowsInv'
    BY <1>0, <1>1, <1>7, <1>9, Unheard DEF GeneratorInv
  <2>2. ASSUME stage = "MAB" PROVE BanditInv'
    <3>1. b \in DOMAIN arms /\ UpdateArm(b)
      BY <1>1, <1>5, <2>2 DEF Accepted, HasArm
    <3>2. PICK k : k = Cardinality(ResultsOf(b))
      OBVIOUS
    <3>3. k \in Nat /\ IsFiniteSet(ResultsOf(b))
      BY <1>0, <3>2, Counted
    <3>4. Cardinality(ResultsOf(b)') = k + 1
      <4>1. Cardinality(ResultsOf(b) \cup {n}) = Cardinality(ResultsOf(b)) + 1
        BY <1>7, <3>3, FS_AddElement
      <4> QED
        BY <1>7, <3>2, <4>1
    <3>5. arms'[b] \in Nat /\ arms'[b] <= k + 1
      <4>1. WindowSize \in Nat
        BY JobAssumption DEF ValidJob
      <4>2. arms'[b] = IF WindowSize > 0 /\ k >= WindowSize THEN WindowSize ELSE k + 1
        BY <3>1, <3>2 DEF UpdateArm
      <4> QED
        BY <3>3, <4>1, <4>2
    <3>6. DOMAIN arms' = DOMAIN arms /\ \A a \in DOMAIN arms : a # b => arms'[a] = arms[a]
      BY <3>1 DEF UpdateArm
    <3>7. ASSUME NEW a \in DOMAIN arms' PROVE arms'[a] \in Nat /\ arms'[a] <= Cardinality(ResultsOf(a)')
      <4>1. CASE a = b
        BY <3>4, <3>5, <4>1
      <4>2. CASE a # b
        BY <1>7, <2>2, <3>6, <4>2 DEF GeneratorInv, BanditInv
      <4> QED
        BY <4>1, <4>2
    <3> QED
      BY <2>1, <2>2, <3>6, <3>7 DEF GeneratorInv, BanditInv
  <2>3. BanditInv'
    BY <1>1, <2>2 DEF BanditInv
  <2> QED
    BY <1>1, <1>7, <2>1, <2>3 DEF GeneratorInv
<1> QED
  BY <1>8, <1>9

(* Without one: the generator goes on asking. *)
LEMMA EndHeard ==
  ASSUME RoundInv, RoundInv', GeneratorInv, NEW c \in Clients, EndTrial(c)
  PROVE  GeneratorInv'
<1>0. TrialInv /\ TrialInv' /\ ResultInv /\ HeardInv
  BY DEF RoundInv, IInv, GeneratorInv
<1>1. stage' = stage /\ arms' = arms
  BY DEF EndTrial
<1>2. CASE ~Dispatched(c)
  <2>1. UNCHANGED <<trials, stage, arms>>
    BY <1>2 DEF EndTrial
  <2> QED
    BY <2>1, QuietGenerator
<1>3. CASE Dispatched(c)
  <2>1. PICK n : /\ n \in DOMAIN trials /\ trials[n].status = "Dispatched"
                 /\ trials' = [trials EXCEPT ![n].status = "Failed"]
    BY <1>3 DEF EndTrial, FailTrial, Dispatched
  <2>2. PICK t : t = [trials[n] EXCEPT !.status = "Failed"]
    OBVIOUS
  <2>3. t.status = "Failed" /\ t.batch_size = trials[n].batch_size /\ t.type = trials[n].type
    BY <1>0, <2>1, <2>2 DEF TrialInv
  <2>4. /\ DOMAIN trials' = DOMAIN trials /\ trials'[n] = t
        /\ \A i \in DOMAIN trials \ {n} : trials'[i] = trials[i]
    BY <2>1, <2>2
  <2>5. /\ trials'[n].status \in {"Succeeded", "Failed"} /\ trials'[n].status = "Failed"
        /\ trials'[n].batch_size = trials[n].batch_size /\ trials'[n].type = trials[n].type
        /\ ~Completed(n)'
    BY <2>3, <2>4 DEF Completed
  <2>6. /\ HeardInv' /\ HearsNothing /\ \A a : ResultsOf(a)' = ResultsOf(a)
        /\ trials[n].type # "Exploration" =>
                \A x : /\ Explorations(x)' = Explorations(x)
                       /\ \A i \in Explorations(x) : trials'[i] = trials[i]
    BY <1>0, <2>1, <2>4, <2>5, EndedHeard
  <2>7. PICK g : g = Generator
    OBVIOUS
  <2>8. Generator' = g
    BY <1>0, <2>6, <2>7, GeneratorKept
  <2>9. FollowsInv'
    <3>1. CASE trials[n].type # "Exploration"
      BY <1>1, <2>6, <3>1, Unheard DEF GeneratorInv
    <3>2. CASE trials[n].type = "Exploration"
      <4>1. ASSUME stage = "Pruning" PROVE Follows(g)'
        <5>1. Waiting(n) /\ Follows(g)
          BY <2>1, <2>7, <3>2, <4>1 DEF Waiting, GeneratorInv, FollowsInv
        <5> QED
          BY <2>1, <2>4, <2>5, <4>1, <5>1, AwaitedFails
      <4> QED
        BY <1>1, <2>8, <4>1 DEF FollowsInv
    <3> QED
      BY <3>1, <3>2
  <2>10. BanditInv'
    BY <1>1, <2>6, <2>7, <2>8 DEF GeneratorInv, BanditInv
  <2> QED
    BY <1>1, <2>6, <2>9, <2>10 DEF GeneratorInv
<1> QED
  BY <1>2, <1>3

LEMMA InitGenerator == Init => GeneratorInv
  BY JobBegins, InitRound DEF Init

LEMMA StepGenerator == RoundInv /\ GeneratorInv /\ [Next]_vars => GeneratorInv'
<1> SUFFICES ASSUME RoundInv, GeneratorInv, [Next]_vars PROVE GeneratorInv'
  OBVIOUS
<1>0. RoundInv'
  BY StepRound
<1>1. CASE UNCHANGED vars
  <2>1. UNCHANGED <<trials, stage, arms>>
    BY <1>1 DEF vars, jobVars
  <2> QED
    BY <1>0, <2>1, QuietGenerator
<1>2. CASE DeleteJob
  <2>1. (trials = <<>> /\ stage = "Pruning" /\ RoundInv)'
    BY <1>0, <1>2 DEF DeleteJob
  <2>2. NewForm'
    BY NewHolds, PTL
  <2> QED
    BY <2>1, <2>2 DEF NewForm
<1>3. ASSUME NEW c \in Clients,
             \/ RegisterJob(c) \/ PredictRefused(c) \/ KeepTraining(c)
             \/ ReportRefused(c) \/ Abort(c) \/ Kill(c)
      PROVE  GeneratorInv'
  <2>1. UNCHANGED <<trials, stage, arms>>
    BY <1>3 DEF RegisterJob, PredictRefused, KeepTraining, ReportRefused, Abort, Kill, jobVars
  <2> QED
    BY <1>0, <2>1, QuietGenerator
<1>4. ASSUME NEW c \in Clients, PredictPruning(c) PROVE GeneratorInv'
  <2>1. /\ stage = "Pruning" /\ stage' = stage /\ arms' = arms
        /\ IF NextBatchSize.kind = "explore" THEN CreateTrial(NextBatchSize.bs, "Exploration")
           ELSE CreateTrial(min_cost_batch_size, "Concurrent")
    BY <1>4 DEF PredictPruning, Issue, Asks
  <2>2. CASE NextBatchSize.kind = "explore"
    BY <1>0, <2>1, <2>2, ExplorationHeard
  <2>3. CASE NextBatchSize.kind # "explore"
    <3>1. PICK bs : bs = min_cost_batch_size
      OBVIOUS
    <3> QED
      BY <1>0, <2>1, <2>3, <3>1, OtherHeard
  <2> QED
    BY <2>2, <2>3
<1>5. ASSUME NEW c \in Clients, ConstructMab(c) PROVE GeneratorInv'
  <2>1. /\ stage = "Pruning" /\ NextBatchSize.kind = "over" /\ ToMab(NewArms(NextBatchSize.left))
        /\ \E bs : CreateTrial(bs, "MAB")
    BY <1>5 DEF ConstructMab, Issue, Asks
  <2> QED
    BY <1>0, <2>1, MabHeard
<1>6. ASSUME NEW c \in Clients, PredictMab(c) PROVE GeneratorInv'
  <2>1. stage' = stage /\ arms' = arms /\ \E bs : CreateTrial(bs, "MAB")
    BY <1>6 DEF PredictMab, Issue
  <2> QED
    BY <1>0, <2>1, OtherHeard
<1> QED
  BY <1>0, <1>1, <1>2, <1>3, <1>4, <1>5, <1>6, StopHeard, EndHeard DEF Next, ClientStep

(* After any history of processes that explore, fail, are killed or lose   *)
(* their answers, the generator that was sent the completed explorations,  *)
(* in their order, stands in the round the trials show, or has ended with  *)
(* it (next_batch_size, _exploration_engine).                             *)
THEOREM GeneratorInvariant == Spec => [](RoundInv /\ GeneratorInv)
<1>1. RoundInv /\ GeneratorInv /\ [Next]_vars => (RoundInv /\ GeneratorInv)'
  BY StepRound, StepGenerator
<1> QED
  BY <1>1, InitRound, InitGenerator, PTL DEF Spec

(* What the server works out from the trials alone is what the generator   *)
(* of zeus._legacy asks for, and the bandit it constructs gets the arms    *)
(* that generator returns, none of them fitted to more results than there  *)
(* are (next_batch_size, construct_mab, report).                           *)
THEOREM ServerAgrees == Spec => []AgreesWithGenerator
<1>1. RoundInv /\ GeneratorInv => AgreesWithGenerator
  <2> SUFFICES ASSUME RoundInv, GeneratorInv PROVE AgreesWithGenerator
    OBVIOUS
  <2>0. TrialInv /\ ResultInv
    BY DEF RoundInv, IInv
  <2>1. PICK g, next : g = Generator /\ next = NextBatchSize
    OBVIOUS
  <2>2. ASSUME stage = "Pruning"
        PROVE  /\ g.is # "broken"
               /\ CASE next.kind = "explore" -> g.is = "asked" /\ g.expecting = next.bs
                    [] next.kind = "concurrent" -> g.is = "asked"
                    [] next.kind = "none" -> g.is = "infeasible" \/ g.left = {}
                    [] next.kind = "over" -> g.is = "over" /\ g.left = next.left
    <3>1. Follows(g)
      BY <2>1, <2>2 DEF GeneratorInv, FollowsInv
    <3>2. CASE Ended(g)
      <4>1. /\ next.kind \in {"over", "none"} /\ g.is \in {"over", "infeasible"}
            /\ next.kind = "none" => g.is = "infeasible" \/ g.left = {}
            /\ next.kind = "over" => g.is = "over" /\ g.left = next.left
        BY <2>1, <3>2, EndedAgrees
      <4>2. CASE next.kind = "over"
        BY <4>1, <4>2
      <4>3. CASE next.kind = "none"
        BY <4>1, <4>3
      <4> QED
        BY <4>1, <4>2, <4>3
    <3>3. CASE Asking(g) /\ (Explored(g.expecting, g.round) => Result(g.expecting, g.round).status = "Dispatched")
      <4>1. /\ g.is = "asked"
            /\ next.kind = "concurrent" \/ (next.kind = "explore" /\ next.bs = g.expecting)
        BY <2>0, <2>1, <3>3, AskingAgrees DEF Asking
      <4> QED
        BY <4>1
    <3> QED
      BY <3>1, <3>2, <3>3 DEF Follows
  <2>3. ASSUME stage = "MAB"
        PROVE  /\ g.is # "broken" /\ DOMAIN arms # {} /\ DOMAIN arms = g.left
               /\ \A a \in DOMAIN arms : arms[a] <= Cardinality(ResultsOf(a))
    BY <2>1, <2>3 DEF GeneratorInv, BanditInv
  <2> QED
    BY <2>1, <2>2, <2>3 DEF GeneratorInv, AgreesWithGenerator
<1> QED
  BY <1>1, GeneratorInvariant, PTL
=============================================================================
