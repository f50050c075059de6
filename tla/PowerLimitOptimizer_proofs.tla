---------------------- MODULE PowerLimitOptimizer_proofs ----------------------
(***************************************************************************)
(* The ranks measure each limit once, in order and together, and settle on *)
(* the same one, for any ranks, GPUs, limits and numbers of steps, however *)
(* often they are killed or their calls raise; and the simulator of the    *)
(* legacy policies, which profile the limits too, observes and counts      *)
(* every job that it launches.                                             *)
(***************************************************************************)
EXTENDS PowerLimitOptimizer, LegacySimulator, FiniteSetTheorems, SequenceTheorems,
        WellFoundedInduction, TLAPS

Contribution == [energy : Energies, time : Times]

Entry == [power_limit : Int, energy : Nat, time : Nat]

Procs == {"starting", "training", "reducing", "reduced", "saving", "exiting", "exited", "raised"}

TypeInv ==
  /\ selector \in Selectors /\ saves \in BOOLEAN /\ proc \in [Ranks -> Procs]
  /\ DOMAIN state = Ranks /\ \A r \in Ranks : DOMAIN state[r] = {"mode", "pl", "steps"}
  /\ measurements \in [Ranks -> Seq(Entry)]
  /\ contribution \in [Ranks -> Contribution \cup {<<>>}]
  /\ file.is \in {"missing", "empty", "saved"} /\ file.holds \in Seq(Entry)

SettingInv == DOMAIN current_power_limit = Ranks /\ DOMAIN window = Ranks /\ DOMAIN gpu = AllGpus

(* The limits of the measurements are the first of the list, in order.     *)
InTheirOrder(ms) ==
  /\ Len(ms) <= Len(power_limits)
  /\ \A i \in 1..Len(ms) : ms[i].power_limit = power_limits[i] \div 1000

Complete(ms) == InTheirOrder(ms) /\ Len(ms) = Len(power_limits)

(* What each selector chooses, in milliwatts.                              *)
Chosen(choice, ms) ==
  (CASE choice = "Energy" -> FirstLeast(ms, [i \in DOMAIN ms |-> ms[i].energy])
     [] choice = "Time" -> FirstLeast(ms, [i \in DOMAIN ms |-> ms[i].time])
     [] choice = "ZeusCost" -> FirstLeast(ms, Cost(ms))
     [] choice = "MaxSlowdownConstraint" -> Min(Feasible(ms))) * 1000

Underway == {"Ready", "Warmup", "Profiling"}

(* A rank on its way through the limits, or done with them.                *)
RankInv(r) ==
  /\ InTheirOrder(measurements[r])
  /\ proc[r] \in {"starting", "raised"} => measurements[r] = <<>> /\ state[r].mode = "none"
  /\ proc[r] \in {"training", "reducing"} /\ state[r].mode # "Done" =>
       /\ state[r].mode \in Underway /\ Len(measurements[r]) < Len(power_limits)
       /\ state[r].pl = power_limits[Len(measurements[r]) + 1]
  /\ proc[r] = "reducing" => state[r].mode = "Profiling" /\ contribution[r] \in Contribution
  /\ proc[r] = "reduced" =>
       /\ state[r].mode = "Profiling" /\ Len(measurements[r]) > 0
       /\ state[r].pl = power_limits[Len(measurements[r])]
  /\ proc[r] = "saving" => state[r].mode = "Done" /\ saves
  /\ state[r].mode = "Done" =>
       Complete(measurements[r]) /\ state[r].pl = Chosen(selector, measurements[r])

(* The ranks have the same measurements, those that have any; when some of *)
(* them profiled, none is missing.                                         *)
SharedInv ==
  /\ ~saves => file.is = "missing"
  /\ file.is = "saved" =>
       /\ Complete(file.holds)
       /\ \A r \in Ranks :
            IF measurements[r] = <<>> THEN proc[r] \in {"starting", "raised"}
            ELSE measurements[r] = file.holds
  /\ \A r \in Ranks : file.is # "saved" /\ measurements[r] # <<>> =>
       \A q \in Ranks : measurements[q] = measurements[r]
  /\ \A r \in Ranks : proc[r] \in {"reduced", "saving"} =>
       \A q \in Ranks : measurements[q] = measurements[r]

(* While it profiles, a rank's GPUs have the limit it set last; once it is *)
(* done, the one it has settled on.                                        *)
LimitInv(r) ==
  /\ proc[r] = "starting" => current_power_limit[r] = 0
  /\ proc[r] \in {"starting", "reducing", "reduced", "saving"} => window[r] = {}
  /\ proc[r] = "training" =>
       window[r] = IF state[r].mode = "Profiling" THEN {state[r].pl} ELSE {}
  /\ proc[r] \in {"training", "reducing", "reduced"} /\ state[r].mode # "Done" =>
       \A g \in Range(Gpus[r]) : gpu[g] = current_power_limit[r]
  /\ proc[r] \in {"training", "reducing", "reduced"} /\ state[r].mode \in {"Warmup", "Profiling"} =>
       current_power_limit[r] = state[r].pl
  /\ proc[r] \in {"training", "saving"} /\ state[r].mode = "Done" =>
       \A g \in Range(Gpus[r]) : gpu[g] = state[r].pl

IInv ==
  /\ TypeInv /\ SettingInv /\ SharedInv
  /\ \A r \in Ranks : RankInv(r) /\ LimitInv(r)

-----------------------------------------------------------------------------

(* A set of numbers has a least one, from which induction follows.         *)
LEMMA LeastOf ==
  ASSUME NEW S \in SUBSET Nat, S # {}
  PROVE  \E n \in S : \A m \in S : n <= m
<1> DEFINE R == OpToRel(<, Nat)
<1>1. \A m, n \in Nat : m < n => <<m, n>> \in R
  BY DEF OpToRel
<1>2. IsWellFoundedOn(R, Nat)
  BY NatLessThanWellFounded
<1> HIDE DEF R
<1>3. PICK n \in S : \A m \in S : <<m, n>> \notin R
  BY <1>2, WFMin
<1>4. \A m \in S : ~(m < n)
  BY <1>1, <1>3
<1> QED
  BY <1>4

LEMMA Induct ==
  ASSUME NEW S, 0 \in S, \A n \in Nat : n \in S => n + 1 \in S
  PROVE  Nat \subseteq S
<1> SUFFICES ASSUME Nat \ S # {} PROVE FALSE
  OBVIOUS
<1>1. PICK n \in Nat \ S : \A m \in Nat \ S : n <= m
  BY LeastOf
<1> QED
  BY <1>1

(* What holds of the empty set, and of a set with one element more, holds  *)
(* of a finite set.                                                        *)
LEMMA FiniteInduct ==
  ASSUME NEW S, IsFiniteSet(S), NEW G, {} \in G,
         \A s \in SUBSET S, x \in S : s \in G => s \cup {x} \in G
  PROVE  S \in G
<1> DEFINE UpTo(n) == {s \in SUBSET S : Cardinality(s) <= n}
           Good == {n \in Nat : UpTo(n) \subseteq G}
<1>1. \A s \in SUBSET S : IsFiniteSet(s) /\ Cardinality(s) \in Nat
  BY FS_Subset, FS_CardinalityType
<1>2. 0 \in Good
  <2>1. ASSUME NEW s \in UpTo(0) PROVE s = {}
    <3>1. IsFiniteSet(s) /\ Cardinality(s) = 0
      BY <1>1
    <3> QED BY <3>1, FS_EmptySet
  <2> QED
    BY <2>1
<1>3. ASSUME NEW n \in Nat, n \in Good PROVE n + 1 \in Good
  <2>1. ASSUME NEW s \in UpTo(n + 1), s # {} PROVE s \in G
    <3>1. PICK x : x \in s
      BY <2>1
    <3>2. Cardinality(s \ {x}) = Cardinality(s) - 1 /\ Cardinality(s) <= n + 1
      BY <1>1, <3>1, FS_RemoveElement
    <3>3. s \ {x} \in UpTo(n)
      BY <1>1, <3>2
    <3>4. s \ {x} \in G /\ s = (s \ {x}) \cup {x}
      BY <1>3, <3>1, <3>3
    <3> QED
      BY <3>1, <3>4
  <2>2. ASSUME NEW s \in UpTo(n + 1) PROVE s \in G
    BY <2>1, <2>2
  <2> HIDE DEF UpTo
  <2> QED
    BY <2>2, <1>3
<1>4. Nat \subseteq Good
  <2> HIDE DEF Good
  <2> QED
    BY <1>2, <1>3, Induct
<1> QED
  BY <1>1, <1>4

LEMMA NumbersBrought ==
  ASSUME NEW brought \in [Ranks -> Contribution]
  PROVE  \A r \in Ranks : brought[r].energy \in Nat /\ brought[r].time \in Nat
<1>1. Energies \subseteq Nat /\ Times \subseteq Nat
  BY OptimizerAssumption
<1>2. \A r \in Ranks : brought[r] \in [energy : Energies, time : Times]
  BY DEF Contribution
<1> QED
  BY <1>1, <1>2

(* What the ranks bring is added up to a number, however many they are.    *)
LEMMA EnergyIsNat ==
  ASSUME NEW brought \in [Ranks -> Contribution]
  PROVE  TotalEnergy(brought) \in Nat
<1> DEFINE Pick(s) == CHOOSE x \in s : TRUE
           Sums(g, T) == [s \in T |-> IF s = {} THEN 0
                                      ELSE brought[Pick(s)].energy + g[s \ {Pick(s)}]]
           UpTo(n) == {s \in SUBSET Ranks : Cardinality(s) <= n}
           total == CHOOSE g : g = Sums(g, SUBSET Ranks)
           N == Cardinality(Ranks)
<1>1. TotalEnergy(brought) = total[Ranks]
  BY Zenon DEF TotalEnergy, MapThenSumSet, MapThenFoldSet
<1>2. /\ N \in Nat /\ UpTo(N) = SUBSET Ranks /\ UpTo(0) = {{}}
      /\ \A s \in SUBSET Ranks : Cardinality(s) \in Nat
  BY OptimizerAssumption, FS_CardinalityType, FS_Subset, FS_EmptySet
<1>3. ASSUME NEW n \in Nat, NEW s \in UpTo(n + 1), s # {}
      PROVE  /\ Pick(s) \in s /\ brought[Pick(s)].energy \in Nat
             /\ s \ {Pick(s)} \in UpTo(n)
  <2>1. Pick(s) \in s
    BY <1>3
  <2>2. Cardinality(s \ {Pick(s)}) = Cardinality(s) - 1
    <3>1. IsFiniteSet(Ranks) /\ s \subseteq Ranks
      BY OptimizerAssumption
    <3>2. IsFiniteSet(s)
      BY <3>1, FS_Subset
    <3> HIDE DEF Pick, UpTo
    <3> QED
      BY <2>1, <3>2, FS_RemoveElement
  <2>3. brought[Pick(s)].energy \in Nat
    <3>1. Pick(s) \in Ranks
      BY <1>3, <2>1
    <3> HIDE DEF Pick
    <3> QED
      BY <3>1, NumbersBrought
  <2>4. s \in SUBSET Ranks /\ s \ {Pick(s)} \in SUBSET Ranks
    OBVIOUS
  <2>5. Cardinality(s) <= n + 1 /\ Cardinality(s) \in Nat
    BY <1>2
  <2> HIDE DEF Pick
  <2> QED
    BY <2>1, <2>2, <2>3, <2>4, <2>5
<1> HIDE DEF N, Pick
<1>4. ASSUME NEW n \in Nat, NEW g, g = Sums(g, UpTo(n)), g \in [UpTo(n) -> Nat]
      PROVE  \E h : h = Sums(h, UpTo(n + 1)) /\ h \in [UpTo(n + 1) -> Nat]
  <2> DEFINE h == Sums(g, UpTo(n + 1))
  <2>1. \A s \in UpTo(n) : s \in UpTo(n + 1)
    BY <1>2
  <2>2. h \in [UpTo(n + 1) -> Nat]
    <3>1. ASSUME NEW s \in UpTo(n + 1) PROVE h[s] \in Nat
      <4>1. h[s] = IF s = {} THEN 0 ELSE brought[Pick(s)].energy + g[s \ {Pick(s)}]
        OBVIOUS
      <4>2. s # {} => brought[Pick(s)].energy \in Nat /\ g[s \ {Pick(s)}] \in Nat
        BY <1>3, <1>4
      <4> QED
        BY <4>1, <4>2
    <3> HIDE DEF UpTo
    <3> QED
      BY <3>1
  <2>3. \A s \in UpTo(n) : h[s] = g[s]
    BY <2>1, <1>4
  <2>4. h = Sums(h, UpTo(n + 1))
    BY <2>3, <1>3
  <2> QED
    BY <2>2, <2>4
<1> DEFINE Fits(n) == \E g : g = Sums(g, UpTo(n)) /\ g \in [UpTo(n) -> Nat]
<1>5. Fits(0)
  <2> DEFINE g == [s \in {{}} |-> 0]
  <2>1. g = Sums(g, UpTo(0)) /\ g \in [UpTo(0) -> Nat]
    BY <1>2
  <2> QED
    BY <2>1
<1>6. \A n \in Nat : Fits(n)
  <2> DEFINE Good == {n \in Nat : Fits(n)}
  <2>1. \A n \in Nat : Fits(n) => Fits(n + 1)
    BY <1>4
  <2> HIDE DEF Fits
  <2>2. 0 \in Good /\ \A n \in Nat : n \in Good => n + 1 \in Good
    BY <1>5, <2>1
  <2>3. Nat \subseteq Good
    <3> HIDE DEF Good
    <3> QED
      BY <2>2, Induct
  <2> QED
    BY <2>3
<1>7. PICK g : g = Sums(g, SUBSET Ranks) /\ g \in [SUBSET Ranks -> Nat]
  BY <1>2, <1>6
<1>8. total = Sums(total, SUBSET Ranks)
  BY <1>7
<1> HIDE DEF total
<1> DEFINE Agrees(n) == \A s \in UpTo(n) : total[s] = g[s]
<1>9. \A n \in Nat : Agrees(n)
  <2>1. Agrees(0)
    BY <1>2, <1>7, <1>8
  <2>2. ASSUME NEW n \in Nat, Agrees(n) PROVE Agrees(n + 1)
    BY <1>3, <1>7, <1>8, <2>2
  <2> DEFINE Good == {n \in Nat : Agrees(n)}
  <2> HIDE DEF Agrees
  <2>3. 0 \in Good /\ \A n \in Nat : n \in Good => n + 1 \in Good
    BY <2>1, <2>2
  <2>4. Nat \subseteq Good
    <3> HIDE DEF Good
    <3> QED
      BY <2>3, Induct
  <2> QED
    BY <2>4
<1>10. Agrees(N) /\ Ranks \in UpTo(N)
  BY <1>2, <1>9
<1> QED
  BY <1>1, <1>7, <1>10

LEMMA TimeIsNat ==
  ASSUME NEW brought \in [Ranks -> Contribution]
  PROVE  LongestTime(brought) \in Nat
<1> DEFINE Longest(s) == \E x \in s : \A y \in s : brought[y].time <= brought[x].time
           G == {s \in SUBSET Ranks : s = {} \/ Longest(s)}
<1>1. \A r \in Ranks : brought[r].time \in Nat
  BY NumbersBrought
<1>2. ASSUME NEW s \in SUBSET Ranks, NEW x \in Ranks, s \in G PROVE s \cup {x} \in G
  <2>1. CASE s = {}
    BY <1>1, <2>1
  <2>2. CASE Longest(s)
    <3>1. PICK z \in s : \A y \in s : brought[y].time <= brought[z].time
      BY <2>2
    <3>2. CASE brought[x].time <= brought[z].time
      BY <3>1, <3>2
    <3>3. CASE ~(brought[x].time <= brought[z].time)
      BY <1>1, <3>1, <3>3
    <3> QED
      BY <3>2, <3>3
  <2> QED
    BY <1>2, <2>1, <2>2
<1>3. Ranks \in G
  <2> HIDE DEF G
  <2>1. {} \in G
    BY DEF G
  <2> QED
    <3>1. IsFiniteSet(Ranks)
      BY OptimizerAssumption
    <3> QED
      BY <1>2, <2>1, <3>1, FiniteInduct
<1>4. PICK x \in Ranks : \A y \in Ranks : brought[y].time <= brought[x].time
  BY <1>3, OptimizerAssumption
<1> DEFINE T == {brought[r].time : r \in Ranks}
<1>5. \E m \in T : \A t \in T : m >= t
  BY <1>1, <1>4
<1>6. Max(T) \in T
  BY <1>5 DEF Max
<1> QED
  BY <1>1, <1>6 DEF LongestTime

-----------------------------------------------------------------------------
LEMMA ChosenIsOptimal == \A ms : OptimalPowerLimit(ms) = Chosen(selector, ms)
  BY DEF OptimalPowerLimit, Select, Chosen

LEMMA Milliwatts ==
  /\ MinLimit <= MaxLimit
  /\ \A x \in {MinLimit, MaxLimit, PlStep} :
       x \in Nat \ {0} /\ \E w \in 1..1000 : x = 1000 * w
  <1>1. {MinLimit, MaxLimit, PlStep} \subseteq {1000 * w : w \in 1..1000} /\ MinLimit <= MaxLimit
    BY OptimizerAssumption
  <1>2. ASSUME NEW x \in {1000 * w : w \in 1..1000}
        PROVE  x \in Nat \ {0} /\ \E w \in 1..1000 : x = 1000 * w
    <2>1. PICK w \in 1..1000 : x = 1000 * w
      OBVIOUS
    <2> QED BY <2>1
  <1> QED BY <1>1, <1>2

(* The limits are at least one, and all different.                         *)
LEMMA Limits ==
  /\ power_limits \in Seq(Int) /\ Len(power_limits) \in Nat \ {0}
  /\ power_limits[1] = MaxLimit /\ MaxLimit \in Nat \ {0}
  /\ \A i, j \in 1..Len(power_limits) : power_limits[i] = power_limits[j] => i = j
  <1> DEFINE n == (MaxLimit - MinLimit) \div PlStep
  <1>1. MaxLimit \in Nat \ {0} /\ MinLimit \in Nat \ {0} /\ PlStep \in Nat \ {0} /\ MinLimit <= MaxLimit
    BY Milliwatts
  <1>2. n \in Nat
    <2> DEFINE d == MaxLimit - MinLimit
               rest == d % PlStep
    <2>1. d \in Nat /\ n \in Int /\ rest \in 0..(PlStep - 1) /\ d = PlStep * n + rest
      BY <1>1
    <2> HIDE DEF d, rest, n
    <2>2. CASE n <= -1
      <3>1. PlStep * n <= PlStep * (-1) /\ PlStep * (-1) = -PlStep
        BY <1>1, <2>1, <2>2
      <3> QED BY <1>1, <2>1, <3>1
    <2> QED BY <2>1, <2>2
  <1>3. power_limits = [i \in 1..(n + 1) |-> MaxLimit - (i - 1) * PlStep]
    BY DEF power_limits
  <1> HIDE DEF n
  <1>4. \A i \in 1..(n + 1) : power_limits[i] = MaxLimit - (i - 1) * PlStep /\ power_limits[i] \in Int
    BY <1>1, <1>2, <1>3
  <1>5. power_limits \in Seq(Int) /\ Len(power_limits) = n + 1
    BY <1>1, <1>2, <1>3
  <1>6. power_limits[1] = MaxLimit
    BY <1>1, <1>2, <1>4
  <1>7. ASSUME NEW i \in 1..(n + 1), NEW j \in 1..(n + 1), power_limits[i] = power_limits[j]
        PROVE  i = j
    <2>1. (i - 1) * PlStep = (j - 1) * PlStep
      BY <1>1, <1>2, <1>4, <1>7
    <2>2. (i - 1) * PlStep - (j - 1) * PlStep = (i - j) * PlStep
      BY <1>1, <1>2
    <2>3. (i - j) * PlStep = 0
      BY <1>1, <1>2, <2>1, <2>2
    <2> QED BY <1>1, <1>2, <2>3
  <1> QED BY <1>1, <1>2, <1>5, <1>6, <1>7

LEMMA LimitsFall == \A i \in 1..Len(power_limits) : power_limits[i] <= power_limits[1]
  <1> SUFFICES ASSUME NEW i \in 1..Len(power_limits) PROVE power_limits[i] <= power_limits[1]
    OBVIOUS
  <1>1. power_limits[i] = MaxLimit - (i - 1) * PlStep /\ power_limits[1] = MaxLimit
    <2>1. i \in DOMAIN power_limits
      BY Limits
    <2> QED BY <2>1, Limits DEF power_limits
  <1>2. PlStep \in Nat /\ MaxLimit \in Nat
    BY Milliwatts
  <1>3. (i - 1) * PlStep \in Nat
    BY <1>2
  <1> QED BY <1>1, <1>2, <1>3

LEMMA IndexOfLimit == \A i \in 1..Len(power_limits) : IndexOf(power_limits[i]) = i
  <1> SUFFICES ASSUME NEW i \in 1..Len(power_limits) PROVE IndexOf(power_limits[i]) = i
    OBVIOUS
  <1>1. DOMAIN power_limits = 1..Len(power_limits)
    BY Limits
  <1> QED BY <1>1, Limits DEF IndexOf

(* A limit is a positive number of watts.                                  *)
LEMMA Watts ==
  \A i \in 1..Len(power_limits) :
    power_limits[i] \in Nat \ {0} /\ power_limits[i] = (power_limits[i] \div 1000) * 1000
  <1> DEFINE d == MaxLimit - MinLimit
             n == d \div PlStep
             rest == d % PlStep
  <1>1. PICK a \in 1..1000 : MaxLimit = 1000 * a
    BY Milliwatts
  <1>2. PICK b \in 1..1000 : PlStep = 1000 * b
    BY Milliwatts
  <1>0. d \in Nat /\ PlStep \in Nat \ {0} /\ MinLimit \in Nat \ {0}
    BY Milliwatts
  <1>3. n \in Int /\ rest \in 0..(PlStep - 1) /\ d = PlStep * n + rest
    BY <1>0
  <1>4. power_limits = [i \in 1..(n + 1) |-> MaxLimit - (i - 1) * PlStep]
    BY DEF power_limits
  <1> HIDE DEF n, rest
  <1>5. DOMAIN power_limits = 1..Len(power_limits) /\ DOMAIN power_limits = 1..(n + 1)
    <2>1. DOMAIN power_limits = 1..Len(power_limits)
      BY Limits
    <2> QED BY ZenonT(30), <2>1, <1>4
  <1> SUFFICES ASSUME NEW i \in 1..Len(power_limits)
               PROVE  /\ power_limits[i] \in Nat \ {0}
                      /\ power_limits[i] = (power_limits[i] \div 1000) * 1000
    OBVIOUS
  <1> DEFINE k == i - 1
  <1>6. power_limits[i] = MaxLimit - k * PlStep /\ k \in Nat /\ k <= n /\ n \in Nat
    <2>1. i \in 1..(n + 1)
      BY ZenonT(30), <1>5
    <2> QED BY <2>1, <1>3, <1>4
  <1> HIDE DEF k
  <1>7. k * PlStep <= n * PlStep /\ k * PlStep \in Nat /\ n * PlStep = PlStep * n
    BY <1>0, <1>6
  <1>8. k * PlStep = 1000 * (k * b) /\ k * b \in Nat
    BY <1>2, <1>6
  <1> DEFINE kb == k * b
             kp == k * PlStep
             np == PlStep * n
  <1>9. kp <= np /\ kp = 1000 * kb /\ kb \in Nat /\ kp \in Nat /\ np \in Int
    <2>1. kp = 1000 * kb /\ kb \in Nat
      BY <1>8
    <2>2. kp <= np /\ kp \in Nat
      BY <1>7
    <2>3. np \in Int
      BY <1>0, <1>6
    <2> QED BY <2>1, <2>2, <2>3
  <1>10. power_limits[i] = MaxLimit - kp /\ MaxLimit - MinLimit = np + rest
    BY <1>3, <1>6
  <1> HIDE DEF kb, kp, np, d
  <1>11. power_limits[i] = 1000 * (a - kb) /\ power_limits[i] >= MinLimit /\ a - kb \in Int
    BY <1>0, <1>1, <1>3, <1>9, <1>10
  <1> QED BY <1>0, <1>11

(* Measurements of all the limits.                                         *)
LEMMA InWatts ==
  ASSUME NEW ms \in Seq(Entry), Complete(ms)
  PROVE  /\ Len(ms) \in Nat \ {0} /\ DOMAIN ms = 1..Len(ms) /\ Len(ms) = Len(power_limits)
         /\ \A i \in DOMAIN ms : /\ ms[i].power_limit \in Nat /\ ms[i].energy \in Nat
                                 /\ ms[i].time \in Nat
                                 /\ ms[i].power_limit * 1000 = power_limits[i]
  <1>1. Len(ms) \in Nat \ {0} /\ DOMAIN ms = 1..Len(ms) /\ Len(ms) = Len(power_limits)
    BY Limits DEF Complete
  <1>2. ASSUME NEW i \in 1..Len(ms)
        PROVE  /\ ms[i].power_limit \in Nat /\ ms[i].energy \in Nat /\ ms[i].time \in Nat
               /\ ms[i].power_limit * 1000 = power_limits[i]
    <2>1. ms[i] \in Entry /\ ms[i].power_limit = power_limits[i] \div 1000
      BY <1>1 DEF Complete, InTheirOrder
    <2>2. /\ power_limits[i] \in Nat \ {0}
          /\ power_limits[i] = (power_limits[i] \div 1000) * 1000
      BY <1>1, Watts
    <2> QED BY SMTT(30), <2>1, <2>2 DEF Entry
  <1> QED BY <1>1, <1>2

(* The first of the least is one of the measurements.                      *)
LEMMA FirstLeastIsOne ==
  ASSUME NEW ms \in Seq(Entry), ms # <<>>, NEW cost, \A i \in DOMAIN ms : cost[i] \in Nat
  PROVE  \E i \in DOMAIN ms : FirstLeast(ms, cost) = ms[i].power_limit
  <1> DEFINE S == {cost[i] : i \in DOMAIN ms}
             L == {i \in DOMAIN ms : \A j \in DOMAIN ms : cost[i] <= cost[j]}
  <1>1. DOMAIN ms = 1..Len(ms) /\ Len(ms) \in Nat \ {0}
    OBVIOUS
  <1>2. S \in SUBSET Nat /\ S # {}
    <2>1. 1 \in DOMAIN ms
      BY <1>1
    <2> QED BY <2>1
  <1>3. L # {} /\ L \in SUBSET Nat
    <2>1. PICK n \in S : \A m \in S : n <= m
      BY <1>2, LeastOf
    <2> QED BY <1>1, <2>1
  <1> HIDE DEF S, L
  <1>4. \E x \in L : \A y \in L : x <= y
    BY <1>3, LeastOf
  <1>5. Min(L) \in L
    BY <1>4 DEF Min
  <1> QED BY <1>5 DEF FirstLeast, L

(* Whatever the selector, the limit it chooses is one of the list.         *)
LEMMA ChosenIsListed ==
  ASSUME NEW choice \in Selectors, NEW ms \in Seq(Entry), Complete(ms)
  PROVE  \E i \in 1..Len(power_limits) : Chosen(choice, ms) = power_limits[i]
  <1>1. /\ Len(ms) \in Nat \ {0} /\ DOMAIN ms = 1..Len(ms) /\ Len(ms) = Len(power_limits)
        /\ \A i \in DOMAIN ms : /\ ms[i].power_limit \in Nat /\ ms[i].energy \in Nat
                                /\ ms[i].time \in Nat
                                /\ ms[i].power_limit * 1000 = power_limits[i]
    BY InWatts
  <1> DEFINE L == {ms[i].power_limit : i \in DOMAIN ms}
  <1>2. HighestOf(ms) \in L
    <2>1. \A i \in DOMAIN ms : ms[i].power_limit <= ms[1].power_limit
      <3>1. ASSUME NEW i \in DOMAIN ms PROVE power_limits[i] <= power_limits[1]
        BY <3>1, <1>1, LimitsFall
      <3> QED BY <1>1, <3>1
    <2>2. \E x \in L : \A y \in L : x >= y
      <3>1. ms[1].power_limit \in L /\ \A x \in L : x \in Nat
        BY <1>1
      <3>2. \A y \in L : ms[1].power_limit >= y
        BY <1>1, <2>1
      <3> QED BY <3>1, <3>2
    <2>3. Max(L) \in L
      BY <2>2 DEF Max
    <2> QED BY <2>3 DEF HighestOf
  <1>3. ASSUME NEW w \in L PROVE \E i \in 1..Len(power_limits) : w * 1000 = power_limits[i]
    BY <1>1
  <1>4. ASSUME NEW cost, \A i \in DOMAIN ms : cost[i] \in Nat PROVE FirstLeast(ms, cost) \in L
    <2>1. ms # <<>>
      BY <1>1
    <2>2. PICK i \in DOMAIN ms : FirstLeast(ms, cost) = ms[i].power_limit
      BY <2>1, <1>4, FirstLeastIsOne
    <2> QED BY <2>2
  <1>5. CASE choice = "Energy"
    <2> DEFINE cost == [i \in DOMAIN ms |-> ms[i].energy]
    <2>1. FirstLeast(ms, cost) \in L
      <3>1. \A i \in DOMAIN ms : cost[i] \in Nat
        BY <1>1
      <3> HIDE DEF cost, L
      <3> QED BY <1>4, <3>1
    <2>2. Chosen(choice, ms) = FirstLeast(ms, cost) * 1000
      BY <1>5 DEF Chosen
    <2> HIDE DEF cost, L
    <2> QED BY <2>1, <2>2, <1>3
  <1>6. CASE choice = "Time"
    <2> DEFINE cost == [i \in DOMAIN ms |-> ms[i].time]
    <2>1. FirstLeast(ms, cost) \in L
      <3>1. \A i \in DOMAIN ms : cost[i] \in Nat
        BY <1>1
      <3> HIDE DEF cost, L
      <3> QED BY <1>4, <3>1
    <2>2. Chosen(choice, ms) = FirstLeast(ms, cost) * 1000
      BY <1>6 DEF Chosen
    <2> HIDE DEF cost, L
    <2> QED BY <2>1, <2>2, <1>3
  <1>7. CASE choice = "ZeusCost"
    <2>1. ASSUME NEW i \in DOMAIN ms PROVE Cost(ms)[i] \in Nat
      <3>1. HighestOf(ms) \in Nat /\ ms[i].time \in Nat /\ ms[i].energy \in Nat
        BY <1>1, <1>2
      <3>2. Cost(ms)[i] = ms[i].energy + HighestOf(ms) * ms[i].time
        BY DEF Cost
      <3>3. \A x, y, z \in Nat : x + y * z \in Nat
        OBVIOUS
      <3> QED BY <3>1, <3>2, <3>3
    <2>2. FirstLeast(ms, Cost(ms)) \in L
      BY <2>1, <1>4
    <2>3. Chosen(choice, ms) = FirstLeast(ms, Cost(ms)) * 1000
      BY <1>7 DEF Chosen
    <2> HIDE DEF L
    <2> QED BY <2>2, <2>3, <1>3
  <1>8. CASE choice = "MaxSlowdownConstraint"
    <2> DEFINE H == {i \in DOMAIN ms : ms[i].power_limit = HighestOf(ms)}
               h == Min(H)
    <2>1. H # {} /\ H \in SUBSET Nat
      BY <1>1, <1>2
    <2>2. \E x \in H : \A y \in H : x <= y
      <3> HIDE DEF H
      <3> QED BY <2>1, LeastOf
    <2>3. h \in H
      BY <2>2 DEF Min
    <2>4. ms[h].power_limit \in Feasible(ms)
      <3>1. h \in DOMAIN ms /\ ms[h].time \in Nat
        BY <1>1, <2>3
      <3>2. 2 * ms[h].time <= 3 * ms[h].time
        BY <3>1
      <3> HIDE DEF h
      <3>3. h = Min({i \in DOMAIN ms : ms[i].power_limit = HighestOf(ms)})
        BY DEF h
      <3> QED BY <3>1, <3>2, <3>3 DEF Feasible
    <2>5. Feasible(ms) \subseteq L
      BY DEF Feasible
    <2>6. L \subseteq Nat
      BY <1>1
    <2> HIDE DEF h
    <2>7. \E x \in Feasible(ms) : \A y \in Feasible(ms) : x <= y
      BY <2>4, <2>5, <2>6, LeastOf
    <2>8. Min(Feasible(ms)) \in Feasible(ms)
      BY <2>7 DEF Min
    <2>9. Chosen(choice, ms) = Min(Feasible(ms)) * 1000
      BY <1>8 DEF Chosen
    <2> HIDE DEF L
    <2> QED BY <2>5, <2>8, <2>9, <1>3
  <1> QED BY <1>5, <1>6, <1>7, <1>8 DEF Selectors

LEMMA GpusApart ==
  /\ \A r \in Ranks : Range(Gpus[r]) \subseteq AllGpus
  /\ \A r, q \in Ranks : r # q => Range(Gpus[r]) \cap Range(Gpus[q]) = {}
  <1>1. \A r \in Ranks : Range(Gpus[r]) \subseteq AllGpus
    BY DEF AllGpus
  <1>2. \A r, q \in Ranks : r # q => Range(Gpus[r]) \cap Range(Gpus[q]) = {}
    BY OptimizerAssumption
  <1> QED BY <1>1, <1>2

(* A limit is set on the GPUs of the rank alone, and on all of them.       *)
LEMMA Setting ==
  ASSUME SettingInv, NEW r \in Ranks, NEW pl, SetPowerLimit(r, pl)
  PROVE  /\ DOMAIN current_power_limit' = Ranks /\ DOMAIN gpu' = AllGpus
         /\ current_power_limit'[r] = pl
         /\ \A q \in Ranks \ {r} : current_power_limit'[q] = current_power_limit[q]
         /\ \A g \in AllGpus \ Range(Gpus[r]) : gpu'[g] = gpu[g]
         /\ (\/ current_power_limit[r] # pl
             \/ \A g \in Range(Gpus[r]) : gpu[g] = current_power_limit[r])
              => \A g \in Range(Gpus[r]) : gpu'[g] = pl
  <1>1. /\ DOMAIN current_power_limit' = Ranks
        /\ current_power_limit'[r] = pl
        /\ \A q \in Ranks \ {r} : current_power_limit'[q] = current_power_limit[q]
    BY DEF SettingInv, SetPowerLimit
  <1>2. Range(Gpus[r]) \subseteq AllGpus
    BY GpusApart
  <1>3. CASE current_power_limit[r] = pl
    BY <1>1, <1>2, <1>3 DEF SettingInv, SetPowerLimit
  <1>4. CASE current_power_limit[r] # pl
    <2>1. gpu' = [g \in AllGpus |-> IF g \in Range(Gpus[r]) THEN pl ELSE gpu[g]]
      BY <1>4 DEF SetPowerLimit
    <2> HIDE DEF SetPowerLimit
    <2> QED BY <1>1, <1>2, <1>4, <2>1
  <1> QED BY <1>3, <1>4

-----------------------------------------------------------------------------
(* A step of one rank that measures nothing and leaves the file alone. *)
Local(r) ==
  /\ UNCHANGED <<selector, saves, measurements, file>>
  /\ proc' \in [Ranks -> Procs] /\ contribution' \in [Ranks -> Contribution \cup {<<>>}]
  /\ DOMAIN state' = Ranks /\ DOMAIN state'[r] = {"mode", "pl", "steps"}
  /\ SettingInv'
  /\ \A q \in Ranks \ {r} :
       /\ proc'[q] = proc[q] /\ state'[q] = state[q] /\ contribution'[q] = contribution[q]
       /\ current_power_limit'[q] = current_power_limit[q] /\ window'[q] = window[q]
  /\ \A g \in AllGpus \ Range(Gpus[r]) : gpu'[g] = gpu[g]
  /\ proc[r] \in {"starting", "raised"} /\ file.is = "saved" => proc'[r] \in {"starting", "raised"}
  /\ proc'[r] \in {"reduced", "saving"} => proc[r] \in {"reduced", "saving"}

LEMMA OtherLimits ==
  ASSUME IInv, NEW r \in Ranks, NEW q \in Ranks, q # r,
         proc'[q] = proc[q], state'[q] = state[q],
         current_power_limit'[q] = current_power_limit[q], window'[q] = window[q],
         \A g \in AllGpus \ Range(Gpus[r]) : gpu'[g] = gpu[g]
  PROVE  LimitInv(q)'
  <1>1. \A g \in Range(Gpus[q]) : gpu'[g] = gpu[g]
    BY GpusApart
  <1> QED BY SMTT(30), <1>1 DEF IInv, LimitInv

LEMMA LocalStep ==
  ASSUME IInv, NEW r \in Ranks, Local(r), RankInv(r)', LimitInv(r)'
  PROVE  IInv'
  <1>1. TypeInv' /\ SettingInv'
    BY DEF IInv, TypeInv, Local
  <1>2. SharedInv'
    <2>1. /\ \A q \in Ranks : measurements'[q] = measurements[q] /\ file' = file /\ saves' = saves
          /\ \A q \in Ranks : proc[q] \in {"starting", "raised"} /\ file.is = "saved"
               => proc'[q] \in {"starting", "raised"}
          /\ \A q \in Ranks : proc'[q] \in {"reduced", "saving"} => proc[q] \in {"reduced", "saving"}
      BY DEF Local
    <2> QED BY <2>1 DEF IInv, SharedInv, Complete, InTheirOrder
  <1>3. ASSUME NEW q \in Ranks PROVE RankInv(q)' /\ LimitInv(q)'
    <2>1. CASE q = r
      BY <2>1
    <2>2. CASE q # r
      <3>1. /\ proc'[q] = proc[q] /\ state'[q] = state[q] /\ contribution'[q] = contribution[q]
            /\ current_power_limit'[q] = current_power_limit[q] /\ window'[q] = window[q]
            /\ UNCHANGED <<measurements, selector, saves>>
            /\ \A g \in AllGpus \ Range(Gpus[r]) : gpu'[g] = gpu[g]
        BY <2>2 DEF Local
      <3>2. RankInv(q)'
        BY <3>1 DEF IInv, RankInv, Complete, InTheirOrder
      <3> QED BY <2>2, <3>1, <3>2, OtherLimits
    <2> QED BY <2>1, <2>2
  <1> QED BY <1>1, <1>2, <1>3 DEF IInv

-----------------------------------------------------------------------------
(* The constructor *)

LEMMA StartStep ==
  ASSUME IInv, NEW r \in Ranks, StartProfiling(r)
  PROVE  IInv'
  <1>0. TypeInv /\ SettingInv /\ RankInv(r) /\ LimitInv(r) /\ SharedInv
    BY DEF IInv
  <1>1. /\ proc[r] = "starting" /\ (saves => file.is = "missing")
        /\ proc' = [proc EXCEPT ![r] = "training"]
        /\ state' = [state EXCEPT ![r] = [mode |-> "Ready", pl |-> power_limits[1], steps |-> WaitSteps + 1]]
        /\ SetPowerLimit(r, MaxLimit)
        /\ UNCHANGED <<selector, saves, window, contribution, file, measurements>>
    BY DEF StartProfiling, Enter, Goto, initFrame, callVars
  <1>2. file.is # "saved" /\ measurements[r] = <<>> /\ window[r] = {} /\ current_power_limit[r] = 0
    BY <1>0, <1>1 DEF SharedInv, RankInv, LimitInv, TypeInv
  <1>3. Local(r)
    BY <1>0, <1>1, <1>2, Setting DEF TypeInv, SettingInv, Local, Procs
  <1>4. RankInv(r)'
    BY <1>0, <1>1, <1>2, Limits DEF TypeInv, RankInv, Underway, InTheirOrder
  <1>5. LimitInv(r)'
    <2>1. /\ proc'[r] = "training" /\ state'[r].mode = "Ready" /\ window'[r] = {}
      BY <1>0, <1>1, <1>2 DEF TypeInv
    <2>2. current_power_limit'[r] = MaxLimit /\ \A g \in Range(Gpus[r]) : gpu'[g] = MaxLimit
      BY <1>0, <1>1, <1>2, Setting, Limits
    <2> QED BY <2>1, <2>2 DEF LimitInv
  <1> QED BY <1>3, <1>4, <1>5, LocalStep

LEMMA LoadStep ==
  ASSUME IInv, NEW r \in Ranks, LoadProfile(r)
  PROVE  IInv'
  <1>0. TypeInv /\ SettingInv /\ RankInv(r) /\ LimitInv(r) /\ SharedInv
    BY DEF IInv
  <1> DEFINE optimal == Chosen(selector, file.holds)
  <1>1. /\ proc[r] = "starting" /\ saves /\ file.is = "saved"
        /\ proc' = [proc EXCEPT ![r] = "training"]
        /\ measurements' = [measurements EXCEPT ![r] = file.holds]
        /\ state' = [state EXCEPT ![r] = [mode |-> "Done", pl |-> optimal, steps |-> 0]]
        /\ SetPowerLimit(r, optimal)
        /\ UNCHANGED <<selector, saves, window, contribution, file>>
    BY ChosenIsOptimal DEF LoadProfile, Enter, Goto, initFrame, callVars
  <1> HIDE DEF optimal
  <1>2. measurements[r] = <<>> /\ Complete(file.holds) /\ window[r] = {} /\ file.holds \in Seq(Entry)
    BY <1>0, <1>1 DEF SharedInv, RankInv, LimitInv, TypeInv
  <1>3. file.holds # <<>>
    BY <1>2, Limits DEF Complete
  <1>4. TypeInv' /\ SettingInv'
    BY <1>0, <1>1, Setting DEF TypeInv, SettingInv, Procs
  <1>5. SharedInv'
    <2>1. \A q \in Ranks : proc[q] \notin {"reduced", "saving"}
      <3>1. ASSUME NEW q \in Ranks, proc[q] \in {"reduced", "saving"} PROVE FALSE
        <4>1. measurements[q] = <<>>
          BY <1>0, <1>2, <3>1 DEF SharedInv
        <4> QED BY <1>0, <1>1, <3>1, <4>1 DEF SharedInv
      <3> QED BY <3>1
    <2>2. \A q \in Ranks : /\ proc'[q] = IF q = r THEN "training" ELSE proc[q]
                           /\ measurements'[q] = IF q = r THEN file.holds ELSE measurements[q]
      BY <1>0, <1>1 DEF TypeInv
    <2> QED BY <1>0, <1>1, <1>2, <1>3, <2>1, <2>2 DEF SharedInv, Complete, InTheirOrder
  <1>6. ASSUME NEW q \in Ranks PROVE RankInv(q)' /\ LimitInv(q)'
    <2>1. CASE q = r
      <3>1. /\ proc'[r] = "training" /\ measurements'[r] = file.holds /\ window'[r] = {}
            /\ state'[r].mode = "Done" /\ state'[r].pl = optimal
        BY <1>0, <1>1, <1>2 DEF TypeInv
      <3>2. RankInv(r)'
        BY <1>1, <1>2, <3>1 DEF RankInv, Complete, InTheirOrder, optimal
      <3>3. current_power_limit[r] # optimal
        BY <1>0, <1>1, <1>2, ChosenIsListed, Watts DEF LimitInv, TypeInv, optimal
      <3>4. \A g \in Range(Gpus[r]) : gpu'[g] = optimal
        BY <1>0, <1>1, <3>3, Setting
      <3>5. LimitInv(r)'
        BY <3>1, <3>4 DEF LimitInv
      <3> QED BY <2>1, <3>2, <3>5
    <2>2. CASE q # r
      <3>1. /\ proc'[q] = proc[q] /\ state'[q] = state[q] /\ contribution'[q] = contribution[q]
            /\ measurements'[q] = measurements[q] /\ UNCHANGED <<selector, saves>>
            /\ window'[q] = window[q]
        BY <1>0, <1>1, <2>2 DEF TypeInv
      <3>2. RankInv(q)'
        BY <3>1 DEF IInv, RankInv, Complete, InTheirOrder
      <3>3. /\ current_power_limit'[q] = current_power_limit[q]
            /\ \A g \in AllGpus \ Range(Gpus[r]) : gpu'[g] = gpu[g]
        BY <1>0, <1>1, <2>2, Setting
      <3> QED BY <2>2, <3>1, <3>2, <3>3, OtherLimits
    <2> QED BY <2>1, <2>2
  <1> QED BY <1>4, <1>5, <1>6 DEF IInv

(* A limit that cannot be set ends the process.                            *)
LEMMA RaisingStep ==
  ASSUME IInv, NEW r \in Ranks, NEW pl, NEW after, SetRaises(r, pl, after),
         after = "exiting" \/ (after = "raised" /\ proc[r] = "starting"),
         after = "exiting" => proc[r] \in {"training", "reduced"}
  PROVE  IInv'
  <1>0. TypeInv /\ SettingInv /\ RankInv(r) /\ LimitInv(r) /\ SharedInv
    BY DEF IInv
  <1>1. /\ proc' = [proc EXCEPT ![r] = after]
        /\ UNCHANGED <<selector, saves, measurements, state, current_power_limit, window, contribution, file>>
    BY DEF SetRaises, optVars
  <1>2. DOMAIN gpu' = AllGpus /\ \A g \in AllGpus \ Range(Gpus[r]) : gpu'[g] = gpu[g]
    <2>1. PICK n \in 0..(Len(Gpus[r]) - 1) :
            gpu' = [g \in AllGpus |-> IF g \in Range(SubSeq(Gpus[r], 1, n)) THEN pl ELSE gpu[g]]
      BY DEF SetRaises
    <2>2. Gpus[r] \in Seq(AllGpus)
      BY OptimizerAssumption
    <2>3. \A i \in 1..n : i \in DOMAIN Gpus[r] /\ SubSeq(Gpus[r], 1, n)[i] = Gpus[r][i]
      BY <2>1, <2>2
    <2>4. DOMAIN SubSeq(Gpus[r], 1, n) = 1..n
      BY <2>1, <2>2
    <2>5. Range(SubSeq(Gpus[r], 1, n)) \subseteq Range(Gpus[r])
      BY <2>3, <2>4 DEF Range
    <2> QED BY <2>1, <2>5
  <1>3. Local(r)
    BY <1>0, <1>1, <1>2 DEF TypeInv, SettingInv, Local, Procs
  <1>4. RankInv(r)'
    <2>1. proc'[r] = after /\ UNCHANGED <<selector, saves, measurements, state, contribution>>
      BY <1>0, <1>1 DEF TypeInv
    <2>2. after = "raised" => measurements[r] = <<>> /\ state[r].mode = "none"
      BY <1>0 DEF RankInv
    <2>3. InTheirOrder(measurements[r]) /\ InTheirOrder(measurements'[r])
      BY <1>0, <2>1 DEF RankInv, InTheirOrder
    <2>4. state[r].mode = "Done" =>
            Complete(measurements[r]) /\ state[r].pl = Chosen(selector, measurements[r])
      BY <1>0 DEF RankInv
    <2> QED BY <2>1, <2>2, <2>3, <2>4 DEF RankInv, Complete, InTheirOrder
  <1>5. LimitInv(r)'
    BY <1>0, <1>1 DEF TypeInv, LimitInv
  <1> QED BY <1>3, <1>4, <1>5, LocalStep

LEMMA NoParseStep ==
  ASSUME IInv, NEW r \in Ranks, ProfileDoesNotParse(r)
  PROVE  IInv'
  <1>0. TypeInv /\ SettingInv /\ RankInv(r) /\ LimitInv(r) /\ SharedInv
    BY DEF IInv
  <1>1. /\ proc[r] = "starting" /\ proc' = [proc EXCEPT ![r] = "raised"]
        /\ UNCHANGED <<selector, saves, measurements, state, current_power_limit, window, gpu, contribution, file>>
    BY DEF ProfileDoesNotParse, Goto, initFrame, callVars, optVars
  <1>2. Local(r)
    BY <1>0, <1>1 DEF TypeInv, SettingInv, Local, Procs
  <1>3. RankInv(r)' /\ LimitInv(r)'
    BY <1>0, <1>1 DEF TypeInv, RankInv, InTheirOrder, Complete, LimitInv
  <1> QED BY <1>2, <1>3, LocalStep

-----------------------------------------------------------------------------
(* The callbacks *)

LEMMA CountStepStep ==
  ASSUME IInv, NEW r \in Ranks, CountStep(r)
  PROVE  IInv'
  <1>0. TypeInv /\ SettingInv /\ RankInv(r) /\ LimitInv(r)
    BY DEF IInv
  <1>1. /\ proc[r] = "training"
        /\ state' = state \/ state' = [state EXCEPT ![r].steps = @ - 1]
        /\ UNCHANGED <<selector, saves, proc, measurements, current_power_limit, window, gpu, contribution, file>>
    BY DEF CountStep, StepBegins, Calls, quietFrame, callFrame, callVars
  <1>2. /\ DOMAIN state' = Ranks /\ DOMAIN state'[r] = {"mode", "pl", "steps"}
        /\ state'[r].mode = state[r].mode /\ state'[r].pl = state[r].pl
        /\ \A q \in Ranks \ {r} : state'[q] = state[q]
    BY <1>0, <1>1 DEF TypeInv
  <1>3. Local(r)
    BY <1>0, <1>1, <1>2 DEF TypeInv, SettingInv, Local
  <1>4. RankInv(r)' /\ LimitInv(r)'
    BY <1>0, <1>1, <1>2 DEF RankInv, InTheirOrder, Complete, LimitInv
  <1> QED BY <1>3, <1>4, LocalStep

LEMMA WarmupStep ==
  ASSUME IInv, NEW r \in Ranks, StartWarmup(r)
  PROVE  IInv'
  <1>0. TypeInv /\ SettingInv /\ RankInv(r) /\ LimitInv(r)
    BY DEF IInv
  <1>1. /\ proc[r] = "training" /\ state[r].mode = "Ready"
        /\ SetPowerLimit(r, state[r].pl)
        /\ state' = [state EXCEPT ![r] = [mode |-> "Warmup", pl |-> state[r].pl, steps |-> WarmupSteps]]
        /\ UNCHANGED <<selector, saves, proc, measurements, window, contribution, file>>
    BY DEF StartWarmup, StepBegins, Calls, Enter, callFrame, callVars
  <1>2. /\ DOMAIN state' = Ranks /\ DOMAIN state'[r] = {"mode", "pl", "steps"}
        /\ state'[r].mode = "Warmup" /\ state'[r].pl = state[r].pl
        /\ \A q \in Ranks \ {r} : state'[q] = state[q]
    BY <1>0, <1>1 DEF TypeInv
  <1>3. Local(r)
    BY <1>0, <1>1, <1>2, Setting DEF TypeInv, SettingInv, Local
  <1>4. RankInv(r)'
    BY <1>0, <1>1, <1>2 DEF RankInv, InTheirOrder, Complete, Underway
  <1>5. LimitInv(r)'
    <2>1. \A g \in Range(Gpus[r]) : gpu[g] = current_power_limit[r]
      BY <1>0, <1>1 DEF LimitInv
    <2>2. current_power_limit'[r] = state[r].pl /\ \A g \in Range(Gpus[r]) : gpu'[g] = state[r].pl
      BY <1>0, <1>1, <2>1, Setting
    <2> QED BY <1>0, <1>1, <1>2, <2>2 DEF LimitInv
  <1> QED BY <1>3, <1>4, <1>5, LocalStep

LEMMA BeginStep ==
  ASSUME IInv, NEW r \in Ranks, BeginProfiling(r)
  PROVE  IInv'
  <1>0. TypeInv /\ SettingInv /\ RankInv(r) /\ LimitInv(r)
    BY DEF IInv
  <1>1. /\ proc[r] = "training" /\ state[r].mode = "Warmup"
        /\ state' = [state EXCEPT ![r] = [mode |-> "Profiling", pl |-> state[r].pl, steps |-> ProfileSteps]]
        /\ window' = [window EXCEPT ![r] = @ \cup {state[r].pl}]
        /\ UNCHANGED <<selector, saves, proc, measurements, current_power_limit, gpu, contribution, file>>
    BY DEF BeginProfiling, StepBegins, Calls, Enter, quietFrame, callFrame, callVars
  <1>2. /\ DOMAIN state' = Ranks /\ DOMAIN state'[r] = {"mode", "pl", "steps"}
        /\ state'[r].mode = "Profiling" /\ state'[r].pl = state[r].pl
        /\ \A q \in Ranks \ {r} : state'[q] = state[q] /\ window'[q] = window[q]
        /\ DOMAIN window' = Ranks /\ window'[r] = {state[r].pl}
    BY <1>0, <1>1 DEF TypeInv, SettingInv, LimitInv
  <1>3. Local(r)
    BY <1>0, <1>1, <1>2 DEF TypeInv, SettingInv, Local
  <1>4. RankInv(r)' /\ LimitInv(r)'
    BY <1>0, <1>1, <1>2 DEF RankInv, InTheirOrder, Complete, Underway, LimitInv
  <1> QED BY <1>3, <1>4, LocalStep

LEMMA EndStep ==
  ASSUME IInv, NEW r \in Ranks, EndProfiling(r)
  PROVE  IInv'
  <1>0. TypeInv /\ SettingInv /\ RankInv(r) /\ LimitInv(r)
    BY DEF IInv
  <1>1. PICK e \in Energies, t \in Times :
          contribution' = [contribution EXCEPT ![r] = [energy |-> e, time |-> t]]
    BY DEF EndProfiling
  <1>2. /\ proc[r] = "training" /\ state[r].mode = "Profiling"
        /\ proc' = [proc EXCEPT ![r] = "reducing"]
        /\ state' = [state EXCEPT ![r].steps = 0]
        /\ window' = [window EXCEPT ![r] = @ \ {state[r].pl}]
        /\ UNCHANGED <<selector, saves, measurements, current_power_limit, gpu, file>>
    BY DEF EndProfiling, StepBegins, Calls, Goto, callVars
  <1>3. /\ DOMAIN state' = Ranks /\ DOMAIN state'[r] = {"mode", "pl", "steps"}
        /\ state'[r].mode = "Profiling" /\ state'[r].pl = state[r].pl
        /\ \A q \in Ranks \ {r} : state'[q] = state[q] /\ window'[q] = window[q]
        /\ DOMAIN window' = Ranks /\ window'[r] = {}
    BY <1>0, <1>2 DEF TypeInv, SettingInv, LimitInv
  <1>4. /\ contribution' \in [Ranks -> Contribution \cup {<<>>}] /\ contribution'[r] \in Contribution
        /\ \A q \in Ranks \ {r} : contribution'[q] = contribution[q]
    BY <1>0, <1>1 DEF TypeInv, Contribution
  <1>5. Local(r)
    BY <1>0, <1>2, <1>3, <1>4 DEF TypeInv, SettingInv, Local, Procs
  <1>6. proc'[r] = "reducing"
    BY <1>0, <1>2 DEF TypeInv
  <1>7. RankInv(r)' /\ LimitInv(r)'
    BY <1>0, <1>2, <1>3, <1>4, <1>6 DEF RankInv, InTheirOrder, Complete, Underway, LimitInv
  <1> QED BY <1>5, <1>7, LocalStep

LEMMA EpochEndStep ==
  ASSUME IInv, NEW r \in Ranks, OnEpochEnd(r)
  PROVE  IInv'
  <1>0. TypeInv /\ SettingInv /\ RankInv(r) /\ LimitInv(r)
    BY DEF IInv
  <1>1. /\ proc[r] = "training" /\ UNCHANGED <<selector, saves, proc, measurements, contribution, file>>
    BY DEF OnEpochEnd, Calls, callFrame, callVars
  <1>2. CASE state[r].mode \in {"Warmup", "Profiling"}
    <2>1. /\ state' = [state EXCEPT ![r] = [mode |-> "Ready", pl |-> state[r].pl, steps |-> 1]]
          /\ SetPowerLimit(r, MaxLimit)
          /\ window' = [window EXCEPT ![r] = @ \ {state[r].pl}]
      BY <1>2 DEF OnEpochEnd, Enter
    <2>2. /\ DOMAIN state' = Ranks /\ DOMAIN state'[r] = {"mode", "pl", "steps"}
          /\ state'[r].mode = "Ready" /\ state'[r].pl = state[r].pl
          /\ \A q \in Ranks \ {r} : state'[q] = state[q] /\ window'[q] = window[q]
          /\ DOMAIN window' = Ranks /\ window'[r] = {}
      BY <1>0, <1>1, <2>1 DEF TypeInv, SettingInv, LimitInv
    <2>3. Local(r)
      BY <1>0, <1>1, <2>1, <2>2, Setting DEF TypeInv, SettingInv, Local
    <2>4. RankInv(r)'
      BY <1>0, <1>1, <1>2, <2>2 DEF RankInv, InTheirOrder, Complete, Underway
    <2>5. LimitInv(r)'
      <3>1. \A g \in Range(Gpus[r]) : gpu[g] = current_power_limit[r]
        BY <1>0, <1>1, <1>2 DEF LimitInv
      <3>2. current_power_limit'[r] = MaxLimit /\ \A g \in Range(Gpus[r]) : gpu'[g] = MaxLimit
        BY <1>0, <2>1, <3>1, Setting
      <3> QED BY <1>1, <2>2, <3>2 DEF LimitInv
    <2> QED BY <2>3, <2>4, <2>5, LocalStep
  <1>3. CASE state[r].mode \notin {"Warmup", "Profiling"}
    <2>1. UNCHANGED <<state, window, current_power_limit, gpu>>
      BY <1>3 DEF OnEpochEnd
    <2>2. Local(r)
      BY <1>0, <1>1, <2>1 DEF TypeInv, SettingInv, Local
    <2>3. RankInv(r)' /\ LimitInv(r)'
      BY <1>0, <1>1, <2>1 DEF RankInv, InTheirOrder, Complete, Underway, LimitInv
    <2> QED BY <2>2, <2>3, LocalStep
  <1> QED BY <1>2, <1>3

LEMMA NextLimitStep ==
  ASSUME IInv, NEW r \in Ranks, NextLimit(r)
  PROVE  IInv'
  <1>0. TypeInv /\ SettingInv /\ RankInv(r) /\ LimitInv(r)
    BY DEF IInv
  <1> DEFINE i == Len(measurements[r])
             pl == power_limits[i + 1]
  <1>1. proc[r] = "reduced" /\ i \in 1..Len(power_limits) /\ state[r].pl = power_limits[i]
    BY <1>0 DEF NextLimit, RankInv, InTheirOrder, TypeInv
  <1>2. IndexOf(state[r].pl) = i
    BY <1>1, IndexOfLimit
  <1>3. /\ i < Len(power_limits) /\ SetPowerLimit(r, pl)
        /\ state' = [state EXCEPT ![r] = [mode |-> "Warmup", pl |-> pl, steps |-> WarmupSteps]]
        /\ proc' = [proc EXCEPT ![r] = "training"]
        /\ UNCHANGED <<selector, saves, window, measurements, contribution, file>>
    BY <1>2 DEF NextLimit, Enter, Goto, callFrame, callVars
  <1> HIDE DEF pl
  <1>4. /\ DOMAIN state' = Ranks /\ DOMAIN state'[r] = {"mode", "pl", "steps"}
        /\ state'[r].mode = "Warmup" /\ state'[r].pl = pl /\ proc'[r] = "training"
        /\ \A q \in Ranks \ {r} : state'[q] = state[q] /\ proc'[q] = proc[q]
    BY <1>0, <1>3 DEF TypeInv
  <1>5. Local(r)
    BY <1>0, <1>1, <1>3, <1>4, Setting DEF TypeInv, SettingInv, Local, Procs
  <1>6. RankInv(r)'
    BY <1>0, <1>3, <1>4 DEF RankInv, InTheirOrder, Complete, Underway, pl
  <1>7. LimitInv(r)'
    <2>1. \A g \in Range(Gpus[r]) : gpu[g] = current_power_limit[r]
      BY <1>0, <1>1 DEF LimitInv, RankInv
    <2>2. current_power_limit'[r] = pl /\ \A g \in Range(Gpus[r]) : gpu'[g] = pl
      BY <1>0, <1>3, <2>1, Setting
    <2> QED BY <1>0, <1>1, <1>3, <1>4, <2>2 DEF LimitInv
  <1> QED BY <1>5, <1>6, <1>7, LocalStep

LEMMA QuietExit ==
  ASSUME IInv, NEW r \in Ranks, TrainingOver(r) \/ AtExit(r)
  PROVE  IInv'
  <1>0. TypeInv /\ SettingInv /\ RankInv(r) /\ LimitInv(r)
    BY DEF IInv
  <1>1. /\ proc[r] \in {"training", "exiting"} /\ proc'[r] \in {"exiting", "exited"}
        /\ proc' \in [Ranks -> Procs] /\ \A q \in Ranks \ {r} : proc'[q] = proc[q]
        /\ UNCHANGED <<selector, saves, state, measurements, window, contribution, file>>
    BY <1>0 DEF TrainingOver, AtExit, Goto, exitFrame, callVars, TypeInv, Procs
  <1>2. /\ SettingInv' /\ \A g \in AllGpus \ Range(Gpus[r]) : gpu'[g] = gpu[g]
        /\ \A q \in Ranks \ {r} : current_power_limit'[q] = current_power_limit[q]
    <2>1. CASE TrainingOver(r)
      BY <1>0, <1>1, <2>1 DEF TrainingOver, SettingInv
    <2>2. CASE AtExit(r)
      <3>1. SetPowerLimit(r, MaxLimit)
        BY <2>2 DEF AtExit
      <3> QED BY <1>0, <1>1, <3>1, Setting DEF SettingInv
    <2> QED BY <2>1, <2>2
  <1>3. Local(r)
    BY <1>0, <1>1, <1>2 DEF TypeInv, Local
  <1>4. RankInv(r)' /\ LimitInv(r)'
    BY <1>0, <1>1 DEF RankInv, InTheirOrder, Complete, LimitInv
  <1> QED BY <1>3, <1>4, LocalStep

-----------------------------------------------------------------------------
(* The steps that measure, save or begin anew *)

(* All the ranks have the same limit when they reduce, so they get the     *)
(* same entry, which is the next of the list.                              *)
LEMMA ReduceStep ==
  ASSUME IInv, AllReduce
  PROVE  IInv'
  <1>0. TypeInv /\ SettingInv /\ SharedInv /\ \A r \in Ranks : RankInv(r) /\ LimitInv(r)
    BY DEF IInv
  <1> DEFINE energy == TotalEnergy(contribution)
             time == LongestTime(contribution)
             entry(r) == [power_limit |-> state[r].pl \div 1000, energy |-> energy, time |-> time]
  <1>1. /\ \A r \in Ranks : proc[r] = "reducing"
        /\ measurements' = [r \in Ranks |-> Append(measurements[r], entry(r))]
        /\ proc' = [r \in Ranks |-> "reduced"] /\ contribution' = [r \in Ranks |-> <<>>]
        /\ UNCHANGED <<selector, saves, state, current_power_limit, window, gpu, file>>
    BY DEF AllReduce, Fresh, callVars
  <1>2. contribution \in [Ranks -> Contribution]
    BY <1>0, <1>1 DEF TypeInv, RankInv
  <1>3. energy \in Nat /\ time \in Nat
    BY <1>2, EnergyIsNat, TimeIsNat
  <1> HIDE DEF energy, time
  <1>4. ASSUME NEW r \in Ranks
        PROVE  /\ state[r].mode = "Profiling" /\ measurements[r] \in Seq(Entry)
               /\ Len(measurements[r]) \in Nat /\ Len(measurements[r]) < Len(power_limits)
               /\ state[r].pl = power_limits[Len(measurements[r]) + 1] /\ state[r].pl \in Int
    <2>1. /\ state[r].mode = "Profiling" /\ Len(measurements[r]) < Len(power_limits)
          /\ state[r].pl = power_limits[Len(measurements[r]) + 1]
      BY <1>0, <1>1 DEF RankInv
    <2>2. measurements[r] \in Seq(Entry) /\ Len(measurements[r]) \in Nat
      BY <1>0 DEF TypeInv
    <2> QED BY <2>1, <2>2, Limits
  <1>5. ASSUME NEW r \in Ranks
        PROVE  /\ measurements'[r] \in Seq(Entry) /\ Len(measurements'[r]) = Len(measurements[r]) + 1
               /\ \A i \in 1..Len(measurements[r]) : measurements'[r][i] = measurements[r][i]
               /\ measurements'[r][Len(measurements[r]) + 1].power_limit = state[r].pl \div 1000
               /\ measurements'[r] # <<>>
    <2>1. state[r].pl \div 1000 \in Int
      BY <1>4
    <2>2. entry(r) \in Entry /\ entry(r).power_limit = state[r].pl \div 1000
      BY <1>3, <2>1 DEF Entry
    <2>3. measurements'[r] = Append(measurements[r], entry(r))
      BY <1>1
    <2> HIDE DEF entry
    <2> QED BY SMTT(30), <1>4, <2>2, <2>3
  <1>6. file.is # "saved"
    <2>1. ASSUME file.is = "saved", NEW r \in Ranks PROVE FALSE
      <3>1. measurements[r] = file.holds /\ Len(file.holds) = Len(power_limits)
        BY <1>0, <1>1, <2>1 DEF SharedInv, Complete
      <3> QED BY <1>4, <3>1
    <2> QED BY <2>1, OptimizerAssumption
  <1>7. ASSUME NEW r \in Ranks, NEW q \in Ranks PROVE measurements'[q] = measurements'[r]
    <2>1. measurements[q] = measurements[r]
      BY <1>0, <1>6 DEF SharedInv
    <2>2. state[q].pl = state[r].pl
      BY <1>4, <2>1
    <2> QED BY <1>1, <2>1, <2>2
  <1>8. TypeInv'
    <2>1. measurements' \in [Ranks -> Seq(Entry)]
      BY <1>1, <1>5
    <2> QED BY <1>0, <1>1, <2>1 DEF TypeInv, Procs
  <1>9. SharedInv'
    BY <1>0, <1>1, <1>6, <1>7 DEF SharedInv
  <1>10. ASSUME NEW r \in Ranks PROVE RankInv(r)' /\ LimitInv(r)'
    <2>1. InTheirOrder(measurements'[r])
      <3>1. ASSUME NEW i \in 1..Len(measurements'[r])
            PROVE  measurements'[r][i].power_limit = power_limits[i] \div 1000
        <4>1. CASE i = Len(measurements[r]) + 1
          BY <1>4, <1>5, <4>1
        <4>2. CASE i # Len(measurements[r]) + 1
          <5>1. i \in 1..Len(measurements[r])
            BY <1>4, <1>5, <4>2
          <5> QED BY <1>0, <1>5, <5>1 DEF RankInv, InTheirOrder
        <4> QED BY <4>1, <4>2
      <3>2. Len(measurements'[r]) <= Len(power_limits)
        BY <1>4, <1>5, Limits
      <3> QED BY <3>1, <3>2 DEF InTheirOrder
    <2>2. /\ proc'[r] = "reduced" /\ state' = state /\ Len(measurements'[r]) > 0
          /\ state[r].pl = power_limits[Len(measurements'[r])]
      BY <1>1, <1>4, <1>5
    <2>3. RankInv(r)'
      BY <1>4, <2>1, <2>2 DEF RankInv
    <2>4. LimitInv(r)'
      <3>1. LimitInv(r) /\ proc[r] = "reducing" /\ UNCHANGED <<current_power_limit, window, gpu>>
        BY <1>0, <1>1
      <3> QED BY <2>2, <3>1 DEF LimitInv
    <2> QED BY <2>3, <2>4
  <1> QED BY <1>0, <1>1, <1>8, <1>9, <1>10 DEF IInv, SettingInv

LEMMA FinishStep ==
  ASSUME IInv, NEW r \in Ranks, Finish(r)
  PROVE  IInv'
  <1>0. TypeInv /\ SettingInv /\ SharedInv /\ RankInv(r) /\ LimitInv(r)
    BY DEF IInv
  <1> DEFINE optimal == Chosen(selector, measurements[r])
  <1>1. /\ proc[r] = "reduced"
        /\ state' = [state EXCEPT ![r] = [mode |-> "Done", pl |-> optimal, steps |-> 0]]
        /\ SetPowerLimit(r, optimal)
        /\ proc' = [proc EXCEPT ![r] = IF saves THEN "saving" ELSE "training"]
        /\ file' = IF saves THEN [is |-> "empty", holds |-> <<>>] ELSE file
        /\ UNCHANGED <<selector, saves, window, measurements, contribution>>
    BY ChosenIsOptimal DEF Finish, Enter, Goto, callVars
  <1> HIDE DEF optimal
  <1>2. Complete(measurements[r]) /\ measurements[r] # <<>>
    <2> DEFINE i == Len(measurements[r])
    <2>1. i \in 1..Len(power_limits) /\ state[r].pl = power_limits[i] /\ InTheirOrder(measurements[r])
      BY <1>0, <1>1 DEF RankInv, InTheirOrder, TypeInv
    <2>2. IndexOf(state[r].pl) = i
      BY <2>1, IndexOfLimit
    <2>3. i = Len(power_limits)
      BY <2>2 DEF Finish
    <2> QED BY <2>1, <2>3, Limits DEF Complete
  <1>3. \A q \in Ranks : measurements[q] = measurements[r]
    BY <1>0, <1>1 DEF SharedInv
  <1>4. TypeInv' /\ SettingInv'
    BY <1>0, <1>1, Setting DEF TypeInv, SettingInv, Procs
  <1>5. SharedInv'
    <2>1. file'.is # "saved"
      BY <1>0, <1>1 DEF SharedInv
    <2>2. ~saves' => file'.is = "missing"
      BY <1>0, <1>1 DEF SharedInv
    <2>3. \A p, q \in Ranks : measurements'[q] = measurements'[p]
      BY <1>1, <1>3
    <2> QED BY <2>1, <2>2, <2>3 DEF SharedInv
  <1>6. ASSUME NEW q \in Ranks PROVE RankInv(q)' /\ LimitInv(q)'
    <2>1. CASE q = r
      <3>1. /\ proc'[r] \in {"saving", "training"} /\ state'[r].mode = "Done" /\ state'[r].pl = optimal
            /\ UNCHANGED <<measurements, selector, saves>> /\ window'[r] = {}
            /\ proc'[r] = "saving" => saves'
        BY <1>0, <1>1 DEF TypeInv, LimitInv
      <3>2. RankInv(r)'
        BY <1>2, <3>1 DEF RankInv, Complete, InTheirOrder, optimal
      <3>3. \A g \in Range(Gpus[r]) : gpu[g] = current_power_limit[r]
        BY <1>0, <1>1 DEF RankInv, LimitInv
      <3>4. \A g \in Range(Gpus[r]) : gpu'[g] = optimal
        BY <1>0, <1>1, <3>3, Setting
      <3>5. LimitInv(r)'
        BY <3>1, <3>4 DEF LimitInv
      <3> QED BY <2>1, <3>2, <3>5
    <2>2. CASE q # r
      <3>1. /\ proc'[q] = proc[q] /\ state'[q] = state[q] /\ contribution'[q] = contribution[q]
            /\ measurements' = measurements /\ UNCHANGED <<selector, saves>> /\ window'[q] = window[q]
        BY <1>0, <1>1, <2>2 DEF TypeInv
      <3>2. RankInv(q)'
        BY <3>1 DEF IInv, RankInv, Complete, InTheirOrder
      <3>3. /\ current_power_limit'[q] = current_power_limit[q]
            /\ \A g \in AllGpus \ Range(Gpus[r]) : gpu'[g] = gpu[g]
        BY <1>0, <1>1, <2>2, Setting
      <3> QED BY <2>2, <3>1, <3>2, <3>3, OtherLimits
    <2> QED BY <2>1, <2>2
  <1> QED BY <1>4, <1>5, <1>6 DEF IInv

LEMMA SaveStep ==
  ASSUME IInv, NEW r \in Ranks, SaveProfile(r)
  PROVE  IInv'
  <1>0. TypeInv /\ SettingInv /\ SharedInv /\ \A q \in Ranks : RankInv(q) /\ LimitInv(q)
    BY DEF IInv
  <1>1. /\ proc[r] = "saving" /\ file' = [is |-> "saved", holds |-> measurements[r]]
        /\ proc' = [proc EXCEPT ![r] = "training"]
        /\ UNCHANGED <<selector, saves, state, measurements, current_power_limit, window, contribution, gpu>>
    BY DEF SaveProfile, Goto, callVars, optVars
  <1>2. state[r].mode = "Done" /\ Complete(measurements[r]) /\ measurements[r] # <<>>
    BY <1>0, <1>1, Limits DEF RankInv, Complete, TypeInv
  <1>3. \A q \in Ranks : measurements[q] = measurements[r]
    BY <1>0, <1>1 DEF SharedInv
  <1>4. TypeInv' /\ SettingInv'
    BY <1>0, <1>1 DEF TypeInv, SettingInv, Procs
  <1>5. SharedInv'
    <2>1. /\ file'.is = "saved" /\ file'.holds = measurements[r] /\ measurements' = measurements
          /\ saves' = saves
      BY <1>1
    <2>2. \A q \in Ranks : proc'[q] \in {"reduced", "saving"} => proc[q] \in {"reduced", "saving"}
      BY <1>0, <1>1 DEF TypeInv
    <2>3. saves
      BY <1>0, <1>1 DEF RankInv
    <2> QED BY <1>0, <1>2, <1>3, <2>1, <2>2, <2>3 DEF SharedInv, Complete, InTheirOrder
  <1>6. ASSUME NEW q \in Ranks PROVE RankInv(q)' /\ LimitInv(q)'
    <2>1. CASE q = r
      <3>1. proc'[r] = "training" /\ UNCHANGED <<state, measurements, window, selector, saves>>
        BY <1>0, <1>1 DEF TypeInv
      <3>2. /\ window[r] = {} /\ RankInv(r) /\ gpu' = gpu
            /\ \A g \in Range(Gpus[r]) : gpu[g] = state[r].pl
        BY <1>0, <1>1, <1>2 DEF LimitInv
      <3>3. RankInv(r)'
        BY <1>2, <3>1, <3>2 DEF RankInv, Complete, InTheirOrder
      <3>4. LimitInv(r)'
        BY <1>2, <3>1, <3>2 DEF LimitInv
      <3> QED BY <2>1, <3>3, <3>4
    <2>2. CASE q # r
      <3>1. /\ proc'[q] = proc[q]
            /\ UNCHANGED <<state, measurements, contribution, window, current_power_limit, gpu, selector, saves>>
        BY <1>0, <1>1, <2>2 DEF TypeInv
      <3>2. RankInv(q) /\ LimitInv(q)
        BY <1>0
      <3>3. RankInv(q)'
        BY <3>1, <3>2 DEF RankInv, Complete, InTheirOrder
      <3>4. LimitInv(q)'
        BY <3>1, <3>2 DEF LimitInv
      <3> QED BY <3>3, <3>4
    <2> QED BY <2>1, <2>2
  <1> QED BY <1>4, <1>5, <1>6 DEF IInv

LEMMA KillStep ==
  ASSUME IInv, KillAndRestart
  PROVE  IInv'
  <1>0. TypeInv /\ SettingInv /\ SharedInv
    BY DEF IInv
  <1>1. /\ proc' = [r \in Ranks |-> "starting"] /\ current_power_limit' = [r \in Ranks |-> 0]
        /\ state' = [r \in Ranks |-> [mode |-> "none", pl |-> 0, steps |-> 0]]
        /\ measurements' = [r \in Ranks |-> <<>>] /\ window' = [r \in Ranks |-> {}]
        /\ contribution' = [r \in Ranks |-> <<>>]
        /\ UNCHANGED <<selector, saves, gpu, file>>
    BY DEF KillAndRestart, NoState, Fresh
  <1>2. TypeInv' /\ SettingInv'
    BY <1>0, <1>1 DEF TypeInv, SettingInv, Procs
  <1>3. SharedInv'
    BY <1>0, <1>1 DEF SharedInv, Complete, InTheirOrder
  <1>4. ASSUME NEW r \in Ranks PROVE RankInv(r)' /\ LimitInv(r)'
    <2>1. proc'[r] = "starting" /\ measurements'[r] = <<>> /\ state'[r].mode = "none" /\ window'[r] = {}
          /\ current_power_limit'[r] = 0
      BY <1>1
    <2> QED BY <2>1, Limits DEF RankInv, LimitInv, InTheirOrder
  <1> QED BY <1>2, <1>3, <1>4 DEF IInv

-----------------------------------------------------------------------------

LEMMA InitInv == Init => IInv
  <1> SUFFICES ASSUME Init PROVE IInv
    OBVIOUS
  <1>1. /\ selector \in Selectors /\ saves \in BOOLEAN /\ proc = [r \in Ranks |-> "starting"]
        /\ state = [r \in Ranks |-> [mode |-> "none", pl |-> 0, steps |-> 0]]
        /\ current_power_limit = [r \in Ranks |-> 0] /\ measurements = [r \in Ranks |-> <<>>]
        /\ window = [r \in Ranks |-> {}] /\ contribution = [r \in Ranks |-> <<>>]
        /\ gpu = [g \in AllGpus |-> MaxLimit] /\ file = [is |-> "missing", holds |-> <<>>]
    BY DEF Init, NoState, Fresh
  <1>2. TypeInv /\ SettingInv /\ SharedInv
    BY <1>1 DEF TypeInv, SettingInv, SharedInv, Procs
  <1>3. ASSUME NEW r \in Ranks PROVE RankInv(r) /\ LimitInv(r)
    <2>1. /\ proc[r] = "starting" /\ measurements[r] = <<>> /\ state[r].mode = "none"
          /\ window[r] = {} /\ current_power_limit[r] = 0
      BY <1>1
    <2> QED BY <2>1, Limits DEF RankInv, LimitInv, InTheirOrder
  <1> QED BY <1>2, <1>3 DEF IInv

LEMMA StepInv == IInv /\ [Next]_vars => IInv'
  <1> SUFFICES ASSUME IInv, [Next]_vars PROVE IInv'
    OBVIOUS
  <1>1. CASE AllReduce
    BY <1>1, ReduceStep
  <1>2. CASE KillAndRestart
    BY <1>2, KillStep
  <1>3. ASSUME NEW r \in Ranks, RankStep(r) PROVE IInv'
    BY <1>3, StartStep, LoadStep, NoParseStep, CountStepStep, WarmupStep, BeginStep, EndStep,
       NextLimitStep, FinishStep, SaveStep, EpochEndStep, QuietExit DEF RankStep
  <1>4. ASSUME NEW r \in Ranks, ConstructorRaises(r) PROVE IInv'
    <2>1. proc[r] = "starting" /\ SetRaises(r, MaxLimit, "raised")
      BY <1>4 DEF ConstructorRaises
    <2> QED BY <2>1, RaisingStep
  <1>5. ASSUME NEW r \in Ranks, CallbackRaises(r) PROVE IInv'
    <2>1. CASE proc[r] = "training" /\ SetRaises(r, state[r].pl, "exiting")
      BY <2>1, RaisingStep
    <2>2. CASE proc[r] = "reduced" /\ SetRaises(r, power_limits[IndexOf(state[r].pl) + 1], "exiting")
      BY <2>2, RaisingStep
    <2> QED BY <1>5, <2>1, <2>2 DEF CallbackRaises
  <1>6. CASE UNCHANGED vars
    BY <1>6 DEF vars, callVars, optVars, IInv, TypeInv, SettingInv, SharedInv, RankInv, LimitInv,
                Complete, InTheirOrder
  <1> QED BY <1>1, <1>2, <1>3, <1>4, <1>5, <1>6 DEF Next

(* What the ranks share, and where each of them is, in every state.        *)
THEOREM Invariant == Spec => []IInv
  BY InitInv, StepInv, PTL DEF Spec

(* The entries of a rank are those of the first limits of the list, one    *)
(* each, and it profiles the next one, for any list, epochs that end in a  *)
(* window, kills and profiles left by an earlier job                       *)
(* (on_step_begin, on_epoch_end).                                          *)
THEOREM EachOnce == Spec => []EachLimitOnce
  <1>1. IInv => EachLimitOnce
    <2> SUFFICES ASSUME IInv, NEW r \in Ranks
                 PROVE  /\ \A i \in DOMAIN measurements[r] :
                             measurements[r][i].power_limit = power_limits[i] \div 1000
                        /\ proc[r] \in {"training", "reducing"} /\ state[r].mode # "Done"
                             => state[r].pl = power_limits[Len(measurements[r]) + 1]
      BY DEF EachLimitOnce
    <2>1. DOMAIN measurements[r] = 1..Len(measurements[r])
      BY DEF IInv, TypeInv
    <2> QED BY <2>1 DEF IInv, RankInv, InTheirOrder
  <1> QED BY <1>1, Invariant, PTL

(* The ranks that are done have the same limit, and the profile that is    *)
(* saved leads a later job to it, whatever the selector                    *)
(* (_compute_optimal_power_limit, _save_profile, _load_profile).           *)
THEOREM Agreement == Spec => []RanksAgree
  <1>1. IInv => RanksAgree
    <2> SUFFICES ASSUME IInv PROVE RanksAgree
      OBVIOUS
    <2>1. ASSUME NEW r \in Ranks, state[r].mode = "Done"
          PROVE  /\ measurements[r] # <<>> /\ state[r].pl = Chosen(selector, measurements[r])
                 /\ file.is = "saved" => measurements[r] = file.holds
      BY <2>1, Limits DEF IInv, RankInv, SharedInv, Complete
    <2>2. ASSUME NEW r \in Ranks, NEW q \in Ranks, state[r].mode = "Done", state[q].mode = "Done"
          PROVE  state[r].pl = state[q].pl
      <3>1. measurements[q] = measurements[r]
        BY <2>1, <2>2 DEF IInv, SharedInv
      <3> QED BY <2>1, <2>2, <3>1
    <2>3. ASSUME NEW r \in Ranks, state[r].mode = "Done", file.is = "saved"
          PROVE  state[r].pl = OptimalPowerLimit(file.holds)
      BY <2>1, <2>3, ChosenIsOptimal
    <2> QED BY <2>2, <2>3 DEF RanksAgree
  <1> QED BY <1>1, Invariant, PTL

(* While a rank profiles a limit its window of that limit is the open one, *)
(* and from the warm-up on, as in the steps after the optimal limit is     *)
(* chosen or loaded from the profile, all its GPUs have the limit the      *)
(* state says (_set_power_limit, on_step_begin, on_epoch_end).             *)
THEOREM Measured == Spec => []MeasuredAtItsLimit
  <1>1. IInv => MeasuredAtItsLimit
    BY DEF IInv, LimitInv, MeasuredAtItsLimit
  <1> QED BY <1>1, Invariant, PTL

-----------------------------------------------------------------------------
(***************************************************************************)
(* The simulator of the legacy policies: results are observed in the order *)
(* the jobs end, no row is lost, and an arm has reached the target in      *)
(* every round, for any rows, batch sizes, limits and costs.               *)
(***************************************************************************)

IsSequence(s) == s \in Seq({s[i] : i \in 1..Len(s)})

(* It says whether the target was reached. *)
IsResult(o) == o.reached \in BOOLEAN

(* How often a batch size reached the target. *)
ReachedBy(history, bs) == {i \in DOMAIN history : history[i].bs = bs /\ history[i].reached}
TimesReached(history, bs) == Cardinality(ReachedBy(history, bs))

GeneratorSteps == {"start", "asked", "told", "over", "infeasible"}

GeneratorShape(g) ==
  /\ g = [is |-> g.is, round |-> g.round, left |-> g.left, default |-> g.default, down |-> g.down,
          up |-> g.up, good |-> g.good, best_cost |-> g.best_cost, expecting |-> g.expecting]
  /\ g.is \in GeneratorSteps /\ g.round \in Nat /\ g.default \in BatchSizes
  /\ g.left \subseteq BatchSizes
  /\ g.down \subseteq g.left /\ g.up \subseteq g.left /\ g.good \subseteq g.left

IsGenerator(g) ==
  /\ GeneratorShape(g)
  /\ g.is = "start" => g.round = 0 /\ g.good = {}
  /\ g.is = "asked" => g.expecting \in g.left
  /\ g.is \in {"told", "over", "infeasible"} => g.expecting = 0
  /\ g.is = "over" => g.round = NumPruningRounds /\ g.down = {} /\ g.up = {} /\ g.left = g.good

(* What is left has reached the target in every round before this one, and *)
(* what is good in this one too.                                           *)
Earned(g, history) ==
  /\ \A bs \in g.left : g.round <= TimesReached(history, bs) + 1
  /\ \A bs \in g.good : g.round <= TimesReached(history, bs)

(* The batch size optimizer. *)
OptimizerInv(b) ==
  /\ b = [gen |-> b.gen, history |-> b.history, arms |-> b.arms]
  /\ IsSequence(b.history)
  /\ policy = "GTS" => DOMAIN b.arms = BatchSizes /\ b.gen.is = "start"
  /\ policy = "Pruning" =>
       /\ IsGenerator(b.gen) /\ Earned(b.gen, b.history)
       /\ b.arms # <<>> =>
            /\ b.gen.is = "over" /\ DOMAIN b.arms \subseteq BatchSizes
            /\ \A bs \in DOMAIN b.arms : NumPruningRounds <= TimesReached(b.history, bs)

(* The generator waits for a job in flight, if it waits for any.           *)
Awaited(b, jobs) ==
  policy = "Pruning" =>
    /\ b.gen.is = "asked" => \E i \in 1..Len(jobs) : jobs[i].result.bs = b.gen.expecting
    /\ b.gen.is = "start" => Len(jobs) = 0

IsJob(job) ==
  /\ job.start \in Nat /\ job.end \in Nat /\ job.start <= job.end
  /\ job.result.bs \in BatchSizes /\ job.result.reached \in BOOLEAN

JobsInv(jobs) == IsSequence(jobs) /\ \A i \in 1..Len(jobs) : IsJob(jobs[i])

LatestStart == (Infinity - 1) \div Recurrences

(* Rows start one after the other, before Infinity. *)
TimeInv ==
  /\ rec_i \in 0..Recurrences /\ current_time \in Nat /\ last_end \in Nat
  /\ at \in {"next", "try"} => current_time # Infinity
  /\ current_time # Infinity => current_time <= rec_i * LatestStart /\ last_end <= current_time

ControlInv ==
  /\ mode \in {"one job", "group"} /\ policy \in {"Pruning", "GTS"}
  /\ best_bs \in BatchSizes
  /\ mode = "one job" => at # "reap" /\ running_jobs = <<>>

SimulatorInv ==
  /\ ControlInv /\ TimeInv /\ OptimizerInv(bso) /\ JobsInv(running_jobs)
  /\ Awaited(bso, running_jobs)
  /\ ObservedAsTheyEnd /\ RowsAreAccountedFor

-----------------------------------------------------------------------------
LEMMA Simulated ==
  /\ BatchSizes \subseteq Nat \ {0} /\ IsFiniteSet(BatchSizes) /\ DefaultBatchSize \in BatchSizes
  /\ NumPruningRounds = 2 /\ Recurrences \in Nat \ {0} /\ MaxTries \in Nat \ {0}
  BY SimulatorAssumption

LEMMA Appended ==
  ASSUME NEW s, IsSequence(s), NEW x
  PROVE  LET t == Append(s, x) IN
         /\ Len(s) \in Nat /\ DOMAIN s = 1..Len(s) /\ IsSequence(t)
         /\ Len(t) = Len(s) + 1 /\ DOMAIN t = 1..(Len(s) + 1)
         /\ \A i \in 1..Len(s) : t[i] = s[i]
         /\ t[Len(s) + 1] = x
<1> DEFINE t == Append(s, x)
           S == {s[i] : i \in 1..Len(s)}
           T == S \cup {x}
<1>1. s \in Seq(S)
  BY DEF IsSequence
<1> HIDE DEF S
<1>2. s \in Seq(T)
  BY <1>1, SeqMonotonic
<1>3. x \in T
  OBVIOUS
<1> HIDE DEF T
<1>4. /\ t \in Seq(T) /\ Len(t) = Len(s) + 1 /\ Len(s) \in Nat
      /\ \A i \in 1..Len(s) : t[i] = s[i]
      /\ t[Len(s) + 1] = x
  BY <1>2, <1>3, AppendProperties
<1> HIDE DEF t
<1>5. DOMAIN s = 1..Len(s) /\ DOMAIN t = 1..(Len(s) + 1)
  BY <1>2, <1>4
<1>6. IsSequence(t)
  BY SMTT(30), <1>4 DEF IsSequence
<1> QED
  BY <1>4, <1>5, <1>6 DEF t

LEMMA Removed ==
  ASSUME NEW s, IsSequence(s), NEW n \in 1..Len(s), NEW t, t = RemoveAt(s, n)
  PROVE  /\ Len(s) \in Nat /\ IsSequence(t) /\ Len(t) = Len(s) - 1
         /\ DOMAIN s = 1..Len(s) /\ DOMAIN t = 1..Len(t)
         /\ \A i \in 1..Len(t) : t[i] = IF i < n THEN s[i] ELSE s[i + 1]
<1> DEFINE S == {s[i] : i \in 1..Len(s)}
           before == SubSeq(s, 1, n - 1)
           after == SubSeq(s, n + 1, Len(s))
<1>1. s \in Seq(S)
  BY DEF IsSequence
<1> HIDE DEF S
<1>2. Len(s) \in Nat /\ DOMAIN s = 1..Len(s)
  BY <1>1
<1>3. before \in Seq(S) /\ Len(before) = n - 1 /\ \A i \in 1..(n - 1) : before[i] = s[i]
  <2>1. n - 1 \in Int /\ 1 \in Int /\ \A i \in 1..(n - 1) : s[i] \in S
    BY <1>1, <1>2
  <2>2. /\ before \in Seq(S) /\ Len(before) = IF 1 <= n - 1 THEN n - 1 - 1 + 1 ELSE 0
        /\ \A i \in 1..(n - 1 - 1 + 1) : before[i] = s[1 + i - 1]
    BY <2>1, SubSeqProperties
  <2> HIDE DEF before
  <2> QED
    BY <1>2, <2>2
<1>4. after \in Seq(S) /\ Len(after) = Len(s) - n /\ \A i \in 1..(Len(s) - n) : after[i] = s[n + i]
  <2> DEFINE m == Len(s)
  <2>1. n + 1 \in Int /\ m \in Int /\ \A i \in (n + 1)..m : s[i] \in S
    BY <1>1, <1>2
  <2>2. /\ after \in Seq(S) /\ Len(after) = IF n + 1 <= m THEN m - (n + 1) + 1 ELSE 0
        /\ \A i \in 1..(m - (n + 1) + 1) : after[i] = s[n + 1 + i - 1]
    BY <2>1, SubSeqProperties
  <2>3. n \in Nat /\ n <= m /\ m \in Nat
    BY <1>2
  <2> HIDE DEF after, m
  <2>4. Len(after) = m - n /\ m - (n + 1) + 1 = m - n
    BY <2>2, <2>3
  <2>5. \A i \in 1..(m - n) : n + 1 + i - 1 = n + i
    BY <2>3
  <2>6. \A i \in 1..(m - n) : after[i] = s[n + i]
    BY <2>2, <2>4, <2>5
  <2> QED
    BY <2>2, <2>4, <2>6 DEF m
<1>5. t = before \o after
  BY DEF RemoveAt
<1> HIDE DEF before, after
<1>6. /\ t \in Seq(S) /\ Len(t) = Len(before) + Len(after)
      /\ \A i \in 1..Len(before) : t[i] = before[i]
      /\ \A i \in (Len(before) + 1)..(Len(before) + Len(after)) : t[i] = after[i - Len(before)]
  <2>1. /\ before \o after \in Seq(S) /\ Len(before \o after) = Len(before) + Len(after)
        /\ \A i \in 1..(Len(before) + Len(after)) : (before \o after)[i] =
             IF i <= Len(before) THEN before[i] ELSE after[i - Len(before)]
    BY <1>3, <1>4, ConcatProperties
  <2>2. Len(before) \in Nat /\ Len(after) \in Nat
    BY <1>2, <1>3, <1>4
  <2> QED
    BY <1>5, <2>1, <2>2
<1>7. Len(t) = Len(s) - 1
  BY <1>2, <1>3, <1>4, <1>6
<1>8. ASSUME NEW i \in 1..Len(t) PROVE t[i] = IF i < n THEN s[i] ELSE s[i + 1]
  <2>1. CASE i < n
    <3>1. i \in 1..(n - 1)
      BY <1>2, <1>7, <2>1
    <3> QED
      BY <1>3, <1>6, <2>1, <3>1
  <2>2. CASE ~(i < n)
    <3>1. /\ i \in (Len(before) + 1)..(Len(before) + Len(after)) /\ i - Len(before) \in 1..(Len(s) - n)
          /\ n + (i - Len(before)) = i + 1
      BY <1>2, <1>3, <1>4, <1>7, <2>2
    <3>2. t[i] = after[i - Len(before)]
      BY <1>6, <3>1
    <3>3. after[i - Len(before)] = s[n + (i - Len(before))]
      BY <1>4, <3>1
    <3> QED
      BY <2>2, <3>1, <3>2, <3>3
  <2> QED
    BY <2>1, <2>2
<1>9. IsSequence(t) /\ DOMAIN t = 1..Len(t)
  <2>1. Len(t) \in Nat /\ t \in [1..Len(t) -> S] /\ DOMAIN t = 1..Len(t)
    BY <1>6, LenProperties
  <2> DEFINE T == {t[i] : i \in 1..Len(t)}
             m == Len(t)
  <2>2. t \in [1..m -> T] /\ m \in Nat
    BY <2>1
  <2>3. t \in Seq(T)
    <3> HIDE DEF T, m
    <3> QED
      BY <2>2
  <2> QED
    BY <2>1, <2>3 DEF IsSequence
<1> QED
  BY <1>2, <1>7, <1>8, <1>9

LEMMA Counted ==
  ASSUME NEW n \in Nat, NEW A \in SUBSET (1..n)
  PROVE  /\ IsFiniteSet(A) /\ Cardinality(A) \in Nat
         /\ Cardinality(A \cup {n + 1}) = Cardinality(A) + 1
<1>1. IsFiniteSet(1..n)
  BY FS_Interval
<1>2. IsFiniteSet(A)
  BY <1>1, FS_Subset
<1>3. n + 1 \notin A
  OBVIOUS
<1> QED
  BY <1>2, <1>3, FS_CardinalityType, FS_AddElement

(* A result counts once more for its batch size, if it reached.            *)
LEMMA Recorded ==
  ASSUME NEW h, IsSequence(h), NEW o, IsResult(o), NEW a
  PROVE  /\ TimesReached(h, a) \in Nat
         /\ o.bs = a /\ o.reached => TimesReached(Append(h, o), a) = TimesReached(h, a) + 1
         /\ ~(o.bs = a /\ o.reached) => TimesReached(Append(h, o), a) = TimesReached(h, a)
<1> DEFINE n == Len(h)
           k == Append(h, o)
<1>1. /\ n \in Nat /\ DOMAIN h = 1..n /\ DOMAIN k = 1..(n + 1) /\ k[n + 1] = o
      /\ \A i \in 1..n : k[i] = h[i]
  BY Appended
<1> HIDE DEF n, k
<1>2. ReachedBy(h, a) \in SUBSET (1..n)
  BY <1>1 DEF ReachedBy
<1>3. ReachedBy(k, a) = IF o.bs = a /\ o.reached THEN ReachedBy(h, a) \cup {n + 1} ELSE ReachedBy(h, a)
  <2>1. ASSUME NEW i \in 1..n PROVE i \in ReachedBy(k, a) <=> i \in ReachedBy(h, a)
    <3>1. i \in DOMAIN k /\ i \in DOMAIN h /\ k[i] = h[i]
      BY <1>1
    <3> QED
      BY <3>1 DEF ReachedBy
  <2>2. n + 1 \in ReachedBy(k, a) <=> o.bs = a /\ o.reached
    <3>1. n + 1 \in DOMAIN k
      BY <1>1
    <3> QED
      BY <1>1, <3>1 DEF ReachedBy
  <2>3. ReachedBy(k, a) \subseteq 1..n \cup {n + 1}
    BY <1>1 DEF ReachedBy
  <2>4. CASE o.bs = a /\ o.reached
    <3>1. n + 1 \in ReachedBy(k, a)
      BY <2>2, <2>4
    <3> QED
      BY <1>2, <2>1, <2>3, <2>4, <3>1
  <2>5. CASE ~(o.bs = a /\ o.reached)
    <3>1. n + 1 \notin ReachedBy(k, a)
      BY <2>2, <2>5
    <3>2. ReachedBy(k, a) \subseteq 1..n
      BY <2>3, <3>1
    <3>3. ReachedBy(k, a) = ReachedBy(h, a)
      BY <1>2, <2>1, <3>2
    <3> QED
      BY <2>5, <3>3
  <2> QED
    BY <2>4, <2>5
<1>4. /\ Cardinality(ReachedBy(h, a)) \in Nat
      /\ Cardinality(ReachedBy(h, a) \cup {n + 1}) = Cardinality(ReachedBy(h, a)) + 1
  BY <1>1, <1>2, Counted
<1> QED
  BY <1>3, <1>4 DEF TimesReached, k

ReachedIn(history) == {i \in DOMAIN history : history[i].reached}

LEMMA ReachedIsRecorded ==
  ASSUME NEW h, IsSequence(h), NEW o, IsResult(o)
  PROVE  /\ Cardinality(ReachedIn(h)) \in Nat
         /\ o.reached => Cardinality(ReachedIn(Append(h, o))) = Cardinality(ReachedIn(h)) + 1
         /\ ~o.reached => Cardinality(ReachedIn(Append(h, o))) = Cardinality(ReachedIn(h))
<1> DEFINE n == Len(h)
           k == Append(h, o)
<1>1. /\ n \in Nat /\ DOMAIN h = 1..n /\ DOMAIN k = 1..(n + 1) /\ k[n + 1] = o
      /\ \A i \in 1..n : k[i] = h[i]
  BY Appended
<1> HIDE DEF n, k
<1>2. ReachedIn(h) \in SUBSET (1..n)
  BY <1>1 DEF ReachedIn
<1>3. ReachedIn(k) = IF o.reached THEN ReachedIn(h) \cup {n + 1} ELSE ReachedIn(h)
  <2>1. ASSUME NEW i \in 1..n PROVE i \in ReachedIn(k) <=> i \in ReachedIn(h)
    <3>1. i \in DOMAIN k /\ i \in DOMAIN h /\ k[i] = h[i]
      BY <1>1
    <3> QED
      BY <3>1 DEF ReachedIn
  <2>2. n + 1 \in ReachedIn(k) <=> o.reached
    <3>1. n + 1 \in DOMAIN k
      BY <1>1
    <3> QED
      BY <1>1, <3>1 DEF ReachedIn
  <2>3. ReachedIn(k) \subseteq 1..n \cup {n + 1}
    BY <1>1 DEF ReachedIn
  <2>4. CASE o.reached
    <3>1. n + 1 \in ReachedIn(k)
      BY <2>2, <2>4
    <3> QED
      BY <1>2, <2>1, <2>3, <2>4, <3>1
  <2>5. CASE ~o.reached
    <3>1. n + 1 \notin ReachedIn(k)
      BY <2>2, <2>5
    <3>2. ReachedIn(k) \subseteq 1..n
      BY <2>3, <3>1
    <3>3. ReachedIn(k) = ReachedIn(h)
      BY <1>2, <2>1, <3>2
    <3> QED
      BY <2>5, <3>3
  <2> QED
    BY <2>4, <2>5
<1>4. /\ Cardinality(ReachedIn(h)) \in Nat
      /\ Cardinality(ReachedIn(h) \cup {n + 1}) = Cardinality(ReachedIn(h)) + 1
  BY <1>1, <1>2, Counted
<1> QED
  BY <1>3, <1>4 DEF k

LEMMA Extremes ==
  ASSUME NEW S \in SUBSET BatchSizes, S # {}
  PROVE  Max(S) \in S /\ Min(S) \in S
<1>1. S \subseteq Nat /\ IsFiniteSet(S)
  BY Simulated, FS_Subset
<1> DEFINE Greatest(s) == \E x \in s : \A y \in s : x >= y
           G == {s \in SUBSET S : s = {} \/ Greatest(s)}
<1>2. ASSUME NEW s \in SUBSET S, NEW x \in S, s \in G PROVE s \cup {x} \in G
  <2>1. CASE s = {}
    BY <1>1, <2>1
  <2>2. CASE Greatest(s)
    <3>1. PICK z \in s : \A y \in s : z >= y
      BY <2>2
    <3>2. CASE z >= x
      BY <3>1, <3>2
    <3>3. CASE ~(z >= x)
      BY <1>1, <3>1, <3>3
    <3> QED
      BY <3>2, <3>3
  <2> QED
    BY <1>2, <2>1, <2>2
<1>3. S \in G
  <2> HIDE DEF G
  <2>1. {} \in G
    BY DEF G
  <2> QED
    BY <1>1, <1>2, <2>1, FiniteInduct
<1>4. \E x \in S : \A y \in S : x >= y
  BY <1>3
<1>5. \E x \in S : \A y \in S : x <= y
  BY <1>1, LeastOf
<1> QED
  BY <1>4, <1>5 DEF Max, Min

-----------------------------------------------------------------------------
(* The generator. *)

LEMMA RoundStarted ==
  ASSUME NEW g, GeneratorShape(g), NEW left \in SUBSET BatchSizes, left # {},
         NEW p, p = StartRound(g, left)
  PROVE  /\ GeneratorShape(p) /\ p.is = g.is /\ p.expecting = g.expecting
         /\ p.left = left /\ p.good = {} /\ p.round = g.round + 1 /\ p.down \cup p.up = left
<1> DEFINE down == {b \in left : b <= g.default}
           up == {b \in left : b > g.default}
<1>1. p = [is |-> g.is, round |-> g.round + 1, left |-> left, default |-> g.default, down |-> down,
           up |-> up, good |-> {}, best_cost |-> Infinity, expecting |-> g.expecting]
  BY DEF StartRound, GeneratorShape
<1>2. down \cup up = left
  <2>1. left \subseteq Nat /\ g.default \in Nat
    BY Simulated DEF GeneratorShape
  <2>2. ASSUME NEW b \in left PROVE b <= g.default \/ b > g.default
    BY <2>1
  <2> QED
    BY <2>2
<1>3. down \subseteq left /\ up \subseteq left
  OBVIOUS
<1> HIDE DEF down, up
<1>4. g.is \in GeneratorSteps /\ g.round \in Nat /\ g.default \in BatchSizes
  BY DEF GeneratorShape
<1> QED
  BY <1>1, <1>2, <1>3, <1>4 DEF GeneratorShape

LEMMA Proceeded ==
  ASSUME NEW g, IsGenerator(g), g.is # "asked",
         NEW history, \A bs \in BatchSizes : TimesReached(history, bs) \in Nat, Earned(g, history),
         NEW p, p = Proceed(g)
  PROVE  /\ GeneratorShape(p) /\ Earned(p, history) /\ p.is # "asked"
         /\ IF p.is \in {"over", "infeasible"} THEN IsGenerator(p) ELSE p.down \cup p.up # {}
<1>0. GeneratorShape(g) /\ (g.is = "start" => g.round = 0 /\ g.good = {})
  BY DEF IsGenerator
<1>1. CASE g.is = "start"
  <2>1. p = StartRound(g, BatchSizes)
    BY <1>1 DEF Proceed
  <2>2. BatchSizes # {}
    BY Simulated
  <2>3. /\ GeneratorShape(p) /\ p.is = g.is /\ p.left = BatchSizes /\ p.good = {}
        /\ p.round = g.round + 1 /\ p.down \cup p.up = BatchSizes
    BY <1>0, <2>1, <2>2, RoundStarted
  <2>4. Earned(p, history)
    BY <1>0, <1>1, <2>3 DEF Earned
  <2> QED
    BY <1>1, <2>2, <2>3, <2>4
<1>2. CASE g.is # "start" /\ g.down \cup g.up # {}
  <2>1. p = g
    BY <1>2 DEF Proceed
  <2> QED
    BY <1>2, <2>1 DEF IsGenerator
<1>3. CASE g.is # "start" /\ ~(g.down \cup g.up # {})
  <2>1. p = EndRound(g) /\ g.down = {} /\ g.up = {}
    BY <1>3 DEF Proceed
  <2>2. CASE g.round = NumPruningRounds
    <3>1. p = [is |-> "over", round |-> g.round, left |-> g.good, default |-> g.default,
               down |-> g.down, up |-> g.up, good |-> g.good, best_cost |-> g.best_cost, expecting |-> 0]
      BY <1>0, <2>1, <2>2 DEF EndRound, GeneratorShape
    <3>2. GeneratorShape(p)
      BY <1>0, <2>1, <3>1 DEF GeneratorShape, GeneratorSteps
    <3>3. IsGenerator(p)
      BY <2>1, <2>2, <3>1, <3>2 DEF IsGenerator
    <3>4. Earned(p, history)
      <4>1. \A bs \in g.good : g.round <= TimesReached(history, bs) /\ bs \in BatchSizes
        BY <1>0 DEF Earned, GeneratorShape
      <4>2. g.round \in Nat
        BY <1>0 DEF GeneratorShape
      <4> QED
        BY <3>1, <4>1, <4>2 DEF Earned
    <3> QED
      BY <3>1, <3>2, <3>3, <3>4
  <2>3. CASE g.round # NumPruningRounds /\ g.good = {}
    <3>1. p = [is |-> "infeasible", round |-> g.round, left |-> g.left, default |-> g.default,
               down |-> g.down, up |-> g.up, good |-> g.good, best_cost |-> g.best_cost, expecting |-> 0]
      BY <1>0, <2>1, <2>3 DEF EndRound, GeneratorShape
    <3>2. GeneratorShape(p)
      BY <1>0, <3>1 DEF GeneratorShape, GeneratorSteps
    <3>3. IsGenerator(p)
      BY <3>1, <3>2 DEF IsGenerator
    <3>4. Earned(p, history)
      BY <3>1 DEF Earned
    <3> QED
      BY <3>1, <3>2, <3>3, <3>4
  <2>4. CASE g.round # NumPruningRounds /\ g.good # {}
    <3>1. p = StartRound(g, g.good)
      BY <2>1, <2>4 DEF EndRound
    <3>2. g.good \in SUBSET BatchSizes /\ g.round \in Nat
      BY <1>0 DEF GeneratorShape
    <3>3. /\ GeneratorShape(p) /\ p.is = g.is /\ p.expecting = g.expecting /\ p.left = g.good
          /\ p.good = {} /\ p.round = g.round + 1 /\ p.down \cup p.up = g.good
      BY <1>0, <2>4, <3>1, <3>2, RoundStarted
    <3>4. Earned(p, history)
      <4>1. \A bs \in g.good : g.round <= TimesReached(history, bs) /\ TimesReached(history, bs) \in Nat
        BY <3>2 DEF Earned
      <4> QED
        BY <3>2, <3>3, <4>1 DEF Earned
    <3>5. p.is # "over"
      BY <2>4, <3>3 DEF IsGenerator
    <3>6. p.is = "infeasible" => IsGenerator(p)
      BY <3>3, <3>5 DEF IsGenerator
    <3> QED
      BY <2>4, <3>3, <3>4, <3>5, <3>6
  <2> QED
    BY <2>2, <2>3, <2>4
<1> QED
  BY <1>1, <1>2, <1>3

(* A generator that does not wait for a result is asked, or has ended.     *)
LEMMA Asked ==
  ASSUME NEW g, IsGenerator(g), g.is # "asked",
         NEW history, \A bs \in BatchSizes : TimesReached(history, bs) \in Nat, Earned(g, history)
  PROVE  /\ IsGenerator(NextBatch(g)) /\ Earned(NextBatch(g), history)
         /\ NextBatch(g).is \in {"asked", "over", "infeasible"}
<1> DEFINE n == NextBatch(g)
           p == Proceed(g)
           bs == IF p.down # {} THEN Max(p.down) ELSE Min(p.up)
<1>1. /\ GeneratorShape(p) /\ Earned(p, history)
      /\ IF p.is \in {"over", "infeasible"} THEN IsGenerator(p) ELSE p.down \cup p.up # {}
  BY Proceeded
<1>2. n = IF p.is \in {"over", "infeasible"} THEN p
          ELSE [p EXCEPT !.is = "asked", !.expecting = bs, !.down = @ \ {bs}, !.up = @ \ {bs}]
  BY DEF NextBatch
<1> HIDE DEF n, p
<1>3. CASE p.is \in {"over", "infeasible"}
  BY <1>1, <1>2, <1>3 DEF n
<1>4. CASE p.is \notin {"over", "infeasible"}
  <2>1. bs \in p.left
    <3>1. /\ p.down \in SUBSET BatchSizes /\ p.up \in SUBSET BatchSizes /\ p.down \cup p.up # {}
          /\ p.down \subseteq p.left /\ p.up \subseteq p.left
      BY <1>1, <1>4 DEF GeneratorShape
    <3>2. CASE p.down # {}
      BY <3>1, <3>2, Extremes
    <3>3. CASE p.down = {}
      BY <3>1, <3>3, Extremes
    <3> QED
      BY <3>2, <3>3
  <2> HIDE DEF bs
  <2>2. n = [is |-> "asked", round |-> p.round, left |-> p.left, default |-> p.default,
             down |-> p.down \ {bs}, up |-> p.up \ {bs}, good |-> p.good,
             best_cost |-> p.best_cost, expecting |-> bs]
    BY <1>1, <1>2, <1>4 DEF GeneratorShape
  <2>3. GeneratorShape(n)
    BY <1>1, <2>2 DEF GeneratorShape, GeneratorSteps
  <2>4. IsGenerator(n)
    BY <2>1, <2>2, <2>3 DEF IsGenerator
  <2>5. Earned(n, history)
    BY <1>1, <2>2 DEF Earned
  <2> QED
    BY <2>2, <2>4, <2>5 DEF n
<1> QED
  BY <1>3, <1>4 DEF n

(* Told the result it waits for, a generator that has it in its history    *)
(* is in order.                                                            *)
LEMMA Told ==
  ASSUME NEW g, IsGenerator(g), g.is = "asked",
         NEW history, IsSequence(history), Earned(g, history),
         NEW o, IsResult(o), o.bs = g.expecting, NEW cost
  PROVE  LET n == SendResult(g, o.bs, cost, o.reached)
         IN IsGenerator(n) /\ n.is = "told" /\ Earned(n, Append(history, o))
<1> DEFINE n == SendResult(g, o.bs, cost, o.reached)
           known == Append(history, o)
<1>0. GeneratorShape(g) /\ o.bs \in g.left /\ g.round \in Nat
  BY DEF IsGenerator, GeneratorShape
<1> HIDE DEF n, known
<1>1. /\ \A bs : TimesReached(history, bs) \in Nat
      /\ \A bs : TimesReached(known, bs) \in {TimesReached(history, bs), TimesReached(history, bs) + 1}
      /\ o.reached => TimesReached(known, o.bs) = TimesReached(history, o.bs) + 1
  <2> SUFFICES ASSUME NEW bs
               PROVE  /\ TimesReached(history, bs) \in Nat
                      /\ TimesReached(known, bs) \in {TimesReached(history, bs), TimesReached(history, bs) + 1}
                      /\ o.reached => TimesReached(known, o.bs) = TimesReached(history, o.bs) + 1
    OBVIOUS
  <2>1. TimesReached(history, bs) \in Nat
    BY Recorded DEF known
  <2>2. o.bs = bs /\ o.reached => TimesReached(known, bs) = TimesReached(history, bs) + 1
    BY Recorded DEF known
  <2>3. ~(o.bs = bs /\ o.reached) => TimesReached(known, bs) = TimesReached(history, bs)
    BY Recorded DEF known
  <2>4. o.reached => TimesReached(known, o.bs) = TimesReached(history, o.bs) + 1
    BY Recorded DEF known
  <2> QED
    BY <2>1, <2>2, <2>3, <2>4
<1>2. \A bs \in g.left : g.round <= TimesReached(known, bs) + 1
  BY <1>0, <1>1 DEF Earned
<1>3. \A bs \in g.good : g.round <= TimesReached(known, bs)
  BY <1>0, <1>1 DEF Earned
<1>4. CASE ~o.reached
  <2> DEFINE up == IF o.bs <= g.default THEN g.up ELSE {}
  <2>1. n = [is |-> "told", round |-> g.round, left |-> g.left, default |-> g.default,
             down |-> {}, up |-> up, good |-> g.good, best_cost |-> g.best_cost, expecting |-> 0]
    BY <1>0, <1>4 DEF n, SendResult, GeneratorShape
  <2>2. up \subseteq g.left
    BY <1>0 DEF GeneratorShape
  <2> HIDE DEF up
  <2>3. GeneratorShape(n)
    BY <1>0, <2>1, <2>2 DEF GeneratorShape, GeneratorSteps
  <2>4. IsGenerator(n)
    BY <2>1, <2>3 DEF IsGenerator
  <2> QED
    BY <1>2, <1>3, <2>1, <2>4 DEF Earned, n, known
<1>5. CASE o.reached
  <2> DEFINE default == IF Cheaper(g, cost) THEN o.bs ELSE g.default
             best == IF Cheaper(g, cost) THEN cost ELSE g.best_cost
  <2>1. n = [is |-> "told", round |-> g.round, left |-> g.left, default |-> default,
             down |-> g.down, up |-> g.up, good |-> g.good \cup {o.bs}, best_cost |-> best, expecting |-> 0]
    BY <1>0, <1>5 DEF n, SendResult, GeneratorShape
  <2>2. default \in BatchSizes
    BY <1>0 DEF GeneratorShape
  <2> HIDE DEF default, best
  <2>3. GeneratorShape(n)
    BY <1>0, <2>1, <2>2 DEF GeneratorShape, GeneratorSteps
  <2>4. IsGenerator(n)
    BY <2>1, <2>3 DEF IsGenerator
  <2>5. g.round <= TimesReached(known, o.bs)
    BY <1>0, <1>1, <1>5 DEF Earned
  <2> QED
    BY <1>2, <1>3, <2>1, <2>4, <2>5 DEF Earned, n, known
<1> QED
  BY <1>4, <1>5 DEF n, known

-----------------------------------------------------------------------------
(* The optimizer. *)

LEMMA EarnedIsKept ==
  ASSUME NEW g, NEW history, IsSequence(history), Earned(g, history), g.round \in Nat, NEW o, IsResult(o)
  PROVE  Earned(g, Append(history, o))
<1>1. ASSUME NEW bs, NEW r \in Nat
      PROVE  /\ r <= TimesReached(history, bs) => r <= TimesReached(Append(history, o), bs)
             /\ r <= TimesReached(history, bs) + 1 => r <= TimesReached(Append(history, o), bs) + 1
  <2>1. TimesReached(history, bs) \in Nat
    BY Recorded
  <2>2. CASE o.bs = bs /\ o.reached
    <3>1. TimesReached(Append(history, o), bs) = TimesReached(history, bs) + 1
      BY <2>2, Recorded
    <3> QED
      BY <2>1, <3>1
  <2>3. CASE ~(o.bs = bs /\ o.reached)
    <3>1. TimesReached(Append(history, o), bs) = TimesReached(history, bs)
      BY <2>3, Recorded
    <3> QED
      BY <2>1, <3>1
  <2> QED
    BY <2>2, <2>3
<1> QED
  BY <1>1 DEF Earned

LEMMA TimesAreNat ==
  ASSUME NEW history, IsSequence(history), NEW bs
  PROVE  TimesReached(history, bs) \in Nat
<1> DEFINE o == [bs |-> bs, reached |-> TRUE]
<1>1. IsResult(o)
  BY DEF IsResult
<1> HIDE DEF o
<1> QED
  BY <1>1, Recorded

(* A batch size is awaited by the generator, or an arm of the bandit.      *)
Chose(choice) ==
  policy = "Pruning" =>
    \/ choice.bso.gen.is = "asked" /\ choice.bso.gen.expecting = choice.bs
    \/ choice.bso.gen.is = "over" /\ choice.bso.arms # <<>>

LEMMA Predicted ==
  ASSUME policy \in {"Pruning", "GTS"}, NEW b, OptimizerInv(b), NEW choice \in Predict(b)
  PROVE  /\ choice.bs \in BatchSizes /\ OptimizerInv(choice.bso) /\ choice.bso.history = b.history
         /\ Chose(choice)
<1> DEFINE g == NextBatch(b.gen)
           enough == g.left # {} /\ \A a \in g.left : HistoryForBs(b, a) >= 2
           arms == IF b.arms = <<>> THEN ConstructMab(b, g.left) ELSE b.arms
<1>0. b = [gen |-> b.gen, history |-> b.history, arms |-> b.arms] /\ IsSequence(b.history)
  BY DEF OptimizerInv
<1>1. ASSUME NEW m PROVE MabPredict(m) \subseteq DOMAIN m
  BY DEF MabPredict
<1>2. CASE policy = "GTS"
  <2>1. PICK a \in MabPredict(b.arms) : choice = [bs |-> a, bso |-> b]
    BY <1>2 DEF Predict
  <2>2. a \in BatchSizes
    BY <1>1, <1>2 DEF OptimizerInv
  <2> QED
    BY <1>2, <2>1, <2>2 DEF Chose
<1>3. CASE policy = "Pruning"
  <2>1. /\ IsGenerator(b.gen) /\ Earned(b.gen, b.history)
        /\ \A bs \in BatchSizes : TimesReached(b.history, bs) \in Nat
    BY <1>0, <1>3, TimesAreNat DEF OptimizerInv
  <2>2. b.gen.is # "asked"
    <3>1. SUFFICES ASSUME b.gen.is = "asked" PROVE FALSE
      OBVIOUS
    <3>2. g = [b.gen EXCEPT !.is = "broken"]
      BY <3>1 DEF NextBatch
    <3>3. g.is = "broken"
      BY <2>1, <3>2 DEF IsGenerator, GeneratorShape
    <3> QED
      BY <1>3, <3>3 DEF Predict
  <2>3. IsGenerator(g) /\ Earned(g, b.history) /\ g.is \in {"asked", "over", "infeasible"}
    BY <2>1, <2>2, Asked
  <2>4. b.arms # <<>> => b.gen.is = "over"
    BY <1>3 DEF OptimizerInv
  <2>5. b.gen.is = "over" => g.is = "over"
    <3>1. SUFFICES ASSUME b.gen.is = "over" PROVE g.is = "over"
      OBVIOUS
    <3>2. /\ b.gen.down = {} /\ b.gen.up = {} /\ b.gen.round = NumPruningRounds
          /\ GeneratorShape(b.gen)
      BY <2>1, <3>1 DEF IsGenerator
    <3>3. Proceed(b.gen) = [b.gen EXCEPT !.is = "over", !.left = b.gen.good, !.expecting = 0]
      BY <3>1, <3>2 DEF Proceed, EndRound
    <3>4. Proceed(b.gen).is = "over"
      BY <3>2, <3>3 DEF GeneratorShape
    <3> QED
      BY <3>1, <3>4 DEF NextBatch
  <2>6. CASE g.is = "asked"
    <3>1. choice = [bs |-> g.expecting, bso |-> [b EXCEPT !.gen = g]]
      BY <1>3, <2>6 DEF Predict
    <3>2. choice.bso = [gen |-> g, history |-> b.history, arms |-> b.arms] /\ choice.bs = g.expecting
      BY <1>0, <3>1
    <3>3. b.arms = <<>>
      BY <2>4, <2>5, <2>6
    <3>4. g.expecting \in BatchSizes
      BY <2>3, <2>6 DEF IsGenerator, GeneratorShape
    <3> HIDE DEF g
    <3>5. OptimizerInv(choice.bso)
      BY <1>0, <1>3, <2>3, <3>2, <3>3 DEF OptimizerInv
    <3> QED
      BY <2>6, <3>2, <3>4, <3>5 DEF Chose
  <2>7. CASE g.is # "asked"
    <3>1. g.is = "over" /\ enough
      BY <1>3, <2>7 DEF Predict
    <3>2. PICK a \in MabPredict(arms) : choice = [bs |-> a, bso |-> [b EXCEPT !.gen = g, !.arms = arms]]
      BY <1>3, <3>1 DEF Predict
    <3> HIDE DEF g
    <3>3. /\ a \in DOMAIN arms /\ arms # <<>> /\ DOMAIN arms \subseteq BatchSizes
          /\ \A bs \in DOMAIN arms : NumPruningRounds <= TimesReached(b.history, bs)
      <4>1. a \in DOMAIN arms
        BY <1>1
      <4>2. arms # <<>>
        BY <4>1
      <4>3. CASE b.arms = <<>>
        <5>1. DOMAIN arms = g.left
          BY <4>3 DEF ConstructMab
        <5>2. g.left = g.good /\ g.round = NumPruningRounds /\ g.left \subseteq BatchSizes
          BY <2>3, <3>1 DEF IsGenerator, GeneratorShape
        <5> HIDE DEF arms
        <5> QED
          BY <2>3, <4>1, <4>2, <5>1, <5>2 DEF Earned
      <4>4. CASE b.arms # <<>>
        <5>1. arms = b.arms
          BY <4>4
        <5> HIDE DEF arms
        <5> QED
          BY <1>3, <4>1, <4>2, <4>4, <5>1 DEF OptimizerInv
      <4> QED
        BY <4>3, <4>4
    <3> HIDE DEF arms
    <3>4. choice.bso = [gen |-> g, history |-> b.history, arms |-> arms] /\ choice.bs = a
      BY <1>0, <3>2
    <3>5. OptimizerInv(choice.bso)
      BY <1>0, <1>3, <2>3, <3>1, <3>3, <3>4 DEF OptimizerInv
    <3> QED
      BY <3>1, <3>3, <3>4, <3>5 DEF Chose
  <2> QED
    BY <2>6, <2>7
<1> QED
  BY <1>2, <1>3

(* The result of a batch size, which the generator awaits if it expects it.*)
LEMMA Observed ==
  ASSUME policy \in {"Pruning", "GTS"}, NEW b, OptimizerInv(b),
         NEW bs \in BatchSizes, NEW cost, NEW reached \in BOOLEAN,
         policy = "Pruning" /\ b.arms = <<>> /\ (mode = "group" => b.gen.expecting = bs)
           => b.gen.is = "asked" /\ b.gen.expecting = bs
  PROVE  LET n == Observe(b, bs, cost, reached) IN
         /\ OptimizerInv(n)
         /\ n.history = Append(b.history, [bs |-> bs, cost |-> cost, reached |-> reached])
         /\ policy = "Pruning" =>
              /\ n.gen.is = "asked" => n.gen = b.gen /\ (mode = "group" /\ b.gen.expecting # bs)
              /\ n.gen.is = "start" => b.gen.is = "start"
<1> DEFINE n == Observe(b, bs, cost, reached)
           o == [bs |-> bs, cost |-> cost, reached |-> reached]
           history == Append(b.history, o)
           known == Remember(b, bs, cost, reached)
<1>0. b = [gen |-> b.gen, history |-> b.history, arms |-> b.arms] /\ IsSequence(b.history)
  BY DEF OptimizerInv
<1>1. IsResult(o) /\ o.bs = bs /\ o.reached = reached
  BY DEF IsResult
<1>2. known = [gen |-> b.gen, history |-> history, arms |-> b.arms]
  BY <1>0 DEF Remember
<1>3. /\ b.arms # <<>> => n = FitArm(known, bs)
      /\ b.arms = <<>> /\ mode = "group" /\ b.gen.expecting # bs => n = known
      /\ b.arms = <<>> /\ ~(mode = "group" /\ b.gen.expecting # bs)
           => n = [known EXCEPT !.gen = SendResult(@, bs, cost, reached)]
  BY DEF Observe
<1> HIDE DEF n, o, known
<1>4. IsSequence(history)
  BY <1>0, Appended
<1>5. policy = "Pruning" => /\ IsGenerator(b.gen) /\ Earned(b.gen, b.history) /\ Earned(b.gen, history)
                            /\ b.gen.round \in Nat
  <2> SUFFICES ASSUME policy = "Pruning"
               PROVE  /\ IsGenerator(b.gen) /\ Earned(b.gen, b.history) /\ Earned(b.gen, history)
                      /\ b.gen.round \in Nat
    OBVIOUS
  <2>1. IsGenerator(b.gen) /\ Earned(b.gen, b.history)
    BY DEF OptimizerInv
  <2>2. b.gen.round \in Nat
    BY <2>1 DEF IsGenerator, GeneratorShape
  <2>3. Earned(b.gen, history)
    BY <1>0, <1>1, <2>1, <2>2, EarnedIsKept
  <2> QED
    BY <2>1, <2>2, <2>3
<1>6. CASE b.arms # <<>>
  <2> DEFINE arms == [a \in DOMAIN b.arms |-> IF a = bs THEN HistoryForBs(known, bs) ELSE b.arms[a]]
  <2>1. n = [gen |-> b.gen, history |-> history, arms |-> arms]
    <3>1. n = FitArm(known, bs) /\ known.arms = b.arms
      BY <1>2, <1>3, <1>6
    <3>2. FitArm(known, bs) = [known EXCEPT !.arms = arms]
      BY <3>1 DEF FitArm
    <3> HIDE DEF arms, history
    <3> QED
      BY <1>2, <3>1, <3>2
  <2>2. DOMAIN arms = DOMAIN b.arms
    OBVIOUS
  <2> HIDE DEF arms
  <2>3. policy = "Pruning" => \A a \in DOMAIN b.arms : NumPruningRounds <= TimesReached(history, a)
    <3> SUFFICES ASSUME policy = "Pruning", NEW a \in DOMAIN b.arms
                 PROVE  NumPruningRounds <= TimesReached(history, a)
      OBVIOUS
    <3>1. NumPruningRounds <= TimesReached(b.history, a) /\ TimesReached(b.history, a) \in Nat
      BY <1>0, <1>6, TimesAreNat DEF OptimizerInv
    <3>2. /\ o.bs = a /\ o.reached => TimesReached(history, a) = TimesReached(b.history, a) + 1
          /\ ~(o.bs = a /\ o.reached) => TimesReached(history, a) = TimesReached(b.history, a)
      BY <1>0, <1>1, Recorded
    <3> HIDE DEF history
    <3> QED
      BY Simulated, <3>1, <3>2
  <2> HIDE DEF history
  <2>4. OptimizerInv(n)
    BY <1>4, <1>5, <1>6, <2>1, <2>2, <2>3 DEF OptimizerInv
  <2>5. policy = "Pruning" => b.gen.is = "over"
    BY <1>6 DEF OptimizerInv
  <2> QED
    BY <2>1, <2>4, <2>5 DEF n, history, o
<1>7. CASE b.arms = <<>> /\ policy = "GTS"
  BY <1>7, Simulated DEF OptimizerInv
<1>8. CASE b.arms = <<>> /\ policy = "Pruning" /\ mode = "group" /\ b.gen.expecting # bs
  <2>1. n = [gen |-> b.gen, history |-> history, arms |-> b.arms]
    BY <1>2, <1>3, <1>8
  <2> HIDE DEF history
  <2>2. OptimizerInv(n)
    BY <1>4, <1>5, <1>8, <2>1 DEF OptimizerInv
  <2> QED
    BY <1>8, <2>1, <2>2 DEF n, history, o
<1>9. CASE b.arms = <<>> /\ policy = "Pruning" /\ ~(mode = "group" /\ b.gen.expecting # bs)
  <2> DEFINE told == SendResult(b.gen, bs, cost, reached)
  <2>1. n = [gen |-> told, history |-> history, arms |-> <<>>]
    BY <1>2, <1>3, <1>9
  <2>2. b.gen.is = "asked" /\ b.gen.expecting = bs
    BY <1>9
  <2>3. IsGenerator(told) /\ told.is = "told" /\ Earned(told, history)
    <3>1. IsGenerator(b.gen) /\ Earned(b.gen, b.history) /\ o.bs = b.gen.expecting
      BY <1>1, <1>5, <1>9, <2>2
    <3>2. LET m == SendResult(b.gen, o.bs, cost, o.reached)
          IN IsGenerator(m) /\ m.is = "told" /\ Earned(m, Append(b.history, o))
      BY <1>0, <1>1, <2>2, <3>1, Told
    <3> QED
      BY <1>1, <3>2
  <2> HIDE DEF told, history
  <2>4. OptimizerInv(n)
    BY <1>4, <1>9, <2>1, <2>3 DEF OptimizerInv
  <2> QED
    BY <2>1, <2>3, <2>4 DEF n, history, o
<1> QED
  BY <1>6, <1>7, <1>8, <1>9

-----------------------------------------------------------------------------
(* The jobs in flight. *)

LEMMA Nothing == IsSequence(<<>>) /\ JobsInv(<<>>) /\ Len(<<>>) = 0 /\ ReachedIn(<<>>) = {}
<1>1. <<>> \in Seq({}) /\ Len(<<>>) = 0 /\ DOMAIN <<>> = {}
  OBVIOUS
<1>2. {<<>>[i] : i \in 1..Len(<<>>)} = {}
  BY <1>1
<1>3. IsSequence(<<>>)
  BY <1>1, <1>2 DEF IsSequence
<1> QED
  BY <1>1, <1>3 DEF JobsInv, ReachedIn

LEMMA EmptyOrNot ==
  ASSUME NEW s, IsSequence(s)
  PROVE  s = <<>> <=> Len(s) = 0
<1> DEFINE S == {s[i] : i \in 1..Len(s)}
<1>1. s \in Seq(S)
  BY DEF IsSequence
<1> HIDE DEF S
<1> QED
  BY <1>1

(* The job observed next is one of those that end first.                   *)
LEMMA FirstEnds ==
  ASSUME JobsInv(running_jobs), current_time \in Nat, Finished # {}
  PROVE  /\ FirstToEnd \in 1..Len(running_jobs) /\ running_jobs[FirstToEnd].end <= current_time
         /\ \A k \in 1..Len(running_jobs) : running_jobs[FirstToEnd].end <= running_jobs[k].end
<1> DEFINE n == Len(running_jobs)
           end(i) == running_jobs[i].end
           ends == {end(i) : i \in Finished}
           first == {i \in Finished : \A k \in Finished : end(i) <= end(k)}
<1>1. n \in Nat /\ DOMAIN running_jobs = 1..n /\ \A i \in 1..n : end(i) \in Nat
  <2>1. Len(running_jobs) \in Nat /\ DOMAIN running_jobs = 1..Len(running_jobs)
    BY Appended DEF JobsInv
  <2> QED
    BY <2>1 DEF JobsInv, IsJob
<1>2. Finished \subseteq 1..n /\ \A i \in 1..n : i \in Finished <=> end(i) <= current_time
  BY <1>1 DEF Finished
<1>3. ends \in SUBSET Nat /\ ends # {}
  BY <1>1, <1>2
<1>4. PICK e \in ends : \A m \in ends : e <= m
  BY <1>3, LeastOf
<1>5. first \subseteq Nat /\ first # {}
  <2>1. PICK i \in Finished : e = end(i)
    BY <1>4
  <2>2. \A k \in Finished : end(i) <= end(k)
    BY <1>4, <2>1
  <2>3. i \in first
    BY <2>2
  <2>4. first \subseteq Finished /\ Finished \subseteq Nat
    BY <1>1, <1>2
  <2> HIDE DEF first
  <2> QED
    BY <2>3, <2>4
<1>6. FirstToEnd \in first
  <2> HIDE DEF first
  <2>1. \E i \in first : \A k \in first : i <= k
    BY <1>5, LeastOf
  <2>2. FirstToEnd = Min(first)
    BY DEF FirstToEnd, first
  <2> QED
    BY <2>1, <2>2 DEF Min
<1>7. ASSUME NEW k \in 1..n PROVE end(FirstToEnd) <= end(k)
  <2>1. CASE k \in Finished
    BY <1>6, <2>1
  <2>2. CASE k \notin Finished
    <3>1. end(FirstToEnd) <= current_time /\ ~(end(k) <= current_time) /\ FirstToEnd \in 1..n
      BY <1>2, <1>6, <2>2
    <3>2. end(FirstToEnd) \in Nat /\ end(k) \in Nat
      BY <1>1, <3>1
    <3> HIDE DEF end
    <3> QED
      BY <3>1, <3>2
  <2> QED
    BY <2>1, <2>2
<1> QED
  BY <1>2, <1>6, <1>7

LEMMA JobOf ==
  ASSUME NEW bs \in BatchSizes, NEW result \in RunJob(bs)
  PROVE  result.bs = bs /\ result.reached \in BOOLEAN
<1>1. PICK target \in Targets[bs] :
        result = [bs |-> bs, reached |-> (target \in 1..EpochsAllowed(bs)),
                  cost |-> CostOf(bs, IF target \in 1..EpochsAllowed(bs) THEN target ELSE EpochsAllowed(bs))]
  BY Zenon DEF RunJob
<1>2. result.bs = bs /\ result.reached = (target \in 1..EpochsAllowed(bs))
  BY <1>1
<1> QED
  BY <1>2

(* A job launched with others in flight leaves the optimizer as it is; one *)
(* that is alone is what the optimizer predicts.                           *)
LEMMA Submitted ==
  ASSUME ControlInv, NEW b, OptimizerInv(b), NEW jobs, JobsInv(jobs), Awaited(b, jobs),
         NEW start \in Nat, NEW end \in Nat, start <= end, Submit(b, jobs, start, end)
  PROVE  /\ OptimizerInv(bso') /\ bso'.history = b.history
         /\ JobsInv(running_jobs') /\ Awaited(bso', running_jobs')
         /\ Len(running_jobs') = Len(jobs) + 1
         /\ \A i \in 1..Len(jobs) : running_jobs'[i] = jobs[i]
         /\ running_jobs'[Len(jobs) + 1].end = end
<1>1. PICK choice \in Knobs(b, jobs) :
        /\ bso' = choice.bso
        /\ \E result \in RunJob(choice.bs) :
             running_jobs' = Append(jobs, [start |-> start, end |-> end, result |-> result])
  BY DEF Submit
<1>2. PICK result \in RunJob(choice.bs) :
        running_jobs' = Append(jobs, [start |-> start, end |-> end, result |-> result])
  BY <1>1
<1>3. /\ choice.bs \in BatchSizes /\ OptimizerInv(choice.bso) /\ choice.bso.history = b.history
      /\ jobs = <<>> => Chose(choice)
      /\ jobs # <<>> => choice.bso = b
  <2>1. CASE jobs = <<>>
    <3>1. choice \in Predict(b)
      BY <2>1 DEF Knobs
    <3> QED
      BY <2>1, <3>1, Predicted DEF ControlInv
  <2>2. CASE jobs # <<>>
    <3>1. choice = [bs |-> best_bs, bso |-> b]
      BY <2>2 DEF Knobs
    <3> QED
      BY <2>2, <3>1 DEF ControlInv
  <2> QED
    BY <2>1, <2>2
<1> DEFINE job == [start |-> start, end |-> end, result |-> result]
<1>4. IsJob(job) /\ job.end = end /\ job.result.bs = choice.bs
  BY <1>3, JobOf DEF IsJob
<1>5. running_jobs' = Append(jobs, job)
  BY <1>2
<1> HIDE DEF job
<1>6. /\ IsSequence(running_jobs') /\ Len(running_jobs') = Len(jobs) + 1 /\ Len(jobs) \in Nat
      /\ \A i \in 1..Len(jobs) : running_jobs'[i] = jobs[i]
      /\ running_jobs'[Len(jobs) + 1] = job
  BY <1>5, Appended DEF JobsInv
<1>7. JobsInv(running_jobs')
  <2>1. ASSUME NEW i \in 1..Len(running_jobs') PROVE IsJob(running_jobs'[i])
    <3>1. i \in 1..Len(jobs) \/ i = Len(jobs) + 1
      BY <1>6
    <3> QED
      BY <1>4, <1>6, <3>1 DEF JobsInv
  <2> QED
    BY <1>6, <2>1 DEF JobsInv
<1>8. Awaited(bso', running_jobs')
  <2> SUFFICES ASSUME policy = "Pruning"
               PROVE  /\ bso'.gen.is = "asked" =>
                           \E i \in 1..Len(running_jobs') : running_jobs'[i].result.bs = bso'.gen.expecting
                      /\ bso'.gen.is # "start"
    BY DEF Awaited
  <2>1. CASE jobs = <<>>
    <3>1. /\ \/ bso'.gen.is = "asked" /\ bso'.gen.expecting = choice.bs
             \/ bso'.gen.is = "over"
          /\ Len(jobs) + 1 \in 1..Len(running_jobs')
      BY <1>1, <1>3, <1>6, <2>1 DEF Chose
    <3> QED
      BY <1>4, <1>6, <3>1
  <2>2. CASE jobs # <<>>
    <3>1. bso' = b /\ Len(jobs) # 0
      BY <1>1, <1>3, <2>2, EmptyOrNot DEF JobsInv
    <3>2. b.gen.is # "start"
      BY <3>1 DEF Awaited
    <3>3. ASSUME b.gen.is = "asked"
          PROVE  \E i \in 1..Len(running_jobs') : running_jobs'[i].result.bs = b.gen.expecting
      <4>1. PICK i \in 1..Len(jobs) : jobs[i].result.bs = b.gen.expecting
        BY <3>3 DEF Awaited
      <4>2. i \in 1..Len(running_jobs') /\ running_jobs'[i] = jobs[i]
        BY <1>6
      <4> QED
        BY <4>1, <4>2
    <3> QED
      BY <3>1, <3>2, <3>3
  <2> QED
    BY <2>1, <2>2
<1> QED
  BY <1>1, <1>3, <1>4, <1>6, <1>7, <1>8

(* A job that has ended, and those that are left.                          *)
LEMMA Reaped ==
  ASSUME ControlInv, OptimizerInv(bso), JobsInv(running_jobs), Awaited(bso, running_jobs),
         mode = "group", NEW n \in 1..Len(running_jobs)
  PROVE  LET result == running_jobs[n].result
             left == RemoveAt(running_jobs, n)
             observed == Observe(bso, result.bs, result.cost, result.reached)
         IN
         /\ OptimizerInv(observed)
         /\ observed.history = Append(bso.history, [bs |-> result.bs, cost |-> result.cost,
                                                    reached |-> result.reached])
         /\ JobsInv(left) /\ Awaited(observed, left) /\ Len(left) = Len(running_jobs) - 1
         /\ \A i \in 1..Len(left) : \E k \in 1..Len(running_jobs) : left[i] = running_jobs[k]
<1> DEFINE result == running_jobs[n].result
           left == RemoveAt(running_jobs, n)
           observed == Observe(bso, result.bs, result.cost, result.reached)
<1>1. result.bs \in BatchSizes /\ result.reached \in BOOLEAN
  BY DEF JobsInv, IsJob
<1>2. /\ Len(running_jobs) \in Nat /\ IsSequence(left) /\ Len(left) = Len(running_jobs) - 1
      /\ \A i \in 1..Len(left) : left[i] = IF i < n THEN running_jobs[i] ELSE running_jobs[i + 1]
  BY Removed DEF JobsInv
<1> HIDE DEF left
<1>3. \A i \in 1..Len(left) : \E k \in 1..Len(running_jobs) : left[i] = running_jobs[k]
  <2> SUFFICES ASSUME NEW i \in 1..Len(left)
               PROVE  \E k \in 1..Len(running_jobs) : left[i] = running_jobs[k]
    OBVIOUS
  <2>1. i \in 1..Len(running_jobs) /\ i + 1 \in 1..Len(running_jobs)
    BY <1>2
  <2> QED
    BY <1>2, <2>1
<1>4. JobsInv(left)
  BY <1>2, <1>3 DEF JobsInv
<1>5. policy \in {"Pruning", "GTS"} /\ 0 \notin BatchSizes
  BY Simulated DEF ControlInv
<1>6. policy = "Pruning" => IsGenerator(bso.gen) /\ bso.gen.is # "start"
  <2>1. Len(running_jobs) # 0
    BY <1>2
  <2> QED
    BY <2>1 DEF Awaited, OptimizerInv
<1>7. policy = "Pruning" /\ bso.gen.expecting = result.bs => bso.gen.is = "asked"
  <2>1. SUFFICES ASSUME policy = "Pruning", bso.gen.expecting = result.bs, bso.gen.is # "asked"
                 PROVE  FALSE
    OBVIOUS
  <2>2. bso.gen.is \in {"told", "over", "infeasible"}
    BY <1>6, <2>1 DEF IsGenerator, GeneratorShape, GeneratorSteps
  <2>3. bso.gen.expecting = 0
    BY <1>6, <2>1, <2>2 DEF IsGenerator
  <2> QED
    BY <1>1, <1>5, <2>1, <2>3
<1>8. /\ OptimizerInv(observed)
      /\ observed.history = Append(bso.history, [bs |-> result.bs, cost |-> result.cost,
                                                 reached |-> result.reached])
      /\ policy = "Pruning" =>
           /\ observed.gen.is = "asked" =>
                observed.gen = bso.gen /\ (mode = "group" /\ bso.gen.expecting # result.bs)
           /\ observed.gen.is = "start" => bso.gen.is = "start"
  <2> DEFINE bs == result.bs
             cost == result.cost
             reached == result.reached
  <2>1. /\ bs \in BatchSizes /\ reached \in BOOLEAN
        /\ policy = "Pruning" /\ bso.arms = <<>> /\ (mode = "group" => bso.gen.expecting = bs)
             => bso.gen.is = "asked" /\ bso.gen.expecting = bs
    BY <1>1, <1>7
  <2> HIDE DEF bs, cost, reached
  <2>2. LET m == Observe(bso, bs, cost, reached) IN
         /\ OptimizerInv(m)
         /\ m.history = Append(bso.history, [bs |-> bs, cost |-> cost, reached |-> reached])
         /\ policy = "Pruning" =>
              /\ m.gen.is = "asked" => m.gen = bso.gen /\ (mode = "group" /\ bso.gen.expecting # bs)
              /\ m.gen.is = "start" => bso.gen.is = "start"
    BY <1>5, <2>1, Observed
  <2> QED
    BY <2>2 DEF bs, cost, reached
<1> HIDE DEF observed
<1>9. Awaited(observed, left)
  <2> SUFFICES ASSUME policy = "Pruning"
               PROVE  /\ observed.gen.is = "asked" =>
                           \E i \in 1..Len(left) : left[i].result.bs = observed.gen.expecting
                      /\ observed.gen.is # "start"
    BY DEF Awaited
  <2>1. observed.gen.is # "start"
    BY <1>6, <1>8
  <2>2. ASSUME observed.gen.is = "asked"
        PROVE  \E i \in 1..Len(left) : left[i].result.bs = observed.gen.expecting
    <3>1. observed.gen = bso.gen /\ bso.gen.expecting # result.bs
      BY <1>8, <2>2
    <3>2. PICK k \in 1..Len(running_jobs) : running_jobs[k].result.bs = bso.gen.expecting
      BY <2>2, <3>1 DEF Awaited
    <3>3. k # n
      BY <3>1, <3>2
    <3>4. CASE k < n
      <4>1. k \in 1..Len(left) /\ left[k] = running_jobs[k]
        BY <1>2, <3>4
      <4> QED
        BY <3>1, <3>2, <4>1
    <3>5. CASE ~(k < n)
      <4>1. k - 1 \in 1..Len(left) /\ ~(k - 1 < n) /\ (k - 1) + 1 = k
        BY <1>2, <3>3, <3>5
      <4>2. left[k - 1] = running_jobs[k]
        BY <1>2, <4>1
      <4> QED
        BY <3>1, <3>2, <4>1, <4>2
    <3> QED
      BY <3>4, <3>5
  <2> QED
    BY <2>1, <2>2
<1> QED
  BY <1>2, <1>3, <1>4, <1>8, <1>9 DEF observed, left

-----------------------------------------------------------------------------
(* The rows that were launched; that of a reap with time left is still to  *)
(* come.                                                                   *)
Launched == rec_i - (IF at = "reap" /\ current_time # Infinity THEN 1 ELSE 0)

Accounted(history, jobs, launched) == Cardinality(ReachedIn(history)) + Len(jobs) = launched

LEMMA Rows ==
  RowsAreAccountedFor
    <=> (mode = "group" /\ at # "raised" => Accounted(bso.history, running_jobs, Launched))
  BY DEF RowsAreAccountedFor, Accounted, Launched, ReachedIn

LEMMA RowsFollow ==
  ASSUME mode' = "group" /\ at' # "raised" => Accounted(bso'.history, running_jobs', Launched')
  PROVE  RowsAreAccountedFor'
  BY DEF RowsAreAccountedFor, Accounted, Launched, ReachedIn

LEMMA StartsInTime ==
  /\ LatestStart \in Nat /\ Gaps \subseteq 0..LatestStart
  /\ \A i \in 0..Recurrences : i * LatestStart \in Nat /\ i * LatestStart < Infinity
<1>1. Recurrences \in Nat \ {0} /\ Infinity \in Nat \ {0} /\ Gaps \subseteq 0..LatestStart
  BY SimulatorAssumption DEF Infinity, LatestStart
<1>2. ASSUME NEW n \in Nat, NEW r \in Nat \ {0}
      PROVE  n \div r \in Nat /\ r * (n \div r) <= n
  <2> DEFINE q == n \div r
             rest == n % r
  <2>1. q \in Int /\ rest \in 0..(r - 1) /\ n = r * q + rest
    BY <1>2
  <2> HIDE DEF q, rest
  <2>2. CASE q <= -1
    <3>1. r * q <= r * (-1) /\ r * (-1) = -r
      BY <1>2, <2>1, <2>2
    <3> QED
      BY <1>2, <2>1, <3>1
  <2>3. CASE q >= 0
    <3>1. r * q \in Int
      BY <1>2, <2>1
    <3> QED
      BY <2>1, <2>3, <3>1 DEF q
  <2> QED
    BY <2>1, <2>2, <2>3
<1>3. LatestStart \in Nat /\ Recurrences * LatestStart <= Infinity - 1
  BY <1>1, <1>2 DEF LatestStart
<1>4. ASSUME NEW i \in 0..Recurrences PROVE i * LatestStart \in Nat /\ i * LatestStart < Infinity
  <2> DEFINE s == LatestStart
             rest == Recurrences - i
  <2>1. s \in Nat /\ i \in Nat /\ rest \in Nat /\ Recurrences = i + rest
    BY <1>1, <1>3
  <2> HIDE DEF s, rest
  <2>2. i * s \in Nat /\ rest * s \in Nat /\ (i + rest) * s = i * s + rest * s
    BY <2>1
  <2>3. Recurrences * s <= Infinity - 1
    BY <1>3 DEF s
  <2>4. i * s + rest * s <= Infinity - 1
    BY <2>1, <2>2, <2>3
  <2>5. i * s < Infinity
    BY <1>1, <2>2, <2>4
  <2> QED
    BY <2>2, <2>5 DEF s
<1> QED
  BY <1>1, <1>3, <1>4

-----------------------------------------------------------------------------

LEMMA SimulatorStarts == SimulatorInit => SimulatorInv
<1> SUFFICES ASSUME SimulatorInit PROVE SimulatorInv
  OBVIOUS
<1>1. /\ mode \in {"one job", "group"} /\ policy \in {"Pruning", "GTS"} /\ at = "next"
      /\ bso = RegisterJob(policy) /\ best_bs = DefaultBatchSize
      /\ rec_i = 0 /\ current_time = 0 /\ running_jobs = <<>> /\ last_end = 0
  BY DEF SimulatorInit
<1>2. ControlInv
  BY <1>1, Simulated DEF ControlInv
<1>3. TimeInv
  <2>1. LatestStart \in Nat /\ Infinity # 0 /\ Recurrences \in Nat
    BY Simulated, StartsInTime DEF Infinity
  <2>2. rec_i = 0 /\ current_time = 0 /\ last_end = 0
    BY <1>1
  <2>3. 0 * LatestStart = 0
    BY <2>1
  <2> QED
    BY <2>1, <2>2, <2>3 DEF TimeInv
<1>4. JobsInv(running_jobs) /\ Awaited(bso, running_jobs) /\ ObservedAsTheyEnd
  <2>1. JobsInv(<<>>) /\ Len(<<>>) = 0 /\ DOMAIN <<>> = {}
    BY Nothing
  <2>2. bso.gen.is = "start"
    BY <1>1 DEF RegisterJob, RegisterGTS, RegisterPruning, NewMab, NewGenerator
  <2> QED
    BY <1>1, <2>1, <2>2 DEF Awaited, ObservedAsTheyEnd
<1>5. RowsAreAccountedFor
  <2>1. bso.history = <<>>
    BY <1>1 DEF RegisterJob, RegisterGTS, RegisterPruning, NewMab
  <2>2. Cardinality(ReachedIn(bso.history)) = 0 /\ Len(running_jobs) = 0
    BY <1>1, <2>1, Nothing, FS_EmptySet
  <2>3. Launched = 0
    <3>1. rec_i = 0 /\ at = "next"
      BY <1>1
    <3> QED
      BY <3>1 DEF Launched
  <2> QED
    BY <2>2, <2>3, Rows DEF Accounted
<1>6. OptimizerInv(bso)
  <2> DEFINE arms == IF policy = "GTS" THEN [a \in BatchSizes |-> 0] ELSE <<>>
  <2>1. bso = [gen |-> NewGenerator, history |-> <<>>, arms |-> arms]
    BY <1>1 DEF RegisterJob, RegisterGTS, RegisterPruning, NewMab
  <2>2. policy = "GTS" => DOMAIN arms = BatchSizes
    OBVIOUS
  <2>3. policy = "Pruning" => arms = <<>>
    OBVIOUS
  <2> HIDE DEF arms
  <2>4. NewGenerator.is = "start"
    BY DEF NewGenerator
  <2>5. IsGenerator(NewGenerator)
    BY Simulated DEF NewGenerator, IsGenerator, GeneratorShape, GeneratorSteps
  <2>6. Earned(NewGenerator, <<>>)
    BY DEF NewGenerator, Earned
  <2> QED
    BY <2>1, <2>2, <2>3, <2>4, <2>5, <2>6, Nothing DEF OptimizerInv
<1> QED
  BY <1>2, <1>3, <1>4, <1>5, <1>6 DEF SimulatorInv

LEMMA NextRowStep ==
  ASSUME SimulatorInv, NextRow
  PROVE  SimulatorInv'
<1>1. /\ mode = "group" /\ at = "next" /\ at' = "reap"
      /\ UNCHANGED <<mode, policy, bso, best_bs, running_jobs, last_end>>
      /\ \/ rec_i = Recurrences /\ current_time' = Infinity /\ rec_i' = rec_i
         \/ rec_i # Recurrences /\ rec_i' = rec_i + 1
              /\ \E gap \in Gaps : current_time' = current_time + gap
  BY DEF NextRow, chosen
<1>2. ControlInv /\ TimeInv /\ RowsAreAccountedFor
  BY DEF SimulatorInv
<1>3. /\ rec_i \in 0..Recurrences /\ current_time \in Nat /\ last_end \in Nat /\ current_time # Infinity
      /\ current_time <= rec_i * LatestStart /\ last_end <= current_time
      /\ Recurrences \in Nat /\ Infinity \in Nat
  BY <1>1, <1>2, Simulated DEF TimeInv, Infinity
<1>4. /\ rec_i' \in 0..Recurrences /\ current_time' \in Nat
      /\ \/ current_time' = Infinity /\ rec_i' = rec_i
         \/ /\ current_time' # Infinity /\ rec_i' = rec_i + 1
            /\ current_time' <= rec_i' * LatestStart /\ last_end <= current_time'
  <2>1. CASE rec_i = Recurrences
    BY <1>1, <1>3, <2>1
  <2>2. CASE rec_i # Recurrences
    <3>1. PICK gap \in Gaps : current_time' = current_time + gap
      BY <1>1, <2>2
    <3> DEFINE s == LatestStart
    <3>2. gap \in 0..s /\ s \in Nat
      BY StartsInTime
    <3>3. rec_i + 1 \in 0..Recurrences /\ rec_i' = rec_i + 1
      BY <1>1, <1>3, <2>2
    <3>4. (rec_i + 1) * s \in Nat /\ rec_i * s \in Nat /\ (rec_i + 1) * s < Infinity
      BY <1>3, <3>3, StartsInTime
    <3>5. (rec_i + 1) * s = rec_i * s + s
      <4> HIDE DEF s
      <4> QED
        BY <1>3, <3>2
    <3>6. current_time <= rec_i * s
      BY <1>3
    <3> HIDE DEF s
    <3>7. current_time' \in Nat /\ last_end <= current_time' /\ current_time' <= (rec_i + 1) * s
      BY <1>3, <3>1, <3>2, <3>4, <3>5, <3>6
    <3>8. current_time' # Infinity
      BY <1>3, <3>4, <3>7
    <3> QED
      BY <3>3, <3>7, <3>8 DEF s
  <2> QED
    BY <2>1, <2>2
<1>5. TimeInv'
  BY <1>1, <1>3, <1>4 DEF TimeInv, LatestStart
<1>6. Launched' = Launched
  <2>1. Launched = rec_i
    BY <1>1, <1>3 DEF Launched
  <2>2. CASE current_time' = Infinity /\ rec_i' = rec_i
    BY <1>3, <2>1, <2>2 DEF Launched
  <2>3. CASE current_time' # Infinity /\ rec_i' = rec_i + 1
    <3>1. at' = "reap"
      BY <1>1
    <3>2. Launched' = rec_i' - 1
      BY <2>3, <3>1 DEF Launched
    <3> QED
      BY <1>3, <2>1, <2>3, <3>2
  <2> QED
    BY <1>4, <2>2, <2>3
<1>7. RowsAreAccountedFor'
  <2>1. Accounted(bso.history, running_jobs, Launched)
    BY <1>1, <1>2, Rows
  <2>2. Accounted(bso'.history, running_jobs', Launched')
    BY <1>1, <1>6, <2>1
  <2> QED
    BY <2>2, RowsFollow
<1>8. (ControlInv /\ OptimizerInv(bso) /\ JobsInv(running_jobs) /\ Awaited(bso, running_jobs)
       /\ ObservedAsTheyEnd)'
  BY <1>1 DEF SimulatorInv, ControlInv, OptimizerInv, Awaited, ObservedAsTheyEnd
<1> QED
  BY <1>5, <1>7, <1>8 DEF SimulatorInv

EndAfter(jobs, time) == \A i \in 1..Len(jobs) : jobs[i].end >= time

LEMMA JobsEnd ==
  ASSUME IsSequence(running_jobs)
  PROVE  ObservedAsTheyEnd <=> EndAfter(running_jobs, last_end)
<1>1. DOMAIN running_jobs = 1..Len(running_jobs)
  BY Appended
<1> QED
  BY <1>1 DEF ObservedAsTheyEnd, EndAfter

LEMMA JobsEndLater ==
  ASSUME IsSequence(running_jobs'), EndAfter(running_jobs', last_end')
  PROVE  ObservedAsTheyEnd'
<1>1. DOMAIN running_jobs' = 1..Len(running_jobs')
  BY Appended
<1> QED
  BY <1>1 DEF ObservedAsTheyEnd, EndAfter

LEMMA ReapStep ==
  ASSUME SimulatorInv, Reap
  PROVE  SimulatorInv'
<1> DEFINE n == FirstToEnd
           job == running_jobs[n]
           result == job.result
           left == RemoveAt(running_jobs, n)
           observed == Observe(bso, result.bs, result.cost, result.reached)
<1>1. /\ mode = "group" /\ at = "reap" /\ Finished # {} /\ last_end' = job.end
      /\ UNCHANGED <<mode, policy, rec_i, current_time>>
      /\ \/ /\ result.reached /\ bso' = observed /\ running_jobs' = left
            /\ UpdateMin(result.bs, result.cost) /\ at' = at
         \/ /\ ~result.reached /\ best_bs' = best_bs
            /\ \/ Submit(observed, left, job.end, job.end + (job.end - job.start)) /\ at' = at
               \/ at' = "raised" /\ bso' = observed /\ running_jobs' = left
  BY DEF Reap, Raises, chosen
<1>2. /\ ControlInv /\ TimeInv /\ OptimizerInv(bso) /\ JobsInv(running_jobs)
      /\ Awaited(bso, running_jobs) /\ ObservedAsTheyEnd /\ RowsAreAccountedFor
  BY DEF SimulatorInv
<1>3. /\ n \in 1..Len(running_jobs) /\ job.end <= current_time
      /\ \A k \in 1..Len(running_jobs) : job.end <= running_jobs[k].end
  BY <1>1, <1>2, FirstEnds DEF TimeInv
<1>4. /\ IsJob(job) /\ result.bs \in BatchSizes /\ result.reached \in BOOLEAN
      /\ IsSequence(running_jobs) /\ Len(running_jobs) \in Nat
  BY <1>2, <1>3, Appended DEF JobsInv, IsJob
<1> DEFINE r == [bs |-> result.bs, cost |-> result.cost, reached |-> result.reached]
<1> HIDE DEF n
<1>5. /\ OptimizerInv(observed) /\ observed.history = Append(bso.history, r)
      /\ JobsInv(left) /\ Awaited(observed, left) /\ Len(left) = Len(running_jobs) - 1
      /\ \A i \in 1..Len(left) : \E k \in 1..Len(running_jobs) : left[i] = running_jobs[k]
  BY <1>1, <1>2, <1>3, Reaped
<1>6. /\ Cardinality(ReachedIn(bso.history)) \in Nat
      /\ result.reached => Cardinality(ReachedIn(observed.history)) = Cardinality(ReachedIn(bso.history)) + 1
      /\ ~result.reached => Cardinality(ReachedIn(observed.history)) = Cardinality(ReachedIn(bso.history))
  <2>1. IsResult(r) /\ r.reached = result.reached
    BY <1>4 DEF IsResult
  <2>2. IsSequence(bso.history)
    BY <1>2 DEF OptimizerInv
  <2> HIDE DEF r, observed, result
  <2> QED
    BY <1>5, <2>1, <2>2, ReachedIsRecorded
<1> DEFINE later == job.end + (job.end - job.start)
<1>7. job.start \in Nat /\ job.end \in Nat /\ later \in Nat /\ job.end <= later
  BY <1>4 DEF IsJob
<1>8. EndAfter(left, job.end)
  <2>1. ASSUME NEW i \in 1..Len(left) PROVE left[i].end >= job.end
    <3>1. PICK k \in 1..Len(running_jobs) : left[i] = running_jobs[k]
      BY <1>5
    <3>2. job.end <= running_jobs[k].end /\ running_jobs[k].end \in Nat
      BY <1>2, <1>3 DEF JobsInv, IsJob
    <3> QED
      BY <1>7, <3>1, <3>2
  <2> QED
    BY <2>1 DEF EndAfter
<1>9. Accounted(bso.history, running_jobs, Launched) /\ (at' = at => Launched' = Launched)
  <2>1. Accounted(bso.history, running_jobs, Launched)
    BY <1>1, <1>2, Rows
  <2>2. at' = at => Launched' = Launched
    BY <1>1 DEF Launched
  <2> QED
    BY <2>1, <2>2
<1>10. /\ OptimizerInv(bso') /\ JobsInv(running_jobs') /\ Awaited(bso', running_jobs')
       /\ EndAfter(running_jobs', last_end') /\ best_bs' \in BatchSizes /\ at' \in {at, "raised"}
       /\ at' = at => Accounted(bso'.history, running_jobs', Launched')
  <2> HIDE DEF observed, left, result, r, job, later
  <2>1. CASE /\ result.reached /\ bso' = observed /\ running_jobs' = left
             /\ UpdateMin(result.bs, result.cost) /\ at' = at
    <3>1. best_bs' \in {best_bs, result.bs}
      BY <2>1 DEF UpdateMin
    <3>2. Accounted(bso'.history, running_jobs', Launched')
      <4>1. /\ Cardinality(ReachedIn(bso'.history)) = Cardinality(ReachedIn(bso.history)) + 1
            /\ Len(running_jobs') = Len(running_jobs) - 1 /\ Launched' = Launched
        BY <1>5, <1>6, <1>9, <2>1
      <4> QED
        BY <1>4, <1>6, <1>9, <4>1 DEF Accounted
    <3> QED
      BY <1>1, <1>2, <1>4, <1>5, <1>8, <2>1, <3>1, <3>2 DEF ControlInv
  <2>2. CASE ~result.reached /\ best_bs' = best_bs /\ at' = at /\ Submit(observed, left, job.end, later)
    <3>1. /\ OptimizerInv(bso') /\ bso'.history = observed.history
          /\ JobsInv(running_jobs') /\ Awaited(bso', running_jobs')
          /\ Len(running_jobs') = Len(left) + 1
          /\ \A i \in 1..Len(left) : running_jobs'[i] = left[i]
          /\ running_jobs'[Len(left) + 1].end = later
      BY <1>2, <1>5, <1>7, <2>2, Submitted
    <3>2. Accounted(bso'.history, running_jobs', Launched')
      BY <1>4, <1>5, <1>6, <1>9, <2>2, <3>1 DEF Accounted
    <3>3. EndAfter(running_jobs', job.end)
      <4>1. ASSUME NEW i \in 1..Len(running_jobs') PROVE running_jobs'[i].end >= job.end
        <5>1. i \in 1..Len(left) \/ i = Len(left) + 1
          BY <1>4, <1>5, <3>1
        <5> QED
          BY <1>7, <1>8, <3>1, <5>1 DEF EndAfter
      <4> QED
        BY <4>1 DEF EndAfter
    <3> QED
      BY <1>1, <1>2, <2>2, <3>1, <3>2, <3>3 DEF ControlInv
  <2>3. CASE ~result.reached /\ best_bs' = best_bs /\ at' = "raised" /\ bso' = observed /\ running_jobs' = left
    BY <1>1, <1>2, <1>5, <1>8, <2>3 DEF ControlInv
  <2> QED
    BY <1>1, <2>1, <2>2, <2>3 DEF later
<1>11. RowsAreAccountedFor' /\ ObservedAsTheyEnd'
  BY <1>10, RowsFollow, JobsEndLater DEF JobsInv
<1>12. ControlInv' /\ TimeInv'
  <2>1. job.end <= current_time /\ last_end' = job.end /\ job.end \in Nat
    BY <1>1, <1>3, <1>7
  <2> HIDE DEF job
  <2>2. ControlInv'
    BY <1>1, <1>2, <1>10 DEF ControlInv
  <2>3. TimeInv'
    BY <1>1, <1>2, <1>10, <2>1 DEF TimeInv, LatestStart
  <2> QED
    BY <2>2, <2>3
<1>13. (OptimizerInv(bso) /\ JobsInv(running_jobs) /\ Awaited(bso, running_jobs))'
  BY <1>1, <1>10 DEF OptimizerInv, Awaited
<1> QED
  BY <1>11, <1>12, <1>13 DEF SimulatorInv

LEMMA LaunchStep ==
  ASSUME SimulatorInv, Launch
  PROVE  SimulatorInv'
<1>1. /\ mode = "group" /\ at = "reap" /\ current_time # Infinity
      /\ UNCHANGED <<mode, policy, best_bs, rec_i, current_time, last_end>>
      /\ \/ /\ \E d \in Durations : Submit(bso, running_jobs, current_time, current_time + d)
            /\ at' = "next"
         \/ at' = "raised" /\ UNCHANGED <<bso, running_jobs>>
  BY DEF Launch, Raises, chosen
<1>2. /\ ControlInv /\ TimeInv /\ OptimizerInv(bso) /\ JobsInv(running_jobs)
      /\ Awaited(bso, running_jobs) /\ ObservedAsTheyEnd /\ RowsAreAccountedFor
  BY DEF SimulatorInv
<1>3. /\ rec_i \in 0..Recurrences /\ current_time \in Nat /\ last_end \in Nat /\ last_end <= current_time
      /\ Recurrences \in Nat /\ Len(running_jobs) \in Nat
  BY <1>1, <1>2, Simulated, Appended DEF TimeInv, JobsInv
<1>4. EndAfter(running_jobs, last_end) /\ Accounted(bso.history, running_jobs, rec_i - 1)
  <2>1. Launched = rec_i - 1
    BY <1>1 DEF Launched
  <2> QED
    BY <1>1, <1>2, <2>1, JobsEnd, Rows DEF JobsInv
<1>5. /\ OptimizerInv(bso') /\ JobsInv(running_jobs') /\ Awaited(bso', running_jobs')
      /\ EndAfter(running_jobs', last_end') /\ at' \in {"next", "raised"}
      /\ at' = "next" => Accounted(bso'.history, running_jobs', Launched')
  <2>1. CASE at' = "raised" /\ UNCHANGED <<bso, running_jobs>>
    BY <1>1, <1>2, <1>4, <2>1
  <2>2. CASE /\ \E d \in Durations : Submit(bso, running_jobs, current_time, current_time + d)
             /\ at' = "next"
    <3>1. PICK d \in Durations : Submit(bso, running_jobs, current_time, current_time + d)
      BY <2>2
    <3> DEFINE end == current_time + d
    <3>2. end \in Nat /\ current_time <= end
      BY <1>3, SimulatorAssumption
    <3>3. Submit(bso, running_jobs, current_time, end)
      BY <3>1
    <3> HIDE DEF end
    <3>4. /\ OptimizerInv(bso') /\ bso'.history = bso.history
          /\ JobsInv(running_jobs') /\ Awaited(bso', running_jobs')
          /\ Len(running_jobs') = Len(running_jobs) + 1
          /\ \A i \in 1..Len(running_jobs) : running_jobs'[i] = running_jobs[i]
          /\ running_jobs'[Len(running_jobs) + 1].end = end
      BY <1>2, <1>3, <3>2, <3>3, Submitted
    <3>5. EndAfter(running_jobs', last_end)
      <4>1. ASSUME NEW i \in 1..Len(running_jobs') PROVE running_jobs'[i].end >= last_end
        <5>1. i \in 1..Len(running_jobs) \/ i = Len(running_jobs) + 1
          BY <1>3, <3>4
        <5>2. CASE i \in 1..Len(running_jobs)
          BY <1>4, <3>4, <5>2 DEF EndAfter
        <5>3. CASE i = Len(running_jobs) + 1
          BY <1>3, <3>2, <3>4, <5>3
        <5> QED
          BY <5>1, <5>2, <5>3
      <4> QED
        BY <4>1 DEF EndAfter
    <3>6. Launched' = rec_i
      <4>1. at' = "next" /\ rec_i' = rec_i
        BY <1>1, <2>2
      <4> QED
        BY <1>3, <4>1 DEF Launched
    <3>7. Cardinality(ReachedIn(bso.history)) \in Nat
      <4>1. IsSequence(bso.history) /\ IsResult([reached |-> TRUE])
        BY <1>2 DEF OptimizerInv, IsResult
      <4> QED
        BY <4>1, ReachedIsRecorded
    <3>8. Accounted(bso'.history, running_jobs', Launched')
      <4>1. bso'.history = bso.history /\ Len(running_jobs') = Len(running_jobs) + 1
        BY <3>4
      <4> QED
        BY <1>3, <1>4, <3>6, <3>7, <4>1 DEF Accounted
    <3> QED
      BY <1>1, <2>2, <3>4, <3>5, <3>8
  <2> QED
    BY <1>1, <2>1, <2>2
<1>6. RowsAreAccountedFor' /\ ObservedAsTheyEnd'
  BY <1>5, RowsFollow, JobsEndLater DEF JobsInv
<1>7. ControlInv' /\ TimeInv'
  <2>1. ControlInv'
    BY <1>1, <1>2, <1>5 DEF ControlInv
  <2>2. TimeInv'
    BY <1>1, <1>2, <1>5 DEF TimeInv, LatestStart
  <2> QED
    BY <2>1, <2>2
<1>8. (OptimizerInv(bso) /\ JobsInv(running_jobs) /\ Awaited(bso, running_jobs))'
  BY <1>1, <1>5 DEF OptimizerInv, Awaited
<1> QED
  BY <1>6, <1>7, <1>8 DEF SimulatorInv

LEMMA AllReapedStep ==
  ASSUME SimulatorInv, AllReaped
  PROVE  SimulatorInv'
<1>1. /\ mode = "group" /\ at = "reap" /\ current_time = Infinity /\ at' = "done"
      /\ UNCHANGED <<mode, policy, bso, best_bs, rec_i, current_time, running_jobs, last_end>>
  BY DEF AllReaped, chosen, groupVars
<1>2. ControlInv /\ TimeInv /\ RowsAreAccountedFor
  BY DEF SimulatorInv
<1>3. RowsAreAccountedFor'
  <2>1. Accounted(bso.history, running_jobs, Launched)
    BY <1>1, <1>2, Rows
  <2>2. Launched = rec_i - 0
    BY <1>1 DEF Launched
  <2>3. at' = "done" /\ rec_i' = rec_i
    BY <1>1
  <2>4. Launched' = rec_i - 0
    BY <2>3 DEF Launched
  <2>5. Accounted(bso'.history, running_jobs', Launched')
    BY <1>1, <2>1, <2>2, <2>4
  <2> QED
    BY <2>5, RowsFollow
<1>4. (ControlInv /\ TimeInv /\ OptimizerInv(bso) /\ JobsInv(running_jobs)
       /\ Awaited(bso, running_jobs) /\ ObservedAsTheyEnd)'
  BY <1>1 DEF SimulatorInv, ControlInv, TimeInv, LatestStart, OptimizerInv, Awaited, ObservedAsTheyEnd
<1> QED
  BY <1>3, <1>4 DEF SimulatorInv

LEMMA RecurStep ==
  ASSUME SimulatorInv, Recur
  PROVE  SimulatorInv'
<1>1. /\ mode = "one job" /\ at = "next" /\ at' \in {"done", "try"}
      /\ \/ rec_i' = rec_i
         \/ rec_i # Recurrences /\ rec_i' = rec_i + 1
      /\ UNCHANGED <<mode, policy, bso, best_bs, current_time, running_jobs, last_end>>
  BY DEF Recur, chosen, groupVars
<1>2. ControlInv /\ TimeInv
  BY DEF SimulatorInv
<1>3. TimeInv'
  <2> DEFINE s == LatestStart
  <2>1. /\ rec_i \in 0..Recurrences /\ current_time \in Nat /\ current_time # Infinity
        /\ current_time <= rec_i * s /\ last_end <= current_time /\ s \in Nat /\ last_end \in Nat
        /\ Recurrences \in Nat
    BY <1>1, <1>2, Simulated, StartsInTime DEF TimeInv
  <2> HIDE DEF s
  <2>2. (rec_i + 1) * s = rec_i * s + s /\ rec_i * s \in Nat
    BY <2>1
  <2>3. /\ rec_i' \in 0..Recurrences /\ rec_i' * s \in Int
        /\ current_time <= rec_i' * s
    <3>1. CASE rec_i' = rec_i
      BY <2>1, <2>2, <3>1
    <3>2. CASE rec_i # Recurrences /\ rec_i' = rec_i + 1
      <4>1. rec_i' * s = rec_i * s + s
        BY <2>2, <3>2
      <4>2. rec_i' \in 0..Recurrences
        BY <2>1, <3>2
      <4> DEFINE here == rec_i * s
      <4>3. here \in Nat /\ current_time <= here /\ rec_i' * s = here + s
        BY <2>1, <2>2, <4>1
      <4> HIDE DEF here
      <4>4. current_time <= here + s /\ here + s \in Int
        BY <2>1, <4>3
      <4> QED
        BY <4>2, <4>3, <4>4
    <3> QED
      BY <1>1, <3>1, <3>2
  <2>4. UNCHANGED <<current_time, last_end>> /\ LatestStart' = s /\ at' # "reap"
    BY <1>1 DEF s, LatestStart
  <2> QED
    BY <2>1, <2>3, <2>4 DEF TimeInv
<1>4. (ControlInv /\ OptimizerInv(bso) /\ JobsInv(running_jobs)
       /\ Awaited(bso, running_jobs) /\ ObservedAsTheyEnd /\ RowsAreAccountedFor)'
  BY <1>1 DEF SimulatorInv, ControlInv, OptimizerInv, Awaited, ObservedAsTheyEnd, RowsAreAccountedFor
<1> QED
  BY <1>3, <1>4 DEF SimulatorInv

LEMMA TryStep ==
  ASSUME SimulatorInv, Try
  PROVE  SimulatorInv'
<1>1. /\ mode = "one job" /\ at = "try" /\ at' \in {"next", "raised", "try"}
      /\ UNCHANGED <<mode, policy, best_bs, rec_i, current_time, running_jobs, last_end>>
      /\ \E choice \in Predict(bso) : \E result \in RunJob(choice.bs) : \E cost :
           bso' = Observe(choice.bso, result.bs, cost, result.reached)
  BY DEF Try, AfterFailure, chosen, groupVars
<1>2. /\ ControlInv /\ TimeInv /\ OptimizerInv(bso) /\ running_jobs = <<>>
      /\ policy \in {"Pruning", "GTS"}
  BY <1>1 DEF SimulatorInv, ControlInv
<1>3. PICK choice \in Predict(bso) : \E result \in RunJob(choice.bs) : \E cost :
        bso' = Observe(choice.bso, result.bs, cost, result.reached)
  BY <1>1
<1>4. PICK result \in RunJob(choice.bs) : \E cost :
        bso' = Observe(choice.bso, result.bs, cost, result.reached)
  BY <1>3
<1>5. PICK cost : bso' = Observe(choice.bso, result.bs, cost, result.reached)
  BY <1>4
<1> DEFINE b == choice.bso
           bs == choice.bs
           reached == result.reached
<1>6. bs \in BatchSizes /\ OptimizerInv(b) /\ Chose(choice)
  BY <1>2, Predicted
<1>7. result.bs = bs /\ reached \in BOOLEAN
  BY <1>6, JobOf
<1>8. bso' = Observe(b, bs, cost, reached)
  BY <1>5, <1>7
<1>9. policy = "Pruning" /\ b.arms = <<>> => b.gen.is = "asked" /\ b.gen.expecting = bs
  BY <1>6 DEF Chose
<1> HIDE DEF b, bs, reached
<1>10. /\ OptimizerInv(bso')
       /\ policy = "Pruning" => bso'.gen.is # "asked"
  <2>1. LET m == Observe(b, bs, cost, reached) IN
         /\ OptimizerInv(m)
         /\ m.history = Append(b.history, [bs |-> bs, cost |-> cost, reached |-> reached])
         /\ policy = "Pruning" =>
              /\ m.gen.is = "asked" => m.gen = b.gen /\ (mode = "group" /\ b.gen.expecting # bs)
              /\ m.gen.is = "start" => b.gen.is = "start"
    BY <1>2, <1>6, <1>7, <1>9, Observed
  <2> QED
    BY <1>1, <1>8, <2>1
<1>11. Awaited(bso', running_jobs')
  <2>1. Len(running_jobs') = 0
    BY <1>1, <1>2, Nothing
  <2>2. policy = "Pruning" => bso'.gen.is # "asked"
    BY <1>10
  <2> QED
    BY <2>1, <2>2 DEF Awaited
<1>12. ControlInv' /\ TimeInv' /\ JobsInv(running_jobs)' /\ ObservedAsTheyEnd' /\ RowsAreAccountedFor'
  <2>1. ControlInv'
    BY <1>1, <1>2 DEF SimulatorInv, ControlInv
  <2>2. TimeInv'
    BY <1>1, <1>2 DEF TimeInv, LatestStart
  <2>3. JobsInv(running_jobs)'
    BY <1>1, <1>2, Nothing
  <2>4. ObservedAsTheyEnd' /\ RowsAreAccountedFor'
    BY <1>1 DEF SimulatorInv, ObservedAsTheyEnd, RowsAreAccountedFor
  <2> QED
    BY <2>1, <2>2, <2>3, <2>4
<1>13. OptimizerInv(bso)' /\ Awaited(bso, running_jobs)'
  <2>1. policy' = policy
    BY <1>1
  <2>2. OptimizerInv(bso)'
    BY <1>10, <2>1 DEF OptimizerInv
  <2>3. Awaited(bso, running_jobs)'
    BY <1>11, <2>1 DEF Awaited
  <2> QED
    BY <2>2, <2>3
<1> QED
  BY <1>12, <1>13 DEF SimulatorInv

LEMMA TryRaisesStep ==
  ASSUME SimulatorInv, TryRaises
  PROVE  SimulatorInv'
<1>1. /\ mode = "one job" /\ at' = "raised"
      /\ UNCHANGED <<mode, policy, bso, best_bs, rec_i, current_time, running_jobs, last_end>>
  BY DEF TryRaises, chosen, groupVars
<1> QED
  BY <1>1 DEF SimulatorInv, ControlInv, TimeInv, LatestStart, OptimizerInv, Awaited,
              ObservedAsTheyEnd, RowsAreAccountedFor

LEMMA SimulatorSteps == SimulatorInv /\ [SimulatorNext]_simulatorVars => SimulatorInv'
<1> SUFFICES ASSUME SimulatorInv, [SimulatorNext]_simulatorVars PROVE SimulatorInv'
  OBVIOUS
<1>1. CASE UNCHANGED simulatorVars
  BY <1>1 DEF simulatorVars, SimulatorInv, ControlInv, TimeInv, LatestStart, OptimizerInv, JobsInv,
              Awaited, ObservedAsTheyEnd, RowsAreAccountedFor
<1> QED
  BY <1>1, NextRowStep, ReapStep, LaunchStep, AllReapedStep, RecurStep, TryStep, TryRaisesStep
     DEF SimulatorNext

(* What the generator, its history and the jobs in flight have to do with  *)
(* one another, in every state.                                            *)
THEOREM SimulatorInvariant == SimulatorSpec => []SimulatorInv
  BY SimulatorStarts, SimulatorSteps, PTL DEF SimulatorSpec

(* Results reach the policies in the order the jobs end, for any rows,     *)
(* batch sizes and costs, and however often a job is run again             *)
(* (simulate_one_alibaba_group).                                           *)
THEOREM InOrder == SimulatorSpec => []ObservedAsTheyEnd
<1>1. SimulatorInv => ObservedAsTheyEnd
  BY DEF SimulatorInv
<1> QED
  BY <1>1, SimulatorInvariant, PTL

(* Every row that was launched is in flight or has reached the target,     *)
(* once (simulate_one_alibaba_group).                                      *)
THEOREM NoRowIsLost == SimulatorSpec => []RowsAreAccountedFor
<1>1. SimulatorInv => RowsAreAccountedFor
  BY DEF SimulatorInv
<1> QED
  BY <1>1, SimulatorInvariant, PTL

(* The generator is asked and told in turn, though concurrent jobs end in  *)
(* any order, and an arm reached the target in both rounds                 *)
(* (PruningExploreManager, PruningGTSBatchSizeOptimizer).                  *)
THEOREM ArmsAreEarned == SimulatorSpec => []ArmsReachedInEveryRound
<1>1. SimulatorInv => ArmsReachedInEveryRound
  <2> SUFFICES ASSUME SimulatorInv PROVE ArmsReachedInEveryRound
    OBVIOUS
  <2>1. OptimizerInv(bso) /\ policy \in {"Pruning", "GTS"}
    BY DEF SimulatorInv, ControlInv
  <2>2. bso.gen.is # "broken"
    <3>1. CASE policy = "GTS"
      BY <2>1, <3>1 DEF OptimizerInv
    <3>2. CASE policy = "Pruning"
      BY <2>1, <3>2 DEF OptimizerInv, IsGenerator, GeneratorShape, GeneratorSteps
    <3> QED
      BY <2>1, <3>1, <3>2
  <2>3. ASSUME policy = "Pruning", bso.arms # <<>>, NEW a \in DOMAIN bso.arms
        PROVE  Cardinality({i \in Observations(a) : bso.history[i].reached}) >= NumPruningRounds
    <3>1. NumPruningRounds <= TimesReached(bso.history, a) /\ TimesReached(bso.history, a) \in Nat
      BY <2>1, <2>3, TimesAreNat DEF OptimizerInv
    <3>2. {i \in Observations(a) : bso.history[i].reached} = ReachedBy(bso.history, a)
      BY DEF Observations, ReachedBy
    <3> QED
      BY <3>1, <3>2, Simulated DEF TimesReached
  <2> QED
    BY <2>2, <2>3 DEF ArmsReachedInEveryRound
<1> QED
  BY <1>1, SimulatorInvariant, PTL
=============================================================================
