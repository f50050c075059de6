-------------------------- MODULE ZeusMonitor_proofs --------------------------
(***************************************************************************)
(* What the energy windows promise for any monitors, keys, range of the    *)
(* RAPL counter, and bounds: the tables of the SoC and of the monitors     *)
(* agree, CPU readings are off by a range at most, SoC energy is never     *)
(* negative, and an answer is taken by the call that asked for it; and of  *)
(* the carbon and price monitors, for any windows, hours and histories:    *)
(* each hour is charged at its rate, which is known when it is needed.     *)
(***************************************************************************)
EXTENDS ZeusMonitor, HourlyMonitor, FiniteSetTheorems, SequenceTheorems, TLAPS

Reading == [cpu : Int, drew : Nat, soc : Nat]

(* Maps from some of the keys. *)
Tables(V) == UNION {[K -> V] : K \in SUBSET Keys}

Numbers ==
  /\ drawn \in Nat /\ tracker \in Nat /\ wraparound_counter \in Nat /\ checked \in Nat
  /\ poller \in {"measure", "get", "dead"} /\ cumulative \in Nat /\ timeouts \in Nat

Queues == command_queue \in Seq({"READ"}) /\ result_queue \in Seq(Nat)

TypeInv ==
  /\ Numbers /\ Queues
  /\ soc_states \in Tables(Nat) /\ measurement_states \in [Monitors -> Tables(Reading)]
  /\ reading \in Reading /\ opened \in Reading /\ todo \subseteq Keys

CallInv ==
  /\ \/ op = "none" /\ pc = "idle"
     \/ op = "begin" /\ pc \in {"gpu", "cpu", "wraparounds", "soc", "wait", "record"}
     \/ op = "end" /\ pc \in {"soc", "wait", "gpu", "cpu", "wraparounds", "return"}
     \/ op = "reset" /\ pc \in {"next", "soc", "wait"}
  /\ op # "none" => self \in Monitors
  /\ op \in {"begin", "end"} \/ pc = "soc" => key \in Keys

(* The tracker's count is of the wraparounds up to its last read, which is *)
(* less than a range behind, as is a read of the counter behind its count. *)
CpuInv ==
  /\ tracker = checked % RaplRange /\ wraparound_counter = checked \div RaplRange
  /\ checked <= drawn /\ drawn - checked < RaplRange
  /\ pc = "wraparounds" =>
       /\ reading.cpu = reading.drew % RaplRange
       /\ reading.drew <= drawn /\ drawn - reading.drew < RaplRange
  /\ pc = "return" \/ (op = "begin" /\ pc \in {"soc", "wait", "record"}) =>
       reading.cpu - reading.drew \in {-RaplRange, 0, RaplRange}

(* Answers leave the queue in the order they were measured, whichever call *)
(* takes them, so nothing that is still to come is less than what a window *)
(* began with.                                                             *)
SoCInv ==
  /\ cumulative <= drawn
  /\ \A i, j \in 1..Len(result_queue) : i <= j => result_queue[i] <= result_queue[j]
  /\ \A i \in 1..Len(result_queue) : result_queue[i] <= cumulative
  /\ \A k \in DOMAIN soc_states :
       /\ soc_states[k] <= cumulative
       /\ \A i \in 1..Len(result_queue) : soc_states[k] <= result_queue[i]
  /\ op = "end" /\ pc = "wait" =>
       /\ opened.soc <= cumulative
       /\ \A i \in 1..Len(result_queue) : opened.soc <= result_queue[i]
  /\ op = "end" /\ pc \in {"gpu", "cpu", "wraparounds", "return"} => opened.soc <= reading.soc

Owned(k) == \E m \in Monitors : k \in DOMAIN measurement_states[m]

(* The window a call is about is in the table of the SoC but in none of    *)
(* the monitors' while it is recorded or forgotten.                        *)
Between == (op = "begin" /\ pc = "record") \/ (op = "end" /\ pc = "soc")

TablesInv ==
  /\ \A m, n \in Monitors : m # n =>
       DOMAIN measurement_states[m] \cap DOMAIN measurement_states[n] = {}
  /\ op # "reset" => \A k \in Keys :
       k \in DOMAIN soc_states <=> Owned(k) \/ (Between /\ k = key)
  /\ Between => ~Owned(key)
  /\ op = "begin" /\ pc = "wait" => key \notin DOMAIN soc_states
  /\ op = "reset" =>
       /\ todo \subseteq DOMAIN measurement_states[self]
       /\ pc = "soc" => key \in DOMAIN measurement_states[self] /\ key \notin todo
       /\ \A k \in Keys :
            k \in DOMAIN soc_states <=>
              \/ \E m \in Monitors : m # self /\ k \in DOMAIN measurement_states[m]
              \/ k \in todo \/ (pc = "soc" /\ k = key)

IInv == TypeInv /\ CallInv /\ CpuInv /\ SoCInv /\ TablesInv /\ AnswersMatch

-----------------------------------------------------------------------------
(* What is put into a table, is taken out of it or is in it.               *)
LEMMA TableFacts ==
  ASSUME NEW V, NEW t \in Tables(V)
  PROVE  /\ DOMAIN t \subseteq Keys /\ \A k \in DOMAIN t : t[k] \in V
         /\ \A k : /\ Without(t, k) \in Tables(V) /\ DOMAIN Without(t, k) = DOMAIN t \ {k}
                   /\ \A j \in DOMAIN t \ {k} : Without(t, k)[j] = t[j]
         /\ \A k \in Keys, v \in V :
              /\ With(t, k, v) \in Tables(V) /\ DOMAIN With(t, k, v) = DOMAIN t \cup {k}
              /\ With(t, k, v)[k] = v
              /\ \A j \in DOMAIN t \ {k} : With(t, k, v)[j] = t[j]
  <1>1. PICK K \in SUBSET Keys : t \in [K -> V]
    BY DEF Tables
  <1>2. DOMAIN t = K
    BY <1>1
  <1>3. ASSUME NEW k PROVE Without(t, k) \in [K \ {k} -> V]
    BY <1>1, <1>2 DEF Without
  <1>4. ASSUME NEW k \in Keys, NEW v \in V PROVE With(t, k, v) \in [K \cup {k} -> V]
    BY <1>1, <1>2 DEF With
  <1>5. ASSUME NEW k PROVE Without(t, k) \in Tables(V)
    BY <1>3 DEF Tables
  <1>6. ASSUME NEW k \in Keys, NEW v \in V PROVE With(t, k, v) \in Tables(V)
    <2>1. K \cup {k} \in SUBSET Keys
      OBVIOUS
    <2>2. With(t, k, v) \in [K \cup {k} -> V]
      BY <1>4
    <2> QED BY <2>1, <2>2 DEF Tables
  <1>7. ASSUME NEW k PROVE /\ DOMAIN Without(t, k) = DOMAIN t \ {k}
                          /\ \A j \in DOMAIN t \ {k} : Without(t, k)[j] = t[j]
    BY DEF Without
  <1>8. ASSUME NEW k \in Keys, NEW v \in V
        PROVE  /\ DOMAIN With(t, k, v) = DOMAIN t \cup {k}
               /\ With(t, k, v)[k] = v
               /\ \A j \in DOMAIN t \ {k} : With(t, k, v)[j] = t[j]
    BY DEF With
  <1> QED BY <1>1, <1>2, <1>5, <1>6, <1>7, <1>8

LEMMA EmptyTable == \A V : NoStates \in Tables(V) /\ DOMAIN NoStates = {}
  <1>1. ASSUME NEW V PROVE NoStates \in [{} -> V] /\ DOMAIN NoStates = {}
    BY DEF NoStates
  <1> QED BY <1>1 DEF Tables

LEMMA ReadingFacts ==
  /\ \A r \in Reading : r.cpu \in Int /\ r.drew \in Nat /\ r.soc \in Nat
  /\ \A r \in Reading, c \in Int : [r EXCEPT !.cpu = c] \in Reading
  /\ \A r \in Reading, c \in Int, d \in Nat : [r EXCEPT !.cpu = c, !.drew = d] \in Reading
  BY DEF Reading

LEMMA InitInv == Init => IInv
  <1> USE MonitorAssumption
  <1> HAVE Init
  <1>1. Numbers /\ Queues /\ reading \in Reading /\ opened \in Reading /\ todo \subseteq Keys
    BY DEF Init, TrackerStarted, PollerStarted, Numbers, Queues, NoReading, Reading, EnergyUj
  <1>2. soc_states \in Tables(Nat) /\ measurement_states \in [Monitors -> Tables(Reading)]
    BY EmptyTable DEF Init
  <1>3. CallInv /\ SoCInv /\ TablesInv /\ AnswersMatch
    BY EmptyTable DEF Init, TrackerStarted, PollerStarted, CallInv, SoCInv, TablesInv, AnswersMatch, Between, Owned
  <1>4. CpuInv
    BY DEF Init, TrackerStarted, CpuInv, EnergyUj
  <1> QED BY <1>1, <1>2, <1>3, <1>4 DEF IInv, TypeInv

LEMMA TypeStep == TypeInv /\ CallInv /\ [Next]_vars => TypeInv'
  <1> SUFFICES ASSUME TypeInv, CallInv, [Next]_vars PROVE TypeInv'
    OBVIOUS
  <1> USE MonitorAssumption
  <1> USE DEF userFrame, queues, pollerFrame, trackerVars, pollerVars, callVars, At, Leave
  <1>0. NoReading \in Reading
    BY DEF NoReading, Reading, TypeInv
  <1>1. CASE Draw \/ CheckWraparound \/ Measure \/ MeasureFails
    <2>1. EnergyUj \in Nat
      BY DEF EnergyUj, Numbers, TypeInv
    <2>2. Numbers'
      BY <1>1, <2>1 DEF Draw, CheckWraparound, Measure, MeasureFails, Numbers, TypeInv
    <2> QED BY <1>1, <2>2 DEF Draw, CheckWraparound, Measure, MeasureFails, Queues, TypeInv
  <1>2. CASE GetTimesOut \/ AnswerRead
    <2>1. Numbers'
      BY <1>2 DEF GetTimesOut, AnswerRead, Numbers, TypeInv
    <2>2. Queues'
      <3>1. CASE GetTimesOut
        BY <3>1 DEF GetTimesOut, Queues, TypeInv
      <3>2. CASE AnswerRead
        <4>1. Tail(command_queue) \in Seq({"READ"}) /\ Append(result_queue, cumulative) \in Seq(Nat)
          BY <3>2 DEF AnswerRead, Queues, Numbers, TypeInv
        <4> QED BY <3>2, <4>1 DEF AnswerRead, Queues
      <3> QED BY <1>2, <3>1, <3>2
    <2> QED BY <1>2, <2>1, <2>2 DEF GetTimesOut, AnswerRead, TypeInv
  <1>3. ASSUME NEW m \in Monitors, NEW k \in Keys, BeginWindow(m, k) PROVE TypeInv'
    BY <1>3 DEF BeginWindow, Numbers, Queues, TypeInv
  <1>4. ASSUME NEW m \in Monitors, NEW k \in Keys, EndWindow(m, k) PROVE TypeInv'
    <2>1. measurement_states[m] \in Tables(Reading)
      BY DEF TypeInv
    <2>2. measurement_states[m][k] \in Reading /\ Without(measurement_states[m], k) \in Tables(Reading)
      BY <1>4, <2>1, TableFacts DEF EndWindow, TypeInv
    <2> QED BY <1>4, <2>2 DEF EndWindow, Numbers, Queues, TypeInv
  <1>5. CASE ReadGpu \/ ReadRaplFile \/ ReadWraparounds
    <2>a. reading \in Reading
      BY DEF TypeInv
    <2>0. EnergyUj \in Nat /\ drawn \in Nat /\ wraparound_counter * RaplRange \in Nat
      BY DEF EnergyUj, Numbers, TypeInv
    <2>1. reading' \in Reading
      <3>1. CASE ReadGpu
        BY <3>1 DEF ReadGpu, TypeInv
      <3>2. CASE ReadRaplFile
        <4>0. EnergyUj \in Int /\ drawn \in Nat
          BY <2>0
        <4>1. [reading EXCEPT !.cpu = EnergyUj, !.drew = drawn] \in Reading
          BY <2>a, <4>0 DEF Reading
        <4> QED BY <3>2, <4>1 DEF ReadRaplFile
      <3>3. CASE ReadWraparounds
        <4>1. reading.cpu + wraparound_counter * RaplRange \in Int
          <5>1. reading.cpu \in Int
            BY <2>a, ReadingFacts
          <5> QED BY <2>0, <5>1
        <4>2. [reading EXCEPT !.cpu = @ + wraparound_counter * RaplRange] \in Reading
          BY <2>a, <4>1, ReadingFacts
        <4> QED BY <3>3, <4>2 DEF ReadWraparounds
      <3> QED BY <1>5, <3>1, <3>2, <3>3 DEF TypeInv
    <2> QED BY <1>5, <2>1 DEF ReadGpu, ReadRaplFile, ReadWraparounds, Numbers, Queues, TypeInv
  <1>6. CASE ReadFails \/ SoCKeyError \/ SoCTimesOut \/ ReturnMeasurement \/ CancelWindow
    BY SMTT(30), <1>0, <1>6
    DEF ReadFails, SoCKeyError, SoCTimesOut, ReturnMeasurement, CancelWindow, Numbers, Queues, TypeInv
  <1>7. CASE AskSoC
    <2>1. Without(soc_states, key) \in Tables(Nat)
      BY TableFacts DEF TypeInv
    <2>2. op # "begin" => soc_states[key] \in Nat
      BY <1>7, TableFacts DEF AskSoC, TypeInv
    <2>3. opened' \in Reading
      BY <1>7, <2>2 DEF AskSoC, Reading, TypeInv
    <2>4. Queues'
      BY <1>7 DEF AskSoC, Queues, TypeInv
    <2> QED BY <1>7, <2>1, <2>3, <2>4 DEF AskSoC, Numbers, TypeInv
  <1>8. CASE SoCAnswers
    <2>1. Head(result_queue) \in Nat /\ Queues'
      BY <1>8 DEF SoCAnswers, Queues, TypeInv
    <2>2. key \in Keys
      BY <1>8 DEF SoCAnswers, CallInv, TypeInv
    <2>3. With(soc_states, key, Head(result_queue)) \in Tables(Nat)
      BY <2>1, <2>2, TableFacts DEF TypeInv
    <2>4. reading' \in Reading
      BY <1>8, <2>1 DEF SoCAnswers, Reading, TypeInv
    <2> QED BY <1>8, <2>1, <2>3, <2>4 DEF SoCAnswers, Numbers, TypeInv
  <1>9. CASE RecordWindow
    <2>1. key \in Keys /\ self \in Monitors /\ measurement_states[self] \in Tables(Reading)
      BY <1>9 DEF RecordWindow, CallInv, TypeInv
    <2>2. [reading EXCEPT !.drew = 0] \in Reading
      BY DEF Reading, TypeInv
    <2>3. With(measurement_states[self], key, [reading EXCEPT !.drew = 0]) \in Tables(Reading)
      BY <2>1, <2>2, TableFacts DEF TypeInv
    <2> QED BY <1>0, <1>9, <2>3 DEF RecordWindow, Numbers, Queues, TypeInv
  <1>10. CASE ClearStates
    BY <1>0, <1>10, EmptyTable DEF ClearStates, Numbers, Queues, TypeInv
  <1>11. CASE ResetOneDone
    <2>1. result_queue # <<>> => Tail(result_queue) \in Seq(Nat)
      BY DEF Queues, TypeInv
    <2>2. Queues'
      BY <1>11, <2>1 DEF ResetOneDone, Queues, TypeInv
    <2>3. Numbers'
      BY <1>11 DEF ResetOneDone, Numbers, TypeInv
    <2> QED BY <1>11, <2>2, <2>3 DEF ResetOneDone, TypeInv
  <1>12. ASSUME NEW k \in Keys, ResetOne(k) PROVE TypeInv'
    BY <1>12 DEF ResetOne, Numbers, Queues, TypeInv
  <1>13. ASSUME NEW m \in Monitors, ResetWindows(m) PROVE TypeInv'
    <2>1. DOMAIN measurement_states[m] \subseteq Keys
      BY TableFacts DEF TypeInv
    <2> QED BY <1>13, <2>1 DEF ResetWindows, Numbers, Queues, TypeInv
  <1>14. CASE UNCHANGED vars
    BY <1>14 DEF vars, Numbers, Queues, TypeInv
  <1> QED
    BY <1>1, <1>2, <1>3, <1>4, <1>5, <1>6, <1>7, <1>8, <1>9, <1>10, <1>11, <1>12, <1>13, <1>14
    DEF Next, InCall, Devices

LEMMA CallStep == TypeInv /\ CallInv /\ [Next]_vars => CallInv'
  <1> SUFFICES ASSUME TypeInv, CallInv, [Next]_vars PROVE CallInv'
    OBVIOUS
  <1> USE DEF CallInv
  <1> USE DEF userFrame, queues, pollerFrame, trackerVars, pollerVars, callVars, At, Leave, NoReading
  <1>1. CASE Devices
    BY <1>1 DEF Devices, Draw, CheckWraparound, Measure, MeasureFails, GetTimesOut, AnswerRead
  <1>2. ASSUME NEW m \in Monitors, NEW k \in Keys, BeginWindow(m, k) \/ EndWindow(m, k) PROVE CallInv'
    BY <1>2 DEF BeginWindow, EndWindow
  <1>3. CASE ReadGpu \/ ReadRaplFile \/ ReadWraparounds
    BY <1>3 DEF ReadGpu, ReadRaplFile, ReadWraparounds
  <1>4. CASE ReadFails \/ SoCKeyError \/ SoCTimesOut \/ ReturnMeasurement \/ CancelWindow
             \/ RecordWindow \/ ClearStates
    BY <1>4 DEF ReadFails, SoCKeyError, SoCTimesOut, ReturnMeasurement, CancelWindow, RecordWindow, ClearStates
  <1>5. CASE AskSoC \/ SoCAnswers \/ ResetOneDone
    BY <1>5 DEF AskSoC, SoCAnswers, ResetOneDone
  <1>6. ASSUME NEW k \in Keys, ResetOne(k) PROVE CallInv'
    BY <1>6 DEF ResetOne, TypeInv
  <1>7. ASSUME NEW m \in Monitors, ResetWindows(m) PROVE CallInv'
    BY <1>7 DEF ResetWindows
  <1>8. CASE UNCHANGED vars
    BY <1>8 DEF vars
  <1> QED BY <1>1, <1>2, <1>3, <1>4, <1>5, <1>6, <1>7, <1>8 DEF Next, InCall

-----------------------------------------------------------------------------
(* RAPL *)

(* Quotients and remainders, and those of two numbers that are less than a *)
(* range apart.                                                            *)
LEMMA Quotient ==
  ASSUME NEW R \in Nat \ {0}, NEW x \in Nat
  PROVE  /\ x \div R \in Nat /\ x % R \in 0..(R - 1)
         /\ x = R * (x \div R) + (x % R)
  <1> DEFINE q == x \div R
             r == x % R
  <1>1. q \in Int /\ r \in 0..(R - 1) /\ x = R * q + r
    OBVIOUS
  <1> HIDE DEF q, r
  <1>2. CASE q <= -1
    <2>1. R * q <= R * (-1) /\ R * (-1) = -R
      BY <1>1, <1>2
    <2> QED BY <1>1, <2>1
  <1>3. q \in Nat
    BY <1>1, <1>2
  <1> QED BY <1>1, <1>3 DEF q, r

LEMMA CloseQuotients ==
  ASSUME NEW R \in Nat \ {0}, NEW p \in Nat, NEW q \in Nat, NEW r \in 0..(R - 1), NEW s \in 0..(R - 1),
         R * p + r <= R * q + s, (R * q + s) - (R * p + r) < R
  PROVE  (q = p /\ r <= s) \/ (q = p + 1 /\ s < r)
  <1>1. CASE q <= p - 1
    <2>1. R * q <= R * (p - 1) /\ R * (p - 1) = R * p - R
      BY <1>1
    <2> QED BY <2>1
  <1>2. CASE q >= p + 2
    <2>1. R * q >= R * (p + 2) /\ R * (p + 2) = R * p + 2 * R
      BY <1>2
    <2> QED BY <2>1
  <1>3. CASE q = p
    BY <1>3
  <1>4. CASE q = p + 1
    <2>1. R * q = R * p + R
      BY <1>4
    <2> QED BY <1>4, <2>1
  <1> QED BY <1>1, <1>2, <1>3, <1>4

LEMMA Wraps ==
  ASSUME NEW x \in Nat, NEW y \in Nat, x <= y, y - x < RaplRange
  PROVE  \/ y \div RaplRange = x \div RaplRange /\ x % RaplRange <= y % RaplRange
         \/ y \div RaplRange = (x \div RaplRange) + 1 /\ y % RaplRange < x % RaplRange
  <1> DEFINE p == x \div RaplRange
             q == y \div RaplRange
             r == x % RaplRange
             s == y % RaplRange
  <1>1. /\ RaplRange \in Nat \ {0} /\ p \in Nat /\ q \in Nat
        /\ r \in 0..(RaplRange - 1) /\ s \in 0..(RaplRange - 1)
        /\ x = RaplRange * p + r /\ y = RaplRange * q + s
    BY MonitorAssumption, Quotient
  <1> HIDE DEF p, q, r, s
  <1>2. (q = p /\ r <= s) \/ (q = p + 1 /\ s < r)
    BY <1>1, CloseQuotients
  <1> QED BY <1>2 DEF p, q, r, s

LEMMA CpuStep == TypeInv /\ CallInv /\ CpuInv /\ [Next]_vars => CpuInv'
  <1> SUFFICES ASSUME TypeInv, CallInv, CpuInv, [Next]_vars PROVE CpuInv'
    OBVIOUS
  <1>0. /\ RaplRange \in Nat \ {0} /\ drawn \in Nat /\ checked \in Nat /\ tracker \in Nat
        /\ wraparound_counter \in Nat /\ reading \in Reading
    BY MonitorAssumption DEF TypeInv, Numbers
  <1> USE DEF userFrame, queues, pollerFrame, trackerVars, pollerVars, callVars, At, Leave
  <1>1. CASE Draw
    BY <1>0, <1>1 DEF Draw, CpuInv, Reading
  <1>2. CASE CheckWraparound
    <2>1. /\ wraparound_counter' = drawn \div RaplRange /\ tracker' = drawn % RaplRange /\ checked' = drawn
          /\ UNCHANGED <<drawn, pc, op, reading>>
      <3>1. /\ tracker = checked % RaplRange /\ wraparound_counter = checked \div RaplRange
            /\ checked <= drawn /\ drawn - checked < RaplRange
        BY DEF CpuInv
      <3>2. /\ checked \div RaplRange \in Nat /\ checked % RaplRange \in Nat
            /\ drawn \div RaplRange \in Nat /\ drawn % RaplRange \in Nat
        BY <1>0, Quotient
      <3>3. \/ /\ drawn \div RaplRange = checked \div RaplRange
               /\ checked % RaplRange <= drawn % RaplRange
            \/ /\ drawn \div RaplRange = (checked \div RaplRange) + 1
               /\ drawn % RaplRange < checked % RaplRange
        BY <1>0, <3>1, Wraps
      <3>4. wraparound_counter' = wraparound_counter + (IF drawn % RaplRange < tracker THEN 1 ELSE 0)
        BY <1>2 DEF CheckWraparound, EnergyUj
      <3>5. wraparound_counter' = drawn \div RaplRange
        BY <3>1, <3>2, <3>3, <3>4
      <3> QED BY <1>2, <3>5 DEF CheckWraparound, EnergyUj
    <2> QED BY <1>0, <2>1 DEF CpuInv
  <1>3. CASE ReadRaplFile
    BY <1>0, <1>3 DEF ReadRaplFile, CpuInv, EnergyUj, Reading
  <1>4. CASE ReadWraparounds
    <2> DEFINE p == checked \div RaplRange
               q == reading.drew \div RaplRange
    <2>1. /\ reading.drew \in Nat /\ reading.cpu = reading.drew % RaplRange
          /\ wraparound_counter = p
          /\ checked <= drawn /\ drawn - checked < RaplRange
          /\ reading.drew <= drawn /\ drawn - reading.drew < RaplRange
      BY <1>0, <1>4 DEF ReadWraparounds, CpuInv, Reading
    <2>2. /\ p \in Nat /\ q \in Nat /\ reading.cpu \in Nat
          /\ reading.drew = RaplRange * q + reading.cpu
      <3>1. checked \div RaplRange \in Nat
        BY <1>0, Quotient
      <3>2. /\ reading.drew \div RaplRange \in Nat /\ reading.drew % RaplRange \in 0..(RaplRange - 1)
            /\ reading.drew = RaplRange * (reading.drew \div RaplRange) + (reading.drew % RaplRange)
        BY <1>0, <2>1, Quotient
      <3> QED BY <1>0, <2>1, <3>1, <3>2
    <2>3. q = p \/ q = p + 1 \/ p = q + 1
      <3>1. CASE checked <= reading.drew
        <4>1. reading.drew - checked < RaplRange
          BY <1>0, <2>1, <3>1
        <4> QED BY <1>0, <2>1, <3>1, <4>1, Wraps
      <3>2. CASE reading.drew <= checked
        <4>1. checked - reading.drew < RaplRange
          BY <1>0, <2>1, <3>2
        <4> QED BY <1>0, <2>1, <3>2, <4>1, Wraps
      <3> QED BY <1>0, <2>1, <3>1, <3>2
    <2>4. /\ reading'.cpu = reading.cpu + p * RaplRange /\ reading'.drew = reading.drew
      BY <1>0, <1>4, <2>1 DEF ReadWraparounds, Reading
    <2> HIDE DEF p, q
    <2>5. p * RaplRange - RaplRange * q \in {-RaplRange, 0, RaplRange}
      <3>1. CASE q = p
        BY <1>0, <2>2, <3>1
      <3>2. CASE q = p + 1
        <4>1. RaplRange * q = p * RaplRange + RaplRange
          BY <1>0, <2>2, <3>2
        <4> QED BY <1>0, <2>2, <4>1
      <3>3. CASE p = q + 1
        <4>1. p * RaplRange = RaplRange * q + RaplRange
          BY <1>0, <2>2, <3>3
        <4> QED BY <1>0, <2>2, <4>1
      <3> QED BY <2>3, <3>1, <3>2, <3>3
    <2>6. reading'.cpu - reading'.drew = p * RaplRange - RaplRange * q
      <3>1. p * RaplRange \in Int /\ RaplRange * q \in Int
        BY <1>0, <2>2
      <3> QED BY <2>2, <2>4, <3>1
    <2>7. UNCHANGED <<drawn, tracker, wraparound_counter, checked>> /\ pc' # "wraparounds"
      BY <1>4 DEF ReadWraparounds
    <2> QED BY <2>5, <2>6, <2>7 DEF CpuInv
  <1>5. CASE /\ UNCHANGED <<drawn, tracker, wraparound_counter, checked, reading, op>>
             /\ pc' = "wraparounds" => pc = "wraparounds"
             /\ pc' = "return" => pc = "return"
             /\ op = "begin" /\ pc' \in {"soc", "wait", "record"} => pc \in {"soc", "wait", "record"}
    BY <1>5 DEF CpuInv
  <1>6. CASE /\ UNCHANGED <<drawn, tracker, wraparound_counter, checked>>
             /\ pc' \notin {"wraparounds", "return"} /\ (op' # "begin" \/ pc' = "gpu")
    BY <1>6 DEF CpuInv
  <1>7. CASE SoCAnswers
    <2>1. /\ reading'.cpu = reading.cpu /\ reading'.drew = reading.drew
          /\ UNCHANGED <<drawn, tracker, wraparound_counter, checked, op>>
          /\ pc = "wait" /\ pc' = IF op = "begin" THEN "record" ELSE "gpu"
      BY <1>0, <1>7 DEF SoCAnswers, Reading
    <2> QED BY <2>1 DEF CpuInv
  <1>8. CASE Measure \/ MeasureFails \/ GetTimesOut \/ AnswerRead
    BY <1>5, <1>8 DEF Measure, MeasureFails, GetTimesOut, AnswerRead
  <1>9. ASSUME NEW m \in Monitors, NEW k \in Keys, BeginWindow(m, k) \/ EndWindow(m, k) PROVE CpuInv'
    BY <1>6, <1>9 DEF BeginWindow, EndWindow
  <1>10. CASE ReadGpu \/ AskSoC
    BY <1>5, <1>10 DEF ReadGpu, AskSoC
  <1>11. CASE ReadFails \/ SoCKeyError \/ SoCTimesOut \/ ReturnMeasurement \/ CancelWindow
              \/ RecordWindow \/ ClearStates
    BY <1>6, <1>11 DEF ReadFails, SoCKeyError, SoCTimesOut, ReturnMeasurement, CancelWindow, RecordWindow, ClearStates
  <1>12. CASE ResetOneDone
    BY <1>5, <1>12 DEF ResetOneDone
  <1>13. ASSUME NEW k \in Keys, ResetOne(k) PROVE CpuInv'
    BY <1>6, <1>13 DEF ResetOne
  <1>14. ASSUME NEW m \in Monitors, ResetWindows(m) PROVE CpuInv'
    BY <1>6, <1>14 DEF ResetWindows
  <1>15. CASE UNCHANGED vars
    BY <1>5, <1>15 DEF vars
  <1> QED
    BY <1>1, <1>2, <1>3, <1>4, <1>7, <1>8, <1>9, <1>10, <1>11, <1>12, <1>13, <1>14, <1>15
    DEF Next, InCall, Devices

-----------------------------------------------------------------------------
(* The SoC's answers *)

LEMMA AnswersStep == TypeInv /\ CallInv /\ AnswersMatch /\ [Next]_vars => AnswersMatch'
  <1> SUFFICES ASSUME TypeInv, CallInv, AnswersMatch, [Next]_vars PROVE AnswersMatch'
    OBVIOUS
  <1>0. /\ command_queue \in Seq({"READ"}) /\ result_queue \in Seq(Nat) /\ timeouts \in Nat
        /\ cumulative \in Nat
    BY DEF TypeInv, Queues, Numbers
  <1> USE DEF userFrame, queues, pollerFrame, trackerVars, pollerVars, callVars, At, Leave
  <1>1. CASE /\ UNCHANGED queues
             /\ poller' # "dead" => poller # "dead"
             /\ pc' = "wait" <=> pc = "wait"
    BY <1>1 DEF AnswersMatch
  <1>2. CASE Draw \/ CheckWraparound \/ Measure \/ MeasureFails \/ GetTimesOut
    BY <1>1, <1>2 DEF Draw, CheckWraparound, Measure, MeasureFails, GetTimesOut
  <1>3. CASE AnswerRead
    <2>1. /\ Len(command_queue') = Len(command_queue) - 1 /\ Len(result_queue') = Len(result_queue) + 1
          /\ Len(command_queue) \in Nat /\ Len(result_queue) \in Nat
      BY <1>0, <1>3 DEF AnswerRead
    <2> QED BY <1>3, <2>1 DEF AnswerRead, AnswersMatch
  <1>4. ASSUME NEW m \in Monitors, NEW k \in Keys, BeginWindow(m, k) \/ EndWindow(m, k) PROVE AnswersMatch'
    BY <1>1, <1>4 DEF BeginWindow, EndWindow
  <1>5. CASE ReadGpu \/ ReadRaplFile \/ ReadWraparounds
    BY <1>1, <1>5 DEF ReadGpu, ReadRaplFile, ReadWraparounds
  <1>6. CASE ReadFails \/ SoCKeyError \/ ReturnMeasurement \/ CancelWindow \/ RecordWindow \/ ClearStates
    BY <1>1, <1>6 DEF ReadFails, SoCKeyError, ReturnMeasurement, CancelWindow, RecordWindow, ClearStates
  <1>7. CASE AskSoC
    <2>1. /\ Len(Append(command_queue, "READ")) = Len(command_queue) + 1
          /\ Len(command_queue) \in Nat /\ Len(result_queue) \in Nat
      BY <1>0
    <2> QED BY <1>7, <2>1 DEF AskSoC, AnswersMatch
  <1>8. CASE SoCAnswers \/ ResetOneDone \/ SoCTimesOut
    <2>1. /\ pc = "wait" /\ pc' # "wait" /\ UNCHANGED <<command_queue, poller>>
          /\ \/ result_queue # <<>> /\ result_queue' = Tail(result_queue) /\ UNCHANGED timeouts
             \/ poller = "dead" \/ timeouts' = timeouts + 1
      BY <1>8 DEF SoCAnswers, ResetOneDone, SoCTimesOut
    <2>2. result_queue # <<>> => Len(Tail(result_queue)) = Len(result_queue) - 1
      BY <1>0
    <2>3. Len(command_queue) \in Nat /\ Len(result_queue) \in Nat
      BY <1>0
    <2> QED BY <1>0, <2>1, <2>2, <2>3 DEF AnswersMatch
  <1>9. ASSUME NEW k \in Keys, ResetOne(k) PROVE AnswersMatch'
    BY <1>1, <1>9 DEF ResetOne
  <1>10. ASSUME NEW m \in Monitors, ResetWindows(m) PROVE AnswersMatch'
    BY <1>1, <1>10 DEF ResetWindows
  <1>11. CASE UNCHANGED vars
    BY <1>1, <1>11 DEF vars
  <1> QED
    BY <1>2, <1>3, <1>4, <1>5, <1>6, <1>7, <1>8, <1>9, <1>10, <1>11 DEF Next, InCall, Devices

LEMMA SoCStep == TypeInv /\ CallInv /\ SoCInv /\ [Next]_vars => SoCInv'
  <1> SUFFICES ASSUME TypeInv, CallInv, SoCInv, [Next]_vars PROVE SoCInv'
    OBVIOUS
  <1>0. /\ result_queue \in Seq(Nat) /\ cumulative \in Nat /\ drawn \in Nat
        /\ opened \in Reading /\ reading \in Reading
        /\ \A k \in DOMAIN soc_states : soc_states[k] \in Nat
    BY TableFacts DEF TypeInv, Queues, Numbers
  <1>a. opened.soc \in Nat /\ reading.soc \in Nat
    BY <1>0, ReadingFacts
  <1> USE DEF userFrame, queues, pollerFrame, trackerVars, pollerVars, callVars, At, Leave
  (* Nothing of the SoC changes, and no step about the opened window begins. *)
  <1>1. CASE /\ UNCHANGED <<drawn, cumulative, result_queue, soc_states>>
             /\ \/ pc' \notin {"wait", "gpu", "cpu", "wraparounds", "return"} \/ op' # "end"
                \/ /\ UNCHANGED <<op, opened>> /\ reading'.soc = reading.soc
                   /\ pc' = "wait" => pc = "wait"
                   /\ pc' \in {"gpu", "cpu", "wraparounds", "return"}
                        => pc \in {"gpu", "cpu", "wraparounds", "return"}
    BY <1>1 DEF SoCInv
  <1>2. CASE Draw
    BY <1>0, <1>2 DEF Draw, SoCInv
  <1>3. CASE Measure
    <2>1. /\ drawn' = drawn /\ cumulative' = drawn /\ cumulative <= drawn
          /\ UNCHANGED <<result_queue, soc_states, op, pc, opened, reading>>
      BY <1>3 DEF Measure, SoCInv
    <2>2. \A i \in 1..Len(result_queue) : result_queue[i] \in Nat
      BY <1>0
    <2> QED BY <1>0, <1>a, <2>1, <2>2 DEF SoCInv
  <1>4. CASE CheckWraparound \/ MeasureFails \/ GetTimesOut
    BY <1>1, <1>4 DEF CheckWraparound, MeasureFails, GetTimesOut
  <1>5. CASE AnswerRead
    <2> DEFINE r == Append(result_queue, cumulative)
    <2>1. /\ Len(result_queue) \in Nat /\ Len(r) = Len(result_queue) + 1
          /\ r[Len(result_queue) + 1] = cumulative
          /\ \A i \in 1..Len(result_queue) : r[i] = result_queue[i] /\ result_queue[i] \in Nat
      BY <1>0
    <2> HIDE DEF r
    <2>2. /\ result_queue' = r
          /\ UNCHANGED <<drawn, cumulative, soc_states, op, pc, opened, reading>>
      BY <1>5 DEF AnswerRead, r
    <2>3. /\ \A i, j \in 1..Len(r) : i <= j => r[i] <= r[j]
          /\ \A i \in 1..Len(r) : r[i] <= cumulative
      BY SMTT(30), <1>0, <2>1 DEF SoCInv
    <2>4. \A k \in DOMAIN soc_states : \A i \in 1..Len(r) : soc_states[k] <= r[i]
      BY SMTT(30), <1>0, <2>1 DEF SoCInv
    <2>5. op = "end" /\ pc = "wait" => \A i \in 1..Len(r) : opened.soc <= r[i]
      BY <1>0, <1>a, <2>1 DEF SoCInv
    <2> QED BY <2>2, <2>3, <2>4, <2>5 DEF SoCInv
  <1>6. ASSUME NEW m \in Monitors, NEW k \in Keys, BeginWindow(m, k) \/ EndWindow(m, k) PROVE SoCInv'
    BY <1>1, <1>6 DEF BeginWindow, EndWindow
  <1>7. CASE ReadGpu \/ ReadRaplFile \/ ReadWraparounds
    <2>1. reading'.soc = reading.soc
      BY <1>0, <1>7 DEF ReadGpu, ReadRaplFile, ReadWraparounds, Reading
    <2> QED BY <1>1, <1>7, <2>1 DEF ReadGpu, ReadRaplFile, ReadWraparounds
  <1>8. CASE ReadFails \/ SoCKeyError \/ SoCTimesOut \/ ReturnMeasurement \/ CancelWindow
             \/ RecordWindow \/ ClearStates
    BY <1>1, <1>8
    DEF ReadFails, SoCKeyError, SoCTimesOut, ReturnMeasurement, CancelWindow, RecordWindow, ClearStates
  <1>9. CASE AskSoC
    <2>2. /\ DOMAIN Without(soc_states, key) \subseteq DOMAIN soc_states
          /\ \A k \in DOMAIN Without(soc_states, key) : Without(soc_states, key)[k] = soc_states[k]
      BY DEF Without
    <2>3. op = "end" => opened'.soc = soc_states[key] /\ key \in DOMAIN soc_states
      BY <1>0, <1>9 DEF AskSoC, Reading
    <2>4. /\ soc_states' = Without(soc_states, key) /\ pc' = "wait"
          /\ UNCHANGED <<drawn, cumulative, result_queue, op>>
      BY <1>9 DEF AskSoC
    <2> QED BY <2>2, <2>3, <2>4 DEF SoCInv
  <1>10. CASE SoCAnswers \/ ResetOneDone
    <2>1. CASE result_queue = <<>>
      BY <1>1, <1>10, <2>1 DEF SoCAnswers, ResetOneDone
    <2>2. CASE result_queue # <<>>
      <3> DEFINE r == Tail(result_queue)
                 h == Head(result_queue)
      <3>1. /\ Len(r) \in Nat /\ Len(result_queue) = Len(r) + 1 /\ h = result_queue[1] /\ h \in Nat
            /\ \A i \in 1..Len(r) : r[i] = result_queue[i + 1]
        BY <1>0, <2>2
      <3> HIDE DEF r, h
      <3>2. /\ \A i, j \in 1..Len(r) : i <= j => r[i] <= r[j]
            /\ \A i \in 1..Len(r) : r[i] <= cumulative /\ h <= r[i]
            /\ h <= cumulative
            /\ \A k \in DOMAIN soc_states : \A i \in 1..Len(r) : soc_states[k] <= r[i]
            /\ op = "end" /\ pc = "wait" => opened.soc <= h
        BY <3>1 DEF SoCInv
      <3>3. CASE ResetOneDone
        BY <2>2, <3>2, <3>3 DEF SoCInv, ResetOneDone, r
      <3>4. CASE SoCAnswers
        <4>1. /\ result_queue' = r /\ UNCHANGED <<drawn, cumulative, op, opened>>
              /\ pc = "wait" /\ pc' = (IF op = "begin" THEN "record" ELSE "gpu")
              /\ soc_states' = IF op = "begin" THEN With(soc_states, key, h) ELSE soc_states
          BY <3>4 DEF SoCAnswers, r, h
        <4>2. reading'.soc = h
          BY <1>0, <3>4 DEF SoCAnswers, Reading, h
        <4>4. /\ DOMAIN With(soc_states, key, h) = DOMAIN soc_states \cup {key}
              /\ With(soc_states, key, h)[key] = h
              /\ \A k \in DOMAIN soc_states \ {key} : With(soc_states, key, h)[k] = soc_states[k]
          BY DEF With
        <4>5. \A k \in DOMAIN soc_states' : /\ soc_states'[k] <= cumulative
                                            /\ \A i \in 1..Len(r) : soc_states'[k] <= r[i]
          <5>1. CASE op = "begin"
            BY <3>2, <4>1, <4>4, <5>1 DEF SoCInv
          <5>2. CASE op # "begin"
            BY <3>2, <4>1, <5>2 DEF SoCInv
          <5> QED BY <5>1, <5>2
        <4> QED BY <3>2, <4>1, <4>2, <4>5 DEF SoCInv
      <3> QED BY <1>10, <3>3, <3>4
    <2> QED BY <2>1, <2>2
  <1>11. ASSUME NEW k \in Keys, ResetOne(k) PROVE SoCInv'
    BY <1>1, <1>11 DEF ResetOne
  <1>12. ASSUME NEW m \in Monitors, ResetWindows(m) PROVE SoCInv'
    BY <1>1, <1>12 DEF ResetWindows
  <1>13. CASE UNCHANGED vars
    BY <1>1, <1>13 DEF vars
  <1> QED
    BY <1>2, <1>3, <1>4, <1>5, <1>6, <1>7, <1>8, <1>9, <1>10, <1>11, <1>12, <1>13
    DEF Next, InCall, Devices

-----------------------------------------------------------------------------
(* The tables *)

LEMMA TablesStep == TypeInv /\ CallInv /\ TablesInv /\ [Next]_vars => TablesInv'
  <1> SUFFICES ASSUME TypeInv, CallInv, TablesInv, [Next]_vars PROVE TablesInv'
    OBVIOUS
  <1> USE DEF userFrame, queues, pollerFrame, trackerVars, pollerVars, callVars, At, Leave
  <1>1. CASE UNCHANGED <<soc_states, measurement_states, op, self, key, pc, todo>>
    BY <1>1 DEF TablesInv, Between, Owned
  <1>2. CASE Devices
    BY <1>1, <1>2 DEF Devices, Draw, CheckWraparound, Measure, MeasureFails, GetTimesOut, AnswerRead
  (* A call about nothing in between goes on to another such step, or ends. *)
  <1>3. CASE /\ UNCHANGED <<soc_states, measurement_states>> /\ ~Between /\ op # "reset"
             /\ op' # "reset" /\ ~Between' /\ ~(op' = "begin" /\ pc' = "wait")
    BY <1>3 DEF TablesInv, Owned
  <1>4. ASSUME NEW m \in Monitors, NEW k \in Keys, BeginWindow(m, k) PROVE TablesInv'
    BY <1>3, <1>4 DEF BeginWindow, Between, CallInv
  <1>5. ASSUME NEW m \in Monitors, NEW k \in Keys, EndWindow(m, k) PROVE TablesInv'
    <2>1. /\ op = "none" /\ op' = "end" /\ pc' = "soc" /\ key' = k /\ soc_states' = soc_states
          /\ k \in DOMAIN measurement_states[m]
      BY <1>5 DEF EndWindow, CallInv
    <2>2. /\ DOMAIN measurement_states'[m] = DOMAIN measurement_states[m] \ {k}
          /\ \A n \in Monitors : n # m => measurement_states'[n] = measurement_states[n]
      BY <1>5 DEF EndWindow, Without, TypeInv
    <2>3. ~Between
      BY <2>1 DEF Between
    <2>4. \A n \in Monitors : n # m => k \notin DOMAIN measurement_states[n]
      BY <2>1 DEF TablesInv
    <2> QED BY <2>1, <2>2, <2>3, <2>4 DEF TablesInv, Owned, Between
  <1>6. CASE ReadGpu \/ ReadRaplFile \/ ReadWraparounds
    BY <1>3, <1>6 DEF ReadGpu, ReadRaplFile, ReadWraparounds, Between, CallInv
  <1>7. CASE ReadFails \/ ReturnMeasurement \/ CancelWindow
    BY <1>3, <1>7 DEF ReadFails, ReturnMeasurement, CancelWindow, Between, CallInv
  <1>8. CASE SoCKeyError
    <2>1. op \in {"begin", "end"} /\ pc = "soc" /\ (op = "begin" <=> key \in DOMAIN soc_states) /\ key \in Keys
      BY <1>8 DEF SoCKeyError, CallInv
    <2>2. op = "begin"
      BY <2>1 DEF TablesInv, Between
    <2> QED BY <1>3, <1>8, <2>2 DEF SoCKeyError, Between
  <1>9. CASE SoCTimesOut
    BY <1>3, <1>9 DEF SoCTimesOut, Between
  <1>10. CASE AskSoC
    <2>1. /\ pc = "soc" /\ pc' = "wait" /\ UNCHANGED <<measurement_states, op, self, key, todo>>
          /\ DOMAIN soc_states' = DOMAIN soc_states \ {key}
          /\ op = "begin" <=> key \notin DOMAIN soc_states
      BY <1>10 DEF AskSoC, Without
    <2>2. CASE op = "begin"
      BY <2>1, <2>2 DEF TablesInv, Owned, Between
    <2>3. CASE op = "end"
      BY <2>1, <2>3 DEF TablesInv, Owned, Between
    <2>4. CASE op = "reset"
      <3>1. \A m \in Monitors : m # self => key \notin DOMAIN measurement_states[m]
        BY <2>1, <2>4 DEF TablesInv, CallInv
      <3> QED BY <2>1, <2>4, <3>1 DEF TablesInv, Between, Owned
    <2> QED BY <2>1, <2>2, <2>3, <2>4 DEF CallInv
  <1>11. CASE SoCAnswers
    <2>1. /\ op \in {"begin", "end"} /\ pc = "wait" /\ UNCHANGED <<measurement_states, op, key>>
          /\ op = "begin" => pc' = "record" /\ DOMAIN soc_states' = DOMAIN soc_states \cup {key}
          /\ op = "end" => pc' = "gpu" /\ soc_states' = soc_states
      BY <1>11 DEF SoCAnswers, With
    <2>2. key \in Keys
      BY <2>1 DEF CallInv
    <2> QED BY <2>1, <2>2 DEF TablesInv, Owned, Between
  <1>12. CASE RecordWindow
    <2>1. /\ op = "begin" /\ pc = "record" /\ op' = "none" /\ soc_states' = soc_states
          /\ self \in Monitors /\ key \in Keys
      BY <1>12 DEF RecordWindow, CallInv
    <2>2. /\ DOMAIN measurement_states'[self] = DOMAIN measurement_states[self] \cup {key}
          /\ \A n \in Monitors : n # self => measurement_states'[n] = measurement_states[n]
      BY <1>12, <2>1 DEF RecordWindow, With, TypeInv
    <2>3. \A k \in Keys : k \in DOMAIN soc_states <=> Owned(k) \/ k = key
      BY <2>1 DEF TablesInv, Between
    <2>4. ~Owned(key)
      BY <2>1 DEF TablesInv, Between
    <2> QED BY <2>1, <2>2, <2>3, <2>4 DEF TablesInv, Owned, Between
  <1>13. CASE ClearStates
    <2>1. /\ op = "reset" /\ pc = "next" /\ todo = {} /\ op' = "none" /\ soc_states' = soc_states
          /\ self \in Monitors
      BY <1>13 DEF ClearStates, CallInv
    <2>2. /\ DOMAIN measurement_states'[self] = {}
          /\ \A n \in Monitors : n # self => measurement_states'[n] = measurement_states[n]
      BY <1>13, <2>1, EmptyTable DEF ClearStates, TypeInv
    <2> QED BY <2>1, <2>2 DEF TablesInv, Owned, Between
  <1>14. CASE ResetOneDone
    BY <1>14 DEF ResetOneDone, TablesInv, Between
  <1>15. ASSUME NEW k \in Keys, ResetOne(k) PROVE TablesInv'
    BY <1>15 DEF ResetOne, TablesInv, Between
  <1>16. ASSUME NEW m \in Monitors, ResetWindows(m) PROVE TablesInv'
    <2>1. /\ op = "none" /\ op' = "reset" /\ self' = m /\ pc' = "next"
          /\ todo' = DOMAIN measurement_states[m] /\ UNCHANGED <<soc_states, measurement_states>>
      BY <1>16 DEF ResetWindows, CallInv
    <2>2. \A k \in Keys : k \in DOMAIN soc_states <=> Owned(k)
      BY <2>1 DEF TablesInv, Between
    <2> QED BY <2>1, <2>2 DEF TablesInv, Owned, Between
  <1>17. CASE UNCHANGED vars
    BY <1>1, <1>17 DEF vars
  <1> QED
    BY <1>2, <1>4, <1>5, <1>6, <1>7, <1>8, <1>9, <1>10, <1>11, <1>12, <1>13, <1>14, <1>15, <1>16, <1>17
    DEF Next, InCall

-----------------------------------------------------------------------------
(* The parts of the inductive invariant together.                          *)
LEMMA StepInv == IInv /\ [Next]_vars => IInv'
  BY TypeStep, CallStep, CpuStep, SoCStep, TablesStep, AnswersStep DEF IInv

(* Types, where each call is, the counters and their ranges, the order of  *)
(* the answers and the two tables are invariant.                           *)
THEOREM Invariant == Spec => []IInv
  BY InitInv, StepInv, PTL DEF Spec

(* Between calls, the SoC has open exactly the windows of the monitors,    *)
(* whatever failed or timed out before.                                    *)
THEOREM TablesAgreed == Spec => []TablesAgree
  <1>1. IInv => TablesAgree
    <2> SUFFICES ASSUME IInv, pc = "idle" PROVE TablesAgree
      BY DEF TablesAgree
    <2>1. op = "none"
      BY DEF IInv, CallInv
    <2>2. \A k \in Keys : k \in DOMAIN soc_states <=> \E m \in Monitors : k \in DOMAIN measurement_states[m]
      BY <2>1 DEF IInv, TablesInv, Owned, Between
    <2>3. DOMAIN soc_states \subseteq Keys /\ \A m \in Monitors : DOMAIN measurement_states[m] \subseteq Keys
      BY TableFacts DEF IInv, TypeInv
    <2>4. DOMAIN soc_states = UNION {DOMAIN measurement_states[m] : m \in Monitors}
      BY <2>2, <2>3
    <2> QED BY <2>4 DEF IInv, TablesInv, TablesAgree
  <1> QED BY <1>1, Invariant, PTL

(* A CPU reading is off by one range at most, and counting late heals.     *)
THEOREM ReadingsBounded == Spec => []CpuReadings
  <1>1. IInv => CpuReadings
    <2> SUFFICES ASSUME IInv PROVE CpuReadings
      OBVIOUS
    <2>1. /\ RaplRange \in Nat \ {0} /\ drawn \in Nat /\ CpuInv
      BY MonitorAssumption DEF IInv, TypeInv, Numbers
    <2>2. /\ drawn \div RaplRange \in Nat /\ drawn % RaplRange \in Nat
          /\ drawn = RaplRange * (drawn \div RaplRange) + (drawn % RaplRange)
      BY <2>1, Quotient
    <2>3. checked = drawn => EnergyUj + wraparound_counter * RaplRange = drawn
      BY <2>1, <2>2 DEF CpuInv, EnergyUj
    <2> QED BY <2>1, <2>3 DEF CpuReadings, CpuInv
  <1> QED BY <1>1, Invariant, PTL

(* The energy of an SoC in a window is never negative, not even when it    *)
(* takes an answer that came too late for another call.                    *)
THEOREM SoCForward == Spec => []SoCNeverNegative
  <1>1. IInv => SoCNeverNegative
    <2> SUFFICES ASSUME IInv, pc = "return" PROVE Measurement.soc >= 0
      BY DEF SoCNeverNegative
    <2>1. opened.soc <= reading.soc
      BY DEF IInv, CallInv, SoCInv
    <2>2. opened.soc \in Nat /\ reading.soc \in Nat
      BY ReadingFacts DEF IInv, TypeInv
    <2> QED BY <2>1, <2>2 DEF Measurement
  <1> QED BY <1>1, Invariant, PTL

(* Unless a call has given up, the answer it takes is its own.             *)
THEOREM AnswersMatched == Spec => []AnswersMatch
  <1>1. IInv => AnswersMatch
    BY DEF IInv
  <1> QED BY <1>1, Invariant, PTL

-----------------------------------------------------------------------------
(* Windows that are charged hour by hour.                                  *)

(* Maps from hours. *)
IsMap(map) == map \in [DOMAIN map -> Nat] /\ DOMAIN map \subseteq Nat

Alive == proc.is \in {"starting", "top", "polling"}

Shape(p) ==
  /\ DOMAIN p = {"is", "hour_floor", "index", "last_index", "keys", "since", "begun",
                 "measured", "charged"}
  /\ p.hour_floor \in Nat /\ p.index \in Nat /\ p.last_index \in Nat
  /\ p.keys \subseteq WindowKeys
  /\ p.since \in [WindowKeys -> Nat] /\ p.begun \in [WindowKeys -> Nat]
  /\ DOMAIN p.measured = WindowKeys /\ DOMAIN p.charged = WindowKeys
  /\ \A k \in WindowKeys : IsMap(p.measured[k]) /\ IsMap(p.charged[k])

ProcInv ==
  /\ monitor \in {"carbon", "price"} /\ now \in 0..MaxTicks
  /\ Shape(proc)
  /\ proc.is \in {"none", "starting", "top", "polling", "failed", "cannot pop"}
  /\ proc.is = "none" => proc = NoProcess
  /\ proc.is = "starting" => proc = [NoProcess EXCEPT !.is = "starting"]

Begins(q) == {i \in DOMAIN q : q[i][1] = "BEGIN"}
Queued(q) == {q[i][2] : i \in Begins(q)}
Owed == IF finished_q = <<>> THEN current_keys ELSE current_keys \ {waiting}

(* A process is there while something is owed, and it knows or will know   *)
(* of every window; the end of one is the last command.                    *)
QueueInv ==
  /\ current_keys \subseteq WindowKeys /\ IsFiniteSet(current_keys)
  /\ waiting \in current_keys \union {NoKey}
  /\ command_q \in Seq({"BEGIN", "END"} \X WindowKeys)
  /\ \/ finished_q = <<>>
     \/ waiting # NoKey /\ \E a : finished_q = <<a>> /\ a.key = waiting
  /\ \A i \in DOMAIN command_q : command_q[i][1] = "END" =>
       i = Len(command_q) /\ command_q[i][2] = waiting /\ finished_q = <<>>
  /\ proc.is = "none" <=> Owed = {}
  /\ proc.is = "none" => command_q = <<>>
  /\ Alive =>
       /\ Owed = proc.keys \union Queued(command_q)
       /\ proc.keys \intersect Queued(command_q) = {}
       /\ \A i, j \in Begins(command_q) : command_q[i][2] = command_q[j][2] => i = j

(* An hour is measured in one piece for each window, and begins and ends   *)
(* with it; intensities are fetched before the history loses an hour.      *)
HourInv ==
  /\ proc.is = "polling" =>
       /\ proc.hour_floor <= HourOf(now) /\ HourOf(now) <= proc.hour_floor + 1
       /\ \A k \in proc.keys :
            /\ proc.begun[k] <= proc.since[k] /\ proc.since[k] <= now
            /\ \A t \in proc.since[k]..(now - 1) : HourOf(t) = proc.hour_floor
  /\ proc.is = "top" => \A k \in proc.keys : proc.begun[k] <= now
  /\ proc.is \in {"top", "polling"} /\ monitor = "carbon" =>
       /\ proc.last_index <= proc.index /\ proc.index - proc.last_index <= HistoryLength - 2

Rated(tick) == monitor = "carbon" \/ HourOf(tick) < UnratedFrom

(* The hour, and the time, up to which windows are measured. *)
MeasuredHour == IF proc.is = "polling" THEN proc.hour_floor ELSE HourOf(now)
MeasuredTo(k) == IF proc.is = "polling" THEN proc.since[k] ELSE now

AmountInv ==
  proc.is \in {"top", "polling"} /\ Rated(now) =>
    \A k \in WindowKeys :
      /\ k \notin proc.keys => DOMAIN proc.measured[k] = {} /\ DOMAIN proc.charged[k] = {}
      /\ \A h \in DOMAIN proc.measured[k] :
           /\ h < MeasuredHour
           /\ monitor = "carbon" => h >= MeasuredHour - (proc.index - proc.last_index)
      /\ k \in proc.keys =>
           \A h \in Hours :
             Amount(proc.charged[k], h) + Amount(proc.measured[k], h)
               = TicksOf(h, proc.begun[k], MeasuredTo(k))

AnswersInv ==
  \A i \in DOMAIN finished_q :
    LET a == finished_q[i] IN
    /\ a.ended \in Nat
    /\ Rated(a.ended) => \A h \in Hours : TicksOf(h, a.begun, a.ended) = Amount(a.charged, h)

HourlyInv == ProcInv /\ QueueInv /\ HourInv /\ AmountInv /\ AnswersInv

-----------------------------------------------------------------------------
(* Hours and ticks.                                                        *)


LEMMA HourFacts ==
  ASSUME NEW s \in Nat, NEW t \in Nat, s <= t
  PROVE  /\ HourOf(s) \in Nat /\ HourOf(t) \in Nat /\ HourOf(s) <= HourOf(t)
         /\ t = s + 1 => HourOf(t) <= HourOf(s) + 1
         /\ t \in 0..MaxTicks => HourOf(t) \in Hours
  <1> DEFINE R == TicksPerHour
  <1>0. R \in Nat \ {0} /\ MaxTicks \in Nat
    BY HourlyAssumption
  <1>1. ASSUME NEW x \in Nat, NEW y \in Nat, x <= y
        PROVE  x \div R <= y \div R
    <2> DEFINE p == x \div R
               q == y \div R
               m == x % R
               n == y % R
    <2>1. p \in Nat /\ q \in Nat /\ m \in 0..(R - 1) /\ n \in 0..(R - 1) /\ x = R * p + m /\ y = R * q + n
      BY <1>0, Quotient
    <2> HIDE DEF p, q, m, n
    <2>2. ASSUME q <= p - 1 PROVE FALSE
      <3>1. R * q <= R * (p - 1) /\ R * (p - 1) = R * p - R
        BY <1>0, <2>1, <2>2
      <3> QED BY <1>0, <1>1, <2>1, <3>1
    <2>3. p <= q
      BY <2>1, <2>2
    <2> QED BY <2>3 DEF p, q
  <1>2. (s + 1) \div R <= (s \div R) + 1
    <2> DEFINE p == s \div R
               q == (s + 1) \div R
               m == s % R
               n == (s + 1) % R
    <2>1. p \in Nat /\ q \in Nat /\ m \in 0..(R - 1) /\ n \in 0..(R - 1) /\ s = R * p + m /\ s + 1 = R * q + n
      <3>1. s + 1 \in Nat
        OBVIOUS
      <3> QED BY <1>0, <3>1, Quotient
    <2> HIDE DEF p, q, m, n
    <2>2. ASSUME q >= p + 2 PROVE FALSE
      <3>1. R * q >= R * (p + 2) /\ R * (p + 2) = R * p + 2 * R
        BY <1>0, <2>1, <2>2
      <3> QED BY <1>0, <2>1, <3>1
    <2>3. q <= p + 1
      BY <2>1, <2>2
    <2> QED BY <2>3 DEF p, q
  <1>3. s \div R \in Nat /\ t \div R \in Nat /\ MaxTicks \div R \in Nat
    BY <1>0, Quotient
  <1>4. s \div R <= t \div R
    BY <1>1
  <1>5. t <= MaxTicks => t \div R <= MaxTicks \div R
    BY <1>0, <1>1
  <1> HIDE DEF R
  <1>6. HourOf(s) = s \div R /\ HourOf(t) = t \div R /\ Hours = 0..(MaxTicks \div R)
    BY DEF HourOf, Hours, R
  <1>7. t = s + 1 => t \div R <= (s \div R) + 1
    BY <1>2
  <1>8. t \in 0..MaxTicks => t <= MaxTicks
    BY <1>0
  <1> QED BY <1>3, <1>4, <1>5, <1>6, <1>7, <1>8

LEMMA TicksSplit ==
  ASSUME NEW h, NEW a \in Nat, NEW b \in Nat, NEW c \in Nat, a <= b, b <= c
  PROVE  /\ TicksOf(h, a, c) = TicksOf(h, a, b) + TicksOf(h, b, c)
         /\ TicksOf(h, a, b) \in Nat /\ TicksOf(h, b, c) \in Nat
  <1> DEFINE A == {t \in a..(b - 1) : HourOf(t) = h}
             B == {t \in b..(c - 1) : HourOf(t) = h}
  <1>1. IsFiniteSet(a..(b - 1)) /\ IsFiniteSet(b..(c - 1))
    BY FS_Interval
  <1>2. IsFiniteSet(A) /\ IsFiniteSet(B)
    BY <1>1, FS_Subset
  <1>3. {t \in a..(c - 1) : HourOf(t) = h} = A \cup B
    OBVIOUS
  <1>4. A \cap B = {}
    OBVIOUS
  <1>5. Cardinality(A \cup B) = Cardinality(A) + Cardinality(B) - Cardinality(A \cap B)
    BY <1>2, FS_Union
  <1>6. Cardinality(A) \in Nat /\ Cardinality(B) \in Nat /\ Cardinality(A \cap B) = 0
    BY <1>2, <1>4, FS_CardinalityType, FS_EmptySet
  <1> QED BY <1>3, <1>5, <1>6 DEF TicksOf

LEMMA TicksOfOneHour ==
  ASSUME NEW h, NEW a \in Nat, NEW b \in Nat, a <= b, NEW g,
         \A t \in a..(b - 1) : HourOf(t) = g
  PROVE  (h = g => TicksOf(h, a, b) = b - a) /\ (h # g => TicksOf(h, a, b) = 0)
  <1>1. CASE h = g
    <2>1. {t \in a..(b - 1) : HourOf(t) = h} = a..(b - 1)
      BY <1>1
    <2>2. Cardinality(a..(b - 1)) = b - a
      <3>1. Cardinality(a..(b - 1)) = IF a > b - 1 THEN 0 ELSE (b - 1) - a + 1
        <4> HIDE <1>1
        <4> QED BY FS_Interval
      <3> QED BY <3>1
    <2> QED BY <1>1, <2>1, <2>2 DEF TicksOf
  <1>2. CASE h # g
    <2>1. {t \in a..(b - 1) : HourOf(t) = h} = {}
      BY <1>2
    <2> QED BY <1>2, <2>1, FS_EmptySet DEF TicksOf
  <1> QED BY <1>1, <1>2

LEMMA NoTicks ==
  ASSUME NEW h, NEW a \in Nat
  PROVE  TicksOf(h, a, a) = 0
  <1>1. {t \in a..(a - 1) : HourOf(t) = h} = {}
    OBVIOUS
  <1> QED BY <1>1, FS_EmptySet DEF TicksOf

-----------------------------------------------------------------------------
(* What is measured and charged.                                           *)

LEMMA EmptyMap ==
  /\ IsMap(<<>>) /\ DOMAIN <<>> = {}
  /\ \A h : Amount(<<>>, h) = 0
  <1>1. DOMAIN <<>> = {}
    OBVIOUS
  <1>2. <<>> \in [{} -> Nat]
    OBVIOUS
  <1> QED BY <1>1, <1>2 DEF IsMap, Amount

LEMMA AmountType ==
  ASSUME NEW map, IsMap(map), NEW h
  PROVE  Amount(map, h) \in Nat
  BY DEF IsMap, Amount

LEMMA PutFacts ==
  ASSUME NEW map, IsMap(map), NEW hour \in Nat, NEW value \in Nat
  PROVE  /\ IsMap(Put(map, hour, value))
         /\ DOMAIN Put(map, hour, value) = DOMAIN map \cup {hour}
         /\ \A h : h # hour => Amount(Put(map, hour, value), h) = Amount(map, h)
         /\ Amount(Put(map, hour, value), hour) = value
  <1> DEFINE new == Put(map, hour, value)
  <1>1. new = [h \in DOMAIN map \cup {hour} |-> IF h = hour THEN value ELSE map[h]]
    BY DEF Put
  <1> HIDE DEF new
  <1>2. IsMap(new)
    BY <1>1 DEF IsMap
  <1>3. ASSUME NEW h, h # hour PROVE Amount(new, h) = Amount(map, h)
    BY <1>1, <1>3 DEF Amount
  <1>4. Amount(new, hour) = value
    BY <1>1 DEF Amount
  <1> QED BY <1>1, <1>2, <1>3, <1>4 DEF new

(* Everything but the maps. *)
Same(p, q) ==
  /\ q.is = p.is /\ q.hour_floor = p.hour_floor /\ q.index = p.index
  /\ q.last_index = p.last_index /\ q.keys = p.keys /\ q.since = p.since /\ q.begun = p.begun

LEMMA MeasureFacts ==
  ASSUME NEW p, Shape(p), NEW windows \in SUBSET WindowKeys, now \in Nat,
         \A k \in windows : p.since[k] <= now
  PROVE  LET q == UpdateEnergyMeasurements(p, windows) IN
         /\ Shape(q) /\ Same(p, q) /\ q.charged = p.charged
         /\ \A k \in WindowKeys \ windows : q.measured[k] = p.measured[k]
         /\ \A k \in windows : q.measured[k] = Put(p.measured[k], p.hour_floor, now - p.since[k])
  <1> DEFINE q == UpdateEnergyMeasurements(p, windows)
             maps == [k \in WindowKeys |->
                        IF k \in windows THEN Put(p.measured[k], p.hour_floor, now - p.since[k])
                        ELSE p.measured[k]]
  <1>1. q = [p EXCEPT !.measured = maps]
    BY DEF UpdateEnergyMeasurements
  <1>2. ASSUME NEW k \in WindowKeys PROVE IsMap(maps[k])
    <2>1. CASE k \in windows
      <3>1. p.since[k] \in Nat /\ IsMap(p.measured[k]) /\ p.hour_floor \in Nat
        BY DEF Shape
      <3>2. now - p.since[k] \in Nat
        BY <2>1, <3>1
      <3>3. IsMap(Put(p.measured[k], p.hour_floor, now - p.since[k]))
        BY <3>1, <3>2, PutFacts
      <3> QED BY <2>1, <3>3
    <2>2. CASE k \notin windows
      BY <2>2 DEF Shape
    <2> QED BY <2>1, <2>2
  <1>3. DOMAIN maps = WindowKeys
    OBVIOUS
  <1>4. /\ \A k \in WindowKeys \ windows : maps[k] = p.measured[k]
        /\ \A k \in windows : maps[k] = Put(p.measured[k], p.hour_floor, now - p.since[k])
    OBVIOUS
  <1> HIDE DEF q, maps
  <1>5. q.measured = maps /\ q.charged = p.charged /\ Same(p, q) /\ DOMAIN q = DOMAIN p
    BY <1>1 DEF Shape, Same
  <1>6. Shape(q)
    BY <1>2, <1>3, <1>5 DEF Shape, Same
  <1> QED BY <1>4, <1>5, <1>6 DEF q

LEMMA ChargeFacts ==
  ASSUME NEW p, Shape(p), NEW windows \in SUBSET WindowKeys, NEW hours
  PROVE  LET q == Charge(p, windows, hours) IN
         /\ Shape(q) /\ Same(p, q) /\ q.measured = p.measured
         /\ \A k \in WindowKeys \ windows : q.charged[k] = p.charged[k]
         /\ \A k \in windows : DOMAIN p.measured[k] \subseteq hours =>
              \A h : Amount(q.charged[k], h) = Amount(p.charged[k], h) + Amount(p.measured[k], h)
  <1> DEFINE q == Charge(p, windows, hours)
             sum(k) == [h \in DOMAIN p.charged[k] \cup (DOMAIN p.measured[k] \cap hours) |->
                          Amount(p.charged[k], h)
                            + (IF h \in hours THEN Amount(p.measured[k], h) ELSE 0)]
             maps == [k \in WindowKeys |-> IF k \notin windows THEN p.charged[k] ELSE sum(k)]
  <1>1. q = [p EXCEPT !.charged = maps]
    BY DEF Charge
  <1>2. ASSUME NEW k \in WindowKeys
        PROVE  /\ IsMap(sum(k))
               /\ DOMAIN p.measured[k] \subseteq hours =>
                    \A h : Amount(sum(k), h) = Amount(p.charged[k], h) + Amount(p.measured[k], h)
    <2> DEFINE c == p.charged[k]
               m == p.measured[k]
               s == sum(k)
               Part(h) == IF h \in hours THEN Amount(m, h) ELSE 0
    <2>1. IsMap(c) /\ IsMap(m)
      BY DEF Shape
    <2>2. s = [h \in DOMAIN c \cup (DOMAIN m \cap hours) |-> Amount(c, h) + Part(h)]
      OBVIOUS
    <2>3. \A h : Amount(c, h) \in Nat /\ Amount(m, h) \in Nat /\ Part(h) \in Nat
      <3> HIDE DEF c, m
      <3> QED BY <2>1, AmountType
    <2>4. DOMAIN m \subseteq hours => \A h : h \in DOMAIN m => Part(h) = Amount(m, h)
      OBVIOUS
    <2>5. \A h : h \notin DOMAIN m => Amount(m, h) = 0
      BY DEF Amount
    <2>6. \A h : h \notin DOMAIN c => Amount(c, h) = 0
      BY DEF Amount
    <2>7. \A h : h \notin DOMAIN m => Part(h) = 0
      BY <2>5
    <2>8. \A h : Amount(s, h) = IF h \in DOMAIN s THEN s[h] ELSE 0
      BY DEF Amount
    <2> HIDE DEF c, m, s, Part
    <2>9. DOMAIN s = DOMAIN c \cup (DOMAIN m \cap hours)
          /\ \A h \in DOMAIN s : s[h] = Amount(c, h) + Part(h)
      BY <2>2
    <2>10. IsMap(s)
      <3>1. DOMAIN s \subseteq Nat
        BY <2>1, <2>9 DEF IsMap
      <3>2. s \in [DOMAIN s -> Nat]
        BY <2>2, <2>3, <2>9
      <3> QED BY <3>1, <3>2 DEF IsMap
    <2>11. ASSUME DOMAIN m \subseteq hours, NEW h PROVE Amount(s, h) = Amount(c, h) + Amount(m, h)
      <3>1. CASE h \in DOMAIN s
        <4>1. Part(h) = Amount(m, h)
          BY <2>4, <2>5, <2>7, <2>11
        <4> QED BY <2>8, <2>9, <3>1, <4>1
      <3>2. CASE h \notin DOMAIN s
        <4>1. h \notin DOMAIN c /\ h \notin DOMAIN m
          BY <2>9, <2>11, <3>2
        <4> QED BY <2>5, <2>6, <2>8, <3>2, <4>1
      <3> QED BY <3>1, <3>2
    <2> QED BY <2>10, <2>11 DEF c, m, s
  <1>3. /\ DOMAIN maps = WindowKeys
        /\ \A k \in WindowKeys \ windows : maps[k] = p.charged[k]
        /\ \A k \in windows : maps[k] = sum(k)
    OBVIOUS
  <1> HIDE DEF q, maps, sum
  <1>4. q.charged = maps /\ q.measured = p.measured /\ Same(p, q) /\ DOMAIN q = DOMAIN p
    BY <1>1 DEF Shape, Same
  <1>5. \A k \in WindowKeys : IsMap(maps[k])
    BY <1>2, <1>3 DEF Shape
  <1>6. Shape(q)
    BY <1>3, <1>4, <1>5 DEF Shape, Same
  <1>7. ASSUME NEW k \in windows, DOMAIN p.measured[k] \subseteq hours, NEW h
        PROVE  Amount(q.charged[k], h) = Amount(p.charged[k], h) + Amount(p.measured[k], h)
    BY <1>2, <1>3, <1>4, <1>7
  <1> QED BY <1>3, <1>4, <1>6, <1>7 DEF q

LEMMA ForgetFacts ==
  ASSUME NEW p, Shape(p), NEW windows \in SUBSET WindowKeys
  PROVE  LET q == Forget(p, windows) IN
         /\ Shape(q) /\ Same(p, q) /\ q.charged = p.charged
         /\ \A k \in WindowKeys \ windows : q.measured[k] = p.measured[k]
         /\ \A k \in windows : q.measured[k] = <<>>
  <1> DEFINE q == Forget(p, windows)
             maps == [k \in WindowKeys |-> IF k \in windows THEN <<>> ELSE p.measured[k]]
  <1>1. q = [p EXCEPT !.measured = maps]
    BY DEF Forget
  <1>2. /\ DOMAIN maps = WindowKeys
        /\ \A k \in WindowKeys \ windows : maps[k] = p.measured[k]
        /\ \A k \in windows : maps[k] = <<>>
    OBVIOUS
  <1> HIDE DEF q, maps
  <1>3. q.measured = maps /\ q.charged = p.charged /\ Same(p, q) /\ DOMAIN q = DOMAIN p
    BY <1>1 DEF Shape, Same
  <1>4. \A k \in WindowKeys : IsMap(maps[k])
    BY <1>2, EmptyMap DEF Shape
  <1>5. Shape(q)
    BY <1>2, <1>3, <1>4 DEF Shape, Same
  <1> QED BY <1>2, <1>3, <1>5 DEF q

(* The measurements of some windows are charged, and all of them forgotten. *)
Settled(p, q, windows) ==
  /\ Shape(q) /\ Same(p, q)
  /\ \A k \in WindowKeys \ windows :
       q.charged[k] = p.charged[k] /\ q.measured[k] = p.measured[k]
  /\ \A k \in windows :
       /\ q.measured[k] = <<>>
       /\ \A h : Amount(q.charged[k], h) = Amount(p.charged[k], h) + Amount(p.measured[k], h)

LEMMA SettleFacts ==
  ASSUME NEW p, Shape(p), NEW windows \in SUBSET WindowKeys, NEW hours,
         \A k \in windows : DOMAIN p.measured[k] \subseteq hours
  PROVE  Settled(p, Forget(Charge(p, windows, hours), windows), windows)
  <1> DEFINE c == Charge(p, windows, hours)
             q == Forget(c, windows)
  <1>1. /\ Shape(c) /\ Same(p, c) /\ c.measured = p.measured
        /\ \A k \in WindowKeys \ windows : c.charged[k] = p.charged[k]
        /\ \A k \in windows : DOMAIN p.measured[k] \subseteq hours =>
             \A h : Amount(c.charged[k], h) = Amount(p.charged[k], h) + Amount(p.measured[k], h)
    BY ChargeFacts
  <1> HIDE DEF c
  <1>2. /\ Shape(q) /\ Same(c, q) /\ q.charged = c.charged
        /\ \A k \in WindowKeys \ windows : q.measured[k] = c.measured[k]
        /\ \A k \in windows : q.measured[k] = <<>>
    BY <1>1, ForgetFacts
  <1> HIDE DEF q
  <1>3. Same(p, q)
    BY <1>1, <1>2 DEF Same
  <1>4. \A k \in windows : \A h :
          Amount(q.charged[k], h) = Amount(p.charged[k], h) + Amount(p.measured[k], h)
    BY <1>1, <1>2
  <1>5. Settled(p, q, windows)
    BY <1>1, <1>2, <1>3, <1>4 DEF Settled
  <1> QED BY <1>5 DEF q, c

LEMMA CarbonFacts ==
  ASSUME NEW p, Shape(p), NEW windows \in SUBSET WindowKeys,
         \A k \in windows : DOMAIN p.measured[k] \subseteq History
  PROVE  Settled(p, UpdateCarbonEmissions(p, windows), windows)
  <1>1. UpdateCarbonEmissions(p, windows) = Forget(Charge(p, windows, History), windows)
    BY DEF UpdateCarbonEmissions
  <1> QED BY <1>1, SettleFacts

LEMMA CostFacts ==
  ASSUME NEW p, Shape(p), NEW k \in WindowKeys
  PROVE  LET q == UpdateEnergyCosts(p, k) IN
         /\ Shape(q) /\ Same(p, q)
         /\ DOMAIN p.measured[k] \subseteq {h \in Hours : h < UnratedFrom} => Settled(p, q, {k})
  <1> DEFINE rated == {h \in Hours : h < UnratedFrom}
             c == Charge(p, {k}, rated)
             q == UpdateEnergyCosts(p, k)
  <1>1. q = IF DOMAIN p.measured[k] \subseteq rated THEN Forget(c, {k}) ELSE c
    BY DEF UpdateEnergyCosts
  <1>2. Shape(c) /\ Same(p, c)
    BY ChargeFacts
  <1>3. CASE DOMAIN p.measured[k] \subseteq rated
    <2>1. Settled(p, Forget(c, {k}), {k})
      <3> HIDE DEF rated
      <3> QED BY <1>3, SettleFacts
    <2> QED BY <1>1, <1>3, <2>1 DEF Settled
  <1>4. CASE ~(DOMAIN p.measured[k] \subseteq rated)
    BY <1>1, <1>2, <1>4
  <1> QED BY <1>3, <1>4

-----------------------------------------------------------------------------
(* The commands.                                                           *)

LEMMA AppendCommand ==
  ASSUME NEW q \in Seq({"BEGIN", "END"} \X WindowKeys), NEW o \in {"BEGIN", "END"},
         NEW k \in WindowKeys
  PROVE  LET r == Append(q, <<o, k>>) IN
         /\ r \in Seq({"BEGIN", "END"} \X WindowKeys)
         /\ Len(r) = Len(q) + 1 /\ DOMAIN r = 1..(Len(q) + 1) /\ DOMAIN q = 1..Len(q)
         /\ \A i \in DOMAIN q : r[i] = q[i]
         /\ r[Len(q) + 1] = <<o, k>>
         /\ o = "BEGIN" => Begins(r) = Begins(q) \cup {Len(q) + 1}
                             /\ Queued(r) = Queued(q) \cup {k}
         /\ o = "END" => Begins(r) = Begins(q) /\ Queued(r) = Queued(q)
  <1> DEFINE r == Append(q, <<o, k>>)
  <1>1. /\ r \in Seq({"BEGIN", "END"} \X WindowKeys)
        /\ Len(r) = Len(q) + 1 /\ DOMAIN r = 1..(Len(q) + 1) /\ DOMAIN q = 1..Len(q)
        /\ \A i \in DOMAIN q : r[i] = q[i]
        /\ r[Len(q) + 1] = <<o, k>> /\ Len(q) \in Nat
    OBVIOUS
  <1> HIDE DEF r
  <1>2. r[Len(q) + 1][1] = o /\ r[Len(q) + 1][2] = k
    BY <1>1
  <1>3. o = "BEGIN" => Begins(r) = Begins(q) \cup {Len(q) + 1}
    BY <1>1, <1>2 DEF Begins
  <1>4. o = "END" => Begins(r) = Begins(q)
    BY <1>1, <1>2 DEF Begins
  <1>5. \A i \in Begins(q) : r[i][2] = q[i][2]
    BY <1>1 DEF Begins
  <1>6. o = "BEGIN" => Queued(r) = Queued(q) \cup {k}
    BY SMTT(30), <1>2, <1>3, <1>5 DEF Queued
  <1>7. o = "END" => Queued(r) = Queued(q)
    BY <1>4, <1>5 DEF Queued
  <1> QED BY <1>1, <1>3, <1>4, <1>6, <1>7 DEF r

LEMMA TakeCommand ==
  ASSUME NEW q \in Seq({"BEGIN", "END"} \X WindowKeys), q # <<>>
  PROVE  /\ Tail(q) \in Seq({"BEGIN", "END"} \X WindowKeys)
         /\ Head(q) = q[1] /\ 1 \in DOMAIN q /\ Head(q)[2] \in WindowKeys
         /\ Len(Tail(q)) = Len(q) - 1 /\ DOMAIN Tail(q) = 1..(Len(q) - 1)
         /\ DOMAIN q = 1..Len(q) /\ Len(q) \in Nat \ {0}
         /\ \A i \in DOMAIN Tail(q) : Tail(q)[i] = q[i + 1]
         /\ Head(q)[1] = "BEGIN" => Queued(q) = Queued(Tail(q)) \cup {Head(q)[2]}
         /\ Len(q) = 1 => Tail(q) = <<>>
         /\ Len(q) = 1 /\ Head(q)[1] = "END" => Queued(q) = {}
  <1>1. /\ Tail(q) \in Seq({"BEGIN", "END"} \X WindowKeys)
        /\ Head(q) = q[1] /\ 1 \in DOMAIN q
        /\ Len(Tail(q)) = Len(q) - 1 /\ DOMAIN Tail(q) = 1..(Len(q) - 1)
        /\ DOMAIN q = 1..Len(q) /\ Len(q) \in Nat \ {0}
        /\ \A i \in DOMAIN Tail(q) : Tail(q)[i] = q[i + 1]
    OBVIOUS
  <1>2. q[1][2] \in WindowKeys
    <2>1. q[1] \in {"BEGIN", "END"} \X WindowKeys
      BY <1>1
    <2> QED BY <2>1
  <1>3. Head(q)[1] = "BEGIN" => Queued(q) = Queued(Tail(q)) \cup {Head(q)[2]}
    <2> SUFFICES ASSUME q[1][1] = "BEGIN" PROVE Queued(q) = Queued(Tail(q)) \cup {q[1][2]}
      BY <1>1
    <2> DEFINE r == Tail(q)
    <2> HIDE DEF r
    <2>1. DOMAIN r = 1..(Len(q) - 1) /\ \A i \in DOMAIN r : r[i] = q[i + 1]
      BY <1>1 DEF r
    <2>2. \A i \in Begins(r) : i + 1 \in Begins(q) /\ r[i] = q[i + 1]
      BY <1>1, <2>1 DEF Begins
    <2>3. \A i \in Begins(q) : i # 1 => i - 1 \in Begins(r) /\ r[i - 1] = q[i]
      BY <1>1, <2>1 DEF Begins
    <2>4. 1 \in Begins(q)
      BY <1>1 DEF Begins
    <2>5. Queued(r) \cup {q[1][2]} \subseteq Queued(q)
      BY <2>2, <2>4 DEF Queued
    <2>6. Queued(q) \subseteq Queued(r) \cup {q[1][2]}
      BY <2>3 DEF Queued
    <2> QED BY <2>5, <2>6 DEF r
  <1>4. Len(q) = 1 => Tail(q) = <<>>
    BY <1>1
  <1>5. Len(q) = 1 /\ Head(q)[1] = "END" => Queued(q) = {}
    BY <1>1 DEF Queued, Begins
  <1> QED BY <1>1, <1>2, <1>3, <1>4, <1>5

-----------------------------------------------------------------------------
(* The end of a window, which its process has begun.                       *)

LEMMA EndFacts ==
  ASSUME HourlyInv, proc.is = "polling", command_q # <<>>, Head(command_q)[1] = "END"
  PROVE  /\ Head(command_q)[2] = waiting /\ waiting \in WindowKeys /\ waiting \in proc.keys
         /\ finished_q = <<>> /\ Tail(command_q) = <<>> /\ Queued(command_q) = {}
         /\ current_keys = proc.keys
  <1>0. command_q \in Seq({"BEGIN", "END"} \X WindowKeys)
    BY DEF HourlyInv, QueueInv
  <1> DEFINE k == Head(command_q)[2]
  <1>1. /\ Head(command_q) = command_q[1] /\ 1 \in DOMAIN command_q /\ k \in WindowKeys
        /\ Len(command_q) = 1 => Tail(command_q) = <<>> /\ Queued(command_q) = {}
    BY <1>0, TakeCommand
  <1>2. 1 = Len(command_q) /\ k = waiting /\ finished_q = <<>>
    BY <1>1 DEF HourlyInv, QueueInv
  <1>3. waiting # NoKey /\ waiting \in current_keys
    BY <1>1, <1>2, HourlyAssumption DEF HourlyInv, QueueInv
  <1>4. Owed = proc.keys \cup Queued(command_q)
    BY DEF HourlyInv, QueueInv, Alive
  <1>5. Owed = current_keys
    BY <1>2 DEF Owed
  <1> QED BY <1>1, <1>2, <1>3, <1>4, <1>5

(* What is in the maps at the end of an hour or of a window, of which      *)
(* every hour is still known.                                              *)
LEMMA MeasuredFacts ==
  ASSUME HourlyInv, proc.is = "polling", Rated(now),
         NEW windows \in SUBSET proc.keys, NEW k \in windows
  PROVE  LET p == UpdateEnergyMeasurements(proc, windows) IN
         /\ \A h \in DOMAIN p.measured[k] :
              /\ h <= proc.hour_floor
              /\ monitor = "carbon" => h >= proc.hour_floor - (proc.index - proc.last_index)
         /\ \A h \in Hours :
              Amount(p.charged[k], h) + Amount(p.measured[k], h) = TicksOf(h, p.begun[k], now)
  <1> DEFINE p == UpdateEnergyMeasurements(proc, windows)
             m == proc.measured[k]
             f == proc.hour_floor
             s == proc.since[k]
             b == proc.begun[k]
  <1>1. Shape(proc) /\ now \in Nat /\ k \in WindowKeys /\ windows \in SUBSET WindowKeys
    <2>1. MaxTicks \in Nat /\ now \in 0..MaxTicks /\ Shape(proc)
      BY HourlyAssumption DEF HourlyInv, ProcInv
    <2> QED BY <2>1 DEF Shape
  <1>2. /\ b <= s /\ s <= now /\ \A t \in s..(now - 1) : HourOf(t) = f
        /\ \A j \in windows : proc.since[j] <= now
    BY DEF HourlyInv, HourInv
  <1>3. s \in Nat /\ b \in Nat /\ f \in Nat /\ IsMap(m) /\ IsMap(proc.charged[k])
        /\ proc.index \in Nat /\ proc.last_index \in Nat
    BY <1>1 DEF Shape
  <1>4. Same(proc, p) /\ p.charged = proc.charged /\ p.measured[k] = Put(m, f, now - s)
    BY <1>1, <1>2, MeasureFacts
  <1>5. /\ \A h \in DOMAIN m :
             h < f /\ (monitor = "carbon" => h >= f - (proc.index - proc.last_index))
        /\ \A h \in Hours :
             Amount(proc.charged[k], h) + Amount(m, h) = TicksOf(h, b, s)
    BY <1>1 DEF HourlyInv, AmountInv, MeasuredHour, MeasuredTo
  <1>6. monitor = "carbon" => proc.last_index <= proc.index
    BY DEF HourlyInv, HourInv
  <1> HIDE DEF p, m, f, s, b
  <1>7. now - s \in Nat
    BY <1>1, <1>2, <1>3
  <1>8. /\ DOMAIN Put(m, f, now - s) = DOMAIN m \cup {f}
        /\ \A h : h # f => Amount(Put(m, f, now - s), h) = Amount(m, h)
        /\ Amount(Put(m, f, now - s), f) = now - s
    <2> DEFINE v == now - s
    <2>1. v \in Nat
      BY <1>7
    <2> HIDE DEF v
    <2>2. /\ DOMAIN Put(m, f, v) = DOMAIN m \cup {f}
          /\ \A h : h # f => Amount(Put(m, f, v), h) = Amount(m, h)
          /\ Amount(Put(m, f, v), f) = v
      <3>1. IsMap(m)
        BY <1>3
      <3>2. f \in Nat
        BY <1>3
      <3> HIDE DEF m, f
      <3>3. DOMAIN Put(m, f, v) = DOMAIN m \cup {f}
        BY ONLY <3>1, <3>2, <2>1, PutFacts
      <3>4. \A h : h # f => Amount(Put(m, f, v), h) = Amount(m, h)
        BY ONLY ZenonT(30), <3>1, <3>2, <2>1, PutFacts
      <3>5. Amount(Put(m, f, v), f) = v
        BY ONLY ZenonT(30), <3>1, <3>2, <2>1, PutFacts
      <3> QED BY <3>3, <3>4, <3>5
    <2> QED BY <2>2 DEF v
  <1>9. \A h \in DOMAIN p.measured[k] :
          /\ h <= f
          /\ monitor = "carbon" => h >= f - (proc.index - proc.last_index)
    <2>1. monitor = "carbon" => f >= f - (proc.index - proc.last_index)
      BY <1>3, <1>6
    <2>2. \A h \in DOMAIN m : h <= f
      BY <1>3, <1>5 DEF IsMap
    <2>3. f <= f
      BY <1>3
    <2> QED BY <1>4, <1>5, <1>8, <2>1, <2>2, <2>3
  <1>10. ASSUME NEW h \in Hours
         PROVE  Amount(p.charged[k], h) + Amount(p.measured[k], h) = TicksOf(h, p.begun[k], now)
    <2>1. TicksOf(h, b, now) = TicksOf(h, b, s) + TicksOf(h, s, now)
          /\ TicksOf(h, b, s) \in Nat
      BY <1>1, <1>2, <1>3, TicksSplit
    <2>2. (h = f => TicksOf(h, s, now) = now - s) /\ (h # f => TicksOf(h, s, now) = 0)
      BY <1>1, <1>2, <1>3, TicksOfOneHour
    <2>3. p.begun[k] = b /\ p.charged[k] = proc.charged[k]
      BY <1>4 DEF Same, b
    <2>4. Amount(proc.charged[k], h) + Amount(m, h) = TicksOf(h, b, s)
      BY <1>5
    <2>5. Amount(proc.charged[k], h) \in Nat /\ Amount(m, h) \in Nat
      BY <1>3, AmountType
    <2>6. CASE h = f
      <3>1. Amount(m, h) = 0
        BY <1>3, <1>5, <2>6 DEF Amount
      <3> QED BY <1>4, <1>7, <1>8, <2>1, <2>2, <2>3, <2>4, <2>5, <2>6, <3>1
    <2>7. CASE h # f
      BY <1>4, <1>7, <1>8, <2>1, <2>2, <2>3, <2>4, <2>5, <2>7
    <2> QED BY <2>6, <2>7
  <1> QED BY <1>9, <1>10 DEF p, f

(* The hour that ends, or has not ended, and those before it that are not  *)
(* charged are in the history.                                             *)
LEMMA HistoryFacts ==
  ASSUME now \in 0..MaxTicks, NEW f \in Nat, NEW d \in Nat, NEW S \in SUBSET Nat,
         f <= HourOf(now), HourOf(now) - f + d < HistoryLength,
         \A h \in S : h <= f /\ h >= f - d
  PROVE  S \subseteq History
  <1>1. now \in Nat /\ MaxTicks \in Nat /\ HistoryLength \in Nat
    BY HourlyAssumption
  <1>2. HourOf(now) \in Nat /\ HourOf(now) \in Hours
    BY <1>1, HourFacts
  <1>3. MaxTicks \div TicksPerHour \in Nat
    BY HourlyAssumption, Quotient
  <1>4. \A h \in Nat : h <= HourOf(now) => h \in Hours
    BY <1>2, <1>3 DEF Hours
  <1> QED BY <1>1, <1>2, <1>4 DEF History

LEMMA UpdateFacts ==
  ASSUME HourlyInv, proc.is = "polling", ~HourIsOver, NEW k \in proc.keys
  PROVE  LET q == Update(proc, k) IN
         /\ Shape(q) /\ Same(proc, q)
         /\ Rated(now) =>
              /\ \A j \in WindowKeys \ {k} :
                   q.charged[j] = proc.charged[j] /\ q.measured[j] = proc.measured[j]
              /\ q.measured[k] = <<>>
              /\ \A h \in Hours : Amount(q.charged[k], h) = TicksOf(h, proc.begun[k], now)
  <1> DEFINE p == UpdateEnergyMeasurements(proc, {k})
             q == Update(proc, k)
             f == proc.hour_floor
  <1>0. /\ now \in 0..MaxTicks /\ now \in Nat /\ Shape(proc) /\ k \in WindowKeys
        /\ monitor \in {"carbon", "price"} /\ HistoryLength \in Nat /\ f \in Nat
        /\ HourOf(now) \in Nat /\ HourOf(now) \in Hours
    <2>1. /\ MaxTicks \in Nat /\ now \in 0..MaxTicks /\ Shape(proc)
          /\ monitor \in {"carbon", "price"} /\ HistoryLength \in Nat
      BY HourlyAssumption DEF HourlyInv, ProcInv
    <2>2. now \in Nat
      BY <2>1
    <2>3. HourOf(now) \in Nat /\ HourOf(now) \in Hours
      BY <2>1, <2>2, HourFacts
    <2> QED BY <2>1, <2>2, <2>3 DEF Shape
  <1>1. /\ proc.since[k] <= now /\ f <= HourOf(now)
        /\ monitor = "carbon" => /\ proc.last_index <= proc.index
                                 /\ proc.index - proc.last_index <= HistoryLength - 2
    BY DEF HourlyInv, HourInv
  <1>2. f = HourOf(now)
    BY <1>0, <1>1 DEF HourIsOver
  <1>3. /\ Shape(p) /\ Same(proc, p) /\ p.charged = proc.charged
        /\ \A j \in WindowKeys \ {k} : p.measured[j] = proc.measured[j]
    BY <1>0, <1>1, MeasureFacts
  <1>4. Rated(now) =>
          /\ \A h \in DOMAIN p.measured[k] :
               /\ h <= f
               /\ monitor = "carbon" => h >= f - (proc.index - proc.last_index)
          /\ \A h \in Hours :
               Amount(p.charged[k], h) + Amount(p.measured[k], h) = TicksOf(h, p.begun[k], now)
    <2>1. {k} \in SUBSET proc.keys /\ k \in {k}
      OBVIOUS
    <2> QED BY <2>1, MeasuredFacts
  <1>5. DOMAIN p.measured[k] \in SUBSET Nat
    BY <1>0, <1>3 DEF Shape, IsMap
  <1>6. q = IF monitor = "carbon" THEN UpdateCarbonEmissions(p, {k}) ELSE UpdateEnergyCosts(p, k)
    BY DEF Update
  <1>7. proc.index \in Nat /\ proc.last_index \in Nat
    BY <1>0 DEF Shape
  <1> HIDE DEF p, q
  <1>8. monitor = "carbon" => Settled(p, q, {k})
    <2> SUFFICES ASSUME monitor = "carbon" PROVE Settled(p, q, {k})
      OBVIOUS
    <2>1. Rated(now)
      BY DEF Rated
    <2> DEFINE d == proc.index - proc.last_index
    <2>2. d \in Nat /\ HourOf(now) - f + d < HistoryLength
      BY <1>0, <1>1, <1>2, <1>7
    <2>3. \A h \in DOMAIN p.measured[k] : h <= f /\ h >= f - d
      BY <1>4, <2>1
    <2> HIDE DEF d, f
    <2>4. DOMAIN p.measured[k] \subseteq History
      BY <1>0, <1>1, <1>5, <2>2, <2>3, HistoryFacts
    <2>5. {k} \in SUBSET WindowKeys
      BY <1>0
    <2>6. Settled(p, UpdateCarbonEmissions(p, {k}), {k})
      BY <1>3, <2>4, <2>5, CarbonFacts
    <2> QED BY <1>6, <2>6
  <1>9. monitor = "price" =>
          /\ Shape(q) /\ Same(p, q)
          /\ Rated(now) => Settled(p, q, {k})
    <2> SUFFICES ASSUME monitor = "price"
                 PROVE  Shape(q) /\ Same(p, q) /\ (Rated(now) => Settled(p, q, {k}))
      OBVIOUS
    <2>1. q = UpdateEnergyCosts(p, k)
      BY <1>6
    <2>2. /\ Shape(q) /\ Same(p, q)
          /\ DOMAIN p.measured[k] \subseteq {h \in Hours : h < UnratedFrom} => Settled(p, q, {k})
      BY <1>0, <1>3, <2>1, CostFacts
    <2>3. ASSUME Rated(now), NEW h \in DOMAIN p.measured[k]
          PROVE  h \in Hours /\ h < UnratedFrom
      <3>1. HourOf(now) < UnratedFrom /\ UnratedFrom \in Nat
        BY <2>3, HourlyAssumption DEF Rated
      <3>2. h \in Nat /\ h <= HourOf(now)
        BY <1>2, <1>4, <1>5, <2>3
      <3>3. MaxTicks \div TicksPerHour \in Nat
        BY HourlyAssumption, Quotient
      <3>4. h \in Hours
        BY <1>0, <3>2, <3>3 DEF Hours
      <3> QED BY <1>0, <3>1, <3>2, <3>4
    <2> QED BY <2>2, <2>3
  <1>10. Shape(q) /\ Same(p, q) /\ (Rated(now) => Settled(p, q, {k}))
    BY <1>0, <1>8, <1>9 DEF Settled
  <1>11. Same(proc, q)
    BY <1>3, <1>10 DEF Same
  <1>12. ASSUME Rated(now)
         PROVE  /\ \A j \in WindowKeys \ {k} :
                     q.charged[j] = proc.charged[j] /\ q.measured[j] = proc.measured[j]
                /\ q.measured[k] = <<>>
                /\ \A h \in Hours : Amount(q.charged[k], h) = TicksOf(h, proc.begun[k], now)
    <2>1. Settled(p, q, {k})
      BY <1>10, <1>12
    <2>2. \A j \in WindowKeys \ {k} :
            q.charged[j] = proc.charged[j] /\ q.measured[j] = proc.measured[j]
      BY <1>3, <2>1 DEF Settled
    <2>3. ASSUME NEW h \in Hours PROVE Amount(q.charged[k], h) = TicksOf(h, proc.begun[k], now)
      <3>1. Amount(q.charged[k], h) = Amount(p.charged[k], h) + Amount(p.measured[k], h)
        BY <2>1 DEF Settled
      <3>2. p.begun[k] = proc.begun[k]
        BY <1>3 DEF Same
      <3> QED BY <1>4, <1>12, <3>1, <3>2
    <2>4. q.measured[k] = <<>>
      BY <2>1 DEF Settled
    <2> QED BY <2>2, <2>3, <2>4
  <1> QED BY <1>10, <1>11, <1>12 DEF q

-----------------------------------------------------------------------------
(* The steps of the training process.                                      *)

LEMMA NoProcessFacts ==
  LET started == [NoProcess EXCEPT !.is = "starting"] IN
  /\ Shape(NoProcess) /\ NoProcess.is = "none" /\ NoProcess.keys = {}
  /\ Shape(started) /\ started.is = "starting" /\ started.keys = {}
  <1> DEFINE started == [NoProcess EXCEPT !.is = "starting"]
  <1>1. Shape(NoProcess) /\ NoProcess.is = "none" /\ NoProcess.keys = {}
    BY EmptyMap DEF NoProcess, Shape
  <1>2. /\ DOMAIN started = DOMAIN NoProcess /\ started.is = "starting"
        /\ started.measured = NoProcess.measured /\ started.charged = NoProcess.charged
    BY DEF NoProcess
  <1>3. /\ started.keys = {} /\ started.hour_floor = NoProcess.hour_floor
        /\ started.index = NoProcess.index /\ started.last_index = NoProcess.last_index
        /\ started.since = NoProcess.since /\ started.begun = NoProcess.begun
    BY DEF NoProcess
  <1>4. Shape(started)
    BY <1>1, <1>2, <1>3 DEF Shape
  <1> QED BY <1>1, <1>2, <1>3, <1>4

LEMMA InitHourly == HourlyInit => HourlyInv
  <1> SUFFICES ASSUME HourlyInit PROVE HourlyInv
    OBVIOUS
  <1>1. ProcInv
    BY HourlyAssumption, NoProcessFacts DEF HourlyInit, ProcInv
  <1>2. proc.is = "none"
    BY NoProcessFacts DEF HourlyInit
  <1>3. QueueInv
    <2>1. IsFiniteSet({})
      BY FS_EmptySet
    <2>2. command_q \in Seq({"BEGIN", "END"} \X WindowKeys) /\ DOMAIN command_q = {}
      BY DEF HourlyInit
    <2> QED BY <1>2, <2>1, <2>2 DEF HourlyInit, QueueInv, Owed, Alive
  <1>4. HourInv /\ AmountInv
    BY <1>2 DEF HourInv, AmountInv
  <1>5. AnswersInv
    BY DEF HourlyInit, AnswersInv
  <1> QED BY <1>1, <1>3, <1>4, <1>5 DEF HourlyInv

LEMMA BeginStep ==
  ASSUME HourlyInv, NEW k \in WindowKeys, BeginHourlyWindow(k)
  PROVE  HourlyInv'
  <1> USE DEF HourlyInv
  <1>0. /\ waiting = NoKey /\ k \notin current_keys /\ current_keys' = current_keys \cup {k}
        /\ command_q' = Append(command_q, <<"BEGIN", k>>)
        /\ UNCHANGED <<monitor, hardware, now, errors, waiting, finished_q>>
    BY DEF BeginHourlyWindow, world
  <1>1. finished_q = <<>> /\ Owed = current_keys /\ Owed' = current_keys'
    BY <1>0 DEF QueueInv, Owed
  <1>2. IsFiniteSet(current_keys) /\ IsFiniteSet(current_keys')
        /\ Cardinality(current_keys) \in Nat /\ Cardinality(current_keys') = Cardinality(current_keys) + 1
    <2>1. IsFiniteSet(current_keys)
      BY DEF QueueInv
    <2> QED BY <1>0, <2>1, FS_AddElement, FS_CardinalityType
  <1>3. /\ command_q \in Seq({"BEGIN", "END"} \X WindowKeys)
        /\ command_q' \in Seq({"BEGIN", "END"} \X WindowKeys)
        /\ Len(command_q') = Len(command_q) + 1
        /\ DOMAIN command_q' = 1..(Len(command_q) + 1) /\ DOMAIN command_q = 1..Len(command_q)
        /\ \A i \in DOMAIN command_q : command_q'[i] = command_q[i]
        /\ command_q'[Len(command_q) + 1] = <<"BEGIN", k>>
        /\ Begins(command_q') = Begins(command_q) \cup {Len(command_q) + 1}
        /\ Queued(command_q') = Queued(command_q) \cup {k}
    <2>1. command_q \in Seq({"BEGIN", "END"} \X WindowKeys)
      BY DEF QueueInv
    <2> QED BY <1>0, <2>1, AppendCommand
  <1>4. \A i \in DOMAIN command_q : command_q[i][1] # "END"
    <2>1. ASSUME NEW i \in DOMAIN command_q, command_q[i][1] = "END" PROVE FALSE
      <3>1. command_q[i][2] = waiting
        BY <2>1 DEF QueueInv
      <3>2. command_q[i][2] \in WindowKeys
        BY <1>3
      <3> QED BY <1>0, <3>1, <3>2, HourlyAssumption
    <2> QED BY <2>1
  <1>5. \A i \in DOMAIN command_q' : command_q'[i][1] # "END"
    <2>1. command_q'[Len(command_q) + 1][1] = "BEGIN"
      BY <1>3
    <2>2. Len(command_q) \in Nat
      BY <1>3
    <2> QED BY <1>3, <1>4, <2>1, <2>2
  <1>6. Owed' # {} /\ current_keys' \subseteq WindowKeys /\ waiting' \in current_keys' \cup {NoKey}
    BY <1>0, <1>1 DEF QueueInv
  <1>7. AnswersInv'
    BY <1>0, <1>1 DEF AnswersInv
  <1>8. CASE current_keys = {}
    <2>1. proc.is = "none" /\ command_q = <<>>
      BY <1>1, <1>8 DEF QueueInv
    <2>2. proc' = [NoProcess EXCEPT !.is = "starting"]
      BY <1>2, <1>8, FS_EmptySet DEF BeginHourlyWindow
    <2>3. Shape(proc') /\ proc'.is = "starting" /\ proc'.keys = {}
      BY <2>2, NoProcessFacts
    <2>4. ProcInv'
      BY <1>0, <2>2, <2>3 DEF ProcInv
    <2>5. HourInv' /\ AmountInv'
      BY <2>3 DEF HourInv, AmountInv
    <2>6. Begins(command_q') = {1} /\ Queued(command_q') = {k}
      <3>1. Begins(command_q) = {} /\ Len(command_q) = 0
        BY <2>1 DEF Begins
      <3>2. Queued(command_q) = {}
        BY <3>1 DEF Queued
      <3> QED BY <1>3, <3>1, <3>2
    <2>7. QueueInv'
      BY <1>0, <1>1, <1>2, <1>3, <1>5, <1>6, <1>8, <2>3, <2>6 DEF QueueInv
    <2> QED BY <1>7, <2>4, <2>5, <2>7
  <1>9. CASE current_keys # {}
    <2>1. proc.is # "none"
      BY <1>1, <1>9 DEF QueueInv
    <2>2. Cardinality(current_keys) # 0
      BY <1>2, <1>9, FS_EmptySet
    <2>3. proc' = proc
      BY <1>2, <2>2 DEF BeginHourlyWindow
    <2>4. ProcInv'
      BY <1>0, <2>3 DEF ProcInv
    <2>5. HourInv' /\ AmountInv'
      BY <1>0, <2>3 DEF HourInv, AmountInv, Rated, MeasuredHour, MeasuredTo
    <2>6. Alive' =>
            /\ Owed' = proc'.keys \cup Queued(command_q') /\ proc'.keys \cap Queued(command_q') = {}
            /\ \A i, j \in Begins(command_q') : command_q'[i][2] = command_q'[j][2] => i = j
      <3> SUFFICES ASSUME Alive
                   PROVE  /\ Owed' = proc'.keys \cup Queued(command_q')
                          /\ proc'.keys \cap Queued(command_q') = {}
                          /\ \A i, j \in Begins(command_q') :
                               command_q'[i][2] = command_q'[j][2] => i = j
        BY <2>3 DEF Alive
      <3>1. /\ Owed = proc.keys \cup Queued(command_q) /\ proc.keys \cap Queued(command_q) = {}
            /\ \A i, j \in Begins(command_q) : command_q[i][2] = command_q[j][2] => i = j
        BY DEF QueueInv
      <3>2. \A i \in Begins(command_q) : command_q'[i] = command_q[i] /\ command_q[i][2] \in Queued(command_q)
        BY <1>3 DEF Begins, Queued
      <3>3. k \notin Queued(command_q) /\ k \notin proc.keys
        BY <1>0, <1>1, <3>1
      <3>4. command_q'[Len(command_q) + 1][2] = k
        BY <1>3
      <3>5. \A i, j \in Begins(command_q') : command_q'[i][2] = command_q'[j][2] => i = j
        BY <1>3, <3>1, <3>2, <3>3, <3>4
      <3> QED BY <1>0, <1>1, <1>3, <2>3, <3>1, <3>3, <3>5
    <2>7. QueueInv'
      BY <1>0, <1>1, <1>2, <1>3, <1>5, <1>6, <2>1, <2>3, <2>6 DEF QueueInv
    <2> QED BY <1>7, <2>4, <2>5, <2>7
  <1> QED BY <1>8, <1>9

LEMMA EndStep ==
  ASSUME HourlyInv, NEW k \in WindowKeys, EndHourlyWindow(k)
  PROVE  HourlyInv'
  <1> USE DEF HourlyInv
  <1>0. /\ waiting = NoKey /\ k \in current_keys /\ waiting' = k
        /\ command_q' = Append(command_q, <<"END", k>>)
        /\ UNCHANGED <<monitor, hardware, now, errors, current_keys, finished_q, proc>>
    BY DEF EndHourlyWindow, world
  <1>1. finished_q = <<>> /\ Owed = current_keys /\ Owed' = current_keys
    BY <1>0 DEF QueueInv, Owed
  <1>2. /\ command_q \in Seq({"BEGIN", "END"} \X WindowKeys)
        /\ command_q' \in Seq({"BEGIN", "END"} \X WindowKeys)
        /\ Len(command_q') = Len(command_q) + 1 /\ Len(command_q) \in Nat
        /\ DOMAIN command_q' = 1..(Len(command_q) + 1) /\ DOMAIN command_q = 1..Len(command_q)
        /\ \A i \in DOMAIN command_q : command_q'[i] = command_q[i]
        /\ command_q'[Len(command_q) + 1] = <<"END", k>>
        /\ Begins(command_q') = Begins(command_q)
        /\ Queued(command_q') = Queued(command_q)
    <2>1. command_q \in Seq({"BEGIN", "END"} \X WindowKeys)
      BY DEF QueueInv
    <2> QED BY <1>0, <2>1, AppendCommand
  <1>3. \A i \in DOMAIN command_q : command_q[i][1] # "END"
    <2>1. ASSUME NEW i \in DOMAIN command_q, command_q[i][1] = "END" PROVE FALSE
      <3>1. command_q[i][2] = waiting
        BY <2>1 DEF QueueInv
      <3>2. command_q[i][2] \in WindowKeys
        BY <1>2
      <3> QED BY <1>0, <3>1, <3>2, HourlyAssumption
    <2> QED BY <2>1
  <1>4. \A i \in DOMAIN command_q' : command_q'[i][1] = "END" =>
          i = Len(command_q') /\ command_q'[i][2] = waiting' /\ finished_q' = <<>>
    <2>1. command_q'[Len(command_q) + 1][2] = k
      BY <1>2
    <2> QED BY <1>0, <1>1, <1>2, <1>3, <2>1
  <1>5. ProcInv' /\ HourInv' /\ AmountInv' /\ AnswersInv'
    BY <1>0 DEF ProcInv, HourInv, AmountInv, Rated, MeasuredHour, MeasuredTo, AnswersInv
  <1>6. proc.is # "none"
    BY <1>0, <1>1 DEF QueueInv
  <1>7. Alive' =>
          /\ Owed' = proc'.keys \cup Queued(command_q') /\ proc'.keys \cap Queued(command_q') = {}
          /\ \A i, j \in Begins(command_q') : command_q'[i][2] = command_q'[j][2] => i = j
    <2>1. \A i \in Begins(command_q) : command_q'[i] = command_q[i]
      BY <1>2 DEF Begins
    <2> QED BY <1>0, <1>1, <1>2, <2>1 DEF QueueInv, Alive
  <1>8. QueueInv'
    BY <1>0, <1>1, <1>2, <1>4, <1>6, <1>7 DEF QueueInv
  <1> QED BY <1>5, <1>8

LEMMA FinishedStep ==
  ASSUME HourlyInv, GetFinished
  PROVE  HourlyInv'
  <1> USE DEF HourlyInv
  <1>0. /\ waiting # NoKey /\ finished_q # <<>> /\ finished_q' = Tail(finished_q)
        /\ current_keys' = current_keys \ {waiting} /\ waiting' = NoKey
        /\ UNCHANGED <<monitor, hardware, now, errors, command_q, proc>>
    BY DEF GetFinished, world
  <1>1. finished_q' = <<>>
    <2>1. PICK a : finished_q = <<a>>
      BY <1>0 DEF QueueInv
    <2> QED BY <1>0, <2>1
  <1>2. Owed = current_keys \ {waiting} /\ Owed' = Owed
    BY <1>0, <1>1 DEF Owed
  <1>3. \A i \in DOMAIN command_q : command_q[i][1] # "END"
    BY <1>0 DEF QueueInv
  <1>4. ProcInv' /\ HourInv' /\ AmountInv'
    BY <1>0 DEF ProcInv, HourInv, AmountInv, Rated, MeasuredHour, MeasuredTo
  <1>5. AnswersInv'
    BY <1>1 DEF AnswersInv
  <1>6. IsFiniteSet(current_keys')
    <2>1. IsFiniteSet(current_keys) /\ current_keys' \in SUBSET current_keys
      BY <1>0 DEF QueueInv
    <2> QED BY <2>1, FS_Subset
  <1>7. QueueInv'
    BY <1>0, <1>1, <1>2, <1>3, <1>6 DEF QueueInv, Alive
  <1> QED BY <1>4, <1>5, <1>7

-----------------------------------------------------------------------------
(* The steps of the polling process.                                       *)

(* A process that has ended promises nothing. *)
LEMMA DeadStep ==
  ASSUME HourlyInv, proc.is # "none", Shape(proc'), proc'.is \in {"failed", "cannot pop"},
         UNCHANGED <<world, current_keys, waiting, finished_q>>,
         command_q' = command_q \/ command_q' = <<>>
  PROVE  HourlyInv'
  <1> USE DEF HourlyInv
  <1>1. ProcInv'
    BY DEF ProcInv, world
  <1>2. HourInv' /\ AmountInv'
    BY DEF HourInv, AmountInv
  <1>3. AnswersInv'
    BY DEF AnswersInv, Rated, world
  <1>4. command_q' \in Seq({"BEGIN", "END"} \X WindowKeys)
        /\ \A i \in DOMAIN command_q' : i \in DOMAIN command_q /\ command_q' = command_q
    <2>1. <<>> \in Seq({"BEGIN", "END"} \X WindowKeys)
      BY EmptySeq
    <2>2. CASE command_q' = command_q
      BY <2>2 DEF QueueInv
    <2>3. CASE command_q' = <<>>
      <3>1. DOMAIN <<>> = {}
        BY ONLY EmptyMap
      <3> QED BY <2>1, <2>3, <3>1
    <2> QED BY <2>2, <2>3
  <1>5. Owed' = Owed
    BY DEF Owed
  <1>6. QueueInv'
    <2>1. ~Alive' /\ proc'.is # "none" /\ Owed' # {}
      BY <1>5 DEF Alive, QueueInv
    <2> QED BY <1>4, <2>1 DEF QueueInv
  <1> QED BY <1>1, <1>2, <1>3, <1>6

LEMMA FailStep ==
  ASSUME HourlyInv, Alive, RequestFails
  PROVE  HourlyInv'
  <1>1. Shape(proc) /\ proc.is # "none"
    BY DEF HourlyInv, ProcInv, Alive
  <1>2. proc' = [proc EXCEPT !.is = "failed"]
    BY DEF RequestFails
  <1>3. Shape(proc') /\ proc'.is = "failed"
    BY <1>1, <1>2 DEF Shape
  <1> QED BY <1>1, <1>3, DeadStep DEF RequestFails

LEMMA StartStep ==
  ASSUME HourlyInv, ProcessStarts
  PROVE  HourlyInv'
  <1>1. CASE RequestFails
    BY <1>1, FailStep DEF ProcessStarts, Alive
  <1>2. CASE ~RequestFails
    <2> USE DEF HourlyInv
    <2>0. /\ proc.is = "starting" /\ proc' = [proc EXCEPT !.is = "top"]
          /\ UNCHANGED <<monitor, hardware, now, errors, current_keys, waiting, command_q, finished_q>>
      BY <1>2 DEF ProcessStarts, world
    <2>1. /\ proc = [NoProcess EXCEPT !.is = "starting"] /\ Shape(proc)
      BY <2>0 DEF ProcInv
    <2>2. /\ Shape(proc') /\ proc'.is = "top" /\ proc'.keys = proc.keys
          /\ proc'.measured = proc.measured /\ proc'.charged = proc.charged
          /\ proc'.index = proc.index /\ proc'.last_index = proc.last_index
      BY <2>0, <2>1 DEF Shape
    <2>3. /\ proc.keys = {} /\ proc.index = 0 /\ proc.last_index = 0
          /\ \A k \in WindowKeys : proc.measured[k] = <<>> /\ proc.charged[k] = <<>>
      BY <2>1 DEF NoProcess
    <2>4. ProcInv'
      BY <2>0, <2>2 DEF ProcInv
    <2>5. HourInv'
      BY <2>0, <2>2, <2>3, HourlyAssumption DEF HourInv
    <2>6. AmountInv'
      <3>1. \A k \in WindowKeys : DOMAIN proc'.measured[k] = {} /\ DOMAIN proc'.charged[k] = {}
        BY <2>2, <2>3
      <3> QED BY <2>2, <2>3, <3>1 DEF AmountInv
    <2>7. AnswersInv'
      BY <2>0 DEF AnswersInv, Rated
    <2>8. QueueInv'
      BY <2>0, <2>2 DEF QueueInv, Owed, Alive
    <2> QED BY <2>4, <2>5, <2>6, <2>7, <2>8
  <1> QED BY <1>1, <1>2

LEMMA TopStep ==
  ASSUME HourlyInv, TopOfLoop
  PROVE  HourlyInv'
  <1> USE DEF HourlyInv
  <1> DEFINE since == [k \in WindowKeys |-> IF k \in proc.keys THEN now ELSE proc.since[k]]
  <1>0. /\ proc.is = "top"
        /\ proc' = [proc EXCEPT !.is = "polling", !.hour_floor = HourOf(now), !.since = since]
        /\ UNCHANGED <<monitor, hardware, now, errors, current_keys, waiting, command_q, finished_q>>
    BY DEF TopOfLoop, world
  <1>1. Shape(proc) /\ now \in 0..MaxTicks /\ now \in Nat /\ HourOf(now) \in Nat
    <2>1. Shape(proc) /\ now \in 0..MaxTicks /\ MaxTicks \in Nat
      BY HourlyAssumption DEF ProcInv
    <2>2. now \in Nat
      BY <2>1
    <2> QED BY <2>1, <2>2, HourFacts
  <1>2. since \in [WindowKeys -> Nat] /\ \A k \in proc.keys : since[k] = now
    BY <1>1 DEF Shape
  <1> HIDE DEF since
  <1>3. /\ proc'.is = "polling" /\ proc'.hour_floor = HourOf(now) /\ proc'.since = since
        /\ proc'.keys = proc.keys /\ proc'.measured = proc.measured /\ proc'.charged = proc.charged
        /\ proc'.begun = proc.begun
        /\ proc'.index = proc.index /\ proc'.last_index = proc.last_index
        /\ DOMAIN proc' = DOMAIN proc
    BY <1>0, <1>1 DEF Shape
  <1>4. Shape(proc')
    BY <1>1, <1>2, <1>3 DEF Shape
  <1>5. ProcInv'
    BY <1>0, <1>3, <1>4 DEF ProcInv
  <1>6. HourInv'
    <2>1. HourOf(now') = HourOf(now)
      BY <1>0
    <2>2. \A k \in proc.keys : proc.begun[k] <= now
      BY <1>0 DEF HourInv
    <2>3. now..(now - 1) = {} /\ now <= now /\ HourOf(now) <= HourOf(now)
          /\ HourOf(now) <= HourOf(now) + 1
      BY <1>1
    <2>4. monitor = "carbon" =>
            proc.last_index <= proc.index /\ proc.index - proc.last_index <= HistoryLength - 2
      BY <1>0 DEF HourInv
    <2> QED BY <1>0, <1>2, <1>3, <2>1, <2>2, <2>3, <2>4 DEF HourInv
  <1>7. AmountInv'
    <2> SUFFICES ASSUME Rated(now), NEW k \in WindowKeys
                 PROVE  /\ k \notin proc.keys => DOMAIN proc.measured[k] = {} /\ DOMAIN proc.charged[k] = {}
                        /\ \A h \in DOMAIN proc.measured[k] :
                             /\ h < HourOf(now)
                             /\ monitor = "carbon" =>
                                  h >= HourOf(now) - (proc.index - proc.last_index)
                        /\ k \in proc.keys =>
                             \A h \in Hours :
                               Amount(proc.charged[k], h) + Amount(proc.measured[k], h)
                                 = TicksOf(h, proc.begun[k], now)
      BY <1>0, <1>2, <1>3 DEF AmountInv, Rated, MeasuredHour, MeasuredTo
    <2> QED BY <1>0 DEF AmountInv, MeasuredHour, MeasuredTo
  <1>8. AnswersInv'
    BY <1>0 DEF AnswersInv, Rated
  <1>9. QueueInv'
    BY <1>0, <1>3 DEF QueueInv, Owed, Alive
  <1> QED BY <1>5, <1>6, <1>7, <1>8, <1>9

LEMMA TickStep ==
  ASSUME HourlyInv, Tick
  PROVE  HourlyInv'
  <1> USE DEF HourlyInv
  <1>0. /\ now < MaxTicks /\ proc.is # "top" /\ (proc.is = "polling" => ~HourIsOver)
        /\ now' = now + 1
        /\ UNCHANGED <<monitor, hardware, errors, current_keys, waiting, command_q, finished_q, proc>>
    BY DEF Tick
  <1>1. /\ Shape(proc) /\ now \in Nat /\ now' \in 0..MaxTicks /\ now' \in Nat
    <2>1. Shape(proc) /\ now \in 0..MaxTicks /\ MaxTicks \in Nat
      BY HourlyAssumption DEF ProcInv
    <2> QED BY <1>0, <2>1
  <1>2. /\ HourOf(now) \in Nat /\ HourOf(now') \in Nat
        /\ HourOf(now) <= HourOf(now') /\ HourOf(now') <= HourOf(now) + 1
    <2>1. now <= now'
      BY <1>0, <1>1
    <2> QED BY <1>0, <1>1, <2>1, HourFacts
  <1>3. ProcInv'
    BY <1>0, <1>1 DEF ProcInv
  <1>4. HourInv'
    <2>1. ASSUME proc.is = "polling"
          PROVE  /\ proc.hour_floor <= HourOf(now') /\ HourOf(now') <= proc.hour_floor + 1
                 /\ \A k \in proc.keys :
                      /\ proc.begun[k] <= proc.since[k] /\ proc.since[k] <= now'
                      /\ \A t \in proc.since[k]..(now' - 1) : HourOf(t) = proc.hour_floor
      <3>1. /\ proc.hour_floor <= HourOf(now) /\ proc.hour_floor \in Nat
            /\ \A k \in proc.keys :
                 /\ proc.begun[k] <= proc.since[k] /\ proc.since[k] <= now
                 /\ \A t \in proc.since[k]..(now - 1) : HourOf(t) = proc.hour_floor
        BY <1>1, <2>1 DEF HourInv, Shape
      <3>2. HourOf(now) = proc.hour_floor
        BY <1>0, <1>2, <2>1, <3>1 DEF HourIsOver
      <3>3. ASSUME NEW k \in proc.keys
            PROVE  /\ proc.since[k] <= now'
                   /\ \A t \in proc.since[k]..(now' - 1) : HourOf(t) = proc.hour_floor
        <4>1. proc.since[k] \in Nat
          BY <1>1 DEF Shape
        <4>2. \A t \in proc.since[k]..(now' - 1) : t = now \/ t \in proc.since[k]..(now - 1)
          BY <1>0, <1>1, <4>1
        <4> QED BY <1>0, <1>1, <3>1, <3>2, <4>1, <4>2
      <3> QED BY <1>2, <3>1, <3>2, <3>3
    <2> QED BY <1>0, <2>1 DEF HourInv
  <1>5. AmountInv'
    <2>1. CASE proc.is = "polling"
      <3>1. Rated(now)' => Rated(now)
        BY <1>0, <1>2, HourlyAssumption DEF Rated
      <3> QED BY <1>0, <2>1, <3>1 DEF AmountInv, MeasuredHour, MeasuredTo
    <2>2. CASE proc.is # "polling"
      BY <1>0, <2>2 DEF AmountInv
    <2> QED BY <2>1, <2>2
  <1>6. AnswersInv'
    BY <1>0 DEF AnswersInv, Rated
  <1>7. QueueInv'
    BY <1>0 DEF QueueInv, Owed, Alive
  <1> QED BY <1>3, <1>4, <1>5, <1>6, <1>7

LEMMA GetBeginStep ==
  ASSUME HourlyInv, GetBegin
  PROVE  HourlyInv'
  <1> USE DEF HourlyInv
  <1> DEFINE k == Head(command_q)[2]
             r == Tail(command_q)
  <1>0. /\ proc.is = "polling" /\ ~HourIsOver /\ command_q # <<>> /\ Head(command_q)[1] = "BEGIN"
        /\ command_q' = r
        /\ proc' = [proc EXCEPT !.keys = @ \cup {k}, !.since[k] = now, !.begun[k] = now]
        /\ UNCHANGED <<monitor, hardware, now, errors, current_keys, waiting, finished_q>>
    BY DEF GetBegin, world
  <1>1. /\ r \in Seq({"BEGIN", "END"} \X WindowKeys)
        /\ Head(command_q) = command_q[1] /\ 1 \in DOMAIN command_q /\ k \in WindowKeys
        /\ Len(r) = Len(command_q) - 1 /\ DOMAIN r = 1..(Len(command_q) - 1)
        /\ DOMAIN command_q = 1..Len(command_q) /\ Len(command_q) \in Nat \ {0}
        /\ \A i \in DOMAIN r : r[i] = command_q[i + 1]
        /\ Queued(command_q) = Queued(r) \cup {k}
    <2>1. command_q \in Seq({"BEGIN", "END"} \X WindowKeys)
      BY DEF QueueInv
    <2> QED BY <1>0, <2>1, TakeCommand
  <1>2. /\ Shape(proc) /\ now \in 0..MaxTicks /\ now \in Nat
    <2>1. Shape(proc) /\ now \in 0..MaxTicks /\ MaxTicks \in Nat
      BY HourlyAssumption DEF ProcInv
    <2> QED BY <2>1
  <1>3. k = command_q[1][2] /\ command_q[1][1] = "BEGIN"
    BY <1>0, <1>1
  <1> HIDE DEF k, r
  <1>4. /\ proc'.is = "polling" /\ proc'.hour_floor = proc.hour_floor
        /\ proc'.keys = proc.keys \cup {k} /\ proc'.measured = proc.measured
        /\ proc'.charged = proc.charged
        /\ proc'.since = [proc.since EXCEPT ![k] = now] /\ proc'.begun = [proc.begun EXCEPT ![k] = now]
        /\ proc'.index = proc.index /\ proc'.last_index = proc.last_index
        /\ DOMAIN proc' = DOMAIN proc
    BY <1>0, <1>2 DEF Shape
  <1>5. /\ \A j \in WindowKeys : j # k => proc'.since[j] = proc.since[j] /\ proc'.begun[j] = proc.begun[j]
        /\ proc'.since[k] = now /\ proc'.begun[k] = now
    BY <1>1, <1>2, <1>4 DEF Shape
  <1>6. Shape(proc')
    BY <1>1, <1>2, <1>4 DEF Shape
  <1>7. ProcInv'
    BY <1>0, <1>4, <1>6 DEF ProcInv
  <1>8. /\ Owed = proc.keys \cup Queued(command_q) /\ proc.keys \cap Queued(command_q) = {}
        /\ \A i, j \in Begins(command_q) : command_q[i][2] = command_q[j][2] => i = j
    BY <1>0 DEF QueueInv, Alive
  <1>9. k \notin proc.keys
    BY <1>1, <1>8
  <1>10. \A i \in Begins(r) : i + 1 \in Begins(command_q) /\ i \in Nat \ {0} /\ r[i] = command_q[i + 1]
    BY <1>1 DEF Begins
  <1>11. k \notin Queued(r)
    <2>1. 1 \in Begins(command_q) /\ command_q[1][2] = k
      BY <1>1, <1>3 DEF Begins
    <2>2. \A i \in Begins(r) : i + 1 # 1
      BY <1>10
    <2>3. \A i \in Begins(r) : r[i][2] # k
      BY <1>8, <1>10, <2>1, <2>2
    <2> QED BY <2>3 DEF Queued
  <1>12. \A i, j \in Begins(r) : r[i][2] = r[j][2] => i = j
    <2>1. \A i, j \in Begins(r) : r[i][2] = r[j][2] => i + 1 = j + 1
      BY <1>8, <1>10
    <2> QED BY <1>10, <2>1
  <1>13. QueueInv'
    <2>1. Owed' = Owed
      BY <1>0 DEF Owed
    <2>2. \A i \in DOMAIN r : r[i][1] = "END" => i = Len(r) /\ r[i][2] = waiting /\ finished_q = <<>>
      <3> SUFFICES ASSUME NEW i \in DOMAIN r, r[i][1] = "END"
                   PROVE  i = Len(r) /\ r[i][2] = waiting /\ finished_q = <<>>
        OBVIOUS
      <3>1. i \in Nat /\ i + 1 \in DOMAIN command_q /\ r[i] = command_q[i + 1]
        BY <1>1
      <3>2. i + 1 = Len(command_q) /\ command_q[i + 1][2] = waiting /\ finished_q = <<>>
        BY <3>1 DEF QueueInv
      <3> QED BY <1>1, <3>1, <3>2
    <2>3. proc'.keys \cup Queued(r) = Owed /\ proc'.keys \cap Queued(r) = {}
      BY <1>1, <1>4, <1>8, <1>11
    <2>4. proc'.is # "none" /\ Owed' # {}
      BY <1>0, <1>4, <2>1 DEF QueueInv
    <2> QED BY <1>0, <1>1, <1>12, <2>1, <2>2, <2>3, <2>4 DEF QueueInv
  <1>14. HourInv'
    <2>1. now..(now - 1) = {} /\ now <= now
      BY <1>2
    <2>2. /\ proc.hour_floor <= HourOf(now) /\ HourOf(now) <= proc.hour_floor + 1
          /\ \A j \in proc.keys :
               /\ proc.begun[j] <= proc.since[j] /\ proc.since[j] <= now
               /\ \A t \in proc.since[j]..(now - 1) : HourOf(t) = proc.hour_floor
          /\ monitor = "carbon" =>
               proc.last_index <= proc.index /\ proc.index - proc.last_index <= HistoryLength - 2
      BY <1>0 DEF HourInv
    <2>3. ASSUME NEW j \in proc'.keys
          PROVE  /\ proc'.begun[j] <= proc'.since[j] /\ proc'.since[j] <= now
                 /\ \A t \in proc'.since[j]..(now - 1) : HourOf(t) = proc.hour_floor
      <3>1. CASE j = k
        BY <1>5, <2>1, <3>1
      <3>2. CASE j # k
        <4>1. j \in proc.keys /\ j \in WindowKeys
          BY <1>2, <1>4, <2>3, <3>2 DEF Shape
        <4> QED BY <1>5, <2>2, <3>2, <4>1
      <3> QED BY <3>1, <3>2
    <2> QED BY <1>0, <1>4, <2>2, <2>3 DEF HourInv
  <1>15. AmountInv'
    <2> SUFFICES ASSUME Rated(now), NEW j \in WindowKeys
                 PROVE  /\ j \notin proc'.keys =>
                             DOMAIN proc.measured[j] = {} /\ DOMAIN proc.charged[j] = {}
                        /\ \A h \in DOMAIN proc.measured[j] :
                             /\ h < proc.hour_floor
                             /\ monitor = "carbon" =>
                                  h >= proc.hour_floor - (proc.index - proc.last_index)
                        /\ j \in proc'.keys =>
                             \A h \in Hours :
                               Amount(proc.charged[j], h) + Amount(proc.measured[j], h)
                                 = TicksOf(h, proc'.begun[j], proc'.since[j])
      BY <1>0, <1>4 DEF AmountInv, Rated, MeasuredHour, MeasuredTo
    <2>1. /\ j \notin proc.keys => DOMAIN proc.measured[j] = {} /\ DOMAIN proc.charged[j] = {}
          /\ \A h \in DOMAIN proc.measured[j] :
               /\ h < proc.hour_floor
               /\ monitor = "carbon" => h >= proc.hour_floor - (proc.index - proc.last_index)
          /\ j \in proc.keys =>
               \A h \in Hours :
                 Amount(proc.charged[j], h) + Amount(proc.measured[j], h)
                   = TicksOf(h, proc.begun[j], proc.since[j])
      BY <1>0 DEF AmountInv, MeasuredHour, MeasuredTo
    <2>2. CASE j = k
      <3>1. \A h : Amount(proc.charged[j], h) = 0 /\ Amount(proc.measured[j], h) = 0
        BY <1>9, <2>1, <2>2 DEF Amount
      <3>2. \A h : TicksOf(h, now, now) = 0
        BY <1>2, NoTicks
      <3> QED BY <1>4, <1>5, <2>1, <2>2, <3>1, <3>2
    <2>3. CASE j # k
      BY <1>4, <1>5, <2>1, <2>3
    <2> QED BY <2>2, <2>3
  <1>16. AnswersInv'
    BY <1>0 DEF AnswersInv, Rated
  <1> QED BY <1>7, <1>13, <1>14, <1>15, <1>16

LEMMA GetEndStep ==
  ASSUME HourlyInv, GetEnd
  PROVE  HourlyInv'
  <1> USE DEF HourlyInv
  <1> DEFINE k == waiting
             q == Update(proc, waiting)
  <1>0. proc.is = "polling" /\ ~HourIsOver /\ command_q # <<>> /\ Head(command_q)[1] = "END"
    BY DEF GetEnd
  <1>1. /\ Head(command_q)[2] = k /\ k \in WindowKeys /\ k \in proc.keys
        /\ finished_q = <<>> /\ Tail(command_q) = <<>> /\ Queued(command_q) = {}
        /\ current_keys = proc.keys
    BY <1>0, EndFacts
  <1>2. CASE RequestFails
    BY <1>0, <1>2, FailStep DEF Alive
  <1>3. CASE ~RequestFails
    <2>0. /\ Answers(k, q, proc.keys = {k}) /\ command_q' = <<>>
          /\ UNCHANGED <<monitor, hardware, now, errors, current_keys, waiting>>
      BY <1>1, <1>3 DEF GetEnd, world
    <2>1. /\ Shape(q) /\ Same(proc, q)
          /\ Rated(now) =>
               /\ \A j \in WindowKeys \ {k} :
                    q.charged[j] = proc.charged[j] /\ q.measured[j] = proc.measured[j]
               /\ q.measured[k] = <<>>
               /\ \A h \in Hours : Amount(q.charged[k], h) = TicksOf(h, proc.begun[k], now)
      BY <1>0, <1>1, UpdateFacts
    <2>2. Shape(proc) /\ now \in 0..MaxTicks /\ now \in Nat
      <3>1. Shape(proc) /\ now \in 0..MaxTicks /\ MaxTicks \in Nat
        BY HourlyAssumption DEF ProcInv
      <3> QED BY <3>1
    <2> HIDE DEF q
    <2>3. q.is = "polling"
      BY <1>0, <2>1 DEF Same
    <2>4. CASE ~CanPop(q, k)
      <3>1. proc' = [q EXCEPT !.is = "cannot pop"] /\ finished_q' = finished_q
        BY <2>0, <2>3, <2>4 DEF Answers
      <3>2. Shape(proc') /\ proc'.is = "cannot pop"
        BY <2>1, <3>1 DEF Shape
      <3>3. proc.is # "none" /\ proc'.is \in {"failed", "cannot pop"}
        BY <1>0, <3>2
      <3>4. UNCHANGED <<world, current_keys, waiting, finished_q>>
        BY <2>0, <3>1 DEF world
      <3> QED BY <2>0, <3>2, <3>3, <3>4, DeadStep
    <2>5. CASE CanPop(q, k)
      <3>1. /\ finished_q' = <<Answer(k, q)>>
            /\ proc' = IF proc.keys = {k} THEN NoProcess
                       ELSE [q EXCEPT !.charged[k] = <<>>, !.keys = @ \ {k}]
        BY <1>1, <2>0, <2>3, <2>5 DEF Answers
      <3>2. Answer(k, q).key = k /\ Answer(k, q).ended = now
            /\ Answer(k, q).begun = q.begun[k] /\ Answer(k, q).charged = q.charged[k]
        BY DEF Answer
      <3>3. AnswersInv'
        <4>1. ASSUME Rated(now), NEW h \in Hours
              PROVE  TicksOf(h, Answer(k, q).begun, Answer(k, q).ended) = Amount(Answer(k, q).charged, h)
          BY <2>1, <3>2, <4>1 DEF Same
        <4>2. \A i \in DOMAIN finished_q' : finished_q'[i] = Answer(k, q)
          BY <3>1
        <4>3. \A t : Rated(t)' <=> Rated(t)
          BY <2>0 DEF Rated
        <4> QED BY <2>2, <3>2, <4>1, <4>2, <4>3 DEF AnswersInv
      <3>4. Owed' = proc.keys \ {k} /\ finished_q' # <<>> /\ waiting # NoKey
            /\ \E a : finished_q' = <<a>> /\ a.key = waiting
        BY <1>1, <2>0, <3>1, <3>2, HourlyAssumption DEF Owed
      <3>5. Queued(command_q') = {} /\ Begins(command_q') = {} /\ DOMAIN command_q' = {}
            /\ command_q' \in Seq({"BEGIN", "END"} \X WindowKeys)
        <4>1. DOMAIN command_q' = {}
          BY <2>0, EmptyMap
        <4>2. Begins(command_q') = {}
          BY <4>1 DEF Begins
        <4>3. Queued(command_q') = {}
          BY <4>2 DEF Queued
        <4>4. command_q' \in Seq({"BEGIN", "END"} \X WindowKeys)
          BY <2>0, EmptySeq
        <4> QED BY <4>1, <4>2, <4>3, <4>4
      <3>6. CASE proc.keys = {k}
        <4>1. proc' = NoProcess /\ proc'.is = "none" /\ Shape(proc')
          BY <3>1, <3>6, NoProcessFacts
        <4>2. ProcInv'
          BY <2>0, <4>1 DEF ProcInv
        <4>3. HourInv' /\ AmountInv'
          BY <4>1 DEF HourInv, AmountInv
        <4>4. Owed' = {} /\ ~Alive'
          BY <3>4, <3>6, <4>1 DEF Alive
        <4>5. QueueInv'
          BY <2>0, <3>4, <3>5, <4>1, <4>4 DEF QueueInv
        <4> QED BY <3>3, <4>2, <4>3, <4>5
      <3>7. CASE proc.keys # {k}
        <4>1. proc' = [q EXCEPT !.charged[k] = <<>>, !.keys = @ \ {k}]
          BY <3>1, <3>7
        <4>2. /\ proc'.is = "polling" /\ proc'.hour_floor = q.hour_floor
              /\ proc'.keys = q.keys \ {k} /\ proc'.measured = q.measured
              /\ proc'.charged = [q.charged EXCEPT ![k] = <<>>]
              /\ proc'.since = q.since /\ proc'.begun = q.begun
              /\ proc'.index = q.index /\ proc'.last_index = q.last_index
              /\ DOMAIN proc' = DOMAIN q
          BY <2>1, <2>3, <4>1 DEF Shape
        <4>3. /\ DOMAIN proc'.charged = WindowKeys /\ proc'.charged[k] = <<>>
              /\ \A j \in WindowKeys \ {k} : proc'.charged[j] = q.charged[j]
          BY <1>1, <2>1, <4>2 DEF Shape
        <4>4. Shape(proc')
          <5>1. \A j \in WindowKeys : IsMap(proc'.charged[j])
            BY <2>1, <4>3, EmptyMap DEF Shape
          <5> QED BY <2>1, <4>2, <4>3, <5>1 DEF Shape
        <4>5. ProcInv'
          BY <2>0, <4>2, <4>4 DEF ProcInv
        <4>6. /\ proc'.hour_floor = proc.hour_floor /\ proc'.keys = proc.keys \ {k}
              /\ proc'.since = proc.since /\ proc'.begun = proc.begun
              /\ proc'.index = proc.index /\ proc'.last_index = proc.last_index
          BY <2>1, <4>2 DEF Same
        <4>7. HourInv'
          BY <1>0, <2>0, <4>2, <4>6 DEF HourInv
        <4>8. AmountInv'
          <5> SUFFICES ASSUME Rated(now), NEW j \in WindowKeys
                       PROVE  /\ j \notin proc'.keys =>
                                   DOMAIN proc'.measured[j] = {} /\ DOMAIN proc'.charged[j] = {}
                              /\ \A h \in DOMAIN proc'.measured[j] :
                                   /\ h < proc.hour_floor
                                   /\ monitor = "carbon" =>
                                        h >= proc.hour_floor - (proc.index - proc.last_index)
                              /\ j \in proc'.keys =>
                                   \A h \in Hours :
                                     Amount(proc'.charged[j], h) + Amount(proc'.measured[j], h)
                                       = TicksOf(h, proc.begun[j], proc.since[j])
            BY <2>0, <4>2, <4>6 DEF AmountInv, Rated, MeasuredHour, MeasuredTo
          <5>1. CASE j = k
            <6>1. proc'.measured[k] = <<>> /\ proc'.charged[k] = <<>>
              BY <2>1, <4>2, <4>3
            <6> QED BY <4>6, <5>1, <6>1, EmptyMap
          <5>2. CASE j # k
            <6>1. proc'.measured[j] = proc.measured[j] /\ proc'.charged[j] = proc.charged[j]
              BY <2>1, <4>2, <4>3, <5>2
            <6>2. j \in proc.keys <=> j \in proc'.keys
              BY <4>6, <5>2
            <6> QED BY <1>0, <6>1, <6>2 DEF AmountInv, MeasuredHour, MeasuredTo
          <5> QED BY <5>1, <5>2
        <4>9. proc'.is # "none" /\ proc.keys \ {k} # {}
          BY <1>1, <3>7, <4>2
        <4>10. QueueInv'
          BY <2>0, <3>4, <3>5, <4>6, <4>9 DEF QueueInv
        <4> QED BY <3>3, <4>5, <4>7, <4>8, <4>10
      <3> QED BY <3>6, <3>7
    <2> QED BY <2>4, <2>5
  <1> QED BY <1>2, <1>3

LEMMA EndOfHourStep ==
  ASSUME HourlyInv, EndOfHour
  PROVE  HourlyInv'
  <1> USE DEF HourlyInv
  <1> DEFINE m == UpdateEnergyMeasurements(proc, proc.keys)
             p == [m EXCEPT !.index = @ + 1, !.is = "top"]
             f == proc.hour_floor
             d == proc.index - proc.last_index
  <1>1. CASE RequestFails
    BY <1>1, FailStep DEF EndOfHour, Alive
  <1>2. CASE ~RequestFails
    <2>0. /\ proc.is = "polling" /\ HourIsOver
          /\ proc' = IF Fetches(p) THEN [UpdateCarbonEmissions(p, p.keys) EXCEPT !.last_index = p.index]
                     ELSE p
          /\ UNCHANGED <<monitor, hardware, now, errors, current_keys, waiting, command_q, finished_q>>
      BY <1>2 DEF EndOfHour, world
    <2>1. /\ Shape(proc) /\ now \in 0..MaxTicks /\ now \in Nat /\ HourOf(now) \in Nat
          /\ proc.keys \in SUBSET WindowKeys /\ f \in Nat
          /\ proc.index \in Nat /\ proc.last_index \in Nat
      <3>1. Shape(proc) /\ now \in 0..MaxTicks /\ MaxTicks \in Nat
        BY HourlyAssumption DEF ProcInv
      <3>2. now \in Nat
        BY <3>1
      <3>3. HourOf(now) \in Nat
        BY <3>2, HourFacts
      <3> QED BY <3>1, <3>2, <3>3 DEF Shape
    <2>2. /\ HourOf(now) = f + 1
          /\ \A k \in proc.keys : proc.begun[k] <= now /\ proc.since[k] <= now
          /\ monitor = "carbon" =>
               proc.last_index <= proc.index /\ d <= HistoryLength - 2
      <3>1. HourOf(now) = f + 1
        BY <2>0, <2>1 DEF HourInv, HourIsOver
      <3>2. ASSUME NEW k \in proc.keys PROVE proc.begun[k] <= now /\ proc.since[k] <= now
        <4>1. proc.begun[k] \in Nat /\ proc.since[k] \in Nat
          BY <2>1 DEF Shape
        <4>2. proc.begun[k] <= proc.since[k] /\ proc.since[k] <= now
          BY <2>0 DEF HourInv
        <4> QED BY <2>1, <4>1, <4>2
      <3> QED BY <2>0, <3>1, <3>2 DEF HourInv
    <2>3. /\ Shape(m) /\ Same(proc, m) /\ m.charged = proc.charged
          /\ \A k \in WindowKeys \ proc.keys : m.measured[k] = proc.measured[k]
      BY <2>1, <2>2, MeasureFacts
    <2>4. ASSUME Rated(now), NEW k \in proc.keys
          PROVE  /\ \A h \in DOMAIN m.measured[k] :
                      h <= f /\ (monitor = "carbon" => h >= f - d)
                 /\ \A h \in Hours :
                      Amount(m.charged[k], h) + Amount(m.measured[k], h) = TicksOf(h, m.begun[k], now)
      <3>1. proc.keys \in SUBSET proc.keys
        OBVIOUS
      <3> QED BY <2>0, <2>4, <3>1, MeasuredFacts
    <2> HIDE DEF m
    <2>5. /\ p.is = "top" /\ p.index = proc.index + 1 /\ p.hour_floor = f
          /\ p.last_index = proc.last_index /\ p.keys = proc.keys
          /\ p.since = proc.since /\ p.begun = proc.begun
          /\ p.measured = m.measured /\ p.charged = m.charged /\ DOMAIN p = DOMAIN m
      BY <2>3 DEF Shape, Same
    <2> HIDE DEF p
    <2>6. Shape(p)
      BY <2>1, <2>3, <2>5 DEF Shape
    <2>7. AnswersInv'
      BY <2>0 DEF AnswersInv, Rated
    <2>8. ASSUME proc'.is = "top", proc'.keys = proc.keys PROVE QueueInv'
      BY <2>0, <2>8 DEF QueueInv, Owed, Alive
    <2>9. CASE ~Fetches(p)
      <3>1. proc' = p
        BY <2>0, <2>9
      <3>2. ProcInv'
        BY <2>0, <2>5, <2>6, <3>1 DEF ProcInv
      <3>3. HourInv'
        <4>1. monitor = "carbon" => p.last_index <= p.index /\ p.index - p.last_index <= HistoryLength - 2
          BY <2>1, <2>2, <2>5, <2>9, HourlyAssumption DEF Fetches
        <4> QED BY <2>0, <2>2, <2>5, <3>1, <4>1 DEF HourInv
      <3>4. AmountInv'
        <4>0. /\ proc'.is = "top" /\ proc'.keys = proc.keys /\ proc'.begun = proc.begun
              /\ proc'.measured = m.measured /\ proc'.charged = m.charged
              /\ proc'.index = p.index /\ proc'.last_index = p.last_index
              /\ now' = now /\ monitor' = monitor
          BY <2>0, <2>5, <3>1
        <4> SUFFICES ASSUME Rated(now), NEW k \in WindowKeys
                     PROVE  /\ k \notin proc.keys =>
                                 DOMAIN m.measured[k] = {} /\ DOMAIN m.charged[k] = {}
                            /\ \A h \in DOMAIN m.measured[k] :
                                 /\ h < HourOf(now)
                                 /\ monitor = "carbon" =>
                                      h >= HourOf(now) - (p.index - p.last_index)
                            /\ k \in proc.keys =>
                                 \A h \in Hours :
                                   Amount(m.charged[k], h) + Amount(m.measured[k], h)
                                     = TicksOf(h, proc.begun[k], now)
          BY <4>0 DEF AmountInv, Rated, MeasuredHour, MeasuredTo
        <4>1. CASE k \in proc.keys
          <5>1. m.begun[k] = proc.begun[k]
            BY <2>3 DEF Same
          <5>2. DOMAIN m.measured[k] \subseteq Nat
            BY <2>3 DEF Shape, IsMap
          <5>3. HourOf(now) - (p.index - p.last_index) = f - d
            BY <2>1, <2>2, <2>5
          <5>4. \A h \in DOMAIN m.measured[k] : h < HourOf(now)
            BY <2>1, <2>2, <2>4, <4>1, <5>2
          <5> QED BY <2>4, <4>1, <5>1, <5>3, <5>4
        <4>2. CASE k \notin proc.keys
          <5>1. m.measured[k] = proc.measured[k] /\ m.charged[k] = proc.charged[k]
            BY <2>3, <4>2
          <5>2. DOMAIN proc.measured[k] = {} /\ DOMAIN proc.charged[k] = {}
            BY <2>0, <4>2 DEF AmountInv
          <5> QED BY <4>2, <5>1, <5>2
        <4> QED BY <4>1, <4>2
      <3> QED BY <2>5, <2>7, <2>8, <3>1, <3>2, <3>3, <3>4
    <2>10. CASE Fetches(p)
      <3> DEFINE c == UpdateCarbonEmissions(p, proc.keys)
      <3>1. proc' = [c EXCEPT !.last_index = p.index]
        BY <2>0, <2>5, <2>10
      <3>2. monitor = "carbon" /\ d = HistoryLength - 2 /\ Rated(now)
        BY <2>1, <2>5, <2>10, HourlyAssumption DEF Fetches, Rated
      <3>3. \A k \in proc.keys : DOMAIN p.measured[k] \subseteq History
        <4>1. d \in Nat /\ f <= HourOf(now) /\ HourOf(now) - f + d < HistoryLength
          BY <2>1, <2>2, <3>2, HourlyAssumption
        <4> HIDE DEF d, f
        <4>2. ASSUME NEW k \in proc.keys PROVE DOMAIN p.measured[k] \subseteq History
          <5>1. DOMAIN p.measured[k] \in SUBSET Nat
            BY <2>1, <2>6 DEF Shape, IsMap
          <5>2. \A h \in DOMAIN p.measured[k] : h <= f /\ h >= f - d
            BY <2>4, <2>5, <3>2
          <5> QED BY <2>1, <4>1, <5>1, <5>2, HistoryFacts
        <4> QED BY <4>2
      <3>4. Settled(p, c, proc.keys)
        BY <2>1, <2>6, <3>3, CarbonFacts
      <3> HIDE DEF c
      <3>5. /\ proc'.is = "top" /\ proc'.keys = proc.keys /\ proc'.begun = proc.begun
            /\ proc'.index = p.index /\ proc'.last_index = p.index
            /\ proc'.measured = c.measured /\ proc'.charged = c.charged
            /\ proc'.hour_floor = c.hour_floor /\ proc'.since = c.since /\ DOMAIN proc' = DOMAIN c
        BY <2>5, <3>1, <3>4 DEF Settled, Same, Shape
      <3>6. Shape(proc')
        BY <2>1, <2>5, <2>6, <3>4, <3>5 DEF Settled, Shape
      <3>7. ProcInv'
        BY <2>0, <3>5, <3>6 DEF ProcInv
      <3>8. HourInv'
        <4>1. p.index \in Nat
          BY <2>6 DEF Shape
        <4> QED BY <2>0, <2>2, <3>5, <4>1, HourlyAssumption DEF HourInv
      <3>9. AmountInv'
        <4> SUFFICES ASSUME NEW k \in WindowKeys
                     PROVE  /\ k \notin proc.keys =>
                                 DOMAIN c.measured[k] = {} /\ DOMAIN c.charged[k] = {}
                            /\ DOMAIN c.measured[k] = {}
                            /\ k \in proc.keys =>
                                 \A h \in Hours :
                                   Amount(c.charged[k], h) + Amount(c.measured[k], h)
                                     = TicksOf(h, proc.begun[k], now)
          BY <2>0, <3>5 DEF AmountInv, MeasuredTo
        <4>1. CASE k \in proc.keys
          <5>1. c.measured[k] = <<>>
            BY <3>4, <4>1 DEF Settled
          <5>2. ASSUME NEW h \in Hours
                PROVE  Amount(c.charged[k], h) + Amount(c.measured[k], h) = TicksOf(h, proc.begun[k], now)
            <6>1. Amount(c.charged[k], h) = Amount(m.charged[k], h) + Amount(m.measured[k], h)
              BY <2>5, <3>4, <4>1 DEF Settled
            <6>2. Amount(c.measured[k], h) = 0
              BY <5>1, EmptyMap
            <6>3. m.begun[k] = proc.begun[k]
              BY <2>3 DEF Same
            <6>4. Amount(m.charged[k], h) \in Nat /\ Amount(m.measured[k], h) \in Nat
              BY <2>3, AmountType DEF Shape
            <6> QED BY <2>4, <3>2, <4>1, <6>1, <6>2, <6>3, <6>4
          <5> QED BY <4>1, <5>1, <5>2, EmptyMap
        <4>2. CASE k \notin proc.keys
          <5>1. c.measured[k] = proc.measured[k] /\ c.charged[k] = proc.charged[k]
            BY <2>3, <2>5, <3>4, <4>2 DEF Settled
          <5>2. DOMAIN proc.measured[k] = {} /\ DOMAIN proc.charged[k] = {}
            BY <2>0, <3>2, <4>2 DEF AmountInv
          <5> QED BY <4>2, <5>1, <5>2
        <4> QED BY <4>1, <4>2
      <3> QED BY <2>7, <2>8, <3>5, <3>7, <3>8, <3>9
    <2> QED BY <2>9, <2>10
  <1> QED BY <1>1, <1>2

-----------------------------------------------------------------------------

LEMMA HourlyStep == HourlyInv /\ [HourlyNext]_hourlyVars => HourlyInv'
  <1> SUFFICES ASSUME HourlyInv, [HourlyNext]_hourlyVars PROVE HourlyInv'
    OBVIOUS
  <1>1. CASE UNCHANGED hourlyVars
    <2>1. UNCHANGED <<monitor, hardware, now, errors, current_keys, waiting, command_q, finished_q, proc>>
      BY <1>1 DEF hourlyVars
    <2>2. ProcInv' /\ HourInv' /\ AmountInv' /\ AnswersInv' /\ QueueInv'
      BY <2>1 DEF HourlyInv, ProcInv, HourInv, AmountInv, AnswersInv, QueueInv, Rated,
                  MeasuredHour, MeasuredTo, Owed, Alive
    <2> QED BY <2>2 DEF HourlyInv
  <1>2. CASE Client
    BY <1>2, BeginStep, EndStep, FinishedStep DEF Client
  <1>3. CASE Polling
    BY <1>3, StartStep, TopStep, GetBeginStep, GetEndStep, EndOfHourStep DEF Polling
  <1>4. CASE Tick
    BY <1>4, TickStep
  <1> QED BY <1>1, <1>2, <1>3, <1>4 DEF HourlyNext

(* The polling process has begun each window it is to end, has measured it *)
(* in one piece per hour up to the hour it is in, or to the end of the     *)
(* last one, and has an amount of each hour for every tick of it.          *)
THEOREM HourlyInvariant == HourlySpec => []HourlyInv
  BY InitHourly, HourlyStep, PTL DEF HourlySpec

(* Carbon emissions and costs are those of each hour, as long as there are *)
(* rates: nothing of a window that goes on over the hours is lost, counted *)
(* twice or charged at another hour's rate.                                *)
THEOREM HoursAreCharged == HourlySpec => []EachHourAtItsRate
  <1>1. HourlyInv => EachHourAtItsRate
    <2> SUFFICES ASSUME HourlyInv, NEW i \in DOMAIN finished_q
                 PROVE  LET a == finished_q[i] IN
                        /\ a.key = waiting
                        /\ monitor = "carbon" \/ HourOf(a.ended) < UnratedFrom =>
                             \A h \in Hours :
                               TicksOf(h, a.begun, a.ended) = Amount(a.charged, h)
      BY DEF EachHourAtItsRate
    <2>1. finished_q # <<>>
      BY EmptyMap
    <2>2. PICK a : finished_q = <<a>> /\ a.key = waiting
      BY <2>1 DEF HourlyInv, QueueInv
    <2>3. finished_q[i] = a
      BY <2>2
    <2> QED BY <2>2, <2>3 DEF HourlyInv, AnswersInv, Rated
  <1> QED BY <1>1, HourlyInvariant, PTL

(* The fetch before the oldest hour leaves the provider's history is never *)
(* too late for what has been measured.                                    *)
THEOREM HistoryIsEnough == HourlySpec => []HistoryCoversMeasurements
  <1>1. HourlyInv => HistoryCoversMeasurements
    BY DEF HourlyInv, ProcInv, HistoryCoversMeasurements
  <1> QED BY <1>1, HourlyInvariant, PTL
=============================================================================
