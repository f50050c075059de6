------------------------- MODULE EnergyMonitor_proofs -------------------------
(***************************************************************************)
(* Measurement windows implement EnergyWindows and nest, for any meters    *)
(* and any number of windows.  The inductive invariant says what the call  *)
(* in progress has read so far: readings taken since it began.             *)
(***************************************************************************)
EXTENDS EnergyMonitor, TLAPS

Read == {Meters[i] : i \in 1..(at - 1)}

(* Meters only grow, and no window stands for the future. *)
MeterInv ==
  /\ \A m \in Metrics : asked[m] <= meter[m]
  /\ \A k \in DOMAIN windows : /\ windows[k].start <= now
                               /\ \A m \in Metrics : windows[k].snap[m] <= meter[m]

BeginInv ==
  call = "begin" =>
    /\ key \notin DOMAIN windows /\ start <= now
    /\ DOMAIN snap = Read
    /\ \A m \in Read : asked[m] <= snap[m] /\ snap[m] <= meter[m]
    /\ \A k \in DOMAIN windows : /\ windows[k].start <= start
                                 /\ \A m \in Metrics : windows[k].snap[m] <= asked[m]

EndInv ==
  call = "end" =>
    /\ key \in DOMAIN windows
    /\ \A m \in Metrics : windows[key].snap[m] <= asked[m]
    /\ DOMAIN result = Read
    /\ \A m \in Read : /\ asked[m] <= windows[key].snap[m] + result[m]
                       /\ windows[key].snap[m] + result[m] <= meter[m]

IInv == TypeOK /\ MeterInv /\ BeginInv /\ EndInv /\ WindowsNest

-----------------------------------------------------------------------------
(* The part of Meters a call has reached. *)
LEMMA ReadGrows ==
  ASSUME TypeOK
  PROVE  /\ Read \subseteq Metrics
         /\ at = 1 => Read = {}
         /\ at > Len(Meters) => Read = Metrics
         /\ at <= Len(Meters) => /\ Meters[at] \in Metrics
                                 /\ {Meters[i] : i \in 1..((at + 1) - 1)}
                                      = Read \cup {Meters[at]}
<1> USE MetersAssumption DEF TypeOK, Read, Metrics
<1>1. Len(Meters) \in Nat /\ at \in 1..(Len(Meters) + 1)
  OBVIOUS
<1>2. Read \subseteq Metrics
  BY <1>1
<1>3. at = 1 => Read = {}
  BY <1>1
<1>4. at > Len(Meters) => Read = Metrics
  BY <1>1
<1>5. ASSUME at <= Len(Meters)
      PROVE  /\ Meters[at] \in Metrics
             /\ {Meters[i] : i \in 1..((at + 1) - 1)} = Read \cup {Meters[at]}
  <2>1. 1..((at + 1) - 1) = (1..(at - 1)) \cup {at} /\ at \in 1..Len(Meters)
    BY SMTT(30), <1>1, <1>5
  <2>2. Meters[at] \in Metrics
    BY <2>1
  <2>3. {Meters[i] : i \in 1..((at + 1) - 1)} = {Meters[i] : i \in (1..(at - 1)) \cup {at}}
    BY <2>1
  <2>4. {Meters[i] : i \in (1..(at - 1)) \cup {at}}
          = {Meters[i] : i \in 1..(at - 1)} \cup {Meters[at]}
    OBVIOUS
  <2> QED
    BY <2>2, <2>3, <2>4
<1> QED
  BY <1>2, <1>3, <1>4, <1>5

LEMMA InitInv == Init => IInv
  BY BoundsAssumption, MetersAssumption
  DEF Init, IInv, TypeOK, MeterInv, BeginInv, EndInv, WindowsNest, Zero, NoMap,
      NoWindow, Partial

(* The variables of a member function while no step of it is taken. *)
LEMMA EnvironmentStep ==
  ASSUME IInv, Tick \/ (\E m \in Metrics : Consume(m)) \/ UNCHANGED vars
  PROVE  /\ IInv'
         /\ [Windows!Draw]_Windows!vars
<1>1. /\ now' \in Nat /\ now <= now'
      /\ meter' \in [Metrics -> Nat]
      /\ \A m \in Metrics : meter[m] <= meter'[m]
  <2>1. CASE Tick \/ UNCHANGED vars
    BY <2>1 DEF IInv, TypeOK, Tick, vars
  <2>2. ASSUME NEW m \in Metrics, Consume(m)
        PROVE  /\ now' \in Nat /\ now <= now'
               /\ meter' \in [Metrics -> Nat]
               /\ \A x \in Metrics : meter[x] <= meter'[x]
    BY <2>2 DEF IInv, TypeOK, Consume
  <2> QED
    BY <2>1, <2>2
<1>2. UNCHANGED <<windows, call, key, at, start, snap, result, elapsed, report, asked>>
  BY DEF Tick, Consume, vars
<1>3. TypeOK'
  BY <1>1, <1>2 DEF IInv, TypeOK, Partial
<1>4. MeterInv'
  BY <1>1, <1>2 DEF IInv, TypeOK, MeterInv
<1>5. Read' = Read
  BY <1>2 DEF Read
<1>6. BeginInv'
  <2> SUFFICES ASSUME call = "begin"
               PROVE  BeginInv'
    BY <1>2 DEF BeginInv
  <2>1. \A m \in Read : asked[m] <= snap[m] /\ snap[m] <= meter'[m]
    BY <1>1, ReadGrows DEF IInv, TypeOK, BeginInv, Partial
  <2> QED
    BY <1>1, <1>2, <1>5, <2>1 DEF IInv, TypeOK, BeginInv
<1>7. EndInv'
  <2> SUFFICES ASSUME call = "end"
               PROVE  EndInv'
    BY <1>2 DEF EndInv
  <2>1. \A m \in Read : windows[key].snap[m] + result[m] <= meter'[m]
    BY <1>1, ReadGrows DEF IInv, TypeOK, EndInv, Partial
  <2> QED
    BY <1>1, <1>2, <1>5, <2>1 DEF IInv, EndInv
<1>8. WindowsNest'
  BY <1>2 DEF IInv, WindowsNest
<1>9. [Windows!Draw]_Windows!vars
  BY <1>1, <1>2 DEF IInv, TypeOK, Windows!Draw, Windows!vars
<1> QED
  BY <1>3, <1>4, <1>6, <1>7, <1>8, <1>9 DEF IInv

(* The steps of begin_window. *)
LEMMA BeginStep ==
  ASSUME IInv,
         (\E k \in Keys : BeginWindow(k)) \/ BeginSnapshot \/ BeginThrows \/ BeginStore
  PROVE  /\ IInv'
         /\ [Windows!Next]_Windows!vars
<1>1. ASSUME NEW k \in Keys, BeginWindow(k)
      PROVE  IInv' /\ Windows!Next
  <2>1. Read' = {}
    BY <1>1 DEF BeginWindow, Read
  <2>2. TypeOK'
    BY <1>1, MetersAssumption DEF IInv, TypeOK, BeginWindow, NoMap, Partial
  <2>3. MeterInv' /\ BeginInv' /\ EndInv' /\ WindowsNest'
    BY <1>1, <2>1
    DEF IInv, TypeOK, MeterInv, BeginInv, EndInv, WindowsNest, BeginWindow, NoMap
  <2>4. Windows!Ask
    BY <1>1 DEF BeginWindow, Windows!Ask
  <2> QED
    BY <2>2, <2>3, <2>4 DEF IInv, Windows!Next
<1>2. CASE BeginSnapshot
  <2> DEFINE m == Meters[at]
  <2>1. m \in Metrics /\ Read' = Read \cup {m} /\ Read \subseteq Metrics
    BY <1>2, ReadGrows DEF IInv, BeginSnapshot, Read
  <2>2. DOMAIN snap' = DOMAIN snap \cup {m}
        /\ \A x \in DOMAIN snap' : snap'[x] = IF x = m THEN meter[m] ELSE snap[x]
    BY <1>2 DEF BeginSnapshot, Put
  <2>3. at + 1 \in 1..(Len(Meters) + 1) /\ at' = at + 1
    BY <1>2, MetersAssumption DEF IInv, TypeOK, BeginSnapshot
  <2>4. Partial(snap')
    BY <1>2, <2>1 DEF IInv, TypeOK, BeginSnapshot, Put, Partial
  <2> HIDE DEF m
  <2>5. TypeOK'
    BY <1>2, <2>3, <2>4 DEF IInv, TypeOK, BeginSnapshot
  <2>6. BeginInv'
    BY SMTT(30), <1>2, <2>1, <2>2 DEF IInv, TypeOK, MeterInv, BeginInv, BeginSnapshot, Partial
  <2>7. MeterInv' /\ EndInv' /\ WindowsNest'
    BY <1>2 DEF IInv, MeterInv, EndInv, WindowsNest, BeginSnapshot
  <2>8. UNCHANGED Windows!vars
    BY <1>2 DEF BeginSnapshot, Windows!vars
  <2> QED
    BY <2>5, <2>6, <2>7, <2>8 DEF IInv
<1>3. CASE BeginThrows
  BY <1>3 DEF IInv, TypeOK, MeterInv, BeginInv, EndInv, WindowsNest, BeginThrows, Partial,
              Windows!Next, Windows!Refuse
<1>4. CASE BeginStore
  <2>1. DOMAIN snap = Metrics
    BY <1>4, ReadGrows DEF IInv, BeginInv, BeginStore
  <2>2. /\ DOMAIN windows' = DOMAIN windows \cup {key}
        /\ windows'[key] = [start |-> start, snap |-> snap]
        /\ \A j \in DOMAIN windows : windows'[j] = windows[j]
    BY <1>4 DEF IInv, BeginInv, BeginStore, Put
  <2>3. snap \in [Metrics -> Nat]
    BY <2>1 DEF IInv, TypeOK, Partial
  <2>4. TypeOK'
    <3>1. key \in Keys /\ [start |-> start, snap |-> snap] \in [start: Nat, snap: [Metrics -> Nat]]
      BY <2>3 DEF IInv, TypeOK
    <3>2. DOMAIN windows' \subseteq Keys
          /\ \A k \in DOMAIN windows' : windows'[k] \in [start: Nat, snap: [Metrics -> Nat]]
      BY <2>2, <3>1 DEF IInv, TypeOK
    <3> QED
      BY <1>4, <3>2 DEF IInv, TypeOK, BeginStore, Partial
  <2>5. \A m \in Metrics : asked[m] <= snap[m] /\ snap[m] <= meter[m]
    BY <1>4, <2>1 DEF IInv, BeginInv, BeginStore
  <2>6. MeterInv'
    BY <1>4, <2>2, <2>5 DEF IInv, MeterInv, BeginInv, BeginStore
  <2>7. WindowsNest'
    <3> SUFFICES ASSUME NEW j \in DOMAIN windows', NEW k \in DOMAIN windows',
                        windows'[j].start < windows'[k].start, NEW m \in Metrics
                 PROVE  windows'[j].snap[m] <= windows'[k].snap[m]
      BY DEF WindowsNest
    <3>1. CASE j \in DOMAIN windows /\ k \in DOMAIN windows
      BY <2>2, <3>1 DEF IInv, WindowsNest
    <3>2. CASE k = key
      <4>1. j # key
        BY <2>2, <3>2 DEF IInv, TypeOK
      <4>2. windows[j].snap[m] <= asked[m] /\ asked[m] <= snap[m]
        BY <1>4, <2>2, <2>5, <4>1 DEF IInv, BeginInv, BeginStore
      <4>3. windows[j].snap[m] \in Nat /\ asked[m] \in Nat /\ snap[m] \in Nat
        BY <2>2, <2>3, <4>1 DEF IInv, TypeOK
      <4> QED
        BY <2>2, <3>2, <4>1, <4>2, <4>3
    <3>3. CASE j = key /\ k # key
      <4>1. windows[k].start <= start /\ start < windows[k].start
        BY <1>4, <2>2, <3>3 DEF IInv, BeginInv, BeginStore
      <4>2. windows[k].start \in Nat /\ start \in Nat
        BY <2>2, <3>3 DEF IInv, TypeOK
      <4> QED
        BY <4>1, <4>2
    <3> QED
      BY <2>2, <3>1, <3>2, <3>3
  <2>8. BeginInv' /\ EndInv'
    BY <1>4 DEF BeginStore, BeginInv, EndInv
  <2>9. Windows!Open(key)
    BY <1>4, <2>1, <2>2, <2>3, <2>5
    DEF IInv, TypeOK, BeginInv, BeginStore, Windows!Open, Windows!TakenDuringCall
  <2>10. Windows!Next
    <3>1. key \in Keys
      BY DEF IInv, TypeOK
    <3> QED
      BY <2>9, <3>1 DEF Windows!Next, Windows!Open
  <2> QED
    BY <2>4, <2>6, <2>7, <2>8, <2>10 DEF IInv
<1> QED
  BY <1>1, <1>2, <1>3, <1>4

(* The steps of end_window. *)
LEMMA EndStep ==
  ASSUME IInv, (\E k \in Keys : EndWindow(k)) \/ EndDelta \/ EndThrows \/ EndErase
  PROVE  /\ IInv'
         /\ [Windows!Next]_Windows!vars
<1>1. ASSUME NEW k \in Keys, EndWindow(k)
      PROVE  IInv' /\ Windows!Next
  <2>1. Read' = {}
    BY <1>1 DEF EndWindow, Read
  <2>2. now - windows[k].start \in Nat
    BY <1>1 DEF IInv, TypeOK, MeterInv, EndWindow
  <2>3. TypeOK'
    BY <1>1, <2>2, MetersAssumption DEF IInv, TypeOK, EndWindow, NoMap, Partial
  <2>4. MeterInv' /\ BeginInv' /\ EndInv' /\ WindowsNest'
    BY <1>1, <2>1
    DEF IInv, TypeOK, MeterInv, BeginInv, EndInv, WindowsNest, EndWindow, NoMap
  <2>5. Windows!Ask
    BY <1>1 DEF EndWindow, Windows!Ask
  <2> QED
    BY <2>3, <2>4, <2>5 DEF IInv, Windows!Next
<1>2. CASE EndDelta
  <2> DEFINE m == Meters[at]
             delta == meter[m] - windows[key].snap[m]
  <2>1. m \in Metrics /\ Read' = Read \cup {m} /\ Read \subseteq Metrics
    BY <1>2, ReadGrows DEF IInv, EndDelta, Read
  <2>2. key \in DOMAIN windows /\ windows[key] \in [start: Nat, snap: [Metrics -> Nat]]
    BY <1>2 DEF IInv, TypeOK, EndInv, EndDelta
  <2>3. delta \in Nat
    BY <1>2, <2>1, <2>2 DEF IInv, TypeOK, MeterInv
  <2>4. result' = Put(result, m, delta)
    BY <1>2, <2>1, <2>2 DEF EndDelta
  <2>5. at + 1 \in 1..(Len(Meters) + 1) /\ at' = at + 1
    BY <1>2, MetersAssumption DEF IInv, TypeOK, EndDelta
  <2>6. windows[key].snap[m] + delta = meter[m] /\ asked[m] <= meter[m]
        /\ meter[m] \in Nat
    BY <2>1, <2>2 DEF IInv, TypeOK, MeterInv
  <2> HIDE DEF m, delta
  <2>7. Partial(result')
    BY <2>1, <2>3, <2>4 DEF IInv, TypeOK, Put, Partial
  <2>8. TypeOK'
    BY <1>2, <2>5, <2>7 DEF IInv, TypeOK, EndDelta
  <2>9. EndInv'
    <3>1. DOMAIN result' = Read \cup {m}
          /\ \A x \in Read \cup {m} : result'[x] = IF x = m THEN delta ELSE result[x]
      BY <1>2, <2>4 DEF IInv, EndInv, EndDelta, Put
    <3> QED
      BY <1>2, <2>1, <2>6, <3>1 DEF IInv, EndInv, EndDelta
  <2>10. MeterInv' /\ BeginInv' /\ WindowsNest'
    BY <1>2 DEF IInv, MeterInv, BeginInv, WindowsNest, EndDelta
  <2>11. UNCHANGED Windows!vars
    BY <1>2 DEF EndDelta, Windows!vars
  <2> QED
    BY <2>8, <2>9, <2>10, <2>11 DEF IInv
<1>3. CASE EndThrows
  BY <1>3 DEF IInv, TypeOK, MeterInv, BeginInv, EndInv, WindowsNest, EndThrows, Partial,
              Windows!Next, Windows!Refuse
<1>4. CASE EndErase
  <2>1. /\ DOMAIN windows' = DOMAIN windows \ {key}
        /\ \A j \in DOMAIN windows' : windows'[j] = windows[j]
    BY <1>4 DEF EndErase, Erase
  <2>2. DOMAIN result = Metrics
    BY <1>4, ReadGrows DEF IInv, EndInv, EndErase
  <2>3. result \in [Metrics -> Nat]
    BY <2>2 DEF IInv, TypeOK, Partial
  <2>4. TypeOK'
    BY <1>4, <2>1, <2>3 DEF IInv, TypeOK, EndErase, Partial
  <2>5. MeterInv' /\ WindowsNest' /\ BeginInv' /\ EndInv'
    BY <1>4, <2>1 DEF IInv, MeterInv, WindowsNest, BeginInv, EndInv, EndErase
  <2>6. Windows!Close(key)
    <3>1. \A m \in Metrics : /\ asked[m] <= windows[key].snap[m] + result[m]
                             /\ windows[key].snap[m] + result[m] <= meter[m]
      BY <1>4, <2>2 DEF IInv, EndInv, EndErase
    <3>2. \A m \in Metrics : /\ windows[key].snap[m] + result[m] \in Nat
                             /\ asked[m] \in Nat /\ meter[m] \in Nat
      BY <1>4, <2>3 DEF IInv, TypeOK, EndInv, EndErase
    <3>3. key \in DOMAIN windows
      BY <1>4 DEF IInv, EndInv, EndErase
    <3> QED
      BY <1>4, <2>2, <2>3, <3>1, <3>2, <3>3
      DEF EndErase, Erase, Windows!Close, Windows!TakenDuringCall
  <2>7. Windows!Next
    <3>1. key \in Keys
      BY DEF IInv, TypeOK
    <3> QED
      BY <2>6, <3>1 DEF Windows!Next, Windows!Close
  <2> QED
    BY <2>4, <2>5, <2>7 DEF IInv
<1> QED
  BY <1>1, <1>2, <1>3, <1>4

LEMMA StepInv ==
  ASSUME IInv, [Next]_vars
  PROVE  IInv' /\ [Windows!Next]_Windows!vars
<1>1. CASE Tick \/ (\E m \in Metrics : Consume(m)) \/ UNCHANGED vars
  BY <1>1, EnvironmentStep DEF Windows!Next
<1>2. CASE (\E k \in Keys : BeginWindow(k)) \/ BeginSnapshot \/ BeginThrows \/ BeginStore
  BY <1>2, BeginStep
<1>3. CASE (\E k \in Keys : EndWindow(k)) \/ EndDelta \/ EndThrows \/ EndErase
  BY <1>3, EndStep
<1> QED
  BY <1>1, <1>2, <1>3 DEF Next

-----------------------------------------------------------------------------
(***************************************************************************)
(* The strengthened invariant holds of every run of energy_monitor.h: what *)
(* a call has read so far lies between the meters when it began and now.   *)
(***************************************************************************)
THEOREM Invariant == Spec => []IInv
<1>1. Init => IInv
  BY InitInv
<1>2. IInv /\ [Next]_vars => IInv'
  BY StepInv
<1> QED
  BY <1>1, <1>2, PTL DEF Spec

(* begin_window and end_window keep every stored window complete. *)
THEOREM TypeCorrect == Spec => []TypeOK
<1>1. IInv => TypeOK
  BY DEF IInv
<1> QED
  BY <1>1, Invariant, PTL

(* An inner window never reports more than the window around it. *)
THEOREM NestCorrect == Spec => []WindowsNest
<1>1. IInv => WindowsNest
  BY DEF IInv
<1> QED
  BY <1>1, Invariant, PTL

(***************************************************************************)
(* begin_window and end_window implement the windows of EnergyWindows, any *)
(* read of a backend being allowed to throw: each step of theirs opens or  *)
(* closes one window, starts or gives up a call, or is invisible.          *)
(***************************************************************************)
THEOREM Refinement == Spec => ImplementsWindows
<1>1. Init => Windows!Init
  BY DEF Init, Windows!Init, Windows!NoWindows, Windows!Zero, Zero
<1>2. IInv /\ [Next]_vars => [Windows!Next]_Windows!vars
  BY StepInv
<1> QED
  BY <1>1, <1>2, Invariant, PTL DEF Spec, ImplementsWindows, Windows!Spec
=============================================================================
