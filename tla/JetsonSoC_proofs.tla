--------------------------- MODULE JetsonSoC_proofs ---------------------------
(***************************************************************************)
(* Theorems about the Jetson backend, for any set of rails, users and      *)
(* readings.  The inductive invariant IInv is the conjunction of three     *)
(* parts: who holds which mutex at which control point, what the history   *)
(* variables say of the accumulator, and what a snapshot still says of it. *)
(***************************************************************************)
EXTENDS JetsonSoC, TLAPS

-----------------------------------------------------------------------------
(* Who holds what, and where the owner and the polling thread can be. *)
ControlInv ==
  /\ stopLock = "poller" <=> pc \in {"pred", "block"}
  /\ energyLock = "poller" <=> pc = "rails"
  /\ \A u \in Users : energyLock = u <=> upc[u] = "copying"
  /\ pc = "unborn" <=> owner = "constructing"
  /\ polling <=> owner \in {"live", "flag"}
  /\ pc = "block" => polling
  /\ pc = "done" => ~polling
  /\ owner = "join" /\ pc = "waiting" => notified
  /\ owner = "destroyed" => pc = "done"

(* What the accumulator stands for. *)
PeakPower(hi) == hi \in Powers /\ \A p \in Powers : p <= hi
LowPower(lo) == lo \in Powers /\ \A p \in Powers : lo <= p

AccumulatorInv ==
  /\ birth <= prev /\ prev <= now
  /\ todo # {} => pc \in {"lockEnergy", "rails"}
  /\ pc = "lockEnergy" => todo = Rails
  /\ pc \in {"unborn", "born"} => birth = prev
  /\ \A r \in Rails : asOf[r] = prev - birth - (IF r \in todo THEN dt ELSE 0)
  /\ \A r \in Rails : missed[r] <= asOf[r]
  /\ \A r \in Rails, hi \in Powers :
       PeakPower(hi) => energy[r] <= hi * (asOf[r] - missed[r])
  /\ \A r \in Rails, lo \in Powers :
       LowPower(lo) => energy[r] >= lo * (asOf[r] - missed[r])

(* Reading b was taken after reading a, and grew as the power allows. *)
Later(a, b) ==
  /\ a.asOf <= b.asOf
  /\ a.mj <= b.mj
  /\ a.missed <= b.missed
  /\ \A hi \in Powers : PeakPower(hi) =>
       b.mj - a.mj <= hi * ((b.asOf - a.asOf) - (b.missed - a.missed))

SnapshotInv ==
  \A u \in Users :
    /\ upc[u] = "copying" =>
         \A r \in Rails \ left[u] : snap[u][r] = Reading(r)
    /\ upc[u] = "copied" =>
         /\ \A q, r \in Rails : snap[u][q].asOf = snap[u][r].asOf
         /\ \A r \in Rails : Later(snap[u][r], Reading(r))
         /\ started[u] => \A r \in Rails : Later(base[u][r], snap[u][r])
    /\ started[u] => \A r \in Rails : Later(base[u][r], Reading(r))

IInv == TypeOK /\ ControlInv /\ AccumulatorInv /\ SnapshotInv
-----------------------------------------------------------------------------
(* Products of readings and durations. *)
LEMMA Product ==
  /\ \A a, b \in Nat : a * b \in Nat
  /\ \A a, b, c \in Nat : a <= b => a * c <= b * c
  /\ \A a, b, c \in Int : a * (b + c) = a * b + a * c
  OBVIOUS

(* Every behaviour starts in the invariant. *)
LEMMA InitInv == Init => IInv
<1> SUFFICES ASSUME Init PROVE IInv
  OBVIOUS
<1>1. TypeOK
  BY PowersAssumption, ClockAssumption, ThreadsAssumption
  DEF Init, TypeOK, PollerPoints, OwnerPoints, NoSnapshot, NoReading, Readings
<1>2. ControlInv
  BY ThreadsAssumption DEF Init, ControlInv
<1>3. AccumulatorInv
  BY PowersAssumption DEF Init, AccumulatorInv, PeakPower, LowPower
<1>4. SnapshotInv
  BY DEF Init, SnapshotInv
<1> QED
  BY <1>1, <1>2, <1>3, <1>4 DEF IInv

(* Every step keeps every variable within its type. *)
LEMMA TypeStep ==
  ASSUME TypeOK, AccumulatorInv, [Next]_vars
  PROVE  TypeOK'
<1> USE PowersAssumption, ClockAssumption, ThreadsAssumption
<1>1. CASE Tick
  BY <1>1 DEF TypeOK, Tick, pollVars, userVars, histVars
<1>2. CASE PollerBirth \/ PollerCheck \/ PollerLockEnergy
  BY <1>2 DEF TypeOK, PollerBirth, PollerCheck, PollerLockEnergy, PollerPoints,
              userVars, histVars
<1>3. CASE PollerStamp
  <2>1. now - prev \in Nat
    BY DEF TypeOK, AccumulatorInv
  <2> QED
    BY <1>3, <2>1 DEF TypeOK, PollerStamp, PollerPoints, userVars, histVars
<1>4. ASSUME NEW r \in Rails, NEW p \in Powers, PollerRail(r, p)
      PROVE  TypeOK'
  <2>1. energy[r] + p * dt \in Nat
    <3>1. p \in Nat /\ dt \in Nat /\ energy[r] \in Nat
      BY DEF TypeOK
    <3>2. p * dt \in Nat
      BY <3>1, Product
    <3> QED
      BY <3>1, <3>2
  <2>2. prev - birth \in Nat
    BY DEF TypeOK, AccumulatorInv
  <2>3. /\ energy' \in [Rails -> Nat]
        /\ asOf' \in [Rails -> Nat]
        /\ todo' \subseteq Rails
    BY <1>4, <2>1, <2>2 DEF TypeOK, PollerRail
  <2> QED
    BY <1>4, <2>3 DEF TypeOK, PollerRail, userVars, histVars
<1>5. ASSUME NEW r \in Rails, PollerRailFails(r)
      PROVE  TypeOK'
  <2>1. prev - birth \in Nat
    BY DEF TypeOK, AccumulatorInv
  <2>2. /\ missed' \in [Rails -> Nat]
        /\ asOf' \in [Rails -> Nat]
        /\ todo' \subseteq Rails
    BY <1>5, <2>1 DEF TypeOK, PollerRailFails
  <2> QED
    BY <1>5, <2>2 DEF TypeOK, PollerRailFails, userVars, histVars
<1>6. CASE PollerUnlockEnergy \/ PollerLockStop \/ PollerPredicate
  BY <1>6 DEF TypeOK, PollerUnlockEnergy, PollerLockStop, PollerPredicate,
              PollerPoints, userVars, histVars
<1>7. CASE PollerBlock \/ PollerWake \/ PollerSpuriousWake \/ PollerTimeout
  BY <1>7 DEF TypeOK, PollerBlock, PollerWake, PollerSpuriousWake, PollerTimeout,
              PollerPoints, userVars, histVars
<1>8. CASE Owner
  BY <1>8 DEF TypeOK, Owner, StartPolling, StopPolling, StopSetFlag, StopNotify,
              StopJoin, PollerPoints, OwnerPoints, pollVars, userVars, histVars
<1>9. ASSUME NEW u \in Users, SnapshotLock(u) \/ SnapshotUnlock(u)
                                \/ KeepAsStart(u) \/ DeltaReturned(u)
      PROVE  TypeOK'
  <2>1. CASE SnapshotLock(u)
    BY <2>1 DEF TypeOK, SnapshotLock, pollVars, histVars
  <2>2. CASE SnapshotUnlock(u)
    BY <2>2 DEF TypeOK, SnapshotUnlock, pollVars, histVars
  <2>3. CASE KeepAsStart(u)
    BY <2>3 DEF TypeOK, KeepAsStart, pollVars, histVars
  <2>4. CASE DeltaReturned(u)
    BY <2>4 DEF TypeOK, DeltaReturned, pollVars, userVars, histVars
  <2> QED
    BY <1>9, <2>1, <2>2, <2>3, <2>4
<1>10. ASSUME NEW u \in Users, NEW r \in Rails, SnapshotCopy(u, r)
       PROVE  TypeOK'
  <2>1. Reading(r) \in Readings
    BY DEF TypeOK, Reading, Readings
  <2>2. /\ snap' \in [Users -> [Rails -> Readings]]
        /\ left' \in [Users -> SUBSET Rails]
    BY <1>10, <2>1 DEF TypeOK, SnapshotCopy
  <2> QED
    BY <1>10, <2>2 DEF TypeOK, SnapshotCopy, pollVars, histVars
<1>11. CASE UNCHANGED vars
  BY <1>11 DEF TypeOK, vars, pollVars, userVars, histVars
<1> QED
  BY <1>1, <1>2, <1>3, <1>4, <1>5, <1>6, <1>7, <1>8, <1>9, <1>10, <1>11
  DEF Next, Poller, User, Terminated

(* The mutexes exclude, and the destructor neither loses its wake-up nor   *)
(* outruns the polling thread.                                             *)
LEMMA ControlStep ==
  ASSUME TypeOK, ControlInv, [Next]_vars
  PROVE  ControlInv'
<1> USE ThreadsAssumption
<1>1. CASE Tick
  BY <1>1 DEF ControlInv, Tick, pollVars, userVars
<1>2. CASE PollerBirth \/ PollerCheck \/ PollerStamp
  BY <1>2 DEF TypeOK, ControlInv, PollerBirth, PollerCheck, PollerStamp, userVars
<1>3. CASE PollerLockEnergy
  BY <1>3 DEF TypeOK, ControlInv, PollerLockEnergy, userVars
<1>4. ASSUME NEW r \in Rails, NEW p \in Powers, PollerRail(r, p)
      PROVE  ControlInv'
  BY <1>4 DEF ControlInv, PollerRail, userVars
<1>5. ASSUME NEW r \in Rails, PollerRailFails(r)
      PROVE  ControlInv'
  BY <1>5 DEF ControlInv, PollerRailFails, userVars
<1>6. CASE PollerUnlockEnergy
  BY <1>6 DEF TypeOK, ControlInv, PollerUnlockEnergy, userVars
<1>7. CASE PollerLockStop \/ PollerPredicate \/ PollerBlock
  BY <1>7 DEF TypeOK, ControlInv, PollerLockStop, PollerPredicate, PollerBlock,
              userVars
<1>8. CASE PollerWake \/ PollerSpuriousWake \/ PollerTimeout
  BY <1>8 DEF TypeOK, ControlInv, PollerWake, PollerSpuriousWake, PollerTimeout,
              userVars
<1>9. CASE StartPolling
  BY <1>9 DEF TypeOK, ControlInv, StartPolling, userVars
<1>10. CASE StopPolling \/ StopSetFlag \/ StopNotify \/ StopJoin
  <2>0. CASE StopPolling
    BY <2>0 DEF TypeOK, ControlInv, StopPolling, pollVars, userVars
  <2>1. CASE StopSetFlag
    BY <2>1 DEF TypeOK, ControlInv, StopSetFlag, userVars
  <2>2. CASE StopNotify
    BY <2>2 DEF TypeOK, ControlInv, StopNotify, userVars
  <2>3. CASE StopJoin
    BY <2>3 DEF TypeOK, ControlInv, StopJoin, pollVars, userVars
  <2> QED
    BY <1>10, <2>0, <2>1, <2>2, <2>3
<1>11. ASSUME NEW u \in Users, SnapshotLock(u)
       PROVE  ControlInv'
  BY <1>11 DEF TypeOK, ControlInv, SnapshotLock, pollVars
<1>12. ASSUME NEW u \in Users, SnapshotUnlock(u)
       PROVE  ControlInv'
  <2>1. energyLock = u /\ energyLock # "poller" /\ pc # "rails"
    BY <1>12 DEF ControlInv, SnapshotUnlock
  <2>2. \A v \in Users : (energyLock' = v) <=> (upc'[v] = "copying")
    BY <1>12, <2>1 DEF TypeOK, ControlInv, SnapshotUnlock
  <2> QED
    BY <1>12, <2>1, <2>2 DEF ControlInv, SnapshotUnlock, pollVars
<1>13. ASSUME NEW u \in Users, KeepAsStart(u) \/ DeltaReturned(u)
       PROVE  ControlInv'
  BY <1>13 DEF TypeOK, ControlInv, KeepAsStart, DeltaReturned, pollVars
<1>14. ASSUME NEW u \in Users, NEW r \in Rails, SnapshotCopy(u, r)
       PROVE  ControlInv'
  BY <1>14 DEF ControlInv, SnapshotCopy, pollVars
<1>15. CASE UNCHANGED vars
  BY <1>15 DEF ControlInv, vars, pollVars, userVars
<1> QED
  BY <1>1, <1>2, <1>3, <1>4, <1>5, <1>6, <1>7, <1>8, <1>9, <1>10, <1>11, <1>12,
     <1>13, <1>14, <1>15
  DEF Next, Poller, Owner, User, Terminated

(* Only the polling thread's own steps disturb the accounting. *)
LEMMA AccumulatorUnchanged ==
  ASSUME TypeOK, AccumulatorInv, now <= now', now' \in Nat,
         UNCHANGED <<prev, dt, todo, energy, birth, asOf, missed>>,
         todo = {} \/ UNCHANGED pc,
         pc' = "lockEnergy" => UNCHANGED pc,
         pc' \in {"unborn", "born"} => pc \in {"unborn", "born"}
  PROVE  AccumulatorInv'
<1>1. /\ birth' <= prev' /\ prev' <= now'
      /\ todo' # {} => pc' \in {"lockEnergy", "rails"}
      /\ pc' = "lockEnergy" => todo' = Rails
      /\ pc' \in {"unborn", "born"} => birth' = prev'
  BY DEF TypeOK, AccumulatorInv
<1>2. \A r \in Rails : asOf'[r] = prev' - birth' - (IF r \in todo' THEN dt' ELSE 0)
  BY DEF AccumulatorInv
<1>3. /\ \A r \in Rails : missed'[r] <= asOf'[r]
      /\ \A r \in Rails, hi \in Powers :
           PeakPower(hi) => energy'[r] <= hi * (asOf'[r] - missed'[r])
      /\ \A r \in Rails, lo \in Powers :
           LowPower(lo) => energy'[r] >= lo * (asOf'[r] - missed'[r])
  BY DEF AccumulatorInv
<1> QED
  BY <1>1, <1>2, <1>3 DEF AccumulatorInv, PeakPower, LowPower

(* A poll credits each rail with at most peak power over the time it       *)
(* covers, and covers every rail exactly once.                             *)
LEMMA AccumulatorStep ==
  ASSUME TypeOK, ControlInv, AccumulatorInv, [Next]_vars
  PROVE  AccumulatorInv'
<1> USE PowersAssumption
<1>1. CASE Tick
  BY <1>1, AccumulatorUnchanged DEF TypeOK, Tick, pollVars, histVars
<1>2. CASE PollerBirth
  <2>1. /\ todo = {} /\ birth = prev
        /\ \A r \in Rails : asOf[r] = 0
    BY <1>2 DEF TypeOK, AccumulatorInv, PollerBirth
  <2>2. /\ birth' <= prev' /\ prev' <= now'
        /\ todo' # {} => pc' \in {"lockEnergy", "rails"}
        /\ pc' = "lockEnergy" => todo' = Rails
        /\ pc' \in {"unborn", "born"} => birth' = prev'
        /\ \A r \in Rails :
             asOf'[r] = prev' - birth' - (IF r \in todo' THEN dt' ELSE 0)
    BY <1>2, <2>1 DEF TypeOK, PollerBirth
  <2> QED
    BY <1>2, <2>2 DEF AccumulatorInv, PollerBirth, PeakPower, LowPower
<1>3. CASE PollerCheck \/ PollerLockStop \/ PollerPredicate \/ PollerBlock
             \/ PollerWake \/ PollerSpuriousWake \/ PollerTimeout
  BY <1>3, AccumulatorUnchanged
  DEF TypeOK, AccumulatorInv, PollerCheck, PollerLockStop, PollerPredicate,
      PollerBlock, PollerWake, PollerSpuriousWake, PollerTimeout, histVars
<1>4. CASE PollerStamp
  <2>1. todo = {}
    BY <1>4 DEF PollerStamp, AccumulatorInv
  <2>2. \A r \in Rails : asOf[r] = prev - birth
    BY <2>1 DEF TypeOK, AccumulatorInv
  <2>3. /\ birth' <= prev' /\ prev' <= now'
        /\ todo' # {} => pc' \in {"lockEnergy", "rails"}
        /\ pc' = "lockEnergy" => todo' = Rails
        /\ pc' \in {"unborn", "born"} => birth' = prev'
        /\ \A r \in Rails :
             asOf'[r] = prev' - birth' - (IF r \in todo' THEN dt' ELSE 0)
    BY <1>4, <2>2 DEF TypeOK, AccumulatorInv, PollerStamp, histVars
  <2> QED
    BY <1>4, <2>3
    DEF AccumulatorInv, PollerStamp, PeakPower, LowPower, histVars
<1>5. CASE PollerLockEnergy
  BY <1>5 DEF AccumulatorInv, PollerLockEnergy, PeakPower, LowPower, histVars
<1>6. ASSUME NEW r \in Rails, NEW p \in Powers, PollerRail(r, p)
      PROVE  AccumulatorInv'
  <2> DEFINE x == asOf[r] - missed[r]
  <2>1. x \in Nat /\ asOf'[r] - missed'[r] = x + dt
    BY <1>6 DEF TypeOK, AccumulatorInv, PollerRail
  <2>2. energy'[r] = energy[r] + p * dt
    BY <1>6 DEF TypeOK, PollerRail
  <2>3. \A q \in Rails \ {r} : /\ energy'[q] = energy[q] /\ asOf'[q] = asOf[q]
                               /\ missed'[q] = missed[q]
    BY <1>6 DEF TypeOK, PollerRail
  <2>4. ASSUME NEW hi \in Powers, PeakPower(hi)
        PROVE  energy'[r] <= hi * (asOf'[r] - missed'[r])
    <3>1. energy[r] <= hi * x /\ p <= hi
      BY <2>4 DEF AccumulatorInv, PeakPower
    <3>2. p * dt <= hi * dt /\ hi * (x + dt) = hi * x + hi * dt
      BY <2>1, <3>1, Product DEF TypeOK
    <3>3. p \in Nat /\ hi \in Nat /\ dt \in Nat /\ energy[r] \in Nat
      BY DEF TypeOK
    <3>4. hi * x \in Nat /\ p * dt \in Nat /\ hi * dt \in Nat
      BY <2>1, <3>3, Product
    <3> HIDE DEF x
    <3> QED
      BY <2>1, <2>2, <3>1, <3>2, <3>3, <3>4
  <2>5. ASSUME NEW lo \in Powers, LowPower(lo)
        PROVE  energy'[r] >= lo * (asOf'[r] - missed'[r])
    <3>1. energy[r] >= lo * x /\ lo <= p
      BY <2>5 DEF AccumulatorInv, LowPower
    <3>2. lo * dt <= p * dt /\ lo * (x + dt) = lo * x + lo * dt
      BY <2>1, <3>1, Product DEF TypeOK
    <3>3. p \in Nat /\ lo \in Nat /\ dt \in Nat /\ energy[r] \in Nat
      BY DEF TypeOK
    <3>4. lo * x \in Nat /\ p * dt \in Nat /\ lo * dt \in Nat
      BY <2>1, <3>3, Product
    <3> HIDE DEF x
    <3> QED
      BY <2>1, <2>2, <3>1, <3>2, <3>3, <3>4
  <2>6. \A q \in Rails : missed'[q] <= asOf'[q]
    BY <1>6, <2>1, <2>3 DEF TypeOK, AccumulatorInv, PollerRail
  <2>7. \A q \in Rails, hi \in Powers :
          PeakPower(hi) => energy'[q] <= hi * (asOf'[q] - missed'[q])
    BY <2>3, <2>4 DEF AccumulatorInv
  <2>8. \A q \in Rails, lo \in Powers :
          LowPower(lo) => energy'[q] >= lo * (asOf'[q] - missed'[q])
    BY <2>3, <2>5 DEF AccumulatorInv
  <2>9. /\ birth' <= prev' /\ prev' <= now'
        /\ todo' # {} => pc' \in {"lockEnergy", "rails"}
        /\ pc' = "lockEnergy" => todo' = Rails
        /\ pc' \in {"unborn", "born"} => birth' = prev'
    BY <1>6 DEF AccumulatorInv, PollerRail
  <2>10. \A q \in Rails :
           asOf'[q] = prev' - birth' - (IF q \in todo' THEN dt' ELSE 0)
    <3>1. /\ asOf'[r] = prev' - birth' /\ r \notin todo'
          /\ UNCHANGED <<prev, birth, dt>>
      BY <1>6 DEF TypeOK, PollerRail
    <3>2. \A q \in Rails \ {r} : asOf'[q] = asOf[q] /\ (q \in todo' <=> q \in todo)
      BY <1>6 DEF TypeOK, PollerRail
    <3>3. \A q \in Rails : asOf[q] = prev - birth - (IF q \in todo THEN dt ELSE 0)
      BY DEF AccumulatorInv
    <3>4. prev \in Int /\ birth \in Int
      BY DEF TypeOK
    <3> QED
      BY <3>1, <3>2, <3>3, <3>4
  <2> QED
    BY <2>6, <2>7, <2>8, <2>9, <2>10 DEF AccumulatorInv, PeakPower, LowPower
<1>7. ASSUME NEW r \in Rails, PollerRailFails(r)
      PROVE  AccumulatorInv'
  <2>1. asOf'[r] - missed'[r] = asOf[r] - missed[r] /\ missed'[r] <= asOf'[r]
    BY <1>7 DEF TypeOK, AccumulatorInv, PollerRailFails
  <2>2. \A q \in Rails \ {r} : asOf'[q] = asOf[q] /\ missed'[q] = missed[q]
    BY <1>7 DEF TypeOK, PollerRailFails
  <2>3. \A q \in Rails : /\ asOf'[q] - missed'[q] = asOf[q] - missed[q]
                        /\ missed'[q] <= asOf'[q]
    BY <2>1, <2>2 DEF AccumulatorInv
  <2>4. /\ birth' <= prev' /\ prev' <= now'
        /\ todo' # {} => pc' \in {"lockEnergy", "rails"}
        /\ pc' = "lockEnergy" => todo' = Rails
        /\ pc' \in {"unborn", "born"} => birth' = prev'
    BY <1>7 DEF AccumulatorInv, PollerRailFails
  <2>5. \A q \in Rails :
          asOf'[q] = prev' - birth' - (IF q \in todo' THEN dt' ELSE 0)
    <3>1. /\ asOf'[r] = prev' - birth' /\ r \notin todo'
          /\ UNCHANGED <<prev, birth, dt>>
      BY <1>7 DEF TypeOK, PollerRailFails
    <3>2. \A q \in Rails \ {r} : asOf'[q] = asOf[q] /\ (q \in todo' <=> q \in todo)
      BY <1>7 DEF TypeOK, PollerRailFails
    <3>3. \A q \in Rails : asOf[q] = prev - birth - (IF q \in todo THEN dt ELSE 0)
      BY DEF AccumulatorInv
    <3>4. prev \in Int /\ birth \in Int
      BY DEF TypeOK
    <3> QED
      BY <3>1, <3>2, <3>3, <3>4
  <2> QED
    BY <1>7, <2>3, <2>4, <2>5
    DEF AccumulatorInv, PollerRailFails, PeakPower, LowPower
<1>8. CASE PollerUnlockEnergy
  BY <1>8 DEF AccumulatorInv, PollerUnlockEnergy, PeakPower, LowPower, histVars
<1>9. CASE StartPolling
  BY <1>9, AccumulatorUnchanged
  DEF TypeOK, ControlInv, AccumulatorInv, StartPolling, histVars
<1>10. CASE StopPolling \/ StopSetFlag \/ StopNotify \/ StopJoin
  BY <1>10, AccumulatorUnchanged
  DEF TypeOK, StopPolling, StopSetFlag, StopNotify, StopJoin, pollVars, histVars
<1>11. ASSUME NEW u \in Users, User(u)
       PROVE  AccumulatorInv'
  BY <1>11, AccumulatorUnchanged
  DEF TypeOK, User, SnapshotLock, SnapshotUnlock, KeepAsStart, DeltaReturned,
      SnapshotCopy, pollVars, histVars
<1>12. CASE UNCHANGED vars
  BY <1>12, AccumulatorUnchanged DEF TypeOK, vars, pollVars, histVars
<1> QED
  BY <1>1, <1>2, <1>3, <1>4, <1>5, <1>6, <1>7, <1>8, <1>9, <1>10, <1>11, <1>12
  DEF Next, Poller, Owner, Terminated

-----------------------------------------------------------------------------
(* "Later" is a preorder on readings. *)
LEMMA LaterReflexive == \A a \in Readings : Later(a, a)
<1> SUFFICES ASSUME NEW a \in Readings, NEW hi \in Powers
             PROVE  a.mj - a.mj <= hi * ((a.asOf - a.asOf) - (a.missed - a.missed))
  BY DEF Later, Readings
<1>1. a.mj - a.mj = 0 /\ (a.asOf - a.asOf) - (a.missed - a.missed) = 0
  BY DEF Readings
<1> QED
  BY <1>1, PowersAssumption

LEMMA LaterTransitive ==
  ASSUME NEW a \in Readings, NEW b \in Readings, NEW c \in Readings,
         Later(a, b), Later(b, c)
  PROVE  Later(a, c)
<1>1. a.asOf <= c.asOf /\ a.mj <= c.mj /\ a.missed <= c.missed
  BY DEF Later, Readings
<1>2. ASSUME NEW hi \in Powers, PeakPower(hi)
      PROVE  c.mj - a.mj <= hi * ((c.asOf - a.asOf) - (c.missed - a.missed))
  <2> DEFINE x == (b.asOf - a.asOf) - (b.missed - a.missed)
             y == (c.asOf - b.asOf) - (c.missed - b.missed)
  <2>1. b.mj - a.mj <= hi * x /\ c.mj - b.mj <= hi * y
    BY <1>2 DEF Later
  <2>2. hi * (x + y) = hi * x + hi * y
    BY PowersAssumption, Product DEF Readings
  <2>3. (c.asOf - a.asOf) - (c.missed - a.missed) = x + y
    BY DEF Readings
  <2>4. hi * x \in Int /\ hi * y \in Int
    BY PowersAssumption, Product DEF Readings
  <2>5. a.mj \in Int /\ b.mj \in Int /\ c.mj \in Int
    BY DEF Readings
  <2> HIDE DEF x, y
  <2> QED
    BY <2>1, <2>2, <2>3, <2>4, <2>5
<1> QED
  BY <1>1, <1>2 DEF Later

(* A poll only makes readings later. *)
LEMMA ReadingGrows ==
  ASSUME TypeOK, AccumulatorInv, TypeOK', NEW r \in Rails,
         (\E p \in Powers : PollerRail(r, p)) \/ PollerRailFails(r)
  PROVE  \A q \in Rails : Later(Reading(q), Reading(q)')
<1>1. \A q \in Rails : Reading(q) \in Readings
  BY DEF TypeOK, Reading, Readings
<1>2. \A q \in Rails \ {r} : Reading(q)' = Reading(q)
  BY DEF TypeOK, Reading, PollerRail, PollerRailFails
<1>3. asOf'[r] = asOf[r] + dt
  BY DEF TypeOK, AccumulatorInv, PollerRail, PollerRailFails
<1>4. ASSUME NEW p \in Powers, PollerRail(r, p)
      PROVE  Later(Reading(r), Reading(r)')
  <2>1. energy'[r] = energy[r] + p * dt /\ missed'[r] = missed[r]
    BY <1>4 DEF TypeOK, PollerRail
  <2>2. p * dt \in Nat /\ energy[r] \in Nat /\ missed[r] \in Nat /\ dt \in Nat
        /\ asOf[r] \in Nat
    BY PowersAssumption, Product DEF TypeOK
  <2>3. ASSUME NEW hi \in Powers, PeakPower(hi)
        PROVE  energy'[r] - energy[r]
                 <= hi * ((asOf'[r] - asOf[r]) - (missed'[r] - missed[r]))
    <3>1. p * dt <= hi * dt
      BY <2>2, <2>3, PowersAssumption, Product DEF PeakPower
    <3>2. energy'[r] - energy[r] = p * dt
      BY <2>1, <2>2
    <3>3. (asOf'[r] - asOf[r]) - (missed'[r] - missed[r]) = dt
      BY <1>3, <2>1, <2>2
    <3> QED
      BY <3>1, <3>2, <3>3
  <2> QED
    BY <1>3, <2>1, <2>2, <2>3 DEF Later, Reading
<1>5. ASSUME PollerRailFails(r)
      PROVE  Later(Reading(r), Reading(r)')
  <2>1. energy'[r] = energy[r] /\ missed'[r] = missed[r] + dt
    BY <1>5 DEF TypeOK, PollerRailFails
  <2>2. energy[r] \in Nat /\ missed[r] \in Nat /\ dt \in Nat /\ asOf[r] \in Nat
    BY DEF TypeOK
  <2>3. (asOf'[r] - asOf[r]) - (missed'[r] - missed[r]) = 0
    BY <1>3, <2>1, <2>2
  <2>4. \A hi \in Powers :
          hi * ((asOf'[r] - asOf[r]) - (missed'[r] - missed[r])) = 0
    BY <2>3, PowersAssumption
  <2> QED
    BY <1>3, <2>1, <2>2, <2>3, <2>4 DEF Later, Reading
<1>6. ASSUME NEW q \in Rails \ {r}
      PROVE  Later(Reading(q), Reading(q)')
  BY <1>1, <1>2, LaterReflexive
<1>7. Later(Reading(r), Reading(r)')
  BY <1>4, <1>5
<1> QED
  BY <1>6, <1>7

(* Steps that touch neither the accumulator nor the users' variables. *)
LEMMA SnapshotUnchanged ==
  ASSUME SnapshotInv, UNCHANGED <<energy, asOf, missed>>, UNCHANGED userVars
  PROVE  SnapshotInv'
  BY DEF SnapshotInv, Reading, Later, PeakPower, userVars

(* A snapshot stays what it was; the accumulator moves on from it. *)
LEMMA SnapshotStep ==
  ASSUME IInv, TypeOK', [Next]_vars
  PROVE  SnapshotInv'
<1> USE DEF IInv
<1>1. CASE Tick \/ UNCHANGED vars
  BY <1>1, SnapshotUnchanged DEF Tick, vars, histVars
<1>2. CASE PollerBirth \/ PollerCheck \/ PollerStamp \/ PollerLockEnergy
           \/ PollerUnlockEnergy \/ PollerLockStop \/ PollerPredicate
           \/ PollerBlock \/ PollerWake \/ PollerSpuriousWake \/ PollerTimeout
  BY <1>2, SnapshotUnchanged
  DEF PollerBirth, PollerCheck, PollerStamp, PollerLockEnergy, PollerUnlockEnergy,
      PollerLockStop, PollerPredicate, PollerBlock, PollerWake, PollerSpuriousWake,
      PollerTimeout, histVars
<1>3. CASE Owner
  BY <1>3, SnapshotUnchanged
  DEF Owner, StartPolling, StopPolling, StopSetFlag, StopNotify, StopJoin, histVars
<1>4. ASSUME NEW r \in Rails,
             (\E p \in Powers : PollerRail(r, p)) \/ PollerRailFails(r)
      PROVE  SnapshotInv'
  <2>1. UNCHANGED userVars /\ \A u \in Users : upc[u] # "copying"
    BY <1>4, ThreadsAssumption DEF ControlInv, PollerRail, PollerRailFails
  <2>2. \A q \in Rails : Later(Reading(q), Reading(q)')
    BY <1>4, ReadingGrows
  <2>3. \A q \in Rails : Reading(q) \in Readings /\ Reading(q)' \in Readings
    BY DEF TypeOK, Reading, Readings
  <2>4. ASSUME NEW u \in Users, NEW q \in Rails
        PROVE  /\ Later(snap[u][q], Reading(q)) => Later(snap[u][q], Reading(q)')
               /\ Later(base[u][q], Reading(q)) => Later(base[u][q], Reading(q)')
    <3>1. snap[u][q] \in Readings /\ base[u][q] \in Readings
      BY DEF TypeOK
    <3> QED
      BY <2>2, <2>3, <3>1, LaterTransitive
  <2> QED
    BY <2>1, <2>4 DEF SnapshotInv, userVars, Later, PeakPower
<1>5. ASSUME NEW u \in Users, User(u)
      PROVE  SnapshotInv'
  <2>1. UNCHANGED <<energy, asOf, missed>> /\ \A r \in Rails : Reading(r)' = Reading(r)
    BY <1>5 DEF User, SnapshotLock, SnapshotUnlock, KeepAsStart, DeltaReturned,
                SnapshotCopy, histVars, Reading
  <2>2. \A v \in Users \ {u} :
          /\ upc'[v] = upc[v] /\ left'[v] = left[v] /\ snap'[v] = snap[v]
          /\ started'[v] = started[v] /\ base'[v] = base[v]
    BY <1>5 DEF TypeOK, User, SnapshotLock, SnapshotUnlock, KeepAsStart,
                DeltaReturned, SnapshotCopy
  <2> DEFINE Part(v) ==
        /\ upc[v] = "copying" =>
             \A r \in Rails \ left[v] : snap[v][r] = Reading(r)
        /\ upc[v] = "copied" =>
             /\ \A q, r \in Rails : snap[v][q].asOf = snap[v][r].asOf
             /\ \A r \in Rails : Later(snap[v][r], Reading(r))
             /\ started[v] => \A r \in Rails : Later(base[v][r], snap[v][r])
        /\ started[v] => \A r \in Rails : Later(base[v][r], Reading(r))
  <2>3. Part(u)
    BY DEF SnapshotInv
  <2>4. \A v \in Users \ {u} : Part(v)'
    BY <2>1, <2>2 DEF SnapshotInv, Later, PeakPower
  <2> SUFFICES Part(u)'
    BY <2>4 DEF SnapshotInv
  <2>5. CASE SnapshotLock(u)
    BY <2>1, <2>3, <2>5 DEF TypeOK, SnapshotLock, Later, PeakPower
  <2>6. CASE SnapshotUnlock(u)
    <3>1. \A r \in Rails : snap[u][r] = Reading(r)
      BY <2>3, <2>6 DEF SnapshotUnlock
    <3>2. \A q, r \in Rails : asOf[q] = asOf[r]
      BY <2>6, ThreadsAssumption
      DEF ControlInv, AccumulatorInv, SnapshotUnlock
    <3>3. \A r \in Rails : Reading(r) \in Readings
      BY DEF TypeOK, Reading, Readings
    <3>4. \A r \in Rails : Later(Reading(r), Reading(r))
      BY <3>3, LaterReflexive
    <3>5. /\ upc'[u] = "copied"
          /\ \A r \in Rails : snap'[u][r] = Reading(r)
          /\ started'[u] = started[u] /\ base'[u] = base[u]
      BY <2>6, <3>1 DEF TypeOK, SnapshotUnlock
    <3>6. \A q, r \in Rails : snap'[u][q].asOf = snap'[u][r].asOf
      <4>1. \A r \in Rails : Reading(r).asOf = asOf[r]
        BY DEF Reading
      <4> QED
        BY <3>2, <3>5, <4>1, Zenon
    <3> QED
      BY <2>1, <2>3, <3>4, <3>5, <3>6 DEF Later, PeakPower
  <2>7. CASE KeepAsStart(u)
    BY <2>1, <2>3, <2>7 DEF TypeOK, KeepAsStart, Later, PeakPower
  <2>8. CASE DeltaReturned(u)
    BY <2>1, <2>3, <2>8 DEF TypeOK, DeltaReturned, Later, PeakPower
  <2>9. ASSUME NEW r \in Rails, SnapshotCopy(u, r)
        PROVE  Part(u)'
    BY <2>1, <2>3, <2>9 DEF TypeOK, SnapshotCopy, Later, PeakPower
  <2> QED
    BY <1>5, <2>5, <2>6, <2>7, <2>8, <2>9 DEF User
<1> QED
  BY <1>1, <1>2, <1>3, <1>4, <1>5 DEF Next, Poller, Terminated

-----------------------------------------------------------------------------
(* The invariant holds throughout. *)
THEOREM Invariant == Spec => []IInv
<1>1. IInv /\ [Next]_vars => IInv'
  BY TypeStep, ControlStep, AccumulatorStep, SnapshotStep DEF IInv
<1> QED
  BY <1>1, InitInv, PTL DEF Spec

(* Every variable stays within its type (soc_jetson.h, the members of      *)
(* JetsonSoCBackend and the locals of its polling thread).                 *)
THEOREM TypeCorrect == Spec => []TypeOK
<1>1. IInv => TypeOK
  BY DEF IInv
<1> QED
  BY <1>1, Invariant, PTL

(* stop_polling never leaves the polling thread asleep on a wake-up that   *)
(* was sent before it slept.                                               *)
THEOREM WakeupDelivered == Spec => []NoLostWakeup
<1>1. IInv => NoLostWakeup
  BY DEF IInv, ControlInv, NoLostWakeup
<1> QED
  BY <1>1, Invariant, PTL

(* The polling thread has ended when the destructor returns. *)
THEOREM PollerOutlived == Spec => []NoPollAfterDestruction
<1>1. IInv => NoPollAfterDestruction
  BY DEF IInv, ControlInv, NoPollAfterDestruction
<1> QED
  BY <1>1, Invariant, PTL

(* The accumulator is bounded by peak and lowest power over the time whose *)
(* reads succeeded.                                                        *)
THEOREM EnergyBounded == Spec => []EnergyEnvelope
<1>1. IInv => EnergyEnvelope
  BY DEF IInv, AccumulatorInv, EnergyEnvelope, PeakPower, LowPower
<1> QED
  BY <1>1, Invariant, PTL

(* snapshot_energy_j returns all rails as of one poll. *)
THEOREM SnapshotsConsistent == Spec => []SnapshotIsOneInstant
<1>1. IInv => SnapshotIsOneInstant
  BY DEF IInv, SnapshotInv, SnapshotIsOneInstant
<1> QED
  BY <1>1, Invariant, PTL

(* compute_energy_delta_j is non-negative and bounded by peak power over   *)
(* the polls between the two snapshots.                                    *)
THEOREM WindowsBounded == Spec => []WindowEnvelope
<1>1. ASSUME IInv
      PROVE  WindowEnvelope
  <2> SUFFICES ASSUME NEW u \in Users, upc[u] = "copied", started[u],
                      NEW r \in Rails
               PROVE  /\ Delta(u)[r] >= 0
                      /\ snap[u][r].asOf <= now - birth
                      /\ \A hi \in Powers : (\A p \in Powers : p <= hi) =>
                           Delta(u)[r] <= hi * ((snap[u][r].asOf - base[u][r].asOf)
                                        - (snap[u][r].missed - base[u][r].missed))
    BY DEF WindowEnvelope
  <2>1. Later(base[u][r], snap[u][r]) /\ Later(snap[u][r], Reading(r))
    BY <1>1 DEF IInv, SnapshotInv
  <2>2. snap[u][r] \in Readings /\ base[u][r] \in Readings
    BY <1>1 DEF IInv, TypeOK
  <2>3. asOf[r] <= now - birth
    <3>1. /\ asOf[r] = prev - birth - (IF r \in todo THEN dt ELSE 0)
          /\ prev <= now
      BY <1>1 DEF IInv, AccumulatorInv
    <3>2. asOf[r] \in Nat /\ prev \in Nat /\ birth \in Nat /\ dt \in Nat /\ now \in Nat
      BY <1>1 DEF IInv, TypeOK
    <3> QED
      BY <3>1, <3>2
  <2> QED
    BY <1>1, <2>1, <2>2, <2>3 DEF IInv, TypeOK, Delta, Later, PeakPower, Reading, Readings
<1> QED
  BY <1>1, Invariant, PTL
=============================================================================
