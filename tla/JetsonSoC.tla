------------------------------ MODULE JetsonSoC ------------------------------
(***************************************************************************)
(* The Jetson backend of device/soc_jetson.h: a polling thread that        *)
(* integrates rail power into a shared accumulator, user threads that take *)
(* snapshots of it, and the owner that constructs and destroys the object. *)
(*                                                                         *)
(* Two mutexes and one condition variable are involved: energy_mutex_      *)
(* guards the accumulator, stop_mutex_ and stop_cv_ make the sleep between *)
(* polls interruptible.  Every atomic step of the C++ code that another    *)
(* thread can observe is an action of its own.                             *)
(***************************************************************************)
EXTENDS Integers

CONSTANTS
  Rails,         \* the power rails discovered at construction
  Users,         \* user threads that take snapshots
  Powers,        \* the readings (mW) a rail can return
  PollInterval,  \* polling_interval_, in clock ticks
  MaxTime,       \* bound: the clock stops here
  NoOne          \* the holder of a free mutex

ASSUME RailsAssumption == Rails # {}
ASSUME PowersAssumption == Powers # {} /\ Powers \subseteq Nat
ASSUME ClockAssumption == PollInterval \in Nat \ {0} /\ MaxTime \in Nat
ASSUME ThreadsAssumption ==
  /\ "poller" \notin Users /\ "owner" \notin Users /\ NoOne \notin Users
  /\ NoOne \notin {"poller", "owner"}

VARIABLES
  now,         \* steady_clock
  polling,     \* polling_active_
  pc,          \* the control point of the polling thread
  prev,        \* prev_ts
  dt,          \* time covered by the poll in progress
  todo,        \* rails the poll in progress has not reached yet
  deadline,    \* when the wait_for in progress times out
  notified,    \* a notify_one has reached the waiting polling thread
  energyLock,  \* holder of energy_mutex_
  stopLock,    \* holder of stop_mutex_
  energy,      \* cumulative_energy_mj_
  owner,       \* the control point of the owning thread
  upc,         \* the control point of each user thread
  left,        \* the rails each user thread has not copied yet
  snap,        \* the map each user thread is filling: rail -> reading
  started,     \* the user thread holds a start snapshot ...
  base,        \* ... namely this one
  birth,       \* history: the clock at the polling thread's first statement
  asOf,        \* history: how long after birth a rail was last processed
  missed       \* history: time a rail lost to failed reads

pollVars == <<polling, pc, prev, dt, todo, deadline, notified>>
userVars == <<upc, left, snap, started, base>>
histVars == <<birth, asOf, missed>>
vars == <<now, pollVars, energyLock, stopLock, energy, owner, userVars, histVars>>

(***************************************************************************)
(* A rail's entry in a snapshot.  Only "mj" exists in the program; the two *)
(* history fields say which part of the past the reading stands for.       *)
(***************************************************************************)
Reading(r) == [mj |-> energy[r], asOf |-> asOf[r], missed |-> missed[r]]
Readings == [mj: Nat, asOf: Nat, missed: Nat]
NoReading == [mj |-> 0, asOf |-> 0, missed |-> 0]
NoSnapshot == [r \in Rails |-> NoReading]

Init ==
  /\ now = 0 /\ polling = FALSE /\ pc = "unborn"
  /\ prev = 0 /\ dt = 0 /\ todo = {} /\ deadline = 0 /\ notified = FALSE
  /\ energyLock = NoOne /\ stopLock = NoOne
  /\ energy = [r \in Rails |-> 0]
  /\ owner = "constructing"
  /\ upc = [u \in Users |-> "idle"]
  /\ left = [u \in Users |-> {}]
  /\ snap = [u \in Users |-> NoSnapshot]
  /\ started = [u \in Users |-> FALSE]
  /\ base = [u \in Users |-> NoSnapshot]
  /\ birth = 0
  /\ asOf = [r \in Rails |-> 0]
  /\ missed = [r \in Rails |-> 0]

-----------------------------------------------------------------------------
(* Time passes between any two steps of any thread. *)

Tick ==
  /\ now < MaxTime
  /\ now' = now + 1
  /\ UNCHANGED <<pollVars, energyLock, stopLock, energy, owner, userVars, histVars>>

-----------------------------------------------------------------------------
(* The polling thread. *)

PollerBirth ==
  /\ pc = "born"
  /\ prev' = now /\ birth' = now
  /\ pc' = "check"
  /\ UNCHANGED <<now, polling, dt, todo, deadline, notified, energyLock, stopLock,
                 energy, owner, userVars, asOf, missed>>

PollerCheckForgotten ==
  /\ pc = "check"
  /\ pc' = "stamp"
  /\ UNCHANGED <<now, polling, prev, dt, todo, deadline, notified, energyLock,
                 stopLock, energy, owner, userVars, histVars>>

PollerCheck ==
  /\ pc = "check"
  /\ pc' = IF polling THEN "stamp" ELSE "done"
  /\ UNCHANGED <<now, polling, prev, dt, todo, deadline, notified, energyLock,
                 stopLock, energy, owner, userVars, histVars>>

PollerStampForgetsPrev ==
  /\ pc = "stamp"
  /\ dt' = now - prev /\ todo' = Rails
  /\ pc' = "lockEnergy"
  /\ UNCHANGED <<now, polling, prev, deadline, notified, energyLock, stopLock,
                 energy, owner, userVars, histVars>>

PollerStamp ==
  /\ pc = "stamp"
  /\ dt' = now - prev /\ prev' = now /\ todo' = Rails
  /\ pc' = "lockEnergy"
  /\ UNCHANGED <<now, polling, deadline, notified, energyLock, stopLock, energy,
                 owner, userVars, histVars>>

PollerLockEnergy ==
  /\ pc = "lockEnergy" /\ energyLock = NoOne
  /\ energyLock' = "poller"
  /\ pc' = "rails"
  /\ UNCHANGED <<now, polling, prev, dt, todo, deadline, notified, stopLock,
                 energy, owner, userVars, histVars>>

PollerRailDoubled(r, p) ==
  /\ pc = "rails" /\ r \in todo
  /\ energy' = [energy EXCEPT ![r] = @ + p * (dt + 1)]
  /\ asOf' = [asOf EXCEPT ![r] = prev - birth]
  /\ todo' = todo \ {r}
  /\ UNCHANGED <<now, polling, pc, prev, dt, deadline, notified, energyLock,
                 stopLock, owner, userVars, birth, missed>>

PollerRail(r, p) ==
  /\ pc = "rails" /\ r \in todo
  /\ energy' = [energy EXCEPT ![r] = @ + p * dt]
  /\ asOf' = [asOf EXCEPT ![r] = prev - birth]
  /\ todo' = todo \ {r}
  /\ UNCHANGED <<now, polling, pc, prev, dt, deadline, notified, energyLock,
                 stopLock, owner, userVars, birth, missed>>

(* read_power_mw throws and the exception is swallowed: the interval is lost. *)
PollerRailFails(r) ==
  /\ pc = "rails" /\ r \in todo
  /\ missed' = [missed EXCEPT ![r] = @ + dt]
  /\ asOf' = [asOf EXCEPT ![r] = prev - birth]
  /\ todo' = todo \ {r}
  /\ UNCHANGED <<now, polling, pc, prev, dt, deadline, notified, energyLock,
                 stopLock, energy, owner, userVars, birth>>

PollerUnlockEnergy ==
  /\ pc = "rails" /\ todo = {}
  /\ energyLock' = NoOne
  /\ pc' = "lockStop"
  /\ UNCHANGED <<now, polling, prev, dt, todo, deadline, notified, stopLock,
                 energy, owner, userVars, histVars>>

PollerLockStop ==
  /\ pc = "lockStop" /\ stopLock = NoOne
  /\ stopLock' = "poller"
  /\ deadline' = now + PollInterval
  /\ pc' = "pred"
  /\ UNCHANGED <<now, polling, prev, dt, todo, notified, energyLock, energy,
                 owner, userVars, histVars>>

(* The predicate of wait_for, evaluated with stop_mutex_ held. *)
PollerPredicate ==
  /\ pc = "pred"
  /\ IF polling THEN pc' = "block" /\ UNCHANGED stopLock
                ELSE pc' = "check" /\ stopLock' = NoOne
  /\ UNCHANGED <<now, polling, prev, dt, todo, deadline, notified, energyLock,
                 energy, owner, userVars, histVars>>

(* Releasing stop_mutex_ and blocking on stop_cv_ is one atomic step. *)
PollerBlock ==
  /\ pc = "block"
  /\ stopLock' = NoOne /\ notified' = FALSE
  /\ pc' = "waiting"
  /\ UNCHANGED <<now, polling, prev, dt, todo, deadline, energyLock, energy,
                 owner, userVars, histVars>>

(* Woken by notify_one, or spuriously: the predicate is evaluated again. *)
PollerWake ==
  /\ pc = "waiting" /\ notified /\ stopLock = NoOne
  /\ stopLock' = "poller"
  /\ pc' = "pred"
  /\ UNCHANGED <<now, polling, prev, dt, todo, deadline, notified, energyLock,
                 energy, owner, userVars, histVars>>

PollerSpuriousWake ==
  /\ pc = "waiting" /\ ~notified /\ stopLock = NoOne
  /\ stopLock' = "poller"
  /\ pc' = "pred"
  /\ UNCHANGED <<now, polling, prev, dt, todo, deadline, notified, energyLock,
                 energy, owner, userVars, histVars>>

(* The timeout ends wait_for whatever the predicate says. *)
PollerTimeout ==
  /\ pc = "waiting" /\ now >= deadline /\ stopLock = NoOne
  /\ pc' = "check"
  /\ UNCHANGED <<now, polling, prev, dt, todo, deadline, notified, energyLock,
                 stopLock, energy, owner, userVars, histVars>>

-----------------------------------------------------------------------------
(* The owner: constructor and destructor. *)

StartPolling ==
  /\ owner = "constructing"
  /\ polling' = TRUE /\ pc' = "born"
  /\ owner' = "live"
  /\ UNCHANGED <<now, prev, dt, todo, deadline, notified, energyLock, stopLock,
                 energy, userVars, histVars>>

(* The program destroys the monitor only when no call into it is running. *)
StopPolling ==
  /\ owner = "live" /\ \A u \in Users : upc[u] = "idle"
  /\ owner' = IF polling THEN "flag" ELSE "destroyed"
  /\ UNCHANGED <<now, pollVars, energyLock, stopLock, energy, userVars, histVars>>

(* Lock stop_mutex_, clear the flag, unlock: one critical section. *)
StopSetFlag ==
  /\ owner = "flag" /\ stopLock = NoOne
  /\ polling' = FALSE
  /\ owner' = "notify"
  /\ UNCHANGED <<now, pc, prev, dt, todo, deadline, notified, energyLock, stopLock,
                 energy, userVars, histVars>>

StopNotify ==
  /\ owner = "notify"
  /\ notified' = (notified \/ pc = "waiting")
  /\ owner' = "join"
  /\ UNCHANGED <<now, polling, pc, prev, dt, todo, deadline, energyLock, stopLock,
                 energy, userVars, histVars>>

StopJoin ==
  /\ owner = "join" /\ pc = "done"
  /\ owner' = "destroyed"
  /\ UNCHANGED <<now, pollVars, energyLock, stopLock, energy, userVars, histVars>>

-----------------------------------------------------------------------------
(* User threads: snapshot_energy_j, and compute_energy_delta_j around it. *)

SnapshotUnlocked(u) ==
  /\ owner = "live" /\ upc[u] = "idle"
  /\ UNCHANGED energyLock
  /\ upc' = [upc EXCEPT ![u] = "copying"]
  /\ left' = [left EXCEPT ![u] = Rails]
  /\ UNCHANGED <<now, pollVars, stopLock, energy, owner, snap, started, base,
                 histVars>>

SnapshotLock(u) ==
  /\ owner = "live" /\ upc[u] = "idle" /\ energyLock = NoOne
  /\ energyLock' = u
  /\ upc' = [upc EXCEPT ![u] = "copying"]
  /\ left' = [left EXCEPT ![u] = Rails]
  /\ UNCHANGED <<now, pollVars, stopLock, energy, owner, snap, started, base,
                 histVars>>

SnapshotCopy(u, r) ==
  /\ upc[u] = "copying" /\ r \in left[u]
  /\ snap' = [snap EXCEPT ![u][r] = Reading(r)]
  /\ left' = [left EXCEPT ![u] = @ \ {r}]
  /\ UNCHANGED <<now, pollVars, energyLock, stopLock, energy, owner, upc, started,
                 base, histVars>>

SnapshotUnlock(u) ==
  /\ upc[u] = "copying" /\ left[u] = {}
  /\ energyLock' = NoOne
  /\ upc' = [upc EXCEPT ![u] = "copied"]
  /\ UNCHANGED <<now, pollVars, stopLock, energy, owner, left, snap, started, base,
                 histVars>>

(* The caller keeps the snapshot as the start of a window ... *)
KeepAsStart(u) ==
  /\ upc[u] = "copied"
  /\ base' = [base EXCEPT ![u] = snap[u]]
  /\ started' = [started EXCEPT ![u] = TRUE]
  /\ upc' = [upc EXCEPT ![u] = "idle"]
  /\ UNCHANGED <<now, pollVars, energyLock, stopLock, energy, owner, left, snap,
                 histVars>>

(* ... or subtracts its start from it: compute_energy_delta_j. *)
Delta(u) == [r \in Rails |-> snap[u][r].mj - base[u][r].mj]

DeltaReturned(u) ==
  /\ upc[u] = "copied" /\ started[u]
  /\ upc' = [upc EXCEPT ![u] = "idle"]
  /\ UNCHANGED <<now, pollVars, energyLock, stopLock, energy, owner, left, snap,
                 started, base, histVars>>

-----------------------------------------------------------------------------

(* The object is gone and every thread has ended. *)
Terminated ==
  /\ owner = "destroyed"
  /\ UNCHANGED vars

Poller ==
  \/ PollerBirth \/ PollerCheck \/ PollerStamp \/ PollerLockEnergy
  \/ \E r \in Rails : (\E p \in Powers : PollerRail(r, p)) \/ PollerRailFails(r)
  \/ PollerUnlockEnergy \/ PollerLockStop \/ PollerPredicate \/ PollerBlock
  \/ PollerWake

Owner == StartPolling \/ StopPolling \/ StopSetFlag \/ StopNotify \/ StopJoin

User(u) ==
  \/ SnapshotLock(u) \/ SnapshotUnlock(u) \/ KeepAsStart(u) \/ DeltaReturned(u)
  \/ \E r \in Rails : SnapshotCopy(u, r)

Next ==
  \/ Tick
  \/ Poller \/ PollerSpuriousWake \/ PollerTimeout
  \/ Owner
  \/ \E u \in Users : User(u)
  \/ Terminated

Spec == Init /\ [][Next]_vars

(***************************************************************************)
(* The threads are scheduled, and a thread that keeps asking for a mutex   *)
(* that keeps becoming free gets it (strong fairness of StopSetFlag: the   *)
(* polling thread holds stop_mutex_ only around its sleep).  Nothing is    *)
(* assumed about the clock, about spurious wake-ups or about the timeout,  *)
(* so that a stop that relied on the timeout would not be live.            *)
(***************************************************************************)
Fairness ==
  /\ WF_vars(Poller)
  /\ SF_vars(StopSetFlag)
  /\ WF_vars(StopNotify) /\ WF_vars(StopJoin)
FairSpec == Spec /\ Fairness

-----------------------------------------------------------------------------

PollerPoints == {"unborn", "born", "check", "stamp", "lockEnergy", "rails",
                 "lockStop", "pred", "block", "waiting", "done"}
OwnerPoints == {"constructing", "live", "flag", "notify", "join", "destroyed"}

(* Every variable stays within its type. *)
TypeOK ==
  /\ now \in Nat /\ prev \in Nat /\ dt \in Nat /\ deadline \in Nat
  /\ polling \in BOOLEAN /\ notified \in BOOLEAN
  /\ pc \in PollerPoints /\ owner \in OwnerPoints
  /\ todo \subseteq Rails
  /\ energyLock \in Users \cup {"poller", NoOne}
  /\ stopLock \in {"poller", NoOne}
  /\ energy \in [Rails -> Nat]
  /\ upc \in [Users -> {"idle", "copying", "copied"}]
  /\ left \in [Users -> SUBSET Rails]
  /\ snap \in [Users -> [Rails -> Readings]]
  /\ base \in [Users -> [Rails -> Readings]]
  /\ started \in [Users -> BOOLEAN]
  /\ birth \in Nat /\ asOf \in [Rails -> Nat] /\ missed \in [Rails -> Nat]

(***************************************************************************)
(* The accumulator of a rail never holds more energy than the rail's peak  *)
(* power could have delivered since the thread was born, nor less than its *)
(* lowest power over the time whose readings succeeded: no interval is     *)
(* integrated twice, and none is lost except through a failed read.        *)
(* (soc_jetson.h: dt and prev_ts advance together, once per poll.)         *)
(***************************************************************************)
EnergyEnvelope ==
  \A r \in Rails, lo \in Powers, hi \in Powers :
    (\A p \in Powers : lo <= p /\ p <= hi) =>
      /\ energy[r] <= hi * (asOf[r] - missed[r])
      /\ energy[r] >= lo * (asOf[r] - missed[r])

(***************************************************************************)
(* A snapshot is one instant: all its rails have been brought up to the    *)
(* same poll, although the polling thread updates them one by one.         *)
(* (soc_jetson.h: snapshot_energy_j takes energy_mutex_, "Thread-safe".)   *)
(***************************************************************************)
SnapshotIsOneInstant ==
  \A u \in Users : upc[u] = "copied" =>
    \A q, r \in Rails : snap[u][q].asOf = snap[u][r].asOf

(***************************************************************************)
(* A window's energy is never negative and never exceeds peak power times  *)
(* the polls completed between its two snapshots, minus what failed reads  *)
(* lost; in particular a window credits nothing after its end.             *)
(***************************************************************************)
WindowEnvelope ==
  \A u \in Users : upc[u] = "copied" /\ started[u] =>
    \A r \in Rails :
      /\ Delta(u)[r] >= 0
      /\ snap[u][r].asOf <= now - birth
      /\ \A hi \in Powers : (\A p \in Powers : p <= hi) =>
           Delta(u)[r] <= hi * ((snap[u][r].asOf - base[u][r].asOf)
                                - (snap[u][r].missed - base[u][r].missed))

(***************************************************************************)
(* No wake-up is lost: once stop_polling has notified, the polling thread  *)
(* is never left blocked on the condition variable until its timeout.      *)
(* (soc_jetson.h, "wake thread immediately".)                              *)
(***************************************************************************)
NoLostWakeup == owner = "join" /\ pc = "waiting" => notified

(* The polling thread never runs on a destroyed backend. *)
NoPollAfterDestruction == owner = "destroyed" => pc = "done"

(***************************************************************************)
(* Once begun, the destructor returns, without any help of the clock: the  *)
(* sleep is interrupted rather than waited for.                            *)
(***************************************************************************)
StopTerminates == owner = "flag" ~> owner = "destroyed"

=============================================================================
