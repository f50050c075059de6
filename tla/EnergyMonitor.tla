---------------------------- MODULE EnergyMonitor ----------------------------
(***************************************************************************)
(* The measurement windows of monitor/energy_monitor.h, over backends seen *)
(* as meters that only grow.  (That a backend's windows behave so is what  *)
(* JetsonSoC is about.)  The object is used by one thread; energy flows    *)
(* between any two of its steps, and any read of a backend may throw.      *)
(***************************************************************************)
EXTENDS Integers, Sequences, FiniteSetsExt

CONSTANTS
  Keys,      \* window names
  Meters,    \* the metrics of the active backends, in the order they are read
  Upstream,  \* Upstream[m]: the meters through which what m measures is fed
  MaxMeter,  \* bound on every meter
  MaxTime    \* bound on the clock

Metrics == {Meters[i] : i \in 1..Len(Meters)}

ASSUME MetersAssumption ==
  /\ Meters \in Seq(Metrics)
  /\ \A i, j \in 1..Len(Meters) : Meters[i] = Meters[j] => i = j
ASSUME UpstreamAssumption == Upstream \in [Metrics -> SUBSET Metrics]
ASSUME BoundsAssumption == MaxMeter \in Nat /\ MaxTime \in Nat

VARIABLES
  now,      \* steady_clock
  meter,    \* what each backend would report, per metric
  windows,  \* windows_
  call,     \* "idle", or the member function being executed
  key,      \* its argument
  at,       \* the position in Meters it has reached
  start,    \* begin_window's local WindowState: start_time ...
  snap,     \* ... and the snapshots so far
  result,   \* end_window's local Measurement: energies so far
  elapsed,  \* ... and its elapsed_time
  report,   \* what the last successful end_window returned
  asked     \* history: the meters when the call began

vars == <<now, meter, windows, call, key, at, start, snap, result, elapsed, report, asked>>

NoMap == [m \in {} |-> 0]
NoWindow == [start |-> 0, snap |-> NoMap]
Zero == [m \in Metrics |-> 0]

(* map[m] = v *)
Put(map, m, v) == [x \in DOMAIN map \cup {m} |-> IF x = m THEN v ELSE map[x]]

Init ==
  /\ now = 0 /\ meter = Zero
  /\ windows = [k \in {} |-> NoWindow]
  /\ call = "idle" /\ key \in Keys /\ at = 1
  /\ start = 0 /\ snap = NoMap /\ result = NoMap /\ elapsed = 0
  /\ report = Zero /\ asked = Zero

-----------------------------------------------------------------------------
(* The environment. *)

Tick ==
  /\ now < MaxTime
  /\ now' = now + 1
  /\ UNCHANGED <<meter, windows, call, key, at, start, snap, result, elapsed, report, asked>>

Consume(m) ==
  /\ \A x \in Metrics : meter[x] < MaxMeter
  /\ meter' = [x \in Metrics |-> IF x = m \/ x \in Upstream[m] THEN meter[x] + 1
                                                               ELSE meter[x]]
  /\ UNCHANGED <<now, windows, call, key, at, start, snap, result, elapsed, report, asked>>

-----------------------------------------------------------------------------
(* begin_window.  (For a key already active it throws before doing anything.) *)

BeginWindow(k) ==
  /\ call = "idle" /\ k \notin DOMAIN windows
  /\ call' = "begin" /\ key' = k /\ at' = 1
  /\ start' = now /\ snap' = NoMap
  /\ asked' = meter
  /\ UNCHANGED <<now, meter, windows, result, elapsed, report>>

BeginSnapshot ==
  /\ call = "begin" /\ at <= Len(Meters)
  /\ snap' = Put(snap, Meters[at], meter[Meters[at]])
  /\ at' = at + 1
  /\ UNCHANGED <<now, meter, windows, call, key, start, result, elapsed, report, asked>>

BeginThrows ==
  /\ call = "begin" /\ at <= Len(Meters)
  /\ call' = "idle"
  /\ UNCHANGED <<now, meter, windows, key, at, start, snap, result, elapsed, report, asked>>

BeginStore ==
  /\ call = "begin" /\ at > Len(Meters)
  /\ windows' = Put(windows, key, [start |-> start, snap |-> snap])
  /\ call' = "idle"
  /\ UNCHANGED <<now, meter, key, at, start, snap, result, elapsed, report, asked>>

-----------------------------------------------------------------------------
(* end_window.  (For a key that is not active it throws before doing anything.) *)

Erase(k) == [j \in DOMAIN windows \ {k} |-> windows[j]]

EndWindow(k) ==
  /\ call = "idle" /\ k \in DOMAIN windows
  /\ call' = "end" /\ key' = k /\ at' = 1
  /\ result' = NoMap /\ elapsed' = now - windows[k].start
  /\ asked' = meter
  /\ UNCHANGED <<now, meter, windows, start, snap, report>>

EndDelta ==
  /\ call = "end" /\ at <= Len(Meters)
  /\ LET m == Meters[at]
         base == windows[key].snap
         from == IF m \in DOMAIN base THEN base[m] ELSE 0
     IN result' = Put(result, m, meter[m] - from)
  /\ at' = at + 1
  /\ UNCHANGED <<now, meter, windows, call, key, start, snap, elapsed, report, asked>>

EndThrowsErased ==
  /\ call = "end" /\ at <= Len(Meters)
  /\ call' = "idle"
  /\ windows' = Erase(key)
  /\ UNCHANGED <<now, meter, key, at, start, snap, result, elapsed, report, asked>>

EndThrowsRestarts ==
  /\ call = "end" /\ at <= Len(Meters)
  /\ call' = "idle"
  /\ windows' = [windows EXCEPT ![key].snap = asked]
  /\ UNCHANGED <<now, meter, key, at, start, snap, result, elapsed, report, asked>>

(* A backend throws half-way: the window stays active. *)
EndThrows ==
  /\ call = "end" /\ at <= Len(Meters)
  /\ call' = "idle"
  /\ UNCHANGED <<now, meter, windows, key, at, start, snap, result, elapsed, report, asked>>

EndErase ==
  /\ call = "end" /\ at > Len(Meters)
  /\ windows' = Erase(key)
  /\ report' = result
  /\ call' = "idle"
  /\ UNCHANGED <<now, meter, key, at, start, snap, result, elapsed, asked>>

-----------------------------------------------------------------------------

Next ==
  \/ Tick \/ \E m \in Metrics : Consume(m)
  \/ \E k \in Keys : BeginWindow(k) \/ EndWindow(k)
  \/ BeginSnapshot \/ BeginThrows \/ BeginStore
  \/ EndDelta \/ EndThrows \/ EndErase

Spec == Init /\ [][Next]_vars

-----------------------------------------------------------------------------

(* A map from some of the metrics to energies. *)
Partial(map) == DOMAIN map \subseteq Metrics /\ map \in [DOMAIN map -> Nat]

(* Every variable stays within its type; a stored window is complete. *)
TypeOK ==
  /\ now \in Nat /\ elapsed \in Nat
  /\ meter \in [Metrics -> Nat] /\ asked \in [Metrics -> Nat]
  /\ report \in [Metrics -> Nat]
  /\ call \in {"idle", "begin", "end"} /\ key \in Keys
  /\ at \in 1..(Len(Meters) + 1)
  /\ start \in Nat /\ Partial(snap) /\ Partial(result)
  /\ DOMAIN windows \subseteq Keys
  /\ \A k \in DOMAIN windows : windows[k] \in [start: Nat, snap: [Metrics -> Nat]]

(***************************************************************************)
(* Windows nest: of two active windows the one begun earlier holds the     *)
(* lower reading of every meter, so that an inner window never reports     *)
(* more than the window around it, even if the outer one was retried after *)
(* a failure.  (energy_monitor.h, begin_window.)                           *)
(***************************************************************************)
WindowsNest ==
  \A j, k \in DOMAIN windows :
    windows[j].start < windows[k].start =>
      \A m \in Metrics : windows[j].snap[m] <= windows[k].snap[m]

(***************************************************************************)
(* The windows are those of EnergyWindows: in particular a begin_window or *)
(* end_window that throws half-way leaves the active windows as they were, *)
(* and a repeated end_window reports everything since the window began.    *)
(***************************************************************************)
Windows == INSTANCE EnergyWindows WITH
  busy <- call # "idle",
  open <- [k \in DOMAIN windows |-> windows[k].snap]

ImplementsWindows == Windows!Spec
=============================================================================
