---------------------------- MODULE EnergyWindows ----------------------------
(***************************************************************************)
(* What measurement windows promise, whatever backends are behind them: a  *)
(* window that opens stands for some readings of the meters taken during   *)
(* the call that opened it, a window that closes reports the difference to *)
(* readings taken during the call that closed it, and a call that fails    *)
(* changes nothing.  The interface is begin_window and end_window of       *)
(* monitor/energy_monitor.h.                                               *)
(***************************************************************************)
EXTENDS Integers

CONSTANTS Keys, Metrics

VARIABLES
  meter,   \* what each meter reads
  busy,    \* a call is in progress
  asked,   \* what the meters read when the call began
  open,    \* key -> the readings the window opened with
  report   \* the energies the last successful close returned

vars == <<meter, busy, asked, open, report>>

Zero == [m \in Metrics |-> 0]
NoWindows == [k \in {} |-> Zero]

Init ==
  /\ meter \in [Metrics -> Nat]
  /\ busy = FALSE /\ asked = Zero /\ open = NoWindows /\ report = Zero

(* Readings that can have been taken during the call in progress. *)
TakenDuringCall(reading) ==
  /\ DOMAIN reading = Metrics
  /\ \A m \in Metrics : reading[m] \in asked[m]..meter[m]

Draw ==
  /\ DOMAIN meter' = Metrics
  /\ \A m \in Metrics : meter'[m] \in Nat /\ meter[m] <= meter'[m]
  /\ UNCHANGED <<busy, asked, open, report>>

Ask ==
  /\ ~busy
  /\ busy' = TRUE /\ asked' = meter
  /\ UNCHANGED <<meter, open, report>>

Refuse ==
  /\ busy
  /\ busy' = FALSE
  /\ UNCHANGED <<meter, asked, open, report>>

Open(k) ==
  /\ busy /\ k \notin DOMAIN open
  /\ DOMAIN open' = DOMAIN open \cup {k}
  /\ \A j \in DOMAIN open : open'[j] = open[j]
  /\ TakenDuringCall(open'[k])
  /\ busy' = FALSE
  /\ UNCHANGED <<meter, asked, report>>

Close(k) ==
  /\ busy /\ k \in DOMAIN open
  /\ open' = [j \in DOMAIN open \ {k} |-> open[j]]
  /\ DOMAIN report' = Metrics
  /\ TakenDuringCall([m \in Metrics |-> open[k][m] + report'[m]])
  /\ busy' = FALSE
  /\ UNCHANGED <<meter, asked>>

Next == Draw \/ Ask \/ Refuse \/ \E k \in Keys : Open(k) \/ Close(k)

Spec == Init /\ [][Next]_vars
=============================================================================
