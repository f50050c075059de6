---------------------------- MODULE PowerStreaming ----------------------------
(***************************************************************************)
(* zeusd's power streaming: the task of devices/gpu/power.rs that polls    *)
(* the GPUs while anyone is subscribed and broadcasts what changed, and    *)
(* the request handlers of routes/gpu.rs, which subscribe through          *)
(* power_streaming.rs for one reading or for a stream of them.             *)
(*                                                                         *)
(* The watch channel keeps its last value and, per receiver, whether the   *)
(* receiver has seen it.  A Notify wakes its waiter, or keeps one permit.  *)
(***************************************************************************)
EXTENDS Integers, Sequences, FiniteSets, Functions

CONSTANTS
  Clients,  \* the requests to /get_power and /stream_power at a time
  Gpus,     \* the monitored GPUs, in the order they are polled
  Powers    \* the readings each GPU may give

ASSUME ClientsAssumption == IsFiniteSet(Clients)
ASSUME GpusAssumption ==
  /\ Gpus \in Seq(Range(Gpus))
  /\ \A i, j \in DOMAIN Gpus : Gpus[i] = Gpus[j] => i = j
  /\ DOMAIN Powers = Range(Gpus) /\ \A g \in Range(Gpus) : Powers[g] # {}

VARIABLES
  power,       \* what each GPU draws at the moment
  subscriber_count, permit,
  pc, at, current, changed, last_power,  \* the polling task
  channel, sent,                         \* the channel's value; one was ever sent
  step,        \* per client, how far its handler has got
  kind,        \* and which handler it is
  unseen,      \* its receiver has not seen the channel's value
  item,        \* the last snapshot it has taken, if any
  latest,      \* history: what was read since the task last woke up
  since        \* history: a snapshot was sent since the client subscribed

pollVars == <<pc, at, current, changed, last_power, latest>>
clientVars == <<step, kind, item>>
vars == <<power, subscriber_count, permit, pollVars, channel, sent, clientVars, unseen, since>>

Devices == Range(Gpus)
NoPower == [g \in {} |-> 0]
Readings == UNION Range(Powers)
Snapshots == UNION {[some -> Readings] : some \in SUBSET Devices}
With(map, g, p) == [h \in DOMAIN map \cup {g} |-> IF h = g THEN p ELSE map[h]]

(* With no GPUs the task only keeps the channel open. *)
FirstPoint == IF Gpus = <<>> THEN "pending" ELSE "idle"

Init ==
  /\ power \in {p \in [Devices -> Readings] : \A g \in Devices : p[g] \in Powers[g]}
  /\ subscriber_count = 0 /\ permit = FALSE
  /\ pc = FirstPoint
  /\ at = 1 /\ current = NoPower /\ changed = FALSE /\ last_power = NoPower
  /\ channel = NoPower /\ sent = FALSE
  /\ step = [c \in Clients |-> "none"] /\ kind = [c \in Clients |-> "oneshot"]
  /\ unseen = [c \in Clients |-> FALSE] /\ item = [c \in Clients |-> {}]
  /\ latest = NoPower /\ since = [c \in Clients |-> FALSE]

Draw(g, p) ==
  /\ power[g] # p
  /\ power' = [power EXCEPT ![g] = p]
  /\ UNCHANGED <<subscriber_count, permit, pollVars, channel, sent, clientVars, unseen, since>>

-----------------------------------------------------------------------------
(* gpu_power_poll_task. *)

(* The clients that hold a SubscriberGuard. *)
Guarded == {c \in Clients : step[c] \in {"counted", "notified", "listening"}}

otherThanPoller == <<power, clientVars>>
channelVars == <<channel, sent, unseen, since>>

(* The outer while: with a subscriber a run begins, without one it waits. *)
LoadCount ==
  /\ pc = "idle"
  /\ pc' = IF subscriber_count = 0 THEN "await" ELSE "polling"
  /\ UNCHANGED <<subscriber_count, permit, at, current, changed, last_power, latest,
                 channelVars, otherThanPoller>>

(* notified().await takes a permit left for it, or goes to sleep. *)
Await ==
  /\ pc = "await"
  /\ pc' = IF permit THEN "idle" ELSE "waiting"
  /\ permit' = FALSE
  /\ UNCHANGED <<subscriber_count, at, current, changed, last_power, latest, channelVars,
                 otherThanPoller>>

Woken ==
  /\ pc = "woken" /\ pc' = "idle"
  /\ UNCHANGED <<subscriber_count, permit, at, current, changed, last_power, latest,
                 channelVars, otherThanPoller>>

(* The inner while. *)
StartPoll ==
  /\ pc = "polling" /\ subscriber_count > 0
  /\ pc' = "reading"
  /\ UNCHANGED <<at, current, changed, subscriber_count, permit, last_power, latest, channelVars,
                 otherThanPoller>>

PauseKeepsPower ==
  /\ pc = "polling" /\ subscriber_count = 0
  /\ pc' = "idle" /\ latest' = NoPower
  /\ UNCHANGED <<subscriber_count, permit, at, current, changed, last_power, channelVars,
                 otherThanPoller>>

Pause ==
  /\ pc = "polling" /\ subscriber_count = 0
  /\ pc' = "idle" /\ last_power' = NoPower /\ latest' = NoPower
  /\ UNCHANGED <<subscriber_count, permit, at, current, changed, channelVars, otherThanPoller>>

ReadPower ==
  /\ pc = "reading" /\ at <= Len(Gpus)
  /\ LET g == Gpus[at] IN
       /\ changed' = (changed \/ g \notin DOMAIN last_power \/ last_power[g] # power[g])
       /\ current' = With(current, g, power[g])
       /\ latest' = With(latest, g, power[g])
  /\ at' = at + 1
  /\ UNCHANGED <<pc, last_power, subscriber_count, permit, channelVars, otherThanPoller>>

ReadFailsDrops ==
  /\ pc = "reading" /\ at <= Len(Gpus)
  /\ at' = at + 1
  /\ UNCHANGED <<pc, current, changed, last_power, latest, subscriber_count, permit,
                 channelVars, otherThanPoller>>

(* A GPU that cannot be read keeps its last reading. *)
ReadFails ==
  /\ pc = "reading" /\ at <= Len(Gpus)
  /\ LET g == Gpus[at] IN
       current' = IF g \in DOMAIN last_power THEN With(current, g, last_power[g]) ELSE current
  /\ at' = at + 1
  /\ UNCHANGED <<pc, changed, last_power, latest, subscriber_count, permit, channelVars,
                 otherThanPoller>>

(* What changed is sent, and the first poll of a run whatever it read; the  *)
(* scope of current and changed ends.                                       *)
Broadcast ==
  /\ pc = "reading" /\ at > Len(Gpus)
  /\ IF changed \/ last_power = NoPower
     THEN /\ last_power' = current /\ channel' = current /\ sent' = TRUE
          /\ unseen' = [c \in Clients |-> step[c] = "listening"]
          /\ since' = [c \in Clients |-> since[c] \/ c \in Guarded]
     ELSE UNCHANGED <<last_power, channelVars>>
  /\ pc' = "polling" /\ at' = 1 /\ current' = NoPower /\ changed' = FALSE
  /\ UNCHANGED <<latest, subscriber_count, permit, otherThanPoller>>

-----------------------------------------------------------------------------
(* get_power_handler and stream_power_handler, over add_subscriber,         *)
(* wait_for_fresh and stream.                                               *)

otherThanClient == <<power, at, current, changed, last_power, latest, channel, sent>>

AddSubscriber(c, k) ==
  /\ step[c] = "none"
  /\ step' = [step EXCEPT ![c] = "counted"] /\ kind' = [kind EXCEPT ![c] = k]
  /\ subscriber_count' = subscriber_count + 1
  /\ item' = [item EXCEPT ![c] = {}] /\ since' = [since EXCEPT ![c] = FALSE]
  /\ UNCHANGED <<pc, permit, unseen, otherThanClient>>

(* notify_one. *)
Notify(c) ==
  /\ step[c] = "counted"
  /\ step' = [step EXCEPT ![c] = "notified"]
  /\ IF pc = "waiting" THEN pc' = "woken" /\ UNCHANGED permit
                       ELSE permit' = TRUE /\ UNCHANGED pc
  /\ UNCHANGED <<subscriber_count, kind, item, unseen, since, otherThanClient>>

(* A clone of the shared receiver has seen no value ever sent; only          *)
(* wait_for_fresh marks the present one as seen.                            *)
ListenUnmarked(c) ==
  /\ step[c] = "notified"
  /\ step' = [step EXCEPT ![c] = "listening"]
  /\ unseen' = [unseen EXCEPT ![c] = sent]
  /\ UNCHANGED <<pc, permit, subscriber_count, kind, item, since, otherThanClient>>

ListenMarked(c) ==
  /\ step[c] = "notified"
  /\ step' = [step EXCEPT ![c] = "listening"]
  /\ unseen' = [unseen EXCEPT ![c] = FALSE]
  /\ UNCHANGED <<pc, permit, subscriber_count, kind, item, since, otherThanClient>>

Listen(c) ==
  /\ step[c] = "notified"
  /\ step' = [step EXCEPT ![c] = "listening"]
  /\ unseen' = [unseen EXCEPT ![c] = sent /\ kind[c] = "stream"]
  /\ UNCHANGED <<pc, permit, subscriber_count, kind, item, since, otherThanClient>>

(* A stream takes one snapshot after another. *)
StreamItem(c) ==
  /\ step[c] = "listening" /\ kind[c] = "stream" /\ unseen[c]
  /\ item' = [item EXCEPT ![c] = {channel}]
  /\ unseen' = [unseen EXCEPT ![c] = FALSE]
  /\ UNCHANGED <<pc, permit, subscriber_count, step, kind, since, otherThanClient>>

(* A one-shot request is answered, and its guard dropped. *)
Answer(c) ==
  /\ step[c] = "listening" /\ kind[c] = "oneshot" /\ unseen[c]
  /\ item' = [item EXCEPT ![c] = {channel}]
  /\ unseen' = [unseen EXCEPT ![c] = FALSE]
  /\ step' = [step EXCEPT ![c] = "answered"]
  /\ subscriber_count' = subscriber_count - 1
  /\ UNCHANGED <<pc, permit, kind, since, otherThanClient>>

(* The peer goes away: handler or stream is dropped, and its guard with it. *)
Disconnect(c) ==
  /\ step[c] = "listening"
  /\ step' = [step EXCEPT ![c] = "closed"]
  /\ subscriber_count' = subscriber_count - 1
  /\ kind' = [kind EXCEPT ![c] = "oneshot"] /\ item' = [item EXCEPT ![c] = {}]
  /\ unseen' = [unseen EXCEPT ![c] = FALSE] /\ since' = [since EXCEPT ![c] = FALSE]
  /\ UNCHANGED <<pc, permit, otherThanClient>>

NewRequest(c) ==
  /\ step[c] \in {"answered", "closed"}
  /\ step' = [step EXCEPT ![c] = "none"]
  /\ item' = [item EXCEPT ![c] = {}] /\ since' = [since EXCEPT ![c] = FALSE]
  /\ UNCHANGED <<pc, permit, subscriber_count, kind, unseen, otherThanClient>>

-----------------------------------------------------------------------------

Poller ==
  LoadCount \/ Await \/ Woken \/ StartPoll \/ Pause \/ ReadPower \/ ReadFails \/ Broadcast

Serve(c) == Notify(c) \/ Listen(c) \/ StreamItem(c) \/ Answer(c)

Peer(c) ==
  (\E k \in {"oneshot", "stream"} : AddSubscriber(c, k)) \/ Disconnect(c) \/ NewRequest(c)

Hardware == \E g \in Devices : \E p \in Powers[g] : Draw(g, p)

Next == Poller \/ Hardware \/ \E c \in Clients : Serve(c) \/ Peer(c)

Spec == Init /\ [][Next]_vars

(* The runtime runs every task that is ready; peers and hardware are free. *)
FairSpec == Spec /\ WF_vars(Poller) /\ \A c \in Clients : WF_vars(Serve(c))

-----------------------------------------------------------------------------

(* Every variable stays within its type, and the count is that of the guards. *)
TypeOK ==
  /\ power \in [Devices -> Readings] /\ permit \in BOOLEAN /\ sent \in BOOLEAN
  /\ pc \in {"pending", "idle", "await", "waiting", "woken", "polling", "reading"}
  /\ at \in 1..(Len(Gpus) + 1) /\ changed \in BOOLEAN
  /\ {current, last_power, channel, latest} \subseteq Snapshots
  /\ step \in [Clients -> {"none", "counted", "notified", "listening", "answered", "closed"}]
  /\ kind \in [Clients -> {"oneshot", "stream"}]
  /\ unseen \in [Clients -> BOOLEAN] /\ since \in [Clients -> BOOLEAN]
  /\ item \in [Clients -> SUBSET Snapshots]
  /\ subscriber_count = Cardinality(Guarded)

(***************************************************************************)
(* The polling task never sleeps on a subscriber that has notified it,     *)
(* however the subscription falls between its load of the count and its    *)
(* wait.  (The permit of Notify, and the order in add_subscriber.)         *)
(***************************************************************************)
NoLostWakeup ==
  pc = "waiting" => \A c \in Clients : step[c] \notin {"notified", "listening"}

(***************************************************************************)
(* Between two polls, a stream that has taken everything sent shows for    *)
(* each GPU the last reading that succeeded since the task woke up, failed *)
(* reads in between notwithstanding.                                       *)
(***************************************************************************)
StreamsAreCurrent ==
  pc = "polling" => \A c \in Clients :
    step[c] = "listening" /\ kind[c] = "stream" /\ ~unseen[c] =>
      \A s \in item[c] : \A g \in DOMAIN latest : g \in DOMAIN s /\ s[g] = latest[g]

(* Nothing read before the task last went to sleep is sent again.          *)
(* (last_power.clear(), and the failed read that falls back on last_power.) *)
NothingFromBeforePause == DOMAIN last_power \subseteq DOMAIN latest

(* A one-shot answer was broadcast after its request had subscribed.        *)
(* (wait_for_fresh, "ignoring any stale or default value".)                 *)
AnswerIsFresh ==
  \A c \in Clients : step[c] = "answered" => since[c]

(* A stream that stays open gets a snapshot, if there are GPUs. *)
StreamsAreServed ==
  \A c \in Clients :
    step[c] = "notified" /\ kind[c] = "stream"
      ~> item[c] # {} \/ step[c] = "closed"
=============================================================================
