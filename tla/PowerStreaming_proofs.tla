------------------------- MODULE PowerStreaming_proofs -------------------------
(***************************************************************************)
(* PowerStreaming, for any number of clients and GPUs: no wake-up of the   *)
(* polling task is lost, nothing read before a pause is sent after it, a   *)
(* one-shot answer is fresh, and a stream that has taken everything shows  *)
(* the latest readings.  The first rests on the count being that of the    *)
(* guards, and on the permit covering the gap between load and wait; the   *)
(* last, on what a poll knows of each GPU, already read or still to be     *)
(* read.                                                                   *)
(*                                                                         *)
(* Then the other end, PowerStreamingClient: what it shows never goes      *)
(* back, for any servers, device types and iterators, however often        *)
(* connections break.  The events of a stream are in order from the        *)
(* shared readings through the thread's buffer and the connection to the   *)
(* server: each of these holds nothing older than the one before it.  A    *)
(* new connection begins with the server's present reading, which nothing  *)
(* is newer than.                                                          *)
(***************************************************************************)
EXTENDS PowerStreaming, PowerStreamingClient, FiniteSetTheorems, TLAPS

Steps == {"none", "counted", "notified", "listening", "answered", "closed"}

(* The count is that of the guards. *)
CountInv ==
  /\ step \in [Clients -> Steps]
  /\ subscriber_count = Cardinality(Guarded)

(* About to sleep without a permit, or asleep: nobody has notified. *)
WakeInv ==
  pc = "waiting" \/ (pc = "await" /\ ~permit) =>
    \A c \in Clients : step[c] \notin {"notified", "listening"}

(* What is known of the readings of the present run. *)
RunInv ==
  /\ IF pc = "reading" THEN DOMAIN current \subseteq DOMAIN latest ELSE current = NoPower
  /\ DOMAIN last_power \subseteq DOMAIN latest

(* A one-shot request has an unseen value only if it was sent since. *)
FreshInv ==
  /\ kind \in [Clients -> {"oneshot", "stream"}]
  /\ unseen \in [Clients -> BOOLEAN] /\ since \in [Clients -> BOOLEAN]
  /\ \A c \in Clients :
       /\ step[c] = "listening" /\ kind[c] = "oneshot" /\ unseen[c] => since[c]
       /\ step[c] = "answered" => since[c]

IInv == CountInv /\ WakeInv /\ RunInv /\ FreshInv

(* Shows the latest reading of a GPU, if it was read since the task woke up. *)
Shows(map, g) == g \in DOMAIN latest => g \in DOMAIN map /\ map[g] = latest[g]

(* A poll under way: what is read so far, and what is still to be read. *)
PollInv ==
  /\ at \in Nat \ {0} /\ changed \in BOOLEAN
  /\ pc # "reading" => at = 1
  /\ pc \notin {"polling", "reading"} => latest = NoPower
  /\ DOMAIN latest \subseteq Devices
  /\ pc = "polling" => \A g \in Devices : Shows(last_power, g)
  /\ pc = "reading" => \A i \in DOMAIN Gpus :
       /\ i < at => Shows(current, Gpus[i])
       /\ i >= at \/ ~changed => Shows(last_power, Gpus[i])

(* What a stream that has taken everything shows is the channel's value,    *)
(* and that is the last that was sent in this run.                          *)
StreamInv ==
  /\ DOMAIN item = Clients
  /\ last_power # NoPower => channel = last_power
  /\ \A c \in Clients :
       /\ step[c] \in {"counted", "notified"} => item[c] = {}
       /\ step[c] = "listening" /\ kind[c] = "stream" /\ ~unseen[c] =>
            item[c] \subseteq {channel}

-----------------------------------------------------------------------------
(* Cardinalities of the set of guards. *)
LEMMA GuardedFinite == IsFiniteSet(Guarded) /\ Cardinality(Guarded) \in Nat
  BY ClientsAssumption, FS_Subset, FS_CardinalityType DEF Guarded

LEMMA NoneGuarded ==
  ASSUME CountInv, subscriber_count = 0
  PROVE  Guarded = {}
  BY GuardedFinite, FS_EmptySet DEF CountInv

LEMMA GuardGained ==
  ASSUME CountInv, NEW c \in Clients, c \notin Guarded, Guarded' = Guarded \cup {c}
  PROVE  Cardinality(Guarded') = subscriber_count + 1
  BY GuardedFinite, FS_AddElement DEF CountInv

LEMMA GuardLost ==
  ASSUME CountInv, NEW c \in Clients, c \in Guarded, Guarded' = Guarded \ {c}
  PROVE  Cardinality(Guarded') = subscriber_count - 1
  BY GuardedFinite, FS_RemoveElement DEF CountInv

LEMMA InitInv == Init => IInv
<1> SUFFICES ASSUME Init PROVE IInv
  OBVIOUS
<1>1. CountInv
  <2>1. step \in [Clients -> Steps] /\ Guarded = {}
    BY DEF Init, Guarded, Steps
  <2> QED
    BY <2>1, FS_EmptySet DEF Init, CountInv
<1>2. WakeInv /\ RunInv /\ FreshInv
  BY DEF Init, FirstPoint, WakeInv, RunInv, FreshInv, NoPower
<1> QED
  BY <1>1, <1>2 DEF IInv

-----------------------------------------------------------------------------
(* Steps of the polling task. *)
LEMMA PollerInv ==
  ASSUME IInv, Poller
  PROVE  IInv'
<1>1. UNCHANGED <<step, kind, item, subscriber_count>>
  BY DEF Poller, LoadCount, Await, Woken, StartPoll, Pause, ReadPower, ReadFails, Broadcast,
         otherThanPoller, clientVars
<1>2. CountInv'
  BY <1>1 DEF IInv, CountInv, Guarded
<1>3. CASE LoadCount
  <2>1. WakeInv'
    <3>1. CASE subscriber_count = 0
      <4>1. Guarded = {}
        BY <3>1, NoneGuarded DEF IInv
      <4> QED
        BY <1>1, <4>1 DEF WakeInv, Guarded
    <3>2. CASE subscriber_count # 0
      BY <1>3, <3>2 DEF LoadCount, WakeInv
    <3> QED
      BY <3>1, <3>2
  <2>2. RunInv' /\ FreshInv'
    BY <1>1, <1>3 DEF IInv, RunInv, FreshInv, LoadCount, channelVars
  <2> QED
    BY <1>2, <2>1, <2>2 DEF IInv
<1>4. CASE Await
  BY <1>1, <1>2, <1>4 DEF IInv, WakeInv, RunInv, FreshInv, Await, channelVars
<1>5. CASE Woken
  BY <1>1, <1>2, <1>5 DEF IInv, WakeInv, RunInv, FreshInv, Woken, channelVars
<1>6. CASE StartPoll
  BY <1>1, <1>2, <1>6 DEF IInv, WakeInv, RunInv, FreshInv, StartPoll, channelVars, NoPower
<1>7. CASE Pause
  BY <1>1, <1>2, <1>7 DEF IInv, WakeInv, RunInv, FreshInv, Pause, channelVars, NoPower
<1>8. CASE ReadPower
  <2>1. RunInv'
    BY <1>8 DEF IInv, RunInv, ReadPower, With
  <2> QED
    BY <1>1, <1>2, <1>8, <2>1 DEF IInv, WakeInv, FreshInv, ReadPower, channelVars
<1>9. CASE ReadFails
  <2>1. RunInv'
    BY <1>9 DEF IInv, RunInv, ReadFails, With
  <2> QED
    BY <1>1, <1>2, <1>9, <2>1 DEF IInv, WakeInv, FreshInv, ReadFails, channelVars
<1>10. CASE Broadcast
  <2>1. RunInv'
    BY <1>10 DEF IInv, RunInv, Broadcast, channelVars
  <2>2. FreshInv'
    BY <1>1, <1>10 DEF IInv, FreshInv, Broadcast, channelVars, Guarded
  <2> QED
    BY <1>1, <1>2, <1>10, <2>1, <2>2 DEF IInv, WakeInv, Broadcast
<1> QED
  BY <1>3, <1>4, <1>5, <1>6, <1>7, <1>8, <1>9, <1>10 DEF Poller

(* Steps of a client. *)
LEMMA ClientInv ==
  ASSUME IInv, NEW c \in Clients, Serve(c) \/ Peer(c)
  PROVE  IInv'
<1>1. UNCHANGED otherThanClient
  BY DEF Serve, Peer, AddSubscriber, Notify, Listen, StreamItem, Answer, Disconnect, NewRequest
<1>2. step \in [Clients -> Steps] /\ kind \in [Clients -> {"oneshot", "stream"}]
  BY DEF IInv, CountInv, FreshInv
<1>3. RunInv'
  <2>1. (pc' = "reading") = (pc = "reading")
    BY DEF Serve, Peer, AddSubscriber, Notify, Listen, StreamItem, Answer, Disconnect,
           NewRequest
  <2> QED
    BY <1>1, <2>1 DEF IInv, RunInv, otherThanClient
<1>4. ASSUME NEW k \in {"oneshot", "stream"}, AddSubscriber(c, k)
      PROVE  IInv'
  <2>1. c \notin Guarded /\ Guarded' = Guarded \cup {c} /\ step' \in [Clients -> Steps]
    BY <1>2, <1>4 DEF AddSubscriber, Guarded, Steps
  <2>2. CountInv'
    BY <1>4, <2>1, GuardGained DEF IInv, AddSubscriber, CountInv
  <2>3. WakeInv' /\ FreshInv'
    BY <1>2, <1>4 DEF IInv, WakeInv, FreshInv, AddSubscriber
  <2> QED
    BY <1>3, <2>2, <2>3 DEF IInv
<1>5. CASE Notify(c)
  <2>1. Guarded' = Guarded /\ step' \in [Clients -> Steps]
    BY <1>2, <1>5 DEF Notify, Guarded, Steps
  <2>2. CountInv'
    BY <1>5, <2>1 DEF IInv, Notify, CountInv
  <2>3. WakeInv'
    BY <1>2, <1>5 DEF WakeInv, Notify
  <2>4. FreshInv'
    BY <1>2, <1>5 DEF IInv, FreshInv, Notify
  <2> QED
    BY <1>3, <2>2, <2>3, <2>4 DEF IInv
<1>6. CASE Listen(c)
  <2>1. Guarded' = Guarded /\ step' \in [Clients -> Steps]
    BY <1>2, <1>6 DEF Listen, Guarded, Steps
  <2>2. CountInv'
    BY <1>6, <2>1 DEF IInv, Listen, CountInv
  <2>3. WakeInv'
    BY <1>2, <1>6 DEF IInv, WakeInv, Listen
  <2>4. FreshInv'
    BY <1>2, <1>6 DEF IInv, FreshInv, Listen
  <2> QED
    BY <1>3, <2>2, <2>3, <2>4 DEF IInv
<1>7. CASE StreamItem(c)
  <2>1. Guarded' = Guarded /\ step' = step
    BY <1>7 DEF StreamItem, Guarded
  <2>2. CountInv' /\ WakeInv'
    BY <1>7, <2>1 DEF IInv, StreamItem, CountInv, WakeInv
  <2>3. FreshInv'
    BY <1>2, <1>7 DEF IInv, FreshInv, StreamItem
  <2> QED
    BY <1>3, <2>2, <2>3 DEF IInv
<1>8. CASE Answer(c)
  <2>1. c \in Guarded /\ Guarded' = Guarded \ {c} /\ step' \in [Clients -> Steps]
    BY <1>2, <1>8 DEF Answer, Guarded, Steps
  <2>2. CountInv'
    BY <1>8, <2>1, GuardLost DEF IInv, Answer, CountInv
  <2>3. WakeInv' /\ FreshInv'
    BY <1>2, <1>8 DEF IInv, WakeInv, FreshInv, Answer
  <2> QED
    BY <1>3, <2>2, <2>3 DEF IInv
<1>9. CASE Disconnect(c)
  <2>1. c \in Guarded /\ Guarded' = Guarded \ {c} /\ step' \in [Clients -> Steps]
    BY <1>2, <1>9 DEF Disconnect, Guarded, Steps
  <2>2. CountInv'
    BY <1>9, <2>1, GuardLost DEF IInv, Disconnect, CountInv
  <2>3. WakeInv' /\ FreshInv'
    BY <1>2, <1>9 DEF IInv, WakeInv, FreshInv, Disconnect
  <2> QED
    BY <1>3, <2>2, <2>3 DEF IInv
<1>10. CASE NewRequest(c)
  <2>1. Guarded' = Guarded /\ step' \in [Clients -> Steps]
    BY <1>2, <1>10 DEF NewRequest, Guarded, Steps
  <2>2. CountInv'
    BY <1>10, <2>1 DEF IInv, NewRequest, CountInv
  <2>3. WakeInv' /\ FreshInv'
    BY <1>2, <1>10 DEF IInv, WakeInv, FreshInv, NewRequest
  <2> QED
    BY <1>3, <2>2, <2>3 DEF IInv
<1> QED
  BY <1>4, <1>5, <1>6, <1>7, <1>8, <1>9, <1>10 DEF Serve, Peer

LEMMA StepInv == IInv /\ [Next]_vars => IInv'
<1> SUFFICES ASSUME IInv, [Next]_vars PROVE IInv'
  OBVIOUS
<1>1. CASE Hardware \/ UNCHANGED vars
  <2>1. UNCHANGED <<subscriber_count, permit, pollVars, clientVars, unseen, since>>
    BY <1>1 DEF Hardware, Draw, vars
  <2> QED
    BY <2>1 DEF pollVars, clientVars, IInv, CountInv, WakeInv, RunInv, FreshInv, Guarded
<1> QED
  BY <1>1, PollerInv, ClientInv DEF Next

-----------------------------------------------------------------------------
(* The strengthened invariant of the polling task and its subscribers. *)
THEOREM Invariant == Spec => []IInv
  BY InitInv, StepInv, PTL DEF Spec

(* notify_one always reaches the polling task. *)
THEOREM WakeupDelivered == Spec => []NoLostWakeup
<1>1. IInv => NoLostWakeup
  BY DEF IInv, WakeInv, NoLostWakeup
<1> QED
  BY <1>1, Invariant, PTL

(* No reading outlives a pause of the polling task. *)
THEOREM PauseForgets == Spec => []NothingFromBeforePause
<1>1. IInv => NothingFromBeforePause
  BY DEF IInv, RunInv, NothingFromBeforePause
<1> QED
  BY <1>1, Invariant, PTL

(* wait_for_fresh returns only what was sent after it was called. *)
THEOREM AnswersFresh == Spec => []AnswerIsFresh
<1>1. IInv => AnswerIsFresh
  BY DEF IInv, FreshInv, AnswerIsFresh
<1> QED
  BY <1>1, Invariant, PTL

-----------------------------------------------------------------------------
(* Streams: what one poll knows, and what was sent. *)
CurrentInv == PollInv /\ StreamInv

LEMMA GpuAt ==
  /\ Len(Gpus) \in Nat /\ DOMAIN Gpus = 1..Len(Gpus)
  /\ \A i \in DOMAIN Gpus : Gpus[i] \in Devices
  /\ \A g \in Devices : \E i \in DOMAIN Gpus : Gpus[i] = g
  /\ \A i, j \in DOMAIN Gpus : Gpus[i] = Gpus[j] => i = j
  BY GpusAssumption DEF Devices, Range

LEMMA InitCurrent == Init => CurrentInv
<1> SUFFICES ASSUME Init PROVE CurrentInv
  OBVIOUS
<1>1. PollInv
  <2>1. at = 1 /\ changed = FALSE /\ pc \notin {"polling", "reading"} /\ latest = NoPower
    BY DEF Init, FirstPoint
  <2>2. DOMAIN latest \subseteq Devices
    BY <2>1 DEF NoPower
  <2>3. at \in Nat \ {0} /\ changed \in BOOLEAN
    <3>1. changed \in BOOLEAN
      BY <2>1, Zenon
    <3> QED
      BY <2>1, <3>1
  <2>4. pc = "polling" => \A g \in Devices : Shows(last_power, g)
    BY <2>1
  <2>5. pc = "reading" => \A i \in DOMAIN Gpus :
          /\ i < at => Shows(current, Gpus[i])
          /\ i >= at \/ ~changed => Shows(last_power, Gpus[i])
    BY <2>1
  <2> QED
    BY <2>1, <2>2, <2>3, <2>4, <2>5 DEF PollInv
<1>2. StreamInv
  BY DEF Init, FirstPoint, StreamInv
<1> QED
  BY <1>1, <1>2 DEF CurrentInv

LEMMA PollerCurrent ==
  ASSUME CurrentInv, FreshInv, Poller
  PROVE  PollInv' /\ (~Broadcast => StreamInv')
<1>1. CASE LoadCount \/ Await \/ Woken \/ StartPoll
  <2>1. UNCHANGED <<at, changed, latest, current, last_power, channelVars, otherThanPoller>>
    BY <1>1 DEF LoadCount, Await, Woken, StartPoll
  <2> QED
    BY <1>1, <2>1, GpuAt DEF CurrentInv, PollInv, StreamInv, Shows, LoadCount, Await, Woken,
       StartPoll, channelVars, otherThanPoller, clientVars, NoPower
<1>2. CASE Pause
  BY <1>2 DEF CurrentInv, PollInv, StreamInv, Shows, Pause, channelVars, otherThanPoller,
     clientVars, NoPower
<1>3. CASE ReadPower
  <2>1. StreamInv'
    BY <1>3 DEF CurrentInv, StreamInv, ReadPower, channelVars, otherThanPoller, clientVars
  <2>2. at \in DOMAIN Gpus /\ Gpus[at] \in Devices
    BY <1>3, GpuAt DEF CurrentInv, PollInv, ReadPower
  <2>4. /\ changed' \in BOOLEAN
        /\ changed' \/ (~changed /\ Gpus[at] \in DOMAIN last_power
                         /\ last_power[Gpus[at]] = power[Gpus[at]])
    BY <1>3, Zenon DEF ReadPower
  <2>5. /\ Gpus[at] \in DOMAIN current' /\ current'[Gpus[at]] = power[Gpus[at]]
        /\ DOMAIN latest' = DOMAIN latest \cup {Gpus[at]}
        /\ latest'[Gpus[at]] = power[Gpus[at]]
    BY <1>3, <2>2 DEF ReadPower, With
  <2>3. ASSUME NEW i \in DOMAIN Gpus
        PROVE  /\ i < at' => Shows(current, Gpus[i])'
               /\ i >= at' \/ ~changed' => Shows(last_power, Gpus[i])'
    <3>1. CASE i = at
      <4>1. at' = at + 1 /\ last_power' = last_power
        BY <1>3 DEF ReadPower
      <4> QED
        BY <2>4, <2>5, <3>1, <4>1, GpuAt DEF Shows
    <3>2. CASE i # at
      <4>1. Gpus[i] # Gpus[at] /\ (i < at' <=> i < at)
        BY <1>3, <2>2, <3>2, GpuAt DEF ReadPower, CurrentInv, PollInv
      <4> QED
        BY <1>3, <2>4, <4>1, GpuAt DEF ReadPower, With, Shows, CurrentInv, PollInv
    <3> QED
      BY <3>1, <3>2
  <2> QED
    BY <1>3, <2>1, <2>2, <2>3, <2>4, <2>5 DEF CurrentInv, PollInv, ReadPower
<1>4. CASE ReadFails
  <2>1. StreamInv'
    BY <1>4 DEF CurrentInv, StreamInv, ReadFails, channelVars, otherThanPoller, clientVars
  <2>2. at \in DOMAIN Gpus
    BY <1>4, GpuAt DEF CurrentInv, PollInv, ReadFails
  <2>3. ASSUME NEW i \in DOMAIN Gpus
        PROVE  /\ i < at' => Shows(current, Gpus[i])'
               /\ i >= at' \/ ~changed' => Shows(last_power, Gpus[i])'
    <3>1. CASE i = at
      BY <1>4, <2>2, <3>1, GpuAt DEF ReadFails, With, Shows, CurrentInv, PollInv
    <3>2. CASE i # at
      <4>1. Gpus[i] # Gpus[at] /\ (i < at' <=> i < at)
        BY <1>4, <2>2, <3>2, GpuAt DEF ReadFails, CurrentInv, PollInv
      <4> QED
        BY <1>4, <4>1, GpuAt DEF ReadFails, With, Shows, CurrentInv, PollInv
    <3> QED
      BY <3>1, <3>2
  <2> QED
    BY <1>4, <2>1, <2>2, <2>3 DEF CurrentInv, PollInv, ReadFails
<1>5. CASE Broadcast
  <2>1. \A i \in DOMAIN Gpus : i < at
    BY <1>5, GpuAt DEF Broadcast, CurrentInv, PollInv
  <2>2. \A g \in Devices : Shows(current, g) /\ (~changed => Shows(last_power, g))
    BY <1>5, <2>1, GpuAt DEF Broadcast, CurrentInv, PollInv
  <2>3. \A g \in Devices : Shows(last_power, g)'
    BY <1>5, <2>2 DEF Broadcast, Shows, CurrentInv, PollInv
  <2>4. pc' = "polling" /\ at' = 1 /\ changed' = FALSE /\ latest' = latest
    BY <1>5 DEF Broadcast
  <2>5. at' \in Nat \ {0} /\ changed' \in BOOLEAN
    <3>1. changed' \in BOOLEAN
      BY <2>4, Zenon
    <3> QED
      BY <2>4, <3>1
  <2>6. ~(pc' = "reading") /\ ~(pc' \notin {"polling", "reading"})
    BY <2>4
  <2>7. DOMAIN latest' \subseteq Devices
    BY <2>4 DEF CurrentInv, PollInv
  <2> QED
    BY <1>5, <2>3, <2>4, <2>5, <2>6, <2>7 DEF PollInv
<1> QED
  BY <1>1, <1>2, <1>3, <1>4, <1>5 DEF Poller

LEMMA BroadcastCurrent ==
  ASSUME CurrentInv, FreshInv, Broadcast
  PROVE  StreamInv'
<1>1. UNCHANGED <<step, kind, item>>
  BY DEF Broadcast, otherThanPoller, clientVars
<1>2. CASE changed \/ last_power = NoPower
  BY <1>1, <1>2 DEF Broadcast, CurrentInv, StreamInv
<1>3. CASE ~(changed \/ last_power = NoPower)
  BY <1>1, <1>3 DEF Broadcast, CurrentInv, StreamInv, channelVars
<1> QED
  BY <1>2, <1>3

LEMMA ClientCurrent ==
  ASSUME CurrentInv, FreshInv, step \in [Clients -> Steps],
         NEW c \in Clients, Serve(c) \/ Peer(c)
  PROVE  CurrentInv'
<1>1. UNCHANGED otherThanClient
  BY DEF Serve, Peer, AddSubscriber, Notify, Listen, StreamItem, Answer, Disconnect, NewRequest
<1>2. PollInv'
  <2>1. pc' = pc \/ (pc = "waiting" /\ pc' = "woken")
    BY DEF Serve, Peer, AddSubscriber, Notify, Listen, StreamItem, Answer, Disconnect,
           NewRequest
  <2> QED
    BY <1>1, <2>1 DEF CurrentInv, PollInv, Shows, otherThanClient
<1>3. StreamInv'
  <2>1. step \in [Clients -> Steps] /\ kind \in [Clients -> {"oneshot", "stream"}]
        /\ unseen \in [Clients -> BOOLEAN] /\ DOMAIN item = Clients
    BY DEF CurrentInv, FreshInv, StreamInv
  <2>2. ASSUME NEW k \in {"oneshot", "stream"}, AddSubscriber(c, k) PROVE StreamInv'
    BY <1>1, <2>1, <2>2 DEF CurrentInv, StreamInv, AddSubscriber, otherThanClient
  <2>3. CASE Notify(c)
    BY <1>1, <2>1, <2>3 DEF CurrentInv, StreamInv, Notify, otherThanClient
  <2>4. CASE Listen(c)
    BY <1>1, <2>1, <2>4 DEF CurrentInv, StreamInv, Listen, otherThanClient
  <2>5. CASE StreamItem(c)
    BY <1>1, <2>1, <2>5 DEF CurrentInv, StreamInv, StreamItem, otherThanClient
  <2>6. CASE Answer(c)
    BY <1>1, <2>1, <2>6 DEF CurrentInv, StreamInv, Answer, otherThanClient
  <2>7. CASE Disconnect(c)
    BY <1>1, <2>1, <2>7 DEF CurrentInv, StreamInv, Disconnect, otherThanClient
  <2>8. CASE NewRequest(c)
    BY <1>1, <2>1, <2>8 DEF CurrentInv, StreamInv, NewRequest, otherThanClient
  <2> QED
    BY <2>2, <2>3, <2>4, <2>5, <2>6, <2>7, <2>8 DEF Serve, Peer
<1> QED
  BY <1>2, <1>3 DEF CurrentInv

(* Every stream that has taken what was sent shows what is known. *)
THEOREM StreamsShowLatest == Spec => []StreamsAreCurrent
<1>1. CurrentInv => StreamsAreCurrent
  <2> SUFFICES ASSUME CurrentInv, pc = "polling", NEW c \in Clients,
                      step[c] = "listening", kind[c] = "stream", ~unseen[c],
                      NEW s \in item[c], NEW g \in DOMAIN latest
               PROVE  g \in DOMAIN s /\ s[g] = latest[g]
    BY DEF StreamsAreCurrent
  <2>1. g \in DOMAIN last_power /\ last_power[g] = latest[g]
    BY DEF CurrentInv, PollInv, Shows
  <2>2. channel = last_power
    BY <2>1 DEF CurrentInv, StreamInv, NoPower
  <2> QED
    BY <2>1, <2>2 DEF CurrentInv, StreamInv
<1>2. IInv /\ CurrentInv /\ [Next]_vars => CurrentInv'
  <2> SUFFICES ASSUME IInv, CurrentInv, [Next]_vars PROVE CurrentInv'
    OBVIOUS
  <2>1. CASE Hardware \/ UNCHANGED vars
    <3>1. UNCHANGED <<pollVars, channel, clientVars, unseen>>
      BY <2>1 DEF Hardware, Draw, vars
    <3> QED
      BY <3>1 DEF pollVars, clientVars, CurrentInv, PollInv, StreamInv, Shows
  <2>2. CASE Poller
    BY <2>2, PollerCurrent, BroadcastCurrent DEF IInv, CurrentInv
  <2>3. ASSUME NEW c \in Clients, Serve(c) \/ Peer(c) PROVE CurrentInv'
    BY <2>3, ClientCurrent DEF IInv, CountInv
  <2> QED
    BY <2>1, <2>2, <2>3 DEF Next
<1> QED
  BY <1>1, <1>2, InitCurrent, Invariant, PTL DEF Spec

-----------------------------------------------------------------------------
(* The client. *)
ReaderTypeInv ==
  /\ now \in Nat /\ present \in [Streams -> Nat]
  /\ net \in [Streams -> Seq(Nat)] /\ buffer \in [Streams -> Seq(Nat)]
  /\ readings \in [Streams -> Int]
  /\ timestamp_s \in [Range(Servers) -> Int]
  /\ shown \in [Iterators -> [Streams -> Int]]

Ascending(q) == \A i, j \in 1..Len(q) : i <= j => q[i] <= q[j]
Over(low, q) == \A i \in 1..Len(q) : low <= q[i]
Under(q, high) == \A i \in 1..Len(q) : q[i] <= high

(* A stream with its events in order. *)
InOrder(s) ==
  /\ readings[s] <= present[s] /\ present[s] <= now
  /\ Ascending(buffer[s]) /\ Ascending(net[s])
  /\ Over(readings[s], buffer[s]) /\ Over(readings[s], net[s])
  /\ Under(buffer[s], present[s]) /\ Under(net[s], present[s])
  /\ \A i \in 1..Len(buffer[s]) : Over(buffer[s][i], net[s])

ShownBefore == \A i \in Iterators, s \in Streams : shown[i][s] <= readings[s]

ReaderInv == ReaderTypeInv /\ (\A s \in Streams : InOrder(s)) /\ ShownBefore

(* What a step may do to what is shown. *)
Forward ==
  /\ \A s \in Streams : readings'[s] >= readings[s]
  /\ \A server \in Range(Servers) : timestamp_s'[server] >= timestamp_s[server]
  /\ \A i \in Iterators, s \in Streams : shown'[i][s] >= shown[i][s]

-----------------------------------------------------------------------------

LEMMA ServerOfStream == \A s \in Streams : s[1] \in Range(Servers)
  BY DEF Streams

LEMMA LaterOfTwo ==
  ASSUME NEW a \in Int, NEW b \in Int
  PROVE  Max({a, b}) \in Int /\ Max({a, b}) >= a
  <1>1. \E x \in {a, b} : \A y \in {a, b} : x >= y
    <2>1. CASE a >= b  BY <2>1
    <2>2. CASE ~(a >= b)  BY <2>2
    <2> QED BY <2>1, <2>2
  <1> QED BY <1>1 DEF Max

(* A sequence in order that is cut in two.                                 *)
CutAt(q, a, b, n) ==
  /\ q \in Seq(Nat) /\ a \in Seq(Nat) /\ b \in Seq(Nat) /\ n \in 1..Len(q)
  /\ Ascending(q) /\ Len(a) = n /\ Len(b) = Len(q) - n
  /\ \A i \in 1..n : a[i] = q[i]
  /\ \A i \in 1..(Len(q) - n) : b[i] = q[i + n]

Halves(q, a, b) ==
  /\ Ascending(a) /\ Ascending(b) /\ \A i \in 1..Len(a) : Over(a[i], b)
  /\ \A low \in Int : Over(low, q) => Over(low, a) /\ Over(low, b)
  /\ \A high \in Int : Under(q, high) => Under(a, high) /\ Under(b, high)

LEMMA Cut == \A q, a, b, n : CutAt(q, a, b, n) => Halves(q, a, b)
  <1> SUFFICES ASSUME NEW q, NEW a, NEW b, NEW n, CutAt(q, a, b, n) PROVE Halves(q, a, b)
    OBVIOUS
  <1> /\ q \in Seq(Nat) /\ a \in Seq(Nat) /\ b \in Seq(Nat) /\ n \in 1..Len(q)
      /\ Ascending(q) /\ Len(a) = n /\ Len(b) = Len(q) - n
      /\ \A i \in 1..n : a[i] = q[i]
      /\ \A i \in 1..(Len(q) - n) : b[i] = q[i + n]
    BY DEF CutAt
  <1>0. Len(q) \in Nat /\ \A i \in 1..Len(q) : q[i] \in Nat
    OBVIOUS
  <1>1. \A i \in 1..(Len(q) - n) : i + n \in 1..Len(q)
    BY <1>0
  <1>2. ASSUME NEW i \in 1..Len(a), NEW j \in 1..Len(a), i <= j
        PROVE  a[i] <= a[j]
    <2>1. i \in 1..Len(q) /\ j \in 1..Len(q) /\ a[i] = q[i] /\ a[j] = q[j]
      BY <1>0
    <2> QED BY <1>2, <2>1 DEF Ascending
  <1>3. ASSUME NEW i \in 1..Len(b), NEW j \in 1..Len(b), i <= j
        PROVE  b[i] <= b[j]
    <2>1. i + n \in 1..Len(q) /\ j + n \in 1..Len(q) /\ i + n <= j + n
      BY <1>0, <1>3
    <2> QED BY <2>1 DEF Ascending
  <1>4. ASSUME NEW i \in 1..Len(a), NEW j \in 1..Len(b)
        PROVE  a[i] <= b[j]
    <2>1. i \in 1..Len(q) /\ j + n \in 1..Len(q) /\ i <= j + n
      BY <1>0
    <2> QED BY <2>1 DEF Ascending
  <1>5. \A low \in Int : Over(low, q) => Over(low, a) /\ Over(low, b)
    <2>1. ASSUME NEW i \in 1..Len(a) PROVE i \in 1..Len(q) /\ a[i] = q[i]
      BY <1>0
    <2>2. ASSUME NEW i \in 1..Len(b) PROVE i + n \in 1..Len(q) /\ b[i] = q[i + n]
      BY <1>0, <1>1
    <2> QED BY <2>1, <2>2 DEF Over
  <1>6. \A high \in Int : Under(q, high) => Under(a, high) /\ Under(b, high)
    <2>1. ASSUME NEW i \in 1..Len(a) PROVE i \in 1..Len(q) /\ a[i] = q[i]
      BY <1>0
    <2>2. ASSUME NEW i \in 1..Len(b) PROVE i + n \in 1..Len(q) /\ b[i] = q[i + n]
      BY <1>0, <1>1
    <2> QED BY <2>1, <2>2 DEF Under
  <1> QED BY <1>2, <1>3, <1>4, <1>5, <1>6 DEF Halves, Ascending, Over

LEMMA ReaderInitInv == ClientInit => ReaderInv
  <1> SUFFICES ASSUME ClientInit PROVE ReaderInv
    OBVIOUS
  <1>1. ReaderTypeInv
    BY DEF ClientInit, ReaderTypeInv
  <1>2. ASSUME NEW s \in Streams PROVE InOrder(s)
    BY DEF ClientInit, InOrder, Ascending, Over, Under
  <1>3. ShownBefore
    BY DEF ClientInit, ShownBefore
  <1> QED BY <1>1, <1>2, <1>3 DEF ReaderInv

(* Steps of the constructor, of stop() and of the loops change no event.   *)
LEMMA QuietStep ==
  ASSUME ReaderInv, UNCHANGED <<now, present, net, buffer, readings, timestamp_s, shown>>
  PROVE  ReaderInv' /\ Forward
  <1>1. ReaderInv'
    BY DEF ReaderInv, ReaderTypeInv, InOrder, Ascending, Over, Under, ShownBefore
  <1>2. Forward
    BY DEF ReaderInv, ReaderTypeInv, Forward
  <1> QED BY <1>1, <1>2

(* What the events are when one is added, and when they are cut in two.    *)
LEMMA Appended ==
  ASSUME NEW events \in Seq(Nat), NEW e \in Nat
  PROVE  LET more == Append(events, e) IN
         /\ Len(more) = Len(events) + 1
         /\ \A i \in 1..Len(more) : more[i] = IF i <= Len(events) THEN events[i] ELSE e
         /\ \A i \in 1..Len(events) : events[i] \in Nat
  <1>1. Len(events) \in Nat /\ Len(Append(events, e)) = Len(events) + 1
    OBVIOUS
  <1>2. \A i \in 1..Len(events) : events[i] \in Nat
    OBVIOUS
  <1>3. ASSUME NEW i \in 1..(Len(events) + 1)
        PROVE  Append(events, e)[i] = IF i <= Len(events) THEN events[i] ELSE e
    OBVIOUS
  <1> QED BY <1>1, <1>2, <1>3

LEMMA CutOff ==
  ASSUME NEW events \in Seq(Nat), NEW n \in 1..Len(events)
  PROVE  LET front == SubSeq(events, 1, n)
             back == SubSeq(events, n + 1, Len(events))
         IN /\ front \in Seq(Nat) /\ back \in Seq(Nat)
            /\ Len(front) = n /\ Len(back) = Len(events) - n
            /\ \A i \in 1..n : front[i] = events[i]
            /\ \A i \in 1..(Len(events) - n) : back[i] = events[i + n]
  <1> DEFINE front == SubSeq(events, 1, n)
             back == SubSeq(events, n + 1, Len(events))
  <1>1. Len(events) \in Nat /\ n \in Nat /\ 1 <= n /\ n <= Len(events)
    OBVIOUS
  <1>2. front \in Seq(Nat) /\ back \in Seq(Nat)
    BY <1>1
  <1>3. Len(front) = n /\ Len(back) = Len(events) - n
    BY <1>1
  <1>4. \A i \in 1..n : front[i] = events[i]
    BY <1>1
  <1>5. \A i \in 1..(Len(events) - n) : back[i] = events[i + n]
    BY <1>1
  <1> QED BY <1>2, <1>3, <1>4, <1>5

LEMMA ProduceStep ==
  ASSUME ReaderInv, NEW s \in Streams, Produce(s)
  PROVE  ReaderInv' /\ Forward
  <1>1. ReaderTypeInv'
    BY DEF ReaderInv, ReaderTypeInv, Produce, iterVars
  <1>2. ASSUME NEW r \in Streams PROVE InOrder(r)'
    <2>0. InOrder(r) /\ InOrder(s) /\ ReaderTypeInv
      BY DEF ReaderInv
    <2>1. CASE r # s
      BY <2>0, <2>1 DEF ReaderTypeInv, Produce, InOrder, Ascending, Over, Under
    <2>2. CASE r = s
      <3>1. present'[s] = now + 1 /\ now' = now + 1 /\ UNCHANGED <<buffer, readings>>
        BY <2>0 DEF ReaderTypeInv, Produce
      <3>2. CASE net'[s] = net[s]
        BY <2>0, <2>2, <3>1, <3>2 DEF ReaderTypeInv, InOrder, Ascending, Over, Under
      <3>3. CASE net'[s] = Append(net[s], now + 1)
        <4>1. /\ Len(net'[s]) = Len(net[s]) + 1
              /\ \A i \in 1..Len(net'[s]) :
                   net'[s][i] = IF i <= Len(net[s]) THEN net[s][i] ELSE now + 1
              /\ \A i \in 1..Len(net[s]) : net[s][i] \in Nat
              /\ \A i \in 1..Len(buffer[s]) : buffer[s][i] \in Nat
          <5>1. net[s] \in Seq(Nat) /\ buffer[s] \in Seq(Nat) /\ now + 1 \in Nat
            BY <2>0 DEF ReaderTypeInv
          <5>2. \A i \in 1..Len(buffer[s]) : buffer[s][i] \in Nat
            BY <5>1
          <5> QED BY <3>3, <5>1, <5>2, Appended
        <4>2. \A i \in 1..Len(net[s]) : net[s][i] <= now
          BY SMTT(30), <2>0, <4>1 DEF ReaderTypeInv, InOrder, Under
        <4>3. readings'[s] <= present'[s] /\ present'[s] <= now'
          BY <2>0, <3>1 DEF ReaderTypeInv, InOrder
        <4>4. Ascending(buffer[s])' /\ Over(readings[s], buffer[s])' /\ Under(buffer[s], present[s])'
          <5>1. /\ Ascending(buffer[s]) /\ Over(readings[s], buffer[s]) /\ Under(buffer[s], present[s])
                /\ buffer'[s] = buffer[s] /\ readings'[s] = readings[s]
            BY <2>0, <3>1 DEF InOrder
          <5>2. present[s] \in Int /\ present'[s] \in Int /\ present[s] <= present'[s]
            BY <2>0, <3>1 DEF ReaderTypeInv, InOrder
          <5>3. Under(buffer[s], present'[s])
            BY <4>1, <5>1, <5>2 DEF Under
          <5> QED BY <5>1, <5>3
        <4>5. Ascending(net'[s]) /\ Under(net'[s], present'[s])
          <5>1. Len(net[s]) \in Nat /\ now \in Nat
            BY <2>0 DEF ReaderTypeInv
          <5>2. Under(net'[s], now + 1)
            BY SMTT(30), <4>1, <4>2, <5>1 DEF Under
          <5>3. ASSUME NEW i \in 1..Len(net'[s]), NEW j \in 1..Len(net'[s]), i <= j
                PROVE  net'[s][i] <= net'[s][j]
            <6>1. CASE j <= Len(net[s])
              BY <2>0, <4>1, <5>1, <5>3, <6>1 DEF InOrder, Ascending
            <6>2. CASE ~(j <= Len(net[s]))
              BY <4>1, <5>1, <5>2, <5>3, <6>2 DEF Under
            <6> QED BY <6>1, <6>2
          <5> QED BY <3>1, <5>2, <5>3 DEF Ascending
        <4>6. ASSUME NEW low \in Int, Over(low, net[s]), low <= present[s]
              PROVE  Over(low, net'[s])
          <5>1. low <= now + 1 /\ Len(net[s]) \in Nat
            BY <2>0, <4>6 DEF ReaderTypeInv, InOrder
          <5>2. ASSUME NEW i \in 1..Len(net'[s]) PROVE low <= net'[s][i]
            <6>1. CASE i <= Len(net[s])
              BY <4>1, <4>6, <5>1, <6>1 DEF Over
            <6>2. CASE ~(i <= Len(net[s]))
              BY <4>1, <5>1, <6>2
            <6> QED BY <6>1, <6>2
          <5> QED BY <5>2 DEF Over
        <4>7. Over(readings'[s], net'[s])
          BY <2>0, <3>1, <4>6 DEF ReaderTypeInv, InOrder
        <4>8. \A i \in 1..Len(buffer'[s]) : Over(buffer'[s][i], net'[s])
          BY <2>0, <3>1, <4>1, <4>6 DEF InOrder, Under
        <4> QED BY <2>2, <3>1, <4>3, <4>4, <4>5, <4>7, <4>8 DEF InOrder
      <3> QED BY <2>0, <3>2, <3>3 DEF ReaderTypeInv, Produce
    <2> QED BY <2>1, <2>2
  <1>3. ShownBefore' /\ Forward
    BY DEF ReaderInv, ReaderTypeInv, ShownBefore, Forward, Produce, iterVars
  <1> QED BY <1>1, <1>2, <1>3 DEF ReaderInv

(* A connection that is made or lost changes what is on its way. *)
LEMMA ConnectionStep ==
  ASSUME ReaderInv, NEW s \in Streams, Connect(s) \/ ConnectionLost(s)
  PROVE  ReaderInv' /\ Forward
  <1> USE DEF threadFrame, iterVars
  <1>1. /\ UNCHANGED <<now, present, buffer, readings, timestamp_s, shown>>
        /\ \A r \in Streams : r # s => net'[r] = net[r]
        /\ net'[s] \in {<<present[s]>>, <<>>}
        /\ net' \in [Streams -> Seq(Nat)]
    <2>0. ReaderTypeInv
      BY DEF ReaderInv
    <2>1. CASE Connect(s)
      BY <2>0, <2>1 DEF ReaderTypeInv, Connect
    <2>2. CASE ConnectionLost(s)
      BY <2>0, <2>2 DEF ReaderTypeInv, ConnectionLost
    <2> QED BY <2>1, <2>2
  <1>2. ASSUME NEW r \in Streams PROVE InOrder(r)'
    <2>0. InOrder(r) /\ ReaderTypeInv
      BY DEF ReaderInv
    <2>1. CASE r # s
      BY <1>1, <2>0, <2>1 DEF InOrder, Ascending, Over, Under
    <2>2. CASE r = s
      BY SMTT(30), <1>1, <2>0, <2>2 DEF ReaderTypeInv, InOrder, Ascending, Over, Under
    <2> QED BY <2>1, <2>2
  <1>3. ReaderTypeInv' /\ ShownBefore' /\ Forward
    BY <1>1 DEF ReaderInv, ReaderTypeInv, ShownBefore, Forward
  <1> QED BY <1>2, <1>3 DEF ReaderInv

(* Some of the events on the way go to the buffer, in their order.         *)
LEMMA ChunkStep ==
  ASSUME ReaderInv, NEW s \in Streams, ReceiveChunk(s)
  PROVE  ReaderInv' /\ Forward
  <1> USE DEF threadFrame, iterVars
  <1>1. CASE stop_event
    BY <1>1, QuietStep DEF ReceiveChunk
  <1>2. CASE ~stop_event
    <2>1. PICK n \in 1..Len(net[s]) :
            /\ buffer' = [buffer EXCEPT ![s] = SubSeq(net[s], 1, n)]
            /\ net' = [net EXCEPT ![s] = SubSeq(@, n + 1, Len(@))]
      BY <1>2 DEF ReceiveChunk
    <2>2. UNCHANGED <<now, present, readings, timestamp_s, shown>>
      BY DEF ReceiveChunk
    <2>3. ReaderTypeInv /\ net[s] \in Seq(Nat) /\ Len(net[s]) \in Nat
      BY DEF ReaderInv, ReaderTypeInv
    <2>4. /\ SubSeq(net[s], 1, n) \in Seq(Nat) /\ SubSeq(net[s], n + 1, Len(net[s])) \in Seq(Nat)
          /\ Len(SubSeq(net[s], 1, n)) = n
          /\ Len(SubSeq(net[s], n + 1, Len(net[s]))) = Len(net[s]) - n
          /\ \A i \in 1..n : SubSeq(net[s], 1, n)[i] = net[s][i]
          /\ \A i \in 1..(Len(net[s]) - n) : SubSeq(net[s], n + 1, Len(net[s]))[i] = net[s][i + n]
      BY <2>3, CutOff
    <2>5. ReaderTypeInv'
      BY <2>1, <2>2, <2>3, <2>4 DEF ReaderTypeInv
    <2>6. ASSUME NEW r \in Streams PROVE InOrder(r)'
      <3>0. InOrder(r)
        BY DEF ReaderInv
      <3>1. CASE r # s
        BY <2>1, <2>2, <2>3, <3>0, <3>1 DEF ReaderTypeInv, InOrder, Ascending, Over, Under
      <3>2. CASE r = s
        <4>1. buffer'[s] = SubSeq(net[s], 1, n) /\ net'[s] = SubSeq(net[s], n + 1, Len(net[s]))
          BY <2>1, <2>3 DEF ReaderTypeInv
        <4>2. /\ Ascending(net[s]) /\ Over(readings[s], net[s]) /\ Under(net[s], present[s])
              /\ readings[s] \in Int /\ present[s] \in Int
          BY <2>3, <3>0, <3>2 DEF ReaderTypeInv, InOrder
        <4>3. /\ Ascending(buffer'[s]) /\ Ascending(net'[s])
              /\ Over(readings[s], buffer'[s]) /\ Over(readings[s], net'[s])
              /\ Under(buffer'[s], present[s]) /\ Under(net'[s], present[s])
              /\ \A i \in 1..Len(buffer'[s]) : Over(buffer'[s][i], net'[s])
          <5> DEFINE q == net[s]
                     a == SubSeq(q, 1, n)
                     b == SubSeq(q, n + 1, Len(q))
          <5>1. CutAt(q, a, b, n)
            BY <2>3, <2>4, <4>2 DEF CutAt
          <5>2. a = buffer'[s] /\ b = net'[s]
            BY <4>1
          <5> HIDE DEF q, a, b
          <5>3. Halves(q, a, b)
            BY <5>1, Cut, Zenon
          <5>4. Over(readings[s], q) /\ Under(q, present[s])
            BY <4>2 DEF q
          <5> QED BY <4>2, <5>2, <5>3, <5>4 DEF Halves
        <4> QED BY <2>2, <3>0, <3>2, <4>3 DEF InOrder
      <3> QED BY <3>1, <3>2
    <2>7. ShownBefore' /\ Forward
      BY <2>2 DEF ReaderInv, ReaderTypeInv, ShownBefore, Forward
    <2> QED BY <2>5, <2>6, <2>7 DEF ReaderInv
  <1> QED BY <1>1, <1>2

(* The first event of the buffer becomes the reading.                      *)
LEMMA EventStep ==
  ASSUME ReaderInv, NEW s \in Streams, ProcessEvent(s)
  PROVE  ReaderInv' /\ Forward
  <1> DEFINE t == Head(buffer[s])
  <1>1. /\ UNCHANGED <<now, present, net, shown>>
        /\ buffer' = [buffer EXCEPT ![s] = Tail(@)]
        /\ readings' = [readings EXCEPT ![s] = t]
        /\ timestamp_s' = [timestamp_s EXCEPT ![s[1]] = Max({timestamp_s[s[1]], t})]
    BY DEF ProcessEvent, Timestamp, serverVars
  <1>2. ReaderTypeInv /\ InOrder(s) /\ buffer[s] \in Seq(Nat) /\ buffer[s] # <<>>
    BY DEF ReaderInv, ReaderTypeInv, ProcessEvent
  <1>3. /\ t \in Nat /\ t = buffer[s][1] /\ 1 \in 1..Len(buffer[s])
        /\ Tail(buffer[s]) \in Seq(Nat) /\ Len(Tail(buffer[s])) = Len(buffer[s]) - 1
        /\ \A i \in 1..Len(Tail(buffer[s])) :
             i + 1 \in 1..Len(buffer[s]) /\ Tail(buffer[s])[i] = buffer[s][i + 1]
    BY <1>2
  <1>4. readings[s] <= t /\ t <= present[s]
    BY <1>2, <1>3 DEF InOrder, Over, Under
  <1> HIDE DEF t
  <1>5. /\ Max({timestamp_s[s[1]], t}) \in Int
        /\ Max({timestamp_s[s[1]], t}) >= timestamp_s[s[1]]
    <2>1. s[1] \in Range(Servers) /\ timestamp_s[s[1]] \in Int /\ t \in Int
      BY <1>2, <1>3, ServerOfStream DEF ReaderTypeInv
    <2> QED BY <2>1, LaterOfTwo
  <1>6. ReaderTypeInv'
    <2>1. readings' \in [Streams -> Int]
      BY <1>1, <1>2, <1>3 DEF ReaderTypeInv
    <2>2. timestamp_s' \in [Range(Servers) -> Int]
      BY <1>1, <1>2, <1>5 DEF ReaderTypeInv
    <2>3. buffer' \in [Streams -> Seq(Nat)]
      BY <1>1, <1>2, <1>3 DEF ReaderTypeInv
    <2> QED BY <1>1, <1>2, <2>1, <2>2, <2>3 DEF ReaderTypeInv
  <1>7. Forward
    BY SMTT(30), <1>1, <1>2, <1>3, <1>4, <1>5 DEF ReaderTypeInv, Forward
  <1>8. ASSUME NEW r \in Streams PROVE InOrder(r)'
    <2>0. InOrder(r)
      BY DEF ReaderInv
    <2>1. CASE r # s
      BY <1>1, <1>2, <2>0, <2>1 DEF ReaderTypeInv, InOrder, Ascending, Over, Under
    <2>2. CASE r = s
      <3>1. buffer'[s] = Tail(buffer[s]) /\ readings'[s] = t
        BY <1>1, <1>2 DEF ReaderTypeInv
      <3>2. /\ \A i, j \in 1..Len(buffer[s]) : i <= j => buffer[s][i] <= buffer[s][j]
            /\ \A i \in 1..Len(buffer[s]) : buffer[s][i] <= present[s] /\ Over(buffer[s][i], net[s])
        BY <1>2 DEF InOrder, Ascending, Under
      <3>3. Ascending(buffer'[s])
        BY <1>2, <1>3, <3>1, <3>2 DEF Ascending
      <3>4. Over(t, buffer'[s])
        BY <1>2, <1>3, <3>1, <3>2 DEF Over
      <3>5. Under(buffer'[s], present[s]) /\ \A i \in 1..Len(buffer'[s]) : Over(buffer'[s][i], net[s])
        BY <1>2, <1>3, <3>1, <3>2 DEF Under
      <3>6. Over(t, net[s])
        BY <1>3, <3>2
      <3> QED BY <1>1, <1>2, <1>4, <2>2, <3>1, <3>3, <3>4, <3>5, <3>6 DEF InOrder
    <2> QED BY <2>1, <2>2
  <1>9. ShownBefore'
    <2>1. ASSUME NEW i \in Iterators, NEW r \in Streams PROVE shown'[i][r] <= readings'[r]
      <3>1. /\ shown'[i][r] = shown[i][r] /\ shown[i][r] <= readings[r] /\ readings[r] <= readings'[r]
            /\ shown[i][r] \in Int /\ readings[r] \in Int /\ readings'[r] \in Int
        BY <1>1, <1>2, <1>6, <1>7 DEF ReaderInv, ReaderTypeInv, ShownBefore, Forward
      <3> QED BY <3>1
    <2> QED BY <2>1 DEF ShownBefore
  <1> QED BY <1>6, <1>7, <1>8, <1>9 DEF ReaderInv

(* An iterator shows what the readings are. *)
LEMMA YieldStep ==
  ASSUME ReaderInv, NEW i \in Iterators, Yield(i)
  PROVE  ReaderInv' /\ Forward
  <1>1. UNCHANGED <<now, present, net, buffer, readings, timestamp_s>>
    BY DEF Yield, iterFrame, serverVars
  <1>2. CASE UNCHANGED shown
    BY <1>1, <1>2, QuietStep
  <1>3. CASE shown' = [shown EXCEPT ![i] = readings]
    <2>1. ReaderTypeInv' /\ ShownBefore' /\ Forward
      BY <1>1, <1>3 DEF ReaderInv, ReaderTypeInv, ShownBefore, Forward
    <2>2. \A s \in Streams : InOrder(s)'
      BY <1>1 DEF ReaderInv, InOrder, Ascending, Over, Under
    <2> QED BY <2>1, <2>2 DEF ReaderInv
  <1> QED BY <1>2, <1>3 DEF Yield, GetPower

LEMMA ReaderStepInv == ReaderInv /\ [ClientNext]_streamingVars => ReaderInv' /\ Forward
  <1> SUFFICES ASSUME ReaderInv, [ClientNext]_streamingVars PROVE ReaderInv' /\ Forward
    OBVIOUS
  <1> DEFINE Quiet == UNCHANGED <<now, present, net, buffer, readings, timestamp_s, shown>>
  <1>1. CASE CheckServer \/ ServerUnreachable \/ CpusUnavailable \/ Built \/ Stop \/ NotifyStop \/ Joined
    <2>1. Quiet
      BY <1>1 DEF CheckServer, ServerUnreachable, CpusUnavailable, Built, Stop, NotifyStop, Joined,
                  clientFrame, serverVars, iterVars
    <2> QED BY <2>1, QuietStep
  <1>2. CASE \E s \in Streams : LoopEnds(s) \/ DelayOver(s) \/ Refused(s)
    <2>1. Quiet
      BY <1>2 DEF LoopEnds, DelayOver, Refused, threadFrame, iterVars
    <2> QED BY <2>1, QuietStep
  <1>3. CASE \E i \in Iterators : CheckStop(i) \/ Wait(i) \/ WaitTimesOut(i) \/ Resume(i)
    <2>1. Quiet
      BY <1>3 DEF CheckStop, Wait, WaitTimesOut, Resume, iterFrame, serverVars
    <2> QED BY <2>1, QuietStep
  <1>4. CASE UNCHANGED streamingVars
    <2>1. Quiet
      BY <1>4 DEF streamingVars, serverVars, iterVars
    <2> QED BY <2>1, QuietStep
  <1>5. CASE \E s \in Streams : Produce(s) \/ Connect(s) \/ ConnectionLost(s) \/ ReceiveChunk(s)
    BY <1>5, ProduceStep, ConnectionStep, ChunkStep
  <1>6. CASE \E s \in Streams : ProcessGpuEvent(s) \/ ProcessCpuEvent(s)
    BY <1>6, EventStep DEF ProcessGpuEvent, ProcessCpuEvent
  <1>7. CASE \E i \in Iterators : Yield(i)
    BY <1>7, YieldStep
  <1> QED BY <1>1, <1>2, <1>3, <1>4, <1>5, <1>6, <1>7 DEF ClientNext, ThreadStep, IterStep

(* In every behaviour the events of each stream are in order, and an       *)
(* iterator shows nothing newer than the shared readings.                  *)
THEOREM ReaderInvariant == ClientSpec => []ReaderInv
  BY ReaderInitInv, ReaderStepInv, PTL DEF ClientSpec

(* Neither a reading nor a timestamp, nor what an iterator shows of a      *)
(* stream, is ever replaced by an older one.  (_process_gpu_event,         *)
(* _process_cpu_event, __iter__.)                                          *)
THEOREM NeverBack == ClientSpec => ReadingsGoForward
  <1>1. ReaderInv /\ [ClientNext]_streamingVars => [Forward]_streamingVars
    BY ReaderStepInv
  <1>2. [][Forward]_streamingVars => ReadingsGoForward
    BY PTL DEF Forward, ReadingsGoForward
  <1> QED BY <1>1, <1>2, ReaderInvariant, PTL DEF ClientSpec
=============================================================================
