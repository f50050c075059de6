------------------------- MODULE PowerStreamingClient -------------------------
(***************************************************************************)
(* zeus.monitor.power_streaming.PowerStreamingClient: a thread per server  *)
(* and device type that keeps an SSE connection to zeusd open, the         *)
(* readings they share under one condition variable, iterators that wait   *)
(* on it, and stop().                                                      *)
(*                                                                         *)
(* A reading is the time it was taken, at which nothing else was.  zeusd   *)
(* sends its present reading when a stream opens and then each new one.    *)
(***************************************************************************)
EXTENDS Integers, Sequences, FiniteSets, FiniteSetsExt, SequencesExt

CONSTANTS
  Servers,    \* the zeusd endpoints, in the order given
  Kinds,      \* per server, the device types to stream: "gpu", "cpu" or both
  Iterators,  \* the for and async for loops over the client
  MaxTime,    \* bound on the readings taken
  MaxFailures \* bound on the connections lost or refused

ASSUME ClientAssumption ==
  /\ DOMAIN Kinds = Range(Servers)
  /\ \A s \in Range(Servers) : Kinds[s] \subseteq {"gpu", "cpu"}
  /\ MaxTime \in Nat /\ MaxFailures \in Nat

Streams == UNION {{s} \X Kinds[s] : s \in Range(Servers)}

VARIABLES
  now, present,    \* the time of the latest reading, and of each stream's
  failures,
  main,          \* "building", "running", "stopping", "stopped", "raised"
  reached,            \* the server the constructor has reached
  stop_event,
  thread,        \* per stream, where its thread is
  net,           \* the events on the way from the server
  buffer,        \* the events of the chunk the thread works on
  readings,      \* _readings
  timestamp_s,   \* per server
  iter,          \* per iterator, where it is
  shown          \* history: the readings in its last snapshot

serverVars == <<now, present, failures>>
iterVars == <<iter, shown>>
streamingVars == <<serverVars, main, reached, stop_event, thread, net, buffer, readings, timestamp_s, iterVars>>

ClientInit ==
  /\ now = 0 /\ present = [s \in Streams |-> 0] /\ failures = 0
  /\ main = "building" /\ reached = 1 /\ stop_event = FALSE
  /\ thread = [s \in Streams |-> "none"] /\ net = [s \in Streams |-> <<>>]
  /\ buffer = [s \in Streams |-> <<>>]
  /\ readings = [s \in Streams |-> -1] /\ timestamp_s = [s \in Range(Servers) |-> -1]
  /\ iter = [i \in Iterators |-> "none"]
  /\ shown = [i \in Iterators |-> [s \in Streams |-> -1]]

-----------------------------------------------------------------------------
(* zeusd. *)

Produce(s) ==
  /\ now < MaxTime
  /\ now' = now + 1 /\ present' = [present EXCEPT ![s] = now']
  /\ net' = IF thread[s] = "streaming" THEN [net EXCEPT ![s] = Append(@, now')] ELSE net
  /\ UNCHANGED <<failures, main, reached, stop_event, thread, buffer, readings, timestamp_s, iterVars>>

-----------------------------------------------------------------------------
(* __init__: a server is probed, its threads are started, and the next is  *)
(* probed.  One that fails the probe, or that has no CPUs to stream, ends  *)
(* the constructor, and the threads started before it stay.                *)

clientFrame == <<serverVars, stop_event, net, buffer, readings, timestamp_s, iterVars>>

StartThreads(kinds) ==
  LET s == Servers[reached] IN
  thread' = [r \in Streams |-> IF r[1] = s /\ r[2] \in kinds THEN "loop" ELSE thread[r]]

CheckServer ==
  /\ main = "building" /\ reached <= Len(Servers)
  /\ StartThreads(Kinds[Servers[reached]]) /\ reached' = reached + 1
  /\ UNCHANGED <<main, clientFrame>>

ServerUnreachable ==
  /\ main = "building" /\ reached <= Len(Servers)
  /\ main' = "raised"
  /\ UNCHANGED <<reached, thread, clientFrame>>

CpusUnavailable ==
  /\ main = "building" /\ reached <= Len(Servers) /\ "cpu" \in Kinds[Servers[reached]]
  /\ StartThreads({"gpu"}) /\ main' = "raised"
  /\ UNCHANGED <<reached, clientFrame>>

Built ==
  /\ main = "building" /\ reached > Len(Servers)
  /\ main' = "running" /\ iter' = [i \in Iterators |-> "top"]
  /\ UNCHANGED <<serverVars, reached, stop_event, thread, net, buffer, readings, timestamp_s, shown>>

-----------------------------------------------------------------------------
(* _stream_loop and _connect_and_stream. *)

threadFrame == <<now, present, main, reached, stop_event, readings, timestamp_s, iterVars>>

LoopEnds(s) ==
  /\ thread[s] \in {"loop", "delay"} /\ stop_event
  /\ thread' = [thread EXCEPT ![s] = "done"]
  /\ UNCHANGED <<failures, net, buffer, threadFrame>>

Connect(s) ==
  /\ thread[s] = "loop" /\ ~stop_event
  /\ thread' = [thread EXCEPT ![s] = "streaming"]
  /\ net' = [net EXCEPT ![s] = <<present[s]>>]
  /\ UNCHANGED <<failures, buffer, threadFrame>>

RefusedForGood(s) ==
  /\ thread[s] = "loop" /\ ~stop_event /\ failures < MaxFailures
  /\ failures' = failures + 1 /\ thread' = [thread EXCEPT ![s] = "done"]
  /\ UNCHANGED <<net, buffer, threadFrame>>

(* HTTPStatusError or RequestError: back to the loop after the delay. *)
Refused(s) ==
  /\ thread[s] = "loop" /\ ~stop_event /\ failures < MaxFailures
  /\ failures' = failures + 1 /\ thread' = [thread EXCEPT ![s] = "delay"]
  /\ UNCHANGED <<net, buffer, threadFrame>>

(* The connection breaks, and what was on its way, or half received, is    *)
(* gone; or the server closes it, and the loop reconnects at once.         *)
ConnectionLost(s) ==
  /\ thread[s] = "streaming" /\ buffer[s] = <<>> /\ failures < MaxFailures
  /\ failures' = failures + 1
  /\ \E next \in {"loop", "delay"} : thread' = [thread EXCEPT ![s] = next]
  /\ net' = [net EXCEPT ![s] = <<>>]
  /\ UNCHANGED <<buffer, threadFrame>>

DelayOver(s) ==
  /\ thread[s] = "delay" /\ ~stop_event
  /\ thread' = [thread EXCEPT ![s] = "loop"]
  /\ UNCHANGED <<failures, net, buffer, threadFrame>>

(* A chunk: some of the events on the way; after stop() it ends the thread. *)
ReceiveChunk(s) ==
  /\ thread[s] = "streaming" /\ buffer[s] = <<>> /\ net[s] # <<>>
  /\ IF stop_event
     THEN thread' = [thread EXCEPT ![s] = "done"] /\ UNCHANGED <<net, buffer>>
     ELSE /\ \E n \in 1..Len(net[s]) :
               /\ buffer' = [buffer EXCEPT ![s] = SubSeq(net[s], 1, n)]
               /\ net' = [net EXCEPT ![s] = SubSeq(@, n + 1, Len(@))]
          /\ UNCHANGED thread
  /\ UNCHANGED <<failures, threadFrame>>

NotifyAll == iter' = [i \in Iterators |-> IF iter[i] = "waiting" THEN "notified" ELSE iter[i]]

LatestTimestamp(server, t) == t

Timestamp(server, t) == Max({timestamp_s[server], t})

(* The events of a chunk in turn; get_power() reads under the lock that    *)
(* this holds.                                                             *)
ProcessEvent(s) ==
  /\ buffer[s] # <<>>
  /\ buffer' = [buffer EXCEPT ![s] = Tail(@)]
  /\ readings' = [readings EXCEPT ![s] = Head(buffer[s])]
  /\ timestamp_s' = [timestamp_s EXCEPT ![s[1]] = Timestamp(s[1], Head(buffer[s]))]
  /\ NotifyAll
  /\ UNCHANGED <<serverVars, main, reached, stop_event, thread, net, shown>>

ProcessGpuEvent(s) == s[2] = "gpu" /\ ProcessEvent(s)
ProcessCpuEvent(s) == s[2] = "cpu" /\ ProcessEvent(s)

-----------------------------------------------------------------------------
(* __iter__ and __aiter__. *)

iterFrame == <<serverVars, main, reached, stop_event, thread, net, buffer, readings, timestamp_s>>
Goto(i, step) == iter' = [iter EXCEPT ![i] = step]

(* while not self._stop_event.is_set() *)
CheckStop(i) ==
  /\ iter[i] = "top" /\ Goto(i, IF stop_event THEN "ended" ELSE "enter")
  /\ UNCHANGED <<shown, iterFrame>>

Wait(i) ==
  /\ iter[i] = "enter" /\ Goto(i, "waiting")
  /\ UNCHANGED <<shown, iterFrame>>

WaitForever(i) == FALSE

(* wait(timeout=1.0) returns False. *)
WaitTimesOut(i) ==
  /\ iter[i] = "waiting" /\ Goto(i, IF stop_event THEN "ended" ELSE "top")
  /\ UNCHANGED <<shown, iterFrame>>

GetPower == readings

(* get_power() and yield, unless stop() was called. *)
Yield(i) ==
  /\ iter[i] = "notified"
  /\ IF stop_event THEN Goto(i, "ended") /\ UNCHANGED shown
     ELSE Goto(i, "body") /\ shown' = [shown EXCEPT ![i] = GetPower]
  /\ UNCHANGED iterFrame

(* The body of the loop is done, and asks for the next snapshot. *)
Resume(i) ==
  /\ iter[i] = "body" /\ Goto(i, "top")
  /\ UNCHANGED <<shown, iterFrame>>

-----------------------------------------------------------------------------
(* stop(). *)

Stop ==
  /\ main = "running"
  /\ main' = "stopping" /\ stop_event' = TRUE
  /\ UNCHANGED <<serverVars, reached, thread, net, buffer, readings, timestamp_s, iterVars>>

NotifyStop ==
  /\ main = "stopping" /\ main' = "joining" /\ NotifyAll
  /\ UNCHANGED <<serverVars, reached, stop_event, thread, net, buffer, readings, timestamp_s, shown>>

(* Every join returns, after 5 s also of a thread whose server is silent.  *)
Joined ==
  /\ main = "joining" /\ main' = "stopped"
  /\ UNCHANGED <<serverVars, reached, stop_event, thread, net, buffer, readings, timestamp_s, iterVars>>

-----------------------------------------------------------------------------
ThreadStep(s) ==
  \/ LoopEnds(s) \/ Connect(s) \/ DelayOver(s) \/ ReceiveChunk(s)
  \/ ProcessGpuEvent(s) \/ ProcessCpuEvent(s)

IterStep(i) == CheckStop(i) \/ Wait(i) \/ WaitTimesOut(i) \/ Yield(i)

ClientNext ==
  \/ CheckServer \/ ServerUnreachable \/ CpusUnavailable \/ Built
  \/ Stop \/ NotifyStop \/ Joined
  \/ \E s \in Streams : Produce(s) \/ ThreadStep(s) \/ Refused(s) \/ ConnectionLost(s)
  \/ \E i \in Iterators : IterStep(i) \/ Resume(i)

(* Threads and iterators go on; the loop's body ends; connections fail     *)
(* MaxFailures times at most.  Nothing makes the user call stop().         *)
ClientSpec ==
  /\ ClientInit /\ [][ClientNext]_streamingVars
  /\ WF_streamingVars(NotifyStop) /\ WF_streamingVars(Joined)
  /\ \A s \in Streams : WF_streamingVars(ThreadStep(s))
  /\ \A i \in Iterators : WF_streamingVars(IterStep(i)) /\ WF_streamingVars(Resume(i))

-----------------------------------------------------------------------------
(* No reading gives way to an older one, neither what get_power() returns  *)
(* nor what an iterator has shown, and no timestamp to an older one,       *)
(* however a server's two streams are delayed against each other, break    *)
(* and reconnect.                                                          *)
ReadingsGoForward ==
  [][/\ \A s \in Streams : readings'[s] >= readings[s]
     /\ \A server \in Range(Servers) : timestamp_s'[server] >= timestamp_s[server]
     /\ \A i \in Iterators, s \in Streams : shown'[i][s] >= shown[i][s]]_streamingVars

(* stop() ends every iterator, also one that was about to wait when it     *)
(* was woken.                                                              *)
StopEndsIterators == stop_event ~> \A i \in Iterators : iter[i] = "ended"

(* Whatever breaks in between, a client that is not stopped comes to show  *)
(* the present reading of every stream.                                    *)
ReadingsCatchUp ==
  \A s \in Streams :
    main = "running" /\ now = MaxTime ~> stop_event \/ readings[s] = present[s]
=============================================================================
