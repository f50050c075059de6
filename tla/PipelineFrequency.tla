-------------------------- MODULE PipelineFrequency --------------------------
(***************************************************************************)
(* zeus.optimizer.pipeline_frequency: the server's JobManager with the     *)
(* task of one job, the ranks of the job, each in a process of its own,    *)
(* and the process of each rank that sets the clock of its GPU.            *)
(*                                                                         *)
(* A rank asks for a schedule once, while it is constructed, and then      *)
(* repeats it in every step.  Nothing in the repository reports a          *)
(* profiling result: the task that has sent the schedules waits for        *)
(* results until its job is evicted.                                       *)
(***************************************************************************)
EXTENDS Integers, Sequences, FiniteSets, SequencesExt

CONSTANTS
  Stage,     \* per rank, the entry of the scheduler's schedules it is given
  Schedule,  \* per stage, a sequence of instructions, with a name and a frequency
  HighestFrequency,
  Steps,     \* bound on the training steps of a rank
  MaxErrors  \* bound on what raises or is killed

Ranks == DOMAIN Stage
World == Cardinality(Ranks)
Stages == {Stage[r] : r \in Ranks}

ASSUME PipelineAssumption ==
  /\ World \in Nat \ {0} /\ Ranks = 0..(World - 1)
  /\ Stages \subseteq DOMAIN Schedule
  /\ \A s \in Stages : Schedule[s] \in Seq([name : {"forward", "backward"}, frequency : Nat])
  /\ HighestFrequency \in Nat \ {0} /\ Steps \in Nat /\ MaxErrors \in Nat

VARIABLES
  client,      \* per rank, where its process is
  handler,     \* per rank, the server's get_frequency_schedule: "none", "waiting", "done"
  at,          \* per rank, the instructions its iterator has given in this step
  steps,
  job,         \* where the job's task is
  rank_infos, sched_req, sched_resp,  \* the job's entries in the dicts
  got,         \* what the gather at hand has got
  active,      \* the job's last active time: "none", "fresh" or "idle"
  cleanup,     \* the task that evicts jobs: "running" or "ended"
  errors,
  controller,  \* per rank, where the process of its FrequencyController is
  q, clock     \* its queue, in which 0 is None, and the locked clock, 0 if none is

clientVars == <<client, at, steps>>
serverVars == <<handler, rank_infos, sched_req, sched_resp, active, cleanup>>
taskVars == <<job, got>>
clockVars == <<controller, q, clock>>
vars == <<clientVars, serverVars, taskVars, errors, clockVars>>

Init ==
  /\ client = [r \in Ranks |-> "init"] /\ handler = [r \in Ranks |-> "none"]
  /\ at = [r \in Ranks |-> 0] /\ steps = [r \in Ranks |-> 0]
  /\ job = "none" /\ rank_infos = {} /\ sched_req = <<>> /\ sched_resp = [r \in Ranks |-> <<>>]
  /\ got = <<>> /\ active = "none" /\ cleanup = "running" /\ errors = 0
  /\ controller = [r \in Ranks |-> "none"]
  /\ q = [r \in Ranks |-> <<>>] /\ clock = [r \in Ranks |-> 0]

Evicted == job = "evicted"
Goto(r, where) == client' = [client EXCEPT ![r] = where]

(* make_3d_parallel: the schedule of a stage is copied to all its ranks;   *)
(* without it, a rank is a stage of its own.                               *)
Instructions(r) == Schedule[Stage[r]]

-----------------------------------------------------------------------------
(* PipelineFrequencyOptimizer.__init__: rank 0 registers the job and       *)
(* broadcasts its id, each rank registers itself and asks for a schedule.  *)

register_job == job = "none" /\ job' = "collecting" /\ active' = "fresh"

RegisterJob ==
  /\ client[0] = "init" /\ register_job
  /\ client' = [r \in Ranks |-> IF client[r] = "init" THEN "registering" ELSE client[r]]
  /\ UNCHANGED <<at, steps, handler, rank_infos, sched_req, sched_resp, cleanup, got, errors,
                 clockVars>>

register_rank(r) == rank_infos' = rank_infos \cup {r} /\ active' = "fresh"

(* A job that is gone is a KeyError, which the rank raises for. *)
RegisterRank(r) ==
  /\ client[r] = "registering"
  /\ IF Evicted THEN Goto(r, "failed") /\ UNCHANGED <<rank_infos, active, controller>>
     ELSE /\ Goto(r, "asking") /\ register_rank(r)
          /\ controller' = [controller EXCEPT ![r] = "starting"]
  /\ UNCHANGED <<at, steps, handler, sched_req, sched_resp, cleanup, taskVars, errors, q, clock>>

(* get_frequency_schedule, up to its second await. *)
AskForSchedule(r) ==
  /\ client[r] = "asking"
  /\ IF Evicted THEN Goto(r, "failed") /\ UNCHANGED <<sched_req, handler>>
     ELSE /\ Goto(r, "waiting") /\ handler' = [handler EXCEPT ![r] = "waiting"]
          /\ sched_req' = Append(sched_req, r)
  /\ UNCHANGED <<at, steps, rank_infos, sched_resp, active, cleanup, taskVars, errors, clockVars>>

(* The rest of the handler, which goes on when its rank is gone, and keeps *)
(* the channel when the job is evicted.  A job that was evicted is active  *)
(* again, though nothing else is left of it.                               *)
GetResponse(r) ==
  /\ handler[r] = "waiting" /\ sched_resp[r] # <<>>
  /\ handler' = [handler EXCEPT ![r] = "done"]
  /\ sched_resp' = [sched_resp EXCEPT ![r] = Tail(@)]
  /\ LET answer == IF Head(sched_resp[r]) = "error" THEN "failed" ELSE "running" IN
       /\ active' = IF answer = "failed" THEN active ELSE "fresh"
       /\ IF client[r] = "waiting" THEN Goto(r, answer) ELSE UNCHANGED client
  /\ UNCHANGED <<at, steps, rank_infos, sched_req, cleanup, taskVars, errors, clockVars>>

-----------------------------------------------------------------------------
(* on_instruction_begin and on_step_end, which the training framework      *)
(* calls as it likes.                                                      *)

set_frequency(r, frequency) ==
  q' = IF frequency = 0 THEN q ELSE [q EXCEPT ![r] = Append(@, frequency)]

OnInstructionBegin(r, name) ==
  /\ client[r] = "running"
  /\ IF at[r] < Len(Instructions(r)) /\ Instructions(r)[at[r] + 1].name = name
     THEN /\ at' = [at EXCEPT ![r] = @ + 1] /\ UNCHANGED client
          /\ set_frequency(r, Instructions(r)[at[r] + 1].frequency)
     ELSE Goto(r, "failed") /\ UNCHANGED <<at, q>>
  /\ UNCHANGED <<steps, serverVars, taskVars, errors, controller, clock>>

(* The iterator has to be exhausted, and starts again. *)
OnStepEnd(r) ==
  /\ client[r] = "running" /\ steps[r] < Steps
  /\ IF at[r] = Len(Instructions(r))
     THEN /\ at' = [at EXCEPT ![r] = 0] /\ steps' = [steps EXCEPT ![r] = @ + 1]
          /\ UNCHANGED client
     ELSE Goto(r, "failed") /\ UNCHANGED <<at, steps>>
  /\ UNCHANGED <<serverVars, taskVars, errors, clockVars>>

TrainingEnds(r) ==
  /\ client[r] = "running" /\ Goto(r, "done")
  /\ UNCHANGED <<at, steps, serverVars, taskVars, errors, clockVars>>

(* Anything else of the process raises. *)
ClientRaises(r) ==
  /\ client[r] \notin {"done", "failed", "exited", "killed"} /\ errors < MaxErrors
  /\ errors' = errors + 1 /\ Goto(r, "failed")
  /\ UNCHANGED <<at, steps, serverVars, taskVars, clockVars>>

(* SIGKILL: no handler runs, and what the feeder thread of the queue has   *)
(* not sent is lost.                                                       *)
ClientKilled(r) ==
  /\ client[r] # "killed" /\ errors < MaxErrors
  /\ errors' = errors + 1 /\ Goto(r, "killed")
  /\ \E sent \in 0..Len(q[r]) : q' = [q EXCEPT ![r] = SubSeq(@, 1, sent)]
  /\ UNCHANGED <<at, steps, serverVars, taskVars, controller, clock>>

(* atexit: FrequencyController.end *)
ExitLeavesClock(r) ==
  /\ client[r] \in {"done", "failed"} /\ Goto(r, "exited")
  /\ UNCHANGED <<at, steps, serverVars, taskVars, errors, clockVars>>

Exit(r) ==
  /\ client[r] \in {"done", "failed"} /\ Goto(r, "exited")
  /\ q' = IF controller[r] = "none" THEN q ELSE [q EXCEPT ![r] = Append(@, 0)]
  /\ UNCHANGED <<at, steps, serverVars, taskVars, errors, controller, clock>>

-----------------------------------------------------------------------------
(* FrequencyController._controller_process: highest clocks first, then     *)
(* what the queue holds, and a reset at its end.                           *)

ControllerStarts(r) ==
  /\ controller[r] = "starting" /\ controller' = [controller EXCEPT ![r] = "running"]
  /\ clock' = [clock EXCEPT ![r] = HighestFrequency]
  /\ UNCHANGED <<q, clientVars, serverVars, taskVars, errors>>

SetFrequency(r) ==
  /\ controller[r] = "running" /\ q[r] # <<>> /\ Head(q[r]) # 0
  /\ clock' = [clock EXCEPT ![r] = Head(q[r])] /\ q' = [q EXCEPT ![r] = Tail(@)]
  /\ UNCHANGED <<controller, clientVars, serverVars, taskVars, errors>>

EndController(r) ==
  /\ controller[r] = "running" /\ q[r] # <<>> /\ Head(q[r]) = 0
  /\ controller' = [controller EXCEPT ![r] = "ended"]
  /\ clock' = [clock EXCEPT ![r] = 0] /\ q' = [q EXCEPT ![r] = Tail(@)]
  /\ UNCHANGED <<clientVars, serverVars, taskVars, errors>>

(* A driver call raises, or Ctrl-C reaches this process too. *)
ControllerDies(r) ==
  /\ controller[r] \in {"starting", "running"} /\ errors < MaxErrors
  /\ errors' = errors + 1 /\ controller' = [controller EXCEPT ![r] = "died"]
  /\ UNCHANGED <<q, clock, clientVars, serverVars, taskVars>>

-----------------------------------------------------------------------------
(* JobManager._job_task                                                    *)

CreateScheduler ==
  /\ job = "collecting" /\ rank_infos = Ranks /\ job' = "computing"
  /\ UNCHANGED <<got, clientVars, serverVars, errors, clockVars>>

NextSchedule ==
  /\ job = "computing" /\ job' = "requests"
  /\ UNCHANGED <<got, clientVars, serverVars, errors, clockVars>>

Gathered(all, next) ==
  IF Len(all) = World THEN got' = <<>> /\ job' = next ELSE got' = all /\ UNCHANGED job

(* gather(sched_req_chan.get() for all ranks) *)
GetFirstRequests ==
  /\ job = "requests" /\ sched_req # <<>> /\ sched_req' = Tail(sched_req)
  /\ IF Len(got) + 1 >= World - 1 THEN got' = <<>> /\ job' = "sending"
     ELSE got' = Append(got, Head(sched_req)) /\ UNCHANGED job
  /\ UNCHANGED <<clientVars, handler, rank_infos, sched_resp, active, cleanup, errors, clockVars>>

GetRequest ==
  /\ job = "requests" /\ sched_req # <<>> /\ sched_req' = Tail(sched_req)
  /\ Gathered(Append(got, Head(sched_req)), "sending")
  /\ UNCHANGED <<clientVars, handler, rank_infos, sched_resp, active, cleanup, errors, clockVars>>

(* gather(sched_resp_chan[s.rank].put(s)): in any order.  Then the task    *)
(* waits for results, which nobody sends.                                  *)
SendSchedule ==
  /\ job = "sending"
  /\ \E r \in Ranks \ Range(got) :
       /\ sched_resp[r] = <<>> /\ sched_resp' = [sched_resp EXCEPT ![r] = <<"schedule">>]
       /\ Gathered(Append(got, r), "results")
  /\ UNCHANGED <<clientVars, handler, rank_infos, sched_req, active, cleanup, errors, clockVars>>

TaskErrs ==
  /\ errors < MaxErrors /\ errors' = errors + 1
  /\ (job = "collecting" /\ rank_infos = Ranks) \/ job = "computing"

SchedulerFailsQuietly ==
  /\ TaskErrs /\ job' = "failed"
  /\ UNCHANGED <<got, clientVars, serverVars, clockVars>>

(* The dump of the ranks, the scheduler's constructor or its first         *)
(* schedule raises: the error goes to every rank, and the task has ended.  *)
SchedulerFails ==
  /\ TaskErrs /\ job' = "failed"
  /\ sched_resp' = [r \in Ranks |-> Append(sched_resp[r], "error")]
  /\ UNCHANGED <<got, clientVars, handler, rank_infos, sched_req, active, cleanup, clockVars>>

-----------------------------------------------------------------------------
(* _cleanup_task *)

TimePasses ==
  /\ active = "fresh" /\ active' = "idle"
  /\ UNCHANGED <<clientVars, handler, rank_infos, sched_req, sched_resp, cleanup, taskVars, errors,
                 clockVars>>

(* A job that is active again after it was evicted has no task any more:   *)
(* a KeyError, which ends the cleanup.                                     *)
Evict ==
  /\ cleanup = "running" /\ active = "idle"
  /\ IF Evicted THEN cleanup' = "ended" /\ UNCHANGED <<active, job, rank_infos, sched_req, got>>
     ELSE /\ job' = "evicted" /\ active' = "none" /\ UNCHANGED cleanup
          /\ rank_infos' = {} /\ sched_req' = <<>> /\ got' = <<>>
  /\ UNCHANGED <<clientVars, handler, sched_resp, errors, clockVars>>

-----------------------------------------------------------------------------
ClientStep(r) ==
  \/ RegisterRank(r) \/ AskForSchedule(r) \/ OnStepEnd(r) \/ TrainingEnds(r) \/ Exit(r)
  \/ \E name \in {"forward", "backward"} : OnInstructionBegin(r, name)
ControllerStep(r) == ControllerStarts(r) \/ SetFrequency(r) \/ EndController(r)
TaskStep == CreateScheduler \/ NextSchedule \/ GetRequest \/ SendSchedule

Next ==
  \/ RegisterJob \/ TaskStep \/ SchedulerFails \/ TimePasses \/ Evict
  \/ \E r \in Ranks :
       \/ ClientStep(r) \/ GetResponse(r) \/ ControllerStep(r)
       \/ ClientRaises(r) \/ ClientKilled(r) \/ ControllerDies(r)

(* Processes, tasks and handlers go on. *)
Spec ==
  /\ Init /\ [][Next]_vars
  /\ WF_vars(RegisterJob) /\ WF_vars(TaskStep)
  /\ \A r \in Ranks : WF_vars(ClientStep(r)) /\ WF_vars(GetResponse(r)) /\ WF_vars(ControllerStep(r))

-----------------------------------------------------------------------------
(* No rank trains by a schedule before every rank has asked for one, also  *)
(* a rank that was lost since (job_manager.py:84: "All ranks will block on *)
(* this method untill everyone ... calls this method"): the frequencies    *)
(* are planned for a pipeline in which all stages follow them.             *)
AllAskFirst ==
  \A r \in Ranks : client[r] = "running" => \A p \in Ranks : handler[p] # "none"

(* A rank that asks for a schedule gets one, or an error, unless another   *)
(* was lost before it asked or the job was evicted.                        *)
EveryRankIsAnswered ==
  \A r \in Ranks : client[r] = "waiting" ~>
    \/ client[r] # "waiting" \/ Evicted
    \/ \E p \in Ranks : handler[p] = "none" /\ client[p] \in {"failed", "exited", "killed"}

(* A rank that ends by itself, with its training or with an exception,     *)
(* leaves no clock locked: the reset comes after all that it asked for.    *)
(* That takes its exit handler and its controller: one that is killed, or  *)
(* whose controller dies first, leaves the clock as it is.                 *)
ClocksAreReset ==
  \A r \in Ranks : client[r] \in {"failed", "done"} ~>
    \/ clock[r] = 0 /\ q[r] = <<>> /\ controller[r] \in {"ended", "none"}
    \/ client[r] = "killed" \/ controller[r] = "died"
=============================================================================
