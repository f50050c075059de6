----------------------- MODULE PipelineFrequency_proofs -----------------------
(***************************************************************************)
(* No rank trains before all have asked, no channel of the server is full  *)
(* when something is put into it, and the reset of a clock is the last its *)
(* controller does: for any number of ranks, stages and schedules, however *)
(* ranks end, the scheduler fails or the job is evicted.                   *)
(***************************************************************************)
EXTENDS PipelineFrequency, FiniteSetTheorems, TLAPS

AllAsked == \A p \in Ranks : handler[p] # "none"

Distinct(ranks) == \A i, j \in 1..Len(ranks) : ranks[i] = ranks[j] => i = j
Apart(left, right) == \A i \in 1..Len(left), j \in 1..Len(right) : left[i] # right[j]
HaveAsked(ranks) == \A i \in 1..Len(ranks) : handler[ranks[i]] # "none"

TypeInv ==
  /\ DOMAIN client = Ranks /\ DOMAIN handler = Ranks /\ DOMAIN sched_resp = Ranks
  /\ sched_req \in Seq(Ranks) /\ got \in Seq(Ranks) /\ Len(got) < World

(* The requests that are in the channel or with the task are of different  *)
(* ranks, all of which have asked.                                         *)
RequestInv ==
  /\ \A r \in Ranks : client[r] \in {"init", "registering", "asking"} => handler[r] = "none"
  /\ Distinct(sched_req) /\ HaveAsked(sched_req)
  /\ job \notin {"sending", "results"} => Distinct(got) /\ HaveAsked(got) /\ Apart(got, sched_req)
  /\ job \in {"sending", "results"} => AllAsked

(* A channel to a rank is empty until the task sends or fails. *)
ResponseInv ==
  /\ \A r \in Ranks : sched_resp[r] \in {<<>>, <<"schedule">>, <<"error">>}
  /\ job \in {"none", "collecting", "computing", "requests"} => \A r \in Ranks : sched_resp[r] = <<>>
  /\ \A r \in Ranks : sched_resp[r] = <<"schedule">> \/ client[r] = "running" => AllAsked

IInv == TypeInv /\ RequestInv /\ ResponseInv

-----------------------------------------------------------------------------

LEMMA WorldType == World \in Nat \ {0} /\ IsFiniteSet(Ranks) /\ Cardinality(Ranks) = World
  <1>1. World \in Nat \ {0} /\ Ranks = 0..(World - 1)
    BY PipelineAssumption
  <1>2. IsFiniteSet(Ranks)
    <2> DEFINE w == World - 1
    <2>1. w \in Int /\ 0 \in Int
      BY <1>1
    <2> HIDE DEF w
    <2>2. IsFiniteSet(0..w)
      BY <2>1, FS_Interval
    <2> QED BY <1>1, <2>2 DEF w
  <1> QED BY <1>1, <1>2 DEF World

(* A sequence of different ranks is no longer than there are ranks, and    *)
(* when it is as long it has them all.                                     *)
LEMMA AllRanks ==
  ASSUME NEW ranks \in Seq(Ranks), Distinct(ranks)
  PROVE  /\ Len(ranks) <= World
         /\ Len(ranks) = World => \A r \in Ranks : \E i \in 1..Len(ranks) : ranks[i] = r
  <1> DEFINE n == Len(ranks)
             f == [i \in 1..n |-> ranks[i]]
  <1>1. n \in Nat /\ \A i \in 1..n : ranks[i] \in Ranks
    OBVIOUS
  <1>2. f \in Injection(1..n, Ranks)
    BY <1>1 DEF Injection, IsInjective, Distinct
  <1>3. Cardinality(1..n) = n
    <2>1. Len(ranks) \in Nat
      BY <1>1
    <2> HIDE DEF n
    <2>2. n \in Int /\ 1 \in Int /\ n >= 0
      BY <2>1 DEF n
    <2>3. Cardinality(1..n) = IF 1 > n THEN 0 ELSE n - 1 + 1
      BY <2>2, FS_Interval
    <2> QED BY <2>2, <2>3
  <1>4. n <= World
    BY <1>2, <1>3, WorldType, FS_Injection
  <1>5. ASSUME n = World PROVE f \in Surjection(1..n, Ranks)
    BY <1>2, <1>3, <1>5, WorldType, FS_Injection
  <1>6. ASSUME n = World, NEW r \in Ranks PROVE \E i \in 1..n : ranks[i] = r
    BY <1>5, <1>6 DEF Surjection
  <1> QED BY <1>4, <1>6

(* What a sequence is when one is appended, or the first taken. *)
LEMMA Added ==
  ASSUME NEW S, NEW ranks \in Seq(S), NEW x \in S
  PROVE  /\ Append(ranks, x) \in Seq(S) /\ Len(Append(ranks, x)) = Len(ranks) + 1
         /\ \A i \in 1..Len(Append(ranks, x)) :
              \/ i \in 1..Len(ranks) /\ Append(ranks, x)[i] = ranks[i]
              \/ i = Len(ranks) + 1 /\ Append(ranks, x)[i] = x
  OBVIOUS

LEMMA Taken ==
  ASSUME NEW S, NEW ranks \in Seq(S), ranks # <<>>
  PROVE  /\ Head(ranks) = ranks[1] /\ 1 \in 1..Len(ranks) /\ Head(ranks) \in S
         /\ Tail(ranks) \in Seq(S)
         /\ \A i \in 1..Len(Tail(ranks)) :
              i \in Int /\ i + 1 \in 1..Len(ranks) /\ i + 1 # 1 /\ Tail(ranks)[i] = ranks[i + 1]
  OBVIOUS

LEMMA InitInv == Init => IInv
  <1> SUFFICES ASSUME Init PROVE IInv
    OBVIOUS
  <1> QED BY WorldType DEF Init, IInv, TypeInv, RequestInv, ResponseInv, Distinct, HaveAsked, Apart,
            AllAsked

-----------------------------------------------------------------------------
(* A step that asks and sends nothing, after which no more ranks train. *)
Quiet ==
  /\ UNCHANGED <<handler, sched_req, sched_resp, got>>
  /\ DOMAIN client' = Ranks
  /\ \A p \in Ranks :
       /\ client'[p] = "running" => client[p] = "running"
       /\ client'[p] \in {"init", "registering", "asking"} =>
            client[p] \in {"init", "registering", "asking"}
  /\ \/ job' = job
     \/ /\ job \in {"none", "collecting", "computing", "requests"}
        /\ job' \in {"none", "collecting", "computing", "requests"}

LEMMA QuietStep ==
  ASSUME IInv, Quiet
  PROVE  IInv'
  <1>1. TypeInv'
    BY DEF IInv, TypeInv, Quiet, World, Ranks
  <1>2. AllAsked' = AllAsked
    BY DEF Quiet, AllAsked
  <1>3. RequestInv'
    BY <1>2 DEF IInv, RequestInv, Quiet, Distinct, HaveAsked, Apart
  <1>4. ResponseInv'
    BY <1>2 DEF IInv, ResponseInv, Quiet
  <1> QED BY <1>1, <1>3, <1>4 DEF IInv

LEMMA AskStep ==
  ASSUME IInv, NEW r \in Ranks, AskForSchedule(r)
  PROVE  IInv'
  <1>1. CASE Evicted
    <2>1. Quiet
      BY <1>1 DEF AskForSchedule, Goto, taskVars, Quiet, IInv, TypeInv
    <2> QED BY <2>1, QuietStep
  <1>2. CASE ~Evicted
    <2>1. /\ client[r] = "asking" /\ client' = [client EXCEPT ![r] = "waiting"]
          /\ handler' = [handler EXCEPT ![r] = "waiting"] /\ sched_req' = Append(sched_req, r)
          /\ UNCHANGED <<sched_resp, got, job>>
      BY <1>2 DEF AskForSchedule, Goto, taskVars
    <2>2. /\ sched_req \in Seq(Ranks) /\ got \in Seq(Ranks)
          /\ DOMAIN handler = Ranks /\ DOMAIN client = Ranks /\ handler[r] = "none"
      BY <2>1 DEF IInv, TypeInv, RequestInv
    <2>3. \A p \in Ranks : handler[p] # "none" => handler'[p] # "none" /\ p # r
      BY <2>1, <2>2
    <2>4. handler'[r] # "none"
      BY <2>1, <2>2
    <2>5. /\ sched_req' \in Seq(Ranks)
          /\ \A i \in 1..Len(sched_req') :
               \/ i \in 1..Len(sched_req) /\ sched_req'[i] = sched_req[i]
               \/ i = Len(sched_req) + 1 /\ sched_req'[i] = r
      BY <2>1, <2>2, Added
    <2>6. \A i \in 1..Len(sched_req) : sched_req[i] \in Ranks /\ handler[sched_req[i]] # "none"
      BY <2>2 DEF IInv, RequestInv, HaveAsked
    <2>7. TypeInv'
      BY <2>1, <2>5 DEF IInv, TypeInv
    <2>8. Distinct(sched_req)' /\ HaveAsked(sched_req)'
      BY <2>3, <2>4, <2>5, <2>6 DEF IInv, RequestInv, Distinct, HaveAsked
    <2>9. ASSUME job \notin {"sending", "results"} PROVE Distinct(got)' /\ HaveAsked(got)' /\ Apart(got, sched_req)'
      <3>1. \A i \in 1..Len(got) : got[i] \in Ranks /\ handler[got[i]] # "none"
        BY <2>2, <2>9 DEF IInv, RequestInv, HaveAsked
      <3>2. \A i \in 1..Len(got) : got[i] # r /\ handler'[got[i]] # "none"
        BY <2>3, <3>1
      <3>3. Apart(got, sched_req)'
        BY <2>1, <2>5, <2>9, <3>2 DEF IInv, RequestInv, Apart
      <3> QED BY <2>1, <2>9, <3>2, <3>3 DEF IInv, RequestInv, Distinct, HaveAsked
    <2>10. AllAsked => AllAsked'
      BY <2>3 DEF AllAsked
    <2>11. \A p \in Ranks : client'[p] \in {"init", "registering", "asking"} => handler'[p] = "none"
      BY <2>1, <2>2 DEF IInv, RequestInv
    <2>12. RequestInv'
      BY <2>1, <2>8, <2>9, <2>10, <2>11 DEF IInv, RequestInv
    <2>13. ResponseInv'
      BY <2>1, <2>2, <2>10 DEF IInv, ResponseInv
    <2> QED BY <2>7, <2>12, <2>13 DEF IInv
  <1> QED BY <1>1, <1>2

(* What a rank is sent is sent after all have asked. *)
LEMMA ResponseStep ==
  ASSUME IInv, NEW r \in Ranks, GetResponse(r)
  PROVE  IInv'
  <1>1. /\ handler[r] = "waiting" /\ handler' = [handler EXCEPT ![r] = "done"]
        /\ sched_resp[r] # <<>> /\ sched_resp' = [sched_resp EXCEPT ![r] = Tail(@)]
        /\ UNCHANGED <<sched_req, got, job>>
    BY DEF GetResponse, taskVars
  <1>2. \/ UNCHANGED client
        \/ /\ client[r] = "waiting"
           /\ \/ client' = [client EXCEPT ![r] = "failed"] /\ Head(sched_resp[r]) = "error"
              \/ client' = [client EXCEPT ![r] = "running"] /\ Head(sched_resp[r]) # "error"
    BY DEF GetResponse, Goto
  <1>3. DOMAIN handler = Ranks /\ DOMAIN client = Ranks /\ DOMAIN sched_resp = Ranks
    BY DEF IInv, TypeInv
  <1>4. \A p \in Ranks : handler'[p] = "none" <=> handler[p] = "none"
    BY <1>1, <1>3
  <1>5. AllAsked' = AllAsked
    BY <1>4 DEF AllAsked
  <1>6. /\ sched_resp[r] \in {<<"schedule">>, <<"error">>} /\ sched_resp'[r] = <<>>
        /\ \A p \in Ranks \ {r} : sched_resp'[p] = sched_resp[p]
    <2>1. sched_resp[r] \in {<<"schedule">>, <<"error">>}
      BY <1>1 DEF IInv, ResponseInv
    <2>2. Tail(<<"schedule">>) = <<>> /\ Tail(<<"error">>) = <<>>
      OBVIOUS
    <2> QED BY <1>1, <1>3, <2>1, <2>2
  <1>7. \A p \in Ranks : client'[p] = "running" =>
          client[p] = "running" \/ sched_resp[p] = <<"schedule">>
    BY <1>2, <1>3, <1>6
  <1>8. TypeInv'
    BY <1>1, <1>2 DEF IInv, TypeInv
  <1>9. RequestInv'
    <2>1. \A p \in Ranks : client'[p] \in {"init", "registering", "asking"} => client'[p] = client[p]
      BY <1>2, <1>3
    <2>2. sched_req \in Seq(Ranks) /\ got \in Seq(Ranks)
      BY DEF IInv, TypeInv
    <2>3. HaveAsked(sched_req)'
      BY <1>1, <1>4, <2>2 DEF IInv, RequestInv, HaveAsked
    <2>4. job \notin {"sending", "results"} => HaveAsked(got)'
      BY <1>1, <1>4, <2>2 DEF IInv, RequestInv, HaveAsked
    <2> QED BY <1>1, <1>4, <1>5, <2>1, <2>3, <2>4 DEF IInv, RequestInv, Distinct, Apart
  <1>10. ResponseInv'
    BY <1>1, <1>5, <1>6, <1>7 DEF IInv, ResponseInv
  <1> QED BY <1>8, <1>9, <1>10 DEF IInv

(* The task has a request of every rank when it has as many as ranks. *)
LEMMA RequestStep ==
  ASSUME IInv, GetRequest
  PROVE  IInv'
  <1> DEFINE all == Append(got, Head(sched_req))
  <1>1. /\ job = "requests" /\ sched_req # <<>> /\ sched_req' = Tail(sched_req)
        /\ UNCHANGED <<client, handler, sched_resp>>
        /\ \/ Len(all) = World /\ got' = <<>> /\ job' = "sending"
           \/ Len(all) # World /\ got' = all /\ job' = job
    BY DEF GetRequest, Gathered, clientVars
  <1>2. sched_req \in Seq(Ranks) /\ got \in Seq(Ranks) /\ Len(got) < World
    BY DEF IInv, TypeInv
  <1>3. /\ Head(sched_req) = sched_req[1] /\ 1 \in 1..Len(sched_req) /\ Head(sched_req) \in Ranks
        /\ sched_req' \in Seq(Ranks)
        /\ \A i \in 1..Len(sched_req') :
             i \in Int /\ i + 1 \in 1..Len(sched_req) /\ i + 1 # 1 /\ sched_req'[i] = sched_req[i + 1]
    BY <1>1, <1>2, Taken
  <1>4. /\ all \in Seq(Ranks) /\ Len(all) = Len(got) + 1
        /\ \A i \in 1..Len(all) :
             \/ i \in 1..Len(got) /\ all[i] = got[i]
             \/ i = Len(got) + 1 /\ all[i] = sched_req[1]
    BY <1>2, <1>3, Added
  <1> HIDE DEF all
  <1>5. Distinct(sched_req) /\ HaveAsked(sched_req) /\ Distinct(got) /\ HaveAsked(got) /\ Apart(got, sched_req)
    BY <1>1 DEF IInv, RequestInv
  <1>l. Len(got) \in Nat
    BY <1>2
  <1>a. \A i \in 1..Len(got) : all[i] # sched_req[1] \/ all[i] # got[i]
    BY <1>3, <1>5 DEF Apart
  <1>6. Distinct(all) /\ HaveAsked(all)
    <2>1. Distinct(all)
      <3> SUFFICES ASSUME NEW i \in 1..Len(all), NEW j \in 1..Len(all), all[i] = all[j]
                   PROVE  i = j
        BY DEF Distinct
      <3>1. CASE i \in 1..Len(got) /\ j \in 1..Len(got)
        BY <1>4, <1>l, <1>5, <3>1 DEF Distinct
      <3>2. CASE i \in 1..Len(got) /\ j \notin 1..Len(got)
        BY <1>4, <1>l, <1>a, <3>2
      <3>3. CASE i \notin 1..Len(got) /\ j \in 1..Len(got)
        BY <1>4, <1>l, <1>a, <3>3
      <3> QED BY <1>4, <1>l, <3>1, <3>2, <3>3
    <2>2. HaveAsked(all)
      BY <1>3, <1>4, <1>5 DEF HaveAsked
    <2> QED BY <2>1, <2>2
  <1>7. Distinct(sched_req') /\ HaveAsked(sched_req') /\ Apart(all, sched_req')
    <2>1. Distinct(sched_req')
      BY <1>3, <1>5 DEF Distinct
    <2>2. HaveAsked(sched_req')
      BY <1>3, <1>5 DEF HaveAsked
    <2>3. Apart(all, sched_req')
      <3> SUFFICES ASSUME NEW i \in 1..Len(all), NEW j \in 1..Len(sched_req')
                   PROVE  all[i] # sched_req'[j]
        BY DEF Apart
      <3>1. j + 1 \in 1..Len(sched_req) /\ j + 1 # 1 /\ sched_req'[j] = sched_req[j + 1]
        BY <1>3
      <3>2. sched_req[j + 1] # sched_req[1]
        BY <1>3, <1>5, <3>1 DEF Distinct
      <3>3. \A k \in 1..Len(got) : got[k] # sched_req[j + 1]
        BY <1>5, <3>1 DEF Apart
      <3> QED BY <1>4, <3>1, <3>2, <3>3
    <2> QED BY <2>1, <2>2, <2>3
  <1>8. ASSUME Len(all) = World PROVE AllAsked
    BY SMTT(30), <1>4, <1>6, <1>8, AllRanks DEF HaveAsked, AllAsked
  <1>9. AllAsked' = AllAsked /\ HaveAsked(sched_req)' /\ Distinct(sched_req)'
    BY <1>1, <1>7 DEF AllAsked, HaveAsked, Distinct
  <1>10. CASE Len(all) = World /\ got' = <<>> /\ job' = "sending"
    <2>1. TypeInv'
      BY <1>1, <1>3, <1>10, WorldType DEF IInv, TypeInv
    <2>2. RequestInv'
      BY <1>1, <1>8, <1>9, <1>10 DEF IInv, RequestInv
    <2>3. ResponseInv'
      BY <1>1, <1>9, <1>10 DEF IInv, ResponseInv
    <2> QED BY <2>1, <2>2, <2>3 DEF IInv
  <1>11. CASE Len(all) # World /\ got' = all /\ job' = job
    <2>1. Len(all) < World
      BY <1>2, <1>4, <1>11, WorldType
    <2>2. TypeInv'
      BY <1>1, <1>3, <1>4, <1>11, <2>1 DEF IInv, TypeInv
    <2>3. Distinct(got)' /\ HaveAsked(got)' /\ Apart(got, sched_req)'
      BY <1>1, <1>6, <1>7, <1>11 DEF Distinct, HaveAsked, Apart
    <2>4. RequestInv'
      BY <1>1, <1>9, <1>11, <2>3 DEF IInv, RequestInv
    <2>5. ResponseInv'
      BY <1>1, <1>9, <1>11 DEF IInv, ResponseInv
    <2> QED BY <2>2, <2>4, <2>5 DEF IInv
  <1> QED BY <1>1, <1>10, <1>11

LEMMA SendStep ==
  ASSUME IInv, SendSchedule
  PROVE  IInv'
  <1>1. PICK r \in Ranks \ Range(got) :
          /\ sched_resp[r] = <<>> /\ sched_resp' = [sched_resp EXCEPT ![r] = <<"schedule">>]
          /\ Gathered(Append(got, r), "results")
    BY DEF SendSchedule
  <1>2. job = "sending" /\ UNCHANGED <<client, handler, sched_req>>
    BY DEF SendSchedule, clientVars
  <1>3. job' \in {"sending", "results"}
    BY <1>1, <1>2 DEF Gathered
  <1>4. AllAsked /\ AllAsked' = AllAsked
    BY <1>2 DEF IInv, RequestInv, AllAsked
  <1>5. TypeInv'
    <2>1. got \in Seq(Ranks) /\ Len(got) < World /\ World \in Nat \ {0}
      BY WorldType DEF IInv, TypeInv
    <2>2. Append(got, r) \in Seq(Ranks) /\ Len(Append(got, r)) = Len(got) + 1
      BY <2>1, Added
    <2>3. CASE Len(Append(got, r)) = World
      <3>1. got' = <<>>
        BY <1>1, <2>3 DEF Gathered
      <3>2. <<>> \in Seq(Ranks) /\ Len(<<>>) = 0
        OBVIOUS
      <3>3. got' \in Seq(Ranks) /\ Len(got') < World
        BY <2>1, <3>1, <3>2
      <3> QED BY <1>1, <1>2, <3>3 DEF IInv, TypeInv
    <2>4. CASE Len(Append(got, r)) # World
      <3>1. got' = Append(got, r)
        BY <1>1, <2>4 DEF Gathered
      <3>2. Len(got) \in Nat
        BY <2>1
      <3>3. Len(got) + 1 < World
        BY <2>1, <2>2, <2>4, <3>2
      <3>4. got' \in Seq(Ranks) /\ Len(got') < World
        BY <2>2, <3>1, <3>3
      <3> QED BY <1>1, <1>2, <3>4 DEF IInv, TypeInv
    <2> QED BY <2>3, <2>4
  <1>6. RequestInv'
    BY <1>2, <1>3, <1>4 DEF IInv, RequestInv, Distinct, HaveAsked
  <1>7. ResponseInv'
    BY <1>1, <1>2, <1>3, <1>4 DEF IInv, TypeInv, ResponseInv
  <1> QED BY <1>5, <1>6, <1>7 DEF IInv

(* The error finds all channels to the ranks empty. *)
LEMMA FailStep ==
  ASSUME IInv, SchedulerFails
  PROVE  IInv'
  <1>1. /\ job \in {"collecting", "computing"} /\ job' = "failed"
        /\ sched_resp' = [r \in Ranks |-> Append(sched_resp[r], "error")]
        /\ UNCHANGED <<client, handler, sched_req, got>>
    BY DEF SchedulerFails, TaskErrs, clientVars
  <1>2. ASSUME NEW r \in Ranks PROVE sched_resp'[r] = <<"error">>
    <2>1. sched_resp[r] = <<>>
      BY <1>1 DEF IInv, ResponseInv
    <2>2. sched_resp'[r] = Append(<<>>, "error")
      BY <1>1, <2>1
    <2> QED BY <2>2
  <1>3. AllAsked' = AllAsked
    BY <1>1 DEF AllAsked
  <1>4. TypeInv'
    BY <1>1 DEF IInv, TypeInv
  <1>5. RequestInv'
    BY <1>1, <1>3 DEF IInv, RequestInv, Distinct, HaveAsked, Apart
  <1>6. ResponseInv'
    BY <1>1, <1>2, <1>3 DEF IInv, ResponseInv
  <1> QED BY <1>4, <1>5, <1>6 DEF IInv

LEMMA EvictStep ==
  ASSUME IInv, Evict
  PROVE  IInv'
  <1>1. CASE Evicted
    <2>1. Quiet
      BY <1>1 DEF Evict, clientVars, Quiet, IInv, TypeInv
    <2> QED BY <2>1, QuietStep
  <1>2. CASE ~Evicted
    <2>1. /\ job' = "evicted" /\ sched_req' = <<>> /\ got' = <<>>
          /\ UNCHANGED <<client, handler, sched_resp>>
      BY <1>2 DEF Evict, clientVars
    <2>2. AllAsked' = AllAsked
      BY <2>1 DEF AllAsked
    <2>3. TypeInv'
      BY <2>1, WorldType DEF IInv, TypeInv
    <2>4. RequestInv'
      BY <2>1, <2>2 DEF IInv, RequestInv, Distinct, HaveAsked, Apart
    <2>5. ResponseInv'
      BY <2>1, <2>2 DEF IInv, ResponseInv
    <2> QED BY <2>3, <2>4, <2>5 DEF IInv
  <1> QED BY <1>1, <1>2

(* One case per action. *)
LEMMA NextInv == IInv /\ [Next]_vars => IInv'
  <1> SUFFICES ASSUME IInv, [Next]_vars PROVE IInv'
    OBVIOUS
  <1> USE DEF clientVars, serverVars, taskVars, clockVars
  <1>t. DOMAIN client = Ranks
    BY DEF IInv, TypeInv
  <1>1. CASE RegisterJob
    <2>1. Quiet
      BY <1>1 DEF RegisterJob, register_job, Quiet
    <2> QED BY <2>1, QuietStep
  <1>2. CASE \E r \in Ranks : ClientStep(r)
    <2>1. PICK r \in Ranks : ClientStep(r)
      BY <1>2
    <2>2. CASE AskForSchedule(r)
      BY <2>2, AskStep
    <2>3. CASE RegisterRank(r)
      <3>1. Quiet
        BY <1>t, <2>3 DEF RegisterRank, Goto, Quiet
      <3> QED BY <3>1, QuietStep
    <2>4. CASE OnStepEnd(r) \/ TrainingEnds(r) \/ Exit(r)
      <3>1. Quiet
        BY <1>t, <2>4 DEF OnStepEnd, TrainingEnds, Exit, Goto, Quiet
      <3> QED BY <3>1, QuietStep
    <2>5. CASE \E name \in {"forward", "backward"} : OnInstructionBegin(r, name)
      <3>1. Quiet
        BY <1>t, <2>5 DEF OnInstructionBegin, Goto, Quiet
      <3> QED BY <3>1, QuietStep
    <2> QED BY <2>1, <2>2, <2>3, <2>4, <2>5 DEF ClientStep
  <1>3. CASE \E r \in Ranks : GetResponse(r)
    BY <1>3, ResponseStep
  <1>4. CASE \E r \in Ranks : ClientRaises(r) \/ ClientKilled(r)
    <2>1. Quiet
      BY <1>t, <1>4 DEF ClientRaises, ClientKilled, Goto, Quiet
    <2> QED BY <2>1, QuietStep
  <1>5. CASE \E r \in Ranks : ControllerStep(r) \/ ControllerDies(r)
    <2>1. Quiet
      BY <1>t, <1>5 DEF ControllerStep, ControllerStarts, SetFrequency, EndController, ControllerDies, Quiet
    <2> QED BY <2>1, QuietStep
  <1>6. CASE CreateScheduler \/ NextSchedule \/ TimePasses
    <2>1. Quiet
      BY <1>t, <1>6 DEF CreateScheduler, NextSchedule, TimePasses, Quiet
    <2> QED BY <2>1, QuietStep
  <1>7. CASE GetRequest
    BY <1>7, RequestStep
  <1>8. CASE SendSchedule
    BY <1>8, SendStep
  <1>9. CASE SchedulerFails
    BY <1>9, FailStep
  <1>10. CASE Evict
    BY <1>10, EvictStep
  <1>11. CASE UNCHANGED vars
    <2>1. Quiet
      BY <1>t, <1>11 DEF vars, Quiet
    <2> QED BY <2>1, QuietStep
  <1> QED BY <1>1, <1>2, <1>3, <1>4, <1>5, <1>6, <1>7, <1>8, <1>9, <1>10, <1>11 DEF Next, TaskStep

(* The requests under way are of different ranks that have asked, and a    *)
(* schedule is on its way, or in use, only when all have.                  *)
THEOREM Invariant == Spec => []IInv
  <1> QED BY InitInv, NextInv, PTL DEF Spec

(* The docstring of get_frequency_schedule: every rank blocks until all    *)
(* have called it, so none trains by the plan while another does not.      *)
THEOREM Barrier == Spec => []AllAskFirst
  <1>1. IInv => AllAskFirst
    BY DEF IInv, ResponseInv, AllAsked, AllAskFirst
  <1> QED BY <1>1, Invariant, PTL

(* The server's queues have room for one request of each rank and one      *)
(* response to it (job_manager.py:64-65), and never need more: a request   *)
(* is never held up, and the put_nowait of an error (:204) never raises,   *)
(* which would leave the ranks after it without an answer.                 *)
ChannelsHaveRoom == Len(sched_req) <= World /\ \A r \in Ranks : Len(sched_resp[r]) <= 1

THEOREM Room == Spec => []ChannelsHaveRoom
  <1>1. ASSUME IInv PROVE ChannelsHaveRoom
    <2>1. Len(sched_req) <= World
      BY <1>1, AllRanks DEF IInv, TypeInv, RequestInv
    <2>2. ASSUME NEW r \in Ranks PROVE Len(sched_resp[r]) <= 1
      <3>1. sched_resp[r] \in {<<>>, <<"schedule">>, <<"error">>}
        BY <1>1 DEF IInv, ResponseInv
      <3>2. CASE sched_resp[r] = <<>>
        <4>1. Len(<<>>) = 0
          OBVIOUS
        <4> QED BY <3>2, <4>1
      <3>3. CASE sched_resp[r] = <<"schedule">>
        <4>1. Len(<<"schedule">>) = 1
          OBVIOUS
        <4> QED BY <3>3, <4>1
      <3>4. CASE sched_resp[r] = <<"error">>
        <4>1. Len(<<"error">>) = 1
          OBVIOUS
        <4> QED BY <3>4, <4>1
      <3> QED BY <3>1, <3>2, <3>3, <3>4
    <2> QED BY <2>1, <2>2 DEF ChannelsHaveRoom
  <1> QED BY <1>1, Invariant, PTL

-----------------------------------------------------------------------------
(* The queue of a clock: None is the last that is put into it, by a rank   *)
(* at its exit.                                                            *)
Over(r) == client[r] \in {"exited", "killed"}

QueueInv(r) ==
  /\ q[r] \in Seq(Nat) /\ at[r] \in Nat
  /\ \A i \in 1..Len(q[r]) : q[r][i] = 0 => Over(r) /\ i = Len(q[r])
  /\ controller[r] = "ended" => Over(r) /\ q[r] = <<>> /\ clock[r] = 0

ClockInv ==
  /\ DOMAIN client = Ranks /\ DOMAIN q = Ranks /\ DOMAIN at = Ranks
  /\ DOMAIN controller = Ranks /\ DOMAIN clock = Ranks
  /\ \A r \in Ranks : QueueInv(r)

(* A step that leaves the queues alone. *)
Idle ==
  /\ UNCHANGED clockVars /\ DOMAIN client' = Ranks /\ UNCHANGED at
  /\ \A p \in Ranks : Over(p) => Over(p)'

LEMMA IdleStep ==
  ASSUME ClockInv, Idle
  PROVE  ClockInv'
  <1>1. \A p \in Ranks : QueueInv(p)'
    BY DEF ClockInv, QueueInv, Idle, clockVars
  <1> QED BY <1>1 DEF ClockInv, Idle, clockVars

(* Only one rank's part of the state changes. *)
LEMMA OneRank ==
  ASSUME ClockInv, NEW r \in Ranks,
         DOMAIN client' = Ranks, DOMAIN q' = Ranks, DOMAIN at' = Ranks,
         DOMAIN controller' = Ranks, DOMAIN clock' = Ranks,
         \A p \in Ranks \ {r} :
           /\ client'[p] = client[p] /\ q'[p] = q[p] /\ at'[p] = at[p]
           /\ controller'[p] = controller[p] /\ clock'[p] = clock[p],
         QueueInv(r)'
  PROVE  ClockInv'
  <1>1. ASSUME NEW p \in Ranks \ {r} PROVE QueueInv(p)'
    BY DEF ClockInv, QueueInv, Over
  <1> QED BY <1>1 DEF ClockInv

LEMMA BeginStep ==
  ASSUME ClockInv, NEW r \in Ranks, NEW name, OnInstructionBegin(r, name)
  PROVE  ClockInv'
  <1> USE DEF serverVars, taskVars
  <1>1. client[r] = "running" /\ UNCHANGED <<controller, clock>> /\ ~Over(r)
    BY DEF OnInstructionBegin, Over
  <1>2. QueueInv(r) /\ DOMAIN q = Ranks /\ DOMAIN at = Ranks /\ DOMAIN client = Ranks
    BY DEF ClockInv
  <1>3. CASE at[r] < Len(Instructions(r)) /\ Instructions(r)[at[r] + 1].name = name
    <2> DEFINE f == Instructions(r)[at[r] + 1].frequency
    <2>1. f \in Nat
      <3>1. Instructions(r) \in Seq([name : {"forward", "backward"}, frequency : Nat])
        BY PipelineAssumption DEF Instructions, Stages
      <3>2. at[r] + 1 \in 1..Len(Instructions(r))
        BY <1>2, <1>3, <3>1 DEF QueueInv
      <3> DEFINE T == [name : {"forward", "backward"}, frequency : Nat]
      <3>3. \A t : t \in T => t.frequency \in Nat
        OBVIOUS
      <3> HIDE DEF T
      <3>4. \A t \in Seq(T) : \A i \in 1..Len(t) : t[i] \in T
        OBVIOUS
      <3>5. Instructions(r)[at[r] + 1] \in T
        BY <3>1, <3>2, <3>4 DEF T
      <3> QED BY <3>3, <3>5
    <2>2. /\ at' = [at EXCEPT ![r] = @ + 1] /\ client' = client
          /\ q' = IF f = 0 THEN q ELSE [q EXCEPT ![r] = Append(@, f)]
      BY <1>3 DEF OnInstructionBegin, set_frequency
    <2> HIDE DEF f
    <2>3. QueueInv(r)'
      <3>1. CASE f = 0
        BY <1>1, <1>2, <2>2, <3>1 DEF QueueInv, Over
      <3>2. CASE f # 0
        <4>1. q'[r] = Append(q[r], f) /\ at'[r] = at[r] + 1
          BY <1>2, <2>2, <3>2
        <4>2. /\ q'[r] \in Seq(Nat)
              /\ \A i \in 1..Len(q'[r]) : (i \in 1..Len(q[r]) /\ q'[r][i] = q[r][i]) \/ q'[r][i] = f
          BY <1>2, <2>1, <4>1, Added DEF QueueInv
        <4> QED BY <1>1, <1>2, <2>2, <3>2, <4>1, <4>2 DEF QueueInv, Over
      <3> QED BY <3>1, <3>2
    <2>4. /\ DOMAIN q' = Ranks /\ DOMAIN at' = Ranks
          /\ \A p \in Ranks \ {r} : q'[p] = q[p] /\ at'[p] = at[p]
      BY <1>2, <2>2
    <2> QED BY <1>1, <1>2, <2>2, <2>3, <2>4, OneRank DEF ClockInv
  <1>4. CASE ~(at[r] < Len(Instructions(r)) /\ Instructions(r)[at[r] + 1].name = name)
    <2>1. client' = [client EXCEPT ![r] = "failed"] /\ UNCHANGED <<at, q>>
      BY <1>4 DEF OnInstructionBegin, Goto
    <2>2. Idle
      BY <1>1, <1>2, <2>1 DEF Idle, Over, clockVars
    <2> QED BY <2>2, IdleStep
  <1> QED BY <1>3, <1>4

(* What the feeder has sent of a killed rank's queue is its beginning. *)
LEMMA KilledStep ==
  ASSUME ClockInv, NEW r \in Ranks, ClientKilled(r)
  PROVE  ClockInv'
  <1>1. /\ client' = [client EXCEPT ![r] = "killed"] /\ UNCHANGED <<at, controller, clock>>
    BY DEF ClientKilled, Goto
  <1>2. PICK sent \in 0..Len(q[r]) : q' = [q EXCEPT ![r] = SubSeq(@, 1, sent)]
    BY DEF ClientKilled
  <1>3. /\ QueueInv(r) /\ DOMAIN q = Ranks /\ DOMAIN client = Ranks /\ DOMAIN at = Ranks
        /\ DOMAIN controller = Ranks /\ DOMAIN clock = Ranks
    BY DEF ClockInv
  <1>4. q'[r] = SubSeq(q[r], 1, sent) /\ client'[r] = "killed"
    BY <1>1, <1>2, <1>3
  <1>5. /\ q'[r] \in Seq(Nat) /\ Len(q'[r]) = sent /\ sent <= Len(q[r])
        /\ \A i \in 1..Len(q'[r]) : i \in 1..Len(q[r]) /\ q'[r][i] = q[r][i]
    BY <1>2, <1>3, <1>4 DEF QueueInv
  <1>6. \A i \in 1..Len(q'[r]) : q'[r][i] = 0 => i = Len(q'[r])
    BY <1>2, <1>3, <1>5 DEF QueueInv
  <1>7. controller'[r] = "ended" => q'[r] = <<>> /\ clock'[r] = 0
    BY <1>1, <1>3, <1>5 DEF QueueInv
  <1>8. QueueInv(r)'
    BY <1>1, <1>3, <1>4, <1>5, <1>6, <1>7 DEF QueueInv, Over
  <1>9. /\ DOMAIN q' = Ranks /\ DOMAIN client' = Ranks
        /\ \A p \in Ranks \ {r} : q'[p] = q[p] /\ client'[p] = client[p]
    BY <1>1, <1>2, <1>3
  <1> QED BY <1>1, <1>3, <1>8, <1>9, OneRank

LEMMA ExitStep ==
  ASSUME ClockInv, NEW r \in Ranks, Exit(r)
  PROVE  ClockInv'
  <1>1. /\ client[r] \in {"done", "failed"} /\ client' = [client EXCEPT ![r] = "exited"]
        /\ UNCHANGED <<at, controller, clock>>
        /\ q' = IF controller[r] = "none" THEN q ELSE [q EXCEPT ![r] = Append(@, 0)]
    BY DEF Exit, Goto
  <1>2. /\ QueueInv(r) /\ ~Over(r) /\ DOMAIN q = Ranks /\ DOMAIN client = Ranks /\ DOMAIN at = Ranks
        /\ DOMAIN controller = Ranks /\ DOMAIN clock = Ranks
    BY <1>1 DEF ClockInv, Over
  <1>3. client'[r] = "exited" /\ q'[r] \in {q[r], Append(q[r], 0)}
    BY <1>1, <1>2
  <1>4. q[r] \in Seq(Nat) /\ \A i \in 1..Len(q[r]) : q[r][i] # 0
    BY <1>2 DEF QueueInv
  <1>5. q'[r] \in Seq(Nat) /\ \A i \in 1..Len(q'[r]) : q'[r][i] = 0 => i = Len(q'[r])
    <2>1. CASE q'[r] = q[r]
      BY <1>4, <2>1
    <2>2. CASE q'[r] = Append(q[r], 0)
      BY <1>4, <2>2, Added
    <2> QED BY <1>3, <2>1, <2>2
  <1>6. QueueInv(r)'
    BY <1>1, <1>2, <1>3, <1>5 DEF QueueInv, Over
  <1>7. /\ DOMAIN q' = Ranks /\ DOMAIN client' = Ranks
        /\ \A p \in Ranks \ {r} : q'[p] = q[p] /\ client'[p] = client[p]
    BY <1>1, <1>2
  <1> QED BY <1>1, <1>2, <1>6, <1>7, OneRank

LEMMA ControllerSteps ==
  ASSUME ClockInv, NEW r \in Ranks, ControllerStep(r) \/ ControllerDies(r)
  PROVE  ClockInv'
  <1>1. UNCHANGED <<client, at>>
    BY DEF ControllerStep, ControllerStarts, SetFrequency, EndController, ControllerDies, clientVars
  <1>2. /\ QueueInv(r) /\ DOMAIN q = Ranks /\ DOMAIN client = Ranks /\ DOMAIN at = Ranks
        /\ DOMAIN controller = Ranks /\ DOMAIN clock = Ranks
    BY DEF ClockInv
  <1>3. /\ DOMAIN q' = Ranks /\ DOMAIN controller' = Ranks /\ DOMAIN clock' = Ranks
        /\ \A p \in Ranks \ {r} : /\ q'[p] = q[p] /\ controller'[p] = controller[p]
                                  /\ clock'[p] = clock[p]
    BY <1>2 DEF ControllerStep, ControllerStarts, SetFrequency, EndController, ControllerDies
  <1>4. CASE ControllerStarts(r) \/ ControllerDies(r)
    <2>1. q' = q /\ controller'[r] # "ended"
      BY <1>2, <1>4 DEF ControllerStarts, ControllerDies
    <2>2. QueueInv(r)'
      BY <1>1, <1>2, <2>1 DEF QueueInv, Over
    <2> QED BY <1>1, <1>2, <1>3, <2>2, OneRank
  <1>5. CASE SetFrequency(r) \/ EndController(r)
    <2>1. /\ q[r] # <<>> /\ q'[r] = Tail(q[r]) /\ q[r] \in Seq(Nat)
          /\ \/ controller'[r] = controller[r] /\ controller[r] = "running"
             \/ Head(q[r]) = 0 /\ clock'[r] = 0
      BY <1>2, <1>5 DEF SetFrequency, EndController, QueueInv
    <2>2. /\ Head(q[r]) = q[r][1] /\ 1 \in 1..Len(q[r]) /\ q'[r] \in Seq(Nat)
          /\ Len(q'[r]) = Len(q[r]) - 1 /\ Len(q[r]) \in Nat
          /\ \A i \in 1..Len(q'[r]) :
               i \in Int /\ i + 1 \in 1..Len(q[r]) /\ q'[r][i] = q[r][i + 1]
      BY <2>1
    <2>3. ASSUME NEW i \in 1..Len(q'[r]), q'[r][i] = 0 PROVE Over(r) /\ i = Len(q'[r])
      <3>1. i + 1 \in 1..Len(q[r]) /\ q[r][i + 1] = 0
        BY <2>2, <2>3
      <3>2. Over(r) /\ i + 1 = Len(q[r])
        BY <1>2, <3>1 DEF QueueInv
      <3> QED BY <2>2, <3>2
    <2>4. ASSUME Head(q[r]) = 0 PROVE Over(r) /\ q'[r] = <<>>
      <3>1. Over(r) /\ Len(q[r]) = 1
        BY <1>2, <2>2, <2>4 DEF QueueInv
      <3> QED BY <2>2, <3>1
    <2>5. controller'[r] = "ended" => Over(r) /\ q'[r] = <<>> /\ clock'[r] = 0
      BY <2>1, <2>4
    <2>6. QueueInv(r)'
      BY <1>1, <1>2, <2>2, <2>3, <2>5 DEF QueueInv, Over
    <2> QED BY <1>1, <1>2, <1>3, <2>6, OneRank
  <1> QED BY <1>4, <1>5 DEF ControllerStep

LEMMA ClockNext == ClockInv /\ [Next]_vars => ClockInv'
  <1> SUFFICES ASSUME ClockInv, [Next]_vars PROVE ClockInv'
    OBVIOUS
  <1> USE DEF clientVars, serverVars, taskVars, clockVars
  <1>t. DOMAIN client = Ranks /\ DOMAIN at = Ranks /\ DOMAIN controller = Ranks
    BY DEF ClockInv
  <1>1. CASE RegisterJob
    <2>1. Idle
      BY <1>1 DEF RegisterJob, register_job, Idle, Over
    <2> QED BY <2>1, IdleStep
  <1>2. CASE \E r \in Ranks : ClientStep(r)
    <2>1. PICK r \in Ranks : ClientStep(r)
      BY <1>2
    <2>2. CASE RegisterRank(r)
      <3>1. /\ client[r] = "registering" /\ UNCHANGED <<at, q, clock>>
            /\ DOMAIN client' = Ranks /\ DOMAIN controller' = Ranks
            /\ controller'[r] \in {controller[r], "starting"}
            /\ \A p \in Ranks \ {r} : client'[p] = client[p] /\ controller'[p] = controller[p]
        BY <1>t, <2>2 DEF RegisterRank, Goto
      <3>2. QueueInv(r)'
        BY <3>1 DEF ClockInv, QueueInv, Over
      <3> QED BY <1>t, <3>1, <3>2, OneRank DEF ClockInv
    <2>3. CASE AskForSchedule(r) \/ TrainingEnds(r)
      <3>1. Idle
        BY <1>t, <2>3 DEF AskForSchedule, TrainingEnds, Goto, Idle, Over
      <3> QED BY <3>1, IdleStep
    <2>4. CASE OnStepEnd(r)
      <3>1. /\ client[r] = "running" /\ UNCHANGED clockVars
            /\ DOMAIN client' = Ranks /\ DOMAIN at' = Ranks /\ at'[r] \in {at[r], 0}
            /\ \A p \in Ranks \ {r} : client'[p] = client[p] /\ at'[p] = at[p]
        BY <1>t, <2>4 DEF OnStepEnd, Goto
      <3>2. QueueInv(r)'
        BY <3>1 DEF ClockInv, QueueInv, Over
      <3> QED BY <1>t, <3>1, <3>2, OneRank DEF ClockInv
    <2>5. CASE Exit(r)
      BY <2>5, ExitStep
    <2>6. CASE \E name \in {"forward", "backward"} : OnInstructionBegin(r, name)
      BY <2>6, BeginStep
    <2> QED BY <2>1, <2>2, <2>3, <2>4, <2>5, <2>6 DEF ClientStep
  <1>3. CASE \E r \in Ranks : GetResponse(r) \/ ClientRaises(r)
    <2>1. Idle
      BY <1>t, <1>3 DEF GetResponse, ClientRaises, Goto, Idle, Over
    <2> QED BY <2>1, IdleStep
  <1>4. CASE \E r \in Ranks : ClientKilled(r)
    BY <1>4, KilledStep
  <1>5. CASE \E r \in Ranks : ControllerStep(r) \/ ControllerDies(r)
    BY <1>5, ControllerSteps
  <1>6. CASE TaskStep \/ SchedulerFails \/ TimePasses \/ Evict \/ UNCHANGED vars
    <2>1. Idle
      BY <1>t, <1>6 DEF TaskStep, CreateScheduler, NextSchedule, GetRequest, SendSchedule,
         SchedulerFails, TimePasses, Evict, vars, Idle, Over
    <2> QED BY <2>1, IdleStep
  <1> QED BY <1>1, <1>2, <1>3, <1>4, <1>5, <1>6 DEF Next

(* The safety that ClocksAreReset rests on: once a controller has reset    *)
(* its clock nothing is left for it to set, and its rank, which is gone,   *)
(* puts no more.                                                           *)
ResetIsLast ==
  \A r \in Ranks : controller[r] = "ended" =>
    clock[r] = 0 /\ q[r] = <<>> /\ client[r] \in {"exited", "killed"}

THEOREM NothingAfterReset == Spec => []ResetIsLast
  <1>1. Init => ClockInv
    BY DEF Init, ClockInv, QueueInv
  <1>2. ClockInv => ResetIsLast
    BY DEF ClockInv, QueueInv, Over, ResetIsLast
  <1> QED BY <1>1, <1>2, ClockNext, PTL DEF Spec
=============================================================================
