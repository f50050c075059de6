-------------------------- MODULE ZeusPollers_proofs --------------------------
(***************************************************************************)
(* The timelines of the power and the temperature monitor, for any         *)
(* domains, GPUs, readings, lengths of deque and pipe, and however the     *)
(* children poll, hang, fail and are killed: they are ordered and without  *)
(* repetitions from the child's queue to the deque, the newest reading is  *)
(* among them, and what is read off them (the nearest sample, the energy   *)
(* of a window) is what it should be.                                      *)
(***************************************************************************)
EXTENDS ZeusPollers, FiniteSetTheorems, WellFoundedInduction, TLAPS

Message == [gpu : Devices, at : Nat, value : Readings]
Line == Seq(Message)
Queue == Seq(Message \cup {STOP})

TypeInv ==
  /\ now \in Nat /\ stamp \in [Domains -> Int] /\ \A d \in Domains : stamp[d] <= now
  /\ DOMAIN child = Domains /\ \A d \in Domains : child[d] = "polling" => stamp[d] >= 0
  /\ main = "new" => \A d \in Domains : child[d] = "none"
  /\ pipe \in [Domains -> Queue] /\ unsent \in [Domains -> Queue]
  /\ samples \in [Domains -> [Devices -> Line]]
  /\ DOMAIN prev = Domains
  /\ todo \in [Domains -> Seq(Devices)]
  /\ \A d \in Domains : \A i, j \in 1..Len(todo[d]) : todo[d][i] = todo[d][j] => i = j

(* Messages of g that nothing of g comes between, before or after. *)
Neighbours(q, g, i, j) ==
  /\ i < j /\ q[i].gpu = g /\ q[j].gpu = g
  /\ \A n \in 1..Len(q) : i < n /\ n < j => q[n].gpu # g
FirstOf(q, g, j) == q[j].gpu = g /\ \A n \in 1..Len(q) : n < j => q[n].gpu # g
LastOf(q, g, j) == q[j].gpu = g /\ \A n \in 1..Len(q) : j < n => q[n].gpu # g

(* What is kept of g, and what is in flight, is one timeline. *)
KeptInOrder(k) ==
  /\ \A i, j \in 1..Len(k) : i < j => k[i].at < k[j].at
  /\ \A i \in 1..(Len(k) - 1) : k[i].value # k[i + 1].value

SentInOrder(q, g) ==
  /\ \A i, j \in 1..Len(q) : i < j /\ q[i].gpu = g /\ q[j].gpu = g => q[i].at < q[j].at
  /\ \A i, j \in 1..Len(q) : Neighbours(q, g, i, j) => q[i].value # q[j].value

Joins(k, q, g) ==
  /\ \A i \in 1..Len(k), j \in 1..Len(q) : q[j].gpu = g => k[i].at < q[j].at
  /\ \A j \in 1..Len(q) : FirstOf(q, g, j) /\ k # <<>> => k[Len(k)].value # q[j].value

InOrder(k, q, g) == KeptInOrder(k) /\ SentInOrder(q, g) /\ Joins(k, q, g)

(* Nothing in it is later than t. *)
UpTo(k, q, g, t) ==
  /\ \A i \in 1..Len(k) : k[i].at <= t
  /\ \A j \in 1..Len(q) : q[j].gpu = g => q[j].at <= t

(* The newest of it is v; or it is empty. *)
Newest(k, q, g, v) ==
  \/ \E j \in 1..Len(q) : LastOf(q, g, j) /\ q[j].value = v
  \/ /\ \A j \in 1..Len(q) : q[j].gpu # g
     /\ k # <<>> /\ k[Len(k)].value = v
Nothing(k, q, g) == k = <<>> /\ \A j \in 1..Len(q) : q[j].gpu # g

(* The timeline of g in a domain. *)
LineInv(d, g) ==
  LET k == samples[d][g]
      q == InFlight(d)
  IN /\ InOrder(k, q, g)
     /\ UpTo(k, q, g, stamp[d])
     /\ (\E i \in 1..Len(todo[d]) : todo[d][i] = g) => UpTo(k, q, g, stamp[d] - 1)
     /\ child[d] # "gone" =>
          IF g \in DOMAIN prev[d] THEN Newest(k, q, g, prev[d][g]) ELSE Nothing(k, q, g)

DomainInv(d) == DOMAIN prev[d] \subseteq Devices /\ \A g \in Devices : LineInv(d, g)

IInv == TypeInv /\ \A d \in Domains : DomainInv(d)

-----------------------------------------------------------------------------
(* What happens to a timeline when a message is put, taken or lost.        *)

LEMMA QueueType ==
  ASSUME NEW q \in Queue
  PROVE  /\ Len(q) \in Nat
         /\ \A i \in 1..Len(q) : q[i].gpu \in Devices => q[i] \in Message
<1>1. STOP.gpu = "STOP" /\ "STOP" \notin Devices
  BY PollersAssumption DEF STOP, Devices
<1> QED
  BY <1>1 DEF Queue

LEMMA PutOther ==
  ASSUME NEW k \in Line, NEW q \in Queue, NEW m \in Message \cup {STOP}, NEW g \in Devices,
         m.gpu # g
  PROVE  LET r == Append(q, m) IN
         /\ InOrder(k, q, g) => InOrder(k, r, g)
         /\ \A t : UpTo(k, q, g, t) => UpTo(k, r, g, t)
         /\ \A v : Newest(k, q, g, v) => Newest(k, r, g, v)
         /\ Nothing(k, q, g) => Nothing(k, r, g)
<1> DEFINE r == Append(q, m)
<1>1. /\ Len(q) \in Nat /\ Len(r) = Len(q) + 1 /\ r[Len(r)] = m
      /\ \A i \in 1..Len(q) : r[i] = q[i]
  BY DEF Queue
<1> HIDE DEF r
<1>2. \A i \in 1..Len(r) : r[i].gpu = g => i \in 1..Len(q) /\ r[i] = q[i]
  BY <1>1
<1>3. \A i \in 1..Len(q) : i \in 1..Len(r)
  BY <1>1
<1>4. ASSUME NEW i \in 1..Len(r), NEW j \in 1..Len(r), Neighbours(r, g, i, j)
      PROVE  /\ i \in 1..Len(q) /\ j \in 1..Len(q) /\ Neighbours(q, g, i, j)
             /\ r[i] = q[i] /\ r[j] = q[j]
  BY <1>1, <1>2, <1>3, <1>4 DEF Neighbours
<1>5. ASSUME NEW j \in 1..Len(r), FirstOf(r, g, j)
      PROVE  j \in 1..Len(q) /\ FirstOf(q, g, j) /\ r[j] = q[j]
  BY <1>1, <1>2, <1>3, <1>5 DEF FirstOf
<1>6. ASSUME NEW j \in 1..Len(q), LastOf(q, g, j)
      PROVE  j \in 1..Len(r) /\ LastOf(r, g, j)
  BY <1>1, <1>2, <1>3, <1>6 DEF LastOf
<1>7. SentInOrder(q, g) => SentInOrder(r, g)
  BY <1>2, <1>4 DEF SentInOrder
<1>8. Joins(k, q, g) => Joins(k, r, g)
  BY <1>2, <1>5 DEF Joins
<1>9. ASSUME NEW t, UpTo(k, q, g, t) PROVE UpTo(k, r, g, t)
  <2>1. ASSUME NEW i \in 1..Len(r), r[i].gpu = g PROVE r[i].at <= t
    BY <1>2, <1>9, <2>1 DEF UpTo
  <2> QED
    BY <1>9, <2>1 DEF UpTo
<1>10. ASSUME NEW v, Newest(k, q, g, v) PROVE Newest(k, r, g, v)
  <2>1. CASE \E j \in 1..Len(q) : LastOf(q, g, j) /\ q[j].value = v
    <3>1. PICK j \in 1..Len(q) : LastOf(q, g, j) /\ q[j].value = v
      BY <2>1
    <3>2. j \in 1..Len(r) /\ LastOf(r, g, j) /\ r[j].value = v
      BY <1>1, <1>6, <3>1
    <3> QED
      BY <3>2 DEF Newest
  <2>2. CASE ~ \E j \in 1..Len(q) : LastOf(q, g, j) /\ q[j].value = v
    BY <1>2, <1>10, <2>2 DEF Newest
  <2> QED
    BY <2>1, <2>2
<1>11. InOrder(k, q, g) => InOrder(k, r, g)
  BY <1>7, <1>8 DEF InOrder
<1>12. Nothing(k, q, g) => Nothing(k, r, g)
  BY <1>2 DEF Nothing
<1> QED
  BY <1>9, <1>10, <1>11, <1>12 DEF r

LEMMA PutOwn ==
  ASSUME NEW k \in Line, NEW q \in Queue, NEW m \in Message,
         InOrder(k, q, m.gpu), UpTo(k, q, m.gpu, m.at - 1),
         \/ Nothing(k, q, m.gpu)
         \/ \E v : v # m.value /\ Newest(k, q, m.gpu, v)
  PROVE  LET r == Append(q, m) IN
         /\ InOrder(k, r, m.gpu) /\ UpTo(k, r, m.gpu, m.at) /\ Newest(k, r, m.gpu, m.value)
<1> DEFINE r == Append(q, m)
           g == m.gpu
<1>1. /\ Len(q) \in Nat /\ Len(r) = Len(q) + 1 /\ r[Len(r)] = m
      /\ \A i \in 1..Len(q) : r[i] = q[i]
  BY DEF Queue
<1>2. /\ m.at \in Int /\ g \in Devices
      /\ Len(k) \in Nat /\ \A i \in 1..Len(k) : k[i].at \in Int
      /\ \A i \in 1..Len(q) : q[i].gpu = g => q[i].at \in Int
  <2>1. m.at \in Int /\ g \in Devices
    BY DEF Message
  <2>2. Len(k) \in Nat /\ \A i \in 1..Len(k) : k[i].at \in Int
    <3>1. Len(k) \in Nat /\ \A i \in 1..Len(k) : k[i] \in Message
      BY DEF Line
    <3> QED
      BY <3>1 DEF Message
  <2>3. \A i \in 1..Len(q) : q[i].gpu = g => q[i].at \in Int
    <3>1. ASSUME NEW i \in 1..Len(q), q[i].gpu = g PROVE q[i] \in Message
      BY <2>1, <3>1, QueueType
    <3> QED
      BY <3>1 DEF Message
  <2> QED
    BY <2>1, <2>2, <2>3
<1> HIDE DEF r, g
<1>3. \A i \in 1..Len(q) : i \in 1..Len(r) /\ i < Len(r)
  BY <1>1
<1>4. \A i \in 1..Len(r) : i \in 1..Len(q) \/ i = Len(r)
  BY <1>1
<1>5. Len(r) \in 1..Len(r) /\ r[Len(r)].gpu = g /\ r[Len(r)].at = m.at /\ r[Len(r)].value = m.value
  BY <1>1 DEF g
<1>6. /\ \A i \in 1..Len(k) : k[i].at < m.at
      /\ \A i \in 1..Len(q) : q[i].gpu = g => q[i].at < m.at
  BY <1>2 DEF UpTo, g
<1>7. SentInOrder(q, g) /\ Joins(k, q, g) /\ KeptInOrder(k)
  BY DEF InOrder, g
<1>8. ASSUME NEW i \in 1..Len(r), NEW j \in 1..Len(r), i < j, r[i].gpu = g, r[j].gpu = g
      PROVE  r[i].at < r[j].at
  <2>1. i \in 1..Len(q)
    BY <1>1, <1>8
  <2>2. CASE j \in 1..Len(q)
    BY <1>1, <1>7, <1>8, <2>1, <2>2 DEF SentInOrder
  <2>3. CASE j = Len(r)
    BY <1>1, <1>5, <1>6, <1>8, <2>1, <2>3
  <2> QED
    BY <1>4, <2>2, <2>3
<1>9. ASSUME NEW i \in 1..Len(r), NEW j \in 1..Len(r), Neighbours(r, g, i, j)
      PROVE  r[i].value # r[j].value
  <2>1. i \in 1..Len(q) /\ r[i] = q[i] /\ q[i].gpu = g
    BY <1>1, <1>9 DEF Neighbours
  <2>2. CASE j \in 1..Len(q)
    <3>1. Neighbours(q, g, i, j)
      BY <1>1, <1>3, <1>9, <2>2 DEF Neighbours
    <3> QED
      BY <1>1, <1>7, <2>1, <2>2, <3>1 DEF SentInOrder
  <2>3. CASE j = Len(r)
    <3>1. ASSUME NEW n \in 1..Len(q), LastOf(q, g, n) PROVE n = i
      <4>1. n \in 1..Len(r) /\ n < j /\ r[n].gpu = g
        BY <1>1, <1>3, <2>3, <3>1 DEF LastOf
      <4>2. ~(i < n)
        BY <1>9, <4>1 DEF Neighbours
      <4>3. ~(n < i)
        BY <2>1, <3>1 DEF LastOf
      <4> QED
        BY <4>2, <4>3, <2>1, <1>1
    <3>2. ~ Nothing(k, q, g)
      BY <2>1 DEF Nothing
    <3>3. PICK v : v # m.value /\ Newest(k, q, g, v)
      BY <3>2 DEF g
    <3>4. q[i].value = v
      BY <2>1, <3>1, <3>3 DEF Newest
    <3> QED
      BY <1>5, <2>1, <2>3, <3>3, <3>4
  <2> QED
    BY <1>4, <2>2, <2>3
<1>10. ASSUME NEW j \in 1..Len(r), FirstOf(r, g, j), k # <<>>
       PROVE  k[Len(k)].value # r[j].value
  <2>1. CASE j \in 1..Len(q)
    <3>1. FirstOf(q, g, j)
      BY <1>1, <1>3, <1>10, <2>1 DEF FirstOf
    <3> QED
      BY <1>1, <1>7, <1>10, <2>1, <3>1 DEF Joins
  <2>2. CASE j = Len(r)
    <3>1. \A n \in 1..Len(q) : q[n].gpu # g
      BY <1>1, <1>3, <1>10, <2>2 DEF FirstOf
    <3>2. ~ Nothing(k, q, g)
      BY <1>10 DEF Nothing
    <3>3. PICK v : v # m.value /\ Newest(k, q, g, v)
      BY <3>2 DEF g
    <3>4. k[Len(k)].value = v
      BY <3>1, <3>3 DEF Newest, LastOf
    <3> QED
      BY <1>5, <2>2, <3>3, <3>4
  <2> QED
    BY <1>4, <2>1, <2>2
<1>11. ASSUME NEW i \in 1..Len(k), NEW j \in 1..Len(r), r[j].gpu = g PROVE k[i].at < r[j].at
  BY <1>1, <1>4, <1>5, <1>6, <1>7, <1>11 DEF Joins
<1>12. InOrder(k, r, g)
  BY <1>7, <1>8, <1>9, <1>10, <1>11 DEF InOrder, SentInOrder, Joins
<1>13. UpTo(k, r, g, m.at)
  <2>1. \A i \in 1..Len(k) : k[i].at <= m.at
    BY <1>2, <1>6
  <2>2. \A j \in 1..Len(r) : r[j].gpu = g => r[j].at <= m.at
    BY <1>1, <1>2, <1>4, <1>5, <1>6
  <2> QED
    BY <2>1, <2>2 DEF UpTo
<1>14. LastOf(r, g, Len(r))
  BY <1>1, <1>5 DEF LastOf
<1>15. Newest(k, r, g, m.value)
  BY <1>5, <1>14 DEF Newest
<1> QED
  BY <1>12, <1>13, <1>15 DEF r, g

LEMMA Lines ==
  ASSUME NEW k \in Line
  PROVE  Len(k) \in Nat /\ \A i \in 1..Len(k) : k[i] \in Message /\ k[i].at \in Int
<1>1. Len(k) \in Nat /\ \A i \in 1..Len(k) : k[i] \in Message
  BY DEF Line
<1> QED
  BY <1>1 DEF Message

LEMMA TakeOther ==
  ASSUME NEW k \in Line, NEW q \in Queue, q # <<>>, NEW g \in Devices, Head(q).gpu # g
  PROVE  LET r == Tail(q) IN
         /\ InOrder(k, q, g) => InOrder(k, r, g)
         /\ \A t : UpTo(k, q, g, t) => UpTo(k, r, g, t)
         /\ \A v : Newest(k, q, g, v) => Newest(k, r, g, v)
         /\ Nothing(k, q, g) => Nothing(k, r, g)
<1> DEFINE r == Tail(q)
<1>1. /\ Len(q) \in Nat \ {0} /\ Len(r) = Len(q) - 1 /\ q[1].gpu # g
      /\ \A i \in 1..Len(r) : r[i] = q[i + 1]
  BY DEF Queue
<1> HIDE DEF r
<1>2. \A i \in 1..Len(r) : i + 1 \in 1..Len(q) /\ r[i] = q[i + 1]
  BY <1>1
<1>3. \A i \in 1..Len(q) : q[i].gpu = g => i - 1 \in 1..Len(r) /\ r[i - 1] = q[i]
  <2>1. ASSUME NEW i \in 1..Len(q), q[i].gpu = g PROVE i - 1 \in 1..Len(r) /\ (i - 1) + 1 = i
    BY <1>1, <2>1
  <2> QED
    BY <1>1, <2>1
<1>4. ASSUME NEW i \in 1..Len(r), NEW j \in 1..Len(r), Neighbours(r, g, i, j)
      PROVE  Neighbours(q, g, i + 1, j + 1)
  <2>1. ASSUME NEW n \in 1..Len(q), i + 1 < n, n < j + 1 PROVE q[n].gpu # g
    <3>1. n - 1 \in 1..Len(r) /\ i < n - 1 /\ n - 1 < j /\ (n - 1) + 1 = n
      BY <1>1, <2>1
    <3> QED
      BY <1>4, <1>2, <3>1 DEF Neighbours
  <2> QED
    BY <1>2, <1>4, <2>1 DEF Neighbours
<1>5. ASSUME NEW j \in 1..Len(r), FirstOf(r, g, j)
      PROVE  FirstOf(q, g, j + 1)
  <2>1. ASSUME NEW n \in 1..Len(q), n < j + 1 PROVE q[n].gpu # g
    <3>1. n = 1 \/ (n - 1 \in 1..Len(r) /\ n - 1 < j /\ (n - 1) + 1 = n)
      BY <1>1, <2>1
    <3> QED
      BY <1>1, <1>5, <1>2, <3>1 DEF FirstOf
  <2> QED
    BY <1>2, <1>5, <2>1 DEF FirstOf
<1>6. ASSUME NEW j \in 1..Len(q), LastOf(q, g, j)
      PROVE  j - 1 \in 1..Len(r) /\ LastOf(r, g, j - 1) /\ r[j - 1] = q[j]
  <2>1. j - 1 \in 1..Len(r) /\ r[j - 1] = q[j]
    BY <1>3, <1>6 DEF LastOf
  <2>2. ASSUME NEW n \in 1..Len(r), j - 1 < n PROVE r[n].gpu # g
    <3>1. n + 1 \in 1..Len(q) /\ j < n + 1
      BY <1>1, <2>2
    <3> QED
      BY <1>2, <1>6, <3>1 DEF LastOf
  <2> QED
    BY <1>6, <2>1, <2>2 DEF LastOf
<1>7. SentInOrder(q, g) => SentInOrder(r, g)
  <2> SUFFICES ASSUME SentInOrder(q, g) PROVE SentInOrder(r, g)
    OBVIOUS
  <2>1. ASSUME NEW i \in 1..Len(r), NEW j \in 1..Len(r), i < j, r[i].gpu = g, r[j].gpu = g
        PROVE  r[i].at < r[j].at
    <3>1. i + 1 < j + 1 /\ i + 1 \in 1..Len(q) /\ j + 1 \in 1..Len(q)
      BY <1>1, <2>1
    <3> QED
      BY <1>2, <2>1, <3>1 DEF SentInOrder
  <2>2. ASSUME NEW i \in 1..Len(r), NEW j \in 1..Len(r), Neighbours(r, g, i, j)
        PROVE  r[i].value # r[j].value
    <3>1. i + 1 \in 1..Len(q) /\ j + 1 \in 1..Len(q) /\ Neighbours(q, g, i + 1, j + 1)
      BY <1>2, <1>4, <2>2
    <3> QED
      BY <1>2, <3>1 DEF SentInOrder
  <2> QED
    BY <2>1, <2>2 DEF SentInOrder
<1>8. Joins(k, q, g) => Joins(k, r, g)
  <2> SUFFICES ASSUME Joins(k, q, g) PROVE Joins(k, r, g)
    OBVIOUS
  <2>1. ASSUME NEW i \in 1..Len(k), NEW j \in 1..Len(r), r[j].gpu = g PROVE k[i].at < r[j].at
    BY <1>2, <2>1 DEF Joins
  <2>2. ASSUME NEW j \in 1..Len(r), FirstOf(r, g, j), k # <<>>
        PROVE  k[Len(k)].value # r[j].value
    BY <1>2, <1>5, <2>2 DEF Joins
  <2> QED
    BY <2>1, <2>2 DEF Joins
<1>9. ASSUME NEW t, UpTo(k, q, g, t) PROVE UpTo(k, r, g, t)
  <2>1. ASSUME NEW i \in 1..Len(r), r[i].gpu = g PROVE r[i].at <= t
    BY <1>2, <1>9, <2>1 DEF UpTo
  <2> QED
    BY <1>9, <2>1 DEF UpTo
<1>10. ASSUME NEW v, Newest(k, q, g, v) PROVE Newest(k, r, g, v)
  <2>1. CASE \E j \in 1..Len(q) : LastOf(q, g, j) /\ q[j].value = v
    <3>1. PICK j \in 1..Len(q) : LastOf(q, g, j) /\ q[j].value = v
      BY <2>1
    <3>2. j - 1 \in 1..Len(r) /\ LastOf(r, g, j - 1) /\ r[j - 1].value = v
      BY <1>6, <3>1
    <3> QED
      BY <3>2 DEF Newest
  <2>2. CASE ~ \E j \in 1..Len(q) : LastOf(q, g, j) /\ q[j].value = v
    BY <1>2, <1>10, <2>2 DEF Newest
  <2> QED
    BY <2>1, <2>2
<1>11. InOrder(k, q, g) => InOrder(k, r, g)
  BY <1>7, <1>8 DEF InOrder
<1>12. Nothing(k, q, g) => Nothing(k, r, g)
  BY <1>2 DEF Nothing
<1> QED
  BY <1>9, <1>10, <1>11, <1>12 DEF r

LEMMA Extension ==
  ASSUME NEW k \in Line, NEW m \in Message
  PROVE  LET l == Extended(k, m) IN
         /\ l \in Line /\ l # <<>> /\ l[Len(l)] = m
         /\ \E cut \in {0, 1} :
              /\ Len(l) = Len(k) + 1 - cut /\ Len(k) >= cut
              /\ \A i \in 1..(Len(l) - 1) : l[i] = k[i + cut]
<1>1. MaxSamples \in Nat \ {0} /\ k \in Seq(Message) /\ Len(k) \in Nat
  BY PollersAssumption DEF Line
<1>2. CASE Len(k) < MaxSamples
  <2> DEFINE l == Append(k, m)
  <2>1. /\ l \in Seq(Message) /\ Len(l) = Len(k) + 1 /\ l[Len(l)] = m /\ l # <<>>
        /\ \A i \in 1..(Len(l) - 1) : l[i] = k[i + 0]
    BY <1>1
  <2>2. Extended(k, m) = l
    BY <1>2 DEF Extended
  <2> HIDE DEF l
  <2> QED
    BY <2>1, <2>2, <1>1 DEF Line
<1>3. CASE ~(Len(k) < MaxSamples)
  <2> DEFINE t == Tail(k)
             l == Append(t, m)
  <2>1. t \in Seq(Message) /\ Len(t) = Len(k) - 1 /\ Len(k) >= 1 /\ \A i \in 1..Len(t) : t[i] = k[i + 1]
    BY <1>1, <1>3
  <2> HIDE DEF t
  <2>2. /\ l \in Seq(Message) /\ Len(l) = Len(t) + 1 /\ l[Len(l)] = m /\ l # <<>>
        /\ \A i \in 1..Len(t) : l[i] = t[i]
    BY <2>1
  <2>3. Extended(k, m) = l
    BY <1>3 DEF Extended, t
  <2> HIDE DEF l
  <2>4. /\ Len(l) = Len(k) + 1 - 1 /\ Len(k) >= 1
        /\ \A i \in 1..(Len(l) - 1) : l[i] = k[i + 1]
    BY <1>1, <2>1, <2>2
  <2> QED
    BY <2>2, <2>3, <2>4 DEF Line
<1> QED
  BY <1>2, <1>3

LEMMA TakeOwn ==
  ASSUME NEW k \in Line, NEW q \in Queue, q # <<>>, NEW g \in Devices,
         Head(q) \in Message, Head(q).gpu = g, InOrder(k, q, g)
  PROVE  LET r == Tail(q)
             l == Extended(k, Head(q))
         IN /\ InOrder(l, r, g)
            /\ \A t : UpTo(k, q, g, t) => UpTo(l, r, g, t)
            /\ \A v : Newest(k, q, g, v) => Newest(l, r, g, v)
<1> DEFINE r == Tail(q)
           m == Head(q)
           l == Extended(k, m)
<1>1. /\ Len(q) \in Nat \ {0} /\ Len(r) = Len(q) - 1 /\ q[1] = m
      /\ \A i \in 1..Len(r) : r[i] = q[i + 1]
  BY DEF Queue
<1>2. /\ l \in Line /\ l # <<>> /\ l[Len(l)] = m
      /\ \E cut \in {0, 1} :
           /\ Len(l) = Len(k) + 1 - cut /\ Len(k) >= cut
           /\ \A i \in 1..(Len(l) - 1) : l[i] = k[i + cut]
  BY Extension
<1>3. Len(k) \in Nat /\ Len(l) \in Nat
  BY <1>2, Lines
<1>4. m.gpu = g /\ m \in Message
  OBVIOUS
<1> HIDE DEF r, l, m
<1>5. PICK cut \in {0, 1} :
        /\ Len(l) = Len(k) + 1 - cut /\ Len(k) >= cut
        /\ \A i \in 1..(Len(l) - 1) : l[i] = k[i + cut]
  BY <1>2
<1>6. ASSUME NEW i \in 1..Len(l), i # Len(l)
      PROVE  i \in 1..(Len(l) - 1) /\ i + cut \in 1..Len(k) /\ l[i] = k[i + cut]
  BY <1>3, <1>5, <1>6
<1>7. 1 \in 1..Len(q) /\ FirstOf(q, g, 1)
  BY <1>1, <1>4 DEF FirstOf
<1>8. KeptInOrder(k) /\ SentInOrder(q, g) /\ Joins(k, q, g)
  BY DEF InOrder
<1>9. \A i \in 1..Len(k) : k[i].at < m.at
  BY <1>1, <1>4, <1>7, <1>8 DEF Joins
<1>10. KeptInOrder(l)
  <2>1. ASSUME NEW i \in 1..Len(l), NEW j \in 1..Len(l), i < j PROVE l[i].at < l[j].at
    <3>1. i # Len(l)
      BY <1>3, <2>1
    <3>2. CASE j = Len(l)
      BY <1>2, <1>6, <1>9, <3>1, <3>2
    <3>3. CASE j # Len(l)
      <4>1. i + cut < j + cut
        BY <2>1
      <4> QED
        BY <1>6, <1>8, <3>1, <3>3, <4>1 DEF KeptInOrder
    <3> QED
      BY <3>2, <3>3
  <2>2. ASSUME NEW i \in 1..(Len(l) - 1) PROVE l[i].value # l[i + 1].value
    <3>1. i \in 1..Len(l) /\ i # Len(l) /\ i + 1 \in 1..Len(l)
      BY <1>3
    <3>2. CASE i + 1 = Len(l)
      <4>1. i + cut = Len(k) /\ k # <<>>
        BY <1>3, <1>5, <1>6, <3>1, <3>2
      <4>2. k[Len(k)].value # m.value
        BY <1>1, <1>7, <1>8, <4>1 DEF Joins
      <4> QED
        BY <1>2, <1>6, <3>1, <3>2, <4>1, <4>2
    <3>3. CASE i + 1 # Len(l)
      <4>1. i + cut \in 1..(Len(k) - 1) /\ (i + 1) + cut = (i + cut) + 1
        BY <1>3, <1>5, <3>1, <3>3
      <4> QED
        BY <1>6, <1>8, <3>1, <3>3, <4>1 DEF KeptInOrder
    <3> QED
      BY <3>2, <3>3
  <2> QED
    BY <2>1, <2>2 DEF KeptInOrder
<1>11. \A i \in 1..Len(r) : i + 1 \in 1..Len(q) /\ 1 < i + 1 /\ r[i] = q[i + 1]
  BY <1>1
<1>12. ASSUME NEW i \in 1..Len(r), NEW j \in 1..Len(r), Neighbours(r, g, i, j)
       PROVE  Neighbours(q, g, i + 1, j + 1)
  <2>1. ASSUME NEW n \in 1..Len(q), i + 1 < n, n < j + 1 PROVE q[n].gpu # g
    <3>1. n - 1 \in 1..Len(r) /\ i < n - 1 /\ n - 1 < j /\ (n - 1) + 1 = n
      BY <1>1, <2>1
    <3> QED
      BY <1>12, <1>11, <3>1 DEF Neighbours
  <2> QED
    BY <1>11, <1>12, <2>1 DEF Neighbours
<1>13. SentInOrder(r, g)
  <2>1. ASSUME NEW i \in 1..Len(r), NEW j \in 1..Len(r), i < j, r[i].gpu = g, r[j].gpu = g
        PROVE  r[i].at < r[j].at
    <3>1. i + 1 < j + 1
      BY <1>1, <2>1
    <3> QED
      BY <1>8, <1>11, <2>1, <3>1 DEF SentInOrder
  <2>2. ASSUME NEW i \in 1..Len(r), NEW j \in 1..Len(r), Neighbours(r, g, i, j)
        PROVE  r[i].value # r[j].value
    BY <1>8, <1>11, <1>12, <2>2 DEF SentInOrder
  <2> QED
    BY <2>1, <2>2 DEF SentInOrder
<1>14. ASSUME NEW j \in 1..Len(r), r[j].gpu = g PROVE m.at < r[j].at
  BY <1>1, <1>4, <1>7, <1>8, <1>11, <1>14 DEF SentInOrder
<1>15. Joins(l, r, g)
  <2>1. ASSUME NEW i \in 1..Len(l), NEW j \in 1..Len(r), r[j].gpu = g PROVE l[i].at < r[j].at
    <3>1. CASE i = Len(l)
      BY <1>2, <1>14, <2>1, <3>1
    <3>2. CASE i # Len(l)
      BY <1>6, <1>8, <1>11, <2>1, <3>2 DEF Joins
    <3> QED
      BY <3>1, <3>2
  <2>2. ASSUME NEW j \in 1..Len(r), FirstOf(r, g, j), l # <<>>
        PROVE  l[Len(l)].value # r[j].value
    <3>1. ASSUME NEW n \in 1..Len(q), 1 < n, n < j + 1 PROVE q[n].gpu # g
      <4>1. n - 1 \in 1..Len(r) /\ n - 1 < j /\ (n - 1) + 1 = n
        BY <1>1, <3>1
      <4> QED
        BY <1>11, <2>2, <4>1 DEF FirstOf
    <3>2. Neighbours(q, g, 1, j + 1)
      BY <1>1, <1>4, <1>11, <2>2, <3>1 DEF Neighbours, FirstOf
    <3> QED
      BY <1>1, <1>2, <1>7, <1>8, <1>11, <3>2 DEF SentInOrder
  <2> QED
    BY <2>1, <2>2 DEF Joins
<1>16. ASSUME NEW t, UpTo(k, q, g, t) PROVE UpTo(l, r, g, t)
  <2>1. m.at <= t
    BY <1>1, <1>4, <1>7, <1>16 DEF UpTo
  <2>2. \A i \in 1..Len(l) : l[i].at <= t
    BY <1>2, <1>6, <1>16, <2>1 DEF UpTo
  <2>3. \A j \in 1..Len(r) : r[j].gpu = g => r[j].at <= t
    BY <1>11, <1>16 DEF UpTo
  <2> QED
    BY <2>2, <2>3 DEF UpTo
<1>17. ASSUME NEW v, Newest(k, q, g, v) PROVE Newest(l, r, g, v)
  <2>1. PICK j \in 1..Len(q) : LastOf(q, g, j) /\ q[j].value = v
    BY <1>4, <1>1, <1>7, <1>17 DEF Newest
  <2>2. CASE j = 1
    <3>1. \A n \in 1..Len(r) : r[n].gpu # g
      BY <1>11, <2>1, <2>2 DEF LastOf
    <3> QED
      BY <1>1, <1>2, <2>1, <2>2, <3>1 DEF Newest
  <2>3. CASE j # 1
    <3>1. j - 1 \in 1..Len(r) /\ (j - 1) + 1 = j
      BY <1>1, <2>3
    <3>2. ASSUME NEW n \in 1..Len(r), j - 1 < n PROVE r[n].gpu # g
      <4>1. n + 1 \in 1..Len(q) /\ j < n + 1
        BY <1>1, <3>2
      <4> QED
        BY <1>11, <2>1, <4>1 DEF LastOf
    <3>3. LastOf(r, g, j - 1) /\ r[j - 1].value = v
      BY <1>11, <2>1, <3>1, <3>2 DEF LastOf
    <3> QED
      BY <3>1, <3>3 DEF Newest
  <2> QED
    BY <2>2, <2>3
<1> QED
  BY <1>10, <1>13, <1>15, <1>16, <1>17 DEF InOrder, r, l, m

(* A queue whose end is lost. *)
LEMMA Lost ==
  ASSUME NEW k \in Line, NEW q \in Queue, NEW r \in Queue, Len(r) <= Len(q),
         \A i \in 1..Len(r) : r[i] = q[i], NEW g \in Devices
  PROVE  /\ InOrder(k, q, g) => InOrder(k, r, g)
         /\ \A t : UpTo(k, q, g, t) => UpTo(k, r, g, t)
<1>1. Len(q) \in Nat /\ Len(r) \in Nat
  BY QueueType
<1>2. \A i \in 1..Len(r) : i \in 1..Len(q) /\ r[i] = q[i]
  BY <1>1
<1>3. ASSUME NEW i \in 1..Len(r), NEW j \in 1..Len(r), Neighbours(r, g, i, j)
      PROVE  Neighbours(q, g, i, j)
  <2>1. ASSUME NEW n \in 1..Len(q), i < n, n < j PROVE q[n].gpu # g
    <3>1. n \in 1..Len(r)
      BY <1>1, <2>1
    <3> QED
      BY <1>2, <1>3, <2>1, <3>1 DEF Neighbours
  <2> QED
    BY <1>2, <1>3, <2>1 DEF Neighbours
<1>4. ASSUME NEW j \in 1..Len(r), FirstOf(r, g, j)
      PROVE  FirstOf(q, g, j)
  <2>1. ASSUME NEW n \in 1..Len(q), n < j PROVE q[n].gpu # g
    <3>1. n \in 1..Len(r)
      BY <1>1, <2>1
    <3> QED
      BY <1>2, <1>4, <2>1, <3>1 DEF FirstOf
  <2> QED
    BY <1>2, <1>4, <2>1 DEF FirstOf
<1>5. SentInOrder(q, g) => SentInOrder(r, g)
  <2> SUFFICES ASSUME SentInOrder(q, g) PROVE SentInOrder(r, g)
    OBVIOUS
  <2>1. ASSUME NEW i \in 1..Len(r), NEW j \in 1..Len(r), i < j, r[i].gpu = g, r[j].gpu = g
        PROVE  r[i].at < r[j].at
    BY <1>2, <2>1 DEF SentInOrder
  <2>2. ASSUME NEW i \in 1..Len(r), NEW j \in 1..Len(r), Neighbours(r, g, i, j)
        PROVE  r[i].value # r[j].value
    BY <1>2, <1>3, <2>2 DEF SentInOrder
  <2> QED
    BY <2>1, <2>2 DEF SentInOrder
<1>6. Joins(k, q, g) => Joins(k, r, g)
  <2> SUFFICES ASSUME Joins(k, q, g) PROVE Joins(k, r, g)
    OBVIOUS
  <2>1. ASSUME NEW i \in 1..Len(k), NEW j \in 1..Len(r), r[j].gpu = g PROVE k[i].at < r[j].at
    BY <1>2, <2>1 DEF Joins
  <2>2. ASSUME NEW j \in 1..Len(r), FirstOf(r, g, j), k # <<>>
        PROVE  k[Len(k)].value # r[j].value
    BY <1>2, <1>4, <2>2 DEF Joins
  <2> QED
    BY <2>1, <2>2 DEF Joins
<1>7. ASSUME NEW t, UpTo(k, q, g, t) PROVE UpTo(k, r, g, t)
  BY <1>2, <1>7 DEF UpTo
<1> QED
  BY <1>5, <1>6, <1>7 DEF InOrder

-----------------------------------------------------------------------------
(* The steps. *)

LEMMA InitInv == Init => IInv
<1> SUFFICES ASSUME Init PROVE IInv
  OBVIOUS
<1>1. TypeInv
  BY DEF Init, TypeInv, Queue, Line
<1>2. ASSUME NEW d \in Domains, NEW g \in Devices PROVE LineInv(d, g)
  <2>1. InFlight(d) = <<>> /\ samples[d][g] = <<>> /\ todo[d] = <<>> /\ g \notin DOMAIN prev[d]
    BY DEF Init, InFlight, NoReading
  <2> QED
    BY <2>1 DEF LineInv, InOrder, KeptInOrder, SentInOrder, Joins, UpTo, Nothing
<1>3. \A d \in Domains : DOMAIN prev[d] \subseteq Devices
  BY DEF Init, NoReading
<1> QED
  BY <1>1, <1>2, <1>3 DEF IInv, DomainInv

LEMMA Flight ==
  ASSUME TypeInv, NEW d \in Domains
  PROVE  InFlight(d) \in Queue
  BY DEF TypeInv, InFlight, Queue

(* A domain of which nothing changes, but that its process may be gone. *)
LEMMA Unmoved ==
  ASSUME NEW d \in Domains, DomainInv(d),
         UNCHANGED <<pipe[d], unsent[d], samples[d], prev[d], stamp[d]>>,
         \/ todo'[d] = todo[d] \/ todo'[d] = <<>>
         \/ todo'[d] = Tail(todo[d]) /\ todo[d] \in Seq(Devices) /\ todo[d] # <<>>,
         child[d] = "gone" => child'[d] = "gone"
  PROVE  DomainInv(d)'
<1>1. InFlight(d)' = InFlight(d)
  BY DEF InFlight
<1>2. ASSUME NEW g \in Devices, NEW i \in 1..Len(todo'[d]), todo'[d][i] = g
      PROVE  \E j \in 1..Len(todo[d]) : todo[d][j] = g
  <2>1. CASE todo'[d] = todo[d]
    BY <1>2, <2>1
  <2>2. CASE todo'[d] = <<>>
    BY <1>2, <2>2
  <2>3. CASE todo'[d] = Tail(todo[d]) /\ todo[d] \in Seq(Devices) /\ todo[d] # <<>>
    <3>1. i + 1 \in 1..Len(todo[d]) /\ todo[d][i + 1] = todo'[d][i]
      BY <1>2, <2>3
    <3> QED
      BY <1>2, <3>1
  <2> QED
    BY <2>1, <2>2, <2>3
<1>3. ASSUME NEW g \in Devices PROVE LineInv(d, g)'
  BY <1>1, <1>2 DEF DomainInv, LineInv
<1> QED
  BY <1>3 DEF DomainInv

LEMMA Quiet ==
  ASSUME IInv, UNCHANGED <<pipe, unsent, samples, prev, stamp, todo>>,
         now' \in Nat, now' >= now, DOMAIN child' = Domains,
         \A d \in Domains : child'[d] \in {child[d], "starting", "idle", "gone"},
         \A d \in Domains : child[d] = "gone" => child'[d] = "gone",
         main' = "new" => main = "new" /\ child' = child
  PROVE  IInv'
<1>1. TypeInv'
  <2>1. /\ stamp' \in [Domains -> Int] /\ now \in Nat
        /\ \A d \in Domains : stamp'[d] \in Int /\ stamp'[d] <= now
    BY DEF IInv, TypeInv
  <2>2. \A d \in Domains : stamp'[d] <= now'
    BY <2>1
  <2>3. \A d \in Domains : child'[d] = "polling" => stamp'[d] >= 0
    BY DEF IInv, TypeInv
  <2>4. main' = "new" => \A d \in Domains : child'[d] = "none"
    BY DEF IInv, TypeInv
  <2>5. /\ pipe' \in [Domains -> Queue] /\ unsent' \in [Domains -> Queue]
        /\ samples' \in [Domains -> [Devices -> Line]] /\ DOMAIN prev' = Domains
        /\ todo' \in [Domains -> Seq(Devices)]
        /\ \A d \in Domains : \A i, j \in 1..Len(todo'[d]) : todo'[d][i] = todo'[d][j] => i = j
    BY DEF IInv, TypeInv
  <2> QED
    BY <2>1, <2>2, <2>3, <2>4, <2>5 DEF TypeInv
<1>2. ASSUME NEW d \in Domains PROVE DomainInv(d)'
  BY <1>2, Unmoved DEF IInv
<1> QED
  BY <1>1, <1>2 DEF IInv

LEMMA ParentQuiet ==
  ASSUME IInv, \/ Tick \/ NewPowerMonitor \/ NewTemperatureMonitor \/ AllReady
               \/ PowerReadyTimeout \/ TemperatureReadyTimeout \/ StopPower \/ StopTemperature \/ Stopped
               \/ \E d \in Domains : Joined(d) \/ JoinTimeout(d)
  PROVE  IInv'
<1>1. /\ UNCHANGED <<pipe, unsent, samples, prev, stamp, todo>>
      /\ now' = now \/ now' = now + 1
  BY DEF Tick, NewPowerMonitor, NewTemperatureMonitor, AllReady, StopPower, StopTemperature,
         PowerReadyTimeout, TemperatureReadyTimeout, Stopped, Cleanup, Joined, JoinTimeout, childVars, parentVars
<1>2. /\ main' = "new" => main = "new" /\ child' = child
      /\ main # "new" => child' = child
  BY DEF Tick, NewPowerMonitor, NewTemperatureMonitor, AllReady, StopPower, StopTemperature,
         PowerReadyTimeout, TemperatureReadyTimeout, Stopped, Cleanup, Joined, JoinTimeout, childVars, parentVars
<1>3. main = "new" => /\ DOMAIN child' = Domains
                      /\ \A d \in Domains : child[d] = "none" /\ child'[d] \in {"none", "starting"}
  <2> SUFFICES ASSUME main = "new"
               PROVE  /\ DOMAIN child' = Domains
                      /\ \A d \in Domains : child[d] = "none" /\ child'[d] \in {"none", "starting"}
    OBVIOUS
  <2>1. \A d \in Domains : child[d] = "none"
    BY DEF IInv, TypeInv
  <2>2. CASE NewPowerMonitor
    BY <2>1, <2>2 DEF NewPowerMonitor, IInv, TypeInv
  <2>3. CASE NewTemperatureMonitor
    BY <2>1, <2>3 DEF NewTemperatureMonitor, IInv, TypeInv
  <2>4. CASE child' = child
    BY <2>1, <2>4 DEF IInv, TypeInv
  <2> QED
    BY <2>2, <2>3, <2>4 DEF Tick, AllReady, StopPower, StopTemperature,
         PowerReadyTimeout, TemperatureReadyTimeout, Stopped, Cleanup, Joined, JoinTimeout, childVars, parentVars
<1>4. now' \in Nat /\ now' >= now /\ DOMAIN child = Domains
  BY <1>1 DEF IInv, TypeInv
<1> QED
  BY <1>1, <1>2, <1>3, <1>4, Quiet

(* Steps of a child that move no message. *)
LEMMA ChildQuiet ==
  ASSUME IInv, NEW d \in Domains, SetReady(d) \/ EndPass(d) \/ Exit(d)
  PROVE  IInv'
<1>1. /\ UNCHANGED <<pipe, unsent, samples, prev, stamp, todo, now, main>>
      /\ \E is \in {"idle", "gone"} : child' = [child EXCEPT ![d] = is]
      /\ child[d] \in {"starting", "polling", "exiting"}
  BY DEF SetReady, EndPass, Exit, parentVars
<1>2. main # "new"
  BY <1>1 DEF IInv, TypeInv
<1>3. now \in Nat /\ DOMAIN child = Domains
  BY DEF IInv, TypeInv
<1> QED
  BY <1>1, <1>2, <1>3, Quiet

(* A step of one domain: the others stay as they are. *)
LEMMA Others ==
  ASSUME IInv, NEW d \in Domains, TypeInv', DomainInv(d)',
         \A e \in Domains \ {d} :
           UNCHANGED <<pipe[e], unsent[e], samples[e], prev[e], stamp[e], todo[e], child[e]>>
  PROVE  IInv'
<1>1. ASSUME NEW e \in Domains \ {d} PROVE DomainInv(e)'
  BY <1>1, Unmoved DEF IInv
<1> QED
  BY <1>1 DEF IInv

LEMMA Gpu == Gpus \in Seq(Devices) /\ \A i, j \in 1..Len(Gpus) : Gpus[i] = Gpus[j] => i = j
  BY PollersAssumption DEF Devices

LEMMA BeginPassStep ==
  ASSUME IInv, NEW d \in Domains, BeginPass(d)
  PROVE  IInv'
<1>1. /\ child[d] = "idle" /\ now > stamp[d]
      /\ child' = [child EXCEPT ![d] = "polling"]
      /\ stamp' = [stamp EXCEPT ![d] = now] /\ todo' = [todo EXCEPT ![d] = Gpus]
      /\ UNCHANGED <<now, main, samples, pipe, unsent, prev>>
  BY DEF BeginPass, parentVars
<1>2. TypeInv
  BY DEF IInv
<1>3. main # "new"
  BY <1>1, <1>2 DEF TypeInv
<1>4. /\ now \in Nat /\ stamp[d] \in Int /\ stamp'[d] = now /\ child'[d] = "polling"
      /\ todo'[d] = Gpus /\ stamp[d] <= now - 1
  BY <1>1, <1>2 DEF TypeInv
<1>5. \A e \in Domains \ {d} :
        UNCHANGED <<pipe[e], unsent[e], samples[e], prev[e], stamp[e], todo[e], child[e]>>
  BY <1>1, <1>2 DEF TypeInv
<1>6. TypeInv'
  <2>1. ASSUME NEW e \in Domains
        PROVE  \A i, j \in 1..Len(todo'[e]) : todo'[e][i] = todo'[e][j] => i = j
    <3>1. CASE e = d
      BY <1>4, <3>1, Gpu
    <3>2. CASE e # d
      <4>1. todo'[e] = todo[e]
        BY <1>5, <3>2
      <4> QED
        BY <1>2, <4>1 DEF TypeInv
    <3> QED
      BY <3>1, <3>2
  <2>2. todo' \in [Domains -> Seq(Devices)]
    BY <1>1, <1>2, Gpu DEF TypeInv
  <2>3. /\ stamp' \in [Domains -> Int] /\ \A e \in Domains : stamp'[e] <= now'
        /\ DOMAIN child' = Domains /\ \A e \in Domains : child'[e] = "polling" => stamp'[e] >= 0
    BY <1>1, <1>2 DEF TypeInv
  <2> QED
    BY <1>1, <1>2, <1>3, <2>1, <2>2, <2>3 DEF TypeInv
<1>7. ASSUME NEW g \in Devices PROVE LineInv(d, g)'
  <2> DEFINE k == samples[d][g]
             q == InFlight(d)
  <2>1. /\ InOrder(k, q, g) /\ UpTo(k, q, g, stamp[d])
        /\ IF g \in DOMAIN prev[d] THEN Newest(k, q, g, prev[d][g]) ELSE Nothing(k, q, g)
    BY <1>1 DEF IInv, DomainInv, LineInv
  <2>2. k \in Line /\ q \in Queue
    BY <1>2, Flight DEF TypeInv
  <2>3. samples'[d][g] = k /\ InFlight(d)' = q /\ prev'[d] = prev[d]
    BY <1>1 DEF InFlight
  <2> HIDE DEF k, q
  <2>4. UpTo(k, q, g, now - 1) /\ UpTo(k, q, g, now)
    <3>1. /\ \A i \in 1..Len(k) : k[i].at \in Int
          /\ \A i \in 1..Len(q) : q[i].gpu = g => q[i].at \in Int
      BY <2>2, Lines, QueueType DEF Message
    <3> QED
      BY <1>4, <2>1, <3>1 DEF UpTo
  <2> QED
    BY <1>4, <2>1, <2>3, <2>4 DEF LineInv
<1>8. DomainInv(d)'
  BY <1>1, <1>7 DEF IInv, DomainInv
<1> QED
  BY <1>5, <1>6, <1>8, Others

(* A reading that is passed over, and the end of a pass. *)
LEMMA SkipStep ==
  ASSUME IInv, NEW d \in Domains, UNCHANGED <<now, main, samples, pipe, unsent, prev, stamp, child>>,
         todo[d] # <<>>, todo' = [todo EXCEPT ![d] = Tail(@)] \/ todo' = [todo EXCEPT ![d] = <<>>]
  PROVE  IInv'
<1>1. TypeInv
  BY DEF IInv
<1>2. /\ todo[d] \in Seq(Devices) /\ todo' \in [Domains -> Seq(Devices)]
      /\ \A i, j \in 1..Len(todo'[d]) : todo'[d][i] = todo'[d][j] => i = j
  <2>1. todo[d] \in Seq(Devices) /\ Len(todo[d]) \in Nat
        /\ \A i, j \in 1..Len(todo[d]) : todo[d][i] = todo[d][j] => i = j
    BY <1>1 DEF TypeInv
  <2>2. CASE todo' = [todo EXCEPT ![d] = Tail(@)]
    <3>1. todo'[d] = Tail(todo[d])
      BY <1>1, <2>2 DEF TypeInv
    <3>2. Tail(todo[d]) \in Seq(Devices) /\ Len(Tail(todo[d])) = Len(todo[d]) - 1
          /\ \A i \in 1..Len(Tail(todo[d])) : Tail(todo[d])[i] = todo[d][i + 1]
      BY <2>1
    <3>3. ASSUME NEW i \in 1..Len(todo'[d]), NEW j \in 1..Len(todo'[d]), todo'[d][i] = todo'[d][j]
          PROVE  i = j
      <4>1. i + 1 \in 1..Len(todo[d]) /\ j + 1 \in 1..Len(todo[d])
            /\ todo[d][i + 1] = todo[d][j + 1]
        BY <2>1, <3>1, <3>2, <3>3
      <4>2. i + 1 = j + 1
        BY <2>1, <4>1
      <4> QED
        BY <4>2
    <3> QED
      BY <1>1, <2>1, <2>2, <3>2, <3>3 DEF TypeInv
  <2>3. CASE todo' = [todo EXCEPT ![d] = <<>>]
    BY <1>1, <2>1, <2>3 DEF TypeInv
  <2> QED
    BY <2>2, <2>3
<1>3. \A e \in Domains \ {d} : todo'[e] = todo[e]
  BY <1>1 DEF TypeInv
<1>4. TypeInv'
  BY <1>1, <1>2, <1>3 DEF TypeInv
<1>5. \/ todo'[d] = <<>> \/ todo'[d] = Tail(todo[d])
  BY <1>1 DEF TypeInv
<1>6. ASSUME NEW e \in Domains PROVE DomainInv(e)'
  BY <1>2, <1>3, <1>5, Unmoved DEF IInv
<1> QED
  BY <1>4, <1>6 DEF IInv

LEMMA Same ==
  ASSUME NEW S, NEW a \in Seq(S), NEW b \in Seq(S), Len(a) = Len(b),
         \A i \in 1..Len(a) : a[i] = b[i]
  PROVE  a = b
  OBVIOUS

LEMMA Concat ==
  ASSUME NEW S, NEW a \in Seq(S), NEW b \in Seq(S)
  PROVE  /\ a \o b \in Seq(S) /\ Len(a \o b) = Len(a) + Len(b)
         /\ \A i \in 1..Len(a \o b) :
              (a \o b)[i] = IF i <= Len(a) THEN a[i] ELSE b[i - Len(a)]
  OBVIOUS

LEMMA AppendToBoth ==
  ASSUME NEW S, NEW a \in Seq(S), NEW b \in Seq(S), NEW m \in S
  PROVE  Append(b, m) \in Seq(S) /\ a \o Append(b, m) = Append(a \o b, m)
<1> DEFINE c == Append(b, m)
           x == a \o c
           ab == a \o b
           y == Append(ab, m)
<1>1. /\ Len(a) \in Nat /\ Len(b) \in Nat /\ c \in Seq(S) /\ Len(c) = Len(b) + 1
      /\ \A i \in 1..Len(b) : c[i] = b[i]
      /\ c[Len(b) + 1] = m
  OBVIOUS
<1>2. /\ ab \in Seq(S) /\ Len(ab) = Len(a) + Len(b)
      /\ \A i \in 1..Len(ab) : ab[i] = IF i <= Len(a) THEN a[i] ELSE b[i - Len(a)]
  OBVIOUS
<1> HIDE DEF c, ab
<1>3. /\ x \in Seq(S) /\ Len(x) = Len(a) + Len(c)
      /\ \A i \in 1..Len(x) : x[i] = IF i <= Len(a) THEN a[i] ELSE c[i - Len(a)]
  BY <1>1, Concat
<1>4. /\ y \in Seq(S) /\ Len(y) = Len(ab) + 1 /\ y[Len(ab) + 1] = m
      /\ \A i \in 1..Len(ab) : y[i] = ab[i]
  BY <1>2
<1> HIDE DEF x, y
<1>5. ASSUME NEW i \in 1..Len(x) PROVE x[i] = y[i]
  <2>1. CASE i <= Len(a)
    <3>1. i \in 1..Len(ab)
      BY <1>1, <1>2, <2>1
    <3> QED
      BY <1>2, <1>3, <1>4, <2>1, <3>1
  <2>2. CASE Len(a) < i /\ i <= Len(a) + Len(b)
    <3>1. i \in 1..Len(ab) /\ i - Len(a) \in 1..Len(b) /\ ~(i <= Len(a))
      BY <1>1, <1>2, <2>2
    <3> QED
      BY <1>1, <1>2, <1>3, <1>4, <3>1
  <2>3. CASE Len(a) + Len(b) < i
    <3>1. i = Len(ab) + 1 /\ i - Len(a) = Len(b) + 1 /\ ~(i <= Len(a))
      BY <1>1, <1>2, <1>3, <2>3
    <3> QED
      BY <1>1, <1>3, <1>4, <3>1
  <2> QED
    BY <1>1, <2>1, <2>2, <2>3
<1>6. Len(x) = Len(y)
  BY <1>1, <1>2, <1>3, <1>4
<1>7. x = y
  BY <1>3, <1>4, <1>5, <1>6, Same
<1> QED
  BY <1>1, <1>7 DEF x, y, c, ab

(* The queue of one domain grows by a message. *)
LEMMA Puts ==
  ASSUME TypeInv, NEW d \in Domains, NEW m \in Message \cup {STOP},
         pipe' = pipe, unsent' = [unsent EXCEPT ![d] = Append(@, m)]
  PROVE  /\ InFlight(d)' = Append(InFlight(d), m)
         /\ pipe' \in [Domains -> Queue] /\ unsent' \in [Domains -> Queue]
         /\ \A e \in Domains \ {d} : UNCHANGED <<pipe[e], unsent[e]>>
<1>1. pipe[d] \in Queue /\ unsent[d] \in Queue /\ unsent'[d] = Append(unsent[d], m)
  BY DEF TypeInv
<1>2. Append(unsent[d], m) \in Queue /\ pipe[d] \o Append(unsent[d], m) = Append(pipe[d] \o unsent[d], m)
  <2> DEFINE S == Message \cup {STOP}
             a == pipe[d]
             b == unsent[d]
  <2>1. a \in Seq(S) /\ b \in Seq(S) /\ m \in S
    BY <1>1 DEF Queue
  <2> HIDE DEF S, a, b
  <2>2. Append(b, m) \in Seq(S) /\ a \o Append(b, m) = Append(a \o b, m)
    BY <2>1, AppendToBoth
  <2> QED
    BY <2>2 DEF Queue, S, a, b
<1>3. InFlight(d)' = Append(InFlight(d), m)
  BY <1>1, <1>2 DEF InFlight
<1> QED
  BY <1>2, <1>3 DEF TypeInv

(* The "STOP" of a process that finishes belongs to no timeline. *)
LEMMA FinishStep ==
  ASSUME IInv, NEW d \in Domains, Finish(d), child[d] \in {"starting", "idle", "polling"}
  PROVE  IInv'
<1>1. /\ child' = [child EXCEPT ![d] = "exiting"] /\ todo' = [todo EXCEPT ![d] = <<>>]
      /\ unsent' = [unsent EXCEPT ![d] = Append(@, STOP)]
      /\ UNCHANGED <<now, main, samples, pipe, prev, stamp>>
  BY DEF Finish, parentVars
<1>2. TypeInv /\ main # "new"
  BY DEF IInv, TypeInv
<1>3. /\ InFlight(d)' = Append(InFlight(d), STOP)
      /\ pipe' \in [Domains -> Queue] /\ unsent' \in [Domains -> Queue]
      /\ \A e \in Domains \ {d} : UNCHANGED <<pipe[e], unsent[e]>>
  BY <1>1, <1>2, Puts
<1>4. child'[d] = "exiting" /\ todo'[d] = <<>>
  BY <1>1, <1>2 DEF TypeInv
<1>5. \A e \in Domains \ {d} :
        UNCHANGED <<pipe[e], unsent[e], samples[e], prev[e], stamp[e], todo[e], child[e]>>
  BY <1>1, <1>2, <1>3 DEF TypeInv
<1>6. TypeInv'
  <2>1. ASSUME NEW e \in Domains
        PROVE  \A i, j \in 1..Len(todo'[e]) : todo'[e][i] = todo'[e][j] => i = j
    <3>1. CASE e = d
      BY <1>4, <3>1
    <3>2. CASE e # d
      <4>1. todo'[e] = todo[e]
        BY <1>5, <3>2
      <4> QED
        BY <1>2, <4>1 DEF TypeInv
    <3> QED
      BY <3>1, <3>2
  <2>2. todo' \in [Domains -> Seq(Devices)]
    BY <1>1, <1>2 DEF TypeInv
  <2>3. DOMAIN child' = Domains /\ \A e \in Domains : child'[e] = "polling" => stamp'[e] >= 0
    BY <1>1, <1>2 DEF TypeInv
  <2> QED
    BY <1>1, <1>2, <1>3, <2>1, <2>2, <2>3 DEF TypeInv
<1>7. ASSUME NEW g \in Devices PROVE LineInv(d, g)'
  <2> DEFINE k == samples[d][g]
             q == InFlight(d)
             r == Append(q, STOP)
  <2>1. /\ InOrder(k, q, g) /\ UpTo(k, q, g, stamp[d])
        /\ IF g \in DOMAIN prev[d] THEN Newest(k, q, g, prev[d][g]) ELSE Nothing(k, q, g)
    BY DEF IInv, DomainInv, LineInv
  <2>2. k \in Line /\ q \in Queue /\ STOP.gpu # g
    BY <1>2, Flight, PollersAssumption DEF TypeInv, STOP, Devices
  <2>3. samples'[d][g] = k /\ InFlight(d)' = r /\ prev'[d] = prev[d] /\ stamp'[d] = stamp[d]
    BY <1>1, <1>3
  <2> HIDE DEF k, q
  <2>4. /\ InOrder(k, r, g) /\ UpTo(k, r, g, stamp[d])
        /\ IF g \in DOMAIN prev[d] THEN Newest(k, r, g, prev[d][g]) ELSE Nothing(k, r, g)
    BY <2>1, <2>2, PutOther
  <2> HIDE DEF r
  <2> QED
    BY <1>4, <2>3, <2>4 DEF LineInv
<1>8. DomainInv(d)'
  BY <1>1, <1>7 DEF IInv, DomainInv
<1> QED
  BY <1>5, <1>6, <1>8, Others

(* A message between the feeder and the pipe is in flight all the same; and *)
(* what is first in the pipe is what has been in flight the longest.        *)
LEMMA Passed ==
  ASSUME NEW S, NEW a \in Seq(S), NEW b \in Seq(S), b # <<>>
  PROVE  /\ Append(a, Head(b)) \in Seq(S) /\ Tail(b) \in Seq(S)
         /\ Append(a, Head(b)) \o Tail(b) = a \o b
<1> DEFINE c == Append(a, Head(b))
           t == Tail(b)
           x == c \o t
           y == a \o b
<1>1. /\ Len(a) \in Nat /\ Len(b) \in Nat \ {0} /\ Head(b) = b[1] /\ Head(b) \in S
      /\ t \in Seq(S) /\ Len(t) = Len(b) - 1 /\ \A i \in 1..Len(t) : t[i] = b[i + 1]
  OBVIOUS
<1>2. /\ c \in Seq(S) /\ Len(c) = Len(a) + 1 /\ c[Len(a) + 1] = b[1]
      /\ \A i \in 1..Len(a) : c[i] = a[i]
  BY <1>1
<1> HIDE DEF c, t
<1>3. /\ x \in Seq(S) /\ Len(x) = Len(c) + Len(t)
      /\ \A i \in 1..Len(x) : x[i] = IF i <= Len(c) THEN c[i] ELSE t[i - Len(c)]
  BY <1>1, <1>2, Concat
<1>4. /\ y \in Seq(S) /\ Len(y) = Len(a) + Len(b)
      /\ \A i \in 1..Len(y) : y[i] = IF i <= Len(a) THEN a[i] ELSE b[i - Len(a)]
  OBVIOUS
<1> HIDE DEF x, y
<1>5. Len(x) = Len(y)
  BY <1>1, <1>2, <1>3, <1>4
<1>6. ASSUME NEW i \in 1..Len(x) PROVE x[i] = y[i]
  <2>1. CASE i <= Len(a)
    <3>1. i \in 1..Len(a) /\ i <= Len(c)
      BY <1>1, <1>2, <2>1
    <3>2. x[i] = c[i] /\ c[i] = a[i]
      BY <1>2, <1>3, <3>1
    <3>3. y[i] = a[i]
      BY <1>4, <1>5, <2>1
    <3> QED
      BY <3>2, <3>3
  <2>2. CASE i = Len(a) + 1
    <3>1. i <= Len(c) /\ ~(i <= Len(a)) /\ i - Len(a) = 1
      BY <1>1, <1>2, <2>2
    <3>2. x[i] = c[i] /\ c[i] = b[1]
      BY <1>2, <1>3, <2>2, <3>1
    <3>3. y[i] = b[1]
      BY <1>4, <1>5, <3>1
    <3> QED
      BY <3>2, <3>3
  <2>3. CASE Len(a) + 1 < i
    <3>1. ~(i <= Len(c)) /\ i - Len(c) \in 1..Len(t) /\ (i - Len(c)) + 1 = i - Len(a)
          /\ ~(i <= Len(a))
      BY <1>1, <1>2, <1>3, <2>3
    <3> QED
      BY <1>1, <1>3, <1>4, <1>5, <3>1
  <2> QED
    BY <1>1, <2>1, <2>2, <2>3
<1>7. x = y
  BY <1>3, <1>4, <1>5, <1>6, Same
<1> QED
  BY <1>1, <1>2, <1>7 DEF x, y, c, t

LEMMA Taken ==
  ASSUME NEW S, NEW a \in Seq(S), NEW b \in Seq(S), a # <<>>
  PROVE  /\ Tail(a) \in Seq(S) /\ a \o b # <<>>
         /\ Head(a \o b) = Head(a) /\ Tail(a \o b) = Tail(a) \o b
<1> DEFINE t == Tail(a)
           y == a \o b
           x == t \o b
           z == Tail(y)
<1>1. /\ Len(a) \in Nat \ {0} /\ Len(b) \in Nat
      /\ t \in Seq(S) /\ Len(t) = Len(a) - 1 /\ \A i \in 1..Len(t) : t[i] = a[i + 1]
  OBVIOUS
<1>2. /\ y \in Seq(S) /\ Len(y) = Len(a) + Len(b)
      /\ \A i \in 1..Len(y) : y[i] = IF i <= Len(a) THEN a[i] ELSE b[i - Len(a)]
  OBVIOUS
<1> HIDE DEF t, y
<1>3. /\ x \in Seq(S) /\ Len(x) = Len(t) + Len(b)
      /\ \A i \in 1..Len(x) : x[i] = IF i <= Len(t) THEN t[i] ELSE b[i - Len(t)]
  BY <1>1, Concat
<1>4. Len(y) # 0 /\ y # <<>> /\ Head(y) = y[1] /\ 1 \in 1..Len(y) /\ 1 <= Len(a)
  BY <1>1, <1>2
<1>5. /\ z \in Seq(S) /\ Len(z) = Len(y) - 1 /\ \A i \in 1..Len(z) : z[i] = y[i + 1]
  BY <1>2, <1>4
<1> HIDE DEF x, z
<1>6. Len(x) = Len(z)
  BY <1>1, <1>2, <1>3, <1>5
<1>7. ASSUME NEW i \in 1..Len(x) PROVE x[i] = z[i]
  <2>1. i + 1 \in 1..Len(y) /\ z[i] = y[i + 1]
    BY <1>1, <1>2, <1>3, <1>5, <1>6
  <2>2. CASE i <= Len(t)
    <3>1. i \in 1..Len(t) /\ i + 1 <= Len(a)
      BY <1>1, <2>2
    <3> QED
      BY <1>1, <1>2, <1>3, <2>1, <3>1
  <2>3. CASE ~(i <= Len(t))
    <3>1. ~(i + 1 <= Len(a)) /\ (i + 1) - Len(a) = i - Len(t)
      BY <1>1, <2>3
    <3> QED
      BY <1>2, <1>3, <2>1, <2>3, <3>1
  <2> QED
    BY <2>2, <2>3
<1>8. x = z
  BY <1>3, <1>5, <1>6, <1>7, Same
<1>9. Head(y) = Head(a)
  BY <1>1, <1>2, <1>4
<1> QED
  BY <1>1, <1>4, <1>8, <1>9 DEF x, y, t, z

LEMMA CutShort ==
  ASSUME NEW S, NEW a \in Seq(S), NEW b \in Seq(S)
  PROVE  /\ a \o <<>> \in Seq(S) /\ a \o b \in Seq(S) /\ Len(a \o <<>>) <= Len(a \o b)
         /\ \A i \in 1..Len(a \o <<>>) : (a \o <<>>)[i] = (a \o b)[i]
<1> DEFINE x == a \o <<>>
           y == a \o b
<1>1. /\ Len(a) \in Nat /\ Len(b) \in Nat
      /\ x \in Seq(S) /\ Len(x) = Len(a)
      /\ \A i \in 1..Len(a) : x[i] = a[i]
  OBVIOUS
<1>2. /\ y \in Seq(S) /\ Len(y) = Len(a) + Len(b)
      /\ \A i \in 1..Len(y) : y[i] = IF i <= Len(a) THEN a[i] ELSE b[i - Len(a)]
  BY Concat
<1> HIDE DEF x, y
<1>3. \A i \in 1..Len(x) : i \in 1..Len(a) /\ i \in 1..Len(y) /\ i <= Len(a)
  BY <1>1, <1>2
<1> QED
  BY <1>1, <1>2, <1>3 DEF x, y

LEMMA FeedStep ==
  ASSUME IInv, NEW d \in Domains, Feed(d)
  PROVE  IInv'
<1>1. /\ unsent[d] # <<>>
      /\ pipe' = [pipe EXCEPT ![d] = Append(@, Head(unsent[d]))]
      /\ unsent' = [unsent EXCEPT ![d] = Tail(@)]
      /\ UNCHANGED <<now, main, samples, prev, stamp, todo, child>>
  BY DEF Feed, parentVars, childVars
<1>2. TypeInv /\ pipe[d] \in Queue /\ unsent[d] \in Queue
  BY DEF IInv, TypeInv
<1>3. /\ Append(pipe[d], Head(unsent[d])) \in Queue /\ Tail(unsent[d]) \in Queue
      /\ Append(pipe[d], Head(unsent[d])) \o Tail(unsent[d]) = pipe[d] \o unsent[d]
  BY <1>1, <1>2, Passed DEF Queue
<1>4. /\ pipe'[d] = Append(pipe[d], Head(unsent[d])) /\ unsent'[d] = Tail(unsent[d])
      /\ pipe' \in [Domains -> Queue] /\ unsent' \in [Domains -> Queue]
      /\ \A e \in Domains \ {d} : pipe'[e] = pipe[e] /\ unsent'[e] = unsent[e]
  BY <1>1, <1>2, <1>3 DEF TypeInv
<1>5. \A e \in Domains : InFlight(e)' = InFlight(e)
  <2>1. InFlight(d)' = InFlight(d)
    BY <1>3, <1>4 DEF InFlight
  <2> QED
    BY <1>4, <2>1 DEF InFlight
<1>6. TypeInv'
  BY <1>1, <1>2, <1>4 DEF TypeInv
<1>7. \A e \in Domains : DomainInv(e)'
  BY <1>1, <1>5 DEF IInv, DomainInv, LineInv
<1> QED
  BY <1>6, <1>7 DEF IInv

(* A process that is killed takes with it what its feeder had not sent. *)
LEMMA DieStep ==
  ASSUME IInv, NEW d \in Domains, Die(d)
  PROVE  IInv'
<1>1. /\ child[d] \notin Gone /\ child' = [child EXCEPT ![d] = "gone"]
      /\ unsent' = [unsent EXCEPT ![d] = <<>>]
      /\ UNCHANGED <<now, main, samples, prev, stamp, todo, pipe>>
  BY DEF Die, parentVars
<1>2. TypeInv /\ main # "new" /\ pipe[d] \in Queue /\ unsent[d] \in Queue
  BY <1>1 DEF IInv, TypeInv, Gone
<1>3. child'[d] = "gone" /\ pipe'[d] = pipe[d] /\ unsent'[d] = <<>>
  BY <1>1, <1>2 DEF TypeInv
<1>4. \A e \in Domains \ {d} :
        UNCHANGED <<pipe[e], unsent[e], samples[e], prev[e], stamp[e], todo[e], child[e]>>
  BY <1>1, <1>2 DEF TypeInv
<1>5. TypeInv'
  <2>1. <<>> \in Queue
    BY DEF Queue
  <2>2. unsent' \in [Domains -> Queue]
    BY <1>1, <1>2, <2>1 DEF TypeInv
  <2>3. DOMAIN child' = Domains /\ \A e \in Domains : child'[e] = "polling" => stamp'[e] >= 0
    BY <1>1, <1>2 DEF TypeInv
  <2> QED
    BY <1>1, <1>2, <2>2, <2>3 DEF TypeInv
<1>6. /\ InFlight(d)' = pipe[d] \o <<>> /\ InFlight(d) = pipe[d] \o unsent[d]
  BY <1>3 DEF InFlight
<1>7. PICK r : /\ r = InFlight(d)' /\ r \in Queue /\ InFlight(d) \in Queue
               /\ Len(r) <= Len(InFlight(d)) /\ \A i \in 1..Len(r) : r[i] = InFlight(d)[i]
  <2> DEFINE S == Message \cup {STOP}
             a == pipe[d]
             b == unsent[d]
  <2>1. a \in Seq(S) /\ b \in Seq(S)
    BY <1>2 DEF Queue
  <2> HIDE DEF S, a, b
  <2>2. /\ a \o <<>> \in Seq(S) /\ a \o b \in Seq(S) /\ Len(a \o <<>>) <= Len(a \o b)
        /\ \A i \in 1..Len(a \o <<>>) : (a \o <<>>)[i] = (a \o b)[i]
    BY <2>1, CutShort
  <2>3. InFlight(d)' = a \o <<>> /\ InFlight(d) = a \o b
    BY <1>6 DEF a, b
  <2> QED
    BY <2>2, <2>3 DEF Queue, S
<1>8. ASSUME NEW g \in Devices PROVE LineInv(d, g)'
  <2> DEFINE k == samples[d][g]
             q == InFlight(d)
  <2>1. /\ InOrder(k, q, g) /\ UpTo(k, q, g, stamp[d]) /\ k \in Line
        /\ (\E i \in 1..Len(todo[d]) : todo[d][i] = g) => UpTo(k, q, g, stamp[d] - 1)
    BY <1>2 DEF IInv, DomainInv, LineInv, TypeInv
  <2>3. /\ samples'[d][g] = k /\ stamp'[d] = stamp[d] /\ todo'[d] = todo[d]
        /\ r \in Queue /\ q \in Queue /\ Len(r) <= Len(q) /\ \A i \in 1..Len(r) : r[i] = q[i]
    BY <1>1, <1>7
  <2> HIDE DEF k, q
  <2>4. /\ InOrder(k, r, g) /\ UpTo(k, r, g, stamp[d])
        /\ (\E i \in 1..Len(todo[d]) : todo[d][i] = g) => UpTo(k, r, g, stamp[d] - 1)
    BY <2>1, <2>3, Lost
  <2> QED
    BY <1>3, <1>7, <2>3, <2>4 DEF LineInv
<1>9. DomainInv(d)'
  BY <1>1, <1>8 DEF IInv, DomainInv
<1> QED
  BY <1>4, <1>5, <1>9, Others

(* get_nowait(): what was first in flight is now the last that is kept.    *)
LEMMA DrainStep ==
  ASSUME IInv, NEW d \in Domains, Drain(d)
  PROVE  IInv'
<1> DEFINE m == Head(pipe[d])
<1>1. /\ pipe[d] # <<>> /\ pipe' = [pipe EXCEPT ![d] = Tail(@)]
      /\ samples' = IF m = STOP THEN samples
                     ELSE [samples EXCEPT ![d][m.gpu] = Extended(@, m)]
      /\ UNCHANGED <<now, main, prev, stamp, todo, child, unsent>>
  BY DEF Drain, childVars
<1>2. TypeInv /\ pipe[d] \in Queue /\ unsent[d] \in Queue /\ InFlight(d) \in Queue
  BY Flight DEF IInv, TypeInv
<1>3. /\ Tail(pipe[d]) \in Queue /\ InFlight(d) # <<>> /\ Head(InFlight(d)) = m
      /\ Tail(pipe[d]) \o unsent[d] = Tail(InFlight(d))
  BY <1>1, <1>2, Taken DEF Queue, InFlight
<1>4. m \in Message \cup {STOP}
  BY <1>1, <1>2 DEF Queue
<1>5. /\ pipe' \in [Domains -> Queue] /\ pipe'[d] = Tail(pipe[d])
      /\ \A e \in Domains \ {d} : pipe'[e] = pipe[e]
  BY <1>1, <1>2, <1>3 DEF TypeInv
<1>6. InFlight(d)' = Tail(InFlight(d))
  BY <1>1, <1>3, <1>5 DEF InFlight
<1>7. m # STOP => /\ m \in Message /\ m.gpu \in Devices /\ samples[d][m.gpu] \in Line
                  /\ Extended(samples[d][m.gpu], m) \in Line
  <2> SUFFICES ASSUME m # STOP
               PROVE  /\ m \in Message /\ m.gpu \in Devices /\ samples[d][m.gpu] \in Line
                      /\ Extended(samples[d][m.gpu], m) \in Line
    OBVIOUS
  <2>1. m \in Message /\ m.gpu \in Devices
    BY <1>4 DEF Message
  <2>2. samples[d][m.gpu] \in Line
    BY <1>2, <2>1 DEF TypeInv
  <2> QED
    BY <2>1, <2>2, Extension
<1> HIDE DEF m
<1>8. /\ samples' \in [Domains -> [Devices -> Line]]
      /\ \A e \in Domains \ {d} : samples'[e] = samples[e]
      /\ \A g \in Devices : samples'[d][g] = IF m # STOP /\ m.gpu = g
                                             THEN Extended(samples[d][g], m) ELSE samples[d][g]
  <2>1. CASE m = STOP
    BY <1>1, <1>2, <2>1 DEF TypeInv
  <2>2. CASE m # STOP
    BY <1>1, <1>2, <1>7, <2>2 DEF TypeInv
  <2> QED
    BY <2>1, <2>2
<1>9. TypeInv'
  BY <1>1, <1>2, <1>5, <1>8 DEF TypeInv
<1>10. ASSUME NEW g \in Devices PROVE LineInv(d, g)'
  <2> DEFINE k == samples[d][g]
             q == InFlight(d)
             r == Tail(q)
  <2>1. /\ InOrder(k, q, g) /\ UpTo(k, q, g, stamp[d])
        /\ (\E i \in 1..Len(todo[d]) : todo[d][i] = g) => UpTo(k, q, g, stamp[d] - 1)
        /\ child[d] # "gone" =>
             IF g \in DOMAIN prev[d] THEN Newest(k, q, g, prev[d][g]) ELSE Nothing(k, q, g)
    BY DEF IInv, DomainInv, LineInv
  <2>2. /\ InFlight(d)' = r /\ prev'[d] = prev[d] /\ stamp'[d] = stamp[d]
        /\ todo'[d] = todo[d] /\ child'[d] = child[d]
    BY <1>1, <1>6
  <2>3. k \in Line /\ q \in Queue /\ q # <<>> /\ Head(q) = m /\ STOP.gpu # g
    BY <1>2, <1>3, PollersAssumption DEF TypeInv, STOP, Devices
  <2>4. samples'[d][g] = IF m # STOP /\ m.gpu = g THEN Extended(k, m) ELSE k
    BY <1>8
  <2> HIDE DEF k, q
  <2>5. CASE m # STOP /\ m.gpu = g
    <3> DEFINE l == Extended(k, m)
    <3>1. /\ InOrder(l, r, g) /\ UpTo(l, r, g, stamp[d])
          /\ (\E i \in 1..Len(todo[d]) : todo[d][i] = g) => UpTo(l, r, g, stamp[d] - 1)
          /\ \A v : Newest(k, q, g, v) => Newest(l, r, g, v)
      BY <1>7, <2>1, <2>3, <2>5, TakeOwn
    <3>2. ~ Nothing(k, q, g)
      <4>1. 1 \in 1..Len(q) /\ q[1] = m
        BY <2>3 DEF Queue
      <4> QED
        BY <2>5, <4>1 DEF Nothing
    <3> HIDE DEF l, r
    <3>3. child[d] # "gone" =>
            IF g \in DOMAIN prev[d] THEN Newest(l, r, g, prev[d][g]) ELSE Nothing(l, r, g)
      BY <2>1, <3>1, <3>2
    <3>4. samples'[d][g] = l
      BY <2>4, <2>5 DEF l
    <3> QED
      BY <2>2, <3>1, <3>3, <3>4 DEF LineInv
  <2>6. CASE ~(m # STOP /\ m.gpu = g)
    <3>1. Head(q).gpu # g
      BY <2>3, <2>6
    <3>2. /\ InOrder(k, r, g) /\ UpTo(k, r, g, stamp[d])
          /\ (\E i \in 1..Len(todo[d]) : todo[d][i] = g) => UpTo(k, r, g, stamp[d] - 1)
          /\ child[d] # "gone" =>
               IF g \in DOMAIN prev[d] THEN Newest(k, r, g, prev[d][g]) ELSE Nothing(k, r, g)
      BY <2>1, <2>3, <3>1, TakeOther
    <3> HIDE DEF r
    <3> QED
      BY <2>2, <2>4, <2>6, <3>2 DEF LineInv
  <2> QED
    BY <2>5, <2>6
<1>11. DomainInv(d)'
  BY <1>1, <1>10 DEF IInv, DomainInv
<1>12. \A e \in Domains \ {d} :
         UNCHANGED <<pipe[e], unsent[e], samples[e], prev[e], stamp[e], todo[e], child[e]>>
  BY <1>1, <1>5, <1>8
<1> QED
  BY <1>9, <1>11, <1>12, Others

(* A reading that changed: it is the newest of the timeline of its GPU, and *)
(* later than all of it, because a GPU is read once in a pass.              *)
LEMMA ReportStep ==
  ASSUME IInv, NEW d \in Domains, child[d] = "polling", todo[d] # <<>>,
         NEW r \in Readings, ~ Known(d, Head(todo[d]), r), Put(d, Head(todo[d]), r),
         prev' = [prev EXCEPT ![d] =
           [h \in DOMAIN @ \cup {Head(todo[d])} |-> IF h = Head(todo[d]) THEN r ELSE @[h]]],
         todo' = [todo EXCEPT ![d] = Tail(@)],
         UNCHANGED <<now, main, samples, pipe, stamp, child>>
  PROVE  IInv'
<1> DEFINE g == Head(todo[d])
           m == [gpu |-> g, at |-> stamp[d], value |-> r]
<1>1. TypeInv
  BY DEF IInv
<1>2. /\ todo[d] \in Seq(Devices) /\ g \in Devices /\ Len(todo[d]) \in Nat \ {0} /\ todo[d][1] = g
      /\ \A i, j \in 1..Len(todo[d]) : todo[d][i] = todo[d][j] => i = j
      /\ Tail(todo[d]) \in Seq(Devices) /\ Len(Tail(todo[d])) = Len(todo[d]) - 1
      /\ \A i \in 1..Len(Tail(todo[d])) : Tail(todo[d])[i] = todo[d][i + 1]
  <2>1. /\ todo[d] \in Seq(Devices)
        /\ \A i, j \in 1..Len(todo[d]) : todo[d][i] = todo[d][j] => i = j
    BY <1>1 DEF TypeInv
  <2> QED
    BY <2>1
<1>3. m \in Message /\ m.gpu = g /\ m.at = stamp[d] /\ m.value = r
  <2>1. stamp[d] \in Int /\ stamp[d] >= 0
    BY <1>1 DEF TypeInv
  <2> QED
    BY <1>2, <2>1 DEF Message
<1>4. pipe' = pipe /\ unsent' = [unsent EXCEPT ![d] = Append(@, m)]
  BY DEF Put
<1> HIDE DEF g, m
<1>5. /\ InFlight(d)' = Append(InFlight(d), m)
      /\ pipe' \in [Domains -> Queue] /\ unsent' \in [Domains -> Queue]
      /\ \A e \in Domains \ {d} : UNCHANGED <<pipe[e], unsent[e]>>
  BY <1>1, <1>3, <1>4, Puts
<1>6. /\ todo' \in [Domains -> Seq(Devices)] /\ todo'[d] = Tail(todo[d])
      /\ \A e \in Domains \ {d} : todo'[e] = todo[e]
  BY <1>1, <1>2 DEF TypeInv
<1>7. /\ DOMAIN prev' = Domains /\ \A e \in Domains \ {d} : prev'[e] = prev[e]
      /\ DOMAIN prev'[d] = DOMAIN prev[d] \cup {g}
      /\ \A h \in DOMAIN prev'[d] : prev'[d][h] = IF h = g THEN r ELSE prev[d][h]
  BY <1>1 DEF TypeInv, g
<1>8. ASSUME NEW i \in 1..Len(todo'[d])
      PROVE  i + 1 \in 1..Len(todo[d]) /\ i + 1 # 1 /\ todo'[d][i] = todo[d][i + 1] /\ todo'[d][i] # g
  <2>1. i + 1 \in 1..Len(todo[d]) /\ i + 1 # 1 /\ todo'[d][i] = todo[d][i + 1] /\ 1 \in 1..Len(todo[d])
    BY <1>2, <1>6
  <2> QED
    BY <1>2, <2>1
<1>9. \A i, j \in 1..Len(todo'[d]) : todo'[d][i] = todo'[d][j] => i = j
  <2> SUFFICES ASSUME NEW i \in 1..Len(todo'[d]), NEW j \in 1..Len(todo'[d]),
                      todo'[d][i] = todo'[d][j]
               PROVE  i = j
    OBVIOUS
  <2>1. i + 1 = j + 1
    BY <1>2, <1>8
  <2> QED
    BY <2>1
<1>10. \A e \in Domains \ {d} :
         UNCHANGED <<pipe[e], unsent[e], samples[e], prev[e], stamp[e], todo[e], child[e]>>
  BY <1>5, <1>6, <1>7
<1>11. TypeInv'
  <2>1. ASSUME NEW e \in Domains
        PROVE  \A i, j \in 1..Len(todo'[e]) : todo'[e][i] = todo'[e][j] => i = j
    <3>1. CASE e = d
      BY <1>9, <3>1
    <3>2. CASE e # d
      <4>1. todo'[e] = todo[e]
        BY <1>6, <3>2
      <4> QED
        BY <1>1, <4>1 DEF TypeInv
    <3> QED
      BY <3>1, <3>2
  <2> QED
    BY <1>1, <1>5, <1>6, <1>7, <2>1 DEF TypeInv
<1>12. ASSUME NEW h \in Devices PROVE LineInv(d, h)'
  <2> DEFINE k == samples[d][h]
             q == InFlight(d)
             l == Append(q, m)
  <2>1. /\ InOrder(k, q, h) /\ UpTo(k, q, h, stamp[d])
        /\ (\E i \in 1..Len(todo[d]) : todo[d][i] = h) => UpTo(k, q, h, stamp[d] - 1)
        /\ IF h \in DOMAIN prev[d] THEN Newest(k, q, h, prev[d][h]) ELSE Nothing(k, q, h)
    BY DEF IInv, DomainInv, LineInv
  <2>2. k \in Line /\ q \in Queue
    BY <1>1, Flight DEF TypeInv
  <2>3. samples'[d][h] = k /\ InFlight(d)' = l /\ stamp'[d] = stamp[d]
    BY <1>5
  <2> HIDE DEF k, q
  <2>4. CASE h = g
    <3>1. UpTo(k, q, h, m.at - 1)
      BY <1>2, <1>3, <2>1, <2>4
    <3>2. Nothing(k, q, h) \/ \E v : v # m.value /\ Newest(k, q, h, v)
      BY <1>3, <2>1, <2>4 DEF Known, g
    <3>3. InOrder(k, l, h) /\ UpTo(k, l, h, m.at) /\ Newest(k, l, h, m.value)
      BY <1>3, <2>1, <2>2, <2>4, <3>1, <3>2, PutOwn
    <3> HIDE DEF l
    <3>4. ~ \E i \in 1..Len(todo'[d]) : todo'[d][i] = h
      BY <1>8, <2>4
    <3>5. h \in DOMAIN prev'[d] /\ prev'[d][h] = r
      BY <1>7, <2>4
    <3> QED
      BY <1>3, <2>3, <3>3, <3>4, <3>5 DEF LineInv
  <2>5. CASE h # g
    <3>1. /\ InOrder(k, l, h) /\ UpTo(k, l, h, stamp[d])
          /\ (\E i \in 1..Len(todo[d]) : todo[d][i] = h) => UpTo(k, l, h, stamp[d] - 1)
          /\ IF h \in DOMAIN prev[d] THEN Newest(k, l, h, prev[d][h]) ELSE Nothing(k, l, h)
      BY <1>3, <2>1, <2>2, <2>5, PutOther
    <3> HIDE DEF l
    <3>2. (\E i \in 1..Len(todo'[d]) : todo'[d][i] = h) => \E i \in 1..Len(todo[d]) : todo[d][i] = h
      BY <1>8
    <3>3. /\ h \in DOMAIN prev'[d] <=> h \in DOMAIN prev[d]
          /\ h \in DOMAIN prev[d] => prev'[d][h] = prev[d][h]
      BY <1>7, <2>5
    <3> QED
      BY <2>3, <3>1, <3>2, <3>3 DEF LineInv
  <2> QED
    BY <2>4, <2>5
<1>13. DomainInv(d)'
  BY <1>2, <1>7, <1>12 DEF IInv, DomainInv
<1> QED
  BY <1>10, <1>11, <1>13, Others

LEMMA PollStep ==
  ASSUME IInv, NEW d \in Domains, PollPower(d) \/ PollTemperature(d)
  PROVE  IInv'
<1>1. /\ child[d] = "polling" /\ todo[d] # <<>>
      /\ UNCHANGED <<now, main, samples, pipe, stamp, child>>
  BY DEF PollPower, PollTemperature, parentVars
<1>2. CASE UNCHANGED <<prev, unsent>>
  <2>1. todo' = [todo EXCEPT ![d] = Tail(@)] \/ todo' = [todo EXCEPT ![d] = <<>>]
    BY DEF PollPower, PollTemperature
  <2> QED
    BY <1>1, <1>2, <2>1, SkipStep
<1>3. CASE ~ UNCHANGED <<prev, unsent>>
  <2>1. PICK r \in Readings : /\ Report(d, Head(todo[d]), r)
                              /\ todo' = [todo EXCEPT ![d] = Tail(@)]
    BY <1>3 DEF PollPower, PollTemperature
  <2>2. /\ ~ Known(d, Head(todo[d]), r) /\ Put(d, Head(todo[d]), r)
        /\ prev' = [prev EXCEPT ![d] =
             [h \in DOMAIN @ \cup {Head(todo[d])} |-> IF h = Head(todo[d]) THEN r ELSE @[h]]]
    BY <1>3, <2>1 DEF Report
  <2> QED
    BY <1>1, <2>1, <2>2, ReportStep
<1> QED
  BY <1>2, <1>3

LEMMA StepInv == IInv /\ [Next]_vars => IInv'
<1> SUFFICES ASSUME IInv, [Next]_vars PROVE IInv'
  OBVIOUS
<1>1. CASE UNCHANGED vars
  <2>1. /\ UNCHANGED <<pipe, unsent, samples, prev, stamp, todo, now, main, child>>
        /\ now \in Nat /\ DOMAIN child = Domains
    BY <1>1 DEF vars, parentVars, childVars, IInv, TypeInv
  <2> QED
    BY <2>1, Quiet
<1>2. CASE \/ Tick \/ NewPowerMonitor \/ NewTemperatureMonitor \/ AllReady
            \/ PowerReadyTimeout \/ TemperatureReadyTimeout \/ StopPower \/ StopTemperature \/ Stopped
            \/ \E d \in Domains : Joined(d) \/ JoinTimeout(d)
  BY <1>2, ParentQuiet
<1>3. ASSUME NEW d \in Domains, DrainPower(d) \/ DrainTemperature(d) PROVE IInv'
  BY <1>3, DrainStep DEF DrainPower, DrainTemperature
<1>4. ASSUME NEW d \in Domains, SetReady(d) \/ EndPass(d) \/ Exit(d) PROVE IInv'
  BY <1>4, ChildQuiet
<1>5. ASSUME NEW d \in Domains, SeesStop(d) \/ PollFails(d) PROVE IInv'
  BY <1>5, FinishStep DEF SeesStop, PollFails
<1>6. ASSUME NEW d \in Domains, PollPower(d) \/ PollTemperature(d) PROVE IInv'
  BY <1>6, PollStep
<1>7. ASSUME NEW d \in Domains, BeginPass(d) PROVE IInv'
  BY <1>7, BeginPassStep
<1>8. ASSUME NEW d \in Domains, Feed(d) PROVE IInv'
  BY <1>8, FeedStep
<1>9. ASSUME NEW d \in Domains, Die(d) PROVE IInv'
  BY <1>9, DieStep
<1> QED
  BY <1>1, <1>2, <1>3, <1>4, <1>5, <1>6, <1>7, <1>8, <1>9 DEF Next, ParentStep, ChildStep

(* From the child's queue through the pipe to the deque a GPU's samples    *)
(* are one timeline, none is later than the pass under way, and the newest *)
(* is what a living child remembers.  (_domain_polling_process,            *)
(* _temperature_polling_process, _process_queue_data.)                     *)
THEOREM Invariant == Spec => []IInv
  BY InitInv, StepInv, PTL DEF Spec

-----------------------------------------------------------------------------
(* A set of numbers has a least one, from which induction follows.         *)
LEMMA LeastOf ==
  ASSUME NEW S \in SUBSET Nat, S # {}
  PROVE  \E n \in S : \A m \in S : n <= m
<1> DEFINE R == OpToRel(<, Nat)
<1>1. \A m, n \in Nat : m < n => <<m, n>> \in R
  BY DEF OpToRel
<1>2. IsWellFoundedOn(R, Nat)
  BY NatLessThanWellFounded
<1> HIDE DEF R
<1>3. PICK n \in S : \A m \in S : <<m, n>> \notin R
  BY <1>2, WFMin
<1>4. \A m \in S : ~(m < n)
  BY <1>1, <1>3
<1> QED
  BY <1>4

LEMMA Induct ==
  ASSUME NEW S, 0 \in S, \A n \in Nat : n \in S => n + 1 \in S
  PROVE  Nat \subseteq S
<1> SUFFICES ASSUME Nat \ S # {} PROVE FALSE
  OBVIOUS
<1>1. PICK n \in Nat \ S : \A m \in Nat \ S : n <= m
  BY LeastOf
<1> QED
  BY <1>1

(* What holds of the empty set, and of a set with one element more, holds  *)
(* of a finite set.                                                        *)
LEMMA FiniteInduct ==
  ASSUME NEW S, IsFiniteSet(S), NEW G, {} \in G,
         \A s \in SUBSET S, x \in S : s \in G => s \cup {x} \in G
  PROVE  S \in G
<1> DEFINE Few(n) == {s \in SUBSET S : Cardinality(s) <= n}
           Good == {n \in Nat : Few(n) \subseteq G}
<1>1. \A s \in SUBSET S : IsFiniteSet(s) /\ Cardinality(s) \in Nat
  BY FS_Subset, FS_CardinalityType
<1>2. 0 \in Good
  <2>1. ASSUME NEW s \in Few(0) PROVE s = {}
    <3>1. IsFiniteSet(s) /\ Cardinality(s) = 0
      BY <1>1
    <3> QED BY <3>1, FS_EmptySet
  <2> QED
    BY <2>1
<1>3. ASSUME NEW n \in Nat, n \in Good PROVE n + 1 \in Good
  <2>1. ASSUME NEW s \in Few(n + 1), s # {} PROVE s \in G
    <3>1. PICK x : x \in s
      BY <2>1
    <3>2. Cardinality(s \ {x}) = Cardinality(s) - 1 /\ Cardinality(s) <= n + 1
      BY <1>1, <3>1, FS_RemoveElement
    <3>3. s \ {x} \in Few(n)
      BY <1>1, <3>2
    <3>4. s \ {x} \in G /\ s = (s \ {x}) \cup {x}
      BY <1>3, <3>1, <3>3
    <3> QED
      BY <3>1, <3>4
  <2>2. ASSUME NEW s \in Few(n + 1) PROVE s \in G
    BY <2>1, <2>2
  <2> HIDE DEF Few
  <2> QED
    BY <2>2, <1>3
<1>4. Nat \subseteq Good
  <2> HIDE DEF Good
  <2> QED
    BY <1>2, <1>3, Induct
<1> QED
  BY <1>1, <1>4

LEMMA Greatest ==
  ASSUME NEW S, IsFiniteSet(S), S \subseteq Int, S # {}
  PROVE  Max(S) \in S /\ \A x \in S : x <= Max(S)
<1> DEFINE G == {T \in SUBSET S : T = {} \/ \E n \in T : \A m \in T : m <= n}
<1>1. ASSUME NEW s \in SUBSET S, NEW x \in S, s \in G PROVE s \cup {x} \in G
  <2> SUFFICES \E n \in s \cup {x} : \A m \in s \cup {x} : m <= n
    OBVIOUS
  <2>1. CASE s = {}
    BY <2>1
  <2>2. CASE s # {}
    <3>1. PICK n \in s : \A m \in s : m <= n
      BY <1>1, <2>2
    <3>2. x \in Int /\ s \subseteq Int
      OBVIOUS
    <3>3. CASE x <= n
      BY <3>1, <3>3
    <3>4. CASE ~(x <= n)
      BY <3>1, <3>2, <3>4
    <3> QED
      BY <3>3, <3>4
  <2> QED
    BY <2>1, <2>2
<1>2. {} \in G
  OBVIOUS
<1>3. S \in G
  <2> HIDE DEF G
  <2> QED
    BY <1>1, <1>2, FiniteInduct
<1>4. \E n \in S : \A m \in S : n >= m
  BY <1>3
<1> QED
  BY <1>4 DEF Max

-----------------------------------------------------------------------------
(* What is read off the timelines.                                         *)

LEMMA SentOf ==
  ASSUME TypeInv, NEW d \in Domains, NEW g \in Devices
  PROVE  /\ Len(InFlight(d)) \in Nat
         /\ Sent(d, g) = {i \in 1..Len(InFlight(d)) : InFlight(d)[i].gpu = g}
         /\ \A T \in SUBSET Sent(d, g) : T # {} => Max(T) \in T /\ \A i \in T : i <= Max(T)
<1>1. Len(InFlight(d)) \in Nat /\ DOMAIN InFlight(d) = 1..Len(InFlight(d))
  BY Flight DEF Queue
<1>2. Sent(d, g) = {i \in 1..Len(InFlight(d)) : InFlight(d)[i].gpu = g}
  BY <1>1 DEF Sent
<1>3. ASSUME NEW T \in SUBSET Sent(d, g), T # {} PROVE Max(T) \in T /\ \A i \in T : i <= Max(T)
  <2>1. T \in SUBSET (1..Len(InFlight(d))) /\ T \subseteq Int
    BY <1>2
  <2>2. IsFiniteSet(1..Len(InFlight(d)))
    BY <1>1, FS_Interval
  <2>3. IsFiniteSet(T)
    BY <2>1, <2>2, FS_Subset
  <2> QED
    BY <1>3, <2>1, <2>3, Greatest
<1> QED
  BY <1>1, <1>2, <1>3

LEMMA InOrderIsDedup ==
  ASSUME IInv, NEW d \in Domains, NEW g \in Devices
  PROVE  LET kept == samples[d][g]
             msgs == InFlight(d)
         IN /\ \A i \in 1..(Len(kept) - 1) : Follows(kept[i], kept[i + 1])
            /\ \A j \in Sent(d, g) :
                 LET before == {i \in Sent(d, g) : i < j} IN
                 IF before # {} THEN Follows(msgs[Max(before)], msgs[j])
                 ELSE kept # <<>> => Follows(kept[Len(kept)], msgs[j])
<1> DEFINE kept == samples[d][g]
           msgs == InFlight(d)
<1>1. KeptInOrder(kept) /\ SentInOrder(msgs, g) /\ Joins(kept, msgs, g) /\ kept \in Line /\ TypeInv
  BY DEF IInv, DomainInv, LineInv, InOrder, TypeInv
<1>2. /\ Len(msgs) \in Nat
      /\ Sent(d, g) = {i \in 1..Len(msgs) : msgs[i].gpu = g}
      /\ \A T \in SUBSET Sent(d, g) : T # {} => Max(T) \in T /\ \A i \in T : i <= Max(T)
  BY <1>1, SentOf
<1>3. Len(kept) \in Nat /\ (kept # <<>> => Len(kept) \in 1..Len(kept))
  BY <1>1 DEF Line
<1> HIDE DEF kept, msgs
<1>4. ASSUME NEW i \in 1..(Len(kept) - 1) PROVE Follows(kept[i], kept[i + 1])
  <2>1. i \in 1..Len(kept) /\ i + 1 \in 1..Len(kept) /\ i < i + 1
    BY <1>3
  <2> QED
    BY <1>1, <2>1 DEF KeptInOrder, Follows
<1>5. ASSUME NEW j \in Sent(d, g)
      PROVE  LET before == {i \in Sent(d, g) : i < j} IN
             IF before # {} THEN Follows(msgs[Max(before)], msgs[j])
             ELSE kept # <<>> => Follows(kept[Len(kept)], msgs[j])
  <2> DEFINE before == {i \in Sent(d, g) : i < j}
  <2>1. CASE before # {}
    <3>1. Max(before) \in before /\ \A i \in before : i <= Max(before)
      BY <1>2, <2>1
    <3>2. /\ Max(before) \in 1..Len(msgs) /\ j \in 1..Len(msgs) /\ Max(before) < j
          /\ msgs[Max(before)].gpu = g /\ msgs[j].gpu = g
      BY <1>2, <3>1
    <3>3. ASSUME NEW n \in 1..Len(msgs), Max(before) < n, n < j PROVE msgs[n].gpu # g
      <4>1. msgs[n].gpu = g => n <= Max(before)
        BY <1>2, <3>1, <3>3
      <4> QED
        BY <1>2, <3>2, <3>3, <4>1
    <3> HIDE DEF before
    <3>4. Neighbours(msgs, g, Max(before), j)
      BY <3>2, <3>3 DEF Neighbours
    <3>5. Follows(msgs[Max(before)], msgs[j])
      BY <1>1, <3>2, <3>4 DEF SentInOrder, Follows
    <3> QED
      BY <2>1, <3>5 DEF before
  <2>2. CASE before = {}
    <3>1. j \in 1..Len(msgs) /\ msgs[j].gpu = g
      BY <1>2
    <3>2. FirstOf(msgs, g, j)
      BY <1>2, <2>2, <3>1 DEF FirstOf
    <3>3. kept # <<>> => Follows(kept[Len(kept)], msgs[j])
      BY <1>1, <1>3, <3>1, <3>2 DEF Joins, Follows
    <3> QED
      BY <2>2, <3>3
  <2> QED
    BY <2>1, <2>2
<1> QED
  BY <1>4, <1>5 DEF kept, msgs

(* What a monitor has kept, what is in flight and what is still with the   *)
(* child is one timeline of a GPU: times increase and neighbours differ.   *)
THEOREM OneTimeline == Spec => []DedupTimeline
<1>1. IInv => DedupTimeline
  BY InOrderIsDedup DEF DedupTimeline
<1> QED
  BY <1>1, Invariant, PTL

(* While a child lives, the newest of its timeline is the reading it last  *)
(* took: no reading that get_power() needs is suppressed, pushed out or    *)
(* overtaken.                                                              *)
THEOREM NothingNewIsLost == Spec => []LatestIsKept
<1>1. IInv => LatestIsKept
  <2> SUFFICES ASSUME IInv, NEW d \in Domains, child[d] \notin Gone, NEW g \in DOMAIN prev[d]
               PROVE  IF Sent(d, g) # {} THEN InFlight(d)[Max(Sent(d, g))].value = prev[d][g]
                      ELSE /\ samples[d][g] # <<>>
                           /\ samples[d][g][Len(samples[d][g])].value = prev[d][g]
    BY DEF LatestIsKept
  <2> DEFINE k == samples[d][g]
             q == InFlight(d)
  <2>1. g \in Devices /\ TypeInv /\ Newest(k, q, g, prev[d][g])
    BY DEF IInv, DomainInv, LineInv, Gone
  <2>2. /\ Len(q) \in Nat /\ Sent(d, g) = {i \in 1..Len(q) : q[i].gpu = g}
        /\ Sent(d, g) # {} => Max(Sent(d, g)) \in Sent(d, g) /\ \A i \in Sent(d, g) : i <= Max(Sent(d, g))
    BY <2>1, SentOf
  <2> HIDE DEF k, q
  <2>3. CASE \E j \in 1..Len(q) : LastOf(q, g, j) /\ q[j].value = prev[d][g]
    <3>1. PICK j \in 1..Len(q) : LastOf(q, g, j) /\ q[j].value = prev[d][g]
      BY <2>3
    <3>2. j \in Sent(d, g) /\ \A n \in Sent(d, g) : ~(j < n)
      BY <2>2, <3>1 DEF LastOf
    <3>3. Max(Sent(d, g)) = j
      BY <2>2, <3>2
    <3> QED
      BY <3>1, <3>2, <3>3 DEF q
  <2>4. CASE ~ \E j \in 1..Len(q) : LastOf(q, g, j) /\ q[j].value = prev[d][g]
    BY <2>1, <2>2, <2>4 DEF Newest, k
  <2> QED
    BY <2>3, <2>4
<1> QED
  BY <1>1, Invariant, PTL

(* bisect_left over ordered times.                                         *)
LEMMA Bisect ==
  ASSUME NEW k \in Line, KeptInOrder(k), NEW t \in Int
  PROVE  \E n \in 0..Len(k) : BisectLeft(k, t) = n + 1
                              /\ \A i \in 1..Len(k) : k[i].at < t <=> i <= n
<1> DEFINE B == {i \in DOMAIN k : k[i].at < t}
<1>1. /\ Len(k) \in Nat /\ DOMAIN k = 1..Len(k) /\ \A i \in 1..Len(k) : k[i].at \in Int
  BY Lines DEF Line
<1>2. B \in SUBSET (1..Len(k)) /\ B \subseteq Int /\ \A i \in 1..Len(k) : i \in B <=> k[i].at < t
  BY <1>1
<1>3. BisectLeft(k, t) = 1 + Cardinality(B)
  BY DEF BisectLeft
<1> HIDE DEF B
<1>4. CASE B = {}
  BY <1>1, <1>2, <1>3, <1>4, FS_EmptySet
<1>5. CASE B # {}
  <2>1. IsFiniteSet(B)
    <3>1. IsFiniteSet(1..Len(k))
      BY <1>1, FS_Interval
    <3> QED
      BY <1>2, <3>1, FS_Subset
  <2>2. PICK n \in B : \A i \in B : i <= n
    BY <1>2, <1>5, <2>1, Greatest
  <2>3. ASSUME NEW i \in 1..n PROVE i \in B
    <3>1. i \in 1..Len(k) /\ n \in 1..Len(k)
      BY <1>1, <1>2
    <3>2. k[i].at <= k[n].at
      BY <1>1, <3>1 DEF KeptInOrder
    <3> QED
      BY <1>1, <1>2, <3>1, <3>2
  <2>4. B = 1..n
    <3>1. n \in 1..Len(k) /\ \A i \in B : i \in 1..Len(k) /\ i <= n
      BY <1>2, <2>2
    <3>2. \A i \in B : i \in 1..n
      BY <1>1, <3>1
    <3> QED
      BY <2>3, <3>2
  <2>5. Cardinality(B) = n /\ n \in 0..Len(k)
    BY <1>1, <1>2, <2>4, FS_Interval
  <2>6. \A i \in 1..Len(k) : k[i].at < t <=> i <= n
    BY <1>2, <2>4
  <2> QED
    BY <1>3, <2>5, <2>6
<1> QED
  BY <1>4, <1>5

LEMMA Nearest ==
  ASSUME NEW k \in Line, KeptInOrder(k), k # <<>>, NEW t \in Int, NEW i \in 1..Len(k)
  PROVE  LET c == ClosestSample(k, t) IN
         (IF c.at > t THEN c.at - t ELSE t - c.at)
           <= (IF k[i].at > t THEN k[i].at - t ELSE t - k[i].at)
<1> DEFINE c == ClosestSample(k, t)
           far(m) == IF m.at > t THEN m.at - t ELSE t - m.at
<1>1. Len(k) \in Nat \ {0} /\ \A j \in 1..Len(k) : k[j].at \in Int
  BY Lines DEF Line
<1>2. PICK n \in 0..Len(k) : BisectLeft(k, t) = n + 1 /\ \A j \in 1..Len(k) : k[j].at < t <=> j <= n
  BY Bisect
<1>3. c = IF n = 0 THEN k[1] ELSE IF n = Len(k) THEN k[n]
          ELSE IF t - k[n].at <= k[n + 1].at - t THEN k[n] ELSE k[n + 1]
  BY <1>1, <1>2 DEF ClosestSample, Nearer
<1> HIDE DEF c
<1>4. \A j, l \in 1..Len(k) : j <= l => k[j].at <= k[l].at
  BY <1>1 DEF KeptInOrder
<1>5. n # 0 => n \in 1..Len(k) /\ k[n].at < t /\ k[n].at \in Int
  BY <1>1, <1>2
<1>6. n # Len(k) => n + 1 \in 1..Len(k) /\ k[n + 1].at >= t /\ k[n + 1].at \in Int
  <2>1. n # Len(k) => n + 1 \in 1..Len(k) /\ ~(n + 1 <= n)
    BY <1>1
  <2> QED
    BY <1>1, <1>2, <2>1
<1>7. ASSUME i <= n PROVE far(c) <= far(k[i])
  <2>1. k[i].at <= k[n].at /\ n # 0 /\ k[i].at < t
    BY <1>2, <1>4, <1>5, <1>7
  <2>2. k[i].at \in Int
    BY <1>1
  <2>3. CASE c = k[n]
    BY <1>5, <2>1, <2>2, <2>3
  <2>4. CASE n # Len(k) /\ c = k[n + 1] /\ ~(t - k[n].at <= k[n + 1].at - t)
    BY SMTT(30), <1>5, <1>6, <2>1, <2>2, <2>4
  <2> QED
    BY <1>3, <2>1, <2>3, <2>4
<1>8. ASSUME ~(i <= n) PROVE far(c) <= far(k[i])
  <2>0. n # Len(k) /\ n + 1 \in 1..Len(k) /\ n + 1 <= i
    BY <1>1, <1>8
  <2>1. k[n + 1].at <= k[i].at /\ n # Len(k) /\ k[i].at >= t
    <3>1. k[n + 1].at <= k[i].at
      BY <1>4, <2>0
    <3>2. k[n + 1].at \in Int /\ k[i].at \in Int /\ k[n + 1].at >= t
      BY <1>1, <1>6, <2>0
    <3> QED
      BY <2>0, <3>1, <3>2
  <2>2. k[i].at \in Int
    BY <1>1
  <2>3. CASE c = k[n + 1]
    BY <1>6, <2>1, <2>2, <2>3
  <2>4. CASE n # 0 /\ c = k[n] /\ t - k[n].at <= k[n + 1].at - t
    BY SMTT(30), <1>5, <1>6, <2>1, <2>2, <2>4
  <2> QED
    BY <1>3, <2>1, <2>3, <2>4
<1>9. far(c) <= far(k[i])
  BY <1>7, <1>8
<1> QED
  BY <1>9 DEF c

(* get_power(t) and get_temperature(t) answer with a sample than which no  *)
(* other is nearer, because what they bisect is in order.                  *)
THEOREM AnswersAreNearest == Spec => []ClosestIsNearest
<1>1. IInv => ClosestIsNearest
  <2> SUFFICES ASSUME IInv, NEW d \in Domains, NEW g \in Devices, NEW t \in 0..MaxTime,
                      samples[d][g] # <<>>, NEW i \in DOMAIN samples[d][g]
               PROVE  LET far(m) == IF m.at > t THEN m.at - t ELSE t - m.at IN
                      far(ClosestSample(samples[d][g], t)) <= far(samples[d][g][i])
    BY DEF ClosestIsNearest
  <2>1. samples[d][g] \in Line /\ KeptInOrder(samples[d][g])
    BY DEF IInv, TypeInv, DomainInv, LineInv, InOrder
  <2>2. t \in Int /\ i \in 1..Len(samples[d][g])
    BY <2>1, PollersAssumption DEF Line
  <2> QED
    BY <2>1, <2>2, Nearest
<1> QED
  BY <1>1, Invariant, PTL

(* f sums w over the subsets of L, by the recursion MapThenSumSet chooses  *)
(* a solution of; and b grows by no less than what a member adds.          *)
IsSum(f, w, L) ==
  f = [s \in SUBSET L |-> IF s = {} THEN 0
         ELSE w[CHOOSE x \in s : TRUE] + f[s \ {CHOOSE x \in s : TRUE}]]
Bounds(b, w, L) ==
  b \in [SUBSET L -> Nat] /\ \A s \in SUBSET L : \A x \in s : w[x] + b[s \ {x}] <= b[s]

LEMMA SumExists ==
  ASSUME NEW L, IsFiniteSet(L), NEW w
  PROVE  \E f : IsSum(f, w, L)
<1> DEFINE Pick(s) == CHOOSE x \in s : TRUE
           Sums(f, T) == [s \in T |-> IF s = {} THEN 0 ELSE w[Pick(s)] + f[s \ {Pick(s)}]]
           Few(n) == {s \in SUBSET L : Cardinality(s) <= n}
           Fits(n) == \E f : f = Sums(f, Few(n))
           N == Cardinality(L)
<1>1. /\ N \in Nat /\ Few(N) = SUBSET L /\ Few(0) = {{}}
      /\ \A s \in SUBSET L : IsFiniteSet(s) /\ Cardinality(s) \in Nat
  BY FS_CardinalityType, FS_Subset, FS_EmptySet
<1>2. ASSUME NEW n \in Nat, NEW s \in Few(n + 1), s # {}
      PROVE  Pick(s) \in s /\ s \ {Pick(s)} \in Few(n)
  <2>1. Pick(s) \in s
    BY <1>2
  <2>2. s \in SUBSET L /\ Cardinality(s) <= n + 1 /\ Cardinality(s) \in Nat /\ IsFiniteSet(s)
    BY <1>1
  <2> HIDE DEF Pick, Few
  <2>3. Cardinality(s \ {Pick(s)}) = Cardinality(s) - 1
    BY <2>1, <2>2, FS_RemoveElement
  <2> QED
    BY <2>1, <2>2, <2>3 DEF Few
<1> HIDE DEF N, Pick
<1>3. Fits(0)
  <2> DEFINE f == [s \in {{}} |-> 0]
  <2>1. f = Sums(f, Few(0))
    BY <1>1
  <2> QED
    BY <2>1
<1>4. ASSUME NEW n \in Nat, Fits(n) PROVE Fits(n + 1)
  <2>1. PICK f : f = Sums(f, Few(n))
    BY <1>4
  <2> DEFINE h == Sums(f, Few(n + 1))
  <2>2. \A s \in Few(n) : s \in Few(n + 1)
    BY <1>1
  <2>3. \A s \in Few(n) : h[s] = f[s]
    BY <2>1, <2>2
  <2>4. h = Sums(h, Few(n + 1))
    BY <2>3, <1>2
  <2> QED
    BY <2>4
<1>5. Fits(N)
  <2> DEFINE Good == {n \in Nat : Fits(n)}
  <2> HIDE DEF Fits
  <2>1. 0 \in Good /\ \A n \in Nat : n \in Good => n + 1 \in Good
    BY <1>3, <1>4
  <2>2. Nat \subseteq Good
    <3> HIDE DEF Good
    <3> QED
      BY <2>1, Induct
  <2> QED
    BY <1>1, <2>2
<1>6. PICK f : f = Sums(f, SUBSET L)
  BY <1>1, <1>5
<1> QED
  BY <1>6 DEF Pick, IsSum

(* It is at most b when no summand is more than it adds to b.              *)
LEMMA SumWithin ==
  ASSUME NEW L, IsFiniteSet(L), NEW w \in [L -> Nat], NEW b, Bounds(b, w, L),
         NEW f, IsSum(f, w, L)
  PROVE  f[L] \in Nat /\ f[L] <= b[L]
<1> DEFINE Pick(s) == CHOOSE x \in s : TRUE
           Within(n) == \A s \in SUBSET L : Cardinality(s) <= n => f[s] \in Nat /\ f[s] <= b[s]
           Good == {n \in Nat : Within(n)}
<1>0. \A s \in SUBSET L : b[s] \in Nat /\ 0 <= b[s]
  BY DEF Bounds
<1>1. \A s \in SUBSET L : IsFiniteSet(s) /\ Cardinality(s) \in Nat
  BY FS_CardinalityType, FS_Subset
<1>2. \A s \in SUBSET L : s # {} => /\ Pick(s) \in s /\ s \ {Pick(s)} \in SUBSET L
                                    /\ f[s] = w[Pick(s)] + f[s \ {Pick(s)}]
  BY Zenon DEF IsSum
<1>3. f[{}] = 0
  BY Zenon DEF IsSum
<1> HIDE DEF Pick
<1>4. Within(0)
  <2>1. \A s \in SUBSET L : Cardinality(s) <= 0 => s = {}
    BY <1>1, FS_EmptySet
  <2> QED
    <3> SUFFICES ASSUME NEW s \in SUBSET L, Cardinality(s) <= 0 PROVE f[s] \in Nat /\ f[s] <= b[s]
      OBVIOUS
    <3>1. s = {} /\ f[s] = 0
      BY <1>3, <2>1
    <3> QED
      BY <1>0, <3>1
<1>5. ASSUME NEW n \in Nat, Within(n) PROVE Within(n + 1)
  <2> SUFFICES ASSUME NEW s \in SUBSET L, Cardinality(s) <= n + 1 PROVE f[s] \in Nat /\ f[s] <= b[s]
    OBVIOUS
  <2>1. CASE s = {}
    BY <1>3, <2>1 DEF Bounds
  <2>2. CASE s # {}
    <3> DEFINE x == Pick(s)
               r == s \ {x}
    <3>1. x \in s /\ r \in SUBSET L /\ f[s] = w[x] + f[r]
      BY <1>2, <2>2
    <3>2. Cardinality(r) = Cardinality(s) - 1 /\ Cardinality(s) \in Nat
      BY <1>1, <3>1, FS_RemoveElement
    <3>3. f[r] \in Nat /\ f[r] <= b[r]
      BY <1>5, <3>1, <3>2
    <3>4. w[x] + b[r] <= b[s] /\ w[x] \in Nat /\ b[r] \in Nat /\ b[s] \in Nat
      BY <3>1 DEF Bounds
    <3> HIDE DEF x, r
    <3> QED
      BY <3>1, <3>3, <3>4
  <2> QED
    BY <2>1, <2>2
<1>6. \A n \in Nat : Within(n)
  <2> HIDE DEF Within
  <2>1. 0 \in Good /\ \A n \in Nat : n \in Good => n + 1 \in Good
    BY <1>4, <1>5
  <2>2. Nat \subseteq Good
    <3> HIDE DEF Good
    <3> QED
      BY <2>1, Induct
  <2> QED
    BY <2>2
<1>7. Cardinality(L) \in Nat /\ L \in SUBSET L /\ Cardinality(L) <= Cardinality(L)
  BY <1>1
<1>8. Within(Cardinality(L))
  <2> HIDE DEF Within
  <2> QED
    BY <1>6, <1>7
<1> QED
  BY <1>7, <1>8, Zenon

LEMMA Times ==
  ASSUME NEW a \in Nat, NEW b \in Nat, NEW c \in Nat
  PROVE  /\ a * b \in Nat /\ a * (b + c) = a * b + a * c
         /\ b <= c => a * b <= a * c
  OBVIOUS

(* Pieces of a stretch of time that do not overlap, each of them at most H *)
(* for every tick, are bounded by the ticks they cover.                    *)
LEMMA Pieces ==
  ASSUME NEW L, IsFiniteSet(L), NEW from \in [L -> Nat], NEW upto \in [L -> Nat],
         NEW start \in Nat, NEW end \in Nat, start <= end,
         \A i \in L : start <= from[i] /\ from[i] < upto[i] /\ upto[i] <= end,
         \A i, j \in L : i # j => upto[i] <= from[j] \/ upto[j] <= from[i],
         NEW H \in Nat, NEW w \in [L -> Nat], \A i \in L : w[i] <= H * (upto[i] - from[i])
  PROVE  \E b : Bounds(b, w, L) /\ b[L] <= H * (end - start)
<1> DEFINE Ticks(i) == from[i]..(upto[i] - 1)
           all == start..(end - 1)
           Covered(s) == {t \in all : \E i \in s : t \in Ticks(i)}
           b == [s \in SUBSET L |-> H * Cardinality(Covered(s))]
<1>1. IsFiniteSet(all) /\ Cardinality(all) = end - start
  BY FS_Interval
<1>2. ASSUME NEW i \in L
      PROVE  /\ Ticks(i) \subseteq all /\ IsFiniteSet(Ticks(i))
             /\ Cardinality(Ticks(i)) = upto[i] - from[i] /\ upto[i] - from[i] \in Nat
  <2>1. from[i] \in Nat /\ upto[i] \in Nat /\ start <= from[i] /\ from[i] < upto[i] /\ upto[i] <= end
    OBVIOUS
  <2>2. Ticks(i) \subseteq all
    BY <2>1
  <2>3. IsFiniteSet(Ticks(i)) /\ Cardinality(Ticks(i)) = upto[i] - from[i]
    <3> DEFINE first == from[i]
               last == upto[i] - 1
    <3>1. first \in Int /\ last \in Int /\ ~(first > last) /\ last - first + 1 = upto[i] - from[i]
      BY <2>1
    <3>2. Ticks(i) = first..last
      OBVIOUS
    <3> HIDE DEF first, last, Ticks
    <3> QED
      BY <3>1, <3>2, FS_Interval
  <2> QED
    BY <2>1, <2>2, <2>3
<1>3. ASSUME NEW i \in L, NEW j \in L, i # j PROVE Ticks(i) \cap Ticks(j) = {}
  <2>1. /\ from[i] \in Nat /\ upto[i] \in Nat /\ from[j] \in Nat /\ upto[j] \in Nat
        /\ upto[i] <= from[j] \/ upto[j] <= from[i]
    BY <1>3
  <2> QED
    BY <2>1
<1> HIDE DEF Ticks, all
<1>4. ASSUME NEW s \in SUBSET L
      PROVE  /\ IsFiniteSet(Covered(s)) /\ Cardinality(Covered(s)) \in Nat
             /\ Cardinality(Covered(s)) <= end - start
  <2>1. Covered(s) \in SUBSET all
    OBVIOUS
  <2> HIDE DEF Covered
  <2> QED
    BY <1>1, <2>1, FS_Subset, FS_CardinalityType
<1>5. ASSUME NEW s \in SUBSET L, NEW x \in s
      PROVE  Cardinality(Covered(s)) = Cardinality(Covered(s \ {x})) + (upto[x] - from[x])
  <2> DEFINE u == Covered(s)
             v == Covered(s \ {x})
             t == Ticks(x)
  <2>1. u = v \cup t
    BY <1>2
  <2>2. v \cap t = {}
    BY <1>3
  <2>3. IsFiniteSet(v) /\ IsFiniteSet(t) /\ Cardinality(t) = upto[x] - from[x]
    BY <1>2, <1>4
  <2>4. Cardinality(v) \in Nat /\ Cardinality(t) \in Nat
    BY <1>2, <1>4
  <2> HIDE DEF u, v, t
  <2>5. Cardinality(u) = Cardinality(v) + Cardinality(t) - Cardinality({})
    BY <2>1, <2>2, <2>3, FS_Union
  <2>6. Cardinality({}) = 0
    BY FS_EmptySet
  <2>7. Cardinality(u) = Cardinality(v) + Cardinality(t)
    BY <2>4, <2>5, <2>6
  <2> QED
    BY <2>3, <2>7 DEF u, v
<1> HIDE DEF Covered
<1>6. b \in [SUBSET L -> Nat]
  BY <1>4, Times
<1>7. ASSUME NEW s \in SUBSET L, NEW x \in s PROVE w[x] + b[s \ {x}] <= b[s]
  <2> DEFINE c == Cardinality(Covered(s \ {x}))
             gap == upto[x] - from[x]
  <2>1. s \ {x} \in SUBSET L /\ x \in L
    OBVIOUS
  <2>2. c \in Nat /\ Cardinality(Covered(s)) = c + gap /\ gap \in Nat
    BY <1>2, <1>4, <1>5, <2>1
  <2>3. w[x] \in Nat /\ w[x] <= H * gap
    BY <2>1
  <2>4. b[s] = H * Cardinality(Covered(s)) /\ b[s \ {x}] = H * c
    BY <2>1
  <2> HIDE DEF c, gap, b
  <2>5. H * (c + gap) = H * c + H * gap /\ H * c \in Nat /\ H * gap \in Nat
    BY <2>2, Times
  <2> QED
    BY <2>2, <2>3, <2>4, <2>5
<1>8. b[L] <= H * (end - start)
  <2> DEFINE c == Cardinality(Covered(L))
             n == end - start
  <2>1. c \in Nat /\ n \in Nat /\ c <= n
    BY <1>4
  <2>2. b[L] = H * c
    OBVIOUS
  <2> HIDE DEF c, n, b
  <2>3. H * c <= H * n
    BY <2>1, Times
  <2> QED
    BY <2>2, <2>3 DEF n
<1> HIDE DEF b
<1> QED
  BY <1>6, <1>7, <1>8 DEF Bounds

(* The pieces between ordered samples do not overlap: each is at most the  *)
(* highest reading, twice, over the ticks of its own.                      *)
LEMMA Area ==
  ASSUME NEW k \in Line, KeptInOrder(k), NEW line \in SUBSET (1..Len(k)),
         NEW start \in Nat, NEW end \in Nat, start <= end,
         \A i \in line : start <= k[i].at /\ k[i].at <= end
  PROVE  LET next(i) == Min({j \in line : j > i})
             L == {i \in line : \E j \in line : j > i}
             w == [i \in L |-> (k[next(i)].at - k[i].at) * (k[next(i)].value + k[i].value)]
         IN /\ IsFiniteSet(L) /\ w \in [L -> Nat]
            /\ \E b : Bounds(b, w, L) /\ b[L] <= 2 * Max(Readings) * (end - start)
<1> DEFINE next(i) == Min({j \in line : j > i})
           L == {i \in line : \E j \in line : j > i}
           gap(i) == k[next(i)].at - k[i].at
           sum(i) == k[next(i)].value + k[i].value
           w == [i \in L |-> gap(i) * sum(i)]
           from == [i \in L |-> k[i].at]
           upto == [i \in L |-> k[next(i)].at]
           H == 2 * Max(Readings)
<1>1. Len(k) \in Nat /\ \A i \in 1..Len(k) : k[i].at \in Nat /\ k[i].value \in Readings
  <2>1. Len(k) \in Nat /\ \A i \in 1..Len(k) : k[i] \in Message
    BY Lines
  <2> QED
    BY <2>1 DEF Message
<1>2. H \in Nat /\ \A u, v \in Readings : u + v \in Nat /\ u + v <= H
  <2>1. Max(Readings) \in Readings /\ \A v \in Readings : v \in Nat /\ v <= Max(Readings)
    <3>1. IsFiniteSet(Readings) /\ Readings \subseteq Int /\ Readings \subseteq Nat /\ Readings # {}
      BY PollersAssumption
    <3> QED
      BY <3>1, Greatest
  <2> QED
    BY <2>1
<1>3. IsFiniteSet(L) /\ L \subseteq line
  <2>1. IsFiniteSet(1..Len(k))
    BY <1>1, FS_Interval
  <2>2. L \in SUBSET (1..Len(k))
    OBVIOUS
  <2> HIDE DEF L
  <2>3. IsFiniteSet(L)
    BY <2>1, <2>2, FS_Subset
  <2> QED
    BY <2>3 DEF L
<1>4. line \subseteq Nat
  BY <1>1
<1>5. ASSUME NEW i \in L
      PROVE  next(i) \in line /\ i < next(i) /\ \A j \in line : i < j => next(i) <= j
  <2> DEFINE later == {j \in line : j > i}
  <2>1. later \in SUBSET Nat /\ later # {}
    BY <1>4
  <2>2. \E n \in later : \A j \in later : n <= j
    <3> HIDE DEF later
    <3> QED
      BY <2>1, LeastOf
  <2>3. Min(later) \in later /\ \A j \in later : Min(later) <= j
    <3> HIDE DEF later
    <3> QED
      BY <2>2 DEF Min
  <2>4. i \in Nat
    BY <1>3, <1>4
  <2> QED
    BY <2>3, <2>4, <1>4
<1> HIDE DEF next, H, L
<1>6. ASSUME NEW i \in L
      PROVE  /\ i \in line /\ i \in 1..Len(k) /\ next(i) \in 1..Len(k)
             /\ k[i].at \in Nat /\ k[next(i)].at \in Nat /\ k[i].at < k[next(i)].at
             /\ start <= k[i].at /\ k[next(i)].at <= end
             /\ gap(i) \in Nat /\ sum(i) \in Nat /\ sum(i) <= H
  <2>1. i \in 1..Len(k) /\ next(i) \in 1..Len(k) /\ i < next(i) /\ i \in line /\ next(i) \in line
    BY <1>3, <1>5
  <2>2. /\ k[i].at \in Nat /\ k[next(i)].at \in Nat /\ k[i].at < k[next(i)].at
        /\ start <= k[i].at /\ k[next(i)].at <= end
    BY <1>1, <2>1 DEF KeptInOrder
  <2>3. gap(i) \in Nat
    BY <2>2
  <2>4. sum(i) \in Nat /\ sum(i) <= H
    BY <1>1, <1>2, <2>1
  <2> QED
    BY <2>1, <2>2, <2>3, <2>4
<1>7. ASSUME NEW y \in L, NEW z \in L, y < z PROVE k[next(y)].at <= k[z].at
  <2>1. next(y) <= z
    BY <1>5, <1>6, <1>7
  <2>2. z \in 1..Len(k) /\ next(y) \in 1..Len(k)
    BY <1>6
  <2> QED
    BY <1>1, <2>1, <2>2 DEF KeptInOrder
<1> HIDE DEF gap, sum
<1>8. ASSUME NEW i \in L PROVE w[i] \in Nat /\ w[i] <= H * gap(i)
  <2>1. sum(i) * gap(i) = gap(i) * sum(i) /\ H * gap(i) = gap(i) * H
    BY <1>2, <1>6
  <2>2. gap(i) * sum(i) \in Nat /\ gap(i) * sum(i) <= gap(i) * H
    BY <1>2, <1>6, Times
  <2>3. w[i] = gap(i) * sum(i)
    OBVIOUS
  <2> HIDE DEF w
  <2> QED
    BY <2>1, <2>2, <2>3
<1>9. w \in [L -> Nat] /\ from \in [L -> Nat] /\ upto \in [L -> Nat]
  BY <1>6, <1>8
<1>10. /\ \A i \in L : start <= from[i] /\ from[i] < upto[i] /\ upto[i] <= end
       /\ \A i \in L : w[i] <= H * (upto[i] - from[i])
  BY <1>6, <1>8 DEF gap
<1>11. \A i, j \in L : i # j => upto[i] <= from[j] \/ upto[j] <= from[i]
  <2>1. \A i, j \in L : i # j => i < j \/ j < i
    BY <1>6
  <2> QED
    BY <1>7, <2>1
<1> HIDE DEF w, from, upto
<1>12. \E b : Bounds(b, w, L) /\ b[L] <= H * (end - start)
  BY <1>2, <1>3, <1>9, <1>10, <1>11, Pieces
<1> QED
  BY <1>3, <1>9, <1>12 DEF w, gap, sum, next, H, L

LEMMA EnergyOf ==
  ASSUME IInv, NEW d \in Domains, NEW g \in Devices, NEW start \in Nat, NEW end \in Nat, start <= end
  PROVE  TwiceEnergy(d, g, start, end) <= 2 * Max(Readings) * (end - start)
<1> DEFINE k == samples[d][g]
           line == Timeline(d, g, start, end)
           next(i) == Min({j \in line : j > i})
           piece(i) == (k[next(i)].at - k[i].at) * (k[next(i)].value + k[i].value)
           L == {i \in line : \E j \in line : j > i}
           w == [i \in L |-> piece(i)]
           Pick(s) == CHOOSE x \in s : TRUE
           total == CHOOSE f : f = [s \in SUBSET L |-> IF s = {} THEN 0
                                      ELSE piece(Pick(s)) + f[s \ {Pick(s)}]]
           top == 2 * Max(Readings) * (end - start)
<1>1. TwiceEnergy(d, g, start, end) = total[L]
  BY Zenon DEF TwiceEnergy, MapThenSumSet, MapThenFoldSet
<1>2. k \in Line /\ KeptInOrder(k)
  BY DEF IInv, TypeInv, DomainInv, LineInv, InOrder
<1>3. line \in SUBSET (1..Len(k)) /\ \A i \in line : start <= k[i].at /\ k[i].at <= end
  <2>1. DOMAIN k = 1..Len(k)
    BY <1>2 DEF Line
  <2> QED
    BY <2>1 DEF Timeline
<1> HIDE DEF k, line
<1>4. /\ IsFiniteSet(L) /\ w \in [L -> Nat]
      /\ \E b : Bounds(b, w, L) /\ b[L] <= top
  BY <1>2, <1>3, Area
<1> HIDE DEF next, piece, L
<1>5. \A s \in SUBSET L : s # {} => piece(Pick(s)) = w[Pick(s)]
  <2>1. \A s \in SUBSET L : s # {} => Pick(s) \in L
    BY Zenon
  <2> HIDE DEF Pick
  <2> QED
    BY <2>1
<1> HIDE DEF w, Pick, top
<1>6. \A f : [s \in SUBSET L |-> IF s = {} THEN 0 ELSE piece(Pick(s)) + f[s \ {Pick(s)}]]
             = [s \in SUBSET L |-> IF s = {} THEN 0 ELSE w[Pick(s)] + f[s \ {Pick(s)}]]
  BY <1>5
<1>7. \E f : IsSum(f, w, L)
  BY <1>4, SumExists
<1> DEFINE sums(f) == f = [s \in SUBSET L |-> IF s = {} THEN 0
                             ELSE piece(Pick(s)) + f[s \ {Pick(s)}]]
<1>8. \A f : IsSum(f, w, L)
              <=> f = [s \in SUBSET L |-> IF s = {} THEN 0 ELSE w[Pick(s)] + f[s \ {Pick(s)}]]
  BY Zenon DEF IsSum, Pick
<1>9. ASSUME NEW f PROVE IsSum(f, w, L) <=> sums(f)
  BY <1>6, <1>8, Zenon
<1> HIDE DEF sums
<1>10. \E f : sums(f)
  BY <1>7, <1>9, Zenon
<1>11. \E f : f = [s \in SUBSET L |-> IF s = {} THEN 0 ELSE piece(Pick(s)) + f[s \ {Pick(s)}]]
  BY <1>10, Zenon DEF sums
<1>12. total = [s \in SUBSET L |-> IF s = {} THEN 0 ELSE piece(Pick(s)) + total[s \ {Pick(s)}]]
  BY <1>11, Zenon
<1>13. sums(total)
  BY <1>12, Zenon DEF sums
<1> HIDE DEF total
<1>14. IsSum(total, w, L)
  BY <1>9, <1>13
<1>15. PICK b : Bounds(b, w, L) /\ b[L] <= top
  BY <1>4
<1>16. total[L] \in Nat /\ total[L] <= b[L]
  BY <1>4, <1>14, <1>15, SumWithin
<1>17. b[L] \in Nat /\ top \in Int
  <2>1. Max(Readings) \in Nat
    <3>1. IsFiniteSet(Readings) /\ Readings \subseteq Int /\ Readings \subseteq Nat /\ Readings # {}
      BY PollersAssumption
    <3> QED
      BY <3>1, Greatest
  <2> QED
    BY <1>15, <2>1 DEF top, Bounds
<1>18. total[L] <= top
  BY <1>15, <1>16, <1>17
<1> QED
  BY <1>1, <1>18 DEF top

(* get_energy() of a window is at most the highest reading over its        *)
(* length, whatever samples the deque still has.                           *)
THEOREM EnergyWithinItsWindow == Spec => []EnergyIsBounded
<1>1. IInv => EnergyIsBounded
  <2>1. 0..MaxTime \subseteq Nat
    BY PollersAssumption
  <2> QED
    BY <2>1, EnergyOf DEF EnergyIsBounded
<1> QED
  BY <1>1, Invariant, PTL

===============================================================================
