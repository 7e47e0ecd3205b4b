---------------------------- MODULE ReplicasProofs ----------------------------
(***************************************************************************)
(* Proofs about Replicas: types, that no two replicas work on a key at     *)
(* once, and that the Endpoints never go back.  The bookkeeping of one     *)
(* process is stated once, of its five values, so that each action needs   *)
(* to say only what becomes of them.                                       *)
(***************************************************************************)
EXTENDS Replicas, TLAPS, FiniteSetTheorems, SequenceTheorems

------------------------------------------------------------------------------
\* The bookkeeping of a process with mode m, queue q, keys a to add again,
\* timers t and busy keys b.

QueuedIn(q) == {q[i] : i \in DOMAIN q}

Distinct(q) == \A i, j \in DOMAIN q : q[i] = q[j] => i = j

Sound(m, q, a, t, b) ==
  /\ m \in {"standby", "working", "down"}
  /\ q \in Seq(Keys) /\ Distinct(q)
  /\ a \subseteq b /\ b \subseteq Keys /\ t \subseteq Keys
  /\ QueuedIn(q) \cap b = {}
  /\ Cardinality(b) <= Workers
  /\ m # "working" => q = <<>> /\ b = {} /\ t = {}
  /\ m = "working" => QueuedIn(q) \cup b \cup t = Keys

LEMMA WorkersAreSome == Workers \in Nat /\ Workers > 0
BY FlagsAssumption DEF Workers

LEMMA EmptyQueue ==
  /\ <<>> \in Seq(Keys) /\ Distinct(<<>>) /\ QueuedIn(<<>>) = {}
  /\ \A q \in Seq(Keys) : QueuedIn(q) = {} => q = <<>>
<1>1. <<>> \in Seq(Keys) /\ DOMAIN <<>> = {}
  OBVIOUS
<1>2. ASSUME NEW q \in Seq(Keys), q # <<>> PROVE QueuedIn(q) # {}
  <2>1. Len(q) \in Nat \ {0} /\ DOMAIN q = 1..Len(q)
    BY <1>2, EmptySeq, LenProperties
  <2>2. 1 \in DOMAIN q
    BY <2>1
  <2>3. QED BY <2>2 DEF QueuedIn
<1>3. QED BY <1>1, <1>2 DEF Distinct, QueuedIn

\* A key that is not in the queue is put behind it.
LEMMA Enqueued ==
  ASSUME NEW q \in Seq(Keys), Distinct(q), NEW k \in Keys, k \notin QueuedIn(q)
  PROVE  /\ Append(q, k) \in Seq(Keys)
         /\ Distinct(Append(q, k))
         /\ QueuedIn(Append(q, k)) = QueuedIn(q) \cup {k}
<1> DEFINE r == Append(q, k)
           n == Len(q)
<1>1. /\ r \in Seq(Keys) /\ Len(r) = n + 1 /\ r[n + 1] = k
      /\ \A i \in 1..n : r[i] = q[i]
  BY AppendProperties
<1>2. n \in Nat /\ DOMAIN q = 1..n /\ DOMAIN r = 1..(n + 1)
  BY <1>1, LenProperties
<1>3. \A i \in 1..n : q[i] # k
  BY <1>2 DEF QueuedIn
<1> HIDE DEF r, n
<1>4. Distinct(r)
  <2>1. SUFFICES ASSUME NEW i \in 1..(n + 1), NEW j \in 1..(n + 1), r[i] = r[j]
                 PROVE  i = j
    BY <1>2 DEF Distinct
  <2>2. CASE i = n + 1 \/ j = n + 1
    BY <2>1, <2>2, <1>1, <1>2, <1>3
  <2>3. CASE i \in 1..n /\ j \in 1..n
    BY <2>1, <2>3, <1>1, <1>2 DEF Distinct
  <2>4. QED BY <2>2, <2>3, <1>2
<1>5. QueuedIn(r) = QueuedIn(q) \cup {k}
  <2>1. ASSUME NEW x \in QueuedIn(r) PROVE x \in QueuedIn(q) \cup {k}
    BY <1>1, <1>2 DEF QueuedIn
  <2>2. QueuedIn(q) \subseteq QueuedIn(r)
    BY <1>1, <1>2 DEF QueuedIn
  <2>3. k \in QueuedIn(r)
    <3>1. n + 1 \in DOMAIN r
      BY <1>2
    <3>2. QED BY <3>1, <1>1 DEF QueuedIn
  <2>4. QED BY <2>1, <2>2, <2>3
<1>6. QED BY <1>1, <1>4, <1>5 DEF r

\* The first key leaves the queue.
LEMMA Dequeued ==
  ASSUME NEW q \in Seq(Keys), Distinct(q), q # <<>>
  PROVE  /\ Tail(q) \in Seq(Keys) /\ Distinct(Tail(q))
         /\ Head(q) \in QueuedIn(q) /\ Head(q) \in Keys
         /\ QueuedIn(Tail(q)) = QueuedIn(q) \ {Head(q)}
<1> DEFINE r == Tail(q)
           n == Len(q)
<1>1. /\ Head(q) \in Keys /\ Head(q) = q[1]
      /\ r \in Seq(Keys) /\ Len(r) = n - 1
      /\ \A i \in 1..Len(r) : r[i] = q[i + 1]
  BY HeadTailProperties
<1>2. n \in Nat \ {0} /\ DOMAIN q = 1..n /\ DOMAIN r = 1..Len(r)
  BY <1>1, LenProperties, EmptySeq
<1> HIDE DEF r, n
<1>3. DOMAIN r = 1..(n - 1) /\ 1 \in 1..n
  BY <1>1, <1>2
<1>4. \A i \in 1..(n - 1) : r[i] = q[i + 1] /\ i + 1 \in 1..n /\ i + 1 # 1
  BY <1>1, <1>2
<1>5. Distinct(r)
  <2>1. SUFFICES ASSUME NEW i \in 1..(n - 1), NEW j \in 1..(n - 1), r[i] = r[j]
                 PROVE  i = j
    BY <1>3 DEF Distinct
  <2>2. i + 1 = j + 1
    BY <2>1, <1>2, <1>4 DEF Distinct
  <2>3. QED BY <2>2
<1>6. Head(q) \in QueuedIn(q)
  BY <1>1, <1>2, <1>3 DEF QueuedIn
<1>7. ASSUME NEW x \in QueuedIn(r) PROVE x \in QueuedIn(q) \ {Head(q)}
  <2>1. PICK i \in 1..(n - 1) : x = r[i]
    BY <1>3 DEF QueuedIn
  <2>2. x = q[i + 1] /\ i + 1 \in 1..n /\ i + 1 # 1
    BY <2>1, <1>4
  <2>3. x # q[1]
    BY <2>2, <1>2, <1>3 DEF Distinct
  <2>4. QED BY <2>2, <2>3, <1>1, <1>2 DEF QueuedIn
<1>8. ASSUME NEW x \in QueuedIn(q) \ {Head(q)} PROVE x \in QueuedIn(r)
  <2>1. PICK i \in 1..n : x = q[i]
    BY <1>2 DEF QueuedIn
  <2>2. i # 1
    BY <2>1, <1>1, <1>8
  <2>3. i - 1 \in 1..(n - 1) /\ (i - 1) + 1 = i
    BY <2>2, <1>2
  <2>4. r[i - 1] = x
    BY <2>1, <2>3, <1>4
  <2>5. QED BY <2>3, <2>4, <1>3 DEF QueuedIn
<1>9. QED BY <1>1, <1>5, <1>6, <1>7, <1>8 DEF r

\* What the controllers list holds every key once.
LEMMA Listed ==
  ASSUME NEW list \in Lists
  PROVE  list \in Seq(Keys) /\ Distinct(list) /\ QueuedIn(list) = Keys
<1> DEFINE n == Cardinality(Keys)
<1>1. n \in Nat
  BY KeysAssumption, FS_CardinalityType
<1>2. IsFiniteSet(1..n) /\ Cardinality(1..n) = n
  BY <1>1, FS_Interval
<1>3. list \in [1..n -> Keys] /\ \A k \in Keys : \E i \in 1..n : list[i] = k
  BY DEF Lists
<1>4. list \in Surjection(1..n, Keys)
  BY <1>3 DEF Surjection
<1>5. Cardinality(1..n) = Cardinality(Keys)
  BY <1>2
<1> HIDE DEF n
<1>6. list \in Injection(1..n, Keys)
  BY <1>2, <1>4, <1>5, FS_SurjSameCardinalityImpliesInj, Zenon
<1>7. Distinct(list)
  BY <1>3, <1>6 DEF Injection, IsInjective, Distinct
<1>8. list \in Seq(Keys)
  BY <1>1, <1>3
<1>9. QueuedIn(list) = Keys
  BY <1>3 DEF QueuedIn
<1>10. QED BY <1>7, <1>8, <1>9

\* A free worker takes a key; a worker gives one back.
LEMMA Taking ==
  ASSUME NEW b \in SUBSET Keys, NEW k \in Keys, Cardinality(b) < Workers
  PROVE  Cardinality(b \cup {k}) <= Workers
<1>1. IsFiniteSet(b) /\ Cardinality(b) \in Nat
  BY KeysAssumption, FS_Subset, FS_CardinalityType
<1>2. Cardinality(b \cup {k}) = IF k \in b THEN Cardinality(b) ELSE Cardinality(b) + 1
  BY <1>1, FS_AddElement, Zenon
<1>3. QED BY <1>1, <1>2, WorkersAreSome

LEMMA GivingBack ==
  ASSUME NEW b \in SUBSET Keys, NEW c \in SUBSET b, Cardinality(b) <= Workers
  PROVE  Cardinality(c) <= Workers
<1>1. IsFiniteSet(b) /\ Cardinality(b) \in Nat
  BY KeysAssumption, FS_Subset, FS_CardinalityType
<1>2. IsFiniteSet(c) /\ Cardinality(c) \in Nat /\ Cardinality(c) <= Cardinality(b)
  BY <1>1, FS_Subset, FS_CardinalityType
<1>3. QED BY <1>1, <1>2, WorkersAreSome

------------------------------------------------------------------------------
\* Types, with the bookkeeping of each process.

Shape ==
  /\ mode \in [Processes -> {"standby", "working", "down"}]
  /\ leader \in Processes \cup {Nobody}
  /\ age \in 0..LeaseDuration
  /\ queue \in [Processes -> Seq(Keys)]
  /\ again \in [Processes -> SUBSET Keys]
  /\ timer \in [Processes -> SUBSET Keys]
  /\ phase \in [Processes -> [Keys -> Phases]]
  /\ value \in [Processes -> [Keys -> Nat]]
  /\ sent \subseteq [key : Keys, value : Nat]
  /\ backend \in [Keys -> Nat]
  /\ stored \in [Keys -> Nat]
  /\ left \in 0..Budget

SoundOf(p) == Sound(mode[p], queue[p], again[p], timer[p], Busy(p))

Sounds == \A p \in Processes : SoundOf(p)

LEMMA ShapeGivesType == Shape /\ Sounds => TypeOK
<1>1. SUFFICES ASSUME Shape, Sounds PROVE TypeOK
  OBVIOUS
<1>2. ASSUME NEW p \in Processes
      PROVE  /\ \A i, j \in DOMAIN queue[p] : queue[p][i] = queue[p][j] => i = j
             /\ Queued(p) \cap Busy(p) = {}
             /\ again[p] \subseteq Busy(p)
             /\ Cardinality(Busy(p)) <= Workers
             /\ mode[p] # "working" => Queued(p) \cup Busy(p) \cup timer[p] = {}
  <2>1. SoundOf(p) /\ Queued(p) = QueuedIn(queue[p])
    BY <1>1 DEF Sounds, Queued, QueuedIn
  <2>2. mode[p] # "working" => Queued(p) = {}
    BY <2>1, EmptyQueue DEF SoundOf, Sound
  <2>3. QED BY <2>1, <2>2 DEF SoundOf, Sound, Distinct
<1>3. QED BY <1>1, <1>2 DEF Shape, TypeOK

LEMMA ShapeInit == Init => Shape /\ Sounds
<1>1. SUFFICES ASSUME Init PROVE Shape /\ Sounds
  OBVIOUS
<1>2. Shape
  BY <1>1, EmptyQueue, BudgetAssumption DEF Init, Shape, Phases, LeaseDuration
<1>3. ASSUME NEW p \in Processes PROVE SoundOf(p)
  <2>1. Busy(p) = {}
    BY <1>1 DEF Init, Busy
  <2>2. Cardinality(Busy(p)) <= Workers
    BY <2>1, WorkersAreSome, FS_EmptySet
  <2>3. QED BY <1>1, <2>1, <2>2, EmptyQueue DEF Init, SoundOf, Sound
<1>4. QED BY <1>2, <1>3 DEF Sounds

------------------------------------------------------------------------------
\* What the actions do to the bookkeeping.

\* Nothing that process q keeps changes.
Same(q) ==
  /\ mode'[q] = mode[q] /\ queue'[q] = queue[q]
  /\ again'[q] = again[q] /\ timer'[q] = timer[q]
  /\ Busy(q)' = Busy(q)

LEMMA OfOne ==
  ASSUME Sounds, NEW p \in Processes, SoundOf(p)', \A q \in Processes \ {p} : Same(q)
  PROVE  Sounds'
<1>1. ASSUME NEW q \in Processes, q # p PROVE SoundOf(q)'
  <2>1. SoundOf(q) /\ Same(q)
    BY <1>1 DEF Sounds
  <2>2. QED BY <2>1 DEF SoundOf, Same
<1>2. QED BY <1>1 DEF Sounds

LEMMA OfNone ==
  ASSUME Sounds, \A q \in Processes : Same(q)
  PROVE  Sounds'
<1>1. ASSUME NEW q \in Processes PROVE SoundOf(q)'
  BY <1>1 DEF Sounds, SoundOf, Same
<1>2. QED BY <1>1 DEF Sounds

\* A working process is told of a key.
LEMMA Added ==
  ASSUME NEW p \in Processes, NEW k \in Keys, Shape, SoundOf(p),
         mode[p] = "working", mode' = mode, phase' = phase,
         timer'[p] \subseteq timer[p], timer[p] \subseteq timer'[p] \cup {k}, Add(p, k)
  PROVE  SoundOf(p)'
<1>1. Busy(p)' = Busy(p) /\ Queued(p) = QueuedIn(queue[p])
  BY DEF Busy, Queued, QueuedIn
<1>2. CASE k \in Busy(p)
  <2>1. again'[p] = again[p] \cup {k} /\ queue'[p] = queue[p]
    BY <1>2 DEF Add, Shape
  <2>2. QED BY <1>1, <1>2, <2>1 DEF SoundOf, Sound
<1>3. CASE k \notin Busy(p)
  <2>1. again'[p] = again[p]
    BY <1>3 DEF Add
  <2>2. queue'[p] = IF k \in Queued(p) THEN queue[p] ELSE Append(queue[p], k)
    BY <1>3 DEF Add, Shape
  <2>3. queue[p] \in Seq(Keys) /\ Distinct(queue[p])
    BY DEF SoundOf, Sound
  <2>4. queue'[p] \in Seq(Keys) /\ Distinct(queue'[p])
    BY <1>1, <2>2, <2>3, Enqueued
  <2>5. QueuedIn(queue'[p]) = QueuedIn(queue[p]) \cup {k}
    BY <1>1, <2>2, <2>3, Enqueued
  <2>6. QED BY <1>1, <1>3, <2>1, <2>4, <2>5 DEF SoundOf, Sound
<1>4. QED BY <1>2, <1>3

\* A round of p ends.
LEMMA Finished ==
  ASSUME NEW p \in Processes, NEW k \in Busy(p), NEW phases, Shape, SoundOf(p),
         mode' = mode, Finish(p, k, phases), Busy(p)' = Busy(p) \ {k}
  PROVE  SoundOf(p)'
<1>1. k \in Keys /\ mode[p] = "working" /\ k \notin QueuedIn(queue[p])
  BY DEF Busy, SoundOf, Sound
<1>2. queue'[p] = IF k \in again[p] THEN Append(queue[p], k) ELSE queue[p]
  BY DEF Finish, Shape
<1>3. again'[p] = again[p] \ {k} /\ timer'[p] = timer[p] \cup {k}
  BY DEF Finish, Shape
<1>4. queue[p] \in Seq(Keys) /\ Distinct(queue[p])
  BY DEF SoundOf, Sound
<1>5. queue'[p] \in Seq(Keys) /\ Distinct(queue'[p])
  BY <1>1, <1>2, <1>4, Enqueued
<1>6. QueuedIn(queue'[p]) = QueuedIn(queue[p]) \/ QueuedIn(queue'[p]) = QueuedIn(queue[p]) \cup {k}
  BY <1>1, <1>2, <1>4, Enqueued
<1>7. Cardinality(Busy(p)') <= Workers
  BY GivingBack DEF SoundOf, Sound
<1>8. QED BY <1>1, <1>3, <1>5, <1>6, <1>7 DEF SoundOf, Sound

LEMMA AddShape ==
  ASSUME Shape, NEW p \in Processes, NEW k \in Keys, Add(p, k)
  PROVE  queue' \in [Processes -> Seq(Keys)] /\ again' \in [Processes -> SUBSET Keys]
<1>1. queue[p] \in Seq(Keys) /\ Append(queue[p], k) \in Seq(Keys)
  BY AppendProperties DEF Shape
<1>2. again[p] \cup {k} \in SUBSET Keys
  BY DEF Shape
<1>3. CASE k \in Busy(p)
  BY <1>2, <1>3 DEF Add, Shape
<1>4. CASE k \notin Busy(p)
  <2>1. again' = again
    BY <1>4 DEF Add
  <2>2. queue' = [queue EXCEPT ![p] = IF k \in Queued(p) THEN @ ELSE Append(@, k)]
    BY <1>4 DEF Add
  <2>3. QED BY <1>1, <2>1, <2>2 DEF Shape
<1>5. QED BY <1>3, <1>4

LEMMA FinishShape ==
  ASSUME Shape, NEW p \in Processes, NEW k \in Keys,
         NEW phases \in [Processes -> [Keys -> Phases]], Finish(p, k, phases)
  PROVE  /\ queue' \in [Processes -> Seq(Keys)] /\ again' \in [Processes -> SUBSET Keys]
         /\ timer' \in [Processes -> SUBSET Keys]
         /\ phase' \in [Processes -> [Keys -> Phases]]
<1>1. queue[p] \in Seq(Keys) /\ Append(queue[p], k) \in Seq(Keys)
  BY AppendProperties DEF Shape
<1>2. queue' \in [Processes -> Seq(Keys)]
  BY <1>1 DEF Finish, Shape
<1>3. again' \in [Processes -> SUBSET Keys] /\ timer' \in [Processes -> SUBSET Keys]
  BY DEF Finish, Shape
<1>4. phase' \in [Processes -> [Keys -> Phases]]
  BY DEF Finish, Phases
<1>5. QED BY <1>2, <1>3, <1>4

LEMMA OutdatedShape ==
  ASSUME Shape, NEW p, NEW k \in Keys
  PROVE  Outdated(p, k) \in [Processes -> [Keys -> Phases]]
BY DEF Outdated, Shape, Phases

LEMMA StopShape ==
  ASSUME Shape, NEW p \in Processes, Stop(p), left' \in 0..Budget
  PROVE  Shape'
<1>1. <<>> \in Seq(Keys)
  BY EmptyQueue
<1>2. queue' \in [Processes -> Seq(Keys)]
  BY <1>1 DEF Stop, Shape
<1>3. sent' \subseteq [key : Keys, value : Nat]
  <2>1. PICK gone \in SUBSET {k \in Keys : phase[p][k] = "read"} :
          sent' = sent \cup {[key |-> k, value |-> value[p][k]] : k \in gone}
    BY DEF Stop
  <2>2. QED BY <2>1 DEF Shape
<1>4. /\ mode' \in [Processes -> {"standby", "working", "down"}]
      /\ phase' \in [Processes -> [Keys -> Phases]]
  BY DEF Stop, Shape, Phases
<1>5. again' \in [Processes -> SUBSET Keys] /\ timer' \in [Processes -> SUBSET Keys]
  BY DEF Stop, Shape
<1>6. leader' = leader /\ age' = age /\ value' = value /\ backend' = backend /\ stored' = stored
  BY DEF Stop, lease
<1>7. QED BY <1>2, <1>3, <1>4, <1>5, <1>6 DEF Shape

LEMMA ShapeOfRound ==
  ASSUME Shape, NEW p \in Processes, NEW k \in Keys, Round(p, k)
  PROVE  Shape'
<1>1. CASE Probe(p, k)
  BY <1>1 DEF Probe, Shape, Phases, lease, work
<1>2. CASE Read(p, k)
  <2>1. /\ mode' = mode /\ leader' = leader /\ age' = age /\ value' = value /\ sent' = sent
        /\ backend' = backend /\ stored' = stored /\ left' = left
    BY <1>2 DEF Read, lease
  <2>2. CASE stored[k] = value[p][k]
    <3>1. Finish(p, k, phase)
      BY <1>2, <2>2 DEF Read
    <3>2. phase \in [Processes -> [Keys -> Phases]]
      BY DEF Shape
    <3>3. QED BY <2>1, <3>1, <3>2, FinishShape DEF Shape
  <2>3. CASE stored[k] # value[p][k]
    <3>1. phase' = [phase EXCEPT ![p][k] = "read"]
      BY <1>2, <2>3 DEF Read
    <3>2. queue' = queue /\ again' = again /\ timer' = timer
      BY <1>2, <2>3 DEF Read, work
    <3>3. phase' \in [Processes -> [Keys -> Phases]]
      BY <3>1 DEF Shape, Phases
    <3>4. QED BY <2>1, <3>2, <3>3 DEF Shape
  <2>4. QED BY <2>2, <2>3
<1>3. CASE Write(p, k)
  <2>1. /\ mode' = mode /\ leader' = leader /\ age' = age /\ value' = value
        /\ backend' = backend /\ left' = left
    BY <1>3 DEF Write, lease
  <2>2. stored' \in [Keys -> Nat] /\ sent' \subseteq [key : Keys, value : Nat]
    BY <1>3 DEF Write, Shape
  <2>3. Finish(p, k, Outdated(p, k))
    BY <1>3 DEF Write
  <2>4. Outdated(p, k) \in [Processes -> [Keys -> Phases]]
    BY OutdatedShape
  <2>5. QED BY <2>1, <2>2, <2>3, <2>4, FinishShape DEF Shape
<1>4. CASE Conflict(p, k)
  <2>1. /\ mode' = mode /\ leader' = leader /\ age' = age /\ value' = value /\ sent' = sent
        /\ backend' = backend /\ stored' = stored /\ left' = left
    BY <1>4 DEF Conflict, lease
  <2>2. CASE Finish(p, k, phase)
    <3>1. phase \in [Processes -> [Keys -> Phases]]
      BY DEF Shape
    <3>2. QED BY <2>1, <2>2, <3>1, FinishShape DEF Shape
  <2>3. CASE phase' = [phase EXCEPT ![p][k] = "probing"] /\ UNCHANGED work
    <3>1. queue' = queue /\ again' = again /\ timer' = timer
      BY <2>3 DEF work
    <3>2. phase' \in [Processes -> [Keys -> Phases]]
      BY <2>3 DEF Shape, Phases
    <3>3. QED BY <2>1, <3>1, <3>2 DEF Shape
  <2>4. QED BY <1>4, <2>2, <2>3 DEF Conflict
<1>5. CASE ReadOld(p, k)
  <2>1. /\ mode' = mode /\ leader' = leader /\ age' = age /\ value' = value /\ sent' = sent
        /\ backend' = backend /\ stored' = stored /\ left' \in 0..Budget
    BY <1>5, BudgetAssumption DEF ReadOld, Spend, Shape, lease
  <2>2. CASE Finish(p, k, phase)
    <3>1. phase \in [Processes -> [Keys -> Phases]]
      BY DEF Shape
    <3>2. QED BY <2>1, <2>2, <3>1, FinishShape DEF Shape
  <2>3. CASE phase' = [phase EXCEPT ![p][k] = "stale"] /\ UNCHANGED work
    <3>1. queue' = queue /\ again' = again /\ timer' = timer
      BY <2>3 DEF work
    <3>2. phase' \in [Processes -> [Keys -> Phases]]
      BY <2>3 DEF Shape, Phases
    <3>3. QED BY <2>1, <3>1, <3>2 DEF Shape
  <2>4. QED BY <1>5, <2>2, <2>3 DEF ReadOld
<1>6. QED BY <1>1, <1>2, <1>3, <1>4, <1>5 DEF Round

LEMMA ShapeNext == Shape /\ Next => Shape'
<1>1. SUFFICES ASSUME Shape, Next PROVE Shape'
  OBVIOUS
<1>2. CASE RenewalFails
  BY <1>1, <1>2, BudgetAssumption
     DEF RenewalFails, Spend, Shape, work, rounds, LeaseDuration, RenewDeadline
<1>3. CASE LeaseAges
  BY <1>1, <1>3 DEF LeaseAges, Shape, work, rounds, LeaseDuration
<1>4. ASSUME NEW p \in Processes, Start(p) PROVE Shape'
  <2>1. PICK list \in Lists : queue' = [queue EXCEPT ![p] = list]
    BY <1>4 DEF Start
  <2>2. queue' \in [Processes -> Seq(Keys)]
    BY <1>1, <2>1, Listed DEF Shape
  <2>3. leader' \in Processes \cup {Nobody} /\ age' \in 0..LeaseDuration
    BY <1>1, <1>4 DEF Start, Shape, lease, LeaseDuration
  <2>4. mode' \in [Processes -> {"standby", "working", "down"}]
    BY <1>1, <1>4 DEF Start, Shape
  <2>5. /\ again' = again /\ timer' = timer /\ phase' = phase /\ value' = value /\ sent' = sent
        /\ backend' = backend /\ stored' = stored /\ left' = left
    BY <1>4 DEF Start, rounds
  <2>6. QED BY <1>1, <2>2, <2>3, <2>4, <2>5 DEF Shape
<1>5. ASSUME NEW p \in Processes, Renew(p) PROVE Shape'
  BY <1>1, <1>5 DEF Renew, Shape, work, rounds, LeaseDuration
<1>6. ASSUME NEW p \in Processes, LoseLease(p) \/ Crash(p) PROVE Shape'
  <2>1. Stop(p) /\ left' \in 0..Budget
    BY <1>1, <1>6, BudgetAssumption DEF LoseLease, Crash, Spend, Shape
  <2>2. QED BY <1>1, <2>1, StopShape
<1>7. ASSUME NEW p \in Processes, Restart(p) PROVE Shape'
  BY <1>1, <1>7 DEF Restart, Shape, lease, work, rounds
<1>8. ASSUME NEW p \in Processes, Take(p) PROVE Shape'
  <2>1. queue[p] \in Seq(Keys) /\ queue[p] # <<>>
    BY <1>1, <1>8 DEF Take, Shape
  <2>2. Tail(queue[p]) \in Seq(Keys)
    BY <2>1, HeadTailProperties
  <2>3. queue' \in [Processes -> Seq(Keys)]
    BY <1>1, <1>8, <2>2 DEF Take, Shape
  <2>4. phase' \in [Processes -> [Keys -> Phases]]
    BY <1>1, <1>8 DEF Take, Shape, Phases
  <2>5. /\ mode' = mode /\ leader' = leader /\ age' = age /\ again' = again /\ timer' = timer
        /\ value' = value /\ sent' = sent /\ backend' = backend /\ stored' = stored /\ left' = left
    BY <1>8 DEF Take, lease
  <2>6. QED BY <1>1, <2>3, <2>4, <2>5 DEF Shape
<1>9. ASSUME NEW p \in Processes, NEW k \in Keys, Round(p, k) PROVE Shape'
  BY <1>1, <1>9, ShapeOfRound
<1>10. ASSUME NEW p \in Processes, NEW k \in Keys, TimerFires(p, k) PROVE Shape'
  <2>1. Add(p, k) /\ timer' \in [Processes -> SUBSET Keys]
    BY <1>1, <1>10 DEF TimerFires, Shape
  <2>2. /\ mode' = mode /\ leader' = leader /\ age' = age /\ phase' = phase /\ value' = value
        /\ sent' = sent /\ backend' = backend /\ stored' = stored /\ left' = left
    BY <1>10 DEF TimerFires, lease, rounds
  <2>3. QED BY <1>1, <2>1, <2>2, AddShape DEF Shape
<1>11. ASSUME NEW p \in Processes, NEW k \in Keys, Event(p, k) PROVE Shape'
  <2>1. Add(p, k) /\ left' \in 0..Budget
    BY <1>1, <1>11, BudgetAssumption DEF Event, Spend, Shape
  <2>2. /\ mode' = mode /\ leader' = leader /\ age' = age /\ timer' = timer /\ phase' = phase
        /\ value' = value /\ sent' = sent /\ backend' = backend /\ stored' = stored
    BY <1>11 DEF Event, lease, rounds
  <2>3. QED BY <1>1, <2>1, <2>2, AddShape DEF Shape
<1>12. ASSUME NEW r \in sent, Arrives(r) PROVE Shape'
  <2>1. r.key \in Keys /\ r.value \in Nat
    BY <1>1 DEF Shape
  <2>2. stored' \in [Keys -> Nat] /\ sent' \subseteq [key : Keys, value : Nat]
    BY <1>1, <1>12, <2>1 DEF Arrives, Shape
  <2>3. phase' \in [Processes -> [Keys -> Phases]]
    BY <1>1, <1>12, <2>1, OutdatedShape DEF Arrives
  <2>4. /\ mode' = mode /\ leader' = leader /\ age' = age /\ queue' = queue /\ again' = again
        /\ timer' = timer /\ value' = value /\ backend' = backend /\ left' = left
    BY <1>12 DEF Arrives, lease, work
  <2>5. QED BY <1>1, <2>2, <2>3, <2>4 DEF Shape
<1>13. ASSUME NEW k \in Keys, BackendChanges(k) PROVE Shape'
  BY <1>1, <1>13, BudgetAssumption DEF BackendChanges, Spend, Shape, lease, work, rounds
<1>14. QED
  BY <1>1, <1>2, <1>3, <1>4, <1>5, <1>6, <1>7, <1>8, <1>9, <1>10, <1>11, <1>12, <1>13
     DEF Next, Process

------------------------------------------------------------------------------
\* Every step keeps the bookkeeping of every process.

LEMMA OutdatedBusy ==
  ASSUME Shape, NEW p, NEW k \in Keys, NEW q \in Processes
  PROVE  \A j \in Keys : Outdated(p, k)[q][j] # "idle" <=> phase[q][j] # "idle"
<1>1. phase[q] \in [Keys -> Phases]
  BY DEF Shape
<1>2. Outdated(p, k)[q] =
        IF q # p /\ phase[q][k] = "read" THEN [phase[q] EXCEPT ![k] = "stale"] ELSE phase[q]
  BY DEF Outdated
<1>3. QED BY <1>1, <1>2

LEMMA SoundsOfRound ==
  ASSUME Shape, Sounds, NEW p \in Processes, NEW k \in Keys, Round(p, k)
  PROVE  Sounds'
<1>1. k \in Busy(p) /\ mode' = mode
  BY DEF Round, Probe, Read, ReadOld, Write, Conflict, Busy
<1>2. SoundOf(p)
  BY DEF Sounds
<1>3. CASE UNCHANGED work /\ \E to \in {"probing", "probed", "read", "stale"} :
                                phase' = [phase EXCEPT ![p][k] = to]
  <2>1. \A q \in Processes : Busy(q)' = Busy(q)
    BY <1>1, <1>3 DEF Busy, Shape
  <2>2. queue' = queue /\ again' = again /\ timer' = timer
    BY <1>3 DEF work
  <2>3. QED BY <1>1, <2>1, <2>2, OfNone DEF Same
<1>4. ASSUME NEW phases \in [Processes -> [Keys -> Phases]], Finish(p, k, phases),
             \A q \in Processes, j \in Keys : phases[q][j] # "idle" <=> phase[q][j] # "idle"
      PROVE  Sounds'
  <2>1. phase' = [phases EXCEPT ![p][k] = "idle"]
    BY <1>4 DEF Finish
  <2>2. Busy(p)' = Busy(p) \ {k}
    BY <1>4, <2>1 DEF Busy
  <2>3. SoundOf(p)'
    BY <1>1, <1>2, <1>4, <2>2, Finished
  <2>4. ASSUME NEW q \in Processes \ {p} PROVE Same(q)
    <3>1. phase'[q] = phases[q]
      BY <1>4, <2>1
    <3>2. Busy(q)' = Busy(q)
      BY <1>4, <3>1 DEF Busy
    <3>3. queue'[q] = queue[q] /\ again'[q] = again[q] /\ timer'[q] = timer[q]
      BY <1>4 DEF Finish, Shape
    <3>4. QED BY <1>1, <3>2, <3>3 DEF Same
  <2>5. QED BY <2>3, <2>4, OfOne
<1>5. CASE Finish(p, k, phase)
  <2>1. phase \in [Processes -> [Keys -> Phases]]
    BY DEF Shape
  <2>2. QED BY <1>4, <1>5, <2>1
<1>6. CASE Finish(p, k, Outdated(p, k))
  <2>1. Outdated(p, k) \in [Processes -> [Keys -> Phases]]
    BY OutdatedShape
  <2>2. \A q \in Processes, j \in Keys : Outdated(p, k)[q][j] # "idle" <=> phase[q][j] # "idle"
    BY OutdatedBusy
  <2>3. QED BY <1>4, <1>6, <2>1, <2>2
<1>7. QED BY <1>3, <1>5, <1>6 DEF Round, Probe, Read, ReadOld, Write, Conflict

LEMMA SoundsOfStart ==
  ASSUME Shape, Sounds, NEW p \in Processes, Start(p)
  PROVE  Sounds'
<1>1. SoundOf(p) /\ mode[p] # "working"
  BY DEF Sounds, Start
<1>2. PICK list \in Lists : queue' = [queue EXCEPT ![p] = list]
  BY DEF Start
<1>3. /\ \A q \in Processes : again'[q] = again[q] /\ timer'[q] = timer[q] /\ Busy(q)' = Busy(q)
      /\ mode' = [mode EXCEPT ![p] = "working"]
  BY DEF Start, rounds, Busy
<1>4. mode'[p] = "working" /\ queue'[p] = list
  BY <1>2, <1>3 DEF Shape
<1>5. list \in Seq(Keys) /\ Distinct(list) /\ QueuedIn(list) = Keys
  BY Listed
<1>6. SoundOf(p)'
  BY <1>1, <1>3, <1>4, <1>5 DEF SoundOf, Sound
<1>7. \A q \in Processes \ {p} : Same(q)
  BY <1>2, <1>3 DEF Same, Shape
<1>8. QED BY <1>6, <1>7, OfOne

LEMMA SoundsOfStop ==
  ASSUME Shape, Sounds, NEW p \in Processes, Stop(p)
  PROVE  Sounds'
<1>1. /\ mode'[p] = "down" /\ queue'[p] = <<>> /\ again'[p] = {} /\ timer'[p] = {}
      /\ phase'[p] = [k \in Keys |-> "idle"]
  BY DEF Stop, Shape
<1>2. Busy(p)' = {}
  BY <1>1 DEF Busy
<1>3. Cardinality(Busy(p)') <= Workers
  BY <1>2, FS_EmptySet, WorkersAreSome
<1>4. SoundOf(p)'
  BY <1>1, <1>2, <1>3, EmptyQueue DEF SoundOf, Sound
<1>5. ASSUME NEW q \in Processes \ {p} PROVE Same(q)
  <2>1. phase'[q] = phase[q]
    BY DEF Stop, Shape
  <2>2. QED BY <2>1 DEF Same, Stop, Shape, Busy
<1>6. QED BY <1>4, <1>5, OfOne

LEMMA SoundsOfTake ==
  ASSUME Shape, Sounds, NEW p \in Processes, Take(p)
  PROVE  Sounds'
<1> DEFINE k == Head(queue[p])
<1>1. SoundOf(p) /\ mode[p] = "working" /\ queue[p] # <<>> /\ Cardinality(Busy(p)) < Workers
  BY DEF Sounds, Take, FreeWorker
<1>2. /\ queue[p] \in Seq(Keys) /\ Distinct(queue[p]) /\ QueuedIn(queue[p]) \cap Busy(p) = {}
      /\ Busy(p) \subseteq Keys
  BY <1>1 DEF SoundOf, Sound
<1>3. /\ Tail(queue[p]) \in Seq(Keys) /\ Distinct(Tail(queue[p]))
      /\ k \in QueuedIn(queue[p]) /\ k \in Keys
      /\ QueuedIn(Tail(queue[p])) = QueuedIn(queue[p]) \ {k}
  BY <1>1, <1>2, Dequeued
<1>4. /\ queue' = [queue EXCEPT ![p] = Tail(@)] /\ phase' = [phase EXCEPT ![p][k] = "probing"]
      /\ mode' = mode /\ again' = again /\ timer' = timer
  BY DEF Take
<1> HIDE DEF k
<1>5. queue'[p] = Tail(queue[p])
  BY <1>4 DEF Shape
<1>6. Busy(p)' = Busy(p) \cup {k}
  BY <1>3, <1>4 DEF Busy, Shape
<1>7. Cardinality(Busy(p)') <= Workers
  BY <1>1, <1>2, <1>3, <1>6, Taking
<1>8. SoundOf(p)'
  BY <1>1, <1>2, <1>3, <1>4, <1>5, <1>6, <1>7 DEF SoundOf, Sound
<1>9. ASSUME NEW q \in Processes \ {p} PROVE Same(q)
  <2>1. phase'[q] = phase[q] /\ queue'[q] = queue[q]
    BY <1>4 DEF Shape
  <2>2. QED BY <1>4, <2>1 DEF Same, Busy
<1>10. QED BY <1>8, <1>9, OfOne

LEMMA SoundsNext == Shape /\ Sounds /\ Next => Sounds'
<1>1. SUFFICES ASSUME Shape, Sounds, Next PROVE Sounds'
  OBVIOUS
<1>2. CASE \/ RenewalFails \/ LeaseAges \/ \E p \in Processes : Renew(p)
           \/ \E k \in Keys : BackendChanges(k)
  <2>1. /\ mode' = mode /\ queue' = queue /\ again' = again /\ timer' = timer /\ phase' = phase
    BY <1>2 DEF RenewalFails, LeaseAges, Renew, BackendChanges, work, rounds
  <2>2. \A q \in Processes : Same(q)
    BY <2>1 DEF Same, Busy
  <2>3. QED BY <1>1, <2>2, OfNone
<1>3. ASSUME NEW p \in Processes, Start(p) PROVE Sounds'
  BY <1>1, <1>3, SoundsOfStart
<1>4. ASSUME NEW p \in Processes, LoseLease(p) \/ Crash(p) PROVE Sounds'
  <2>1. Stop(p)
    BY <1>4 DEF LoseLease, Crash
  <2>2. QED BY <1>1, <2>1, SoundsOfStop
<1>5. ASSUME NEW p \in Processes, Restart(p) PROVE Sounds'
  <2>1. mode[p] # "working" /\ mode'[p] = "standby"
    BY <1>1, <1>5 DEF Restart, Shape
  <2>2. \A q \in Processes : /\ queue'[q] = queue[q] /\ again'[q] = again[q]
                             /\ timer'[q] = timer[q] /\ Busy(q)' = Busy(q)
    BY <1>5 DEF Restart, work, rounds, Busy
  <2>3. SoundOf(p)'
    BY <1>1, <2>1, <2>2 DEF Sounds, SoundOf, Sound
  <2>4. \A q \in Processes \ {p} : Same(q)
    BY <1>1, <1>5, <2>2 DEF Same, Restart, Shape
  <2>5. QED BY <1>1, <2>3, <2>4, OfOne
<1>6. ASSUME NEW p \in Processes, Take(p) PROVE Sounds'
  BY <1>1, <1>6, SoundsOfTake
<1>7. ASSUME NEW p \in Processes, NEW k \in Keys, Round(p, k) PROVE Sounds'
  BY <1>1, <1>7, SoundsOfRound
<1>8. ASSUME NEW p \in Processes, NEW k \in Keys, TimerFires(p, k) \/ Event(p, k) PROVE Sounds'
  <2>1. SoundOf(p)
    BY <1>1 DEF Sounds
  <2>2. mode[p] = "working"
    BY <1>8, <2>1 DEF TimerFires, Event, SoundOf, Sound
  <2>3. mode' = mode /\ phase' = phase /\ Add(p, k)
    BY <1>8 DEF TimerFires, Event, rounds
  <2>4. /\ timer'[p] \subseteq timer[p] /\ timer[p] \subseteq timer'[p] \cup {k}
        /\ \A q \in Processes \ {p} : timer'[q] = timer[q]
    BY <1>1, <1>8 DEF TimerFires, Event, Shape
  <2>5. SoundOf(p)'
    BY <1>1, <2>1, <2>2, <2>3, <2>4, Added
  <2>6. \A q \in Processes \ {p} : queue'[q] = queue[q] /\ again'[q] = again[q]
    BY <1>1, <2>3 DEF Add, Shape
  <2>7. \A q \in Processes \ {p} : Same(q)
    BY <2>3, <2>4, <2>6 DEF Same, Busy
  <2>8. QED BY <1>1, <2>5, <2>7, OfOne
<1>9. ASSUME NEW r \in sent, Arrives(r) PROVE Sounds'
  <2>1. r.key \in Keys
    BY <1>1 DEF Shape
  <2>2. /\ mode' = mode /\ queue' = queue /\ again' = again /\ timer' = timer
        /\ phase' = Outdated(Nobody, r.key)
    BY <1>9 DEF Arrives, work
  <2>3. \A q \in Processes : Busy(q)' = Busy(q)
    BY <1>1, <2>1, <2>2, OutdatedBusy DEF Busy
  <2>4. QED BY <1>1, <2>2, <2>3, OfNone DEF Same
<1>10. QED
  BY <1>1, <1>2, <1>3, <1>4, <1>5, <1>6, <1>7, <1>8, <1>9 DEF Next, Process

------------------------------------------------------------------------------
\* Who works holds the lease, and gives up before the lease runs out.

Leads ==
  LeaderElect =>
    \A p \in Processes : mode[p] = "working" => leader = p /\ age <= RenewDeadline

LEMMA OnlyTheLeader == Sounds /\ Leads => OneAtATime
<1>1. SUFFICES ASSUME Sounds, Leads, LeaderElect, NEW p \in Processes, NEW q \in Processes, p # q
               PROVE  Busy(p) \cap Busy(q) = {}
  BY DEF OneAtATime
<1>2. SoundOf(p) /\ SoundOf(q)
  BY <1>1 DEF Sounds
<1>3. mode[p] # "working" \/ mode[q] # "working"
  BY <1>1 DEF Leads
<1>4. QED BY <1>2, <1>3 DEF SoundOf, Sound

LEMMA LeadsNext == Shape /\ Leads /\ Next => Leads'
<1>1. SUFFICES ASSUME Shape, Leads, Next, LeaderElect PROVE Leads'
  BY FlagsAssumption DEF Leads
<1>2. age \in 0..LeaseDuration
  BY <1>1 DEF Shape
<1>3. CASE RenewalFails
  BY <1>1, <1>2, <1>3 DEF RenewalFails, Leads, RenewDeadline, LeaseDuration
<1>4. CASE LeaseAges
  BY <1>1, <1>4 DEF LeaseAges, Leads
<1>5. ASSUME NEW p \in Processes, Start(p) PROVE Leads'
  <2>1. leader = Nobody \/ age = LeaseDuration
    BY <1>1, <1>5 DEF Start, MayWork
  <2>2. \A q \in Processes : mode[q] # "working"
    BY <1>1, <2>1, NobodyAssumption DEF Leads, LeaseDuration, RenewDeadline
  <2>3. leader' = p /\ age' = 0 /\ mode' = [mode EXCEPT ![p] = "working"]
    BY <1>1, <1>5 DEF Start
  <2>4. QED BY <1>1, <2>2, <2>3 DEF Leads, Shape, RenewDeadline
<1>6. ASSUME NEW p \in Processes, Renew(p) PROVE Leads'
  BY <1>1, <1>6 DEF Renew, Leads, RenewDeadline
<1>7. ASSUME NEW p \in Processes, NEW to \in {"down", "standby"},
             mode' = [mode EXCEPT ![p] = to], leader' = leader, age' = age
      PROVE  Leads'
  BY <1>1, <1>7 DEF Leads, Shape
<1>8. ASSUME NEW p \in Processes, LoseLease(p) \/ Crash(p) \/ Restart(p) PROVE Leads'
  BY <1>7, <1>8 DEF LoseLease, Crash, Stop, Restart, lease
<1>9. CASE mode' = mode /\ leader' = leader /\ age' = age
  BY <1>1, <1>9 DEF Leads
<1>10. ASSUME NEW p \in Processes, Take(p) PROVE Leads'
  BY <1>9, <1>10 DEF Take, lease
<1>11. ASSUME NEW p \in Processes, NEW k \in Keys, Round(p, k) \/ TimerFires(p, k) \/ Event(p, k)
       PROVE  Leads'
  BY <1>9, <1>11 DEF Round, Probe, Read, ReadOld, Write, Conflict, TimerFires, Event, lease
<1>12. ASSUME NEW r \in sent, Arrives(r) PROVE Leads'
  BY <1>9, <1>12 DEF Arrives, lease
<1>13. ASSUME NEW k \in Keys, BackendChanges(k) PROVE Leads'
  BY <1>9, <1>13 DEF BackendChanges, lease
<1>14. QED
  BY <1>1, <1>3, <1>4, <1>5, <1>6, <1>8, <1>10, <1>11, <1>12, <1>13 DEF Next, Process

------------------------------------------------------------------------------
\* What is stored, what is on its way and what a round has probed are in the
\* order of the backend's changes.

Later == {"probed", "read", "stale"}

OrderedAt(k) ==
  /\ stored[k] <= backend[k]
  /\ \A r \in sent : r.key = k => stored[k] <= r.value /\ r.value <= backend[k]
  /\ \A p \in Processes : phase[p][k] \in Later =>
       /\ stored[k] <= value[p][k] /\ value[p][k] <= backend[k]
       /\ \A r \in sent : r.key = k => r.value <= value[p][k]

Ordered == LeaderElect => \A k \in Keys : OrderedAt(k)

\* Nobody probes, stores or sends for key k.
LEMMA OrderStays ==
  ASSUME Shape, NEW k \in Keys, OrderedAt(k), stored'[k] = stored[k],
         backend'[k] \in Nat, backend'[k] >= backend[k],
         \A r \in sent' : r.key = k => r \in sent,
         \A p \in Processes : phase'[p][k] \in Later =>
           phase[p][k] \in Later /\ value'[p][k] = value[p][k]
  PROVE  OrderedAt(k)'
<1>1. stored[k] \in Nat /\ backend[k] \in Nat
  BY DEF Shape
<1>2. \A r \in sent : r.value \in Nat
  BY DEF Shape
<1>3. \A p \in Processes : value[p][k] \in Nat
  BY DEF Shape
<1>4. stored'[k] <= backend'[k]
  BY <1>1 DEF OrderedAt
<1>5. \A r \in sent' : r.key = k => stored'[k] <= r.value /\ r.value <= backend'[k]
  BY <1>1, <1>2 DEF OrderedAt
<1>6. ASSUME NEW p \in Processes, phase'[p][k] \in Later
      PROVE  /\ stored'[k] <= value'[p][k] /\ value'[p][k] <= backend'[k]
             /\ \A r \in sent' : r.key = k => r.value <= value'[p][k]
  BY <1>1, <1>3, <1>6 DEF OrderedAt
<1>7. QED BY <1>4, <1>5, <1>6 DEF OrderedAt

\* What may be stored now is newer, and nothing else is on its way then.
LEMMA OrderAdvances ==
  ASSUME Shape, NEW k \in Keys, OrderedAt(k), stored'[k] <= backend[k], backend' = backend,
         \A r \in sent' : r.key # k,
         \A p \in Processes : phase'[p][k] \in Later =>
           phase[p][k] \in Later /\ value'[p][k] = value[p][k] /\ stored'[k] <= value[p][k]
  PROVE  OrderedAt(k)'
BY DEF OrderedAt

LEMMA OrderOfStop ==
  ASSUME Shape, OneAtATime, LeaderElect, NEW p \in Processes, Stop(p),
         NEW k \in Keys, OrderedAt(k)
  PROVE  OrderedAt(k)'
<1>1. PICK gone \in SUBSET {j \in Keys : phase[p][j] = "read"} :
        sent' = sent \cup {[key |-> j, value |-> value[p][j]] : j \in gone}
  BY DEF Stop
<1>2. stored' = stored /\ backend' = backend /\ value' = value
  BY DEF Stop
<1>3. phase' = [phase EXCEPT ![p] = [j \in Keys |-> "idle"]]
  BY DEF Stop
<1>4. \A q \in Processes : phase'[q][k] \in Later => q # p /\ phase[q][k] \in Later
  BY <1>3 DEF Shape, Later
<1>5. CASE k \notin gone
  <2>1. \A r \in sent' : r.key = k => r \in sent
    BY <1>1, <1>5
  <2>2. backend'[k] \in Nat /\ backend'[k] >= backend[k]
    BY <1>2 DEF Shape
  <2>3. QED BY <1>2, <1>4, <2>1, <2>2, OrderStays
<1>6. CASE k \in gone
  <2>1. phase[p][k] = "read" /\ k \in Busy(p)
    BY <1>1, <1>6 DEF Busy
  <2>2. stored[k] <= value[p][k] /\ value[p][k] <= backend[k]
    BY <2>1 DEF OrderedAt, Later
  <2>3. \A q \in Processes : phase'[q][k] \notin Later
    BY <1>4, <2>1 DEF OneAtATime, Busy, Later
  <2>4. \A r \in sent' : r.key = k => r \in sent \/ r.value = value[p][k]
    BY <1>1
  <2>5. \A r \in sent' : r.key = k => stored[k] <= r.value /\ r.value <= backend[k]
    BY <2>2, <2>4 DEF OrderedAt
  <2>6. stored'[k] <= backend'[k]
    BY <1>2 DEF OrderedAt
  <2>7. QED BY <1>2, <2>3, <2>5, <2>6 DEF OrderedAt
<1>7. QED BY <1>5, <1>6

LEMMA OrderOfRound ==
  ASSUME Shape, OneAtATime, LeaderElect, NEW p \in Processes, NEW j \in Keys, Round(p, j),
         NEW k \in Keys, OrderedAt(k)
  PROVE  OrderedAt(k)'
<1>1. backend' = backend /\ backend'[k] \in Nat /\ backend'[k] >= backend[k]
  BY DEF Round, Probe, Read, ReadOld, Write, Conflict, Shape
<1>2. ASSUME stored'[k] = stored[k], sent' \subseteq sent \/ j = k,
             \A r \in sent' : r \in sent, \A q \in Processes : value'[q][k] = value[q][k],
             \A q \in Processes : phase'[q][k] \in Later => phase[q][k] \in Later
      PROVE  OrderedAt(k)'
  BY <1>1, <1>2, OrderStays
<1>3. CASE Probe(p, j)
  <2>1. /\ phase' = [phase EXCEPT ![p][j] = "probed"] /\ value' = [value EXCEPT ![p][j] = backend[j]]
        /\ stored' = stored /\ sent' = sent
    BY <1>3 DEF Probe
  <2>2. CASE j # k
    <3>1. \A q \in Processes : value'[q][k] = value[q][k] /\ phase'[q][k] = phase[q][k]
      BY <2>1, <2>2 DEF Shape
    <3>2. QED BY <1>2, <2>1, <3>1
  <2>3. CASE j = k
    <3>1. value'[p][k] = backend[k]
      BY <2>1, <2>3 DEF Shape
    <3>2. \A q \in Processes \ {p} : value'[q] = value[q] /\ phase'[q] = phase[q]
      BY <2>1 DEF Shape
    <3>3. stored[k] \in Nat /\ backend[k] \in Nat
      BY DEF Shape
    <3>4. ASSUME NEW q \in Processes, phase'[q][k] \in Later
          PROVE  /\ stored'[k] <= value'[q][k] /\ value'[q][k] <= backend'[k]
                 /\ \A r \in sent' : r.key = k => r.value <= value'[q][k]
      <4>1. CASE q = p
        BY <1>1, <2>1, <3>1, <3>3, <4>1 DEF OrderedAt
      <4>2. CASE q # p
        BY <1>1, <2>1, <3>2, <3>4, <4>2 DEF OrderedAt
      <4>3. QED BY <4>1, <4>2
    <3>5. QED BY <1>1, <2>1, <3>4 DEF OrderedAt
  <2>4. QED BY <2>2, <2>3
<1>4. ASSUME stored' = stored, sent' = sent, value' = value,
             NEW to, phase' = [phase EXCEPT ![p][j] = to], to \notin Later \/ phase[p][j] \in Later
      PROVE  OrderedAt(k)'
  <2>1. ASSUME NEW q \in Processes PROVE phase'[q][k] \in Later => phase[q][k] \in Later
    <3>1. phase'[q][k] = IF q = p /\ j = k THEN to ELSE phase[q][k]
      BY <1>4 DEF Shape
    <3>2. QED BY <1>4, <3>1
  <2>2. QED BY <1>2, <1>4, <2>1
<1>5. CASE Read(p, j)
  <2>1. /\ stored' = stored /\ sent' = sent /\ value' = value /\ phase[p][j] \in Later
        /\ \E to \in Phases : phase' = [phase EXCEPT ![p][j] = to]
    BY <1>5 DEF Read, Finish, Later, Phases
  <2>2. QED BY <1>4, <2>1
<1>6. CASE ReadOld(p, j) \/ Conflict(p, j)
  <2>1. /\ stored' = stored /\ sent' = sent /\ value' = value /\ phase[p][j] \in Later
        /\ \E to \in Phases : phase' = [phase EXCEPT ![p][j] = to]
    BY <1>6 DEF ReadOld, Conflict, Finish, Later, Phases
  <2>2. QED BY <1>4, <2>1
<1>7. CASE Write(p, j)
  <2>1. /\ stored' = [stored EXCEPT ![j] = value[p][j]] /\ value' = value
        /\ sent' = {r \in sent : r.key # j} /\ phase[p][j] = "read"
        /\ phase' = [Outdated(p, j) EXCEPT ![p][j] = "idle"]
    BY <1>7 DEF Write, Finish
  <2>2. Outdated(p, j) \in [Processes -> [Keys -> Phases]]
    BY OutdatedShape
  <2>3. \A q \in Processes : phase'[q][k] \in Later => Outdated(p, j)[q][k] \in Later /\ ~(q = p /\ j = k)
    BY <2>1, <2>2 DEF Later
  <2>4. \A q \in Processes : Outdated(p, j)[q][k] \in Later => phase[q][k] \in Later
    BY DEF Outdated, Shape, Later
  <2>5. CASE j # k
    <3>1. stored'[k] = stored[k] /\ \A r \in sent' : r \in sent
      BY <2>1, <2>5
    <3>2. QED BY <1>2, <2>1, <2>3, <2>4, <3>1
  <2>6. CASE j = k
    <3>1. k \in Busy(p)
      BY <2>1, <2>6 DEF Busy
    <3>2. \A q \in Processes : phase'[q][k] \notin Later
      BY <2>3, <2>4, <2>6, <3>1 DEF OneAtATime, Busy, Later
    <3>3. stored'[k] = value[p][k] /\ value[p][k] <= backend[k]
      BY <2>1, <2>6 DEF OrderedAt, Later, Shape
    <3>4. \A r \in sent' : r.key # k
      BY <2>1, <2>6
    <3>5. QED BY <1>1, <3>2, <3>3, <3>4, OrderAdvances
  <2>7. QED BY <2>5, <2>6
<1>8. QED BY <1>3, <1>5, <1>6, <1>7 DEF Round

LEMMA OrderedNext == Shape /\ OneAtATime /\ Ordered /\ Next => Ordered'
<1>1. SUFFICES ASSUME Shape, OneAtATime, LeaderElect, Next, NEW k \in Keys, OrderedAt(k)
               PROVE  OrderedAt(k)'
  BY DEF Ordered
<1>2. ASSUME stored' = stored, sent' = sent, backend'[k] \in Nat, backend'[k] >= backend[k],
             \A p \in Processes : phase'[p][k] = phase[p][k] \/ phase'[p][k] \notin Later,
             value' = value
      PROVE  OrderedAt(k)'
  BY <1>1, <1>2, OrderStays
<1>3. ASSUME stored' = stored, sent' = sent, backend' = backend, phase' = phase, value' = value
      PROVE  OrderedAt(k)'
  BY <1>1, <1>3 DEF OrderedAt
<1>4. CASE \/ RenewalFails \/ LeaseAges
           \/ \E p \in Processes : Start(p) \/ Renew(p) \/ Restart(p)
           \/ \E p \in Processes, j \in Keys : TimerFires(p, j) \/ Event(p, j)
  BY <1>3, <1>4
     DEF RenewalFails, LeaseAges, Start, Renew, Restart, TimerFires, Event, rounds
<1>5. ASSUME NEW p \in Processes, LoseLease(p) \/ Crash(p) PROVE OrderedAt(k)'
  BY <1>1, <1>5, OrderOfStop DEF LoseLease, Crash
<1>6. ASSUME NEW p \in Processes, Take(p) PROVE OrderedAt(k)'
  <2>1. /\ stored' = stored /\ sent' = sent /\ backend' = backend /\ value' = value
        /\ phase' = [phase EXCEPT ![p][Head(queue[p])] = "probing"]
    BY <1>6 DEF Take
  <2>2. \A q \in Processes : phase'[q][k] = phase[q][k] \/ phase'[q][k] \notin Later
    BY <1>1, <2>1 DEF Shape, Later
  <2>3. backend'[k] \in Nat /\ backend'[k] >= backend[k]
    BY <1>1, <2>1 DEF Shape
  <2>4. QED BY <1>2, <2>1, <2>2, <2>3
<1>7. ASSUME NEW p \in Processes, NEW j \in Keys, Round(p, j) PROVE OrderedAt(k)'
  BY <1>1, <1>7, OrderOfRound
<1>8. ASSUME NEW r \in sent, Arrives(r) PROVE OrderedAt(k)'
  <2>1. /\ stored' = [stored EXCEPT ![r.key] = r.value] /\ backend' = backend /\ value' = value
        /\ sent' = {q \in sent : q.key # r.key} /\ phase' = Outdated(Nobody, r.key)
    BY <1>8 DEF Arrives
  <2>2. \A q \in Processes : phase'[q][k] \in Later => phase[q][k] \in Later
    BY <1>1, <2>1 DEF Outdated, Shape, Later
  <2>3. CASE r.key # k
    <3>1. stored'[k] = stored[k] /\ \A q \in sent' : q \in sent
      BY <2>1, <2>3
    <3>2. backend'[k] \in Nat /\ backend'[k] >= backend[k]
      BY <1>1, <2>1 DEF Shape
    <3>3. QED BY <1>1, <2>1, <2>2, <3>1, <3>2, OrderStays
  <2>4. CASE r.key = k
    <3>1. stored'[k] = r.value
      BY <1>1, <2>1, <2>4 DEF Shape
    <3>2. r.value <= backend[k] /\ \A q \in Processes : phase[q][k] \in Later => r.value <= value[q][k]
      BY <1>1, <2>4 DEF OrderedAt
    <3>3. \A q \in sent' : q.key # k
      BY <2>1, <2>4
    <3>4. QED BY <1>1, <2>1, <2>2, <3>1, <3>2, <3>3, OrderAdvances
  <2>5. QED BY <2>3, <2>4
<1>9. ASSUME NEW j \in Keys, BackendChanges(j) PROVE OrderedAt(k)'
  <2>1. /\ stored' = stored /\ sent' = sent /\ phase' = phase /\ value' = value
        /\ backend' = [backend EXCEPT ![j] = @ + 1]
    BY <1>9 DEF BackendChanges, rounds
  <2>2. backend'[k] \in Nat /\ backend'[k] >= backend[k]
    BY <1>1, <2>1 DEF Shape
  <2>3. QED BY <1>2, <2>1, <2>2
<1>10. QED
  BY <1>1, <1>4, <1>5, <1>6, <1>7, <1>8, <1>9 DEF Next, Process

LEMMA StoredAdvances ==
  ASSUME Shape, Ordered, LeaderElect, Next, NEW k \in Keys
  PROVE  stored'[k] >= stored[k]
<1>1. stored[k] \in Nat /\ OrderedAt(k)
  BY DEF Shape, Ordered
<1>2. CASE stored' = stored
  BY <1>1, <1>2
<1>3. ASSUME NEW p \in Processes, NEW j \in Keys, Write(p, j) PROVE stored'[k] >= stored[k]
  <2>1. stored' = [stored EXCEPT ![j] = value[p][j]] /\ phase[p][j] = "read"
    BY <1>3 DEF Write
  <2>2. CASE j = k
    BY <1>1, <2>1, <2>2 DEF OrderedAt, Later, Shape
  <2>3. CASE j # k
    BY <1>1, <2>1, <2>3
  <2>4. QED BY <2>2, <2>3
<1>4. ASSUME NEW r \in sent, Arrives(r) PROVE stored'[k] >= stored[k]
  <2>1. stored' = [stored EXCEPT ![r.key] = r.value] /\ r.value \in Nat
    BY <1>4 DEF Arrives, Shape
  <2>2. CASE r.key = k
    BY <1>1, <2>1, <2>2 DEF OrderedAt, Shape
  <2>3. CASE r.key # k
    BY <1>1, <2>1, <2>3
  <2>4. QED BY <2>2, <2>3
<1>5. ASSUME NEW p \in Processes, Process(p) \/ Crash(p) PROVE stored' = stored
  BY <1>5 DEF Process, Crash, Start, Renew, LoseLease, Restart, Take, Stop
<1>6. ASSUME NEW p \in Processes, NEW j \in Keys,
             \/ Probe(p, j) \/ Read(p, j) \/ ReadOld(p, j) \/ Conflict(p, j)
             \/ TimerFires(p, j) \/ Event(p, j)
      PROVE  stored' = stored
  BY <1>6 DEF Probe, Read, ReadOld, Conflict, TimerFires, Event
<1>7. QED
  BY <1>2, <1>3, <1>4, <1>5, <1>6
     DEF Next, Round, RenewalFails, LeaseAges, BackendChanges

------------------------------------------------------------------------------
\* The theorems.

IInv == Shape /\ Sounds /\ Leads /\ Ordered

LEMMA IInvInit == Init => IInv
<1>1. SUFFICES ASSUME Init PROVE Leads /\ Ordered
  BY ShapeInit DEF IInv
<1>2. Leads
  BY <1>1 DEF Init, Leads
<1>3. Ordered
  BY <1>1 DEF Init, Ordered, OrderedAt, Later
<1>4. QED BY <1>2, <1>3

LEMMA IInvNext == IInv /\ [Next]_vars => IInv'
<1>1. SUFFICES ASSUME IInv, [Next]_vars PROVE IInv'
  OBVIOUS
<1>2. CASE Next
  BY <1>1, <1>2, ShapeNext, SoundsNext, LeadsNext, OnlyTheLeader, OrderedNext DEF IInv
<1>3. CASE UNCHANGED vars
  <2>1. /\ mode' = mode /\ leader' = leader /\ age' = age /\ queue' = queue /\ again' = again
        /\ timer' = timer /\ phase' = phase /\ value' = value /\ sent' = sent
        /\ backend' = backend /\ stored' = stored /\ left' = left
    BY <1>3 DEF vars, lease, work, rounds
  <2>2. Shape'
    BY <1>1, <2>1 DEF IInv, Shape
  <2>3. \A p \in Processes : Same(p)
    BY <2>1 DEF Same, Busy
  <2>4. Sounds'
    BY <1>1, <2>3, OfNone DEF IInv
  <2>5. Leads' /\ Ordered'
    BY <1>1, <2>1 DEF IInv, Leads, Ordered, OrderedAt
  <2>6. QED BY <2>2, <2>4, <2>5 DEF IInv
<1>4. QED BY <1>1, <1>2, <1>3

\* In every instance queues hold no key twice or while it is worked on, and no
\* process works on more keys than it has workers.
THEOREM TypeCorrect == Spec => []TypeOK
<1>1. IInv => TypeOK
  BY ShapeGivesType DEF IInv
<1>2. QED BY <1>1, IInvInit, IInvNext, PTL DEF Spec

\* With leader election no two replicas ever work on the same key, whatever
\* fails, and however many replicas there are.
THEOREM OneAtATimeCorrect == Spec => []OneAtATime
<1>1. IInv => OneAtATime
  BY OnlyTheLeader DEF IInv
<1>2. QED BY <1>1, IInvInit, IInvNext, PTL DEF Spec

\* With leader election the Endpoints never go back to an older state of the
\* backend, late writes of processes that are gone included.
THEOREM NeverBackwardsCorrect == Spec => NeverBackwards
<1>1. IInv /\ [Next]_vars => [LeaderElect => \A k \in Keys : stored'[k] >= stored[k]]_vars
  BY StoredAdvances DEF IInv
<1>2. QED BY <1>1, IInvInit, IInvNext, PTL DEF Spec, NeverBackwards

\* However many workers there are and whatever is added while they work, a
\* working process has every key in its queue, with a worker or on a timer.
THEOREM EveryKeyKept == Spec => []NoKeyForgotten
<1>1. IInv => NoKeyForgotten
  <2> SUFFICES ASSUME IInv, NEW p \in Processes, mode[p] = "working"
               PROVE  Queued(p) \cup Busy(p) \cup timer[p] = Keys
    BY DEF NoKeyForgotten
  <2>1. SoundOf(p) /\ Queued(p) = QueuedIn(queue[p])
    BY DEF IInv, Sounds, Queued, QueuedIn
  <2>2. QED BY <2>1 DEF SoundOf, Sound
<1>2. QED BY <1>1, IInvInit, IInvNext, PTL DEF Spec

------------------------------------------------------------------------------
\* Replicas implements Following.

\* Nothing is newer than the backend, with or without leader election: neither
\* what is stored nor what any round has found, nor what is on its way.
NoneNewer ==
  /\ \A k \in Keys : stored[k] <= backend[k]
  /\ \A p \in Processes, k \in Keys : value[p][k] <= backend[k]
  /\ \A r \in sent : r.value <= backend[r.key]

LEMMA NoneNewerInit == Init => NoneNewer
BY DEF Init, NoneNewer

\* What is stored, found or sent now was already there, or is the backend's
\* present state.
LEMMA NoneNewerKept ==
  ASSUME Shape, NoneNewer, backend' \in [Keys -> Nat],
         \A k \in Keys : backend'[k] >= backend[k],
         \A k \in Keys : stored'[k] \in Nat /\ stored'[k] <= backend[k],
         \A p \in Processes, k \in Keys : value'[p][k] \in Nat /\ value'[p][k] <= backend[k],
         \A r \in sent' : r.key \in Keys /\ r.value \in Nat /\ r.value <= backend[r.key]
  PROVE  NoneNewer'
<1>1. \A k \in Keys : backend[k] \in Nat /\ backend'[k] \in Nat
  BY DEF Shape
<1>2. QED BY <1>1 DEF NoneNewer

LEMMA NoneNewerNext == Shape /\ NoneNewer /\ Next => NoneNewer'
<1>1. SUFFICES ASSUME Shape, NoneNewer, Next PROVE NoneNewer'
  OBVIOUS
<1>2. /\ \A k \in Keys : stored[k] \in Nat /\ stored[k] <= backend[k]
      /\ \A p \in Processes, k \in Keys : value[p][k] \in Nat /\ value[p][k] <= backend[k]
      /\ \A r \in sent : r.key \in Keys /\ r.value \in Nat /\ r.value <= backend[r.key]
      /\ backend \in [Keys -> Nat] /\ \A k \in Keys : backend[k] \in Nat
  BY <1>1 DEF Shape, NoneNewer
<1>3. ASSUME UNCHANGED <<value, backend>>, sent' \subseteq sent,
             \A k \in Keys : stored'[k] \in Nat /\ stored'[k] <= backend[k]
      PROVE  NoneNewer'
  BY <1>1, <1>2, <1>3, NoneNewerKept
<1>4. ASSUME UNCHANGED <<value, backend, sent, stored>> PROVE NoneNewer'
  BY <1>2, <1>3, <1>4
<1>5. ASSUME NEW p \in Processes, Stop(p) PROVE NoneNewer'
  <2>1. PICK gone \in SUBSET {k \in Keys : phase[p][k] = "read"} :
          sent' = sent \cup {[key |-> k, value |-> value[p][k]] : k \in gone}
    BY <1>5 DEF Stop
  <2>2. UNCHANGED <<value, backend, stored>>
    BY <1>5 DEF Stop
  <2>3. \A r \in sent' : r.key \in Keys /\ r.value \in Nat /\ r.value <= backend[r.key]
    BY <1>2, <2>1
  <2>4. QED BY <1>1, <1>2, <2>2, <2>3, NoneNewerKept
<1>6. ASSUME NEW p \in Processes, NEW j \in Keys, Probe(p, j) PROVE NoneNewer'
  <2>1. value' = [value EXCEPT ![p][j] = backend[j]] /\ UNCHANGED <<backend, sent, stored>>
    BY <1>6 DEF Probe
  <2>2. \A q \in Processes, k \in Keys : value'[q][k] \in Nat /\ value'[q][k] <= backend[k]
    BY <1>1, <1>2, <2>1 DEF Shape
  <2>3. QED BY <1>1, <1>2, <2>1, <2>2, NoneNewerKept
<1>7. ASSUME NEW p \in Processes, NEW j \in Keys, Write(p, j) PROVE NoneNewer'
  <2>1. /\ stored' = [stored EXCEPT ![j] = value[p][j]] /\ sent' \subseteq sent
        /\ UNCHANGED <<value, backend>>
    BY <1>7 DEF Write
  <2>2. \A k \in Keys : stored'[k] \in Nat /\ stored'[k] <= backend[k]
    BY <1>1, <1>2, <2>1 DEF Shape
  <2>3. QED BY <1>3, <2>1, <2>2
<1>8. ASSUME NEW r \in sent, Arrives(r) PROVE NoneNewer'
  <2>1. /\ stored' = [stored EXCEPT ![r.key] = r.value] /\ sent' \subseteq sent
        /\ UNCHANGED <<value, backend>>
    BY <1>8 DEF Arrives
  <2>2. \A k \in Keys : stored'[k] \in Nat /\ stored'[k] <= backend[k]
    BY <1>1, <1>2, <2>1 DEF Shape
  <2>3. QED BY <1>3, <2>1, <2>2
<1>9. ASSUME NEW j \in Keys, BackendChanges(j) PROVE NoneNewer'
  <2>1. backend' = [backend EXCEPT ![j] = @ + 1] /\ UNCHANGED <<value, sent, stored>>
    BY <1>9 DEF BackendChanges, rounds
  <2>2. backend' \in [Keys -> Nat] /\ \A k \in Keys : backend'[k] >= backend[k]
    BY <1>2, <2>1
  <2>3. QED BY <1>1, <1>2, <2>1, <2>2, NoneNewerKept
<1>10. CASE \/ RenewalFails \/ LeaseAges
            \/ \E p \in Processes : Start(p) \/ Renew(p) \/ Restart(p) \/ Take(p)
            \/ \E p \in Processes, j \in Keys :
                 Read(p, j) \/ ReadOld(p, j) \/ Conflict(p, j) \/ TimerFires(p, j) \/ Event(p, j)
  BY <1>4, <1>10
     DEF RenewalFails, LeaseAges, Start, Renew, Restart, Take, Read, ReadOld, Conflict,
         TimerFires, Event, rounds
<1>11. QED
  BY <1>1, <1>5, <1>6, <1>7, <1>8, <1>9, <1>10
     DEF Next, Process, Round, LoseLease, Crash

\* One key is stored, with a state its backend was in.
LEMMA ShowsKey ==
  ASSUME Shape, NEW k \in Keys, NEW n \in Nat, n <= backend[k], LeaderElect => n >= stored[k],
         stored' = [stored EXCEPT ![k] = n], backend' = backend
  PROVE  Follow!Next
<1>1. n \in 0..backend[k]
  BY DEF Shape
<1>2. Follow!Show(k)
  BY <1>1 DEF Follow!Show
<1>3. QED BY <1>2 DEF Follow!Next

LEMMA StepFollows ==
  IInv /\ NoneNewer /\ [Next]_vars => [Follow!Next]_Follow!vars
<1>1. SUFFICES ASSUME IInv, NoneNewer, [Next]_vars PROVE [Follow!Next]_Follow!vars
  OBVIOUS
<1>2. Shape /\ Ordered
  BY <1>1 DEF IInv
<1>3. ASSUME UNCHANGED <<backend, stored>> PROVE UNCHANGED Follow!vars
  BY <1>3 DEF Follow!vars
<1>4. ASSUME NEW p \in Processes, NEW j \in Keys, Write(p, j) PROVE Follow!Next
  <2>1. /\ stored' = [stored EXCEPT ![j] = value[p][j]] /\ backend' = backend
        /\ value[p][j] \in Nat /\ value[p][j] <= backend[j]
    BY <1>1, <1>2, <1>4 DEF Write, NoneNewer, Shape
  <2>2. LeaderElect => value[p][j] >= stored[j]
    BY <1>2, <1>4, <2>1 DEF Write, Ordered, OrderedAt, Later, Shape
  <2>3. QED BY <1>2, <2>1, <2>2, ShowsKey
<1>5. ASSUME NEW r \in sent, Arrives(r) PROVE Follow!Next
  <2>1. /\ stored' = [stored EXCEPT ![r.key] = r.value] /\ backend' = backend
        /\ r.key \in Keys /\ r.value \in Nat /\ r.value <= backend[r.key]
    BY <1>1, <1>2, <1>5 DEF Arrives, NoneNewer, Shape
  <2>2. LeaderElect => r.value >= stored[r.key]
    BY <1>2, <2>1 DEF Ordered, OrderedAt, Shape
  <2>3. QED BY <1>2, <2>1, <2>2, ShowsKey
<1>6. ASSUME NEW j \in Keys, BackendChanges(j) PROVE Follow!Next
  <2>1. Follow!BackendChanges(j)
    BY <1>6 DEF BackendChanges, Follow!BackendChanges
  <2>2. QED BY <2>1 DEF Follow!Next
<1>7. CASE \/ RenewalFails \/ LeaseAges
           \/ \E p \in Processes : Process(p) \/ Crash(p)
           \/ \E p \in Processes, j \in Keys :
                \/ Probe(p, j) \/ Read(p, j) \/ ReadOld(p, j) \/ Conflict(p, j)
                \/ TimerFires(p, j) \/ Event(p, j)
  BY <1>3, <1>7
     DEF RenewalFails, LeaseAges, Process, Start, Renew, LoseLease, Restart, Take, Crash,
         Stop, Probe, Read, ReadOld, Conflict, TimerFires, Event
<1>8. CASE UNCHANGED vars
  BY <1>3, <1>8 DEF vars
<1>9. QED
  BY <1>1, <1>4, <1>5, <1>6, <1>7, <1>8 DEF Next, Round

\* For any number of replicas, keys and workers, with or without leader
\* election, the replicas together are one writer that follows the backends:
\* the Endpoints show states the backend was in, in order when one is elected.
THEOREM ReplicasFollow == Spec => EndpointsFollow
<1>1. Init => Follow!Init
  BY DEF Init, Follow!Init
<1>2. IInv /\ NoneNewer /\ [Next]_vars => NoneNewer'
  <2>1. CASE Next
    BY <2>1, NoneNewerNext DEF IInv
  <2>2. CASE UNCHANGED vars
    BY <2>2 DEF vars, rounds, NoneNewer
  <2>3. QED BY <2>1, <2>2
<1>3. QED
  BY <1>1, <1>2, IInvInit, IInvNext, NoneNewerInit, StepFollows, PTL
     DEF Spec, EndpointsFollow, Follow!Spec

=============================================================================
