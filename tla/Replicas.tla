------------------------------- MODULE Replicas -------------------------------
(***************************************************************************)
(* Several operator processes and several ClusterEndpoints ("keys"): who   *)
(* works, on what, and whether every key gets its turn.  The chart runs    *)
(* two replicas with --leader-elect; each serves its workqueue with a      *)
(* fixed number of workers (cmd/endpoints-operator/app/server.go).         *)
(*                                                                         *)
(* A round is: probe, read the Endpoints, store what the probe found, or   *)
(* find nothing to store.  Reconciler has all a round does for one key; in *)
(* this module the backend of a key is the number of its changes, so that  *)
(* an older finding can be told from a newer one.  The rounds of a key in  *)
(* Stuck never end (worker_grpc shows why there are such keys).            *)
(***************************************************************************)
EXTENDS Integers, Sequences, FiniteSets

CONSTANTS
  Processes,      \* the replicas
  Keys,           \* the ClusterEndpoints, each with a period
  Stuck,          \* those whose probes never end
  LeaderElect,    \* the flag --leader-elect
  MaxConcurrent,  \* the flag --maxconcurrent
  Budget,         \* how often backends change, events come, caches lag, renewals fail, processes crash
  Nobody          \* no holder of the lease

ASSUME KeysAssumption == IsFiniteSet(Keys)
ASSUME StuckAssumption == Stuck \subseteq Keys
ASSUME FlagsAssumption == LeaderElect \in BOOLEAN /\ MaxConcurrent \in Int
ASSUME BudgetAssumption == Budget \in Nat
ASSUME NobodyAssumption == Nobody \notin Processes

VARIABLES
  mode,     \* of each process: "standby", "working" or "down"
  leader,   \* the holder of the lease
  age,      \* time since its last renewal, in units of 5 seconds
  queue,    \* the workqueue of each process, without doubles
  again,    \* keys added to it while a worker has them
  timer,    \* keys that come back after their period
  phase,    \* where the round of each key is in each process
  value,    \* what that round has probed
  sent,     \* writes under way whose process has stopped: [key, value]
  backend,  \* how often the backend of each key has changed
  stored,   \* the state of the backend that its Endpoints show
  left      \* what is left of Budget

lease == <<leader, age>>
work == <<queue, again, timer>>
rounds == <<phase, value>>
vars == <<mode, lease, work, rounds, sent, backend, stored, left>>

\* "stale" is "read" of a version that is not, or no longer, the stored one.
Phases == {"idle", "probing", "probed", "read", "stale"}

Spend == left > 0 /\ left' = left - 1

------------------------------------------------------------------------------
\* Options and how run() uses them.

MutLeaseDuration == 2

LeaseDuration == 3

RenewDeadline == 2

MutWorkers == 1

Workers == IF MaxConcurrent > 0 THEN MaxConcurrent ELSE 1

MutAnyoneMayWork(p) == TRUE

\* With the flag, only who gets the lease may start its controllers.
MayWork(p) == LeaderElect => leader = Nobody \/ age = LeaseDuration

------------------------------------------------------------------------------
\* The workqueue.

Busy(p) == {k \in Keys : phase[p][k] # "idle"}

Queued(p) == {queue[p][i] : i \in DOMAIN queue[p]}

Lists == {q \in [1..Cardinality(Keys) -> Keys] : \A k \in Keys : \E i \in DOMAIN q : q[i] = k}

\* A key in the queue is not added again, one a worker has waits for its end.
Add(p, k) ==
  IF k \in Busy(p)
  THEN again' = [again EXCEPT ![p] = @ \cup {k}] /\ UNCHANGED queue
  ELSE /\ queue' = [queue EXCEPT ![p] = IF k \in Queued(p) THEN @ ELSE Append(@, k)]
       /\ UNCHANGED again

MutFinishNoTimer(p, k, phases) ==
  /\ phase' = [phases EXCEPT ![p][k] = "idle"]
  /\ queue' = [queue EXCEPT ![p] = IF k \in again[p] THEN Append(@, k) ELSE @]
  /\ again' = [again EXCEPT ![p] = @ \ {k}]
  /\ UNCHANGED timer

\* A round ends: the key comes back after its period, or at once if it was
\* added meanwhile.
Finish(p, k, phases) ==
  /\ phase' = [phases EXCEPT ![p][k] = "idle"]
  /\ queue' = [queue EXCEPT ![p] = IF k \in again[p] THEN Append(@, k) ELSE @]
  /\ again' = [again EXCEPT ![p] = @ \ {k}]
  /\ timer' = [timer EXCEPT ![p] = @ \cup {k}]

------------------------------------------------------------------------------
Init ==
  /\ mode = [p \in Processes |-> "standby"]
  /\ leader = Nobody
  /\ age = 0
  /\ queue = [p \in Processes |-> <<>>]
  /\ again = [p \in Processes |-> {}]
  /\ timer = [p \in Processes |-> {}]
  /\ phase = [p \in Processes |-> [k \in Keys |-> "idle"]]
  /\ value = [p \in Processes |-> [k \in Keys |-> 0]]
  /\ sent = {}
  /\ backend = [k \in Keys |-> 0]
  /\ stored = [k \in Keys |-> 0]
  /\ left = Budget

\* A process starts its controllers, and these list every key.
Start(p) ==
  /\ mode[p] = "standby"
  /\ MayWork(p)
  /\ mode' = [mode EXCEPT ![p] = "working"]
  /\ IF LeaderElect THEN leader' = p /\ age' = 0 ELSE UNCHANGED lease
  /\ \E list \in Lists : queue' = [queue EXCEPT ![p] = list]
  /\ UNCHANGED <<again, timer, rounds, sent, backend, stored, left>>

Renew(p) ==
  /\ mode[p] = "working"
  /\ leader = p
  /\ age > 0
  /\ age' = 0
  /\ UNCHANGED <<mode, leader, work, rounds, sent, backend, stored, left>>

\* Time passes while renewals fail.  Before it passes the deadline, the leader
\* gives up.
RenewalFails ==
  /\ leader # Nobody
  /\ mode[leader] = "working"
  /\ age < RenewDeadline
  /\ Spend
  /\ age' = age + 1
  /\ UNCHANGED <<mode, leader, work, rounds, sent, backend, stored>>

\* Time passes without a leader.
LeaseAges ==
  /\ leader # Nobody
  /\ mode[leader] # "working"
  /\ age < LeaseDuration
  /\ age' = age + 1
  /\ UNCHANGED <<mode, leader, work, rounds, sent, backend, stored, left>>

\* The process ends with all it was doing; writes that have left it may still
\* reach the API server.
Stop(p) ==
  /\ mode' = [mode EXCEPT ![p] = "down"]
  /\ queue' = [queue EXCEPT ![p] = <<>>]
  /\ again' = [again EXCEPT ![p] = {}]
  /\ timer' = [timer EXCEPT ![p] = {}]
  /\ phase' = [phase EXCEPT ![p] = [k \in Keys |-> "idle"]]
  /\ \E gone \in SUBSET {k \in Keys : phase[p][k] = "read"} :
       sent' = sent \cup {[key |-> k, value |-> value[p][k]] : k \in gone}
  /\ UNCHANGED <<lease, value, backend, stored>>

\* klog.Fatalf when the manager returns because the lease is lost.
LoseLease(p) ==
  /\ LeaderElect
  /\ mode[p] = "working"
  /\ leader # p \/ age = RenewDeadline
  /\ Stop(p)
  /\ UNCHANGED left

Crash(p) == mode[p] # "down" /\ Spend /\ Stop(p)

\* The Deployment starts a new process.
Restart(p) ==
  /\ mode[p] = "down"
  /\ mode' = [mode EXCEPT ![p] = "standby"]
  /\ UNCHANGED <<lease, work, rounds, sent, backend, stored, left>>

------------------------------------------------------------------------------
\* The workers of a process.

MutFreeWorker(p) == Cardinality(Busy(p)) <= Workers

FreeWorker(p) == Cardinality(Busy(p)) < Workers

Take(p) ==
  /\ mode[p] = "working"
  /\ FreeWorker(p)
  /\ queue[p] # <<>>
  /\ queue' = [queue EXCEPT ![p] = Tail(@)]
  /\ phase' = [phase EXCEPT ![p][Head(queue[p])] = "probing"]
  /\ UNCHANGED <<mode, lease, again, timer, value, sent, backend, stored, left>>

Probe(p, k) ==
  /\ phase[p][k] = "probing"
  /\ k \notin Stuck
  /\ phase' = [phase EXCEPT ![p][k] = "probed"]
  /\ value' = [value EXCEPT ![p][k] = backend[k]]
  /\ UNCHANGED <<mode, lease, work, sent, backend, stored, left>>

\* CreateOrUpdate reads, and is done when nothing differs.
Read(p, k) ==
  /\ phase[p][k] = "probed"
  /\ IF stored[k] = value[p][k]
     THEN Finish(p, k, phase)
     ELSE phase' = [phase EXCEPT ![p][k] = "read"] /\ UNCHANGED work
  /\ UNCHANGED <<mode, lease, value, sent, backend, stored, left>>

\* The cache may still have an older version, which differs or does not.
ReadOld(p, k) ==
  /\ phase[p][k] = "probed"
  /\ Spend
  /\ \/ phase' = [phase EXCEPT ![p][k] = "stale"] /\ UNCHANGED work
     \/ Finish(p, k, phase)
  /\ UNCHANGED <<mode, lease, value, sent, backend, stored>>

\* When p has stored, whoever else has read these Endpoints has an old version,
\* and so have the writes under way.
Outdated(p, k) ==
  [q \in Processes |->
     IF q # p /\ phase[q][k] = "read" THEN [phase[q] EXCEPT ![k] = "stale"] ELSE phase[q]]

MutWriteUnversioned(p, k) ==
  /\ phase[p][k] = "read"
  /\ stored' = [stored EXCEPT ![k] = value[p][k]]
  /\ Finish(p, k, Outdated(p, k))
  /\ UNCHANGED <<mode, lease, value, sent, backend, left>>

Write(p, k) ==
  /\ phase[p][k] = "read"
  /\ stored' = [stored EXCEPT ![k] = value[p][k]]
  /\ sent' = {r \in sent : r.key # k}
  /\ Finish(p, k, Outdated(p, k))
  /\ UNCHANGED <<mode, lease, value, backend, left>>

\* A conflict is retried from the probe on, or the round gives up.
Conflict(p, k) ==
  /\ phase[p][k] = "stale"
  /\ \/ phase' = [phase EXCEPT ![p][k] = "probing"] /\ UNCHANGED work
     \/ Finish(p, k, phase)
  /\ UNCHANGED <<mode, lease, value, sent, backend, stored, left>>

\* RequeueAfter is over.
TimerFires(p, k) ==
  /\ k \in timer[p]
  /\ timer' = [timer EXCEPT ![p] = @ \ {k}]
  /\ Add(p, k)
  /\ UNCHANGED <<mode, lease, rounds, sent, backend, stored, left>>

------------------------------------------------------------------------------
\* The rest of the world.

\* A write of a process that is gone arrives.
Arrives(r) ==
  /\ stored' = [stored EXCEPT ![r.key] = r.value]
  /\ sent' = {q \in sent : q.key # r.key}
  /\ phase' = Outdated(Nobody, r.key)
  /\ UNCHANGED <<mode, lease, work, value, backend, left>>

\* A watch tells a working process of a change of the ClusterEndpoint or its
\* Service.
Event(p, k) ==
  /\ mode[p] = "working"
  /\ Spend
  /\ Add(p, k)
  /\ UNCHANGED <<mode, lease, timer, rounds, sent, backend, stored>>

BackendChanges(k) ==
  /\ Spend
  /\ backend' = [backend EXCEPT ![k] = @ + 1]
  /\ UNCHANGED <<mode, lease, work, rounds, sent, stored>>

Process(p) == Start(p) \/ Renew(p) \/ LoseLease(p) \/ Restart(p) \/ Take(p)

Round(p, k) ==
  Probe(p, k) \/ Read(p, k) \/ ReadOld(p, k) \/ Write(p, k) \/ Conflict(p, k)

Next ==
  \/ RenewalFails \/ LeaseAges
  \/ \E p \in Processes : Process(p) \/ Crash(p)
  \/ \E p \in Processes, k \in Keys : Round(p, k) \/ TimerFires(p, k) \/ Event(p, k)
  \/ \E r \in sent : Arrives(r)
  \/ \E k \in Keys : BackendChanges(k)

Spec == Init /\ [][Next]_vars

\* Workers run, periods end, renewals are sent, processes are restarted, and
\* time passes.  Nothing is assumed of backends, watches, faults and writes of
\* processes that are gone.
FairSpec ==
  /\ Spec
  /\ WF_vars(LeaseAges)
  /\ \A p \in Processes : WF_vars(Process(p))
  /\ \A p \in Processes, k \in Keys : WF_vars(Round(p, k)) /\ WF_vars(TimerFires(p, k))

------------------------------------------------------------------------------

\* Types: no key is twice in a queue, or in it while a worker has it, no more
\* keys are worked on than there are workers, and only by a working process.
TypeOK ==
  /\ mode \in [Processes -> {"standby", "working", "down"}]
  /\ leader \in Processes \cup {Nobody}
  /\ age \in 0..LeaseDuration
  /\ queue \in [Processes -> Seq(Keys)]
  /\ \A p \in Processes :
       /\ \A i, j \in DOMAIN queue[p] : queue[p][i] = queue[p][j] => i = j
       /\ Queued(p) \cap Busy(p) = {}
       /\ again[p] \subseteq Busy(p)
       /\ Cardinality(Busy(p)) <= Workers
       /\ mode[p] # "working" => Queued(p) \cup Busy(p) \cup timer[p] = {}
  /\ again \in [Processes -> SUBSET Keys]
  /\ timer \in [Processes -> SUBSET Keys]
  /\ phase \in [Processes -> [Keys -> Phases]]
  /\ value \in [Processes -> [Keys -> Nat]]
  /\ sent \subseteq [key : Keys, value : Nat]
  /\ backend \in [Keys -> Nat]
  /\ stored \in [Keys -> Nat]
  /\ left \in 0..Budget

(***************************************************************************)
(* With leader election no two processes work on a key at once, however    *)
(* renewals fail and processes stop: an old leader gives up before its     *)
(* lease can go to another one.                                            *)
(***************************************************************************)
OneAtATime ==
  LeaderElect => \A p, q \in Processes : p # q => Busy(p) \cap Busy(q) = {}

(***************************************************************************)
(* With leader election the Endpoints never go back to what an older probe *)
(* found, though a round probes first and reads the version it writes over *)
(* afterwards, and writes of a process that is gone arrive late.           *)
(***************************************************************************)
NeverBackwards == [][LeaderElect => \A k \in Keys : stored'[k] >= stored[k]]_vars

(***************************************************************************)
(* A working process never loses sight of a key: it is in the workqueue,   *)
(* with a worker or waits for its period, whatever is added while it is    *)
(* worked on and however its rounds end.                                   *)
(***************************************************************************)
NoKeyForgotten ==
  \A p \in Processes :
    mode[p] = "working" => Queued(p) \cup Busy(p) \cup timer[p] = Keys

\* The replicas, as those who read the Endpoints see them.
Follow == INSTANCE Following

(***************************************************************************)
(* The queues, workers, lease, late writes and conflicts of all replicas   *)
(* together implement Following: what is stored is at most as new as the   *)
(* backend, with or without leader election, and with it never older than  *)
(* before.                                                                 *)
(***************************************************************************)
EndpointsFollow == Follow!Spec

(***************************************************************************)
(* As long as fewer keys are stuck than --maxconcurrent asks for workers,  *)
(* every other key is served, by whatever process works: once the          *)
(* disturbances stop, its Endpoints show the state of its backend for good.*)
(***************************************************************************)
KeysServed ==
  Stuck = {} \/ Cardinality(Stuck) < MaxConcurrent =>
    \A k \in Keys \ Stuck : <>[](stored[k] = backend[k])

=============================================================================
