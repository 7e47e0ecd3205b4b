------------------------------ MODULE Reconciler ------------------------------
(***************************************************************************)
(* The controller of controllers/controller.go and sync.go for one         *)
(* ClusterEndpoint (every workqueue key is handled alone): Reconcile,      *)
(* reconcile, syncService, syncEndpoint and updateStatus, one action per   *)
(* call to the cache or the API server, among users, other controllers,    *)
(* the garbage collector, failing API calls and restarts of the operator.  *)
(*                                                                         *)
(* Reads go to the informer cache and writes to the API server.  history   *)
(* holds, for each of the three objects of the name, the versions from the *)
(* cached one (first) to the live one (last).                              *)
(***************************************************************************)
EXTENDS Integers, Sequences, Status

CONSTANTS
  Specs,        \* the specs users may write
  Services,     \* the Services of the same name that may exist beforehand
  Endpoints,    \* the Endpoints of the same name that may exist beforehand
  Steps,        \* retry.DefaultRetry.Steps: tries of one RetryOnConflict
  Disturbances, \* the kinds of environment actions that may happen
  Budget,       \* how many of them happen in one behaviour
  Absent        \* no object

Kinds == {"cep", "svc", "ep"}

\* Owners: nobody, another controller, or the ClusterEndpoint with that uid.
Nobody == 0
Foreign == -1

Actors == {"create", "delete", "edit", "relabel", "seize", "drift", "remove",
           "flip", "fault", "crash"}

Ports == UNION { s.ports : s \in Specs }

\* clusterIP is "None" or anything else: the code makes no difference between
\* an address and none given.
SpecType == [clusterIP : {"None", "other"}, ports : SUBSET Ports, period : Int]

ASSUME SpecsAssumption == Specs # {} /\ Specs \subseteq SpecType
ASSUME StepsAssumption == Steps \in Nat \ {0}
ASSUME DisturbancesAssumption == Disturbances \subseteq Actors
ASSUME BudgetAssumption == Budget \in Nat

VARIABLES
  history,      \* per kind, the versions of the object from cached to live
  fresh,        \* per kind, whether the version the worker read is still live
  uid,          \* the last uid given to a ClusterEndpoint
  up,           \* the ports whose backend answers probes with success
  budget,       \* what is left of Budget
  due,          \* whether the key is in the workqueue
  timer,        \* whether the key will be added by a timer or the rate limiter
  pc,           \* the next step of the worker
  my,           \* cep, the worker's copy of the ClusterEndpoint
  got,          \* the object read last by CreateOrUpdate or updateStatus
  tries,        \* the current attempt of RetryOnConflict, from 1
  todo,         \* ports still to be probed in this attempt
  data,         \* ports found healthy in this attempt
  syncError,    \* syncError # nil in syncEndpoint
  service,      \* what syncService came to
  endpoint      \* what syncEndpoint came to

api == <<history, fresh, uid>>
env == <<up, budget>>
queue == <<due, timer>>
local == <<pc, my, got, tries, todo, data, syncError, service, endpoint>>
vars == <<api, env, queue, local>>

Cached(k) == Head(history[k])
Live(k) == history[k][Len(history[k])]

NoStatus == [phase |-> "none", conds |-> [type \in {} |-> Fine]]

\* ClusterEndpoint u as a user creates it.
NewClusterEndpoint(u, spec) ==
  [uid |-> u, spec |-> spec, meta |-> "plain", del |-> FALSE, fin |-> FALSE,
   status |-> NoStatus]

------------------------------------------------------------------------------
(* The API server: external, as the code in src/ uses it.                  *)

\* The live object of kind k becomes obj.  Every write gives an object a new
\* resourceVersion, so a version the worker has read is no longer the live one.
Store(k, obj) ==
  /\ history' = [history EXCEPT ![k] = Append(@, obj)]
  /\ fresh' = [fresh EXCEPT ![k] = FALSE]

\* The worker reads the object k from the cache.
Read(k) == fresh' = [fresh EXCEPT ![k] = Len(history[k]) = 1]

Spend(actor) == actor \in Disturbances /\ budget > 0 /\ budget' = budget - 1

\* A write of obj fails, or takes effect and only its answer is lost.
Fails(k, accepted, obj) ==
  /\ Spend("fault")
  /\ UNCHANGED <<history, fresh>> \/ (accepted /\ Store(k, obj))

------------------------------------------------------------------------------
(* The worker: Reconcile from its first line to its result.                *)

MutIdle ==
  /\ pc' = "idle"
  /\ got' = Absent /\ tries' = 1
  /\ todo' = {} /\ data' = {} /\ syncError' = FALSE
  /\ service' = Fine /\ endpoint' = Fine
  /\ UNCHANGED my

\* The worker waits for a key; the variables of Reconcile are gone.
Idle ==
  /\ pc' = "idle"
  /\ my' = Absent /\ got' = Absent /\ tries' = 1
  /\ todo' = {} /\ data' = {} /\ syncError' = FALSE
  /\ service' = Fine /\ endpoint' = Fine

\* Reconcile returns: the key is added again later or not.
Return(again) == Idle /\ timer' = (timer \/ again)

MutRefused == Idle /\ UNCHANGED timer

\* Reconcile returns an error: the rate limiter adds the key again.
Refused == Return(TRUE)

sync == <<todo, data, syncError, service, endpoint>>

MutFirstCall(c) == IF c.del THEN "unfinalize" ELSE "svcRead"

\* The first call that writes: RemoveFinalizer does for a deleted object and
\* AddFinalizer for one that has no finalizer yet.
FirstCall(c) ==
  IF c.del THEN "unfinalize" ELSE IF c.fin THEN "svcRead" ELSE "finalize"

\* The Get of Reconcile.
Start ==
  LET c == Cached("cep")
  IN /\ pc = "idle" /\ due
     /\ due' = FALSE
     /\ IF c = Absent
        THEN UNCHANGED <<fresh, local>>
        ELSE /\ my' = c /\ Read("cep")
             /\ pc' = FirstCall(c)
             /\ UNCHANGED <<got, tries, sync>>
     /\ UNCHANGED <<history, uid, env, timer>>

\* RemoveFinalizer: the API server drops the object with its last finalizer.
RemoveFinalizer ==
  /\ pc = "unfinalize"
  /\ \/ fresh["cep"] /\ Store("cep", Absent) /\ Return(FALSE) /\ UNCHANGED budget
     \/ ~fresh["cep"] /\ Refused /\ UNCHANGED <<history, fresh, budget>>
     \/ Fails("cep", fresh["cep"], Absent) /\ Refused
  /\ UNCHANGED <<uid, up, due>>

MutAddUnversioned ==
  /\ pc = "finalize"
  /\ my' = [my EXCEPT !.fin = TRUE] /\ Store("cep", my')
  /\ pc' = "svcRead"
  /\ UNCHANGED <<uid, env, queue, got, tries, sync>>

\* AddFinalizer for an object that has none yet.
AddFinalizer ==
  /\ pc = "finalize"
  /\ \/ /\ fresh["cep"]
        /\ my' = [my EXCEPT !.fin = TRUE]
        /\ Store("cep", my')
        /\ pc' = "svcRead"
        /\ UNCHANGED <<budget, timer, got, tries, sync>>
     \/ ~fresh["cep"] /\ Refused /\ UNCHANGED <<history, fresh, budget>>
     \/ Fails("cep", fresh["cep"], [my EXCEPT !.fin = TRUE]) /\ Refused
  /\ UNCHANGED <<uid, up, due>>

\* What the mutate functions of syncService and syncEndpoint make of got.  The
\* cluster IP is only ever set to "None"; the API server assigns a missing one.
DesiredService ==
  [owner |-> my.uid,
   meta |-> my.meta,
   clusterIP |-> CASE my.spec.clusterIP = "None" -> "None"
                   [] my.spec.clusterIP = "other" /\ got = Absent -> "assigned"
                   [] OTHER -> got.clusterIP,
   ports |-> my.spec.ports]

DesiredEndpoints == [owner |-> my.uid, subsets |-> data]

Desired(k) == IF k = "svc" THEN DesiredService ELSE DesiredEndpoints

MutControllable == TRUE

\* SetControllerReference accepts got: only a ClusterEndpoint controls it.
Controllable == got # Absent => got.owner # Foreign

\* CreateOrUpdate finds nothing to change and makes no call.
UpToDate(k) == Controllable /\ got # Absent /\ Desired(k) = got

\* The API server refuses to turn a Service with an address headless.
Immutable(k) ==
  k = "svc" /\ got # Absent /\ got.clusterIP # "None" /\ Desired(k).clusterIP = "None"

\* Its Create or Update takes effect.
Accepted(k) ==
  /\ Controllable /\ ~UpToDate(k)
  /\ IF got = Absent THEN Live(k) = Absent ELSE fresh[k] /\ ~Immutable(k)

\* Its Update meets a newer version, or none: the API server may answer that the
\* uid in the precondition conflicts with that of the object that is gone.
\* A conflict is the one error RetryOnConflict retries.
Conflicting(k) == Controllable /\ ~UpToDate(k) /\ got # Absent /\ ~fresh[k]

\* Its Create finds an object, or its Update none (that answer, too, is possible),
\* an owner, or an address that may not be dropped.
Rejected(k) ==
  ~UpToDate(k) /\ ~Accepted(k) /\ (Conflicting(k) => Live(k) = Absent)

(***************************************************************************)
(* CreateOrUpdate of the object k inside RetryOnConflict, after its read:  *)
(* it ends well or badly, or the closure starts again.                     *)
(***************************************************************************)
CreateOrUpdate(k, result) ==
  \/ UpToDate(k) /\ result = "well" /\ UNCHANGED <<history, fresh, budget>>
  \/ Accepted(k) /\ result = "well" /\ Store(k, Desired(k)) /\ UNCHANGED budget
  \/ /\ Conflicting(k)
     /\ result = IF tries < Steps THEN "again" ELSE "badly"
     /\ UNCHANGED <<history, fresh, budget>>
  \/ Rejected(k) /\ result = "badly" /\ UNCHANGED <<history, fresh, budget>>
  \/ /\ Controllable /\ ~UpToDate(k)
     /\ result = "badly"
     /\ Fails(k, Accepted(k), Desired(k))

ReadService ==
  /\ pc = "svcRead"
  /\ got' = Cached("svc") /\ Read("svc")
  /\ pc' = "svcApply"
  /\ UNCHANGED <<history, uid, env, queue, my, tries, sync>>

\* The end of syncService and the start of syncEndpoint.
ServiceDone(ok) ==
  /\ service' = IF ok THEN Fine ELSE "ServiceSyncError"
  /\ pc' = "probe"
  /\ todo' = my.spec.ports /\ data' = {} /\ syncError' = FALSE
  /\ tries' = 1 /\ got' = Absent
  /\ UNCHANGED endpoint

\* The closure runs again, from its read.
ServiceAgain ==
  pc' = "svcRead" /\ got' = Absent /\ tries' = tries + 1 /\ UNCHANGED sync

syncService ==
  /\ pc = "svcApply"
  /\ \E result \in {"well", "badly", "again"} :
       /\ CreateOrUpdate("svc", result)
       /\ IF result = "again" THEN ServiceAgain ELSE ServiceDone(result = "well")
  /\ UNCHANGED <<uid, up, queue, my>>

\* One target of clusterEndpointConvertEndpointSubset gets its verdict.
Probe(p) ==
  /\ pc = "probe" /\ p \in todo
  /\ todo' = todo \ {p}
  /\ data' = IF p \in up THEN data \cup {p} ELSE data
  /\ UNCHANGED <<api, env, queue, pc, my, got, tries, syncError, service, endpoint>>

\* syncError is assigned when there were errors and never cleared.
SyncErrorAfter == syncError \/ data # my.spec.ports

\* All verdicts are in; CreateOrUpdate reads the Endpoints.
ReadEndpoints ==
  /\ pc = "probe" /\ todo = {}
  /\ syncError' = SyncErrorAfter
  /\ got' = Cached("ep") /\ Read("ep")
  /\ pc' = "epApply"
  /\ UNCHANGED <<history, uid, env, queue, my, tries, todo, data, service, endpoint>>

MutIgnoresPortErrors(ok) == IF ok THEN Fine ELSE "EndpointSyncError"

EndpointOutcome(ok) ==
  CASE ~ok -> "EndpointSyncError"
    [] ok /\ syncError -> "EndpointSyncPortError"
    [] OTHER -> Fine

EndpointDone(ok) ==
  /\ endpoint' = EndpointOutcome(ok)
  /\ pc' = "statusRead"
  /\ tries' = 1 /\ got' = Absent
  /\ UNCHANGED <<todo, data, syncError, service>>

MutAgainUncounted ==
  /\ pc' = "probe" /\ got' = Absent
  /\ todo' = my.spec.ports /\ data' = {}
  /\ UNCHANGED <<tries, syncError, service, endpoint>>

\* The whole closure runs again, with all its probes.
EndpointAgain ==
  /\ pc' = "probe" /\ got' = Absent /\ tries' = tries + 1
  /\ todo' = my.spec.ports /\ data' = {}
  /\ UNCHANGED <<syncError, service, endpoint>>

syncEndpoint ==
  /\ pc = "epApply"
  /\ \E result \in {"well", "badly", "again"} :
       /\ CreateOrUpdate("ep", result)
       /\ IF result = "again" THEN EndpointAgain ELSE EndpointDone(result = "well")
  /\ UNCHANGED <<uid, up, queue, my>>

\* The Get of updateStatus.
ReadStatus ==
  /\ pc = "statusRead"
  /\ IF Cached("cep") = Absent
     THEN Refused /\ UNCHANGED fresh
     ELSE /\ got' = Cached("cep") /\ Read("cep")
          /\ pc' = "statusApply"
          /\ UNCHANGED <<timer, my, tries, sync>>
  /\ UNCHANGED <<history, uid, env, due>>

\* The status this round has come to.
NewStatus == RoundStatus(my.status.conds, service, endpoint, 0)

MutNeverRequeues == FALSE

\* The result has a RequeueAfter, and one that the workqueue heeds: a negative
\* one is taken for none.
Requeues == my.spec.period > 0

\* The Status().Update of updateStatus, then the result of reconcile.  An update
\* that changes nothing leaves the version alone.
updateStatus ==
  /\ pc = "statusApply"
  /\ \/ /\ fresh["cep"]
        /\ IF got.status = NewStatus
           THEN UNCHANGED <<history, fresh>>
           ELSE Store("cep", [got EXCEPT !.status = NewStatus])
        /\ Return(Requeues)
        /\ UNCHANGED budget
     \/ /\ ~fresh["cep"]
        /\ IF tries < Steps
           THEN /\ pc' = "statusRead" /\ got' = Absent /\ tries' = tries + 1
                /\ UNCHANGED <<timer, my, sync>>
           ELSE Refused
        /\ UNCHANGED <<history, fresh, budget>>
     \/ Live("cep") = Absent /\ Refused /\ UNCHANGED <<history, fresh, budget>>
     \/ /\ Fails("cep", fresh["cep"] /\ got.status # NewStatus,
              [got EXCEPT !.status = NewStatus])
        /\ Refused
  /\ UNCHANGED <<uid, up, due>>

Worker ==
  \/ Start \/ RemoveFinalizer \/ AddFinalizer
  \/ ReadService \/ syncService
  \/ (\E p \in Ports : Probe(p)) \/ ReadEndpoints \/ syncEndpoint
  \/ ReadStatus \/ updateStatus

------------------------------------------------------------------------------
(* The informers and the workqueue.                                        *)

MutGenerationOfSpec(old, new) ==
  \/ (old = Absent) # (new = Absent)
  \/ old # Absent /\ new # Absent /\ old.spec # new.spec

\* GenerationChangedPredicate passes creations, deletions and new generations,
\* which a new spec and a deletion timestamp make, and neither labels nor status.
GenerationChanged(old, new) ==
  \/ (old = Absent) # (new = Absent)
  \/ /\ old # Absent /\ new # Absent
     /\ old.spec # new.spec \/ old.del # new.del

\* The controller of the object is some ClusterEndpoint of this name.
Owned(obj) == obj # Absent /\ obj.owner \notin {Nobody, Foreign}

\* SetupWithManager: what a change of an object does to the workqueue.  The
\* Endpoints are not watched.
Enqueues(k, old, new) ==
  CASE k = "cep" -> GenerationChanged(old, new)
    [] k = "svc" -> Owned(old) \/ Owned(new)
    [] k = "ep" -> FALSE

\* The next event of a watch reaches the cache and the event handlers.
Deliver(k) ==
  /\ Len(history[k]) > 1
  /\ history' = [history EXCEPT ![k] = Tail(@)]
  /\ due' = (due \/ Enqueues(k, history[k][1], history[k][2]))
  /\ UNCHANGED <<fresh, uid, env, timer, local>>

\* RequeueAfter or the rate limiter has waited long enough.
TimerFires ==
  /\ timer
  /\ timer' = FALSE /\ due' = TRUE
  /\ UNCHANGED <<api, env, local>>

\* The operator stops, and starts with a fresh list of every object.
Restart ==
  /\ Spend("crash")
  /\ history' = [k \in Kinds |-> <<Live(k)>>]
  /\ due' = (Live("cep") # Absent \/ Owned(Live("svc")))
  /\ timer' = FALSE /\ Idle
  /\ UNCHANGED <<fresh, uid, up>>

------------------------------------------------------------------------------
(* Users, other controllers and the backends.                              *)

\* An environment step that stores obj as the object k.
Becomes(actor, k, obj) ==
  Spend(actor) /\ Store(k, obj) /\ UNCHANGED <<up, queue, local>>

CreateClusterEndpoint(s) ==
  /\ Live("cep") = Absent
  /\ uid' = uid + 1
  /\ Becomes("create", "cep", NewClusterEndpoint(uid + 1, s))

DeleteClusterEndpoint ==
  LET c == Live("cep")
  IN /\ c # Absent /\ ~c.del
     /\ Becomes("delete", "cep", IF c.fin THEN [c EXCEPT !.del = TRUE] ELSE Absent)
     /\ UNCHANGED uid

EditSpec(s) ==
  /\ Live("cep") # Absent /\ Live("cep").spec # s
  /\ Becomes("edit", "cep", [Live("cep") EXCEPT !.spec = s])
  /\ UNCHANGED uid

Relabel ==
  /\ Live("cep") # Absent /\ Live("cep").meta = "plain"
  /\ Becomes("relabel", "cep", [Live("cep") EXCEPT !.meta = "labelled"])
  /\ UNCHANGED uid

\* Another controller takes an object nobody controls.
Seize(k) ==
  /\ Live(k) # Absent /\ Live(k).owner = Nobody
  /\ Becomes("seize", k, [Live(k) EXCEPT !.owner = Foreign])
  /\ UNCHANGED uid

\* Somebody edits an object the operator manages.
Drift(k) ==
  /\ Live(k) # Absent
  /\ LET edited == IF k = "svc" THEN [Live(k) EXCEPT !.ports = {}]
                                ELSE [Live(k) EXCEPT !.subsets = {}]
     IN edited # Live(k) /\ Becomes("drift", k, edited)
  /\ UNCHANGED uid

Remove(k) ==
  /\ Live(k) # Absent
  /\ Becomes("remove", k, Absent)
  /\ UNCHANGED uid

\* The garbage collector deletes what a vanished ClusterEndpoint controlled.
CollectGarbage(k) ==
  /\ Owned(Live(k))
  /\ Live("cep") # Absent => Live("cep").uid # Live(k).owner
  /\ Store(k, Absent)
  /\ UNCHANGED <<uid, env, queue, local>>

\* A backend comes up or goes down.
Flip(p) ==
  /\ Spend("flip")
  /\ up' = IF p \in up THEN up \ {p} ELSE up \cup {p}
  /\ UNCHANGED <<api, queue, local>>

Environment ==
  \/ \E s \in Specs : CreateClusterEndpoint(s) \/ EditSpec(s)
  \/ DeleteClusterEndpoint \/ Relabel
  \/ \E k \in {"svc", "ep"} : Seize(k) \/ Drift(k) \/ Remove(k)
  \/ \E p \in Ports : Flip(p)

------------------------------------------------------------------------------

\* The operator has just started, with a ClusterEndpoint or without.
Init ==
  \E c \in {Absent} \cup { NewClusterEndpoint(1, s) : s \in Specs },
    sv \in Services, e \in Endpoints :
      /\ history = [k \in Kinds |-> <<CASE k = "cep" -> c [] k = "svc" -> sv [] k = "ep" -> e>>]
      /\ fresh = [k \in Kinds |-> FALSE]
      /\ uid = 1
      /\ up = Ports
      /\ budget = Budget
      /\ due = (c # Absent)
      /\ timer = FALSE
      /\ pc = "idle"
      /\ my = Absent /\ got = Absent /\ tries = 1
      /\ todo = {} /\ data = {} /\ syncError = FALSE
      /\ service = Fine /\ endpoint = Fine

Informers == \E k \in Kinds : Deliver(k)

Collector == \E k \in {"svc", "ep"} : CollectGarbage(k)

Next ==
  Worker \/ Informers \/ TimerFires \/ Restart \/ Collector \/ Environment

Spec == Init /\ [][Next]_vars

\* The worker's goroutine runs, watches deliver, timers fire and the garbage
\* collector works; nothing is assumed of users, faults and restarts.
FairSpec ==
  /\ Spec
  /\ WF_vars(Worker)
  /\ \A k \in Kinds : WF_vars(Deliver(k))
  /\ WF_vars(TimerFires)
  /\ \A k \in {"svc", "ep"} : WF_vars(CollectGarbage(k))

------------------------------------------------------------------------------

ConditionType == [status : {"True", "False"},
                  why : {Fine, "ServiceSyncError", "EndpointSyncError",
                         "EndpointSyncPortError", "NotReady"},
                  time : {0}]

\* No conditions yet or all of them.
StatusType == {NoStatus} \cup
  [phase : {"Healthy", "UnHealthy"}, conds : [Types -> ConditionType]]

ClusterEndpointType ==
  [uid : Nat, spec : Specs, meta : {"plain", "labelled"}, del : BOOLEAN,
   fin : BOOLEAN, status : StatusType]

Owners == Nat \cup {Foreign}

ServiceType == [owner : Owners, meta : {"plain", "labelled"},
                clusterIP : {"None", "assigned"}, ports : SUBSET Ports]

EndpointsType == [owner : Owners, subsets : SUBSET Ports]

ObjectType == [k \in Kinds |-> CASE k = "cep" -> ClusterEndpointType
                                 [] k = "svc" -> ServiceType
                                 [] k = "ep"  -> EndpointsType]

ASSUME AbsentAssumption == \A k \in Kinds : Absent \notin ObjectType[k]
ASSUME BeforehandAssumption ==
  /\ Services \subseteq ObjectType["svc"] \cup {Absent}
  /\ Endpoints \subseteq ObjectType["ep"] \cup {Absent}

\* Types of all variables; got is what the step at pc has to do with.
TypeOK ==
  /\ DOMAIN history = Kinds
  /\ \A k \in Kinds : history[k] \in Seq(ObjectType[k] \cup {Absent}) \ {<<>>}
  /\ fresh \in [Kinds -> BOOLEAN]
  /\ uid \in Nat
  /\ up \subseteq Ports
  /\ budget \in 0..Budget
  /\ due \in BOOLEAN /\ timer \in BOOLEAN
  /\ pc \in {"idle", "unfinalize", "finalize", "svcRead", "svcApply", "probe",
             "epApply", "statusRead", "statusApply"}
  /\ IF pc = "idle" THEN my = Absent ELSE my \in ClusterEndpointType
  /\ CASE pc = "svcApply"    -> got \in ServiceType \cup {Absent}
       [] pc = "epApply"     -> got \in EndpointsType \cup {Absent}
       [] pc = "statusApply" -> got \in ClusterEndpointType
       [] OTHER              -> got = Absent
  /\ tries \in 1..Steps
  /\ todo \subseteq Ports /\ data \subseteq Ports
  /\ syncError \in BOOLEAN
  /\ service \in {Fine, "ServiceSyncError"}
  /\ endpoint \in {Fine, "EndpointSyncError", "EndpointSyncPortError"}

\* The worker is between AddFinalizer and the result of reconcile.
Syncing == pc \notin {"idle", "unfinalize", "finalize"}

(***************************************************************************)
(* While a round syncs, the ClusterEndpoint it works for is still there    *)
(* with its finalizer, however old the worker's copy is: it cannot vanish, *)
(* or be replaced by a new one of the same name, under the worker's feet.  *)
(***************************************************************************)
FinalizerHeld ==
  Syncing => Live("cep") # Absent /\ Live("cep").uid = my.uid /\ Live("cep").fin

LivePhase ==
  LET c == Live("cep")
  IN IF c = Absent THEN "absent"
     ELSE IF c.del THEN "ending" ELSE IF c.fin THEN "held" ELSE "plain"

Served == IF Syncing THEN my.uid ELSE 0

LiveIs == INSTANCE Lifetime WITH phase <- LivePhase, served <- Served

(***************************************************************************)
(* With its cache, failing calls, lost answers and restarts, the           *)
(* controller implements Lifetime: from AddFinalizer to the result of      *)
(* reconcile a round serves the ClusterEndpoint that lives, the finalizer  *)
(* is only taken from one that is being deleted while no round serves it,  *)
(* and no late write brings a vanished one back.                           *)
(***************************************************************************)
LifetimeKept == LiveIs!Spec

\* A generation the watch has not yet told the workqueue of.
NewsPending ==
  \E i \in 1..(Len(history["cep"]) - 1) :
    GenerationChanged(history["cep"][i], history["cep"][i + 1])

(***************************************************************************)
(* A ClusterEndpoint that is being deleted or has a positive period is     *)
(* never forgotten: it is in the workqueue, will be, or is worked on, or   *)
(* an event that the predicate passes is on its way, however rounds and    *)
(* events overlap, fail and are cut off by restarts.                       *)
(***************************************************************************)
NeverForgotten ==
  Live("cep") # Absent /\ (Live("cep").del \/ Live("cep").spec.period > 0) =>
    due \/ timer \/ pc # "idle" \/ NewsPending

\* A step of the worker that changes the object k.
WorkerWrites(k) == Worker /\ Live(k)' # Live(k)

(***************************************************************************)
(* The operator never touches a Service or Endpoints that another          *)
(* controller controls, even one it read before the other took it, and     *)
(* whatever it writes belongs to the ClusterEndpoint that lives then, so   *)
(* that garbage collection can find it.                                    *)
(***************************************************************************)
OwnershipRespected ==
  [][ \A k \in {"svc", "ep"} : WorkerWrites(k) =>
        /\ Live(k) # Absent => Live(k).owner # Foreign
        /\ Live("cep") # Absent
        /\ Live(k)' # Absent /\ Live(k)'.owner = Live("cep").uid ]_vars

\* The parts of a round that write one object each, in their order.
Stage ==
  CASE pc \in {"unfinalize", "finalize"}    -> 1
    [] pc \in {"svcRead", "svcApply"}       -> 2
    [] pc \in {"probe", "epApply"}          -> 3
    [] pc \in {"statusRead", "statusApply"} -> 4
    [] pc = "idle"                          -> 5

\* The attempt at hand has read what it is going to write.
HasRead == pc \in {"svcApply", "epApply", "statusApply"}

(***************************************************************************)
(* A round cannot go on for ever, whoever writes in between: each of its   *)
(* calls leads to the next write or the end, to a further of at most Steps *)
(* attempts at this one, from an attempt's read to its write, or to one    *)
(* target less to probe.                                                   *)
(***************************************************************************)
RoundAdvances ==
  [][ Worker /\ pc # "idle" =>
        \/ Stage' > Stage
        \/ Stage' = Stage /\ tries' > tries /\ tries' <= Steps
        \/ Stage' = Stage /\ tries' = tries /\ ~HasRead /\ HasRead'
        \/ /\ Stage' = Stage /\ tries' = tries /\ ~HasRead /\ ~HasRead'
           /\ todo' \subseteq todo /\ todo' # todo ]_vars

\* A round ends by storing a status with this phase.
Reports(phase) ==
  pc = "statusApply" /\ pc' = "idle" /\ WorkerWrites("cep") /\ NewStatus.phase = phase

(***************************************************************************)
(* A round reports Healthy only when its last attempt found every port of  *)
(* the spec it worked on healthy and both objects were accepted or up to   *)
(* date, whatever conflicts and earlier failures lie behind.               *)
(***************************************************************************)
HealthyIsEarned ==
  [][ Reports("Healthy") =>
        service = Fine /\ endpoint = Fine /\ data = my.spec.ports ]_vars

(***************************************************************************)
(* README.md:47: the status tells whether the backends are healthy and     *)
(* which failed.  A round that stored its Service and its Endpoints with   *)
(* every port healthy does not report UnHealthy.                           *)
(***************************************************************************)
UnhealthyIsEarned ==
  [][ Reports("UnHealthy") =>
        service # Fine \/ endpoint = "EndpointSyncError" \/ data # my.spec.ports ]_vars

\* The Service cannot become what the spec asks for: another controller has it,
\* or it has an address and should have none.
ServiceBlocked ==
  LET c == Live("cep") sv == Live("svc")
  IN sv # Absent /\ \/ sv.owner = Foreign
                    \/ c.spec.clusterIP = "None" /\ sv.clusterIP # "None"

EndpointsBlocked == Live("ep") # Absent /\ Live("ep").owner = Foreign

ServiceMatches ==
  LET c == Live("cep") sv == Live("svc")
  IN /\ sv # Absent /\ sv.owner = c.uid /\ sv.ports = c.spec.ports /\ sv.meta = c.meta
     /\ c.spec.clusterIP = "None" => sv.clusterIP = "None"

\* The Service has an address exactly if the spec does not ask for none.
AddressMatches ==
  LET c == Live("cep") sv == Live("svc")
  IN sv # Absent /\ (c.spec.clusterIP = "None" <=> sv.clusterIP = "None")

EndpointsMatch ==
  LET c == Live("cep") e == Live("ep")
  IN e # Absent /\ e.owner = c.uid /\ e.subsets = c.spec.ports \cap up

StatusMatches ==
  Live("cep").status.phase = "Healthy" <=>
    ~ServiceBlocked /\ ~EndpointsBlocked /\ Live("cep").spec.ports \subseteq up

\* There is a ClusterEndpoint to be synced, whose spec asks for no address.
ToSync == Live("cep") # Absent /\ ~Live("cep").del

AsksHeadless == Live("cep") # Absent /\ Live("cep").spec.clusterIP = "None"

(***************************************************************************)
(* Once users, faults and restarts leave off, the Service, the Endpoints   *)
(* and the status come to match the spec, the labels and the backends and  *)
(* stay so: whatever was edited, removed, missed by a filtered event or    *)
(* refused by the API server in the meantime is made up for.  One thing is *)
(* not: a Service that was made headless for an earlier spec stays so      *)
(* (sync.go:56, against test/test.md:154-156) and is called Healthy all    *)
(* the same.  Where no spec ever asked for that it ends with an address.   *)
(***************************************************************************)
Converges ==
  /\ <>[]( ToSync =>
             /\ ServiceBlocked \/ ServiceMatches
             /\ EndpointsBlocked \/ EndpointsMatch
             /\ StatusMatches )
  /\ <>AsksHeadless \/ <>[](ToSync => ServiceBlocked \/ AddressMatches)

(***************************************************************************)
(* Once users, faults and restarts leave off, no ClusterEndpoint is stuck  *)
(* in deletion, and what is left of the Service and the Endpoints belongs  *)
(* to the one that lives or to nobody the operator ever served             *)
(* (test/test.md:150), for good.                                           *)
(***************************************************************************)
DeletionCompletes ==
  <>[]( /\ Live("cep") # Absent => ~Live("cep").del
        /\ \A k \in {"svc", "ep"} :
             Owned(Live(k)) => Live("cep") # Absent /\ Live(k).owner = Live("cep").uid )

(***************************************************************************)
(* types.go:157: periodSeconds is "Default to 10 seconds. Minimum value is *)
(* 1.": a spec without it, or with less, is probed periodically, like      *)
(* every other.                                                            *)
(***************************************************************************)
ProbedPeriodically ==
  []<>(Live("cep") = Absent \/ Live("cep").del \/ pc = "probe")

=============================================================================
