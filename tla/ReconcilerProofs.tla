--------------------------- MODULE ReconcilerProofs ---------------------------
(***************************************************************************)
(* Proofs about Reconciler, for any set of specs, any objects beforehand,  *)
(* any number of tries and any environment: its types, that a round always *)
(* has its ClusterEndpoint, that foreign objects are left alone, that      *)
(* Healthy is earned, that no ClusterEndpoint is forgotten, that Lifetime  *)
(* is implemented, and that every round comes to its end.                  *)
(***************************************************************************)
EXTENDS Reconciler, SumLemmas, TLAPS

\* The parts of TypeOK, by who writes the variables.
ApiOK ==
  /\ DOMAIN history = Kinds
  /\ \A k \in Kinds : history[k] \in Seq(ObjectType[k] \cup {Absent}) \ {<<>>}
  /\ fresh \in [Kinds -> BOOLEAN]
  /\ uid \in Nat

EnvOK == up \subseteq Ports /\ budget \in 0..Budget

QueueOK == due \in BOOLEAN /\ timer \in BOOLEAN

PcOK == pc \in {"idle", "unfinalize", "finalize", "svcRead", "svcApply", "probe",
                "epApply", "statusRead", "statusApply"}

MyOK == IF pc = "idle" THEN my = Absent ELSE my \in ClusterEndpointType

GotOK ==
  CASE pc = "svcApply"    -> got \in ServiceType \cup {Absent}
    [] pc = "epApply"     -> got \in EndpointsType \cup {Absent}
    [] pc = "statusApply" -> got \in ClusterEndpointType
    [] OTHER              -> got = Absent

SyncOK ==
  /\ tries \in 1..Steps
  /\ todo \subseteq Ports /\ data \subseteq Ports
  /\ syncError \in BOOLEAN
  /\ service \in {Fine, "ServiceSyncError"}
  /\ endpoint \in {Fine, "EndpointSyncError", "EndpointSyncPortError"}

LEMMA TypeParts ==
  TypeOK <=> ApiOK /\ EnvOK /\ QueueOK /\ PcOK /\ MyOK /\ GotOK /\ SyncOK
  BY DEF TypeOK, ApiOK, EnvOK, QueueOK, PcOK, MyOK, GotOK, SyncOK

LEMMA TypePartsNext ==
  ApiOK' /\ EnvOK' /\ QueueOK' /\ PcOK' /\ MyOK' /\ GotOK' /\ SyncOK' => TypeOK'
  BY DEF TypeOK, ApiOK, EnvOK, QueueOK, PcOK, MyOK, GotOK, SyncOK

------------------------------------------------------------------------------
(* The three objects and their versions.                                   *)

LEMMA Objects ==
  /\ ObjectType["cep"] = ClusterEndpointType
  /\ ObjectType["svc"] = ServiceType
  /\ ObjectType["ep"] = EndpointsType
  /\ Kinds = {"cep", "svc", "ep"}
  /\ Absent \notin ClusterEndpointType
  /\ Absent \notin ServiceType
  /\ Absent \notin EndpointsType
  <1>1. /\ ObjectType["cep"] = ClusterEndpointType
        /\ ObjectType["svc"] = ServiceType
        /\ ObjectType["ep"] = EndpointsType
    BY DEF ObjectType, Kinds
  <1> QED BY <1>1, AbsentAssumption DEF Kinds

\* Both ends of a history are objects of the kind.
LEMMA Versions ==
  ASSUME ApiOK, NEW k \in Kinds
  PROVE  /\ Cached(k) \in ObjectType[k] \cup {Absent}
         /\ Live(k) \in ObjectType[k] \cup {Absent}
         /\ Len(history[k]) \in Nat \ {0}
         /\ Cached(k) = history[k][1]
  <1> DEFINE V == ObjectType[k] \cup {Absent}
  <1>1. history[k] \in Seq(V) /\ history[k] # <<>>
    BY DEF ApiOK
  <1> HIDE DEF V
  <1>2. /\ Len(history[k]) \in Nat \ {0}
        /\ history[k][1] \in V
        /\ history[k][Len(history[k])] \in V
        /\ Head(history[k]) = history[k][1]
    BY <1>1
  <1> QED BY <1>2 DEF V, Cached, Live

\* Writing an object of the kind keeps the types.
LEMMA StoreTypes ==
  ASSUME ApiOK, NEW k \in Kinds, NEW obj \in ObjectType[k] \cup {Absent},
         Store(k, obj), uid' \in Nat
  PROVE  ApiOK'
  <1>1. DOMAIN history' = Kinds
    BY DEF ApiOK, Store
  <1>2. ASSUME NEW j \in Kinds
        PROVE  history'[j] \in Seq(ObjectType[j] \cup {Absent}) \ {<<>>}
    <2>1. CASE j = k
      <3>1. history'[k] = Append(history[k], obj)
        BY DEF ApiOK, Store
      <3> DEFINE V == ObjectType[k] \cup {Absent}
      <3>2. history[k] \in Seq(V)
        BY DEF ApiOK
      <3>3. obj \in V
        OBVIOUS
      <3> HIDE DEF V
      <3>4. Append(history[k], obj) \in Seq(V) /\ Append(history[k], obj) # <<>>
        BY <3>2, <3>3
      <3> QED BY <2>1, <3>1, <3>4 DEF V
    <2>2. CASE j # k
      BY <2>2 DEF ApiOK, Store
    <2> QED BY <2>1, <2>2
  <1>3. ObjectType' = ObjectType
    BY DEF ObjectType, ClusterEndpointType, ServiceType, EndpointsType
  <1>4. fresh' \in [Kinds -> BOOLEAN]
    BY DEF ApiOK, Store
  <1> QED BY <1>1, <1>2, <1>4 DEF ApiOK

LEMMA SeqMonotone ==
  ASSUME NEW S, NEW T, S \subseteq T, NEW s \in Seq(S)
  PROVE  s \in Seq(T)
  OBVIOUS

\* What a write leaves: the object is live, other objects stay as they were.
LEMMA StoreEffect ==
  ASSUME ApiOK, NEW k \in Kinds, NEW obj, Store(k, obj)
  PROVE  /\ history'[k] = Append(history[k], obj)
         /\ Len(history'[k]) = Len(history[k]) + 1
         /\ \A i \in 1..Len(history[k]) : history'[k][i] = history[k][i]
         /\ Live(k)' = obj
         /\ ~fresh'[k]
         /\ \A j \in Kinds \ {k} : history'[j] = history[j] /\ fresh'[j] = fresh[j]
  <1>1. history'[k] = Append(history[k], obj)
    BY DEF ApiOK, Store
  <1>2. history[k] \in Seq(ObjectType[k] \cup {Absent})
    BY DEF ApiOK
  <1> DEFINE V == ObjectType[k] \cup {Absent, obj}
  <1>3. history[k] \in Seq(V) /\ obj \in V
    <2>1. ObjectType[k] \cup {Absent} \subseteq V
      OBVIOUS
    <2> QED BY <1>2, <2>1, SeqMonotone
  <1> HIDE DEF V
  <1>4. /\ Len(Append(history[k], obj)) = Len(history[k]) + 1
        /\ \A i \in 1..Len(history[k]) : Append(history[k], obj)[i] = history[k][i]
        /\ Append(history[k], obj)[Len(history[k]) + 1] = obj
    BY <1>3
  <1>5. Live(k)' = obj
    BY <1>1, <1>4 DEF Live
  <1>6. ~fresh'[k] /\ \A j \in Kinds \ {k} : history'[j] = history[j] /\ fresh'[j] = fresh[j]
    BY DEF ApiOK, Store
  <1> QED BY <1>1, <1>4, <1>5, <1>6

LEMMA ReadTypes ==
  ASSUME ApiOK, NEW k \in Kinds, Read(k), UNCHANGED <<history, uid>>
  PROVE  ApiOK'
  BY DEF ApiOK, Read

LEMMA FailsTypes ==
  ASSUME ApiOK, EnvOK, NEW k \in Kinds, NEW accepted \in BOOLEAN,
         NEW obj \in ObjectType[k] \cup {Absent}, Fails(k, accepted, obj),
         UNCHANGED <<uid, up>>
  PROVE  ApiOK' /\ EnvOK'
  <1>1. EnvOK'
    BY BudgetAssumption DEF EnvOK, Fails, Spend
  <1>2. uid' \in Nat
    BY DEF ApiOK
  <1>3. CASE UNCHANGED <<history, fresh>>
    BY <1>1, <1>3 DEF ApiOK
  <1>4. CASE Store(k, obj)
    BY <1>1, <1>2, <1>4, StoreTypes
  <1> QED BY <1>3, <1>4 DEF Fails

LEMMA FirstTry == 1 \in 1..Steps
  BY StepsAssumption

LEMMA IdleTypes == Idle => PcOK' /\ MyOK' /\ GotOK' /\ SyncOK'
  <1> SUFFICES ASSUME Idle PROVE PcOK' /\ MyOK' /\ GotOK' /\ SyncOK'
    OBVIOUS
  <1>1. PcOK' /\ MyOK' /\ GotOK'
    BY DEF Idle, PcOK, MyOK, GotOK
  <1>2. SyncOK'
    BY FirstTry DEF Idle, SyncOK
  <1> QED BY <1>1, <1>2

------------------------------------------------------------------------------
(* What the worker writes has the type of its kind.                        *)

LEMMA SpecPorts ==
  ASSUME NEW s \in Specs
  PROVE  s.ports \subseteq Ports /\ s.clusterIP \in {"None", "other"} /\ s.period \in Int
  BY SpecsAssumption DEF Ports, SpecType

LEMMA DesiredServiceType ==
  ASSUME my \in ClusterEndpointType, got \in ServiceType \cup {Absent}
  PROVE  DesiredService \in ServiceType
  <1>1. my.spec \in Specs /\ my.uid \in Owners /\ my.meta \in {"plain", "labelled"}
    BY DEF ClusterEndpointType, Owners
  <1>2. my.spec.ports \subseteq Ports /\ my.spec.clusterIP \in {"None", "other"}
    BY <1>1, SpecPorts
  <1>3. got # Absent => got.clusterIP \in {"None", "assigned"}
    BY DEF ServiceType
  <1> QED BY <1>1, <1>2, <1>3 DEF DesiredService, ServiceType

LEMMA DesiredEndpointsType ==
  ASSUME my \in ClusterEndpointType, data \subseteq Ports
  PROVE  DesiredEndpoints \in EndpointsType
  BY DEF DesiredEndpoints, EndpointsType, ClusterEndpointType, Owners

Outcomes == {Fine, "ServiceSyncError", "EndpointSyncError", "EndpointSyncPortError"}

\* The conditions of a status with only these types in its domain.
Conds(D) == [D -> ConditionType]

LEMMA UpdateTypes ==
  ASSUME NEW D \in SUBSET Types, NEW conds \in Conds(D), NEW type \in Types,
         NEW c \in ConditionType
  PROVE  updateCondition(conds, type, c) \in Conds(D \cup {type})
  BY DEF Conds, updateCondition

LEMMA ReportTypes ==
  ASSUME NEW D \in SUBSET Types, NEW conds \in Conds(D), NEW type \in Types,
         NEW outcome \in Outcomes
  PROVE  Report(conds, type, outcome, 0) \in Conds(D \cup {type})
  <1>1. Condition("False", outcome, 0) \in ConditionType
    BY DEF Condition, ConditionType, Outcomes
  <1>2. Condition("True", Fine, 0) \in ConditionType
    BY DEF Condition, ConditionType
  <1>3. CASE outcome = Fine /\ isConditionTrue(conds, type)
    <2>1. type \in D
      BY <1>3 DEF isConditionTrue, Conds
    <2> QED BY <1>3, <2>1 DEF Report, Conds
  <1>4. CASE outcome # Fine
    BY <1>1, <1>4, UpdateTypes DEF Report
  <1>5. CASE outcome = Fine /\ ~isConditionTrue(conds, type)
    BY <1>2, <1>5, UpdateTypes DEF Report
  <1> QED BY <1>3, <1>4, <1>5

LEMMA NewStatusType ==
  ASSUME my \in ClusterEndpointType, SyncOK
  PROVE  NewStatus \in StatusType
  <1>1. my.status \in StatusType
    BY DEF ClusterEndpointType
  <1>2. PICK D \in SUBSET Types : my.status.conds \in Conds(D)
    <2>1. CASE my.status = NoStatus
      <3>1. my.status.conds \in Conds({})
        BY <2>1 DEF NoStatus, Conds
      <3> QED BY <3>1
    <2>2. CASE my.status # NoStatus
      <3>1. my.status.conds \in Conds(Types)
        BY <1>1, <2>2 DEF StatusType, Conds
      <3> QED BY <3>1
    <2> QED BY <2>1, <2>2
  <1>3. /\ service \in Outcomes /\ endpoint \in Outcomes /\ Fine \in Outcomes
        /\ {"Initialized", "SyncServiceReady", "SyncEndpointReady", "Ready"} = Types
    BY DEF SyncOK, Outcomes, Types
  <1> DEFINE begun  == Report(my.status.conds, "Initialized", Fine, 0)
             synced == Report(begun, "SyncServiceReady", service, 0)
             probed == Report(synced, "SyncEndpointReady", endpoint, 0)
             D1 == D \cup {"Initialized"}
             D2 == D1 \cup {"SyncServiceReady"}
             D3 == D2 \cup {"SyncEndpointReady"}
  <1>4. D1 \in SUBSET Types /\ D2 \in SUBSET Types /\ D3 \in SUBSET Types
    BY <1>3
  <1>5. begun \in Conds(D1)
    BY <1>2, <1>3, ReportTypes
  <1>6. synced \in Conds(D2)
    BY <1>3, <1>4, <1>5, ReportTypes
  <1>7. probed \in Conds(D3)
    BY <1>3, <1>4, <1>6, ReportTypes
  <1>8. NewStatus = syncFinalStatus(probed, 0)
    BY DEF NewStatus, RoundStatus
  <1>9. D3 \cup {"Ready"} = Types
    BY <1>3, <1>4
  <1>10. /\ Condition("True", Fine, 0) \in ConditionType
         /\ Condition("False", "NotReady", 0) \in ConditionType
    BY DEF Condition, ConditionType
  <1> HIDE DEF probed, D3
  <1>11. syncFinalStatus(probed, 0).conds \in Conds(Types)
    BY <1>3, <1>4, <1>7, <1>9, <1>10, UpdateTypes DEF syncFinalStatus
  <1> QED BY <1>8, <1>11 DEF syncFinalStatus, StatusType, Conds

------------------------------------------------------------------------------
(* Types.                                                                  *)

LEMMA WorkerTypes ==
  ASSUME ApiOK, EnvOK, QueueOK, PcOK, MyOK, GotOK, SyncOK, Worker
  PROVE  ApiOK' /\ EnvOK' /\ QueueOK' /\ PcOK' /\ MyOK' /\ GotOK' /\ SyncOK'
  <1> USE Objects
  <1>1. CASE Start
    <2>1. Cached("cep") \in ClusterEndpointType \cup {Absent}
      BY Versions
    <2>2. ApiOK'
      BY <1>1, ReadTypes DEF Start, ApiOK
    <2>3. EnvOK' /\ QueueOK'
      BY <1>1 DEF Start, env, EnvOK, QueueOK
    <2>4. PcOK' /\ MyOK' /\ GotOK'
      BY <1>1, <2>1 DEF Start, local, sync, FirstCall, PcOK, MyOK, GotOK
    <2>5. SyncOK'
      BY <1>1 DEF Start, local, sync, SyncOK
    <2> QED BY <2>2, <2>3, <2>4, <2>5
  <1>2. CASE RemoveFinalizer
    <2>1. ApiOK' /\ EnvOK'
      <3>1. CASE Store("cep", Absent) /\ UNCHANGED budget
        BY <1>2, <3>1, StoreTypes DEF RemoveFinalizer, ApiOK, EnvOK
      <3>2. CASE UNCHANGED <<history, fresh, budget>>
        BY <1>2, <3>2 DEF RemoveFinalizer, ApiOK, EnvOK
      <3>3. CASE Fails("cep", fresh["cep"], Absent)
        BY <1>2, <3>3, FailsTypes DEF RemoveFinalizer, ApiOK
      <3> QED BY <1>2, <3>1, <3>2, <3>3 DEF RemoveFinalizer
    <2>2. Idle /\ QueueOK'
      BY <1>2 DEF RemoveFinalizer, Refused, Return, QueueOK
    <2> QED BY <2>1, <2>2, IdleTypes
  <1>3. CASE AddFinalizer
    <2>1. [my EXCEPT !.fin = TRUE] \in ClusterEndpointType
      BY <1>3 DEF AddFinalizer, MyOK, ClusterEndpointType
    <2>2. CASE /\ my' = [my EXCEPT !.fin = TRUE]
               /\ Store("cep", my') /\ pc' = "svcRead"
               /\ UNCHANGED <<budget, timer, got, tries, sync>>
      <3>1. ApiOK' /\ EnvOK' /\ QueueOK'
        BY <1>3, <2>1, <2>2, StoreTypes DEF AddFinalizer, ApiOK, EnvOK, QueueOK
      <3>2. PcOK' /\ MyOK' /\ GotOK'
        BY <1>3, <2>1, <2>2 DEF AddFinalizer, PcOK, MyOK, GotOK
      <3>3. SyncOK'
        BY <2>2 DEF SyncOK, sync
      <3> QED BY <3>1, <3>2, <3>3
    <2>3. CASE Refused /\ UNCHANGED <<history, fresh, budget>>
      <3>1. ApiOK' /\ EnvOK' /\ QueueOK' /\ Idle
        BY <1>3, <2>3 DEF AddFinalizer, Refused, Return, ApiOK, EnvOK, QueueOK
      <3> QED BY <3>1, IdleTypes
    <2>4. CASE Fails("cep", fresh["cep"], [my EXCEPT !.fin = TRUE]) /\ Refused
      <3>1. ApiOK' /\ EnvOK'
        BY <1>3, <2>1, <2>4, FailsTypes DEF AddFinalizer, ApiOK
      <3>2. Idle /\ QueueOK'
        BY <1>3, <2>4 DEF AddFinalizer, Refused, Return, QueueOK
      <3> QED BY <3>1, <3>2, IdleTypes
    <2> QED BY <1>3, <2>2, <2>3, <2>4 DEF AddFinalizer
  <1>4. CASE ReadService
    <2>1. Cached("svc") \in ServiceType \cup {Absent}
      BY Versions
    <2>2. ApiOK'
      BY <1>4, ReadTypes DEF ReadService
    <2>3. EnvOK' /\ QueueOK'
      BY <1>4 DEF ReadService, env, queue, EnvOK, QueueOK
    <2>4. PcOK' /\ MyOK' /\ GotOK'
      BY <1>4, <2>1 DEF ReadService, PcOK, MyOK, GotOK
    <2>5. SyncOK'
      BY <1>4 DEF ReadService, sync, SyncOK
    <2> QED BY <2>2, <2>3, <2>4, <2>5
  <1>5. CASE syncService
    <2>1. my \in ClusterEndpointType /\ got \in ServiceType \cup {Absent} /\ pc = "svcApply"
      BY <1>5 DEF syncService, MyOK, GotOK
    <2>2. PICK result \in {"well", "badly", "again"} :
            /\ CreateOrUpdate("svc", result)
            /\ IF result = "again" THEN ServiceAgain ELSE ServiceDone(result = "well")
      BY <1>5 DEF syncService
    <2>3. ApiOK' /\ EnvOK'
      <3>1. Desired("svc") \in ServiceType
        BY <2>1, DesiredServiceType DEF Desired
      <3>2. Accepted("svc") \in BOOLEAN
        BY DEF Accepted
      <3>3. UNCHANGED <<uid, up>>
        BY <1>5 DEF syncService
      <3>4. CASE UNCHANGED <<history, fresh, budget>>
        BY <3>3, <3>4 DEF ApiOK, EnvOK
      <3>5. CASE Store("svc", Desired("svc")) /\ UNCHANGED budget
        BY <3>1, <3>3, <3>5, StoreTypes DEF ApiOK, EnvOK
      <3>6. CASE Fails("svc", Accepted("svc"), Desired("svc"))
        BY <3>1, <3>2, <3>3, <3>6, FailsTypes
      <3> QED BY <2>2, <3>4, <3>5, <3>6 DEF CreateOrUpdate
    <2>4. QueueOK' /\ UNCHANGED my
      BY <1>5 DEF syncService, queue, QueueOK
    <2>5. CASE result = "again" /\ ServiceAgain
      <3>1. tries < Steps
        BY <2>2, <2>5 DEF CreateOrUpdate
      <3>2. PcOK' /\ MyOK' /\ GotOK'
        BY <2>1, <2>4, <2>5 DEF ServiceAgain, PcOK, MyOK, GotOK
      <3>3. SyncOK'
        BY <2>5, <3>1, StepsAssumption DEF ServiceAgain, SyncOK, sync
      <3> QED BY <2>3, <2>4, <3>2, <3>3
    <2>6. CASE ServiceDone(result = "well")
      <3>1. my.spec.ports \subseteq Ports
        BY <2>1, SpecPorts DEF ClusterEndpointType
      <3>2. PcOK' /\ MyOK' /\ GotOK'
        BY <2>1, <2>4, <2>6 DEF ServiceDone, PcOK, MyOK, GotOK
      <3>3. SyncOK'
        BY <2>6, <3>1, FirstTry DEF ServiceDone, SyncOK
      <3> QED BY <2>3, <2>4, <3>2, <3>3
    <2> QED BY <2>2, <2>5, <2>6
  <1>6. CASE \E p \in Ports : Probe(p)
    <2>1. PICK p \in Ports : Probe(p)
      BY <1>6
    <2>2. ApiOK' /\ EnvOK' /\ QueueOK'
      BY <2>1 DEF Probe, api, env, queue, ApiOK, EnvOK, QueueOK
    <2>3. PcOK' /\ MyOK' /\ GotOK'
      BY <2>1 DEF Probe, PcOK, MyOK, GotOK
    <2>4. SyncOK'
      BY <2>1 DEF Probe, SyncOK
    <2> QED BY <2>2, <2>3, <2>4
  <1>7. CASE ReadEndpoints
    <2>1. Cached("ep") \in EndpointsType \cup {Absent}
      BY Versions
    <2>2. ApiOK'
      BY <1>7, ReadTypes DEF ReadEndpoints
    <2>3. EnvOK' /\ QueueOK'
      BY <1>7 DEF ReadEndpoints, env, queue, EnvOK, QueueOK
    <2>4. PcOK' /\ MyOK' /\ GotOK'
      BY <1>7, <2>1 DEF ReadEndpoints, PcOK, MyOK, GotOK
    <2>5. SyncOK'
      BY <1>7 DEF ReadEndpoints, SyncErrorAfter, SyncOK
    <2> QED BY <2>2, <2>3, <2>4, <2>5
  <1>8. CASE syncEndpoint
    <2>1. my \in ClusterEndpointType /\ got \in EndpointsType \cup {Absent} /\ pc = "epApply"
      BY <1>8 DEF syncEndpoint, MyOK, GotOK
    <2>2. PICK result \in {"well", "badly", "again"} :
            /\ CreateOrUpdate("ep", result)
            /\ IF result = "again" THEN EndpointAgain ELSE EndpointDone(result = "well")
      BY <1>8 DEF syncEndpoint
    <2>3. ApiOK' /\ EnvOK'
      <3>1. Desired("ep") \in EndpointsType
        BY <2>1, DesiredEndpointsType DEF Desired, SyncOK
      <3>2. Accepted("ep") \in BOOLEAN
        BY DEF Accepted
      <3>3. UNCHANGED <<uid, up>>
        BY <1>8 DEF syncEndpoint
      <3>4. CASE UNCHANGED <<history, fresh, budget>>
        BY <3>3, <3>4 DEF ApiOK, EnvOK
      <3>5. CASE Store("ep", Desired("ep")) /\ UNCHANGED budget
        BY <3>1, <3>3, <3>5, StoreTypes DEF ApiOK, EnvOK
      <3>6. CASE Fails("ep", Accepted("ep"), Desired("ep"))
        BY <3>1, <3>2, <3>3, <3>6, FailsTypes
      <3> QED BY <2>2, <3>4, <3>5, <3>6 DEF CreateOrUpdate
    <2>4. QueueOK' /\ UNCHANGED my
      BY <1>8 DEF syncEndpoint, queue, QueueOK
    <2>5. CASE result = "again" /\ EndpointAgain
      <3>1. tries < Steps
        BY <2>2, <2>5 DEF CreateOrUpdate
      <3>2. my.spec.ports \subseteq Ports
        BY <2>1, SpecPorts DEF ClusterEndpointType
      <3>3. PcOK' /\ MyOK' /\ GotOK'
        BY <2>1, <2>4, <2>5 DEF EndpointAgain, PcOK, MyOK, GotOK
      <3>4. tries' \in 1..Steps
        BY <2>5, <3>1, StepsAssumption DEF EndpointAgain, SyncOK
      <3>5. SyncOK'
        BY <2>5, <3>2, <3>4 DEF EndpointAgain, SyncOK
      <3> QED BY <2>3, <2>4, <3>3, <3>5
    <2>6. CASE EndpointDone(result = "well")
      <3>1. PcOK' /\ MyOK' /\ GotOK'
        BY <2>1, <2>4, <2>6 DEF EndpointDone, PcOK, MyOK, GotOK
      <3>2. endpoint' \in {Fine, "EndpointSyncError", "EndpointSyncPortError"}
        BY <2>6 DEF EndpointDone, EndpointOutcome, SyncOK
      <3>3. SyncOK'
        BY <2>6, <3>2, FirstTry DEF EndpointDone, SyncOK
      <3> QED BY <2>3, <2>4, <3>1, <3>3
    <2> QED BY <2>2, <2>5, <2>6
  <1>9. CASE ReadStatus
    <2>1. Cached("cep") \in ClusterEndpointType \cup {Absent}
      BY Versions
    <2>2. EnvOK'
      BY <1>9 DEF ReadStatus, env, EnvOK
    <2>3. CASE Cached("cep") = Absent
      <3>1. ApiOK' /\ QueueOK' /\ Idle
        BY <1>9, <2>3 DEF ReadStatus, Refused, Return, ApiOK, QueueOK
      <3> QED BY <2>2, <3>1, IdleTypes
    <2>4. CASE Cached("cep") # Absent
      <3>1. ApiOK'
        BY <1>9, <2>4, ReadTypes DEF ReadStatus
      <3>2. QueueOK' /\ PcOK' /\ MyOK' /\ GotOK'
        BY <1>9, <2>1, <2>4 DEF ReadStatus, QueueOK, PcOK, MyOK, GotOK
      <3>3. SyncOK'
        BY <1>9, <2>4 DEF ReadStatus, SyncOK, sync
      <3> QED BY <2>2, <3>1, <3>2, <3>3
    <2> QED BY <2>3, <2>4
  <1>10. CASE updateStatus
    <2> DEFINE new == [got EXCEPT !.status = NewStatus]
    <2>1. my \in ClusterEndpointType /\ got \in ClusterEndpointType /\ pc = "statusApply"
      BY <1>10 DEF updateStatus, MyOK, GotOK
    <2>2. new \in ClusterEndpointType
      BY <2>1, NewStatusType DEF ClusterEndpointType
    <2>3. UNCHANGED <<uid, up, due>>
      BY <1>10 DEF updateStatus
    <2>4. CASE /\ IF got.status = NewStatus THEN UNCHANGED <<history, fresh>>
                                           ELSE Store("cep", new)
               /\ Return(Requeues) /\ UNCHANGED budget
      <3>1. ApiOK' /\ EnvOK'
        BY <2>2, <2>3, <2>4, StoreTypes DEF ApiOK, EnvOK
      <3>2. QueueOK' /\ Idle
        BY <2>3, <2>4 DEF Return, Requeues, QueueOK
      <3> QED BY <3>1, <3>2, IdleTypes
    <2>5. CASE /\ tries < Steps
               /\ pc' = "statusRead" /\ got' = Absent /\ tries' = tries + 1
               /\ UNCHANGED <<timer, my, sync>>
               /\ UNCHANGED <<history, fresh, budget>>
      <3>1. ApiOK' /\ EnvOK' /\ QueueOK'
        BY <2>3, <2>5 DEF ApiOK, EnvOK, QueueOK
      <3>2. PcOK' /\ MyOK' /\ GotOK'
        BY <2>1, <2>5 DEF PcOK, MyOK, GotOK
      <3>3. SyncOK'
        BY <2>5, StepsAssumption DEF SyncOK, sync
      <3> QED BY <3>1, <3>2, <3>3
    <2>6. CASE Refused /\ UNCHANGED <<history, fresh, budget>>
      <3>1. ApiOK' /\ EnvOK' /\ QueueOK' /\ Idle
        BY <2>3, <2>6 DEF Refused, Return, ApiOK, EnvOK, QueueOK
      <3> QED BY <3>1, IdleTypes
    <2>7. CASE /\ Fails("cep", fresh["cep"] /\ got.status # NewStatus, new)
               /\ Refused
      <3>1. ApiOK' /\ EnvOK'
        BY <2>2, <2>3, <2>7, FailsTypes
      <3>2. QueueOK' /\ Idle
        BY <2>3, <2>7 DEF Refused, Return, QueueOK
      <3> QED BY <3>1, <3>2, IdleTypes
    <2> QED BY <1>10, <2>4, <2>5, <2>6, <2>7 DEF updateStatus
  <1> QED BY <1>1, <1>2, <1>3, <1>4, <1>5, <1>6, <1>7, <1>8, <1>9, <1>10 DEF Worker

LEMMA BecomesTypes ==
  ASSUME ApiOK, EnvOK, QueueOK, PcOK, MyOK, GotOK, SyncOK, NEW actor,
         NEW k \in Kinds, NEW obj \in ObjectType[k] \cup {Absent},
         Becomes(actor, k, obj), uid' \in Nat
  PROVE  ApiOK' /\ EnvOK' /\ QueueOK' /\ PcOK' /\ MyOK' /\ GotOK' /\ SyncOK'
  <1>1. ApiOK'
    BY StoreTypes DEF Becomes
  <1>2. EnvOK' /\ QueueOK'
    BY BudgetAssumption DEF Becomes, Spend, queue, EnvOK, QueueOK
  <1>3. PcOK' /\ MyOK' /\ GotOK' /\ SyncOK'
    BY DEF Becomes, local, PcOK, MyOK, GotOK, SyncOK
  <1> QED BY <1>1, <1>2, <1>3

LEMMA EnvironmentTypes ==
  ASSUME ApiOK, EnvOK, QueueOK, PcOK, MyOK, GotOK, SyncOK, Environment
  PROVE  ApiOK' /\ EnvOK' /\ QueueOK' /\ PcOK' /\ MyOK' /\ GotOK' /\ SyncOK'
  <1> USE Objects
  <1>1. /\ uid \in Nat
        /\ Live("cep") \in ClusterEndpointType \cup {Absent}
        /\ Live("svc") \in ServiceType \cup {Absent}
        /\ Live("ep") \in EndpointsType \cup {Absent}
    BY Versions DEF ApiOK
  <1>2. ASSUME NEW s \in Specs, CreateClusterEndpoint(s)
        PROVE  ApiOK' /\ EnvOK' /\ QueueOK' /\ PcOK' /\ MyOK' /\ GotOK' /\ SyncOK'
    <2>1. NewClusterEndpoint(uid + 1, s) \in ClusterEndpointType
      BY <1>1 DEF NewClusterEndpoint, ClusterEndpointType, StatusType
    <2>2. uid' \in Nat
      BY <1>1, <1>2 DEF CreateClusterEndpoint
    <2> QED BY <1>2, <2>1, <2>2, BecomesTypes DEF CreateClusterEndpoint
  <1>3. ASSUME NEW s \in Specs, EditSpec(s)
        PROVE  ApiOK' /\ EnvOK' /\ QueueOK' /\ PcOK' /\ MyOK' /\ GotOK' /\ SyncOK'
    <2>1. [Live("cep") EXCEPT !.spec = s] \in ClusterEndpointType
      BY <1>1, <1>3 DEF EditSpec, ClusterEndpointType
    <2> QED BY <1>1, <1>3, <2>1, BecomesTypes DEF EditSpec
  <1>4. CASE DeleteClusterEndpoint
    <2>1. [Live("cep") EXCEPT !.del = TRUE] \in ClusterEndpointType
      BY <1>1, <1>4 DEF DeleteClusterEndpoint, ClusterEndpointType
    <2> QED BY <1>1, <1>4, <2>1, BecomesTypes DEF DeleteClusterEndpoint
  <1>5. CASE Relabel
    <2>1. [Live("cep") EXCEPT !.meta = "labelled"] \in ClusterEndpointType
      BY <1>1, <1>5 DEF Relabel, ClusterEndpointType
    <2> QED BY <1>1, <1>5, <2>1, BecomesTypes DEF Relabel
  <1>6. ASSUME NEW k \in {"svc", "ep"}, Seize(k)
        PROVE  ApiOK' /\ EnvOK' /\ QueueOK' /\ PcOK' /\ MyOK' /\ GotOK' /\ SyncOK'
    <2>1. CASE k = "svc"
      <3>1. [Live("svc") EXCEPT !.owner = Foreign] \in ServiceType
        BY <1>1, <1>6, <2>1 DEF Seize, ServiceType, Owners
      <3> QED BY <1>1, <1>6, <2>1, <3>1, BecomesTypes DEF Seize
    <2>2. CASE k = "ep"
      <3>1. [Live("ep") EXCEPT !.owner = Foreign] \in EndpointsType
        BY <1>1, <1>6, <2>2 DEF Seize, EndpointsType, Owners
      <3> QED BY <1>1, <1>6, <2>2, <3>1, BecomesTypes DEF Seize
    <2> QED BY <2>1, <2>2
  <1>7. ASSUME NEW k \in {"svc", "ep"}, Drift(k)
        PROVE  ApiOK' /\ EnvOK' /\ QueueOK' /\ PcOK' /\ MyOK' /\ GotOK' /\ SyncOK'
    <2>1. CASE k = "svc"
      <3>1. [Live("svc") EXCEPT !.ports = {}] \in ServiceType
        BY <1>1, <1>7, <2>1 DEF Drift, ServiceType
      <3> QED BY <1>1, <1>7, <2>1, <3>1, BecomesTypes DEF Drift
    <2>2. CASE k = "ep"
      <3>1. [Live("ep") EXCEPT !.subsets = {}] \in EndpointsType
        BY <1>1, <1>7, <2>2 DEF Drift, EndpointsType
      <3> QED BY <1>1, <1>7, <2>2, <3>1, BecomesTypes DEF Drift
    <2> QED BY <2>1, <2>2
  <1>8. ASSUME NEW k \in {"svc", "ep"}, Remove(k)
        PROVE  ApiOK' /\ EnvOK' /\ QueueOK' /\ PcOK' /\ MyOK' /\ GotOK' /\ SyncOK'
    BY <1>1, <1>8, BecomesTypes DEF Remove
  <1>9. ASSUME NEW p \in Ports, Flip(p)
        PROVE  ApiOK' /\ EnvOK' /\ QueueOK' /\ PcOK' /\ MyOK' /\ GotOK' /\ SyncOK'
    <2>1. ApiOK' /\ QueueOK' /\ PcOK' /\ MyOK' /\ GotOK' /\ SyncOK'
      BY <1>9 DEF Flip, api, queue, local, ApiOK, QueueOK, PcOK, MyOK, GotOK, SyncOK
    <2>2. EnvOK'
      BY <1>9, BudgetAssumption DEF Flip, Spend, EnvOK
    <2> QED BY <2>1, <2>2
  <1> QED BY <1>2, <1>3, <1>4, <1>5, <1>6, <1>7, <1>8, <1>9 DEF Environment

LEMMA TailFacts ==
  ASSUME NEW V, NEW s \in Seq(V), Len(s) > 1
  PROVE  /\ Tail(s) \in Seq(V) /\ Tail(s) # <<>>
         /\ Len(Tail(s)) = Len(s) - 1
         /\ \A i \in 1..Len(Tail(s)) : Tail(s)[i] = s[i + 1]
  <1>1. Tail(s) \in Seq(V) /\ Len(Tail(s)) = Len(s) - 1
    BY s # <<>>
  <1>2. Tail(s) # <<>>
    <2>1. Len(Tail(s)) # 0
      BY <1>1
    <2>2. Len(<<>>) = 0
      OBVIOUS
    <2> QED BY <2>1, <2>2, Zenon
  <1>3. \A i \in 1..Len(Tail(s)) : Tail(s)[i] = s[i + 1]
    BY <1>1
  <1> QED BY <1>1, <1>2, <1>3

LEMMA DeliverTypes ==
  ASSUME ApiOK, NEW k \in Kinds, Deliver(k)
  PROVE  /\ ApiOK'
         /\ Len(history'[k]) = Len(history[k]) - 1
         /\ \A i \in 1..Len(history'[k]) : history'[k][i] = history[k][i + 1]
         /\ \A j \in Kinds \ {k} : history'[j] = history[j]
         /\ Live(k)' = Live(k)
  <1> DEFINE V == ObjectType[k] \cup {Absent}
  <1>1. history[k] \in Seq(V) /\ Len(history[k]) > 1
    BY DEF ApiOK, Deliver
  <1>2. history'[k] = Tail(history[k])
    BY DEF ApiOK, Deliver
  <1> HIDE DEF V
  <1>3. /\ Tail(history[k]) \in Seq(V) /\ Tail(history[k]) # <<>>
        /\ Len(Tail(history[k])) = Len(history[k]) - 1
        /\ \A i \in 1..Len(Tail(history[k])) : Tail(history[k])[i] = history[k][i + 1]
    BY <1>1, TailFacts
  <1>4. \A j \in Kinds \ {k} : history'[j] = history[j]
    BY DEF ApiOK, Deliver
  <1>5. DOMAIN history' = Kinds /\ UNCHANGED <<fresh, uid>>
    BY DEF ApiOK, Deliver
  <1>6. ApiOK'
    BY <1>2, <1>3, <1>4, <1>5 DEF ApiOK, V
  <1>7. Live(k)' = Live(k)
    <2>1. Tail(history[k])[Len(history[k]) - 1] = history[k][Len(history[k])]
      BY <1>1, <1>3
    <2> QED BY <1>2, <1>3, <2>1 DEF Live
  <1> QED BY <1>2, <1>3, <1>4, <1>6, <1>7

LEMMA RestartTypes ==
  ASSUME ApiOK, Restart
  PROVE  /\ ApiOK'
         /\ \A k \in Kinds : history'[k] = <<Live(k)>>
  <1>1. \A k \in Kinds : history'[k] = <<Live(k)>>
    BY DEF Restart
  <1>2. ASSUME NEW k \in Kinds
        PROVE  history'[k] \in Seq(ObjectType[k] \cup {Absent}) \ {<<>>}
    <2> DEFINE V == ObjectType[k] \cup {Absent}
    <2>1. Live(k) \in V
      BY Versions
    <2> HIDE DEF V
    <2>2. <<Live(k)>> \in Seq(V) \ {<<>>}
      BY <2>1
    <2> QED BY <1>1, <2>2 DEF V
  <1>3. DOMAIN history' = Kinds /\ UNCHANGED <<fresh, uid>>
    BY DEF Restart
  <1> QED BY <1>1, <1>2, <1>3 DEF ApiOK

LEMMA TypeStep ==
  ASSUME TypeOK, [Next]_vars
  PROVE  TypeOK'
  <1>1. ApiOK /\ EnvOK /\ QueueOK /\ PcOK /\ MyOK /\ GotOK /\ SyncOK
    BY TypeParts
  <1>2. CASE Worker
    BY <1>1, <1>2, WorkerTypes, TypePartsNext
  <1>3. CASE Environment
    BY <1>1, <1>3, EnvironmentTypes, TypePartsNext
  <1>4. ASSUME NEW k \in Kinds, Deliver(k) PROVE TypeOK'
    <2>1. ApiOK'
      BY <1>1, <1>4, DeliverTypes
    <2>2. EnvOK' /\ PcOK' /\ MyOK' /\ GotOK' /\ SyncOK'
      BY <1>1, <1>4 DEF Deliver, env, local, EnvOK, PcOK, MyOK, GotOK, SyncOK
    <2>3. QueueOK'
      BY <1>1, <1>4 DEF Deliver, QueueOK
    <2> QED BY <2>1, <2>2, <2>3, TypePartsNext
  <1>5. CASE TimerFires
    <2>1. ApiOK' /\ EnvOK' /\ QueueOK'
      BY <1>1, <1>5 DEF TimerFires, api, env, ApiOK, EnvOK, QueueOK
    <2>2. PcOK' /\ MyOK' /\ GotOK' /\ SyncOK'
      BY <1>1, <1>5 DEF TimerFires, local, PcOK, MyOK, GotOK, SyncOK
    <2> QED BY <2>1, <2>2, TypePartsNext
  <1>6. CASE Restart
    <2>1. ApiOK' /\ Idle
      BY <1>1, <1>6, RestartTypes DEF Restart
    <2>2. EnvOK'
      BY <1>1, <1>6, BudgetAssumption DEF Restart, Spend, EnvOK
    <2>3. QueueOK'
      BY <1>6 DEF Restart, QueueOK
    <2> QED BY <2>1, <2>2, <2>3, IdleTypes, TypePartsNext
  <1>7. ASSUME NEW k \in {"svc", "ep"}, CollectGarbage(k) PROVE TypeOK'
    <2>1. ApiOK'
      BY <1>1, <1>7, StoreTypes DEF CollectGarbage, ApiOK, Kinds
    <2>2. EnvOK' /\ QueueOK'
      BY <1>1, <1>7 DEF CollectGarbage, env, queue, EnvOK, QueueOK
    <2>3. PcOK' /\ MyOK' /\ GotOK' /\ SyncOK'
      BY <1>1, <1>7 DEF CollectGarbage, local, PcOK, MyOK, GotOK, SyncOK
    <2> QED BY <2>1, <2>2, <2>3, TypePartsNext
  <1>8. CASE UNCHANGED vars
    <2>1. ApiOK' /\ EnvOK' /\ QueueOK'
      BY <1>1, <1>8 DEF vars, api, env, queue, ApiOK, EnvOK, QueueOK
    <2>2. PcOK' /\ MyOK' /\ GotOK' /\ SyncOK'
      BY <1>1, <1>8 DEF vars, local, PcOK, MyOK, GotOK, SyncOK
    <2> QED BY <2>1, <2>2, TypePartsNext
  <1> QED BY <1>2, <1>3, <1>4, <1>5, <1>6, <1>7, <1>8 DEF Next, Informers, Collector

LEMMA TypeInit == Init => TypeOK
  <1> SUFFICES ASSUME Init PROVE TypeOK
    OBVIOUS
  <1> USE Objects
  <1>1. PICK c \in {Absent} \cup { NewClusterEndpoint(1, s) : s \in Specs },
             sv \in Services, e \in Endpoints :
          history = [k \in Kinds |-> <<CASE k = "cep" -> c [] k = "svc" -> sv [] k = "ep" -> e>>]
    BY DEF Init
  <1>2. c \in ClusterEndpointType \cup {Absent}
    BY DEF NewClusterEndpoint, ClusterEndpointType, StatusType
  <1>3. sv \in ServiceType \cup {Absent} /\ e \in EndpointsType \cup {Absent}
    BY BeforehandAssumption
  <1>4. /\ history["cep"] = <<c>> /\ history["svc"] = <<sv>> /\ history["ep"] = <<e>>
        /\ DOMAIN history = Kinds
    BY <1>1
  <1>5. \A k \in Kinds : history[k] \in Seq(ObjectType[k] \cup {Absent}) \ {<<>>}
    BY <1>2, <1>3, <1>4
  <1>6. /\ fresh \in [Kinds -> BOOLEAN] /\ uid \in Nat
        /\ up \subseteq Ports /\ budget = Budget
    BY DEF Init
  <1>7. due \in BOOLEAN /\ timer \in BOOLEAN
    BY DEF Init
  <1>8. PcOK /\ MyOK /\ GotOK
    BY DEF Init, PcOK, MyOK, GotOK
  <1>9. SyncOK
    BY FirstTry DEF Init, SyncOK
  <1>10. ApiOK /\ EnvOK /\ QueueOK
    BY <1>4, <1>5, <1>6, <1>7, BudgetAssumption DEF ApiOK, EnvOK, QueueOK
  <1> QED BY <1>8, <1>9, <1>10, TypeParts

\* Every variable keeps its type, for any specs, objects and environment.
THEOREM TypeCorrect == Spec => []TypeOK
  BY TypeInit, TypeStep, PTL DEF Spec

------------------------------------------------------------------------------
(* A round keeps its ClusterEndpoint.                                      *)

\* A version of the ClusterEndpoint with a finalizer that nobody has deleted.
Promised(v) == v # Absent /\ v.fin /\ ~v.del

\* The object v is a version of is still live, with its finalizer.
Kept(v) == Live("cep") # Absent /\ Live("cep").uid = v.uid /\ Live("cep").fin

\* However old a version the cache may still show, what it promises holds.
Remembered ==
  \A i \in 1..Len(history["cep"]) :
    Promised(history["cep"][i]) => Kept(history["cep"][i])

\* A read of the object k the API server would still accept a write of is of
\* its only version.
Holds(k, held) == fresh[k] => Len(history[k]) = 1 /\ history[k][1] = held

ReadIsLive ==
  /\ pc \in {"unfinalize", "finalize"} => Holds("cep", my)
  /\ pc = "statusApply" => Holds("cep", got)
  /\ pc = "svcApply" => Holds("svc", got)
  /\ pc = "epApply" => Holds("ep", got)

\* Only a deleted ClusterEndpoint loses its finalizer.
OnlyDeleted == pc = "unfinalize" => my.del

Inv == FinalizerHeld /\ Remembered /\ ReadIsLive /\ OnlyDeleted

\* Storing obj as the ClusterEndpoint neither ends one with a finalizer nor
\* takes the finalizer away.
Keeps(obj) ==
  Live("cep") # Absent /\ Live("cep").fin =>
    obj # Absent /\ obj.uid = Live("cep").uid /\ obj.fin

LEMMA RememberedStays ==
  ASSUME Remembered, UNCHANGED <<history>>
  PROVE  Remembered'
  BY DEF Remembered, Promised, Kept, Live

LEMMA RememberedStore ==
  ASSUME ApiOK, Remembered, NEW obj \in ObjectType["cep"] \cup {Absent},
         Store("cep", obj),
         Keeps(obj) \/ (Len(history["cep"]) = 1 /\ history["cep"][1].del)
  PROVE  Remembered'
  <1> DEFINE h == history["cep"]
  <1>1. /\ Len(h') = Len(h) + 1 /\ Live("cep")' = obj
        /\ \A i \in 1..Len(h) : h'[i] = h[i]
        /\ Len(h) \in Nat \ {0}
    BY StoreEffect, Versions, Objects
  <1>2. h'[Len(h) + 1] = obj
    BY <1>1 DEF Live
  <1>3. ASSUME NEW i \in 1..Len(h'), Promised(h'[i])
        PROVE  Live("cep")' # Absent /\ Live("cep")'.uid = h'[i].uid /\ Live("cep")'.fin
    <2>1. CASE i = Len(h) + 1
      BY <1>1, <1>2, <1>3, <2>1 DEF Promised
    <2>2. CASE i # Len(h) + 1
      <3>1. i \in 1..Len(h) /\ h'[i] = h[i] /\ Promised(h[i])
        BY <1>1, <1>3, <2>2
      <3>2. Kept(h[i])
        BY <3>1 DEF Remembered
      <3>3. CASE Keeps(obj)
        BY <1>1, <3>1, <3>2, <3>3 DEF Keeps, Kept
      <3>4. CASE Len(h) = 1 /\ h[1].del
        <4>1. i = 1
          BY <3>1, <3>4
        <4> QED BY <3>1, <3>4, <4>1 DEF Promised
      <3> QED BY <3>3, <3>4
    <2> QED BY <2>1, <2>2
  <1> QED BY <1>3 DEF Remembered, Promised, Kept

LEMMA RememberedDeliver ==
  ASSUME ApiOK, Remembered, NEW k \in Kinds, Deliver(k)
  PROVE  Remembered'
  <1> DEFINE h == history["cep"]
  <1>1. CASE k = "cep"
    <2>1. Deliver("cep") /\ "cep" \in Kinds
      BY <1>1
    <2>2. /\ Len(h') = Len(h) - 1
          /\ \A i \in 1..Len(h') : h'[i] = h[i + 1]
          /\ Live("cep")' = Live("cep")
      BY <2>1, DeliverTypes
    <2>3. Len(h) \in Nat
      BY <2>1, Versions
    <2>4. \A i \in 1..Len(h') : i + 1 \in 1..Len(h)
      BY <2>2, <2>3
    <2> QED BY <2>2, <2>4 DEF Remembered, Promised, Kept
  <1>2. CASE k # "cep"
    <2>1. "cep" \in Kinds \ {k}
      BY <1>2, Objects
    <2>2. h' = h
      BY <2>1, DeliverTypes
    <2> QED BY <2>2 DEF Remembered, Promised, Kept, Live
  <1> QED BY <1>1, <1>2

\* A step that leaves the worker's variables alone keeps what it knows.
LEMMA ReadIsLiveQuiet ==
  ASSUME ReadIsLive, UNCHANGED local,
         \A k \in Kinds : fresh'[k] => fresh[k],
         \A k \in Kinds : ~fresh'[k] \/ history'[k] = history[k] \/ Len(history[k]) > 1
  PROVE  ReadIsLive'
  <1>1. ASSUME NEW k \in Kinds, NEW held, Holds(k, held), fresh'[k]
        PROVE  Len(history'[k]) = 1 /\ history'[k][1] = held
    <2>1. Len(history[k]) = 1 /\ history[k][1] = held
      BY <1>1 DEF Holds
    <2>2. ~(Len(history[k]) > 1)
      BY <2>1
    <2>3. history'[k] = history[k]
      BY <1>1, <2>2
    <2> QED BY <2>1, <2>3
  <1>2. pc' = pc /\ my' = my /\ got' = got
    BY DEF local
  <1>3. "cep" \in Kinds /\ "svc" \in Kinds /\ "ep" \in Kinds
    BY Objects
  <1>4. pc' \in {"unfinalize", "finalize"} => Holds("cep", my)'
    BY <1>1, <1>2, <1>3 DEF ReadIsLive, Holds
  <1>5. pc' = "statusApply" => Holds("cep", got)'
    BY <1>1, <1>2, <1>3 DEF ReadIsLive, Holds
  <1>6. pc' = "svcApply" => Holds("svc", got)'
    BY <1>1, <1>2, <1>3 DEF ReadIsLive, Holds
  <1>7. pc' = "epApply" => Holds("ep", got)'
    BY <1>1, <1>2, <1>3 DEF ReadIsLive, Holds
  <1> QED BY <1>4, <1>5, <1>6, <1>7 DEF ReadIsLive

LEMMA HeldQuiet ==
  ASSUME FinalizerHeld, OnlyDeleted, UNCHANGED local,
         Live("cep")' = Live("cep") \/ Keeps(Live("cep")')
  PROVE  FinalizerHeld' /\ OnlyDeleted'
  BY DEF FinalizerHeld, OnlyDeleted, Syncing, local, Keeps

\* A write of somebody else.
LEMMA InvStore ==
  ASSUME ApiOK, Inv, UNCHANGED local, NEW k \in Kinds,
         NEW obj \in ObjectType[k] \cup {Absent}, Store(k, obj),
         k = "cep" => Keeps(obj)
  PROVE  Inv'
  <1>1. /\ Live(k)' = obj /\ ~fresh'[k]
        /\ \A j \in Kinds \ {k} : history'[j] = history[j] /\ fresh'[j] = fresh[j]
    BY StoreEffect
  <1>2. ReadIsLive'
    BY <1>1, ReadIsLiveQuiet DEF Inv
  <1>3. CASE k = "cep"
    <2>1. Remembered'
      BY <1>3, RememberedStore DEF Inv
    <2>2. FinalizerHeld' /\ OnlyDeleted'
      BY <1>1, <1>3, HeldQuiet DEF Inv
    <2> QED BY <1>2, <2>1, <2>2 DEF Inv
  <1>4. CASE k # "cep"
    <2>1. history'["cep"] = history["cep"]
      BY <1>1, <1>4, Objects
    <2>2. Remembered'
      BY <2>1 DEF Inv, Remembered, Promised, Kept, Live
    <2>3. FinalizerHeld' /\ OnlyDeleted'
      BY <2>1, HeldQuiet DEF Inv, Live
    <2> QED BY <1>2, <2>2, <2>3 DEF Inv
  <1> QED BY <1>3, <1>4

LEMMA FreshIsLive ==
  ASSUME ApiOK, NEW k \in Kinds, NEW held, Holds(k, held), fresh[k]
  PROVE  Live(k) = held /\ Len(history[k]) = 1 /\ history[k][1] = held
  BY DEF Holds, Live

LEMMA InvIdle ==
  ASSUME Remembered', Idle
  PROVE  Inv'
  BY DEF Inv, Idle, FinalizerHeld, Syncing, ReadIsLive, OnlyDeleted

\* A step of the worker within a round that leaves the ClusterEndpoint alone.
LEMMA InvRound ==
  ASSUME Inv, Syncing, my' = my, history'["cep"] = history["cep"],
         pc' \notin {"unfinalize", "finalize"}, ReadIsLive'
  PROVE  Inv'
  <1>1. Live("cep")' = Live("cep")
    BY DEF Live
  <1>2. FinalizerHeld' /\ OnlyDeleted'
    BY <1>1 DEF Inv, FinalizerHeld, OnlyDeleted
  <1>3. Remembered'
    BY <1>1 DEF Inv, Remembered, Promised, Kept
  <1> QED BY <1>2, <1>3 DEF Inv

\* Read takes the cached version.
LEMMA ReadHolds ==
  ASSUME ApiOK, NEW k \in Kinds, Read(k), UNCHANGED history, NEW held, held = Cached(k)
  PROVE  fresh'[k] => Len(history'[k]) = 1 /\ history'[k][1] = held
  BY Versions DEF Read, ApiOK

LEMMA InvWorker ==
  ASSUME ApiOK, PcOK, MyOK, GotOK, SyncOK, Inv, Worker
  PROVE  Inv'
  <1> USE Objects
  <1>1. CASE Start
    <2>1. UNCHANGED history /\ Remembered'
      BY <1>1, RememberedStays DEF Start, Inv
    <2>2. CASE Cached("cep") = Absent
      <3>1. UNCHANGED <<fresh, local>>
        BY <1>1, <2>2 DEF Start
      <3>2. ReadIsLive'
        BY <2>1, <3>1, ReadIsLiveQuiet DEF Inv
      <3>3. FinalizerHeld' /\ OnlyDeleted'
        BY <2>1, <3>1, HeldQuiet DEF Inv, Live
      <3> QED BY <2>1, <3>2, <3>3 DEF Inv
    <2>3. CASE Cached("cep") # Absent
      <3> DEFINE c == Cached("cep")
      <3>1. my' = c /\ Read("cep") /\ pc' = FirstCall(c)
        BY <1>1, <2>3 DEF Start
      <3>2. c \in ClusterEndpointType /\ c = history["cep"][1] /\ Len(history["cep"]) \in Nat \ {0}
        BY <2>3, Versions
      <3>3. fresh'["cep"] => Len(history'["cep"]) = 1 /\ history'["cep"][1] = c
        BY <2>1, <3>1, ReadHolds
      <3>4. ReadIsLive'
        BY <3>1, <3>3 DEF ReadIsLive, Holds, FirstCall
      <3>5. OnlyDeleted'
        BY <3>1 DEF OnlyDeleted, FirstCall
      <3>6. CASE c.fin /\ ~c.del
        <4>1. Kept(c)
          BY <2>3, <3>2, <3>6 DEF Inv, Remembered, Promised
        <4>2. Live("cep")' = Live("cep")
          BY <2>1 DEF Live
        <4>3. FinalizerHeld'
          BY <3>1, <4>1, <4>2 DEF FinalizerHeld, Kept
        <4> QED BY <2>1, <3>4, <3>5, <4>3 DEF Inv
      <3>7. CASE ~(c.fin /\ ~c.del)
        <4>1. pc' \in {"unfinalize", "finalize"}
          BY <3>1, <3>7 DEF FirstCall
        <4>2. FinalizerHeld'
          BY <4>1 DEF FinalizerHeld, Syncing
        <4> QED BY <2>1, <3>4, <3>5, <4>2 DEF Inv
      <3> QED BY <3>6, <3>7
    <2> QED BY <2>2, <2>3
  <1>2. CASE RemoveFinalizer
    <2>1. Idle
      BY <1>2 DEF RemoveFinalizer, Refused, Return
    <2>2. ASSUME fresh["cep"] PROVE Len(history["cep"]) = 1 /\ history["cep"][1].del
      BY <1>2, <2>2, FreshIsLive DEF RemoveFinalizer, Inv, ReadIsLive, OnlyDeleted
    <2>3. CASE UNCHANGED history
      BY <2>1, <2>3, RememberedStays, InvIdle DEF Inv
    <2>4. CASE fresh["cep"] /\ Store("cep", Absent)
      <3>1. Remembered'
        BY <2>2, <2>4, RememberedStore DEF Inv
      <3> QED BY <2>1, <3>1, InvIdle
    <2> QED BY <1>2, <2>3, <2>4 DEF RemoveFinalizer, Fails
  <1>3. CASE AddFinalizer
    <2> DEFINE new == [my EXCEPT !.fin = TRUE]
    <2>1. /\ my \in ClusterEndpointType /\ new \in ClusterEndpointType
          /\ new.fin /\ new.uid = my.uid /\ new # Absent
      BY <1>3 DEF AddFinalizer, MyOK, ClusterEndpointType
    <2>2. ASSUME fresh["cep"] PROVE Keeps(new)
      <3>1. Live("cep") = my
        BY <1>3, <2>2, FreshIsLive DEF AddFinalizer, Inv, ReadIsLive
      <3> QED BY <2>1, <3>1 DEF Keeps
    <2>3. CASE Idle /\ UNCHANGED history
      BY <2>3, RememberedStays, InvIdle DEF Inv
    <2>4. CASE Idle /\ fresh["cep"] /\ Store("cep", new)
      <3>1. Remembered'
        BY <2>1, <2>2, <2>4, RememberedStore DEF Inv
      <3> QED BY <2>4, <3>1, InvIdle
    <2>5. CASE fresh["cep"] /\ my' = new /\ Store("cep", new) /\ pc' = "svcRead"
      <3>1. Remembered'
        BY <2>1, <2>2, <2>5, RememberedStore DEF Inv
      <3>2. Live("cep")' = new
        BY <2>5, StoreEffect
      <3>3. FinalizerHeld'
        BY <2>1, <2>5, <3>2 DEF FinalizerHeld
      <3>4. ReadIsLive' /\ OnlyDeleted'
        BY <2>5 DEF ReadIsLive, OnlyDeleted
      <3> QED BY <3>1, <3>3, <3>4 DEF Inv
    <2> QED BY <1>3, <2>3, <2>4, <2>5 DEF AddFinalizer, Fails, Refused, Return
  <1>4. CASE ReadService
    <2>1. /\ UNCHANGED <<history, my>> /\ Read("svc") /\ got' = Cached("svc")
          /\ pc = "svcRead" /\ pc' = "svcApply"
      BY <1>4 DEF ReadService
    <2>2. fresh'["svc"] => Len(history'["svc"]) = 1 /\ history'["svc"][1] = got'
      BY <2>1, ReadHolds
    <2>3. ReadIsLive'
      BY <2>1, <2>2 DEF ReadIsLive, Holds
    <2> QED BY <2>1, <2>3, InvRound DEF Syncing
  <1>5. CASE syncService
    <2>1. history'["cep"] = history["cep"]
      BY <1>5 DEF syncService, CreateOrUpdate, Fails, Store, ApiOK
    <2>2. pc = "svcApply" /\ my' = my /\ pc' \in {"svcRead", "probe"}
      BY <1>5 DEF syncService, ServiceAgain, ServiceDone
    <2>3. ReadIsLive'
      BY <2>2 DEF ReadIsLive
    <2> QED BY <2>1, <2>2, <2>3, InvRound DEF Syncing
  <1>6. ASSUME NEW p \in Ports, Probe(p) PROVE Inv'
    <2>1. UNCHANGED <<history, my>> /\ pc = "probe" /\ pc' = "probe"
      BY <1>6 DEF Probe, api
    <2>2. ReadIsLive'
      BY <2>1 DEF ReadIsLive
    <2> QED BY <2>1, <2>2, InvRound DEF Syncing
  <1>7. CASE ReadEndpoints
    <2>1. /\ UNCHANGED <<history, my>> /\ Read("ep") /\ got' = Cached("ep")
          /\ pc = "probe" /\ pc' = "epApply"
      BY <1>7 DEF ReadEndpoints
    <2>2. fresh'["ep"] => Len(history'["ep"]) = 1 /\ history'["ep"][1] = got'
      BY <2>1, ReadHolds
    <2>3. ReadIsLive'
      BY <2>1, <2>2 DEF ReadIsLive, Holds
    <2> QED BY <2>1, <2>3, InvRound DEF Syncing
  <1>8. CASE syncEndpoint
    <2>1. history'["cep"] = history["cep"]
      BY <1>8 DEF syncEndpoint, CreateOrUpdate, Fails, Store, ApiOK
    <2>2. pc = "epApply" /\ my' = my /\ pc' \in {"probe", "statusRead"}
      BY <1>8 DEF syncEndpoint, EndpointAgain, EndpointDone
    <2>3. ReadIsLive'
      BY <2>2 DEF ReadIsLive
    <2> QED BY <2>1, <2>2, <2>3, InvRound DEF Syncing
  <1>9. CASE ReadStatus
    <2>1. UNCHANGED history
      BY <1>9 DEF ReadStatus
    <2>2. CASE Idle
      BY <2>1, <2>2, RememberedStays, InvIdle DEF Inv
    <2>3. CASE /\ got' = Cached("cep") /\ Read("cep")
               /\ pc = "statusRead" /\ pc' = "statusApply" /\ my' = my
      <3>1. fresh'["cep"] => Len(history'["cep"]) = 1 /\ history'["cep"][1] = got'
        BY <2>1, <2>3, ReadHolds
      <3>2. ReadIsLive'
        BY <2>3, <3>1 DEF ReadIsLive, Holds
      <3> QED BY <2>1, <2>3, <3>2, InvRound DEF Syncing
    <2> QED BY <1>9, <2>2, <2>3 DEF ReadStatus, Refused, Return
  <1>10. CASE updateStatus
    <2> DEFINE new == [got EXCEPT !.status = NewStatus]
    <2>1. my \in ClusterEndpointType /\ got \in ClusterEndpointType /\ pc = "statusApply"
      BY <1>10 DEF updateStatus, MyOK, GotOK
    <2>2. /\ new \in ClusterEndpointType
          /\ new.fin = got.fin /\ new.uid = got.uid /\ new # Absent
      BY <2>1, NewStatusType DEF ClusterEndpointType
    <2>3. ASSUME fresh["cep"] PROVE Keeps(new)
      <3>1. Live("cep") = got
        BY <2>1, <2>3, FreshIsLive DEF Inv, ReadIsLive
      <3> QED BY <2>2, <3>1 DEF Keeps
    <2>4. CASE Idle /\ UNCHANGED history
      BY <2>4, RememberedStays, InvIdle DEF Inv
    <2>5. CASE Idle /\ fresh["cep"] /\ Store("cep", new)
      <3>1. Remembered'
        BY <2>2, <2>3, <2>5, RememberedStore DEF Inv
      <3> QED BY <2>5, <3>1, InvIdle
    <2>6. CASE pc' = "statusRead" /\ UNCHANGED <<history, my>>
      <3>1. ReadIsLive'
        BY <2>6 DEF ReadIsLive
      <3> QED BY <2>1, <2>6, <3>1, InvRound DEF Syncing
    <2> QED BY <1>10, <2>4, <2>5, <2>6 DEF updateStatus, Fails, Refused, Return
  <1> QED BY <1>1, <1>2, <1>3, <1>4, <1>5, <1>6, <1>7, <1>8, <1>9, <1>10 DEF Worker

LEMMA InvEnvironment ==
  ASSUME ApiOK, Inv, Environment
  PROVE  Inv'
  <1> USE Objects
  <1>1. /\ uid \in Nat
        /\ Live("cep") \in ClusterEndpointType \cup {Absent}
        /\ Live("svc") \in ServiceType \cup {Absent}
        /\ Live("ep") \in EndpointsType \cup {Absent}
    BY Versions DEF ApiOK
  <1>2. ASSUME NEW actor, NEW k \in Kinds, NEW obj \in ObjectType[k] \cup {Absent},
               Becomes(actor, k, obj), k = "cep" => Keeps(obj)
        PROVE  Inv'
    BY <1>2, InvStore DEF Becomes
  <1>3. ASSUME NEW s \in Specs, CreateClusterEndpoint(s) PROVE Inv'
    <2>1. NewClusterEndpoint(uid + 1, s) \in ClusterEndpointType
      BY <1>1 DEF NewClusterEndpoint, ClusterEndpointType, StatusType
    <2>2. Keeps(NewClusterEndpoint(uid + 1, s))
      BY <1>3 DEF CreateClusterEndpoint, Keeps
    <2> QED BY <1>2, <1>3, <2>1, <2>2 DEF CreateClusterEndpoint
  <1>4. ASSUME NEW s \in Specs, EditSpec(s) PROVE Inv'
    <2> DEFINE obj == [Live("cep") EXCEPT !.spec = s]
    <2>1. Live("cep") \in ClusterEndpointType /\ Becomes("edit", "cep", obj)
      BY <1>1, <1>4 DEF EditSpec
    <2>2. /\ obj \in ClusterEndpointType /\ obj # Absent
          /\ obj.uid = Live("cep").uid /\ obj.fin = Live("cep").fin
      BY <2>1 DEF ClusterEndpointType
    <2> QED BY <1>2, <2>1, <2>2 DEF Keeps
  <1>5. CASE DeleteClusterEndpoint
    <2> DEFINE obj == [Live("cep") EXCEPT !.del = TRUE]
    <2>1. Live("cep") \in ClusterEndpointType
      BY <1>1, <1>5 DEF DeleteClusterEndpoint
    <2>2. /\ obj \in ClusterEndpointType /\ obj # Absent
          /\ obj.uid = Live("cep").uid /\ obj.fin = Live("cep").fin
      BY <2>1 DEF ClusterEndpointType
    <2>3. CASE Live("cep").fin
      BY <1>2, <1>5, <2>2, <2>3 DEF DeleteClusterEndpoint, Keeps
    <2>4. CASE ~Live("cep").fin
      BY <1>2, <1>5, <2>4 DEF DeleteClusterEndpoint, Keeps
    <2> QED BY <2>3, <2>4
  <1>6. CASE Relabel
    <2> DEFINE obj == [Live("cep") EXCEPT !.meta = "labelled"]
    <2>1. Live("cep") \in ClusterEndpointType /\ Becomes("relabel", "cep", obj)
      BY <1>1, <1>6 DEF Relabel
    <2>2. /\ obj \in ClusterEndpointType /\ obj # Absent
          /\ obj.uid = Live("cep").uid /\ obj.fin = Live("cep").fin
      BY <2>1 DEF ClusterEndpointType
    <2> QED BY <1>2, <2>1, <2>2 DEF Keeps
  <1>7. ASSUME NEW k \in {"svc", "ep"}, Seize(k) PROVE Inv'
    <2>1. CASE k = "svc"
      <3>1. [Live("svc") EXCEPT !.owner = Foreign] \in ServiceType
        BY <1>1, <1>7, <2>1 DEF Seize, ServiceType, Owners
      <3> QED BY <1>2, <1>7, <2>1, <3>1 DEF Seize
    <2>2. CASE k = "ep"
      <3>1. [Live("ep") EXCEPT !.owner = Foreign] \in EndpointsType
        BY <1>1, <1>7, <2>2 DEF Seize, EndpointsType, Owners
      <3> QED BY <1>2, <1>7, <2>2, <3>1 DEF Seize
    <2> QED BY <2>1, <2>2
  <1>8. ASSUME NEW k \in {"svc", "ep"}, Drift(k) PROVE Inv'
    <2>1. CASE k = "svc"
      <3>1. [Live("svc") EXCEPT !.ports = {}] \in ServiceType
        BY <1>1, <1>8, <2>1 DEF Drift, ServiceType
      <3> QED BY <1>2, <1>8, <2>1, <3>1 DEF Drift
    <2>2. CASE k = "ep"
      <3>1. [Live("ep") EXCEPT !.subsets = {}] \in EndpointsType
        BY <1>1, <1>8, <2>2 DEF Drift, EndpointsType
      <3> QED BY <1>2, <1>8, <2>2, <3>1 DEF Drift
    <2> QED BY <2>1, <2>2
  <1>9. ASSUME NEW k \in {"svc", "ep"}, Remove(k) PROVE Inv'
    BY <1>2, <1>9 DEF Remove
  <1>10. ASSUME NEW p \in Ports, Flip(p) PROVE Inv'
    <2>1. UNCHANGED <<history, fresh, local>>
      BY <1>10 DEF Flip, api
    <2> QED BY <2>1, RememberedStays, ReadIsLiveQuiet, HeldQuiet DEF Inv, Live
  <1> QED BY <1>3, <1>4, <1>5, <1>6, <1>7, <1>8, <1>9, <1>10 DEF Environment

LEMMA InvStep ==
  ASSUME TypeOK, Inv, [Next]_vars
  PROVE  Inv'
  <1>1. ApiOK /\ PcOK /\ MyOK /\ GotOK /\ SyncOK
    BY TypeParts
  <1>2. CASE Worker
    BY <1>1, <1>2, InvWorker
  <1>3. CASE Environment
    BY <1>1, <1>3, InvEnvironment
  <1>4. ASSUME NEW k \in Kinds, Deliver(k) PROVE Inv'
    <2>1. /\ \A j \in Kinds \ {k} : history'[j] = history[j]
          /\ Live(k)' = Live(k)
      BY <1>1, <1>4, DeliverTypes
    <2>2. fresh' = fresh /\ Len(history[k]) > 1 /\ UNCHANGED local
      BY <1>4 DEF Deliver
    <2>3. Remembered'
      BY <1>1, <1>4, RememberedDeliver DEF Inv
    <2>4. ReadIsLive'
      BY <2>1, <2>2, ReadIsLiveQuiet DEF Inv
    <2>5. Live("cep")' = Live("cep")
      BY <2>1, Objects DEF Live
    <2> QED BY <2>2, <2>3, <2>4, <2>5, HeldQuiet DEF Inv
  <1>5. CASE TimerFires \/ UNCHANGED vars
    <2>1. UNCHANGED <<history, fresh, local>>
      BY <1>5 DEF TimerFires, vars, api
    <2> QED BY <2>1, RememberedStays, ReadIsLiveQuiet, HeldQuiet DEF Inv, Live
  <1>6. CASE Restart
    <2>1. Idle /\ history'["cep"] = <<Live("cep")>>
      BY <1>1, <1>6, RestartTypes, Objects DEF Restart
    <2>2. Remembered'
      BY <2>1 DEF Remembered, Promised, Kept, Live
    <2> QED BY <2>1, <2>2, InvIdle
  <1>7. ASSUME NEW k \in {"svc", "ep"}, CollectGarbage(k) PROVE Inv'
    BY <1>1, <1>7, InvStore, Objects DEF CollectGarbage
  <1> QED BY <1>2, <1>3, <1>4, <1>5, <1>6, <1>7 DEF Next, Informers, Collector

LEMMA InvInit == Init => Inv
  <1> SUFFICES ASSUME Init PROVE Inv
    OBVIOUS
  <1>1. pc = "idle"
    BY DEF Init
  <1>2. PICK c \in {Absent} \cup { NewClusterEndpoint(1, s) : s \in Specs } :
          history["cep"] = <<c>>
    BY Objects DEF Init
  <1>3. ~Promised(c)
    BY <1>2 DEF Promised, NewClusterEndpoint
  <1>4. Remembered
    BY <1>2, <1>3 DEF Remembered
  <1> QED BY <1>1, <1>4 DEF Inv, FinalizerHeld, Syncing, ReadIsLive, OnlyDeleted

LEMMA Invariance == Spec => [](TypeOK /\ Inv)
  <1>1. Init => TypeOK /\ Inv
    BY TypeInit, InvInit
  <1>2. TypeOK /\ Inv /\ [Next]_vars => TypeOK' /\ Inv'
    BY TypeStep, InvStep
  <1> QED BY <1>1, <1>2, PTL DEF Spec

(***************************************************************************)
(* While a round syncs, the ClusterEndpoint it works for lives and has its *)
(* finalizer.  It rests on Remembered (a round starts from a cached        *)
(* version, which may be old) and on ReadIsLive (the version whose         *)
(* finalizer is removed is the live one, so nobody else's was added).      *)
(***************************************************************************)
THEOREM FinalizerCorrect == Spec => []FinalizerHeld
  BY Invariance, PTL DEF Inv

------------------------------------------------------------------------------
(* Foreign objects are left alone.                                         *)

\* An accepted write replaces an object the operator may control by one that
\* the round's ClusterEndpoint controls.
LEMMA AcceptedRespects ==
  ASSUME TypeOK, Inv, NEW k \in {"svc", "ep"}, Accepted(k), Store(k, Desired(k)),
         Syncing, Holds(k, got), got \in ObjectType[k] \cup {Absent}
  PROVE  /\ Live(k) # Absent => Live(k).owner # Foreign
         /\ Live("cep") # Absent
         /\ Live(k)' # Absent /\ Live(k)'.owner = Live("cep").uid
  <1>1. ApiOK /\ my \in ClusterEndpointType /\ data \subseteq Ports /\ k \in Kinds
    BY TypeParts, Objects DEF MyOK, SyncOK, Syncing
  <1>2. Live(k)' = Desired(k)
    BY <1>1, StoreEffect
  <1>3. Live("cep") # Absent /\ Live("cep").uid = my.uid
    BY DEF Inv, FinalizerHeld
  <1>4. Live(k) # Absent => Live(k) = got /\ got # Absent
    BY <1>1, FreshIsLive DEF Accepted
  <1>5. Live(k) # Absent => Live(k).owner # Foreign
    BY <1>4 DEF Accepted, Controllable
  <1>6. Desired(k).owner = my.uid
    BY DEF Desired, DesiredService, DesiredEndpoints
  <1>7. Desired(k) # Absent
    <2>1. CASE k = "svc"
      BY <1>1, <2>1, DesiredServiceType, Objects DEF Desired
    <2>2. CASE k = "ep"
      BY <1>1, <2>2, DesiredEndpointsType, Objects DEF Desired
    <2> QED BY <2>1, <2>2
  <1> QED BY <1>2, <1>3, <1>5, <1>6, <1>7

\* Of the worker's steps only syncService and syncEndpoint write these objects.
LEMMA OthersWriteNeither ==
  ASSUME ApiOK, Worker, ~syncService, ~syncEndpoint, NEW k \in {"svc", "ep"}
  PROVE  Live(k)' = Live(k)
  <1>1. CASE Start \/ ReadService \/ ReadEndpoints \/ ReadStatus \/ \E p \in Ports : Probe(p)
    BY <1>1 DEF Start, ReadService, ReadEndpoints, ReadStatus, Probe, api, Live
  <1>2. CASE RemoveFinalizer \/ AddFinalizer \/ updateStatus
    <2>1. history'[k] = history[k]
      BY <1>2, Objects DEF RemoveFinalizer, AddFinalizer, updateStatus, Fails, Store, ApiOK
    <2> QED BY <2>1 DEF Live
  <1> QED BY <1>1, <1>2 DEF Worker

LEMMA OwnershipStep ==
  ASSUME TypeOK, Inv, [Next]_vars, NEW k \in {"svc", "ep"}, WorkerWrites(k)
  PROVE  /\ Live(k) # Absent => Live(k).owner # Foreign
         /\ Live("cep") # Absent
         /\ Live(k)' # Absent /\ Live(k)'.owner = Live("cep").uid
  <1> USE Objects
  <1>1. ApiOK /\ GotOK /\ Worker /\ Live(k)' # Live(k)
    BY TypeParts DEF WorkerWrites
  <1>2. CASE syncService
    <2>1. /\ pc = "svcApply" /\ Syncing
          /\ got \in ServiceType \cup {Absent}
          /\ Holds("svc", got)
      BY <1>1, <1>2 DEF syncService, Syncing, GotOK, Inv, ReadIsLive
    <2>2. Accepted("svc") /\ Store("svc", Desired("svc"))
      BY <1>1, <1>2 DEF syncService, CreateOrUpdate, Fails, Store, Live, ApiOK
    <2>3. k = "svc"
      BY <1>1, <2>2 DEF Store, Live, ApiOK
    <2> QED BY <2>1, <2>2, <2>3, AcceptedRespects
  <1>3. CASE syncEndpoint
    <2>1. /\ pc = "epApply" /\ Syncing
          /\ got \in EndpointsType \cup {Absent}
          /\ Holds("ep", got)
      BY <1>1, <1>3 DEF syncEndpoint, Syncing, GotOK, Inv, ReadIsLive
    <2>2. Accepted("ep") /\ Store("ep", Desired("ep"))
      BY <1>1, <1>3 DEF syncEndpoint, CreateOrUpdate, Fails, Store, Live, ApiOK
    <2>3. k = "ep"
      BY <1>1, <2>2 DEF Store, Live, ApiOK
    <2> QED BY <2>1, <2>2, <2>3, AcceptedRespects
  <1> QED BY <1>1, <1>2, <1>3, OthersWriteNeither

(***************************************************************************)
(* The worker writes only objects no other controller has, in the name of  *)
(* the ClusterEndpoint that lives: what it read is what it replaces        *)
(* (ReadIsLive), and its copy of the ClusterEndpoint names the live one    *)
(* (FinalizerHeld).                                                        *)
(***************************************************************************)
THEOREM OwnershipCorrect == Spec => OwnershipRespected
  <1> DEFINE Respects ==
        \A k \in {"svc", "ep"} : WorkerWrites(k) =>
          /\ Live(k) # Absent => Live(k).owner # Foreign
          /\ Live("cep") # Absent
          /\ Live(k)' # Absent /\ Live(k)'.owner = Live("cep").uid
  <1>1. TypeOK /\ Inv /\ [Next]_vars => [Respects]_vars
    BY OwnershipStep
  <1>2. Spec => [][Respects]_vars
    BY <1>1, Invariance, PTL DEF Spec
  <1> QED BY <1>2 DEF OwnershipRespected

------------------------------------------------------------------------------
(* Healthy is earned, and that no ClusterEndpoint is forgotten.            *)

\* What the outcomes still ahead of a round say of its last attempt.
Tally ==
  /\ pc = "epApply" /\ ~syncError => data = my.spec.ports
  /\ pc \in {"statusRead", "statusApply"} /\ endpoint = Fine => data = my.spec.ports

\* The conditions have one of this type that is false.
Failed(conds, type) == type \in DOMAIN conds /\ conds[type].status = "False"

LEMMA UpdateSays ==
  ASSUME NEW conds, NEW type, NEW c
  PROVE  /\ c.status = "False" => Failed(updateCondition(conds, type, c), type)
         /\ \A u : u # type /\ Failed(conds, u) => Failed(updateCondition(conds, type, c), u)
  BY DEF updateCondition, Failed

LEMMA ReportSays ==
  ASSUME NEW conds, NEW type, NEW outcome
  PROVE  /\ outcome # Fine => Failed(Report(conds, type, outcome, 0), type)
         /\ \A u : u # type /\ Failed(conds, u) => Failed(Report(conds, type, outcome, 0), u)
  <1>1. CASE outcome # Fine
    <2> DEFINE c == Condition("False", outcome, 0)
    <2>1. c.status = "False" /\ Report(conds, type, outcome, 0) = updateCondition(conds, type, c)
      BY <1>1 DEF Condition, Report
    <2> HIDE DEF c
    <2> QED BY <2>1, UpdateSays
  <1>2. CASE outcome = Fine /\ ~isConditionTrue(conds, type)
    <2> DEFINE c == Condition("True", Fine, 0)
    <2>1. Report(conds, type, outcome, 0) = updateCondition(conds, type, c)
      BY <1>2 DEF Report
    <2> HIDE DEF c
    <2> QED BY <1>2, <2>1, UpdateSays
  <1>3. CASE outcome = Fine /\ isConditionTrue(conds, type)
    BY <1>3 DEF Report
  <1> QED BY <1>1, <1>2, <1>3

\* A failure leaves its condition false, and so the phase UnHealthy.
LEMMA HealthyMeansFine ==
  ASSUME NewStatus.phase = "Healthy"
  PROVE  service = Fine /\ endpoint = Fine
  <1> DEFINE begun  == Report(my.status.conds, "Initialized", Fine, 0)
             synced == Report(begun, "SyncServiceReady", service, 0)
             probed == Report(synced, "SyncEndpointReady", endpoint, 0)
  <1>1. isConditionsTrue(probed)
    BY DEF NewStatus, RoundStatus, syncFinalStatus
  <1> HIDE DEF begun
  <1>2. service # Fine => Failed(synced, "SyncServiceReady")
    BY ReportSays
  <1> HIDE DEF synced
  <1>3. /\ endpoint # Fine => Failed(probed, "SyncEndpointReady")
        /\ service # Fine => Failed(probed, "SyncServiceReady")
    BY <1>2, ReportSays
  <1> QED BY <1>1, <1>3 DEF isConditionsTrue, Failed

LEMMA TallyStep ==
  ASSUME Tally, [Next]_vars
  PROVE  Tally'
  <1>1. CASE UNCHANGED local
    BY <1>1 DEF local, Tally
  <1>2. CASE pc' \notin {"epApply", "statusRead", "statusApply"}
    BY <1>2 DEF Tally
  <1>3. CASE Worker
    <2>1. CASE Start
      BY <1>1, <1>2, <2>1 DEF Start, FirstCall
    <2>2. CASE RemoveFinalizer \/ AddFinalizer
      <3>1. pc' = "idle" \/ pc' = "svcRead"
        BY <2>2 DEF RemoveFinalizer, AddFinalizer, Refused, Return, Idle
      <3> QED BY <1>2, <3>1
    <2>3. CASE ReadService \/ syncService
      BY <1>2, <2>3 DEF ReadService, syncService, ServiceAgain, ServiceDone
    <2>4. ASSUME NEW p \in Ports, Probe(p) PROVE Tally'
      <3>1. pc' = "probe"
        BY <2>4 DEF Probe
      <3> QED BY <1>2, <3>1
    <2>5. CASE ReadEndpoints
      BY <2>5 DEF ReadEndpoints, SyncErrorAfter, Tally
    <2>6. CASE syncEndpoint
      <3>1. CASE EndpointAgain
        BY <1>2, <3>1 DEF EndpointAgain
      <3>2. ASSUME NEW ok \in BOOLEAN, EndpointDone(ok) PROVE Tally'
        <4>1. endpoint' = Fine => ~syncError
          BY <3>2 DEF EndpointDone, EndpointOutcome, Fine
        <4>2. pc = "epApply" /\ pc' = "statusRead" /\ UNCHANGED <<my, data>>
          BY <2>6, <3>2 DEF syncEndpoint, EndpointDone
        <4> QED BY <4>1, <4>2 DEF Tally
      <3> QED BY <2>6, <3>1, <3>2 DEF syncEndpoint
    <2>7. CASE ReadStatus
      <3>1. CASE Idle
        BY <1>2, <3>1 DEF Idle
      <3>2. CASE pc = "statusRead" /\ UNCHANGED <<my, sync>>
        BY <3>2, <2>7 DEF ReadStatus, sync, Tally, Refused, Return, Idle
      <3> QED BY <2>7, <3>1, <3>2 DEF ReadStatus, Refused, Return
    <2>8. CASE updateStatus
      <3>1. CASE Idle
        BY <1>2, <3>1 DEF Idle
      <3>2. CASE pc = "statusApply" /\ pc' = "statusRead" /\ UNCHANGED <<my, sync>>
        BY <3>2 DEF sync, Tally
      <3> QED BY <2>8, <3>1, <3>2 DEF updateStatus, Refused, Return
    <2> QED BY <1>3, <2>1, <2>2, <2>3, <2>4, <2>5, <2>6, <2>7, <2>8 DEF Worker
  <1>4. CASE Restart
    BY <1>2, <1>4 DEF Restart, Idle
  <1>5. CASE Informers \/ TimerFires \/ Collector \/ UNCHANGED vars
    BY <1>1, <1>5 DEF Informers, Deliver, TimerFires, Collector, CollectGarbage, vars
  <1>6. CASE Environment
    BY <1>1, <1>6 DEF Environment, CreateClusterEndpoint, DeleteClusterEndpoint, EditSpec,
         Relabel, Seize, Drift, Remove, Flip, Becomes
  <1> QED BY <1>3, <1>4, <1>5, <1>6 DEF Next

(***************************************************************************)
(* A stored Healthy speaks of the last attempt of its own round: a         *)
(* syncError that outlives its attempt only ever makes for UnHealthy.      *)
(***************************************************************************)
THEOREM HealthyCorrect == Spec => HealthyIsEarned
  <1> DEFINE Earned == Reports("Healthy") =>
                         service = Fine /\ endpoint = Fine /\ data = my.spec.ports
  <1>1. Init => Tally
    BY DEF Init, Tally
  <1>2. Tally => Earned
    BY HealthyMeansFine DEF Reports, Tally
  <1>3. Spec => []Tally
    BY <1>1, TallyStep, PTL DEF Spec
  <1>4. Tally /\ [Next]_vars => [Earned]_vars
    BY <1>2
  <1>5. Spec => [][Earned]_vars
    BY <1>3, <1>4, PTL DEF Spec
  <1> QED BY <1>5 DEF HealthyIsEarned

------------------------------------------------------------------------------
(* No ClusterEndpoint is forgotten.                                        *)

\* What Reconcile would do nothing about, nor come back to.
Quiet(v) == v = Absent \/ (~v.del /\ ~(v.spec.period > 0))

\* While it works, the worker has the live generation, or the workqueue has
\* been or will be told of a newer one.
KnowsNews ==
  pc # "idle" => due \/ NewsPending \/ ~GenerationChanged(my, Live("cep"))

\* A deletion the worker knows of is never synced.
NotDeleting == pc \notin {"idle", "unfinalize"} => ~my.del

Attentive == KnowsNews /\ NotDeleting /\ NeverForgotten

LEMMA NeverForgottenMeans ==
  NeverForgotten <=> due \/ timer \/ pc # "idle" \/ NewsPending \/ Quiet(Live("cep"))
  BY DEF NeverForgotten, Quiet

LEMMA SameGeneration ==
  ASSUME NEW a, NEW b, NEW c, ~GenerationChanged(a, b), ~GenerationChanged(b, c)
  PROVE  ~GenerationChanged(a, c)
  BY DEF GenerationChanged

LEMMA QuietStays ==
  ASSUME NEW a, NEW b, ~GenerationChanged(a, b), Quiet(a)
  PROVE  Quiet(b)
  BY DEF GenerationChanged, Quiet

\* Without news the cached version is of the live generation: the first
\* version that is not would be news.
LEMMA NewsOrSame ==
  ASSUME ApiOK, ~NewsPending
  PROVE  ~GenerationChanged(Cached("cep"), Live("cep"))
  <1> DEFINE h == history["cep"]
             n == Len(h)
             Other == {i \in 1..n : GenerationChanged(h[1], h[i])}
  <1>1. n \in Nat \ {0} /\ Cached("cep") = h[1] /\ Live("cep") = h[n]
    BY Versions, Objects DEF Live
  <1>2. SUFFICES ASSUME Other # {} PROVE FALSE
    <2>1. n \in 1..n
      BY <1>1
    <2> QED BY <1>1, <1>2, <2>1
  <1>3. PICK m \in Other : \A i \in Other : m <= i
    <2>1. Other \subseteq Nat
      OBVIOUS
    <2> HIDE DEF Other
    <2> QED BY <1>2, <2>1, Smallest
  <1>4. m # 1 /\ m \in 1..n
    BY <1>3 DEF GenerationChanged
  <1>5. m - 1 \in 1..(n - 1) /\ (m - 1) + 1 = m /\ ~(m <= m - 1) /\ m - 1 \in 1..n
    BY <1>1, <1>4
  <1>6. ~GenerationChanged(h[1], h[m - 1])
    BY <1>3, <1>5
  <1>7. ~GenerationChanged(h[m - 1], h[m])
    BY <1>5 DEF NewsPending
  <1> QED BY <1>3, <1>6, <1>7, SameGeneration

\* A write is news, or as much news as there was before.
LEMMA NewsAfterStore ==
  ASSUME ApiOK, NEW obj, Store("cep", obj), ~NewsPending'
  PROVE  ~NewsPending /\ ~GenerationChanged(Live("cep"), obj) /\ Live("cep")' = obj
  <1> DEFINE h == history["cep"]
             n == Len(h)
  <1>1. /\ Len(h') = n + 1 /\ n \in Nat \ {0} /\ Live("cep")' = obj
        /\ \A i \in 1..n : h'[i] = h[i]
    BY StoreEffect, Versions, Objects
  <1>2. h'[n + 1] = obj /\ Live("cep") = h[n]
    BY <1>1 DEF Live
  <1>3. ASSUME NEW i \in 1..n PROVE ~GenerationChanged(h'[i], h'[i + 1])
    <2>1. i \in 1..(Len(h') - 1)
      BY <1>1
    <2> QED BY <2>1 DEF NewsPending, GenerationChanged
  <1>4. ~NewsPending
    <2> SUFFICES ASSUME NEW i \in 1..(n - 1) PROVE ~GenerationChanged(h[i], h[i + 1])
      BY DEF NewsPending
    <2>1. i \in 1..n /\ i + 1 \in 1..n
      BY <1>1
    <2> QED BY <1>1, <1>3, <2>1
  <1>5. ~GenerationChanged(Live("cep"), obj)
    <2>1. n \in 1..n
      BY <1>1
    <2> QED BY <1>1, <1>2, <1>3, <2>1
  <1> QED BY <1>1, <1>4, <1>5

\* Delivered news is in the workqueue, other news stays.
LEMMA NewsAfterDeliver ==
  ASSUME ApiOK, NEW k \in Kinds, Deliver(k), ~NewsPending', ~due'
  PROVE  ~NewsPending /\ Live("cep")' = Live("cep")
  <1> DEFINE h == history["cep"]
             n == Len(h)
  <1>1. CASE k # "cep"
    <2>1. h' = h
      BY <1>1, DeliverTypes, Objects
    <2> QED BY <2>1 DEF NewsPending, Live, GenerationChanged
  <1>2. CASE k = "cep"
    <2>1. /\ Len(h') = n - 1 /\ n \in Nat \ {0} /\ Live("cep")' = Live("cep")
          /\ \A i \in 1..(n - 1) : h'[i] = h[i + 1]
      BY <1>2, DeliverTypes, Versions
    <2>2. ~GenerationChanged(h[1], h[2])
      BY <1>2 DEF Deliver, Enqueues
    <2>3. ASSUME NEW i \in 1..(n - 1) PROVE ~GenerationChanged(h[i], h[i + 1])
      <3>1. CASE i = 1
        BY <2>2, <3>1
      <3>2. CASE i # 1
        <4>1. i - 1 \in 1..(Len(h') - 1) /\ i - 1 \in 1..(n - 1) /\ (i - 1) + 1 = i
          BY <2>1, <3>2
        <4>2. ~GenerationChanged(h'[i - 1], h'[i])
          BY <4>1 DEF NewsPending, GenerationChanged
        <4> QED BY <2>1, <4>1, <4>2
      <3> QED BY <3>1, <3>2
    <2> QED BY <2>1, <2>3 DEF NewsPending
  <1> QED BY <1>1, <1>2

\* A step that the worker takes no part in.
LEMMA OthersAttentive ==
  ASSUME Attentive, pc' = pc, my' = my, due => due', timer => due' \/ timer',
         \/ due' \/ NewsPending'
         \/ ~NewsPending /\ ~GenerationChanged(Live("cep"), Live("cep")')
  PROVE  Attentive'
  <1>1. NotDeleting'
    BY DEF Attentive, NotDeleting
  <1>2. KnowsNews'
    <2> SUFFICES ASSUME pc # "idle", ~due', ~NewsPending'
                 PROVE  ~GenerationChanged(my, Live("cep")')
      BY DEF KnowsNews, GenerationChanged
    <2>1. ~GenerationChanged(my, Live("cep"))
      BY DEF Attentive, KnowsNews
    <2> QED BY <2>1, SameGeneration
  <1>3. NeverForgotten'
    <2> SUFFICES ASSUME pc = "idle", ~due', ~timer', ~NewsPending'
                 PROVE  Quiet(Live("cep")')
      BY DEF NeverForgotten, Quiet
    <2>1. Quiet(Live("cep"))
      BY NeverForgottenMeans DEF Attentive
    <2> QED BY <2>1, QuietStays
  <1> QED BY <1>1, <1>2, <1>3 DEF Attentive

\* A round goes on.
LEMMA RoundAttentive ==
  ASSUME Attentive, pc \notin {"idle", "unfinalize"}, pc' # "idle",
         my' = my, due' = due, history'["cep"] = history["cep"]
  PROVE  Attentive'
  BY DEF Attentive, KnowsNews, NotDeleting, NeverForgotten, NewsPending, GenerationChanged, Live

\* A round ends with the promise to come back.
LEMMA RefusedAttentive ==
  ASSUME Idle, timer'
  PROVE  Attentive'
  BY DEF Idle, Attentive, KnowsNews, NotDeleting, NeverForgotten

LEMMA AttentiveStart ==
  ASSUME ApiOK, Attentive, Start
  PROVE  Attentive'
  <1> DEFINE c == Cached("cep")
  <1>1. pc = "idle" /\ ~due' /\ UNCHANGED <<history, timer>>
    BY DEF Start
  <1>2. NewsPending' = NewsPending /\ Live("cep")' = Live("cep")
    BY <1>1 DEF NewsPending, GenerationChanged, Live
  <1>3. ~NewsPending => ~GenerationChanged(c, Live("cep"))
    BY NewsOrSame
  <1>4. CASE c = Absent
    <2>1. pc' = "idle"
      BY <1>1, <1>4 DEF Start, local
    <2>2. NewsPending \/ Quiet(Live("cep"))
      BY <1>3, <1>4 DEF GenerationChanged, Quiet
    <2>3. NewsPending' \/ Quiet(Live("cep")')
      BY <1>2, <2>2
    <2> QED BY <2>1, <2>3 DEF Attentive, KnowsNews, NotDeleting, NeverForgotten, Quiet
  <1>5. CASE c # Absent
    <2>1. my' = c /\ pc' = FirstCall(c)
      BY <1>5 DEF Start
    <2>2. pc' # "idle" /\ NotDeleting'
      BY <2>1 DEF NotDeleting, FirstCall
    <2>3. KnowsNews'
      BY <1>2, <1>3, <2>1 DEF KnowsNews, GenerationChanged
    <2> QED BY <2>2, <2>3 DEF Attentive, NeverForgotten
  <1> QED BY <1>4, <1>5

LEMMA AttentiveRemoveFinalizer ==
  ASSUME ApiOK, RemoveFinalizer
  PROVE  Attentive'
  <1>1. CASE Store("cep", Absent) /\ Return(FALSE)
    <2>1. Live("cep")' = Absent
      BY <1>1, StoreEffect, Objects
    <2> QED BY <1>1, <2>1
      DEF Return, Idle, Attentive, KnowsNews, NotDeleting, NeverForgotten
  <1>2. CASE Refused
    BY <1>2, RefusedAttentive DEF Refused, Return
  <1> QED BY <1>1, <1>2 DEF RemoveFinalizer

LEMMA AttentiveAddFinalizer ==
  ASSUME ApiOK, MyOK, Inv, Attentive, AddFinalizer
  PROVE  Attentive'
  <1> DEFINE new == [my EXCEPT !.fin = TRUE]
  <1>1. CASE /\ fresh["cep"] /\ Store("cep", new) /\ my' = new /\ pc' = "svcRead"
    <2>1. pc = "finalize"
      BY DEF AddFinalizer
    <2>2. my \in ClusterEndpointType /\ new \in ClusterEndpointType
          /\ new.del = my.del /\ new.spec = my.spec
      BY <2>1 DEF MyOK, ClusterEndpointType
    <2>3. ~my.del
      BY <2>1 DEF Attentive, NotDeleting
    <2>4. Live("cep")' = new
      BY <1>1, StoreEffect, Objects
    <2>5. KnowsNews'
      BY <1>1, <2>4 DEF KnowsNews, GenerationChanged
    <2>6. NotDeleting'
      BY <1>1, <2>2, <2>3 DEF NotDeleting
    <2>7. NeverForgotten'
      BY <1>1 DEF NeverForgotten
    <2> QED BY <2>5, <2>6, <2>7 DEF Attentive
  <1>2. CASE Refused
    BY <1>2, RefusedAttentive DEF Refused, Return
  <1> QED BY <1>1, <1>2 DEF AddFinalizer

LEMMA AttentiveUpdateStatus ==
  ASSUME ApiOK, MyOK, GotOK, Inv, Attentive, updateStatus
  PROVE  Attentive'
  <1> DEFINE new == [got EXCEPT !.status = NewStatus]
  <1>1. /\ pc = "statusApply" /\ due' = due
        /\ my \in ClusterEndpointType /\ got \in ClusterEndpointType
    BY DEF updateStatus, MyOK, GotOK
  <1>2. ~my.del
    BY <1>1 DEF Attentive, NotDeleting
  <1>3. CASE /\ Return(Requeues)
             /\ UNCHANGED <<history, fresh>> \/ Store("cep", new)
    <2>1. pc' = "idle" /\ my' = Absent /\ timer' = (timer \/ Requeues)
      BY <1>3 DEF Return, Idle
    <2>2. SUFFICES ASSUME ~due', ~timer', ~NewsPending'
                   PROVE  Quiet(Live("cep")')
      BY <2>1 DEF Attentive, KnowsNews, NotDeleting, NeverForgotten, Quiet
    <2>3. ~NewsPending /\ ~GenerationChanged(Live("cep"), Live("cep")')
      <3>1. CASE UNCHANGED <<history, fresh>>
        BY <2>2, <3>1 DEF NewsPending, GenerationChanged, Live
      <3>2. CASE Store("cep", new)
        BY <2>2, <3>2, NewsAfterStore
      <3> QED BY <1>3, <3>1, <3>2
    <2>4. ~GenerationChanged(my, Live("cep"))
      BY <1>1, <2>2, <2>3 DEF Attentive, KnowsNews
    <2>5. Quiet(my)
      BY <1>2, <2>1, <2>2 DEF Requeues, Quiet
    <2> QED BY <2>3, <2>4, <2>5, QuietStays
  <1>4. CASE pc' = "statusRead" /\ UNCHANGED <<history, my>>
    BY <1>1, <1>4, RoundAttentive
  <1>5. CASE Refused
    BY <1>5, RefusedAttentive DEF Refused, Return
  <1> QED BY <1>3, <1>4, <1>5 DEF updateStatus

LEMMA AttentiveWorker ==
  ASSUME ApiOK, MyOK, GotOK, Inv, Attentive, Worker
  PROVE  Attentive'
  <1>1. CASE ReadService
    BY <1>1, RoundAttentive DEF ReadService, queue
  <1>2. CASE syncService
    <2>1. history'["cep"] = history["cep"]
      BY <1>2, Objects DEF syncService, CreateOrUpdate, Fails, Store, ApiOK
    <2>2. /\ pc = "svcApply" /\ my' = my /\ due' = due
          /\ pc' \in {"svcRead", "probe"}
      BY <1>2 DEF syncService, ServiceAgain, ServiceDone, queue
    <2> QED BY <2>1, <2>2, RoundAttentive
  <1>3. ASSUME NEW p \in Ports, Probe(p) PROVE Attentive'
    BY <1>3, RoundAttentive DEF Probe, api, queue
  <1>4. CASE ReadEndpoints
    BY <1>4, RoundAttentive DEF ReadEndpoints, queue
  <1>5. CASE syncEndpoint
    <2>1. history'["cep"] = history["cep"]
      BY <1>5, Objects DEF syncEndpoint, CreateOrUpdate, Fails, Store, ApiOK
    <2>2. /\ pc = "epApply" /\ my' = my /\ due' = due
          /\ pc' \in {"probe", "statusRead"}
      BY <1>5 DEF syncEndpoint, EndpointAgain, EndpointDone, queue
    <2> QED BY <2>1, <2>2, RoundAttentive
  <1>6. CASE ReadStatus
    <2>1. CASE Refused
      BY <2>1, RefusedAttentive DEF Refused, Return
    <2>2. CASE pc' = "statusApply" /\ my' = my
      BY <1>6, <2>2, RoundAttentive DEF ReadStatus
    <2> QED BY <1>6, <2>1, <2>2 DEF ReadStatus
  <1> QED BY <1>1, <1>2, <1>3, <1>4, <1>5, <1>6, AttentiveStart,
             AttentiveRemoveFinalizer, AttentiveAddFinalizer, AttentiveUpdateStatus
          DEF Worker

\* A write of somebody else.
LEMMA AttentiveStore ==
  ASSUME ApiOK, Attentive, NEW k \in Kinds, NEW obj, Store(k, obj),
         UNCHANGED <<queue, local>>
  PROVE  Attentive'
  <1>1. pc' = pc /\ my' = my /\ due' = due /\ timer' = timer
    BY DEF queue, local
  <1>2. CASE k = "cep"
    <2>1. NewsPending' \/ (~NewsPending /\ ~GenerationChanged(Live("cep"), Live("cep")'))
      BY <1>2, NewsAfterStore
    <2> QED BY <1>1, <2>1, OthersAttentive
  <1>3. CASE k # "cep"
    <2>1. history'["cep"] = history["cep"]
      BY <1>3, StoreEffect, Objects
    <2>2. NewsPending' = NewsPending /\ ~GenerationChanged(Live("cep"), Live("cep")')
      BY <2>1 DEF NewsPending, GenerationChanged, Live
    <2> QED BY <1>1, <2>2, OthersAttentive
  <1> QED BY <1>2, <1>3

\* A step that changes no object.
LEMMA AttentiveQuiet ==
  ASSUME Attentive, UNCHANGED <<history, pc, my>>, due => due', timer => due' \/ timer'
  PROVE  Attentive'
  <1>1. NewsPending' = NewsPending /\ ~GenerationChanged(Live("cep"), Live("cep")')
    BY DEF NewsPending, GenerationChanged, Live
  <1> QED BY <1>1, OthersAttentive

LEMMA AttentiveStep ==
  ASSUME TypeOK, Inv, Attentive, [Next]_vars
  PROVE  Attentive'
  <1>1. ApiOK /\ MyOK /\ GotOK
    BY TypeParts
  <1>2. CASE Worker
    BY <1>1, <1>2, AttentiveWorker
  <1>3. ASSUME NEW k \in Kinds, Deliver(k) PROVE Attentive'
    <2>1. pc' = pc /\ my' = my /\ timer' = timer /\ (due => due')
      BY <1>3 DEF Deliver, local
    <2>2. \/ due' \/ NewsPending'
          \/ ~NewsPending /\ ~GenerationChanged(Live("cep"), Live("cep")')
      BY <1>1, <1>3, NewsAfterDeliver DEF GenerationChanged
    <2> QED BY <2>1, <2>2, OthersAttentive
  <1>4. CASE TimerFires
    BY <1>4, AttentiveQuiet DEF TimerFires, api, local
  <1>5. CASE Restart
    <2>1. Idle /\ history'["cep"] = <<Live("cep")>>
      BY <1>1, <1>5, RestartTypes, Objects DEF Restart
    <2>2. Live("cep")' = Live("cep")
      BY <2>1 DEF Live
    <2>3. due' \/ Live("cep")' = Absent
      BY <1>5, <2>2 DEF Restart
    <2> QED BY <2>1, <2>3 DEF Idle, Attentive, KnowsNews, NotDeleting, NeverForgotten
  <1>6. ASSUME NEW k \in {"svc", "ep"}, CollectGarbage(k) PROVE Attentive'
    BY <1>1, <1>6, AttentiveStore, Objects DEF CollectGarbage
  <1>7. CASE Environment
    <2>1. ASSUME NEW p \in Ports, Flip(p) PROVE Attentive'
      BY <2>1, AttentiveQuiet DEF Flip, api, queue, local
    <2>2. ASSUME NEW actor, NEW k \in Kinds, NEW obj, Becomes(actor, k, obj)
          PROVE  Attentive'
      BY <1>1, <2>2, AttentiveStore DEF Becomes
    <2>3. ASSUME NEW s \in Specs, CreateClusterEndpoint(s) PROVE Attentive'
      BY <2>2, <2>3, Objects DEF CreateClusterEndpoint
    <2>4. ASSUME NEW s \in Specs, EditSpec(s) PROVE Attentive'
      BY <2>2, <2>4, Objects DEF EditSpec
    <2>5. CASE DeleteClusterEndpoint \/ Relabel
      BY <2>2, <2>5, Objects DEF DeleteClusterEndpoint, Relabel
    <2>6. ASSUME NEW k \in {"svc", "ep"}, Seize(k) \/ Drift(k) \/ Remove(k)
          PROVE  Attentive'
      BY <2>2, <2>6, Objects DEF Seize, Drift, Remove
    <2> QED BY <1>7, <2>1, <2>3, <2>4, <2>5, <2>6 DEF Environment
  <1>8. CASE UNCHANGED vars
    BY <1>8, AttentiveQuiet DEF vars, api, queue, local
  <1> QED BY <1>2, <1>3, <1>4, <1>5, <1>6, <1>7, <1>8 DEF Next, Informers, Collector

LEMMA AttentiveInit == Init => Attentive
  <1> SUFFICES ASSUME Init PROVE Attentive
    OBVIOUS
  <1>1. PICK c \in {Absent} \cup { NewClusterEndpoint(1, s) : s \in Specs } :
          history["cep"] = <<c>> /\ due = (c # Absent)
    BY Objects DEF Init
  <1>2. Live("cep") = c
    BY <1>1 DEF Live
  <1>3. pc = "idle"
    BY DEF Init
  <1> QED BY <1>1, <1>2, <1>3 DEF Attentive, KnowsNews, NotDeleting, NeverForgotten

(***************************************************************************)
(* A ClusterEndpoint that is being deleted or has a positive period is in  *)
(* the workqueue, will be, is worked on, or has news on its way, whatever  *)
(* is written, lost and cut off.  It rests on KnowsNews: a worker that has *)
(* no live generation has been or will be told of the newer one, so a      *)
(* round that ends without a promise to come back has seen that there is   *)
(* nothing to come back for.                                               *)
(***************************************************************************)
THEOREM NothingForgotten == Spec => []NeverForgotten
  <1>1. Init => Attentive
    BY AttentiveInit
  <1>2. TypeOK /\ Inv /\ Attentive /\ [Next]_vars => Attentive'
    BY AttentiveStep
  <1>3. Attentive => NeverForgotten
    BY DEF Attentive
  <1> QED BY <1>1, <1>2, <1>3, Invariance, PTL DEF Spec

------------------------------------------------------------------------------
(* The controller implements Lifetime.                                     *)

\* The ClusterEndpoint that lives is the last one created.
Newest == Live("cep") # Absent => Live("cep").uid = uid

\* Lifetime is followed by a step of the controller.
Follows == Newest' /\ [LiveIs!Next]_(LiveIs!vars)

\* A step that keeps the live ClusterEndpoint; at most a round ends.
LEMMA LifeStays ==
  ASSUME Newest, Live("cep")' = Live("cep"), uid' = uid, Served' \in {Served, 0}
  PROVE  Follows
  <1>1. LivePhase' = LivePhase /\ Newest'
    BY DEF LivePhase, Newest
  <1> QED BY <1>1 DEF Follows, LiveIs!Next, LiveIs!Stop, LiveIs!vars

\* A write that leaves the finalizer and the deletion as they are.
LEMMA LifeEdited ==
  ASSUME ApiOK, Newest, NEW obj, Store("cep", obj), Live("cep") # Absent, obj # Absent,
         obj.uid = Live("cep").uid, obj.fin = Live("cep").fin, obj.del = Live("cep").del,
         uid' = uid, Served' \in {Served, 0}
  PROVE  Follows
  <1>1. Live("cep")' = obj
    BY StoreEffect, Objects
  <1>2. LivePhase' = LivePhase /\ Newest'
    BY <1>1 DEF LivePhase, Newest
  <1> QED BY <1>2 DEF Follows, LiveIs!Next, LiveIs!Stop, LiveIs!vars

\* The finalizer is added to the object that is live.
LEMMA LifeHeld ==
  ASSUME ApiOK, Newest, NEW obj, Store("cep", obj), Live("cep") # Absent, obj # Absent,
         ~Live("cep").del, ~obj.del, obj.fin, obj.uid = Live("cep").uid,
         uid' = uid, Served = 0, Served' \in {0, obj.uid}
  PROVE  Follows
  <1>1. Live("cep")' = obj
    BY StoreEffect, Objects
  <1>2. LivePhase' = "held" /\ LivePhase \in {"plain", "held"} /\ Newest'
    BY <1>1 DEF LivePhase, Newest
  <1>3. obj.uid = uid
    BY DEF Newest
  <1> QED BY <1>2, <1>3
    DEF Follows, LiveIs!Next, LiveIs!Hold, LiveIs!Serve, LiveIs!Stop, LiveIs!vars

LEMMA LifeWorker ==
  ASSUME ApiOK, PcOK, MyOK, GotOK, SyncOK, Inv, NotDeleting, Newest, Worker
  PROVE  Follows
  <1> USE Objects
  <1>0. uid' = uid
    BY DEF Worker, Start, RemoveFinalizer, AddFinalizer, ReadService, syncService, Probe,
           api, ReadEndpoints, syncEndpoint, ReadStatus, updateStatus
  \* A step that leaves the object alone and begins no round.
  <1>r. ASSUME history'["cep"] = history["cep"],
               Idle \/ (Syncing /\ Syncing' /\ my' = my) \/ UNCHANGED local
        PROVE  Follows
    <2>1. Live("cep")' = Live("cep")
      BY <1>r DEF Live
    <2>2. Served' \in {Served, 0}
      BY <1>r DEF Served, Syncing, Idle, local
    <2> QED BY <1>0, <2>1, <2>2, LifeStays
  <1>1. CASE Start
    <2> DEFINE c == Cached("cep")
    <2>1. UNCHANGED history /\ pc = "idle"
      BY <1>1 DEF Start
    <2>2. CASE c = Absent
      BY <1>1, <1>r, <2>1, <2>2 DEF Start
    <2>3. CASE c # Absent
      <3>1. my' = c /\ pc' = FirstCall(c)
        BY <1>1, <2>3 DEF Start
      <3>2. c \in ClusterEndpointType /\ c = history["cep"][1] /\ Len(history["cep"]) \in Nat \ {0}
        BY <2>3, Versions
      <3>3. Live("cep")' = Live("cep") /\ Served = 0
        BY <2>1 DEF Live, Served, Syncing
      <3>4. CASE c.fin /\ ~c.del
        <4>1. Kept(c)
          BY <2>3, <3>2, <3>4 DEF Inv, Remembered, Promised
        <4>2. LivePhase \in {"held", "ending"} /\ LivePhase' = LivePhase /\ Newest'
          BY <1>0, <3>3, <4>1 DEF Kept, LivePhase, Newest
        <4>3. Served' = uid
          BY <3>1, <3>4, <4>1 DEF FirstCall, Served, Syncing, Kept, Newest
        <4> QED BY <1>0, <3>3, <4>2, <4>3 DEF Follows, LiveIs!Next, LiveIs!Serve
      <3>5. CASE ~(c.fin /\ ~c.del)
        <4>1. Served' = 0
          BY <3>1, <3>5 DEF FirstCall, Served, Syncing
        <4> QED BY <1>0, <3>3, <4>1, LifeStays
      <3> QED BY <3>4, <3>5
    <2> QED BY <2>2, <2>3
  <1>2. CASE RemoveFinalizer
    <2>1. Idle /\ pc = "unfinalize"
      BY <1>2 DEF RemoveFinalizer, Refused, Return
    <2>2. CASE UNCHANGED history
      BY <1>r, <2>1, <2>2
    <2>3. CASE fresh["cep"] /\ Store("cep", Absent)
      <3>1. Live("cep") = my /\ my \in ClusterEndpointType /\ my.del
        BY <2>1, <2>3, FreshIsLive DEF Inv, ReadIsLive, OnlyDeleted, MyOK
      <3>2. Live("cep")' = Absent
        BY <2>3, StoreEffect
      <3>3. LivePhase = "ending" /\ LivePhase' = "absent" /\ Newest'
        BY <3>1, <3>2 DEF LivePhase, Newest
      <3>4. Served = 0 /\ Served' = 0
        BY <2>1 DEF Served, Syncing, Idle
      <3> QED BY <1>0, <3>3, <3>4 DEF Follows, LiveIs!Next, LiveIs!Release
    <2> QED BY <1>2, <2>2, <2>3 DEF RemoveFinalizer, Fails
  <1>3. CASE AddFinalizer
    <2> DEFINE new == [my EXCEPT !.fin = TRUE]
    <2>1. /\ pc = "finalize" /\ my \in ClusterEndpointType /\ new \in ClusterEndpointType
          /\ new.fin /\ new.uid = my.uid /\ new # Absent /\ new.del = my.del
      BY <1>3 DEF AddFinalizer, MyOK, ClusterEndpointType
    <2>2. ~my.del
      BY <2>1 DEF NotDeleting
    <2>3. CASE Idle /\ UNCHANGED history
      BY <1>r, <2>3
    <2>4. CASE /\ fresh["cep"] /\ Store("cep", new)
               /\ Idle \/ (my' = new /\ pc' = "svcRead")
      <3>1. Live("cep") = my
        BY <2>1, <2>4, FreshIsLive DEF Inv, ReadIsLive
      <3>2. Served = 0 /\ Served' \in {0, new.uid}
        BY <2>1, <2>4 DEF Served, Syncing, Idle
      <3> QED BY <1>0, <2>1, <2>2, <2>4, <3>1, <3>2, LifeHeld
    <2> QED BY <1>3, <2>3, <2>4 DEF AddFinalizer, Fails, Refused, Return
  <1>4. CASE ReadService
    BY <1>4, <1>r DEF ReadService, Syncing
  <1>5. CASE syncService
    <2>1. history'["cep"] = history["cep"]
      BY <1>5 DEF syncService, CreateOrUpdate, Fails, Store, ApiOK
    <2>2. pc = "svcApply" /\ my' = my /\ pc' \in {"svcRead", "probe"}
      BY <1>5 DEF syncService, ServiceAgain, ServiceDone
    <2> QED BY <1>r, <2>1, <2>2 DEF Syncing
  <1>6. ASSUME NEW p \in Ports, Probe(p) PROVE Follows
    BY <1>6, <1>r DEF Probe, api, Syncing
  <1>7. CASE ReadEndpoints
    BY <1>7, <1>r DEF ReadEndpoints, Syncing
  <1>8. CASE syncEndpoint
    <2>1. history'["cep"] = history["cep"]
      BY <1>8 DEF syncEndpoint, CreateOrUpdate, Fails, Store, ApiOK
    <2>2. pc = "epApply" /\ my' = my /\ pc' \in {"probe", "statusRead"}
      BY <1>8 DEF syncEndpoint, EndpointAgain, EndpointDone
    <2> QED BY <1>r, <2>1, <2>2 DEF Syncing
  <1>9. CASE ReadStatus
    BY <1>9, <1>r DEF ReadStatus, Refused, Return, Syncing
  <1>10. CASE updateStatus
    <2> DEFINE new == [got EXCEPT !.status = NewStatus]
    <2>1. my \in ClusterEndpointType /\ got \in ClusterEndpointType /\ pc = "statusApply"
      BY <1>10 DEF updateStatus, MyOK, GotOK
    <2>2. /\ new \in ClusterEndpointType /\ new # Absent /\ got # Absent
          /\ new.fin = got.fin /\ new.uid = got.uid /\ new.del = got.del
      BY <2>1, NewStatusType DEF ClusterEndpointType
    <2>3. CASE Idle /\ UNCHANGED history
      BY <1>r, <2>3
    <2>4. CASE Idle /\ fresh["cep"] /\ Store("cep", new)
      <3>1. Live("cep") = got
        BY <2>1, <2>4, FreshIsLive DEF Inv, ReadIsLive
      <3>2. Served' = 0
        BY <2>4 DEF Idle, Served, Syncing
      <3> QED BY <1>0, <2>2, <2>4, <3>1, <3>2, LifeEdited
    <2>5. CASE pc' = "statusRead" /\ UNCHANGED <<history, my>>
      BY <1>r, <2>1, <2>5 DEF Syncing
    <2> QED BY <1>10, <2>3, <2>4, <2>5 DEF updateStatus, Fails, Refused, Return
  <1> QED BY <1>1, <1>2, <1>3, <1>4, <1>5, <1>6, <1>7, <1>8, <1>9, <1>10 DEF Worker

LEMMA LifeEnvironment ==
  ASSUME ApiOK, Newest, Environment
  PROVE  Follows
  <1> USE Objects
  <1>1. Served' = Served
    BY DEF Environment, CreateClusterEndpoint, EditSpec, DeleteClusterEndpoint, Relabel,
           Seize, Drift, Remove, Flip, Becomes, local, Served, Syncing
  <1>2. Live("cep") \in ClusterEndpointType \cup {Absent}
    BY Versions
  <1>3. ASSUME NEW s \in Specs, CreateClusterEndpoint(s) PROVE Follows
    <2> DEFINE c == NewClusterEndpoint(uid + 1, s)
    <2>1. c \in ClusterEndpointType /\ ~c.del /\ ~c.fin /\ c.uid = uid + 1
      BY DEF NewClusterEndpoint, ClusterEndpointType, StatusType, ApiOK
    <2>2. Live("cep") = Absent /\ uid' = uid + 1 /\ Store("cep", c)
      BY <1>3 DEF CreateClusterEndpoint, Becomes
    <2>3. Live("cep")' = c
      BY <2>2, StoreEffect
    <2>4. LivePhase = "absent" /\ LivePhase' = "plain" /\ Newest'
      BY <2>1, <2>2, <2>3 DEF LivePhase, Newest
    <2> QED BY <1>1, <2>2, <2>4 DEF Follows, LiveIs!Next, LiveIs!Create
  <1>4. ASSUME NEW s \in Specs, EditSpec(s) PROVE Follows
    <2> DEFINE c == [Live("cep") EXCEPT !.spec = s]
    <2>1. Live("cep") # Absent /\ Store("cep", c) /\ uid' = uid
      BY <1>4 DEF EditSpec, Becomes
    <2>2. /\ c \in ClusterEndpointType /\ c.uid = Live("cep").uid
          /\ c.fin = Live("cep").fin /\ c.del = Live("cep").del
      BY <1>2, <2>1 DEF ClusterEndpointType
    <2> QED BY <1>1, <2>1, <2>2, LifeEdited
  <1>5. CASE Relabel
    <2> DEFINE c == [Live("cep") EXCEPT !.meta = "labelled"]
    <2>1. Live("cep") # Absent /\ Store("cep", c) /\ uid' = uid
      BY <1>5 DEF Relabel, Becomes
    <2>2. /\ c \in ClusterEndpointType /\ c.uid = Live("cep").uid
          /\ c.fin = Live("cep").fin /\ c.del = Live("cep").del
      BY <1>2, <2>1 DEF ClusterEndpointType
    <2> QED BY <1>1, <2>1, <2>2, LifeEdited
  <1>6. CASE DeleteClusterEndpoint
    <2> DEFINE c == Live("cep")
               d == [c EXCEPT !.del = TRUE]
    <2>1. c # Absent /\ ~c.del /\ uid' = uid /\ Store("cep", IF c.fin THEN d ELSE Absent)
      BY <1>6 DEF DeleteClusterEndpoint, Becomes
    <2>2. d \in ClusterEndpointType /\ d.del /\ d.uid = c.uid
      BY <1>2, <2>1 DEF ClusterEndpointType
    <2>3. Live("cep")' = IF c.fin THEN d ELSE Absent
      BY <2>1, StoreEffect
    <2>4. \/ LivePhase = "plain" /\ LivePhase' = "absent"
          \/ LivePhase = "held" /\ LivePhase' = "ending"
      BY <2>1, <2>2, <2>3 DEF LivePhase
    <2>5. Newest'
      BY <2>1, <2>2, <2>3 DEF Newest
    <2> QED BY <1>1, <2>1, <2>4, <2>5 DEF Follows, LiveIs!Next, LiveIs!Delete
  <1>7. ASSUME NEW k \in {"svc", "ep"}, Seize(k) \/ Drift(k) \/ Remove(k) PROVE Follows
    <2>1. history'["cep"] = history["cep"] /\ uid' = uid
      BY <1>7 DEF Seize, Drift, Remove, Becomes, Store, ApiOK
    <2> QED BY <1>1, <2>1, LifeStays DEF Live
  <1>8. ASSUME NEW p \in Ports, Flip(p) PROVE Follows
    BY <1>1, <1>8, LifeStays DEF Flip, api, Live
  <1> QED BY <1>3, <1>4, <1>5, <1>6, <1>7, <1>8 DEF Environment

LEMMA LifeStep ==
  ASSUME TypeOK, Inv, NotDeleting, Newest, [Next]_vars
  PROVE  Follows
  <1>1. ApiOK /\ PcOK /\ MyOK /\ GotOK /\ SyncOK
    BY TypeParts
  <1>2. CASE Worker
    BY <1>1, <1>2, LifeWorker
  <1>3. CASE Environment
    BY <1>1, <1>3, LifeEnvironment
  <1>4. ASSUME NEW k \in Kinds, Deliver(k) PROVE Follows
    <2>1. Live("cep")' = Live("cep")
      BY <1>1, <1>4, DeliverTypes, Objects DEF Live
    <2>2. uid' = uid /\ Served' = Served
      BY <1>4 DEF Deliver, local, Served, Syncing
    <2> QED BY <2>1, <2>2, LifeStays
  <1>5. CASE TimerFires \/ UNCHANGED vars
    BY <1>5, LifeStays DEF TimerFires, vars, api, local, Served, Syncing, Live
  <1>6. CASE Restart
    <2>1. history'["cep"] = <<Live("cep")>> /\ uid' = uid /\ Idle
      BY <1>1, <1>6, RestartTypes, Objects DEF Restart
    <2>2. Live("cep")' = Live("cep") /\ Served' = 0
      BY <2>1 DEF Live, Idle, Served, Syncing
    <2> QED BY <2>1, <2>2, LifeStays
  <1>7. ASSUME NEW k \in {"svc", "ep"}, CollectGarbage(k) PROVE Follows
    <2>1. history'["cep"] = history["cep"] /\ uid' = uid /\ Served' = Served
      BY <1>1, <1>7, StoreEffect, Objects DEF CollectGarbage, local, Served, Syncing
    <2> QED BY <2>1, LifeStays DEF Live
  <1> QED BY <1>2, <1>3, <1>4, <1>5, <1>6, <1>7 DEF Next, Informers, Collector

LEMMA LifeInit == Init => Newest /\ LiveIs!Init
  <1> SUFFICES ASSUME Init PROVE Newest /\ LiveIs!Init
    OBVIOUS
  <1>1. PICK c \in {Absent} \cup { NewClusterEndpoint(1, s) : s \in Specs } :
          history["cep"] = <<c>>
    BY Objects DEF Init
  <1>2. Live("cep") = c
    BY <1>1 DEF Live
  <1>3. c = Absent \/ (~c.del /\ ~c.fin /\ c.uid = 1)
    BY <1>1 DEF NewClusterEndpoint
  <1>4. LivePhase \in {"absent", "plain"}
    BY <1>2, <1>3 DEF LivePhase
  <1>5. uid = 1 /\ Served = 0
    BY DEF Init, Served, Syncing
  <1> QED BY <1>2, <1>3, <1>4, <1>5 DEF Newest, LiveIs!Init

(***************************************************************************)
(* The controller implements Lifetime, for any environment: what a round   *)
(* serves is the ClusterEndpoint that lives, which is let go only when it  *)
(* is deleted and no round serves it.  That a round starts from a version  *)
(* that may be old maps to a step of Lifetime because of Remembered, that  *)
(* the finalizer's two writes do because of ReadIsLive.                    *)
(***************************************************************************)
THEOREM LifetimeIsKept == Spec => LifetimeKept
  <1>1. Init => Attentive /\ Newest /\ LiveIs!Init
    BY AttentiveInit, LifeInit
  <1>2. TypeOK /\ Inv /\ Attentive /\ Newest /\ [Next]_vars =>
          Attentive' /\ Newest' /\ [LiveIs!Next]_(LiveIs!vars)
    BY AttentiveStep, LifeStep DEF Attentive, Follows
  <1> QED BY <1>1, <1>2, Invariance, PTL DEF Spec, LifetimeKept, LiveIs!Spec

------------------------------------------------------------------------------
(* A round comes to its end.                                               *)

(***************************************************************************)
(* Every call of a round brings it on, whoever writes in between: to the   *)
(* next of its writes, to one of at most Steps attempts at this one, from  *)
(* the read to the write, or to one target less.                           *)
(***************************************************************************)
THEOREM RoundsAdvance == Spec => RoundAdvances
  <1> DEFINE Advances ==
        Worker /\ pc # "idle" =>
          \/ Stage' > Stage
          \/ Stage' = Stage /\ tries' > tries /\ tries' <= Steps
          \/ Stage' = Stage /\ tries' = tries /\ ~HasRead /\ HasRead'
          \/ /\ Stage' = Stage /\ tries' = tries /\ ~HasRead /\ ~HasRead'
             /\ todo' \subseteq todo /\ todo' # todo
  <1>1. TypeOK /\ [Next]_vars => [Advances]_vars
    <2> SUFFICES ASSUME TypeOK, Worker, pc # "idle" PROVE Advances
      OBVIOUS
    <2> USE DEF Stage, HasRead
    <2>1. tries \in 1..Steps /\ Steps \in Nat
      BY StepsAssumption DEF TypeOK
    <2>2. CASE Idle
      BY <2>2 DEF Idle, TypeOK
    <2>3. CASE Start
      BY <2>3 DEF Start
    <2>4. CASE RemoveFinalizer
      BY <2>2, <2>4 DEF RemoveFinalizer, Refused, Return
    <2>5. CASE AddFinalizer
      <3>1. pc = "finalize" /\ (Idle \/ pc' = "svcRead")
        BY <2>5 DEF AddFinalizer, Refused, Return
      <3>2. CASE pc' = "svcRead"
        BY <3>1, <3>2
      <3> QED BY <2>2, <3>1, <3>2
    <2>6. CASE ReadService
      BY <2>6 DEF ReadService
    <2>7. CASE syncService
      <3>1. /\ pc = "svcApply"
            /\ pc' = "probe" \/ (pc' = "svcRead" /\ tries' = tries + 1 /\ tries < Steps)
        BY <2>7 DEF syncService, CreateOrUpdate, ServiceAgain, ServiceDone
      <3> QED BY <2>1, <3>1
    <2>8. ASSUME NEW p \in Ports, Probe(p) PROVE Advances
      BY <2>8 DEF Probe
    <2>9. CASE ReadEndpoints
      BY <2>9 DEF ReadEndpoints
    <2>10. CASE syncEndpoint
      <3>1. /\ pc = "epApply"
            /\ pc' = "statusRead" \/ (pc' = "probe" /\ tries' = tries + 1 /\ tries < Steps)
        BY <2>10 DEF syncEndpoint, CreateOrUpdate, EndpointAgain, EndpointDone
      <3> QED BY <2>1, <3>1
    <2>11. CASE ReadStatus
      <3>1. pc = "statusRead" /\ (Idle \/ (pc' = "statusApply" /\ tries' = tries))
        BY <2>11 DEF ReadStatus, Refused, Return
      <3> QED BY <2>2, <3>1
    <2>12. CASE updateStatus
      <3>1. /\ pc = "statusApply"
            /\ Idle \/ (pc' = "statusRead" /\ tries' = tries + 1 /\ tries < Steps)
        BY <2>12 DEF updateStatus, Refused, Return
      <3>2. CASE pc' = "statusRead" /\ tries' = tries + 1 /\ tries < Steps
        BY <2>1, <3>1, <3>2
      <3> QED BY <2>2, <3>1, <3>2
    <2> QED BY <2>3, <2>4, <2>5, <2>6, <2>7, <2>8, <2>9, <2>10, <2>11, <2>12 DEF Worker
  <1>2. Spec => [][Advances]_vars
    BY <1>1, TypeCorrect, PTL DEF Spec
  <1> QED BY <1>2 DEF RoundAdvances

=============================================================================
