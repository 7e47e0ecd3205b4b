---------------------------- MODULE TakeoverProofs ----------------------------
(***************************************************************************)
(* Proofs about Takeover: types, and that the take-over is seamless.  The  *)
(* first half is about the data: what the tool makes of a Service and      *)
(* addresses, and what the operator makes of that, reaches the same        *)
(* targets.  The second half is the invariant that nothing else is stored  *)
(* while nobody interferes.                                                *)
(***************************************************************************)
EXTENDS Takeover, TLAPS, FiniteSetTheorems, WellFoundedInduction

------------------------------------------------------------------------------
\* Facts about numbers and finite sets.

Less == {pair \in Nat \X Nat : pair[1] < pair[2]}

\* Every inhabited set of naturals has a least element.
LEMMA Least ==
  ASSUME NEW T, T \subseteq Nat, T # {}
  PROVE  \E x \in T : \A y \in T : x <= y
<1>1. IsWellFoundedOn(Less, Nat)
  BY NatLessThanWellFounded DEF OpToRel, Less
<1>2. \E x \in T : \A y \in T : ~ (<<y, x>> \in Less)
  BY <1>1, WFMin, Zenon
<1>3. \A x, y \in Nat : y < x => <<y, x>> \in Less
  BY DEF Less
<1>4. PICK x \in T : \A y \in T : ~ (<<y, x>> \in Less)
  BY <1>2
<1>5. ASSUME NEW y \in T PROVE x <= y
  <2>1. ~ (y < x)
    BY <1>3, <1>4
  <2>2. QED BY <2>1
<1>6. QED BY <1>5

\* A finite set of addresses has finitely many ports and subsets.
LEMMA FinitelyMany ==
  ASSUME NEW A, IsFiniteSet(A)
  PROVE  /\ IsFiniteSet(EndpointPorts(A))
         /\ IsFiniteSet(Subsets(A))
<1> DEFINE f == [a \in A |-> [name |-> a.name, target |-> a.target, protocol |-> a.protocol]]
           g == [p \in EndpointPorts(A) |-> HostsOf(A, p)]
<1>1. f \in Surjection(A, EndpointPorts(A))
  BY DEF Surjection, EndpointPorts
<1>2. IsFiniteSet(EndpointPorts(A))
  BY <1>1, FS_Surjection
<1>3. g \in Surjection(EndpointPorts(A), Subsets(A))
  BY DEF Surjection, Subsets
<1>4. IsFiniteSet(Subsets(A))
  BY <1>2, <1>3, FS_Surjection
<1>5. QED BY <1>2, <1>4

\* With at most one subset, every port has the same hosts.
LEMMA OneSubset ==
  ASSUME NEW A, IsFiniteSet(A), ~(Cardinality(Subsets(A)) > 1),
         NEW p \in EndpointPorts(A), NEW q \in EndpointPorts(A)
  PROVE  HostsOf(A, p) = HostsOf(A, q)
<1>1. /\ IsFiniteSet(Subsets(A))
      /\ Cardinality(Subsets(A)) \in Nat
  BY FinitelyMany, FS_CardinalityType
<1>2. HostsOf(A, p) \in Subsets(A) /\ HostsOf(A, q) \in Subsets(A)
  BY DEF Subsets
<1>3. Cardinality(Subsets(A)) # 0
  BY <1>1, <1>2, FS_EmptySet
<1>4. Cardinality(Subsets(A)) = 1
  BY <1>1, <1>3
<1>5. \E x : Subsets(A) = {x}
  BY <1>1, <1>4, FS_Singleton
<1>6. QED BY <1>2, <1>5

------------------------------------------------------------------------------
\* The data.

\* What is known when the tool creates: a Service it supports and one subset.
Supported(svc, A) ==
  /\ svc \in ServiceType /\ ValidPorts(svc.ports)
  /\ A \subseteq Addresses /\ IsFiniteSet(A)
  /\ ~(Cardinality(Subsets(A)) > 1)

\* findPortInSvc finds the port of that name.
LEMMA FoundPort ==
  ASSUME NEW svc \in ServiceType, ValidPorts(svc.ports), NEW sp \in svc.ports
  PROVE  findPortInSvc(svc, sp.name) = sp.port
<1>1. \A q \in svc.ports : q.name = sp.name => q = sp
  BY DEF ValidPorts
<1>2. QED BY <1>1 DEF findPortInSvc

\* A port is found, or 0.
LEMMA PortOrZero ==
  ASSUME NEW svc \in ServiceType, NEW n
  PROVE  /\ findPortInSvc(svc, n) \in Nat
         /\ findPortInSvc(svc, n) # 0 => \E sp \in svc.ports : sp.name = n
  BY DEF findPortInSvc, ServiceType, ServicePorts

\* The ports of the ClusterEndpoint are those of the subset, with its hosts.
LEMMA TakenShape ==
  ASSUME NEW o, NEW svc, NEW A, Supported(svc, A), NEW c \in Taken(o, svc, A)
  PROVE  /\ Cardinality(EndpointPorts(A)) \in Nat
         /\ DOMAIN c.ports = 1..Cardinality(EndpointPorts(A))
         /\ c.period = o.period
         /\ \A i \in DOMAIN c.ports : \E p \in EndpointPorts(A) :
              c.ports[i] = TakenPort(p, svc, Hosts(A), o.probe)
         /\ \A p \in EndpointPorts(A) : \E i \in DOMAIN c.ports :
              c.ports[i] = TakenPort(p, svc, Hosts(A), o.probe)
<1>1. Cardinality(EndpointPorts(A)) \in Nat
  BY FinitelyMany, FS_CardinalityType DEF Supported
<1>2. PICK list \in Listings(EndpointPorts(A)) :
        c = [period |-> o.period,
             ports |-> [i \in DOMAIN list |-> TakenPort(list[i], svc, Hosts(A), o.probe)]]
  BY DEF Taken
<1>3. /\ list \in [1..Cardinality(EndpointPorts(A)) -> EndpointPorts(A)]
      /\ \A p \in EndpointPorts(A) : \E i \in DOMAIN list : list[i] = p
  BY DEF Listings
<1> DEFINE ports == [i \in DOMAIN list |-> TakenPort(list[i], svc, Hosts(A), o.probe)]
<1>4. c.ports = ports /\ c.period = o.period
  BY <1>2
<1> HIDE DEF ports
<1>5. DOMAIN ports = 1..Cardinality(EndpointPorts(A))
  BY <1>3 DEF ports
<1>6. \A i \in DOMAIN list : ports[i] = TakenPort(list[i], svc, Hosts(A), o.probe)
  BY DEF ports
<1>7. DOMAIN list = DOMAIN ports
  BY DEF ports
<1>8. \A i \in DOMAIN c.ports : \E p \in EndpointPorts(A) :
         c.ports[i] = TakenPort(p, svc, Hosts(A), o.probe)
  BY <1>3, <1>4, <1>6, <1>7
<1>9. \A p \in EndpointPorts(A) : \E i \in DOMAIN c.ports :
         c.ports[i] = TakenPort(p, svc, Hosts(A), o.probe)
  BY <1>3, <1>4, <1>6, <1>7
<1>10. QED BY <1>1, <1>4, <1>5, <1>8, <1>9

\* An address has the port it was listed under.
PortOf(a) == [name |-> a.name, target |-> a.target, protocol |-> a.protocol]

LEMMA TakenType ==
  ASSUME NEW o, NEW svc, NEW A, Supported(svc, A), NEW c \in Taken(o, svc, A),
         o.period \in Nat, o.probe \in BOOLEAN
  PROVE  c \in ClusterEndpointType
<1> DEFINE n == Cardinality(EndpointPorts(A))
<1>1. /\ n \in Nat
      /\ DOMAIN c.ports = 1..n
      /\ c.period \in Nat
      /\ \A i \in DOMAIN c.ports : \E p \in EndpointPorts(A) :
           c.ports[i] = TakenPort(p, svc, Hosts(A), o.probe)
  BY TakenShape
<1> HIDE DEF n
<1>2. \A p \in EndpointPorts(A) : TakenPort(p, svc, Hosts(A), o.probe) \in TakenPorts
  <2> SUFFICES ASSUME NEW p \in EndpointPorts(A)
               PROVE  TakenPort(p, svc, Hosts(A), o.probe) \in TakenPorts
    OBVIOUS
  <2>1. p.name \in Names /\ p.target \in Nat /\ p.protocol \in Protocols
    BY DEF Supported, EndpointPorts, Addresses
  <2>2. Hosts(A) \subseteq IPs
    BY DEF Supported, Hosts, Addresses
  <2>3. findPortInSvc(svc, p.name) \in Nat
    BY PortOrZero DEF Supported
  <2>4. QED BY <2>1, <2>2, <2>3 DEF TakenPort, TakenPorts
<1>3. \A i \in 1..n : c.ports[i] \in TakenPorts
  BY <1>1, <1>2
<1>4. \E f : c = [period |-> o.period, ports |-> f] /\ f = [i \in DOMAIN f |-> f[i]]
  BY DEF Taken
<1>5. c.ports = [i \in 1..n |-> c.ports[i]]
  BY <1>1, <1>4
<1>6. c.ports \in [1..n -> TakenPorts]
  BY <1>3, <1>5
<1>7. c.ports \in Seq(TakenPorts)
  BY <1>1, <1>6
<1>8. c = [period |-> c.period, ports |-> c.ports]
  BY <1>4
<1>9. QED BY <1>1, <1>7, <1>8 DEF ClusterEndpointType

\* The operator stores the addresses the tool has read, less those that fail
\* the probe.
LEMMA TakenAddresses ==
  ASSUME NEW o, NEW svc, NEW A, Supported(svc, A), NEW c \in Taken(o, svc, A)
  PROVE  HealthyAddresses(c.ports) =
           {a \in A : o.probe => [host |-> a.host, target |-> a.target, protocol |-> "TCP"] \in listening}
<1> DEFINE B == {a \in A : o.probe => [host |-> a.host, target |-> a.target, protocol |-> "TCP"] \in listening}
<1>1. ASSUME NEW x \in HealthyAddresses(c.ports) PROVE x \in B
  <2>0. PICK i \in DOMAIN c.ports :
          \E h \in c.ports[i].hosts : Healthy(c.ports[i], h) /\ x = ToEndpointSubset(c.ports[i], h)
    BY <1>1 DEF HealthyAddresses
  <2>1. PICK h \in c.ports[i].hosts : Healthy(c.ports[i], h) /\ x = ToEndpointSubset(c.ports[i], h)
    BY <2>0
  <2>2. PICK p \in EndpointPorts(A) : c.ports[i] = TakenPort(p, svc, Hosts(A), o.probe)
    BY TakenShape
  <2>3. PICK b \in A : h = b.host
    BY <2>1, <2>2 DEF TakenPort, Hosts
  <2>4. PortOf(b) \in EndpointPorts(A) /\ h \in HostsOf(A, PortOf(b))
    BY <2>3 DEF PortOf, EndpointPorts, HostsOf
  <2>5. h \in HostsOf(A, p)
    BY <2>4, OneSubset DEF Supported
  <2>6. PICK a \in A : a.host = h /\ a.name = p.name /\ a.target = p.target /\ a.protocol = p.protocol
    BY <2>5 DEF HostsOf
  <2>7. x = [name |-> a.name, target |-> a.target, protocol |-> a.protocol, host |-> a.host]
    BY <2>1, <2>2, <2>6 DEF TakenPort, ToEndpointSubset
  <2>8. x = a
    BY <2>7 DEF Supported, Addresses
  <2>9. o.probe => [host |-> h, target |-> p.target, protocol |-> "TCP"] \in listening
    BY <2>1, <2>2 DEF Healthy, TakenPort
  <2>10. QED BY <2>6, <2>8, <2>9
<1>2. ASSUME NEW a \in B PROVE a \in HealthyAddresses(c.ports)
  <2>1. PortOf(a) \in EndpointPorts(A) /\ a.host \in Hosts(A)
    BY DEF PortOf, EndpointPorts, Hosts
  <2>2. PICK i \in DOMAIN c.ports : c.ports[i] = TakenPort(PortOf(a), svc, Hosts(A), o.probe)
    BY <2>1, TakenShape
  <2>3. a.host \in c.ports[i].hosts /\ Healthy(c.ports[i], a.host)
    BY <2>1, <2>2 DEF Healthy, TakenPort, PortOf
  <2>4. ToEndpointSubset(c.ports[i], a.host) =
          [name |-> a.name, target |-> a.target, protocol |-> a.protocol, host |-> a.host]
    BY <2>2 DEF ToEndpointSubset, TakenPort, PortOf
  <2>5. a = ToEndpointSubset(c.ports[i], a.host)
    BY <2>4 DEF Supported, Addresses
  <2>6. QED BY <2>3, <2>5 DEF HealthyAddresses
<1>3. QED BY <1>1, <1>2

\* Every name in a list of ports is in it for a first time.
LEMMA SomeFirst ==
  ASSUME NEW n \in Nat, NEW ports, DOMAIN ports = 1..n, NEW k \in DOMAIN ports
  PROVE  \E i \in DOMAIN ports : ports[i].name = ports[k].name /\ First(ports, i)
<1> DEFINE T == {i \in 1..n : ports[i].name = ports[k].name}
<1>1. T \subseteq Nat /\ k \in T
  OBVIOUS
<1>2. PICK i \in T : \A j \in T : i <= j
  BY <1>1, Least, Zenon
<1>3. \A j \in 1..(i - 1) : ports[j].name # ports[i].name
  <2> SUFFICES ASSUME NEW j \in 1..(i - 1), ports[j].name = ports[i].name PROVE FALSE
    OBVIOUS
  <2>1. i \in 1..n /\ j \in 1..n /\ j < i
    OBVIOUS
  <2>2. j \in T
    BY <2>1
  <2>3. QED BY <1>2, <2>1, <2>2
<1>4. QED BY <1>3 DEF First

\* Protocols of one name agree.
Agree(svc, A) ==
  \A sp \in svc.ports, a \in A : sp.name = a.name => sp.protocol = a.protocol

\* If the API server takes the converted ports, they serve the addresses as
\* the ports of the Service that was read did.
LEMMA SameReach ==
  ASSUME NEW o, NEW svc, NEW A, Supported(svc, A), NEW c \in Taken(o, svc, A),
         Agree(svc, A), ValidPorts(convertServicePorts(c.ports)), NEW B \in SUBSET A
  PROVE  Reach(convertServicePorts(c.ports), B) = Reach(svc.ports, B)
<1> DEFINE new == convertServicePorts(c.ports)
<1>1. ASSUME NEW q \in new PROVE q \in svc.ports
  <2>1. PICK i \in DOMAIN c.ports :
          q = [name |-> c.ports[i].name, port |-> c.ports[i].port, protocol |-> c.ports[i].protocol]
    BY <1>1 DEF convertServicePorts
  <2>2. PICK p \in EndpointPorts(A) : c.ports[i] = TakenPort(p, svc, Hosts(A), o.probe)
    BY TakenShape
  <2>3. q.name = p.name /\ q.port = findPortInSvc(svc, p.name) /\ q.protocol = p.protocol
    BY <2>1, <2>2 DEF TakenPort
  <2>4. q.port # 0
    <3>1. q.port > 0
      BY <1>1 DEF ValidPorts
    <3>2. QED BY <3>1
  <2>5. PICK sp \in svc.ports : sp.name = p.name
    BY <2>3, <2>4, PortOrZero DEF Supported
  <2>6. sp.port = q.port
    BY <2>3, <2>5, FoundPort DEF Supported
  <2>7. PICK a \in A : a.name = p.name /\ a.protocol = p.protocol
    BY DEF EndpointPorts
  <2>8. sp.protocol = q.protocol
    BY <2>3, <2>5, <2>7 DEF Agree
  <2>9. sp = [name |-> sp.name, port |-> sp.port, protocol |-> sp.protocol]
    BY DEF Supported, ServiceType, ServicePorts
  <2>10. QED BY <2>1, <2>3, <2>5, <2>6, <2>8, <2>9
<1>2. ASSUME NEW sp \in svc.ports, NEW a \in A, sp.name = a.name PROVE sp \in new
  <2>1. PortOf(a) \in EndpointPorts(A)
    BY DEF PortOf, EndpointPorts
  <2>2. PICK k \in DOMAIN c.ports : c.ports[k] = TakenPort(PortOf(a), svc, Hosts(A), o.probe)
    BY <2>1, TakenShape
  <2>3. c.ports[k].name = sp.name
    BY <1>2, <2>2 DEF TakenPort, PortOf
  <2>4. PICK i \in DOMAIN c.ports : c.ports[i].name = c.ports[k].name /\ First(c.ports, i)
    <3>1. /\ Cardinality(EndpointPorts(A)) \in Nat
          /\ DOMAIN c.ports = 1..Cardinality(EndpointPorts(A))
      BY TakenShape
    <3>2. QED BY <3>1, SomeFirst
  <2>5. PICK p \in EndpointPorts(A) : c.ports[i] = TakenPort(p, svc, Hosts(A), o.probe)
    BY TakenShape
  <2>6. p.name = sp.name
    BY <2>3, <2>4, <2>5 DEF TakenPort
  <2>7. c.ports[i].port = sp.port
    BY <2>5, <2>6, FoundPort DEF TakenPort, Supported
  <2>8. PICK b \in A : b.name = p.name /\ b.protocol = p.protocol
    BY DEF EndpointPorts
  <2>9. c.ports[i].protocol = sp.protocol
    BY <2>5, <2>6, <2>8 DEF Agree, TakenPort
  <2>10. sp = [name |-> sp.name, port |-> sp.port, protocol |-> sp.protocol]
    BY DEF Supported, ServiceType, ServicePorts
  <2>11. sp = [name |-> c.ports[i].name, port |-> c.ports[i].port, protocol |-> c.ports[i].protocol]
    BY <2>3, <2>4, <2>7, <2>9, <2>10
  <2>12. QED BY <2>4, <2>11 DEF convertServicePorts
<1>3. new \subseteq svc.ports
  BY <1>1
<1>4. \A sp \in svc.ports, a \in A : sp.name = a.name => sp \in new
  BY <1>2
<1> HIDE DEF new
<1>5. Reach(new, B) = Reach(svc.ports, B)
  <2>1. {q \in new \X B : q[1].name = q[2].name /\ q[1].protocol = q[2].protocol}
        = {q \in svc.ports \X B : q[1].name = q[2].name /\ q[1].protocol = q[2].protocol}
    BY <1>3, <1>4
  <2>2. QED BY <2>1 DEF Reach
<1>6. QED BY <1>5 DEF new

------------------------------------------------------------------------------
\* The invariant.

\* How far the tool has come says what it knows, and nothing is owned or
\* synced before there is a ClusterEndpoint.
Progress ==
  /\ tool # "ended" => cep = Absent
  /\ tool \in {"service", "endpoints"} => gotAddresses = {}
  /\ tool \in {"endpoints", "create"} =>
       gotService # Absent /\ ~gotService.headless /\ options.period >= 0
  /\ tool = "create" => Supported(gotService, gotAddresses)
  /\ cep = Absent =>
       /\ operator = "idle" /\ ~queued
       /\ service # Absent => ~service.owned
       /\ endpoints # Absent => endpoints.addresses \in AddressSets
  /\ cep # Absent =>
       /\ Supported(gotService, gotAddresses)
       /\ cep \in Taken(options, gotService, gotAddresses)

\* The Endpoints are as the tool has read them.
Found == IF endpoints = Absent THEN gotAddresses = {} ELSE endpoints.addresses = gotAddresses

\* While nobody interferes, each object is as it was read or as the operator
\* makes it.
Untouched ==
  ~disturbed /\ ~errorDropped =>
    /\ tool \in {"endpoints", "create"} => service = gotService
    /\ tool = "create" => Found
    /\ cep # Absent =>
         /\ service # Absent
         /\ \/ service.ports = gotService.ports
            \/ /\ ValidPorts(convertServicePorts(cep.ports))
               /\ service.ports = convertServicePorts(cep.ports)
         /\ \/ Found
            \/ endpoints # Absent /\ endpoints.addresses = HealthyAddresses(cep.ports)

IInv == TypeOK /\ Progress /\ Untouched

\* What the tool creates is a ClusterEndpoint, which Absent is not.
LEMMA Creates ==
  ASSUME IInv, CreateCR
  PROVE  cep' \in ClusterEndpointType /\ cep' # Absent
<1>1. Supported(gotService, gotAddresses) /\ options.period >= 0
  BY DEF IInv, Progress, CreateCR
<1>2. options.period \in Nat /\ options.probe \in BOOLEAN
  BY <1>1, OptionsAssumption DEF IInv, TypeOK
<1>3. cep' \in ClusterEndpointType
  BY <1>1, <1>2, TakenType DEF CreateCR
<1>4. QED BY <1>3, AbsentAssumption

\* What the operator wants to store has the types of what there is.
LEMMA DesiredTypes ==
  ASSUME TypeOK, cep # Absent
  PROVE  /\ DesiredService \in ServiceType
         /\ HealthyAddresses(cep.ports) \subseteq Addresses
<1>1. cep.ports \in Seq(TakenPorts)
  BY DEF TypeOK, ClusterEndpointType
<1>2. \A i \in DOMAIN cep.ports : cep.ports[i] \in TakenPorts
  BY <1>1
<1>3. convertServicePorts(cep.ports) \subseteq ServicePorts
  BY <1>2 DEF convertServicePorts, ServicePorts, TakenPorts
<1>4. (service # Absent /\ service.headless) \in BOOLEAN
  OBVIOUS
<1>5. DesiredService \in ServiceType
  BY <1>3, <1>4 DEF DesiredService, ServiceType
<1>6. ASSUME NEW i \in DOMAIN cep.ports, NEW h \in cep.ports[i].hosts
      PROVE  ToEndpointSubset(cep.ports[i], h) \in Addresses
  BY <1>2 DEF ToEndpointSubset, TakenPorts, Addresses
<1>7. HealthyAddresses(cep.ports) \subseteq Addresses
  BY <1>6 DEF HealthyAddresses
<1>8. QED BY <1>5, <1>7

LEMMA Initially == Init => IInv
<1> SUFFICES ASSUME Init PROVE IInv
  OBVIOUS
<1>1. TypeOK
  <2>1. service \in ServiceType \cup {Absent}
    BY ServicesAssumption DEF Init
  <2>2. \A svc \in {service, gotService} \ {Absent} : svc.headless \/ ValidPorts(svc.ports)
    BY ServicesAssumption DEF Init
  <2>3. endpoints \in EndpointsType \cup {Absent}
    <3>1. \A a \in AddressSets : [addresses |-> a, owned |-> FALSE] \in EndpointsType
      BY AddressesAssumption DEF EndpointsType
    <3>2. QED BY <3>1 DEF Init
  <2>4. left \in 0..Budget
    BY BudgetAssumption DEF Init
  <2>5. cep \in ClusterEndpointType \cup {Absent} /\ gotAddresses \subseteq Addresses
    BY DEF Init
  <2>6. {service, gotService} \subseteq ServiceType \cup {Absent}
    BY <2>1 DEF Init
  <2>7. {errorDropped, queued, disturbed} \subseteq BOOLEAN
    BY DEF Init
  <2>8. QED BY <2>2, <2>3, <2>4, <2>5, <2>6, <2>7 DEF Init, TypeOK
<1>2. Progress
  BY ServicesAssumption DEF Init, Progress
<1>3. Untouched
  BY DEF Init, Untouched
<1>4. QED BY <1>1, <1>2, <1>3 DEF IInv

LEMMA TypeStep == IInv /\ [Next]_vars => TypeOK'
<1> SUFFICES ASSUME IInv, [Next]_vars PROVE TypeOK'
  OBVIOUS
<1> USE DEF IInv
<1>1. CASE GetService
  BY <1>1 DEF GetService, End, TypeOK, objects, run, read
<1>2. CASE GetEndpoints
  <2>1. gotAddresses' \subseteq Addresses
    BY <1>2 DEF GetEndpoints, TypeOK, EndpointsType
  <2>2. tool' \in {"ended", "create"}
    BY <1>2 DEF GetEndpoints
  <2>3. QED BY <1>2, <2>1, <2>2 DEF GetEndpoints, TypeOK, objects, run
<1>3. CASE GetEndpointsFails
  BY <1>3, BudgetAssumption DEF GetEndpointsFails, Spend, TypeOK, objects, run
<1>4. CASE Show
  BY <1>4 DEF Show, End, TypeOK, objects, run, read
<1>5. CASE CreateCR
  BY <1>5, Creates DEF CreateCR, TypeOK, read
<1>6. CASE CallFails
  BY <1>6, BudgetAssumption DEF CallFails, End, Spend, TypeOK, objects, run, read
<1>7. CASE StartRound
  BY <1>7 DEF StartRound, TypeOK, objects, read
<1>8. CASE syncService
  <2>1. cep # Absent
    BY <1>8 DEF syncService, Progress
  <2>2. service' \in {service, DesiredService}
    BY <1>8 DEF syncService
  <2>3. service' \in ServiceType \cup {Absent}
    BY <2>1, <2>2, DesiredTypes DEF TypeOK
  <2>4. service' = service \/ ValidPorts(service'.ports)
    BY <1>8 DEF syncService, Accepted
  <2>5. queued' \in BOOLEAN
    BY <1>8 DEF syncService, TypeOK
  <2>6. QED BY <1>8, <2>3, <2>4, <2>5 DEF syncService, TypeOK, read
<1>9. CASE syncEndpoint
  <2>1. cep # Absent
    BY <1>9 DEF syncEndpoint, Progress
  <2>2. endpoints' \in EndpointsType
    BY <1>9, <2>1, DesiredTypes DEF syncEndpoint, EndpointsType, NewAddresses
  <2>3. queued' \in BOOLEAN
    BY <1>9 DEF syncEndpoint, TypeOK
  <2>4. QED BY <1>9, <2>2, <2>3 DEF syncEndpoint, TypeOK, read
<1>10. CASE SyncFails
  <2>1. operator' \in {"endpoints", "idle"} /\ queued' \in BOOLEAN
    BY <1>10 DEF SyncFails, TypeOK
  <2>2. QED BY <1>10, <2>1, BudgetAssumption DEF SyncFails, Spend, TypeOK, objects, read
<1>11. CASE Restart
  BY <1>11, BudgetAssumption DEF Restart, Spend, TypeOK, objects, read
<1>12. CASE WriteService
  <2>1. service \in ServiceType
    BY <1>12 DEF WriteService, TypeOK
  <2>2. CASE service' = Absent
    BY <1>12, <2>1, <2>2, BudgetAssumption DEF WriteService, Spend, Disturbs, TypeOK, read, ServiceType
  <2>3. CASE service' # Absent
    <3>1. PICK s \in Services : service' = [s EXCEPT !.owned = service.owned]
      BY <1>12, <2>3 DEF WriteService
    <3>2. s \in ServiceType /\ (s.headless \/ ValidPorts(s.ports))
      BY ServicesAssumption
    <3>3. /\ service' \in ServiceType
          /\ service'.headless = s.headless /\ service'.ports = s.ports
      BY <2>1, <3>1, <3>2 DEF ServiceType
    <3>4. queued' \in BOOLEAN /\ disturbed' \in BOOLEAN
      BY <1>12, <2>1 DEF WriteService, Disturbs, TypeOK, ServiceType
    <3>5. QED BY <1>12, <3>2, <3>3, <3>4, BudgetAssumption DEF WriteService, Spend, TypeOK, read
  <2>4. QED BY <2>2, <2>3
<1>13. CASE WriteEndpoints
  <2>1. endpoints \in EndpointsType
    BY <1>13 DEF WriteEndpoints, TypeOK
  <2>2. endpoints' \in EndpointsType \cup {Absent}
    BY <1>13, <2>1, AddressesAssumption DEF WriteEndpoints, EndpointsType
  <2>3. QED BY <1>13, <2>2, BudgetAssumption DEF WriteEndpoints, Spend, Disturbs, TypeOK, read, run
<1>14. CASE UNCHANGED vars
  BY <1>14 DEF vars, TypeOK, objects, run, read
<1>15. QED
  BY <1>1, <1>2, <1>3, <1>4, <1>5, <1>6, <1>7, <1>8, <1>9, <1>10, <1>11, <1>12, <1>13, <1>14
     DEF Next, Tool, Operator

LEMMA ProgressStep == IInv /\ [Next]_vars => Progress'
<1> SUFFICES ASSUME IInv, [Next]_vars PROVE Progress'
  OBVIOUS
<1> USE DEF IInv
<1>1. CASE GetService
  BY <1>1 DEF GetService, End, Validate, Progress, Supported, objects, run, read
<1>2. CASE GetEndpoints
  <2>1. gotService \in ServiceType /\ ValidPorts(gotService.ports) /\ gotService # Absent
    BY <1>2 DEF GetEndpoints, TypeOK, Progress
  <2>2. gotAddresses' \subseteq Addresses /\ IsFiniteSet(gotAddresses')
    BY <1>2, AddressesAssumption, FS_EmptySet DEF GetEndpoints, Progress
  <2>3. tool' = "create" => ~(Cardinality(Subsets(gotAddresses')) > 1)
    BY <1>2 DEF GetEndpoints
  <2>4. tool' = "create" => Supported(gotService', gotAddresses')
    BY <1>2, <2>1, <2>2, <2>3 DEF Supported, GetEndpoints
  <2>5. QED BY <1>2, <2>4 DEF GetEndpoints, Progress, objects, run
<1>3. CASE GetEndpointsFails
  <2>1. gotService \in ServiceType /\ ValidPorts(gotService.ports) /\ gotService # Absent
    BY <1>3 DEF GetEndpointsFails, TypeOK, Progress
  <2>2. Subsets({}) = {}
    BY DEF Subsets, EndpointPorts
  <2>3. Supported(gotService, {})
    BY <2>1, <2>2, FS_EmptySet DEF Supported
  <2>4. QED BY <1>3, <2>3 DEF GetEndpointsFails, Progress, objects, run
<1>4. CASE Show
  BY <1>4 DEF Show, End, Progress, objects, run, read
<1>5. CASE CreateCR
  BY <1>5, Creates DEF CreateCR, Progress, read
<1>6. CASE CallFails
  BY <1>6 DEF CallFails, End, Progress, objects, run, read
<1>7. CASE StartRound
  BY <1>7 DEF StartRound, Progress, objects, read
<1>8. CASE syncService
  BY <1>8 DEF syncService, Progress, read
<1>9. CASE syncEndpoint
  BY <1>9 DEF syncEndpoint, Progress, read
<1>10. CASE SyncFails
  BY <1>10 DEF SyncFails, Progress, objects, read
<1>11. CASE Restart
  BY <1>11 DEF Restart, Progress, objects, read
<1>12. CASE WriteService
  <2>1. cep = Absent => ~queued'
    BY <1>12 DEF WriteService, Progress
  <2>2. cep = Absent /\ service' # Absent => ~service'.owned
    <3> SUFFICES ASSUME cep = Absent, service' # Absent PROVE ~service'.owned
      OBVIOUS
    <3>1. PICK s \in Services : service' = [s EXCEPT !.owned = service.owned]
      BY <1>12 DEF WriteService
    <3>2. s \in ServiceType /\ ~service.owned
      BY <1>12, ServicesAssumption DEF WriteService, Progress
    <3>3. QED BY <3>1, <3>2 DEF ServiceType
  <2>3. QED BY <1>12, <2>1, <2>2 DEF WriteService, Progress, read
<1>13. CASE WriteEndpoints
  <2>1. endpoints \in EndpointsType
    BY <1>13 DEF WriteEndpoints, TypeOK
  <2>2. endpoints' # Absent => endpoints'.addresses \in AddressSets
    BY <1>13, <2>1 DEF WriteEndpoints, EndpointsType
  <2>3. QED BY <1>13, <2>2 DEF WriteEndpoints, Progress, read, run
<1>14. CASE UNCHANGED vars
  BY <1>14 DEF vars, Progress, objects, run, read
<1>15. QED
  BY <1>1, <1>2, <1>3, <1>4, <1>5, <1>6, <1>7, <1>8, <1>9, <1>10, <1>11, <1>12, <1>13, <1>14
     DEF Next, Tool, Operator

LEMMA UntouchedStep == IInv /\ [Next]_vars => Untouched'
<1> SUFFICES ASSUME IInv, [Next]_vars PROVE Untouched'
  OBVIOUS
<1> USE DEF IInv
<1>0. ASSUME UNCHANGED <<tool, read, objects, listening, disturbed>> PROVE Untouched'
  <2>1. /\ tool' = tool /\ gotService' = gotService /\ gotAddresses' = gotAddresses
        /\ errorDropped' = errorDropped /\ service' = service /\ endpoints' = endpoints
        /\ cep' = cep /\ listening' = listening /\ disturbed' = disturbed
    BY <1>0 DEF objects, read
  <2>2. Found' = Found
    BY <2>1 DEF Found
  <2>3. HealthyAddresses(cep.ports)' = HealthyAddresses(cep.ports)
    BY <2>1 DEF HealthyAddresses, Healthy
  <2>4. QED BY <2>1, <2>2, <2>3 DEF Untouched
<1>1. CASE GetService
  BY <1>1 DEF GetService, End, Untouched, Progress, Found, objects, run, read
<1>2. CASE GetEndpoints
  <2>1. Found'
    BY <1>2 DEF GetEndpoints, Found, objects
  <2>2. QED BY <1>2, <2>1 DEF GetEndpoints, Untouched, Progress, objects, run
<1>3. CASE GetEndpointsFails
  BY <1>3 DEF GetEndpointsFails, Untouched
<1>4. CASE Show
  BY <1>4 DEF Show, End, Untouched, Progress, objects, run, read
<1>5. CASE CreateCR
  BY <1>5 DEF CreateCR, Untouched, Progress, Found, read
<1>6. CASE CallFails
  BY <1>6 DEF CallFails, End, Untouched, Progress, objects, run, read
<1>7. CASE StartRound
  BY <1>0, <1>7 DEF StartRound
<1>8. CASE syncService
  <2>1. \/ service' = service
        \/ service' = DesiredService /\ ValidPorts(DesiredService.ports)
    BY <1>8 DEF syncService, Accepted
  <2>2. service' # service => service' # Absent
    BY <1>8, <2>1, DesiredTypes, AbsentAssumption DEF syncService, Progress
  <2>3. DesiredService.ports = convertServicePorts(cep.ports)
    BY DEF DesiredService
  <2>4. Found' = Found /\ HealthyAddresses(cep.ports)' = HealthyAddresses(cep.ports)
    BY <1>8 DEF syncService, Found, HealthyAddresses, Healthy, read
  <2>5. QED BY <1>8, <2>1, <2>2, <2>3, <2>4 DEF syncService, Untouched, Progress, read
<1>9. CASE syncEndpoint
  <2>1. endpoints' = [addresses |-> HealthyAddresses(cep.ports), owned |-> TRUE]
    BY <1>9 DEF syncEndpoint, NewAddresses
  <2>2. endpoints' # Absent
    <3>1. endpoints' \in EndpointsType
      BY <1>9, <2>1, DesiredTypes DEF syncEndpoint, Progress, EndpointsType
    <3>2. QED BY <3>1, AbsentAssumption
  <2>3. HealthyAddresses(cep.ports)' = HealthyAddresses(cep.ports)
    BY <1>9 DEF syncEndpoint, HealthyAddresses, Healthy
  <2>4. QED BY <1>9, <2>1, <2>2, <2>3 DEF syncEndpoint, Untouched, Progress, read
<1>10. CASE SyncFails
  BY <1>0, <1>10 DEF SyncFails
<1>11. CASE Restart
  BY <1>0, <1>11 DEF Restart
<1>12. CASE WriteService
  BY <1>12 DEF WriteService, Disturbs, Untouched, Progress
<1>13. CASE WriteEndpoints
  BY <1>13 DEF WriteEndpoints, Disturbs, Untouched, Progress, read
<1>14. CASE UNCHANGED vars
  BY <1>0, <1>14 DEF vars
<1>15. QED
  BY <1>1, <1>2, <1>3, <1>4, <1>5, <1>6, <1>7, <1>8, <1>9, <1>10, <1>11, <1>12, <1>13, <1>14
     DEF Next, Tool, Operator

LEMMA Invariance == Spec => []IInv
<1>1. IInv /\ [Next]_vars => IInv'
  BY TypeStep, ProgressStep, UntouchedStep DEF IInv
<1>2. QED BY Initially, <1>1, PTL DEF Spec

\* Types of all variables, for every set of Services and addresses found.
THEOREM TypeCorrect == Spec => []TypeOK
<1>1. IInv => TypeOK
  BY DEF IInv
<1>2. QED BY Invariance, <1>1, PTL

\* Fewer addresses are reached in no more ways.
LEMMA ReachGrows ==
  ASSUME NEW P, NEW A, NEW B \in SUBSET A
  PROVE  Reach(P, B) \subseteq Reach(P, A)
<1>1. P \X B \subseteq P \X A
  OBVIOUS
<1>2. QED BY <1>1 DEF Reach

\* What probing leaves is what is expected of the operator.
LEMMA ReachHealthy ==
  ASSUME NEW P, NEW A, NEW o, NEW B,
         B = {a \in A : o.probe => [host |-> a.host, target |-> a.target, protocol |-> "TCP"] \in listening}
  PROVE  \A r \in Reach(P, A) :
           (o.probe => [host |-> r.host, target |-> r.target, protocol |-> "TCP"] \in listening)
             => r \in Reach(P, B)
<1> SUFFICES ASSUME NEW r \in Reach(P, A),
                    o.probe => [host |-> r.host, target |-> r.target, protocol |-> "TCP"] \in listening
             PROVE  r \in Reach(P, B)
  OBVIOUS
<1> DEFINE Served(q) == [port |-> q[1].port, protocol |-> q[1].protocol,
                         host |-> q[2].host, target |-> q[2].target]
<1>1. PICK q \in P \X A :
        q[1].name = q[2].name /\ q[1].protocol = q[2].protocol /\ r = Served(q)
  BY DEF Reach
<1>2. r.host = q[2].host /\ r.target = q[2].target
  BY <1>1
<1>3. q[2] \in B
  BY <1>2
<1>4. q \in P \X B
  BY <1>3
<1>5. QED BY <1>1, <1>4 DEF Reach

\* Seamless, for every Service, every Endpoints and any interleaving of the
\* tool, the operator, failing calls and restarts.
THEOREM SeamlessCorrect == Spec => []Seamless
<1>1. IInv => Seamless
  <2> SUFFICES ASSUME IInv, cep # Absent, ~disturbed, ~errorDropped, ProtocolsAgree
               PROVE  Expected \subseteq Reachable /\ Reachable \subseteq ReachableBefore
    BY DEF Seamless
  <2> DEFINE P == gotService.ports
             A == gotAddresses
             B == HealthyAddresses(cep.ports)
  <2>1. /\ Supported(gotService, A) /\ cep \in Taken(options, gotService, A)
        /\ Agree(gotService, A)
    BY DEF IInv, Progress, ProtocolsAgree, Agree
  <2>2. B = {a \in A : options.probe =>
                [host |-> a.host, target |-> a.target, protocol |-> "TCP"] \in listening}
    BY <2>1, TakenAddresses
  <2>3. B \subseteq A /\ A \subseteq A
    BY <2>2
  <2>4. /\ service # Absent
        /\ service.ports = P \/ (ValidPorts(convertServicePorts(cep.ports))
                                   /\ service.ports = convertServicePorts(cep.ports))
        /\ Found \/ (endpoints # Absent /\ endpoints.addresses = B)
    BY DEF IInv, Untouched
  <2>5. Reach(service.ports, A) = Reach(P, A) /\ Reach(service.ports, B) = Reach(P, B)
    BY <2>1, <2>3, <2>4, SameReach
  <2>6. Reachable \in {Reach(P, A), Reach(P, B)}
    <3>1. CASE endpoints = Absent /\ A = {}
      BY <2>4, <3>1 DEF Reachable, Reach
    <3>2. CASE endpoints # Absent /\ endpoints.addresses \in {A, B}
      BY <2>4, <2>5, <3>2 DEF Reachable
    <3>3. QED BY <2>4, <3>1, <3>2 DEF Found
  <2>7. Reach(P, B) \subseteq Reach(P, A)
    BY <2>3, ReachGrows
  <2>8. Expected \subseteq Reach(P, A) /\ ReachableBefore = Reach(P, A)
    BY DEF Expected, ReachableBefore
  <2>9. Expected \subseteq Reach(P, B)
    BY <2>2, <2>8, ReachHealthy DEF Expected
  <2>10. QED BY <2>6, <2>7, <2>8, <2>9
<1>2. QED BY Invariance, <1>1, PTL

=============================================================================
