------------------------------- MODULE Takeover -------------------------------
(***************************************************************************)
(* cepctl (cmd/cepctl/app/client.go) takes a Service and the Endpoints     *)
(* beside it over into a ClusterEndpoint of that name; from then on the    *)
(* operator writes both from it.  The tool reads the Service, then the     *)
(* Endpoints, then creates the ClusterEndpoint; others may write between   *)
(* any two of these calls, and calls fail.                                 *)
(*                                                                         *)
(* Of the operator this module has the data: the ports a Service gets, the *)
(* addresses the Endpoints get, and that one is stored before the other.   *)
(* Reconciler has the cache, the conflicts and the status; because of its  *)
(* resourceVersion test, a read and the accepted write that follows it are *)
(* one step here.                                                          *)
(*                                                                         *)
(* The API server keeps Endpoints in a canonical form: one subset for all  *)
(* ports that have the same hosts.  So they are the set of their           *)
(* addresses, and the number of subsets follows from it.                   *)
(***************************************************************************)
EXTENDS Integers, Sequences, FiniteSets

CONSTANTS
  Names, IPs,   \* names of ports, addresses of hosts
  Services,     \* Services as users write them: [ports, headless, owned]
  AddressSets,  \* Endpoints as users write them: sets of addresses
  CommandLines, \* cepctl's options
  Backends,     \* which (host, target, protocol) may answer: a set of sets
  TooLong,      \* port names that are no names for a target port (over 15)
  Budget,       \* how often others write, calls fail and the operator restarts
  Absent        \* no such object

VARIABLES
  options,      \* the command line
  tool,         \* what cepctl does next: "service", "endpoints", "create", or "ended"
  gotService,   \* the Service it has read
  gotAddresses, \* the addresses it has read
  errorDropped, \* whether its read of the Endpoints failed
  service,      \* the Service in the API server
  endpoints,    \* the Endpoints there: [addresses, owned]
  cep,          \* the ClusterEndpoint there: [period, ports]
  operator,     \* what the operator does next: "idle", "service", "endpoints"
  queued,       \* whether the key is in the operator's workqueue
  listening,    \* the backends that answer, (host, target, protocol)
  disturbed,    \* whether others wrote to what the tool had read
  left          \* what is left of Budget

read == <<gotService, gotAddresses, errorDropped>>
objects == <<service, endpoints, cep>>
run == <<operator, queued>>
vars == <<options, tool, read, objects, run, listening, disturbed, left>>

Protocols == {"TCP", "UDP"}

ServicePorts == [name : Names, port : Nat, protocol : Protocols]

Addresses == [name : Names, target : Nat, protocol : Protocols, host : IPs]

\* What the API server takes as the ports of a Service that has an address.
ValidPorts(ports) ==
  /\ ports # {}
  /\ \A p \in ports : p.port > 0
  /\ \A p, q \in ports :
       p.name = q.name \/ (p.port = q.port /\ p.protocol = q.protocol) => p = q

ServiceType == [ports : SUBSET ServicePorts, headless : BOOLEAN, owned : BOOLEAN]

EndpointsType == [addresses : SUBSET Addresses, owned : BOOLEAN]

TakenPorts ==
  [name : Names, protocol : Protocols, port : Nat, target : Nat,
   hosts : SUBSET IPs, tcpSocket : BOOLEAN]

ClusterEndpointType == [period : Nat, ports : Seq(TakenPorts)]

\* Users write what the API server takes, and own nothing to a ClusterEndpoint.
ASSUME ServicesAssumption ==
  \A svc \in Services :
    svc \in ServiceType /\ ~svc.owned /\ (svc.headless \/ ValidPorts(svc.ports))
ASSUME AddressesAssumption ==
  \A set \in AddressSets : set \subseteq Addresses /\ IsFiniteSet(set)
ASSUME OptionsAssumption ==
  CommandLines \subseteq [version : BOOLEAN, complete : BOOLEAN, period : Int,
                          probe : BOOLEAN, output : {"create", "yaml", "json", "other"}]
ASSUME BudgetAssumption == Budget \in Nat
ASSUME AbsentAssumption ==
  Absent \notin ServiceType \cup EndpointsType \cup ClusterEndpointType

\* Something the environment does only so often.
Spend == left > 0 /\ left' = left - 1

------------------------------------------------------------------------------
\* What cepctl computes.

MutAnyPeriod(o) == o.version \/ (o.complete /\ o.output # "other")

\* No errors in Validate.  "complete" stands for an existing kubeconfig and
\* non-empty names, output "create" for the empty string.
Validate(o) == o.version \/ (o.period >= 0 /\ o.complete /\ o.output # "other")

EndpointPorts(addresses) ==
  {[name |-> a.name, target |-> a.target, protocol |-> a.protocol] : a \in addresses}

Hosts(addresses) == {a.host : a \in addresses}

HostsOf(addresses, p) ==
  {a.host : a \in {b \in addresses :
      b.name = p.name /\ b.target = p.target /\ b.protocol = p.protocol}}

Subsets(addresses) == {HostsOf(addresses, p) : p \in EndpointPorts(addresses)}

\* The lists the API server may answer with: the order is that of a hash.
Listings(S) ==
  {f \in [1..Cardinality(S) -> S] : \A p \in S : \E i \in DOMAIN f : f[i] = p}

findPortInSvc(svc, name) ==
  IF \E sp \in svc.ports : sp.name = name
  THEN (CHOOSE sp \in svc.ports : sp.name = name).port
  ELSE 0

\* One port of the ClusterEndpoint for each port of the subset.
TakenPort(p, svc, hosts, probe) ==
  [name |-> p.name, protocol |-> p.protocol, port |-> findPortInSvc(svc, p.name),
   target |-> p.target, hosts |-> hosts, tcpSocket |-> probe]

\* The ClusterEndpoints "run" may end up with.
Taken(o, svc, addresses) ==
  {[period |-> o.period,
    ports |-> [i \in DOMAIN list |->
                 TakenPort(list[i], svc, Hosts(addresses), o.probe)]] :
     list \in Listings(EndpointPorts(addresses))}

------------------------------------------------------------------------------
\* What the operator computes from a ClusterEndpoint.

First(ports, i) == \A j \in 1..(i - 1) : ports[j].name # ports[i].name

\* The first port of every name; its target port is that name.
convertServicePorts(ports) ==
  {[name |-> ports[i].name, port |-> ports[i].port, protocol |-> ports[i].protocol] :
     i \in {j \in DOMAIN ports : First(ports, j)}}

\* A target without a handler is healthy; the tool's handler opens TCP.
Healthy(p, host) == p.tcpSocket => [host |-> host, target |-> p.target, protocol |-> "TCP"] \in listening

MutPortToEndpoint(p, host) ==
  [name |-> p.name, target |-> p.port, protocol |-> p.protocol, host |-> host]

ToEndpointSubset(p, host) ==
  [name |-> p.name, target |-> p.target, protocol |-> p.protocol, host |-> host]

\* clusterEndpointConvertEndpointSubset.
HealthyAddresses(ports) ==
  UNION {{ToEndpointSubset(ports[i], h) : h \in {g \in ports[i].hosts : Healthy(ports[i], g)}} :
           i \in DOMAIN ports}

\* ... whose names are also their target ports.
Accepted(ports) == ValidPorts(ports) /\ \A p \in ports : p.name \notin TooLong

------------------------------------------------------------------------------
Init ==
  /\ options \in CommandLines
  /\ tool = "service"
  /\ gotService = Absent
  /\ gotAddresses = {}
  /\ errorDropped = FALSE
  /\ service \in Services \cup {Absent}
  /\ endpoints \in {[addresses |-> a, owned |-> FALSE] : a \in AddressSets} \cup {Absent}
  /\ cep = Absent
  /\ operator = "idle"
  /\ queued = FALSE
  /\ listening \in Backends
  /\ disturbed = FALSE
  /\ left = Budget

\* The tool ends: with an error, with a version or a listing printed.
End ==
  /\ tool' = "ended"
  /\ UNCHANGED <<options, read, objects, run, listening, disturbed>>

\* Everything before the Endpoints are read.  A Service without an address
\* is not supported.
GetService ==
  /\ tool = "service"
  /\ IF Validate(options) /\ ~options.version /\ service # Absent /\ ~service.headless
     THEN /\ tool' = "endpoints"
          /\ gotService' = service
          /\ UNCHANGED <<options, gotAddresses, errorDropped, objects, run, listening, disturbed>>
     ELSE End
  /\ UNCHANGED left

\* More than one subset is not supported; no Endpoints are no ports.
GetEndpoints ==
  /\ tool = "endpoints"
  /\ gotAddresses' = IF endpoints = Absent THEN {} ELSE endpoints.addresses
  /\ tool' = IF Cardinality(Subsets(gotAddresses')) > 1 THEN "ended" ELSE "create"
  /\ UNCHANGED <<options, gotService, errorDropped, objects, run, listening, disturbed, left>>

\* The error is dropped and the tool goes on with an empty object.
GetEndpointsFails ==
  /\ tool = "endpoints"
  /\ Spend
  /\ errorDropped' = TRUE
  /\ tool' = "create"
  /\ UNCHANGED <<options, gotService, gotAddresses, objects, run, listening, disturbed>>

Show == tool = "create" /\ options.output # "create" /\ End /\ UNCHANGED left

\* A failed call may have created the object all the same.
CreateCR ==
  /\ tool = "create"
  /\ options.output = "create"
  /\ cep' \in Taken(options, gotService, gotAddresses)
  /\ queued' = TRUE
  /\ tool' = "ended"
  /\ UNCHANGED <<options, read, service, endpoints, operator, listening, disturbed, left>>

CallFails ==
  /\ tool = "service" \/ tool = "create"
  /\ Spend
  /\ End

Tool == GetService \/ GetEndpoints \/ Show \/ CreateCR

------------------------------------------------------------------------------
\* The operator, as far as the two objects go.

StartRound ==
  /\ operator = "idle"
  /\ queued
  /\ operator' = "service"
  /\ queued' = FALSE
  /\ UNCHANGED <<options, tool, read, objects, listening, disturbed, left>>

\* The Service that syncService wants to store over the one it finds.
DesiredService ==
  [ports |-> convertServicePorts(cep.ports), owned |-> TRUE,
   headless |-> service # Absent /\ service.headless]

\* The change of an owned Service is an event for its key.
syncService ==
  /\ operator = "service"
  /\ operator' = "endpoints"
  /\ service' = IF Accepted(DesiredService.ports) THEN DesiredService ELSE service
  /\ queued' = (queued \/ service' # service)
  /\ UNCHANGED <<options, tool, read, endpoints, cep, listening, disturbed, left>>

MutStaysInPlace(ports) ==
  (IF endpoints = Absent THEN {} ELSE endpoints.addresses) \cup HealthyAddresses(ports)

\* The subsets replace what is there.
NewAddresses(ports) == HealthyAddresses(ports)

\* RequeueAfter, unless the period is zero.
Requeues == cep.period # 0

syncEndpoint ==
  /\ operator = "endpoints"
  /\ operator' = "idle"
  /\ endpoints' = [addresses |-> NewAddresses(cep.ports), owned |-> TRUE]
  /\ queued' = (queued \/ Requeues)
  /\ UNCHANGED <<options, tool, read, service, cep, listening, disturbed, left>>

\* Either call may fail without an effect; the round goes on and requeues.
SyncFails ==
  /\ operator \in {"service", "endpoints"}
  /\ Spend
  /\ operator' = IF operator = "service" THEN "endpoints" ELSE "idle"
  /\ queued' = (queued \/ (operator = "endpoints" /\ Requeues))
  /\ UNCHANGED <<options, tool, read, objects, listening, disturbed>>

\* The process ends anywhere; the next one lists everything.
Restart ==
  /\ cep # Absent
  /\ Spend
  /\ operator' = "idle"
  /\ queued' = TRUE
  /\ UNCHANGED <<options, tool, read, objects, listening, disturbed>>

Operator == StartRound \/ syncService \/ syncEndpoint

------------------------------------------------------------------------------
\* Others, who know nothing of the tool.

Disturbs(isRead) == disturbed' = (disturbed \/ isRead)

\* A Service that has an address keeps it, one that has none stays so; an
\* edit keeps the owner.
WriteService ==
  /\ Spend
  /\ service # Absent
  /\ service' \in {[s EXCEPT !.owned = service.owned] :
                      s \in {t \in Services : t.headless = service.headless}} \cup {Absent}
  /\ Disturbs(tool # "service")
  /\ queued' = (queued \/ service.owned)
  /\ UNCHANGED <<options, tool, read, endpoints, cep, operator, listening>>

\* The operator does not watch the Endpoints.
WriteEndpoints ==
  /\ Spend
  /\ endpoints # Absent
  /\ endpoints' \in {[endpoints EXCEPT !.addresses = a] : a \in AddressSets} \cup {Absent}
  /\ Disturbs(tool \notin {"service", "endpoints"})
  /\ UNCHANGED <<options, tool, read, service, cep, run, listening>>

Next ==
  \/ Tool \/ GetEndpointsFails \/ CallFails
  \/ Operator \/ SyncFails \/ Restart
  \/ WriteService \/ WriteEndpoints

Spec == Init /\ [][Next]_vars

\* The operator keeps working; nobody makes anyone run cepctl.
FairSpec == Spec /\ WF_vars(Operator)

------------------------------------------------------------------------------

\* Types: a Service with an address has ports that may stand there, and a
\* ClusterEndpoint a period that is none or positive.
TypeOK ==
  /\ options \in CommandLines
  /\ tool \in {"service", "endpoints", "create", "ended"}
  /\ operator \in {"idle", "service", "endpoints"}
  /\ {service, gotService} \subseteq ServiceType \cup {Absent}
  /\ \A svc \in {service, gotService} \ {Absent} : svc.headless \/ ValidPorts(svc.ports)
  /\ endpoints \in EndpointsType \cup {Absent}
  /\ gotAddresses \subseteq Addresses
  /\ cep \in ClusterEndpointType \cup {Absent}
  /\ {errorDropped, queued, disturbed} \subseteq BOOLEAN
  /\ left \in 0..Budget

\* What clients of the Service reach: kube-proxy joins a port of the Service
\* to the addresses of the same name and protocol.
Reach(ports, addresses) ==
  {[port |-> p[1].port, protocol |-> p[1].protocol, host |-> p[2].host, target |-> p[2].target] :
     p \in {q \in ports \X addresses : q[1].name = q[2].name /\ q[1].protocol = q[2].protocol}}

Reachable ==
  IF service = Absent \/ endpoints = Absent THEN {} ELSE Reach(service.ports, endpoints.addresses)

ReachableBefore == Reach(gotService.ports, gotAddresses)

\* With --probe a target stays only if it opens TCP connections, whatever
\* the protocol it serves.
Expected ==
  {r \in ReachableBefore : options.probe =>
      [host |-> r.host, target |-> r.target, protocol |-> "TCP"] \in listening}

\* No Service port and address of one name differ in their protocol.  (If they
\* do, the Service gets the protocol of the address that is listed first.)
ProtocolsAgree ==
  \A sp \in gotService.ports, a \in gotAddresses : sp.name = a.name => sp.protocol = a.protocol

(***************************************************************************)
(* README.md:42 says that a Service and Endpoints that exist can be        *)
(* switched to the operator seamlessly ("可无缝切换").  At every step from  *)
(* the tool's last call on, between the operator's two writes too, clients *)
(* reach every target they reached before, under the same port and         *)
(* protocol, and nothing else: unless others wrote to what the tool had    *)
(* read, a failed read of the Endpoints was dropped (they are emptied      *)
(* then), protocols disagree, or --probe finds no TCP listener.            *)
(***************************************************************************)
Seamless ==
  cep # Absent /\ ~disturbed /\ ~errorDropped /\ ProtocolsAgree =>
    Expected \subseteq Reachable /\ Reachable \subseteq ReachableBefore

\* Every address has a port of its name in the Service, so that none is taken
\* with port 0, and one that may name a target port.
Nameable ==
  /\ gotAddresses # {}
  /\ \A a \in gotAddresses : a.name \notin TooLong /\ \E sp \in gotService.ports : sp.name = a.name

(***************************************************************************)
(* Once others, faults and restarts stop, a ClusterEndpoint with a period  *)
(* owns both objects for good, and clients reach through them what the     *)
(* tool found; also when others edited or removed either object in         *)
(* between.  Unless its ports are refused by the API server for ever.      *)
(***************************************************************************)
AdoptionCompletes ==
  <>[](cep # Absent /\ cep.period # 0 /\ Nameable /\ ProtocolsAgree =>
         /\ service # Absent /\ service.owned
         /\ endpoints # Absent /\ endpoints.owned
         /\ Reachable = Expected)

=============================================================================
