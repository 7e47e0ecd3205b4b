------------------------------ MODULE MCTakeover ------------------------------
(***************************************************************************)
(* Instances of Takeover: a Service with a web port, a name server's two   *)
(* ports of one number, and one whose name is too long for a target port.  *)
(***************************************************************************)
EXTENDS Takeover

CONSTANTS h1, h2, web, dns, dnsTcp, metrics

Port(name, port, protocol) == [name |-> name, port |-> port, protocol |-> protocol]

Reached(names, target, protocol, hosts) ==
  [name : names, target : {target}, protocol : {protocol}, host : hosts]

MCNames == {web, dns, dnsTcp, metrics}

MCIPs == {h1, h2}

MCServices ==
  [ports : {{Port(web, 80, "TCP"), Port(dns, 53, "UDP"), Port(dnsTcp, 53, "TCP")},
            {Port(web, 81, "TCP"), Port(metrics, 90, "TCP")}},
   headless : BOOLEAN, owned : {FALSE}]

MCAddressSets ==
  LET both == {h1, h2} IN
  {{},
   \* two targets under one name
   Reached({web}, 8080, "TCP", both) \cup Reached({web}, 8081, "TCP", both),
   Reached({web}, 8080, "TCP", both) \cup Reached({dns}, 5353, "UDP", both),
   \* one name with both protocols
   Reached({dns}, 5353, "UDP", {h1}) \cup Reached({dns}, 5353, "TCP", {h1}),
   \* two subsets
   Reached({web}, 8080, "TCP", {h1}) \cup Reached({dnsTcp}, 5353, "TCP", {h2}),
   \* names that are too long, or in one of the Services only
   Reached({web}, 8080, "TCP", both) \cup Reached({metrics}, 9090, "TCP", both)}

MCCommandLines ==
  [version : {FALSE}, complete : {TRUE}, period : {-1, 0, 10}, probe : BOOLEAN,
   output : {"create"}]
  \cup [version : BOOLEAN, complete : BOOLEAN, period : {10}, probe : {FALSE},
        output : {"yaml", "other"}]

MCBackends ==
  LET all == [host : {h1, h2}, target : {8080, 8081, 9090}, protocol : {"TCP"}]
             \cup [host : {h1, h2}, target : {5353}, protocol : {"UDP"}]
  IN  {all, {b \in all : b.host = h1}, {b \in all : b.target # 8080}}

MCTooLong == {metrics}

=============================================================================
