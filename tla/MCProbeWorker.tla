---------------------------- MODULE MCProbeWorker ----------------------------
(***************************************************************************)
(* Instances of ProbeWorker: ports with every handler combination, default *)
(* and explicit thresholds, valid and invalid target ports.                *)
(***************************************************************************)
EXTENDS ProbeWorker

\* A port of the given handlers, target port and thresholds; a gRPC handler
\* names its service exactly when named is TRUE.
MCPort(hs, number, named, succ, fail) ==
  [handlers |-> hs, targetPort |-> number, service |-> named,
   successThreshold |-> succ, failureThreshold |-> fail]

\* Every handler alone, none, and two sets where the order of runProbe decides.
MCHandlers == {{}, {"http"}, {"tcp"}, {"udp"}, {"grpc"}, {"http", "grpc"}, {"tcp", "udp"}}

\* Both gRPC forms, target ports at and beyond the limits, and thresholds
\* that are negative, defaulted, reached at once and reached later.
MCPorts ==
  { MCPort(hs, number, named, succ, fail) :
      hs \in MCHandlers, number \in {0, 65535, 65536}, named \in BOOLEAN,
      succ \in {-1, 0, 2}, fail \in {-1, 0, 2} }

\* The port "wp-grpc" of the README's example: gRPC enabled, no service.
MCReadmeGrpcPorts ==
  { MCPort({"grpc"}, 8080, FALSE, 1, 3) }

MCAnswers == Outcomes

=============================================================================
