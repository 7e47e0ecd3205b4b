------------------------------ MODULE MCReplicas ------------------------------
(***************************************************************************)
(* An instance of Replicas: the chart's two replicas with leader election, *)
(* two workers each, and three keys of which one is stuck, so that the     *)
(* other two share a worker.                                               *)
(***************************************************************************)
EXTENDS Replicas

CONSTANTS p1, p2, k1, k2, k3

MCProcesses == {p1, p2}

MCKeys == {k1, k2, k3}

MCStuck == {k3}

=============================================================================
