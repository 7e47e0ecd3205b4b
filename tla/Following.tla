------------------------------ MODULE Following ------------------------------
(***************************************************************************)
(* What all replicas together promise to those who read the Endpoints:     *)
(* they show a state that the backend really was in, and with leader       *)
(* election never one older than they showed before.  A state is the       *)
(* number of the backend's changes, as in Replicas.                        *)
(***************************************************************************)
EXTENDS Naturals

CONSTANTS
  Keys,         \* the ClusterEndpoints
  LeaderElect   \* the flag --leader-elect

VARIABLES
  backend,    \* the state each backend is in
  stored      \* the state its Endpoints show

vars == <<backend, stored>>

Init ==
  /\ backend = [k \in Keys |-> 0]
  /\ stored = [k \in Keys |-> 0]

BackendChanges(k) ==
  /\ backend' = [backend EXCEPT ![k] = @ + 1]
  /\ UNCHANGED stored

\* The Endpoints are written, with the finding of a round however old.
Show(k) ==
  /\ \E n \in 0..backend[k] :
       /\ LeaderElect => n >= stored[k]
       /\ stored' = [stored EXCEPT ![k] = n]
  /\ UNCHANGED backend

Next == \E k \in Keys : BackendChanges(k) \/ Show(k)

Spec == Init /\ [][Next]_vars

=============================================================================
