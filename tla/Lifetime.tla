------------------------------- MODULE Lifetime -------------------------------
(***************************************************************************)
(* What the finalizer promises to the rounds of the operator: the          *)
(* ClusterEndpoint that a round serves is the one that lives, and neither  *)
(* vanishes nor gives way to another of its name before the round is over. *)
(* Only one that is deleted and that no round serves is let go.            *)
(***************************************************************************)
EXTENDS Naturals

VARIABLES
  phase,    \* "absent"; "plain", without the finalizer; "held"; or "ending"
  uid,      \* the last uid given, which is that of the one that lives
  served    \* the uid of the ClusterEndpoint that a round serves, 0 for none

vars == <<phase, uid, served>>

Init ==
  /\ phase \in {"absent", "plain"}
  /\ uid = 1
  /\ served = 0

Create ==
  /\ phase = "absent"
  /\ phase' = "plain" /\ uid' = uid + 1
  /\ UNCHANGED served

\* A user's deletion waits for the finalizer, if there is one.
Delete ==
  /\ \/ phase = "plain" /\ phase' = "absent"
     \/ phase = "held" /\ phase' = "ending"
  /\ UNCHANGED <<uid, served>>

\* The finalizer is added by the round, which goes on or stops there.
Hold ==
  /\ phase = "plain" /\ served = 0
  /\ phase' = "held" /\ served' \in {0, uid}
  /\ UNCHANGED uid

Serve ==
  /\ phase \in {"held", "ending"} /\ served = 0
  /\ served' = uid
  /\ UNCHANGED <<phase, uid>>

Stop == served' = 0 /\ UNCHANGED <<phase, uid>>

Release ==
  /\ phase = "ending" /\ served = 0
  /\ phase' = "absent"
  /\ UNCHANGED <<uid, served>>

Next == Create \/ Delete \/ Hold \/ Serve \/ Stop \/ Release

Spec == Init /\ [][Next]_vars

=============================================================================
