----------------------------- MODULE MCProbeRound -----------------------------
(***************************************************************************)
(* Instances of ProbeRound: three targets, with one, two and no handlers,  *)
(* and with one handler each for the check counter.                        *)
(***************************************************************************)
EXTENDS ProbeRound, TLC

CONSTANTS t1, t2, t3

MCTargets == {t1, t2, t3}

\* A goroutine that appends twice, one that appends once, one that never does.
MCPoints == t1 :> 2 @@ t2 :> 1 @@ t3 :> 0

\* The README's usual spec: one handler per port.
MCOnePoint == [t \in MCTargets |-> 1]

=============================================================================
