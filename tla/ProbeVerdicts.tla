---------------------------- MODULE ProbeVerdicts ----------------------------
(***************************************************************************)
(* What one round of probing promises to syncEndpoint: every target gets   *)
(* one verdict, and the answer, given once and only after the last         *)
(* verdict, lists each target exactly once, on the side of its verdict.    *)
(***************************************************************************)
EXTENDS Naturals

CONSTANT Targets    \* the (port, host) pairs of the spec

Verdicts == {"healthy", "failing"}

\* Each target with verdict v counted once, the others not at all.
Tally(verdicts, v) == [t \in Targets |-> IF verdicts[t] = v THEN 1 ELSE 0]

VARIABLES
  verdict,    \* the verdict of each target, "pending" before it is known
  answered,   \* whether the round has returned
  data,       \* the answer: how often each target is a healthy subset ...
  errors      \* ... and how often it is an error

vars == <<verdict, answered, data, errors>>

Nothing == [t \in Targets |-> 0]

Init ==
  /\ verdict = [t \in Targets |-> "pending"]
  /\ answered = FALSE
  /\ data = Nothing
  /\ errors = Nothing

Judge(t) ==
  /\ verdict[t] = "pending"
  /\ \E v \in Verdicts : verdict' = [verdict EXCEPT ![t] = v]
  /\ UNCHANGED <<answered, data, errors>>

Answer ==
  /\ ~answered
  /\ \A t \in Targets : verdict[t] # "pending"
  /\ answered' = TRUE
  /\ data' = Tally(verdict, "healthy")
  /\ errors' = Tally(verdict, "failing")
  /\ UNCHANGED verdict

Next == Answer \/ \E t \in Targets : Judge(t)

Spec == Init /\ [][Next]_vars

=============================================================================
