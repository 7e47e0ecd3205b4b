----------------------------- MODULE MCReconciler -----------------------------
(***************************************************************************)
(* Instances of Reconciler: one or two ports, specs with and without a     *)
(* period, objects of the same name that were there before, and budgets    *)
(* that bring the interesting environment actions together.                *)
(***************************************************************************)
EXTENDS Reconciler

CONSTANTS p1, p2

MCSpec(ip, ps, seconds) == [clusterIP |-> ip, ports |-> ps, period |-> seconds]

\* Sets of specs.
MCPlain           == { MCSpec("other", {p1}, 1) }
MCBothPorts       == { MCSpec("other", {p1, p2}, 1) }
MCPlainOrHeadless == MCPlain \cup { MCSpec("None", {p1}, 1) }
MCUnprobed        == { MCSpec("other", {p1}, 0) }
MCNoPositive      == MCUnprobed \cup { MCSpec("other", {p1}, -1) }
MCAnyPeriod       == MCPlain \cup MCUnprobed

MCService(owner) ==
  [owner |-> owner, meta |-> "plain", clusterIP |-> "assigned", ports |-> {}]

MCEndpointsOf(owner) == [owner |-> owner, subsets |-> {}]

\* What there was beforehand: nothing, or an object nobody controls, which
\* another controller may seize.
MCNothing          == {Absent}
MCUnownedService   == { MCService(Nobody) }
MCUnownedEndpoints == { MCEndpointsOf(Nobody) }
MCAnyService       == MCNothing \cup MCUnownedService

=============================================================================
