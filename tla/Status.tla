-------------------------------- MODULE Status --------------------------------
(***************************************************************************)
(* The conditions and the phase of a ClusterEndpoint and how a round of    *)
(* reconcile rewrites them: isConditionTrue, isConditionsTrue,             *)
(* updateCondition and syncFinalStatus of controllers/helper.go, and the   *)
(* conditions that reconcile, syncService and syncEndpoint build.          *)
(*                                                                         *)
(* The list of conditions is a function from the types it holds (the code  *)
(* never adds a type twice).  Reason and message are one value, "why", and *)
(* the two times, which are always written together, are one, "time".      *)
(***************************************************************************)
EXTENDS Naturals

Types == {"Initialized", "SyncServiceReady", "SyncEndpointReady", "Ready"}

\* The "why" of a condition that holds, and the outcome of a step that worked.
Fine == "fine"

Condition(status, why, now) == [status |-> status, why |-> why, time |-> now]

isConditionTrue(conds, type) ==
  type \in DOMAIN conds /\ conds[type].status = "True"

MutReadyCounts(conds) ==
  DOMAIN conds # {} /\ \A type \in DOMAIN conds : conds[type].status = "True"

isConditionsTrue(conds) ==
  /\ DOMAIN conds # {}
  /\ \A type \in DOMAIN conds \ {"Ready"} : conds[type].status = "True"

MutNeverAdds(conds, type, c) ==
  [u \in DOMAIN conds |-> IF u = type THEN c ELSE conds[u]]

\* Replaces the condition of this type if it says something else, or adds it.
updateCondition(conds, type, c) ==
  LET same(d) == d.status = c.status /\ d.why = c.why
  IN [u \in DOMAIN conds \cup {type} |->
        IF u # type \/ (type \in DOMAIN conds /\ same(conds[type]))
        THEN conds[u] ELSE c]

\* What a step of the round that ended with this outcome does to its condition:
\* a failure is always reported, a success only if the condition is not true.
Report(conds, type, outcome, now) ==
  CASE outcome # Fine -> updateCondition(conds, type, Condition("False", outcome, now))
    [] outcome = Fine /\ ~isConditionTrue(conds, type) ->
         updateCondition(conds, type, Condition("True", Fine, now))
    [] OTHER -> conds

\* syncFinalStatus: the phase, and the Ready condition through updateCondition.
syncFinalStatus(conds, now) ==
  LET ready == isConditionsTrue(conds)
  IN [phase |-> IF ready THEN "Healthy" ELSE "UnHealthy",
      conds |-> updateCondition(conds, "Ready",
                  IF ready THEN Condition("True", Fine, now)
                           ELSE Condition("False", "NotReady", now))]

\* The status that a round leaves behind, from the conditions it started with
\* and what syncService and syncEndpoint came to.
RoundStatus(conds, service, endpoint, now) ==
  LET begun  == Report(conds, "Initialized", Fine, now)
      synced == Report(begun, "SyncServiceReady", service, now)
      probed == Report(synced, "SyncEndpointReady", endpoint, now)
  IN syncFinalStatus(probed, now)

=============================================================================
