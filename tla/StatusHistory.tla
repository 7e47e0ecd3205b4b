---------------------------- MODULE StatusHistory ----------------------------
(***************************************************************************)
(* The status subresource of one ClusterEndpoint over many rounds: each    *)
(* round starts from the status that the informer cache holds, and         *)
(* updateStatus overwrites the stored one.  When a round starts, the cache *)
(* may not have seen the last update yet, but never lags further: that     *)
(* update went through because its resourceVersion, from the cache, was    *)
(* the one before it.                                                      *)
(***************************************************************************)
EXTENDS Status

CONSTANTS
  Failures,   \* the error texts syncService and syncEndpoint may report
  MaxTime     \* bound on the clock

ASSUME FailuresAssumption == Fine \notin Failures
ASSUME MaxTimeAssumption == MaxTime \in Nat

VARIABLES
  now,        \* the clock, in seconds
  stored,     \* the status at the API server
  before,     \* the status it replaced
  outcome     \* history: what the last stored round came to

vars == <<now, stored, before, outcome>>

NoStatus == [phase |-> "none", conds |-> [type \in {} |-> Fine]]

Init ==
  /\ now = 0
  /\ stored = NoStatus
  /\ before = NoStatus
  /\ outcome = [service |-> "none", endpoint |-> "none"]

Tick ==
  /\ now < MaxTime
  /\ now' = now + 1
  /\ UNCHANGED <<stored, before, outcome>>

\* One round of reconcile: Get from the cache, sync, updateStatus.
Round(base, service, endpoint) ==
  /\ stored' = RoundStatus(base.conds, service, endpoint, now)
  /\ before' = stored
  /\ outcome' = [service |-> service, endpoint |-> endpoint]
  /\ UNCHANGED now

Next ==
  \/ Tick
  \/ \E base \in {stored, before}, service, endpoint \in Failures \cup {Fine} :
       Round(base, service, endpoint)

Spec == Init /\ [][Next]_vars

------------------------------------------------------------------------------

ConditionType == [status : {"True", "False"}, why : Failures \cup {Fine, "NotReady"},
                  time : 0..MaxTime]

StatusType ==
  [phase : {"Healthy", "UnHealthy"}, conds : [Types -> ConditionType]] \cup {NoStatus}

\* Types of all variables: a status is the empty one or has all four conditions.
TypeOK ==
  /\ now \in 0..MaxTime
  /\ stored \in StatusType
  /\ before \in StatusType
  /\ outcome \in [service : Failures \cup {Fine, "none"},
                  endpoint : Failures \cup {Fine, "none"}]

\* Condition c says what the step with outcome o came to.
Says(c, o) == c.status = (IF o = Fine THEN "True" ELSE "False") /\ c.why = o

(***************************************************************************)
(* The stored status speaks of the last round alone: whatever conditions   *)
(* the round started from, however old, both sync conditions carry that    *)
(* round's outcome with its own message, and the phase is Healthy, and     *)
(* Ready true, exactly when both steps worked.                             *)
(***************************************************************************)
StatusFollowsRound ==
  stored # NoStatus =>
    /\ Says(stored.conds["SyncServiceReady"], outcome.service)
    /\ Says(stored.conds["SyncEndpointReady"], outcome.endpoint)
    /\ stored.phase = "Healthy" <=> (outcome.service = Fine /\ outcome.endpoint = Fine)
    /\ stored.phase = "Healthy" <=> isConditionTrue(stored.conds, "Ready")

=============================================================================
