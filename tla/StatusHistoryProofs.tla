------------------------- MODULE StatusHistoryProofs -------------------------
(***************************************************************************)
(* Proofs, for every set of error texts and every clock, that a stored     *)
(* status speaks of the last round and of nothing before it.               *)
(***************************************************************************)
EXTENDS StatusHistory, TLAPS

\* A list of conditions where a true one has no complaint.
Sound(conds) ==
  /\ conds \in [DOMAIN conds -> ConditionType]
  /\ \A type \in DOMAIN conds : conds[type].status = "True" => conds[type].why = Fine

\* The conditions a round may start from: none, or all with the first one true.
Usable(conds) ==
  /\ Sound(conds)
  /\ \/ DOMAIN conds = {}
     \/ DOMAIN conds = Types /\ conds["Initialized"].status = "True"

Inv ==
  /\ TypeOK
  /\ Usable(stored.conds)
  /\ Usable(before.conds)
  /\ StatusFollowsRound

\* Condition d says what condition c says, at whatever time.
SameContent(d, c) == d.status = c.status /\ d.why = c.why

\* updateCondition leaves the content of the given condition in place, adds no
\* other type and keeps the other conditions.
LEMMA UpdateConditionFacts ==
  ASSUME NEW conds, Sound(conds), NEW type,
         NEW c \in ConditionType, c.status = "True" => c.why = Fine
  PROVE  /\ Sound(updateCondition(conds, type, c))
         /\ DOMAIN updateCondition(conds, type, c) = DOMAIN conds \cup {type}
         /\ SameContent(updateCondition(conds, type, c)[type], c)
         /\ \A u \in DOMAIN conds \ {type} : updateCondition(conds, type, c)[u] = conds[u]
<1> DEFINE after == updateCondition(conds, type, c)
<1>1. after \in [DOMAIN conds \cup {type} -> ConditionType]
  BY DEF updateCondition, Sound
<1>2. \A u \in DOMAIN conds \ {type} : after[u] = conds[u]
  BY DEF updateCondition
<1>3. after[type].status = c.status /\ after[type].why = c.why
  BY DEF updateCondition
<1>4. DOMAIN after = DOMAIN conds \cup {type}
  BY DEF updateCondition
<1> HIDE DEF after
<1>5. Sound(after)
  BY <1>1, <1>2, <1>3, <1>4 DEF Sound
<1>6. QED
  BY <1>2, <1>3, <1>4, <1>5 DEF after, SameContent

\* Report makes a condition say what its step came to.
LEMMA ReportFacts ==
  ASSUME NEW conds, Sound(conds), NEW type,
         NEW o \in Failures \cup {Fine}, now \in 0..MaxTime
  PROVE  /\ Sound(Report(conds, type, o, now))
         /\ DOMAIN Report(conds, type, o, now) = DOMAIN conds \cup {type}
         /\ Says(Report(conds, type, o, now)[type], o)
         /\ \A u \in DOMAIN conds \ {type} : Report(conds, type, o, now)[u] = conds[u]
<1>1. CASE o # Fine
  <2> DEFINE c == Condition("False", o, now)
  <2>1. c \in ConditionType /\ c.status = "False" /\ c.why = o
    BY DEF Condition, ConditionType
  <2>2. Report(conds, type, o, now) = updateCondition(conds, type, c)
    BY <1>1 DEF Report
  <2> HIDE DEF c
  <2>3. /\ Sound(updateCondition(conds, type, c))
        /\ DOMAIN updateCondition(conds, type, c) = DOMAIN conds \cup {type}
        /\ SameContent(updateCondition(conds, type, c)[type], c)
        /\ \A u \in DOMAIN conds \ {type} : updateCondition(conds, type, c)[u] = conds[u]
    BY <2>1, UpdateConditionFacts
  <2>4. Says(updateCondition(conds, type, c)[type], o)
    BY <1>1, <2>1, <2>3 DEF Says, SameContent
  <2>5. QED
    BY <2>2, <2>3, <2>4
<1>2. CASE o = Fine /\ ~isConditionTrue(conds, type)
  <2> DEFINE c == Condition("True", Fine, now)
  <2>1. c \in ConditionType /\ c.status = "True" /\ c.why = Fine
    BY DEF Condition, ConditionType
  <2>2. Report(conds, type, o, now) = updateCondition(conds, type, c)
    BY <1>2 DEF Report
  <2> HIDE DEF c
  <2>3. /\ Sound(updateCondition(conds, type, c))
        /\ DOMAIN updateCondition(conds, type, c) = DOMAIN conds \cup {type}
        /\ SameContent(updateCondition(conds, type, c)[type], c)
        /\ \A u \in DOMAIN conds \ {type} : updateCondition(conds, type, c)[u] = conds[u]
    BY <2>1, UpdateConditionFacts
  <2>4. Says(updateCondition(conds, type, c)[type], o)
    BY <1>2, <2>1, <2>3 DEF Says, SameContent
  <2>5. QED
    BY <2>2, <2>3, <2>4
<1>3. CASE o = Fine /\ isConditionTrue(conds, type)
  <2>1. Report(conds, type, o, now) = conds
    BY <1>3 DEF Report
  <2>2. type \in DOMAIN conds /\ conds[type].status = "True"
    BY <1>3 DEF isConditionTrue
  <2>3. QED
    BY <1>3, <2>1, <2>2 DEF Sound, Says
<1>4. QED
  BY <1>1, <1>2, <1>3

\* Status s, whose type it also asserts, speaks of a round with these outcomes.
SpeaksOf(s, service, endpoint) ==
  /\ s \in [phase : {"Healthy", "UnHealthy"}, conds : [Types -> ConditionType]]
  /\ Usable(s.conds)
  /\ Says(s.conds["SyncServiceReady"], service)
  /\ Says(s.conds["SyncEndpointReady"], endpoint)
  /\ s.phase = "Healthy" <=> (service = Fine /\ endpoint = Fine)
  /\ s.phase = "Healthy" <=> isConditionTrue(s.conds, "Ready")

\* One round turns any usable conditions into a status that speaks of it.
LEMMA RoundFacts ==
  ASSUME NEW conds, Usable(conds), now \in 0..MaxTime,
         NEW service \in Failures \cup {Fine}, NEW endpoint \in Failures \cup {Fine}
  PROVE  SpeaksOf(RoundStatus(conds, service, endpoint, now), service, endpoint)
<1> DEFINE begun  == Report(conds, "Initialized", Fine, now)
           synced == Report(begun, "SyncServiceReady", service, now)
           probed == Report(synced, "SyncEndpointReady", endpoint, now)
           ready  == isConditionsTrue(probed)
           c      == IF ready THEN Condition("True", Fine, now)
                              ELSE Condition("False", "NotReady", now)
           final  == updateCondition(probed, "Ready", c)
           s      == RoundStatus(conds, service, endpoint, now)
<1>1. Sound(conds) /\ DOMAIN conds \in {{}, Types}
  BY DEF Usable
<1>2. /\ Sound(begun)
      /\ DOMAIN begun = DOMAIN conds \cup {"Initialized"}
      /\ Says(begun["Initialized"], Fine)
  BY <1>1, ReportFacts
<1> HIDE DEF begun
<1>3. /\ Sound(synced)
      /\ DOMAIN synced = DOMAIN begun \cup {"SyncServiceReady"}
      /\ Says(synced["SyncServiceReady"], service)
      /\ \A u \in DOMAIN begun \ {"SyncServiceReady"} : synced[u] = begun[u]
  BY <1>2, ReportFacts
<1> HIDE DEF synced
<1>4. /\ Sound(probed)
      /\ DOMAIN probed = DOMAIN synced \cup {"SyncEndpointReady"}
      /\ Says(probed["SyncEndpointReady"], endpoint)
      /\ \A u \in DOMAIN synced \ {"SyncEndpointReady"} : probed[u] = synced[u]
  BY <1>3, ReportFacts
<1> HIDE DEF probed
<1>5. /\ DOMAIN probed \ {"Ready"}
           = {"Initialized", "SyncServiceReady", "SyncEndpointReady"}
      /\ DOMAIN probed \cup {"Ready"} = Types
  BY <1>1, <1>2, <1>3, <1>4 DEF Types
<1>6. /\ Says(probed["Initialized"], Fine)
      /\ Says(probed["SyncServiceReady"], service)
      /\ Says(probed["SyncEndpointReady"], endpoint)
  BY <1>2, <1>3, <1>4
<1>7. ready <=> (service = Fine /\ endpoint = Fine)
  BY <1>5, <1>6 DEF isConditionsTrue, Says
<1>8. c \in ConditionType /\ (c.status = "True" => c.why = Fine)
  BY DEF Condition, ConditionType
<1>ready. c.status = (IF ready THEN "True" ELSE "False")
  BY DEF Condition
<1>9. s = [phase |-> IF ready THEN "Healthy" ELSE "UnHealthy", conds |-> final]
  BY DEF RoundStatus, syncFinalStatus, begun, synced, probed
<1> HIDE DEF c, ready, s
<1>10. /\ Sound(final)
       /\ DOMAIN final = Types
       /\ SameContent(final["Ready"], c)
       /\ \A u \in DOMAIN probed \ {"Ready"} : final[u] = probed[u]
  <2>1. DOMAIN final = DOMAIN probed \cup {"Ready"}
    BY <1>4, <1>8, UpdateConditionFacts
  <2>2. Sound(final)
    BY <1>4, <1>8, UpdateConditionFacts
  <2>3. SameContent(final["Ready"], c)
    BY <1>4, <1>8, UpdateConditionFacts
  <2>4. \A u \in DOMAIN probed \ {"Ready"} : final[u] = probed[u]
    BY <1>4, <1>8, UpdateConditionFacts
  <2>5. QED
    BY <1>5, <2>1, <2>2, <2>3, <2>4
<1> HIDE DEF final
<1>11. /\ Says(final["SyncServiceReady"], service)
       /\ Says(final["SyncEndpointReady"], endpoint)
       /\ final["Initialized"].status = "True"
  <2>1. final["Initialized"] = probed["Initialized"]
    BY <1>5, <1>10
  <2>2. final["SyncServiceReady"] = probed["SyncServiceReady"]
    BY <1>5, <1>10
  <2>3. final["SyncEndpointReady"] = probed["SyncEndpointReady"]
    BY <1>5, <1>10
  <2>4. QED
    BY <1>6, <2>1, <2>2, <2>3 DEF Says
<1>12. isConditionTrue(final, "Ready") <=> ready
  BY <1>ready, <1>10 DEF isConditionTrue, Types, SameContent
<1>13. s.conds = final /\ (s.phase = "Healthy" <=> ready)
  BY <1>9
<1>14. s \in [phase : {"Healthy", "UnHealthy"}, conds : [Types -> ConditionType]]
  BY <1>9, <1>10 DEF Sound
<1>15. SpeaksOf(s, service, endpoint)
  <2>1. Usable(s.conds)
    BY <1>10, <1>11, <1>13 DEF Usable
  <2>2. QED
    BY <1>7, <1>11, <1>12, <1>13, <1>14, <2>1 DEF SpeaksOf
<1>16. QED
  BY <1>15 DEF s

LEMMA InitInv == Init => Inv
<1> SUFFICES ASSUME Init PROVE Inv
  OBVIOUS
<1>1. NoStatus.conds = [type \in {} |-> Fine]
  BY DEF NoStatus
<1>2. Sound(NoStatus.conds) /\ DOMAIN NoStatus.conds = {}
  BY <1>1 DEF Sound
<1>3. QED
  BY <1>2, MaxTimeAssumption
     DEF Init, Inv, TypeOK, StatusType, Usable, StatusFollowsRound

LEMMA RoundInv ==
  ASSUME Inv, NEW base \in {stored, before},
         NEW service \in Failures \cup {Fine}, NEW endpoint \in Failures \cup {Fine},
         Round(base, service, endpoint)
  PROVE  Inv'
<1>1. Usable(base.conds) /\ now \in 0..MaxTime
  BY DEF Inv, TypeOK
<1>2. SpeaksOf(stored', service, endpoint)
  BY <1>1, RoundFacts DEF Round
<1>3. TypeOK'
  BY <1>2 DEF Round, Inv, TypeOK, StatusType, SpeaksOf
<1>4. StatusFollowsRound'
  <2>1. outcome'.service = service /\ outcome'.endpoint = endpoint
    BY DEF Round
  <2>2. QED
    BY <1>2, <2>1 DEF StatusFollowsRound, SpeaksOf
<1>5. Usable(stored.conds)' /\ Usable(before.conds)'
  BY <1>2 DEF Round, Inv, SpeaksOf
<1>6. QED
  BY <1>3, <1>4, <1>5 DEF Inv

LEMMA StepInv == Inv /\ [Next]_vars => Inv'
<1> SUFFICES ASSUME Inv, [Next]_vars PROVE Inv'
  OBVIOUS
<1>1. CASE Tick
  BY <1>1, MaxTimeAssumption DEF Tick, Inv, TypeOK, StatusFollowsRound
<1>2. CASE UNCHANGED vars
  BY <1>2 DEF vars, Inv, TypeOK, StatusFollowsRound
<1>3. QED
  BY <1>1, <1>2, RoundInv DEF Next

\* Statuses keep their type: all four conditions or none.
THEOREM TypeCorrect == Spec => []TypeOK
<1>1. Inv => TypeOK
  BY DEF Inv
<1>2. QED
  BY <1>1, InitInv, StepInv, PTL DEF Spec

(***************************************************************************)
(* Whatever the earlier rounds reported and however stale the status the   *)
(* round started from, the stored status is the last round's own.          *)
(***************************************************************************)
THEOREM StatusIsLastRounds == Spec => []StatusFollowsRound
<1>1. Inv => StatusFollowsRound
  BY DEF Inv
<1>2. QED
  BY <1>1, InitInv, StepInv, PTL DEF Spec

=============================================================================
