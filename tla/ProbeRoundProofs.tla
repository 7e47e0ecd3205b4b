--------------------------- MODULE ProbeRoundProofs ---------------------------
(***************************************************************************)
(* Proofs, for every finite set of targets and any number of handlers,     *)
(* that a round's answer is complete and that the round implements         *)
(* ProbeVerdicts.                                                          *)
(***************************************************************************)
EXTENDS ProbeRound, SumLemmas, FiniteSetTheorems, TLAPS

\* The goroutines that have been started and have not finished.
Working == {t \in Targets : pc[t] \notin {"unborn", "gone"}}

\* The goroutines whose result is in data or errors.
Filed(t) == pc[t] \in {"unlock", "finish", "gone"}

\* Types, without the bound on wg, which WgCounts gives.
Types ==
  /\ main \in {"spawn", "count", "returned"}
  /\ pc \in [Targets -> PCs]
  /\ wg \in Nat
  /\ mx \in Targets \cup {NoTarget}
  /\ verdict \in [Targets -> Verdicts \cup {"pending"}]
  /\ left \in [Targets -> Nat]
  /\ loaded \in [Targets -> Nat]
  /\ points \in Nat
  /\ seen \in [Targets -> [Targets -> Nat]]
  /\ data \in [Targets -> Nat]
  /\ errors \in [Targets -> Nat]
  /\ recorded \in Nat

WgCounts == wg = Cardinality(Working)

\* Between Lock and Unlock, and only there, a goroutine holds the mutex.
MutexHeld == \A t \in Targets : mx = t <=> pc[t] \in {"load", "file", "unlock"}

JudgedWhenProbed ==
  \A t \in Targets : verdict[t] = "pending" <=> pc[t] \in {"unborn", "announce", "store"}

\* Each filed result is in its slice once, and nothing else is.
ResultsFiled ==
  \A t \in Targets :
    /\ data[t] = IF Filed(t) /\ verdict[t] = "healthy" THEN 1 ELSE 0
    /\ errors[t] = IF Filed(t) /\ verdict[t] = "failing" THEN 1 ELSE 0

\* The slice loaded inside the mutex is still the current one when it is stored.
SeenIsCurrent ==
  \A t \in Targets :
    pc[t] = "file" => seen[t] = IF verdict[t] = "failing" THEN errors ELSE data

\* A goroutine in the middle of an append had one to make.
AppendPending == \A t \in Targets : pc[t] = "store" => left[t] > 0

AllGone == main # "spawn" => \A t \in Targets : pc[t] = "gone"

Inv ==
  /\ Types
  /\ WgCounts
  /\ MutexHeld
  /\ JudgedWhenProbed
  /\ ResultsFiled
  /\ SeenIsCurrent
  /\ AppendPending
  /\ AllGone

\* Any set of goroutines has a size, zero only for the empty one.
LEMMA SizeOfPart ==
  ASSUME NEW S \in SUBSET Targets
  PROVE  /\ IsFiniteSet(S)
         /\ Cardinality(S) \in 0..Cardinality(Targets)
         /\ Cardinality(Targets) \in Nat
         /\ Cardinality(S) = 0 <=> S = {}
<1>1. IsFiniteSet(S) /\ Cardinality(S) <= Cardinality(Targets)
  BY TargetsAssumption, FS_Subset
<1>2. Cardinality(S) \in Nat /\ Cardinality(Targets) \in Nat
  BY <1>1, TargetsAssumption, FS_CardinalityType
<1>3. Cardinality(S) = 0 <=> S = {}
  BY <1>1, FS_EmptySet
<1>4. QED
  BY <1>1, <1>2, <1>3

\* A goroutine that stays between its start and its end leaves wg exact.
LEMMA WorkingStays ==
  ASSUME Types, WgCounts, NEW t \in Targets, NEW from, NEW to, Goto(t, from, to),
         from \notin {"unborn", "gone"}, to \notin {"unborn", "gone"}, wg' = wg
  PROVE  WgCounts'
<1>1. Working' = Working
  BY DEF Working, Goto, Types
<1>2. QED
  BY <1>1 DEF WgCounts

LEMMA InitInv == Init => Inv
<1> SUFFICES ASSUME Init PROVE Inv
  OBVIOUS
<1>1. Types
  BY PointsAssumption DEF Init, Types, PCs, Nothing
<1>2. WgCounts
  <2>1. Working = {}
    BY DEF Init, Working
  <2>2. QED
    BY <2>1, FS_EmptySet DEF Init, WgCounts
<1>3. QED
  BY <1>1, <1>2, TargetsAssumption
     DEF Init, Inv, MutexHeld, JudgedWhenProbed, ResultsFiled, Filed, Nothing,
         SeenIsCurrent, AppendPending, AllGone

LEMMA SpawnInv ==
  ASSUME Inv, NEW t \in Targets, Spawn(t)
  PROVE  Inv'
<1> USE DEF Inv
<1>1. Types'
  BY DEF Spawn, Goto, Types, PCs, list, answer
<1>2. WgCounts'
  <2>1. t \notin Working /\ Working' = Working \cup {t}
    BY DEF Spawn, Goto, Working, Types
  <2>2. Cardinality(Working') = Cardinality(Working) + 1
    BY <2>1, SizeOfPart, FS_AddElement DEF Working
  <2>3. QED
    BY <2>2 DEF Spawn, WgCounts
<1>3. QED
  BY <1>1, <1>2
     DEF Spawn, Goto, Types, list, answer, MutexHeld, JudgedWhenProbed,
         ResultsFiled, Filed, SeenIsCurrent, AppendPending, AllGone

LEMMA LoadPointsInv ==
  ASSUME Inv, NEW t \in Targets, LoadPoints(t)
  PROVE  Inv'
<1> USE DEF Inv
<1>1. Types'
  BY DEF LoadPoints, Goto, Types, PCs, answer
<1>2. WgCounts'
  BY WorkingStays DEF LoadPoints
<1>3. QED
  BY <1>1, <1>2
     DEF LoadPoints, Goto, Types, answer, MutexHeld, JudgedWhenProbed,
         ResultsFiled, Filed, SeenIsCurrent, AppendPending, AllGone

LEMMA StorePointsInv ==
  ASSUME Inv, NEW t \in Targets, StorePoints(t)
  PROVE  Inv'
<1> USE DEF Inv
<1>1. Types'
  BY DEF StorePoints, Goto, Types, PCs, answer, AppendPending
<1>2. WgCounts'
  BY WorkingStays DEF StorePoints
<1>3. QED
  BY <1>1, <1>2
     DEF StorePoints, Goto, Types, answer, MutexHeld, JudgedWhenProbed,
         ResultsFiled, Filed, SeenIsCurrent, AppendPending, AllGone

LEMMA ProbeInv ==
  ASSUME Inv, NEW t \in Targets, Probe(t)
  PROVE  Inv'
<1> USE DEF Inv
<1>1. Types'
  BY DEF Probe, Goto, Types, PCs, list, answer
<1>2. WgCounts'
  BY WorkingStays DEF Probe
<1>3. QED
  BY <1>1, <1>2
     DEF Probe, Goto, Types, list, answer, Verdicts, MutexHeld, JudgedWhenProbed,
         ResultsFiled, Filed, SeenIsCurrent, AppendPending, AllGone

LEMMA LockInv ==
  ASSUME Inv, NEW t \in Targets, Lock(t)
  PROVE  Inv'
<1> USE DEF Inv
<1>1. Types'
  BY DEF Lock, Goto, Types, PCs, list, answer
<1>2. WgCounts'
  BY WorkingStays DEF Lock
<1>3. MutexHeld'
  BY TargetsAssumption DEF Lock, Goto, Types, MutexHeld
<1>4. QED
  BY <1>1, <1>2, <1>3
     DEF Lock, Goto, Types, list, answer, JudgedWhenProbed,
         ResultsFiled, Filed, SeenIsCurrent, AppendPending, AllGone

LEMMA LoadResultInv ==
  ASSUME Inv, NEW t \in Targets, LoadResult(t)
  PROVE  Inv'
<1> USE DEF Inv
<1>1. Types'
  BY DEF LoadResult, Goto, Types, PCs, list
<1>2. WgCounts'
  BY WorkingStays DEF LoadResult
<1>3. SeenIsCurrent'
  BY DEF LoadResult, Goto, Types, SeenIsCurrent
<1>4. QED
  BY <1>1, <1>2, <1>3
     DEF LoadResult, Goto, Types, list, MutexHeld, JudgedWhenProbed,
         ResultsFiled, Filed, AppendPending, AllGone

LEMMA FileResultInv ==
  ASSUME Inv, NEW t \in Targets, FileResult(t)
  PROVE  Inv'
<1> USE DEF Inv
<1>1. Types'
  <2>1. seen[t] \in [Targets -> Nat]
    BY DEF Types
  <2>2. [seen[t] EXCEPT ![t] = @ + 1] \in [Targets -> Nat]
    BY <2>1
  <2>3. data' \in [Targets -> Nat] /\ errors' \in [Targets -> Nat]
    BY <2>2 DEF FileResult, Types
  <2>4. QED
    BY <2>3 DEF FileResult, Goto, Types, PCs, list
<1>2. WgCounts'
  BY WorkingStays DEF FileResult
<1>3. verdict[t] \in {"healthy", "failing"}
  BY DEF FileResult, Goto, Types, Verdicts, JudgedWhenProbed
<1>4. ResultsFiled'
  BY <1>3 DEF FileResult, Goto, Types, SeenIsCurrent, ResultsFiled, Filed
<1>5. SeenIsCurrent'
  \* No other goroutine is between LoadResult and FileResult.
  BY DEF FileResult, Goto, Types, MutexHeld, SeenIsCurrent
<1>6. QED
  BY <1>1, <1>2, <1>4, <1>5
     DEF FileResult, Goto, Types, list, MutexHeld, JudgedWhenProbed, AppendPending, AllGone

LEMMA UnlockInv ==
  ASSUME Inv, NEW t \in Targets, Unlock(t)
  PROVE  Inv'
<1> USE DEF Inv
<1>1. Types'
  BY DEF Unlock, Goto, Types, PCs, list, answer
<1>2. WgCounts'
  BY WorkingStays DEF Unlock
<1>3. MutexHeld'
  BY TargetsAssumption DEF Unlock, Goto, Types, MutexHeld
<1>4. QED
  BY <1>1, <1>2, <1>3
     DEF Unlock, Goto, Types, list, answer, JudgedWhenProbed,
         ResultsFiled, Filed, SeenIsCurrent, AppendPending, AllGone

LEMMA DoneInv ==
  ASSUME Inv, NEW t \in Targets, Done(t)
  PROVE  Inv'
<1> USE DEF Inv
<1>1. t \in Working /\ Working' = Working \ {t}
  BY DEF Done, Goto, Working, Types
<1>2. Cardinality(Working') = Cardinality(Working) - 1
  BY <1>1, SizeOfPart, FS_RemoveElement DEF Working
<1>3. WgCounts' /\ wg' \in Nat
  <2>1. Cardinality(Working) \in Nat /\ Cardinality(Working) # 0
    BY <1>1, SizeOfPart DEF Working
  <2>2. QED
    BY <1>2, <2>1 DEF Done, WgCounts
<1>4. Types'
  BY <1>3 DEF Done, Goto, Types, PCs, list, answer
<1>5. QED
  BY <1>3, <1>4
     DEF Done, Goto, Types, list, answer, MutexHeld, JudgedWhenProbed,
         ResultsFiled, Filed, SeenIsCurrent, AppendPending, AllGone

\* When Wait returns, every goroutine has finished.
LEMMA WaitInv ==
  ASSUME Inv, Wait
  PROVE  Inv'
<1> USE DEF Inv
<1>1. Working = {}
  BY SizeOfPart DEF Wait, WgCounts, Working
<1>2. \A t \in Targets : pc[t] = "gone"
  BY <1>1 DEF Wait, Working
<1>3. AllGone'
  BY <1>2 DEF Wait, AllGone
<1>4. Types'
  BY DEF Wait, Types, list, answer
<1>5. WgCounts'
  BY DEF Wait, WgCounts, Working
<1>6. QED
  BY <1>3, <1>4, <1>5
     DEF Wait, list, answer, MutexHeld, JudgedWhenProbed, ResultsFiled, Filed,
         SeenIsCurrent, AppendPending

LEMMA CountInv ==
  ASSUME Inv, RecordCheck \/ Return
  PROVE  Inv'
<1> USE DEF Inv
<1>1. /\ UNCHANGED <<pc, wg, mx, verdict, list, answer>>
      /\ main # "spawn"
  BY DEF RecordCheck, Return
<1>2. Types'
  BY DEF RecordCheck, Return, Types, list, answer
<1>3. WgCounts'
  BY <1>1 DEF WgCounts, Working
<1>4. QED
  BY <1>1, <1>2, <1>3
     DEF list, answer, MutexHeld, JudgedWhenProbed, ResultsFiled, Filed,
         SeenIsCurrent, AppendPending, AllGone

LEMMA StutterInv ==
  ASSUME Inv, UNCHANGED vars
  PROVE  Inv'
  BY DEF vars, Inv, Types, list, answer, WgCounts, Working, MutexHeld,
         JudgedWhenProbed, ResultsFiled, Filed, SeenIsCurrent, AppendPending, AllGone

LEMMA StepInv == Inv /\ [Next]_vars => Inv'
<1> SUFFICES ASSUME Inv, [Next]_vars PROVE Inv'
  OBVIOUS
<1>1. ASSUME NEW t \in Targets, Goroutine(t) PROVE Inv'
  BY <1>1, LoadPointsInv, StorePointsInv, ProbeInv, LockInv, LoadResultInv,
     FileResultInv, UnlockInv, DoneInv DEF Goroutine
<1>2. ASSUME NEW t \in Targets, Spawn(t) PROVE Inv'
  BY <1>2, SpawnInv
<1>3. CASE Wait
  BY <1>3, WaitInv
<1>4. CASE RecordCheck \/ Return
  BY <1>4, CountInv
<1>5. CASE UNCHANGED vars
  BY <1>5, StutterInv
<1>6. QED
  BY <1>1, <1>2, <1>3, <1>4, <1>5 DEF Next, Caller

LEMMA AlwaysInv == Spec => []Inv
  BY InitInv, StepInv, PTL DEF Spec

\* What is known once every goroutine is gone.
LEMMA GoneComplete ==
  ASSUME Inv, \A t \in Targets : pc[t] = "gone"
  PROVE  /\ \A t \in Targets : verdict[t] # "pending"
         /\ data = Tally("healthy")
         /\ errors = Tally("failing")
<1> USE DEF Inv
<1>1. \A t \in Targets : Filed(t) /\ verdict[t] # "pending"
  BY DEF Filed, JudgedWhenProbed
<1>2. data \in [Targets -> Nat] /\ errors \in [Targets -> Nat]
  BY DEF Types
<1>3. data = Tally("healthy") /\ errors = Tally("failing")
  BY <1>1, <1>2 DEF ResultsFiled, Tally
<1>4. QED
  BY <1>1, <1>3

(***************************************************************************)
(* The WaitGroup counter is the number of goroutines at work, so it stays  *)
(* between zero and the number of targets, and all variables keep their    *)
(* types.                                                                  *)
(***************************************************************************)
THEOREM TypeCorrect == Spec => []TypeOK
<1>1. Inv => TypeOK
  <2> SUFFICES ASSUME Inv PROVE TypeOK
    OBVIOUS
  <2>1. wg \in 0..Cardinality(Targets)
    BY SizeOfPart DEF Inv, WgCounts, Working
  <2>2. QED
    BY <2>1 DEF Inv, Types, TypeOK
<1>2. QED
  BY <1>1, AlwaysInv, PTL

(***************************************************************************)
(* Once the caller is past wg.Wait, no verdict is missing, none is lost    *)
(* and none is listed twice, for any number of targets.                    *)
(***************************************************************************)
THEOREM AnswersAreComplete == Spec => []AnswerComplete
<1>1. Inv => AnswerComplete
  BY GoneComplete DEF Inv, AllGone, AnswerComplete
<1>2. QED
  BY <1>1, AlwaysInv, PTL

\* The verdict of a goroutine is settled by Probe and by nothing else.
LEMMA ProbeJudges ==
  ASSUME Inv, NEW t \in Targets, Probe(t)
  PROVE  Promise!Judge(t)
<1>1. verdict[t] = "pending" /\ main = "spawn" /\ main' = main
  BY DEF Probe, Goto, Inv, Types, JudgedWhenProbed, AllGone
<1>2. QED
  BY <1>1 DEF Probe, list, answer, Promise!Judge, Promise!Verdicts, Verdicts

LEMMA ReturnAnswers ==
  ASSUME Inv, Return
  PROVE  Promise!Answer
<1>1. \A t \in Targets : pc[t] = "gone"
  BY DEF Return, Inv, AllGone
<1>2. QED
  BY <1>1, GoneComplete
     DEF Return, answer, Promise!Answer, Promise!Tally, Tally

\* Every step maps to a step of ProbeVerdicts or to a stutter.
LEMMA StepMaps == Inv /\ [Next]_vars => [Promise!Next]_Promise!vars
<1> SUFFICES ASSUME Inv, [Next]_vars PROVE [Promise!Next]_Promise!vars
  OBVIOUS
<1>1. CASE \E t \in Targets : Probe(t)
  BY <1>1, ProbeJudges DEF Promise!Next
<1>2. CASE Return
  BY <1>2, ReturnAnswers DEF Promise!Next
<1>3. ASSUME main' = main, main # "returned", verdict' = verdict
      PROVE  UNCHANGED Promise!vars
  BY <1>3 DEF Promise!vars, Nothing
<1>4. CASE \E t \in Targets : Goroutine(t) /\ ~Probe(t)
  <2>1. main' = main /\ verdict' = verdict
    BY <1>4 DEF Goroutine, LoadPoints, StorePoints, Lock, LoadResult, FileResult,
                Unlock, Done
  <2>2. main # "returned"
    BY <1>4 DEF Goroutine, LoadPoints, StorePoints, Lock, LoadResult, FileResult,
                Unlock, Done, Goto, Inv, AllGone
  <2>3. QED
    BY <1>3, <2>1, <2>2
<1>5. CASE \E t \in Targets : Spawn(t)
  BY <1>3, <1>5 DEF Spawn
<1>6. CASE Wait \/ RecordCheck
  BY <1>6 DEF Wait, RecordCheck, Promise!vars, Nothing
<1>7. CASE UNCHANGED vars
  BY <1>7 DEF vars, answer, Promise!vars, Nothing
<1>8. QED
  BY <1>1, <1>2, <1>4, <1>5, <1>6, <1>7 DEF Next, Caller

(***************************************************************************)
(* The goroutines, the mutex and the WaitGroup implement one atomic answer *)
(* with every target's verdict.                                            *)
(***************************************************************************)
THEOREM RoundKeepsPromise == Spec => KeepsPromise
<1>1. Init => Promise!Init
  BY DEF Init, Promise!Init, Nothing, Promise!Nothing
<1>2. QED
  BY <1>1, AlwaysInv, StepMaps, PTL DEF Spec, KeepsPromise, Promise!Spec

------------------------------------------------------------------------------
(* The shared pointList, and that the round comes to its end.              *)

LeftInAll == SumFunction(left)

\* The length of pointList, and every length loaded from it, are at most the
\* number of appends made so far, and not zero after the first.
ListBounded ==
  /\ points + LeftInAll <= TotalPoints
  /\ \A t \in Targets :
       /\ left[t] <= Points[t]
       /\ left[t] < Points[t] => points > 0
       /\ pc[t] = "store" => loaded[t] + LeftInAll <= TotalPoints
       /\ pc[t] \notin {"unborn", "announce", "store"} => left[t] = 0

\* The caller counts up to the length of pointList.
CallerCounts ==
  /\ recorded <= points
  /\ main = "spawn" => recorded = 0
  /\ main = "returned" => recorded = points

Counted == ListBounded /\ CallerCounts

LEMMA TotalPointsType == TotalPoints \in Nat
  BY TargetsAssumption, PointsAssumption, SumBounds DEF TotalPoints

LEMMA LeftInAllType == Types => LeftInAll \in Nat
  BY TargetsAssumption, SumBounds DEF Types, LeftInAll

LEMMA InitCounted == Init => Counted
<1> SUFFICES ASSUME Init PROVE Counted
  OBVIOUS
<1>1. LeftInAll = TotalPoints /\ TotalPoints \in Nat
  BY TotalPointsType DEF Init, LeftInAll, TotalPoints
<1>2. \A t \in Targets : left[t] = Points[t] /\ Points[t] \in Nat /\ pc[t] = "unborn"
  BY PointsAssumption DEF Init
<1>3. QED
  BY <1>1, <1>2 DEF Init, Counted, ListBounded, CallerCounts

\* A finished append takes one from what is left.
LEMMA StoreTakesOne ==
  ASSUME Inv, NEW t \in Targets, StorePoints(t)
  PROVE  LeftInAll' = LeftInAll - 1 /\ left[t] > 0
<1>1. left \in [Targets -> Nat] /\ left' \in [Targets -> Nat]
  BY StorePointsInv DEF Inv, Types
<1>2. left[t] > 0 /\ left'[t] = left[t] - 1 /\ \A u \in Targets \ {t} : left'[u] = left[u]
  BY <1>1 DEF StorePoints, Goto, Inv, AppendPending
<1>3. /\ LeftInAll \in Nat /\ LeftInAll' \in Nat
      /\ LeftInAll' + left[t] = LeftInAll + left'[t]
  BY <1>1, <1>2, TargetsAssumption, SumMoves DEF LeftInAll
<1>4. left[t] \in Nat /\ left'[t] \in Nat
  BY <1>1
<1>5. QED
  BY <1>2, <1>3, <1>4

LEMMA StorePointsCounted ==
  ASSUME Inv, Counted, NEW t \in Targets, StorePoints(t)
  PROVE  Counted'
<1>1. /\ pc[t] = "store" /\ pc' = [pc EXCEPT ![t] = "announce"]
      /\ points' = loaded[t] + 1 /\ loaded' = loaded
      /\ main' = main /\ recorded' = recorded
      /\ left' = [left EXCEPT ![t] = @ - 1]
  BY DEF StorePoints, Goto, answer
<1>2. left \in [Targets -> Nat] /\ loaded \in [Targets -> Nat] /\ pc \in [Targets -> PCs] /\ points \in Nat
  BY DEF Inv, Types
<1>3. LeftInAll' = LeftInAll - 1 /\ LeftInAll \in Nat /\ TotalPoints \in Nat /\ TotalPoints' = TotalPoints
  BY StoreTakesOne, LeftInAllType, TotalPointsType DEF Inv, TotalPoints
<1>4. main = "spawn" /\ recorded = 0
  BY <1>1 DEF Inv, AllGone, Types, Counted, CallerCounts
<1>5. points' + LeftInAll' <= TotalPoints /\ points' > 0
  BY <1>1, <1>2, <1>3 DEF Counted, ListBounded
<1>6. ASSUME NEW u \in Targets
      PROVE  /\ left'[u] <= Points[u]
             /\ pc'[u] = "store" => loaded'[u] + LeftInAll' <= TotalPoints
             /\ pc'[u] \notin {"unborn", "announce", "store"} => left'[u] = 0
  <2>1. left[u] \in Nat /\ Points[u] \in Nat /\ left[u] <= Points[u] /\ loaded[u] \in Nat
    BY <1>2, PointsAssumption DEF Counted, ListBounded
  <2>2. left'[u] = IF u = t THEN left[u] - 1 ELSE left[u]
    BY <1>1, <1>2
  <2>3. pc'[u] = IF u = t THEN "announce" ELSE pc[u]
    BY <1>1, <1>2
  <2>4. QED
    BY <1>1, <1>3, <2>1, <2>2, <2>3 DEF Counted, ListBounded
<1>7. ListBounded'
  BY <1>3, <1>5, <1>6 DEF ListBounded
<1>8. CallerCounts'
  BY <1>1, <1>4, <1>5, <1>2 DEF CallerCounts
<1>9. QED
  BY <1>7, <1>8 DEF Counted

\* A goroutine that is not in an append leaves the list alone.
LEMMA OthersCounted ==
  ASSUME Inv, Counted, NEW t \in Targets, NEW from, NEW to, Goto(t, from, to),
         to = "store" => loaded'[t] <= points,
         to \notin {"unborn", "announce", "store"} => left[t] = 0,
         \A u \in Targets \ {t} : loaded'[u] = loaded[u], loaded' \in [Targets -> Nat],
         UNCHANGED <<main, left, points, recorded>>
  PROVE  Counted'
<1>1. LeftInAll' = LeftInAll /\ LeftInAll \in Nat /\ TotalPoints \in Nat /\ TotalPoints' = TotalPoints
  BY LeftInAllType, TotalPointsType DEF Inv, LeftInAll, TotalPoints
<1>2. points \in Nat /\ pc \in [Targets -> PCs] /\ points + LeftInAll <= TotalPoints
  BY DEF Inv, Types, Counted, ListBounded
<1>3. ASSUME NEW u \in Targets
      PROVE  /\ pc'[u] = "store" => loaded'[u] + LeftInAll' <= TotalPoints
             /\ pc'[u] \notin {"unborn", "announce", "store"} => left'[u] = 0
  <2>1. CASE u = t
    BY <1>1, <1>2, <2>1 DEF Goto
  <2>2. CASE u # t
    BY <1>1, <1>2, <2>2 DEF Goto, Counted, ListBounded
  <2>3. QED
    BY <2>1, <2>2
<1>4. ListBounded'
  BY <1>1, <1>2, <1>3 DEF Counted, ListBounded
<1>5. QED
  BY <1>4 DEF Counted, CallerCounts

LEMMA StepCounted == Inv /\ Counted /\ [Next]_vars => Counted'
<1> SUFFICES ASSUME Inv, Counted, [Next]_vars PROVE Counted'
  OBVIOUS
<1>1. loaded \in [Targets -> Nat] /\ points \in Nat /\ recorded \in Nat
  BY DEF Inv, Types
<1>2. ASSUME NEW t \in Targets, LoadPoints(t) PROVE Counted'
  BY <1>1, <1>2, OthersCounted DEF LoadPoints, answer
<1>3. ASSUME NEW t \in Targets, StorePoints(t) PROVE Counted'
  BY <1>3, StorePointsCounted
<1>4. ASSUME NEW t \in Targets, Probe(t) PROVE Counted'
  BY <1>1, <1>4, OthersCounted DEF Probe, list
<1>5. ASSUME NEW t \in Targets,
             Lock(t) \/ LoadResult(t) \/ FileResult(t) \/ Unlock(t) \/ Done(t)
      PROVE  Counted'
  <2>1. pc[t] \notin {"unborn", "announce", "store"}
    BY <1>5 DEF Lock, LoadResult, FileResult, Unlock, Done, Goto
  <2>2. left[t] = 0
    BY <2>1 DEF Counted, ListBounded
  <2>3. UNCHANGED <<main, left, loaded, points, recorded>>
    BY <1>5 DEF Lock, LoadResult, FileResult, Unlock, Done, list
  <2>4. QED
    BY <1>1, <1>5, <2>2, <2>3, OthersCounted DEF Lock, LoadResult, FileResult, Unlock, Done
<1>6. ASSUME NEW t \in Targets, Spawn(t) PROVE Counted'
  BY <1>1, <1>6, OthersCounted DEF Spawn, list
<1>7. CASE Wait \/ RecordCheck \/ Return
  <2>1. UNCHANGED <<pc, left, loaded, points>>
    BY <1>7 DEF Wait, RecordCheck, Return, list
  <2>2. ListBounded'
    BY <2>1 DEF Counted, ListBounded, LeftInAll, TotalPoints
  <2>3. CallerCounts'
    BY <1>1, <1>7, <2>1 DEF Wait, RecordCheck, Return, Counted, CallerCounts
  <2>4. QED
    BY <2>2, <2>3 DEF Counted
<1>8. CASE UNCHANGED vars
  BY <1>8 DEF vars, list, Counted, ListBounded, CallerCounts, LeftInAll, TotalPoints
<1>9. QED
  BY <1>2, <1>3, <1>4, <1>5, <1>6, <1>7, <1>8 DEF Next, Caller, Goroutine

LEMMA AlwaysCounted == Spec => [](Inv /\ Counted)
  BY InitInv, StepInv, InitCounted, StepCounted, PTL DEF Spec

(***************************************************************************)
(* Whatever appends to pointList are lost in a race, a round adds no check *)
(* that was not made, and at least one if any was.                         *)
(***************************************************************************)
THEOREM CheckCountCorrect == Spec => []CheckCountBounded
<1>1. Inv /\ Counted => CheckCountBounded
  <2> SUFFICES ASSUME Inv, Counted, main = "returned"
               PROVE  recorded <= TotalPoints /\ (TotalPoints > 0 => recorded > 0)
    BY DEF CheckCountBounded
  <2>1. recorded = points /\ points \in Nat /\ TotalPoints \in Nat /\ LeftInAll \in Nat
    BY LeftInAllType, TotalPointsType DEF Counted, CallerCounts, Inv, Types
  <2>2. recorded <= TotalPoints
    BY <2>1 DEF Counted, ListBounded
  <2>3. ASSUME TotalPoints > 0 PROVE points > 0
    <3>1. PICK t \in Targets : Points[t] # 0
      BY <2>3, TargetsAssumption, PointsAssumption, SumOfNothing DEF TotalPoints
    <3>2. pc[t] = "gone"
      BY DEF Inv, AllGone
    <3>3. left[t] = 0 /\ Points[t] \in Nat
      BY <3>2, PointsAssumption DEF Counted, ListBounded
    <3>4. left[t] < Points[t]
      BY <3>1, <3>3
    <3>5. QED
      BY <3>4 DEF Counted, ListBounded
  <2>4. QED
    BY <2>1, <2>2, <2>3
<1>2. QED
  BY <1>1, AlwaysCounted, PTL

(***************************************************************************)
(* No wait of a round is for ever: the holder of the mutex can always go   *)
(* on, and with no goroutine left the WaitGroup is at zero.                *)
(***************************************************************************)
THEOREM NobodyStuck == Spec => []NeverStuck
<1>1. Inv /\ Counted => NeverStuck
  <2> SUFFICES ASSUME Inv, Counted, main # "returned", \A t \in Targets : ~CanMove(t)
               PROVE  CallerCanMove
    BY DEF NeverStuck
  <2>1. main \in {"spawn", "count"} /\ mx \in Targets \cup {NoTarget}
    BY DEF Inv, Types
  <2>2. CASE main = "count"
    BY <2>2 DEF CallerCanMove, Counted, CallerCounts
  <2>3. CASE main = "spawn"
    <3>1. \A t \in Targets : pc[t] = "gone" \/ (pc[t] = "lock" /\ mx # NoTarget)
      BY <2>3 DEF CanMove
    <3>2. \A t \in Targets : pc[t] = "gone"
      \* A holder of the mutex would be inside load, file or unlock.
      BY <2>1, <3>1 DEF Inv, MutexHeld
    <3>3. wg = 0
      <4>1. Working = {}
        BY <3>2 DEF Working
      <4>2. QED
        BY <4>1, FS_EmptySet DEF Inv, WgCounts
    <3>4. QED
      BY <2>3, <3>2, <3>3 DEF CallerCanMove
  <2>4. QED
    BY <2>1, <2>2, <2>3
<1>2. QED
  BY <1>1, AlwaysCounted, PTL

=============================================================================
