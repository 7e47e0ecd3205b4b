------------------------------ MODULE ProbeRound ------------------------------
(***************************************************************************)
(* One call of clusterEndpointConvertEndpointSubset (controllers/sync.go): *)
(* the caller starts a goroutine per target, each goroutine announces its  *)
(* checks in the shared pointList, probes, and files its verdict under the *)
(* mutex; the caller waits on the WaitGroup, counts the checks, returns.   *)
(*                                                                         *)
(* The append to pointList takes no lock.  Whatever the shared array holds *)
(* after racing appends, its length word is loaded, incremented and stored *)
(* by every append, so the length is modelled and the cells are not.       *)
(* ProbeWorker has the probing itself; here it ends with some verdict.     *)
(***************************************************************************)
EXTENDS Naturals, FiniteSets, Functions

CONSTANTS
  Targets,    \* the (port, host) pairs of the spec, one goroutine each
  Points,     \* how many handlers each target has, one check point per handler
  NoTarget    \* the free mutex

ASSUME TargetsAssumption == IsFiniteSet(Targets) /\ NoTarget \notin Targets
ASSUME PointsAssumption == Points \in [Targets -> Nat]

VARIABLES
  main,       \* the caller: "spawn" (and wait), "count", "returned"
  pc,         \* where each goroutine is
  wg,         \* the counter of the WaitGroup
  mx,         \* the target whose goroutine holds the mutex
  verdict,    \* whether w.err is nil at the end of the probe loop
  left,       \* appends to pointList each goroutine has still to make
  loaded,     \* the length of pointList each goroutine has loaded
  points,     \* the length word of pointList
  seen,       \* the result slice a goroutine has loaded inside the mutex
  data,       \* how often each target is in data (the order is left out)
  errors,     \* how often each target is in errors
  recorded    \* the increments of the check counter by this round

list == <<left, loaded, points>>
answer == <<seen, data, errors>>
vars == <<main, pc, wg, mx, verdict, list, answer, recorded>>

Verdicts == {"healthy", "failing"}

PCs == {"unborn", "announce", "store", "lock", "load", "file", "unlock",
        "finish", "gone"}

Nothing == [t \in Targets |-> 0]

Init ==
  /\ main = "spawn"
  /\ pc = [t \in Targets |-> "unborn"]
  /\ wg = 0
  /\ mx = NoTarget
  /\ verdict = [t \in Targets |-> "pending"]
  /\ left = Points
  /\ loaded = Nothing
  /\ points = 0
  /\ seen = [t \in Targets |-> Nothing]
  /\ data = Nothing
  /\ errors = Nothing
  /\ recorded = 0

Goto(t, from, to) == pc[t] = from /\ pc' = [pc EXCEPT ![t] = to]

MutAddOnce(t) ==
  /\ main = "spawn"
  /\ Goto(t, "unborn", "announce")
  /\ wg' = 1
  /\ UNCHANGED <<main, mx, verdict, list, answer, recorded>>

\* wg.Add(1) and the go statement; the order of the loops is immaterial.
Spawn(t) ==
  /\ main = "spawn"
  /\ Goto(t, "unborn", "announce")
  /\ wg' = wg + 1
  /\ UNCHANGED <<main, mx, verdict, list, answer, recorded>>

\* The first half of "pointList = append(pointList, ...)".
LoadPoints(t) ==
  /\ left[t] > 0
  /\ Goto(t, "announce", "store")
  /\ loaded' = [loaded EXCEPT ![t] = points]
  /\ UNCHANGED <<main, wg, mx, verdict, left, points, answer, recorded>>

\* The second half, with whatever other goroutines appended in between lost.
StorePoints(t) ==
  /\ Goto(t, "store", "announce")
  /\ points' = loaded[t] + 1
  /\ left' = [left EXCEPT ![t] = @ - 1]
  /\ UNCHANGED <<main, wg, mx, verdict, loaded, answer, recorded>>

\* "for w.doProbe() {}" ends with w.err nil or not.
Probe(t) ==
  /\ left[t] = 0
  /\ Goto(t, "announce", "lock")
  /\ \E v \in Verdicts : verdict' = [verdict EXCEPT ![t] = v]
  /\ UNCHANGED <<main, wg, mx, list, answer, recorded>>

MutNoMutex(t) ==
  /\ Goto(t, "lock", "load")
  /\ mx' = t
  /\ UNCHANGED <<main, wg, verdict, list, answer, recorded>>

Lock(t) ==
  /\ mx = NoTarget
  /\ Goto(t, "lock", "load")
  /\ mx' = t
  /\ UNCHANGED <<main, wg, verdict, list, answer, recorded>>

\* The first half of the append to errors or data ...
LoadResult(t) ==
  /\ Goto(t, "load", "file")
  /\ seen' = [seen EXCEPT ![t] = IF verdict[t] = "failing" THEN errors ELSE data]
  /\ UNCHANGED <<main, wg, mx, verdict, list, data, errors, recorded>>

\* ... and the second.  The failed or successful counter of the target grows
\* with it, so data and errors also stand for those counters.
FileResult(t) ==
  /\ Goto(t, "file", "unlock")
  /\ IF verdict[t] = "failing"
     THEN errors' = [seen[t] EXCEPT ![t] = @ + 1] /\ UNCHANGED data
     ELSE data' = [seen[t] EXCEPT ![t] = @ + 1] /\ UNCHANGED errors
  /\ UNCHANGED <<main, wg, mx, verdict, list, seen, recorded>>

MutUnlockOnSuccess(t) ==
  /\ Goto(t, "unlock", "finish")
  /\ mx' = IF verdict[t] = "failing" THEN mx ELSE NoTarget
  /\ UNCHANGED <<main, wg, verdict, list, answer, recorded>>

\* The deferred calls run in reverse: mx.Unlock() first ...
Unlock(t) ==
  /\ Goto(t, "unlock", "finish")
  /\ mx' = NoTarget
  /\ UNCHANGED <<main, wg, verdict, list, answer, recorded>>

MutDoneOnSuccess(t) ==
  /\ Goto(t, "finish", "gone")
  /\ wg' = IF verdict[t] = "failing" THEN wg ELSE wg - 1
  /\ UNCHANGED <<main, mx, verdict, list, answer, recorded>>

\* ... then wg.Done().
Done(t) ==
  /\ Goto(t, "finish", "gone")
  /\ wg' = wg - 1
  /\ UNCHANGED <<main, mx, verdict, list, answer, recorded>>

\* wg.Wait() returns.
Wait ==
  /\ main = "spawn"
  /\ \A t \in Targets : pc[t] # "unborn"
  /\ wg = 0
  /\ main' = "count"
  /\ UNCHANGED <<pc, wg, mx, verdict, list, answer, recorded>>

\* One RecordCheck per cell of pointList.
RecordCheck ==
  /\ main = "count"
  /\ recorded < points
  /\ recorded' = recorded + 1
  /\ UNCHANGED <<main, pc, wg, mx, verdict, list, answer>>

MutReturnOneShort ==
  /\ main = "count"
  /\ recorded + 1 >= points
  /\ main' = "returned"
  /\ UNCHANGED <<pc, wg, mx, verdict, list, answer, recorded>>

Return ==
  /\ main = "count"
  /\ recorded = points
  /\ main' = "returned"
  /\ UNCHANGED <<pc, wg, mx, verdict, list, answer, recorded>>

Goroutine(t) ==
  \/ LoadPoints(t) \/ StorePoints(t) \/ Probe(t)
  \/ Lock(t) \/ LoadResult(t) \/ FileResult(t) \/ Unlock(t) \/ Done(t)

Caller == Wait \/ RecordCheck \/ Return \/ \E t \in Targets : Spawn(t)

Next == Caller \/ \E t \in Targets : Goroutine(t)

Spec == Init /\ [][Next]_vars

\* The Go scheduler runs every runnable goroutine, and every probe loop ends
\* (ProbeWorker says when it does).
FairSpec ==
  /\ Spec
  /\ WF_vars(Caller)
  /\ \A t \in Targets : WF_vars(Goroutine(t))

------------------------------------------------------------------------------

\* Types of all variables; the WaitGroup never goes below zero (Go panics).
TypeOK ==
  /\ main \in {"spawn", "count", "returned"}
  /\ pc \in [Targets -> PCs]
  /\ wg \in 0..Cardinality(Targets)
  /\ mx \in Targets \cup {NoTarget}
  /\ verdict \in [Targets -> Verdicts \cup {"pending"}]
  /\ left \in [Targets -> Nat]
  /\ loaded \in [Targets -> Nat]
  /\ points \in Nat
  /\ seen \in [Targets -> [Targets -> Nat]]
  /\ data \in [Targets -> Nat]
  /\ errors \in [Targets -> Nat]
  /\ recorded \in Nat

\* Each target with verdict v counted once, the others not at all.
Tally(v) == [t \in Targets |-> IF verdict[t] = v THEN 1 ELSE 0]

(***************************************************************************)
(* Once the caller is past wg.Wait every target has a verdict and stands   *)
(* exactly once in data or in errors, on the side of its verdict: no       *)
(* healthy host is lost from the subsets, none is listed twice, and no     *)
(* failing one is listed, in whatever order the goroutines run.            *)
(***************************************************************************)
AnswerComplete ==
  main # "spawn" =>
    /\ \A t \in Targets : verdict[t] # "pending"
    /\ data = Tally("healthy")
    /\ errors = Tally("failing")

TotalPoints == SumFunction(Points)

(***************************************************************************)
(* Racing appends to pointList lose checks but never invent one, and never *)
(* lose them all: the round adds at least one and at most one check per    *)
(* handler to the check counter.                                           *)
(***************************************************************************)
CheckCountBounded ==
  main = "returned" =>
    /\ recorded <= TotalPoints
    /\ TotalPoints > 0 => recorded > 0

\* A goroutine that can take a step, and a caller that can.
CanMove(t) ==
  \/ pc[t] = "unborn" /\ main = "spawn"
  \/ pc[t] = "lock" /\ mx = NoTarget
  \/ pc[t] \notin {"unborn", "lock", "gone"}

CallerCanMove ==
  \/ main = "spawn" /\ wg = 0 /\ \A t \in Targets : pc[t] # "unborn"
  \/ main = "count" /\ recorded <= points

(***************************************************************************)
(* Nobody waits for nobody: until the round has returned, some goroutine   *)
(* that is not waiting for the mutex, or one whose mutex is free, or the   *)
(* caller whose WaitGroup is at zero, can go on.                           *)
(***************************************************************************)
NeverStuck ==
  main # "returned" => CallerCanMove \/ \E t \in Targets : CanMove(t)

\* The round, as its caller sees it.
Promise == INSTANCE ProbeVerdicts WITH
  answered <- main = "returned",
  data <- IF main = "returned" THEN data ELSE Nothing,
  errors <- IF main = "returned" THEN errors ELSE Nothing

(***************************************************************************)
(* The goroutines, the mutex and the WaitGroup together are one atomic     *)
(* answer: the round implements ProbeVerdicts.                             *)
(***************************************************************************)
KeepsPromise == Promise!Spec

\* Every round ends: no goroutine and no wait for the mutex or the WaitGroup
\* is stuck for good.
RoundReturns == <>(main = "returned")

(***************************************************************************)
(* metrics.go describes the check counter as the "Total number of check"   *)
(* beside the failed and the successful ones: with one handler per target, *)
(* a round adds as many checks as failed and successful ones together.     *)
(***************************************************************************)
ChecksAddUp ==
  main = "returned" =>
    recorded = SumFunction(data) + SumFunction(errors)

=============================================================================
