-------------------------- MODULE ProbeWorkerProofs --------------------------
(***************************************************************************)
(* Proofs, for every set of ports, retry count and prober behaviour, that  *)
(* a probe worker's verdicts are earned.                                   *)
(***************************************************************************)
EXTENDS ProbeWorker, TLAPS

\* The run length counts the newest answers, which all have the last result.
RunIsRecorded ==
  \A k \in 1..Window : k <= resultRun => ResultOf(judged[k]) = lastResult

\* Nothing is reported while the loop runs, and the calls of the current
\* round so far all failed.
RoundIsRecorded ==
  pc = "probe" => /\ ~err
                  /\ \A k \in 1..Window : k <= attempt => calls[k] = "error"

Inv ==
  /\ TypeOK
  /\ RunIsRecorded
  /\ RoundIsRecorded
  /\ HealthyVerdictEarned
  /\ UnhealthyVerdictEarned

\* The number of calls per round is a positive number within the window.
LEMMA RetryBounds ==
  Window \in Nat /\ Retry \in Nat /\ 1 <= Retry /\ Retry <= Window
  BY MaxRetryAssumption, WindowAssumption DEF Retry

\* The effective thresholds are integers within the window.
LEMMA ThresholdBounds ==
  ASSUME NEW p \in Ports
  PROVE  /\ SuccessThreshold(p) \in Int /\ SuccessThreshold(p) <= Window
         /\ FailureThreshold(p) \in Int /\ FailureThreshold(p) <= Window
  BY PortsAssumption, WindowAssumption
     DEF PortType, SuccessThreshold, FailureThreshold

\* runProbe answers one of the library's outcomes or panics.
LEMMA runProbeType ==
  ASSUME NEW p \in Ports, answer \in Answers
  PROVE  runProbe(p) \in Outcomes \cup {"panic"}
<1>1. ChosenHandler(p) \in {"none", "http", "tcp", "udp", "grpc"}
  BY DEF ChosenHandler
<1>2. QED
  BY <1>1, AnswersAssumption DEF runProbe, Outcomes

\* Pushing an outcome makes it the newest and shifts the others by one.
LEMMA PushFacts ==
  ASSUME NEW h, NEW o
  PROVE  /\ Push(h, o)[1] = o
         /\ \A k \in 1..Window : k # 1 => Push(h, o)[k] = h[k - 1]
  BY WindowAssumption DEF Push

\* A history stays a history of the same kind of outcomes.
LEMMA PushType ==
  ASSUME NEW S, NEW h \in [1..Window -> S], NEW o \in S
  PROVE  Push(h, o) \in [1..Window -> S]
  BY WindowAssumption DEF Push

LEMMA InitInv == Init => Inv
<1> SUFFICES ASSUME Init PROVE Inv
  OBVIOUS
<1>1. TypeOK
  <2>1. attempt \in 0..(Retry - 1)
    BY RetryBounds DEF Init
  <2>2. calls \in [1..Window -> Outcomes \cup {"none", "panic"}]
    BY DEF Init
  <2>3. judged \in [1..Window -> Outcomes \cup {"none"}]
    BY DEF Init
  <2>4. QED
    BY <2>1, <2>2, <2>3 DEF Init, TypeOK
<1>2. QED
  BY <1>1, RetryBounds DEF Init, Inv, RunIsRecorded, RoundIsRecorded,
                           HealthyVerdictEarned, UnhealthyVerdictEarned

\* After an answer has been counted, the new run is recorded.
LEMMA CallAnswersRun ==
  ASSUME Inv, CallAnswers
  PROVE  RunIsRecorded'
<1> DEFINE o == runProbe(port)
           r == ResultOf(o)
<1>1. lastResult' = r /\ resultRun' = NextRun(r) /\ judged' = Push(judged, o)
  BY DEF CallAnswers
<1>2. SUFFICES ASSUME NEW k \in 1..Window, k <= NextRun(r)
               PROVE  ResultOf(Push(judged, o)[k]) = r
  BY <1>1 DEF RunIsRecorded
<1>3. CASE k = 1
  BY <1>3, PushFacts
<1>4. CASE k # 1
  <2>1. lastResult = r /\ k - 1 <= resultRun /\ k - 1 \in 1..Window
    BY <1>2, <1>4, WindowAssumption DEF NextRun, Inv, TypeOK
  <2>2. Push(judged, o)[k] = judged[k - 1]
    BY <1>4, PushFacts
  <2>3. QED
    BY <2>1, <2>2 DEF Inv, RunIsRecorded
<1>5. QED
  BY <1>3, <1>4

LEMMA CallAnswersInv ==
  ASSUME Inv, CallAnswers
  PROVE  Inv'
<1> DEFINE o == runProbe(port)
           r == ResultOf(o)
<1>1. o \in Outcomes \ {"error"}
  BY runProbeType DEF CallAnswers, Inv, TypeOK
<1>2. TypeOK'
  <2>1. r \in {"success", "failure", "warning", "unknown"}
    BY <1>1 DEF ResultOf, Outcomes
  <2>2. NextRun(r) \in Nat
    BY DEF NextRun, Inv, TypeOK
  <2>3. calls' \in [1..Window -> Outcomes \cup {"none", "panic"}]
    BY <1>1, PushType DEF CallAnswers, Inv, TypeOK
  <2>4. judged' \in [1..Window -> Outcomes \cup {"none"}]
    BY <1>1, PushType DEF CallAnswers, Inv, TypeOK
  <2>5. attempt' \in 0..(Retry - 1)
    BY RetryBounds DEF CallAnswers
  <2>6. pc' \in {"probe", "done"} /\ err' \in BOOLEAN
    BY DEF CallAnswers, Inv, TypeOK
  <2>7. QED
    BY <2>1, <2>2, <2>3, <2>4, <2>5, <2>6 DEF CallAnswers, Inv, TypeOK
<1>3. RunIsRecorded'
  BY CallAnswersRun
<1>4. RoundIsRecorded'
  BY WindowAssumption DEF CallAnswers, Inv, RoundIsRecorded
<1>5. judged'[1] = o /\ port' = port
  BY PushFacts DEF CallAnswers
<1>6. ASSUME NEW n \in Int, n <= Window, n <= resultRun', NEW q, q = r
      PROVE  LastJudged(n, q)'
  <2>1. SUFFICES ASSUME NEW k \in 1..AtLeastOne(n)
                 PROVE  ResultOf(judged'[k]) = q
    BY DEF LastJudged
  <2>2. CASE k = 1
    BY <1>5, <1>6, <2>2
  <2>3. CASE k # 1
    <3>1. k \in 1..Window /\ k <= resultRun'
      BY <1>2, <1>6, <2>3, RetryBounds DEF AtLeastOne, TypeOK
    <3>2. QED
      BY <1>3, <1>6, <3>1 DEF RunIsRecorded, CallAnswers
  <2>4. QED
    BY <2>2, <2>3
<1>7. ASSUME pc' = "done"
      PROVE  /\ r = "success" => LastJudged(SuccessThreshold(port), "success")'
             /\ r = "failure" => LastJudged(FailureThreshold(port), "failure")'
             /\ err' = (o = "failure")
  <2>1. ~BelowThreshold(r, NextRun(r)) /\ err' = (o = "failure")
    BY <1>7 DEF CallAnswers
  <2>2. resultRun' = NextRun(r) /\ NextRun(r) \in Nat
    BY <1>2 DEF CallAnswers, TypeOK
  <2>3. port \in Ports
    BY DEF Inv, TypeOK
  <2>4. ASSUME r = "success" PROVE LastJudged(SuccessThreshold(port), "success")'
    <3>1. SuccessThreshold(port) <= NextRun(r)
      BY <2>1, <2>2, <2>3, <2>4, ThresholdBounds DEF BelowThreshold
    <3>2. QED
      BY <1>5, <1>6, <2>2, <2>3, <2>4, <3>1, ThresholdBounds
  <2>5. ASSUME r = "failure" PROVE LastJudged(FailureThreshold(port), "failure")'
    <3>1. FailureThreshold(port) <= NextRun(r)
      BY <2>1, <2>2, <2>3, <2>5, ThresholdBounds DEF BelowThreshold
    <3>2. QED
      BY <1>5, <1>6, <2>2, <2>3, <2>5, <3>1, ThresholdBounds
  <2>6. QED
    BY <2>1, <2>4, <2>5
<1>8. HealthyVerdictEarned'
  <2> SUFFICES ASSUME pc' = "done", ~err' PROVE HealthyVerdictEarned'
    BY DEF HealthyVerdictEarned
  <2>1. o # "failure"
    BY <1>7
  <2>2. CASE o = "success"
    BY <1>5, <1>7, <2>2 DEF HealthyVerdictEarned, ResultOf, LastJudged
  <2>3. CASE o = "silent"
    BY <1>5, <1>7, <2>3 DEF HealthyVerdictEarned, ResultOf, LastJudged
  <2>4. CASE o \in {"warning", "unknown"}
    BY <1>5, <2>4 DEF HealthyVerdictEarned
  <2>5. QED
    BY <1>1, <2>1, <2>2, <2>3, <2>4 DEF Outcomes
<1>9. UnhealthyVerdictEarned'
  BY <1>5, <1>7 DEF UnhealthyVerdictEarned, ResultOf, LastJudged
<1>10. QED
  BY <1>2, <1>3, <1>4, <1>8, <1>9 DEF Inv

LEMMA CallErrsInv ==
  ASSUME Inv, CallErrs
  PROVE  Inv'
<1>1. TypeOK'
  <2>1. calls' \in [1..Window -> Outcomes \cup {"none", "panic"}]
    BY PushType DEF CallErrs, Inv, TypeOK, Outcomes
  <2>2. attempt' \in 0..(Retry - 1)
    BY RetryBounds DEF CallErrs, RetriesLeft, Inv, TypeOK
  <2>3. QED
    BY <2>1, <2>2 DEF CallErrs, Inv, TypeOK
<1>2. RunIsRecorded'
  BY DEF CallErrs, Inv, RunIsRecorded
<1>3. ASSUME NEW k \in 1..Window, k <= attempt + 1
      PROVE  calls'[k] = "error"
  <2>1. CASE k = 1
    BY <2>1, PushFacts DEF CallErrs
  <2>2. CASE k # 1
    <3>1. k - 1 \in 1..Window /\ k - 1 <= attempt
      BY <1>3, <2>2, WindowAssumption DEF Inv, TypeOK
    <3>2. calls'[k] = calls[k - 1]
      BY <2>2, PushFacts DEF CallErrs
    <3>3. QED
      BY <3>1, <3>2 DEF CallErrs, Inv, RoundIsRecorded
  <2>3. QED
    BY <2>1, <2>2
<1>4. RoundIsRecorded'
  BY <1>3 DEF CallErrs, Inv, RoundIsRecorded
<1>5. HealthyVerdictEarned'
  BY DEF CallErrs, Inv, RoundIsRecorded, HealthyVerdictEarned
<1>6. UnhealthyVerdictEarned'
  <2> SUFFICES ASSUME pc' = "done"
               PROVE  \A k \in 1..Retry : calls'[k] = "error"
    BY DEF UnhealthyVerdictEarned
  <2>1. attempt + 1 = Retry
    BY RetryBounds DEF CallErrs, RetriesLeft, Inv, TypeOK
  <2>2. QED
    BY <1>3, <2>1, RetryBounds
<1>7. QED
  BY <1>1, <1>2, <1>4, <1>5, <1>6 DEF Inv

LEMMA CallPanicsInv ==
  ASSUME Inv, CallPanics
  PROVE  Inv'
<1>1. calls' \in [1..Window -> Outcomes \cup {"none", "panic"}]
  BY PushType DEF CallPanics, Inv, TypeOK
<1>2. attempt' \in 0..(Retry - 1)
  BY RetryBounds DEF CallPanics
<1>3. QED
  BY <1>1, <1>2, WindowAssumption
     DEF CallPanics, Inv, TypeOK, RunIsRecorded, RoundIsRecorded,
         HealthyVerdictEarned, UnhealthyVerdictEarned

LEMMA StepInv == Inv /\ [Next]_vars => Inv'
<1> SUFFICES ASSUME Inv, [Next]_vars PROVE Inv'
  OBVIOUS
<1>1. CASE BackendChanges
  BY <1>1 DEF BackendChanges, worker, Inv, TypeOK, RunIsRecorded, RoundIsRecorded,
              HealthyVerdictEarned, UnhealthyVerdictEarned, LastJudged
<1>2. CASE CallAnswers
  BY <1>2, CallAnswersInv
<1>3. CASE CallErrs
  BY <1>3, CallErrsInv
<1>4. CASE CallPanics
  BY <1>4, CallPanicsInv
<1>5. CASE UNCHANGED vars
  BY <1>5 DEF vars, Inv, TypeOK, RunIsRecorded, RoundIsRecorded,
              HealthyVerdictEarned, UnhealthyVerdictEarned, LastJudged
<1>6. QED
  BY <1>1, <1>2, <1>3, <1>4, <1>5 DEF Next, doProbe

(***************************************************************************)
(* The variables keep their types and the attempt index stays below the    *)
(* retry count, for every port a spec may name.                            *)
(***************************************************************************)
THEOREM TypeCorrect == Spec => []TypeOK
<1>1. Inv => TypeOK
  BY DEF Inv
<1>2. QED
  BY <1>1, InitInv, StepInv, PTL DEF Spec

(***************************************************************************)
(* No host is reported healthy early: whatever the backend answers and in  *)
(* whatever order, only after the consecutive successes its threshold asks *)
(* for, or an answer the code takes as one (see HealthyVerdictEarned).     *)
(***************************************************************************)
THEOREM HealthyEarned == Spec => []HealthyVerdictEarned
<1>1. Inv => HealthyVerdictEarned
  BY DEF Inv
<1>2. QED
  BY <1>1, InitInv, StepInv, PTL DEF Spec

(***************************************************************************)
(* ... nor unhealthy early: only after the consecutive failures its        *)
(* threshold asks for, or when every retry of a call returned an error.    *)
(***************************************************************************)
THEOREM UnhealthyEarned == Spec => []UnhealthyVerdictEarned
<1>1. Inv => UnhealthyVerdictEarned
  BY DEF Inv
<1>2. QED
  BY <1>1, InitInv, StepInv, PTL DEF Spec

------------------------------------------------------------------------------
(* The converse: no verdict is withheld.                                    *)

\* The run is the whole run: the answer before it had another result, and
\* without a run nothing has been counted.
RunIsWhole ==
  /\ resultRun = 0 <=> lastResult = "none"
  /\ ResultOf(judged[1]) = lastResult
  /\ resultRun \in 1..(Window - 1) => ResultOf(judged[resultRun + 1]) # lastResult

\* While the loop runs, the run is short of its threshold ...
RunStillShort ==
  pc = "probe" /\ resultRun > 0 => BelowThreshold(lastResult, resultRun)

\* ... and the call before those of this round did not return an error.
RoundIsWhole ==
  pc = "probe" => calls[attempt + 1] # "error"

Open == RunIsWhole /\ RunStillShort /\ RoundIsWhole

LEMMA InitOpen == Init => Open
<1> SUFFICES ASSUME Init PROVE Open
  OBVIOUS
<1>1. 1 \in 1..Window
  BY WindowAssumption
<1>2. calls[1] = "none" /\ judged[1] = "none"
  BY <1>1 DEF Init
<1>3. QED
  BY <1>2 DEF Init, Open, RunIsWhole, RunStillShort, RoundIsWhole, ResultOf

LEMMA CallAnswersOpen ==
  ASSUME Inv, Open, CallAnswers
  PROVE  Open'
<1> DEFINE o == runProbe(port)
           r == ResultOf(o)
<1>1. o \in Outcomes \ {"error"} /\ r \in {"success", "failure", "warning", "unknown"}
  BY runProbeType DEF CallAnswers, Inv, TypeOK, ResultOf, Outcomes
<1>2. /\ lastResult' = r /\ resultRun' = NextRun(r) /\ judged' = Push(judged, o)
      /\ port' = port /\ attempt' = 0 /\ calls' = Push(calls, o)
  BY DEF CallAnswers
<1>3. resultRun \in Nat /\ resultRun' \in Nat /\ resultRun' > 0 /\ Window \in Nat
  BY <1>2, RetryBounds DEF NextRun, Inv, TypeOK
<1>4. judged'[1] = o /\ \A k \in 1..Window : k # 1 => judged'[k] = judged[k - 1]
  BY <1>2, PushFacts
<1>5. ASSUME resultRun' \in 1..(Window - 1)
      PROVE  ResultOf(judged'[resultRun' + 1]) # lastResult'
  <2>1. \A n \in 1..(Window - 1) : judged'[n + 1] = judged[n]
    <3> SUFFICES ASSUME NEW n \in 1..(Window - 1) PROVE judged'[n + 1] = judged[n]
      OBVIOUS
    <3>1. n + 1 \in 1..Window /\ n + 1 # 1 /\ (n + 1) - 1 = n
      BY <1>3
    <3>2. QED
      BY <1>4, <3>1
  <2>2. judged'[resultRun' + 1] = judged[resultRun']
    BY <1>5, <2>1
  <2>3. CASE lastResult = r
    <3>1. resultRun' = resultRun + 1 /\ resultRun \in 1..(Window - 1)
      BY <1>1, <1>2, <1>3, <1>5, <2>3 DEF NextRun, Open, RunIsWhole
    <3>2. QED
      BY <1>2, <2>2, <2>3, <3>1 DEF Open, RunIsWhole
  <2>4. CASE lastResult # r
    <3>1. resultRun' = 1
      BY <1>2, <2>4 DEF NextRun
    <3>2. QED
      BY <1>2, <2>2, <2>4, <3>1 DEF Open, RunIsWhole
  <2>5. QED
    BY <2>3, <2>4
<1>6. RunIsWhole'
  BY <1>1, <1>2, <1>3, <1>4, <1>5 DEF RunIsWhole
<1>7. RunStillShort'
  <2> SUFFICES ASSUME pc' = "probe" PROVE BelowThreshold(r, NextRun(r))
    BY <1>2 DEF RunStillShort, BelowThreshold, SuccessThreshold, FailureThreshold
  <2>1. QED
    BY DEF CallAnswers
<1>8. RoundIsWhole'
  BY <1>1, <1>2, PushFacts DEF RoundIsWhole
<1>9. QED
  BY <1>6, <1>7, <1>8 DEF Open

LEMMA CallErrsOpen ==
  ASSUME Inv, Open, CallErrs
  PROVE  Open'
<1>1. UNCHANGED <<port, lastResult, resultRun, judged>> /\ pc = "probe"
  BY DEF CallErrs
<1>2. RunIsWhole' /\ RunStillShort'
  BY <1>1 DEF Open, RunIsWhole, RunStillShort, BelowThreshold, SuccessThreshold,
              FailureThreshold
<1>3. RoundIsWhole'
  <2> SUFFICES ASSUME pc' = "probe" PROVE calls'[attempt' + 1] # "error"
    BY DEF RoundIsWhole
  <2>1. attempt' = attempt + 1 /\ attempt + 1 < Retry /\ attempt \in Nat
    BY RetryBounds DEF CallErrs, RetriesLeft, Inv, TypeOK
  <2>2. attempt + 2 \in 1..Window /\ attempt + 2 # 1 /\ (attempt + 2) - 1 = attempt + 1
    BY <2>1, RetryBounds
  <2>3. calls'[attempt + 2] = calls[attempt + 1]
    BY <2>2, PushFacts DEF CallErrs
  <2>4. QED
    BY <1>1, <2>1, <2>3 DEF Open, RoundIsWhole
<1>4. QED
  BY <1>2, <1>3 DEF Open

LEMMA StepOpen == Inv /\ Open /\ [Next]_vars => Open'
<1> SUFFICES ASSUME Inv, Open, [Next]_vars PROVE Open'
  OBVIOUS
<1>1. CASE CallAnswers
  BY <1>1, CallAnswersOpen
<1>2. CASE CallErrs
  BY <1>2, CallErrsOpen
<1>3. CASE CallPanics
  BY <1>3, PushFacts
     DEF CallPanics, Open, RunIsWhole, RunStillShort, RoundIsWhole, BelowThreshold,
         SuccessThreshold, FailureThreshold
<1>4. CASE BackendChanges \/ UNCHANGED vars
  <2>1. UNCHANGED <<port, worker>>
    BY <1>4 DEF BackendChanges, vars, worker
  <2>2. QED
    BY <2>1 DEF worker, Open, RunIsWhole, RunStillShort, RoundIsWhole, BelowThreshold,
                SuccessThreshold, FailureThreshold
<1>5. QED
  BY <1>1, <1>2, <1>3, <1>4 DEF Next, doProbe

\* A run short of its threshold does not fill it.
LEMMA ShortIsNotFull ==
  ASSUME Inv, Open, pc = "probe", NEW n \in Int, n <= Window, NEW r, r # "none",
         r = lastResult /\ resultRun > 0 => resultRun < n
  PROVE  ~LastJudged(n, r)
<1> SUFFICES ASSUME \A k \in 1..AtLeastOne(n) : ResultOf(judged[k]) = r PROVE FALSE
  BY DEF LastJudged
<1>1. AtLeastOne(n) \in Nat /\ AtLeastOne(n) >= 1 /\ n <= AtLeastOne(n) /\ AtLeastOne(n) <= Window
  BY WindowAssumption DEF AtLeastOne
<1>2. ResultOf(judged[1]) = r
  BY <1>1
<1>3. lastResult = r /\ resultRun \in Nat /\ resultRun > 0
  BY <1>2 DEF Inv, TypeOK, Open, RunIsWhole
<1>4. resultRun + 1 \in 1..AtLeastOne(n) /\ resultRun \in 1..(Window - 1)
  BY <1>1, <1>3, WindowAssumption
<1>5. QED
  BY <1>3, <1>4 DEF Open, RunIsWhole

(***************************************************************************)
(* The loop ends with the answer that fills a threshold, with an answer    *)
(* taken at once, or with the last retry: for every port, retry count and  *)
(* prober behaviour, a worker that still probes owes no verdict.           *)
(***************************************************************************)
THEOREM NothingWithheld == Spec => []VerdictNotWithheld
<1>1. Inv /\ Open => VerdictNotWithheld
  <2> SUFFICES ASSUME Inv, Open, pc = "probe" PROVE VerdictNotWithheld
    BY DEF VerdictNotWithheld
  <2>1. port \in Ports /\ resultRun \in Nat
    BY DEF Inv, TypeOK
  <2>2. ~LastJudged(SuccessThreshold(port), "success")
    <3>1. lastResult = "success" /\ resultRun > 0 => resultRun < SuccessThreshold(port)
      BY DEF Open, RunStillShort, BelowThreshold
    <3>2. QED
      BY <2>1, <3>1, ShortIsNotFull, ThresholdBounds
  <2>3. ~LastJudged(FailureThreshold(port), "failure")
    <3>1. lastResult = "failure" /\ resultRun > 0 => resultRun < FailureThreshold(port)
      BY DEF Open, RunStillShort, BelowThreshold
    <3>2. QED
      BY <2>1, <3>1, ShortIsNotFull, ThresholdBounds
  <2>4. judged[1] \notin {"warning", "unknown"}
    BY <2>1 DEF Open, RunIsWhole, RunStillShort, BelowThreshold, ResultOf
  <2>5. \E k \in 1..Retry : calls[k] # "error"
    <3>1. attempt + 1 \in 1..Retry
      BY RetryBounds DEF Inv, TypeOK
    <3>2. QED
      BY <3>1 DEF Open, RoundIsWhole
  <2>6. QED
    BY <2>2, <2>3, <2>4, <2>5 DEF VerdictNotWithheld
<1>2. QED
  BY <1>1, InitInv, StepInv, InitOpen, StepOpen, PTL DEF Spec

\* A port that names its gRPC service never makes runProbe panic.
LEMMA NamedAnswers ==
  ASSUME NEW p \in Ports, answer \in Answers, ~Nameless(p)
  PROVE  runProbe(p) \in Outcomes
<1>1. ChosenHandler(p) \in {"none", "http", "tcp", "udp", "grpc"}
  BY DEF ChosenHandler
<1>2. p.service \in BOOLEAN
  BY PortsAssumption DEF PortType
<1>3. QED
  BY <1>1, <1>2, AnswersAssumption DEF runProbe, Outcomes, Nameless

(***************************************************************************)
(* Every call of a loop that goes on has brought its end nearer, for any   *)
(* thresholds and retry count: with the backend settled, the loop ends     *)
(* within CallsLeft calls.                                                 *)
(***************************************************************************)
THEOREM LoopAdvances == Spec => CallsAreSpent
<1>1. ASSUME Inv, doProbe, pc' = "probe", ~Nameless(port)
      PROVE  CallsLeft' \in Nat /\ CallsLeft' < CallsLeft
  <2> DEFINE o == runProbe(port)
             r == ResultOf(o)
             threshold == IF r = "success" THEN SuccessThreshold(port)
                          ELSE FailureThreshold(port)
  <2>1. UNCHANGED <<port, answer>> /\ port \in Ports
    BY <1>1 DEF doProbe, CallAnswers, CallErrs, CallPanics, Inv, TypeOK
  <2>2. o \in Outcomes /\ runProbe(port)' = o
    BY <1>1, <2>1, NamedAnswers DEF Inv, TypeOK, runProbe, ChosenHandler, extractPort
  <2>3. threshold \in Int /\ threshold' = threshold
    BY <2>1, <2>2, ThresholdBounds DEF SuccessThreshold, FailureThreshold
  <2>4. CASE CallAnswers
    <3>1. /\ o # "error" /\ BelowThreshold(r, NextRun(r))
          /\ lastResult' = r /\ resultRun' = NextRun(r)
      BY <1>1, <2>4 DEF CallAnswers
    <3>2. NextRun(r) \in Nat /\ NextRun(r) < threshold
      BY <1>1, <3>1 DEF NextRun, BelowThreshold, Inv, TypeOK
    <3>3. CallsLeft = 1 + threshold - NextRun(r)
      BY <3>1 DEF CallsLeft
    <3>4. NextRun(r)' = NextRun(r) + 1
      BY <2>2, <3>1 DEF NextRun
    <3>5. CallsLeft' = IF BelowThreshold(r, NextRun(r))' THEN 1 + threshold - (NextRun(r) + 1)
                       ELSE 1
      BY <2>2, <2>3, <3>1, <3>4 DEF CallsLeft
    <3>6. BelowThreshold(r, NextRun(r))' => NextRun(r) + 1 < threshold
      BY <2>1, <2>2, <3>4 DEF BelowThreshold, SuccessThreshold, FailureThreshold
    <3>7. QED
      BY <2>3, <3>2, <3>3, <3>5, <3>6
  <2>5. CASE CallErrs
    <3>1. o = "error" /\ attempt' = attempt + 1 /\ attempt + 1 < Retry /\ attempt \in Nat
      BY <1>1, <2>5, RetryBounds DEF CallErrs, RetriesLeft, Inv, TypeOK
    <3>2. CallsLeft = Retry - attempt /\ CallsLeft' = Retry - (attempt + 1)
      BY <2>2, <3>1 DEF CallsLeft, Retry
    <3>3. QED
      BY <3>1, <3>2, RetryBounds
  <2>6. ~CallPanics
    BY <2>2 DEF CallPanics, Outcomes
  <2>7. QED
    BY <1>1, <2>4, <2>5, <2>6 DEF doProbe
<1>2. Inv /\ [Next]_vars
      => [doProbe /\ pc' = "probe" /\ ~Nameless(port)
            => CallsLeft' \in Nat /\ CallsLeft' < CallsLeft]_vars
  BY <1>1
<1>3. QED
  BY <1>2, InitInv, StepInv, PTL DEF Spec, CallsAreSpent

=============================================================================
