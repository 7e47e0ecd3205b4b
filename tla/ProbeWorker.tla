----------------------------- MODULE ProbeWorker -----------------------------
(***************************************************************************)
(* The prober of one (port, host) pair: the goroutine body of              *)
(* clusterEndpointConvertEndpointSubset (controllers/sync.go) around the   *)
(* loop "for w.doProbe() {}", with doProbe, runProbeWithRetries and        *)
(* runProbe of controllers/run_probe.go.                                   *)
(*                                                                         *)
(* One step is one call of runProbe together with everything doProbe does  *)
(* with its answer.  The probed backend is the environment: it may change  *)
(* what it answers at any time.                                            *)
(***************************************************************************)
EXTENDS Integers

CONSTANTS
  Ports,      \* the ServicePort values a worker may be started for
  MaxRetry,   \* the --maxretry flag
  Answers,    \* the outcomes the prober libraries may give
  Window      \* how many past outcomes the history variables remember

Kinds == {"http", "tcp", "udp", "grpc"}

\* "failure" carries an output text, "silent" is a Failure without one, and
\* "error" is a non-nil error with any result.
Outcomes == {"success", "failure", "silent", "warning", "unknown", "error"}

\* probe.Result of an outcome: only failures come in two forms.
ResultOf(o) == IF o = "silent" THEN "failure" ELSE o

PortType == [handlers : SUBSET Kinds, targetPort : Int, service : BOOLEAN,
             successThreshold : Int, failureThreshold : Int]

\* A zero threshold of the spec stands for the default (sync.go:146-151).
SuccessThreshold(p) == IF p.successThreshold = 0 THEN 1 ELSE p.successThreshold
FailureThreshold(p) == IF p.failureThreshold = 0 THEN 3 ELSE p.failureThreshold

\* Reconciler.RetryCount: the flag when it is positive and 1 otherwise.
Retry == IF MaxRetry > 0 THEN MaxRetry ELSE 1

ASSUME PortsAssumption == Ports \subseteq PortType
ASSUME MaxRetryAssumption == MaxRetry \in Int
ASSUME AnswersAssumption == Answers \subseteq Outcomes /\ Answers # {}
ASSUME WindowAssumption ==
  /\ Window \in Nat \ {0}
  /\ Retry <= Window
  /\ \A p \in Ports : SuccessThreshold(p) <= Window /\ FailureThreshold(p) <= Window

VARIABLES
  port,       \* the ServicePort this worker probes
  answer,     \* what the backend's prober answers now
  pc,         \* "probe" while "for w.doProbe() {}" runs, then "done"
  attempt,    \* i of runProbeWithRetries: failed calls of this round
  lastResult, \* work.lastResult, "none" for the empty string it starts with
  resultRun,  \* work.resultRun
  err,        \* work.err # nil
  calls,      \* history: outcomes of the last calls of runProbe, newest first
  judged      \* history: outcomes doProbe has counted, newest first

vars == <<port, answer, pc, attempt, lastResult, resultRun, err, calls, judged>>
worker == <<pc, attempt, lastResult, resultRun, err, calls, judged>>

Push(history, o) ==
  [k \in 1..Window |-> IF k = 1 THEN o ELSE history[k - 1]]

(***************************************************************************)
(* runProbe tries the handlers in a fixed order and runs the first that is *)
(* set; sync.go sets one only when the port asks for it.                   *)
(***************************************************************************)
ChosenHandler(p) ==
  CASE "http" \in p.handlers -> "http"
    [] "http" \notin p.handlers /\ "tcp" \in p.handlers -> "tcp"
    [] p.handlers \cap {"http", "tcp"} = {} /\ "udp" \in p.handlers -> "udp"
    [] p.handlers = {"grpc"} -> "grpc"
    [] OTHER -> "none"

\* extractPort accepts 1..65535.
extractPort(p) == p.targetPort > 0 /\ p.targetPort < 65536

(***************************************************************************)
(* What one call of runProbe does: without a handler it answers Warning; a *)
(* bad port number is an error; the gRPC branch dereferences the Service   *)
(* pointer and panics when the spec leaves it out; otherwise the library's *)
(* answer is passed on.                                                    *)
(***************************************************************************)
runProbe(p) ==
  CASE ChosenHandler(p) = "none" -> "warning"
    [] ChosenHandler(p) = "grpc" -> IF p.service THEN answer ELSE "panic"
    [] ChosenHandler(p) \in {"http", "tcp", "udp"} ->
         IF extractPort(p) THEN answer ELSE "error"

------------------------------------------------------------------------------

Init ==
  /\ port \in Ports
  /\ answer \in Answers
  /\ pc = "probe"
  /\ attempt = 0
  /\ lastResult = "none"
  /\ resultRun = 0
  /\ err = FALSE
  /\ calls = [k \in 1..Window |-> "none"]
  /\ judged = [k \in 1..Window |-> "none"]

\* The environment: the backend starts, stops or misbehaves.
BackendChanges ==
  /\ answer' \in Answers
  /\ UNCHANGED <<port, worker>>

MutRunKept(r) == resultRun + 1
MutRunRestarts(r) == 1

\* work.resultRun after an answer with result r.
NextRun(r) == IF lastResult = r THEN resultRun + 1 ELSE 1

MutBelowIgnoresFailures(r, run) == r = "success" /\ run < SuccessThreshold(port)

MutBelowOrAt(r, run) ==
  \/ r = "failure" /\ run <= FailureThreshold(port)
  \/ r = "success" /\ run <= SuccessThreshold(port)

\* The threshold of result r is not reached by a run of this length.
BelowThreshold(r, run) ==
  \/ r = "failure" /\ run < FailureThreshold(port)
  \/ r = "success" /\ run < SuccessThreshold(port)

(***************************************************************************)
(* The call returned without error, so runProbeWithRetries stops retrying  *)
(* and doProbe counts the result.  Below its threshold the loop goes on;   *)
(* at it the worker reports, unhealthy only for a failure with an output.  *)
(***************************************************************************)
CallAnswers ==
  LET o == runProbe(port)
      r == ResultOf(o)
  IN /\ pc = "probe"
     /\ o \notin {"error", "panic"}
     /\ attempt' = 0
     /\ lastResult' = r
     /\ resultRun' = NextRun(r)
     /\ IF BelowThreshold(r, NextRun(r))
        THEN UNCHANGED <<pc, err>>
        ELSE pc' = "done" /\ err' = (o = "failure")
     /\ calls' = Push(calls, o)
     /\ judged' = Push(judged, o)
     /\ UNCHANGED <<port, answer>>

MutOneMoreRetry == attempt < Retry

\* "i < retries" still holds after this attempt.
RetriesLeft == attempt + 1 < Retry

(***************************************************************************)
(* The call returned an error: try again up to Retry times, then doProbe   *)
(* records the error and reports at once, whatever the thresholds are.     *)
(***************************************************************************)
CallErrs ==
  /\ pc = "probe"
  /\ runProbe(port) = "error"
  /\ IF RetriesLeft
     THEN attempt' = attempt + 1 /\ UNCHANGED <<pc, err>>
     ELSE attempt' = 0 /\ pc' = "done" /\ err' = TRUE
  /\ calls' = Push(calls, "error")
  /\ UNCHANGED <<port, answer, lastResult, resultRun, judged>>

(***************************************************************************)
(* The call panicked: HandleCrash runs the handler that sets keepGoing,    *)
(* panics again, and the outer recover swallows it, so doProbe returns     *)
(* true and the loop calls it again.                                       *)
(***************************************************************************)
CallPanics ==
  /\ pc = "probe"
  /\ runProbe(port) = "panic"
  /\ attempt' = 0
  /\ calls' = Push(calls, "panic")
  /\ UNCHANGED <<port, answer, pc, lastResult, resultRun, err, judged>>

doProbe == CallAnswers \/ CallErrs \/ CallPanics

Next == BackendChanges \/ doProbe

Spec == Init /\ [][Next]_vars

\* The goroutine is scheduled by the Go runtime and every prober call is
\* bounded by its timeout, so the worker's own steps are not delayed forever.
FairSpec == Spec /\ WF_vars(doProbe)

------------------------------------------------------------------------------

\* Types of all variables, with the bound runProbeWithRetries puts on i.
TypeOK ==
  /\ port \in Ports
  /\ answer \in Answers
  /\ pc \in {"probe", "done"}
  /\ attempt \in 0..(Retry - 1)
  /\ lastResult \in {"none", "success", "failure", "warning", "unknown"}
  /\ resultRun \in Nat
  /\ err \in BOOLEAN
  /\ calls \in [1..Window -> Outcomes \cup {"none", "panic"}]
  /\ judged \in [1..Window -> Outcomes \cup {"none"}]

AtLeastOne(n) == IF n < 1 THEN 1 ELSE n

\* The last n outcomes doProbe counted all have result r.
LastJudged(n, r) == \A k \in 1..AtLeastOne(n) : ResultOf(judged[k]) = r

(***************************************************************************)
(* A worker reports a host healthy only when SuccessThreshold consecutive  *)
(* answers were successes, or the last answer was one doProbe takes at     *)
(* once (warning, unknown), or FailureThreshold consecutive failures ended *)
(* in one without an output, which run_probe.go:92 does not turn into an   *)
(* error.  Errors retried in between and backend changes never shorten it. *)
(***************************************************************************)
HealthyVerdictEarned ==
  pc = "done" /\ ~err =>
    \/ LastJudged(SuccessThreshold(port), "success")
    \/ judged[1] \in {"warning", "unknown"}
    \/ judged[1] = "silent" /\ LastJudged(FailureThreshold(port), "failure")

(***************************************************************************)
(* A worker reports a host unhealthy, which removes it from the Endpoints, *)
(* only after FailureThreshold consecutive failures or after Retry calls   *)
(* in a row that returned an error: a flapping backend is not removed      *)
(* early.                                                                  *)
(***************************************************************************)
UnhealthyVerdictEarned ==
  pc = "done" /\ err =>
    \/ LastJudged(FailureThreshold(port), "failure")
    \/ \A k \in 1..Retry : calls[k] = "error"

(***************************************************************************)
(* ... nor is a verdict withheld: a worker whose last answers already fill *)
(* a threshold, whose last answer is one doProbe takes at once, or whose   *)
(* last Retry calls all returned an error, is no longer probing.           *)
(***************************************************************************)
VerdictNotWithheld ==
  pc = "probe" =>
    /\ ~LastJudged(SuccessThreshold(port), "success")
    /\ ~LastJudged(FailureThreshold(port), "failure")
    /\ judged[1] \notin {"warning", "unknown"}
    /\ \E k \in 1..Retry : calls[k] # "error"

\* The backend settles on one answer.
Settles == \E a \in Answers : <>[](answer = a)

(***************************************************************************)
(* A backend that settles on one answer is reported: the loop around       *)
(* doProbe ends, so the round that waits for it can go on.                 *)
(***************************************************************************)
SettledBackendReported == Settles => <>(pc = "done")

\* How many more calls end the loop if the backend keeps answering as now.
CallsLeft ==
  LET o == runProbe(port)
      r == ResultOf(o)
      threshold == IF r = "success" THEN SuccessThreshold(port) ELSE FailureThreshold(port)
  IN IF o = "error" THEN Retry - attempt
     ELSE IF BelowThreshold(r, NextRun(r)) THEN 1 + threshold - NextRun(r)
     ELSE 1

\* The chosen handler is a gRPC one without the service name that it needs.
Nameless(p) == ChosenHandler(p) = "grpc" /\ ~p.service

(***************************************************************************)
(* Every call either ends the loop or brings its end nearer, with the run  *)
(* of results and the retries counted so far both put to use: only a new   *)
(* answer of the backend can set the worker back.                          *)
(***************************************************************************)
CallsAreSpent ==
  [][doProbe /\ pc' = "probe" /\ ~Nameless(port)
     => CallsLeft' \in Nat /\ CallsLeft' < CallsLeft]_vars

(***************************************************************************)
(* So a settled backend is reported, for every port whose gRPC handler, if *)
(* it has one to run, names its service: no combination of thresholds,     *)
(* retries and port numbers keeps the loop from ending.                    *)
(***************************************************************************)
SettledNamedBackendReported ==
  ~Nameless(port) /\ Settles => <>(pc = "done")

=============================================================================
