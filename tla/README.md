# endpoints-operator in TLA+

A model of the operator in `controllers/`: what it does to a `ClusterEndpoint`
("cep"), to the `Service` and the `Endpoints` of the same name, and to the
status, while backends flap, other writers interfere, calls fail and the
process restarts; of the replicas that run it; and of `cepctl`, which makes a cep of
what exists. TLC checks the models on small instances; TLAPS proves the
central safety properties of each of them for every value of the constants.

Paths below are relative to the repository.

## The system and its parts

| part | code | state it keeps | operations |
|---|---|---|---|
| reconciler | `controllers/controller.go`, `sync.go` | none between rounds except the workqueue; per round its copy of the cep, the retry counters, the healthy subsets, `syncError` | `Reconcile`, `reconcile`, `syncService`, `syncEndpoint`, `updateStatus`, `SetupWithManager` |
| status conditions | `controllers/helper.go` | phase and conditions of the cep | `isConditionTrue`, `isConditionsTrue`, `updateCondition`, `syncFinalStatus` |
| probe round | `clusterEndpointConvertEndpointSubset` in `sync.go` | WaitGroup, mutex, `data`, `errors`, `pointList` | one goroutine per (port, host), wait, count |
| probe worker | `controllers/run_probe.go` | `work`: `lastResult`, `resultRun`, `err` | `doProbe`, `runProbeWithRetries`, `runProbe`, `extractPort` |
| port conversion | `convertServicePorts`, `ToAggregate` in `helper.go`, `ToEndpointSubset` in `types.go` | none | pure functions |
| metrics | `utils/metrics/` | Prometheus counters | `RecordCheck`, `RecordFailedCheck`, `RecordSuccessfulCheck` |
| operator process | `cmd/endpoints-operator/` | flags, leader lease, workqueue | `run`: start when leader, end when the lease is lost, a fixed number of workers |
| cepctl | `cmd/cepctl/` | none | takes a Service and its Endpoints over into a new cep: `Validate`, `run`, `findPortInSvc` |
| API types, clients, chart | `apis/`, `utils/`, `config/` | none | registration, generated copies, set-up |

**How they interact.** An informer cache lags behind the API server. An event of
a cep (a new generation, not a label or a status) or of an owned Service puts the
key in the workqueue; the Endpoints are not watched. A worker reads the cep from
the cache, adds or removes the finalizer, and runs `syncService`, then
`syncEndpoint`, which probes every target concurrently and stores the healthy
ones, then writes the status and asks to be called again after `periodSeconds`.
Both sync functions are closures inside `RetryOnConflict` around
`CreateOrUpdate`: they read the cache and write under the resourceVersion read.
Neither returns an error to `reconcile`; failures are only seen in the status.
The chart runs two processes with `--leader-elect`: one works, each of its
workers on another key. `cepctl` shares only the API server with them: it reads the
Service, reads the Endpoints and creates the cep.

**What is hard here.** Reads from a lagging cache followed by writes; other
controllers, users and the garbage collector between the two; whole closures run
again after a conflict; goroutines with one lock that does not cover
everything; a probe loop that ends only on a verdict; panics that are eaten;
failures that nobody retries but the next period; deletion and a new cep of the same
name; a crash between any two calls; an old leader whose writes arrive late; rounds that
never end and keep a worker; a take-over in two reads, a create and two writes, with
clients in the middle. `PROJECT.json` lists these hazards at
their lines, with the property meant for each, or why there is none.

**What makes each part correct.**

- reconciler: never writes over another controller's object; only syncs for
  a cep that exists and cannot vanish; reports Healthy only for a complete sync;
  converges; completes deletions; goes on probing.
- status: speaks of the last round, whatever conditions it started from.
- probe round: each target stands once in the answer, on its verdict's side; it returns.
- probe worker: no verdict before its threshold, and a verdict eventually.
- operator process: no key worked on twice, no older finding over a newer one, every key served.
- cepctl: clients lose nothing by the take-over and gain nothing they did not reach.

## Modules

| module | models | checked by | proofs |
|---|---|---|---|
| `ProbeWorker` (`MCProbeWorker`) | one goroutine's loop `for w.doProbe() {}` | `worker`, `worker_grpc` | `ProbeWorkerProofs` |
| `ProbeVerdicts` | abstract: a round is one atomic, complete answer | as `KeepsPromise` in `round` | |
| `ProbeRound` (`MCProbeRound`) | goroutines, mutex, WaitGroup, racing `pointList` | `round`, `round_checks` | `ProbeRoundProofs` |
| `Status` | the condition functions | through the next two | |
| `StatusHistory` | the stored status over many rounds | `status` | `StatusHistoryProofs` |
| `Reconciler` (`MCReconciler`) | controller, cache, workqueue, environment for one cep | `lifecycle`, `ownership`, `convergence`, `conflict`, `no_period` | `ReconcilerProofs` |
| `Lifetime` | abstract: the cep that a round serves lives as long as the round | as `LifetimeKept` in `lifecycle` | |
| `Takeover` (`MCTakeover`) | cepctl, and what the operator makes of its cep | `takeover` | `TakeoverProofs` |
| `Replicas` (`MCReplicas`) | several processes, lease, workqueues, workers, several keys | `replicas` | `ReplicasProofs` |
| `Following` | abstract: the Endpoints show states the backend was in, in order when one is elected | as `EndpointsFollow` in `replicas` | |
| `SumLemmas` | facts about sums and cardinalities for the proofs | | itself |

### ProbeWorker

One step is one call of `runProbe` with all that `runProbeWithRetries` and
`doProbe` do with the answer. `CallAnswers` is an answer without an error (retries
stop, `resultRun` counts, thresholds decide), `CallErrs` an error (retried up to
`Retry` times, then a verdict at once), `CallPanics` a panic that `HandleCrash`
and `recover` turn into "call me again". `BackendChanges` is the environment:
the backend may give any other answer from then on. `runProbe` chooses the
handler in the code's order, rejects target ports outside 1..65535, answers
`warning` with no handler, and panics for a gRPC handler without a service name
(`*service`, line 166). Zero thresholds become 1 and 3. `calls` and `judged` are
history variables of bounded length that only the properties read.
A `Failure` without an output text is the outcome `silent`: line 92 leaves `err`
nil for it, so the verdict is healthy; `HealthyVerdictEarned` names that case.

### ProbeRound

The caller spawns, waits and counts; each goroutine appends its check points,
probes (any verdict), locks, loads and stores `data` or `errors`, unlocks, and is
done. Appends are split into load and store, so a missing lock shows. Appends to
`pointList` really have no lock: of that data race the model keeps the length word
(each append stores the length it loaded plus one) and drops the cells.
`ProbeVerdicts` is what the caller may rely on; `ProbeRound` implements it, with
`data` and `errors` visible only when the round has returned.

### Status and StatusHistory

`RoundStatus` is a whole round of status changes: Initialized, SyncServiceReady,
SyncEndpointReady, then `syncFinalStatus`. Reason and message are one value, the two
times are one value. `StatusHistory` starts each round from the stored status or the
one before it (the cache lags at most one successful update of the status,
because that update needed the version before it) and lets the outcomes vary
in every way. `Reconciler` uses the same functions with the clock stopped.

### Reconciler

`history[k]` holds the versions of the cep, the Service and the Endpoints from the
cached one to the live one. `Store` appends, `Deliver` removes the first, and
delivers the event to the handlers. `fresh[k]` says whether the version the worker
read is still the live one: it stands for the resourceVersion test. The worker is a
program counter through `Reconcile`; `CreateOrUpdate` and `RetryOnConflict` are one
operator, used for both objects with the closures' continuations: up to date,
accepted, conflict (again, or an error after `Steps` tries), rejected (other
owner, exists already, gone, immutable cluster IP), failed. An update of an object that is
gone may be answered either way, as a conflict of its uid or as not found. A failed call may have
taken effect all the same (`Fails`).

| action | code |
|---|---|
| `Start`, `RemoveFinalizer`, `AddFinalizer` | `Reconcile`, controller.go:59-78 |
| `ReadService`, `syncService` | sync.go:36-77 |
| `Probe`, `ReadEndpoints`, `syncEndpoint` | sync.go:78-129, and `ProbeRound` as one verdict per target |
| `ReadStatus`, `updateStatus` | helper.go:33-48, the result in controller.go:131-140 |
| `Deliver`, `TimerFires` | watches and `RequeueAfter`/rate limiter, controller.go:93-102 |
| `Restart` | the process ends anywhere; a new one lists everything |
| `CreateClusterEndpoint` ... `Flip` | users, other controllers, garbage collection, backends |

Abstractions: a target is a port with one host (`ProbeRound` has the rest); labels
and annotations are one value, "plain" or "labelled"; the subsets are a set, though
the code stores them in the order the goroutines finish, and may so write an unchanged set
again; an address in `spec.clusterIP` is not told from none, because the code
tests only for `"None"`; the finalizer library is used as `Reconcile` uses it (remove when
deleted, else make sure it is there) and writes under the version read, which `src/` cannot
show and `FinalizerHeld`, `LifetimeKept` and `OwnershipRespected` rest on. The period is any integer,
of which only the sign matters: `RequeueAfter` is left out for zero (controller.go:137) and not
heeded when negative, which no CRD forbids. One worker serves one key at a time, as the workqueue guarantees.

`Lifetime` is what all this promises about the cep: it is absent, plain, held by the
finalizer or ending; a round serves the one that lives, from the held state on; only one
that is ending and not served is let go, and a new one has a new uid. `LivePhase` and
`Served` map the controller to it.

### Takeover

cepctl's three calls are three steps, so others may write between them: `GetService`
(with `Validate`, the version flag and the headless Service before it), `GetEndpoints`
(more than one subset ends the tool; `GetEndpointsFails` is the dropped error, after
which it goes on with an empty object), `CreateCR` or `Show` (printing). The operator is `StartRound`,
`syncService`, `syncEndpoint`, with `SyncFails` and `Restart` anywhere: a read and the
accepted write after it are one step, which the resourceVersion test allows;
`Reconciler` has what is between them. The data is what this module is about:
`TakenPort`, `findPortInSvc`, `convertServicePorts` (first port of a name wins),
`ToEndpointSubset`, and which targets are healthy. What a client reaches is not in the
repository: `Reach` joins Service ports and addresses by name and protocol, as kube-proxy does.
External, too, are the canonical subsets of the API server (addresses with all
their ports, in an order the tool cannot foresee: `Listings`) and its validation of
Service ports. Of the Endpoints the ready addresses are kept, of the Service the ports,
whether it is headless, and its owner.

### Replicas

| action | code |
|---|---|
| `Start` | server.go:139-164: with `--leader-elect` only who gets the lease starts its controllers, and these list every key |
| `Renew`, `RenewalFails`, `LeaseAges` | the lease of `options.go:40-51`; time is counted in units of 5 seconds |
| `LoseLease`, `Crash`, `Restart` | server.go:160: `klog.Fatalf` when the manager returns; the Deployment starts a new process |
| `Take` | a free worker (`MaxConcurrentReconciles`) takes the first key of the workqueue |
| `Probe`, `Read`, `ReadOld`, `Write`, `Conflict` | sync.go:88-116: a round probes, then reads (perhaps an old version), then writes under the version it read, or probes again |
| `Finish`, `TimerFires`, `Event`, `Add` | the end of a round, its period and the watches; a key that a worker has is added after that |
| `Arrives` | a write of a process that is gone reaches the API server |

The backend of a key is the number of its changes, so "older" can be said. A key in
`Stuck` never ends its round (see `worker_grpc`). The clocks of the lease run at one
speed, and no time passes between the deadline of a leader that cannot renew and the end of its
process, so `OneAtATime` is about the two durations and not about a process that lingers. Everything else a round does is in `Reconciler`. `Following` is what all replicas
are to a reader of the Endpoints: one writer that never shows what the backend was not.

## Runs

| run | specification | bounds | states | result |
|---|---|---|---|---|
| `worker` | fair | 7 handler sets, target ports 0, 65535, 65536, thresholds -1, 0, 2, two tries, all six outcomes, history of 3 | 67,482 | holds |
| `worker_grpc` | fair | the README's gRPC port | 24 | `SettledBackendReported` violated |
| `round` | fair | three targets with two, one and no handler | 13,586 | holds |
| `round_checks` | safety | three targets with one handler each | | `ChecksAddUp` violated |
| `status` | safety | two error texts, clock 0..2 | 39,421 | holds |
| `lifecycle` | fair | a spec with a period and one without, two of create, edit, delete, fault, crash | 318,587 | holds |
| `ownership` | safety | an unowned Service and Endpoints beforehand, two of seize, drift, remove, flip, fault | 641,208 | holds |
| `convergence` | fair | a plain and a headless spec, no or an unowned Service and unowned Endpoints beforehand, one of edit, relabel, seize, drift, remove, flip, fault, crash | 234,215 | holds |
| `conflict` | safety | two ports, two of flip, drift | | `UnhealthyIsEarned` violated |
| `no_period` | fair | a spec without a period and one with a negative one | 4,824 | `ProbedPeriodically` violated |
| `takeover` | fair | two Services, with an address or headless, or none; six sets of addresses or no Endpoints; periods -1, 0, 10; three sets of backends; two of edit, remove, failed call, restart | 80,508 | holds |
| `replicas` | fair | two replicas with leader election, two workers, three keys, one stuck; four of backend change, event, lagging read, failed renewal, crash | 226,449 | holds |

`OwnershipRespected` is in both `ownership`, where others take the objects, and `lifecycle`, where the
cep they belong to vanishes and comes back.

**Why these bounds are enough to meet the hazards.** In `worker` a threshold
of 2 and the default of 3 make runs that are cut short, continued and restarted; a
third try or a longer window adds only length. In `round` three goroutines let one hold
the lock while two race. In `status` two error texts distinguish "same status, other message".
In the reconciler runs `Budget` bounds how often the environment acts in one
behaviour, not when: every placement between any two calls is explored. In `lifecycle` an edit that changes the period and a
deletion under one round are the news a worker may miss. Two actions
are what the known interactions need (a drift that makes a conflict and a flip before the
retry; a delete and a create under one round; a fault and a crash). `Steps = 2` is
the shortest retry that both retries and gives up; the code has 5.
All caches may lag by any number of versions; the number is bounded by the budget.
In `takeover` the sets of addresses are one per case the code distinguishes: none,
two targets under one name, TCP and UDP, one name with both protocols, two subsets, a name
that is too long or that one Service lacks; two disturbances are one between
the tool's reads and one after. In `replicas` three keys over two workers make two keys share
one while the third keeps the other; a failed renewal needs two steps to reach the
deadline and leaves two for a crash, a change or a late write.
Deadlock checking is off where the system may really stop: a returned round, a
status with the clock at its end, an operator with no cep left or no period, a tool that
ended with an error, a process whose workers are all stuck.

**What the passing runs show.** Each property's comment in the module says it in
full. In short: verdicts are earned and not withheld, and every call of a worker brings its
verdict nearer; answers are complete, and a round is never stuck and returns; the check
counter loses checks but never invents one; the status follows the last round; a syncing
round always has its cep, with its finalizer, and comes to its end; a cep that is being deleted or has a
positive period is never forgotten; the operator never writes over a
foreign object; Healthy is earned; once disturbances stop, everything
is brought in line and deletions complete. (One thing is not brought in line: a Service that was
made headless for an earlier spec. `Converges` names it, and promises an address only where no
spec ever asked for a headless Service.) Clients keep what they reach through a
take-over, at every step of it, except where `Seamless` says otherwise: others wrote
meanwhile, the read of the Endpoints failed, Service and Endpoints disagree on a
protocol, or `--probe` finds no TCP listener (a UDP server has none). No process loses sight of a key. Replicas with
leader election never work on one key together and never take the Endpoints back, and a
key is served as long as fewer keys are stuck than there are workers. The chart's default
is one worker: there one stuck key stops all.

**What the violated ones show.** Four disagreements between the code and what its own
documentation says, quoted under `findings` in `PROJECT.json`:

1. A gRPC handler without `service`, as in the README's example, makes the probe
   loop, and with it the reconcile worker, run for ever (run_probe.go:166).
2. `syncError` survives a conflict retry (sync.go:92): all ports are stored as healthy and
   the cep is UnHealthy until the next round.
3. `periodSeconds` is documented to default to 10 and to be at least 1; 0 and less mean never
   again (controller.go:137).
4. `pointList` is appended to without a lock (sync.go:159): checks are lost from the
   counter that claims to be their total number (metrics.go:56).

Met on the way and not run: `updateCondition` renews `LastTransitionTime` when only
the message changes (helper.go:162 against types.go:190); an address in
`spec.clusterIP` is dropped (sync.go:56 against test/test.md:158-161); a headless Service stays
so when the spec no longer asks for it (sync.go:56 against test/test.md:154-156), which `Converges` names
as its exception; the error of reading the Endpoints is dropped (client.go:102) and the operator
then empties Endpoints that worked, against the "seamless" take-over of README.md:42; ports of
one name are merged silently (helper.go:114), so that a name with two protocols loses one; a Service
whose port names are too long for a target port (helper.go:120), or Endpoints with a port it does not
name (client.go:162), are taken over and then refused by the API server for ever, against "fully
compatible" in the same line. The model does all of this except that an address is for it as good as none; `Seamless` and `AdoptionCompletes` name
these cases as exceptions and so do not catch them. `Validate` takes a period of zero though its message asks
for more (options.go:94-95), which leads to number 3; a taken-over Service loses its type, session
affinity and labels (sync.go:51-60), which `Takeover` leaves out.

## Fairness

- `ProbeWorker`: weak fairness of `doProbe`. The goroutine runs and every prober call ends
  by its timeout. Nothing is assumed of the backend: the property assumes it settles.
- `ProbeRound`: weak fairness of the caller and of every goroutine, which the Go
  scheduler gives. That probe loops end is `ProbeWorker`'s result, with its exception.
- `Reconciler`: weak fairness of the worker, of each watch, of the timer and of garbage
  collection. None for users, faults, restarts and backends: these may stop, and do,
  when the budget is spent; `Converges` and `DeletionCompletes` are about what
  follows. `WF(Worker)` covers the probes of a round, so finding 1 is assumed away there.
- `Takeover`: weak fairness of the operator, whose process is restarted and whose queue
  holds the key. None for the tool, which a user may never run again, nor for others.
- `Replicas`: weak fairness of each process (it starts, renews, gives up, is restarted, takes
  keys), of each round that is not stuck, of each timer and of the passing of time. None for
  backends, watches, failing renewals, crashes and late writes.

## Proofs

Checked with TLAPS for all values of the constants that meet the named assumptions.

- `ProbeWorkerProofs!HealthyEarned` and `UnhealthyEarned`. The inductive invariant ties the code's counters to
  the history variables: `resultRun` is the length of the run of `lastResult` at
  the head of `judged`, and `attempt` that of the errors at the head of `calls`. Without
  it the threshold test says nothing about past answers.
- `ProbeRoundProofs!AnswersAreComplete` and `RoundKeepsPromise`. The invariant says where
  each goroutine is in terms of the shared variables: `wg` counts those spawned and not
  gone, the mutex is held exactly inside the section, a goroutine in the section has
  loaded the current slice, and each slice counts exactly those that have filed.
  The WaitGroup part needs cardinalities (`FiniteSetTheorems`).
- `StatusHistoryProofs!StatusIsLastRounds`. A round from any well-formed status,
  stale or not, leaves both conditions saying what the round came to; the invariant is
  that both statuses are well formed and that true conditions say "fine".
- `ReconcilerProofs!FinalizerCorrect`. `FinalizerHeld` is not inductive: a round starts from
  a cached version that may be long out of date. `Remembered` adds that whatever a
  cached version promises (it has the finalizer and nobody has deleted it) still holds of
  the live one, and `ReadIsLive` that a version a write is still accepted on is the only
  one there is, so `RemoveFinalizer` drops no object whose finalizer a lagging cache still shows.
- `ReconcilerProofs!OwnershipCorrect` uses both: an accepted write replaces exactly
  what the worker read (`ReadIsLive`), so the check of `SetControllerReference` still
  holds of it, and the uid in the worker's copy is the live one's (`FinalizerHeld`).
- `ReconcilerProofs!HealthyCorrect`. `Tally` ties the outcome of `syncEndpoint` to the last
  attempt's `data`; the conditions part says a failed step leaves its condition false.
- `TakeoverProofs!SeamlessCorrect`. First the data, for any Service and any finite set of
  addresses with one subset: what the tool makes of both, in whatever order it is listed,
  gives ports and addresses that reach the same targets (`SameReach`: among ports of one
  name the first decides, and with agreeing protocols it has the Service's port). Then the
  invariant `Untouched`: while nobody interferes each object is either as the tool read it
  or as the operator wants it, and all four combinations reach the same. The
  assumptions are that users write Services and Endpoints the API server takes.
- `ReplicasProofs!OneAtATimeCorrect`. `Leads`: who works holds a lease no older than the
  deadline, and only a lease that is older than that changes hands.
- `ReplicasProofs!NeverBackwardsCorrect`. `Ordered`: what is stored is no newer than any
  write on its way, and none of these is newer than what a round in progress has probed.
  It is inductive only with `OneAtATime`: a round that stores is the only one of its key.
- `ReconcilerProofs!NothingForgotten`. `NeverForgotten` says nothing of a worker that is busy.
  `Attentive` adds what it knows: unless its copy is of the live generation, the key is queued
  or news is on its way (`KnowsNews`), and a deletion it knows of is never synced
  (`NotDeleting`). So a round that ends without coming back has seen that it need not.
  A cached copy with no news behind it is of the live generation (`NewsOrSame`): the first
  version that was not would have been news.
- `ReconcilerProofs!LifetimeIsKept`, step by step: each action maps to an action of `Lifetime` or
  a stutter. It needs all of the invariants above, and `Newest`: the cep that lives is the last one
  created. A round that starts from an old version begins to serve the live one
  (`Remembered`); the finalizer is added to and taken from the live one (`ReadIsLive`).
- `ReconcilerProofs!RoundsAdvance` needs the types only: the position of a round grows
  lexicographically by stage, attempt, read or write, and targets left.
- `ProbeWorkerProofs!NothingWithheld`. `Open`: while the worker probes, the run of answers that
  `resultRun` counts is all of it (`RunIsWhole`) and still short of its threshold
  (`RunStillShort`), and `attempt` counts all of the errors since the last answer (`RoundIsWhole`). `LoopAdvances` uses the
  same counters as a measure.
- `ProbeRoundProofs!CheckCountCorrect`. `Counted`: the slice is never longer than the appends
  done so far, and no append that was done leaves it empty. The total is a fold over the targets;
  `SumLemmas` has what is needed of it. `NobodyStuck` follows from the invariant of the round: a
  mutex that is not free has a holder, and `wg` is zero when all are gone.
- `ReplicasProofs!EveryKeyKept`. `Sound`, which describes one process, says that its queue, workers
  and timers cover all keys; every way a round ends puts its key on one of them.
- `ReplicasProofs!ReplicasFollow`. `NoneNewer`: no round, no write on its way and no stored
  state is newer than the backend. With `StoredAdvances`, from `NeverBackwardsCorrect`, a write
  is a step of `Following`.
- `TypeCorrect` of each of the six modules. `Replicas`'s says that queues hold no key twice
  or while it is worked on, for which `Sound` describes one process by its five values. `Reconciler`'s says what `got` and `my` are at
  each `pc`, and rests on `BeforehandAssumption` (the objects found beforehand are well
  formed) and `AbsentAssumption` (no object is an object).

**Sums and induction.** The theorems of the library that prove a property of all finite sets by induction
take an operator as a parameter, which the provers cannot instantiate. `SumLemmas`
goes around that: `SubsetInduction` states induction for a set of subsets, as the absence of a smallest
counterexample by size (`Smallest`), and the few facts needed of the sum of a function over
a finite set (it is a natural number and at least each term, it changes by what one term changes by, and
it is zero exactly if all terms are) follow from a table of the partial sums that this shows to exist. `NewsOrSame` uses `Smallest` in the same
way on the versions of an object.

**Only model-checked**: liveness (`SettledNamedBackendReported`, `RoundReturns`,
`Converges`, `DeletionCompletes`, `ProbedPeriodically`, `AdoptionCompletes`, `KeysServed`),
which is out of the prover's reach, and the violated properties. What most of these
rest on is proved: `NobodyStuck` for `RoundReturns`, `LoopAdvances` for
`SettledNamedBackendReported`, `NothingForgotten` and `RoundsAdvance` for `DeletionCompletes` and
`ProbedPeriodically`, `EveryKeyKept` for `KeysServed`; the fairness that turns them into
liveness is left to TLC.

## Not modelled

- `ToAggregate` (helper.go:88-108): it drops equal messages, and messages are one value.
- The composition of several whole reconcilers over one API server: `Reconciler` with one
  worker already has hundreds of thousands of states, so `Replicas` has several
  processes over the part of a round that they can disturb. Without `--leader-elect`
  nothing is claimed but that the queues stay sound.
- The order in which subsets and messages are stored: it is the order in which goroutines
  end, and the API server sorts the subsets.
- Service type, session affinity, labels and a given address in the take-over (see above);
  cache and conflicts there, which `Reconciler` has.
- The back-off of the rate limiter: a failed round comes back like a periodic one.
- Flag parsing, logging, events, printing, metrics registration and health checks (I/O),
  deep copies and registration (generated), `ResourceChangedPredicate` (unused),
  `RecordCeps` and `RecordCheckDuration`, `DeleteCR` and `DeleteCRs` (never called), the prober
  libraries (external: any outcome).
