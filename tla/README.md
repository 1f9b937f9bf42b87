# Spot-Fargate Orchestrator: TLA+ models, checks and proofs

The orchestrator is a Go program that runs in the cluster and moves Kubernetes
Deployments from EC2 Spot to AWS Fargate when a Spot interruption notice
arrives, and back to Spot later. This directory models it, checks the models
with TLC and proves the central safety properties with TLAPS. Paths and line
numbers below are relative to the repository root `src/`.

## 1. The system

### Components, their state and their operations

| Component | State | Operations | What makes it correct |
|---|---|---|---|
| Watcher and SQS client (`internal/spot/watcher/eventbridge_watcher.go`, `internal/spot/eventbridge/client.go`) | the queue (in AWS), the events of the current poll, a bounded channel | poll, delete the batch, look up node and pods, non-blocking send | a notice is neither lost nor acted on twice |
| Event deduplicator (`internal/orchestrator/event_guard.go`) | map from key to expiry | `CheckAndMark` | refuses a key exactly while it was let through less than the TTL ago |
| Event loop, single Deployment (`internal/orchestrator/orchestrator.go:234-623`) | `State`: compute type and status | detect compute type, zero-downtime strategy, patch, wait, verify, roll back | ends on Fargate or in status `error`; never hangs; a rollback goes where the Deployment came from |
| Recovery manager (`internal/orchestrator/recovery.go`) | annotations on the Deployment | tick, cooldown and backoff, bookkeeping, patch to Spot, wait, verify, roll back to Fargate | respects the cooldown, undoes its own failures, loses nobody's writes |
| Patcher (`internal/kubernetes/patcher/patcher.go`) | none; the pod template | `PatchComputeTypeWithReason`: read, decide, JSON patch, annotate | template and state annotation agree |
| Annotations (`internal/kubernetes/annotations`) | `state`, `migrated-at`, recovery notes, per-Deployment configuration | get, set with initialisation of the map, resolve configuration | a write destroys no other annotation |
| Rollout monitor (`internal/kubernetes/monitor/monitor.go`) | none; reads Deployment status | `WaitForRollout`: read, watch, open the watch again, until complete, failed or too late | says a rollout is complete, or failed, only of the one it was asked about, and always answers |
| Multi-Deployment migration (`orchestrator.go:791-1524`) | the list of patched Deployments, a channel of results | group, patch one after the other, observe each in a goroutine, roll back each | each Deployment succeeds or fails independently; the handler outlives its goroutines |
| Program start and shutdown (`main.go`, `Orchestrator.Start`) | contexts, the event channel, stop channels | start the goroutines, restart the watcher, stop | nothing ends before it is told to, everything ends when it is |
| Optimised recovery (`internal/orchestrator/optimized_recovery.go`) | its loop; the cache | list or discover, choose candidates, visit them in batches, decide on cached data; replaces the recovery manager when rate limiting, caching or batching is on | recovers only what is due and takes part, and forgets none of it |
| Deployment cache (`internal/kubernetes/cache`) | entries with the time they were stored, the time of the last list | get, list, invalidate, background refresh | what it serves is no older than the TTL and one request |
| Discovery, configuration, health checker, client, alerts, API server, logger | see `PROJECT.json` | | |

### How they interact

- One **event loop** goroutine takes events off the watcher's channel, one at a
  time, and runs a whole migration before it takes the next.
- One **recovery** goroutine, on a ticker, runs a whole recovery of each
  Deployment on Fargate.
- The **watcher** goroutine polls SQS, deletes what it received, and sends to a
  bounded channel that drops on overflow.
- The event loop and the recovery manager share the Deployment on the API server
  and the in-memory `State`. No lock and no leader serialises them; only each
  `State` setter, and each call of the API server, is atomic.
- In multi-Deployment mode the handler starts one goroutine for each Deployment
  it has patched and collects their results from a channel; it returns with the
  last one.
- A signal cancels the one context all goroutines share: the watcher closes the
  event channel, the event loop stops the recovery manager, and `main` waits ten
  seconds for the event loop.
- The Deployment controller writes status, the revision annotation and pods
  whenever it likes; AWS delivers messages again that were not deleted.

### What is hard about it

- A migration or a recovery is a dozen API calls, any of which can fail, and the
  other goroutine can run between any two of them.
- Two kinds of writes: JSON patches that carry no `resourceVersion` and apply to
  whatever is there, and one read-modify-write `Update` that is refused when the
  object has moved on.
- The template, the state annotation and `State` are three records of one fact,
  written by three separate steps.
- The wait for a rollout sees *a* complete rollout, not *its* rollout, and sees
  it through a status that is late and a watch that may close.
- The rounds of the recovery decide on what was read earlier, partly by another
  goroutine, and a Deployment passes several tests between the list and its
  recovery, with different rules.
- The process can die anywhere; only the Deployment and the queue survive.
- The message is deleted before its notice is acted on.
- At a shutdown five goroutines see the same cancelled context in any order, and
  three channels are closed without a guard.

The hazards, each at its line and with the properties that cover it, are listed
in `PROJECT.json`.

## 2. The modules

| Module | Models | Kind |
|---|---|---|
| `ComputeMigration` | event loop, recovery manager, patcher, annotations, `State` for one Deployment | detailed specification |
| `ComputeMigration_proofs` | its inductive invariant and ten theorems beside it | TLAPS proofs |
| `IndependentMigrations` | what a migration of several Deployments promises: each goes its own way | abstract specification |
| `TwoPhaseMigration` | multi-Deployment mode: grouping, fan-out, observers, results, SIGTERM; shown to implement `IndependentMigrations` | detailed specification |
| `TwoPhaseMigration_proofs` | its inductive invariant, the refinement, and that somebody always reports, for any number of Deployments | TLAPS proofs |
| `Lifecycle` | `main`, event loop, watcher goroutines, recovery manager and cache from start to end of the process | detailed specification |
| `Lifecycle_proofs` | its inductive invariant and three theorems beside it | TLAPS proofs |
| `OncePerWindow` | what a deduplicator promises | abstract specification |
| `EventDeduper` | `event_guard.go`, shown to implement `OncePerWindow` | detailed specification |
| `EventDeduper_proofs` | invariant and refinement for every TTL and key set | TLAPS proofs |
| `NoticeDelivery` | what the event channel and the loop behind it promise: what was taken is handled | abstract specification |
| `SpotEventPipeline` | queue, watcher, channel, deduplicator (INSTANCE `EventDeduper`), event loop, crash; shown to implement `NoticeDelivery` | composition |
| `SpotEventPipeline_proofs` | its inductive invariant, from that of the deduplicator (INSTANCE `EventDeduper_proofs`), three properties and the refinement | TLAPS proofs |
| `RolloutMonitor` | `WaitForRollout` against a late controller and a watch that closes | detailed specification |
| `RolloutMonitor_proofs` | its inductive invariant and three theorems | TLAPS proofs |
| `RecoveryRounds` | the rounds of both recovery managers: discovery, cache, candidates, turns | detailed specification |
| `RecoveryRounds_proofs` | its inductive invariant and five theorems | TLAPS proofs |
| `MCComputeMigration`, `MCTwoPhaseMigration`, `MCLifecycle`, `MCEventDeduper`, `MCSpotEventPipeline`, `MCRolloutMonitor`, `MCRecoveryRounds` | the instances TLC checks | MC modules |

### `ComputeMigration`

`dep` is the Deployment as far as decisions depend on it: the compute type of
the template, the rollout strategy, whether `isRolloutComplete` would say yes,
whether the annotations map exists, the `state` annotation and the age of
`migrated-at`. `task[w]` is the program counter and the locals of goroutine `w`;
`cur` and `status` are `State`; `copy` and `fresh` are the object that
`updateRecoveryAnnotations` has read and whether its `resourceVersion` is still
the current one.

**Atomicity.** One action per API call, and per `State` setter where another
goroutine could see the value between two of them: what the detection of the
compute type has read is a local, `found`, until `Remember` sets it. The
functions shared by both goroutines (`PatchComputeTypeWithReason`,
`SetDeploymentState`, `WaitForRollout`, `verifyMigration`, the rollback) are
actions with a parameter `w`; `AfterPatchError`, `AfterWait`, `AfterWaitError`
say where each caller continues. `IdleStatusSettled` and the other properties
are about those continuations, of which there are many and which nobody tests in
combination.

**Time.** The only question the code asks of a time stamp is whether it is older
than the cooldown. A stamp is therefore its age, capped at `Cooldown`, and a
missing stamp is an expired one, as in `shouldAttemptRecoveryWithConfig`. The
cap makes the state space finite without bounding the run: the clock ticks for
ever.

**The backoff** of the recovery manager is not a guard of `RecoveryTick`,
because in the code it never holds anything back: the failed-attempts annotation
is written as `"%dm"` and read back by appending another `m` (`recovery.go:213`,
`466-470`), which never parses.

**Patches.** `PatchApply` replaces label, nodeSelector and tolerations together,
so `compute` stands for all three. Whether `replace` of an annotation that does
not exist yet fails or creates it depends on the API server's patch library;
`AnnotationWrite` has both outcomes whenever API errors are switched on, and
only the second when they are off. With API errors a patch that fails may have
been applied with its answer lost. Where the code only logs the failure (the
write of the annotation, the restored strategy, the notes of a recovery) such a
patch is one that succeeded, and needs no case of its own.

**Verification.** `VerifyFails` stands for the look-ups of pods, endpoints and
service behind `verifyMigration`: what they answer depends on the cluster alone,
and not on the compute type.

**Environment.** `RolloutCompletes`, `PodsLost`, `ControllerAnnotates` and
`StatusUpdate` are what the Deployment controller does to the object; `Restart`
loses both goroutines and `State` at any point. `Failures`, `Notices`,
`Restarts`, `DryRun`, `RecoveryEnabled` and `Strategies` switch the environment
and the configuration per run.

`sinceMove` is a history variable, the age of the last move of the template from
Spot to Fargate; only `CooldownRespected` reads it.

**Taking turns.** `SerialSpec` has the behaviours of `Spec` in which one of the
goroutines is always idle. The code has no lock that would make them so; five
properties hold there and not in `Spec` (`AnnotationAgrees`, `StateAgrees`,
`FailedRecoveryIsOnFargate`, `Evacuates`, `CooldownRespected`), and the
difference is what the missing lock costs (see "Runs that refute").

### `TwoPhaseMigration` and `IndependentMigrations`

`dep[d]` is the Deployment `d` as in `ComputeMigration` without its annotations;
`pc[d]` says how far its migration is, in the loop of `phaseFanOut` or in its
goroutine of `phaseObserve`; `phase` is where the event loop is. One action per
API call, with the Deployment as parameter: `Begin` ... `Restore` are one turn
of the loop, `Wait` ... `BackRestore` are the goroutine, `Collect` receives a
result. `Group` merges `groupPodsByDeployment` and `getDeploymentConfigs` into
one step: they read who owns which pod and which configuration a Deployment has,
and nobody modelled changes that. A Deployment one of whose look-ups fails is
left out silently, as in the code (`Groupings`).

`Faulty` are the Deployments whose calls, rollouts and health checks may fail
(`Failures` says which of the three). `stopping` is the cancelled context: every
call fails from then on, so the rollbacks do, and `Exit` ends the process
wherever it is and starts it again. A patch that fails may have been applied all
the same: its answer was lost, or the context was cancelled in the middle of it.
The model allows that of every patch under a cancelled context, those begun
after the cancellation included, which is more than can happen.

`Stage` maps `pc[d]` and `ended[d]`, a history variable for how the last
migration of `d` ended, to the stages of `IndependentMigrations`. There no step
looks at two Deployments, and the way a migration ends tells where the template
is: *migrated* from `moved` (on Fargate) only, *reverted* from `returning` (on
Spot) only, *skipped* with the template untouched but for a patch whose answer
is missing (`MoveUnanswered`): such a Deployment is on its way to Fargate, and
the handler has left it out. A *stuck* one is on Fargate, or on Spot after a
patch back of which the same is true.

### `Lifecycle`

The configuration is a variable that `Init` chooses, so that one run covers the
regular recovery manager, the optimised one without a cache and the optimised
one with a cache, each enabled and disabled. `spotCtx`, `recoveryCtx` and the
context of `main` are one variable, `cancelled`: the first two are cancelled by
themselves only when `Start` returns, and it returns when the last is done. A
`select` takes any case that is ready, so `TakeEvent`, `RestartWatcher` and
`StopRecovery` may all be enabled at once. `watcher[w]` is the `w`-th goroutine
that runs `EventBridgeSpotWatcher.Start`: the first is started by `Start`, the
others by `RestartWatcher`. A panic in any goroutine ends the process, so it is
a value of `exit`; closing a closed channel, sending on one and stopping a cache
that does not exist are the three that can happen. What a handler, a poll or an
attempt does is left to the other modules: here it takes its time and returns,
or does not. The goroutine that refreshes the cache and the API server are left
out: neither closes anything anybody waits for.

### `EventDeduper` and `OncePerWindow`

The map and its sweep are modelled as they are: an entry is alive while `now <
expiry`, every call sweeps first. `accepted` is a history variable and the
abstract state of `OncePerWindow`. A TTL of 0 makes the code build no
deduplicator; the model assumes a positive one.

### `SpotEventPipeline` and `NoticeDelivery`

`queue[n]` is where the message of notice `n` is; `phase` and `batch` are the
watcher's poll; `channel` is the Go channel; `current` is the notice being
handled. `DeleteOk(D)` deletes part of the batch when entries fail, because
nobody looks at the `Failed` list of the result. `DeleteError` may have deleted
any part of it, because an error says nothing about what SQS did, and drops the
events of the poll. `Drop` is the full channel and the failed look-ups of node
and pods. A notice is its own deduplication key: the key contains the instance,
the node and the time in the notice, so a redelivery has the same key and a new
notice another. Notices that affect none of the managed pods end without an
event; in the model that is the outcome `LookupFails` of `Drop`, as for a node
that is gone by the time its notice is processed. `handled` is a history
variable.

`DeliversNotices` maps the pipeline to `NoticeDelivery`: what was *taken* is the
set of notices in the channel, a *death* is a crash. `Deliver` maps to `Take`,
an event that passes the deduplicator to `Begin`, one that does not to
`TurnAway`, the end of a handler to `End`; all that the queue and the poll do
stutters, but for `Send`. A notice may be in the channel twice, after a
redelivery: `TurnTo` therefore lets it stay taken when one of its events is
turned to. So from the channel on nothing but a crash loses a notice, and the
other ways to lose one that `EveryNoticeHandled` excepts all lie in the poll
before it.

### `RolloutMonitor`

`dep` is what a client of the API server sees of the Deployment: its generation
and the status the controller last wrote. `pods` is what there really is, and
`template` the generation that last changed the pod template. `NewTemplate` and
`NewStrategy` are patches of anybody, the caller's own goroutine excepted, which
waits; `Sync` is the controller writing what it sees, at its own time. The
environment is restricted by what Kubernetes guarantees only: the counts are of
the moment, `observedGeneration` is the generation seen, the reason
`NewReplicaSetAvailable` is written for a rollout that is over and stays from an
earlier one until a pod of the new template has been created (`MayKeepReason`).

`pc`, `stream` and `expired` are `WaitForRollout`: one action for the first
read, one for opening the watch, one per event, one for a channel that closes. A
watch without a resource version begins with an `Added` event of the Deployment
as it is; that, and nothing else in the code, is why a closed watch loses
nothing, and the mutant `RestartFromNow` shows it. When the deadline passes the
`select` may still take an event that is ready.

`ComputeMigration` and `TwoPhaseMigration` keep a wait as one step with an
outcome. `RolloutMonitor` says what the outcomes mean: nil, that some generation
not older than the caller's was rolled out; an error, nothing (`rollout_stale`).

### `RecoveryRounds`

One loop, of the recovery manager or of the optimised one that takes its place;
`config` says which, and is a variable that `Init` chooses together with `spec`,
the annotations of each Deployment. `api[d]` is where `d` is: on Spot, on
Fargate in its cooldown, or due. `cache[d]` is the entry for `d`, with its age
and, a history variable in it, the time since what it holds was true.
`refresh` and `held` are what the background refresh and the round have read
and not stored yet; a store is a step of its own, which is where one overwrites
the other. `todo` and `target` are the round.

`Recover` has every outcome; what happens in between is `ComputeMigration`.
`Migrate` is the event loop. An attempt that ends drops the entry whatever its
outcome. The background refresh is not tied to its ticker: a refresh may begin
at any moment, which includes every half TTL. The batches do not change the
order or the set of what is visited, and their pauses are time that passes
between two steps, so of the batch size only "not positive" is told apart, on
which the program panics; the same is true of the rate limiter and a burst of
0, with which every `Wait` fails.

## 3. The runs

### Runs that pass

| Run | Configuration | What it shows |
|---|---|---|
| `interleaved` | `MigrationInterleaved.cfg` | Both goroutines, API errors, failed rollouts and health checks, restarts, all four strategies: types, the status is settled when the event loop is idle, the strategy check still holds when the template is patched, and the recovery's `Update` takes back nothing that others wrote. Liveness, in the same behaviours: the event loop returns to its channel, and a Deployment comes back to Spot. |
| `serial` | `MigrationSerial.cfg` | Migrations and recoveries that take turns, failing rollouts and health checks: annotation and template agree whenever both are idle, and so do State and template whenever State says `healthy`; a handler ends with the Deployment on Fargate or the status `error`; a recovery that records a failure has the Deployment back on Fargate; no recovery starts inside the cooldown, though every recovery that ends well takes `migrated-at` away. |
| `two_phase` | `TwoPhase.cfg` | Multi-Deployment mode with a sound, a faulty and a spot-only Deployment, SIGTERM at any point: it implements one migration per Deployment by itself; no goroutine outlives its handler; while the handler waits somebody has still to report to it; the sound one gets to Fargate whatever happens to the faulty one; the handler always returns. |
| `lifecycle` | `Lifecycle.cfg` | All configurations: nothing ends before the signal, whatever polls and handlers return; nothing is sent on the closed channel; a panic comes of closing twice and of nothing else; after the signal the process ends, though a handler may hang. |
| `dedup` | `EventDeduper.cfg` | The map is exact, and the deduplicator implements `OncePerWindow`. |
| `pipeline` | `PipelineHandles.cfg` | No double handling within the TTL, what is skipped was handled; from the channel on it implements `NoticeDelivery`; every notice is handled as long as none vanishes. |
| `rollout` | `Rollout.cfg` | A wait returns nil only for a rollout that took place, of a generation not older than its caller's; a rollout that is complete and stays so is not missed, whatever watches closed; a wait that has received all there is waits for a Deployment that is neither complete nor failing now; the wait ends at its deadline. |
| `rounds` | `Rounds.cfg` | Both recovery managers in every configuration that differs: cached data is no older than TTL and one request; a recovery begins only of a Deployment that is due at that moment; each due one is tried, though its neighbour fails in every round. |

### Runs that refute what the documentation says

Each has an entry under `findings` with the line it quotes.

| Run | What the counterexample shows |
|---|---|
| `cooldown` | A recovery that was overtaken by a migration clears the `migrated-at` the migration wrote; the next tick recovers inside the cooldown. |
| `shutdown` | The watcher closes its channel; the event loop takes that for a failure and restarts it before it looks at its own context; the restarted watcher closes the channel again, and the process panics. |
| `rollout_stale` | The failure condition of an earlier rollout is still in the status when the wait for a new one begins; `isRolloutFailed` does not look at the generation, and the new rollout fails before anybody has seen it. |
| `opt_in` | With caching a round starts from the whole namespace, and a Deployment without the opt-in annotation whose recovery-enabled is `true` is recovered. |

Further divergences have no run of their own, most of them because they are the
value of one expression or the absence of one test:

- A recovery that fails while a migration that began with State `fargate` rolls
  back records its failure with the Deployment on Spot (`orchestrator.go:596`
  patches behind `recovery.go:394`), where `README.md:480` says it is rolled
  back to Fargate. In `ComputeMigration`, `FailedRecoveryIsOnFargate` is false
  of `Spec` and true of `SerialSpec`. `AnnotationAgrees` is another such: the
  two goroutines can patch the template in one order and write the annotation in
  the other.
- A recovery that falls between the patch of a migration and its `migrated-at`
  finds no cooldown and takes the Deployment back to Spot; the wait and the
  verification of the migration do not notice, and the event loop records
  `fargate` and `healthy`. `Evacuates` and `StateAgrees` are false of `Spec` for
  that reason.
- A crash, or a failed write, between the patch of the template and
  `migrated-at` leaves a Deployment on Fargate without the stamp of its move;
  the next tick recovers it at once (`README.md:477`, "Respects configurable
  cooldown period"). `CooldownHeldInTurn` excludes both.
- A delete that went through with its answer lost drops the events of its poll,
  and the messages do not "become visible again" (`eventbridge/client.go:95`).
  `DeleteError` has it, and `EveryNoticeHandled` its premise.
- `DryRun` is read by the migrations only; `performDeploymentRecovery` patches
  in dry run too (`config.toml:62`).
- `IntValue()` of `"25%"` is 0, so the zero-downtime check
  (`orchestrator.go:524`) lets every percentage pass, the one the program's own
  rollback writes included (`README.md:38`). `IntValueIsZero` has it.
- `rollbackMigration` chooses the type that State does *not* name
  (`orchestrator.go:596`), while its comment (590) says the previous one, which
  State still names. `RollbackTarget` has it.
- The recovery of several Deployments is sequential (`recovery.go:98`), where
  `README.md:481` calls it independent, "without blocking others": each waits
  for the others' rollouts. `EveryDueIsTried` says that it gets its turn.
- Discovery takes the opt-in values `true`, `yes` and `1`, the optimised
  recovery `true` only (`optimized_recovery.go:341`): a Deployment opted in with
  `yes` is migrated and never brought back. In single mode, where no opt-in is
  needed, neither is the configured Deployment without annotations. Of
  recovery-enabled it takes `true` only too, where `GetRecoveryEnabled` takes
  all that `ParseBool` does. `Recoverable` excludes them.
- Cluster mode passes `Validate`, and discovery answers it with an error
  (`discovery.go:50`): nothing is recovered, except with caching, where
  discovery is not asked.
- A boolean that is `false` in the file cannot override a default that is `true`
  (`config.go:614`).
- The failed-attempts counter is written as `"%dm"` and never parses (see
  above).

### Bounds, and why they are enough

- *One Deployment* in `ComputeMigration`. In single-deployment mode the program
  has one; the recovery loop visits Deployments one after the other and keeps
  nothing between them but the cache, for which there is `RecoveryRounds`.
- *`Cooldown` 1 or 2.* The code only compares an age with the cooldown; 2, in
  `serial` and `cooldown`, makes a time strictly between "just now" and "over",
  in which `CooldownRespected` could fail. `interleaved` has 1: none of its
  properties tells two ages below the cooldown apart. The proofs hold for every
  cooldown.
- *Two goroutines, all four strategies*, which is every case the code tells
  apart. `serial` leaves out API errors and restarts, with which
  `AnnotationAgrees` is false; `Evacuates` and, for restarts, `StateAgrees` are
  proved with them.
- *`TwoPhaseMigration`*: three Deployments, which is one of each sort: sound,
  faulty, spot-only. Two migrate at once, in both phases. They start with
  strategy `count`, which takes the path through `StrategyPatch`; a rollback
  leaves `quarter`, so the next migration takes the other one. The proofs hold
  for any set of Deployments, of faulty ones, of strategies and of failures.
- *`Lifecycle`*: a channel of two fills up; three watcher goroutines are two
  restarts, and the second close already ends the process. A restart spins in
  the code without a bound; `MaxWatchers` bounds it and guards nothing else. The
  proofs hold for every capacity and bound.
- *`EventDeduper`*: three keys and a clock of 6 with TTL 2, so that a key can be
  let through, expire, and be let through again, twice over. The proofs have no
  bound on keys, TTL or clock.
- *`SpotEventPipeline`*: two notices, a channel of one, a batch of two, TTL 1 on
  a clock of 2, one crash. A batch overfills the channel, a delete can fail in
  part, a redelivery can come before and after the TTL, and the crash can be at
  any of it. `MaxTime` and `MaxCrashes` are guards of `Elapse` and `Crash` and
  of nothing else.
- *`RolloutMonitor`*: two replicas, so that a rollout can be half done; two
  generations (three in `rollout_stale`), so that a patch of another falls
  before, into and after the wait; two events under way. `MaxGeneration` bounds
  the patches, and `MaxEvents` holds back the writers of the Deployment while
  the channel of the watch is full; the proofs hold for any of them.
- *`RecoveryRounds`*: two Deployments. The first, `Watched`, has every
  combination of annotations without a cache and the two that differ in effect
  with it; the second is a neighbour that always takes part and may always fail.
  TTL 2 and requests of one tick at most, so that an entry can be fresh, old,
  and overwritten by a read that is older than itself. The proofs hold for every
  set of Deployments, TTL and latency.

### Fairness, and why the code justifies it

- `ComputeMigration`: weak fairness of each goroutine's program (`HandlerStep`,
  `RecoveryStep`): the Go scheduler runs them and every API call is answered.
  The latter is an assumption about the API server: the client is built without
  a time-out (`client.go:43`), and a call that is never answered blocks its
  goroutine. Weak fairness of `RolloutCompletes` and `Tick`: the controller and
  the clock keep going. Failures, notices and restarts are owed nothing, so a
  wait may fail every time. `ComesBackToSpot` therefore has a premise, that
  crashes, notices and failing recoveries come to an end; the claim is about
  cooldown, bookkeeping and lost annotations, whatever API errors and crashes
  have left of them. A tick whose read of the Deployment fails is no step of the
  model: it is assumed that one of them succeeds some time.
- `TwoPhaseMigration`: weak fairness of the handler, of each observer goroutine
  and of each Deployment's rollout, for the same reasons. `EachSoundOneMigrates`
  has the premise that nobody stops the process and excepts `Recreate`
  Deployments, whose strategy cannot be patched.
- `Lifecycle`: weak fairness of `main` alone, that is of the return of `main`
  and of its ten-second timer. Handlers, polls, recoveries and the event loop
  are owed nothing: the timer is there because they may hang.
- `RolloutMonitor`: weak fairness of the reads, the opening of the watch, the
  receiving of events and the return at the deadline. Nothing is owed by the
  cluster, which need not complete a rollout, nor by the deadline, which need
  not pass: `NothingMissed` does without it.
- `RecoveryRounds`: weak fairness of the loop, of time, and of the end of each
  background refresh, which has a time-out of its own. A request that is made
  again and again is answered some time, strongly fair, for the lists and for
  the requests about `Watched`; those about its neighbour, and every recovery,
  may always fail. `ListDeployments` compares the age of the list with the TTL
  and then, after giving up the lock, the ages of the entries: when both are
  equal to the TTL at that instant the list is empty and the round is over. The
  last conjunct of `FairSpec` says that this does not happen in every round for
  ever; in the code the two ages are times in nanoseconds, in the model ticks.
- `SpotEventPipeline`: weak fairness of watcher, event loop (its handler
  returns, which is `HandlerReturns`) and `Reappear` (the visibility timeout).
  Strong fairness, per notice, of receiving it and of deleting it: SQS does not
  pass over one message for ever, nor fail to delete it for ever. `Send`,
  `Crash` and `Elapse` are owed nothing. `EveryNoticeHandled` has the premise
  that no notice vanishes, that is, none is deleted from the queue while it is
  neither in memory nor handled; full channels, failed look-ups, lost answers
  and crashes do make one vanish.

## 4. The proofs

All theorems are for every value of the constants that satisfies the named
assumptions (`CooldownAssumption`, `SwitchAssumption`, `FailureAssumption`,
`StrategyAssumption`; `SubsetAssumption`; `ConfigAssumption`, `BoundAssumption`;
`TTLAssumption`, `MaxTimeAssumption`; `NoneAssumption`, `CapacityAssumption`,
`DedupTTLAssumption`, `BoundsAssumption`; `ReplicasAssumption`;
`NamesAssumption`, `SettingsAssumption`, `TimeAssumption`).

**`ComputeMigration_proofs`.** The inductive invariant is

    Inv == TypeOK /\ CopyCurrent /\ IdleStatusSettled /\ MigratesWithStrategy

`CopyCurrent` (`fresh => copy = dep`) is what makes the `Update` of the recovery
harmless: a write by anyone clears `fresh`, so an `Update` that is accepted
writes back the Deployment with only its notes changed. Without it neither
`UpdateLosesNothing` nor `MigratesWithStrategy` is inductive: an `Update` of an
old copy could bring an old strategy back between the check and the patch.
`MigratesWithStrategy` also rests on the strategy being written by the event
loop only. The step lemma has one case per action; what a change of one
goroutine's task may touch is stated once (`NextTasks`, `OnlyTask`, `KeepsRest`)
and cited.

- `InvHolds`, `TypeCorrect`, `StatusSettles`, `StrategyHoldsUntilPatch`: the
  invariant and its parts.
- `NoLostUpdate`: `Spec => UpdateLosesNothing`, from `CopyCurrent`.
- `NoticesEvacuate`: outside dry run `SerialSpec => Evacuates`, with API errors,
  lost answers and restarts, which the run leaves out. `EvacInv` follows the
  target of the event loop: as long as it migrates its target is Fargate, once
  it is past the patch the template is there, and whatever is verified or
  recorded is on Fargate. A rollback never gets to either. The dry run is out
  because it records `fargate` after a migration that was skipped.
- `FailedRecoveryRollsBack`: without API errors `SerialSpec =>
  []FailedRecoveryIsOnFargate`. `SerialInv` follows the recovery through its
  rollback (`Recovering`): when its job is the way back its target is Fargate,
  when its note says "failed" the template is there already, and what it
  verifies or records as a success is on Spot; restarts included.
- `StateFollowsTemplate`: without API errors and outside dry run `SerialSpec =>
  []StateAgrees`, restarts included. State follows the template by one to three
  calls. `StateInv` says what it agrees with meanwhile, the compute type the
  last finished migration or recovery left (`Settled`): Fargate, as long as a
  recovery is under way, since it begins there and, when it fails, ends there.
- `AnnotationFollowsTemplate`: without API errors and restarts `SerialSpec =>
  []AnnotationAgrees`. `AgreeInv` says that the annotation agrees except between
  the patch and the write that follows it. With either of the two it is false: a
  crash between them leaves the annotation behind.
- `CooldownHeldInTurn`: without API errors and restarts `SerialSpec =>
  CooldownRespected`. On Fargate `migrated-at` is no older than the last move
  there, but not during a patch: the template moves first, and the annotation
  follows three steps later. `StampInv` therefore speaks of the stamp that the
  goroutine holds as well, which is taken after the move. The other half is in
  `SerialInv`: a recovery that is about to write "success", and so to clear
  `migrated-at`, has the Deployment on Spot. Each hypothesis is needed, as TLC
  shows when one is dropped: a crash or a failed write between patch and
  annotation leaves the old `migrated-at`, or none, beside a template that has
  just moved, and the next tick recovers at once; without turns there is the run
  `cooldown`.
- `DryRunChangesNothing`: with `DryRun` no step of the event loop changes the
  Deployment (`DryRunInv`: it goes from the detection straight to the result).
  The statement cannot be made of the recovery manager, which does not look at
  the switch (see "Divergences").

**`TwoPhaseMigration_proofs`.** `Inv` is types, `ObserversDone`,
`RollsOutWithStrategy`, and two facts that make them inductive:
`TemplateFollows` (where the template is follows from how far the migration is)
and `PhaseFollows` (which steps belong to which phase). All of it is a
conjunction over the Deployments, `Fits(d, ...)`, and almost every step changes
one of them: the lemma `OneDeployment` reduces the step to that one, and each
action has a lemma of a few lines. The refinement maps `Begin`'s first call to
`Begin`, a skip to `Skip`, the patch to `Move`, or to `MoveUnanswered` when its
answer is missing, and so on; `Group`, `Observe`,
`Collect` and the rollouts stutter; `Exit` maps to `Interrupt`. The invariant is
needed where the code overwrites or skips: `Notice` resets every `pc[d]`, which
hides no migration under way because of `ObserversDone`, and the rollback that
finds the template on Spot already (`BackGet`) cannot happen by
`TemplateFollows`. `ReportsToCome` is the one theorem about all Deployments
together: while the handler waits for results, one of them has still to send its
own, or has and it lies in the channel; so the counting loop of `phaseObserve`
never waits for a goroutine that has gone. That is the safety core of
`HandlerReturns`.

**`Lifecycle_proofs`.** `Inv` is `TypeOK`, `RunsUntilStopped`,
`NoPollAfterClose` and `RestartedAfterClose` (a watcher other than the first
exists only beside a closed channel). The last is what `NoPollAfterClose` needs:
at the moment the first watcher closes the channel there is no other that could
be in a poll. `PanicsAreDoubleCloses` adds who has closed: the channel, once it
is closed, the first watcher (`ClosedByFirst`); the cache, once it no longer
refreshes, the event loop or the recovery manager (`CacheStoppedBy`). A panic
then needs a second close of one of the two, or a cache that is not there.

**`EventDeduper_proofs`.** `Inv` is `TypeOK /\ MemoryExact`: an entry expires
TTL after its key was last let through, and a key without an entry was let
through at least TTL ago. From it each step maps to a step of `OncePerWindow` or
to a stutter: `CheckAndMark` to `Accept` or `Refuse`, `Elapse` to `Pass`.

**`SpotEventPipeline_proofs`.** `Inv` is types, the deduplicator's own invariant
and `MarkedIsHandled`. The first two thirds of it are about the deduplicator
alone and are not proved again: `EventDeduper_proofs` is instantiated, and a
crash, which no deduplicator has, leaves an empty map beside an empty memory.
`HandlesOncePerTTL` then follows from `MemoryExact` at the one step that begins
to handle a notice. `ImplementsDelivery` is the refinement. It needs
`MarkedIsHandled` at a skip, to know that what is turned away was handled, and a
further invariant at `Deliver`, that what is in a batch was sent (`BatchSent`):
neither channel nor batch remembers where it came from.

**`RolloutMonitor_proofs`.** `NilMeansRolledOut` needs three facts beside the
types: the status is never of a later generation than the Deployment
(`Observed`); the reason `NewReplicaSetAvailable` beside updated pods is that of
the current generation (`ReasonIsCurrent`); every event of the open watch is
right about the rollout it shows, and not older than the call
(`EventsAreSound`). Without the comparison of the generations the last is false.
`NoNewsIsMissed` is about the other direction. Its invariant says that the last
event under way shows the Deployment as it is (`EndsWithNow`), which every write
keeps by sending one more and every new watch by beginning with `Added`; a wait
that has nothing more to receive has then seen the Deployment as it is, and
would have returned. That is the safety core of `NothingMissed`.

**`RecoveryRounds_proofs`.** `Inv` is types, `CacheIsUsed` (only with a cache is
anything read for it), `EntriesAge` (what an entry holds was true at most one
request before it was stored) and `VisitsParticipants` (everything on the list,
and the Deployment visited, takes part). `EntriesAge` holds however stores and
invalidations are ordered, because each store brings its own age; that the cache
never serves something older than what it served before is false, and
`BeginsOnlyWhenDue` does not need it: `attemptDeploymentRecovery` reads again.
`RecoversOptedInWithoutCache` is what is true of the claim `opt_in` refutes:
with caching off only opted-in Deployments, or in single mode the configured
one, are recovered; it follows from `VisitsParticipants`.
`NobodyIsPassedOver` is an action property of the list of a round: a Deployment
leaves it only when the round turns to it, whatever became of those before it,
of the cache and of the requests. It needs that a list is only there while it is
visited (`ListIsVisited`), so that a new list does not replace it. That is the
safety core of `EveryDueIsTried`.

**Model-checked only.** Liveness (`HandlerReturns`, `ComesBackToSpot`,
`EachSoundOneMigrates`, `StopEnds`, `EveryNoticeHandled`, `EndsAtDeadline`,
`NothingMissed`, `EveryDueIsTried`) is out of the prover's reach; of three of
them the safety core is proved, as said above. Every safety property that a
passing run checks is also proved: `FailedRecoveryIsOnFargate`,
`AnnotationAgrees`, `StateAgrees`, `Evacuates` and `CooldownRespected` under the
hypotheses named above, the others of the specification their run checks.

## 5. The plan

The modules planned are done: `ComputeMigration`, `EventDeduper`,
`SpotEventPipeline`, `TwoPhaseMigration`, `Lifecycle`, `RolloutMonitor` and
`RecoveryRounds`, each with its proofs. What could still be added:

1. A composition of `RolloutMonitor` with the two patches of a rollback, which
   would tell how often a wait that fails for an earlier rollout
   (`rollout_stale`) reverts a migration that would have succeeded.
2. The contents of a patch (`patcher.go:125-255`): nodeSelector and tolerations,
   and keys that are missing under a strict or a lenient `replace`, as pure
   operators against a reference definition.
3. The order of sources of a configuration value (environment, file, default).

## 6. What is not modelled

- The legacy metadata watcher: a poll with a boolean, superseded by the
  EventBridge watcher.
- Kubernetes client construction and its rate limiter, alerts, API server,
  logger: I/O and formatting no decision depends on.
- The health checker: HTTP probes not called on the paths modelled here.
- Matching rules of node, pod and Service look-ups: outcomes of `Drop`, of
  `VerifyFails` and of `Discover`.
- The parsing of the configuration and of the durations in annotations.
- The hit counters of the cache, which are changed after the read lock is given
  up: a race on a number only `GetStats` reads, which only `GetCacheStats`
  calls, and nothing calls that.
- `node_selector_validator.go` and `detectAndFixConflicts`: not reachable from
  the program.
