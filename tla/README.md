# Verification of the RabbitMQ plugin

TLA+ models of the concurrent parts of the plugin (`src/`), TLC runs on small
instances, and proofs checked by TLAPS for instances of any size.

## The system

| Part | Source | State | Operations | Modelled in |
|---|---|---|---|---|
| AMQP connection (external library) | used by `client.go`, `managers.go` | open, lost, closed; its close-notify channel | dial, `NotifyClose`, `Close`, loss | `AmqpConnection` |
| Connection manager | `managers.go` 141-320 | `connected`, `stopped`, `stopChan`, callback, notify channel, the watcher's back-off | `Start`, `watchConnection`, `Stop`, `ForceReconnect` | `ConnectionManager` |
| Client lifecycle | `client.go` 247-703, `health.go` | `r.connection`, producer and consumer maps, `closed`/`closeChan` | startup, reconnect callback and rebuild, cleanup | `Client` |
| Subscriptions, dispatch goroutines | `client.go` 884-1055 | recorded subscriptions, `subscriptionWG`, one goroutine per loop | `Subscribe`, `SubscribeWith`, the delivery loop | `Client` |
| Goroutine pool | `pool.go` | the task channel, `closed`, workers | `Submit`, `Wait`, `Close` | `GoroutinePool` |
| Health checker | `managers.go` 15-139, `client.go` 492-515 | last verdict and error, `stopped`, `stopChan` | ticker loop, probe, `Stop` | `HealthChecker` |
| Runtime contract, contexts | `runtime_contract.go`, `lifecycle_context.go`, `health.go` | published readiness and health | publish, `CheckHealth` | `RuntimeContract` |
| Publishing, settlement of messages | `client.go` 779-858, 945-1055 | none of its own; the queue is the broker's | `PublishMessage(With)`, the delivery loop, `dispatchDelivery` | `Delivery`, promise in `DeliveryContract` |
| Retry handler | `managers.go` 322-387 | none (locals) | `DoWithRetry` | `RetryHandler` |
| Configuration | `client.go` 93-235, `conf/` | `r.config` | defaults, normalisation, `InitializeResources` | `Config`, `RetryHandler` |
| Metrics | `metrics.go` | counters | increments, `Reset`, `GetStats` | no |
| Validation, errors, registration | `utils.go`, `errors.go`, `plug.go` | none | pure functions, declarations | no |

How they interact.  Startup dials, gives the reconnect callback and the notify
channel to the manager, opens one channel per producer and consumer, and starts
the manager.  The watcher goroutine waits for a disconnect and then calls the
callback until it succeeds: the callback dials, replaces `r.connection`, empties
the maps, opens all channels again and restarts a dispatch goroutine for every
recorded subscription.  `ForceReconnect` runs the same callback on the caller's
goroutine.  Cleanup closes `closeChan`, stops the manager, waits for the
dispatch goroutines and for the pool, empties the maps and closes the
connection; it does not wait for a callback in flight.

The hard behaviours are therefore: a connection lost at any step of a startup or
of a rebuild; a rebuild that fails half-way and is retried; `Subscribe` during a
rebuild; cleanup during a rebuild; two cleanups, or two `Stop` calls, at once;
`ForceReconnect` next to the watcher; a pool that is closed while tasks are
queued, running or executed inline; an ack written to a channel that is ending and
the redelivery that follows; a health verdict recorded after the state it was read
from has changed; a startup that fails after it has started things; a context
cancelled at any step of a retried operation.

## Modules

`AmqpConnection` is the library as far as the plugin relies on it.  `IsClosed`,
`DialConfig`, `NotifyClose`, `Close` and the loss of a connection are its
operators.  `NotifyClose` on a connection that has already ended closes the
channel at once, without an error; one that is being torn down at that moment
may still deliver its error, so the model allows both.

`ConnectionManager` extends it.  `wpc` follows the chain of watcher goroutines
(each one that reconnects spawns its successor and returns), `wconn` is the
connection watched, `fpc` and `spc` are the callers of `ForceReconnect` and
`Stop`.  Each section under the mutex, each `select` and each call of the callback
is an action; the callback is a call that returns a fresh connection or an error.
`Environment` is the rest of the process and the broker.  This module is the
abstract specification of what the manager and its users may do.

`Client` extends `ConnectionManager` and gives the callback its steps.  A process
(`pc`) is the startup, the watcher while it is in the callback, a
`ForceReconnect` caller, or a `Subscribe` call.  Whatever the code reads and uses
later is a local variable: `newConn` (the connection dialled), `target` (the value
of `r.connection` read for a channel), `cur` and `todo` (the loop being executed).
A channel is represented by the connection it was opened on, so that "stale
channel" means "not `r.connection`".  `loops` holds the dispatch goroutines, with
`early` for those started before `closeChan` was closed; `cpc` is the control state
of each cleanup call.  A map entry that is missing is `NoConn`.

`GoroutinePool` stands alone, because nothing in the plugin submits a task; the
client only waits for the empty pool.  A `Submit` call and its task are one element
of `Tasks`.  The RWMutex is represented by the calls that hold it: a pending `Lock`
keeps new readers out, and an inline task keeps the read lock.

`HealthChecker` models the goroutine of `run` (`hpc`) with `connectionProbe` as its
probe.  The probe's reads of `closed`, `connection` and the connection's state, and
the recording of its verdict, are actions of their own; `usable` is a history variable
that says whether the connection was open at some moment since the tick.  `Stop` is
split where the code releases the mutex, and `stopOnce` is modelled with its rule
that later callers wait for the first.

`RuntimeContract` extends it with `startupWithContext` and `cleanupWithContext` as the
plugin runtime sees them: each stage succeeds or fails, every path publishes the
contract, value by value, and the runtime may refuse any registration.  How channels
are built and goroutines drained is left to `Client`.

`Delivery` follows messages.  A call of `PublishMessage` reads a channel (represented by
its connection) and uses it later; a dispatch goroutine and the channel it owns are one
element of `Chans`; `frames` holds acks and nacks that are written and not yet read by
the broker.  Connections may be dialled and goroutines started whenever `Client` could
do so, which over-approximates its rebuilds.  The broker (external) keeps what a channel
holds (`holder`), puts it back when the channel ends, and closes a connection after it
has read all that was sent on it.  `DeliveryContract` is the abstract specification: the
promise of `MessageHandler` in `interfaces.go` over a queue without connections,
channels or goroutines.

`Config` is the normalisation as pure operators: which configurations are refused
(`ConfigInvalid`) and what the others become (`NormalConfig`).  The code changes the
configuration while it checks it; since the caller drops a refused one, only the result
matters.  `RetryHandler` extends it with `InitializeResources`, which may run at any
time, and one `DoWithRetry` call; the check of the context, the operation and the two
arms of the back-off's `select` are separate actions.

The definitions named "Mutated form" (or "Mutant") are wrong versions of the action that
follows them; they are used by no specification and show that a property notices
the mistake.

## Runs

| Run | Specification and bounds | Checked | States |
|---|---|---|---|
| `cm` | `CMSpec`; 3 connections, 1 forcer, 2 stoppers, back-off 1..3 | `CMTypeOK`, `NoDoubleClose`, `ReconnectsOnlyAfterLoss`, `StopEndsWatcher` | 133,000 |
| `client` | `Safety`; 3 connections, 1 producer, 1 consumer, 1 subscription, 2 loops, 1 cleanup | `TypeOK`, `EarlyLoopsDrained`, `OutageReported`, `RegistryIsCurrent`, `SubscriptionsServed`, `AtMostOneLateDial`, `MonitorsConnection`, `RestartedOnce` | 413,000 |
| `client_forced` | `Safety`; 2 connections, 1 forcer, 1 consumer, 1 subscription, 2 loops, 1 cleanup | `EarlyLoopsDrained`, `ImplementsManager` | 388,000 |
| `client_live` | `Spec`; 2 connections, 1 consumer, 1 subscription, 1 loop, 1 cleanup | `CleanupReturns` | 73,000 |
| `pool` | `PoolSpec`; 4 tasks, 2 workers, 2 closers | `PoolTypeOK`, `NoSendOnClosed`, `WaitDrains`, `RunsAtMostOnce`, `AcceptedTasksRun`, `WaitReturns` | 28,000 |
| `delivery` | `Spec`; 2 messages (1 published by the plugin), 2 connections, 2 goroutines, prefetch 1, `auto_ack` on and off | `DeliveryTypeOK`, `SettlesOnlyHeld`, `PublishedUnlessLost`, `ImplementsContract`, `QueueDrains`, `ShutdownReleases` | 91,000 |
| `health` | `RCSpec`; 2 connections, 2 cleanups, 2 published values | `RCTypeOK`, `HealthyVerdictIsFresh`, `StopReturnsStopped`, `ReadyMeansStarted`, `OutageReflected`, `ShutdownStopsChecker` | 166,000 |
| `retry` | `Spec`; configurations varied part by part, -1..3 retries, back-offs nil, -1..7, ceiling 6 | `RetryTypeOK`, `AttemptsAccounted`, `BackoffSchedule`, `LateOperations`, `ConfigUsable`, `CancelReturns` | 31,000 |
| `teardown`, `watcher_end`, `nil_connection`, `restart` | as `client` with 2 connections | refuted, see below | |

Bounds.  Every bound is a constant of the configuration.  A connection is dialled
once, so `Conns` bounds the number of dials: three allow the first connection, a
failed rebuild and a second attempt.  `Loops` bounds the goroutines alive at once:
two allow a loop of the old and one of the new connection, or two for the same
subscription after a failed rebuild.  When no slot is free the model takes the
error path.  Four tasks and two workers fill the pool's channel while both workers
are busy.  Two goroutines and two connections let a message be delivered on one
channel, lost with it and delivered again on another while the first handler still
runs; a prefetch count below the number of messages makes the window matter.  Two
published values are enough for a contract that is half withdrawn (the code has four;
the proofs hold for any number).  Back-offs are counted in units of 100ms and the
ceiling is scaled to 6, so that the doubling reaches it within three retries, from
below and from above.  In the `client` and `client_forced` runs connections and loops are
interchangeable and form symmetry sets; the runs with liveness properties use none, and
`delivery` and `health` pick unused connections and channels in a fixed order instead
(`Fresh`).  Deadlock is checked in `retry` only:
elsewhere the broker may never drop a connection and the application may never call, so
the system may rest.

Fairness.  Go runs every goroutine that can run (`WF` per goroutine); a dial has a
timeout and ends; a `select` chooses at random among its ready cases, so a closed
`closeChan` is not passed over for ever in favour of deliveries (`SF` on
`LoopReturns`).  `WF` on `Settle` says that a handler returns: the code does not
enforce it, and without it `subscriptionWG.Wait` blocks for ever.  Nothing is
assumed of when the application calls, nor, in `Client`, of the broker.  `Delivery`
assumes that a broker delivers what is ready and reads what it was sent, `RCFairness`
that the ticker keeps firing; both have `SF` for a `select` with a closed channel among
its cases.  `RetryHandler` assumes that an operation ends, and not that a back-off does:
`CancelReturns` is about not waiting for it.

Scope of the properties.  `RegistryIsCurrent`, `SubscriptionsServed`, `OutageReported`,
`MonitorsConnection` and `RestartedOnce` hold without `ForceReconnect` callers and say so: with one, two
callbacks interleave and the maps may hold channels of either connection, and the
connection `ForceReconnect` dials is not watched (`managers.go` 313).
`PublishedUnlessLost` names the one way to lose a published message: publisher confirms
are switched on (`client.go` 633) and never read.  `HealthyVerdictIsFresh` allows a
verdict as old as its probe, and `OutageReflected` bounds the harm to one stale success.
`ReadyMeansStarted` excepts values whose withdrawal the runtime refused, which the code
only logs.  `BackoffSchedule` records that the first back-off is not cut at the ceiling.

## What the runs refute

* `teardown`: cleanup passes `subscriptionWG.Wait` while a rebuild is in flight; the
  rebuild then starts a dispatch goroutine, whose handler runs while channels and
  connection are closed (`client.go` 365-367).
* `watcher_end`: the new connection is lost before `NotifyClose` registers its
  channel; the watcher reads a channel closed without an error, takes it for a
  shutdown and ends.  `IsConnected` keeps reporting a connection (`managers.go`
  208-210, 238).
* `nil_connection`: cleanup sets `r.connection` to nil while a rebuild is about to
  open a channel on it; the dereference ends the process (`client.go` 613, 668).
* `restart`: the application cancels the context of a subscription, whose goroutine
  ends; the record stays, and the next rebuild starts a goroutine for it with
  `context.Background()` (`client.go` 470-486, 935), although only "active
  subscriptions" are to be re-established (`client.go` 57).

## Proofs

All theorems are about the specifications the runs check, for every value of the
constants that satisfies the named assumptions: `ConnAssumption` (the nil connection
is not a connection), `BackoffAssumption` (the first back-off is positive and not
above the cap), `ClientAssumption` (processes and names are distinct),
`PoolAssumption` (a finite, non-empty set of workers).

`ConnectionManagerProofs`: `CMInv` is inductive.  `NoDoubleClose` is not: it needs
that at most one `Stop` call is past the mutex and none once `stopChan` is closed
(`StopInv`).  `ReconnectsOnlyAfterLoss` needs that an error in a notify channel
belongs to a lost connection (`WatchInv`).  `OutageReported` is inductive as it stands.

`ClientProofs`: `ClientInv` conjoins the types, `LocInv` (what the locals hold in
the control states that use them), `StopFirst` (a cleanup past `Stop` finds the
manager stopped), `DrainInv` (a cleanup that has begun has closed `closeChan`, and
`EarlyLoopsDrained`) and `DialInv` (a late dial has been counted only once the watcher
has left its dial, and it begins none with `stopChan` closed).  `StepImplements` shows that under it every step is a step of
the manager, of its environment, or a stutter; hence `ClientImplementsManager`, and
the manager's theorems carry over (`ManagerSafeInClient`) without being proved again.
The drain holds because the wait lets a cleanup through only with no goroutine
counted, and a goroutine started later is not an early one.

`ClientRebuildProofs` and `ClientSubscriptionProofs`: what a reconnect leaves behind,
without `ForceReconnect` callers (the properties themselves exclude them, see above).  The
properties speak of the moments when the manager reports a connection, so an invariant has
to say how far a rebuild has come at every other moment.  `RebuildInv` has four parts.
`PhaseInv`: the watcher is in the callback exactly during its call and not before startup
has started the manager; `Subscribe` calls and the shutdown come after startup.
`DialledInv`: a connection in use has been dialled, so a fresh dial yields one that no
goroutine runs on yet.  `CurrentInv`: from the step that sets it, `r.connection` is
the connection the builder dialled and the one that will be watched, until cleanup forgets
it.  `RegistryInv`: while a builder walks through the producers and then the consumers, each
name is still to do, in hand, or has a channel of `r.connection`.  `RegistryStaysCurrent` and
`ConnectionIsMonitored` follow.  For the subscriptions, `ServeInv` says that from the moment
the rebuild has copied the records each recorded subscription is served, cancelled or
revoked, still to be restarted, or in its own `Subscribe` call; the critical case is a
`Subscribe` that records after the copy, which is safe because it opens its channel later
and on the `r.connection` of that moment.  `OnceInv` says that goroutines of the rebuild on
the dialled connection are ticked off its list and that there are none before the list is
made.  Both need `RestartInv` (what the list and the locals of a restart hold).
`SubscriptionsStayServed` and `SubscriptionsRestartOnce` follow.  Once `closeChan` is closed,
`RegistryInv` and `ServeInv` claim nothing: cleanup empties the maps beside a rebuild in
flight.  All parts were checked by TLC with the bounds of `client`, and with two
subscriptions and three loops, before they were proved.

`GoroutinePoolProofs`: `PoolInv` says that queued tasks are exactly the entries of
the channel (`QueueInv`), running ones exactly those workers hold (`WorkerInv`), that a
task has been started once iff it runs or ran (`RunInv`), and that a closed pool has no
`Submit` between its check and its return, a worker leaves only a drained channel and
`Wait` returns only when all have left (`CloseInv`).

`DeliveryProofs`: `SettlesOnlyHeld` needs to know what a goroutine may still settle.
`HoldInv` says that a held message is unacked, held by an open channel, and that a frame
repeats a verdict of the handler; `OpenInv` that an open channel holds what it has
buffered or is handling, each message once and with no frame under way; a channel that
has ended writes none.  `AutoInv` is the counterpart for `auto_ack`: a buffered message
was never handled and is buffered in one place.  `LifeInv` and `SendInv` tie goroutines
and publish calls to their channels.  Under `DInv` every step maps to one of
`DeliveryContract` or to a stutter (`ContractStep`), hence `DeliveryKeepsContract`.

`RuntimeContractProofs`: `StopInv` orders `stopChan`, `stopped` and the end of the
`Once`; `ProbeInv` says that a connection the probe has read and that is still open was
noted since the tick; `PubInv` that only startup publishes "yes" and cleanups come after
it; `ContractInv` that what a cleanup has come past is withdrawn or refused.  Each step
is first split into what it does to the checker and what it does to the contract
(`StepCases`), so that the invariants are proved apart.

`RetryHandlerProofs`: the normalisation is proved for every configuration, field by
field (`OrDurationPositive`, `NormalProducerUsable` and so on), which gives
`ConfigStaysUsable`.  `CallInv` relates attempts, begun operations, back-offs and control
state of a call; it gives the exact number of attempts, at most one late operation, and
bounds for every back-off.  `BackoffFollowsSchedule` gives the back-offs exactly.  The code
doubles and cuts one value in a loop, the schedule is a closed form with `Pow2`, a recursive
function.  That this function exists and doubles at each step is shown by induction over a
set of naturals (`SetInduction`, from the well-foundedness of `<`), which needs no operator
parameter.

The assumptions beyond those above are `DeliveryAssumption` (a positive prefetch count,
nil values distinct), `RuntimeAssumption` (at least one published value),
`ConfigAssumption` (nil is not a value, the defaults are strings) and `RetryAssumption`
(a positive ceiling).

Every safety invariant, and both refinements, that a passing run checks are proved.  Only
model-checked are the liveness properties, since fairness and `ENABLED` are beyond the
prover: `StopEndsWatcher`, `CleanupReturns`, `AcceptedTasksRun`, `WaitReturns`,
`QueueDrains`, `ShutdownReleases`, `OutageReflected`, `ShutdownStopsChecker` and
`CancelReturns`.  No module with a theorem has a `RECURSIVE` operator.

## Not modelled

* Contents, routing and ordering of messages, exchange and queue arguments (dead-letter
  settings included): nothing in the plugin depends on them after the call to the broker.
* Metrics: independent atomic counters that nothing in the plugin reads.
* Validation of names, error wrapping, the dial URL and the Prometheus text: string
  functions without state.  A name that is refused appears as a failure of the build or of
  the publish call.
* A second startup after a cleanup: `closeChan` stays closed and the managers stay stopped,
  unless `InitializeResources` builds new ones.
* Two producers or consumers with the same name in one configuration.
* A task that submits to the pool it runs in.
* A context cancelled before its `Subscribe` has returned is treated as cancelled just
  after.
* The combination of `Client` and `Delivery` in one state space: `Delivery` allows every
  order of dials and goroutine starts that `Client` has, and more, so its safety
  properties carry over; the product is out of TLC's reach.
