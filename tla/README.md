# Verification of priceScount

TLA+ models of the services that watch marketplace prices and notify their users,
checked with TLC, their safety proved with TLAPS. Every
definition is translated from the source; `PROJECT.json` maps each one to the file and
lines it stands for, lists the runs, the faults each property must catch, the hazards of
the code and the theorems.

## 1. The system

    Bot ──HTTP──> Gateway ──outbox──> track_requests ──> Scheduler
     ^              │ ^                                      │ outbox
     │              │ └── price_results <── Extractor <── scraper_tasks
     │              └─────outbox──> lookup_tasks ──> Extractor
     └── Telegram <── Notifier <── notify_tasks <──outbox── Gateway

Gateway and Scheduler own one database each and speak through RabbitMQ only. What they send is first
written to an outbox table in the transaction that causes it, and a worker publishes
it; consumers acknowledge after their own transaction. Every message is therefore
delivered at least once, possibly many times and out of order, and every consumer has to
be idempotent. That is where the difficulty of the system lies.

| Component | State | Operations | Hard behaviour | Correct when |
|---|---|---|---|---|
| Gateway monitoring (`gateway/internal/store/monitoring.go`) | products with `monitor_version`, subscriptions, `gateway_outbox` | create, pause, resume, thresholds, delete, force, reconcile | concurrent transactions, reads before locks, unique event keys | the newest snapshot of a product says what its subscriptions say; every change has a version of its own; no deadlock |
| Gateway results (`store/results.go`) | `alert_state`, `alert_version`, `latest_result_at`, `force_requests`, `processed_price_results` | ProcessPriceResult | duplicates, late and failed results, edits in between | a state has its alert, alerts neither repeat nor run backwards, the requester is answered |
| Gateway lookups (`handler.go`, `store.go`, `results.go`, `cleaner.go`) | `lookup_requests` | POST and GET /lookup, result, cleaner | count and insert apart, repeated loads, expiry | the answer is final, kept its hour, and the limit clears |
| Outbox (`shared/pkg/outbox`, both `store/outbox.go`) | outbox rows, leases | enqueue, claim, publish, mark, retry | lost confirmations, expired leases, crashes, poison rows | nothing unsent is marked, no two workers publish one event at a time, everything is sent in the end |
| Scheduler (`scheduler/internal/...`) | `scheduled_urls`, `processed_force_commands`, `scheduler_outbox` | ApplySnapshot, EnqueueForce, EnqueueDue | reordered commands, replicas ticking together | only moves to newer versions, one task per interval |
| Extractor | worker pools, deliveries | scrape, lookup | redelivery, results published before the ack | every task is answered or redelivered |
| Notifier | deliveries, queues main/retry/dead | send, transfer | publish then ack, duplicates, `NotBefore`, shutdown | a notification is never lost, and not sent by who can know that Telegram wants it kept back |
| Bot | sessions, active lookups, slots, per-chat queues | commands, dialogue, polling | late lookups, cancel, limits | a session is changed only by its own lookup, slots come back |
| Broker connection (`shared/pkg/broker`) | channels, confirmation streams | Publish, redial, Consume, Close | confirmations after a timeout, Close during dial | success means confirmed |
| Platform and marketplace parsing, configuration, wiring | none | pure functions, I/O | – | – |

## 2. Modules

| Module | Models | Stands on |
|---|---|---|
| `Catalog` | the products, addresses and forced checks that both databases name | – |
| `GatewayMonitoring` | the Gateway's monitoring transactions, step by step with row locks | `Catalog` |
| `SchedulerStore` | the Scheduler's tables, consumer and replicated tick | `Catalog` |
| `MonitoringService` | abstract: the wish for monitoring has a history, the Scheduler follows it | – |
| `MonitoringSystem` | Gateway and Scheduler joined by the queue; shown to implement `MonitoringService` | `GatewayMonitoring`, `SchedulerStore`, `MonitoringService` |
| `MonitoringSystemProofs` | theorems about the Gateway, about the Scheduler under a queue that delivers anything, and about both together, the refinement included | `MonitoringSystem` |
| `PriceAlerts`, `PriceAlertsProofs` | price results against subscription edits; theorems | – |
| `Outbox`, `OutboxProofs` | worker, leases, broker, crashes, time; theorems | – |
| `Lookups`, `LookupsProofs` | admission, Extractor, results, cleaner, time; theorems | – |
| `BotDialog`, `BotDialogProofs` | chats, sessions, lookups behind them, slots, shutdown; theorems | – |
| `Dispatcher`, `DispatcherProofs` | how updates get from Telegram to the bot's handlers: poll, channels, workers, their end; theorems | – |
| `Notifier`, `NotifierProofs` | deliveries, attempts, the main, retry and dead queues, stops, time; theorems | – |
| `PublishPromise` | abstract: what a call of Publish promises | – |
| `Publisher`, `PublisherProofs` | the publishing side of the broker connection; shown to keep `PublishPromise`; theorems | `PublishPromise` |
| `MC*` | instances for TLC | each its module |

Operators marked `Fault` are no part of a specification. Each is a plausible bug, named
under `mutants` in `PROJECT.json`: put in the place of the definition that follows it, it
violates the property listed there.

### GatewayMonitoring

A PostgreSQL transaction is split where another can come between: `Begin...` is its
reads before any lock (`mutateSubscription` reads `product_id, active` at
monitoring.go:54), `LockProduct` is `lockProduct`, one row at a time in the order of
`ORDER BY id`, reading `monitor_version` once the row is free, and `Commit...` is
the checks repeated under the lock, all the writes and COMMIT. `Rollback` is every way out
without a commit. `url`, `subs`, `active`, `paused`, `version` are the columns of
`products` and `subscriptions`; `snapshots` and `forces` are the rows of `gateway_outbox`
with keys `track:<product>:<version>` and `force:<task>`, `Enqueued` being `ON CONFLICT DO
NOTHING`. `EnsureProduct` is one step since it is one statement outside the transaction.
A force reads its subscription in the statement that waits for the product row and
does not look again (monitoring.go:178), so it may commit after the
subscription was deleted; the model allows that, and `PriceAlerts` shows that the
requester is answered all the same.

Left out: names, user upserts, thresholds (they are `PriceAlerts`'; here `CommitThresholds`
only publishes, and `differ` of `CommitCreate` is either).

### SchedulerStore

`ApplySnapshot` and `EnqueueForce` run under advisory locks on product and address, so each
is one action; a command the code rejects or finds old changes nothing and is no step.
`EnqueueDue` is `SelectDue` (the rows it locks with SKIP LOCKED) and `CommitDue` or
`AbortDue`. `NOW()` is reduced to whether a row's `next_check_at` has passed (`due`), and
`CheckInterval` is the clock passing it. A snapshot or force for a row in an open batch has
to wait (`Unlocked`), because both read the row FOR UPDATE or FOR SHARE.

### MonitoringService and MonitoringSystem

The abstract specification knows, for each product, the history of wishes published for it
and how far the Scheduler has come. `Publish` appends, `Follow` jumps to any later
point. `MonitoringSystem` joins the two detailed models: any command that was ever enqueued may be
delivered at any time, any number of times, in any order, which covers the outbox worker,
its retries, broker redelivery and the consumer's requeues. The refinement mapping reads the
history off the snapshots in order of version, and the position off the version in the
Scheduler's row.

### PriceAlerts

All operations here lock the product first and commit once, so each is one
action (`GatewayMonitoring` has the interleaving before the lock; the unlocked read of
`QueueForce` is kept as its weak guard). The environment delivers any `PriceResult` at any
time: a scraper task run again gives another result under the same TaskID. Money is in
thousandths; `Stored` is what NUMERIC(12,2) makes of it. `asked`, and `at` in an
alert, are history variables. A result of a forced check moves `latest_result_at` and alerts
nobody, as in the code.

### Outbox

The worker's loop over `Claim`, `MarkPublished` and `Retry` of either store.
Time is discrete: `ttl` is what is left of a lease, `delay` of `available_at`, `age` the time
a worker spends in a step. A lease token is worth the worker that holds it. `BrokerTakes` is
apart from `PublishConfirmed`, so a confirmation can be lost; `LoseLease` is a crash anywhere,
a restart, or a mark or retry that fails and is only logged. The assumption
`Slack + PublishTimeout < Lease` is the code's 10 s against 60 s, a claim being of one event.
The two stores compare `locked_until` with `<` and `<=`; the discrete clock does not tell them
apart. A payload that is not JSON cannot come out of a JSONB column; the
worker checks for it, so it stands for any event that can never be published.

### Lookups

`CountPending` and `CreateLookup` are apart, as in `postLookup`. The Extractor may load a
task any number of times with any outcome, since it publishes before it acknowledges. Time is
discrete (`left`); `kept` is a history variable.

### BotDialog

A worker's handler is split where it calls the Gateway or Telegram and where it looks at
shared state again; `task` holds its place and the copy of the session it read. The lookup
goroutine is split at the same kind of places: its context is checked (`CheckContext`) in
another step than the session is replaced (`Report`), and its slot comes back before its entry goes
(`ReleaseSlot`, `Unregister`, the deferred function of search.go:60-67). `CompleteLookup` is the one
conditional write of `state.go`. The queues in front of the workers are in `Dispatcher`: since a chat may send anything at
any time, what waits in them only delays. That a chat's updates are handled by one worker, one after
another, is `Routed` here and `HandledInTurn` there. `NoLostSession` is about every handler that writes a session: it finds the one it read, writes
the page alone under the store's lock, or takes its own wait back. There is one exception, in the code as in the formula: /start,
/cancel and startEditSubscription (edit.go:12-33, which asks the Gateway for the subscription first) replace what a lookup
reported while they were at work. `submitted` is a history variable. Prices, names and pages' contents are left out, and
a product is worth the lookup that found it.

### Dispatcher

An update passes from Telegram (`sent`) through the batch of the polling goroutine (`offset .. fetched`), the channel `updates`, the
dispatcher's `hand` and a worker's `queue` to a handler (`work`), which only takes time. `GetUpdates` confirms
what lies before its offset. Stopping is modelled exactly: a `select` with the ended context may still take its
other branch, a worker blocked on its queue learns of the end from the next update, which it drops, or from
the closing of the queue by the dispatcher, a dispatcher blocked on a full queue from the context. `Restart` is a new
process, after a stop or a kill: it has no offset and gets what is left unconfirmed. `base` (what was confirmed then), `handled` and `restarts`
are history variables.

### Notifier

`msg` is what RabbitMQ holds: up to `Copies` messages, each waiting in `notify.tasks` ("main") or
`notify.retry`, or delivered and not acknowledged. The client prefetches deliveries but handles
one at a time, and what it holds unhandled comes back like what it handles, so prefetched ones count as
waiting. `step` follows `handle`: decode, dead-letter, postpone or send; the loop of `Send` with its waits
and `retry_after`; `transfer`, whose Publish is any behaviour of `PublishPromise` (`BrokerTakes`, `Confirmed`,
`PublishFails`), then Ack, or after a pause Nack. `Nack` and `Restart` bring a message back as it was delivered,
for the NotBefore of handle() is set on its own copy. `AnswerLost` is a message Telegram
showed though the request failed. Time is discrete: `notBefore`, `ttl`, `wait` and `stamp` are what is left.
`Accept` is the Gateway's outbox, which publishes at least once: a task may enter `notify.tasks` at any time, also again, as long as
a copy stays free for what is passed on.

`hold` and `unaware` are history variables. `hold` is how long Telegram still wants a notification kept back, by its last answer
to any of the notification's messages (`Demand`). The code keeps this in one place only, the handler of the message that was
answered, and in the copy it passes on. A message is `unaware` of it when it is another message of the notification, published
or waiting while the answer came, or when it is the answered message itself, brought back by Nack or a
stop as it was delivered (`Requeued`). Transfers to notify.dead are not bounded by `Copies`, only that a task got there is kept.

### PublishPromise and Publisher

The promise is short: who gets nil has had its message taken; who gets an error knows nothing, its message may have
been taken once, twice (Publish sends again after a redial) or later. `Outbox` and `Notifier`
build on no more than that. `Publisher` has the calls that share a `Connection`. Each step is what a goroutine does while it
holds `mu`, or one call to the network: taking `publishGate`, reading the channel, reading the
streams, the deadline, the write, the wait of `awaitConfirm`, `retirePublisher`, and all of
`redial` with the parts of `openPublisher` that write fields of the Connection (`RegisterSocket`,
`RegisterStreams`) before it is installed or, when Close has run meanwhile, abandoned. A dialled connection with
its channel and streams is a *generation*. `wire` is what the broker has yet to handle, `confirms` and `returns` are the
notification channels. What was taken out of the Connection under `mu` and is closed afterwards is in `held`, or in `closing` for
Close. A Return and its confirmation reach the client in that order; both are put into their channels in one step, and
`select` may still take them in either. Consumers, declarations and the connection they use have no part in it.

## 3. Runs

| Run | Question | Bounds and why they are enough | Result |
|---|---|---|---|
| `gateway_monitoring` | do concurrent transactions leave correct, uniquely versioned snapshots, without deadlock? | 2 users, 2 products (two rows to lock in an order), 2 open transactions, 3 versions: every pair of operations overlaps and a third follows; forced checks take their locks and roll back (`monitoring_system` commits them) | 730,000 states, holds |
| `scheduler_store` | what if commands contradict each other, repeat, come late, while two replicas tick? | 3 products and addresses, versions 0–3, 2 replicas with batches of 2, each check due twice | holds |
| `monitoring_system` | does the composition implement `MonitoringService`, its liveness and forces included? | 1 user, 2 product ids contending for one address, 1 force, 3 versions, each check due twice, one transaction at a time (the first run has the concurrency) | 15,800 states, holds |
| `price_alerts` | do alerts stay in step with states, order and requests? | 1 user, 2 products, 3 tasks (a zone entered, left, re-entered), 3 amounts (below, in, above), 2 times and the zero time | holds |
| `alerts_subcent` | does an identical Create keep the state for any thresholds? | amounts finer than a hundredth | violated, see below |
| `outbox` | may an unsent event be marked, may two workers publish one, is everything sent in the end? | an older unpublishable event in front of a good one, 2 workers, a lease that can expire during every later step, crashes | 15,000 states, holds |
| `notifier` | is a notification lost, sent too early or left behind? | 1 notification, published by the outbox any number of times, up to 3 messages of it at once (one handled, one of a failed transfer, one more), 2 attempts, no `retry_after`, one of the retry queue's TTL and one above it, stops at any step | 77,000 states, holds |
| `publisher` | does success mean taken, and do connections leak or calls hang? | 2 calls (one in front of the gate or one with its neighbour's late answer); 3 generations, which is all they can dial, each redialling once | 399,000 states, holds |
| `lookups` | are answers final and kept, does the limit clear? | 3 lookups, 2 handlers, limit 1, a load longer than the pending time | holds |
| `bot_dialog` | do sessions follow the newest request, does every wait end, can the bot stop? | one chat, 3 lookups (a new one, one cancelled, one winding up), 2 slots (both can be held by cancelled lookups), a second worker that must not get the chat's updates, one page | 182,000 states, holds |
| `bot_dispatcher` | is every update handled in its turn, and does the bot stop with full queues? | 4 updates (one handled, one queued, one in the dispatcher's hand, one of another chat stuck behind it), 2 chats with a worker each, capacities 1, 1 restart, streams up to renaming of the chats | 412,000 states, holds |
| `lookups_limit` | is the limit a bound? | 2 handlers, limit 1 | violated, see below |

`MaxVersion`, `MaxElapsed`, `MaxAlertVersion`, `MaxLookups`, `Copies`, `MaxDials`, `MaxUpdates` and `MaxRestarts` are bounds for TLC; the properties do not
depend on them. With all copies in use, `PublishFails` and `Restart` wait until one is free for the next try. Symmetry is used only in runs without liveness. CHECK_DEADLOCK is off in
`price_alerts` (its tasks run out), `scheduler_store` (its clock is bounded), `bot_dialog` and `bot_dispatcher` (the bot stops) and
`publisher` (its calls return).

### Disagreements found

* `alerts_subcent`: CreateSubscription compares the thresholds of the request with the
  rounded ones of the table (monitoring.go:147). Repeating a Create with 0.014 finds 0.01,
  resets `alert_state` and the same alert is raised again; the audit design
  (docs/superpowers/specs/2026-09-30-audit-repair-design.md:52) says an identical retry does not.
* `lookups_limit`: `maxPendingLookups` "bounds the lookup queue" (handler.go:67), but
  requests that count at the same time all pass (handler.go:78). The excess is less than the
  number of concurrent requests, which `PendingNearLimit` shows.


A third one has no run of its own: a `retry_after` longer than the retry queue's TTL is "saved with the task and taken into account before the
next attempt" (docs/superpowers/plans/2026-09-30-audit-repair.md:119), but the task is saved only by the transfer;
when that fails, Nack brings the notification back without it (consumer.go:137), and it is sent at
once; so it is after a stop. A duplicate, by the outbox or by a transfer that failed though the broker took it, never knew of the
demand, and is sent during it too. `RetryAfterRespected` shows that these are the only exceptions (`unaware`).

### Fairness

* `monitoring_system`: strong fairness of the delivery of each snapshot and each force, because a consumer requeues what fails and row
  locks come free again and again; weak fairness of `CommitChecks`. Nothing is asked of users or of the
  Gateway.
* `outbox`: time passes and workers loop (weak). Strong fairness of a claim of each
  event: a worker polls every second, and no retry delay is shorter, so they do not all
  miss for ever the moments in which an event is the oldest claimable. Strong
  fairness, for each event and some worker, of beginning to publish, of the broker and of the mark or retry under a live lease:
  broker, network and database work again and again, not always, and a worker is not always killed.
* `notifier`: time passes, the handler's calls all end and messages of the retry queue expire (weak). For each
  notification strong fairness of being handled, of making the request (stops do not always come first), of Telegram's
  success and of the broker taking a transfer.
* `publisher`: weak fairness of the steps of each call and of Close. Nothing is asked of the broker, of the network
  or of the contexts, which is the point of `EveryCallEnds`.
* `bot_dialog`: weak fairness of each handler and each lookup once begun: all their calls have
  timeouts (10 s for Telegram, 90 s for polling). Nothing is asked of users.
* `bot_dispatcher`: weak fairness of each goroutine's steps, polls that return something included; handlers end since all their calls have
  timeouts. Nothing is asked of users, and nobody has to stop or restart.
* `lookups`: time passes and the cleaner runs; nothing of handlers, Extractor or queues.

## 4. Proofs

Every module with theorems has the same layout: an inductive invariant named `...Inv` as a conjunction of named parts,
a lemma for the initial states, one per action or group of actions, one that puts them together, and the theorems, each the
consequence of the invariant. All assume only the named `ASSUME` of the module they extend, and hold for any values of its constants.
The bounds among these (`MaxVersion`, `MaxElapsed`, `MaxLookups`, ...) stand for any natural number; only `Copies` of the Notifier also
makes its steps wait.

| Module | Theorem | States |
|---|---|---|
| `MonitoringSystemProofs`, the Gateway | `InductiveInvariant` | `GatewaySpec => []IInv` |
| | `TypeCorrect` | `[]GatewayTypeOK` |
| | `CurrentSnapshot` | `[]CurrentSnapshotIsDesired` |
| | `VersionsAreSound` | `[]OneSnapshotPerVersion` |
| | `ChangesAreVersioned` | `ActivityMovesVersion` |
| | `LocksAreOrdered` | `[]NoWaitCycle` |
| – the Scheduler | `SchedulerInvariant`, `OneTask`, `UniqueAddresses`, `MovesForward` | `SchedulerSpec => []SchedulerInv`, `[]OneTaskPerInterval`, `[]AddressesAreUnique`, `ScheduleMovesForward` |
| – both together | `SystemInvariant`, `NothingIsRejected`, `ChecksAreWatched`, `Refinement` | `[]NothingRejected`, `ChecksOnlyWhatIsWatched`, `FollowsHistory` (`Spec => Service!Safety`) |
| `PriceAlertsProofs` | `AlertInvariant`, `AlertBacked`, `NoAlertTwice`, `AlertsOrdered`, `Answered` | `[]AlertStateBacked`, `[]NoRepeatedAlert`, `[]AlertsInScrapeOrder`, `[]RequesterAnswered` |
| `OutboxProofs` | `LeaseInvariant`, `OnePublisher`, `PublishedTaken` | `[]OnePublisherAtATime`, `[]PublishedWasTaken` |
| `LookupsProofs` | `LookupsInvariant`, `PendingBounded`, `AnswersAreFinal`, `FoundLastsDoneTtl` | `[]PendingNearLimit`, `AnswerIsFinal`, `FoundIsKept` |
| `NotifierProofs` | `NotifierInvariant`, `NotificationsSurvive`, `DemandsAreKept` | `[]NothingLost`, `[]RetryAfterRespected` |
| `BotDialogProofs` | `BotInvariant`, `BotTypeCorrect`, `LastProduct`, `WaitersAttended`, `SessionsNotLost`, `PagesSurvive` | `[]TypeOK`, `[]AsksAboutLastProduct`, `[]WaitingHasLookup`, `NoLostSession`, `PageSurvives` |
| `DispatcherProofs` | `DispatcherInvariant`, `NothingLost`, `InTurn` | `[]Accounted`, `HandledInTurn` |
| `PublisherProofs` | `PublisherInvariant`, `NoLeaks`, `OwnStreams`, `PublishImplementsPromise` | `[]NoConnectionLeaks`, `[]WaitsOnOwnStream`, `KeepsPromise` (`Spec => Promise!Spec`) |

**GatewayMonitoring.** `CurrentSnapshotIsDesired` is not inductive: a commit writes `seen + 1`, and nothing in that
property says `seen` is still the row's version. `IInv` adds `LocksHold` (a product is held by
one transaction, which has seen its version), `PublishedInOrder` (the snapshots of a product have exactly the
versions up to its own, one each), `RowsExist` (only stored products are
subscribed to, wanted or published) and `ForcesHaveUsers`. Since the version read
is the row's, the next one is unused, so `Enqueued` drops nothing (`PublishUnderLock`); since
what is monitored depends only on subscriptions to the locked products, the others'
snapshots stay right (`OtherProducts`). `PublishingEnd` and `SilentEnd` are the two ways of a
commit; `TransactionInv` has one step per action. `NoWaitCycle` rests on an invariant of its own, `LocksInOrder` (a transaction waits
only for rows above those it holds): in a circle of waiting transactions, of whatever length, the rows waited for would
have no greatest, but there are finitely many products (`HasLastRow`, by the well-founded order of finite sets).

**SchedulerStore.** The theorems are about `SchedulerSpec`, which closes the module with a queue that may deliver any snapshot and
any force at any time (`AnySnapshot`, `AnyForce`). Two batches never share a row (`BatchesDisjoint`), which is what SKIP LOCKED
gives and what makes each of two commits count a check once; and a product without a row has
version 0 (`NoRowNoVersion`), so a first snapshot is never taken for an old one.

**MonitoringSystem.** `SystemInv` joins the Gateway's `IInv` with `AddressesAgree` (no two products share an address, snapshots and forces carry
their product's), `RowsAreSnapshots` (every row of the Scheduler is a snapshot the Gateway published) and
`LockedAreActive`. A command is therefore never contradictory, and a newer snapshot is a later entry of the history; that each
entry of the history exists once and says what was wanted is the Gateway's part. `StepRefines` maps every step: a commit that
publishes to `Publish`, an accepted snapshot to `Follow`, the others to a stutter. The theorem covers the safety
of `MonitoringService`; that the Scheduler catches up needs fairness and stays with TLC.

**PriceAlerts.** `StateIsLastAlert` ties `alert_state` to the alert under the subscription's current version, `VersionsBehind`
says no alert has a later one, so that a new alert is never dropped by the unique key, and `CausesCounted` that an alert is
not younger than `latest_result_at`. Order and alternation of alerts follow from the three.

**Outbox.** Nothing in the tables says who is publishing, and leases run out while workers are slow. The invariant
counts: a worker on its way to Publish, or in it, owns its event, and what is left of its lease is more than the step may still
take. That is where `Slack + PublishTimeout < Lease` is needed, and the only place.

**Lookups.** A row that has its outcome has its TaskID marked (`AnsweredOnce`), so a second result finds it
processed. The age of a found product and the time until it expires add up to `DoneTtl` (`KeptForDoneTtl`). The
limit is not an invariant on its own; rows and admitted requests are counted together (`CountedTogether`): the
check admits a request below the limit, and whoever creates a row gives its request up. It needs finitely many requests at a time.

**Notifier.** `SafeToAck`: where the handler is about to acknowledge, the notification is settled or another message carries it.
`HoldCovered`: what Telegram still asks for is covered by what is left of the wait, of the stamp or the
queue's TTL, all of which end together with it (`TickInv`), message by message, except for messages that are unaware of it. A new demand
(`FailedInv`) makes every other message of the notification unaware, so only the answered one has to be covered; what it is passed on as inherits
the cover with the stamp (`BrokerTakesInv`), and what is brought back has its own NotBefore to cover it or is unaware (`RequeuedFields`).

**BotDialog.** A session is written by its chat's worker, from a copy, and by the lookups' goroutines. Goroutines write only a
session that waits for them, and leave one that does not, so by one worker per chat (`InTurn`) the session is the copy, or what the end of
one lookup has made of it (`SnapshotCurrent`, `LookupEnded`): a copy with another step is current. For `NoLostSession` that is enough, since of the
handlers that may act on a copy that waits only /start, /cancel and the start of an edit write more than the page. `Attended` has the life of a wait: about to be launched, at work under the chat's entry, or about to be
cleared; and a lookup that has reported is not waited for any more, which is what allows its slot and
entry to go. `Fresh` and `Registered` say that numbers and entries are not mixed up, `SlotsCounted` that slots are exactly the lookups at work.

**Dispatcher.** `InOrder`: behind an update there are only newer ones, from the channel `updates` (which has the numbers that were
received last, one after another) over the dispatcher's hand and each worker's queue to what that worker handles and has handled. That orders the
updates of a worker, but does not say that none is missing; `Accounted` does: while nobody stops, an update of a chat that was received is in the hand, with
its own worker, in its queue or handled. When a worker takes the first update of its queue, the older ones of the chat were received, are neither in the hand
nor in the queue, and the worker has none, so they are handled (`BeginsInTurn`). A stop may drop anything, but begins no
more handlers; `base` is where the count starts again after a restart. The route of a chat to its worker, the number of workers and
all capacities are arbitrary.

**Publisher.** A call finds the connection as the last holder of `publishGate` left it. `QuietInUse` says that is quiet: on the channel in use, as long as its
connection lives, nothing waits for the broker and no confirmation or return is unread, unless the holder of the gate waits for
one. So the confirmation he reads is that of his own message (`Awaited`), and a caller who stops waiting keeps this true by
taking the channel out of use before he lets the gate go (`RetireInv`). Close may run at any moment and take the channel, its socket and its streams away:
`ReadsOwn` says that what a call has read is then gone altogether and never replaced under its hands, since only the holder of the gate
installs a new one; `HoldsItsOwn` follows a new generation through `redial`, which is what `NoConnectionLeaks` needs.
`OncePerTry` counts a call's messages taken and under way, at most one for each `publishOn`. For the refinement, the broker's taking of a
message maps to `Take`, which the count allows at most twice, a return without an error to `Succeed` (`Awaited` says the message was taken), with an error to
`Fail`, everything else to a stutter (`StepAsPromised`). `PublishPromise` states no fairness, so the theorem covers all of it.

Only model-checked: liveness (`CatchesUp`, `ForcedChecksHappen`, `EventuallyPublished`, `EventuallySettled`, `EveryCallEnds`, `LimitClears`, `EveryWaitEnds`,
`Stops`, `EveryUpdateHandled`, `AllReturn`), because fairness rests on ENABLED, which the installed provers do not handle.
Every invariant and action property of a passing run, and the safety of both refinements, are theorems.

## 5. Not modelled

* Of the broker connection: declarations of queues and consumers, which are single calls to the library and leave nothing
  in the Connection but the consumer's channel.
* The scraping Extractor beyond its answers; marketplace pages and address parsing: I/O and
  parsing without state.
* Retention of price history, lists and formatting of the HTTP API, user upserts, configuration, wiring, the migration of old
  databases.

## 6. Plan

Done, in this order: `GatewayMonitoring` with its proofs, `SchedulerStore`,
`MonitoringService`/`MonitoringSystem`, `PriceAlerts`, `Outbox`, `Lookups`, `BotDialog`, `Notifier`,
`PublishPromise`/`Publisher`, `Dispatcher`; then the proofs, in the order of section 4.

Every safety property of the passing runs is a theorem; what is left:

1. Lemmas on which the liveness of the runs rests and that are safety: that a worker blocked on a full queue always has an update
   in work ahead of it (`Dispatcher`), that whoever waits for the gate waits for a call that can go on (`Publisher`).
2. The scraping side of the Extractor: its worker pools and the loss of its channel.
