# Verification of the Sentinel health check system

Sentinel watches the `HealthCheck` resources of a Kubernetes cluster, calls the
"is alive and well" address of each check's service on the check's own crontab,
stores the answers and writes them back to the resources' status. This
directory holds TLA+ models of the code that does this, the configurations TLC
checks them with, and proofs checked by TLAPS. Paths below are relative to the
repository.

## 1. Inventory

| part | state | operations | talks to |
|---|---|---|---|
| `SchedulerRepository[T]`, `ScheduledTask[T]` (Libs/Sentinel.Scheduler) | list of task objects; each has its item, parsed crontab, last and next run time | `Add`, `Remove`, `UpdateTask`, `UpdateSchedulerRepository`, `Sync`; `Increment`, `ShouldRun` | called by the two jobs below, without any lock |
| `HealthCheckSyncSchedulerJob` (Worker.Core) | none of its own; one object per execution | `Execute` | API server (list, status writes it does not await), `K8MemoryRepository`, the repository, Redis |
| `BusScheduler` (Worker.Core) | the copy of the task references it took when constructed | constructor, `Execute` | the task objects, RabbitMQ |
| `ServiceSyncSchedulerJob` and the deployment, namespace, scaler jobs | `K8MemoryRepository` | `Execute` | API server, Redis |
| `RedisDictionary` (Libs/Sentinel.Redis) | one Redis hash | `Add`, `Remove`, `Sync`, enumeration; a retry policy around each command | Redis |
| `SubscribeBackgroundService`, `BackgroundServiceWithHealthCheck`, `BackgroundServiceHealthCheck` | `isTriggered`, the reported health | message handler, timer, health query | RabbitMQ, the health endpoint |
| `HealthCheckSubscriber` (Worker.HealthChecker) | none | `Handler`: download, publish a status update, store twice in Mongo | HTTP, RabbitMQ, Mongo |
| `HealthCheckStatusUpdateSubscriber` (Worker.Core) | none | `Handler`: get the resource by name, replace its status | RabbitMQ, API server |
| `ResourceWatcher`, `WatcherBackgroundService` (Libs/Sentinel.K8s) | the connection, its cancellation, the reconnect counter and timer | `Start`, `Stop`, events, `OnException`, `OnClose`, reconnect | API server's watch |
| `CrontabSchedule`, `CrontabField` | five bit sets | parse, `GetNextOccurrence` | pure |
| downloader, `AZAuthService` | cached token | `DownloadAsync`, `AuthenticateAsync` | HTTP |
| event clients, Mongo repository, mail, DTOs, mapper | - | thin calls | their servers |

What is hard in it: all jobs fire every minute on a shared Quartz pool and none
is marked `DisallowConcurrentExecution`, so executions of one job overlap and
interleave with the other jobs; the shared list has no lock and holds
references that outlive their removal; every execution can end at any of
several exceptions and leave its work half done; writes and publishes are
started and not awaited; the worker restarts, and memory is lost while Redis
and the broker keep what they have; comparisons are made on local wall clocks.

What makes each part correct:

* repository: a check is scheduled once, on the schedule of the item it
  publishes; a `Sync` that returns leaves exactly the given items; the whole
  converges to the cluster.
* bus scheduler: nothing early, everything that is overdue, and nothing twice
  (with the exceptions `NoRepublish` names).
* Redis hash: after a synchronisation nobody else wrote into it equals the list,
  and it converges to the cluster once Redis answers.
* check pipeline: a check the broker accepted is never forgotten, the two
  collections agree, and a status shows an answer of its own name which the
  first phase never replaces; a check the broker delivers once is stored once.
  (Nothing in the code orders two answers: an older
  one may replace a newer one, and an answer of a deleted check may be shown by
  its successor of the same name.)
* subscribers: reported unhealthy only after a silent period.
* watcher: one connection, it is reopened until stopped, and what was missed
  before the subscription comes again.
* crontab: `GetNextOccurrence` is the least matching instant after its argument.

## 2. Modules

| module | content | runs | proofs |
|---|---|---|---|
| `ScheduledTask`, `SchedulerRepository` | the task and the list, as operators | - | - |
| `HealthCheckScheduler` | both jobs, the users of the cluster, Redis, restarts | `sched_*` | `HealthCheckSchedulerProofs` |
| `CheckPipeline`, `CheckStatus` | check message, download, store, status update; redelivery and reordering; implements the abstract status of a check | `pipeline` | `CheckPipelineProofs` |
| `SubscribeBackgroundService` | timer against handler, health reports, the watcher's variant | `health_*` | `SubscribeBackgroundServiceProofs` |
| `ResourceWatcher` | connections, reconnect timer, stop | `watch*` | `ResourceWatcherProofs` |
| `CrontabField`, `CrontabSchedule` | parser and search of the next occurrence | `crontab` | `CrontabScheduleProofs` |

`HealthCheckScheduler` and `CheckPipeline` meet at the published check: the
first ends with the broker having it, the second begins there. `ScheduledTask`
uses of a crontab what `CrontabSchedule` shows: the next occurrence is the first
one after its argument (`NextIsFirst`), or there is an exception because none is
left (`ThrowsForNone`). The
health of a watcher (`SubscribeBackgroundService` with `Triggers = FALSE`) is
reported by the subscriber of `ResourceWatcher`.

## 3. The scheduler

`ScheduledTask`: time is counted in units of half a minute (`now`), so that an
instant strictly inside a minute exists. A crontab is abstracted to what its
callers can tell apart: malformed (the constructor throws), never occurring
(`GetNextOccurrence` throws when the calendar ends) or occurring at any set of
instants of the calendar's cycle (400 years), again in every cycle; the end of
the calendar is out of sight for these. `Local` is `TimeZoneInfo.ConvertTime`
with at most one backward change of the clock, by `FallBackBy` at `FallBackAt`;
`Repeated` are the instants after it whose wall-clock time has been before.

`SchedulerRepository`: the list is a sequence of object identities and `heap`
gives the record of each, because a running `BusScheduler` keeps references to
objects that `Sync` replaces (`UpdateSchedulerRepository` puts a new object in
the list) or changes in place (`UpdateTask`). `FirstOrDefault` is the smallest
position.

`HealthCheckScheduler`: one action per step that other jobs can see between.

| code | actions |
|---|---|
| `HealthCheckSyncSchedulerJob.Execute` 73-97 | `SyncList`, `SyncListThrows` |
| the status writes of line 78 | `StartPhaseWrites` inside those, then `PhaseWrite` or `PhaseWriteThrows` |
| `SchedulerRepository.Sync` 104-114, 123-127, 143 | `SyncPlan` (the three lists), `SyncRemove`, `SyncReturns`; `SyncPlanThrows` when the list changed under the query |
| `Add` 85-92, `UpdateSchedulerRepository` 47-65 | `Construct` (the clock is read, the crontab parsed), then `SyncAdd` or `SyncReplace` (the list is changed) |
| `UpdateTask` 67-84 | `SyncUpdate` |
| `RedisDictionary.Sync` | `RedisAdd`, `RedisReadKeys`, `RedisRemove`, `ExecuteReturns`, `RedisThrows` |
| `BusScheduler` 38-48, 49-57, 59-69 | `BusCopy` (constructor), `BusSelect`, then `BusPublish` or `BusThrows` |
| `ServiceSyncSchedulerJob.Execute` | `ServiceSync` |
| users, API server, operating system (external) | `CreateResource`, `EditResource`, `DeleteResource`, `ClockTick`, `Crash` |

Modelling notes. The references of an execution of `BusScheduler` (`Held`) are
those its constructor copied (`copied`) and then those `Execute` selected
(`bus`); between the two the clock may run and `Sync` may replace or drop what
was copied, and the old object is published all the same. The object that
replaces one is constructed, due at once, before it takes its place (`built`),
so that the old one may also be copied after that. Reading the clock and
testing every task against it are one step in `BusSelect`: only an increment
changes the times of a task, and it belongs to an execution. `Increment`, two
assignments without a call in between, and the call that publishes are one step
too, which is exact while no two executions hold the same object; the properties
that speak of the times of a task are therefore stated for `~busOverlap`: no two
executions were under way together, from the constructor's copy to the end of
`Execute`. An execution that
finds nothing to copy or nothing due, or whose copy fails because the list is
being changed, has no effect. The order of the items within one loop is
nondeterministic, because the order of the API server's list is. `rev` stands
for the content of a resource. A restart (`Restart`) empties memory and drops
everything in flight; it is what an unobserved exception of the status write
does too.

`NoRepublish` says that an occurrence the broker accepted does not come again,
and the code does not keep that in every order. Let a task wait for ten
o'clock, and `Sync` construct its successor shortly before, which is due at
once. `BusScheduler` may still publish the old object's ten o'clock, from the
copy its constructor made, or because the successor is not in the list yet, and
the successor comes to ten o'clock again. Each entry of `sent` therefore says
whether a successor of the object had been constructed when it was published
(`Replaced`), and `NoRepublish` speaks of the entries for which none had: then
the occurrence was past before the successor read the clock, and none of its
own is. Like the other properties of the repository it is stated for executions
that were not inside `Sync` together (`~syncOverlap`).

`syncOverlap`, `busOverlap` and `crashes` are history variables:
`syncOverlap` says that two executions were inside `SchedulerRepository.Sync` at
the same time since the worker started, which the code does not prevent and
under which a check may be added twice; the properties about the repository are
stated for the executions before that.

A Redis command whose answer comes too late has been carried out all the same,
and the retry policy sends it again: `RedisAdd` and `RedisRemove` write and may
leave the execution where it is. Two executions may synchronise the hash at
once, each reading the keys after its own writes; `disturbed` (a history
variable) names the executions into whose synchronisation another one wrote, and
`RedisMirrorsItems` speaks of the others.

### Runs

| run | asks | bounds |
|---|---|---|
| `sched_sync` | type invariant, `UniqueUids`, `ScheduleCoherent`, `SyncApplied`, `RedisMirrorsItems` | two checks, two user writes besides deletions, three schedules (one malformed), two executions of the job at once |
| `sched_bus` | `NotEarly`, `NoRepublish`, `OverdueIsDue`, `OverdueServed` | two checks, two writes, a schedule that never occurs, one restart, two half minutes, the local clock set back by half a minute |
| `sched_live` | `Converges`, `RedisConverges` | two checks, two writes, three schedules (one malformed), first phases to write, one restart (also by a failed status write) |
| `sched_services` | `RelationsConverge` | one check, three writes, a malformed schedule, a service that comes and goes, a check without service, one restart |
| `sched_dst` | refutes `OverdueServed` when the local clock is set back | one check |

The bounds are enough for: a check deleted and recreated under its key between
the list and its use (two writes and a deletion, which is not counted), an edit
of the schedule, an aborted `Sync` followed by a complete one, a
synchronisation of Redis that fails half-way or overlaps another (in
`sched_sync` only), and (all but
`sched_sync`, whose two executions leave no room for it) a restart between any
two steps. Two checks are the least with which one can make the
other's synchronisation, or the bus scheduler's execution, throw. In two half
minutes a task is published, and again by the object that replaces it or by a
worker that starts anew. The cycle has four half minutes, in which a schedule
occurs twice or once. The change of the clock makes an overdue task wait in the
repeated time, without which exception `OverdueIsDue` fails; `OverdueServed`
holds under it because no two occurrences of a schedule are half a minute apart
(`sched_dst` is for two that are as far apart as the change). An early or a
second publish needs a longer change and a longer run than liveness can be
checked on; for these there are the proofs, for every change. `VIEW` hides task
objects nobody refers to, and marks in `disturbed` that are taken away before
they are read; keys and executions are symmetric in `sched_sync`, the run
without liveness.

Fairness (`FairSpec`): Quartz fires the jobs again and again and an execution
that has begun goes on, hence weak fairness of the steps of an execution; a job
that may always throw is not required to succeed except for `SyncList`, which
says that Redis is not down for ever; the clock runs. Users, restarts and the
failures of Redis commands have no fairness; `RedisConverges` assumes in its
statement that the failures stop.

### What the violations show

`ShouldRun` (`ScheduledTask[T].cs:47`) compares local wall clocks. When daylight
saving ends, a task whose last and next run are an hour apart has both at the
same wall-clock time and `localLastRunTime != localNextRunTime` stays false for
good (`sched_dst`). For the same reason an occurrence after the change looks
past before it is. `NotEarly`, `NoRepublish` and `OverdueIsDue` say how far this
goes: only occurrences of the repeated hour come early, by less than that hour,
or are published again by a new object, and whatever is overdue outside that
hour is due. Where the clock runs evenly (`FallBackBy = 0`) that hour is empty.

## 4. The check pipeline

`BusScheduler` publishes a check; `HealthCheckSubscriber` calls the address,
publishes the answer for the core worker and stores it twice;
`HealthCheckStatusUpdateSubscriber` writes it to the resource's status, which
`HealthCheckSyncSchedulerJob` writes too when it is empty. `CheckPipeline` has
one action per step at which another handler, a crash, a lost connection or a
user can come in:

| code | actions |
|---|---|
| `HealthCheckSubscriber.Handler` 37-54 | `TakeCheck` |
| `DownloadAsync`, line 58-63 | `Call`, `CallFindsNoAddress` |
| `QueueHealthCheckK8sUpdate` | `PublishUpdate`; the publish may fail unnoticed |
| `saveToMongo` | `StoreSeries`, then `StoreResult` |
| an exception in any of these | `CheckThrows` |
| `UpdateStartusAsync(Name, ...)` 52-60 | `TakeUpdate` |
| `UpdateStartusAsync` 62-79 | `ReplaceStatus`, `ReplaceThrows` |
| `HealthCheckSyncSchedulerJob` 74-80 | `StartPhaseWrite`, then `PhaseWrite` or `PhaseWriteThrows` |
| users, API server, broker, operating system (external) | `CreateResource`, `EditResource`, `DeleteResource`, `PublishCheck`, `CoreCrash`, `CheckerCrash`, `CoreLosesConnection`, `CheckerLosesConnection` |

The broker is modelled as EasyNetQ uses it: handlers of several messages run at
once and in any order, a message is acknowledged when its handler returns, goes
to the error queue when the handler throws, and is delivered again when the
process ends or its connection (or channel) is lost before that. In the second
case nobody tells the handlers: they run on beside the executions of the same
messages that begin on the new connection, store and publish, and what they
acknowledge counts for nothing. The connections of each worker are numbered
(`checkerLink`, `coreLink`); an execution knows the one its message came over
(`on`), and the broker waits for its acknowledgement while that is the one in
use (`HeldCheck`, `HeldUpdate`). `redelivered`, a history variable, holds the
checks that were delivered again. A handler that throws after its connection was
lost may not reach the error queue. Nobody reads that queue, and of the updates
in it nothing is kept. `TakeUpdate` is one step with the read of the resource:
an execution that is cut off before its read does what one does that is cut off
after it.

`MongoConsistent` says what the code keeps. A check may be stored twice, and may
be left with a time series entry only, when it was delivered again, which takes
no more than a lost connection; a check that was delivered once is stored at
most once, and only a handler that is at the second write, or that threw, leaves
it half stored.

The API server refuses a replace with an old resource version. An
answer is its HTTP status and the `status` of its body, if any; a body may say
anything, an empty status included, so only the word the model itself uses for
"no resource" is excluded (`AnswerAssumption`). `checkedAt` counts the calls, so
that two deliveries of one check store and send different things. The time of
the write, which the code stores as `LastCheckTime`, is left out: no property
speaks of it.

`CheckStatus` is the abstract specification: a status is empty, then says that
the check was taken over, and shows an answer once there is one; the mapping
shows each resource's phase, or "none" (`StatusView`).

| run | asks | bounds |
|---|---|---|
| `pipeline` | type invariant, `NothingForgotten`, `MongoConsistent`, `ImplementsCheckStatus`, `ChecksSettle`, `UpdatesSettle`, `PhaseWritten` | one name, one check, two calls, users' writes up to version two, a crash or a lost connection of either worker (and the ends a failed status write causes), three kinds of answer |

With these bounds a resource is edited or recreated between its check and the
update, a check is answered and stored twice after a crash or by the two
executions of a lost connection, and the writers of the status conflict with
each other and with the users. Names do
not interact (each handler reads and writes one), so one is enough; the proofs
below are for any number. Fairness (`FairSpec`): the broker delivers to a
running worker, a handler that has begun goes on, and the sync job fires every
minute and its requests are answered; crashes and lost connections are not
fair, and bounded (`MaxFailures`). A handler's exceptions are steps of the
handler, so that fairness does not promise success.

## 5. The health of a background service

`SubscribeBackgroundService` models `SubscribeBackgroundService[T]` and, with
`Triggers = FALSE`, `BackgroundServiceWithHealthCheck` under
`WatcherBackgroundService[T]`, which differ in one statement; both report to a
`BackgroundServiceHealthCheck`. Three threads meet: the handler of a message
(`Receive` sets `isTriggered`, then `ReportHealthy`), the timer's callback
(`Fire` tests `isTriggered`, then `ReportSilence`, then `Reset`) and the health
query (`CheckHealth` tests the age of the last report, then `Degrade`).
`SubscribeAsync` is not awaited, so that `Subscribe` may also never happen;
`SubscribeThrows` is the exception `SubscribeQueue` catches. The texts and the
count of the reports are left out.

Assumed: the service is started when it is constructed, and no time passes
between two statements of one execution (the clock counts minutes); without the
second a thread that is suspended for a period would report anything.

| run | asks | bounds |
|---|---|---|
| `health_queue` | type invariant, `HealthyIsRecent`, `NeverDegraded`, `SilenceIsReal` | periods 2 (as 30 minutes to an hour) and 3 (the hour's rule fires), hour 4, two overlapping handlers, 14 time units |
| `health_race` | refutes `SilenceIsExact` | period 2, hour 4 |
| `health_watcher` | refutes `SilenceIsReal` for a watcher | period 3, hour 4 |

The violations: the callback may report a silent period over a message that
was handled between its test and its report, and the service stays unhealthy
until its next message (`SubscribeBackgroundService[T].cs:86`); and nothing sets
`isTriggered` of a watcher, which is therefore reported silent in every period
(`BackgroundServiceWithHealthCheck.cs:72`).

## 6. The watcher of a resource

`ResourceWatcher` models `ResourceWatcher.cs` with its caller
`WatcherBackgroundService`. Three kinds of threads run `WatchResource`: the
caller of `Start`, the reconnect timer, and `OnClose` on the thread of the
connection that ends. They share `_watcher` and `_cancellation` without a lock.
`pc` says what each thread does next; a connection is a thread of its own (the
loop of `Watcher<T>` of the Kubernetes client, external) and `told` says that
its token was cancelled or it was disposed.

| code | actions |
|---|---|
| `WatchResource` 109-134 | `CheckWatcher` (to the new token), `OpenConnection`, `AssignWatcher`; `OpenThrows` when the token is disposed |
| `Start`, `Execute` of the background service | `Start`, `Subscribe` |
| `Stop` 76-107 | `Stop` |
| `_reconnectSubscription` 61-65 | `TimerFires` |
| `OnWatcherEvent` | `OnWatcherEvent`, for the resources that exist when a watch begins |
| `OnException` 170-198 | `OnException`, `OnExceptionThrows` |
| `OnClose`, `RestartWatcher` | `OnClose`, `RestartWatcher`, then `WatchResource` |
| the client's loop (external) | `StartLoop`, `ServerCloses`, `EndsTold` |

Assumed: the reconnect delay (two seconds at least) is longer than it takes a
connection that was told to end to end; without it the timer could open a second
connection beside an old one. A `WatchResource` that is under way when `Stop` is
called goes on, and may leave a connection open or fail: `StopsForGood` speaks
of the other stops (`clean`). `WatchAsync` of the client returns at once, so that
the `Wait` in `OnClose` waits for nothing.

| run | asks | bounds |
|---|---|---|
| `watch` | type invariant, `OneConnection`, `NotLost`, `StopsForGood`, `OnlyServerCloses`, `Reconnects`, `ReachesSubscriber` | three connections that can be opened again and again, one call of `Start` |
| `watch_restart` | refutes `OnlyServerCloses` for two calls of `Start` | three connections |

Three connections are one that ends, one that is opened and one to spare; the
proofs below are for any number. Fairness (`FairSpec`): threads run, the timer
fires, a connection that was told to end ends, and the server closes a
connection after its timeout. `ReachesSubscriber` needs that the server does not
fail every single connection before it has sent the existing resources (strong
fairness of `OnWatcherEvent`); nobody makes up for a server that does.

The violation: `OnClose` asks the newest token why its own connection ended
(`ResourceWatcher.cs:205`). With a second `Start` before the first connection's
loop has begun, a connection the watcher disposed itself is taken for one the
server closed, and its `OnClose` cancels the new one, whose `OnClose` may find
the next token live in turn. `WatcherBackgroundService` calls `Start` once; a
test calls it twice (`ResourceWatcherTests.cs:113-115`).

## 7. The crontab

`CrontabField` models a field (`CrontabField.cs`, `CrontabFieldImpl.cs`): the
set of its values and, beside it, its least and greatest value. The text is a
list of terms, and a term is the numbers in it with its form; characters, names
of months and days and error texts are abstracted. `Rejected` includes the loop
variable that wraps around behind a large step (`IntMax`), which makes the index
negative and the parser throw.

`CrontabSchedule` parses the five fields term by term (`ReadTerm`, `NextField`)
and has one action per section of `GetNextOccurrence`:

| code (`CrontabSchedule.cs`) | actions |
|---|---|
| 68-91 | `GetNextOccurrence` |
| minute, hour, day, month: 93-103, 105-120, 122-126, 128-162 | `SearchMinute`, `SearchHour`, `SearchDay`, `SearchMonth` |
| 183-190 | `RetryDayMonth` |
| 183 and 192, beyond the last year | `BeyondCalendar`, an exception |
| 201-204 | `Return`, `OtherWeekday` (the recursive call) |

The calendar is a parameter: the greatest values of the fields, the length of
each month, the weekday of each date, the last year. `endTime` is the greatest
`DateTime`, as everywhere in the workers, for which the branches that return it
cannot be reached. The comment at line 178 lists "Apr 31" and leaves out "Mar 31"
in an example; the code does neither, and the run and the theorem say what it
does.

| run | asks | bounds |
|---|---|---|
| `crontab` | type invariant, `FieldsCoherent`, `NextIsFirst`, `ThrowsForNone`, `SearchAdvances`, `SearchEnds` | every term over the numbers 0 to 4 and steps 0, 1, 2, 5 with `IntMax` 5; a calendar of three years of two months with two or three days of two hours of two minutes, a week of three days |

The calendar has what makes the real one hard: a month whose last day exists in
some years only, months and years that are no multiples of the week, and an end.
Fairness: the search is sequential code and runs on. `SearchAdvances` says why
it ends: every step comes to a later base time (the recursive call), a later
month, or a later section (`Stage`) of the same month, and none of these can go
on for ever in a calendar that ends.

## 8. Proofs

`HealthCheckSchedulerProofs` proves, for every number of keys, services,
schedules, executions and steps:

| theorem | property |
|---|---|
| `TypeCorrect` | `TypeOK`, and that the list refers to existing objects |
| `ChecksScheduledOnce` | `UniqueUids` |
| `SchedulesMatchItems` | `ScheduleCoherent` |
| `SyncLeavesTheList` | `SyncApplied` |
| `NothingPublishedEarly` | `NotEarly` |
| `NothingPublishedTwice` | `NoRepublish` |
| `NothingPassedOver` | `OverdueIsDue` |
| `RedisHoldsTheList` | `RedisMirrorsItems` |

They rest on the named assumptions of the modules only (`ScheduleAssumption`,
`BoundAssumption`, `NoResourceAssumption`), which TLC evaluates in every run.

None of the properties is inductive. The repository's invariant
(`RepositoryInv`) adds: uids name keys across the cluster, the lists in flight
and memory (`UidNamesKey`), so that comparing by key and updating by uid speak
of the same check; the plan of an execution inside `Sync` describes the list
while it is alone there (`OneInside`, `HasTask`, `SyncProgress`): what is still
to be added is absent, what is to be updated has its task, and whatever is
neither is already the listed item. The bus scheduler's (`BusInv`) adds that at
most one execution is under way while `busOverlap` is false (`OnePublishing`),
that it holds one object for each check (`HeldOnce`), that what it still has to publish is due (`NotEarly`), and that every accepted occurrence
lies in the past (`SentPast`), which is why an object constructed now, by `Sync`
or after a restart, cannot repeat one. What Sync has constructed and not put in
the list yet was constructed after every occurrence that is not marked
`replaced` (`BuiltAfter`). All of them allow for the repeated hour,
by the lemma `RunsLate`. That a task moves forward and passes over no occurrence
is the lemma `NextOccurrenceFirst`, for any set of occurrences: it rests on
lemmas about division with remainder (every remainder comes within one cycle).
`OverdueIsDue` needs besides that a task waits for a later occurrence than it
ran last (`RunOrder`). Redis' (`RedisInv`) records what
has been written and what is still to be removed (`RedisProgress`).

`CheckPipelineProofs` proves, for every number of names, checks, calls, crashes
and lost connections:

| theorem | property |
|---|---|
| `TypeCorrect` | `TypeOK` |
| `StatusRefinement` | `ImplementsCheckStatus` |
| `NoCheckForgotten` | `NothingForgotten` |
| `StoresConsistent` | `MongoConsistent` |

The refinement needs three facts that are inductive together (`StatusInv`):
every update under way carries an answer that was given (`AnswersKnown`); no
version is newer than the API server's last (`VersionsPast`); and a write of
the sync job that would still be accepted goes to an empty phase
(`FirstPhaseOnly`), since every write of a phase makes the version newer. The
two collections need that a check the broker did not deliver again is in one
place only, waiting, in one handler or stored (`InOnePlace`), and that a handler
whose connection is lost has a check that was delivered again (`LostAgain`):
the end of the worker, which delivers again only what is held, then leaves no
check half stored that was delivered once. The assumptions are `AnswerAssumption`, `NoResourceAssumption` and
`BoundAssumption`.

`SubscribeBackgroundServiceProofs` proves, for every period, hour and number of
handlers:

| theorem | property |
|---|---|
| `TypeCorrect` | `TypeOK` |
| `HealthyMeansRecent` | `HealthyIsRecent` |
| `ReportsAreKept` | `NeverDegraded` |
| `SilenceNeedsAPeriod` | `SilenceIsReal`, when `Triggers` |

Their invariant (`HealthInv`) relates the last message and the last report not
to the clock but to the time the timer fires next, by the statement the callback
is at: a message of this period is remembered in `isTriggered`, one of the
period before is not, and an older one cannot be behind a healthy report.

`ResourceWatcherProofs` proves, for every number of connections, `TypeOK`
however often `Start` is called, and the others when it is called once
(`Starts = 1`, as `WatcherBackgroundService` does; for two calls `watch_restart`
refutes `OnlyServerCloses`, and TLC finds counterexamples to the other three as
well):

| theorem | property |
|---|---|
| `TypeCorrect` | `TypeOK` |
| `AtMostOne` | `OneConnection` |
| `NeverLost` | `NotLost` |
| `StopIsFinal` | `StopsForGood` |
| `ReconnectsForServer` | `OnlyServerCloses` |

The invariant (`Inv`) says who is responsible for the watch: a connection that
nobody told to end, or a thread that is about to open one (`Holds`). There is
never more than one of them (`OneHolder`), none while the timer runs or while
somebody who was told to end has not ended (`ArmedAlone`, `ToldAlone`), and one
or the timer until `Stop` (`Held`). `TokenLive` ties the token to them: while it
is live there is one, which is why a connection that was told to end never finds
it live in `OnClose`.

`CrontabScheduleProofs` proves, for every calendar the assumptions allow, every
list of terms and every base time:

| theorem | property |
|---|---|
| `TypeCorrect` | `TypeOK` |
| `FieldsAreCoherent` | `FieldsCoherent` |
| `ReturnsTheFirst` | `NextIsFirst` |
| `ThrowsOnlyForNone` | `ThrowsForNone` |
| `EveryStepAdvances` | `SearchAdvances` |

The parser's part (`ParseInv`) rests on lemmas about multiples of the interval:
the value the loop variable stops at is the greatest one it set
(`LastMultiple`), so that the bounds beside a field are values of it
(`AccumulateCoherent`). The search's invariant (`SearchInv`) has one conjunct per
section (`AtHour`, `AtDay`, `AtMonth`, `AtCheck`), each of which says that every
instant the crontab allows after `base` is still at or ahead of the cursor, and
that the calls before this one passed none (`CallsBefore`). `EveryStepAdvances`
adds that the month the search is at is one of the calendar or the first behind
it (`MonthInv`): with it only the step from "every action that moves forward" to
"the search ends" (`SearchEnds`) is left to TLC. The
assumptions are `IntAssumption` and `CalendarAssumption`: the greatest values of
the fields are below the greatest integer, every month has at least `SureDays`
days and at most the greatest value of the day field, which the last month of
every year reaches.

Checked by TLC only: `Converges`, `RelationsConverge`, `RedisConverges`,
`OverdueServed`, `ChecksSettle`, `UpdatesSettle`, `PhaseWritten`, `Reconnects`,
`ReachesSubscriber` and `SearchEnds` (liveness under fairness is out of the
prover's reach).

## 9. Not modelled

`PROJECT.json` lists every part with its status. Left out, and why:

* the jobs that copy deployments, namespaces and scalers: each lists, stamps and
  calls the `RedisDictionary.Sync` that is modelled, and nobody reads the result;
* operations of modelled parts that no worker calls: enumeration, `Clear`,
  `AddMultiple` and the key-function variant of `RedisDictionary`,
  `GetNextOccurrences` and formatting of a crontab, `Dispose` of the watcher;
* the event clients, the scheduler repository feeder and the scaler, screenshot
  and secret generator workers: nothing registers or calls them, so the running
  system has no behaviour of theirs;
* the Azure AD token cache and the loop over a service's addresses: sequential
  lookups whose outcome (an answer, no address, an exception) is what
  `CheckPipeline` has;
* Mongo repository, mail, Kubernetes client and mapper, data transfer objects:
  calls of drivers and field-by-field copies without state of their own; their
  failures are steps of the modules that call them;
* the monitoring page, the dashboard, the JavaScript libraries vendored with
  them, charts, containers and sample applications: no logic of the system;
* the order of status updates: the code has none (see the hazards in
  `PROJECT.json`), so there is nothing to promise.
