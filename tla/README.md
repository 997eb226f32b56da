# Verification of the spdlog stress test

TLA+ models of the concurrent parts of the program under
`src/C++ Project/src`, the TLC runs that check them on small instances, and
TLAPS proofs, for every instance, of all the safety properties that these runs
check. Paths such as `thread_pool.h` are relative to
`src/C++ Project/src/include`.

## The system

The program runs a set of tests in parallel for some seconds and shuts down.

| Component | State | Operations | What makes it correct |
|---|---|---|---|
| `ThreadPool` with a limit (`thread_pool.h`) | task queue, set of tasks in progress, `stopping_`, first exception, two condition variables, workers | constructor, `submit`, `wait`, `workerLoop`, destructor | each task is executed once; `wait` is complete; no wakeup is lost; exceptions reach a waiter once; the destructor drains and joins |
| `ThreadPool` without a limit | a vector of threads | `submit`, `wait`, destructor | no thread is destroyed while joinable; the same promises to callers |
| `main` and `TestBase` (`main.cpp`, `test_base.h`) | `stop`, counter of active tests, tests, loggers, the pool | set-up, submission, heartbeat, stop, wait, teardown, unwinding | what tests use outlives them; "finished early" is true; main ends |
| `RideStateManagerTest` (`ride_state_manager.h`) | ride state, bounded queue of notifications, weak observer list, one thread | `subscribe`, `unsubscribe`, five state changes, observer thread, destructor | the queue tells the changes in order; subscribers hear each once; shutdown drains and returns |
| `TExpiringCache` (`non_test/expiring_cache.h`) | map, heap, generation, handler thread | `put`, `get`, `remove`, `size`, `stop`, handler | `get` is that of a map with times to live; `stop` returns |
| `ProducerConsumerQueueTest` (`producer_consumer_queue.h`) | queue, sequence number, threads | producers, consumers with timed waits, `run`, `wait`, destruction | items are consumed once and in order; consumers end after stop although nobody notifies them |
| `ConcurrentMetricsTest` (`concurrent_metrics.h`) | per-worker batches, shared envelope, internal stop | workers, reporter, `run` | no event is lost or counted twice; a failure ends everybody and comes out of `run` |
| `DiagnosticsTest` (`diagnostics.h`) | metrics and log buffer, a mutex each | collector, reporter, `run` | no deadlock with opposite lock orders; no line is lost or logged twice; an exact summary |
| `TestContext` (`test_context.h`) | the configuration | `parse` | what the last valid option says |
| stop-loop tests (`level.h`, `level5.h`, `string_uaf.h`, `timebase.h`, `sink_callback.h`) | `level` has two threads, the others little | `run` | they end after stop and leave no thread behind |
| loggers (`test_base.h`, `main.cpp`, spdlog) | per pool a bounded queue and a worker; shared or one per test | `makeLogger`, `configure`, log, flush, shutdown | nobody logs into a pool that is gone; last words are written |

`main` hands one task per test to the pool. A task calls `TestBase::start`,
which calls the test's `run`; most runs loop until they see `stop`. `main`
counts the tasks, waits for the deadline or for the count to drop to zero,
raises `stop`, waits for the pool, destroys the tests, then the loggers. Ride
manager and cache are libraries with a thread each; their callers' calls may
come in any order.

What is hard to test in all this is listed as `hazards` in `PROJECT.json`,
each at its line with the properties that cover it.

## The modules

| Module | Models |
|---|---|
| `TaskExecutor` | what a pool promises: tasks start once, at most `Parallel` at a time, `wait` returns when all have finished |
| `ThreadPool` | `thread_pool.h` with a limit; implements `TaskExecutor` |
| `PerTaskThreads` | `thread_pool.h` without one; implements `TaskExecutor` |
| `Harness` | `main.cpp`, `TestBase` and the kinds of tests, composed with `TaskExecutor` in the place of the pool and with `LoggerPools` |
| `LoggerPools` | the asynchronous loggers as `test_base.h` and `main.cpp` use them (external) |
| `RideStateManager` | `ride_state_manager.h` |
| `TtlMap` | what a map with times to live is for those who call it |
| `ExpiringCache` | `expiring_cache.h`; implements `TtlMap` |
| `ProducerConsumerQueue` | `producer_consumer_queue.h` |
| `ConcurrentMetrics` | `concurrent_metrics.h` |
| `Diagnostics` | `diagnostics.h`, with `std::lock` (external) taken apart |
| `TestContext` | `test_context.h`, with the conversions of its values (external) |
| `ThreadPoolProofs`, `PerTaskThreadsProofs`, `RideStateManagerProofs`, `ExpiringCacheProofs`, `ProducerConsumerQueueProofs`, `ConcurrentMetricsProofs`, `DiagnosticsProofs` | the proofs about the module of the same name |
| `HarnessProofs` | the proofs about `Harness`, and about `TestContext`, with whose result its `main` works |

Conventions shared by the modules:

- A region that holds a mutex from the first test to the last write is one
  action. Where the code notifies after the unlock the notification is an
  action of its own; where it notifies under the mutex it is part of the
  action that holds it.
- A thread in `condition_variable::wait` is "asleep". A notification or a
  spurious wakeup makes it test its predicate again.
- Variables marked *history* record what the properties speak of and are read
  by no guard.
- Each module has one type invariant, `TypeOK`. `ThreadPool`,
  `ConcurrentMetrics` and `Diagnostics` check it by itself, because it is
  proved by itself; elsewhere it is the first conjunct of the invariant about
  the structure of the state (`NoThreadDropped`, `QueueTellsTheRide`, ...). In
  `TestContext`, which `HarnessProofs` extends along with `Harness`, it is
  `ContextOK`, and the behaviour is `ParseSpec`.
- Definitions introduced by "Faulty variant" are plausible slips in the
  operation that follows. No specification uses them; they document what each
  property would catch, and `PROJECT.json` pairs them with the properties.

### ThreadPool

State: one program counter per worker and per client, the queue, the set in
progress, `stopping_`, the first exception (as the id of the task that threw
it). `submit` is `Submit` (under the mutex) and `NotifyOne`. `wait` is
`CallWait`, then `WaitBlocks`, `WaitReturns` or `WaitRethrows`. The loop of a
worker is `WorkerBlocks`, `WorkerExits` or `WorkerTakes`, the task
(`TaskReturns` or `TaskThrows`, then `RecordException`), and `FinishTask`. The
destructor is `Destroy` (its own wait), `DestructorStops`,
`DestructorNotifiesAll` and `DestructorJoins`; an exception that its wait
rethrows terminates the process, since destructors are noexcept.
`SpawnFails` is a thread that cannot be started: with no thread yet the
constructor throws; otherwise its members are destroyed under running workers,
and the process terminates or, if a worker sleeps on the condition variable
that is being destroyed, may block.

### PerTaskThreads

The thread of a task is created, running, ended and joined. `submit` either
starts it or throws and changes nothing. `wait` joins in order (`JoinNext`)
and clears the vector (`WaitReturns`). A task that throws ends the process.
There is one caller, as the vector is not locked in this mode.

### Harness

`main` is a program counter over making its logger, configuring the tests,
submission, heartbeat, stop and wait, destruction of the tests and of the
logger, or over the unwinding after an exception from the set-up or from
`submit`. A pool that can start some of its workers only ends or blocks the
process (`PoolStartFails`, see `ThreadPool`). Each test has a body: `StartTest`,
then `run`, then `LogFinished`, `FlushLogger`, `CountDownTest` and `FinishTest`
(an exception skips the two in the middle, `RunThrows`). The kinds of tests
differ in `run`:

- those in no set return when they see `stop` (`LoopEnds`): `level5`,
  `string_uaf`, `timebase`, and in the view of `main` the diagnostics and metrics
  tests;
- those in `Early` do so at once without `--stress` (`sink_callback`);
- those in `Forking` start two threads and join them (`level`), also the first
  one alone if the second does not start (`ForkWriter`, `ForkReader`,
  `InnerThreadTestsStop`, `InnerJoined`);
- those in `Queueing` also throw when not all of their threads can be started
  (`producer_consumer_queue.h:50`), and then leave those that were started,
  running and joinable (`RunThrows`, `stranded`). These go on logging until they
  see `stop`. Destroying the test terminates the process, whether they have
  ended or not (`DestroyTerminates`);
- those in `Detached` return at once and leave a thread, which the destructor
  joins, as the ride test does. So `main` may log that all tests have finished,
  and start a test in the place of this one, while that thread runs, although
  `level.h:28` takes it for the contract of `TestBase::run` that it blocks
  until its threads exit.

While `main` is unwound `stop` and the counter go before the tests
(`stopGone`). A thread left behind may then read `stop` once more
(`LingererExits`); `TestsUseLiveObjects` states for these threads what holds
nevertheless, and names the late read as excluded.

Whether `--filename` (one shared logger) and `--stress` are given is chosen in
`Init`. The deadline may pass at any moment.

### LoggerPools

A pool exists from `Open` to `Close`, which lets its worker write what is
queued. Of the messages only the last one of each test, "Test finished", is
followed: queued, written, dropped or refused. All other messages are `Post`:
under `overrun_oldest` (`--stress`) they may find the queue full and drop the
oldest message, which may be a last word; under `block` they wait. `Flush` posts
a message as well. A logger holds its pool weakly, so without the pool a
message is refused.

### RideStateManager

`subscribe`, `unsubscribe` and `tryChangingState` are one action each. The
observer thread tests `stop`, sleeps, exits, pops, takes a snapshot of the
live observers, and dispatches to them one by one with no mutex held, while
everybody else may call anything; the callbacks themselves may, too. Weak
pointers are modelled by `held`: an object lives while it is held outside or
pinned by the snapshot. An exception from a callback is caught and changes
nothing, so `Dispatch` stands for both outcomes. Lines 108 to 111 are
unreachable (after the wait and the exit test the queue is not empty). What the
loops over `observers_` leave of it is `Erased`, which says by its rank where
each element that is kept goes; unlike a recursive filter, the proofs can
reason about it.

### ExpiringCache

The handler holds the mutex from waking to sleeping, which makes one action of a
round (`HandlerErases`) or of a wakeup that comes too early (`HandlerSleepsOn`).
The latter keeps the deadline computed before: an entry that is put with an
earlier expiration wakes the handler, which goes back to sleep until the *old*
deadline. Callers never see such an entry (`get` tests the expiration), but it
stays in the map until then, or until a later notification; the first entry put
into an empty cache may stay for ever. `CoveredEntriesAreErased` says which
entries are certain to be erased.

### ProducerConsumerQueue

`run` starts the producers, then the consumers, and `wait` joins them. A
producer tests `stop`, pushes under the mutex (`Push`; a full queue refuses the
item) and notifies after the unlock (`Notify`: one sleeper, or nobody). A
consumer takes the mutex (`Lock`, also after a wakeup or a timeout), tests
`stop`, tests its predicate (`Check`), sleeps or takes (`Take`) and logs without
the mutex (`Log`). Since `stop` is read without protection while the mutex is
held, each read is a step of its own. If a thread cannot be started `run`
throws and leaves joinable threads in `threads_`; `DestroyTest`, which `main`
reaches after `stop`, then terminates the process. What is claimed of a run
that returns (`RunReturnsWhenDone`, `RunEnds`) says nothing of one that throws;
that is the subject of `queue_start_failure`.

### Diagnostics

`std::scoped_lock` with two mutexes is `LockFirst`, then `TrySucceeds` or
`TryFails`; after a failure the thread lets go and begins again with either
mutex. The collector counts the iteration before it locks, then updates the
metrics, appends a line and sleeps, all inside the scope of its lock. The
reporter tests `stop` outside, drains the buffer and counts the metrics under
the lock, and logs outside again. `run` joins
both and reads the totals without a lock (`Summarise`), or, if the reporter did
not start, joins the collector and throws (`Rethrow`). A line is known by the
iteration that wrote it.

### TestContext

One action per option (`TakeSeconds`, ...), which reads the next argument
whatever it is, and `PassOver` for what is no option. A value is one of eight
tokens that behave differently in the conversions: a number, a number with
letters behind it, a number that no `int` can hold, zero, a level, `off`, the
empty string and a list of names. The reference `LastValidWins` looks at the
finished list instead: which arguments count as options is decided by looking
back from each (in a row of arguments that want a value, every second one is a
value), and the last valid value counts.

### ConcurrentMetrics

`run` starts the workers and the reporter (`StartWorker`, `StartReporter`, or
their failures, which raise `internalStop_`), joins them and throws if the flag
is up (`Finish`). A worker tests the flags, creates an event and flushes when
its batch is full, and once more after the loop; a reporter tests the flags and
logs, and logs once more; it may fail, too, which raises `internalStop_`
(`ReporterThrows`). Only the seeding of the generator can throw in a
worker, so a worker that fails has no batch to lose. Consolidating is local to
a worker and part of `Flush`. Counts per worker stand for the envelopes; the
shared data that has no value is the one with zero counts.

## The runs

| Run | Instance | Shows |
|---|---|---|
| `pool` | 2 workers, 2 clients, 3 tasks; tasks may throw, threads may fail to start | accounting of tasks, complete waits, exceptions, drained destruction, implementation of `TaskExecutor`, progress without spurious wakeups |
| `pool_constructor` | 2 workers | **violated**: a worker that cannot be started takes the process down |
| `pertask` | 4 tasks | no thread is dropped; implementation of `TaskExecutor` with its progress |
| `harness` | 4 tests on 2 workers, one of each set, queues of 2; exceptions in the set-up, in `submit` and in tests | lifetimes of tests, counters and loggers, early finish, last words, nothing outlives main, main ends unless the process is terminated or `submit` throws |
| `harness_unwinding` | 2 tests, `submit` may throw | **violated**: main hangs while it unwinds |
| `ride` | 2 dispatchers, 1 observer, queue of 2, 3 changes | order, exactly-once, unsubscription, draining, the destructor returns, changes are dispatched |
| `cache` | 2 keys, 2 puts, 2 removes, times to live 0 to 2, clock to 3 | implementation of `TtlMap`, erasing, stop |
| `metrics` | 2 workers, batches of 2, 4 events each | events counted once, failures surface, the last report, the end of `run` |
| `queue` | 2 producers, 2 consumers, a queue of 2, 3 items; threads may fail to start | items consumed once and in order, a run that returns is done, items are taken, the end of `run` |
| `queue_start_failure` | the same | **violated**: a thread that cannot be started takes the process down in the end |
| `diagnostics` | 4 iterations; threads may fail to start | whole iterations, no line drained or logged twice or skipped (those buffered at the end stay there), summary, the end of `run` |
| `context` | every list of up to 4 arguments | each setting is what its last valid option says |

Bounds. Two workers and two clients give every race between workers, between
clients and between both; three tasks let one wait in the queue while two are
executed. A queue of two with three changes reaches the limit and has an order
to keep; two dispatchers give an observer two subscriptions, and pairs that are
neighbours in the list. Two puts under one key, or under two, give renewal,
stale heap entries and equal expirations; two removes let a removed key be put
again and removed again, and are counted so that no other step of the cache can
pass for a remove; the clock passes every expiration. Four events are two full
batches, so that a report can be more than a batch behind. Four tests on two
workers leave some that start only after `stop` or after others have ended; in
the order of their numbers, which is that of `main.cpp` except for the last,
they join threads, strand them, leave one behind and end early. With the last
one refused by `submit`, the unwinding meets threads of both kinds that were
left behind; a queue of two messages can lose a last word to the other test that
shares it, and does not lose it to the flush. Three items for a queue of two let
a producer be refused and both consumers sleep. Four iterations are enough for a
report of several lines, an empty one and lines after the last report. Four
arguments are two options with their values, in any order, an option in the
place of a value, and one that is cut off at the end. No run uses symmetry.

Fairness. Every thread that can run runs in the end, and tasks and callbacks
return. Nobody has to call anything, notifications are not repeated, and no
property relies on a spurious wakeup. In `Harness` no test has to throw, and a
thread left behind is not assumed to notice `stop` by itself, since it may be
asleep, nor is one that was stranded assumed to end at all; the workers of the
loggers write. In `ExpiringCache` time passes up to its bound, and in
`ProducerConsumerQueue` a `wait_for` times out in the end, which is all that
tells a consumer of `stop`. All this is weak fairness. The one strong fairness
is in `Diagnostics`: an attempt of `std::lock` that could succeed again and
again does so in the end; with weak fairness the two threads could back off in
step for ever. That the reporter gets its turn before `stop` is neither assumed
nor claimed: the collector sleeps with both mutexes locked, and `std::mutex` is
not fair.

Deadlock is checked in every run except `harness_unwinding`: its finding is that
`main` and the tests wait for each other, which TLC would report as a deadlock
before it names the property.

## Disagreements with the documentation

1. `pool_constructor`: `README.md:139` claims exception-safe thread lifecycle
   management. When the constructor of `ThreadPool` cannot start its second or
   a later worker (`thread_pool.h:28`), the exception cannot reach the caller:
   the joinable threads in the vector terminate the process.
2. `harness_unwinding`: same claim. When `submit` throws after a test was
   started (`main.cpp:115`), `~ThreadPool` waits for tests that wait for
   `stop`, and `stop` is only raised in line 151.
3. `queue_start_failure`: same claim, and `level.h:28` takes it for the contract
   of `TestBase::run` that it blocks until its threads exit. When
   `ProducerConsumerQueueTest::run` cannot start one of its threads
   (`producer_consumer_queue.h:50`), it throws and leaves the others running.
   `main` takes it for a test that has failed, and `tests.clear()`
   (`main.cpp:154`) then destroys joinable threads, which ends the process.
   `harness` has the same end with `main` around it; its `MainEnds` excludes it.

Observations that no document contradicts, so no run is made of them:

- After an invalid `--maxthreads` the program says that it uses unlimited
  threads, and keeps the limit an earlier option has set; `--loglevel` and the
  others do the same with their defaults (`test_context.h:129`).
- `processedCount` has 32 bits (`concurrent_metrics.h:82`) and wraps in a long
  run under stress.
- An entry put into an empty cache may stay in its map for ever, invisible to
  callers (`expiring_cache.h:81`).

## The proofs

`ThreadPoolProofs` proves, for every finite set of
workers, every set of clients and every number of tasks (`PoolAssumption`):

- `TypeCorrect`, `AccountsCorrect`: `TypeOK` and `TasksAccounted`. They are
  inductive only together: that a worker's task is a task id when it finishes
  is known from the accounts. Three lemmas follow a task through `Submit`,
  `WorkerTakes` and `FinishTask`; `AccountsKept` covers all the steps that move
  no task.
- `WaitTruth`: what a wait tells its caller by returning (`WaitCorrect`) and by
  not throwing (`SuccessCorrect`) is true. Only a client that has seen
  `Quiescent` leaves wait (`OnlyQuiescentLeaves`), and by the accounts that
  means all have finished.
- `ExceptionsCorrect`, and with it `SuccessCorrect`: the strengthening `ExceptionInv` says
  where an exception is between throw and rethrow: a worker past its catch
  block leaves a kept exception.
- `DestructionCorrect`: the strengthening `DestroyInv` says that the other
  clients are out of the pool once the destructor runs, so the emptiness its
  wait has seen lasts.
- `PoolRefinesExecutor`: `Spec => ImplementsExecutor`. The step that starts a
  task needs `RoomForOneMore`: the tasks in progress are the image of the busy
  workers, and the worker that takes a task is not one of them.
- `NoWakeupIsLost`: `NoLostWakeup` is the state side of `MakesProgress` and
  `DestructorEnds`. `WorkCovered`: while a worker sleeps, the queued tasks are
  no more than the workers about to look for one and the clients about to
  notify together, so that a task never waits for a long one to end while a
  worker sleeps. `Submit` adds one to each side, `NotifyOne` sends a worker in
  place of a client, `WorkerTakes` takes one from each side, and who goes to
  sleep has seen an empty queue; `CoverKept` covers the other steps.
  `WaitersHaveCause`: who sleeps in wait has an unfinished task to wait for.
  `StopIsHeard`: nobody sleeps whom the destructor joins. `SleepInv` adds that
  the notifying clients are finitely many and that `stopping` is the owner's
  place in the destructor. With the notification dropped from `NotifyOne`, or
  made to one worker in the destructor, TLC finds `SleepInv` violated.

`PerTaskThreadsProofs` proves, for every number of tasks:

- `ThreadsKept`: `NoThreadDropped`, inductive together with `StartedInOrder`
  (tasks are started by `submit`, in the order of their numbers).
- `PerTaskRefinesExecutor`: every step is a step of `TaskExecutor` or a stutter;
  a wait returns only when it has joined all threads, and by `NoThreadDropped`
  those not in the vector have finished. The fairness part of
  `ImplementsExecutor` is left to TLC.

`HarnessProofs` proves, for every number of tests of every kind, any pool that
is a `TaskExecutor` and any queue size (`HarnessAssumption`), that `HarnessInv`
is inductive. Its parts besides `TypeOK`:

- `TasksInv`: a task in its body was started and is not finished for the pool,
  and where `main` takes things down all that was submitted has finished. So
  nothing is taken down under a test (`InBodyIsUp`, `InBodyIsLive`). A test that
  stranded threads is on its way out or over.
- `ObjectsInv`: which tests, logger pools and threads left behind exist, and
  whether `stop` does, by where `main` is.
- `CountInv`: the counter is the number of submitted tests that are not over,
  plus one if `submit` threw after the counter was raised.
- `WordsInv`: a last word waits only where a worker writes, is never refused,
  is dropped only as the policy allows (`PostSpares`), and is not said by a test
  with stranded threads, which go on logging.

`TestsAreSafe`, `EarlyFinishIsTrue`, `MainLeavesNothing` and `LastWordsArrive`
follow. `TestsAreSafe` claims `stop` for threads left behind only where `main`
is not being unwound, and `MainLeavesNothing` is about a `main` that returns or
fails, not about a process that is terminated. Actions that reach the loggers do
so by one of their operations (`LogsKept`), which keeps the types apart from the
steps of `main` and tests.

It also proves, for argument lists of every length, `LastValidWinsHolds`. The
invariant, `ParseInv`, says that `parse` stands at an option or at an argument
that counts for nothing, never at a value, and that the settings are what the
options before `pos` say. `OptionsFollow` carries the first part on: the rows
that the reference counts in have one beginning each, so that parity tells an
option from its value. `ValueSettles` carries on the second: a good value is
the latest of its option, and changes no other setting.

`RideStateManagerProofs` proves, for any dispatchers and observers, queue limit
and number of changes (`RideAssumption`), that `Inv`, the conjunction of
`QueueInv`, `ListInv` and `DrainInv`, is inductive:

- `QueueInv`: `QueueTellsTheRide` with a bound on the changes, which is what
  bounds the number of rounds in `TypeOK`. A change, a pop and a snapshot have
  a lemma each; `ToldKept` covers the steps that touch none of it.
- `ListInv`: no pair is twice in the list or in the snapshot, a snapshot exists
  only during a round, and what `HeardExactlyOnce` and
  `UnsubscribedHearNoNewRound` say of the debts. It rests on `ErasedKeeps`
  (erasing keeps the elements it should, and repeats none; `RanksNumber` shows
  that ranks number what is kept), on `NobodyRevives` (an expired pair stays
  expired, so that a debt it has does not count later), and on the snapshot
  being empty between rounds: then nobody awaits a turn and no debt is open.
- `DrainInv`: the thread exits on `stop`, or on a shutdown with an empty queue,
  after which nothing is accepted.

`QueueTellsTheRideHolds`, `HeardExactlyOnceHolds`,
`UnsubscribedHearNoNewRoundHolds` and `ShutdownDrainsHolds` follow; the second
needs `TurnsAreDistinct`, which counts those who await their turn.
`NoWakeupIsLost` needs none of this: the thread never sleeps while a
notification is queued, nor while the destructor waits to join it.

`ExpiringCacheProofs` proves, for any keys, times to live (also those of zero
and below) and bounds (`CacheAssumption`):

- `HeapCoversMapHolds`: `HeapCoversMap`, inductive together with
  `GenerationsTell`: the heap is finite, so that it has a top to take the next
  deadline from (`HeapHasTop`, from the library's theorem that strict inclusion
  of finite sets is well-founded), and each generation is in it once.
- `CacheImplementsTtlMap`: `Spec => ImplementsTtlMap`. `put`, `remove`, `stop`
  and the clock are the steps of `TtlMap` of that name; all else stutters. For
  the handler that is `ErasingStutters`: the heap entry with the generation of
  a map entry is that entry's own, so that what is erased has expired and `get`
  did not answer it any more.
- `StopIsAlwaysHeard`: the handler never sleeps while `stop` waits to join it.

`ProducerConsumerQueueProofs` proves, for every set of producers and consumers
and every queue limit (`QueueAssumption`):

- `ItemsCorrect`: `ItemsAccounted`, inductive together with `TypeOK` and
  `WithinBound` (a producer past its test of `stop` has a number reserved within
  the model's bound). Only a push, a pop and a log move an item
  (`FewMoveItems`), and `AccountsKept` has a case for each.
- `ReturnCorrect`: `RunReturnsWhenDone`, for runs that return, inductive with
  `JoinInv`: `run` joins only after it started all its threads, and whoever has
  exited saw `stop` (`OnlyStopEnds`). That what they popped is logged then is
  `ItemsAccounted`, with nobody left who has an item in hand.
- `NoWakeupIsLost`: while a consumer sleeps, the items in the queue are no more
  than the consumers on their way to it and the producers about to notify
  (`ItemsCovered`, along the lines of `WorkCovered` in `ThreadPoolProofs`). So
  the time limit of `wait_for` is there for `stop`, not for the items. With a
  notification that reaches nobody, TLC finds `ItemsCovered` violated.

`ConcurrentMetricsProofs` proves, for every number of workers, batch size and
number of events (`MetricsAssumption`):

- `TypeCorrect`, `AccountsCorrect`: `TypeOK` and `EventsAccounted`, inductive
  together with `RoomInBatch` (a worker that is to create an event has room for
  it) and `StartedInOrder`.
- `LastReportCorrect`: `ReportInv` says that a stop is up once the reporter has
  left its loop. A worker can then finish the round it is in, and no other: what
  it adds fits into the room of the batch that the report has missed.
- `RunCorrect`: `RunInv` ties the place of the thread in `run` to who was
  started, and `failed` to `internalStop_`.

`DiagnosticsProofs` proves, for every number of iterations
(`DiagnosticsAssumption`), that `DiagnosticsInv`, the conjunction of `TypeOK`,
`LockInv`, `LinesInv` and `RunInv`, is inductive:

- `LockInv`: whoever has come through `std::lock` holds both mutexes, so the two
  threads are never inside together (`Exclusion`).
- `LinesInv` numbers the lines through log, hands of the reporter and buffer,
  and ties `iteration` and `metrics` to them according to where the collector
  is. `NoLineMoved` covers all the steps that touch none of it.
- `RunInv`: which threads have been started, and what `Summarise` has read.

`TypeCorrect`, `ReporterCorrect`, `LinesCorrect` and `SummaryCorrect` follow.
`LocksMakeNoCircle` proves `NobodyBlocksHolding`: whoever owns a mutex is inside
or about to try the other one, which never blocks. It is the converse of
`LockInv`, and the reason why opposite lock orders cannot deadlock.

Every invariant of a passing run, and the safety part of both refinements of
`TaskExecutor` and of that of `TtlMap`, is proved, and so is what the liveness
of the condition variables and locks rests on and an invariant can say
(`NoLostWakeup`, `StopIsHeard`, `ItemsCovered`, `NobodyBlocksHolding`). No run
lists these; TLC has confirmed them on the instances of `pool`, `ride`, `cache`,
`queue` and `diagnostics`. Only model-checked: the liveness properties and the
fairness in `PerTaskThreads`' `ImplementsExecutor` (liveness under fairness is
beyond the prover), and the three runs that end in a violation.

## The plan

Left to do: the arithmetic of the envelopes in `concurrent_metrics.h` (combining
averages, the width of the count) as operators over bounded numbers.

## Not modelled

- What the code does not allow its callers and the program never does: several
  callers of a pool without a limit (its vector is not locked), a task that
  waits on its own pool, two threads that stop the cache at the same time, a
  second call of `run` on the same test.
- Destructors of observers that run under the mutexes of the ride manager when
  a locked weak pointer turns out to be the last reference: they are supplied by
  the user of the class, and the repository has none that calls back.
- What tests compute for their messages: latencies, averages, random values,
  the text of `level5`, `string_uaf` and `timebase`.
- `getCurrentState` and `size`, which read one value under the mutex.
- spdlog beyond what `LoggerPools` says (levels, sinks, its error handler), and
  `hamed_common` (platform macros, sort helpers): neither is part of the
  sources.

Left out for good: output texts, memory orders (every shared access that matters
is under a mutex, or is one of the atomics), failures of allocation and of
mutexes, and `int` overflow of the task ids.
