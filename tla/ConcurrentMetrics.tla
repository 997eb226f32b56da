------------------------- MODULE ConcurrentMetrics -------------------------
(***************************************************************************)
(* ConcurrentMetricsTest of concurrent_metrics.h: workers collect events   *)
(* in batches of their own and flush them into sharedData_ under a mutex;  *)
(* a reporter logs sharedData_ from time to time and once more when it is  *)
(* told to stop.  Whoever fails raises internalStop_, and run throws when  *)
(* everybody has ended.                                                    *)
(*                                                                         *)
(* A batch, and the event that envelopes it, is the number of events in    *)
(* it; sharedData_ is the number of events it envelopes from each worker,  *)
(* all zero while it has no value.  Both stop flags are only ever raised   *)
(* while threads run, so a test of both is one step.                       *)
(***************************************************************************)
EXTENDS Integers

CONSTANTS
    WorkersCount,
    EventBatchSize,
    MaxEvents,      \* bound on the number of events a worker creates
    MayThrow,       \* TRUE iff createRandom and the reporter's log call may throw
    SpawnMayFail    \* TRUE iff starting a std::thread may throw

ASSUME MetricsAssumption ==
    /\ WorkersCount \in Nat /\ MaxEvents \in Nat
    /\ EventBatchSize \in Nat \ {0}
    /\ MayThrow \in BOOLEAN /\ SpawnMayFail \in BOOLEAN

Workers == 0 .. WorkersCount - 1

VARIABLES
    stop,               \* raised by main
    internalStop,       \* internalStop_
    runner,             \* where the thread that executes run is
    spawned,            \* number of workers it has started
    worker,             \* where each worker is
    unreportedEvents,   \* size of each worker's batch
    sharedData,
    reporter,           \* where the reporter is
    created,            \* history: events each worker has created
    reported,           \* history: what the last report said
    failed              \* history: somebody threw or could not be started

flags == <<stop, internalStop>>
runnerVars == <<runner, spawned>>
vars == <<flags, runnerVars, worker, unreportedEvents, sharedData, reporter,
          created, reported, failed>>

TypeOK ==
    /\ stop \in BOOLEAN /\ internalStop \in BOOLEAN /\ failed \in BOOLEAN
    /\ runner \in {"startingWorkers", "startingReporter", "joining", "returned", "threw"}
    /\ spawned \in 0 .. WorkersCount
    /\ worker \in [Workers -> {"none", "testing", "creating", "flushing", "lastFlush", "ended"}]
    /\ unreportedEvents \in [Workers -> 0 .. EventBatchSize]
    /\ sharedData \in [Workers -> 0 .. MaxEvents]
    /\ created \in [Workers -> 0 .. MaxEvents]
    /\ reported \in [Workers -> 0 .. MaxEvents]
    /\ reporter \in {"none", "testing", "reporting", "lastReport", "ended", "threw"}

(* run has reset what an earlier call may have left. *)
Init ==
    /\ stop \in BOOLEAN
    /\ internalStop = FALSE
    /\ runner = "startingWorkers"
    /\ spawned = 0
    /\ worker = [w \in Workers |-> "none"]
    /\ unreportedEvents = [w \in Workers |-> 0]
    /\ sharedData = [w \in Workers |-> 0]
    /\ reporter = "none"
    /\ created = [w \in Workers |-> 0]
    /\ reported = [w \in Workers |-> 0]
    /\ failed = FALSE

(* Faulty variant: the handler does not stop the others. *)
FailQuietly == UNCHANGED internalStop /\ failed' = TRUE

Fail == internalStop' = TRUE /\ failed' = TRUE
-----------------------------------------------------------------------------
StartWorker ==
    /\ runner = "startingWorkers"
    /\ spawned < WorkersCount
    /\ worker' = [worker EXCEPT ![spawned] = "testing"]
    /\ spawned' = spawned + 1
    /\ UNCHANGED <<flags, runner, unreportedEvents, sharedData, reporter, created, reported,
                   failed>>

(* The exception is handled in run, and no more workers are started. *)
StartWorkerFails ==
    /\ SpawnMayFail
    /\ runner = "startingWorkers"
    /\ spawned < WorkersCount
    /\ Fail
    /\ runner' = "startingReporter"
    /\ UNCHANGED <<stop, spawned, worker, unreportedEvents, sharedData, reporter, created,
                   reported>>

AllWorkersStarted ==
    /\ runner = "startingWorkers"
    /\ spawned = WorkersCount
    /\ runner' = "startingReporter"
    /\ UNCHANGED <<flags, spawned, worker, unreportedEvents, sharedData, reporter, created,
                   reported, failed>>

(* The reporter is started even if a worker could not be. *)
StartReporter ==
    /\ runner = "startingReporter"
    /\ \/ reporter' = "testing" /\ UNCHANGED <<internalStop, failed>>
       \/ SpawnMayFail /\ Fail /\ UNCHANGED reporter
    /\ runner' = "joining"
    /\ UNCHANGED <<stop, spawned, worker, unreportedEvents, sharedData, created, reported>>

(* wait joins what was started; then run throws if somebody has failed. *)
Finish ==
    /\ runner = "joining"
    /\ \A w \in Workers : worker[w] \in {"none", "ended"}
    /\ reporter \in {"none", "ended", "threw"}
    /\ runner' = IF internalStop THEN "threw" ELSE "returned"
    /\ UNCHANGED <<flags, spawned, worker, unreportedEvents, sharedData, reporter, created,
                   reported, failed>>
-----------------------------------------------------------------------------
Stopped == stop \/ internalStop

(* The bound on events keeps a worker at the test of the loop. *)
TestLoop(w) ==
    /\ worker[w] = "testing"
    /\ \/ Stopped /\ worker' = [worker EXCEPT ![w] = "lastFlush"]
       \/ ~Stopped /\ created[w] < MaxEvents /\ worker' = [worker EXCEPT ![w] = "creating"]
    /\ UNCHANGED <<flags, runnerVars, unreportedEvents, sharedData, reporter, created, reported,
                   failed>>

(* Faulty variant: the batch is flushed one event too late. *)
TooMany(n) == n > EventBatchSize

BatchIsFull(n) == n >= EventBatchSize

CreateEvent(w) ==
    /\ worker[w] = "creating"
    /\ created' = [created EXCEPT ![w] = @ + 1]
    /\ unreportedEvents' = [unreportedEvents EXCEPT ![w] = @ + 1]
    /\ worker' = [worker EXCEPT ![w] =
                     IF BatchIsFull(unreportedEvents'[w]) THEN "flushing" ELSE "testing"]
    /\ UNCHANGED <<flags, runnerVars, sharedData, reporter, reported, failed>>

(* The seeding of the thread's generator throws: only its first event can fail. *)
WorkerThrows(w) ==
    /\ MayThrow
    /\ worker[w] = "creating"
    /\ created[w] = 0
    /\ Fail
    /\ worker' = [worker EXCEPT ![w] = "ended"]
    /\ UNCHANGED <<stop, runnerVars, unreportedEvents, sharedData, reporter, created, reported>>

(* Faulty variant: the batch that was flushed is kept. *)
Kept(w) == unreportedEvents

Cleared(w) == [unreportedEvents EXCEPT ![w] = 0]

Enveloped(w) == [sharedData EXCEPT ![w] = @ + unreportedEvents[w]]

(* flushLambda: consolidate and clear the batch, and envelope it under the mutex. *)
Flush(w) ==
    /\ worker[w] \in {"flushing", "lastFlush"}
    /\ unreportedEvents' = Cleared(w)
    /\ sharedData' = Enveloped(w)
    /\ worker' = [worker EXCEPT ![w] = IF worker[w] = "flushing" THEN "testing" ELSE "ended"]
    /\ UNCHANGED <<flags, runnerVars, reporter, created, reported, failed>>
-----------------------------------------------------------------------------
(* Faulty variant: only stop ends the loop. *)
StoppedByMain == stop

LoopEnds == Stopped

(* Faulty variant: no report after the loop. *)
NoReport == "ended"

AfterLoop == "lastReport"

TestReporterLoop ==
    /\ reporter = "testing"
    /\ reporter' = IF LoopEnds THEN AfterLoop ELSE "reporting"
    /\ UNCHANGED <<flags, runnerVars, worker, unreportedEvents, sharedData, created, reported,
                   failed>>

(* reportLambda: the copy is taken under the mutex and logged outside it. *)
Report ==
    /\ reporter \in {"reporting", "lastReport"}
    /\ reported' = sharedData
    /\ reporter' = IF reporter = "reporting" THEN "testing" ELSE "ended"
    /\ UNCHANGED <<flags, runnerVars, worker, unreportedEvents, sharedData, created, failed>>

(* What the logger does not handle itself ends the reporter, and with it the others. *)
ReporterThrows ==
    /\ MayThrow
    /\ reporter \in {"reporting", "lastReport"}
    /\ Fail
    /\ reporter' = "threw"
    /\ UNCHANGED <<stop, runnerVars, worker, unreportedEvents, sharedData, created, reported>>

RaiseStop ==
    /\ ~stop
    /\ stop' = TRUE
    /\ UNCHANGED <<internalStop, runnerVars, worker, unreportedEvents, sharedData, reporter,
                   created, reported, failed>>
-----------------------------------------------------------------------------
RunnerStep ==
    StartWorker \/ StartWorkerFails \/ AllWorkersStarted \/ StartReporter \/ Finish
WorkerStep(w) == TestLoop(w) \/ CreateEvent(w) \/ WorkerThrows(w) \/ Flush(w)
ReporterStep == TestReporterLoop \/ Report \/ ReporterThrows

Done == runner \in {"returned", "threw"}
Over == Done /\ UNCHANGED vars

Next ==
    \/ RunnerStep
    \/ \E w \in Workers : WorkerStep(w)
    \/ ReporterStep
    \/ RaiseStop
    \/ Over

Spec == Init /\ [][Next]_vars

(* Threads that can run do run; nobody has to raise stop. *)
FairSpec ==
    /\ Spec
    /\ WF_vars(RunnerStep)
    /\ \A w \in Workers : WF_vars(WorkerStep(w))
    /\ WF_vars(ReporterStep)
-----------------------------------------------------------------------------
(***************************************************************************)
(* Every event is in its worker's batch or enveloped in the shared data,   *)
(* once: neither the flush in the loop nor the one after it leaves a batch *)
(* to be flushed again or forgets one.                                     *)
(***************************************************************************)
EventsAccounted == \A w \in Workers : created[w] = sharedData[w] + unreportedEvents[w]

(***************************************************************************)
(* run returns normally only if every thread was started and none failed,  *)
(* and then all events are in the shared data; a failure of whichever      *)
(* thread comes out as an exception.  Either way no thread is left.        *)
(***************************************************************************)
RunTellsTheTruth ==
    Done =>
        /\ runner = "threw" <=> failed
        /\ \A w \in Workers : worker[w] \in {"none", "ended"}
        /\ reporter \in {"none", "ended", "threw"}
        /\ ~failed => spawned = WorkersCount /\ reporter = "ended" /\ sharedData = created

(***************************************************************************)
(* The last report may come before the last flushes, since the workers and *)
(* the reporter see the stop independently; but what it misses of a worker *)
(* is no more than one batch.  (A reporter that threw makes none.)         *)
(***************************************************************************)
LastReportMissesOneBatch ==
    Done /\ reporter = "ended" =>
        \A w \in Workers : created[w] - reported[w] <= EventBatchSize

(***************************************************************************)
(* A stop from main, or the failure of any one thread, ends run: nobody    *)
(* goes on working or waiting for the others.                              *)
(***************************************************************************)
RunEnds == Stopped ~> Done
=============================================================================
