----------------------------- MODULE ThreadPool -----------------------------
(***************************************************************************)
(* ThreadPool of thread_pool.h, in the mode with a thread limit            *)
(* (maxThreads_ has a value): a fixed set of worker threads, a queue of    *)
(* tasks and two condition variables.                                      *)
(*                                                                         *)
(* A region that runs under mutex_ is one action.  A thread blocked in     *)
(* workCondition_.wait or doneCondition_.wait is "asleep"; it leaves that  *)
(* state when it is notified or, as C++ allows, spuriously, and then tests *)
(* its predicate again under the mutex.  submit and ~ThreadPool notify     *)
(* after they have released the mutex, so there the notification is an     *)
(* action of its own.                                                      *)
(***************************************************************************)
EXTENDS Integers, Sequences, FiniteSets

CONSTANTS
    Workers,        \* the worker threads, *maxThreads_ of them
    Clients,        \* the threads that call submit and wait
    Owner,          \* the client that constructs and destroys the pool
    MaxTasks,       \* bound on the number of tasks ever submitted
    MayThrow,       \* TRUE iff a task function may throw
    SpawnMayFail    \* TRUE iff starting a std::thread may throw

ASSUME PoolAssumption ==
    /\ IsFiniteSet(Workers) /\ Workers # {}
    /\ Owner \in Clients
    /\ MaxTasks \in Nat
    /\ MayThrow \in BOOLEAN
    /\ SpawnMayFail \in BOOLEAN

VARIABLES
    worker,             \* where each worker thread is
    task,               \* the id of the task each worker last took
    client,             \* where each client thread is
    destroying,         \* the owner is inside ~ThreadPool
    queuedTasks,        \* ids of the queued tasks, oldest first
    inProgressTasks,    \* ids of the tasks being executed
    nextTaskId,         \* id the next submitted task gets
    stopping,           \* stopping_
    firstException,     \* id of the task whose exception is kept
    finished,           \* history: tasks whose execution is over
    unreported          \* history: tasks that threw since the last rethrow

sharedVars == <<queuedTasks, inProgressTasks, nextTaskId, stopping, firstException>>
historyVars == <<finished, unreported>>
vars == <<worker, task, client, destroying, sharedVars, historyVars>>

NoTask == -1
NoException == -1
TaskIds == 0 .. MaxTasks - 1

WorkerStates ==
    {"unborn", "checking", "asleep", "running", "catching", "finishing", "exited"}
ClientStates ==
    {"constructing", "failed", "idle", "notifying", "waiting", "asleep",
     "stopping", "notifyingAll", "joining", "destroyed", "terminated", "hung"}

Busy(w) == worker[w] \in {"running", "catching", "finishing"}

TypeOK ==
    /\ worker \in [Workers -> WorkerStates]
    /\ task \in [Workers -> TaskIds \cup {NoTask}]
    /\ client \in [Clients -> ClientStates]
    /\ destroying \in BOOLEAN
    /\ queuedTasks \in Seq(TaskIds)
    /\ inProgressTasks \in SUBSET TaskIds
    /\ nextTaskId \in 0 .. MaxTasks
    /\ stopping \in BOOLEAN
    /\ firstException \in TaskIds \cup {NoException}
    /\ finished \in SUBSET TaskIds
    /\ unreported \in SUBSET TaskIds

Init ==
    /\ worker = [w \in Workers |-> "unborn"]
    /\ task = [w \in Workers |-> NoTask]
    /\ client = [c \in Clients |-> IF c = Owner THEN "constructing" ELSE "idle"]
    /\ destroying = FALSE
    /\ queuedTasks = <<>>
    /\ inProgressTasks = {}
    /\ nextTaskId = 0
    /\ stopping = FALSE
    /\ firstException = NoException
    /\ finished = {}
    /\ unreported = {}
-----------------------------------------------------------------------------
(***************************************************************************)
(* The constructor starts the workers one by one.  When a thread cannot be *)
(* started, emplace_back throws out of the constructor.  With no thread    *)
(* yet the exception reaches the caller; otherwise the members are         *)
(* destroyed under running workers: destroying workCondition_ while one is *)
(* blocked on it is undefined (it may never return), and if it does return *)
(* the vector meets a joinable thread and std::terminate ends the process. *)
(***************************************************************************)
SpawnWorker(w) ==
    /\ client[Owner] = "constructing"
    /\ worker[w] = "unborn"
    /\ worker' = [worker EXCEPT ![w] = "checking"]
    /\ UNCHANGED <<task, client, destroying, sharedVars, historyVars>>

SpawnFails ==
    /\ SpawnMayFail
    /\ client[Owner] = "constructing"
    /\ \E w \in Workers : worker[w] = "unborn"
    /\ \E outcome \in {"failed", "hung", "terminated"} :
          /\ outcome = "failed" <=> \A w \in Workers : worker[w] = "unborn"
          /\ outcome = "hung" => \E w \in Workers : worker[w] = "asleep"
          /\ client' = [client EXCEPT ![Owner] = outcome]
    /\ UNCHANGED <<worker, task, destroying, sharedVars, historyVars>>

ConstructorReturns ==
    /\ client[Owner] = "constructing"
    /\ \A w \in Workers : worker[w] # "unborn"
    /\ client' = [client EXCEPT ![Owner] = "idle"]
    /\ UNCHANGED <<worker, task, destroying, sharedVars, historyVars>>

(* The object exists and its destructor has not begun. *)
Usable ==
    /\ client[Owner] \notin {"constructing", "failed", "terminated", "hung"}
    /\ ~destroying
-----------------------------------------------------------------------------
(* Faulty variant: the id is taken after the increment. *)
SubmitPreIncrement(c) ==
    /\ Usable
    /\ client[c] = "idle"
    /\ nextTaskId < MaxTasks
    /\ nextTaskId' = nextTaskId + 1
    /\ queuedTasks' = Append(queuedTasks, nextTaskId')
    /\ client' = [client EXCEPT ![c] = "notifying"]
    /\ UNCHANGED <<worker, task, destroying, inProgressTasks, stopping, firstException,
                   historyVars>>

Submit(c) ==
    /\ Usable
    /\ client[c] = "idle"
    /\ nextTaskId < MaxTasks
    /\ queuedTasks' = Append(queuedTasks, nextTaskId)
    /\ nextTaskId' = nextTaskId + 1
    /\ client' = [client EXCEPT ![c] = "notifying"]
    /\ UNCHANGED <<worker, task, destroying, inProgressTasks, stopping, firstException,
                   historyVars>>

SleepingWorkers == {w \in Workers : worker[w] = "asleep"}

(* Faulty variant: the notification is forgotten. *)
NotifyNobody(c) ==
    /\ client[c] = "notifying"
    /\ client' = [client EXCEPT ![c] = "idle"]
    /\ UNCHANGED <<worker, task, destroying, sharedVars, historyVars>>

(* workCondition_.notify_one, outside the mutex: wakes one sleeper, if any. *)
NotifyOne(c) ==
    /\ client[c] = "notifying"
    /\ \/ SleepingWorkers = {} /\ UNCHANGED worker
       \/ \E w \in SleepingWorkers : worker' = [worker EXCEPT ![w] = "checking"]
    /\ client' = [client EXCEPT ![c] = "idle"]
    /\ UNCHANGED <<task, destroying, sharedVars, historyVars>>
-----------------------------------------------------------------------------
(* Faulty variant: tasks being executed are not looked at. *)
QuiescentIgnoringRunning == queuedTasks = <<>>
(* The predicate of doneCondition_.wait. *)
Quiescent == queuedTasks = <<>> /\ inProgressTasks = {}

CallWait(c) ==
    /\ Usable
    /\ client[c] = "idle"
    /\ client' = [client EXCEPT ![c] = "waiting"]
    /\ UNCHANGED <<worker, task, destroying, sharedVars, historyVars>>

WaitBlocks(c) ==
    /\ client[c] = "waiting"
    /\ ~Quiescent
    /\ client' = [client EXCEPT ![c] = "asleep"]
    /\ UNCHANGED <<worker, task, destroying, sharedVars, historyVars>>

WaitReturns(c) ==
    /\ client[c] = "waiting"
    /\ Quiescent
    /\ firstException = NoException
    /\ client' = [client EXCEPT ![c] = IF destroying THEN "stopping" ELSE "idle"]
    /\ UNCHANGED <<worker, task, destroying, sharedVars, historyVars>>

(* Faulty variant: the exception is not reset. *)
WaitRethrowsAgain(c) ==
    /\ client[c] = "waiting"
    /\ Quiescent
    /\ firstException # NoException
    /\ unreported' = {}
    /\ client' = [client EXCEPT ![c] = IF destroying THEN "terminated" ELSE "idle"]
    /\ UNCHANGED <<worker, task, destroying, sharedVars, finished>>

(* std::rethrow_exception; out of the destructor it is std::terminate. *)
WaitRethrows(c) ==
    /\ client[c] = "waiting"
    /\ Quiescent
    /\ firstException # NoException
    /\ firstException' = NoException
    /\ unreported' = {}
    /\ client' = [client EXCEPT ![c] = IF destroying THEN "terminated" ELSE "idle"]
    /\ UNCHANGED <<worker, task, destroying, queuedTasks, inProgressTasks, nextTaskId,
                   stopping, finished>>

ClientWakesSpuriously(c) ==
    /\ client[c] = "asleep"
    /\ client' = [client EXCEPT ![c] = "waiting"]
    /\ UNCHANGED <<worker, task, destroying, sharedVars, historyVars>>
-----------------------------------------------------------------------------
(***************************************************************************)
(* ~ThreadPool: wait, set stopping_, notify every worker, join them all.   *)
(* The owner destroys the pool when no other client is inside a call.      *)
(***************************************************************************)
Destroy ==
    /\ Usable
    /\ \A c \in Clients : client[c] = "idle"
    /\ destroying' = TRUE
    /\ client' = [client EXCEPT ![Owner] = "waiting"]
    /\ UNCHANGED <<worker, task, sharedVars, historyVars>>

DestructorStops ==
    /\ client[Owner] = "stopping"
    /\ stopping' = TRUE
    /\ client' = [client EXCEPT ![Owner] = "notifyingAll"]
    /\ UNCHANGED <<worker, task, destroying, queuedTasks, inProgressTasks, nextTaskId,
                   firstException, historyVars>>

(* Faulty variant: notify_one in place of notify_all. *)
DestructorNotifiesOne ==
    /\ client[Owner] = "notifyingAll"
    /\ \/ SleepingWorkers = {} /\ UNCHANGED worker
       \/ \E w \in SleepingWorkers : worker' = [worker EXCEPT ![w] = "checking"]
    /\ client' = [client EXCEPT ![Owner] = "joining"]
    /\ UNCHANGED <<task, destroying, sharedVars, historyVars>>

DestructorNotifiesAll ==
    /\ client[Owner] = "notifyingAll"
    /\ worker' = [w \in Workers |-> IF worker[w] = "asleep" THEN "checking" ELSE worker[w]]
    /\ client' = [client EXCEPT ![Owner] = "joining"]
    /\ UNCHANGED <<task, destroying, sharedVars, historyVars>>

DestructorJoins ==
    /\ client[Owner] = "joining"
    /\ \A w \in Workers : worker[w] = "exited"
    /\ client' = [client EXCEPT ![Owner] = "destroyed"]
    /\ UNCHANGED <<worker, task, destroying, sharedVars, historyVars>>
-----------------------------------------------------------------------------
(***************************************************************************)
(* workerLoop.  A worker that is "checking" is about to test the predicate *)
(* of workCondition_.wait under the mutex.                                 *)
(***************************************************************************)
WorkerBlocks(w) ==
    /\ worker[w] = "checking"
    /\ ~stopping
    /\ queuedTasks = <<>>
    /\ worker' = [worker EXCEPT ![w] = "asleep"]
    /\ UNCHANGED <<task, client, destroying, sharedVars, historyVars>>

WorkerWakesSpuriously(w) ==
    /\ worker[w] = "asleep"
    /\ worker' = [worker EXCEPT ![w] = "checking"]
    /\ UNCHANGED <<task, client, destroying, sharedVars, historyVars>>

WorkerExits(w) ==
    /\ worker[w] = "checking"
    /\ stopping
    /\ queuedTasks = <<>>
    /\ worker' = [worker EXCEPT ![w] = "exited"]
    /\ UNCHANGED <<task, client, destroying, sharedVars, historyVars>>

(* Faulty variant: the task is not marked in progress. *)
WorkerTakesUnmarked(w) ==
    /\ worker[w] = "checking"
    /\ queuedTasks # <<>>
    /\ task' = [task EXCEPT ![w] = Head(queuedTasks)]
    /\ queuedTasks' = Tail(queuedTasks)
    /\ worker' = [worker EXCEPT ![w] = "running"]
    /\ UNCHANGED <<client, destroying, inProgressTasks, nextTaskId, stopping,
                   firstException, historyVars>>

WorkerTakes(w) ==
    /\ worker[w] = "checking"
    /\ queuedTasks # <<>>
    /\ task' = [task EXCEPT ![w] = Head(queuedTasks)]
    /\ queuedTasks' = Tail(queuedTasks)
    /\ inProgressTasks' = inProgressTasks \cup {Head(queuedTasks)}
    /\ worker' = [worker EXCEPT ![w] = "running"]
    /\ UNCHANGED <<client, destroying, nextTaskId, stopping, firstException, historyVars>>

TaskReturns(w) ==
    /\ worker[w] = "running"
    /\ worker' = [worker EXCEPT ![w] = "finishing"]
    /\ UNCHANGED <<task, client, destroying, sharedVars, historyVars>>

TaskThrows(w) ==
    /\ MayThrow
    /\ worker[w] = "running"
    /\ worker' = [worker EXCEPT ![w] = "catching"]
    /\ unreported' = unreported \cup {task[w]}
    /\ UNCHANGED <<task, client, destroying, sharedVars, finished>>

RecordException(w) ==
    /\ worker[w] = "catching"
    /\ worker' = [worker EXCEPT ![w] = "finishing"]
    /\ firstException' = IF firstException = NoException THEN task[w] ELSE firstException
    /\ UNCHANGED <<task, client, destroying, queuedTasks, inProgressTasks, nextTaskId,
                   stopping, historyVars>>

(* doneCondition_.notify_all, under the mutex, when nothing is left to do. *)
WakeWaiters ==
    [c \in Clients |-> IF client[c] = "asleep" THEN "waiting" ELSE client[c]]

FinishTask(w) ==
    /\ worker[w] = "finishing"
    /\ inProgressTasks' = inProgressTasks \ {task[w]}
    /\ finished' = finished \cup {task[w]}
    /\ client' = IF queuedTasks = <<>> /\ inProgressTasks' = {} THEN WakeWaiters ELSE client
    /\ worker' = [worker EXCEPT ![w] = "checking"]
    /\ UNCHANGED <<task, destroying, queuedTasks, nextTaskId, stopping, firstException,
                   unreported>>
-----------------------------------------------------------------------------
Alive == client[Owner] \notin {"terminated", "hung"}

(* What a thread does by itself once it is inside the pool. *)
WorkerStep(w) ==
    /\ Alive
    /\ \/ WorkerBlocks(w) \/ WorkerExits(w) \/ WorkerTakes(w)
       \/ TaskReturns(w) \/ TaskThrows(w) \/ RecordException(w) \/ FinishTask(w)

ClientStep(c) ==
    /\ Alive
    /\ \/ NotifyOne(c) \/ WaitBlocks(c) \/ WaitReturns(c) \/ WaitRethrows(c)

OwnerStep ==
    /\ Alive
    /\ \/ \E w \in Workers : SpawnWorker(w)
       \/ SpawnFails \/ ConstructorReturns
       \/ DestructorStops \/ DestructorNotifiesAll \/ DestructorJoins

(* What a thread may or may not do: the calls, and the spurious wakeups. *)
ClientCall(c) == Alive /\ (Submit(c) \/ CallWait(c))

SpuriousWakeup ==
    /\ Alive
    /\ \/ \E w \in Workers : WorkerWakesSpuriously(w)
       \/ \E c \in Clients : ClientWakesSpuriously(c)

(* The pool is gone, or was never there, or took the process with it. *)
Over == client[Owner] \in {"destroyed", "failed", "terminated", "hung"} /\ UNCHANGED vars

Next ==
    \/ \E w \in Workers : WorkerStep(w)
    \/ \E c \in Clients : ClientStep(c) \/ ClientCall(c)
    \/ OwnerStep
    \/ Alive /\ Destroy
    \/ SpuriousWakeup
    \/ Over

Spec == Init /\ [][Next]_vars

(***************************************************************************)
(* Every thread that can run does run in the end, and task functions       *)
(* return or throw.  No client has to call anything, and no thread may     *)
(* count on a spurious wakeup.                                             *)
(***************************************************************************)
Fairness ==
    /\ \A w \in Workers : WF_vars(WorkerStep(w))
    /\ \A c \in Clients : WF_vars(ClientStep(c))
    /\ WF_vars(OwnerStep)

FairSpec == Spec /\ Fairness
-----------------------------------------------------------------------------
(* The ids that have left the queue: FIFO order makes them an initial segment. *)
Taken == 0 .. nextTaskId - Len(queuedTasks) - 1

(***************************************************************************)
(* Every task submitted is in exactly one place: queued (in the order of   *)
(* submission), executed by exactly one worker and marked in progress, or  *)
(* finished.  So no task is lost between the queue and the in-progress set *)
(* and none is executed twice (the two updates of workerLoop that must lie *)
(* in one critical section).                                               *)
(***************************************************************************)
TasksAccounted ==
    /\ \A i \in 1 .. Len(queuedTasks) :
          queuedTasks[i] = nextTaskId - Len(queuedTasks) + i - 1
    /\ inProgressTasks \cap finished = {}
    /\ inProgressTasks \cup finished = Taken
    /\ inProgressTasks = {task[w] : w \in {v \in Workers : Busy(v)}}
    /\ \A v, w \in Workers : Busy(v) /\ Busy(w) /\ v # w => task[v] # task[w]

(***************************************************************************)
(* A call of wait, the destructor's own included, comes back only when all *)
(* tasks submitted until then have finished, however many clients submit   *)
(* and wait at the same time.                                              *)
(***************************************************************************)
LeavesWait(c) == client[c] = "waiting" /\ client'[c] \notin {"waiting", "asleep"}

WaitIsComplete ==
    [][\A c \in Clients : LeavesWait(c) => finished = 0 .. nextTaskId - 1]_vars

(***************************************************************************)
(* The kept exception is one that nobody has been told of, and a task that *)
(* failed has left an exception behind by the time it counts as finished:  *)
(* the catch block and the erase are two critical sections, in that order. *)
(***************************************************************************)
ExceptionKept ==
    /\ firstException # NoException => firstException \in unreported
    /\ unreported \cap finished # {} => firstException # NoException

(***************************************************************************)
(* A wait that returns without throwing means success: since the last      *)
(* exception was rethrown no task has failed.                              *)
(***************************************************************************)
SuccessMeansSuccess ==
    [][\A c \in Clients : LeavesWait(c) /\ firstException = NoException
                            => unreported = {}]_vars

(***************************************************************************)
(* So a thread that comes back from wait can rely on what it is told: all  *)
(* tasks have finished, and if wait did not throw none of them failed.     *)
(***************************************************************************)
WaitTellsTheTruth == WaitIsComplete /\ SuccessMeansSuccess

(***************************************************************************)
(* From the moment the destructor is past its wait until it has joined,    *)
(* the queue is empty and every task submitted has finished: stopping_ is  *)
(* never seen by a worker with work to do, and destruction drops nothing.  *)
(***************************************************************************)
PastTheWait == {"stopping", "notifyingAll", "joining", "destroyed"}

DestroyedIsDrained ==
    client[Owner] \in PastTheWait => queuedTasks = <<>> /\ finished = 0 .. nextTaskId - 1

(***************************************************************************)
(* ~ThreadPool ends: every worker hears of stopping_ and can be joined.    *)
(* (Or its wait rethrows, which ends the process: this is not about that.) *)
(***************************************************************************)
DestructorEnds == destroying ~> client[Owner] \in {"destroyed", "terminated"}

(***************************************************************************)
(* README.md (Key Engineering Considerations) promises exception-safe      *)
(* thread lifecycles: an exception while the pool is constructed would     *)
(* then reach the caller and not end the process.                          *)
(***************************************************************************)
ConstructionIsExceptionSafe ==
    ~Alive => \A w \in Workers : worker[w] # "unborn"
-----------------------------------------------------------------------------
(* The pool as a TaskExecutor. *)
Executor == INSTANCE TaskExecutor WITH
    submitted <- nextTaskId,
    Parallel <- Cardinality(Workers),
    started <- Taken,
    finished <- finished,
    waiting <- {c \in Clients : client[c] \in {"waiting", "asleep"}}

(* Every step of the pool is a step of the abstract executor or none. *)
ImplementsExecutor == Executor!Spec

(***************************************************************************)
(* And it makes the progress the abstract executor promises, for as long   *)
(* as the process is not terminated by an exception: no wakeup is lost, so *)
(* every submitted task is executed and every thread inside wait comes     *)
(* back, even if every spurious wakeup fails to happen.                    *)
(***************************************************************************)
MakesProgress == []Alive => Executor!Fairness
=============================================================================
