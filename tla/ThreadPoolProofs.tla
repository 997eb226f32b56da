-------------------------- MODULE ThreadPoolProofs --------------------------
(***************************************************************************)
(* Proofs about ThreadPool for every set of workers and clients and every  *)
(* bound on the number of tasks.                                           *)
(***************************************************************************)
EXTENDS ThreadPool, FiniteSetTheorems, TLAPS

(***************************************************************************)
(* The steps that move no task: they leave the queue, the set of tasks in  *)
(* progress and the busy workers as they are.                              *)
(***************************************************************************)
MovesNoTask ==
    /\ UNCHANGED <<task, queuedTasks, inProgressTasks, nextTaskId, finished>>
    /\ \A w \in Workers : Busy(w)' <=> Busy(w)

LEMMA AccountsKept ==
    ASSUME TasksAccounted, MovesNoTask
    PROVE  TasksAccounted'
<1>1. UNCHANGED Taken
  BY DEF MovesNoTask, Taken
<1>2. {v \in Workers : Busy(v)}' = {v \in Workers : Busy(v)}
  BY DEF MovesNoTask
<1>3. {task[w] : w \in {v \in Workers : Busy(v)}}' = {task[w] : w \in {v \in Workers : Busy(v)}}
  BY <1>2 DEF MovesNoTask
<1>4. QED
  BY <1>1, <1>3 DEF MovesNoTask, TasksAccounted

(* Submitting appends the next id, so the queue stays an interval of ids. *)
LEMMA SubmitAccounts ==
    ASSUME TypeOK, TasksAccounted, NEW c \in Clients, Submit(c)
    PROVE  TypeOK' /\ TasksAccounted'
<1> USE DEF TypeOK, TaskIds, NoTask, NoException
<1>1. nextTaskId \in Nat /\ nextTaskId \in 0 .. MaxTasks - 1 /\ MaxTasks \in Nat
  BY PoolAssumption DEF Submit
<1>2. /\ queuedTasks' \in Seq(0 .. MaxTasks - 1)
      /\ Len(queuedTasks') = Len(queuedTasks) + 1
      /\ \A i \in 1 .. Len(queuedTasks) : queuedTasks'[i] = queuedTasks[i]
      /\ queuedTasks'[Len(queuedTasks) + 1] = nextTaskId
  BY <1>1 DEF Submit
<1>3. TypeOK'
  BY <1>1, <1>2 DEF Submit, ClientStates, WorkerStates, historyVars
<1>4. ASSUME NEW i \in 1 .. Len(queuedTasks')
      PROVE  queuedTasks'[i] = nextTaskId' - Len(queuedTasks') + i - 1
  <2>1. nextTaskId' - Len(queuedTasks') = nextTaskId - Len(queuedTasks)
    BY <1>1, <1>2 DEF Submit
  <2>2. CASE i \in 1 .. Len(queuedTasks)
    BY <1>2, <2>1, <2>2 DEF TasksAccounted
  <2>3. CASE i = Len(queuedTasks) + 1
    BY <1>1, <1>2, <2>1, <2>3
  <2>4. QED
    BY <1>2, <2>2, <2>3
<1>5. UNCHANGED Taken
  BY <1>1, <1>2 DEF Submit, Taken
<1>6. \A w \in Workers : Busy(w)' <=> Busy(w)
  BY DEF Submit, Busy
<1>7. {v \in Workers : Busy(v)}' = {v \in Workers : Busy(v)}
  BY <1>6
<1>8. QED
  BY <1>3, <1>4, <1>5, <1>6, <1>7 DEF Submit, TasksAccounted, historyVars

(* Taking the head moves the smallest queued id to the set in progress. *)
LEMMA TakeAccounts ==
    ASSUME TypeOK, TasksAccounted, NEW w \in Workers, WorkerTakes(w)
    PROVE  TypeOK' /\ TasksAccounted'
<1> DEFINE h == Head(queuedTasks)
<1> USE DEF TypeOK, TaskIds, NoTask, NoException
<1>1. /\ queuedTasks \in Seq(0 .. MaxTasks - 1)
      /\ queuedTasks # <<>>
      /\ nextTaskId \in Nat /\ MaxTasks \in Nat
  BY PoolAssumption DEF WorkerTakes
<1>2. /\ Len(queuedTasks) \in Nat /\ Len(queuedTasks) >= 1
      /\ h = queuedTasks[1] /\ h \in 0 .. MaxTasks - 1
      /\ queuedTasks' \in Seq(0 .. MaxTasks - 1)
      /\ Len(queuedTasks') = Len(queuedTasks) - 1
      /\ \A i \in 1 .. Len(queuedTasks') : queuedTasks'[i] = queuedTasks[i + 1]
  BY <1>1 DEF WorkerTakes
<1>3. TypeOK'
  BY <1>1, <1>2 DEF WorkerTakes, ClientStates, WorkerStates, historyVars
<1>4. h = nextTaskId - Len(queuedTasks) /\ h \notin Taken
  BY <1>1, <1>2 DEF TasksAccounted, Taken
<1>5. Taken' = Taken \cup {h}
  BY <1>1, <1>2, <1>4 DEF WorkerTakes, Taken
<1>6. \A i \in 1 .. Len(queuedTasks') :
         queuedTasks'[i] = nextTaskId' - Len(queuedTasks') + i - 1
  BY <1>1, <1>2 DEF WorkerTakes, TasksAccounted
<1>7. /\ \A v \in Workers : Busy(v)' <=> Busy(v) \/ v = w
      /\ ~Busy(w)
      /\ task' = [task EXCEPT ![w] = h]
  BY DEF WorkerTakes, Busy
<1>8. {task[v] : v \in {u \in Workers : Busy(u)}}'
        = {task[v] : v \in {u \in Workers : Busy(u)}} \cup {h}
  BY <1>7
<1>9. \A u \in Workers : Busy(u) => task[u] # h
  BY <1>4 DEF TasksAccounted
<1>10. /\ inProgressTasks' \cap finished' = {}
       /\ inProgressTasks' \cup finished' = Taken'
  BY <1>4, <1>5 DEF WorkerTakes, TasksAccounted, historyVars
<1>11. \A u, v \in Workers : Busy(u)' /\ Busy(v)' /\ u # v => task'[u] # task'[v]
  BY <1>7, <1>9 DEF TasksAccounted
<1>12. inProgressTasks' = {task[v] : v \in {u \in Workers : Busy(u)}}'
  BY <1>8 DEF WorkerTakes, TasksAccounted
<1>13. QED
  BY <1>3, <1>6, <1>10, <1>11, <1>12 DEF TasksAccounted

(* Finishing moves the worker's task from the set in progress to finished. *)
LEMMA FinishAccounts ==
    ASSUME TypeOK, TasksAccounted, NEW w \in Workers, FinishTask(w)
    PROVE  TypeOK' /\ TasksAccounted'
<1>1. Busy(w) /\ task[w] \in inProgressTasks
  BY DEF FinishTask, Busy, TasksAccounted
<1>2. client' \in [Clients -> ClientStates]
  BY DEF FinishTask, TypeOK, ClientStates, WakeWaiters
<1>3. TypeOK'
  BY <1>1, <1>2 DEF FinishTask, TypeOK, WorkerStates
<1>4. /\ \A v \in Workers : Busy(v)' <=> Busy(v) /\ v # w
      /\ task' = task
  BY DEF FinishTask, Busy, TypeOK
<1>5. {task[v] : v \in {u \in Workers : Busy(u)}}'
        = {task[v] : v \in {u \in Workers : Busy(u)}} \ {task[w]}
  BY <1>1, <1>4 DEF TasksAccounted
<1>6. UNCHANGED Taken
  BY DEF FinishTask, Taken
<1>7. inProgressTasks' = {task[v] : v \in {u \in Workers : Busy(u)}}'
  BY <1>5 DEF FinishTask, TasksAccounted
<1>8. QED
  BY <1>1, <1>3, <1>4, <1>6, <1>7 DEF FinishTask, TasksAccounted
-----------------------------------------------------------------------------
(***************************************************************************)
(* TypeOK and TasksAccounted support each other: that a worker executing a *)
(* task has a task id at all is known from the accounts.                   *)
(***************************************************************************)
PoolInv == TypeOK /\ TasksAccounted

LEMMA BusyWorkerHasTask ==
    ASSUME PoolInv, NEW w \in Workers, Busy(w)
    PROVE  task[w] \in TaskIds /\ task[w] \in inProgressTasks /\ task[w] \notin finished
BY DEF PoolInv, TypeOK, TasksAccounted

LEMMA InitAccounts == Init => PoolInv
<1> SUFFICES ASSUME Init PROVE PoolInv
  OBVIOUS
<1> USE DEF Init
<1>1. TypeOK
  <2>1. client \in [Clients -> ClientStates]
    BY DEF ClientStates
  <2>2. worker \in [Workers -> WorkerStates] /\ task \in [Workers -> TaskIds \cup {NoTask}]
    BY DEF WorkerStates
  <2>3. nextTaskId \in 0 .. MaxTasks
    BY PoolAssumption
  <2>4. queuedTasks \in Seq(TaskIds)
    OBVIOUS
  <2>5. /\ destroying \in BOOLEAN /\ stopping \in BOOLEAN
        /\ firstException \in TaskIds \cup {NoException}
        /\ inProgressTasks = {} /\ finished = {} /\ unreported = {}
    OBVIOUS
  <2>6. QED
    BY <2>1, <2>2, <2>3, <2>4, <2>5 DEF TypeOK
<1>2. Taken = {} /\ Len(queuedTasks) = 0
  BY DEF Taken
<1>3. \A w \in Workers : ~Busy(w)
  BY DEF Busy
<1>4. QED
  BY <1>1, <1>2, <1>3 DEF PoolInv, TasksAccounted

LEMMA StepAccounts == PoolInv /\ [Next]_vars => PoolInv'
<1> SUFFICES ASSUME PoolInv, [Next]_vars PROVE PoolInv'
  OBVIOUS
<1>0. TypeOK /\ TasksAccounted
  BY DEF PoolInv
<1> USE DEF WorkerStates, ClientStates
<1>1. ASSUME NEW w \in Workers, WorkerStep(w)
      PROVE  PoolInv'
  <2>1. CASE WorkerTakes(w)
    BY <1>0, <2>1, TakeAccounts DEF PoolInv
  <2>2. CASE FinishTask(w)
    BY <1>0, <2>2, FinishAccounts DEF PoolInv
  <2>3. CASE WorkerBlocks(w) \/ WorkerExits(w) \/ TaskReturns(w)
    <3>1. TypeOK'
      BY <1>0, <2>3 DEF TypeOK, WorkerBlocks, WorkerExits, TaskReturns, sharedVars, historyVars
    <3>2. MovesNoTask
      BY <1>0, <2>3
         DEF TypeOK, MovesNoTask, Busy, WorkerBlocks, WorkerExits, TaskReturns, sharedVars, historyVars
    <3>3. QED
      BY <1>0, <3>1, <3>2, AccountsKept DEF PoolInv
  <2>4. CASE TaskThrows(w) \/ RecordException(w)
    <3>1. task[w] \in TaskIds
      BY <2>4, BusyWorkerHasTask DEF TaskThrows, RecordException, Busy
    <3>2. TypeOK'
      BY <1>0, <2>4, <3>1 DEF TypeOK, TaskThrows, RecordException, sharedVars, historyVars
    <3>3. MovesNoTask
      BY <1>0, <2>4
         DEF TypeOK, MovesNoTask, Busy, TaskThrows, RecordException, sharedVars, historyVars
    <3>4. QED
      BY <1>0, <3>2, <3>3, AccountsKept DEF PoolInv
  <2>5. QED
    BY <1>1, <2>1, <2>2, <2>3, <2>4 DEF WorkerStep
<1>2. ASSUME NEW c \in Clients, ClientStep(c)
      PROVE  PoolInv'
  <2>1. TypeOK'
    BY <1>0, <1>2
       DEF TypeOK, ClientStep, NotifyOne, WaitBlocks, WaitReturns, WaitRethrows, SleepingWorkers,
           sharedVars, historyVars
  <2>2. MovesNoTask
    BY <1>0, <1>2
       DEF TypeOK, MovesNoTask, Busy, ClientStep, NotifyOne, WaitBlocks, WaitReturns, WaitRethrows,
           SleepingWorkers, sharedVars, historyVars
  <2>3. QED
    BY <1>0, <2>1, <2>2, AccountsKept DEF PoolInv
<1>3. ASSUME NEW c \in Clients, ClientCall(c)
      PROVE  PoolInv'
  <2>1. CASE Submit(c)
    BY <1>0, <2>1, SubmitAccounts DEF PoolInv
  <2>2. CASE CallWait(c)
    <3>1. TypeOK'
      BY <1>0, <2>2 DEF TypeOK, CallWait, sharedVars, historyVars
    <3>2. MovesNoTask
      BY <2>2 DEF MovesNoTask, Busy, CallWait, sharedVars, historyVars
    <3>3. QED
      BY <1>0, <3>1, <3>2, AccountsKept DEF PoolInv
  <2>3. QED
    BY <1>3, <2>1, <2>2 DEF ClientCall
<1>4. ASSUME OwnerStep \/ Destroy
      PROVE  PoolInv'
  <2>1. TypeOK'
    BY <1>0, <1>4
       DEF TypeOK, OwnerStep, Destroy, SpawnWorker, SpawnFails, ConstructorReturns,
           DestructorStops, DestructorNotifiesAll, DestructorJoins, sharedVars, historyVars
  <2>2. MovesNoTask
    BY <1>0, <1>4
       DEF TypeOK, MovesNoTask, Busy, OwnerStep, Destroy, SpawnWorker, SpawnFails,
           ConstructorReturns, DestructorStops, DestructorNotifiesAll, DestructorJoins,
           sharedVars, historyVars
  <2>3. QED
    BY <1>0, <2>1, <2>2, AccountsKept DEF PoolInv
<1>5. ASSUME SpuriousWakeup
      PROVE  PoolInv'
  <2>1. TypeOK'
    BY <1>0, <1>5
       DEF TypeOK, SpuriousWakeup, WorkerWakesSpuriously, ClientWakesSpuriously,
           sharedVars, historyVars
  <2>2. MovesNoTask
    BY <1>0, <1>5
       DEF TypeOK, MovesNoTask, Busy, SpuriousWakeup, WorkerWakesSpuriously,
           ClientWakesSpuriously, sharedVars, historyVars
  <2>3. QED
    BY <1>0, <2>1, <2>2, AccountsKept DEF PoolInv
<1>6. ASSUME UNCHANGED vars
      PROVE  PoolInv'
  <2>1. TypeOK'
    BY <1>0, <1>6 DEF TypeOK, vars, sharedVars, historyVars
  <2>2. MovesNoTask
    BY <1>6 DEF MovesNoTask, Busy, vars, sharedVars, historyVars
  <2>3. QED
    BY <1>0, <2>1, <2>2, AccountsKept DEF PoolInv
<1>7. QED
  BY <1>1, <1>2, <1>3, <1>4, <1>5, <1>6 DEF Next, Over

(***************************************************************************)
(* Every reachable state is well typed: in particular a worker that        *)
(* executes a task in workerLoop always has the id of one.                 *)
(***************************************************************************)
THEOREM TypeCorrect == Spec => []TypeOK
<1>1. PoolInv => TypeOK
  BY DEF PoolInv
<1>2. QED
  BY InitAccounts, StepAccounts, <1>1, PTL DEF Spec

(***************************************************************************)
(* No task is lost or executed twice, for any number of workers, clients   *)
(* and tasks (submit and workerLoop).                                      *)
(***************************************************************************)
THEOREM AccountsCorrect == Spec => []TasksAccounted
<1>1. PoolInv => TasksAccounted
  BY DEF PoolInv
<1>2. QED
  BY InitAccounts, StepAccounts, <1>1, PTL DEF Spec
-----------------------------------------------------------------------------
(* When the predicate of wait holds, everything submitted has finished. *)
LEMMA QuiescentIsComplete ==
    ASSUME PoolInv, Quiescent
    PROVE  finished = 0 .. nextTaskId - 1 /\ finished = Taken
<1>1. Taken = 0 .. nextTaskId - 1
  BY PoolAssumption DEF PoolInv, TypeOK, Quiescent, Taken
<1>2. finished = Taken
  BY DEF PoolInv, TasksAccounted, Quiescent
<1>3. QED
  BY <1>1, <1>2

(* Only a client that has seen the predicate hold leaves wait. *)
LEMMA OnlyQuiescentLeaves ==
    ASSUME PoolInv, [Next]_vars, NEW c \in Clients, LeavesWait(c)
    PROVE  Quiescent
<1> USE DEF LeavesWait
<1>0. client \in [Clients -> ClientStates]
  BY DEF PoolInv, TypeOK
<1>1. ASSUME NEW w \in Workers, WorkerStep(w)
      PROVE  FALSE
  BY <1>0, <1>1
     DEF WorkerStep, WorkerBlocks, WorkerExits, WorkerTakes, TaskReturns, TaskThrows,
         RecordException, FinishTask, WakeWaiters
<1>2. ASSUME NEW d \in Clients, ClientStep(d)
      PROVE  Quiescent
  BY <1>0, <1>2 DEF ClientStep, NotifyOne, WaitBlocks, WaitReturns, WaitRethrows
<1>3. ASSUME NEW d \in Clients, ClientCall(d)
      PROVE  FALSE
  BY <1>0, <1>3 DEF ClientCall, Submit, CallWait
<1>4. ASSUME OwnerStep \/ Destroy \/ SpuriousWakeup \/ UNCHANGED vars
      PROVE  FALSE
  BY <1>0, <1>4
     DEF OwnerStep, Destroy, SpawnWorker, SpawnFails, ConstructorReturns, DestructorStops,
         DestructorNotifiesAll, DestructorJoins, SpuriousWakeup, WorkerWakesSpuriously,
         ClientWakesSpuriously, vars
<1>5. QED
  BY <1>1, <1>2, <1>3, <1>4 DEF Next, Over

(***************************************************************************)
(* wait, called from anywhere and by any number of clients, comes back     *)
(* only when all the tasks submitted until then have finished.             *)
(***************************************************************************)
THEOREM WaitCorrect == Spec => WaitIsComplete
<1>1. PoolInv /\ [Next]_vars => (\A c \in Clients : LeavesWait(c) => finished = 0 .. nextTaskId - 1)
  BY OnlyQuiescentLeaves, QuiescentIsComplete
<1>2. QED
  BY InitAccounts, StepAccounts, <1>1, PTL DEF Spec, WaitIsComplete
-----------------------------------------------------------------------------
(***************************************************************************)
(* Where the exceptions are between the throw and the rethrow: a worker    *)
(* that has passed the catch block leaves a kept exception behind it, so   *)
(* that the task is not counted as finished without one.                   *)
(***************************************************************************)
ExceptionInv ==
    /\ unreported \subseteq Taken
    /\ \A w \in Workers :
          /\ worker[w] = "running" => task[w] \notin unreported
          /\ worker[w] = "catching" => task[w] \in unreported
          /\ worker[w] = "finishing" /\ task[w] \in unreported
               => firstException # NoException
    /\ ExceptionKept

(* Steps that only move clients, or workers that are not busy. *)
LEMMA ExceptionsKept ==
    ASSUME ExceptionInv, UNCHANGED <<task, firstException, finished, unreported>>,
           Taken \subseteq Taken',
           \A w \in Workers : Busy(w)' => worker'[w] = worker[w]
    PROVE  ExceptionInv'
BY DEF ExceptionInv, ExceptionKept, Busy

LEMMA StepExceptions == PoolInv /\ ExceptionInv /\ [Next]_vars => ExceptionInv'
<1> SUFFICES ASSUME PoolInv, ExceptionInv, [Next]_vars PROVE ExceptionInv'
  OBVIOUS
<1>0. TypeOK /\ TasksAccounted /\ PoolInv' /\ TypeOK' /\ TasksAccounted'
  BY StepAccounts DEF PoolInv
<1>1. ASSUME NEW w \in Workers, WorkerStep(w)
      PROVE  ExceptionInv'
  <2>1. CASE WorkerBlocks(w) \/ WorkerExits(w)
    <3>1. Taken' = Taken
      BY <2>1 DEF WorkerBlocks, WorkerExits, Taken, sharedVars
    <3>2. QED
      BY <1>0, <2>1, <3>1, ExceptionsKept
         DEF TypeOK, WorkerBlocks, WorkerExits, Busy, sharedVars, historyVars
  <2>2. CASE WorkerTakes(w)
    <3>1. Taken' = Taken \cup {task'[w]} /\ task'[w] \notin Taken
      <4>1. task'[w] \in inProgressTasks' /\ task'[w] \notin finished'
        BY <1>0, <2>2, BusyWorkerHasTask DEF TypeOK, TasksAccounted, WorkerTakes, Busy
      <4>2. finished' = finished /\ inProgressTasks' = inProgressTasks \cup {task'[w]}
        BY <1>0, <2>2 DEF TypeOK, WorkerTakes, historyVars
      <4>3. task'[w] \notin inProgressTasks
        BY <1>0, <2>2 DEF TypeOK, TasksAccounted, WorkerTakes, Busy
      <4>4. QED
        BY <1>0, <4>1, <4>2, <4>3 DEF TasksAccounted
    <3>2. \A v \in Workers : v # w => worker'[v] = worker[v] /\ task'[v] = task[v]
      BY <1>0, <2>2 DEF TypeOK, WorkerTakes
    <3>3. worker'[w] = "running" /\ UNCHANGED <<firstException, finished, unreported>>
      BY <1>0, <2>2 DEF TypeOK, WorkerTakes, historyVars
    <3>4. QED
      BY <3>1, <3>2, <3>3 DEF ExceptionInv, ExceptionKept
  <2>3. CASE TaskReturns(w)
    <3>1. Taken' = Taken
      BY <2>3 DEF TaskReturns, Taken, sharedVars
    <3>2. QED
      BY <1>0, <2>3, <3>1
         DEF TypeOK, TaskReturns, ExceptionInv, ExceptionKept, sharedVars, historyVars
  <2>4. CASE TaskThrows(w)
    <3>1. Taken' = Taken /\ UNCHANGED <<task, firstException, finished>>
      BY <2>4 DEF TaskThrows, Taken, sharedVars
    <3>2. task[w] \in Taken /\ task[w] \notin finished
      BY <1>0, <2>4, BusyWorkerHasTask DEF TaskThrows, Busy, TasksAccounted
    <3>3. \A v \in Workers : v # w /\ Busy(v) => task[v] # task[w]
      BY <1>0, <2>4 DEF TaskThrows, Busy, TasksAccounted
    <3>4. /\ worker'[w] = "catching" /\ unreported' = unreported \cup {task[w]}
          /\ \A v \in Workers : v # w => worker'[v] = worker[v]
      BY <1>0, <2>4 DEF TaskThrows, TypeOK
    <3>5. QED
      BY <3>1, <3>2, <3>3, <3>4 DEF ExceptionInv, ExceptionKept, Busy
  <2>5. CASE RecordException(w)
    <3>1. Taken' = Taken /\ UNCHANGED <<task, finished, unreported>>
      BY <2>5 DEF RecordException, Taken, historyVars
    <3>2. task[w] \in unreported /\ task[w] \in TaskIds
      BY <1>0, <2>5, BusyWorkerHasTask DEF RecordException, ExceptionInv, Busy
    <3>3. firstException' # NoException /\ firstException' \in unreported
      BY <2>5, <3>2 DEF RecordException, ExceptionInv, ExceptionKept, TaskIds, NoException
    <3>4. /\ worker'[w] = "finishing"
          /\ \A v \in Workers : v # w => worker'[v] = worker[v]
      BY <1>0, <2>5 DEF RecordException, TypeOK
    <3>5. QED
      BY <3>1, <3>2, <3>3, <3>4 DEF ExceptionInv, ExceptionKept
  <2>6. CASE FinishTask(w)
    <3>1. Taken' = Taken /\ UNCHANGED <<task, firstException, unreported>>
      BY <2>6 DEF FinishTask, Taken
    <3>2. /\ worker'[w] = "checking" /\ finished' = finished \cup {task[w]}
          /\ \A v \in Workers : v # w => worker'[v] = worker[v]
      BY <1>0, <2>6 DEF FinishTask, TypeOK
    <3>3. task[w] \in unreported => firstException # NoException
      BY <2>6 DEF FinishTask, ExceptionInv
    <3>4. QED
      BY <3>1, <3>2, <3>3 DEF ExceptionInv, ExceptionKept
  <2>7. QED
    BY <1>1, <2>1, <2>2, <2>3, <2>4, <2>5, <2>6 DEF WorkerStep
<1>2. ASSUME NEW c \in Clients, WaitRethrows(c)
      PROVE  ExceptionInv'
  <2>1. \A w \in Workers : ~Busy(w)
    BY <1>0, <1>2 DEF WaitRethrows, Quiescent, TasksAccounted
  <2>2. worker' = worker /\ unreported' = {} /\ firstException' = NoException
    BY <1>2 DEF WaitRethrows
  <2>3. QED
    BY <2>1, <2>2 DEF ExceptionInv, ExceptionKept, Busy
<1>3. ASSUME NEW c \in Clients, Submit(c)
      PROVE  ExceptionInv'
  <2>1. Taken' = Taken
    BY <1>0, <1>3 DEF Submit, Taken, TypeOK
  <2>2. QED
    BY <1>3, <2>1, ExceptionsKept DEF Submit, Busy, historyVars
<1>4. ASSUME NEW c \in Clients,
             NotifyOne(c) \/ WaitBlocks(c) \/ WaitReturns(c) \/ CallWait(c)
      PROVE  ExceptionInv'
  <2>1. Taken' = Taken
    BY <1>4 DEF NotifyOne, WaitBlocks, WaitReturns, CallWait, Taken, sharedVars
  <2>2. QED
    BY <1>0, <1>4, <2>1, ExceptionsKept
       DEF TypeOK, NotifyOne, WaitBlocks, WaitReturns, CallWait, SleepingWorkers, Busy,
           sharedVars, historyVars
<1>5. ASSUME OwnerStep \/ Destroy
      PROVE  ExceptionInv'
  <2>1. Taken' = Taken
    BY <1>5
       DEF OwnerStep, Destroy, SpawnWorker, SpawnFails, ConstructorReturns, DestructorStops,
           DestructorNotifiesAll, DestructorJoins, Taken, sharedVars
  <2>2. QED
    BY <1>0, <1>5, <2>1, ExceptionsKept
       DEF TypeOK, OwnerStep, Destroy, SpawnWorker, SpawnFails, ConstructorReturns,
           DestructorStops, DestructorNotifiesAll, DestructorJoins, Busy, sharedVars, historyVars
<1>6. ASSUME SpuriousWakeup \/ UNCHANGED vars
      PROVE  ExceptionInv'
  <2>1. Taken' = Taken
    BY <1>6 DEF SpuriousWakeup, WorkerWakesSpuriously, ClientWakesSpuriously, Taken, vars, sharedVars
  <2>2. QED
    BY <1>0, <1>6, <2>1, ExceptionsKept
       DEF TypeOK, SpuriousWakeup, WorkerWakesSpuriously, ClientWakesSpuriously, Busy, vars,
           sharedVars, historyVars
<1>7. QED
  BY <1>1, <1>2, <1>3, <1>4, <1>5, <1>6 DEF Next, Over, ClientStep, ClientCall

LEMMA InitExceptions == Init => ExceptionInv
BY DEF Init, ExceptionInv, ExceptionKept, Taken

(***************************************************************************)
(* The kept exception is always one nobody was told of, and no failed task *)
(* counts as finished without one (catch block and erase in workerLoop).   *)
(***************************************************************************)
THEOREM ExceptionsCorrect == Spec => []ExceptionKept
<1>1. ExceptionInv => ExceptionKept
  BY DEF ExceptionInv
<1>2. QED
  BY InitAccounts, StepAccounts, InitExceptions, StepExceptions, <1>1, PTL DEF Spec

(***************************************************************************)
(* A wait that returns without throwing has no failed task to hide: the    *)
(* workers have all passed their catch blocks when the predicate holds.    *)
(***************************************************************************)
THEOREM SuccessCorrect == Spec => SuccessMeansSuccess
<1>1. ASSUME PoolInv, ExceptionInv, [Next]_vars
      PROVE  \A c \in Clients : LeavesWait(c) /\ firstException = NoException => unreported = {}
  BY <1>1, OnlyQuiescentLeaves, QuiescentIsComplete DEF ExceptionInv, ExceptionKept
<1>2. QED
  BY InitAccounts, StepAccounts, InitExceptions, StepExceptions, <1>1, PTL
     DEF Spec, SuccessMeansSuccess

(***************************************************************************)
(* What wait tells its caller by returning, and by not throwing, is true.  *)
(***************************************************************************)
THEOREM WaitTruth == Spec => WaitTellsTheTruth
BY WaitCorrect, SuccessCorrect DEF WaitTellsTheTruth
-----------------------------------------------------------------------------
(***************************************************************************)
(* Once the destructor runs, every other client is out of the pool, so the *)
(* emptiness that its own wait has seen lasts.                             *)
(***************************************************************************)
DestroyInv ==
    /\ destroying => \A c \in Clients \ {Owner} : client[c] = "idle"
    /\ destroying => client[Owner] \notin {"constructing", "idle", "notifying"}
    /\ client[Owner] \in {"stopping", "notifyingAll", "joining", "destroyed"}
         => destroying /\ Quiescent

LEMMA InitDestroy == Init => DestroyInv
BY PoolAssumption DEF Init, DestroyInv

LEMMA StepDestroy == PoolInv /\ DestroyInv /\ [Next]_vars => DestroyInv'
<1> SUFFICES ASSUME PoolInv, DestroyInv, [Next]_vars PROVE DestroyInv'
  OBVIOUS
<1>0. client \in [Clients -> ClientStates] /\ Owner \in Clients
  BY PoolAssumption DEF PoolInv, TypeOK
<1>1. ASSUME NEW w \in Workers, WorkerStep(w)
      PROVE  DestroyInv'
  <2>1. destroying' = destroying
    BY <1>1 DEF WorkerStep, WorkerBlocks, WorkerExits, WorkerTakes, TaskReturns, TaskThrows,
                RecordException, FinishTask
  <2>2. Quiescent => Quiescent'
    BY <1>1 DEF WorkerStep, WorkerBlocks, WorkerExits, WorkerTakes, TaskReturns, TaskThrows,
                RecordException, FinishTask, Quiescent, sharedVars
  <2>3. \A c \in Clients : \/ client'[c] = client[c]
                           \/ client[c] = "asleep" /\ client'[c] = "waiting"
    BY <1>1 DEF WorkerStep, WorkerBlocks, WorkerExits, WorkerTakes, TaskReturns, TaskThrows,
                RecordException, FinishTask, WakeWaiters
  <2>4. QED
    BY <1>0, <2>1, <2>2, <2>3 DEF DestroyInv
<1>2. ASSUME NEW c \in Clients, ClientStep(c)
      PROVE  DestroyInv'
  <2>1. UNCHANGED <<destroying, queuedTasks, inProgressTasks>>
    BY <1>2 DEF ClientStep, NotifyOne, WaitBlocks, WaitReturns, WaitRethrows, sharedVars
  <2>2. QED
    BY <1>0, <1>2, <2>1
       DEF DestroyInv, Quiescent, ClientStep, NotifyOne, WaitBlocks, WaitReturns, WaitRethrows
<1>3. ASSUME NEW c \in Clients, ClientCall(c)
      PROVE  DestroyInv'
  BY <1>0, <1>3 DEF DestroyInv, ClientCall, Submit, CallWait, Usable
<1>4. ASSUME OwnerStep \/ Destroy
      PROVE  DestroyInv'
  BY <1>0, <1>4
     DEF DestroyInv, Quiescent, OwnerStep, Destroy, SpawnWorker, SpawnFails, ConstructorReturns,
         DestructorStops, DestructorNotifiesAll, DestructorJoins, sharedVars
<1>5. ASSUME SpuriousWakeup \/ UNCHANGED vars
      PROVE  DestroyInv'
  BY <1>0, <1>5
     DEF DestroyInv, Quiescent, SpuriousWakeup, WorkerWakesSpuriously, ClientWakesSpuriously,
         vars, sharedVars
<1>6. QED
  BY <1>1, <1>2, <1>3, <1>4, <1>5 DEF Next, Over

(***************************************************************************)
(* ~ThreadPool drops nothing: once it is past its wait the queue is        *)
(* empty and every task submitted has finished.                            *)
(***************************************************************************)
THEOREM DestructionCorrect == Spec => []DestroyedIsDrained
<1>1. PoolInv /\ DestroyInv => DestroyedIsDrained
  BY QuiescentIsComplete DEF DestroyInv, DestroyedIsDrained, PastTheWait, Quiescent
<1>2. QED
  BY InitAccounts, StepAccounts, InitDestroy, StepDestroy, <1>1, PTL DEF Spec
-----------------------------------------------------------------------------
(***************************************************************************)
(* ThreadPool implements TaskExecutor: every step of the pool is a step of *)
(* the executor or changes nothing the executor knows of.                  *)
(***************************************************************************)
InsideWait == {c \in Clients : client[c] \in {"waiting", "asleep"}}

(* The instance of TaskExecutor counts with its own copy of Cardinality. *)
LEMMA SameCardinality == \A S : Executor!Cardinality(S) = Cardinality(S)
BY Zenon DEF Executor!Cardinality, Cardinality

(***************************************************************************)
(* A worker about to take a task is not busy, so fewer tasks are executed  *)
(* than there are workers.                                                 *)
(***************************************************************************)
LEMMA RoomForOneMore ==
    ASSUME PoolInv, NEW w \in Workers, ~Busy(w)
    PROVE  Cardinality(Taken \ finished) < Cardinality(Workers)
<1> DEFINE B == {v \in Workers : Busy(v)}
           f == [v \in B |-> task[v]]
<1>1. Taken \ finished = inProgressTasks /\ inProgressTasks = {task[v] : v \in B}
  BY DEF PoolInv, TasksAccounted
<1>2. f \in Surjection(B, inProgressTasks)
  BY <1>1 DEF Surjection
<1>3. /\ IsFiniteSet(Workers \ {w})
      /\ Cardinality(Workers \ {w}) = Cardinality(Workers) - 1
      /\ Cardinality(Workers) \in Nat
  BY PoolAssumption, FS_RemoveElement, FS_CardinalityType
<1>4. IsFiniteSet(B) /\ Cardinality(B) <= Cardinality(Workers \ {w})
  BY <1>3, FS_Subset
<1>5. IsFiniteSet(inProgressTasks) /\ Cardinality(inProgressTasks) <= Cardinality(B)
  BY <1>2, <1>4, FS_Surjection
<1>6. Cardinality(B) \in Nat /\ Cardinality(inProgressTasks) \in Nat
  BY <1>4, <1>5, FS_CardinalityType
<1> HIDE DEF B, f
<1>7. Cardinality(inProgressTasks) < Cardinality(Workers)
  BY <1>3, <1>4, <1>5, <1>6
<1>8. QED
  BY <1>1, <1>7

(* Steps that neither move a task nor take a client into or out of wait. *)
LEMMA StutterStep ==
    ASSUME UNCHANGED <<nextTaskId, finished>>, Taken' = Taken, InsideWait' = InsideWait
    PROVE  UNCHANGED Executor!execVars
BY DEF Executor!execVars, InsideWait

LEMMA InitRefines == Init => Executor!Init
BY DEF Init, Executor!Init, Taken

LEMMA StepRefines ==
    PoolInv /\ [Next]_vars => [Executor!Next]_(Executor!execVars)
<1> SUFFICES ASSUME PoolInv, [Next]_vars
             PROVE  Executor!Next \/ UNCHANGED Executor!execVars
  OBVIOUS
<1>0. TypeOK /\ TasksAccounted /\ PoolInv'
  BY StepAccounts DEF PoolInv
<1>1. ASSUME NEW w \in Workers, WorkerStep(w)
      PROVE  Executor!Next \/ UNCHANGED Executor!execVars
  <2>1. CASE WorkerTakes(w)
    <3>0. PICK h : h = task'[w]
      OBVIOUS
    <3>1. /\ finished' = finished /\ nextTaskId' = nextTaskId /\ InsideWait' = InsideWait
          /\ inProgressTasks' = inProgressTasks \cup {h}
      BY <1>0, <2>1, <3>0 DEF TypeOK, WorkerTakes, InsideWait, historyVars
    <3>2. h \in TaskIds /\ h \in inProgressTasks' /\ h \notin finished
      BY <1>0, <2>1, <3>0, <3>1, BusyWorkerHasTask DEF PoolInv, TypeOK, TasksAccounted, WorkerTakes, Busy
    <3>3. h \notin inProgressTasks
      BY <1>0, <2>1, <3>0 DEF PoolInv, TypeOK, TasksAccounted, WorkerTakes, Busy
    <3>4. Taken' = Taken \cup {h} /\ h \notin Taken
      BY <1>0, <3>1, <3>2, <3>3 DEF PoolInv, TasksAccounted
    <3>5. Cardinality(Taken \ finished) < Cardinality(Workers)
      BY <2>1, RoomForOneMore DEF WorkerTakes, Busy
    <3>6. h \in 0 .. nextTaskId - 1
      BY <1>0, <3>1, <3>4 DEF TypeOK, Taken, PoolInv
    <3>7. Executor!Start(h)
      BY <3>1, <3>4, <3>5, <3>6, SameCardinality DEF Executor!Start, InsideWait
    <3>8. QED
      BY <3>2, <3>7 DEF Executor!Next, TaskIds
  <2>2. CASE FinishTask(w)
    <3>1. task[w] \in TaskIds /\ task[w] \in Taken /\ task[w] \notin finished
      BY <1>0, <2>2, BusyWorkerHasTask DEF TasksAccounted, FinishTask, Busy
    <3>2. /\ finished' = finished \cup {task[w]}
          /\ nextTaskId' = nextTaskId /\ Taken' = Taken
      BY <2>2 DEF FinishTask, Taken
    <3>3. InsideWait' = InsideWait
      BY <2>2 DEF FinishTask, WakeWaiters, InsideWait
    <3>4. Executor!Finish(task[w])
      BY <3>1, <3>2, <3>3 DEF Executor!Finish, InsideWait
    <3>5. QED
      BY <3>1, <3>4 DEF Executor!Next, TaskIds
  <2>3. CASE \/ WorkerBlocks(w) \/ WorkerExits(w) \/ TaskReturns(w) \/ TaskThrows(w)
             \/ RecordException(w)
    <3>1. UNCHANGED <<nextTaskId, queuedTasks, finished, client>>
      BY <2>3 DEF WorkerBlocks, WorkerExits, TaskReturns, TaskThrows, RecordException,
                  sharedVars, historyVars
    <3>2. QED
      BY <3>1, StutterStep DEF Taken, InsideWait
  <2>4. QED
    BY <1>1, <2>1, <2>2, <2>3 DEF WorkerStep
<1>2. ASSUME NEW c \in Clients, Submit(c)
      PROVE  Executor!Next
  <2>1. Taken' = Taken
    BY <1>0, <1>2 DEF Submit, Taken, TypeOK
  <2>2. Executor!Submit
    BY <1>0, <1>2, <2>1 DEF TypeOK, Submit, Executor!Submit, historyVars
  <2>3. QED
    BY <2>2 DEF Executor!Next
<1>3. ASSUME NEW c \in Clients, CallWait(c) \/ (c = Owner /\ Destroy)
      PROVE  Executor!Next
  <2>1. UNCHANGED <<nextTaskId, queuedTasks, finished>>
    BY <1>3 DEF CallWait, Destroy, sharedVars, historyVars
  <2>2. c \notin InsideWait /\ InsideWait' = InsideWait \cup {c}
    BY <1>0, <1>3 DEF TypeOK, CallWait, Destroy, InsideWait
  <2>3. Executor!CallWait(c)
    BY <2>1, <2>2 DEF Executor!CallWait, InsideWait, Taken
  <2>4. QED
    BY <2>3 DEF Executor!Next
<1>4. ASSUME NEW c \in Clients, WaitReturns(c) \/ WaitRethrows(c)
      PROVE  Executor!Next
  <2>1. UNCHANGED <<nextTaskId, queuedTasks, finished>>
    BY <1>4 DEF WaitReturns, WaitRethrows, sharedVars, historyVars
  <2>2. c \in InsideWait /\ InsideWait' = InsideWait \ {c}
    BY <1>0, <1>4 DEF TypeOK, WaitReturns, WaitRethrows, InsideWait
  <2>3. finished = 0 .. nextTaskId - 1
    BY <1>4, QuiescentIsComplete DEF WaitReturns, WaitRethrows
  <2>4. Executor!ReturnFromWait(c)
    BY <2>1, <2>2, <2>3 DEF Executor!ReturnFromWait, Executor!AllFinished, InsideWait, Taken
  <2>5. QED
    BY <2>4 DEF Executor!Next
<1>5. ASSUME NEW c \in Clients, NotifyOne(c) \/ WaitBlocks(c) \/ ClientWakesSpuriously(c)
      PROVE  UNCHANGED Executor!execVars
  <2>1. UNCHANGED <<nextTaskId, queuedTasks, finished>>
    BY <1>5 DEF NotifyOne, WaitBlocks, ClientWakesSpuriously, sharedVars, historyVars
  <2>2. InsideWait' = InsideWait
    BY <1>0, <1>5 DEF TypeOK, NotifyOne, WaitBlocks, ClientWakesSpuriously, InsideWait
  <2>3. QED
    BY <2>1, <2>2, StutterStep DEF Taken
<1>6. ASSUME OwnerStep \/ (\E w \in Workers : WorkerWakesSpuriously(w)) \/ UNCHANGED vars
      PROVE  UNCHANGED Executor!execVars
  <2>1. UNCHANGED <<nextTaskId, queuedTasks, finished>>
    BY <1>6
       DEF OwnerStep, SpawnWorker, SpawnFails, ConstructorReturns, DestructorStops,
           DestructorNotifiesAll, DestructorJoins, WorkerWakesSpuriously, vars, sharedVars,
           historyVars
  <2>2. InsideWait' = InsideWait
    BY <1>0, <1>6
       DEF TypeOK, OwnerStep, SpawnWorker, SpawnFails, ConstructorReturns, DestructorStops,
           DestructorNotifiesAll, DestructorJoins, WorkerWakesSpuriously, vars, InsideWait
  <2>3. QED
    BY <2>1, <2>2, StutterStep DEF Taken
<1>7. QED
  BY <1>1, <1>2, <1>3, <1>4, <1>5, <1>6, PoolAssumption
     DEF Next, Over, ClientStep, ClientCall, SpuriousWakeup

(***************************************************************************)
(* thread_pool.h with a thread limit keeps the promises of TaskExecutor:   *)
(* each task starts once, at most one per worker at a time, and wait       *)
(* returns when everything submitted has finished.                         *)
(***************************************************************************)
THEOREM PoolRefinesExecutor == Spec => ImplementsExecutor
BY InitAccounts, StepAccounts, InitRefines, StepRefines, PTL
   DEF Spec, ImplementsExecutor, Executor!Spec
-----------------------------------------------------------------------------
(***************************************************************************)
(* Who sleeps in the pool, and who is on the way to whom.  notify_one is   *)
(* called after the mutex is released, so a worker may go back to sleep, a *)
(* worker that finishes may take the task first, and several notifications *)
(* may be under way at a time.                                             *)
(***************************************************************************)
Checking == {w \in Workers : worker[w] = "checking"}
Notifying == {c \in Clients : client[c] = "notifying"}

(* No worker sleeps while there is a task that nobody is on the way to. *)
WorkCovered ==
    SleepingWorkers # {} => Len(queuedTasks) <= Cardinality(Checking) + Cardinality(Notifying)

(* Who sleeps inside wait has a task to wait for, whose end will wake it. *)
WaitersHaveCause == \A c \in Clients : client[c] = "asleep" => ~Quiescent

(* No worker sleeps that the destructor waits to join. *)
StopIsHeard == SleepingWorkers # {} => client[Owner] \notin {"joining", "destroyed"}

NoLostWakeup == WorkCovered /\ WaitersHaveCause /\ StopIsHeard

(* Workers go to sleep only before stopping_, and few clients notify. *)
SleepInv ==
    /\ IsFiniteSet(Notifying)
    /\ stopping <=> client[Owner] \in {"notifyingAll", "joining", "destroyed"}
    /\ NoLostWakeup

LEMMA FinitelyManyChecking ==
    /\ IsFiniteSet(Checking) /\ Cardinality(Checking) \in Nat
    /\ IsFiniteSet(Checking') /\ Cardinality(Checking') \in Nat
BY PoolAssumption, FS_Subset, FS_CardinalityType DEF Checking

(* The steps that bring no task and take no awake worker from its way to one. *)
KeepsCover ==
    /\ SleepingWorkers' \subseteq SleepingWorkers
    /\ Checking \subseteq Checking'
    /\ UNCHANGED <<Notifying, queuedTasks>>

LEMMA CoverKept ==
    ASSUME PoolInv, SleepInv, KeepsCover
    PROVE  IsFiniteSet(Notifying') /\ WorkCovered'
<1>1. Cardinality(Checking) <= Cardinality(Checking')
  BY FinitelyManyChecking, FS_Subset DEF KeepsCover
<1>2. Cardinality(Notifying) \in Nat /\ Len(queuedTasks) \in Nat
  BY FS_CardinalityType DEF SleepInv, PoolInv, TypeOK
<1>3. QED
  BY <1>1, <1>2, FinitelyManyChecking DEF KeepsCover, SleepInv, NoLostWakeup, WorkCovered

(* The client that submits is on the way to a sleeper. *)
LEMMA SubmitCovers ==
    ASSUME PoolInv, SleepInv, NEW c \in Clients, Submit(c)
    PROVE  IsFiniteSet(Notifying') /\ WorkCovered'
<1>0. TypeOK
  BY DEF PoolInv
<1>1. Notifying' = Notifying \cup {c} /\ c \notin Notifying
  BY <1>0 DEF Submit, Notifying, TypeOK
<1>2. /\ IsFiniteSet(Notifying') /\ Cardinality(Notifying) \in Nat
      /\ Cardinality(Notifying') = Cardinality(Notifying) + 1
  BY <1>1, FS_AddElement, FS_CardinalityType DEF SleepInv
<1>3. Len(queuedTasks') = Len(queuedTasks) + 1 /\ Len(queuedTasks) \in Nat
  <2>1. nextTaskId \in TaskIds
    BY <1>0, PoolAssumption DEF Submit, TypeOK, TaskIds
  <2>2. QED
    BY <1>0, <2>1 DEF Submit, TypeOK
<1>4. Checking' = Checking /\ SleepingWorkers' = SleepingWorkers
  BY DEF Submit, Checking, SleepingWorkers
<1>5. QED
  BY <1>2, <1>3, <1>4, FinitelyManyChecking DEF SleepInv, NoLostWakeup, WorkCovered

(* Its notification sends a sleeper in its place, or there is none. *)
LEMMA NotifyCovers ==
    ASSUME PoolInv, SleepInv, NEW c \in Clients, NotifyOne(c)
    PROVE  IsFiniteSet(Notifying') /\ WorkCovered'
<1>0. TypeOK
  BY DEF PoolInv
<1>1. Notifying' = Notifying \ {c} /\ c \in Notifying
  BY <1>0 DEF NotifyOne, Notifying, TypeOK
<1>2. /\ IsFiniteSet(Notifying') /\ Cardinality(Notifying) \in Nat
      /\ Cardinality(Notifying') = Cardinality(Notifying) - 1
  BY <1>1, FS_RemoveElement, FS_CardinalityType DEF SleepInv
<1>3. UNCHANGED queuedTasks /\ Len(queuedTasks) \in Nat
  BY <1>0 DEF NotifyOne, TypeOK, sharedVars
<1>4. CASE SleepingWorkers = {} /\ UNCHANGED worker
  BY <1>2, <1>4 DEF WorkCovered, SleepingWorkers
<1>5. CASE \E w \in SleepingWorkers : worker' = [worker EXCEPT ![w] = "checking"]
  <2>1. PICK w \in SleepingWorkers : worker' = [worker EXCEPT ![w] = "checking"]
    BY <1>5
  <2>2. Checking' = Checking \cup {w} /\ w \notin Checking
    BY <1>0, <2>1 DEF Checking, SleepingWorkers, TypeOK
  <2>3. Cardinality(Checking') = Cardinality(Checking) + 1
    BY <2>2, FinitelyManyChecking, FS_AddElement
  <2>4. SleepingWorkers # {}
    BY <2>1
  <2>5. QED
    BY <1>2, <1>3, <2>3, <2>4, FinitelyManyChecking DEF SleepInv, NoLostWakeup, WorkCovered
<1>6. QED
  BY <1>4, <1>5 DEF NotifyOne

(* A worker that takes a task is one less on the way, and there is one task less. *)
LEMMA TakeCovers ==
    ASSUME PoolInv, SleepInv, NEW w \in Workers, WorkerTakes(w)
    PROVE  IsFiniteSet(Notifying') /\ WorkCovered'
<1>0. TypeOK
  BY DEF PoolInv
<1>1. Checking' = Checking \ {w} /\ w \in Checking
  BY <1>0 DEF WorkerTakes, Checking, TypeOK
<1>2. Cardinality(Checking') = Cardinality(Checking) - 1
  BY <1>1, FinitelyManyChecking, FS_RemoveElement
<1>3. Len(queuedTasks') = Len(queuedTasks) - 1 /\ Len(queuedTasks) \in Nat
  BY <1>0 DEF WorkerTakes, TypeOK
<1>4. SleepingWorkers' = SleepingWorkers /\ Notifying' = Notifying
  BY <1>0 DEF WorkerTakes, SleepingWorkers, Notifying, TypeOK
<1>5. Cardinality(Notifying) \in Nat
  BY FS_CardinalityType DEF SleepInv
<1>6. QED
  BY <1>2, <1>3, <1>4, <1>5, FinitelyManyChecking DEF SleepInv, NoLostWakeup, WorkCovered
LEMMA CoverStep == PoolInv /\ SleepInv /\ [Next]_vars => IsFiniteSet(Notifying') /\ WorkCovered'
<1> SUFFICES ASSUME PoolInv, SleepInv, [Next]_vars
             PROVE  IsFiniteSet(Notifying') /\ WorkCovered'
  OBVIOUS
<1>0. /\ worker \in [Workers -> WorkerStates] /\ client \in [Clients -> ClientStates]
      /\ Owner \in Clients /\ Len(<<>>) = 0
  BY PoolAssumption DEF PoolInv, TypeOK
<1> USE DEF SleepingWorkers, Checking, Notifying, sharedVars
<1>1. ASSUME NEW w \in Workers, WorkerStep(w)
      PROVE  IsFiniteSet(Notifying') /\ WorkCovered'
  <2>1. CASE WorkerTakes(w)
    BY <2>1, TakeCovers
  <2>2. CASE WorkerBlocks(w) \/ WorkerExits(w)
    <3>1. Notifying' = Notifying /\ Len(queuedTasks') = 0
      BY <1>0, <2>2 DEF WorkerBlocks, WorkerExits
    <3>2. IsFiniteSet(Notifying') /\ Cardinality(Notifying') \in Nat
      BY <3>1, FS_CardinalityType DEF SleepInv
    <3> HIDE DEF Checking, Notifying
    <3>3. QED
      BY <3>1, <3>2, FinitelyManyChecking DEF WorkCovered
  <2>3. CASE TaskReturns(w) \/ TaskThrows(w) \/ RecordException(w)
    <3>1. KeepsCover
      BY <1>0, <2>3 DEF KeepsCover, TaskReturns, TaskThrows, RecordException
    <3>2. QED
      BY <3>1, CoverKept
  <2>4. CASE FinishTask(w)
    <3>1. SleepingWorkers' \subseteq SleepingWorkers /\ Checking \subseteq Checking'
      BY <1>0, <2>4 DEF FinishTask
    <3>2. \A c \in Clients : client'[c] = "notifying" <=> client[c] = "notifying"
      BY <1>0, <2>4 DEF FinishTask, WakeWaiters
    <3>3. KeepsCover
      BY <2>4, <3>1, <3>2 DEF KeepsCover, FinishTask
    <3>4. QED
      BY <3>3, CoverKept
  <2>5. QED
    BY <1>1, <2>1, <2>2, <2>3, <2>4 DEF WorkerStep
<1>2. ASSUME NEW c \in Clients, ClientStep(c) \/ ClientCall(c)
      PROVE  IsFiniteSet(Notifying') /\ WorkCovered'
  <2>1. CASE Submit(c)
    BY <2>1, SubmitCovers
  <2>2. CASE NotifyOne(c)
    BY <2>2, NotifyCovers
  <2>3. CASE CallWait(c) \/ WaitBlocks(c) \/ WaitReturns(c) \/ WaitRethrows(c)
    <3>1. KeepsCover
      BY <1>0, <2>3 DEF KeepsCover, CallWait, WaitBlocks, WaitReturns, WaitRethrows
    <3>2. QED
      BY <3>1, CoverKept
  <2>4. QED
    BY <1>2, <2>1, <2>2, <2>3 DEF ClientStep, ClientCall
<1>3. ASSUME OwnerStep \/ Destroy
      PROVE  IsFiniteSet(Notifying') /\ WorkCovered'
  <2>1. KeepsCover
    BY <1>0, <1>3
       DEF KeepsCover, OwnerStep, Destroy, SpawnWorker, SpawnFails, ConstructorReturns,
           DestructorStops, DestructorNotifiesAll, DestructorJoins
  <2>2. QED
    BY <2>1, CoverKept
<1>4. ASSUME SpuriousWakeup \/ UNCHANGED vars
      PROVE  IsFiniteSet(Notifying') /\ WorkCovered'
  <2>1. KeepsCover
    BY <1>0, <1>4
       DEF KeepsCover, SpuriousWakeup, WorkerWakesSpuriously, ClientWakesSpuriously, vars
  <2>2. QED
    BY <2>1, CoverKept
<1>5. QED
  BY <1>1, <1>2, <1>3, <1>4 DEF Next, Over

LEMMA WaitersStep == PoolInv /\ SleepInv /\ [Next]_vars => WaitersHaveCause'
<1> SUFFICES ASSUME PoolInv, SleepInv, [Next]_vars,
                    NEW c \in Clients, client'[c] = "asleep"
             PROVE  ~Quiescent'
  BY DEF WaitersHaveCause
<1>0. /\ TypeOK /\ Owner \in Clients
      /\ client[c] = "asleep" => ~Quiescent
  BY PoolAssumption DEF PoolInv, SleepInv, NoLostWakeup, WaitersHaveCause
<1>1. ASSUME NEW w \in Workers, WorkerTakes(w)
      PROVE  ~Quiescent'
  BY <1>1 DEF WorkerTakes, Quiescent
<1>2. ASSUME NEW w \in Workers, FinishTask(w)
      PROVE  ~Quiescent'
  BY <1>0, <1>2 DEF FinishTask, Quiescent, WakeWaiters, TypeOK
<1>3. ASSUME NEW w \in Workers, WorkerStep(w), ~WorkerTakes(w), ~FinishTask(w)
      PROVE  ~Quiescent'
  BY <1>0, <1>3
     DEF WorkerStep, WorkerBlocks, WorkerExits, TaskReturns, TaskThrows, RecordException,
         Quiescent, sharedVars
<1>4. ASSUME NEW d \in Clients, Submit(d)
      PROVE  ~Quiescent'
  <2>1. queuedTasks \in Seq(TaskIds) /\ nextTaskId \in TaskIds
    BY <1>0, <1>4, PoolAssumption DEF Submit, TypeOK, TaskIds
  <2>2. queuedTasks' # <<>>
    BY <1>4, <2>1 DEF Submit
  <2>3. QED
    BY <2>2 DEF Quiescent
<1>5. ASSUME NEW d \in Clients, ClientStep(d) \/ CallWait(d)
      PROVE  ~Quiescent'
  BY <1>0, <1>5
     DEF ClientStep, NotifyOne, WaitBlocks, WaitReturns, WaitRethrows, CallWait, Quiescent,
         sharedVars, TypeOK
<1>6. ASSUME OwnerStep \/ Destroy \/ SpuriousWakeup \/ UNCHANGED vars
      PROVE  ~Quiescent'
  BY <1>0, <1>6
     DEF OwnerStep, Destroy, SpawnWorker, SpawnFails, ConstructorReturns, DestructorStops,
         DestructorNotifiesAll, DestructorJoins, SpuriousWakeup, WorkerWakesSpuriously,
         ClientWakesSpuriously, Quiescent, vars, sharedVars, TypeOK
<1>7. QED
  BY <1>1, <1>2, <1>3, <1>4, <1>5, <1>6 DEF Next, Over, ClientCall

StopIsOrdered == stopping <=> client[Owner] \in {"notifyingAll", "joining", "destroyed"}

LEMMA StopStep == PoolInv /\ SleepInv /\ [Next]_vars => StopIsOrdered' /\ StopIsHeard'
<1> SUFFICES ASSUME PoolInv, SleepInv, [Next]_vars PROVE StopIsOrdered' /\ StopIsHeard'
  OBVIOUS
<1>0. /\ worker \in [Workers -> WorkerStates] /\ client \in [Clients -> ClientStates]
      /\ Owner \in Clients /\ StopIsOrdered /\ StopIsHeard
  BY PoolAssumption DEF PoolInv, TypeOK, SleepInv, NoLostWakeup, StopIsOrdered
<1> USE DEF StopIsOrdered, StopIsHeard, SleepingWorkers
<1>1. ASSUME NEW w \in Workers, WorkerStep(w)
      PROVE  StopIsOrdered' /\ StopIsHeard'
  <2>1. stopping' = stopping /\ (worker'[w] = "asleep" => ~stopping)
    BY <1>0, <1>1 DEF WorkerStep, WorkerBlocks, WorkerExits, WorkerTakes, TaskReturns,
       TaskThrows, RecordException, FinishTask, sharedVars
  <2>2. \A v \in Workers \ {w} : worker'[v] = worker[v]
    BY <1>0, <1>1 DEF WorkerStep, WorkerBlocks, WorkerExits, WorkerTakes, TaskReturns,
       TaskThrows, RecordException, FinishTask
  <2>3. \/ client'[Owner] = client[Owner]
        \/ client[Owner] = "asleep" /\ client'[Owner] = "waiting"
    BY <1>0, <1>1 DEF WorkerStep, WorkerBlocks, WorkerExits, WorkerTakes, TaskReturns,
       TaskThrows, RecordException, FinishTask, WakeWaiters
  <2>4. QED
    BY <1>0, <2>1, <2>2, <2>3
<1>2. ASSUME NEW c \in Clients, ClientStep(c) \/ ClientCall(c)
      PROVE  StopIsOrdered' /\ StopIsHeard'
  <2>1. stopping' = stopping /\ SleepingWorkers' \subseteq SleepingWorkers
    BY <1>0, <1>2 DEF ClientStep, ClientCall, Submit, CallWait, NotifyOne, WaitBlocks,
       WaitReturns, WaitRethrows, sharedVars
  <2>2. \/ client'[Owner] = client[Owner]
        \/ /\ client[Owner] \in {"idle", "notifying", "waiting"}
           /\ client'[Owner] \in {"idle", "notifying", "waiting", "asleep", "stopping",
                                   "terminated"}
    BY <1>0, <1>2 DEF ClientStep, ClientCall, Submit, CallWait, NotifyOne, WaitBlocks,
       WaitReturns, WaitRethrows
  <2>3. QED
    BY <1>0, <2>1, <2>2
<1>3. ASSUME OwnerStep \/ Destroy \/ SpuriousWakeup \/ UNCHANGED vars
      PROVE  StopIsOrdered' /\ StopIsHeard'
  BY <1>0, <1>3
     DEF OwnerStep, Destroy, SpawnWorker, SpawnFails, ConstructorReturns, DestructorStops,
         DestructorNotifiesAll, DestructorJoins, SpuriousWakeup, WorkerWakesSpuriously,
         ClientWakesSpuriously, vars, sharedVars
<1>4. QED
  BY <1>1, <1>2, <1>3 DEF Next, Over

LEMMA InitSleep == Init => SleepInv
<1> SUFFICES ASSUME Init PROVE SleepInv
  OBVIOUS
<1>1. /\ client[Owner] = "constructing" /\ SleepingWorkers = {} /\ Notifying = {}
      /\ \A c \in Clients : client[c] # "asleep"
  BY PoolAssumption DEF Init, SleepingWorkers, Notifying
<1>2. QED
  BY <1>1, FS_EmptySet
     DEF Init, SleepInv, NoLostWakeup, WorkCovered, WaitersHaveCause, StopIsHeard

(***************************************************************************)
(* No wakeup is lost, without any help of a spurious one: when a worker    *)
(* sleeps, each queued task has a worker about to look for it or a client  *)
(* about to notify one, however submissions, notifications and workers     *)
(* that return interleave; who sleeps inside wait has an unfinished task   *)
(* to wait for; and nobody sleeps through the destructor's notify_all.     *)
(***************************************************************************)
THEOREM NoWakeupIsLost == Spec => []NoLostWakeup
<1>1. PoolInv /\ SleepInv /\ [Next]_vars => SleepInv'
  BY CoverStep, WaitersStep, StopStep DEF SleepInv, NoLostWakeup, StopIsOrdered
<1>2. SleepInv => NoLostWakeup
  BY DEF SleepInv
<1>3. QED
  BY InitAccounts, StepAccounts, InitSleep, <1>1, <1>2, PTL DEF Spec
=============================================================================
