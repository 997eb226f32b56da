---------------------- MODULE ConcurrentMetricsProofs ----------------------
(***************************************************************************)
(* Proofs about ConcurrentMetrics for every number of workers, every batch *)
(* size and every bound on the events.                                     *)
(***************************************************************************)
EXTENDS ConcurrentMetrics, TLAPS

(* The workers are started in order. *)
StartedInOrder == \A w \in Workers : w >= spawned => worker[w] = "none"

(* A worker that is to create an event has room for it in its batch. *)
RoomInBatch ==
    \A w \in Workers :
        /\ worker[w] \in {"none", "testing", "creating"} => unreportedEvents[w] < EventBatchSize
        /\ worker[w] = "creating" => created[w] < MaxEvents

AccountsInv == TypeOK /\ EventsAccounted /\ StartedInOrder /\ RoomInBatch

LEMMA InitAccounts == Init => AccountsInv
<1> SUFFICES ASSUME Init PROVE AccountsInv
  OBVIOUS
<1>1. 0 \in 0 .. WorkersCount /\ 0 \in 0 .. EventBatchSize /\ 0 \in 0 .. MaxEvents
  BY MetricsAssumption
<1>2. TypeOK
  BY <1>1 DEF Init, TypeOK
<1>3. QED
  BY <1>2, MetricsAssumption
     DEF Init, AccountsInv, EventsAccounted, StartedInOrder, RoomInBatch

(* The steps of run, of the reporter and of main change no count but the report. *)
LEMMA OthersKeepAccounts ==
    ASSUME AccountsInv, RunnerStep \/ ReporterStep \/ RaiseStop
    PROVE  AccountsInv'
<1> USE DEF AccountsInv
<1>1. CASE StartWorker
  <2>1. spawned \in Workers /\ spawned' \in 0 .. WorkersCount /\ spawned' = spawned + 1
    BY <1>1, MetricsAssumption DEF StartWorker, TypeOK, Workers
  <2>2. TypeOK'
    BY <1>1, <2>1 DEF StartWorker, TypeOK, flags
  <2>3. EventsAccounted'
    BY <1>1 DEF StartWorker, EventsAccounted
  <2>4. worker[spawned] = "none"
    BY <2>1 DEF StartedInOrder, Workers
  <2>5. StartedInOrder'
    BY <1>1, <2>1 DEF StartWorker, StartedInOrder, TypeOK, Workers
  <2>6. RoomInBatch'
    BY <1>1, <2>1, <2>4 DEF StartWorker, RoomInBatch, TypeOK
  <2>7. QED
    BY <2>2, <2>3, <2>5, <2>6
<1>2. CASE StartWorkerFails \/ AllWorkersStarted \/ StartReporter \/ Finish
  BY <1>2 DEF StartWorkerFails, AllWorkersStarted, StartReporter, Finish, Fail, TypeOK,
              EventsAccounted, StartedInOrder, RoomInBatch, flags
<1>3. CASE ReporterStep \/ RaiseStop
  BY <1>3 DEF ReporterStep, TestReporterLoop, LoopEnds, AfterLoop, Report, ReporterThrows, Fail,
         RaiseStop, TypeOK, EventsAccounted, StartedInOrder, RoomInBatch, flags, runnerVars
<1>4. QED
  BY <1>1, <1>2, <1>3 DEF RunnerStep

(* A worker moves its events from nowhere to its batch and on to the shared data. *)
LEMMA WorkersKeepAccounts ==
    ASSUME AccountsInv, NEW w \in Workers, WorkerStep(w)
    PROVE  AccountsInv'
<1> USE DEF AccountsInv
<1>1. StartedInOrder'
  <2>1. worker[w] # "none" /\ spawned' = spawned
    BY DEF WorkerStep, TestLoop, CreateEvent, BatchIsFull, WorkerThrows, Flush, Cleared,
           Enveloped, runnerVars
  <2>2. \A v \in Workers : v # w => worker'[v] = worker[v]
    BY DEF WorkerStep, TestLoop, CreateEvent, BatchIsFull, WorkerThrows, Flush, Cleared,
           Enveloped, TypeOK
  <2>3. QED
    BY <2>1, <2>2 DEF StartedInOrder
<1>2. CASE TestLoop(w)
  BY <1>1, <1>2 DEF TestLoop, TypeOK, EventsAccounted, RoomInBatch, flags, runnerVars
<1>3. CASE WorkerThrows(w)
  BY <1>1, <1>3 DEF WorkerThrows, Fail, TypeOK, EventsAccounted, RoomInBatch, runnerVars
<1>4. CASE CreateEvent(w)
  <2>1. created[w] + 1 \in 0 .. MaxEvents /\ unreportedEvents[w] + 1 \in 0 .. EventBatchSize
    BY <1>4, MetricsAssumption DEF CreateEvent, BatchIsFull, TypeOK, RoomInBatch
  <2>2. /\ created'[w] = created[w] + 1
        /\ unreportedEvents'[w] = unreportedEvents[w] + 1
        /\ worker'[w] = IF unreportedEvents[w] + 1 >= EventBatchSize THEN "flushing" ELSE "testing"
        /\ \A v \in Workers : v # w =>
              /\ created'[v] = created[v] /\ unreportedEvents'[v] = unreportedEvents[v]
              /\ worker'[v] = worker[v]
        /\ UNCHANGED sharedData
    BY <1>4 DEF CreateEvent, BatchIsFull, TypeOK
  <2>3. TypeOK'
    BY <1>4, <2>1, <2>2 DEF CreateEvent, BatchIsFull, TypeOK, flags, runnerVars
  <2>4. EventsAccounted'
    BY <2>2 DEF TypeOK, EventsAccounted
  <2>5. RoomInBatch'
    BY <2>1, <2>2, MetricsAssumption DEF TypeOK, RoomInBatch
  <2>6. QED
    BY <1>1, <2>3, <2>4, <2>5
<1>5. CASE Flush(w)
  <2>1. sharedData[w] + unreportedEvents[w] = created[w]
    BY DEF EventsAccounted
  <2>2. /\ sharedData'[w] = created[w]
        /\ unreportedEvents'[w] = 0
        /\ \A v \in Workers : v # w =>
              /\ sharedData'[v] = sharedData[v] /\ unreportedEvents'[v] = unreportedEvents[v]
              /\ worker'[v] = worker[v]
        /\ UNCHANGED created
    BY <1>5, <2>1 DEF Flush, Cleared, Enveloped, TypeOK
  <2>3. TypeOK'
    BY <1>5, <2>1, MetricsAssumption DEF Flush, Cleared, Enveloped, TypeOK, flags, runnerVars
  <2>4. EventsAccounted'
    BY <2>2 DEF TypeOK, EventsAccounted
  <2>5. RoomInBatch'
    BY <1>5, <2>2, MetricsAssumption DEF Flush, Cleared, Enveloped, TypeOK, RoomInBatch
  <2>6. QED
    BY <1>1, <2>3, <2>4, <2>5
<1>6. QED
  BY <1>2, <1>3, <1>4, <1>5 DEF WorkerStep

LEMMA StepAccounts == AccountsInv /\ [Next]_vars => AccountsInv'
<1> SUFFICES ASSUME AccountsInv, [Next]_vars PROVE AccountsInv'
  OBVIOUS
<1>1. CASE UNCHANGED vars
  BY <1>1 DEF AccountsInv, TypeOK, EventsAccounted, StartedInOrder, RoomInBatch, vars, flags,
              runnerVars
<1>2. QED
  BY <1>1, OthersKeepAccounts, WorkersKeepAccounts DEF Next, Over

(* Every reachable state of the test is well typed: no batch outgrows its reserve. *)
THEOREM TypeCorrect == Spec => []TypeOK
<1>1. AccountsInv => TypeOK
  BY DEF AccountsInv
<1>2. QED
  BY InitAccounts, StepAccounts, <1>1, PTL DEF Spec

(* Every event created is in a batch or in the shared data, once. *)
THEOREM AccountsCorrect == Spec => []EventsAccounted
<1>1. AccountsInv => EventsAccounted
  BY DEF AccountsInv
<1>2. QED
  BY InitAccounts, StepAccounts, <1>1, PTL DEF Spec
-----------------------------------------------------------------------------
(***************************************************************************)
(* Once the reporter has left its loop a stop is up, so a worker that has  *)
(* left the test of its own loop creates one event at most, in the room of *)
(* its batch.                                                              *)
(***************************************************************************)
ReportInv ==
    /\ reporter \in {"lastReport", "ended"} => Stopped
    /\ reporter = "ended" =>
          \A w \in Workers :
              /\ created[w] - reported[w] <= EventBatchSize
              /\ worker[w] = "creating" => created[w] - reported[w] < EventBatchSize

LEMMA InitReport == Init => ReportInv
BY DEF Init, ReportInv

LEMMA StepReport == AccountsInv /\ ReportInv /\ [Next]_vars => ReportInv'
<1> SUFFICES ASSUME AccountsInv, ReportInv, [Next]_vars PROVE ReportInv'
  OBVIOUS
<1> USE MetricsAssumption DEF AccountsInv
<1>1. CASE RunnerStep
  <2>1. CASE StartWorker
    <3>1. \A w \in Workers : worker'[w] = worker[w] \/ worker'[w] = "testing"
      BY <2>1 DEF StartWorker, TypeOK
    <3>2. QED
      BY <2>1, <3>1 DEF StartWorker, ReportInv, Stopped, flags
  <2>2. CASE StartWorkerFails \/ AllWorkersStarted \/ StartReporter \/ Finish
    BY <2>2 DEF StartWorkerFails, AllWorkersStarted, StartReporter, Finish, Fail, ReportInv,
                Stopped, flags
  <2>3. QED
    BY <1>1, <2>1, <2>2 DEF RunnerStep
<1>2. ASSUME NEW w \in Workers, WorkerStep(w)
      PROVE  ReportInv'
  <2>1. Stopped => Stopped'
    BY <1>2 DEF WorkerStep, TestLoop, CreateEvent, BatchIsFull, WorkerThrows, Flush, Cleared,
           Enveloped, Fail, Stopped, flags
  <2>2. UNCHANGED <<reporter, reported>>
    BY <1>2 DEF WorkerStep, TestLoop, CreateEvent, BatchIsFull, WorkerThrows, Flush, Cleared,
           Enveloped
  <2>3. \A v \in Workers : v # w => worker'[v] = worker[v] /\ created'[v] = created[v]
    BY <1>2 DEF WorkerStep, TestLoop, CreateEvent, BatchIsFull, WorkerThrows, Flush, Cleared,
           Enveloped, TypeOK
  <2>4. \/ created'[w] = created[w] /\ (Stopped => worker'[w] # "creating")
        \/ worker[w] = "creating" /\ worker'[w] # "creating" /\ created'[w] = created[w] + 1
    BY <1>2 DEF WorkerStep, TestLoop, CreateEvent, BatchIsFull, WorkerThrows, Flush, Cleared,
           Enveloped, TypeOK
  <2>5. created[w] \in Nat /\ reported[w] \in Nat
    BY DEF TypeOK
  <2>6. QED
    BY <2>1, <2>2, <2>3, <2>4, <2>5 DEF ReportInv
<1>3. CASE Report
  <2>1. \A w \in Workers : created[w] - sharedData[w] = unreportedEvents[w]
    BY DEF EventsAccounted, TypeOK
  <2>2. \A w \in Workers : unreportedEvents[w] <= EventBatchSize
    BY DEF TypeOK
  <2>3. QED
    BY <1>3, <2>1, <2>2 DEF Report, ReportInv, RoomInBatch, Stopped, flags
<1>4. CASE TestReporterLoop \/ ReporterThrows
  BY <1>4 DEF TestReporterLoop, LoopEnds, AfterLoop, ReporterThrows, Fail, ReportInv, Stopped, flags
<1>5. CASE RaiseStop \/ UNCHANGED vars
  BY <1>5 DEF RaiseStop, ReportInv, Stopped, vars, flags
<1>6. QED
  BY <1>1, <1>2, <1>3, <1>4, <1>5 DEF Next, ReporterStep, Over

(* What the last report misses of a worker is no more than one batch. *)
THEOREM LastReportCorrect == Spec => []LastReportMissesOneBatch
<1>1. ReportInv => LastReportMissesOneBatch
  BY DEF ReportInv, LastReportMissesOneBatch
<1>2. QED
  BY InitAccounts, StepAccounts, InitReport, StepReport, <1>1, PTL DEF Spec
-----------------------------------------------------------------------------
(***************************************************************************)
(* What the thread in run knows of the others: how far it has come tells   *)
(* who was started, unless somebody failed; a worker that has ended has    *)
(* nothing left in its batch.                                              *)
(***************************************************************************)
RunInv ==
    /\ failed <=> internalStop
    /\ runner = "returned" => ~internalStop
    /\ runner = "threw" => internalStop
    /\ reporter = "threw" => internalStop
    /\ runner \in {"startingWorkers", "startingReporter"} => reporter = "none"
    /\ ~failed /\ runner # "startingWorkers" => spawned = WorkersCount
    /\ ~failed /\ runner \in {"joining", "returned", "threw"} => reporter # "none"
    /\ \A w \in Workers : w < spawned => worker[w] # "none"
    /\ \A w \in Workers : worker[w] = "ended" => unreportedEvents[w] = 0
    /\ Done => /\ \A w \in Workers : worker[w] \in {"none", "ended"}
               /\ reporter \in {"none", "ended", "threw"}

LEMMA InitRun == Init => RunInv
BY MetricsAssumption DEF Init, RunInv, Workers, Done

LEMMA StepRun == AccountsInv /\ RunInv /\ [Next]_vars => RunInv'
<1> SUFFICES ASSUME AccountsInv, RunInv, [Next]_vars PROVE RunInv'
  OBVIOUS
<1> USE MetricsAssumption DEF AccountsInv
<1>1. CASE StartWorker
  <2>1. /\ spawned \in Workers /\ spawned' = spawned + 1
        /\ worker'[spawned] = "testing"
        /\ \A w \in Workers : w # spawned => worker'[w] = worker[w]
    BY <1>1 DEF StartWorker, TypeOK, Workers
  <2>2. \A w \in Workers : w < spawned' => w < spawned \/ w = spawned
    BY <2>1 DEF Workers
  <2>3. QED
    BY <1>1, <2>1, <2>2 DEF StartWorker, RunInv, Done, flags
<1>2. CASE StartWorkerFails \/ AllWorkersStarted \/ StartReporter \/ Finish
  BY <1>2 DEF StartWorkerFails, AllWorkersStarted, StartReporter, Finish, Fail, RunInv, Done,
              TypeOK, flags
<1>3. ASSUME NEW w \in Workers, WorkerStep(w)
      PROVE  RunInv'
  <2>1. ~Done
    BY <1>3 DEF WorkerStep, TestLoop, CreateEvent, BatchIsFull, WorkerThrows, Flush, Cleared,
           Enveloped, RunInv
  <2>2. /\ UNCHANGED <<runner, spawned, reporter>>
        /\ failed' <=> internalStop'
        /\ failed => failed'
    BY <1>3 DEF WorkerStep, TestLoop, CreateEvent, BatchIsFull, WorkerThrows, Flush, Cleared,
           Enveloped, Fail, RunInv, flags, runnerVars
  <2>3. \A v \in Workers : v # w =>
           worker'[v] = worker[v] /\ unreportedEvents'[v] = unreportedEvents[v]
    BY <1>3 DEF WorkerStep, TestLoop, CreateEvent, BatchIsFull, WorkerThrows, Flush, Cleared,
           Enveloped, TypeOK
  <2>4. worker'[w] # "none"
    BY <1>3 DEF WorkerStep, TestLoop, CreateEvent, BatchIsFull, WorkerThrows, Flush, Cleared,
           Enveloped, TypeOK
  <2>5. worker'[w] = "ended" => unreportedEvents'[w] = 0
    <3>1. CASE WorkerThrows(w)
      <4>1. /\ created[w] = 0 /\ UNCHANGED unreportedEvents
            /\ sharedData[w] \in Nat /\ unreportedEvents[w] \in Nat
        BY <3>1 DEF WorkerThrows, TypeOK
      <4>2. QED
        BY <4>1 DEF EventsAccounted
    <3>2. CASE TestLoop(w) \/ CreateEvent(w) \/ Flush(w)
      BY <3>2 DEF TestLoop, CreateEvent, BatchIsFull, Flush, Cleared, Enveloped, TypeOK
    <3>3. QED
      BY <1>3, <3>1, <3>2 DEF WorkerStep
  <2>6. QED
    BY <2>1, <2>2, <2>3, <2>4, <2>5 DEF RunInv, Done
<1>4. CASE ReporterStep \/ RaiseStop \/ UNCHANGED vars
  BY <1>4 DEF ReporterStep, TestReporterLoop, LoopEnds, AfterLoop, Report, ReporterThrows, Fail,
         RaiseStop, RunInv, Done, TypeOK, vars, flags, runnerVars
<1>5. QED
  BY <1>1, <1>2, <1>3, <1>4 DEF Next, RunnerStep, Over

(* run throws exactly if somebody failed; otherwise nothing is left out, and nobody is left. *)
THEOREM RunCorrect == Spec => []RunTellsTheTruth
<1>1. AccountsInv /\ RunInv => RunTellsTheTruth
  <2> SUFFICES ASSUME AccountsInv, RunInv, Done PROVE RunTellsTheTruth
    BY DEF RunTellsTheTruth
  <2>1. ASSUME ~failed PROVE sharedData = created
    <3>1. \A w \in Workers : worker[w] = "ended"
      <4>1. spawned = WorkersCount
        BY <2>1 DEF RunInv, Done
      <4>2. \A w \in Workers : w < spawned
        BY <4>1, MetricsAssumption DEF Workers
      <4>3. QED
        BY <4>2 DEF RunInv, Done
    <3>2. \A w \in Workers : sharedData[w] = created[w]
      BY <3>1 DEF RunInv, AccountsInv, EventsAccounted, TypeOK
    <3>3. QED
      BY <3>2 DEF AccountsInv, TypeOK
  <2>2. runner = "threw" <=> failed
    BY DEF RunInv, Done
  <2>3. ~failed => spawned = WorkersCount /\ reporter # "none" /\ reporter # "threw"
    BY DEF RunInv, Done
  <2>4. QED
    BY <2>1, <2>2, <2>3 DEF RunInv, RunTellsTheTruth, Done
<1>2. QED
  BY InitAccounts, StepAccounts, InitRun, StepRun, <1>1, PTL DEF Spec
=============================================================================
