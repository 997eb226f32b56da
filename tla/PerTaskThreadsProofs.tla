------------------------ MODULE PerTaskThreadsProofs ------------------------
(***************************************************************************)
(* Proofs about PerTaskThreads for every number of tasks: no thread is     *)
(* dropped unjoined, and every step is a step of TaskExecutor or none.     *)
(***************************************************************************)
EXTENDS PerTaskThreads, FiniteSetTheorems, TLAPS

(* Threads are started in the order of the task ids. *)
StartedInOrder == \A t \in TaskIds : thread[t] = "none" <=> t >= started

PerTaskInv == NoThreadDropped /\ StartedInOrder

LEMMA InitPerTask == Init => PerTaskInv
<1> SUFFICES ASSUME Init PROVE PerTaskInv
  OBVIOUS
<1>0. workerThreads \in Seq(TaskIds) /\ Len(workerThreads) = 0
  BY DEF Init
<1>1. TypeOK
  <2>1. thread \in [TaskIds -> {"none", "created", "running", "ended", "joined"}]
    BY DEF Init
  <2>2. started \in 0 .. MaxTasks /\ cursor \in 1 .. Len(workerThreads) + 1
    BY <1>0, PerTaskAssumption DEF Init
  <2>3. caller \in {"idle", "joining", "destroyed"} /\ {terminated, destroying} \subseteq BOOLEAN
    BY DEF Init
  <2>4. QED
    BY <1>0, <2>1, <2>2, <2>3 DEF TypeOK
<1>2. StartedInOrder
  BY PerTaskAssumption DEF Init, StartedInOrder, TaskIds
<1>3. NoThreadDropped
  BY <1>1 DEF Init, NoThreadDropped
<1>4. QED
  BY <1>2, <1>3 DEF PerTaskInv

(***************************************************************************)
(* Steps of a task's own thread: it is neither joined nor moved in the     *)
(* vector, so wait still finds it.                                         *)
(***************************************************************************)
LEMMA ThreadStepKeeps ==
    ASSUME PerTaskInv, NEW t \in TaskIds, ThreadStep(t)
    PROVE  PerTaskInv'
<1>1. UNCHANGED <<workerThreads, started, caller, destroying, cursor>>
  BY DEF ThreadStep, Begin, Return, Throw
<1>2. \/ thread' = thread
      \/ /\ thread[t] \in {"created", "running"}
         /\ \E s \in {"running", "ended"} : thread' = [thread EXCEPT ![t] = s]
  BY DEF ThreadStep, Begin, Return, Throw
<1>3. terminated' \in BOOLEAN
  BY DEF ThreadStep, Begin, Return, Throw, PerTaskInv, NoThreadDropped, TypeOK
<1>4. TypeOK'
  BY <1>1, <1>2, <1>3 DEF PerTaskInv, NoThreadDropped, TypeOK
<1>5. started \in 0 .. MaxTasks /\ 0 .. started - 1 \subseteq TaskIds
  BY PerTaskAssumption DEF PerTaskInv, NoThreadDropped, TypeOK, TaskIds
<1>6. \A u \in TaskIds : thread'[u] # "joined" => thread[u] # "joined"
  BY <1>2 DEF PerTaskInv, NoThreadDropped, TypeOK
<1>7. NoThreadDropped'
  BY <1>1, <1>4, <1>5, <1>6 DEF PerTaskInv, NoThreadDropped
<1>8. StartedInOrder'
  BY <1>1, <1>2 DEF PerTaskInv, NoThreadDropped, TypeOK, StartedInOrder
<1>9. QED
  BY <1>7, <1>8 DEF PerTaskInv

(* A new thread goes to the end of the vector, behind wait's position. *)
LEMMA SubmitKeeps == PerTaskInv /\ Submit => PerTaskInv'
<1> SUFFICES ASSUME PerTaskInv, Submit PROVE PerTaskInv'
  OBVIOUS
<1> USE DEF PerTaskInv, NoThreadDropped, TypeOK
<1>1. UNCHANGED <<caller, destroying, cursor, terminated>>
  BY DEF Submit
<1>2. CASE UNCHANGED <<thread, workerThreads, started>>
  BY <1>1, <1>2 DEF StartedInOrder
<1>3. CASE /\ thread' = [thread EXCEPT ![started] = "created"]
           /\ workerThreads' = Append(workerThreads, started)
           /\ started' = started + 1
  <2>1. started \in TaskIds
    BY PerTaskAssumption DEF Submit, TaskIds
  <2>2. /\ workerThreads' \in Seq(TaskIds)
        /\ Len(workerThreads') = Len(workerThreads) + 1
        /\ \A i \in 1 .. Len(workerThreads) : workerThreads'[i] = workerThreads[i]
        /\ workerThreads'[Len(workerThreads) + 1] = started
    BY <1>3, <2>1
  <2>3. TypeOK'
    BY <1>1, <1>3, <2>1, <2>2, PerTaskAssumption DEF Submit
  <2>4. ASSUME NEW t \in 0 .. started, thread'[t] # "joined"
        PROVE  \E i \in cursor .. Len(workerThreads') : workerThreads'[i] = t
    <3>1. CASE t = started
      BY <2>2, <3>1
    <3>2. CASE t # started
      <4>1. t \in 0 .. started - 1 /\ thread[t] # "joined"
        BY <1>3, <2>1, <2>4, <3>2, PerTaskAssumption DEF TaskIds
      <4>2. PICK i \in cursor .. Len(workerThreads) : workerThreads[i] = t
        BY <4>1
      <4>3. QED
        BY <2>2, <4>2
    <3>3. QED
      BY <3>1, <3>2
  <2>5. NoThreadDropped'
    BY <1>1, <1>3, <2>3, <2>4, PerTaskAssumption
  <2>6. StartedInOrder'
    BY <1>3, <2>1, PerTaskAssumption DEF StartedInOrder, TaskIds
  <2>7. QED
    BY <2>5, <2>6
<1>4. QED
  BY <1>2, <1>3 DEF Submit

(* wait looks at the whole vector. *)
LEMMA CallKeeps == PerTaskInv /\ (CallWait \/ Destroy) => PerTaskInv'
<1> SUFFICES ASSUME PerTaskInv, CallWait \/ Destroy PROVE PerTaskInv'
  OBVIOUS
<1>1. /\ UNCHANGED <<thread, workerThreads, started, terminated>>
      /\ cursor' = 1 /\ caller' = "joining" /\ destroying' \in {destroying, TRUE}
  BY DEF CallWait, Destroy
<1>2. cursor \in 1 .. Len(workerThreads) + 1 /\ Len(workerThreads) \in Nat
  BY DEF PerTaskInv, NoThreadDropped, TypeOK
<1>3. TypeOK'
  <2>1. cursor' \in 1 .. Len(workerThreads') + 1
    BY <1>1, <1>2
  <2>2. destroying' \in BOOLEAN
    BY <1>1 DEF PerTaskInv, NoThreadDropped, TypeOK
  <2>3. QED
    BY <1>1, <2>1, <2>2 DEF PerTaskInv, NoThreadDropped, TypeOK
<1>4. ASSUME NEW t \in 0 .. started - 1, thread[t] # "joined"
      PROVE  \E i \in 1 .. Len(workerThreads) : workerThreads[i] = t
  BY <1>2, <1>4 DEF PerTaskInv, NoThreadDropped
<1>5. NoThreadDropped'
  BY <1>1, <1>3, <1>4 DEF NoThreadDropped
<1>6. StartedInOrder'
  BY <1>1 DEF PerTaskInv, StartedInOrder
<1>7. QED
  BY <1>5, <1>6 DEF PerTaskInv

(* The position moves past a thread that has just been joined. *)
LEMMA JoinKeeps == PerTaskInv /\ JoinNext => PerTaskInv'
<1> SUFFICES ASSUME PerTaskInv, JoinNext PROVE PerTaskInv'
  OBVIOUS
<1> USE DEF PerTaskInv, NoThreadDropped, TypeOK
<1> DEFINE joined == workerThreads[cursor]
<1>1. joined \in TaskIds /\ thread[joined] \in {"ended", "joined"}
  BY DEF JoinNext
<1>2. /\ thread' = [thread EXCEPT ![joined] = "joined"]
      /\ cursor' = cursor + 1
      /\ UNCHANGED <<workerThreads, started, caller, destroying, terminated>>
  BY DEF JoinNext, NextThread
<1>3. cursor + 1 \in 1 .. Len(workerThreads) + 1
  BY DEF JoinNext
<1> HIDE DEF joined
<1>4. TypeOK'
  BY <1>1, <1>2, <1>3
<1>5. ASSUME NEW t \in 0 .. started - 1, thread'[t] # "joined"
      PROVE  \E i \in cursor + 1 .. Len(workerThreads) : workerThreads[i] = t
  <2>1. t \in TaskIds
    BY PerTaskAssumption DEF TaskIds
  <2>2. thread[t] # "joined" /\ t # joined
    BY <1>1, <1>2, <1>5, <2>1
  <2>3. PICK i \in cursor .. Len(workerThreads) : workerThreads[i] = t
    BY <2>2
  <2>4. i # cursor
    BY <2>2, <2>3 DEF joined
  <2>5. QED
    BY <2>3, <2>4
<1>6. NoThreadDropped'
  BY <1>2, <1>4, <1>5
<1>7. StartedInOrder'
  BY <1>1, <1>2 DEF StartedInOrder
<1>8. QED
  BY <1>6, <1>7

(* At the end of the vector no unjoined thread is left: it can be cleared. *)
LEMMA AllJoinedAtEnd ==
    ASSUME PerTaskInv, AllJoined
    PROVE  \A t \in 0 .. started - 1 : thread[t] = "joined"
BY DEF PerTaskInv, NoThreadDropped, TypeOK, AllJoined

LEMMA ReturnKeeps == PerTaskInv /\ WaitReturns => PerTaskInv'
<1> SUFFICES ASSUME PerTaskInv, WaitReturns PROVE PerTaskInv'
  OBVIOUS
<1> USE DEF PerTaskInv, NoThreadDropped, TypeOK
<1>1. \A t \in 0 .. started - 1 : thread[t] = "joined"
  BY AllJoinedAtEnd DEF WaitReturns
<1>2. TypeOK'
  BY DEF WaitReturns
<1>3. NoThreadDropped'
  BY <1>1, <1>2 DEF WaitReturns
<1>4. StartedInOrder'
  BY DEF StartedInOrder, WaitReturns
<1>5. QED
  BY <1>3, <1>4

LEMMA StepPerTask == PerTaskInv /\ [Next]_vars => PerTaskInv'
<1> SUFFICES ASSUME PerTaskInv, [Next]_vars PROVE PerTaskInv'
  OBVIOUS
<1>1. CASE UNCHANGED vars
  BY <1>1 DEF PerTaskInv, NoThreadDropped, TypeOK, StartedInOrder, vars
<1>2. QED
  BY <1>1, ThreadStepKeeps, SubmitKeeps, CallKeeps, JoinKeeps, ReturnKeeps
     DEF Next, Over, CallerStep, Call

(***************************************************************************)
(* thread_pool.h without a limit never clears or destroys a vector that    *)
(* holds a joinable thread: what has not been joined is ahead of wait.     *)
(***************************************************************************)
THEOREM ThreadsKept == Spec => []NoThreadDropped
<1>1. PerTaskInv => NoThreadDropped
  BY DEF PerTaskInv
<1>2. QED
  BY InitPerTask, StepPerTask, <1>1, PTL DEF Spec
-----------------------------------------------------------------------------
(* What the executor knows of. *)
InsideWait == IF caller = "joining" THEN {Caller} ELSE {}

(* The instance of TaskExecutor counts with its own copy of Cardinality. *)
LEMMA SameCardinality == \A S : Executor!Cardinality(S) = Cardinality(S)
BY Zenon DEF Executor!Cardinality, Cardinality

(* A thread that has not begun leaves room: there are no more tasks than MaxTasks. *)
LEMMA RoomForOneMore ==
    ASSUME NEW t \in TaskIds, t \notin Begun
    PROVE  Cardinality(Begun \ Ended) < MaxTasks
<1>1. IsFiniteSet(TaskIds) /\ Cardinality(TaskIds) = MaxTasks
  BY FS_Interval, PerTaskAssumption DEF TaskIds
<1>2. IsFiniteSet(TaskIds \ {t}) /\ Cardinality(TaskIds \ {t}) = MaxTasks - 1
  BY <1>1, FS_RemoveElement
<1>3. Begun \ Ended \subseteq TaskIds \ {t}
  BY DEF Begun
<1>4. /\ IsFiniteSet(Begun \ Ended)
      /\ Cardinality(Begun \ Ended) <= Cardinality(TaskIds \ {t})
  BY <1>2, <1>3, FS_Subset
<1>5. Cardinality(Begun \ Ended) \in Nat
  BY <1>4, FS_CardinalityType
<1>6. QED
  BY <1>2, <1>4, <1>5, PerTaskAssumption

LEMMA InitRefines == Init => Executor!Init
BY DEF Init, Executor!Init, Begun, Ended, TaskIds

LEMMA ThreadStepRefines ==
    ASSUME PerTaskInv, NEW t \in TaskIds, ThreadStep(t)
    PROVE  Executor!Next \/ UNCHANGED Executor!execVars
<1>0. /\ TypeOK /\ t \in 0 .. MaxTasks - 1
      /\ thread[t] # "none" => t \in 0 .. started - 1
  BY PerTaskAssumption DEF PerTaskInv, NoThreadDropped, StartedInOrder, TypeOK, TaskIds
<1>1. CASE Begin(t)
  <2>1. UNCHANGED <<started, Ended, InsideWait>> /\ Begun' = Begun \cup {t} /\ t \notin Begun
    BY <1>0, <1>1 DEF Begin, TypeOK, Begun, Ended, InsideWait
  <2>2. Executor!Start(t)
    BY <1>0, <1>1, <2>1, RoomForOneMore, SameCardinality DEF Begin, Executor!Start, InsideWait
  <2>3. QED
    BY <1>0, <2>2 DEF Executor!Next
<1>2. CASE Return(t)
  <2>1. UNCHANGED <<started, Begun, InsideWait>> /\ Ended' = Ended \cup {t}
    BY <1>0, <1>2 DEF Return, TypeOK, Begun, Ended, InsideWait
  <2>2. t \in Begun /\ t \notin Ended
    BY <1>2 DEF Return, Begun, Ended
  <2>3. Executor!Finish(t)
    BY <2>1, <2>2 DEF Executor!Finish, InsideWait
  <2>4. QED
    BY <1>0, <2>3 DEF Executor!Next
<1>3. CASE Throw(t)
  BY <1>3 DEF Throw, Executor!execVars, Begun, Ended
<1>4. QED
  BY <1>1, <1>2, <1>3 DEF ThreadStep

LEMMA CallerStepRefines ==
    ASSUME PerTaskInv, CallerStep \/ Call
    PROVE  Executor!Next \/ UNCHANGED Executor!execVars
<1>0. TypeOK
  BY DEF PerTaskInv, NoThreadDropped
<1>1. CASE Submit
  <2>1. CASE UNCHANGED <<thread, started>>
    BY <1>1, <2>1 DEF Submit, Executor!execVars, Begun, Ended
  <2>2. CASE thread' = [thread EXCEPT ![started] = "created"] /\ started' = started + 1
    <3>1. started \in TaskIds /\ thread[started] = "none"
      BY <1>0, <1>1, PerTaskAssumption DEF Submit, TypeOK, TaskIds, PerTaskInv, StartedInOrder
    <3>2. Begun' = Begun /\ Ended' = Ended /\ InsideWait' = InsideWait
      BY <1>0, <1>1, <2>2, <3>1 DEF Submit, TypeOK, Begun, Ended, InsideWait
    <3>3. Executor!Submit
      BY <1>1, <2>2, <3>2 DEF Submit, Executor!Submit, InsideWait
    <3>4. QED
      BY <3>3 DEF Executor!Next
  <2>3. QED
    BY <1>1, <2>1, <2>2 DEF Submit
<1>2. CASE CallWait \/ Destroy
  <2>1. UNCHANGED <<thread, started, Begun, Ended>>
    BY <1>2 DEF CallWait, Destroy, Begun, Ended
  <2>2. InsideWait = {} /\ InsideWait' = {Caller}
    BY <1>2 DEF CallWait, Destroy, InsideWait
  <2>3. Executor!CallWait(Caller)
    BY <2>1, <2>2 DEF Executor!CallWait, InsideWait
  <2>4. QED
    BY <2>3 DEF Executor!Next
<1>3. CASE JoinNext
  <2>1. /\ workerThreads[cursor] \in TaskIds
        /\ thread[workerThreads[cursor]] \in {"ended", "joined"}
        /\ thread' = [thread EXCEPT ![workerThreads[cursor]] = "joined"]
        /\ UNCHANGED <<started, caller>>
    BY <1>0, <1>3 DEF JoinNext, TypeOK
  <2>2. Begun' = Begun /\ Ended' = Ended
    BY <1>0, <2>1 DEF TypeOK, Begun, Ended
  <2>3. QED
    BY <2>1, <2>2 DEF Executor!execVars
<1>4. CASE WaitReturns
  <2>1. UNCHANGED <<thread, started, Begun, Ended>>
    BY <1>4 DEF WaitReturns, Begun, Ended
  <2>2. InsideWait = {Caller} /\ InsideWait' = {}
    BY <1>4 DEF WaitReturns, InsideWait
  <2>3. Ended = 0 .. started - 1
    <3>1. \A t \in 0 .. started - 1 : t \in TaskIds /\ thread[t] = "joined"
      BY <1>0, <1>4, AllJoinedAtEnd, PerTaskAssumption DEF WaitReturns, TypeOK, TaskIds
    <3>2. \A t \in TaskIds : thread[t] # "none" => t \in 0 .. started - 1
      BY <1>0, PerTaskAssumption DEF PerTaskInv, StartedInOrder, TypeOK, TaskIds
    <3>3. QED
      BY <3>1, <3>2 DEF Ended
  <2>4. Executor!ReturnFromWait(Caller)
    BY <2>1, <2>2, <2>3 DEF Executor!ReturnFromWait, Executor!AllFinished, InsideWait
  <2>5. QED
    BY <2>4 DEF Executor!Next
<1>5. QED
  BY <1>1, <1>2, <1>3, <1>4 DEF CallerStep, Call

LEMMA StepRefines ==
    PerTaskInv /\ [Next]_vars => [Executor!Next]_(Executor!execVars)
<1> SUFFICES ASSUME PerTaskInv, [Next]_vars
             PROVE  Executor!Next \/ UNCHANGED Executor!execVars
  OBVIOUS
<1>1. CASE UNCHANGED vars
  BY <1>1 DEF vars, Executor!execVars, Begun, Ended
<1>2. QED
  BY <1>1, ThreadStepRefines, CallerStepRefines DEF Next, Over

(***************************************************************************)
(* thread_pool.h without a limit keeps the promises of TaskExecutor too:   *)
(* each task starts once, and wait returns when all of them have finished. *)
(* (The progress that ImplementsExecutor adds is left to TLC.)             *)
(***************************************************************************)
THEOREM PerTaskRefinesExecutor == Spec => Executor!Spec
BY InitPerTask, StepPerTask, InitRefines, StepRefines, PTL DEF Spec, Executor!Spec
=============================================================================
