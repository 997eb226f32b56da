--------------------------- MODULE PerTaskThreads ---------------------------
(***************************************************************************)
(* ThreadPool of thread_pool.h without a thread limit (maxThreads_ has no  *)
(* value): submit starts a thread for the task, wait joins the threads in  *)
(* the order of submission and forgets them.  Nothing here is locked, so   *)
(* there is one caller, as in main.cpp.  The function of the thread is the *)
(* task itself: an exception that leaves it ends the process, where the    *)
(* pool with a limit would keep it for wait.                               *)
(***************************************************************************)
EXTENDS Integers, Sequences, FiniteSets

CONSTANTS
    Caller,         \* the thread that uses the object
    MaxTasks,       \* bound on the number of threads ever started
    MayThrow,       \* TRUE iff a task may throw
    SpawnMayFail    \* TRUE iff starting a std::thread may throw

ASSUME PerTaskAssumption ==
    MaxTasks \in Nat /\ MayThrow \in BOOLEAN /\ SpawnMayFail \in BOOLEAN

VARIABLES
    thread,         \* per task, where its thread is
    workerThreads,  \* workerThreads_: ids of the tasks whose thread is kept
    started,        \* number of threads started so far
    caller,         \* where the caller is
    terminated,     \* the process is over
    destroying,     \* wait was called by ~ThreadPool
    cursor          \* the element of workerThreads that wait looks at

vars == <<thread, workerThreads, started, caller, terminated, destroying, cursor>>

TaskIds == 0 .. MaxTasks - 1
Ended == {t \in TaskIds : thread[t] \in {"ended", "joined"}}
Begun == {t \in TaskIds : thread[t] \in {"running", "ended", "joined"}}

TypeOK ==
    /\ thread \in [TaskIds -> {"none", "created", "running", "ended", "joined"}]
    /\ workerThreads \in Seq(TaskIds)
    /\ started \in 0 .. MaxTasks
    /\ caller \in {"idle", "joining", "destroyed"}
    /\ terminated \in BOOLEAN
    /\ destroying \in BOOLEAN
    /\ cursor \in 1 .. Len(workerThreads) + 1

Init ==
    /\ thread = [t \in TaskIds |-> "none"]
    /\ workerThreads = <<>>
    /\ started = 0
    /\ caller = "idle"
    /\ terminated = FALSE
    /\ destroying = FALSE
    /\ cursor = 1
-----------------------------------------------------------------------------
(* emplace_back: when the thread cannot be started the vector is as it was. *)
Submit ==
    /\ caller = "idle"
    /\ started < MaxTasks
    /\ \/ /\ thread' = [thread EXCEPT ![started] = "created"]
          /\ workerThreads' = Append(workerThreads, started)
          /\ started' = started + 1
       \/ SpawnMayFail /\ UNCHANGED <<thread, workerThreads, started, terminated>>
    /\ UNCHANGED <<caller, destroying, cursor, terminated>>

Begin(t) ==
    /\ thread[t] = "created"
    /\ thread' = [thread EXCEPT ![t] = "running"]
    /\ UNCHANGED <<workerThreads, started, caller, destroying, cursor, terminated>>

Return(t) ==
    /\ thread[t] = "running"
    /\ thread' = [thread EXCEPT ![t] = "ended"]
    /\ UNCHANGED <<workerThreads, started, caller, destroying, cursor, terminated>>

(* No handler on the thread: std::terminate. *)
Throw(t) ==
    /\ MayThrow
    /\ thread[t] = "running"
    /\ terminated' = TRUE
    /\ UNCHANGED <<thread, workerThreads, started, caller, destroying, cursor>>
-----------------------------------------------------------------------------
CallWait ==
    /\ caller = "idle"
    /\ caller' = "joining"
    /\ cursor' = 1
    /\ UNCHANGED <<thread, workerThreads, started, destroying, terminated>>

Destroy ==
    /\ caller = "idle"
    /\ caller' = "joining"
    /\ destroying' = TRUE
    /\ cursor' = 1
    /\ UNCHANGED <<thread, workerThreads, started, terminated>>

(* Faulty variant: the position is not advanced. *)
SameThread == cursor

NextThread == cursor + 1

(* Join the thread once it has ended; one that is not joinable is passed over. *)
JoinNext ==
    /\ caller = "joining"
    /\ cursor <= Len(workerThreads)
    /\ thread[workerThreads[cursor]] \in {"ended", "joined"}
    /\ thread' = [thread EXCEPT ![workerThreads[cursor]] = "joined"]
    /\ cursor' = NextThread
    /\ UNCHANGED <<workerThreads, started, caller, destroying, terminated>>

(* Faulty variant: the loop ends one too early. *)
AllButOneJoined == cursor >= Len(workerThreads)

AllJoined == cursor > Len(workerThreads)

(* All are joined: workerThreads_.clear(), and wait returns. *)
WaitReturns ==
    /\ caller = "joining"
    /\ AllJoined
    /\ workerThreads' = <<>>
    /\ cursor' = 1
    /\ caller' = IF destroying THEN "destroyed" ELSE "idle"
    /\ UNCHANGED <<thread, started, destroying, terminated>>
-----------------------------------------------------------------------------
ThreadStep(t) == ~terminated /\ (Begin(t) \/ Return(t) \/ Throw(t))
CallerStep == ~terminated /\ (JoinNext \/ WaitReturns)
Call == ~terminated /\ (Submit \/ CallWait \/ Destroy)
Over == (terminated \/ caller = "destroyed") /\ UNCHANGED vars

Next == (\E t \in TaskIds : ThreadStep(t)) \/ CallerStep \/ Call \/ Over

Spec == Init /\ [][Next]_vars

(* Threads get to run, tasks return, and a wait that was called goes on. *)
FairSpec == Spec /\ (\A t \in TaskIds : WF_vars(ThreadStep(t))) /\ WF_vars(CallerStep)
-----------------------------------------------------------------------------
(***************************************************************************)
(* The state is well typed: wait's position is one of the vector's.  And   *)
(* every thread that was started and not joined is still in the vector,    *)
(* where wait is going to find it: no std::thread is destroyed while it is *)
(* joinable, and none is left to outlive the object.                       *)
(***************************************************************************)
NoThreadDropped ==
    /\ TypeOK
    /\ \A t \in 0 .. started - 1 : thread[t] # "joined" =>
          \E i \in cursor .. Len(workerThreads) : workerThreads[i] = t

(* The object as a TaskExecutor: as many tasks at a time as there are tasks. *)
Executor == INSTANCE TaskExecutor WITH
    Clients <- {Caller},
    Parallel <- MaxTasks,
    submitted <- started,
    started <- Begun,
    finished <- Ended,
    waiting <- IF caller = "joining" THEN {Caller} ELSE {}

(***************************************************************************)
(* Without a limit the class keeps the promises it keeps with one: wait    *)
(* returns only when everything submitted has finished, and every task is  *)
(* executed and every wait returns in the end, as long as no task throws.  *)
(***************************************************************************)
ImplementsExecutor == Executor!Spec /\ ([]~terminated => Executor!Fairness)
=============================================================================
