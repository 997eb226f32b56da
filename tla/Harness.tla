------------------------------ MODULE Harness ------------------------------
(***************************************************************************)
(* main of main.cpp with TestBase of test_base.h: main creates and         *)
(* configures the tests, submits one task per test to the pool, waits for  *)
(* the deadline or for all tests to finish, raises stop, waits for the     *)
(* pool and takes everything down.                                         *)
(*                                                                         *)
(* The pool is the abstract TaskExecutor, which both modes of ThreadPool   *)
(* implement; the loggers are LoggerPools.  A test is known by the number  *)
(* of its task.  An exception in main unwinds the stack: ~ThreadPool waits *)
(* for the tasks, then the counter and stop go, then the tests, then the   *)
(* loggers.  Two failures end the process instead: a pool that can start   *)
(* some of its workers only, and a test that is destroyed with threads it  *)
(* could not join.                                                         *)
(***************************************************************************)
EXTENDS Integers, FiniteSets

CONSTANTS
    NumTests,       \* how many tests are not ignored
    Detached,       \* tests whose run leaves a thread behind (ride_state_manager.h)
    Forking,        \* tests whose run joins two threads of its own (level.h)
    Queueing,       \* tests that join only if all threads started (producer_consumer_queue.h)
    Early,          \* tests that return at once without stress (sink_callback.h)
    Parallel,       \* how many tests the pool runs at a time
    QueueSize,      \* --queuesize
    TestMayThrow,   \* TRUE iff run may throw
    SetupMayFail,   \* TRUE iff what comes before the first submit may throw
    SubmitMayFail   \* TRUE iff submit may throw

Tests == 0 .. NumTests - 1
Main == "main"
MainPool == NumTests
InnerThreads == {"writeThread", "readThread"}

ASSUME HarnessAssumption ==
    /\ NumTests \in Nat
    /\ Detached \cup Forking \cup Queueing \cup Early \subseteq Tests
    /\ Detached \cap Forking = {} /\ (Detached \cup Forking) \cap (Queueing \cup Early) = {}
    /\ Queueing \cap Early = {}
    /\ Parallel \in Nat \ {0} /\ QueueSize \in Nat \ {0}
    /\ {TestMayThrow, SetupMayFail, SubmitMayFail} \subseteq BOOLEAN

VARIABLES
    submitted, started, finished, waiting,  \* the pool
    shared, stress, pools, lastWord,        \* the settings and the loggers
    main,               \* where main is
    configured,         \* how many tests are configured
    stop,
    activeTestsCount,
    body,               \* per test, where its task is
    inner,              \* per test, the threads its run has to join
    lingering,          \* tests with a thread that runs on after run
    stranded,           \* tests whose run threw with threads left to join
    destroyed,          \* tests that have been destroyed
    stopGone            \* stop and activeTestsCount are out of scope

Pool == INSTANCE TaskExecutor WITH Clients <- {Main}, MaxTasks <- NumTests
Log == INSTANCE LoggerPools

poolVars == <<submitted, started, finished, waiting>>
logVars == <<shared, stress, pools, lastWord>>
mainVars == <<main, configured, stop, destroyed, stopGone>>
taskVars == <<activeTestsCount, body, inner, lingering, stranded>>
vars == <<poolVars, logVars, mainVars, taskVars>>

TypeOK ==
    /\ submitted \in 0 .. NumTests
    /\ started \subseteq Tests /\ finished \subseteq started
    /\ waiting \subseteq {Main}
    /\ Log!TypeOK
    /\ main \in {"entered", "configuring", "submitting", "heartbeat", "stopping", "waiting",
                 "clearing", "unwinding", "unwindWaiting", "unwindClearing", "returned",
                 "failed", "terminated", "hung"}
    /\ configured \in 0 .. NumTests
    /\ stop \in BOOLEAN
    /\ activeTestsCount \in 0 .. NumTests
    /\ body \in [Tests -> {"idle", "running", "forking", "joining", "rethrowing", "returned",
                           "flushing", "leaving", "over"}]
    /\ inner \in [Tests -> SUBSET InnerThreads]
    /\ stranded \subseteq Queueing /\ lingering \subseteq Detached \cup stranded
    /\ destroyed \subseteq Tests
    /\ stopGone \in BOOLEAN

Init ==
    /\ Pool!Init
    /\ Log!Init
    /\ main = "entered"
    /\ configured = 0
    /\ stop = FALSE
    /\ activeTestsCount = 0
    /\ body = [t \in Tests |-> "idle"]
    /\ inner = [t \in Tests |-> {}]
    /\ lingering = {}
    /\ stranded = {}
    /\ destroyed = {}
    /\ stopGone = FALSE
-----------------------------------------------------------------------------
(* main's pool and logger; if either cannot be made, there is nothing to take down. *)
MakeMainLogger ==
    /\ main = "entered"
    /\ \/ main' = "configuring" /\ Log!Open(MainPool)
       \/ SetupMayFail /\ main' = "failed" /\ UNCHANGED <<pools, lastWord>>
    /\ UNCHANGED <<configured, stop, destroyed, stopGone, shared, stress, poolVars, taskVars>>

(* In owned mode the test makes a pool and a logger, which may throw. *)
ConfigureTest ==
    /\ main = "configuring"
    /\ configured < NumTests
    /\ configured' = configured + 1
    /\ IF shared THEN UNCHANGED <<pools, lastWord>> ELSE Log!Open(configured)
    /\ UNCHANGED <<main, stop, destroyed, stopGone, shared, stress, poolVars, taskVars>>

SetupFails ==
    /\ SetupMayFail
    /\ main = "configuring"
    /\ main' = "unwindClearing"
    /\ UNCHANGED <<configured, stop, destroyed, stopGone, logVars, poolVars, taskVars>>

(***************************************************************************)
(* The pool starts some of its workers, but not all: its constructor ends  *)
(* or blocks the process (ThreadPool, SpawnFails).                         *)
(***************************************************************************)
PoolStartFails ==
    /\ SetupMayFail /\ Parallel > 1
    /\ main = "configuring"
    /\ configured = NumTests
    /\ main' \in {"terminated", "hung"}
    /\ UNCHANGED <<configured, stop, destroyed, stopGone, logVars, poolVars, taskVars>>

AllConfigured ==
    /\ main = "configuring"
    /\ configured = NumTests
    /\ main' = "submitting"
    /\ UNCHANGED <<configured, stop, destroyed, stopGone, logVars, poolVars, taskVars>>

(* Faulty variant: the counter is raised by somebody else, later. *)
NotCountedUp == activeTestsCount

CountedUp == activeTestsCount + 1

SubmitTest ==
    /\ main = "submitting"
    /\ submitted < NumTests
    /\ activeTestsCount' = CountedUp
    /\ \/ Pool!Submit /\ UNCHANGED main
       \/ SubmitMayFail /\ main' = "unwinding" /\ UNCHANGED poolVars
    /\ UNCHANGED <<configured, stop, destroyed, stopGone, logVars, body, inner, lingering,
                   stranded>>

AllSubmitted ==
    /\ main = "submitting"
    /\ submitted = NumTests
    /\ main' = "heartbeat"
    /\ UNCHANGED <<configured, stop, destroyed, stopGone, logVars, poolVars, taskVars>>

(***************************************************************************)
(* The heartbeat loop ends when the counter is seen at zero or when the    *)
(* time is up, which may be at any moment; until then it logs.             *)
(***************************************************************************)
Heartbeat ==
    /\ main = "heartbeat"
    /\ Log!Post(MainPool)
    /\ UNCHANGED <<mainVars, shared, stress, poolVars, taskVars>>

FinishEarly ==
    /\ main = "heartbeat"
    /\ activeTestsCount = 0
    /\ Log!Post(MainPool)
    /\ main' = "stopping"
    /\ UNCHANGED <<configured, stop, destroyed, stopGone, shared, stress, poolVars, taskVars>>

TimeIsUp ==
    /\ main = "heartbeat"
    /\ main' = "stopping"
    /\ UNCHANGED <<configured, stop, destroyed, stopGone, logVars, poolVars, taskVars>>

(* Faulty variant: wait is called before stop is raised. *)
NotRaised == stop

Raised == TRUE

(* stop.store, then wait: nothing of main's can be seen in between. *)
StopAndWait ==
    /\ main = "stopping"
    /\ stop' = Raised
    /\ Pool!CallWait(Main)
    /\ main' = "waiting"
    /\ UNCHANGED <<configured, destroyed, stopGone, logVars, taskVars>>

(* Faulty variant: main does not wait for the tasks. *)
LeaveWait == waiting' = {} /\ UNCHANGED <<submitted, started, finished>>

PoolWaitReturns == Pool!ReturnFromWait(Main)

WaitReturns ==
    /\ main = "waiting"
    /\ PoolWaitReturns
    /\ main' = "clearing"
    /\ UNCHANGED <<configured, stop, destroyed, stopGone, logVars, taskVars>>

(* tests.clear(), or the tests vector going out of scope: one after the other. *)
Clearing == main \in {"clearing", "unwindClearing"}
NextToDestroy(t) == Clearing /\ t \notin destroyed /\ \A u \in Tests : u < t => u \in destroyed

(* Faulty variant: the test's thread is not joined. *)
Unjoined(t) == TRUE

BackgroundJoined(t) == t \notin lingering

(* The thread of the derived class is joined, then the test's own pool is drained. *)
DestroyTest(t) ==
    /\ NextToDestroy(t)
    /\ BackgroundJoined(t) /\ t \notin stranded
    /\ IF t \in pools THEN Log!Close(t) ELSE UNCHANGED <<pools, lastWord>>
    /\ destroyed' = destroyed \cup {t}
    /\ UNCHANGED <<main, configured, stop, stopGone, shared, stress, poolVars, taskVars>>

(***************************************************************************)
(* A test that run left with threads in threads_: their destructor calls   *)
(* std::terminate, also for those that have ended, before anything else of *)
(* the test is destroyed.  The process takes its threads with it.          *)
(***************************************************************************)
DestroyTerminates(t) ==
    /\ NextToDestroy(t)
    /\ t \in stranded
    /\ main' = "terminated"
    /\ lingering' = {}
    /\ UNCHANGED <<configured, stop, destroyed, stopGone, logVars, poolVars, activeTestsCount, body,
                   inner, stranded>>

(* The last step of main: stop and the counter go with its frame. *)
CloseLogger ==
    /\ Clearing
    /\ destroyed = Tests
    /\ Log!Close(MainPool)
    /\ main' = IF main = "clearing" THEN "returned" ELSE "failed"
    /\ stopGone' = TRUE
    /\ UNCHANGED <<configured, stop, destroyed, shared, stress, poolVars, taskVars>>
-----------------------------------------------------------------------------
(* The stack is unwound: ~ThreadPool calls wait; nobody has raised stop. *)
Unwind ==
    /\ main = "unwinding"
    /\ Pool!CallWait(Main)
    /\ main' = "unwindWaiting"
    /\ UNCHANGED <<configured, stop, destroyed, stopGone, logVars, taskVars>>

UnwindWaitReturns ==
    /\ main = "unwindWaiting"
    /\ Pool!ReturnFromWait(Main)
    /\ main' = "unwindClearing"
    /\ stopGone' = TRUE
    /\ UNCHANGED <<configured, stop, destroyed, logVars, taskVars>>
-----------------------------------------------------------------------------
(***************************************************************************)
(* The task of test t: start() logs, calls run, logs and flushes.  run     *)
(* goes on until it sees stop, except where it leaves a thread behind or   *)
(* returns early; LevelTest's starts two threads and joins them.           *)
(***************************************************************************)
Goes(t, from, to) == body[t] = from /\ body' = [body EXCEPT ![t] = to]

StartTest(t) ==
    /\ Pool!Start(t)
    /\ Goes(t, "idle", "running")
    /\ Log!Post(Log!PoolOf(t))
    /\ UNCHANGED <<mainVars, shared, stress, activeTestsCount, inner, lingering, stranded>>

(* What a test logs in its loop, or a thread of its own does, even one left behind. *)
Chatter(t) ==
    /\ \/ body[t] = "running" /\ t \notin Forking
       \/ "readThread" \in inner[t]
       \/ t \in lingering \cap stranded
    /\ Log!Post(Log!PoolOf(t))
    /\ UNCHANGED <<mainVars, shared, stress, poolVars, taskVars>>

Loops(t) == t \notin Detached \cup Forking

(* The loop's test of stop. *)
LoopEnds(t) ==
    /\ Loops(t)
    /\ stop \/ (t \in Early /\ ~stress)
    /\ Goes(t, "running", "returned")
    /\ UNCHANGED <<mainVars, logVars, poolVars, activeTestsCount, inner, lingering, stranded>>

LeaveThreadBehind(t) ==
    /\ t \in Detached
    /\ Goes(t, "running", "returned")
    /\ lingering' = lingering \cup {t}
    /\ UNCHANGED <<mainVars, logVars, poolVars, activeTestsCount, inner, stranded>>

ForkWriter(t) ==
    /\ t \in Forking
    /\ Goes(t, "running", "forking")
    /\ inner' = [inner EXCEPT ![t] = {"writeThread"}]
    /\ UNCHANGED <<mainVars, logVars, poolVars, activeTestsCount, lingering, stranded>>

(* If the second thread does not start, the first is joined before the exception goes on. *)
ForkReader(t) ==
    /\ \/ Goes(t, "forking", "joining") /\ inner' = [inner EXCEPT ![t] = InnerThreads]
       \/ TestMayThrow /\ Goes(t, "forking", "rethrowing") /\ UNCHANGED inner
    /\ UNCHANGED <<mainVars, logVars, poolVars, activeTestsCount, lingering, stranded>>

(* g_level goes up and is read in between: nothing else depends on it. *)
InnerThreadTestsStop(t, x) ==
    /\ x \in inner[t]
    /\ inner' = [inner EXCEPT ![t] = IF stop THEN @ \ {x} ELSE @]
    /\ UNCHANGED <<mainVars, logVars, poolVars, activeTestsCount, body, lingering, stranded>>

InnerJoined(t) ==
    /\ inner[t] = {}
    /\ Goes(t, "joining", "returned") \/ Goes(t, "rethrowing", "leaving")
    /\ UNCHANGED <<mainVars, logVars, poolVars, activeTestsCount, inner, lingering, stranded>>

(***************************************************************************)
(* Caught by the task; the test neither logs "finished" nor flushes.  A    *)
(* queue test that could not start all its threads leaves behind those it  *)
(* has started, running and not joined.                                    *)
(***************************************************************************)
RunThrows(t) ==
    /\ TestMayThrow
    /\ Goes(t, "running", "leaving")
    /\ \/ UNCHANGED <<lingering, stranded>>
       \/ /\ t \in Queueing
          /\ lingering' = lingering \cup {t}
          /\ stranded' = stranded \cup {t}
    /\ UNCHANGED <<mainVars, logVars, poolVars, activeTestsCount, inner>>

LogFinished(t) ==
    /\ Goes(t, "returned", "flushing")
    /\ Log!SayLastWord(t)
    /\ UNCHANGED <<mainVars, shared, stress, poolVars, activeTestsCount, inner, lingering, stranded>>

FlushLogger(t) ==
    /\ Goes(t, "flushing", "leaving")
    /\ Log!Flush(t)
    /\ UNCHANGED <<mainVars, shared, stress, poolVars, activeTestsCount, inner, lingering, stranded>>

CountDownTest(t) ==
    /\ Goes(t, "leaving", "over")
    /\ activeTestsCount' = activeTestsCount - 1
    /\ UNCHANGED <<mainVars, logVars, poolVars, inner, lingering, stranded>>

(* The task returns to the pool. *)
FinishTest(t) ==
    /\ body[t] = "over"
    /\ Pool!Finish(t)
    /\ UNCHANGED <<mainVars, logVars, taskVars>>

(***************************************************************************)
(* A thread left behind ends when it sees stop, or the ride test's when    *)
(* its test is destroyed.  What it reads once stop is gone is undefined.   *)
(***************************************************************************)
LingererExits(t) ==
    /\ t \in lingering
    /\ stop \/ stopGone \/ (t \in Detached /\ NextToDestroy(t))
    /\ lingering' = lingering \ {t}
    /\ UNCHANGED <<mainVars, logVars, poolVars, activeTestsCount, body, inner, stranded>>

(* The worker of the logger's pool, while there is a process. *)
WriteLastWord(t) ==
    /\ main # "terminated"
    /\ Log!Write(t)
    /\ UNCHANGED <<mainVars, shared, stress, poolVars, taskVars>>
-----------------------------------------------------------------------------
MainStep ==
    \/ MakeMainLogger \/ ConfigureTest \/ AllConfigured \/ SubmitTest \/ AllSubmitted
    \/ FinishEarly \/ TimeIsUp \/ StopAndWait \/ WaitReturns
    \/ Unwind \/ UnwindWaitReturns \/ CloseLogger
    \/ \E t \in Tests : DestroyTest(t) \/ DestroyTerminates(t)

TaskStep(t) ==
    \/ LoopEnds(t) \/ LeaveThreadBehind(t)
    \/ ForkWriter(t) \/ ForkReader(t) \/ InnerJoined(t)
    \/ LogFinished(t) \/ FlushLogger(t) \/ CountDownTest(t) \/ FinishTest(t)

LingererDies(t) == t \in Detached /\ NextToDestroy(t) /\ LingererExits(t)

Over == main \in {"returned", "failed", "terminated", "hung"} /\ UNCHANGED vars

Next ==
    \/ MainStep \/ SetupFails \/ PoolStartFails \/ Heartbeat
    \/ \E t \in Tests :
          \/ StartTest(t) \/ TaskStep(t) \/ RunThrows(t) \/ Chatter(t)
          \/ LingererExits(t) \/ WriteLastWord(t)
          \/ \E x \in InnerThreads : InnerThreadTestsStop(t, x)
    \/ Over

Spec == Init /\ [][Next]_vars

(***************************************************************************)
(* Time passes and main goes on; the pool starts what it can start; a test *)
(* or a thread of its own that sees stop ends, and no test has to throw;   *)
(* the loggers' workers write.  A thread left behind sleeps through stop,  *)
(* so only the destructor of its test can be relied on to end it.          *)
(***************************************************************************)
FairSpec ==
    /\ Spec
    /\ WF_vars(MainStep)
    /\ WF_vars(\E t \in Tests : StartTest(t))
    /\ \A t \in Tests :
          /\ WF_vars(TaskStep(t)) /\ WF_vars(LingererDies(t)) /\ WF_vars(WriteLastWord(t))
          /\ \A x \in InnerThreads : WF_vars(InnerThreadTestsStop(t, x))
-----------------------------------------------------------------------------
InBody(t) == body[t] \notin {"idle", "over"}

(***************************************************************************)
(* What a running test uses outlives it: the test object, stop, the        *)
(* counter it decrements on its way out, and the pool it logs to, so that  *)
(* no logger refuses a message; the same for the threads that run joins,   *)
(* which are gone when it leaves.  Also when an exception takes main down  *)
(* in the middle of submitting.                                            *)
(*                                                                         *)
(* A thread that run leaves behind has its test and its pool, too, and     *)
(* stop as long as main is not unwound.  The unwinding is excluded: there  *)
(* stop goes before the tests, and the thread of the ride test, or of a    *)
(* queue test that could not start all of them, may read it once more.     *)
(*                                                                         *)
(* (And the state is well typed: the counter is never below zero, nor      *)
(* above the number of tests.)                                             *)
(***************************************************************************)
TestsUseLiveObjects ==
    /\ TypeOK
    /\ \A t \in Tests : InBody(t) \/ inner[t] # {} =>
          t \notin destroyed /\ ~stopGone /\ Log!PoolOf(t) \in pools
    /\ \A t \in Tests : body[t] \in {"returned", "flushing", "leaving", "over"} => inner[t] = {}
    /\ \A t \in lingering :
          t \notin destroyed /\ Log!PoolOf(t) \in pools /\ (stopGone => main = "unwindClearing")

(***************************************************************************)
(* "all tests finished early" is true when main logs it: every test was    *)
(* submitted and its run is over, including those the pool has yet to      *)
(* start.  (The counter must rise before the task can bring it down.)      *)
(***************************************************************************)
EarlyFinishIsComplete ==
    [][FinishEarly => \A t \in Tests : body[t] = "over"]_vars

(***************************************************************************)
(* When main has returned or failed, every task it submitted has been      *)
(* executed, nothing runs any more, no thread was left unjoined, and every *)
(* logger's pool is closed.                                                *)
(***************************************************************************)
NothingOutlivesMain ==
    main \in {"returned", "failed"} =>
        /\ finished = 0 .. submitted - 1
        /\ lingering = {} /\ stranded = {} /\ pools = {}
        /\ main = "returned" => submitted = NumTests

(***************************************************************************)
(* A test's "Test finished" is in the file by the time main ends, although *)
(* it was posted at the last moment: without stress always, with stress    *)
(* unless others used the same queue or it holds a single message.         *)
(***************************************************************************)
LastWordsAreWritten ==
    \A t \in Tests :
        /\ main \in {"returned", "failed"} => lastWord[t] \in {"unsaid", "written", "dropped"}
        /\ lastWord[t] = "dropped" => stress /\ (shared \/ QueueSize = 1)

(***************************************************************************)
(* main ends, even if some tests were still queued when stop was raised,   *)
(* unless an exception takes it out of the submissions.  Two ends of the   *)
(* process do not count as ends of main and are excluded: a queue test     *)
(* that could not start all its threads, and a pool that could not.        *)
(***************************************************************************)
MainEnds ==
    [](stranded = {} /\ main \notin {"terminated", "hung"}) =>
        <>(main \in {"returned", "failed", "unwinding"})

(***************************************************************************)
(* README.md (Key Engineering Considerations) promises exception-safe      *)
(* thread lifecycles: an exception in main would then end main.            *)
(***************************************************************************)
ExceptionEndsMain == main = "unwinding" ~> main = "failed"
=============================================================================
