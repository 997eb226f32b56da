---------------------------- MODULE Diagnostics ----------------------------
(***************************************************************************)
(* DiagnosticsTest of diagnostics.h: a collector updates a map of metrics  *)
(* and appends a line about them to a buffer, a reporter drains the        *)
(* buffer; each takes both mutexes with one scoped_lock, in opposite       *)
(* orders.                                                                 *)
(*                                                                         *)
(* A line is known by the iteration that wrote it.  scoped_lock is         *)
(* std::lock: lock one mutex, try the other, and on failure let go and     *)
(* begin again with either one.                                            *)
(***************************************************************************)
EXTENDS Integers, Sequences

CONSTANTS
    MaxIterations,  \* bound on the iterations of the collector
    SpawnMayFail    \* TRUE iff a thread may fail to start

ASSUME DiagnosticsAssumption == MaxIterations \in Nat /\ SpawnMayFail \in BOOLEAN

VARIABLES
    iteration,
    metrics,        \* the "iteration" metric and how many metrics there are
    logBuffer,      \* the lines in the buffer, oldest first
    owner,          \* who holds each mutex
    at,             \* where each inner thread is
    first,          \* the mutex each thread has locked or locks first
    drainedBuffer, metricCount, \* the reporter's
    runner,         \* where run is
    summary,        \* the post-run summary
    stop,
    reported        \* history: the lines logged by the reporter

lockVars == <<owner, first>>
dataVars == <<iteration, metrics, logBuffer>>
reportVars == <<drainedBuffer, metricCount, reported>>
vars == <<lockVars, dataVars, reportVars, at, runner, summary, stop>>

Threads == {"collector", "reporter"}
Mutexes == {"metricsMutex", "logBufferMutex"}
Nobody == "nobody"
Iterations == 0 .. MaxIterations - 1
NoMetrics == [iteration |-> -1, size |-> 0]

TypeOK ==
    /\ iteration \in 0 .. MaxIterations
    /\ metrics \in [iteration : Iterations \cup {-1}, size : 0 .. 3]
    /\ logBuffer \in Seq(Iterations)
    /\ owner \in [Mutexes -> Threads \cup {Nobody}]
    /\ at \in [Threads -> {"unborn", "top", "locking", "trying", "updating", "appending",
                           "sleeping", "draining", "unlocking", "logging", "exited"}]
    /\ first \in [Threads -> Mutexes]
    /\ drainedBuffer \in Seq(Iterations)
    /\ metricCount \in 0 .. 3
    /\ runner \in {"starting", "collecting", "joining", "rethrowing", "returned", "thrown"}
    /\ summary \in [iterations : 0 .. MaxIterations, metricCount : 0 .. 3]
    /\ stop \in BOOLEAN
    /\ reported \in Seq(Iterations)

Init ==
    /\ iteration = 0
    /\ metrics = NoMetrics
    /\ logBuffer = <<>>
    /\ owner = [m \in Mutexes |-> Nobody]
    /\ at = [t \in Threads |-> "unborn"]
    /\ first = [t \in Threads |-> IF t = "collector" THEN "metricsMutex" ELSE "logBufferMutex"]
    /\ drainedBuffer = <<>>
    /\ metricCount = 0
    /\ runner = "starting"
    /\ summary = [iterations |-> 0, metricCount |-> 0]
    /\ stop = FALSE
    /\ reported = <<>>

Goes(t, from, to) == at[t] = from /\ at' = [at EXCEPT ![t] = to]
-----------------------------------------------------------------------------
Other(m) == CHOOSE n \in Mutexes : n # m
EntersAs(t) == IF t = "collector" THEN "updating" ELSE "draining"

LockFirst(t) ==
    /\ Goes(t, "locking", "trying")
    /\ owner[first[t]] = Nobody
    /\ owner' = [owner EXCEPT ![first[t]] = t]
    /\ UNCHANGED <<first, dataVars, reportVars, runner, summary, stop>>

(* Faulty variant: the answer of the attempt is ignored. *)
TryHoping(t) ==
    /\ Goes(t, "trying", EntersAs(t))
    /\ owner' = [owner EXCEPT ![Other(first[t])] = t]
    /\ UNCHANGED <<first, dataVars, reportVars, runner, summary, stop>>

TrySucceeds(t) ==
    /\ Goes(t, "trying", EntersAs(t))
    /\ owner[Other(first[t])] = Nobody
    /\ owner' = [owner EXCEPT ![Other(first[t])] = t]
    /\ UNCHANGED <<first, dataVars, reportVars, runner, summary, stop>>

(* Faulty variant: the first mutex is kept for the next attempt. *)
TryHolding(t) == at[t] = "trying" /\ owner[Other(first[t])] # Nobody /\ UNCHANGED vars

TryFails(t) ==
    /\ Goes(t, "trying", "locking")
    /\ owner[Other(first[t])] # Nobody
    /\ owner' = [owner EXCEPT ![first[t]] = Nobody]
    /\ \E m \in Mutexes : first' = [first EXCEPT ![t] = m]
    /\ UNCHANGED <<dataVars, reportVars, runner, summary, stop>>

UnlockBoth(t) == owner' = [m \in Mutexes |-> IF owner[m] = t THEN Nobody ELSE owner[m]]
-----------------------------------------------------------------------------
(* The bound: after its last iteration the collector sleeps until stop. *)
IterationsLeft == iteration < MaxIterations

(* Tests stop and counts the iteration, under no mutex. *)
CollectorBegins ==
    /\ \/ ~stop /\ IterationsLeft /\ Goes("collector", "top", "locking")
          /\ iteration' = iteration + 1
       \/ stop /\ Goes("collector", "top", "exited") /\ UNCHANGED iteration
    /\ UNCHANGED <<metrics, logBuffer, lockVars, reportVars, runner, summary, stop>>

(* Faulty variant: the value after the increment is taken. *)
FetchedAfter == iteration

(* What fetch_add returned to the collector, who alone increments. *)
Fetched == iteration - 1

(* emplace or assign, then operator[] for the other two. *)
UpdateMetrics ==
    /\ Goes("collector", "updating", "appending")
    /\ metrics' = [iteration |-> Fetched, size |-> 3]
    /\ UNCHANGED <<iteration, logBuffer, lockVars, reportVars, runner, summary, stop>>

AppendLine ==
    /\ Goes("collector", "appending", "sleeping")
    /\ logBuffer' = Append(logBuffer, metrics.iteration)
    /\ UNCHANGED <<iteration, metrics, lockVars, reportVars, runner, summary, stop>>

(* The collector sleeps inside the scope of the lock. *)
CollectorUnlocks ==
    /\ Goes("collector", "sleeping", "top")
    /\ UnlockBoth("collector")
    /\ UNCHANGED <<first, dataVars, reportVars, runner, summary, stop>>
-----------------------------------------------------------------------------
ReporterTestsStop ==
    /\ Goes("reporter", "top", IF stop THEN "exited" ELSE "locking")
    /\ UNCHANGED <<lockVars, dataVars, reportVars, runner, summary, stop>>

(* Faulty variant: the buffer is copied and not emptied. *)
AfterDrainCopied == logBuffer

(* drainedBuffer is new in every round, so the swap empties the buffer. *)
AfterDrain == <<>>

Drain ==
    /\ Goes("reporter", "draining", "unlocking")
    /\ drainedBuffer' = logBuffer
    /\ logBuffer' = AfterDrain
    /\ metricCount' = metrics.size
    /\ UNCHANGED <<iteration, metrics, lockVars, reported, runner, summary, stop>>

ReporterUnlocks ==
    /\ Goes("reporter", "unlocking", "logging")
    /\ UnlockBoth("reporter")
    /\ UNCHANGED <<first, dataVars, reportVars, runner, summary, stop>>

(* An empty buffer is not logged. *)
Report ==
    /\ Goes("reporter", "logging", "top")
    /\ reported' = reported \o drainedBuffer
    /\ drainedBuffer' = <<>>
    /\ UNCHANGED <<lockVars, dataVars, metricCount, runner, summary, stop>>
-----------------------------------------------------------------------------
(* Without the collector there is nothing to clean up. *)
StartCollector ==
    /\ runner = "starting"
    /\ \/ runner' = "collecting" /\ Goes("collector", "unborn", "top")
       \/ SpawnMayFail /\ runner' = "thrown" /\ UNCHANGED at
    /\ UNCHANGED <<lockVars, dataVars, reportVars, summary, stop>>

StartReporter ==
    /\ runner = "collecting"
    /\ \/ runner' = "joining" /\ Goes("reporter", "unborn", "top")
       \/ SpawnMayFail /\ runner' = "rethrowing" /\ UNCHANGED at
    /\ UNCHANGED <<lockVars, dataVars, reportVars, summary, stop>>

(* Faulty variant: only the reporter is joined. *)
ReporterJoined == at["reporter"] \in {"unborn", "exited"}

Joined == \A t \in Threads : at[t] \in {"unborn", "exited"}

(* The collector is joined before the exception goes on: it runs until stop. *)
Rethrow ==
    /\ runner = "rethrowing"
    /\ Joined
    /\ runner' = "thrown"
    /\ UNCHANGED <<lockVars, dataVars, reportVars, at, summary, stop>>

(* Both are joined, then the totals are read without a lock and logged. *)
Summarise ==
    /\ runner = "joining"
    /\ Joined
    /\ runner' = "returned"
    /\ summary' = [iterations |-> iteration, metricCount |-> metrics.size]
    /\ UNCHANGED <<lockVars, dataVars, reportVars, at, stop>>

RaiseStop ==
    /\ ~stop
    /\ stop' = TRUE
    /\ UNCHANGED <<lockVars, dataVars, reportVars, at, runner, summary>>
-----------------------------------------------------------------------------
ThreadStep(t) ==
    \/ LockFirst(t) \/ TrySucceeds(t) \/ TryFails(t)
    \/ t = "collector" /\ (CollectorBegins \/ UpdateMetrics \/ AppendLine \/ CollectorUnlocks)
    \/ t = "reporter" /\ (ReporterTestsStop \/ Drain \/ ReporterUnlocks \/ Report)

RunnerStep == StartCollector \/ StartReporter \/ Rethrow \/ Summarise

Over == runner \in {"returned", "thrown"} /\ UNCHANGED vars

Next == (\E t \in Threads : ThreadStep(t)) \/ RunnerStep \/ RaiseStop \/ Over

Spec == Init /\ [][Next]_vars

(***************************************************************************)
(* Threads and run go on when they can.  An attempt that could succeed     *)
(* again and again does in the end: the threads do not back off in step    *)
(* for ever.  A mutex is not fair, so nothing says who gets it.            *)
(***************************************************************************)
FairSpec ==
    /\ Spec
    /\ WF_vars(RunnerStep)
    /\ \A t \in Threads : WF_vars(ThreadStep(t)) /\ SF_vars(TrySucceeds(t))
-----------------------------------------------------------------------------
(***************************************************************************)
(* What the reporter finds under the two mutexes is the work of whole      *)
(* iterations: the newest line is the one about the present metrics, or    *)
(* has been drained already, and the other thread holds neither mutex.     *)
(***************************************************************************)
ReporterSeesWholeIterations ==
    at["reporter"] = "draining" =>
        LET lines == reported \o logBuffer
        IN  /\ \A m \in Mutexes : owner[m] = "reporter"
            /\ metrics = IF lines = <<>> THEN NoMetrics
                         ELSE [iteration |-> lines[Len(lines)], size |-> 3]

(***************************************************************************)
(* Every line is logged, drained or buffered exactly once and in order,    *)
(* whatever stop interrupts; a report that is logged counts all metrics.   *)
(* What is still buffered when both threads have ended stays there: the    *)
(* reporter makes no last round, and nobody promises one.                  *)
(***************************************************************************)
LinesAccounted ==
    LET lines == reported \o drainedBuffer \o logBuffer
    IN  /\ \A i \in 1 .. Len(lines) : lines[i] = i - 1
        /\ iteration - Len(lines) \in 0 .. 1
        /\ drainedBuffer # <<>> => metricCount = 3

(***************************************************************************)
(* When run is over, by a return or an exception, its threads have ended;  *)
(* the summary, read without a lock, counts the lines that were written    *)
(* and finds no metric unless there is a line about it.                    *)
(***************************************************************************)
SummaryIsExact ==
    /\ runner \in {"returned", "thrown"} =>
          \A t \in Threads : at[t] \in {"unborn", "exited"}
    /\ runner = "returned" =>
        /\ summary.iterations = Len(reported) + Len(logBuffer)
        /\ summary.metricCount = IF summary.iterations = 0 THEN 0 ELSE 3

(* Opposite orders do not deadlock: after stop, run ends. *)
RunEnds == stop ~> runner \in {"returned", "thrown"}
=============================================================================
