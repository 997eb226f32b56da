------------------------- MODULE DiagnosticsProofs -------------------------
(***************************************************************************)
(* Proofs about Diagnostics for every number of iterations: whoever is     *)
(* inside has both mutexes, no line is lost or doubled, the reporter sees  *)
(* whole iterations only, and the summary of run is exact.                 *)
(***************************************************************************)
EXTENDS Diagnostics, TLAPS

(* Whoever has come through std::lock and not let go. *)
Inside(t) == at[t] \in {"updating", "appending", "sleeping", "draining", "unlocking"}

LockInv ==
    \A t \in Threads :
        /\ Inside(t) => \A m \in Mutexes : owner[m] = t
        /\ at[t] = "trying" => owner[first[t]] = t

(* The lines there are, and the iterations the metrics have seen. *)
Written == Len(reported) + Len(drainedBuffer) + Len(logBuffer)
Updated == Written + (IF at["collector"] = "appending" THEN 1 ELSE 0)

(***************************************************************************)
(* The lines are numbered through: reported, drained, buffered.  The       *)
(* iterations are one ahead while the collector is between counting and    *)
(* appending, the metrics while it is to append.                           *)
(***************************************************************************)
LinesInv ==
    /\ \A i \in 1 .. Len(reported) : reported[i] = i - 1
    /\ \A i \in 1 .. Len(drainedBuffer) : drainedBuffer[i] = Len(reported) + i - 1
    /\ \A i \in 1 .. Len(logBuffer) :
          logBuffer[i] = Len(reported) + Len(drainedBuffer) + i - 1
    /\ iteration = Written +
          (IF at["collector"] \in {"locking", "trying", "updating", "appending"} THEN 1 ELSE 0)
    /\ metrics = IF Updated = 0 THEN NoMetrics ELSE [iteration |-> Updated - 1, size |-> 3]
    /\ drainedBuffer # <<>> => at["reporter"] \in {"unlocking", "logging"} /\ metricCount = 3

(* The threads that run has started, and what it has seen when it is over. *)
RunInv ==
    /\ runner = "starting" => \A t \in Threads : at[t] = "unborn"
    /\ runner \in {"collecting", "rethrowing"} => at["reporter"] = "unborn"
    /\ runner \in {"returned", "thrown"} => Joined
    /\ runner = "returned" =>
          summary = [iterations |-> iteration, metricCount |-> metrics.size]
-----------------------------------------------------------------------------
(* There are two mutexes: what is not one is the other. *)
LEMMA OtherMutex ==
    \A m \in Mutexes : /\ Other(m) \in Mutexes /\ Other(m) # m
                       /\ \A n \in Mutexes : n = m \/ n = Other(m)
BY DEF Other, Mutexes

(* Two threads are never inside at a time. *)
LEMMA Exclusion ==
    LockInv => ~(Inside("collector") /\ Inside("reporter"))
BY DEF LockInv, Threads, Mutexes

(* std::lock gives a thread both mutexes or none. *)
LEMMA LockKept ==
    ASSUME TypeOK, LockInv, [Next]_vars
    PROVE  LockInv'
<1> USE DEF TypeOK, LockInv, Inside, Goes
<1>1. CASE RunnerStep \/ RaiseStop \/ UNCHANGED vars
  <2>1. RunnerStep => LockInv'
    BY DEF RunnerStep, StartCollector, StartReporter, Rethrow, Summarise, lockVars, Threads
  <2>2. QED
    BY <1>1, <2>1 DEF RaiseStop, vars, lockVars
<1>2. ASSUME NEW t \in Threads, ThreadStep(t)
      PROVE  LockInv'
  <2>1. CASE LockFirst(t)
    BY <2>1 DEF LockFirst, Threads, Mutexes, Nobody
  <2>2. CASE TrySucceeds(t)
    BY <2>2, OtherMutex DEF TrySucceeds, EntersAs, Threads, Nobody
  <2>3. CASE TryFails(t)
    <3>1. PICK m \in Mutexes : first' = [first EXCEPT ![t] = m]
      BY <2>3 DEF TryFails
    <3>2. QED
      BY <2>3, <3>1 DEF TryFails, Threads, Nobody
  <2>4. CASE CollectorBegins \/ UpdateMetrics \/ AppendLine
    BY <2>4 DEF CollectorBegins, UpdateMetrics, AppendLine, lockVars, Threads
  <2>5. CASE CollectorUnlocks
    BY <2>5 DEF CollectorUnlocks, UnlockBoth, Threads, Nobody
  <2>6. CASE ReporterTestsStop \/ Drain \/ Report
    BY <2>6 DEF ReporterTestsStop, Drain, Report, lockVars, Threads
  <2>7. CASE ReporterUnlocks
    BY <2>7 DEF ReporterUnlocks, UnlockBoth, Threads, Nobody
  <2>8. QED
    BY <1>2, <2>1, <2>2, <2>3, <2>4, <2>5, <2>6, <2>7 DEF ThreadStep
<1>3. QED
  BY <1>1, <1>2 DEF Next, Over
-----------------------------------------------------------------------------
(* Types: the collector appends only what it has put into the metrics before. *)
LEMMA TypeKept ==
    ASSUME TypeOK, LinesInv, [Next]_vars
    PROVE  TypeOK'
<1> USE DEF TypeOK, Goes
<1>1. CASE RunnerStep \/ RaiseStop \/ UNCHANGED vars
  <2>1. CASE StartCollector \/ StartReporter
    BY <2>1 DEF StartCollector, StartReporter, lockVars, dataVars, reportVars, Threads
  <2>2. CASE Rethrow
    BY <2>2 DEF Rethrow, lockVars, dataVars, reportVars
  <2>3. CASE Summarise
    BY <2>3 DEF Summarise, lockVars, dataVars, reportVars
  <2>4. CASE RaiseStop
    BY <2>4 DEF RaiseStop, lockVars, dataVars, reportVars
  <2>5. CASE UNCHANGED vars
    BY <2>5 DEF vars, lockVars, dataVars, reportVars
  <2>6. QED
    BY <1>1, <2>1, <2>2, <2>3, <2>4, <2>5 DEF RunnerStep
<1>2. ASSUME NEW t \in Threads, ThreadStep(t)
      PROVE  TypeOK'
  <2>1. CASE LockFirst(t)
    BY <1>2, <2>1 DEF LockFirst, dataVars, reportVars
  <2>11. CASE TrySucceeds(t)
    <3>1. EntersAs(t) \in {"updating", "draining"}
      BY DEF EntersAs
    <3>2. QED
      BY <1>2, <2>11, <3>1 DEF TrySucceeds, dataVars, reportVars
  <2>2. CASE TryFails(t)
    <3>1. PICK m \in Mutexes : first' = [first EXCEPT ![t] = m]
      BY <2>2 DEF TryFails
    <3>2. QED
      BY <1>2, <2>2, <3>1 DEF TryFails, dataVars, reportVars
  <2>3. CASE CollectorBegins
    BY <2>3, DiagnosticsAssumption
       DEF CollectorBegins, IterationsLeft, lockVars, reportVars, Threads
  <2>4. CASE UpdateMetrics
    <3>1. Fetched \in Iterations
      BY <2>4, DiagnosticsAssumption
         DEF UpdateMetrics, Fetched, LinesInv, Written, Iterations
    <3>2. QED
      BY <2>4, <3>1 DEF UpdateMetrics, lockVars, reportVars, Threads
  <2>5. CASE AppendLine
    <3>1. Updated # 0
      BY <2>5 DEF AppendLine, Updated, Written
    <3>2. metrics.iteration = Updated - 1 /\ Updated = iteration
      BY <2>5, <3>1 DEF AppendLine, LinesInv, Updated
    <3>3. metrics.iteration \in Iterations
      BY <3>1, <3>2, DiagnosticsAssumption DEF Iterations
    <3>4. QED
      BY <2>5, <3>3 DEF AppendLine, lockVars, reportVars, Threads
  <2>6. CASE CollectorUnlocks \/ ReporterUnlocks
    BY <2>6 DEF CollectorUnlocks, ReporterUnlocks, UnlockBoth, dataVars, reportVars, Threads
  <2>7. CASE ReporterTestsStop
    BY <2>7 DEF ReporterTestsStop, lockVars, dataVars, reportVars, Threads
  <2>8. CASE Drain
    BY <2>8 DEF Drain, AfterDrain, lockVars, Threads
  <2>9. CASE Report
    BY <2>9 DEF Report, lockVars, dataVars, Threads
  <2>10. QED
    BY <1>2, <2>1, <2>2, <2>3, <2>4, <2>5, <2>6, <2>7, <2>8, <2>9, <2>11 DEF ThreadStep
<1>3. QED
  BY <1>1, <1>2 DEF Next, Over
-----------------------------------------------------------------------------
(* Where the collector has counted an iteration whose line is not there yet. *)
Ahead == at["collector"] \in {"locking", "trying", "updating", "appending"}

(* Most steps move no line. *)
LEMMA NoLineMoved ==
    ASSUME LinesInv, UNCHANGED <<dataVars, reportVars>>,
           Ahead' = Ahead,
           (at["collector"] = "appending")' = (at["collector"] = "appending"),
           at["reporter"] \in {"unlocking", "logging"} =>
               at'["reporter"] \in {"unlocking", "logging"}
    PROVE  LinesInv'
<1>1. Written' = Written /\ Updated' = Updated
  BY DEF dataVars, reportVars, Written, Updated
<1>2. iteration' = Written' +
          (IF at'["collector"] \in {"locking", "trying", "updating", "appending"} THEN 1 ELSE 0)
  BY <1>1 DEF LinesInv, Ahead, dataVars
<1>3. QED
  BY <1>1, <1>2 DEF LinesInv, dataVars, reportVars

(* A line moves on from the buffer to the reporter's hands to the log, in order. *)
LEMMA LinesKept ==
    ASSUME TypeOK, LockInv, LinesInv, [Next]_vars
    PROVE  LinesInv'
<1> USE DEF TypeOK, Goes
<1>1. CASE RunnerStep \/ RaiseStop \/ UNCHANGED vars
  <2>1. CASE StartCollector \/ StartReporter
    <3>1. /\ Ahead' = Ahead
          /\ (at["collector"] = "appending")' = (at["collector"] = "appending")
          /\ at["reporter"] \in {"unlocking", "logging"} => UNCHANGED at["reporter"]
      BY <2>1 DEF StartCollector, StartReporter, Ahead, Threads
    <3>2. UNCHANGED <<dataVars, reportVars>>
      BY <2>1 DEF StartCollector, StartReporter
    <3>3. QED
      BY <3>1, <3>2, NoLineMoved
  <2>2. CASE Rethrow \/ Summarise \/ RaiseStop \/ UNCHANGED vars
    <3>1. UNCHANGED <<dataVars, reportVars, at>>
      BY <2>2 DEF Rethrow, Summarise, RaiseStop, vars
    <3>2. QED
      BY <3>1, NoLineMoved DEF Ahead
  <2>3. QED
    BY <1>1, <2>1, <2>2 DEF RunnerStep
<1>2. ASSUME NEW t \in Threads, ThreadStep(t)
      PROVE  LinesInv'
  <2>1. CASE LockFirst(t) \/ TrySucceeds(t) \/ TryFails(t)
    <3>1. UNCHANGED <<dataVars, reportVars>>
      BY <2>1 DEF LockFirst, TrySucceeds, TryFails
    <3>2. /\ Ahead' = Ahead
          /\ (at["collector"] = "appending")' = (at["collector"] = "appending")
          /\ at["reporter"] \in {"unlocking", "logging"} => UNCHANGED at["reporter"]
      BY <1>2, <2>1 DEF LockFirst, TrySucceeds, TryFails, EntersAs, Ahead, Threads
    <3>3. QED
      BY <3>1, <3>2, NoLineMoved
  <2>2. CASE CollectorBegins
    BY <2>2 DEF CollectorBegins, reportVars, LinesInv, Updated, Written, Threads
  <2>3. CASE UpdateMetrics
    BY <2>3 DEF UpdateMetrics, Fetched, reportVars, LinesInv, Updated, Written, Threads
  <2>4. CASE AppendLine
    <3>1. Updated # 0 /\ metrics.iteration = Written
      BY <2>4 DEF AppendLine, LinesInv, Updated, Written
    <3>2. Updated' = Updated /\ Written' = Written + 1
      BY <2>4 DEF AppendLine, reportVars, Updated, Written, Threads
    <3>3. \A i \in 1 .. Len(logBuffer') :
             logBuffer'[i] = Len(reported) + Len(drainedBuffer) + i - 1
      BY <2>4, <3>1 DEF AppendLine, LinesInv, Written
    <3>4. QED
      BY <2>4, <3>1, <3>2, <3>3 DEF AppendLine, reportVars, LinesInv, Updated, Threads
  <2>5. CASE CollectorUnlocks \/ ReporterUnlocks \/ ReporterTestsStop
    <3>1. UNCHANGED <<dataVars, reportVars>>
      BY <2>5 DEF CollectorUnlocks, ReporterUnlocks, ReporterTestsStop
    <3>2. /\ Ahead' = Ahead
          /\ (at["collector"] = "appending")' = (at["collector"] = "appending")
          /\ at["reporter"] \in {"unlocking", "logging"} =>
                at'["reporter"] \in {"unlocking", "logging"}
      BY <2>5 DEF CollectorUnlocks, ReporterUnlocks, ReporterTestsStop, Ahead, Threads
    <3>3. QED
      BY <3>1, <3>2, NoLineMoved
  <2>6. CASE Drain
    <3>1. drainedBuffer = <<>> /\ at["collector"] # "appending"
      BY <2>6, Exclusion DEF Drain, LinesInv, Inside
    <3>2. Written' = Written /\ Updated' = Updated
      BY <2>6, <3>1 DEF Drain, AfterDrain, Written, Updated, Threads
    <3>3. logBuffer # <<>> => metrics.size = 3
      BY <3>1 DEF LinesInv, Updated, Written
    <3>4. QED
      BY <2>6, <3>1, <3>2, <3>3 DEF Drain, AfterDrain, LinesInv, Threads
  <2>7. CASE Report
    <3>1. /\ Len(reported') = Len(reported) + Len(drainedBuffer)
          /\ \A i \in 1 .. Len(reported') : reported'[i] = i - 1
      BY <2>7 DEF Report, LinesInv
    <3>2. Written' = Written /\ Updated' = Updated
      BY <2>7, <3>1 DEF Report, dataVars, Written, Updated, Threads
    <3>3. QED
      BY <2>7, <3>1, <3>2 DEF Report, dataVars, LinesInv, Threads
  <2>8. QED
    BY <1>2, <2>1, <2>2, <2>3, <2>4, <2>5, <2>6, <2>7 DEF ThreadStep
<1>3. QED
  BY <1>1, <1>2 DEF Next, Over
-----------------------------------------------------------------------------
(* run knows who was started, and reads the totals when nobody can change them. *)
LEMMA RunKept ==
    ASSUME TypeOK, RunInv, [Next]_vars
    PROVE  RunInv'
<1> USE DEF TypeOK, RunInv, Goes, Joined
<1>1. CASE RunnerStep \/ RaiseStop \/ UNCHANGED vars
  <2>1. CASE StartCollector \/ StartReporter
    BY <2>1 DEF StartCollector, StartReporter, Threads
  <2>2. CASE Rethrow \/ Summarise
    BY <2>2 DEF Rethrow, Summarise, dataVars
  <2>3. CASE RaiseStop \/ UNCHANGED vars
    BY <2>3 DEF RaiseStop, vars, dataVars
  <2>4. QED
    BY <1>1, <2>1, <2>2, <2>3 DEF RunnerStep
<1>2. ASSUME NEW t \in Threads, ThreadStep(t)
      PROVE  RunInv'
  <2>1. /\ at[t] \notin {"unborn", "exited"} /\ at'[t] # "unborn"
        /\ \A u \in Threads : u # t => at'[u] = at[u]
        /\ UNCHANGED <<runner, summary>>
    <3>1. CASE LockFirst(t) \/ TrySucceeds(t) \/ TryFails(t)
      BY <3>1 DEF LockFirst, TrySucceeds, TryFails, EntersAs
    <3>2. CASE /\ t = "collector"
               /\ CollectorBegins \/ UpdateMetrics \/ AppendLine \/ CollectorUnlocks
      BY <3>2 DEF CollectorBegins, UpdateMetrics, AppendLine, CollectorUnlocks, Threads
    <3>3. CASE t = "reporter" /\ (ReporterTestsStop \/ Drain \/ ReporterUnlocks \/ Report)
      BY <3>3 DEF ReporterTestsStop, Drain, ReporterUnlocks, Report, Threads
    <3>4. QED
      BY <1>2, <3>1, <3>2, <3>3 DEF ThreadStep
  <2>2. ~Joined /\ runner \notin {"starting", "returned", "thrown"}
    BY <2>1
  <2>3. runner \in {"collecting", "rethrowing"} => t # "reporter"
    BY <2>1
  <2>4. QED
    BY <2>1, <2>2, <2>3 DEF Threads
<1>3. QED
  BY <1>1, <1>2 DEF Next, Over
-----------------------------------------------------------------------------
DiagnosticsInv == TypeOK /\ LockInv /\ LinesInv /\ RunInv

LEMMA InitDiagnostics == Init => DiagnosticsInv
<1> SUFFICES ASSUME Init PROVE DiagnosticsInv
  OBVIOUS
<1>1. TypeOK
  <2>1. first \in [Threads -> Mutexes]
    BY DEF Init, Threads, Mutexes
  <2>2. owner \in [Mutexes -> Threads \cup {Nobody}]
    BY DEF Init
  <2>3. 0 \in 0 .. MaxIterations /\ NoMetrics \in [iteration : Iterations \cup {-1}, size : 0 .. 3]
    BY DiagnosticsAssumption DEF NoMetrics
  <2>4. logBuffer \in Seq(Iterations) /\ drainedBuffer \in Seq(Iterations)
        /\ reported \in Seq(Iterations)
    BY DEF Init
  <2>5. summary \in [iterations : 0 .. MaxIterations, metricCount : 0 .. 3]
        /\ iteration \in 0 .. MaxIterations /\ metricCount \in 0 .. 3
    BY <2>3 DEF Init
  <2>6. QED
    BY <2>1, <2>2, <2>3, <2>4, <2>5 DEF Init, TypeOK
<1>2. LockInv /\ RunInv
  BY DEF Init, LockInv, RunInv, Inside
<1>3. LinesInv
  BY DEF Init, LinesInv, Written, Updated, Threads
<1>4. QED
  BY <1>1, <1>2, <1>3 DEF DiagnosticsInv

LEMMA StepDiagnostics == DiagnosticsInv /\ [Next]_vars => DiagnosticsInv'
BY TypeKept, LockKept, LinesKept, RunKept DEF DiagnosticsInv

LEMMA DiagnosticsInvariant == Spec => []DiagnosticsInv
BY InitDiagnostics, StepDiagnostics, PTL DEF Spec

(* The variables of the collector, the reporter and run keep their types. *)
THEOREM TypeCorrect == Spec => []TypeOK
<1>1. DiagnosticsInv => TypeOK
  BY DEF DiagnosticsInv
<1>2. QED
  BY <1>1, DiagnosticsInvariant, PTL

(* Inside both mutexes the reporter finds the work of whole iterations. *)
THEOREM ReporterCorrect == Spec => []ReporterSeesWholeIterations
<1>1. DiagnosticsInv => ReporterSeesWholeIterations
  <2> SUFFICES ASSUME DiagnosticsInv, at["reporter"] = "draining"
               PROVE  LET lines == reported \o logBuffer
                      IN  /\ \A m \in Mutexes : owner[m] = "reporter"
                          /\ metrics = IF lines = <<>> THEN NoMetrics
                                       ELSE [iteration |-> lines[Len(lines)], size |-> 3]
    BY DEF ReporterSeesWholeIterations
  <2> DEFINE lines == reported \o logBuffer
  <2>1. \A m \in Mutexes : owner[m] = "reporter"
    BY DEF DiagnosticsInv, LockInv, Inside, Threads
  <2>2. drainedBuffer = <<>> /\ at["collector"] # "appending"
    BY Exclusion DEF DiagnosticsInv, LinesInv, Inside
  <2>3. Updated = Len(lines) /\ Len(lines) = Len(reported) + Len(logBuffer)
    BY <2>2 DEF DiagnosticsInv, TypeOK, Updated, Written
  <2>4. CASE lines = <<>>
    BY <2>1, <2>3, <2>4 DEF DiagnosticsInv, LinesInv
  <2>5. CASE lines # <<>>
    <3>1. lines[Len(lines)] = Len(lines) - 1 /\ Len(lines) # 0
      BY <2>2, <2>3, <2>5 DEF DiagnosticsInv, TypeOK, LinesInv
    <3>2. QED
      BY <2>1, <2>3, <2>5, <3>1 DEF DiagnosticsInv, LinesInv
  <2>6. QED
    BY <2>4, <2>5
<1>2. QED
  BY <1>1, DiagnosticsInvariant, PTL

(* Every line is logged, drained or buffered once and in order. *)
THEOREM LinesCorrect == Spec => []LinesAccounted
<1>1. DiagnosticsInv => LinesAccounted
  <2> SUFFICES ASSUME DiagnosticsInv PROVE LinesAccounted
    OBVIOUS
  <2> DEFINE lines == reported \o drainedBuffer \o logBuffer
  <2>1. /\ Len(lines) = Written
        /\ \A i \in 1 .. Len(lines) : lines[i] = i - 1
    BY DEF DiagnosticsInv, TypeOK, LinesInv, Written
  <2>2. iteration - Len(lines) \in 0 .. 1
    BY <2>1 DEF DiagnosticsInv, TypeOK, LinesInv, Written
  <2>3. QED
    BY <2>1, <2>2 DEF LinesAccounted, DiagnosticsInv, LinesInv
<1>2. QED
  BY <1>1, DiagnosticsInvariant, PTL

(* run leaves no thread behind, and what it logs last is exact. *)
THEOREM SummaryCorrect == Spec => []SummaryIsExact
<1>1. DiagnosticsInv => SummaryIsExact
  <2> SUFFICES ASSUME DiagnosticsInv, runner \in {"returned", "thrown"} PROVE SummaryIsExact
    BY DEF SummaryIsExact
  <2>1. Joined
    BY DEF DiagnosticsInv, RunInv
  <2>2. drainedBuffer = <<>> /\ Updated = iteration /\ iteration = Len(reported) + Len(logBuffer)
    BY <2>1 DEF DiagnosticsInv, TypeOK, LinesInv, Joined, Threads, Updated, Written
  <2>3. metrics.size = IF iteration = 0 THEN 0 ELSE 3
    BY <2>2 DEF DiagnosticsInv, LinesInv, NoMetrics
  <2>4. QED
    BY <2>1, <2>2, <2>3 DEF SummaryIsExact, DiagnosticsInv, RunInv, Joined
<1>2. QED
  BY <1>1, DiagnosticsInvariant, PTL-----------------------------------------------------------------------------
(***************************************************************************)
(* A thread that owns a mutex is inside, or has it as its first one and is *)
(* about to try the other, which succeeds or fails at once.  So nobody who *)
(* blocks on a mutex keeps the other thread from one.                      *)
(***************************************************************************)
NobodyBlocksHolding ==
    \A t \in Threads, m \in Mutexes :
        owner[m] = t => Inside(t) \/ (at[t] = "trying" /\ m = first[t])

LEMMA HoldersKept ==
    ASSUME TypeOK, NobodyBlocksHolding, [Next]_vars
    PROVE  NobodyBlocksHolding'
<1> USE DEF TypeOK, NobodyBlocksHolding, Inside, Goes
<1>1. CASE RunnerStep \/ RaiseStop \/ UNCHANGED vars
  <2>1. RunnerStep => NobodyBlocksHolding'
    BY DEF RunnerStep, StartCollector, StartReporter, Rethrow, Summarise, lockVars, Threads
  <2>2. QED
    BY <1>1, <2>1 DEF RaiseStop, vars, lockVars
<1>2. ASSUME NEW t \in Threads, ThreadStep(t)
      PROVE  NobodyBlocksHolding'
  <2>1. CASE LockFirst(t)
    BY <2>1 DEF LockFirst, Threads, Nobody
  <2>2. CASE TrySucceeds(t)
    <3>1. at'[t] \in {"updating", "draining"}
      BY <2>2 DEF TrySucceeds, EntersAs
    <3>2. ASSUME NEW u \in Threads \ {t}
          PROVE  at'[u] = at[u] /\ \A m \in Mutexes : owner'[m] = u => owner[m] = u
      BY <2>2, <3>2, OtherMutex DEF TrySucceeds
    <3>3. QED
      BY <2>2, <3>1, <3>2 DEF TrySucceeds
  <2>3. CASE TryFails(t)
    <3>1. PICK m \in Mutexes : first' = [first EXCEPT ![t] = m]
      BY <2>3 DEF TryFails
    <3>2. QED
      BY <2>3, <3>1 DEF TryFails, Threads, Nobody
  <2>4. CASE CollectorUnlocks \/ ReporterUnlocks
    BY <2>4 DEF CollectorUnlocks, ReporterUnlocks, UnlockBoth, Threads, Nobody
  <2>5. CASE \/ CollectorBegins \/ UpdateMetrics \/ AppendLine
             \/ ReporterTestsStop \/ Drain \/ Report
    BY <2>5 DEF CollectorBegins, UpdateMetrics, AppendLine, ReporterTestsStop, Drain, Report,
                lockVars, Threads
  <2>6. QED
    BY <1>2, <2>1, <2>2, <2>3, <2>4, <2>5 DEF ThreadStep
<1>3. QED
  BY <1>1, <1>2 DEF Next, Over

(***************************************************************************)
(* The opposite lock orders of diagnostics.h make no circle: std::lock     *)
(* never waits for a mutex with another one in its hands.                  *)
(***************************************************************************)
THEOREM LocksMakeNoCircle == Spec => []NobodyBlocksHolding
<1>1. Init => NobodyBlocksHolding
  BY DEF Init, NobodyBlocksHolding, Threads, Nobody
<1>2. DiagnosticsInv => TypeOK
  BY DEF DiagnosticsInv
<1>3. QED
  BY <1>1, <1>2, HoldersKept, DiagnosticsInvariant, PTL DEF Spec
=============================================================================
