--------------------------- MODULE HarnessProofs ---------------------------
(***************************************************************************)
(* Proofs about Harness for every number of tests of every kind: what      *)
(* tests use outlives them, "finished early" is true, last words reach the *)
(* file and nothing outlives main.  And, at the end, about TestContext,    *)
(* for any number of arguments: what main is told is what they say.        *)
(***************************************************************************)
EXTENDS Harness, TestContext, FiniteSetTheorems, TLAPS

Bodies == {"idle", "running", "forking", "joining", "rethrowing", "returned", "flushing",
           "leaving", "over"}
BeforeLastWord == {"idle", "running", "forking", "joining", "rethrowing", "returned"}
Forked == {"forking", "joining", "rethrowing"}

(* main takes things down, or has done so, or there is no main any more. *)
Ended == main \in {"returned", "failed"}
Down == Clearing \/ Ended \/ main \in {"terminated", "hung"}

(***************************************************************************)
(* Tasks: those in their bodies have been started and have not finished,   *)
(* and when main takes things down all that were submitted have finished.  *)
(***************************************************************************)
TasksInv ==
    /\ started \subseteq 0 .. submitted - 1
    /\ \A t \in Tests : t \in started <=> body[t] # "idle"
    /\ \A t \in finished : body[t] = "over"
    /\ Down => finished = 0 .. submitted - 1
    /\ main \in {"entered", "configuring", "hung"} => submitted = 0
    /\ main \in {"submitting", "heartbeat", "stopping", "waiting"} => configured = NumTests
    /\ submitted > 0 => configured = NumTests
    /\ main \in {"heartbeat", "stopping", "waiting", "clearing", "returned"}
         => submitted = NumTests
    /\ \A t \in Tests : inner[t] # {} => body[t] \in Forked
    /\ lingering \cup stranded \subseteq started
    /\ \A t \in stranded : body[t] \in {"leaving", "over"}

(***************************************************************************)
(* Objects: nothing is gone before main takes things down, and in the end  *)
(* nothing is left.                                                        *)
(***************************************************************************)
ObjectsInv ==
    /\ stopGone \/ destroyed # {} => Down
    /\ (lingering \cup stranded \cup pools) \cap destroyed = {}
    /\ stopGone => main \in {"unwindClearing", "terminated"} \/ Ended
    /\ main = "terminated" => lingering = {}
    /\ main = "entered" => configured = 0 /\ pools = {}
    /\ main # "entered" /\ ~Ended => MainPool \in pools
    /\ ~shared /\ ~Ended => \A t \in Tests \ destroyed : t < configured => t \in pools
    /\ Ended => lingering = {} /\ stranded = {} /\ pools = {}

(* The counter counts who is submitted and not over, and a task that submit refused. *)
Pending == {t \in Tests : t < submitted /\ body[t] # "over"}
CountInv ==
    /\ activeTestsCount \in {Cardinality(Pending), Cardinality(Pending) + 1}
    /\ activeTestsCount # Cardinality(Pending) =>
          /\ submitted < NumTests
          /\ main \in {"unwinding", "unwindWaiting", "unwindClearing", "failed",
                       "terminated"}

(* Last words: not said too early, queued only where a worker writes, never refused. *)
WordsInv ==
    \A t \in Tests :
        /\ body[t] \in BeforeLastWord \/ t \in stranded => lastWord[t] = "unsaid"
        /\ lastWord[t] # "refused"
        /\ lastWord[t] = "queued" => Log!PoolOf(t) \in pools
        /\ lastWord[t] = "dropped" => stress /\ (shared \/ QueueSize = 1)

HarnessInv == TypeOK /\ TasksInv /\ ObjectsInv /\ CountInv /\ WordsInv
-----------------------------------------------------------------------------
(* While a task has begun and not finished, main does not take anything down. *)
LEMMA InBodyIsUp ==
    ASSUME TypeOK, TasksInv, NEW t \in Tests, body[t] # "idle", t \notin finished
    PROVE  ~Down /\ t < submitted /\ t \in started /\ configured = NumTests /\ main # "entered"
<1>1. t \in started
  BY DEF TasksInv
<1>2. submitted \in Nat /\ t \in 0 .. submitted - 1
  BY <1>1, HarnessAssumption DEF TasksInv, TypeOK
<1>3. QED
  BY <1>1, <1>2 DEF TasksInv

(* So the pool it logs to exists, and so do stop and the test itself. *)
LEMMA InBodyIsLive ==
    ASSUME TypeOK, TasksInv, ObjectsInv, NEW t \in Tests, InBody(t)
    PROVE  t \notin destroyed /\ ~stopGone /\ Log!PoolOf(t) \in pools
<1>0. body[t] # "idle" /\ t \notin finished
  BY DEF InBody, TasksInv
<1>1. ~Down /\ configured = NumTests /\ main # "entered" /\ t < NumTests
  BY <1>0, InBodyIsUp, HarnessAssumption DEF Tests
<1>2. destroyed = {} /\ ~stopGone /\ ~Ended
  BY <1>1 DEF ObjectsInv, Down
<1>3. Log!PoolOf(t) \in pools
  BY <1>1, <1>2 DEF ObjectsInv, Log!PoolOf
<1>4. QED
  BY <1>2, <1>3

(* The submitted tests that are not over are finitely many. *)
LEMMA PendingCount ==
    ASSUME TypeOK
    PROVE  /\ IsFiniteSet(Pending) /\ Cardinality(Pending) \in Nat
           /\ Cardinality(Pending) <= submitted
           /\ \A t \in Pending : /\ Cardinality(Pending \ {t}) = Cardinality(Pending) - 1
                                 /\ Cardinality(Pending) >= 1
           /\ \A t \in Tests \ Pending : Cardinality(Pending \cup {t}) = Cardinality(Pending) + 1
           /\ Cardinality(Pending) = 0 => Pending = {}
<1>1. submitted \in Nat /\ Pending \subseteq 0 .. submitted - 1
  BY HarnessAssumption DEF TypeOK, Pending, Tests
<1>2. IsFiniteSet(0 .. submitted - 1) /\ Cardinality(0 .. submitted - 1) = submitted
  BY <1>1, FS_Interval
<1>3. IsFiniteSet(Pending) /\ Cardinality(Pending) <= submitted
  BY <1>1, <1>2, FS_Subset
<1>4. Cardinality(Pending) \in Nat
  BY <1>3, FS_CardinalityType
<1>5. ASSUME NEW t \in Pending
      PROVE  Cardinality(Pending \ {t}) = Cardinality(Pending) - 1 /\ Cardinality(Pending) >= 1
  <2>1. IsFiniteSet(Pending \ {t}) /\ Cardinality(Pending \ {t}) = Cardinality(Pending) - 1
    BY <1>3, FS_RemoveElement
  <2>2. Cardinality(Pending \ {t}) \in Nat
    BY <2>1, FS_CardinalityType
  <2>3. QED
    BY <1>4, <2>1, <2>2
<1>6. \A t \in Tests \ Pending : Cardinality(Pending \cup {t}) = Cardinality(Pending) + 1
  BY <1>3, FS_AddElement
<1>7. Cardinality(Pending) = 0 => Pending = {}
  BY <1>3, FS_EmptySet
<1>8. QED
  BY <1>3, <1>4, <1>5, <1>6, <1>7

LEMMA InitHarness == Init => HarnessInv
<1> SUFFICES ASSUME Init PROVE HarnessInv
  OBVIOUS
<1> USE DEF Init, Pool!Init, Log!Init
<1>0. NumTests \in Nat
  BY HarnessAssumption
<1>1. TypeOK
  <2>1. Log!TypeOK
    BY DEF Log!TypeOK
  <2>2. /\ body \in [Tests -> Bodies] /\ inner \in [Tests -> SUBSET InnerThreads]
        /\ {submitted, configured, activeTestsCount} \subseteq 0 .. NumTests
    BY <1>0 DEF Bodies
  <2>3. QED
    BY <2>1, <2>2 DEF TypeOK, Bodies
<1>2. TasksInv
  BY <1>0 DEF TasksInv, Tests, Down, Clearing, Ended
<1>3. ObjectsInv
  BY <1>0 DEF ObjectsInv, Tests, Down, Clearing, Ended
<1>4. CountInv
  <2>1. Pending = {}
    BY DEF Pending, Tests
  <2>2. QED
    BY <2>1, FS_EmptySet DEF CountInv
<1>5. WordsInv
  BY DEF WordsInv
<1>6. QED
  BY <1>1, <1>2, <1>3, <1>4, <1>5 DEF HarnessInv
-----------------------------------------------------------------------------
(* What opening, posting, writing and closing do to the pools and the last words. *)
PoolNames == Tests \cup {MainPool}
Words == {"unsaid", "queued", "written", "dropped", "refused"}

LogStep ==
    /\ UNCHANGED <<shared, stress>>
    /\ \/ \E p \in PoolNames : Log!Open(p) \/ Log!Post(p) \/ Log!Close(p)
       \/ \E t \in Tests : Log!SayLastWord(t) \/ Log!Flush(t) \/ Log!Write(t)

LEMMA PoolIsNamed ==
    ASSUME NEW t \in Tests
    PROVE  Log!PoolOf(t) \in PoolNames
BY DEF Log!PoolOf, PoolNames

LEMMA PostTyped ==
    ASSUME Log!TypeOK, NEW p, Log!Post(p)
    PROVE  lastWord' \in [Tests -> Words] /\ pools' = pools
<1>1. CASE UNCHANGED lastWord
  BY <1>1 DEF Log!TypeOK, Log!Post, Words
<1>2. ASSUME NEW t \in Tests, lastWord' = [lastWord EXCEPT ![t] = "dropped"]
      PROVE  lastWord' \in [Tests -> Words]
  BY <1>2 DEF Log!TypeOK, Words
<1>3. QED
  BY <1>1, <1>2 DEF Log!Post

LEMMA LogTyped ==
    ASSUME Log!TypeOK, LogStep
    PROVE  Log!TypeOK'
<1> USE DEF Log!TypeOK, Words, LogStep, PoolNames
<1>1. ASSUME NEW p \in PoolNames, Log!Open(p) \/ Log!Close(p)
      PROVE  Log!TypeOK'
  BY <1>1 DEF Log!Open, Log!Close
<1>2. ASSUME NEW p \in PoolNames, Log!Post(p)
      PROVE  Log!TypeOK'
  BY <1>2, PostTyped
<1>3. ASSUME NEW t \in Tests, Log!SayLastWord(t)
      PROVE  Log!TypeOK'
  <2>1. \A w \in Words : [lastWord EXCEPT ![t] = w] \in [Tests -> Words]
    OBVIOUS
  <2>2. QED
    BY <1>3, <2>1 DEF Log!SayLastWord
<1>4. ASSUME NEW t \in Tests, Log!Flush(t)
      PROVE  Log!TypeOK'
  BY <1>4, PostTyped DEF Log!Flush, Log!logVars
<1>5. ASSUME NEW t \in Tests, Log!Write(t)
      PROVE  Log!TypeOK'
  BY <1>5 DEF Log!Write
<1>6. QED
  BY <1>1, <1>2, <1>3, <1>4, <1>5
-----------------------------------------------------------------------------
(* The settings and the loggers, where they may change, change by a step of theirs. *)
LogActions ==
    \/ MakeMainLogger \/ ConfigureTest \/ Heartbeat \/ FinishEarly \/ CloseLogger
    \/ \E t \in Tests : \/ DestroyTest(t) \/ StartTest(t) \/ Chatter(t) \/ LogFinished(t)
                        \/ FlushLogger(t) \/ WriteLastWord(t)

LEMMA ActsOnLogs ==
    ASSUME TypeOK, LogActions
    PROVE  LogStep \/ UNCHANGED logVars
<1>0. MainPool \in PoolNames /\ Tests \subseteq PoolNames
  BY DEF PoolNames
<1>1. CASE MakeMainLogger
  BY <1>0, <1>1 DEF MakeMainLogger, LogStep, logVars
<1>2. CASE ConfigureTest
  <2>1. configured \in PoolNames
    BY <1>2, HarnessAssumption DEF ConfigureTest, TypeOK, PoolNames, Tests
  <2>2. QED
    BY <1>2, <2>1 DEF ConfigureTest, LogStep, logVars
<1>3. CASE Heartbeat \/ FinishEarly \/ CloseLogger
  BY <1>0, <1>3 DEF Heartbeat, FinishEarly, CloseLogger, LogStep
<1>4. ASSUME NEW t \in Tests, DestroyTest(t)
      PROVE  LogStep \/ UNCHANGED logVars
  BY <1>0, <1>4 DEF DestroyTest, LogStep, logVars
<1>5. ASSUME NEW t \in Tests, StartTest(t) \/ Chatter(t)
      PROVE  LogStep
  BY <1>5, PoolIsNamed DEF StartTest, Chatter, LogStep
<1>6. ASSUME NEW t \in Tests, LogFinished(t) \/ FlushLogger(t) \/ WriteLastWord(t)
      PROVE  LogStep
  BY <1>6 DEF LogFinished, FlushLogger, WriteLastWord, LogStep
<1>7. QED
  BY <1>1, <1>2, <1>3, <1>4, <1>5, <1>6 DEF LogActions

(* All the other steps leave the settings and the loggers alone. *)
OtherMainStep ==
    \/ SetupFails \/ PoolStartFails \/ AllConfigured \/ AllSubmitted \/ TimeIsUp
    \/ SubmitTest \/ StopAndWait \/ WaitReturns \/ Unwind \/ UnwindWaitReturns
    \/ \E t \in Tests : DestroyTerminates(t)

OtherTaskStep(t) ==
    \/ LoopEnds(t) \/ LeaveThreadBehind(t) \/ ForkWriter(t) \/ ForkReader(t) \/ InnerJoined(t)
    \/ RunThrows(t) \/ LingererExits(t) \/ CountDownTest(t) \/ FinishTest(t)
    \/ \E x \in InnerThreads : InnerThreadTestsStop(t, x)

LEMMA StepKinds ==
    ASSUME [Next]_vars
    PROVE  \/ UNCHANGED vars \/ LogActions \/ OtherMainStep
           \/ \E t \in Tests : OtherTaskStep(t)
BY DEF Next, MainStep, TaskStep, Over, LogActions, OtherMainStep, OtherTaskStep

LEMMA LogsKept ==
    ASSUME TypeOK, [Next]_vars
    PROVE  LogStep \/ UNCHANGED logVars
<1>1. CASE UNCHANGED vars
  BY <1>1 DEF vars
<1>2. CASE OtherMainStep
  BY <1>2 DEF OtherMainStep, SetupFails, PoolStartFails, AllConfigured, AllSubmitted, TimeIsUp,
              SubmitTest, StopAndWait, WaitReturns, Unwind, UnwindWaitReturns, DestroyTerminates
<1>3. ASSUME NEW t \in Tests, OtherTaskStep(t)
      PROVE  UNCHANGED logVars
  BY <1>3 DEF OtherTaskStep, LoopEnds, LeaveThreadBehind, ForkWriter, ForkReader, InnerJoined,
              RunThrows, LingererExits, CountDownTest, FinishTest, InnerThreadTestsStop
<1>4. QED
  BY <1>1, <1>2, <1>3, ActsOnLogs, StepKinds

LEMMA LogTypeKept ==
    ASSUME TypeOK, [Next]_vars
    PROVE  Log!TypeOK'
<1>1. Log!TypeOK
  BY DEF TypeOK
<1>2. CASE UNCHANGED logVars
  BY <1>1, <1>2 DEF Log!TypeOK, logVars
<1>3. QED
  BY <1>1, <1>2, LogsKept, LogTyped
-----------------------------------------------------------------------------
LEMMA TypeKept ==
    ASSUME HarnessInv, [Next]_vars
    PROVE  TypeOK'
<1> USE DEF HarnessInv
<1>0. /\ NumTests \in Nat /\ submitted \in 0 .. NumTests /\ configured \in 0 .. NumTests
      /\ activeTestsCount \in 0 .. NumTests
  BY HarnessAssumption DEF TypeOK
<1>L. Log!TypeOK'
  BY LogTypeKept
<1>1. CASE UNCHANGED vars
  BY <1>L, <1>1 DEF TypeOK, vars, poolVars, mainVars, taskVars
<1>2. CASE LogActions
  <2>1. CASE MakeMainLogger \/ ConfigureTest
    BY <1>0, <1>L, <2>1 DEF TypeOK, MakeMainLogger, ConfigureTest, poolVars, taskVars
  <2>2. CASE Heartbeat \/ FinishEarly \/ CloseLogger
    BY <1>L, <2>2 DEF TypeOK, Heartbeat, FinishEarly, CloseLogger, mainVars, poolVars, taskVars
  <2>3. ASSUME NEW t \in Tests, DestroyTest(t) \/ Chatter(t) \/ WriteLastWord(t)
        PROVE  TypeOK'
    BY <1>L, <2>3 DEF TypeOK, DestroyTest, Chatter, WriteLastWord, mainVars, poolVars, taskVars
  <2>4. ASSUME NEW t \in Tests, StartTest(t)
        PROVE  TypeOK'
    BY <1>L, <2>4 DEF TypeOK, StartTest, Goes, Pool!Start, mainVars
  <2>5. ASSUME NEW t \in Tests, LogFinished(t) \/ FlushLogger(t)
        PROVE  TypeOK'
    BY <1>L, <2>5 DEF TypeOK, LogFinished, FlushLogger, Goes, mainVars, poolVars
  <2>6. QED
    BY <1>2, <2>1, <2>2, <2>3, <2>4, <2>5 DEF LogActions
<1>3. CASE OtherMainStep
  <2>1. CASE SetupFails \/ PoolStartFails \/ AllConfigured \/ AllSubmitted \/ TimeIsUp
    BY <1>L, <2>1 DEF TypeOK, SetupFails, PoolStartFails, AllConfigured, AllSubmitted, TimeIsUp,
                      poolVars, taskVars
  <2>2. CASE SubmitTest
    <3>1. submitted < NumTests /\ main = "submitting"
      BY <2>2 DEF SubmitTest
    <3>2. activeTestsCount <= submitted
      BY <1>0, <3>1, PendingCount DEF CountInv
    <3>3. activeTestsCount + 1 \in 0 .. NumTests /\ submitted + 1 \in 0 .. NumTests
      BY <1>0, <3>1, <3>2
    <3>4. QED
      BY <1>L, <2>2, <3>3 DEF TypeOK, SubmitTest, CountedUp, Pool!Submit, poolVars
  <2>3. CASE StopAndWait \/ WaitReturns \/ Unwind \/ UnwindWaitReturns
    BY <1>L, <2>3 DEF TypeOK, StopAndWait, Raised, WaitReturns, PoolWaitReturns, Unwind,
                      UnwindWaitReturns, Pool!CallWait, Pool!ReturnFromWait, taskVars
  <2>4. ASSUME NEW t \in Tests, DestroyTerminates(t)
        PROVE  TypeOK'
    BY <1>L, <2>4 DEF TypeOK, DestroyTerminates, poolVars
  <2>5. QED
    BY <1>3, <2>1, <2>2, <2>3, <2>4 DEF OtherMainStep
<1>4. ASSUME NEW t \in Tests, OtherTaskStep(t)
      PROVE  TypeOK'
  <2>1. CASE LoopEnds(t) \/ InnerJoined(t)
    BY <1>L, <2>1 DEF TypeOK, LoopEnds, InnerJoined, Goes, mainVars, poolVars
  <2>2. CASE LeaveThreadBehind(t) \/ RunThrows(t) \/ LingererExits(t)
    <3>1. CASE LeaveThreadBehind(t)
      BY <1>L, <3>1 DEF TypeOK, LeaveThreadBehind, Goes, mainVars, poolVars
    <3>2. CASE RunThrows(t)
      BY <1>L, <3>2 DEF TypeOK, RunThrows, Goes, mainVars, poolVars
    <3>3. CASE LingererExits(t)
      BY <1>L, <3>3 DEF TypeOK, LingererExits, mainVars, poolVars
    <3>4. QED
      BY <2>2, <3>1, <3>2, <3>3
  <2>3. CASE ForkWriter(t) \/ ForkReader(t) \/ \E x \in InnerThreads : InnerThreadTestsStop(t, x)
    BY <1>L, <2>3 DEF TypeOK, ForkWriter, ForkReader, InnerThreadTestsStop, Goes, mainVars,
                      poolVars, InnerThreads
  <2>4. CASE CountDownTest(t)
    <3>1. body[t] = "leaving" /\ t \notin finished
      BY <2>4 DEF CountDownTest, Goes, TasksInv
    <3>2. t \in Pending
      BY <3>1, InBodyIsUp DEF Pending
    <3>3. activeTestsCount \in Nat /\ activeTestsCount >= 1
      BY <1>0, <3>2, PendingCount DEF CountInv
    <3>4. activeTestsCount - 1 \in 0 .. NumTests
      BY <1>0, <3>3
    <3>5. QED
      BY <1>L, <2>4, <3>4 DEF TypeOK, CountDownTest, Goes, mainVars, poolVars
  <2>5. CASE FinishTest(t)
    BY <1>L, <2>5 DEF TypeOK, FinishTest, Pool!Finish, mainVars, taskVars
  <2>6. QED
    BY <1>4, <2>1, <2>2, <2>3, <2>4, <2>5 DEF OtherTaskStep
<1>5. QED
  BY <1>1, <1>2, <1>3, <1>4, StepKinds
-----------------------------------------------------------------------------
LEMMA TasksKept ==
    ASSUME HarnessInv, [Next]_vars, TypeOK'
    PROVE  TasksInv'
<1> USE DEF HarnessInv
<1>0. /\ NumTests \in Nat /\ submitted \in 0 .. NumTests /\ configured \in 0 .. NumTests
      /\ Tests = 0 .. NumTests - 1
      /\ started \cup finished \cup stranded \subseteq Tests
  BY HarnessAssumption DEF TypeOK, Tests
<1> USE DEF TasksInv, Down, Clearing, Ended
<1>1. CASE UNCHANGED vars
  BY <1>1 DEF vars, poolVars, mainVars, taskVars
<1>2. CASE LogActions
  <2>1. CASE MakeMainLogger
    BY <1>0, <2>1 DEF MakeMainLogger, poolVars, taskVars, TypeOK
  <2>2. CASE ConfigureTest
    BY <1>0, <2>2 DEF ConfigureTest, poolVars, taskVars, TypeOK
  <2>3. CASE Heartbeat \/ FinishEarly
    BY <2>3 DEF Heartbeat, FinishEarly, mainVars, poolVars, taskVars
  <2>4. CASE CloseLogger
    BY <2>4 DEF CloseLogger, poolVars, taskVars
  <2>5. ASSUME NEW t \in Tests, DestroyTest(t) \/ Chatter(t) \/ WriteLastWord(t)
        PROVE  TasksInv'
    BY <2>5 DEF DestroyTest, Chatter, WriteLastWord, mainVars, poolVars, taskVars
  <2>6. ASSUME NEW t \in Tests, StartTest(t)
        PROVE  TasksInv'
    BY <1>0, <2>6 DEF StartTest, Goes, Pool!Start, mainVars, TypeOK, Forked
  <2>7. ASSUME NEW t \in Tests, LogFinished(t) \/ FlushLogger(t)
        PROVE  TasksInv'
    <3>1. UNCHANGED <<submitted, started, finished, main, configured, inner, lingering, stranded>>
      BY <2>7 DEF LogFinished, FlushLogger, mainVars, poolVars
    <3>2. body[t] \in {"returned", "flushing"} /\ t \notin stranded /\ t \notin finished
      BY <2>7 DEF LogFinished, FlushLogger, Goes
    <3>3. PICK b \in {"flushing", "leaving"} : body' = [body EXCEPT ![t] = b]
      BY <2>7 DEF LogFinished, FlushLogger, Goes
    <3>4. \A u \in Tests : body'[u] = IF u = t THEN b ELSE body[u]
      BY <3>3 DEF TypeOK
    <3>5. inner[t] = {}
      BY <3>2 DEF Forked
    <3>6. QED
      BY <1>0, <3>1, <3>2, <3>4, <3>5 DEF Forked
  <2>8. QED
    BY <1>2, <2>1, <2>2, <2>3, <2>4, <2>5, <2>6, <2>7 DEF LogActions
<1>3. CASE OtherMainStep
  <2>1. CASE SetupFails \/ PoolStartFails
    <3>1. main = "configuring" /\ submitted = 0
      BY <2>1 DEF SetupFails, PoolStartFails
    <3>2. finished = {} /\ 0 .. submitted - 1 = {}
      BY <1>0, <3>1 DEF TypeOK
    <3>3. QED
      BY <2>1, <3>1, <3>2 DEF SetupFails, PoolStartFails, poolVars, taskVars
  <2>2. CASE AllConfigured \/ AllSubmitted \/ TimeIsUp
    BY <2>2 DEF AllConfigured, AllSubmitted, TimeIsUp, poolVars, taskVars
  <2>3. CASE SubmitTest
    <3>1. UNCHANGED <<configured, body, inner, lingering, stranded>> /\ main = "submitting"
      BY <2>3 DEF SubmitTest
    <3>2. CASE Pool!Submit /\ UNCHANGED main
      <4>1. submitted' = submitted + 1 /\ UNCHANGED <<started, finished>>
        BY <3>2 DEF Pool!Submit
      <4>2. started \subseteq 0 .. submitted' - 1 /\ submitted' <= NumTests
        BY <1>0, <2>3, <4>1 DEF SubmitTest
      <4>3. QED
        BY <3>1, <3>2, <4>1, <4>2
    <3>3. CASE main' = "unwinding" /\ UNCHANGED poolVars
      BY <3>1, <3>3 DEF poolVars
    <3>4. QED
      BY <2>3, <3>2, <3>3 DEF SubmitTest
  <2>4. CASE StopAndWait \/ Unwind
    BY <2>4 DEF StopAndWait, Unwind, Pool!CallWait, taskVars
  <2>5. CASE WaitReturns \/ UnwindWaitReturns
    BY <2>5 DEF WaitReturns, PoolWaitReturns, UnwindWaitReturns, Pool!ReturnFromWait,
                Pool!AllFinished, taskVars
  <2>6. ASSUME NEW t \in Tests, DestroyTerminates(t)
        PROVE  TasksInv'
    BY <2>6 DEF DestroyTerminates, NextToDestroy, poolVars
  <2>7. QED
    BY <1>3, <2>1, <2>2, <2>3, <2>4, <2>5, <2>6 DEF OtherMainStep
<1>4. ASSUME NEW t \in Tests, OtherTaskStep(t)
      PROVE  TasksInv'
  <2>1. CASE LoopEnds(t) \/ RunThrows(t)
    <3>1. /\ UNCHANGED <<submitted, started, finished, main, configured, inner>>
          /\ lingering' \cup stranded' \subseteq lingering \cup stranded \cup {t}
          /\ stranded' \subseteq Tests
      BY <1>0, <2>1 DEF LoopEnds, RunThrows, mainVars, poolVars
    <3>2. body[t] = "running" /\ t \in started /\ t \notin finished /\ inner[t] = {}
      BY <2>1 DEF LoopEnds, RunThrows, Goes, Forked
    <3>3. PICK b \in {"returned", "leaving"} : body' = [body EXCEPT ![t] = b]
      BY <2>1 DEF LoopEnds, RunThrows, Goes
    <3>4. \A u \in Tests : body'[u] = IF u = t THEN b ELSE body[u]
      BY <3>3 DEF TypeOK
    <3>5. \A u \in stranded' : body'[u] \in {"leaving", "over"}
      <4>1. CASE LoopEnds(t)
        BY <1>0, <3>2, <3>4, <4>1 DEF LoopEnds
      <4>2. CASE RunThrows(t)
        <5>1. body'[t] = "leaving" /\ stranded' \subseteq stranded \cup {t}
          BY <4>2 DEF RunThrows, Goes, TypeOK
        <5>2. QED
          BY <1>0, <3>4, <5>1
      <4>3. QED
        BY <2>1, <4>1, <4>2
    <3>6. QED
      BY <1>0, <3>1, <3>2, <3>4, <3>5 DEF Forked
  <2>2. CASE InnerJoined(t)
    <3>1. body[t] \in {"joining", "rethrowing"} /\ t \notin stranded
      BY <2>2 DEF InnerJoined, Goes
    <3>2. /\ UNCHANGED <<submitted, started, finished, main, configured, inner, lingering>>
          /\ UNCHANGED stranded /\ inner[t] = {}
      BY <2>2 DEF InnerJoined, mainVars, poolVars
    <3>3. PICK b \in {"returned", "leaving"} : body' = [body EXCEPT ![t] = b]
      BY <2>2 DEF InnerJoined, Goes
    <3>4. \A u \in Tests : body'[u] = IF u = t THEN b ELSE body[u]
      BY <3>3 DEF TypeOK
    <3>5. QED
      BY <1>0, <3>1, <3>2, <3>4 DEF Forked
  <2>3. CASE LeaveThreadBehind(t) \/ LingererExits(t)
    <3>1. CASE LeaveThreadBehind(t)
      BY <3>1 DEF LeaveThreadBehind, Goes, mainVars, poolVars, TypeOK, Forked
    <3>2. CASE LingererExits(t)
      BY <3>2 DEF LingererExits, mainVars, poolVars, TypeOK, Forked
    <3>3. QED
      BY <2>3, <3>1, <3>2
  <2>4. CASE ForkWriter(t) \/ ForkReader(t)
    <3>1. UNCHANGED <<submitted, started, finished, main, configured, lingering, stranded>>
      BY <2>4 DEF ForkWriter, ForkReader, mainVars, poolVars
    <3>2. body[t] # "idle" /\ t \notin finished /\ t \notin stranded
      BY <2>4 DEF ForkWriter, ForkReader, Goes
    <3>3. PICK b \in Forked : body' = [body EXCEPT ![t] = b]
      BY <2>4 DEF ForkWriter, ForkReader, Goes, Forked
    <3>4. \A u \in Tests : body'[u] = IF u = t THEN b ELSE body[u]
      BY <3>3 DEF TypeOK
    <3>5. \A u \in Tests : u # t => inner'[u] = inner[u]
      BY <2>4 DEF ForkWriter, ForkReader, TypeOK
    <3>6. QED
      BY <1>0, <3>1, <3>2, <3>4, <3>5 DEF Forked, TypeOK
  <2>5. CASE \E x \in InnerThreads : InnerThreadTestsStop(t, x)
    BY <2>5 DEF InnerThreadTestsStop, mainVars, poolVars, TypeOK, Forked
  <2>6. CASE CountDownTest(t)
    BY <2>6 DEF CountDownTest, Goes, mainVars, poolVars, TypeOK, Forked
  <2>7. CASE FinishTest(t)
    <3>1. t \in started /\ t \notin finished /\ body[t] = "over"
      BY <2>7 DEF FinishTest, Pool!Finish
    <3>2. ~Down
      BY <3>1, InBodyIsUp DEF TypeOK
    <3>3. QED
      BY <2>7, <3>1, <3>2 DEF FinishTest, Pool!Finish, mainVars, taskVars
  <2>8. QED
    BY <1>4, <2>1, <2>2, <2>3, <2>4, <2>5, <2>6, <2>7 DEF OtherTaskStep
<1>5. QED
  BY <1>1, <1>2, <1>3, <1>4, StepKinds
-----------------------------------------------------------------------------
LEMMA ObjectsKept ==
    ASSUME HarnessInv, [Next]_vars, TypeOK'
    PROVE  ObjectsInv'
<1> USE DEF HarnessInv
<1>0. /\ NumTests \in Nat /\ configured \in 0 .. NumTests
      /\ Tests = 0 .. NumTests - 1 /\ MainPool = NumTests /\ MainPool \notin Tests
      /\ pools \subseteq Tests \cup {MainPool} /\ lingering \cup stranded \subseteq Tests
  BY HarnessAssumption DEF TypeOK, Log!TypeOK, Tests, MainPool
<1> USE DEF ObjectsInv, Down, Clearing, Ended
<1>1. CASE UNCHANGED vars
  BY <1>1 DEF vars, logVars, mainVars, taskVars
<1>2. CASE LogActions
  <2>1. CASE MakeMainLogger
    <3>1. configured = 0 /\ pools = {} /\ destroyed = {}
      BY <2>1 DEF MakeMainLogger
    <3>2. CASE main' = "configuring" /\ Log!Open(MainPool)
      BY <1>0, <2>1, <3>1, <3>2 DEF MakeMainLogger, Log!Open, taskVars
    <3>3. CASE main' = "failed" /\ UNCHANGED <<pools, lastWord>>
      <4>1. lingering = {} /\ stranded = {}
        BY <1>0, <2>1 DEF MakeMainLogger, TasksInv
      <4>2. QED
        BY <2>1, <3>1, <3>3, <4>1 DEF MakeMainLogger, taskVars
    <3>4. QED
      BY <2>1, <3>2, <3>3 DEF MakeMainLogger
  <2>2. CASE ConfigureTest
    <3>1. destroyed = {} /\ pools \subseteq pools' /\ (~shared => configured \in pools')
      BY <2>2 DEF ConfigureTest, Log!Open
    <3>2. \A t \in Tests : t < configured + 1 => t < configured \/ t = configured
      BY <1>0
    <3>3. QED
      BY <2>2, <3>1, <3>2 DEF ConfigureTest, taskVars
  <2>3. CASE Heartbeat \/ FinishEarly
    BY <2>3 DEF Heartbeat, FinishEarly, Log!Post, mainVars, taskVars
  <2>4. CASE CloseLogger
    BY <1>0, <2>4 DEF CloseLogger, Log!Close, taskVars
  <2>5. ASSUME NEW t \in Tests, DestroyTest(t)
        PROVE  ObjectsInv'
    <3>1. pools' = pools \ {t}
      BY <2>5 DEF DestroyTest, Log!Close
    <3>2. t \notin lingering \cup stranded /\ destroyed' = destroyed \cup {t} /\ Down
      BY <2>5 DEF DestroyTest, BackgroundJoined, NextToDestroy
    <3>3. QED
      BY <1>0, <2>5, <3>1, <3>2 DEF DestroyTest, taskVars
  <2>6. ASSUME NEW t \in Tests, StartTest(t) \/ Chatter(t)
        PROVE  ObjectsInv'
    BY <2>6 DEF StartTest, Chatter, Log!Post, mainVars, taskVars
  <2>7. ASSUME NEW t \in Tests, LogFinished(t) \/ FlushLogger(t) \/ WriteLastWord(t)
        PROVE  ObjectsInv'
    BY <2>7 DEF LogFinished, FlushLogger, WriteLastWord, Log!SayLastWord, Log!Flush, Log!Write,
                Log!Post, Log!logVars, mainVars, taskVars
  <2>8. QED
    BY <1>2, <2>1, <2>2, <2>3, <2>4, <2>5, <2>6, <2>7 DEF LogActions
<1>3. CASE OtherMainStep
  <2>1. CASE PoolStartFails
    <3>1. lingering = {}
      BY <1>0, <2>1 DEF PoolStartFails, TasksInv
    <3>2. QED
      BY <2>1, <3>1 DEF PoolStartFails, logVars, taskVars
  <2>2. ASSUME NEW t \in Tests, DestroyTerminates(t)
        PROVE  ObjectsInv'
    BY <2>2 DEF DestroyTerminates, NextToDestroy, logVars
  <2>3. CASE ~PoolStartFails /\ \A t \in Tests : ~DestroyTerminates(t)
    BY <1>3, <2>3 DEF OtherMainStep, SetupFails, AllConfigured, AllSubmitted, TimeIsUp, SubmitTest,
                      StopAndWait, WaitReturns, Unwind, UnwindWaitReturns, logVars, taskVars
  <2>4. QED
    BY <2>1, <2>2, <2>3
<1>4. ASSUME NEW t \in Tests, OtherTaskStep(t)
      PROVE  ObjectsInv'
  <2>1. UNCHANGED <<mainVars, logVars>>
    BY <1>4 DEF OtherTaskStep, LoopEnds, LeaveThreadBehind, ForkWriter, ForkReader, InnerJoined,
                RunThrows, LingererExits, CountDownTest, FinishTest, InnerThreadTestsStop
  <2>2. \/ lingering' \subseteq lingering /\ stranded' = stranded
        \/ /\ body[t] = "running"
           /\ lingering' \cup stranded' \subseteq lingering \cup stranded \cup {t}
    <3>1. CASE LeaveThreadBehind(t) \/ RunThrows(t)
      BY <3>1 DEF LeaveThreadBehind, RunThrows, Goes
    <3>2. CASE ~(LeaveThreadBehind(t) \/ RunThrows(t))
      BY <1>4, <3>2 DEF OtherTaskStep, LoopEnds, ForkWriter, ForkReader, InnerJoined,
                        LingererExits, CountDownTest, FinishTest, InnerThreadTestsStop, taskVars
    <3>3. QED
      BY <3>1, <3>2
  <2>3. CASE lingering' \subseteq lingering /\ stranded' = stranded
    BY <2>1, <2>3 DEF mainVars, logVars
  <2>4. CASE /\ body[t] = "running"
             /\ lingering' \cup stranded' \subseteq lingering \cup stranded \cup {t}
    <3>1. t \notin destroyed /\ ~Down
      BY <2>4, InBodyIsLive, InBodyIsUp DEF InBody, TasksInv
    <3>2. QED
      BY <2>1, <2>4, <3>1 DEF mainVars, logVars
  <2>5. QED
    BY <2>2, <2>3, <2>4
<1>5. QED
  BY <1>1, <1>2, <1>3, <1>4, StepKinds
-----------------------------------------------------------------------------
(* The steps that neither submit a task nor end one. *)
LEMMA SamePending ==
    ASSUME TypeOK, submitted' = submitted, CountInv,
           \A t \in Tests : (body'[t] = "over") = (body[t] = "over"),
           activeTestsCount' = activeTestsCount,
           \/ main' = main
           \/ main \notin {"unwinding", "unwindWaiting", "unwindClearing", "failed",
                       "terminated"}
           \/ main' \in {"unwinding", "unwindWaiting", "unwindClearing", "failed",
                       "terminated"}
    PROVE  CountInv'
<1>1. Pending' = Pending
  BY DEF Pending
<1>2. QED
  BY <1>1 DEF CountInv

LEMMA CountKept ==
    ASSUME HarnessInv, [Next]_vars
    PROVE  CountInv'
<1> USE DEF HarnessInv
<1>0. NumTests \in Nat /\ submitted \in 0 .. NumTests /\ Tests = 0 .. NumTests - 1
  BY HarnessAssumption DEF TypeOK, Tests
<1>1. CASE UNCHANGED vars
  BY <1>1, SamePending DEF vars, poolVars, mainVars, taskVars
<1>2. CASE LogActions
  <2>1. CASE MakeMainLogger \/ ConfigureTest \/ Heartbeat \/ FinishEarly \/ CloseLogger
    BY <2>1, SamePending DEF MakeMainLogger, ConfigureTest, Heartbeat, FinishEarly, CloseLogger,
       Clearing, mainVars, poolVars, taskVars
  <2>2. ASSUME NEW t \in Tests, DestroyTest(t) \/ Chatter(t) \/ WriteLastWord(t)
        PROVE  CountInv'
    BY <2>2, SamePending DEF DestroyTest, Chatter, WriteLastWord, mainVars, poolVars, taskVars
  <2>3. ASSUME NEW t \in Tests, StartTest(t) \/ LogFinished(t) \/ FlushLogger(t)
        PROVE  CountInv'
    <3>1. UNCHANGED <<submitted, main, activeTestsCount>>
      BY <2>3 DEF StartTest, LogFinished, FlushLogger, Pool!Start, mainVars, poolVars
    <3>2. \A u \in Tests : (body'[u] = "over") = (body[u] = "over")
      BY <2>3 DEF StartTest, LogFinished, FlushLogger, Goes, TypeOK
    <3>3. QED
      BY <3>1, <3>2, SamePending
  <2>4. QED
    BY <1>2, <2>1, <2>2, <2>3 DEF LogActions
<1>3. CASE OtherMainStep
  <2>1. CASE SubmitTest
    <3>1. submitted \in Tests /\ UNCHANGED body
      BY <1>0, <2>1 DEF SubmitTest
    <3>2. activeTestsCount = Cardinality(Pending) /\ activeTestsCount' = Cardinality(Pending) + 1
      BY <2>1 DEF SubmitTest, CountedUp, CountInv
    <3>3. CASE Pool!Submit
      <4>1. submitted' = submitted + 1
        BY <3>3 DEF Pool!Submit
      <4>2. submitted \notin started /\ body[submitted] # "over"
        BY <1>0, <3>1 DEF TasksInv
      <4>3. Pending' = Pending \cup {submitted} /\ submitted \notin Pending
        BY <1>0, <3>1, <4>1, <4>2 DEF Pending
      <4>4. Cardinality(Pending') = Cardinality(Pending) + 1
        BY <3>1, <4>3, PendingCount
      <4>5. QED
        BY <3>2, <4>4 DEF CountInv
    <3>4. CASE main' = "unwinding" /\ UNCHANGED poolVars
      <4>1. Pending' = Pending /\ submitted' < NumTests
        BY <2>1, <3>1, <3>4 DEF Pending, SubmitTest, poolVars
      <4>2. QED
        BY <3>2, <3>4, <4>1 DEF CountInv
    <3>5. QED
      BY <2>1, <3>3, <3>4 DEF SubmitTest
  <2>2. CASE SetupFails \/ PoolStartFails \/ AllConfigured \/ AllSubmitted \/ TimeIsUp
    BY <2>2, SamePending DEF SetupFails, PoolStartFails, AllConfigured, AllSubmitted, TimeIsUp,
       poolVars, taskVars
  <2>3. CASE StopAndWait \/ WaitReturns \/ Unwind \/ UnwindWaitReturns
    BY <2>3, SamePending DEF StopAndWait, WaitReturns, PoolWaitReturns, Unwind, UnwindWaitReturns,
       Pool!CallWait, Pool!ReturnFromWait, taskVars
  <2>4. ASSUME NEW t \in Tests, DestroyTerminates(t)
        PROVE  CountInv'
    BY <2>4, SamePending DEF DestroyTerminates, poolVars
  <2>5. QED
    BY <1>3, <2>1, <2>2, <2>3, <2>4 DEF OtherMainStep
<1>4. ASSUME NEW t \in Tests, OtherTaskStep(t)
      PROVE  CountInv'
  <2>1. UNCHANGED <<submitted, main>>
    BY <1>4 DEF OtherTaskStep, LoopEnds, LeaveThreadBehind, ForkWriter, ForkReader, InnerJoined,
                RunThrows, LingererExits, CountDownTest, FinishTest, InnerThreadTestsStop,
                Pool!Finish, poolVars, mainVars
  <2>2. CASE CountDownTest(t)
    <3>1. body[t] = "leaving" /\ body' = [body EXCEPT ![t] = "over"]
      BY <2>2 DEF CountDownTest, Goes
    <3>2. t \in Pending
      BY <3>1, InBodyIsUp DEF Pending, TasksInv
    <3>3. Pending' = Pending \ {t}
      BY <2>1, <3>1 DEF Pending, TypeOK
    <3>4. Cardinality(Pending') = Cardinality(Pending) - 1 /\ Cardinality(Pending) \in Nat
      BY <3>2, <3>3, PendingCount
    <3>5. activeTestsCount' = activeTestsCount - 1
      BY <2>2 DEF CountDownTest
    <3>6. QED
      BY <2>1, <3>4, <3>5 DEF CountInv
  <2>3. CASE ~CountDownTest(t)
    <3>1. UNCHANGED activeTestsCount
      BY <1>4, <2>3 DEF OtherTaskStep, LoopEnds, LeaveThreadBehind, ForkWriter, ForkReader,
         InnerJoined, RunThrows, LingererExits, FinishTest, InnerThreadTestsStop, taskVars
    <3>2. \A u \in Tests : (body'[u] = "over") = (body[u] = "over")
      BY <1>4, <2>3 DEF OtherTaskStep, LoopEnds, LeaveThreadBehind, ForkWriter, ForkReader,
         InnerJoined, RunThrows, LingererExits, FinishTest, InnerThreadTestsStop, taskVars, Goes,
         TypeOK
    <3>3. QED
      BY <2>1, <3>1, <3>2, SamePending
  <2>4. QED
    BY <2>2, <2>3
<1>5. QED
  BY <1>1, <1>2, <1>3, <1>4, StepKinds
-----------------------------------------------------------------------------
(* A message that is posted drops a last word only where others use the queue or one fits. *)
LEMMA PostSpares ==
    ASSUME TypeOK, WordsInv, NEW p, Log!Post(p), UNCHANGED <<shared, stress, stranded>>,
           \A t \in Tests : body'[t] \in BeforeLastWord => body[t] \in BeforeLastWord,
           \A t \in Tests : Log!PoolOf(t) = p /\ lastWord[t] = "queued" => shared \/ QueueSize = 1
    PROVE  WordsInv'
<1>1. pools' = pools /\ \A t \in Tests : Log!PoolOf(t)' = Log!PoolOf(t)
  BY DEF Log!Post, Log!PoolOf
<1>2. CASE UNCHANGED lastWord
  BY <1>1, <1>2 DEF WordsInv
<1>3. ASSUME NEW u \in Tests, Log!Overruns, Log!PoolOf(u) = p, lastWord[u] = "queued",
             lastWord' = [lastWord EXCEPT ![u] = "dropped"]
      PROVE  WordsInv'
  <2>1. \A t \in Tests : lastWord'[t] = IF t = u THEN "dropped" ELSE lastWord[t]
    BY <1>3 DEF TypeOK, Log!TypeOK
  <2>2. stress /\ (shared \/ QueueSize = 1)
    BY <1>3 DEF Log!Overruns
  <2>3. body[u] \notin BeforeLastWord /\ u \notin stranded
    BY <1>3 DEF WordsInv
  <2>4. QED
    BY <1>1, <2>1, <2>2, <2>3 DEF WordsInv
<1>4. QED
  BY <1>2, <1>3 DEF Log!Post

LEMMA WordsKept ==
    ASSUME HarnessInv, [Next]_vars
    PROVE  WordsInv'
<1> USE DEF HarnessInv
<1>0. MainPool \notin Tests /\ lastWord \in [Tests -> Words]
  BY HarnessAssumption DEF MainPool, Tests, TypeOK, Log!TypeOK, Words
<1>1. CASE UNCHANGED vars
  BY <1>1 DEF WordsInv, Log!PoolOf, vars, logVars, taskVars
<1>2. CASE LogActions
  <2>1. CASE MakeMainLogger \/ ConfigureTest
    <3>1. pools \subseteq pools' /\ UNCHANGED <<shared, stress, lastWord, body, stranded>>
      BY <2>1 DEF MakeMainLogger, ConfigureTest, Log!Open, taskVars
    <3>2. QED
      BY <3>1 DEF WordsInv, Log!PoolOf
  <2>2. CASE Heartbeat \/ FinishEarly
    <3>1. Log!Post(MainPool) /\ UNCHANGED <<shared, stress, body, stranded>>
      BY <2>2 DEF Heartbeat, FinishEarly, taskVars
    <3>2. \A t \in Tests : Log!PoolOf(t) = MainPool => shared
      BY <1>0 DEF Log!PoolOf
    <3>3. QED
      BY <3>1, <3>2, PostSpares
  <2>3. CASE CloseLogger
    <3>1. Log!Close(MainPool) /\ UNCHANGED <<shared, stress, body, stranded>>
      BY <2>3 DEF CloseLogger, taskVars
    <3>2. QED
      BY <3>1 DEF WordsInv, Log!Close, Log!PoolOf
  <2>4. ASSUME NEW t \in Tests, DestroyTest(t)
        PROVE  WordsInv'
    <3>1. UNCHANGED <<shared, stress, body, lastWord, stranded>>
      BY <2>4 DEF DestroyTest, taskVars, Log!Close
    <3>2. pools' = pools \/ Log!Close(t)
      BY <2>4 DEF DestroyTest
    <3>3. QED
      BY <3>1, <3>2 DEF WordsInv, Log!Close, Log!PoolOf
  <2>5. ASSUME NEW t \in Tests, StartTest(t) \/ Chatter(t)
        PROVE  WordsInv'
    <3>1. Log!Post(Log!PoolOf(t)) /\ UNCHANGED <<shared, stress, stranded>>
      BY <2>5 DEF StartTest, Chatter, taskVars
    <3>2. body[t] \in BeforeLastWord \/ t \in stranded
      BY <2>5 DEF StartTest, Chatter, Goes, TasksInv, BeforeLastWord, Forked
    <3>3. \A u \in Tests : body'[u] \in BeforeLastWord => body[u] \in BeforeLastWord
      BY <2>5 DEF StartTest, Chatter, Goes, taskVars, TypeOK, BeforeLastWord
    <3>4. \A u \in Tests : Log!PoolOf(u) = Log!PoolOf(t) => shared \/ u = t
      BY DEF Log!PoolOf
    <3>5. lastWord[t] # "queued"
      BY <3>2 DEF WordsInv
    <3>6. QED
      BY <3>1, <3>3, <3>4, <3>5, PostSpares
  <2>6. ASSUME NEW t \in Tests, LogFinished(t)
        PROVE  WordsInv'
    <3>1. body[t] = "returned" /\ body' = [body EXCEPT ![t] = "flushing"]
      BY <2>6 DEF LogFinished, Goes
    <3>2. Log!PoolOf(t) \in pools
      BY <3>1, InBodyIsLive DEF InBody
    <3>3. /\ lastWord' = [lastWord EXCEPT ![t] = "queued"]
          /\ UNCHANGED <<shared, stress, pools, stranded>> /\ t \notin stranded
      BY <2>6, <3>1, <3>2 DEF LogFinished, Log!SayLastWord, TasksInv
    <3>4. \A u \in Tests : /\ u # t => lastWord'[u] = lastWord[u] /\ body'[u] = body[u]
                           /\ lastWord'[t] = "queued" /\ body'[t] = "flushing"
      BY <1>0, <3>1, <3>3 DEF TypeOK
    <3>5. QED
      BY <3>2, <3>3, <3>4 DEF WordsInv, BeforeLastWord, Log!PoolOf
  <2>7. ASSUME NEW t \in Tests, FlushLogger(t)
        PROVE  WordsInv'
    <3>1. UNCHANGED <<shared, stress, stranded>>
      BY <2>7 DEF FlushLogger
    <3>2. \A u \in Tests : body'[u] \in BeforeLastWord => body[u] \in BeforeLastWord
      BY <2>7 DEF FlushLogger, Goes, TypeOK, BeforeLastWord
    <3>3. CASE (shared \/ QueueSize = 1) /\ Log!Post(Log!PoolOf(t))
      BY <3>1, <3>2, <3>3, PostSpares
    <3>4. CASE UNCHANGED <<pools, lastWord>>
      BY <3>1, <3>2, <3>4 DEF WordsInv, Log!PoolOf
    <3>5. QED
      BY <2>7, <3>3, <3>4 DEF FlushLogger, Log!Flush, Log!logVars
  <2>8. ASSUME NEW t \in Tests, WriteLastWord(t)
        PROVE  WordsInv'
    <3>1. /\ lastWord[t] = "queued" /\ lastWord' = [lastWord EXCEPT ![t] = "written"]
          /\ UNCHANGED <<shared, stress, pools, body, stranded>>
      BY <2>8 DEF WriteLastWord, Log!Write, taskVars
    <3>2. \A u \in Tests : lastWord'[u] = IF u = t THEN "written" ELSE lastWord[u]
      BY <1>0, <3>1
    <3>3. QED
      BY <3>1, <3>2 DEF WordsInv, Log!PoolOf
  <2>9. QED
    BY <1>2, <2>1, <2>2, <2>3, <2>4, <2>5, <2>6, <2>7, <2>8 DEF LogActions
<1>3. CASE OtherMainStep
  <2>1. UNCHANGED <<shared, stress, pools, lastWord, body, stranded>>
    BY <1>3 DEF OtherMainStep, SetupFails, PoolStartFails, AllConfigured, AllSubmitted, TimeIsUp,
                SubmitTest, StopAndWait, WaitReturns, Unwind, UnwindWaitReturns, DestroyTerminates,
                logVars, taskVars
  <2>2. QED
    BY <2>1 DEF WordsInv, Log!PoolOf
<1>4. ASSUME NEW t \in Tests, OtherTaskStep(t)
      PROVE  WordsInv'
  <2>1. UNCHANGED <<shared, stress, pools, lastWord>>
    BY <1>4 DEF OtherTaskStep, LoopEnds, LeaveThreadBehind, ForkWriter, ForkReader, InnerJoined,
                RunThrows, LingererExits, CountDownTest, FinishTest, InnerThreadTestsStop, logVars
  <2>2. \A u \in Tests : body'[u] \in BeforeLastWord => body[u] \in BeforeLastWord
    BY <1>4 DEF OtherTaskStep, LoopEnds, LeaveThreadBehind, ForkWriter, ForkReader, InnerJoined,
                RunThrows, LingererExits, CountDownTest, FinishTest, InnerThreadTestsStop, taskVars,
                Goes, TypeOK, BeforeLastWord
  <2>3. \A u \in stranded' : u \in stranded \/ (u \in Tests /\ body[u] \in BeforeLastWord)
    <3>1. CASE RunThrows(t)
      BY <3>1 DEF RunThrows, Goes, BeforeLastWord
    <3>2. CASE ~RunThrows(t)
      BY <1>4, <3>2 DEF OtherTaskStep, LoopEnds, LeaveThreadBehind, ForkWriter, ForkReader,
                        InnerJoined, LingererExits, CountDownTest, FinishTest,
                        InnerThreadTestsStop, taskVars
    <3>3. QED
      BY <3>1, <3>2
  <2>4. QED
    BY <2>1, <2>2, <2>3 DEF WordsInv, Log!PoolOf
<1>5. QED
  BY <1>1, <1>2, <1>3, <1>4, StepKinds
-----------------------------------------------------------------------------
LEMMA HarnessInvariant == Spec => []HarnessInv
<1>1. HarnessInv /\ [Next]_vars => HarnessInv'
  BY TypeKept, TasksKept, ObjectsKept, CountKept, WordsKept DEF HarnessInv
<1>2. QED
  BY <1>1, InitHarness, PTL DEF Spec

(***************************************************************************)
(* What a running test uses outlives it: the test, stop, the counter, and  *)
(* the pool it logs to; the threads that run joins are gone when it        *)
(* leaves.  A thread that run leaves behind has its test and the pool it   *)
(* logs to, and stop unless main is being unwound, when stop is gone       *)
(* before the tests are.                                                   *)
(***************************************************************************)
THEOREM TestsAreSafe == Spec => []TestsUseLiveObjects
<1>1. HarnessInv => TestsUseLiveObjects
  <2> SUFFICES ASSUME HarnessInv PROVE TestsUseLiveObjects
    OBVIOUS
  <2> USE DEF HarnessInv
  <2>1. \A t \in Tests : inner[t] # {} => InBody(t)
    BY DEF TasksInv, InBody, Forked
  <2>2. ASSUME NEW t \in Tests, InBody(t) \/ inner[t] # {}
        PROVE  t \notin destroyed /\ ~stopGone /\ Log!PoolOf(t) \in pools
    BY <2>1, <2>2, InBodyIsLive
  <2>3. \A t \in Tests : body[t] \in {"returned", "flushing", "leaving", "over"} => inner[t] = {}
    BY DEF TasksInv, Forked
  <2>4. ASSUME NEW t \in lingering
        PROVE  /\ t \notin destroyed /\ Log!PoolOf(t) \in pools
               /\ stopGone => main = "unwindClearing"
    <3>1. t \in started /\ t \in Tests /\ t < NumTests
      BY HarnessAssumption DEF TasksInv, TypeOK, Tests
    <3>2. submitted > 0
      BY <3>1, HarnessAssumption DEF TasksInv, TypeOK
    <3>3. t \notin destroyed /\ ~Ended /\ main # "terminated"
      BY DEF ObjectsInv
    <3>4. configured = NumTests /\ main # "entered"
      BY <3>2 DEF TasksInv
    <3>5. Log!PoolOf(t) \in pools
      BY <3>1, <3>3, <3>4 DEF ObjectsInv, Log!PoolOf
    <3>6. QED
      BY <3>3, <3>5 DEF ObjectsInv
  <2>5. QED
    BY <2>2, <2>3, <2>4 DEF TestsUseLiveObjects
<1>2. QED
  BY <1>1, HarnessInvariant, PTL

(* When main logs that all tests finished early, every one is over. *)
THEOREM EarlyFinishIsTrue == Spec => EarlyFinishIsComplete
<1>1. ASSUME HarnessInv, FinishEarly
      PROVE  \A t \in Tests : body[t] = "over"
  <2>1. main = "heartbeat" /\ activeTestsCount = 0
    BY <1>1 DEF FinishEarly
  <2>2. Cardinality(Pending) = 0 /\ submitted = NumTests
    BY <1>1, <2>1 DEF HarnessInv, CountInv, TasksInv
  <2>3. Pending = {}
    BY <1>1, <2>2, PendingCount DEF HarnessInv
  <2>4. QED
    BY <2>2, <2>3, HarnessAssumption DEF Pending, Tests
<1>2. HarnessInv => [FinishEarly => \A t \in Tests : body[t] = "over"]_vars
  BY <1>1
<1>3. QED
  BY <1>2, HarnessInvariant, PTL DEF EarlyFinishIsComplete

(* When main is through, every task has been executed, and no thread and no pool is left. *)
THEOREM MainLeavesNothing == Spec => []NothingOutlivesMain
<1>1. HarnessInv => NothingOutlivesMain
  BY DEF HarnessInv, NothingOutlivesMain, TasksInv, ObjectsInv, Down, Ended
<1>2. QED
  BY <1>1, HarnessInvariant, PTL

(* A last word is in the file when main ends, unless the queue's policy let it be dropped. *)
THEOREM LastWordsArrive == Spec => []LastWordsAreWritten
<1>1. HarnessInv => LastWordsAreWritten
  <2>1. ASSUME HarnessInv, Ended, NEW t \in Tests
        PROVE  lastWord[t] \in {"unsaid", "written", "dropped"}
    BY <2>1 DEF HarnessInv, TypeOK, Log!TypeOK, ObjectsInv, WordsInv
  <2>2. QED
    BY <2>1 DEF HarnessInv, LastWordsAreWritten, WordsInv, Ended
<1>2. QED
  BY <1>1, HarnessInvariant, PTL
-----------------------------------------------------------------------------
(***************************************************************************)
(* What the options before pos say: where an option is given a good value, *)
(* the last such value, and the settings that follow from that.            *)
(***************************************************************************)
Said(option, Good) ==
    {p \in 1 .. Len(argv) - 1 :
        p < pos /\ IsOption(p) /\ argv[p] = option /\ argv[p + 1] \in Good}

Latest(S) == CHOOSE p \in S : \A q \in S : q <= p

LastSaid(option, Good) == argv[Latest(Said(option, Good)) + 1]

Ints == {s \in Tokens : IsInt(s)}
Sizes == {s \in Tokens : IsSize(s)}
Levels == {s \in Tokens : IsLevel(s)}

StressSaid == \E p \in 1 .. Len(argv) : p < pos /\ IsOption(p) /\ argv[p] = "--stress"

SecondsSaid ==
    IF Said("--seconds", Ints) = {} THEN Defaults.seconds ELSE Number(LastSaid("--seconds", Ints))

LogLevelSaid ==
    IF Said("--loglevel", Levels) = {} THEN Defaults.logLevel
    ELSE Level(LastSaid("--loglevel", Levels))

QueueSizeSaid ==
    IF Said("--queuesize", Sizes) = {} THEN Defaults.queueSize
    ELSE Number(LastSaid("--queuesize", Sizes))

FilenameSaid ==
    IF Said("--filename", Tokens) = {} THEN NoFile ELSE LastSaid("--filename", Tokens)

MaxThreadsSaid ==
    IF Said("--maxthreads", Ints) = {} THEN Unlimited ELSE Number(LastSaid("--maxthreads", Ints))

NamesSaid == UNION {Names(argv[p + 1]) : p \in Said("--ignoretests", Tokens)}

SettingsSoFar ==
    [seconds |-> SecondsSaid, stress |-> StressSaid, logLevel |-> LogLevelSaid,
     queueSize |-> QueueSizeSaid, filename |-> FilenameSaid, maxThreads |-> MaxThreadsSaid,
     ignoreTests |-> NamesSaid]

ParseInv ==
    /\ ContextOK
    /\ Looking => IsOption(pos)
    /\ ctx = SettingsSoFar
-----------------------------------------------------------------------------
(* Who follows an option: the next argument, unless the option takes that for its value. *)
LEMMA OptionsFollow ==
    ASSUME NEW p \in 1 .. Len(argv), Len(argv) \in Nat, IsOption(p)
    PROVE  /\ ~Wants(p) => IsOption(p + 1)
           /\ Wants(p) => ~IsOption(p + 1) /\ IsOption(p + 2)
<1>0. p \in Nat /\ p >= 1
  OBVIOUS
<1>1. PICK q \in 1 .. p : RowBegins(q, p) /\ (p - q) % 2 = 0
  BY DEF IsOption
<1>2. \A i \in q .. p - 1 : Wants(i)
  BY <1>1 DEF RowBegins
<1>3. ASSUME NEW n \in Nat, n >= 1, ~Wants(n - 1)
      PROVE  IsOption(n)
  <2>1. n .. n - 1 = {} /\ n \in 1 .. n /\ (n - n) % 2 = 0
    BY <1>3
  <2>2. QED
    BY <1>3, <2>1 DEF IsOption, RowBegins
<1>4. ~Wants(p) => IsOption(p + 1)
  BY <1>0, <1>3
<1>5. ASSUME Wants(p)
      PROVE  ~IsOption(p + 1)
  <2> SUFFICES ASSUME IsOption(p + 1) PROVE FALSE
    OBVIOUS
  <2>1. PICK r \in 1 .. p + 1 : RowBegins(r, p + 1) /\ (p + 1 - r) % 2 = 0
    BY DEF IsOption
  <2>2. (\A i \in r .. p : Wants(i)) /\ (r = 1 \/ ~Wants(r - 1))
    BY <1>0, <2>1 DEF RowBegins
  <2>3. (\A i \in q .. p : Wants(i)) /\ (q = 1 \/ ~Wants(q - 1))
    BY <1>0, <1>1, <1>2, <1>5 DEF RowBegins
  <2>4. ~(q < r)
    <3> SUFFICES ASSUME q < r PROVE FALSE
      OBVIOUS
    <3>1. r - 1 \in q .. p /\ r # 1
      OBVIOUS
    <3>2. QED
      BY <2>2, <2>3, <3>1
  <2>5. ~(r < q)
    <3> SUFFICES ASSUME r < q PROVE FALSE
      OBVIOUS
    <3>1. q - 1 \in r .. p /\ q # 1
      OBVIOUS
    <3>2. QED
      BY <2>2, <2>3, <3>1
  <2>6. q = r
    BY <2>4, <2>5
  <2>7. QED
    BY <1>1, <2>1, <2>6
<1>6. ASSUME Wants(p)
      PROVE  IsOption(p + 2)
  <2>1. CASE Wants(p + 1)
    <3>1. \A i \in q .. p + 1 : Wants(i)
      BY <1>0, <1>2, <1>6, <2>1
    <3>2. q \in 1 .. p + 2 /\ (p + 2 - q) % 2 = 0 /\ (p + 2) - 1 = p + 1
      BY <1>0, <1>1
    <3>3. RowBegins(q, p + 2)
      BY <1>1, <3>1, <3>2 DEF RowBegins
    <3>4. QED
      BY <3>2, <3>3 DEF IsOption
  <2>2. CASE ~Wants(p + 1)
    <3>1. (p + 2) - 1 = p + 1 /\ p + 2 \in Nat /\ p + 2 >= 1
      OBVIOUS
    <3>2. QED
      BY <1>3, <2>2, <3>1
  <2>3. QED
    BY <2>1, <2>2
<1>7. QED
  BY <1>4, <1>5, <1>6

LEMMA ArgumentsTyped ==
    ASSUME ContextOK
    PROVE  /\ argv \in Seq(Tokens) /\ Len(argv) \in Nat
           /\ pos \in Nat /\ pos >= 1 /\ pos <= Len(argv) + 1
<1>1. argv \in Seq(Tokens) /\ pos \in 1 .. Len(argv) + 1
  BY DEF ContextOK
<1>2. Len(argv) \in Nat
  BY <1>1
<1>3. QED
  BY <1>1, <1>2

LEMMA SameArguments ==
    ASSUME UNCHANGED argv, NEW p
    PROVE  IsOption(p)' <=> IsOption(p)
BY DEF IsOption, RowBegins, Wants

(* The latest of a set is its new element, if that comes after all the others. *)
LEMMA NewIsLatest ==
    ASSUME NEW S \in SUBSET Int, NEW n \in Int, \A q \in S : q < n
    PROVE  Latest(S \cup {n}) = n
<1>1. \A q \in S \cup {n} : q <= n
  OBVIOUS
<1>2. \A p \in S \cup {n} : (\A q \in S \cup {n} : q <= p) => p = n
  OBVIOUS
<1>3. QED
  BY <1>1, <1>2 DEF Latest

(***************************************************************************)
(* An option that has taken its value, if the value is good, is the last   *)
(* one of its name; it says nothing under another name, and its value      *)
(* counts for no option.                                                   *)
(***************************************************************************)
LEMMA ValueTaken ==
    ASSUME ContextOK, Looking, IsOption(pos), Wants(pos), pos' = pos + 2, UNCHANGED argv,
           NEW option, NEW Good
    PROVE  /\ argv[pos] = option /\ Value \in Good =>
                 /\ Said(option, Good)' = Said(option, Good) \cup {pos}
                 /\ LastSaid(option, Good)' = Value
           /\ ~(argv[pos] = option /\ Value \in Good) =>
                 UNCHANGED <<Said(option, Good), LastSaid(option, Good)>>
<1>0. Len(argv) \in Nat /\ pos \in 1 .. Len(argv) - 1 /\ pos \in 1 .. Len(argv)
  <2>1. Len(argv) \in Nat /\ pos \in Nat /\ pos >= 1
    BY ArgumentsTyped
  <2>2. pos < Len(argv)
    BY DEF Wants
  <2>3. QED
    BY <2>1, <2>2
<1>1. ~IsOption(pos + 1)
  BY <1>0, OptionsFollow
<1>2. \A p \in 1 .. Len(argv) - 1 : p < pos' <=> (p < pos \/ p = pos \/ p = pos + 1)
  BY <1>0
<1>3. Said(option, Good)' =
        {p \in 1 .. Len(argv) - 1 :
            p < pos' /\ IsOption(p) /\ argv[p] = option /\ argv[p + 1] \in Good}
  BY SameArguments DEF Said
<1>4. ASSUME argv[pos] = option, Value \in Good
      PROVE  Said(option, Good)' = Said(option, Good) \cup {pos}
  BY <1>0, <1>1, <1>2, <1>3, <1>4 DEF Said, Value
<1>5. ASSUME ~(argv[pos] = option /\ Value \in Good)
      PROVE  Said(option, Good)' = Said(option, Good)
  BY <1>0, <1>1, <1>2, <1>3, <1>5 DEF Said, Value
<1>6. Latest(Said(option, Good) \cup {pos}) = pos
  <2>1. Said(option, Good) \in SUBSET Int /\ \A q \in Said(option, Good) : q < pos
    BY DEF Said
  <2>2. QED
    <3>1. \A S \in SUBSET Int : (\A q \in S : q < pos) => Latest(S \cup {pos}) = pos
      <4>1. pos \in Int
        BY <1>0
      <4>2. QED
        BY <4>1, NewIsLatest
    <3>2. QED
      BY <2>1, <3>1
<1>7. ASSUME NEW S, Said(option, Good)' = S
      PROVE  LastSaid(option, Good)' = argv[Latest(S) + 1]
  BY <1>7 DEF LastSaid, Latest
<1>8. QED
  BY <1>4, <1>5, <1>6, <1>7 DEF LastSaid, Value

(* What wants no value says nothing of the settings that have one. *)
LEMMA NoValueTaken ==
    ASSUME ContextOK, Looking, ~Wants(pos), pos' = pos + 1, UNCHANGED argv,
           NEW option \in ValueOptions, NEW Good
    PROVE  UNCHANGED <<Said(option, Good), LastSaid(option, Good)>>
<1>0. Len(argv) \in Nat /\ pos \in 1 .. Len(argv)
  BY ArgumentsTyped DEF Looking
<1>1. \A p \in 1 .. Len(argv) - 1 : argv[p] = option => p # pos
  BY DEF Wants
<1>2. \A p \in 1 .. Len(argv) - 1 : p < pos' <=> (p < pos \/ p = pos)
  BY <1>0
<1>3. Said(option, Good)' =
        {p \in 1 .. Len(argv) - 1 :
            p < pos' /\ IsOption(p) /\ argv[p] = option /\ argv[p + 1] \in Good}
  BY SameArguments DEF Said
<1>4. Said(option, Good)' = Said(option, Good)
  BY <1>1, <1>2, <1>3 DEF Said
<1>5. QED
  BY <1>4 DEF LastSaid, Latest
-----------------------------------------------------------------------------
(* Past a value the next argument is one to look at, and --stress was not among these. *)
LEMMA ValuePassed ==
    ASSUME ParseInv, Looking, Wants(pos), pos' = pos + 2, UNCHANGED argv
    PROVE  /\ argv' \in Seq(Tokens) /\ pos' \in 1 .. Len(argv') + 1
           /\ (Looking => IsOption(pos))'
           /\ StressSaid' = StressSaid
           /\ Value \in Tokens
<1>0. ContextOK /\ IsOption(pos)
  BY DEF ParseInv
<1>1. argv \in Seq(Tokens) /\ Len(argv) \in Nat /\ pos \in 1 .. Len(argv) /\ pos < Len(argv)
  BY <1>0, ArgumentsTyped DEF Looking, Wants
<1>2. ~IsOption(pos + 1) /\ IsOption(pos + 2)
  BY <1>0, <1>1, OptionsFollow
<1>3. IsOption(pos)' <=> IsOption(pos + 2)
  BY DEF IsOption, RowBegins, Wants
<1>4. Value \in Tokens
  BY <1>1 DEF Value
<1>5. StressSaid' <=> StressSaid
  <2>1. argv[pos] # "--stress"
    BY DEF Wants, ValueOptions
  <2>2. \A p \in 1 .. Len(argv) : p < pos' <=> (p < pos \/ p = pos \/ p = pos + 1)
    BY <1>1
  <2>3. StressSaid' <=> \E p \in 1 .. Len(argv) : p < pos' /\ IsOption(p) /\ argv[p] = "--stress"
    BY SameArguments DEF StressSaid
  <2>4. QED
    BY <1>2, <2>1, <2>2, <2>3 DEF StressSaid
<1>6. StressSaid' = StressSaid
  BY <1>5 DEF StressSaid
<1>7. QED
  BY <1>1, <1>2, <1>3, <1>4, <1>6

LEMMA NoValuePassed ==
    ASSUME ParseInv, Looking, ~Wants(pos), pos' = pos + 1, UNCHANGED argv
    PROVE  /\ argv' \in Seq(Tokens) /\ pos' \in 1 .. Len(argv') + 1
           /\ (Looking => IsOption(pos))'
           /\ StressSaid' <=> StressSaid \/ argv[pos] = "--stress"
<1>0. ContextOK /\ IsOption(pos)
  BY DEF ParseInv
<1>1. argv \in Seq(Tokens) /\ Len(argv) \in Nat /\ pos \in 1 .. Len(argv)
  BY <1>0, ArgumentsTyped DEF Looking
<1>2. IsOption(pos + 1)
  BY <1>0, <1>1, OptionsFollow
<1>3. IsOption(pos)' <=> IsOption(pos + 1)
  BY DEF IsOption, RowBegins, Wants
<1>4. StressSaid' <=> StressSaid \/ argv[pos] = "--stress"
  <2>1. \A p \in 1 .. Len(argv) : p < pos' <=> (p < pos \/ p = pos)
    BY <1>1
  <2>2. StressSaid' <=> \E p \in 1 .. Len(argv) : p < pos' /\ IsOption(p) /\ argv[p] = "--stress"
    BY SameArguments DEF StressSaid
  <2>3. QED
    BY <1>0, <1>1, <2>1, <2>2 DEF StressSaid
<1>5. QED
  BY <1>1, <1>2, <1>3, <1>4

(* What a conversion accepts is a setting that main can work with. *)
LEMMA GoodSettings ==
    ASSUME NEW s \in Tokens
    PROVE  /\ IsInt(s) <=> s \in Ints
           /\ IsSize(s) <=> s \in Sizes
           /\ IsLevel(s) <=> s \in Levels
           /\ IsInt(s) => Number(s) \in 1 .. IntMax
           /\ IsSize(s) => Number(s) \in Nat \ {0}
           /\ Level(s) \in {"info", "debug", "off"}
           /\ "" \notin Names(s)
<1>1. Number(s) \in Nat
  BY DEF Number, IntMax
<1>2. "" \notin Names(s)
  BY DEF Names
<1>3. (IsInt(s) <=> s \in Ints) /\ (IsSize(s) <=> s \in Sizes) /\ (IsLevel(s) <=> s \in Levels)
  BY DEF Ints, Sizes, Levels
<1>4. IsInt(s) => Number(s) \in 1 .. IntMax
  BY <1>1 DEF IsInt, IntMax
<1>5. IsSize(s) => Number(s) \in Nat \ {0}
  BY <1>1 DEF IsSize
<1>6. Level(s) \in {"info", "debug", "off"}
  BY DEF Level
<1>7. QED
  BY <1>2, <1>3, <1>4, <1>5, <1>6

LEMMA StartParse == ParseInit => ParseInv
<1> SUFFICES ASSUME ParseInit PROVE ParseInv
  OBVIOUS
<1>1. argv \in Seq(Tokens) /\ Len(argv) \in Nat /\ pos = 1
  <2>1. PICK n \in 0 .. MaxArgs : argv \in [1 .. n -> Tokens]
    BY DEF ParseInit
  <2>2. n \in Nat
    BY ContextAssumption
  <2>3. QED
    BY <2>1, <2>2 DEF ParseInit
<1>2. ctx = Defaults
  BY DEF ParseInit
<1>3. ContextOK
  BY <1>1, <1>2 DEF ContextOK, Defaults, IntMax, Unlimited, NoFile
<1>4. IsOption(pos)
  <2>1. 1 .. 1 - 1 = {} /\ 1 \in 1 .. 1 /\ (1 - 1) % 2 = 0
    OBVIOUS
  <2>2. QED
    BY <1>1, <2>1 DEF IsOption, RowBegins
<1>5. \A option, Good : Said(option, Good) = {}
  BY <1>1 DEF Said
<1>6. StressSaid = FALSE
  BY <1>1 DEF StressSaid
<1>7. ctx = SettingsSoFar
  BY <1>2, <1>5, <1>6 DEF SettingsSoFar, Defaults, SecondsSaid, LogLevelSaid, QueueSizeSaid,
     FilenameSaid, MaxThreadsSaid, NamesSaid
<1>8. QED
  BY <1>3, <1>4, <1>7 DEF ParseInv

(***************************************************************************)
(* What each setting becomes when a value has been read: it is the only    *)
(* one of the options that the argument at pos can be.                     *)
(***************************************************************************)
SettingsMove ==
    /\ SecondsSaid' = IF argv[pos] = "--seconds" /\ IsInt(Value)
                      THEN Number(Value) ELSE SecondsSaid
    /\ LogLevelSaid' = IF argv[pos] = "--loglevel" /\ IsLevel(Value)
                       THEN Level(Value) ELSE LogLevelSaid
    /\ QueueSizeSaid' = IF argv[pos] = "--queuesize" /\ IsSize(Value)
                        THEN Number(Value) ELSE QueueSizeSaid
    /\ FilenameSaid' = IF argv[pos] = "--filename" THEN Value ELSE FilenameSaid
    /\ MaxThreadsSaid' = IF argv[pos] = "--maxthreads" /\ IsInt(Value)
                         THEN Number(Value) ELSE MaxThreadsSaid
    /\ NamesSaid' = IF argv[pos] = "--ignoretests" THEN NamesSaid \cup Names(Value) ELSE NamesSaid

LEMMA ValueSettles ==
    ASSUME ParseInv, Looking, Wants(pos), pos' = pos + 2, UNCHANGED argv
    PROVE  SettingsMove
<1>0. ContextOK /\ IsOption(pos) /\ Value \in Tokens
  BY ValuePassed DEF ParseInv
<1>1. /\ IsInt(Value) <=> Value \in Ints
      /\ IsSize(Value) <=> Value \in Sizes
      /\ IsLevel(Value) <=> Value \in Levels
  BY <1>0, GoodSettings
<1>2. \A option, Good :
          /\ argv[pos] = option /\ Value \in Good =>
                /\ Said(option, Good)' = Said(option, Good) \cup {pos}
                /\ LastSaid(option, Good)' = Value
          /\ ~(argv[pos] = option /\ Value \in Good) =>
                /\ Said(option, Good)' = Said(option, Good)
                /\ LastSaid(option, Good)' = LastSaid(option, Good)
  BY <1>0, ValueTaken
<1>3. SecondsSaid' = IF argv[pos] = "--seconds" /\ IsInt(Value)
                     THEN Number(Value) ELSE SecondsSaid
  BY <1>1, <1>2 DEF SecondsSaid
<1>4. LogLevelSaid' = IF argv[pos] = "--loglevel" /\ IsLevel(Value)
                      THEN Level(Value) ELSE LogLevelSaid
  BY <1>1, <1>2 DEF LogLevelSaid
<1>5. QueueSizeSaid' = IF argv[pos] = "--queuesize" /\ IsSize(Value)
                       THEN Number(Value) ELSE QueueSizeSaid
  BY <1>1, <1>2 DEF QueueSizeSaid
<1>6. FilenameSaid' = IF argv[pos] = "--filename" THEN Value ELSE FilenameSaid
  BY <1>0, <1>2 DEF FilenameSaid
<1>7. MaxThreadsSaid' = IF argv[pos] = "--maxthreads" /\ IsInt(Value)
                        THEN Number(Value) ELSE MaxThreadsSaid
  BY <1>1, <1>2 DEF MaxThreadsSaid
<1>8. NamesSaid' = IF argv[pos] = "--ignoretests"
                   THEN NamesSaid \cup Names(Value) ELSE NamesSaid
  BY <1>0, <1>2 DEF NamesSaid, Value
<1>9. QED
  BY <1>3, <1>4, <1>5, <1>6, <1>7, <1>8 DEF SettingsMove

LEMMA NothingSettles ==
    ASSUME ParseInv, Looking, ~Wants(pos), pos' = pos + 1, UNCHANGED argv
    PROVE  UNCHANGED <<SecondsSaid, LogLevelSaid, QueueSizeSaid, FilenameSaid, MaxThreadsSaid,
                       NamesSaid>>
<1>1. \A option \in ValueOptions : \A Good :
          /\ Said(option, Good)' = Said(option, Good)
          /\ LastSaid(option, Good)' = LastSaid(option, Good)
  BY NoValueTaken DEF ParseInv
<1>2. QED
  BY <1>1 DEF ValueOptions, SecondsSaid, LogLevelSaid, QueueSizeSaid, FilenameSaid,
     MaxThreadsSaid, NamesSaid

LEMMA OptionTaken ==
    ASSUME ParseInv, Looking, UNCHANGED argv,
           \/ TakeSeconds \/ TakeLogLevel \/ TakeQueueSize
           \/ TakeFilename \/ TakeMaxThreads \/ TakeIgnoreTests
    PROVE  ParseInv'
<1>1. Wants(pos) /\ pos' = pos + 2
  BY DEF TakeSeconds, TakeLogLevel, TakeQueueSize, TakeFilename, TakeMaxThreads,
         TakeIgnoreTests, Takes, AfterValue
<1>2. /\ argv' \in Seq(Tokens) /\ pos' \in 1 .. Len(argv') + 1
      /\ (Looking => IsOption(pos))'
      /\ StressSaid' = StressSaid /\ Value \in Tokens
  BY <1>1, ValuePassed
<1>3. SettingsMove
  BY <1>1, ValueSettles
<1>4. ctx = SettingsSoFar /\ ContextOK
  BY DEF ParseInv
<1>5. ctx' = SettingsSoFar'
  <2>1. CASE TakeSeconds
    BY <1>2, <1>3, <1>4, <2>1 DEF TakeSeconds, Takes, SettingsSoFar, SettingsMove
  <2>2. CASE TakeLogLevel
    BY <1>2, <1>3, <1>4, <2>2 DEF TakeLogLevel, Takes, SettingsSoFar, SettingsMove
  <2>3. CASE TakeQueueSize
    BY <1>2, <1>3, <1>4, <2>3 DEF TakeQueueSize, Takes, SettingsSoFar, SettingsMove
  <2>4. CASE TakeFilename
    BY <1>2, <1>3, <1>4, <2>4 DEF TakeFilename, Takes, SettingsSoFar, SettingsMove
  <2>5. CASE TakeMaxThreads
    BY <1>2, <1>3, <1>4, <2>5 DEF TakeMaxThreads, Takes, SettingsSoFar, SettingsMove
  <2>6. CASE TakeIgnoreTests
    BY <1>2, <1>3, <1>4, <2>6 DEF TakeIgnoreTests, Takes, SettingsSoFar, SettingsMove
  <2>7. QED
    BY <2>1, <2>2, <2>3, <2>4, <2>5, <2>6
<1>6. ContextOK'
  <2>1. /\ IsInt(Value) => Number(Value) \in 1 .. IntMax
        /\ IsSize(Value) => Number(Value) \in Nat \ {0}
        /\ Level(Value) \in {"info", "debug", "off"}
        /\ "" \notin Names(Value)
    BY <1>2, GoodSettings
  <2>2. /\ ctx.seconds = SecondsSaid /\ ctx.stress = StressSaid /\ ctx.logLevel = LogLevelSaid
        /\ ctx.queueSize = QueueSizeSaid /\ ctx.filename = FilenameSaid
        /\ ctx.maxThreads = MaxThreadsSaid /\ ctx.ignoreTests = NamesSaid
    BY <1>4 DEF SettingsSoFar
  <2>3. /\ ctx'.seconds = SecondsSaid' /\ ctx'.stress = StressSaid'
        /\ ctx'.logLevel = LogLevelSaid' /\ ctx'.queueSize = QueueSizeSaid'
        /\ ctx'.filename = FilenameSaid' /\ ctx'.maxThreads = MaxThreadsSaid'
        /\ ctx'.ignoreTests = NamesSaid'
    BY <1>5 DEF SettingsSoFar
  <2>4. QED
    BY <1>2, <1>3, <1>4, <2>1, <2>2, <2>3 DEF SettingsMove, ContextOK
<1>7. QED
  BY <1>2, <1>5, <1>6 DEF ParseInv

LEMMA PassedOver ==
    ASSUME ParseInv, Looking, UNCHANGED argv, TakeStress \/ PassOver
    PROVE  ParseInv'
<1>1. ~Wants(pos) /\ pos' = pos + 1
  BY DEF TakeStress, PassOver, Wants, ValueOptions
<1>2. /\ argv' \in Seq(Tokens) /\ pos' \in 1 .. Len(argv') + 1
      /\ (Looking => IsOption(pos))'
      /\ StressSaid' <=> StressSaid \/ argv[pos] = "--stress"
  BY <1>1, NoValuePassed
<1>3. UNCHANGED <<SecondsSaid, LogLevelSaid, QueueSizeSaid, FilenameSaid, MaxThreadsSaid, NamesSaid>>
  BY <1>1, NothingSettles
<1>4. ctx = SettingsSoFar /\ ContextOK
  BY DEF ParseInv
<1>5. ctx' = [ctx EXCEPT !.stress = StressSaid']
  <2>1. CASE TakeStress
    <3>1. StressSaid' = TRUE
      BY <1>2, <2>1 DEF TakeStress, StressSaid
    <3>2. QED
      BY <2>1, <3>1 DEF TakeStress
  <2>2. CASE PassOver
    <3>1. StressSaid' = StressSaid
      BY <1>2, <2>2 DEF PassOver, StressSaid
    <3>2. QED
      BY <1>4, <2>2, <3>1 DEF PassOver, SettingsSoFar
  <2>3. QED
    BY <2>1, <2>2
<1>6. ctx' = SettingsSoFar'
  BY <1>3, <1>4, <1>5 DEF SettingsSoFar
<1>7. ContextOK'
  <2>1. StressSaid' \in BOOLEAN
    BY DEF StressSaid
  <2>2. /\ UNCHANGED <<ctx.seconds, ctx.logLevel, ctx.queueSize, ctx.filename, ctx.maxThreads,
                       ctx.ignoreTests>>
        /\ ctx'.stress = StressSaid'
    BY <1>4, <1>5 DEF SettingsSoFar
  <2>3. QED
    BY <1>2, <1>4, <2>1, <2>2 DEF ContextOK
<1>8. QED
  BY <1>2, <1>6, <1>7 DEF ParseInv

LEMMA ParseKept == ParseInv /\ [ParseNext]_parseVars => ParseInv'
<1> SUFFICES ASSUME ParseInv, [ParseNext]_parseVars PROVE ParseInv'
  OBVIOUS
<1>1. CASE UNCHANGED parseVars
  <2>1. UNCHANGED <<argv, pos, ctx>>
    BY <1>1 DEF parseVars
  <2>2. (IsOption(pos)' <=> IsOption(pos)) /\ (Looking' <=> Looking)
    BY <2>1 DEF IsOption, RowBegins, Wants, Looking
  <2>3. ContextOK'
    BY <2>1 DEF ParseInv, ContextOK
  <2>4. SettingsSoFar' = SettingsSoFar
    BY <2>1 DEF SettingsSoFar, SecondsSaid, LogLevelSaid, QueueSizeSaid, FilenameSaid,
       MaxThreadsSaid, NamesSaid, StressSaid, Said, LastSaid, Latest, IsOption, RowBegins, Wants
  <2>5. QED
    BY <2>1, <2>2, <2>3, <2>4 DEF ParseInv
<1>2. CASE ParseNext /\ ~UNCHANGED parseVars
  BY <1>2, OptionTaken, PassedOver DEF ParseNext, Parsed
<1>3. QED
  BY <1>1, <1>2

LEMMA ParseAlways == ParseSpec => []ParseInv
BY StartParse, ParseKept, PTL DEF ParseSpec

(* When nothing is left to look at, all that was given has been said. *)
LEMMA AllSaid ==
    ASSUME ContextOK, ~Looking
    PROVE  /\ Given("--seconds", IsInt) = Said("--seconds", Ints)
           /\ Given("--loglevel", IsLevel) = Said("--loglevel", Levels)
           /\ Given("--queuesize", IsSize) = Said("--queuesize", Sizes)
           /\ Given("--filename", Any) = Said("--filename", Tokens)
           /\ Given("--maxthreads", IsInt) = Said("--maxthreads", Ints)
           /\ Given("--ignoretests", Any) = Said("--ignoretests", Tokens)
           /\ StressSaid <=> \E p \in 1 .. Len(argv) : IsOption(p) /\ argv[p] = "--stress"
<1>1. argv \in Seq(Tokens) /\ Len(argv) \in Nat /\ pos \in Nat /\ pos > Len(argv)
  BY ArgumentsTyped DEF Looking
<1>2. \A p \in 1 .. Len(argv) - 1 : p < pos /\ argv[p + 1] \in Tokens
  BY <1>1
<1>3. \A p \in 1 .. Len(argv) : p < pos
  BY <1>1
<1>4. \A s \in Tokens : /\ IsInt(s) <=> s \in Ints
                        /\ IsSize(s) <=> s \in Sizes
                        /\ IsLevel(s) <=> s \in Levels
  BY GoodSettings
<1>5. Given("--seconds", IsInt) = Said("--seconds", Ints)
  BY <1>2, <1>4 DEF Given, Said
<1>6. Given("--loglevel", IsLevel) = Said("--loglevel", Levels)
  BY <1>2, <1>4 DEF Given, Said
<1>7. Given("--queuesize", IsSize) = Said("--queuesize", Sizes)
  BY <1>2, <1>4 DEF Given, Said
<1>8. Given("--maxthreads", IsInt) = Said("--maxthreads", Ints)
  BY <1>2, <1>4 DEF Given, Said
<1>9. /\ Given("--filename", Any) = Said("--filename", Tokens)
      /\ Given("--ignoretests", Any) = Said("--ignoretests", Tokens)
  BY <1>2 DEF Given, Said, Any
<1>10. StressSaid <=> \E p \in 1 .. Len(argv) : IsOption(p) /\ argv[p] = "--stress"
  BY <1>3 DEF StressSaid
<1>11. QED
  BY <1>5, <1>6, <1>7, <1>8, <1>9, <1>10

(***************************************************************************)
(* For argument lists of every length, parse leaves in each setting what   *)
(* the last valid option says, and never takes a value for an option.      *)
(***************************************************************************)
THEOREM LastValidWinsHolds == ParseSpec => []LastValidWins
<1>1. ParseInv => LastValidWins
  <2> SUFFICES ASSUME ParseInv PROVE LastValidWins
    OBVIOUS
  <2>1. ContextOK /\ ctx = SettingsSoFar
    BY DEF ParseInv
  <2>2. ASSUME ~Looking
        PROVE  /\ SecondsSaid = LastOr("--seconds", IsInt, Number, Defaults.seconds)
               /\ LogLevelSaid = LastOr("--loglevel", IsLevel, Level, Defaults.logLevel)
               /\ QueueSizeSaid = LastOr("--queuesize", IsSize, Number, Defaults.queueSize)
               /\ FilenameSaid = LastOr("--filename", Any, Itself, NoFile)
               /\ MaxThreadsSaid = LastOr("--maxthreads", IsInt, Number, Unlimited)
               /\ NamesSaid = UNION {Names(argv[p + 1]) : p \in Given("--ignoretests", Any)}
               /\ StressSaid = \E p \in 1 .. Len(argv) : IsOption(p) /\ argv[p] = "--stress"
    <3>1. SecondsSaid = LastOr("--seconds", IsInt, Number, Defaults.seconds)
      <4>1. LastOr("--seconds", IsInt, Number, Defaults.seconds) =
              IF Given("--seconds", IsInt) = {} THEN Defaults.seconds ELSE Number(argv[Latest(Given("--seconds", IsInt)) + 1])
        BY DEF LastOr, Latest, Itself
      <4>2. QED
        BY <2>1, <2>2, <4>1, AllSaid DEF SecondsSaid, LastSaid
    <3>2. LogLevelSaid = LastOr("--loglevel", IsLevel, Level, Defaults.logLevel)
      <4>1. LastOr("--loglevel", IsLevel, Level, Defaults.logLevel) =
              IF Given("--loglevel", IsLevel) = {} THEN Defaults.logLevel ELSE Level(argv[Latest(Given("--loglevel", IsLevel)) + 1])
        BY DEF LastOr, Latest, Itself
      <4>2. QED
        BY <2>1, <2>2, <4>1, AllSaid DEF LogLevelSaid, LastSaid
    <3>3. QueueSizeSaid = LastOr("--queuesize", IsSize, Number, Defaults.queueSize)
      <4>1. LastOr("--queuesize", IsSize, Number, Defaults.queueSize) =
              IF Given("--queuesize", IsSize) = {} THEN Defaults.queueSize ELSE Number(argv[Latest(Given("--queuesize", IsSize)) + 1])
        BY DEF LastOr, Latest, Itself
      <4>2. QED
        BY <2>1, <2>2, <4>1, AllSaid DEF QueueSizeSaid, LastSaid
    <3>4. FilenameSaid = LastOr("--filename", Any, Itself, NoFile)
      <4>1. LastOr("--filename", Any, Itself, NoFile) =
              IF Given("--filename", Any) = {} THEN NoFile ELSE argv[Latest(Given("--filename", Any)) + 1]
        BY DEF LastOr, Latest, Itself
      <4>2. QED
        BY <2>1, <2>2, <4>1, AllSaid DEF FilenameSaid, LastSaid
    <3>5. MaxThreadsSaid = LastOr("--maxthreads", IsInt, Number, Unlimited)
      <4>1. LastOr("--maxthreads", IsInt, Number, Unlimited) =
              IF Given("--maxthreads", IsInt) = {} THEN Unlimited ELSE Number(argv[Latest(Given("--maxthreads", IsInt)) + 1])
        BY DEF LastOr, Latest, Itself
      <4>2. QED
        BY <2>1, <2>2, <4>1, AllSaid DEF MaxThreadsSaid, LastSaid
    <3>6. NamesSaid = UNION {Names(argv[p + 1]) : p \in Given("--ignoretests", Any)}
      BY <2>1, <2>2, AllSaid DEF NamesSaid
    <3>7. StressSaid = \E p \in 1 .. Len(argv) : IsOption(p) /\ argv[p] = "--stress"
      BY <2>1, <2>2, AllSaid DEF StressSaid
    <3>8. QED
      BY <3>1, <3>2, <3>3, <3>4, <3>5, <3>6, <3>7
  <2>3. QED
    BY <2>1, <2>2 DEF LastValidWins, SettingsSoFar
<1>2. QED
  BY <1>1, ParseAlways, PTL
=============================================================================
