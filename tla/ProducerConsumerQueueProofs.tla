-------------------- MODULE ProducerConsumerQueueProofs --------------------
(***************************************************************************)
(* Proofs about ProducerConsumerQueue for every number of threads, items   *)
(* and places in the queue: every item is in one place, in the order in    *)
(* which it was numbered, and a run that returns leaves no thread behind.  *)
(***************************************************************************)
EXTENDS ProducerConsumerQueue, FiniteSetTheorems, TLAPS

(***************************************************************************)
(* What a producer is about to push is within the bound on the items: each *)
(* one that has passed the test of stop has its item reserved.             *)
(***************************************************************************)
Pushing == {p \in Producers : at[p] = "pushing"}
WithinBound == latestSequenceId + Cardinality(Pushing) <= MaxItems

(* Who is still unborn when run has gone on, and when it has failed. *)
StartedByRun ==
    /\ runner = "joining" => \A t \in Threads : at[t] # "unborn"
    /\ runner = "thrown" => \E t \in Threads : at[t] = "unborn"

First == latestSequenceId - Len(workItems)

QueueInv == TypeOK /\ WithinBound /\ ItemsAccounted
-----------------------------------------------------------------------------
(* A sequence with one more element. *)
LEMMA OneMore ==
    ASSUME NEW S, NEW s \in Seq(S), NEW x \in S
    PROVE  /\ s \o <<x>> \in Seq(S)
           /\ Len(s \o <<x>>) = Len(s) + 1
           /\ \A i \in 1 .. Len(s) : (s \o <<x>>)[i] = s[i]
           /\ (s \o <<x>>)[Len(s) + 1] = x
OBVIOUS

(* The queue without its front, whose numbers are those of the queue, shifted. *)
LEMMA OneLess ==
    ASSUME NEW S, NEW s \in Seq(S), s # <<>>
    PROVE  /\ Head(s) = s[1] /\ Head(s) \in S
           /\ Tail(s) \in Seq(S)
           /\ Len(s) \in Nat \ {0}
           /\ Len(Tail(s)) = Len(s) - 1
           /\ \A i \in 1 .. Len(s) - 1 : Tail(s)[i] = s[i + 1]
OBVIOUS

LEMMA InitQueue == Init => QueueInv
<1> SUFFICES ASSUME Init PROVE QueueInv
  OBVIOUS
<1>0. Producers \cap Consumers = {} /\ MaxItems \in Nat /\ MaxQueueSize \in Nat
  BY QueueAssumption
<1>1. workItems \in Seq(Items) /\ Len(workItems) = 0
  BY DEF Init
<1>2. TypeOK
  <2>1. log \in [Consumers -> Seq(Items)] /\ poppedItem \in [Consumers -> Items \cup {Nothing}]
    BY DEF Init
  <2>2. latestSequenceId \in 0 .. MaxItems /\ Len(workItems) <= MaxQueueSize
    <3>1. latestSequenceId = 0 /\ 0 <= MaxQueueSize
      BY <1>0 DEF Init
    <3>2. QED
      BY <1>0, <1>1, <3>1
  <2>3. \A c, d \in Consumers : HoldsMutex(c) /\ HoldsMutex(d) => c = d
    BY DEF Init, HoldsMutex, Threads
  <2>4. QED
    BY <1>1, <2>1, <2>2, <2>3 DEF Init, TypeOK
<1>3. WithinBound
  <2>1. Pushing = {}
    BY DEF Init, Pushing, Threads
  <2>2. QED
    BY <1>0, <2>1, FS_EmptySet DEF Init, WithinBound
<1>4. ItemsAccounted
  <2>1. \A c \in Consumers : TakenSet(c) = {} /\ Len(TakenBy(c)) = 0
    BY DEF Init, TakenSet, TakenBy, Threads
  <2>2. UNION {TakenSet(c) : c \in Consumers} = {}
    BY <2>1
  <2>3. 0 .. latestSequenceId - Len(workItems) - 1 = {}
    BY <1>1 DEF Init
  <2>4. QED
    BY <1>1, <1>2, <2>1, <2>2, <2>3 DEF ItemsAccounted
<1>5. QED
  BY <1>2, <1>3, <1>4 DEF QueueInv
-----------------------------------------------------------------------------
Places == {"unborn", "top", "pushing", "notifying", "locking", "checking", "asleep",
           "relocking", "timedOut", "taking", "logging", "exited"}

ThreadStep == \/ \E p \in Producers : ProducerStep(p)
              \/ \E c \in Consumers : ConsumerStep(c) \/ WakesSpuriously(c)

RunnerOnly == StartFails \/ AllStarted \/ WaitReturns \/ RaiseStop \/ DestroyTest

(* Every step is of one of these kinds. *)
LEMMA KindsOfSteps ==
    ASSUME [Next]_vars
    PROVE  \/ UNCHANGED vars \/ RunnerOnly
           \/ \E t \in Threads : StartThread(t)
           \/ Running /\ ThreadStep
BY DEF Next, RunnerStep, RunnerOnly, Over, ThreadStep

(* A producer that is about to push is counted. *)
LEMMA PushingCount ==
    /\ IsFiniteSet(Pushing) /\ Cardinality(Pushing) \in Nat
    /\ \A p \in Producers : at[p] = "pushing" => Cardinality(Pushing \ {p}) = Cardinality(Pushing) - 1
    /\ \A p \in Pushing : Cardinality(Pushing) >= 1
    /\ \A p \in Producers : at[p] # "pushing" =>
          Cardinality(Pushing \cup {p}) = Cardinality(Pushing) + 1
<1>1. IsFiniteSet(Pushing) /\ Cardinality(Pushing) \in Nat
  BY QueueAssumption, FS_Subset, FS_CardinalityType DEF Pushing
<1>2. ASSUME NEW p \in Pushing
      PROVE  Cardinality(Pushing \ {p}) = Cardinality(Pushing) - 1 /\ Cardinality(Pushing) >= 1
  <2>1. IsFiniteSet(Pushing \ {p}) /\ Cardinality(Pushing \ {p}) = Cardinality(Pushing) - 1
    BY <1>1, FS_RemoveElement
  <2>2. Cardinality(Pushing \ {p}) \in Nat
    BY <2>1, FS_CardinalityType
  <2>3. QED
    BY <1>1, <2>1, <2>2
<1>3. ASSUME NEW p \in Producers, at[p] # "pushing"
      PROVE  Cardinality(Pushing \cup {p}) = Cardinality(Pushing) + 1
  BY <1>1, <1>3, FS_AddElement DEF Pushing
<1>4. QED
  BY <1>1, <1>2, <1>3 DEF Pushing

(* Where a thread may be, and that the mutex stays with one consumer. *)
LEMMA PlacesKept ==
    ASSUME TypeOK, [Next]_vars
    PROVE  /\ at' \in [Threads -> Places]
           /\ \A c, d \in Consumers : HoldsMutex(c)' /\ HoldsMutex(d)' => c = d
<1>0. /\ at \in [Threads -> Places]
      /\ \A c, d \in Consumers : HoldsMutex(c) /\ HoldsMutex(d) => c = d
      /\ Producers \cap Consumers = {} /\ Producers \cup Consumers = Threads
  BY QueueAssumption DEF TypeOK, Places, Threads
<1>1. CASE UNCHANGED vars \/ RunnerOnly
  BY <1>0, <1>1 DEF vars, RunnerOnly, StartFails, AllStarted, WaitReturns, RaiseStop, DestroyTest,
                    HoldsMutex
<1>2. ASSUME NEW t \in Threads, StartThread(t)
      PROVE  /\ at' \in [Threads -> Places]
             /\ \A c \in Consumers : HoldsMutex(c)' => HoldsMutex(c)
  BY <1>0, <1>2 DEF StartThread, Goes, Places, HoldsMutex
<1>3. ASSUME NEW p \in Producers, ProducerStep(p)
      PROVE  /\ at' \in [Threads -> Places]
             /\ \A c \in Consumers : HoldsMutex(c)' => HoldsMutex(c)
  BY <1>0, <1>3 DEF ProducerStep, ProducerTestsStop, Push, Notify, Goes, Places, HoldsMutex
<1>4. ASSUME NEW c \in Consumers, Lock(c)
      PROVE  /\ at' \in [Threads -> Places]
             /\ \A d \in Consumers : HoldsMutex(d)' => d = c
  BY <1>0, <1>4 DEF Lock, MutexFree, Goes, Places, HoldsMutex
<1>5. ASSUME NEW c \in Consumers,
             \/ ConsumerTestsStop(c) \/ Check(c) \/ TimesOut(c) \/ Take(c) \/ Log(c)
             \/ WakesSpuriously(c)
      PROVE  /\ at' \in [Threads -> Places]
             /\ \A d \in Consumers : HoldsMutex(d)' => HoldsMutex(d)
  BY <1>0, <1>5 DEF ConsumerTestsStop, Check, TimesOut, Take, WhenEmpty, Log, WakesSpuriously, Goes,
                    Places, HoldsMutex
<1>6. QED
  BY <1>0, <1>1, <1>2, <1>3, <1>4, <1>5, KindsOfSteps DEF ThreadStep, ConsumerStep

(* Steps that move no item. *)
NoItemMoved ==
    /\ UNCHANGED <<workItems, latestSequenceId, poppedItem, log>>
    /\ \A c \in Consumers : at[c] = "logging" <=> at'[c] = "logging"

LEMMA FewMoveItems ==
    ASSUME TypeOK, [Next]_vars
    PROVE  \/ NoItemMoved
           \/ \E p \in Producers : Push(p) /\ HasRoom
           \/ \E c \in Consumers : (Take(c) /\ workItems # <<>>) \/ Log(c)
<1>0. /\ at \in [Threads -> Places]
      /\ Producers \cap Consumers = {} /\ Producers \cup Consumers = Threads
  BY QueueAssumption DEF TypeOK, Places, Threads
<1>1. CASE UNCHANGED vars \/ RunnerOnly
  BY <1>1 DEF vars, RunnerOnly, StartFails, AllStarted, WaitReturns, RaiseStop, DestroyTest,
              NoItemMoved
<1>2. ASSUME NEW t \in Threads, StartThread(t)
      PROVE  NoItemMoved
  BY <1>0, <1>2 DEF StartThread, Goes, NoItemMoved
<1>3. ASSUME NEW p \in Producers, ProducerStep(p)
      PROVE  NoItemMoved \/ (Push(p) /\ HasRoom)
  BY <1>0, <1>3 DEF ProducerStep, ProducerTestsStop, Push, Notify, Goes, NoItemMoved
<1>4. ASSUME NEW c \in Consumers,
             \/ Lock(c) \/ ConsumerTestsStop(c) \/ Check(c) \/ TimesOut(c) \/ WakesSpuriously(c)
      PROVE  NoItemMoved
  BY <1>0, <1>4 DEF Lock, ConsumerTestsStop, Check, TimesOut, WakesSpuriously, Goes, NoItemMoved
<1>5. ASSUME NEW c \in Consumers, Take(c), workItems = <<>>
      PROVE  NoItemMoved
  BY <1>0, <1>5 DEF Take, WhenEmpty, Goes, NoItemMoved
<1>6. QED
  BY <1>1, <1>2, <1>3, <1>4, <1>5, KindsOfSteps DEF ThreadStep, ConsumerStep

(* The producers that are about to push, and what was pushed, stay within the bound. *)
LEMMA BoundKept ==
    ASSUME TypeOK, WithinBound, [Next]_vars
    PROVE  WithinBound' /\ latestSequenceId' \in 0 .. MaxItems
<1>0. /\ at \in [Threads -> Places]
      /\ Producers \cap Consumers = {} /\ Producers \cup Consumers = Threads
      /\ latestSequenceId \in 0 .. MaxItems /\ MaxItems \in Nat
      /\ IsFiniteSet(Pushing) /\ Cardinality(Pushing) \in Nat
  BY QueueAssumption, PushingCount DEF TypeOK, Places, Threads
<1>1. ASSUME Pushing' = Pushing, latestSequenceId' = latestSequenceId
      PROVE  WithinBound' /\ latestSequenceId' \in 0 .. MaxItems
  BY <1>0, <1>1 DEF WithinBound
<1>2. CASE UNCHANGED vars \/ RunnerOnly
  BY <1>1, <1>2 DEF vars, RunnerOnly, StartFails, AllStarted, WaitReturns, RaiseStop, DestroyTest,
                    Pushing
<1>3. ASSUME NEW t \in Threads, StartThread(t)
      PROVE  Pushing' = Pushing /\ latestSequenceId' = latestSequenceId
  BY <1>0, <1>3 DEF StartThread, Goes, Pushing
<1>4. ASSUME NEW p \in Producers, ProducerTestsStop(p)
      PROVE  WithinBound' /\ latestSequenceId' \in 0 .. MaxItems
  <2>1. CASE stop
    BY <1>0, <1>1, <1>4, <2>1 DEF ProducerTestsStop, Goes, Pushing
  <2>2. CASE ~stop
    <3>1. Pushing' = Pushing \cup {p} /\ latestSequenceId' = latestSequenceId
      BY <1>0, <1>4, <2>2 DEF ProducerTestsStop, Goes, Pushing
    <3>2. Cardinality(Pushing') = Cardinality(Pushing) + 1
      BY <1>4, <3>1, PushingCount DEF ProducerTestsStop, Goes
    <3>3. latestSequenceId + Cardinality(Pushing) < MaxItems
      BY <1>4, <2>2 DEF ProducerTestsStop, ItemsLeft, Pushing
    <3>4. QED
      BY <1>0, <3>1, <3>2, <3>3 DEF WithinBound
  <2>3. QED
    BY <2>1, <2>2
<1>5. ASSUME NEW p \in Producers, Push(p)
      PROVE  WithinBound' /\ latestSequenceId' \in 0 .. MaxItems
  <2>1. p \in Pushing /\ Pushing' = Pushing \ {p}
    BY <1>0, <1>5 DEF Push, Goes, Pushing
  <2>2. Cardinality(Pushing') = Cardinality(Pushing) - 1 /\ Cardinality(Pushing) >= 1
    BY <2>1, PushingCount DEF Pushing
  <2>3. latestSequenceId' \in {latestSequenceId, latestSequenceId + 1}
    BY <1>5 DEF Push
  <2>4. QED
    BY <1>0, <2>2, <2>3 DEF WithinBound
<1>6. ASSUME NEW p \in Producers, Notify(p)
      PROVE  Pushing' = Pushing /\ latestSequenceId' = latestSequenceId
  BY <1>0, <1>6 DEF Notify, Pushing
<1>7. ASSUME NEW c \in Consumers, ConsumerStep(c) \/ WakesSpuriously(c)
      PROVE  Pushing' = Pushing /\ latestSequenceId' = latestSequenceId
  BY <1>0, <1>7 DEF ConsumerStep, Lock, ConsumerTestsStop, Check, TimesOut, Take, Log,
                    WakesSpuriously, Goes, Pushing
<1>8. QED
  BY <1>1, <1>2, <1>3, <1>4, <1>5, <1>6, <1>7, KindsOfSteps DEF ThreadStep, ProducerStep

(* The sequence of what a consumer has popped, element by element. *)
LogAndHand ==
    \A c \in Consumers :
        /\ log[c] \in Seq(Items) /\ Len(log[c]) \in Nat
        /\ at[c] # "logging" => TakenBy(c) = log[c]
        /\ at[c] = "logging" =>
              /\ Len(TakenBy(c)) = Len(log[c]) + 1
              /\ \A i \in 1 .. Len(log[c]) : TakenBy(c)[i] = log[c][i]
              /\ TakenBy(c)[Len(log[c]) + 1] = poppedItem[c]

LEMMA TakenByIs == TypeOK => LogAndHand
<1> SUFFICES ASSUME TypeOK, NEW c \in Consumers
             PROVE  /\ log[c] \in Seq(Items) /\ Len(log[c]) \in Nat
                    /\ at[c] # "logging" => TakenBy(c) = log[c]
                    /\ at[c] = "logging" =>
                          /\ Len(TakenBy(c)) = Len(log[c]) + 1
                          /\ \A i \in 1 .. Len(log[c]) : TakenBy(c)[i] = log[c][i]
                          /\ TakenBy(c)[Len(log[c]) + 1] = poppedItem[c]
  BY DEF LogAndHand
<1>1. log[c] \in Seq(Items) /\ Len(log[c]) \in Nat /\ poppedItem[c] \in Items \cup {Nothing}
  BY DEF TypeOK
<1>2. CASE at[c] = "logging"
  <2>1. TakenBy(c) = log[c] \o <<poppedItem[c]>>
    BY <1>2 DEF TakenBy
  <2>2. log[c] \in Seq(Items \cup {Nothing})
    BY <1>1
  <2>3. QED
    BY <1>1, <1>2, <2>1, <2>2, OneMore
<1>3. CASE at[c] # "logging"
  <2>1. TakenBy(c) = log[c] \o <<>>
    BY <1>3 DEF TakenBy
  <2>2. QED
    BY <1>1, <1>3, <2>1
<1>4. QED
  BY <1>2, <1>3

(* What a consumer has in hand is an item: it has been taken. *)
LEMMA ItemInHand ==
    ASSUME QueueInv, NEW c \in Consumers, at[c] = "logging"
    PROVE  poppedItem[c] \in Items
<1>1. /\ workItems \in Seq(Items) /\ latestSequenceId \in 0 .. MaxItems
      /\ MaxItems \in Nat /\ TypeOK
  BY QueueAssumption DEF QueueInv, TypeOK
<1>2. Len(log[c]) \in Nat /\ Len(TakenBy(c)) = Len(log[c]) + 1
      /\ TakenBy(c)[Len(log[c]) + 1] = poppedItem[c]
  BY <1>1, TakenByIs DEF LogAndHand
<1>3. poppedItem[c] \in TakenSet(c)
  BY <1>2 DEF TakenSet
<1>4. TakenSet(c) \subseteq 0 .. latestSequenceId - Len(workItems) - 1
  BY DEF QueueInv, ItemsAccounted
<1>5. QED
  BY <1>1, <1>3, <1>4 DEF Items

(* A consumer that takes takes the front of the queue; one that logs logs what it took. *)
LEMMA TypeKept ==
    ASSUME QueueInv, [Next]_vars
    PROVE  TypeOK'
<1> USE DEF QueueInv
<1>0. /\ workItems \in Seq(Items) /\ Len(workItems) <= MaxQueueSize
      /\ poppedItem \in [Consumers -> Items \cup {Nothing}]
      /\ log \in [Consumers -> Seq(Items)]
      /\ latestSequenceId \in 0 .. MaxItems /\ MaxItems \in Nat /\ MaxQueueSize \in Nat
  BY QueueAssumption DEF TypeOK
<1>1. at' \in [Threads -> Places] /\ latestSequenceId' \in 0 .. MaxItems
  BY PlacesKept, BoundKept
<1>2. /\ runner' \in {"starting", "joining", "returned", "thrown", "terminated", "gone"}
      /\ stop' \in BOOLEAN
  <2>1. CASE UNCHANGED vars \/ RunnerOnly
    BY <2>1 DEF TypeOK, vars, RunnerOnly, StartFails, AllStarted, WaitReturns, RaiseStop, DestroyTest
  <2>2. CASE ThreadStep
    BY <2>2 DEF TypeOK, ThreadStep, ProducerStep, ProducerTestsStop, Push, Notify, ConsumerStep, Lock,
                ConsumerTestsStop, Check, TimesOut, Take, Log, WakesSpuriously
  <2>3. CASE \E t \in Threads : StartThread(t)
    BY <2>3 DEF TypeOK, StartThread
  <2>4. QED
    BY <2>1, <2>2, <2>3, KindsOfSteps
<1>3. /\ workItems' \in Seq(Items) /\ Len(workItems') <= MaxQueueSize
      /\ poppedItem' \in [Consumers -> Items \cup {Nothing}]
      /\ log' \in [Consumers -> Seq(Items)]
  <2>1. CASE NoItemMoved
    BY <1>0, <2>1 DEF NoItemMoved
  <2>2. ASSUME NEW p \in Producers, Push(p), HasRoom
        PROVE  /\ workItems' \in Seq(Items) /\ Len(workItems') <= MaxQueueSize
               /\ poppedItem' = poppedItem /\ log' = log
    <3>1. workItems' = Append(workItems, latestSequenceId)
      BY <2>2 DEF Push
    <3>2. latestSequenceId \in Items
      BY <1>0, <1>1, <2>2 DEF Push, Items
    <3>3. Len(workItems) + 1 <= MaxQueueSize
      BY <1>0, <2>2 DEF HasRoom
    <3>4. QED
      BY <1>0, <2>2, <3>1, <3>2, <3>3 DEF Push
  <2>3. ASSUME NEW c \in Consumers, Take(c), workItems # <<>>
        PROVE  /\ workItems' \in Seq(Items) /\ Len(workItems') <= MaxQueueSize
               /\ poppedItem' \in [Consumers -> Items \cup {Nothing}]
               /\ log' = log
    <3>1. workItems' = Tail(workItems) /\ log' = log
          /\ poppedItem' = [poppedItem EXCEPT ![c] = Head(workItems)]
      BY <2>3 DEF Take, WithoutFront
    <3>2. QED
      BY <1>0, <2>3, <3>1, OneLess
  <2>4. ASSUME NEW c \in Consumers, Log(c), poppedItem[c] \in Items
        PROVE  /\ UNCHANGED <<workItems, poppedItem>>
               /\ log' \in [Consumers -> Seq(Items)]
    <3>1. UNCHANGED <<workItems, poppedItem>> /\ log' = [log EXCEPT ![c] = Append(@, poppedItem[c])]
      BY <2>4 DEF Log
    <3>2. Append(log[c], poppedItem[c]) \in Seq(Items)
      BY <1>0, <2>4
    <3>3. QED
      BY <1>0, <3>1, <3>2
  <2>5. QED
    BY <1>0, <2>1, <2>2, <2>3, <2>4, FewMoveItems, ItemInHand DEF Log, Goes
<1>4. QED
  BY <1>1, <1>2, <1>3, PlacesKept DEF TypeOK, Places

(***************************************************************************)
(* What a consumer has taken: the same, or one item more at the end.       *)
(***************************************************************************)
SameTaken(c) ==
    /\ Len(TakenBy(c)') = Len(TakenBy(c))
    /\ \A i \in 1 .. Len(TakenBy(c)) : TakenBy(c)'[i] = TakenBy(c)[i]

LEMMA SameTakenSet ==
    ASSUME NEW c, SameTaken(c)
    PROVE  TakenSet(c)' = TakenSet(c)
BY DEF SameTaken, TakenSet

LEMMA WhoTakes ==
    ASSUME QueueInv, [Next]_vars, NEW c \in Consumers
    PROVE  \/ SameTaken(c)
           \/ /\ Take(c) /\ workItems # <<>>
              /\ Len(TakenBy(c)) \in Nat
              /\ Len(TakenBy(c)') = Len(TakenBy(c)) + 1
              /\ \A i \in 1 .. Len(TakenBy(c)) : TakenBy(c)'[i] = TakenBy(c)[i]
              /\ TakenBy(c)'[Len(TakenBy(c)) + 1] = Head(workItems)
<1>0. /\ at \in [Threads -> Places] /\ poppedItem \in [Consumers -> Items \cup {Nothing}]
      /\ log \in [Consumers -> Seq(Items)]
      /\ Producers \cap Consumers = {} /\ Producers \cup Consumers = Threads
  BY QueueAssumption DEF QueueInv, TypeOK, Places, Threads
<1>1. TypeOK' => LogAndHand'
  BY TakenByIs, PTL
<1>2. LogAndHand /\ LogAndHand'
  BY <1>1, TypeKept, TakenByIs DEF QueueInv
<1>3. ASSUME log'[c] = log[c], poppedItem'[c] = poppedItem[c],
             at[c] = "logging" <=> at'[c] = "logging"
      PROVE  SameTaken(c)
  BY <1>3 DEF SameTaken, TakenBy
<1>4. CASE NoItemMoved
  BY <1>3, <1>4 DEF NoItemMoved
<1>5. ASSUME NEW p \in Producers, Push(p)
      PROVE  SameTaken(c)
  BY <1>0, <1>3, <1>5 DEF Push, Goes
<1>6. ASSUME NEW d \in Consumers, d # c, Take(d) \/ Log(d)
      PROVE  SameTaken(c)
  BY <1>0, <1>3, <1>6 DEF Take, Log, Goes
<1>7. ASSUME Log(c)
      PROVE  SameTaken(c)
  <2>1. /\ at[c] = "logging" /\ at'[c] = "locking"
        /\ log'[c] = Append(log[c], poppedItem[c])
    BY <1>0, <1>7 DEF Log, Goes
  <2>2. log[c] \in Seq(Items) /\ poppedItem[c] \in Items
    BY <1>0, <2>1, ItemInHand
  <2>3. /\ Len(log'[c]) = Len(log[c]) + 1 /\ Len(log[c]) \in Nat
        /\ \A i \in 1 .. Len(log[c]) : log'[c][i] = log[c][i]
        /\ log'[c][Len(log[c]) + 1] = poppedItem[c]
    BY <2>1, <2>2
  <2>4. TakenBy(c)' = log'[c]
    BY <1>2, <2>1 DEF LogAndHand
  <2>5. /\ Len(TakenBy(c)) = Len(log[c]) + 1
        /\ \A i \in 1 .. Len(log[c]) : TakenBy(c)[i] = log[c][i]
        /\ TakenBy(c)[Len(log[c]) + 1] = poppedItem[c]
    BY <1>2, <2>1 DEF LogAndHand
  <2>6. QED
    BY <2>3, <2>4, <2>5 DEF SameTaken
<1>8. ASSUME Take(c), workItems # <<>>
      PROVE  /\ Len(TakenBy(c)) \in Nat
             /\ Len(TakenBy(c)') = Len(TakenBy(c)) + 1
             /\ \A i \in 1 .. Len(TakenBy(c)) : TakenBy(c)'[i] = TakenBy(c)[i]
             /\ TakenBy(c)'[Len(TakenBy(c)) + 1] = Head(workItems)
  <2>1. /\ at[c] = "taking" /\ at'[c] = "logging" /\ log' = log
        /\ poppedItem'[c] = Head(workItems)
    BY <1>0, <1>8 DEF Take, Goes
  <2>2. TakenBy(c) = log[c] /\ Len(log[c]) \in Nat
    BY <1>2, <2>1 DEF LogAndHand
  <2>3. /\ Len(TakenBy(c)') = Len(log'[c]) + 1
        /\ \A i \in 1 .. Len(log'[c]) : TakenBy(c)'[i] = log'[c][i]
        /\ TakenBy(c)'[Len(log'[c]) + 1] = poppedItem'[c]
    BY <1>2, <2>1 DEF LogAndHand
  <2>4. QED
    BY <2>1, <2>2, <2>3
<1>9. QED
  BY <1>4, <1>5, <1>6, <1>7, <1>8, FewMoveItems DEF QueueInv

(* Every item stays in one place: a push extends the queue, a take moves its front. *)
LEMMA AccountsKept ==
    ASSUME QueueInv, [Next]_vars
    PROVE  ItemsAccounted'
<1>0. /\ workItems \in Seq(Items) /\ Len(workItems) \in Nat
      /\ latestSequenceId \in Nat /\ First \in Int
      /\ \A i \in 1 .. Len(workItems) : workItems[i] = First + i - 1
      /\ UNION {TakenSet(c) : c \in Consumers} = 0 .. First - 1
      /\ \A c \in Consumers : \A i, j \in 1 .. Len(TakenBy(c)) :
            i < j => TakenBy(c)[i] < TakenBy(c)[j]
      /\ \A c, d \in Consumers : c # d => TakenSet(c) \cap TakenSet(d) = {}
      /\ \A c \in Consumers : TakenSet(c) \subseteq 0 .. First - 1
  BY QueueAssumption DEF QueueInv, ItemsAccounted, TypeOK, First
<1>1. TypeOK'
  BY TypeKept
<1>2. CASE \A c \in Consumers : SameTaken(c)
  <2>1. \A c \in Consumers : TakenSet(c)' = TakenSet(c)
    BY <1>2, SameTakenSet
  <2>2. \A c \in Consumers : \A i, j \in 1 .. Len(TakenBy(c)') :
            i < j => TakenBy(c)'[i] < TakenBy(c)'[j]
    BY <1>0, <1>2 DEF SameTaken
  <2>3. First' = First /\ \A i \in 1 .. Len(workItems') : workItems'[i] = First + i - 1
    <3>1. CASE UNCHANGED <<workItems, latestSequenceId>>
      BY <1>0, <3>1 DEF First
    <3>2. ASSUME NEW p \in Producers, Push(p), HasRoom
          PROVE  First' = First /\ \A i \in 1 .. Len(workItems') : workItems'[i] = First + i - 1
      <4>1. workItems' = Append(workItems, latestSequenceId)
            /\ latestSequenceId' = latestSequenceId + 1
        BY <3>2 DEF Push
      <4>2. /\ Len(workItems') = Len(workItems) + 1
            /\ \A i \in 1 .. Len(workItems) : workItems'[i] = workItems[i]
            /\ workItems'[Len(workItems) + 1] = latestSequenceId
        BY <1>0, <4>1
      <4>3. latestSequenceId = First + Len(workItems)
        BY <1>0 DEF First
      <4>4. First' = First
        BY <1>0, <4>1, <4>2 DEF First
      <4>5. QED
        BY <1>0, <4>2, <4>3, <4>4
    <3>3. ASSUME NEW c \in Consumers, Take(c), workItems # <<>>
          PROVE  FALSE
      <4>1. workItems' # workItems /\ at[c] = "taking" /\ at'[c] = "logging" /\ log' = log
        <5>1. workItems' = Tail(workItems)
          BY <3>3 DEF Take, WithoutFront
        <5>2. Len(workItems') # Len(workItems)
          BY <1>0, <3>3, <5>1, OneLess
        <5>3. at \in [Threads -> Places] /\ c \in Threads
          BY DEF QueueInv, TypeOK, Places, Threads
        <5>4. QED
          BY <3>3, <5>2, <5>3 DEF Take, Goes
      <4>2. TypeOK' => LogAndHand'
        BY TakenByIs, PTL
      <4>3. Len(TakenBy(c)') = Len(log[c]) + 1 /\ Len(TakenBy(c)) = Len(log[c])
            /\ Len(log[c]) \in Nat
        BY <1>1, <4>1, <4>2, TakenByIs DEF LogAndHand, QueueInv
      <4>4. QED
        BY <1>2, <4>3 DEF SameTaken
    <3>4. QED
      BY <3>1, <3>2, <3>3, FewMoveItems DEF NoItemMoved, Log, QueueInv
  <2>4. UNION {TakenSet(c)' : c \in Consumers} = 0 .. First' - 1
    BY <1>0, <2>1, <2>3
  <2>5. \A c, d \in Consumers : c # d => TakenSet(c)' \cap TakenSet(d)' = {}
    BY <1>0, <2>1
  <2>6. QED
    BY <1>1, <2>2, <2>3, <2>4, <2>5 DEF ItemsAccounted, First
<1>3. ASSUME NEW c \in Consumers, Take(c), workItems # <<>>,
             Len(TakenBy(c)) \in Nat,
             Len(TakenBy(c)') = Len(TakenBy(c)) + 1,
             \A i \in 1 .. Len(TakenBy(c)) : TakenBy(c)'[i] = TakenBy(c)[i],
             TakenBy(c)'[Len(TakenBy(c)) + 1] = Head(workItems)
      PROVE  ItemsAccounted'
  <2>1. Head(workItems) = First /\ Len(workItems) >= 1
    BY <1>0, <1>3, OneLess
  <2>2. /\ First' = First + 1 /\ Len(workItems') = Len(workItems) - 1
        /\ \A i \in 1 .. Len(workItems') : workItems'[i] = First' + i - 1
    <3>1. workItems' = Tail(workItems) /\ latestSequenceId' = latestSequenceId
      BY <1>3 DEF Take, WithoutFront
    <3>2. /\ Len(workItems') = Len(workItems) - 1
          /\ \A i \in 1 .. Len(workItems) - 1 : workItems'[i] = workItems[i + 1]
      BY <1>0, <1>3, <3>1, OneLess
    <3>3. First' = First + 1
      <4>1. First' = latestSequenceId' - Len(workItems') /\ First = latestSequenceId - Len(workItems)
        BY DEF First
      <4>2. latestSequenceId' = latestSequenceId /\ Len(workItems') = Len(workItems) - 1
        BY <3>1, <3>2
      <4>3. latestSequenceId \in Nat /\ Len(workItems) \in Nat
        BY <1>0
      <4>4. QED
        BY <4>1, <4>2, <4>3
    <3>4. QED
      BY <1>0, <3>2, <3>3
  <2>3. \A d \in Consumers \ {c} : SameTaken(d)
    <3>1. ASSUME NEW d \in Consumers \ {c}, Take(d)
          PROVE  FALSE
      <4>1. at \in [Threads -> Places] /\ c \in Threads /\ d \in Threads
        BY DEF QueueInv, TypeOK, Places, Threads
      <4>2. at'[d] = "logging" /\ at[d] = "taking" /\ at' = [at EXCEPT ![c] = "logging"]
        BY <1>3, <3>1, <4>1 DEF Take, Goes
      <4>3. QED
        BY <4>1, <4>2
    <3>2. QED
      BY <3>1, WhoTakes
  <2>4. /\ TakenSet(c)' = TakenSet(c) \cup {First}
        /\ \A d \in Consumers \ {c} : TakenSet(d)' = TakenSet(d)
    <3>1. TakenSet(c)' = TakenSet(c) \cup {First}
      BY <1>3, <2>1 DEF TakenSet
    <3>2. QED
      BY <2>3, <3>1, SameTakenSet
  <2>5. \A d \in Consumers : \A i, j \in 1 .. Len(TakenBy(d)') :
            i < j => TakenBy(d)'[i] < TakenBy(d)'[j]
    <3>1. ASSUME NEW i \in 1 .. Len(TakenBy(c)'), NEW j \in 1 .. Len(TakenBy(c)'), i < j
          PROVE  TakenBy(c)'[i] < TakenBy(c)'[j]
      <4>1. i \in 1 .. Len(TakenBy(c)) /\ TakenBy(c)'[i] = TakenBy(c)[i]
        BY <1>3, <3>1
      <4>2. TakenBy(c)[i] \in 0 .. First - 1
        BY <1>0, <4>1 DEF TakenSet
      <4>3. CASE j = Len(TakenBy(c)) + 1
        BY <1>0, <1>3, <2>1, <4>1, <4>2, <4>3
      <4>4. CASE j \in 1 .. Len(TakenBy(c))
        BY <1>0, <1>3, <3>1, <4>1, <4>4
      <4>5. QED
        BY <1>3, <3>1, <4>3, <4>4
    <3>2. \A d \in Consumers \ {c} : \A i, j \in 1 .. Len(TakenBy(d)') :
            i < j => TakenBy(d)'[i] < TakenBy(d)'[j]
      BY <1>0, <2>3 DEF SameTaken
    <3>3. QED
      BY <3>1, <3>2
  <2>6. UNION {TakenSet(d)' : d \in Consumers} = 0 .. First' - 1
    <3>1. UNION {TakenSet(d)' : d \in Consumers} = (UNION {TakenSet(d) : d \in Consumers}) \cup {First}
      BY <2>4
    <3>2. First \in Nat
      <4>1. workItems[1] \in Items /\ Head(workItems) = workItems[1]
        BY <1>0, <1>3, OneLess
      <4>2. Items \subseteq Nat
        BY QueueAssumption DEF Items
      <4>3. QED
        BY <2>1, <4>1, <4>2
    <3>3. QED
      BY <1>0, <2>2, <3>1, <3>2
  <2>7. \A d, e \in Consumers : d # e => TakenSet(d)' \cap TakenSet(e)' = {}
    <3>1. \A d \in Consumers : First \notin TakenSet(d)
      BY <1>0
    <3>2. QED
      BY <1>0, <2>4, <3>1
  <2>8. QED
    BY <1>1, <2>2, <2>5, <2>6, <2>7 DEF ItemsAccounted, First
<1>4. QED
  BY <1>2, <1>3, WhoTakes

LEMMA StepQueue == QueueInv /\ [Next]_vars => QueueInv'
BY TypeKept, BoundKept, AccountsKept DEF QueueInv

(***************************************************************************)
(* The items of producer_consumer_queue.h are popped once each, in order   *)
(* and by one consumer, however many producers and consumers there are.    *)
(***************************************************************************)
THEOREM ItemsCorrect == Spec => []ItemsAccounted
<1>1. QueueInv => ItemsAccounted
  BY DEF QueueInv
<1>2. QED
  BY InitQueue, StepQueue, <1>1, PTL DEF Spec
-----------------------------------------------------------------------------
(* A thread that runs has been started and has not ended. *)
LEMMA OnlyLiveThreadsStep ==
    ASSUME TypeOK, ThreadStep
    PROVE  /\ runner' = runner
           /\ \A t \in Threads : at'[t] = at[t] \/ (~Exited(t) /\ at[t] # "unborn" /\ at'[t] # "unborn")
<1>0. /\ at \in [Threads -> Places] /\ Producers \cup Consumers = Threads
  BY DEF TypeOK, Places, Threads
<1>1. ASSUME NEW p \in Producers, ProducerStep(p)
      PROVE  /\ runner' = runner
             /\ \A t \in Threads : at'[t] = at[t] \/ (~Exited(t) /\ at[t] # "unborn" /\ at'[t] # "unborn")
  BY <1>0, <1>1 DEF ProducerStep, ProducerTestsStop, Push, Notify, Goes, Exited
<1>2. ASSUME NEW c \in Consumers, ConsumerStep(c) \/ WakesSpuriously(c)
      PROVE  /\ runner' = runner
             /\ \A t \in Threads : at'[t] = at[t] \/ (~Exited(t) /\ at[t] # "unborn" /\ at'[t] # "unborn")
  BY <1>0, <1>2 DEF ConsumerStep, Lock, ConsumerTestsStop, Check, TimesOut, Take, WhenEmpty, Log,
                    WakesSpuriously, Goes, Exited
<1>3. QED
  BY <1>1, <1>2 DEF ThreadStep

(* stop is not theirs to change, and without it none of them ends. *)
LEMMA OnlyStopEnds ==
    ASSUME TypeOK, ThreadStep
    PROVE  stop' = stop /\ \A t \in Threads : at'[t] = "exited" => at[t] = "exited" \/ stop
<1>0. Producers \cap Consumers = {} /\ at \in [Threads -> Places] /\ Producers \cup Consumers = Threads
  BY QueueAssumption DEF TypeOK, Places, Threads
<1>1. ASSUME NEW p \in Producers, ProducerStep(p)
      PROVE  stop' = stop /\ \A t \in Threads : at'[t] = "exited" => at[t] = "exited" \/ stop
  BY <1>0, <1>1 DEF ProducerStep, ProducerTestsStop, Push, Notify, Goes
<1>2. ASSUME NEW c \in Consumers, ConsumerStep(c) \/ WakesSpuriously(c)
      PROVE  stop' = stop /\ \A t \in Threads : at'[t] = "exited" => at[t] = "exited" \/ stop
  BY <1>0, <1>2 DEF ConsumerStep, Lock, ConsumerTestsStop, Check, TimesOut, Take, WhenEmpty, Log,
                    WakesSpuriously, Goes
<1>3. QED
  BY <1>1, <1>2 DEF ThreadStep

(* No thread ends before stop, and run returns when all have ended. *)
JoinInv ==
    /\ StartedByRun
    /\ \A t \in Threads : Exited(t) => stop
    /\ runner = "returned" => \A t \in Threads : Exited(t)

LEMMA RunKept ==
    ASSUME TypeOK, JoinInv, [Next]_vars
    PROVE  JoinInv'
<1> USE DEF JoinInv, StartedByRun, Exited
<1>1. CASE UNCHANGED vars
  BY <1>1 DEF vars
<1>2. CASE RunnerOnly
  <2>1. at' = at
    BY <1>2 DEF RunnerOnly, StartFails, AllStarted, WaitReturns, RaiseStop, DestroyTest
  <2>2. QED
    BY <1>2, <2>1 DEF RunnerOnly, StartFails, AllStarted, WaitReturns, RaiseStop, DestroyTest, Joinable
<1>3. ASSUME NEW t \in Threads, StartThread(t)
      PROVE  JoinInv'
  BY <1>3 DEF StartThread, Goes, TypeOK
<1>4. CASE Running /\ ThreadStep
  <2>1. stop' = stop /\ \A t \in Threads : at'[t] = "exited" => at[t] = "exited" \/ stop
    BY <1>4, OnlyStopEnds
  <2>2. QED
    BY <1>4, <2>1, OnlyLiveThreadsStep
<1>5. QED
  BY <1>1, <1>2, <1>3, <1>4, KindsOfSteps

(***************************************************************************)
(* A run of producer_consumer_queue.h that returns does so after stop,     *)
(* with all its threads joined and all that they popped in the log.  (A    *)
(* run that could not start its threads does not return.)                  *)
(***************************************************************************)
THEOREM ReturnCorrect == Spec => []RunReturnsWhenDone
<1>1. Init => JoinInv
  BY DEF Init, JoinInv, StartedByRun, Exited
<1>2. QueueInv => TypeOK
  BY DEF QueueInv
<1>3. QueueInv /\ JoinInv => RunReturnsWhenDone
  <2> SUFFICES ASSUME QueueInv, JoinInv, runner = "returned" PROVE RunReturnsWhenDone
    BY DEF RunReturnsWhenDone
  <2>1. \A t \in Threads : Exited(t)
    BY DEF JoinInv
  <2>2. stop
    BY <2>1, QueueAssumption DEF JoinInv, Threads
  <2>3. ASSUME NEW c \in Consumers PROVE Logged(c) = TakenSet(c)
    <3>1. at[c] # "logging"
      BY <2>1 DEF Exited, Threads
    <3>2. TakenBy(c) = log[c]
      BY <3>1, TakenByIs DEF LogAndHand, QueueInv
    <3>3. QED
      BY <3>2 DEF Logged, TakenSet
  <2>4. UNION {Logged(c) : c \in Consumers} = UNION {TakenSet(c) : c \in Consumers}
    BY <2>3
  <2>5. QED
    BY <2>1, <2>2, <2>4 DEF RunReturnsWhenDone, QueueInv, ItemsAccounted
<1>4. QED
  BY InitQueue, StepQueue, RunKept, <1>1, <1>2, <1>3, PTL DEF Spec
-----------------------------------------------------------------------------
(***************************************************************************)
(* The producers that are about to notify and the consumers that are on    *)
(* their way to the queue.                                                 *)
(***************************************************************************)
Notifying == {p \in Producers : at[p] = "notifying"}
Coming == {c \in Consumers : at[c] \in {"relocking", "timedOut", "checking", "taking"}}
Asleep == {c \in Consumers : at[c] = "asleep"}

(***************************************************************************)
(* No consumer sleeps while there is an item that nobody is on the way to: *)
(* the time limit of wait_for is needed to hear of stop, and not for the   *)
(* items, although push notifies after the mutex is released.              *)
(***************************************************************************)
ItemsCovered ==
    Asleep # {} => Len(workItems) <= Cardinality(Coming) + Cardinality(Notifying)

LEMMA FinitelyManyComing ==
    /\ IsFiniteSet(Coming) /\ Cardinality(Coming) \in Nat
    /\ IsFiniteSet(Coming') /\ Cardinality(Coming') \in Nat
    /\ IsFiniteSet(Notifying) /\ Cardinality(Notifying) \in Nat
    /\ IsFiniteSet(Notifying') /\ Cardinality(Notifying') \in Nat
BY QueueAssumption, FS_Subset, FS_CardinalityType DEF Coming, Notifying

(* The steps that bring no item and take nobody from the way to one. *)
KeepsCover ==
    /\ Asleep' \subseteq Asleep
    /\ Coming \subseteq Coming'
    /\ UNCHANGED <<Notifying, workItems>>

LEMMA CoverKept ==
    ASSUME TypeOK, ItemsCovered, KeepsCover
    PROVE  ItemsCovered'
<1>1. Cardinality(Coming) <= Cardinality(Coming')
  BY FinitelyManyComing, FS_Subset DEF KeepsCover
<1>2. QED
  BY <1>1, FinitelyManyComing DEF KeepsCover, ItemsCovered, TypeOK

LEMMA ProducerCovers ==
    ASSUME TypeOK, TypeOK', ItemsCovered, NEW p \in Producers, ProducerStep(p)
    PROVE  ItemsCovered'
<1>0. /\ at \in [Threads -> Places] /\ p \in Threads /\ p \notin Consumers
      /\ Consumers \subseteq Threads /\ Producers \subseteq Threads
      /\ Len(workItems) \in Nat
  BY QueueAssumption DEF TypeOK, Places, Threads
<1>1. CASE ProducerTestsStop(p) \/ (Push(p) /\ ~HasRoom)
  <2>1. KeepsCover
    BY <1>0, <1>1 DEF KeepsCover, ProducerTestsStop, Push, Goes, Asleep, Coming, Notifying
  <2>2. QED
    BY <2>1, CoverKept
<1>2. CASE Push(p) /\ HasRoom
  <2>1. Asleep' = Asleep /\ Coming' = Coming
    BY <1>0, <1>2 DEF Push, Goes, Asleep, Coming
  <2>2. Notifying' = Notifying \cup {p} /\ p \notin Notifying
    BY <1>0, <1>2 DEF Push, Goes, Notifying
  <2>3. Cardinality(Notifying') = Cardinality(Notifying) + 1
    BY <2>2, FinitelyManyComing, FS_AddElement
  <2>4. Len(workItems') = Len(workItems) + 1
    <3>1. workItems \in Seq(Int) /\ latestSequenceId \in Int
      BY QueueAssumption DEF TypeOK, Items
    <3>2. QED
      BY <1>2, <3>1 DEF Push
  <2>5. QED
    BY <1>0, <2>1, <2>3, <2>4, FinitelyManyComing DEF ItemsCovered
<1>3. CASE Notify(p)
  <2>1. Notifying' = Notifying \ {p} /\ p \in Notifying
    BY <1>0, <1>3, QueueAssumption DEF Notify, Notifying
  <2>2. Cardinality(Notifying') = Cardinality(Notifying) - 1
    BY <2>1, FinitelyManyComing, FS_RemoveElement
  <2>3. UNCHANGED workItems
    BY <1>3 DEF Notify
  <2>4. CASE Asleep = {} /\ at' = [at EXCEPT ![p] = "top"]
    <3>1. Asleep' = {}
      BY <1>0, <2>4 DEF Asleep
    <3>2. QED
      BY <3>1 DEF ItemsCovered
  <2>5. CASE \E c \in Asleep : at' = [at EXCEPT ![p] = "top", ![c] = "relocking"]
    <3>1. PICK c \in Asleep : at' = [at EXCEPT ![p] = "top", ![c] = "relocking"]
      BY <2>5
    <3>2. Coming' = Coming \cup {c} /\ c \notin Coming
      BY <1>0, <3>1 DEF Asleep, Coming
    <3>3. Cardinality(Coming') = Cardinality(Coming) + 1
      BY <3>2, FinitelyManyComing, FS_AddElement
    <3>4. QED
      BY <1>0, <2>2, <2>3, <3>1, <3>3, FinitelyManyComing DEF ItemsCovered
  <2>6. QED
    BY <1>3, <2>4, <2>5 DEF Notify, Asleep
<1>4. QED
  BY <1>1, <1>2, <1>3 DEF ProducerStep

LEMMA ConsumerCovers ==
    ASSUME TypeOK, ItemsCovered, NEW c \in Consumers, ConsumerStep(c) \/ WakesSpuriously(c)
    PROVE  ItemsCovered'
<1>0. /\ at \in [Threads -> Places] /\ c \in Threads /\ c \notin Producers
      /\ Consumers \subseteq Threads /\ Producers \subseteq Threads
      /\ Len(workItems) \in Nat /\ Len(<<>>) = 0
  BY QueueAssumption DEF TypeOK, Places, Threads
<1>1. CASE Lock(c) \/ ConsumerTestsStop(c) \/ TimesOut(c) \/ WakesSpuriously(c) \/ Log(c)
  <2>1. KeepsCover
    BY <1>0, <1>1 DEF KeepsCover, Lock, ConsumerTestsStop, TimesOut, WakesSpuriously, Log,
                      Goes, Asleep, Coming, Notifying
  <2>2. QED
    BY <2>1, CoverKept
<1>2. CASE Check(c) /\ (stop \/ workItems # <<>>)
  <2>1. KeepsCover
    BY <1>0, <1>2 DEF KeepsCover, Check, Goes, Asleep, Coming, Notifying
  <2>2. QED
    BY <2>1, CoverKept
<1>3. CASE (Check(c) \/ Take(c)) /\ workItems' = <<>>
  BY <1>0, <1>3, FinitelyManyComing DEF ItemsCovered
<1>4. CASE Take(c) /\ workItems # <<>>
  <2>1. Coming' = Coming \ {c} /\ c \in Coming
    BY <1>0, <1>4 DEF Take, Goes, Coming
  <2>2. Cardinality(Coming') = Cardinality(Coming) - 1
    BY <2>1, FinitelyManyComing, FS_RemoveElement
  <2>3. Asleep' = Asleep /\ Notifying' = Notifying
    BY <1>0, <1>4 DEF Take, Goes, Asleep, Notifying
  <2>4. Len(workItems') = Len(workItems) - 1
    BY <1>4, OneLess DEF Take, WithoutFront, TypeOK
  <2>5. QED
    BY <1>0, <2>2, <2>3, <2>4, FinitelyManyComing DEF ItemsCovered
<1>5. CASE Take(c) /\ workItems = <<>>
  BY <1>3, <1>5 DEF Take
<1>6. CASE Check(c) /\ workItems = <<>>
  BY <1>3, <1>6 DEF Check
<1>7. QED
  BY <1>1, <1>2, <1>4, <1>5, <1>6 DEF ConsumerStep

(***************************************************************************)
(* However pushes, notifications, timeouts and logs interleave, an item in *)
(* the queue of producer_consumer_queue.h has somebody on the way to it,   *)
(* or all the consumers are awake.                                         *)
(***************************************************************************)
THEOREM NoWakeupIsLost == Spec => []ItemsCovered
<1>1. Init => ItemsCovered
  <2> SUFFICES ASSUME Init PROVE ItemsCovered
    OBVIOUS
  <2>1. Asleep = {}
    BY DEF Init, Asleep, Threads
  <2>2. QED
    BY <2>1 DEF ItemsCovered
<1>2. TypeOK /\ TypeOK' /\ ItemsCovered /\ [Next]_vars => ItemsCovered'
  <2> SUFFICES ASSUME TypeOK, TypeOK', ItemsCovered, [Next]_vars PROVE ItemsCovered'
    OBVIOUS
  <2>1. CASE UNCHANGED vars \/ RunnerOnly
    <3>1. UNCHANGED <<at, workItems>>
      BY <2>1 DEF vars, RunnerOnly, StartFails, AllStarted, WaitReturns, RaiseStop, DestroyTest
    <3>2. QED
      BY <3>1 DEF ItemsCovered, Asleep, Coming, Notifying
  <2>2. ASSUME NEW t \in Threads, StartThread(t)
        PROVE  ItemsCovered'
    <3>1. KeepsCover
      BY <2>2 DEF KeepsCover, StartThread, Goes, Asleep, Coming, Notifying, TypeOK, Threads
    <3>2. QED
      BY <3>1, CoverKept
  <2>3. CASE ThreadStep
    BY <2>3, ProducerCovers, ConsumerCovers DEF ThreadStep
  <2>4. QED
    BY <2>1, <2>2, <2>3, KindsOfSteps
<1>3. QueueInv => TypeOK
  BY DEF QueueInv
<1>4. QED
  BY InitQueue, StepQueue, <1>1, <1>2, <1>3, PTL DEF Spec
=============================================================================
