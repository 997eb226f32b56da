----------------------- MODULE ProducerConsumerQueue -----------------------
(***************************************************************************)
(* ProducerConsumerQueueTest of producer_consumer_queue.h: producers push  *)
(* numbered items into a bounded queue, consumers pop and log them.        *)
(*                                                                         *)
(* A producer holds the mutex for one push, which is one action.  A        *)
(* consumer holds it from "top" until it sleeps, logs or exits, reading    *)
(* the unprotected stop flag in between, so each read is a step.  Nobody   *)
(* notifies the consumers when stop rises: their waits time out.           *)
(***************************************************************************)
EXTENDS Integers, FiniteSets, Sequences

CONSTANTS
    Producers, Consumers,
    MaxQueueSize,   \* maxQueueSize
    MaxItems,       \* bound on the number of items ever pushed
    SpawnMayFail    \* TRUE iff a thread may fail to start

ASSUME QueueAssumption ==
    /\ Producers \cap Consumers = {} /\ Producers # {}
    /\ IsFiniteSet(Producers) /\ IsFiniteSet(Consumers)
    /\ MaxQueueSize \in Nat \ {0}
    /\ MaxItems \in Nat
    /\ SpawnMayFail \in BOOLEAN

VARIABLES
    workItems,          \* sequence numbers of the queued items, oldest first
    latestSequenceId,
    at,                 \* per thread, where it is
    poppedItem,         \* per consumer, the item it has popped last
    runner,             \* where the thread is that called run
    stop,
    log                 \* history: per consumer, the items it has logged

vars == <<workItems, latestSequenceId, at, poppedItem, runner, stop, log>>

Threads == Producers \cup Consumers
Items == 0 .. MaxItems - 1
Nothing == -1

(* Where a consumer holds workItemsMutex_; a producer never keeps it. *)
HoldsMutex(c) == at[c] \in {"top", "checking", "taking"}
MutexFree == \A c \in Consumers : ~HoldsMutex(c)

TypeOK ==
    /\ workItems \in Seq(Items) /\ Len(workItems) <= MaxQueueSize
    /\ latestSequenceId \in 0 .. MaxItems
    /\ at \in [Threads -> {"unborn", "top", "pushing", "notifying", "locking", "checking",
                           "asleep", "relocking", "timedOut", "taking", "logging", "exited"}]
    /\ poppedItem \in [Consumers -> Items \cup {Nothing}]
    /\ runner \in {"starting", "joining", "returned", "thrown", "terminated", "gone"}
    /\ stop \in BOOLEAN
    /\ log \in [Consumers -> Seq(Items)]
    /\ \A c, d \in Consumers : HoldsMutex(c) /\ HoldsMutex(d) => c = d

Init ==
    /\ workItems = <<>>
    /\ latestSequenceId = 0
    /\ at = [t \in Threads |-> "unborn"]
    /\ poppedItem = [c \in Consumers |-> Nothing]
    /\ runner = "starting"
    /\ stop = FALSE
    /\ log = [c \in Consumers |-> <<>>]

Goes(t, from, to) == at[t] = from /\ at' = [at EXCEPT ![t] = to]
-----------------------------------------------------------------------------
(* run: the producers are started before the consumers. *)
Startable(t) == t \in Consumers => \A p \in Producers : at[p] # "unborn"
Exited(t) == at[t] = "exited"

StartThread(t) ==
    /\ runner = "starting"
    /\ Startable(t)
    /\ Goes(t, "unborn", IF t \in Producers THEN "top" ELSE "locking")
    /\ UNCHANGED <<workItems, latestSequenceId, poppedItem, runner, stop, log>>

(* Nobody catches this in run: the threads already started stay in threads_. *)
StartFails ==
    /\ SpawnMayFail
    /\ runner = "starting"
    /\ \E t \in Threads : at[t] = "unborn"
    /\ runner' = "thrown"
    /\ UNCHANGED <<workItems, latestSequenceId, at, poppedItem, stop, log>>

AllStarted ==
    /\ runner = "starting"
    /\ \A t \in Threads : at[t] # "unborn"
    /\ runner' = "joining"
    /\ UNCHANGED <<workItems, latestSequenceId, at, poppedItem, stop, log>>

(* Faulty variant: only the producers are joined. *)
JoinableProducers == {p \in Producers : ~Exited(p)}

(* What wait has yet to join. *)
Joinable == {t \in Threads : ~Exited(t)}

WaitReturns ==
    /\ runner = "joining"
    /\ Joinable = {}
    /\ runner' = "returned"
    /\ UNCHANGED <<workItems, latestSequenceId, at, poppedItem, stop, log>>

RaiseStop ==
    /\ ~stop
    /\ stop' = TRUE
    /\ UNCHANGED <<workItems, latestSequenceId, at, poppedItem, runner, log>>

(***************************************************************************)
(* main destroys the test after stop.  Only a run that threw has left      *)
(* threads in threads_; each is joinable, even if it has ended, and the    *)
(* destructor of a joinable std::thread calls std::terminate.              *)
(***************************************************************************)
DestroyTest ==
    /\ stop
    /\ \/ runner = "returned" /\ runner' = "gone"
       \/ /\ runner = "thrown"
          /\ runner' = IF \A t \in Threads : at[t] = "unborn" THEN "gone" ELSE "terminated"
    /\ UNCHANGED <<workItems, latestSequenceId, at, poppedItem, stop, log>>

(* A terminated process takes its threads with it. *)
Running == runner # "terminated"
-----------------------------------------------------------------------------
(* The bound: a producer without an item left to push sleeps until stop. *)
ItemsLeft == latestSequenceId + Cardinality({p \in Producers : at[p] = "pushing"}) < MaxItems

ProducerTestsStop(p) ==
    /\ Goes(p, "top", IF stop THEN "exited" ELSE "pushing")
    /\ stop \/ ItemsLeft
    /\ UNCHANGED <<workItems, latestSequenceId, poppedItem, runner, stop, log>>

HasRoom == Len(workItems) < MaxQueueSize

(* Under the mutex; a full queue refuses the item, and no number is used up. *)
Push(p) ==
    /\ MutexFree
    /\ \/ /\ HasRoom
          /\ Goes(p, "pushing", "notifying")
          /\ workItems' = Append(workItems, latestSequenceId)
          /\ latestSequenceId' = latestSequenceId + 1
       \/ /\ ~HasRoom
          /\ Goes(p, "pushing", "top")
          /\ UNCHANGED <<workItems, latestSequenceId>>
    /\ UNCHANGED <<poppedItem, runner, stop, log>>

(* notify_one wakes any one of the sleeping consumers. *)
Notify(p) ==
    /\ at[p] = "notifying"
    /\ LET asleep == {c \in Consumers : at[c] = "asleep"}
       IN  \/ /\ asleep = {}
              /\ at' = [at EXCEPT ![p] = "top"]
           \/ \E c \in asleep : at' = [at EXCEPT ![p] = "top", ![c] = "relocking"]
    /\ UNCHANGED <<workItems, latestSequenceId, poppedItem, runner, stop, log>>
-----------------------------------------------------------------------------
(* Taking the mutex: at first and after a log, and on the way out of the wait. *)
Lock(c) ==
    /\ MutexFree
    /\ \/ Goes(c, "locking", "top")
       \/ Goes(c, "relocking", "checking")
       \/ Goes(c, "timedOut", "taking")
    /\ UNCHANGED <<workItems, latestSequenceId, poppedItem, runner, stop, log>>

ConsumerTestsStop(c) ==
    /\ Goes(c, "top", IF stop THEN "exited" ELSE "checking")
    /\ UNCHANGED <<workItems, latestSequenceId, poppedItem, runner, stop, log>>

(* The predicate of wait_for. *)
Check(c) ==
    /\ Goes(c, "checking", IF stop \/ workItems # <<>> THEN "taking" ELSE "asleep")
    /\ UNCHANGED <<workItems, latestSequenceId, poppedItem, runner, stop, log>>

(* Faulty variant: wait in place of wait_for. *)
NeverTimesOut(c) == FALSE

TimesOut(c) ==
    /\ Goes(c, "asleep", "timedOut")
    /\ UNCHANGED <<workItems, latestSequenceId, poppedItem, runner, stop, log>>

WakesSpuriously(c) ==
    /\ Goes(c, "asleep", "relocking")
    /\ UNCHANGED <<workItems, latestSequenceId, poppedItem, runner, stop, log>>

(* Faulty variant: a wait that times out is taken for the end. *)
WhenEmptyGivingUp == "exited"

(* An empty queue: return when stop has risen, else go round again. *)
WhenEmpty == IF stop THEN "exited" ELSE "top"

(* Faulty variant: the item is copied and stays in the queue. *)
WithoutFrontForgotten == workItems

WithoutFront == Tail(workItems)

Take(c) ==
    /\ \/ /\ workItems = <<>>
          /\ Goes(c, "taking", WhenEmpty)
          /\ UNCHANGED <<workItems, poppedItem>>
       \/ /\ workItems # <<>>
          /\ Goes(c, "taking", "logging")
          /\ poppedItem' = [poppedItem EXCEPT ![c] = Head(workItems)]
          /\ workItems' = WithoutFront
    /\ UNCHANGED <<latestSequenceId, runner, stop, log>>

Log(c) ==
    /\ Goes(c, "logging", "locking")
    /\ log' = [log EXCEPT ![c] = Append(@, poppedItem[c])]
    /\ UNCHANGED <<workItems, latestSequenceId, poppedItem, runner, stop>>
-----------------------------------------------------------------------------
RunnerStep == (\E t \in Threads : StartThread(t)) \/ AllStarted \/ WaitReturns

ProducerStep(p) == ProducerTestsStop(p) \/ Push(p) \/ Notify(p)

ConsumerStep(c) ==
    Lock(c) \/ ConsumerTestsStop(c) \/ Check(c) \/ TimesOut(c) \/ Take(c) \/ Log(c)

Over ==
    /\ runner \in {"gone", "terminated"}
    /\ runner = "gone" => \A t \in Threads : at[t] \in {"unborn", "exited"}
    /\ UNCHANGED vars

Next ==
    \/ RunnerStep \/ StartFails \/ RaiseStop \/ DestroyTest \/ Over
    \/ /\ Running
       /\ \/ \E p \in Producers : ProducerStep(p)
          \/ \E c \in Consumers : ConsumerStep(c) \/ WakesSpuriously(c)

Spec == Init /\ [][Next]_vars

(***************************************************************************)
(* run and the threads go on when they can.  Time passes, so a wait ends.  *)
(* Nobody has to raise stop, and no notification has to be heard.          *)
(***************************************************************************)
FairSpec ==
    /\ Spec
    /\ WF_vars(RunnerStep)
    /\ \A p \in Producers : WF_vars(Running /\ ProducerStep(p))
    /\ \A c \in Consumers : WF_vars(Running /\ ConsumerStep(c))
-----------------------------------------------------------------------------
(* What a consumer has popped, oldest first: what it logged and what it has in hand. *)
TakenBy(c) == log[c] \o (IF at[c] = "logging" THEN <<poppedItem[c]>> ELSE <<>>)
TakenSet(c) == {TakenBy(c)[i] : i \in 1 .. Len(TakenBy(c))}
Logged(c) == {log[c][i] : i \in 1 .. Len(log[c])}

(***************************************************************************)
(* Every item pushed is in exactly one place, the queue, the hands of one  *)
(* consumer, or one consumer's log, and what is queued is newer than what  *)
(* was taken; one consumer's log is in the order of the queue.  No two     *)
(* consumers pop the same item, although they log outside the mutex, and   *)
(* one that sees stop has logged what it popped.  (And the state is well   *)
(* typed: the queue keeps its limit.)                                      *)
(***************************************************************************)
ItemsAccounted ==
    LET first == latestSequenceId - Len(workItems)
    IN  /\ TypeOK
        /\ \A i \in 1 .. Len(workItems) : workItems[i] = first + i - 1
        /\ UNION {TakenSet(c) : c \in Consumers} = 0 .. first - 1
        /\ \A c \in Consumers : \A i, j \in 1 .. Len(TakenBy(c)) :
              i < j => TakenBy(c)[i] < TakenBy(c)[j]
        /\ \A c, d \in Consumers : c # d => TakenSet(c) \cap TakenSet(d) = {}

(***************************************************************************)
(* run returns only after stop, with all its threads joined, and then what *)
(* the consumers popped is in the log: no thread gives up early, and none  *)
(* leaves with an item in hand.  This is about a run that could start its  *)
(* threads; the others throw.                                              *)
(***************************************************************************)
RunReturnsWhenDone ==
    runner = "returned" =>
        /\ stop /\ \A t \in Threads : Exited(t)
        /\ UNION {Logged(c) : c \in Consumers} = 0 .. latestSequenceId - Len(workItems) - 1

(***************************************************************************)
(* README.md (Key Engineering Considerations) promises exception-safe      *)
(* thread lifecycles: a thread that cannot be started would then make run  *)
(* throw and no more, and main go on to its end.                           *)
(***************************************************************************)
FailedStartIsExceptionSafe == runner # "terminated"

(* run ends after stop, although nobody notifies the consumers of it. *)
RunEnds == stop /\ runner = "joining" ~> runner \in {"returned", "gone"}

(* Once the threads are started, every item pushed is taken, unless stop rises. *)
ItemsAreTaken ==
    \A n \in Items :
        runner = "joining" /\ latestSequenceId > n ~>
            latestSequenceId - Len(workItems) > n \/ stop
=============================================================================
