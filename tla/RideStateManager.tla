-------------------------- MODULE RideStateManager --------------------------
(***************************************************************************)
(* RideStateManagerTest of ride_state_manager.h: the state of a ride, a    *)
(* bounded queue of notifications about its changes, and one thread that   *)
(* takes them from the queue and dispatches them to the observers.         *)
(*                                                                         *)
(* subscribe, unsubscribe and tryChangingState each hold their mutexes     *)
(* from the first test to the last write, so each is one action, whoever   *)
(* calls it (a callback that runs on the observer thread included: no      *)
(* mutex is held while it runs).  The observer thread is the loop that     *)
(* run() starts.                                                           *)
(***************************************************************************)
EXTENDS Integers, Sequences, FiniteSets

CONSTANTS
    Dispatchers,    \* the IObserverDispatcher objects
    Observers,      \* the IRideStateObserver objects
    MaxPending,     \* k_maxPendingNotifications
    MaxChanges      \* bound on the number of state changes ever accepted

ASSUME RideAssumption ==
    /\ Dispatchers \cap Observers = {}
    /\ MaxPending \in Nat \ {0}
    /\ MaxChanges \in Nat

VARIABLES
    currentRideState,
    notificationsQueue, \* oldest first
    isShuttingDown,
    observers,          \* observers_: a sequence of <<dispatcher, observer>>
    held,               \* the objects somebody outside still owns
    thread,             \* where the observer thread is
    front,              \* frontNotificationData
    healthyObservers,   \* the snapshot, as strong references
    turn,               \* index of the pair the thread dispatches to next
    stop,               \* the flag given to run
    owner,              \* where the thread that owns the manager is
    visited,            \* history: the states the ride has been in, in order
    rounds,             \* history: number of snapshots taken
    owed,               \* history: per pair, rounds since it subscribed without its turn
    left                \* history: per pair, whether it is out, and since which round

rideVars == <<currentRideState, notificationsQueue, visited>>
threadVars == <<front, healthyObservers, turn, rounds>>
vars == <<rideVars, isShuttingDown, observers, held, thread, threadVars, stop, owner,
          owed, left>>

RideStates == {"Idle", "Requested", "PassengerBoarding", "InProgress", "Completed"}
Notifications == [previousState : RideStates, currentState : RideStates]
Pairs == Dispatchers \X Observers

TypeOK ==
    /\ currentRideState \in RideStates
    /\ notificationsQueue \in Seq(Notifications) /\ Len(notificationsQueue) <= MaxPending
    /\ isShuttingDown \in BOOLEAN
    /\ observers \in Seq(Pairs)
    /\ held \in SUBSET (Dispatchers \cup Observers)
    /\ thread \in {"unborn", "top", "checking", "asleep", "popped", "dispatching", "exited"}
    /\ front \in Notifications
    /\ healthyObservers \in Seq(Pairs)
    /\ turn \in 1 .. Len(healthyObservers) + 1
    /\ stop \in BOOLEAN
    /\ owner \in {"using", "notifying", "joining", "destroyed"}
    /\ visited \in Seq(RideStates)
    /\ rounds \in 0 .. MaxChanges
    /\ owed \in [Pairs -> 0 .. rounds]
    /\ left \in [Pairs -> {"no", "thisRound", "earlier"}]

Init ==
    /\ currentRideState = "Idle"
    /\ notificationsQueue = <<>>
    /\ isShuttingDown = FALSE
    /\ observers = <<>>
    /\ held = Dispatchers \cup Observers
    /\ thread = "unborn"
    /\ front = [previousState |-> "Idle", currentState |-> "Idle"]
    /\ healthyObservers = <<>>
    /\ turn = 1
    /\ stop = FALSE
    /\ owner = "using"
    /\ visited = <<"Idle">>
    /\ rounds = 0
    /\ owed = [p \in Pairs |-> 0]
    /\ left = [p \in Pairs |-> "earlier"]
-----------------------------------------------------------------------------
(* Weak pointers: an object lives while it is held outside or in the snapshot. *)
Snapshotted == {healthyObservers[i] : i \in 1 .. Len(healthyObservers)}
Alive(x) == x \in held \/ \E p \in Snapshotted : x \in {p[1], p[2]}
Healthy(p) == Alive(p[1]) /\ Alive(p[2])
HealthyPairs == {p \in Pairs : Healthy(p)}

(* The last shared_ptr that somebody outside has to x goes away. *)
Release(x) ==
    /\ x \in held
    /\ held' = held \ {x}
    /\ UNCHANGED <<rideVars, isShuttingDown, observers, thread, threadVars, stop, owner, owed, left>>
-----------------------------------------------------------------------------
(***************************************************************************)
(* What erasing leaves of a sequence: the elements that are in Keep, in    *)
(* their order.  The n-th of them is the one with n of them up to itself.  *)
(***************************************************************************)
KeptAt(s, Keep) == {i \in 1 .. Len(s) : s[i] \in Keep}
Rank(at, i) == Cardinality({j \in at : j <= i})

Erased(s, Keep) ==
    LET at == KeptAt(s, Keep)
    IN  [n \in 1 .. Cardinality(at) |-> s[CHOOSE i \in at : Rank(at, i) = n]]

Subscribed == {observers[i] : i \in 1 .. Len(observers)}

(* Where the pair stands among the observers, if it does. *)
Entry(p) == {i \in 1 .. Len(observers) : observers[i] = p}

(***************************************************************************)
(* A scan of observers_ that erases expired entries on its way.  It stops  *)
(* at the pair itself, so what expired behind it stays; at the end of the  *)
(* scan the pair is new and is appended.                                   *)
(***************************************************************************)
Subscribe(d, o) ==
    /\ ~isShuttingDown
    /\ {d, o} \subseteq held
    /\ \/ \E i \in Entry(<<d, o>>) :
             /\ observers' = Erased(SubSeq(observers, 1, i - 1), HealthyPairs)
                               \o SubSeq(observers, i, Len(observers))
             /\ UNCHANGED <<owed, left>>
       \/ /\ Entry(<<d, o>>) = {}
          /\ observers' = Append(Erased(observers, HealthyPairs), <<d, o>>)
          /\ owed' = [owed EXCEPT ![<<d, o>>] = 0]
          /\ left' = [left EXCEPT ![<<d, o>>] = "no"]
    /\ UNCHANGED <<rideVars, isShuttingDown, held, thread, threadVars, stop, owner>>

(* Faulty variant: the scan ends at the first entry of the observer. *)
FirstEntryOf(o) ==
    {observers[i] : i \in {k \in 1 .. Len(observers) :
        observers[k][2] = o /\ \A j \in 1 .. k - 1 : observers[j][2] # o}}

EntriesOf(o) == {p \in Subscribed : p[2] = o}

(* Erases every entry of the observer, whatever its dispatcher, and of any dead one. *)
Unsubscribe(o) ==
    /\ ~isShuttingDown
    /\ o \in held
    /\ observers' = Erased(observers, {p \in Pairs : Alive(p[2])} \ EntriesOf(o))
    /\ left' = [p \in Pairs |-> IF p[2] = o /\ left[p] = "no" THEN "thisRound" ELSE left[p]]
    /\ UNCHANGED <<rideVars, isShuttingDown, held, thread, threadVars, stop, owner, owed>>
-----------------------------------------------------------------------------
IsValidTransition(current, nextState) ==
    CASE nextState = "Idle"              -> current # "Idle"
      [] nextState = "Requested"         -> current = "Idle"
      [] nextState = "PassengerBoarding" -> current = "Requested"
      [] nextState = "InProgress"        -> current = "PassengerBoarding"
      [] nextState = "Completed"         -> current = "InProgress"

(* Faulty variant: the thread is not notified. *)
NotifyNobody == UNCHANGED thread

(* notificationQueueCv_.notify_one: only the observer thread ever waits on it. *)
NotifyThread == thread' = IF thread = "asleep" THEN "checking" ELSE thread

HasRoom == Len(notificationsQueue) < MaxPending

(* Faulty variant: the newest notification overtakes the others. *)
Overtaking(change) == <<change>> \o notificationsQueue

Queued(change) == Append(notificationsQueue, change)

(***************************************************************************)
(* resetToIdle, requestRide, startBoarding, startRide and completeRide: an *)
(* invalid change, a full queue and a shutdown all refuse it and change    *)
(* nothing.                                                                *)
(***************************************************************************)
TryChangingState(nextState) ==
    /\ ~isShuttingDown
    /\ Len(visited) <= MaxChanges
    /\ IsValidTransition(currentRideState, nextState)
    /\ HasRoom
    /\ currentRideState' = nextState
    /\ notificationsQueue' =
          Queued([previousState |-> currentRideState, currentState |-> nextState])
    /\ visited' = Append(visited, nextState)
    /\ NotifyThread
    /\ UNCHANGED <<isShuttingDown, observers, held, threadVars, stop, owner, owed, left>>
-----------------------------------------------------------------------------
(* run: starts the observer thread; called once, by TestBase::start. *)
Run ==
    /\ owner = "using"
    /\ thread = "unborn"
    /\ thread' = "top"
    /\ UNCHANGED <<rideVars, isShuttingDown, observers, held, threadVars, stop, owner, owed, left>>

(* main raises the flag; nothing wakes the thread for it. *)
RaiseStop ==
    /\ ~stop
    /\ stop' = TRUE
    /\ UNCHANGED <<rideVars, isShuttingDown, observers, held, thread, threadVars, owner, owed, left>>

TestStop ==
    /\ thread = "top"
    /\ thread' = IF stop THEN "exited" ELSE "checking"
    /\ UNCHANGED <<rideVars, isShuttingDown, observers, held, threadVars, stop, owner, owed, left>>

Block ==
    /\ thread = "checking"
    /\ ~isShuttingDown /\ notificationsQueue = <<>>
    /\ thread' = "asleep"
    /\ UNCHANGED <<rideVars, isShuttingDown, observers, held, threadVars, stop, owner, owed, left>>

WakeSpuriously ==
    /\ thread = "asleep"
    /\ thread' = "checking"
    /\ UNCHANGED <<rideVars, isShuttingDown, observers, held, threadVars, stop, owner, owed, left>>

(* Faulty variant: a shutdown does not wait for the queue to drain. *)
ShutdownSeen == isShuttingDown

Drained == isShuttingDown /\ notificationsQueue = <<>>

ExitOnShutdown ==
    /\ thread = "checking"
    /\ Drained
    /\ thread' = "exited"
    /\ UNCHANGED <<rideVars, isShuttingDown, observers, held, threadVars, stop, owner, owed, left>>

Pop ==
    /\ thread = "checking"
    /\ notificationsQueue # <<>>
    /\ front' = Head(notificationsQueue)
    /\ notificationsQueue' = Tail(notificationsQueue)
    /\ thread' = "popped"
    /\ UNCHANGED <<currentRideState, visited, isShuttingDown, observers, held, healthyObservers,
                   turn, rounds, stop, owner, owed, left>>

(* Under observersMutex_: forget the expired entries, pin the others. *)
TakeSnapshot ==
    /\ thread = "popped"
    /\ observers' = Erased(observers, HealthyPairs)
    /\ healthyObservers' = observers'
    /\ turn' = 1
    /\ rounds' = rounds + 1
    /\ thread' = "dispatching"
    /\ owed' = [p \in Pairs |-> IF p \in Subscribed THEN owed[p] + 1 ELSE owed[p]]
    /\ left' = [p \in Pairs |-> IF left[p] = "thisRound" THEN "earlier" ELSE left[p]]
    /\ UNCHANGED <<rideVars, isShuttingDown, held, front, stop, owner>>

(* Faulty variant: a failing callback ends the round for everybody. *)
EndOfTurns == Len(healthyObservers) + 1

NextTurn == turn + 1

(***************************************************************************)
(* One call of dispatch, under no mutex.  An exception that comes out of   *)
(* it is caught and the loop goes on as if it had returned.                *)
(***************************************************************************)
Dispatch ==
    /\ thread = "dispatching"
    /\ turn <= Len(healthyObservers)
    /\ owed' = [owed EXCEPT ![healthyObservers[turn]] = IF @ = 0 THEN 0 ELSE @ - 1]
    /\ turn' = NextTurn
    /\ UNCHANGED <<rideVars, isShuttingDown, observers, held, thread, front, healthyObservers,
                   rounds, stop, owner, left>>

(* The snapshot goes out of scope, with the last reference to what was released meanwhile. *)
EndRound ==
    /\ thread = "dispatching"
    /\ turn > Len(healthyObservers)
    /\ healthyObservers' = <<>>
    /\ turn' = 1
    /\ thread' = "top"
    /\ UNCHANGED <<rideVars, isShuttingDown, observers, held, front, rounds, stop, owner,
                   owed, left>>
-----------------------------------------------------------------------------
(* ~RideStateManagerTest: raise isShuttingDown_, notify (after the unlock), join. *)
BeginDestruction ==
    /\ owner = "using"
    /\ isShuttingDown' = TRUE
    /\ owner' = "notifying"
    /\ UNCHANGED <<rideVars, observers, held, thread, threadVars, stop, owed, left>>

DestructorNotifies ==
    /\ owner = "notifying"
    /\ NotifyThread
    /\ owner' = "joining"
    /\ UNCHANGED <<rideVars, isShuttingDown, observers, held, threadVars, stop, owed, left>>

DestructorJoins ==
    /\ owner = "joining"
    /\ thread \in {"unborn", "exited"}
    /\ owner' = "destroyed"
    /\ UNCHANGED <<rideVars, isShuttingDown, observers, held, thread, threadVars, stop, owed,
                   left>>
-----------------------------------------------------------------------------
ThreadStep ==
    TestStop \/ Block \/ ExitOnShutdown \/ Pop \/ TakeSnapshot \/ Dispatch \/ EndRound

OwnerStep == DestructorNotifies \/ DestructorJoins

Call ==
    \/ \E d \in Dispatchers, o \in Observers : Subscribe(d, o)
    \/ \E o \in Observers : Unsubscribe(o)
    \/ \E s \in RideStates : TryChangingState(s)
    \/ Run
    \/ BeginDestruction

Outside == (\E x \in Dispatchers \cup Observers : Release(x)) \/ RaiseStop

Over == owner = "destroyed" /\ UNCHANGED vars

Next == ThreadStep \/ OwnerStep \/ Call \/ Outside \/ WakeSpuriously \/ Over

Spec == Init /\ [][Next]_vars

(***************************************************************************)
(* The thread runs when it can (callbacks return), and a destructor that   *)
(* has begun goes on; nobody has to call anything.                         *)
(***************************************************************************)
FairSpec == Spec /\ WF_vars(ThreadStep) /\ WF_vars(OwnerStep)
-----------------------------------------------------------------------------
(* How many notifications have left the queue. *)
Popped == rounds + (IF thread = "popped" THEN 1 ELSE 0)

Change(i) == [previousState |-> visited[i], currentState |-> visited[i + 1]]

(***************************************************************************)
(* The queue holds exactly the changes that the thread has not taken yet,  *)
(* in the order in which they were made: each begins in the state where    *)
(* the one before it ended (the first one where the one being dispatched   *)
(* ended), and the last one ends in the current state.  Two mutexes guard  *)
(* the state and the queue, and tryChangingState must hold both.  (And the *)
(* state is well typed: the queue keeps its limit.)                        *)
(***************************************************************************)
QueueTellsTheRide ==
    /\ TypeOK
    /\ currentRideState = visited[Len(visited)]
    /\ Len(visited) = Popped + Len(notificationsQueue) + 1
    /\ \A i \in 1 .. Len(notificationsQueue) : notificationsQueue[i] = Change(Popped + i)
    /\ thread \in {"popped", "dispatching"} => front = Change(Popped)

(* Pairs whose turn in the present round has not come yet, and those who had it. *)
Awaiting == {healthyObservers[i] : i \in turn .. Len(healthyObservers)}
Served == {healthyObservers[i] : i \in 1 .. turn - 1}

(***************************************************************************)
(* A pair that is subscribed and alive has been told of every change       *)
(* dispatched since it subscribed, the present round excepted until its    *)
(* turn comes: neither a duplicate subscription, nor the cleaning of       *)
(* expired entries, nor an exception of another observer's callback makes  *)
(* it miss one.  Nor is anybody told of a change twice, however it         *)
(* subscribes, unsubscribes and subscribes again, with one dispatcher or   *)
(* several, before and during the round.                                   *)
(***************************************************************************)
HeardExactlyOnce ==
    /\ \A p \in Subscribed : Healthy(p) => owed[p] <= IF p \in Awaiting THEN 1 ELSE 0
    /\ Served \cap Awaiting = {}
    /\ Cardinality(Awaiting) = Len(healthyObservers) + 1 - turn

(***************************************************************************)
(* Once unsubscribe has returned, the observer may still be called by the  *)
(* dispatch round in progress (its snapshot pins it), and by no later one  *)
(* until it subscribes again, whichever dispatchers it was subscribed with. *)
(***************************************************************************)
UnsubscribedHearNoNewRound == \A p \in Awaiting : left[p] # "earlier"

(***************************************************************************)
(* Shutting down alone loses nothing: unless stop was raised, the          *)
(* destructor returns only when all accepted changes have been dispatched. *)
(***************************************************************************)
ShutdownDrains ==
    owner = "destroyed" /\ ~stop /\ thread = "exited" => notificationsQueue = <<>>

(***************************************************************************)
(* The destructor returns: a thread asleep on the queue hears of the       *)
(* shutdown even if it has slept through stop.                             *)
(***************************************************************************)
DestructorReturns == isShuttingDown ~> owner = "destroyed"

(* Every accepted change is dispatched in the end, unless stop is raised. *)
ChangesGetDispatched ==
    \A n \in 1 .. MaxChanges :
        Len(visited) > n /\ thread # "unborn" ~> rounds >= n \/ stop
=============================================================================
