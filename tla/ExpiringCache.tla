--------------------------- MODULE ExpiringCache ---------------------------
(***************************************************************************)
(* TExpiringCache of expiring_cache.h: a map with an expiration time and a *)
(* generation per entry, a heap of what was ever put, ordered by           *)
(* expiration, and a thread that sleeps until the top of the heap expires  *)
(* and then erases what has expired from both.                             *)
(*                                                                         *)
(* put, remove, and the part of stop under dataMutex_ are one action each. *)
(* The handler thread holds the mutex from the moment it wakes until it    *)
(* sleeps again, so that is one action too.  Since the heap is only looked *)
(* at for its smallest elements it is a set.  The n-th put gets generation *)
(* n and puts value n.                                                     *)
(***************************************************************************)
EXTENDS Integers, FiniteSets

CONSTANTS
    Keys,
    Ttls,       \* the times to live that are used
    MaxTime,    \* bound on the clock
    MaxPuts,    \* bound on the number of puts
    MaxRemoves  \* bound on the number of removes

ASSUME CacheAssumption ==
    /\ Ttls \subseteq Int
    /\ MaxTime \in Nat
    /\ MaxPuts \in Nat
    /\ MaxRemoves \in Nat

VARIABLES
    now,                \* the steady clock
    currentGeneration,
    lookupMap,          \* a function from some of the keys
    expirationQueue,    \* the heap
    isStopping,
    handler,            \* where the expiration handler thread is
    deadline,           \* timeToWaitUntil
    stopper,            \* where the thread that calls stop is
    removes             \* history: number of removes so far

dataVars == <<currentGeneration, lookupMap, expirationQueue>>
vars == <<now, dataVars, isStopping, handler, deadline, stopper, removes>>

Generations == 1 .. MaxPuts
Expirations == {t + ttl : t \in 0 .. MaxTime, ttl \in Ttls}
Never == MaxTime + 1     \* time_point::max()

TypeOK ==
    /\ now \in 0 .. MaxTime
    /\ currentGeneration \in 0 .. MaxPuts
    /\ DOMAIN lookupMap \subseteq Keys
    /\ \A k \in DOMAIN lookupMap :
          lookupMap[k] \in [expiration : Expirations, generation : Generations]
    /\ expirationQueue
          \subseteq [key : Keys, expiration : Expirations, generation : Generations]
    /\ isStopping \in BOOLEAN
    /\ handler \in {"awake", "asleep", "exited"}
    /\ deadline \in Expirations \cup {0, Never}
    /\ stopper \in {"away", "notifying", "joining", "joined"}
    /\ removes \in 0 .. MaxRemoves

Init ==
    /\ now = 0
    /\ currentGeneration = 0
    /\ lookupMap = [k \in {} |-> 0]
    /\ expirationQueue = {}
    /\ isStopping = FALSE
    /\ handler = "awake"
    /\ deadline = 0     \* none yet: the first wait computes one
    /\ stopper = "away"
    /\ removes = 0
-----------------------------------------------------------------------------
(* The elements that top() may be: equal expirations come out in any order. *)
Tops(queue) == {e \in queue : \A f \in queue : e.expiration <= f.expiration}

(* Faulty variant: the handler is not notified. *)
NotifyNobody == UNCHANGED handler

Notify == handler' = IF handler = "asleep" THEN "awake" ELSE handler

(* What put and remove do last: wake the handler if the top is about their key. *)
NotifyIfTop(queue, k) ==
    \/ \E e \in Tops(queue) : e.key = k /\ Notify
    \/ (queue = {} \/ \E e \in Tops(queue) : e.key # k) /\ UNCHANGED handler

Entry(ttl, n) == [expiration |-> now + ttl, generation |-> n]
HeapEntry(k, ttl, n) == [key |-> k, expiration |-> now + ttl, generation |-> n]

(* insert_or_assign *)
Assign(k, entry) ==
    lookupMap' = [j \in DOMAIN lookupMap \cup {k} |-> IF j = k THEN entry ELSE lookupMap[j]]

Erased(map, keys) == [k \in DOMAIN map \ keys |-> map[k]]

FreshGeneration == currentGeneration + 1

(* Faulty variant: replacing an entry pushes nothing to the heap. *)
PushedIfNew(e) ==
    IF e.key \in DOMAIN lookupMap THEN expirationQueue ELSE expirationQueue \cup {e}

Pushed(e) == expirationQueue \cup {e}

Put(k, ttl) ==
    /\ ~isStopping
    /\ currentGeneration < MaxPuts
    /\ currentGeneration' = currentGeneration + 1
    /\ Assign(k, Entry(ttl, FreshGeneration))
    /\ expirationQueue' = Pushed(HeapEntry(k, ttl, FreshGeneration))
    /\ NotifyIfTop(expirationQueue', k)
    /\ UNCHANGED <<now, isStopping, deadline, stopper, removes>>

(* The heap keeps its entry: its generation no longer matches anything. *)
Remove(k) ==
    /\ ~isStopping
    /\ removes < MaxRemoves
    /\ removes' = removes + 1
    /\ lookupMap' = Erased(lookupMap, {k})
    /\ NotifyIfTop(expirationQueue, k)
    /\ UNCHANGED <<now, currentGeneration, expirationQueue, isStopping, deadline, stopper>>

(* What get returns, as the entry: nothing once it has expired or after stop. *)
Get(k) ==
    IF ~isStopping /\ k \in DOMAIN lookupMap /\ lookupMap[k].expiration > now
    THEN [value |-> lookupMap[k].generation, expiration |-> lookupMap[k].expiration]
    ELSE [value |-> 0, expiration |-> 0]
-----------------------------------------------------------------------------
(* stop, called once from outside and again, to no effect, by the destructor. *)
StopBegins ==
    /\ stopper = "away"
    /\ isStopping' = TRUE
    /\ stopper' = "notifying"
    /\ UNCHANGED <<now, dataVars, handler, deadline, removes>>

StopNotifies ==
    /\ stopper = "notifying"
    /\ Notify
    /\ stopper' = "joining"
    /\ UNCHANGED <<now, dataVars, isStopping, deadline, removes>>

StopJoins ==
    /\ stopper = "joining"
    /\ handler = "exited"
    /\ stopper' = "joined"
    /\ UNCHANGED <<now, dataVars, isStopping, handler, deadline, removes>>
-----------------------------------------------------------------------------
Expired(e) == e.expiration <= now

(* The predicate of the handler's wait, stop apart. *)
TopExpired == \E e \in expirationQueue : Expired(e)

HandlerExits ==
    /\ handler = "awake"
    /\ isStopping
    /\ handler' = "exited"
    /\ UNCHANGED <<now, dataVars, isStopping, deadline, stopper, removes>>

(***************************************************************************)
(* Woken before the deadline with nothing expired: wait_until goes on with *)
(* the deadline it was given, even if an earlier expiration was put since. *)
(***************************************************************************)
HandlerSleepsOn ==
    /\ handler = "awake"
    /\ ~isStopping /\ ~TopExpired
    /\ now < deadline
    /\ handler' = "asleep"
    /\ UNCHANGED <<now, dataVars, isStopping, deadline, stopper, removes>>

(***************************************************************************)
(* Otherwise the wait ends: pop what has expired, erase from the map what  *)
(* still has the generation that was popped, and wait for the next top.    *)
(***************************************************************************)
Due == handler = "awake" /\ ~isStopping /\ (TopExpired \/ deadline <= now)
Popped == {e \in expirationQueue : Expired(e)}
Wakeup(queue) == IF queue = {} THEN Never ELSE (CHOOSE e \in Tops(queue) : TRUE).expiration

(* Faulty variant: the generation is not compared. *)
KeyMatches(e) == e.key \in DOMAIN lookupMap

GenerationMatches(e) ==
    e.key \in DOMAIN lookupMap /\ lookupMap[e.key].generation = e.generation

HandlerErases ==
    /\ Due
    /\ expirationQueue' = expirationQueue \ Popped
    /\ lookupMap' = Erased(lookupMap, {e.key : e \in {f \in Popped : GenerationMatches(f)}})
    /\ deadline' = Wakeup(expirationQueue')
    /\ handler' = "asleep"
    /\ UNCHANGED <<now, currentGeneration, isStopping, stopper, removes>>

(* Faulty variant: wait in place of wait_until. *)
HandlerNeverTimesOut == FALSE

HandlerTimesOut ==
    /\ handler = "asleep"
    /\ deadline <= now
    /\ handler' = "awake"
    /\ UNCHANGED <<now, dataVars, isStopping, deadline, stopper, removes>>

HandlerWakesSpuriously ==
    /\ handler = "asleep"
    /\ handler' = "awake"
    /\ UNCHANGED <<now, dataVars, isStopping, deadline, stopper, removes>>

Tick ==
    /\ now < MaxTime
    /\ now' = now + 1
    /\ UNCHANGED <<dataVars, isStopping, handler, deadline, stopper, removes>>
-----------------------------------------------------------------------------
HandlerStep == HandlerExits \/ HandlerSleepsOn \/ HandlerErases \/ HandlerTimesOut
StopperStep == StopNotifies \/ StopJoins

Over == stopper = "joined" /\ UNCHANGED vars

Next ==
    \/ \E k \in Keys : Remove(k) \/ \E ttl \in Ttls : Put(k, ttl)
    \/ StopBegins \/ StopperStep
    \/ HandlerStep \/ HandlerWakesSpuriously
    \/ Tick
    \/ Over

Spec == Init /\ [][Next]_vars

(* The two threads run when they can, and time passes (up to the bound). *)
FairSpec == Spec /\ WF_vars(HandlerStep) /\ WF_vars(StopperStep) /\ WF_vars(Tick)
-----------------------------------------------------------------------------
(***************************************************************************)
(* Every entry of the map has its entry in the heap, with its expiration   *)
(* and generation; one without it would never be erased.  (And the state   *)
(* is well typed: no entry has a generation that was not given out.)       *)
(***************************************************************************)
HeapCoversMap ==
    /\ TypeOK
    /\ \A k \in DOMAIN lookupMap :
          [key |-> k, expiration |-> lookupMap[k].expiration,
           generation |-> lookupMap[k].generation] \in expirationQueue

(***************************************************************************)
(* What get returns is what a map with expiring entries should return: the *)
(* handler, whenever it runs, never takes away an entry that was renewed   *)
(* or put again after a remove, and a stale heap entry does no harm.       *)
(***************************************************************************)
Ttl == INSTANCE TtlMap WITH
    puts <- currentGeneration,
    live <- [k \in Keys |-> Get(k)],
    closed <- isStopping

ImplementsTtlMap == Ttl!Spec

(***************************************************************************)
(* An entry that expires no earlier than the handler's deadline is erased  *)
(* in the end (within the bound on time), because each erasing leaves a    *)
(* deadline no later than the entries that are left.  The entries put with *)
(* an earlier expiration than the deadline have no such promise.           *)
(***************************************************************************)
Covered(e) == e \in expirationQueue /\ deadline <= e.expiration

CoveredEntriesAreErased ==
    \A k \in Keys, x \in 1 .. MaxTime, g \in Generations :
        LET e == [key |-> k, expiration |-> x, generation |-> g]
        IN  Covered(e) ~> e \notin expirationQueue \/ isStopping

(* stop returns: the handler hears of it wherever it sleeps. *)
StopReturns == isStopping ~> stopper = "joined"
=============================================================================
