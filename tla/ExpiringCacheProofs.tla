------------------------ MODULE ExpiringCacheProofs ------------------------
(***************************************************************************)
(* Proofs about ExpiringCache for any keys, times to live, bound on the    *)
(* clock and bounds on the calls: every entry of the map is in the heap,   *)
(* and callers of get cannot tell the cache from a TtlMap.                 *)
(***************************************************************************)
EXTENDS ExpiringCache, FiniteSetTheorems, TLAPS

(***************************************************************************)
(* A generation is given to one put only: what the handler pops is what    *)
(* the map still has, if the generations match.  The heap is finite, so    *)
(* that it has a top.                                                      *)
(***************************************************************************)
GenerationsTell ==
    /\ IsFiniteSet(expirationQueue)
    /\ \A e \in expirationQueue : e.generation <= currentGeneration
    /\ \A e, f \in expirationQueue : e.generation = f.generation => e = f

CacheInv == HeapCoversMap /\ GenerationsTell

MapEntries == [expiration : Expirations, generation : Generations]
HeapEntries == [key : Keys, expiration : Expirations, generation : Generations]

HeapEntryOf(k) ==
    [key |-> k, expiration |-> lookupMap[k].expiration, generation |-> lookupMap[k].generation]
-----------------------------------------------------------------------------
(***************************************************************************)
(* A finite heap has a top: among the sets of the entries that expire no   *)
(* later than some entry, one includes no other.                           *)
(***************************************************************************)
LEMMA HeapHasTop ==
    ASSUME NEW queue, IsFiniteSet(queue), queue # {}, \A e \in queue : e.expiration \in Int
    PROVE  Tops(queue) # {}
<1> DEFINE Upto(e) == {f \in queue : f.expiration <= e.expiration}
           T == {Upto(e) : e \in queue}
<1>1. T \subseteq FiniteSubsetsOf(queue) /\ T # {}
  <2>1. \A e \in queue : IsFiniteSet(Upto(e)) /\ Upto(e) \in SUBSET queue
    BY FS_Subset
  <2>2. QED
    BY <2>1 DEF FiniteSubsetsOf
<1>2. PICK A \in T : \A B \in T : <<B, A>> \notin StrictSubsetOrdering(queue)
  BY <1>1, FS_StrictSubsetOrderingWellFounded, WFMin
<1>3. PICK e \in queue : A = Upto(e)
  OBVIOUS
<1>4. ASSUME NEW f \in queue, f.expiration < e.expiration
      PROVE  FALSE
  <2>1. f \in Upto(f) /\ Upto(f) \in T /\ e \in Upto(e) /\ e \notin Upto(f)
    BY <1>4
  <2>2. Upto(f) \subseteq Upto(e)
    BY <1>4
  <2>3. <<Upto(f), Upto(e)>> \in StrictSubsetOrdering(queue)
    BY <2>1, <2>2 DEF StrictSubsetOrdering
  <2>4. QED
    BY <1>2, <1>3, <2>1, <2>3
<1>5. e \in Tops(queue)
  BY <1>4 DEF Tops
<1>6. QED
  BY <1>5

LEMMA ExpirationsAreTimes == Expirations \subseteq Int
BY CacheAssumption DEF Expirations

LEMMA WakeupIsADeadline ==
    ASSUME NEW queue \in SUBSET HeapEntries, IsFiniteSet(queue)
    PROVE  Wakeup(queue) \in Expirations \cup {0, Never}
<1>1. CASE queue = {}
  BY <1>1 DEF Wakeup
<1>2. CASE queue # {}
  <2>1. \A e \in queue : e.expiration \in Expirations /\ e.expiration \in Int
    BY ExpirationsAreTimes DEF HeapEntries
  <2>2. Tops(queue) # {}
    BY <1>2, <2>1, HeapHasTop
  <2>3. (CHOOSE e \in Tops(queue) : TRUE) \in queue
    BY <2>2 DEF Tops
  <2>4. QED
    BY <1>2, <2>1, <2>3 DEF Wakeup
<1>3. QED
  BY <1>1, <1>2
-----------------------------------------------------------------------------
LEMMA InitCache == Init => CacheInv
<1> SUFFICES ASSUME Init PROVE CacheInv
  OBVIOUS
<1>1. DOMAIN lookupMap = {} /\ expirationQueue = {} /\ currentGeneration = 0
  BY DEF Init
<1>2. TypeOK
  <2>1. now \in 0 .. MaxTime /\ currentGeneration \in 0 .. MaxPuts /\ removes \in 0 .. MaxRemoves
    BY CacheAssumption DEF Init
  <2>2. deadline \in Expirations \cup {0, Never}
    BY DEF Init
  <2>3. QED
    BY <1>1, <2>1, <2>2 DEF Init, TypeOK
<1>3. GenerationsTell
  BY <1>1, FS_EmptySet DEF GenerationsTell
<1>4. QED
  BY <1>1, <1>2, <1>3 DEF CacheInv, HeapCoversMap

(* The steps that leave the map and the heap alone. *)
LeavesData ==
    \/ StopBegins \/ StopperStep
    \/ HandlerExits \/ HandlerSleepsOn \/ HandlerTimesOut \/ HandlerWakesSpuriously
    \/ Tick

LEMMA KindsOfSteps ==
    ASSUME [Next]_vars
    PROVE  \/ \E k \in Keys, ttl \in Ttls : Put(k, ttl)
           \/ \E k \in Keys : Remove(k)
           \/ HandlerErases
           \/ LeavesData \/ UNCHANGED vars
BY DEF Next, HandlerStep, Over, LeavesData

LEMMA DataUntouched ==
    ASSUME CacheInv, LeavesData \/ UNCHANGED vars
    PROVE  CacheInv'
<1>1. UNCHANGED dataVars
  BY DEF LeavesData, StopBegins, StopperStep, StopNotifies, StopJoins, HandlerExits,
         HandlerSleepsOn, HandlerTimesOut, HandlerWakesSpuriously, Tick, vars
<1>2. TypeOK
  BY DEF CacheInv, HeapCoversMap
<1>3. now' \in 0 .. MaxTime
  BY <1>2, CacheAssumption DEF TypeOK, LeavesData, StopBegins, StopperStep, StopNotifies,
     StopJoins, HandlerExits, HandlerSleepsOn, HandlerTimesOut, HandlerWakesSpuriously, Tick, vars
<1>4. /\ isStopping' \in BOOLEAN /\ handler' \in {"awake", "asleep", "exited"}
      /\ deadline' = deadline /\ stopper' \in {"away", "notifying", "joining", "joined"}
      /\ removes' = removes
  BY <1>2 DEF TypeOK, LeavesData, StopBegins, StopperStep, StopNotifies, Notify,
     StopJoins, HandlerExits, HandlerSleepsOn, HandlerTimesOut, HandlerWakesSpuriously, Tick, vars
<1>5. TypeOK'
  BY <1>1, <1>2, <1>3, <1>4 DEF TypeOK, dataVars, Expirations, Generations, Never
<1>6. QED
  BY <1>1, <1>5 DEF CacheInv, HeapCoversMap, GenerationsTell, dataVars

(* Whoever notifies, the handler is where it may be. *)
LEMMA NotifiedHandler ==
    ASSUME TypeOK, NEW queue, NEW k, NotifyIfTop(queue, k)
    PROVE  handler' \in {"awake", "asleep", "exited"}
BY DEF TypeOK, NotifyIfTop, Notify

(* A put gives the entry to both, with a generation that the heap does not have yet. *)
LEMMA PutKeeps ==
    ASSUME CacheInv, NEW k \in Keys, NEW ttl \in Ttls, Put(k, ttl)
    PROVE  CacheInv'
<1> DEFINE g == currentGeneration + 1
           entry == [expiration |-> now + ttl, generation |-> g]
           pushed == [key |-> k, expiration |-> now + ttl, generation |-> g]
<1>1. TypeOK /\ GenerationsTell
  BY DEF CacheInv, HeapCoversMap
<1>2. /\ currentGeneration \in Nat /\ currentGeneration' = g /\ g \in Generations
      /\ now + ttl \in Expirations /\ g \in 0 .. MaxPuts
  <2>1. currentGeneration \in Nat /\ currentGeneration < MaxPuts /\ MaxPuts \in Nat
    BY <1>1, CacheAssumption DEF TypeOK, Put
  <2>2. now + ttl \in Expirations
    BY <1>1 DEF TypeOK, Expirations
  <2>3. QED
    BY <2>1, <2>2 DEF Put, Generations
<1>3. /\ DOMAIN lookupMap' = DOMAIN lookupMap \cup {k}
      /\ lookupMap'[k] = entry
      /\ \A j \in DOMAIN lookupMap \ {k} : lookupMap'[j] = lookupMap[j]
  BY DEF Put, Assign, Entry, FreshGeneration
<1>4. expirationQueue' = expirationQueue \cup {pushed}
  BY DEF Put, Pushed, HeapEntry, FreshGeneration
<1>5. entry \in MapEntries /\ pushed \in HeapEntries
  BY <1>2 DEF MapEntries, HeapEntries
<1>6. handler' \in {"awake", "asleep", "exited"}
  BY <1>1, NotifiedHandler DEF Put
<1>7. TypeOK'
  <2>1. \A j \in DOMAIN lookupMap' : lookupMap'[j] \in MapEntries
    BY <1>1, <1>3, <1>5 DEF TypeOK, MapEntries
  <2>2. expirationQueue' \subseteq HeapEntries
    BY <1>1, <1>4, <1>5 DEF TypeOK, HeapEntries
  <2>3. QED
    BY <1>1, <1>2, <1>3, <1>6, <2>1, <2>2 DEF TypeOK, Put, MapEntries, HeapEntries
<1>8. GenerationsTell'
  <2>1. IsFiniteSet(expirationQueue')
    BY <1>1, <1>4, FS_AddElement DEF GenerationsTell
  <2>2. \A e \in expirationQueue : e.generation \in Int /\ e.generation < g
    BY <1>1, <1>2 DEF TypeOK, GenerationsTell, Generations
  <2>3. \A e \in expirationQueue' : e.generation <= currentGeneration'
    BY <1>2, <1>4, <2>2
  <2>4. \A e, f \in expirationQueue' : e.generation = f.generation => e = f
    BY <1>1, <1>4, <2>2 DEF GenerationsTell
  <2>5. QED
    BY <2>1, <2>3, <2>4 DEF GenerationsTell
<1>9. \A j \in DOMAIN lookupMap' : HeapEntryOf(j)' \in expirationQueue'
  BY <1>3, <1>4 DEF CacheInv, HeapCoversMap, HeapEntryOf
<1>10. QED
  BY <1>7, <1>8, <1>9 DEF CacheInv, HeapCoversMap, HeapEntryOf

LEMMA RemoveKeeps ==
    ASSUME CacheInv, NEW k \in Keys, Remove(k)
    PROVE  CacheInv'
<1>1. TypeOK /\ GenerationsTell
  BY DEF CacheInv, HeapCoversMap
<1>2. /\ DOMAIN lookupMap' = DOMAIN lookupMap \ {k}
      /\ \A j \in DOMAIN lookupMap' : lookupMap'[j] = lookupMap[j]
  BY DEF Remove, Erased
<1>3. handler' \in {"awake", "asleep", "exited"}
  BY <1>1, NotifiedHandler DEF Remove
<1>4. removes' \in 0 .. MaxRemoves
  BY <1>1, CacheAssumption DEF TypeOK, Remove
<1>5. TypeOK'
  BY <1>1, <1>2, <1>3, <1>4 DEF TypeOK, Remove
<1>6. QED
  BY <1>1, <1>2, <1>5 DEF CacheInv, HeapCoversMap, GenerationsTell, Remove

(* The handler pops no heap entry whose map entry it leaves. *)
LEMMA ErasingKeeps ==
    ASSUME CacheInv, HandlerErases
    PROVE  CacheInv'
<1> DEFINE gone == {e.key : e \in {f \in Popped : GenerationMatches(f)}}
<1>1. TypeOK /\ GenerationsTell
  BY DEF CacheInv, HeapCoversMap
<1>2. /\ DOMAIN lookupMap' = DOMAIN lookupMap \ gone
      /\ \A j \in DOMAIN lookupMap' : lookupMap'[j] = lookupMap[j]
  BY DEF HandlerErases, Erased
<1>3. expirationQueue' = expirationQueue \ Popped /\ IsFiniteSet(expirationQueue')
  BY <1>1, FS_Subset DEF HandlerErases, GenerationsTell
<1>4. expirationQueue' \subseteq HeapEntries
  BY <1>1, <1>3 DEF TypeOK, HeapEntries
<1>5. deadline' \in Expirations \cup {0, Never}
  <2>1. Wakeup(expirationQueue') \in Expirations \cup {0, Never}
    BY <1>3, <1>4, WakeupIsADeadline
  <2>2. QED
    BY <2>1 DEF HandlerErases
<1>6. TypeOK'
  BY <1>1, <1>2, <1>4, <1>5 DEF TypeOK, HandlerErases, HeapEntries
<1>7. \A j \in DOMAIN lookupMap' : HeapEntryOf(j)' \in expirationQueue'
  <2> SUFFICES ASSUME NEW j \in DOMAIN lookupMap' PROVE HeapEntryOf(j)' \in expirationQueue'
    OBVIOUS
  <2>1. j \in DOMAIN lookupMap /\ j \notin gone /\ HeapEntryOf(j)' = HeapEntryOf(j)
    BY <1>2 DEF HeapEntryOf
  <2>2. HeapEntryOf(j) \in expirationQueue
    BY <2>1 DEF CacheInv, HeapCoversMap, HeapEntryOf
  <2>3. GenerationMatches(HeapEntryOf(j)) /\ HeapEntryOf(j).key = j
    BY <2>1 DEF GenerationMatches, HeapEntryOf
  <2>4. HeapEntryOf(j) \notin Popped
    BY <2>1, <2>3
  <2>5. QED
    BY <1>3, <2>1, <2>2, <2>4
<1>8. GenerationsTell'
  BY <1>1, <1>3 DEF GenerationsTell, HandlerErases
<1>9. QED
  BY <1>6, <1>7, <1>8 DEF CacheInv, HeapCoversMap, HeapEntryOf

LEMMA CacheKept == CacheInv /\ [Next]_vars => CacheInv'
BY KindsOfSteps, PutKeeps, RemoveKeeps, ErasingKeeps, DataUntouched

LEMMA CacheAlways == Spec => []CacheInv
BY InitCache, CacheKept, PTL DEF Spec

(***************************************************************************)
(* Whatever is put, renewed, removed and erased, no entry of the map is    *)
(* without its entry in the heap, so that the handler will find it.        *)
(***************************************************************************)
THEOREM HeapCoversMapHolds == Spec => []HeapCoversMap
<1>1. CacheInv => HeapCoversMap
  BY DEF CacheInv
<1>2. QED
  BY <1>1, CacheAlways, PTL
-----------------------------------------------------------------------------
(***************************************************************************)
(* The handler never sleeps through stop: it tests isStopping_ under the   *)
(* mutex, and stop notifies it after the mutex is released.                *)
(***************************************************************************)
StopIsHeard == handler = "asleep" => stopper \in {"away", "notifying"}

(* stop is called once, and the handler goes to sleep only before it. *)
SleepInv == (isStopping <=> stopper # "away") /\ StopIsHeard

LEMMA SleepKept == SleepInv /\ [Next]_vars => SleepInv'
<1> SUFFICES ASSUME SleepInv, [Next]_vars PROVE SleepInv'
  OBVIOUS
<1> USE DEF SleepInv, StopIsHeard
<1>1. CASE LeavesData
  BY <1>1 DEF LeavesData, StopBegins, StopperStep, StopNotifies, Notify, StopJoins,
       HandlerExits, HandlerSleepsOn, HandlerTimesOut, HandlerWakesSpuriously, Tick
<1>2. ASSUME NEW k \in Keys, Remove(k) \/ \E ttl \in Ttls : Put(k, ttl)
      PROVE  SleepInv'
  <2>1. handler' = "asleep" => handler = "asleep"
    BY <1>2 DEF Put, Remove, NotifyIfTop, Notify
  <2>2. QED
    BY <1>2, <2>1 DEF Put, Remove
<1>3. CASE HandlerErases \/ UNCHANGED vars
  BY <1>3 DEF HandlerErases, Due, vars
<1>4. QED
  BY <1>1, <1>2, <1>3, KindsOfSteps

(***************************************************************************)
(* When stop waits to join the handler, the handler is on its way out of   *)
(* the loop or has left it: it needs no spurious wakeup and no expiration. *)
(***************************************************************************)
THEOREM StopIsAlwaysHeard == Spec => []StopIsHeard
<1>1. Init => SleepInv
  BY DEF Init, SleepInv, StopIsHeard
<1>2. SleepInv => StopIsHeard
  BY DEF SleepInv
<1>3. QED
  BY <1>1, SleepKept, <1>2, PTL DEF Spec
-----------------------------------------------------------------------------
(* What get answers, under the name it has in TtlMap. *)
Answers == [k \in Keys |-> Get(k)]

LEMMA InitRefines == Init => Ttl!Init
<1> SUFFICES ASSUME Init PROVE Ttl!Init
  OBVIOUS
<1>1. \A k \in Keys : Get(k) = Ttl!Nothing
  BY DEF Init, Get, Ttl!Nothing
<1>2. Answers = Ttl!AllGone
  BY <1>1 DEF Answers, Ttl!AllGone
<1>3. QED
  BY <1>2 DEF Init, Ttl!Init, Answers

(* An entry put with no time to live is gone when put returns. *)
LEMMA PutRefines ==
    ASSUME CacheInv, NEW k \in Keys, NEW ttl \in Ttls, Put(k, ttl)
    PROVE  Ttl!Put(k, ttl)
<1> DEFINE fresh == IF ttl > 0
                    THEN [value |-> currentGeneration + 1, expiration |-> now + ttl]
                    ELSE Ttl!Nothing
<1>1. now \in Int /\ ttl \in Int
  BY CacheAssumption DEF CacheInv, HeapCoversMap, TypeOK
<1>2. /\ DOMAIN lookupMap' = DOMAIN lookupMap \cup {k}
      /\ lookupMap'[k] = [expiration |-> now + ttl, generation |-> currentGeneration + 1]
      /\ \A j \in DOMAIN lookupMap \ {k} : lookupMap'[j] = lookupMap[j]
      /\ ~isStopping /\ UNCHANGED <<now, isStopping>>
  BY DEF Put, Assign, Entry, FreshGeneration
<1>3. Get(k)' = fresh
  <2>1. now + ttl > now <=> ttl > 0
    BY <1>1
  <2>2. QED
    BY <1>2, <2>1 DEF Get, Ttl!Nothing
<1>4. \A j \in Keys \ {k} : Get(j)' = Get(j)
  BY <1>2 DEF Get
<1>5. Answers' = [Answers EXCEPT ![k] = fresh]
  BY <1>3, <1>4 DEF Answers
<1>6. QED
  BY <1>5 DEF Put, Ttl!Put, Answers

LEMMA RemoveRefines ==
    ASSUME NEW k \in Keys, Remove(k)
    PROVE  Ttl!Remove(k)
<1>1. /\ DOMAIN lookupMap' = DOMAIN lookupMap \ {k}
      /\ \A j \in DOMAIN lookupMap' : lookupMap'[j] = lookupMap[j]
      /\ UNCHANGED <<now, isStopping>>
  BY DEF Remove, Erased
<1>2. Get(k)' = Ttl!Nothing /\ \A j \in Keys \ {k} : Get(j)' = Get(j)
  BY <1>1 DEF Get, Ttl!Nothing
<1>3. Answers' = [Answers EXCEPT ![k] = Ttl!Nothing]
  BY <1>2 DEF Answers
<1>4. QED
  BY <1>3 DEF Remove, Ttl!Remove, Answers

LEMMA StopRefines ==
    ASSUME StopBegins
    PROVE  Ttl!Close
<1>1. \A k \in Keys : Get(k)' = Ttl!Nothing
  BY DEF StopBegins, Get, Ttl!Nothing
<1>2. Answers' = Ttl!AllGone
  BY <1>1 DEF Answers, Ttl!AllGone
<1>3. QED
  BY <1>2 DEF StopBegins, Ttl!Close, Answers, dataVars

(* What expires at this instant is not answered any more, erased or not. *)
LEMMA TickRefines ==
    ASSUME CacheInv, Tick
    PROVE  Ttl!Tick
<1>1. now \in Nat /\ now' = now + 1 /\ UNCHANGED <<lookupMap, isStopping>>
  BY CacheAssumption DEF CacheInv, HeapCoversMap, TypeOK, Tick, dataVars
<1>2. \A k \in DOMAIN lookupMap : lookupMap[k].expiration \in Int
  BY ExpirationsAreTimes DEF CacheInv, HeapCoversMap, TypeOK
<1>3. ASSUME NEW k \in Keys
      PROVE  Get(k)' = IF Answers[k].expiration > now' THEN Answers[k] ELSE Ttl!Nothing
  <2>1. CASE ~isStopping /\ k \in DOMAIN lookupMap /\ lookupMap[k].expiration > now
    BY <1>1, <1>2, <2>1 DEF Answers, Get, Ttl!Nothing
  <2>2. CASE ~(~isStopping /\ k \in DOMAIN lookupMap /\ lookupMap[k].expiration > now)
    <3>1. Answers[k] = Ttl!Nothing /\ Answers[k].expiration = 0 /\ ~(0 > now')
      BY <1>1, <2>2 DEF Answers, Get, Ttl!Nothing
    <3>2. ~(~isStopping' /\ k \in DOMAIN lookupMap' /\ lookupMap'[k].expiration > now')
      BY <1>1, <1>2, <2>2
    <3>3. QED
      BY <3>1, <3>2 DEF Get, Ttl!Nothing
  <2>3. QED
    BY <2>1, <2>2
<1>4. Answers' = [k \in Keys |-> IF Answers[k].expiration > now' THEN Answers[k] ELSE Ttl!Nothing]
  BY <1>3 DEF Answers
<1>5. QED
  BY <1>4 DEF Tick, Ttl!Tick, Answers, dataVars

(***************************************************************************)
(* The handler erases only what get does not answer any more: the heap     *)
(* entry that has the generation of the map's entry is that entry's own,   *)
(* and it has expired.                                                     *)
(***************************************************************************)
LEMMA ErasingStutters ==
    ASSUME CacheInv, HandlerErases
    PROVE  UNCHANGED Ttl!mapVars
<1> DEFINE gone == {e.key : e \in {f \in Popped : GenerationMatches(f)}}
<1>1. /\ DOMAIN lookupMap' = DOMAIN lookupMap \ gone
      /\ \A j \in DOMAIN lookupMap' : lookupMap'[j] = lookupMap[j]
      /\ UNCHANGED <<now, currentGeneration, isStopping, removes>>
  BY DEF HandlerErases, Erased
<1>2. ASSUME NEW k \in gone
      PROVE  ~(lookupMap[k].expiration > now)
  <2>1. PICK f \in Popped : f.key = k /\ GenerationMatches(f)
    OBVIOUS
  <2>2. /\ f \in expirationQueue /\ f.expiration <= now
        /\ k \in DOMAIN lookupMap /\ lookupMap[k].generation = f.generation
    BY <2>1 DEF Popped, Expired, GenerationMatches
  <2>3. HeapEntryOf(k) \in expirationQueue /\ HeapEntryOf(k).generation = f.generation
    BY <2>2 DEF CacheInv, HeapCoversMap, HeapEntryOf
  <2>4. HeapEntryOf(k) = f
    BY <2>2, <2>3 DEF CacheInv, GenerationsTell
  <2>5. lookupMap[k].expiration = f.expiration
    BY <2>4 DEF HeapEntryOf
  <2>6. now \in Int /\ f.expiration \in Int
    <3>1. now \in Int /\ f.expiration \in Expirations
      BY <2>2, CacheAssumption DEF CacheInv, HeapCoversMap, TypeOK
    <3>2. QED
      BY <3>1, ExpirationsAreTimes
  <2>7. QED
    BY <2>2, <2>5, <2>6
<1>3. \A k \in Keys : Get(k)' = Get(k)
  BY <1>1, <1>2 DEF Get
<1>4. Answers' = Answers
  BY <1>3 DEF Answers
<1>5. QED
  BY <1>1, <1>4 DEF Ttl!mapVars, Answers

LEMMA OthersStutter ==
    ASSUME \/ LeavesData /\ ~StopBegins /\ ~Tick
           \/ UNCHANGED vars
    PROVE  UNCHANGED Ttl!mapVars
<1>1. UNCHANGED <<now, currentGeneration, lookupMap, isStopping, removes>>
  BY DEF LeavesData, StopperStep, StopNotifies, StopJoins, HandlerExits, HandlerSleepsOn,
         HandlerTimesOut, HandlerWakesSpuriously, dataVars, vars
<1>2. \A k \in Keys : Get(k)' = Get(k)
  BY <1>1 DEF Get
<1>3. Answers' = Answers
  BY <1>2 DEF Answers
<1>4. QED
  BY <1>1, <1>3 DEF Ttl!mapVars, Answers

LEMMA StepRefines == CacheInv /\ [Next]_vars => [Ttl!Next]_Ttl!mapVars
<1> SUFFICES ASSUME CacheInv, [Next]_vars PROVE Ttl!Next \/ UNCHANGED Ttl!mapVars
  OBVIOUS
<1>1. CASE \E k \in Keys, ttl \in Ttls : Put(k, ttl)
  BY <1>1, PutRefines DEF Ttl!Next
<1>2. CASE \E k \in Keys : Remove(k)
  BY <1>2, RemoveRefines DEF Ttl!Next
<1>3. CASE StopBegins \/ Tick
  BY <1>3, StopRefines, TickRefines DEF Ttl!Next
<1>4. CASE HandlerErases
  BY <1>4, ErasingStutters
<1>5. CASE (LeavesData \/ UNCHANGED vars) /\ ~StopBegins /\ ~Tick
  BY <1>5, OthersStutter
<1>6. QED
  BY <1>1, <1>2, <1>3, <1>4, <1>5, KindsOfSteps

(***************************************************************************)
(* The cache is a map whose entries vanish in time, for any bounds: put,   *)
(* remove, stop and the clock change what get answers as they change a     *)
(* TtlMap, and the handler never changes it.                               *)
(***************************************************************************)
THEOREM CacheImplementsTtlMap == Spec => ImplementsTtlMap
<1>1. Init => Ttl!Init
  BY InitRefines
<1>2. CacheInv /\ [Next]_vars => [Ttl!Next]_Ttl!mapVars
  BY StepRefines
<1>3. QED
  BY <1>1, <1>2, CacheAlways, PTL DEF Spec, ImplementsTtlMap, Ttl!Spec
=============================================================================
