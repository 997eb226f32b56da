----------------------- MODULE RideStateManagerProofs -----------------------
(***************************************************************************)
(* Proofs about RideStateManager for any dispatchers, observers, limit of  *)
(* the queue and number of changes: the queue tells the ride, observers    *)
(* hear of each change once, those who left hear no new round, and a       *)
(* shutdown drains the queue.                                              *)
(***************************************************************************)
EXTENDS RideStateManager, FiniteSetTheorems, TLAPS

Elements(s) == {s[i] : i \in 1 .. Len(s)}
Distinct(s) == \A i, j \in 1 .. Len(s) : s[i] = s[j] => i = j

(* The changes accepted stay within the bound, and a round that goes on is counted. *)
ChangesBounded ==
    /\ Len(visited) \in 1 .. MaxChanges + 1
    /\ thread = "dispatching" => rounds >= 1

(***************************************************************************)
(* Nobody is twice in the list or in the snapshot, which is empty between  *)
(* the rounds; who is in the list is not out; and what HeardExactlyOnce    *)
(* and UnsubscribedHearNoNewRound say of the debts.                        *)
(***************************************************************************)
ListInv ==
    /\ Distinct(observers) /\ Distinct(healthyObservers)
    /\ thread # "dispatching" => healthyObservers = <<>>
    /\ \A p \in Subscribed : Healthy(p) => owed[p] <= IF p \in Awaiting THEN 1 ELSE 0
    /\ \A p \in Subscribed : left[p] = "no"
    /\ UnsubscribedHearNoNewRound

(* The thread exits on stop, or on a shutdown with nothing left in the queue. *)
DrainInv == thread = "exited" /\ ~stop => isShuttingDown /\ notificationsQueue = <<>>
-----------------------------------------------------------------------------
(* The positions that are kept are numbered from 1 on by their rank. *)
LEMMA RanksNumber ==
    ASSUME NEW n \in Nat, NEW at \in SUBSET (1 .. n)
    PROVE  /\ Cardinality(at) \in Nat
           /\ \A i \in at : Rank(at, i) \in 1 .. Cardinality(at)
           /\ \A i, j \in at : Rank(at, i) = Rank(at, j) => i = j
           /\ \A k \in 1 .. Cardinality(at) : \E i \in at : Rank(at, i) = k
<1> DEFINE Upto(i) == {j \in at : j <= i}
           rank == [i \in at |-> Rank(at, i)]
<1>0. \A i \in at : i \in Nat
  OBVIOUS
<1>1. IsFiniteSet(at) /\ Cardinality(at) \in Nat
  <2>1. IsFiniteSet(1 .. n)
    BY FS_Interval
  <2>2. IsFiniteSet(at)
    BY <2>1, FS_Subset
  <2>3. QED
    BY <2>2, FS_CardinalityType
<1>2. \A i \in at : IsFiniteSet(Upto(i)) /\ Rank(at, i) \in Nat
  BY <1>1, FS_Subset, FS_CardinalityType DEF Rank
<1>3. ASSUME NEW i \in at
      PROVE  Rank(at, i) \in 1 .. Cardinality(at)
  <2>1. i \in Upto(i)
    OBVIOUS
  <2>2. Rank(at, i) # 0
    BY <1>2, <2>1, FS_EmptySet DEF Rank
  <2>3. Rank(at, i) <= Cardinality(at)
    BY <1>1, FS_Subset DEF Rank
  <2>4. \A r, c \in Nat : r # 0 /\ r <= c => r \in 1 .. c
    OBVIOUS
  <2>5. QED
    BY <1>1, <1>2, <2>2, <2>3, <2>4
<1>4. ASSUME NEW i \in at, NEW j \in at, i < j
      PROVE  Rank(at, i) # Rank(at, j)
  <2>1. Upto(i) \subseteq Upto(j) /\ j \in Upto(j) /\ j \notin Upto(i)
    <3>1. \A k \in Nat : k <= i => k <= j
      BY <1>0, <1>4
    <3>2. ~(j <= i) /\ j <= j
      BY <1>0, <1>4
    <3>3. QED
      BY <1>0, <3>1, <3>2
  <2>2. Cardinality(Upto(j)) = Cardinality(Upto(i)) => Upto(j) = Upto(i)
    BY <1>2, <2>1, FS_Subset
  <2>3. QED
    BY <2>1, <2>2 DEF Rank
<1>5. \A i, j \in at : Rank(at, i) = Rank(at, j) => i = j
  BY <1>4
<1>6. rank \in Injection(at, 1 .. Cardinality(at))
  BY <1>3, <1>5 DEF Injection, IsInjective
<1>7. IsFiniteSet(1 .. Cardinality(at)) /\ Cardinality(1 .. Cardinality(at)) = Cardinality(at)
  BY <1>1, FS_Interval
<1>8. rank \in Surjection(at, 1 .. Cardinality(at))
  BY <1>6, <1>7, FS_Injection
<1>9. \A k \in 1 .. Cardinality(at) : \E i \in at : Rank(at, i) = k
  BY <1>8 DEF Surjection
<1>10. QED
  BY <1>1, <1>3, <1>5, <1>9

(* What erasing does: it keeps what is in Keep, and repeats nothing. *)
LEMMA ErasedKeeps ==
    ASSUME NEW S, NEW s \in Seq(S), NEW Keep
    PROVE  /\ Erased(s, Keep) \in Seq(S)
           /\ Elements(Erased(s, Keep)) = Elements(s) \cap Keep
           /\ Distinct(s) => Distinct(Erased(s, Keep))
<1> DEFINE at == KeptAt(s, Keep)
           From(k) == CHOOSE i \in at : Rank(at, i) = k
           r == Erased(s, Keep)
<1>1. at \in SUBSET (1 .. Len(s)) /\ Len(s) \in Nat
  BY DEF KeptAt
<1>2. /\ Cardinality(at) \in Nat
      /\ \A i \in at : Rank(at, i) \in 1 .. Cardinality(at)
      /\ \A i, j \in at : Rank(at, i) = Rank(at, j) => i = j
      /\ \A k \in 1 .. Cardinality(at) : \E i \in at : Rank(at, i) = k
  BY <1>1, RanksNumber
<1>3. \A k \in 1 .. Cardinality(at) : From(k) \in at /\ Rank(at, From(k)) = k
  BY <1>2
<1>4. r = [k \in 1 .. Cardinality(at) |-> s[From(k)]]
  BY DEF Erased
<1>5. r \in Seq(S) /\ Len(r) = Cardinality(at)
  <2>1. \A k \in 1 .. Cardinality(at) : s[From(k)] \in S
    BY <1>1, <1>3
  <2>2. \A m \in Nat : \A f \in [1 .. m -> S] : f \in Seq(S) /\ Len(f) = m
    OBVIOUS
  <2>3. r \in [1 .. Cardinality(at) -> S]
    BY <1>4, <2>1
  <2>4. QED
    BY <1>2, <2>2, <2>3
<1>6. \A k \in 1 .. Len(r) : r[k] = s[From(k)] /\ From(k) \in at
  BY <1>3, <1>4, <1>5
<1>7. Elements(r) = Elements(s) \cap Keep
  <2>1. ASSUME NEW k \in 1 .. Len(r) PROVE r[k] \in Elements(s) \cap Keep
    BY <1>6 DEF Elements, KeptAt
  <2>2. ASSUME NEW i \in 1 .. Len(s), s[i] \in Keep PROVE s[i] \in Elements(r)
    <3>1. i \in at
      BY <2>2 DEF KeptAt
    <3>2. Rank(at, i) \in 1 .. Len(r) /\ From(Rank(at, i)) = i
      BY <1>2, <1>3, <1>5, <3>1
    <3>3. QED
      BY <1>6, <3>2 DEF Elements
  <2>3. QED
    BY <2>1, <2>2 DEF Elements
<1>8. ASSUME Distinct(s), NEW k \in 1 .. Len(r), NEW l \in 1 .. Len(r), r[k] = r[l]
      PROVE  k = l
  <2>1. From(k) = From(l)
    <3>1. s[From(k)] = s[From(l)] /\ From(k) \in 1 .. Len(s) /\ From(l) \in 1 .. Len(s)
      BY <1>1, <1>6, <1>8
    <3>2. QED
      BY <1>8, <3>1 DEF Distinct
  <2>2. QED
    BY <1>3, <1>5, <2>1
<1>9. QED
  BY <1>5, <1>7, <1>8 DEF Distinct

(* Two sequences without repetition and without a common element, one after the other. *)
LEMMA Joined ==
    ASSUME NEW S, NEW s \in Seq(S), NEW t \in Seq(S), Distinct(s), Distinct(t),
           \A i \in 1 .. Len(s), j \in 1 .. Len(t) : s[i] # t[j]
    PROVE  /\ s \o t \in Seq(S) /\ Distinct(s \o t)
           /\ Elements(s \o t) \subseteq Elements(s) \cup Elements(t)
<1>1. /\ s \o t \in Seq(S) /\ Len(s \o t) = Len(s) + Len(t)
      /\ Len(s) \in Nat /\ Len(t) \in Nat
  OBVIOUS
<1>2. \A i \in 1 .. Len(s \o t) :
          \/ i \in 1 .. Len(s) /\ (s \o t)[i] = s[i]
          \/ i - Len(s) \in 1 .. Len(t) /\ (s \o t)[i] = t[i - Len(s)]
  BY <1>1
<1>3. Distinct(s \o t)
  <2> SUFFICES ASSUME NEW i \in 1 .. Len(s \o t), NEW j \in 1 .. Len(s \o t),
                      (s \o t)[i] = (s \o t)[j]
               PROVE  i = j
    BY DEF Distinct
  <2>1. CASE i \in 1 .. Len(s) /\ (s \o t)[i] = s[i]
    BY <1>1, <1>2, <2>1 DEF Distinct
  <2>2. CASE i - Len(s) \in 1 .. Len(t) /\ (s \o t)[i] = t[i - Len(s)]
    <3>1. CASE j \in 1 .. Len(s) /\ (s \o t)[j] = s[j]
      BY <2>2, <3>1
    <3>2. CASE j - Len(s) \in 1 .. Len(t) /\ (s \o t)[j] = t[j - Len(s)]
      <4>1. i - Len(s) = j - Len(s)
        BY <2>2, <3>2 DEF Distinct
      <4>2. QED
        BY <1>1, <4>1
    <3>3. QED
      BY <1>2, <3>1, <3>2
  <2>3. QED
    BY <1>2, <2>1, <2>2
<1>4. Elements(s \o t) \subseteq Elements(s) \cup Elements(t)
  BY <1>1, <1>2 DEF Elements
<1>5. QED
  BY <1>1, <1>3, <1>4
-----------------------------------------------------------------------------
(* The steps that leave the lists and the debts alone, and the others. *)
LeavesLists ==
    \/ \E x \in Dispatchers \cup Observers : Release(x)
    \/ \E s \in RideStates : TryChangingState(s)
    \/ Run \/ RaiseStop \/ TestStop \/ Block \/ WakeSpuriously \/ ExitOnShutdown \/ Pop
    \/ BeginDestruction \/ DestructorNotifies \/ DestructorJoins

LEMMA KindsOfSteps ==
    ASSUME [Next]_vars
    PROVE  \/ UNCHANGED vars
           \/ LeavesLists
           \/ \E d \in Dispatchers, o \in Observers : Subscribe(d, o)
           \/ \E o \in Observers : Unsubscribe(o)
           \/ TakeSnapshot \/ Dispatch \/ EndRound
BY DEF Next, ThreadStep, OwnerStep, Call, Outside, Over, LeavesLists
-----------------------------------------------------------------------------
(* The list after subscribe: a prefix is cleaned, and the pair is in it once. *)
LEMMA ListAfterSubscribe ==
    ASSUME TypeOK, Distinct(observers),
           NEW d \in Dispatchers, NEW o \in Observers, Subscribe(d, o)
    PROVE  /\ observers' \in Seq(Pairs) /\ Distinct(observers')
           /\ Subscribed' \subseteq Subscribed \cup {<<d, o>>}
<1> DEFINE p == <<d, o>>
           n == Len(observers)
<1>0. observers \in Seq(Pairs) /\ n \in Nat /\ p \in Pairs
  BY DEF TypeOK, Pairs
<1>1. CASE \E i \in Entry(p) :
               observers' = Erased(SubSeq(observers, 1, i - 1), HealthyPairs)
                              \o SubSeq(observers, i, n)
  <2>1. PICK i \in 1 .. n :
            observers' = Erased(SubSeq(observers, 1, i - 1), HealthyPairs)
                           \o SubSeq(observers, i, n)
    BY <1>1 DEF Entry
  <2> DEFINE before == SubSeq(observers, 1, i - 1)
             kept == Erased(before, HealthyPairs)
             behind == SubSeq(observers, i, n)
  <2>2. /\ before \in Seq(Pairs) /\ Len(before) = i - 1
        /\ \A k \in 1 .. i - 1 : before[k] = observers[k]
    BY <1>0
  <2>3. /\ behind \in Seq(Pairs) /\ Len(behind) = n - i + 1
        /\ \A k \in 1 .. n - i + 1 : behind[k] = observers[k + i - 1]
    BY <1>0
  <2> HIDE DEF before, behind
  <2>4. Distinct(before) /\ Distinct(behind)
    <3>1. Distinct(before)
      <4>1. \A k \in 1 .. Len(before) : k \in 1 .. n /\ before[k] = observers[k]
        BY <1>0, <2>2
      <4>2. QED
        BY <4>1 DEF Distinct
    <3>2. Distinct(behind)
      <4>1. \A k \in 1 .. Len(behind) :
                k \in Int /\ k + i - 1 \in 1 .. n /\ behind[k] = observers[k + i - 1]
        BY <1>0, <2>3
      <4>2. \A k, l \in Int : k + i - 1 = l + i - 1 => k = l
        OBVIOUS
      <4>3. QED
        BY <4>1, <4>2 DEF Distinct
    <3>3. QED
      BY <3>1, <3>2
  <2>5. kept \in Seq(Pairs) /\ Distinct(kept) /\ Elements(kept) \subseteq Elements(before)
    <3>1. /\ kept \in Seq(Pairs) /\ Elements(kept) = Elements(before) \cap HealthyPairs
          /\ Distinct(before) => Distinct(kept)
      BY <2>2, ErasedKeeps
    <3>2. QED
      BY <2>4, <3>1
  <2>6. observers' = kept \o behind
    BY <2>1 DEF before, behind
  <2> HIDE DEF kept
  <2>7. \A k \in 1 .. Len(kept), l \in 1 .. Len(behind) : kept[k] # behind[l]
    <3> SUFFICES ASSUME NEW k \in 1 .. Len(kept), NEW l \in 1 .. Len(behind)
                 PROVE  kept[k] # behind[l]
      OBVIOUS
    <3>1. PICK j \in 1 .. i - 1 : kept[k] = observers[j]
      BY <2>2, <2>5 DEF Elements
    <3>2. behind[l] = observers[l + i - 1] /\ l + i - 1 \in 1 .. n /\ l + i - 1 # j
          /\ j \in 1 .. n
      BY <1>0, <2>3
    <3>3. QED
      BY <3>1, <3>2 DEF Distinct
  <2>8. /\ observers' \in Seq(Pairs) /\ Distinct(observers')
        /\ Elements(observers') \subseteq Elements(kept) \cup Elements(behind)
    BY <2>3, <2>4, <2>5, <2>6, <2>7, Joined
  <2>9. Elements(before) \subseteq Elements(observers) /\ Elements(behind) \subseteq Elements(observers)
    <3>1. \A k \in 1 .. Len(before) : k \in 1 .. n /\ before[k] = observers[k]
      BY <1>0, <2>2
    <3>2. \A k \in 1 .. Len(behind) : k + i - 1 \in 1 .. n /\ behind[k] = observers[k + i - 1]
      BY <1>0, <2>3
    <3>3. QED
      BY <3>1, <3>2 DEF Elements
  <2>10. QED
    BY <2>5, <2>8, <2>9 DEF Subscribed, Elements
<1>2. CASE Entry(p) = {} /\ observers' = Append(Erased(observers, HealthyPairs), p)
  <2> DEFINE kept == Erased(observers, HealthyPairs)
  <2>1. kept \in Seq(Pairs) /\ Distinct(kept) /\ Elements(kept) \subseteq Elements(observers)
    BY <1>0, ErasedKeeps
  <2>2. p \notin Elements(observers)
    BY <1>2 DEF Entry, Elements
  <2>3. /\ observers' \in Seq(Pairs) /\ Len(observers') = Len(kept) + 1
        /\ \A k \in 1 .. Len(kept) : observers'[k] = kept[k]
        /\ observers'[Len(kept) + 1] = p
    BY <1>0, <1>2, <2>1
  <2> HIDE DEF kept
  <2>4. \A k \in 1 .. Len(observers') :
            \/ k \in 1 .. Len(kept) /\ observers'[k] = kept[k] /\ kept[k] \in Elements(observers)
            \/ k = Len(kept) + 1 /\ observers'[k] = p
    <3>1. Len(kept) \in Nat /\ \A k \in 1 .. Len(kept) : kept[k] \in Elements(observers)
      <4>1. Len(kept) \in Nat
        BY <2>1
      <4>2. \A k \in 1 .. Len(kept) : kept[k] \in Elements(kept)
        BY DEF Elements
      <4>3. QED
        BY <2>1, <4>1, <4>2
    <3>2. \A k \in 1 .. Len(observers') : k \in 1 .. Len(kept) \/ k = Len(kept) + 1
      BY <2>3, <3>1
    <3>3. QED
      BY <2>3, <3>1, <3>2
  <2>5. Distinct(observers')
    BY <2>1, <2>2, <2>4 DEF Distinct
  <2>6. Subscribed' \subseteq Subscribed \cup {p}
    BY <2>4 DEF Subscribed, Elements
  <2>7. QED
    BY <2>3, <2>5, <2>6
<1>3. QED
  BY <1>1, <1>2 DEF Subscribe

(* The list after unsubscribe, and after a snapshot. *)
LEMMA ListAfterErasing ==
    ASSUME TypeOK, Distinct(observers), NEW Keep, observers' = Erased(observers, Keep)
    PROVE  /\ observers' \in Seq(Pairs) /\ Distinct(observers')
           /\ Subscribed' = Subscribed \cap Keep
<1>1. observers \in Seq(Pairs)
  BY DEF TypeOK
<1>2. QED
  BY <1>1, ErasedKeeps DEF Subscribed, Elements
-----------------------------------------------------------------------------
(***************************************************************************)
(* The part of QueueTellsTheRide that is not the type of the state, and    *)
(* the steps that change neither the queue nor what the thread took of it. *)
(***************************************************************************)
RideTold ==
    /\ currentRideState = visited[Len(visited)]
    /\ Len(visited) = Popped + Len(notificationsQueue) + 1
    /\ \A i \in 1 .. Len(notificationsQueue) : notificationsQueue[i] = Change(Popped + i)
    /\ thread \in {"popped", "dispatching"} => front = Change(Popped)

QueueInv == TypeOK /\ ChangesBounded /\ RideTold

LEMMA ToldKept ==
    ASSUME RideTold, ChangesBounded, UNCHANGED <<rideVars, front, rounds>>,
           thread' = "popped" <=> thread = "popped",
           thread' = "dispatching" => thread = "dispatching"
    PROVE  RideTold' /\ ChangesBounded'
<1>1. UNCHANGED <<currentRideState, notificationsQueue, visited, front, rounds, Popped>>
  BY DEF rideVars, Popped
<1>2. QED
  BY <1>1 DEF RideTold, ChangesBounded, Change

LEMMA InitTold == Init => QueueInv
<1> SUFFICES ASSUME Init PROVE QueueInv
  OBVIOUS
<1>0. MaxPending \in Nat \ {0} /\ MaxChanges \in Nat
  BY RideAssumption
<1>1. /\ notificationsQueue \in Seq(Notifications) /\ Len(notificationsQueue) = 0
      /\ observers \in Seq(Pairs) /\ healthyObservers \in Seq(Pairs)
      /\ Len(healthyObservers) = 0
  BY DEF Init
<1>2. visited \in Seq(RideStates) /\ Len(visited) = 1 /\ visited[1] = "Idle"
  BY DEF Init, RideStates
<1>3. TypeOK
  <2>1. front \in Notifications /\ currentRideState \in RideStates
    BY DEF Init, Notifications, RideStates
  <2>2. rounds \in 0 .. MaxChanges /\ owed \in [Pairs -> 0 .. rounds]
    BY <1>0 DEF Init
  <2>3. turn \in 1 .. Len(healthyObservers) + 1
    BY <1>1 DEF Init
  <2>4. Len(notificationsQueue) <= MaxPending
    BY <1>0, <1>1
  <2>5. left \in [Pairs -> {"no", "thisRound", "earlier"}]
    BY DEF Init
  <2>6. QED
    BY <1>1, <1>2, <2>1, <2>2, <2>3, <2>4, <2>5 DEF Init, TypeOK
<1>4. ChangesBounded
  <2>1. thread # "dispatching" /\ Len(visited) \in 1 .. MaxChanges + 1
    BY <1>0, <1>2 DEF Init
  <2>2. QED
    BY <2>1 DEF ChangesBounded
<1>5. RideTold
  BY <1>1, <1>2 DEF Init, RideTold, Popped
<1>6. QED
  BY <1>3, <1>4, <1>5 DEF QueueInv

LEMMA UntouchedTold ==
    ASSUME QueueInv,
           \/ LeavesLists /\ ~Pop /\ ~\E s \in RideStates : TryChangingState(s)
           \/ UNCHANGED vars
    PROVE  QueueInv'
<1>1. UNCHANGED <<rideVars, threadVars, observers, owed, left>>
  BY DEF LeavesLists, Release, Run, RaiseStop, TestStop, Block, WakeSpuriously, ExitOnShutdown,
         BeginDestruction, DestructorNotifies, DestructorJoins, vars
<1>2. /\ thread' \in {"unborn", "top", "checking", "asleep", "popped", "dispatching", "exited"}
      /\ thread' = "popped" <=> thread = "popped"
      /\ thread' = "dispatching" <=> thread = "dispatching"
  BY DEF LeavesLists, Release, Run, RaiseStop, TestStop, Block, WakeSpuriously, ExitOnShutdown,
         BeginDestruction, DestructorNotifies, DestructorJoins, vars, NotifyThread,
         QueueInv, TypeOK
<1>3. /\ isShuttingDown' \in BOOLEAN /\ stop' \in BOOLEAN
      /\ held' \in SUBSET (Dispatchers \cup Observers)
      /\ owner' \in {"using", "notifying", "joining", "destroyed"}
  BY DEF LeavesLists, Release, Run, RaiseStop, TestStop, Block, WakeSpuriously, ExitOnShutdown,
         BeginDestruction, DestructorNotifies, DestructorJoins, vars, QueueInv, TypeOK
<1>4. TypeOK'
  BY <1>1, <1>2, <1>3 DEF QueueInv, TypeOK, rideVars, threadVars
<1>5. RideTold' /\ ChangesBounded'
  BY <1>1, <1>2, ToldKept DEF QueueInv, threadVars
<1>6. QED
  BY <1>4, <1>5 DEF QueueInv

(* A change goes to the end of the queue and to the end of what was visited. *)
LEMMA ChangeTold ==
    ASSUME QueueInv, NEW s \in RideStates, TryChangingState(s)
    PROVE  QueueInv'
<1> DEFINE change == [previousState |-> currentRideState, currentState |-> s]
           n == Len(notificationsQueue)
           v == Len(visited)
<1>0. MaxPending \in Nat \ {0} /\ MaxChanges \in Nat
  BY RideAssumption
<1>1. /\ notificationsQueue \in Seq(Notifications) /\ n \in Nat
      /\ visited \in Seq(RideStates) /\ v \in Nat /\ currentRideState \in RideStates
      /\ rounds \in Nat /\ Popped \in Nat /\ v = Popped + n + 1
  BY <1>0 DEF QueueInv, TypeOK, RideTold, Popped
<1>2. change \in Notifications
  BY <1>1 DEF Notifications
<1>3. /\ notificationsQueue' \in Seq(Notifications) /\ Len(notificationsQueue') = n + 1
      /\ \A i \in 1 .. n : notificationsQueue'[i] = notificationsQueue[i]
      /\ notificationsQueue'[n + 1] = change
  BY <1>1, <1>2 DEF TryChangingState, Queued
<1>4. /\ visited' \in Seq(RideStates) /\ Len(visited') = v + 1
      /\ \A i \in 1 .. v : visited'[i] = visited[i]
      /\ visited'[v + 1] = s
  BY <1>1 DEF TryChangingState
<1>5. /\ thread' \in {"unborn", "top", "checking", "asleep", "popped", "dispatching", "exited"}
      /\ thread' = "popped" <=> thread = "popped"
      /\ thread' = "dispatching" <=> thread = "dispatching"
      /\ UNCHANGED <<front, rounds, Popped>>
  BY DEF TryChangingState, NotifyThread, QueueInv, TypeOK, threadVars, Popped
<1>6. TypeOK'
  <2>1. Len(notificationsQueue') <= MaxPending
    BY <1>0, <1>1, <1>3 DEF TryChangingState, HasRoom
  <2>2. QED
    BY <1>3, <1>4, <1>5, <2>1 DEF QueueInv, TypeOK, TryChangingState, threadVars
<1>7. ChangesBounded'
  <2>1. Len(visited') \in 1 .. MaxChanges + 1
    BY <1>0, <1>1, <1>4 DEF TryChangingState
  <2>2. QED
    BY <1>5, <2>1 DEF QueueInv, ChangesBounded
<1>8. RideTold'
  <2>1. currentRideState' = visited'[Len(visited')]
    BY <1>1, <1>4 DEF TryChangingState
  <2>2. Len(visited') = Popped' + Len(notificationsQueue') + 1
    BY <1>1, <1>3, <1>4, <1>5
  <2> DEFINE Told(k) == [previousState |-> visited'[k], currentState |-> visited'[k + 1]]
  <2>3. \A k \in 1 .. v - 1 : Told(k) = Change(k)
    BY <1>1, <1>4 DEF Change
  <2>4. Told(v) = change
    BY <1>1, <1>4 DEF QueueInv, RideTold
  <2>5. ASSUME NEW i \in 1 .. n + 1
        PROVE  notificationsQueue'[i] = Change(Popped + i)'
    <3>0. Change(Popped + i)' = Told(Popped + i)
      BY <1>5 DEF Change
    <3>1. CASE i \in 1 .. n
      <4>1. Popped + i \in 1 .. v - 1
        BY <1>1, <3>1
      <4>2. QED
        BY <1>3, <2>3, <3>0, <3>1, <4>1 DEF QueueInv, RideTold
    <3>2. CASE i = n + 1
      <4>1. Popped + i = v
        BY <1>1, <3>2
      <4>2. QED
        BY <1>3, <2>4, <3>0, <3>2, <4>1
    <3>3. QED
      BY <1>1, <3>1, <3>2
  <2>6. thread' \in {"popped", "dispatching"} => front' = Change(Popped)'
    <3>1. thread \in {"popped", "dispatching"} => Popped \in 1 .. v - 1
      BY <1>1 DEF QueueInv, ChangesBounded, Popped
    <3>2. Change(Popped)' = Told(Popped)
      BY <1>5 DEF Change
    <3>3. QED
      BY <1>5, <2>3, <3>1, <3>2 DEF QueueInv, RideTold
  <2>7. QED
    BY <1>3, <1>5, <2>1, <2>2, <2>5, <2>6 DEF RideTold
<1>9. QED
  BY <1>6, <1>7, <1>8 DEF QueueInv

(* What Pop takes is the next change, and the rest of the queue moves up. *)
LEMMA PopTold ==
    ASSUME QueueInv, Pop
    PROVE  QueueInv'
<1> DEFINE n == Len(notificationsQueue)
<1>0. MaxPending \in Nat \ {0} /\ MaxChanges \in Nat
  BY RideAssumption
<1>1. /\ notificationsQueue \in Seq(Notifications) /\ notificationsQueue # <<>>
      /\ n <= MaxPending /\ rounds \in Nat /\ thread = "checking" /\ thread' = "popped"
      /\ Popped = rounds /\ UNCHANGED <<visited, rounds, currentRideState>>
  BY <1>0 DEF QueueInv, TypeOK, Pop, Popped
<1>2. /\ notificationsQueue' \in Seq(Notifications) /\ n \in Nat \ {0}
      /\ Len(notificationsQueue') = n - 1
      /\ \A i \in 1 .. n - 1 : notificationsQueue'[i] = notificationsQueue[i + 1]
      /\ front' = notificationsQueue[1] /\ front' \in Notifications
  BY <1>1 DEF Pop
<1>3. Popped' = rounds + 1
  BY <1>1 DEF Popped
<1>4. TypeOK'
  <2>1. Len(notificationsQueue') <= MaxPending
    BY <1>0, <1>1, <1>2
  <2>2. QED
    BY <1>1, <1>2, <2>1 DEF QueueInv, TypeOK, Pop
<1>5. ChangesBounded'
  BY <1>1 DEF QueueInv, ChangesBounded
<1>6. RideTold'
  <2>1. \A i \in 1 .. n : notificationsQueue[i] = Change(rounds + i)
    BY <1>1 DEF QueueInv, RideTold
  <2>2. \A i \in 1 .. n - 1 : notificationsQueue'[i] = Change(rounds + 1 + i)
    <3> SUFFICES ASSUME NEW i \in 1 .. n - 1
                 PROVE  notificationsQueue'[i] = Change(rounds + 1 + i)
      OBVIOUS
    <3>1. i + 1 \in 1 .. n /\ rounds + (i + 1) = rounds + 1 + i
      BY <1>1, <1>2
    <3>2. QED
      BY <1>2, <2>1, <3>1
  <2>3. front' = Change(rounds + 1)
    BY <1>2, <2>1
  <2>4. /\ Change(Popped)' = Change(rounds + 1)
        /\ \A i \in 1 .. n - 1 : Change(Popped + i)' = Change(rounds + 1 + i)
    BY <1>1, <1>3 DEF Change
  <2>5. Len(visited') = Popped' + Len(notificationsQueue') + 1
    <3>1. Len(visited) = rounds + n + 1
      BY <1>1 DEF QueueInv, RideTold
    <3>2. QED
      BY <1>1, <1>2, <1>3, <3>1
  <2>6. currentRideState' = visited'[Len(visited')]
    BY <1>1 DEF QueueInv, RideTold
  <2>7. QED
    BY <1>2, <2>2, <2>3, <2>4, <2>5, <2>6 DEF RideTold
<1>7. QED
  BY <1>4, <1>5, <1>6 DEF QueueInv

(* A snapshot begins the round of the change that was taken; the bound on changes bounds it. *)
LEMMA SnapshotTold ==
    ASSUME QueueInv, Distinct(observers), TakeSnapshot
    PROVE  QueueInv'
<1>0. MaxPending \in Nat \ {0} /\ MaxChanges \in Nat
  BY RideAssumption
<1>1. /\ rounds \in Nat /\ Len(visited) \in Nat /\ Len(notificationsQueue) \in Nat
      /\ rounds' = rounds + 1 /\ thread = "popped" /\ thread' = "dispatching"
      /\ Popped = rounds + 1 /\ UNCHANGED <<visited, currentRideState, notificationsQueue, front>>
  BY <1>0 DEF QueueInv, TypeOK, TakeSnapshot, rideVars, Popped
<1>2. Popped' = Popped
  BY <1>1 DEF Popped
<1>3. rounds' \in 1 .. MaxChanges
  <2>1. Len(visited) = rounds + 1 + Len(notificationsQueue) + 1 /\ Len(visited) <= MaxChanges + 1
    BY <1>0, <1>1 DEF QueueInv, RideTold, ChangesBounded
  <2>2. QED
    BY <1>0, <1>1, <2>1
<1>4. /\ observers' \in Seq(Pairs) /\ healthyObservers' \in Seq(Pairs)
      /\ turn' \in 1 .. Len(healthyObservers') + 1
  <2>1. observers' \in Seq(Pairs)
    BY ListAfterErasing DEF QueueInv, TakeSnapshot
  <2>2. healthyObservers' = observers' /\ turn' = 1
    BY DEF TakeSnapshot
  <2>3. Len(healthyObservers') \in Nat
    BY <2>1, <2>2
  <2>4. QED
    BY <2>1, <2>2, <2>3
<1>5. owed' \in [Pairs -> 0 .. rounds'] /\ left' \in [Pairs -> {"no", "thisRound", "earlier"}]
  <2>1. \A p \in Pairs : owed[p] \in 0 .. rounds' /\ owed[p] + 1 \in 0 .. rounds'
    BY <1>1 DEF QueueInv, TypeOK
  <2>2. QED
    BY <2>1 DEF QueueInv, TypeOK, TakeSnapshot
<1>6. TypeOK'
  BY <1>0, <1>1, <1>3, <1>4, <1>5 DEF QueueInv, TypeOK, TakeSnapshot, rideVars
<1>7. ChangesBounded'
  BY <1>0, <1>1, <1>3 DEF QueueInv, ChangesBounded
<1>8. RideTold'
  BY <1>1, <1>2 DEF QueueInv, RideTold, Change
<1>9. QED
  BY <1>6, <1>7, <1>8 DEF QueueInv

(* Subscribing, unsubscribing, dispatching and the end of a round leave the queue alone. *)
LEMMA ListStepTold ==
    ASSUME QueueInv, Distinct(observers),
           \/ \E d \in Dispatchers, o \in Observers : Subscribe(d, o)
           \/ \E o \in Observers : Unsubscribe(o)
           \/ Dispatch \/ EndRound
    PROVE  QueueInv'
<1> USE DEF TypeOK
<1>0. MaxPending \in Nat \ {0} /\ MaxChanges \in Nat
  BY RideAssumption
<1>1. /\ UNCHANGED <<rideVars, front, rounds, isShuttingDown, held, stop, owner>>
      /\ thread' = "popped" <=> thread = "popped"
      /\ thread' = "dispatching" => thread = "dispatching"
      /\ thread' \in {thread, "top"}
  BY DEF Subscribe, Unsubscribe, Dispatch, EndRound, threadVars
<1>2. RideTold' /\ ChangesBounded'
  BY <1>1, ToldKept DEF QueueInv
<1>3. observers' \in Seq(Pairs)
  <2>1. CASE \E d \in Dispatchers, o \in Observers : Subscribe(d, o)
    BY <2>1, ListAfterSubscribe DEF QueueInv
  <2>2. CASE \E o \in Observers : Unsubscribe(o)
    BY <2>2, ListAfterErasing DEF QueueInv, Unsubscribe
  <2>3. CASE Dispatch \/ EndRound
    BY <2>3 DEF QueueInv, Dispatch, EndRound
  <2>4. QED
    BY <2>1, <2>2, <2>3
<1>4. healthyObservers' \in Seq(Pairs) /\ turn' \in 1 .. Len(healthyObservers') + 1
  <2>1. CASE UNCHANGED <<healthyObservers, turn>>
    BY <2>1 DEF QueueInv
  <2>2. CASE Dispatch
    BY <2>2 DEF QueueInv, Dispatch, NextTurn
  <2>3. CASE EndRound
    <3>1. healthyObservers' = <<>> /\ turn' = 1
      BY <2>3 DEF EndRound
    <3>2. QED
      BY <3>1
  <2>4. QED
    BY <2>1, <2>2, <2>3 DEF Subscribe, Unsubscribe, threadVars
<1>5. owed' \in [Pairs -> 0 .. rounds]
  <2>0. owed \in [Pairs -> 0 .. rounds] /\ rounds \in Nat
    BY <1>0 DEF QueueInv
  <2>1. CASE owed' = owed
    BY <2>0, <2>1
  <2>2. ASSUME NEW p \in Pairs, owed' = [owed EXCEPT ![p] = 0] PROVE owed' \in [Pairs -> 0 .. rounds]
    BY <2>0, <2>2
  <2>3. CASE Dispatch
    <3>1. healthyObservers[turn] \in Pairs
      BY <2>3 DEF QueueInv, Dispatch
    <3>2. owed[healthyObservers[turn]] \in 0 .. rounds
      BY <2>0, <3>1
    <3>3. (IF owed[healthyObservers[turn]] = 0 THEN 0 ELSE owed[healthyObservers[turn]] - 1) \in 0 .. rounds
      BY <2>0, <3>2
    <3>4. QED
      BY <2>0, <2>3, <3>3 DEF Dispatch
  <2>4. QED
    BY <2>1, <2>2, <2>3 DEF Subscribe, Unsubscribe, EndRound, Pairs
<1>6. left' \in [Pairs -> {"no", "thisRound", "earlier"}]
  BY DEF Subscribe, Unsubscribe, Dispatch, EndRound, QueueInv
<1>7. TypeOK'
  BY <1>1, <1>3, <1>4, <1>5, <1>6 DEF QueueInv, rideVars
<1>8. QED
  BY <1>2, <1>7 DEF QueueInv
-----------------------------------------------------------------------------
(***************************************************************************)
(* Nobody comes back to life: an object that no snapshot and nobody        *)
(* outside refers to is gone for good.                                     *)
(***************************************************************************)
NobodyRevives == \A p \in Pairs : Healthy(p)' => Healthy(p)

LEMMA OnlyReleases ==
    ASSUME held' \subseteq held, Snapshotted' \subseteq Snapshotted
    PROVE  NobodyRevives
BY DEF NobodyRevives, Healthy, Alive

LEMMA InitLists == Init => ListInv
<1> SUFFICES ASSUME Init PROVE ListInv
  OBVIOUS
<1>1. Len(observers) = 0 /\ Len(healthyObservers) = 0 /\ turn = 1 /\ healthyObservers = <<>>
  BY DEF Init
<1>2. Subscribed = {} /\ Awaiting = {}
  BY <1>1 DEF Subscribed, Awaiting
<1>3. QED
  BY <1>1, <1>2 DEF Init, ListInv, Distinct, UnsubscribedHearNoNewRound

LEMMA ListsUntouched ==
    ASSUME TypeOK, ListInv, LeavesLists \/ UNCHANGED vars
    PROVE  ListInv'
<1>1. UNCHANGED <<observers, healthyObservers, turn, owed, left>> /\ held' \subseteq held
  BY DEF LeavesLists, Release, Run, RaiseStop, TestStop, Block, WakeSpuriously, ExitOnShutdown,
         BeginDestruction, DestructorNotifies, DestructorJoins, vars, threadVars, Pop,
         TryChangingState
<1>2. thread' # "dispatching" => thread # "dispatching"
  BY DEF LeavesLists, Release, Run, RaiseStop, TestStop, Block, WakeSpuriously, ExitOnShutdown,
         BeginDestruction, DestructorNotifies, DestructorJoins, vars, Pop,
         TryChangingState, NotifyThread
<1>3. UNCHANGED <<Subscribed, Awaiting, Snapshotted>>
  BY <1>1 DEF Subscribed, Awaiting, Snapshotted
<1>4. \A p \in Pairs : Healthy(p)' => Healthy(p)
  BY <1>1, <1>3, OnlyReleases DEF NobodyRevives
<1>5. Subscribed \subseteq Pairs
  BY DEF TypeOK, Subscribed
<1>6. QED
  BY <1>1, <1>2, <1>3, <1>4, <1>5 DEF ListInv, Distinct, UnsubscribedHearNoNewRound

LEMMA SubscribeKeepsLists ==
    ASSUME TypeOK, ListInv, NEW d \in Dispatchers, NEW o \in Observers, Subscribe(d, o)
    PROVE  ListInv'
<1> DEFINE p == <<d, o>>
<1>1. Distinct(observers) /\ UNCHANGED <<held, thread, healthyObservers, turn>>
  BY DEF ListInv, Subscribe, threadVars
<1>2. Distinct(observers') /\ Subscribed' \subseteq Subscribed \cup {p}
  BY <1>1, ListAfterSubscribe
<1>3. UNCHANGED <<Awaiting, Snapshotted>>
  BY <1>1 DEF Awaiting, Snapshotted
<1>4. \A q \in Pairs : Healthy(q)' => Healthy(q)
  BY <1>1, <1>3, OnlyReleases DEF NobodyRevives
<1>5. Subscribed \subseteq Pairs /\ p \in Pairs
  BY DEF TypeOK, Subscribed, Pairs
<1>6. /\ \A q \in Pairs \ {p} : owed'[q] = owed[q] /\ left'[q] = left[q]
      /\ p \in Subscribed \/ (owed'[p] = 0 /\ left'[p] = "no")
      /\ p \notin Subscribed \/ (owed'[p] = owed[p] /\ left'[p] = left[p])
  <2>1. Entry(p) = {} <=> p \notin Subscribed
    BY DEF Entry, Subscribed
  <2>2. owed \in [Pairs -> 0 .. rounds] /\ left \in [Pairs -> {"no", "thisRound", "earlier"}]
    BY DEF TypeOK
  <2>3. QED
    BY <1>5, <2>1, <2>2 DEF Subscribe
<1>7. \A q \in Subscribed' : Healthy(q)' => owed'[q] <= IF q \in Awaiting' THEN 1 ELSE 0
  BY <1>2, <1>3, <1>4, <1>5, <1>6 DEF ListInv
<1>8. \A q \in Subscribed' : left'[q] = "no"
  BY <1>2, <1>5, <1>6 DEF ListInv
<1>9. UnsubscribedHearNoNewRound'
  <2>1. Awaiting \subseteq Pairs
    BY DEF TypeOK, Awaiting
  <2>2. QED
    BY <1>3, <1>6, <2>1 DEF ListInv, UnsubscribedHearNoNewRound
<1>10. QED
  BY <1>1, <1>2, <1>7, <1>8, <1>9 DEF ListInv

LEMMA UnsubscribeKeepsLists ==
    ASSUME TypeOK, ListInv, NEW o \in Observers, Unsubscribe(o)
    PROVE  ListInv'
<1> DEFINE Keep == {p \in Pairs : Alive(p[2])} \ EntriesOf(o)
<1>1. /\ Distinct(observers) /\ UNCHANGED <<held, thread, healthyObservers, turn, owed>>
      /\ observers' = Erased(observers, Keep)
  BY DEF ListInv, Unsubscribe, threadVars
<1>2. Distinct(observers') /\ Subscribed' = Subscribed \cap Keep
  BY <1>1, ListAfterErasing
<1>3. UNCHANGED <<Awaiting, Snapshotted>>
  BY <1>1 DEF Awaiting, Snapshotted
<1>4. \A q \in Pairs : Healthy(q)' => Healthy(q)
  BY <1>1, <1>3, OnlyReleases DEF NobodyRevives
<1>5. Subscribed \subseteq Pairs /\ Awaiting \subseteq Pairs
  BY DEF TypeOK, Subscribed, Awaiting
<1>6. /\ \A q \in Pairs : left'[q] = IF q[2] = o /\ left[q] = "no" THEN "thisRound" ELSE left[q]
      /\ \A q \in Subscribed' : q[2] # o
  BY <1>2 DEF Unsubscribe, EntriesOf
<1>7. \A q \in Subscribed' : Healthy(q)' => owed'[q] <= IF q \in Awaiting' THEN 1 ELSE 0
  BY <1>1, <1>2, <1>3, <1>4, <1>5 DEF ListInv
<1>8. (\A q \in Subscribed' : left'[q] = "no") /\ UnsubscribedHearNoNewRound'
  BY <1>2, <1>3, <1>5, <1>6 DEF ListInv, UnsubscribedHearNoNewRound
<1>9. QED
  BY <1>1, <1>2, <1>7, <1>8 DEF ListInv

(* Between the rounds no debt is left, so that the new round makes one of each. *)
LEMMA SnapshotKeepsLists ==
    ASSUME TypeOK, ListInv, TakeSnapshot
    PROVE  ListInv'
<1>1. /\ Distinct(observers) /\ healthyObservers = <<>>
      /\ observers' = Erased(observers, HealthyPairs) /\ healthyObservers' = observers'
      /\ turn' = 1 /\ thread' = "dispatching" /\ held' = held
  BY DEF ListInv, TakeSnapshot
<1>2. Distinct(observers') /\ Subscribed' = Subscribed \cap HealthyPairs
  BY <1>1, ListAfterErasing
<1>3. Awaiting = {}
  <2>1. Len(healthyObservers) = 0 /\ turn = 1
    BY <1>1 DEF TypeOK
  <2>2. QED
    BY <2>1 DEF Awaiting
<1>4. Awaiting' = Subscribed'
  BY <1>1 DEF Awaiting, Subscribed
<1>5. Subscribed \subseteq Pairs
  BY DEF TypeOK, Subscribed
<1>6. ASSUME NEW q \in Subscribed'
      PROVE  q \in Subscribed /\ q \in Pairs /\ Healthy(q)
  BY <1>2, <1>5 DEF HealthyPairs
<1>7. \A q \in Subscribed' : owed'[q] <= 1 /\ left'[q] = "no"
  <2>1. \A q \in Subscribed : Healthy(q) => owed[q] <= 0
    BY <1>3 DEF ListInv
  <2>2. \A q \in Pairs : owed[q] \in Int
    BY DEF TypeOK
  <2>3. \A q \in Subscribed : left[q] = "no"
    BY DEF ListInv
  <2>4. \A q \in Subscribed' : owed'[q] = owed[q] + 1 /\ left'[q] = "no"
    BY <1>6, <2>3 DEF TakeSnapshot
  <2>5. QED
    BY <1>6, <2>1, <2>2, <2>4
<1>8. QED
  BY <1>1, <1>2, <1>4, <1>7 DEF ListInv, UnsubscribedHearNoNewRound

(* The pair whose turn it is has its debt paid, and awaits no second turn. *)
LEMMA DispatchKeepsLists ==
    ASSUME TypeOK, ListInv, Dispatch
    PROVE  ListInv'
<1> DEFINE n == Len(healthyObservers)
           p == healthyObservers[turn]
<1>1. /\ healthyObservers \in Seq(Pairs) /\ n \in Nat /\ turn \in 1 .. n /\ turn' = turn + 1
      /\ UNCHANGED <<observers, held, thread, healthyObservers, left>>
  BY DEF TypeOK, Dispatch, NextTurn
<1>2. UNCHANGED <<Subscribed, Snapshotted>>
  BY <1>1 DEF Subscribed, Snapshotted
<1>3. Awaiting = Awaiting' \cup {p}
  <2>1. turn .. n = (turn' .. n) \cup {turn}
    BY <1>1
  <2>2. QED
    BY <1>1, <2>1 DEF Awaiting
<1>4. \A q \in Pairs : Healthy(q)' => Healthy(q)
  BY <1>1, <1>2, OnlyReleases DEF NobodyRevives
<1>5. Subscribed \subseteq Pairs /\ p \in Pairs
  BY <1>1 DEF TypeOK, Subscribed
<1>6. \A q \in Pairs : owed[q] \in Nat
  BY DEF TypeOK
<1>7. owed'[p] = (IF owed[p] = 0 THEN 0 ELSE owed[p] - 1) /\ \A q \in Pairs \ {p} : owed'[q] = owed[q]
  BY <1>5 DEF Dispatch, TypeOK
<1>8. \A q \in Subscribed' : Healthy(q)' => owed'[q] <= IF q \in Awaiting' THEN 1 ELSE 0
  <2> SUFFICES ASSUME NEW q \in Subscribed, Healthy(q)
               PROVE  owed'[q] <= IF q \in Awaiting' THEN 1 ELSE 0
    BY <1>2, <1>4, <1>5
  <2>1. owed[q] <= IF q \in Awaiting THEN 1 ELSE 0
    BY DEF ListInv
  <2>2. CASE q = p
    BY <1>5, <1>6, <1>7, <2>1, <2>2
  <2>3. CASE q # p
    BY <1>3, <1>5, <1>7, <2>1, <2>3
  <2>4. QED
    BY <2>2, <2>3
<1>9. QED
  BY <1>1, <1>2, <1>3, <1>8 DEF ListInv, UnsubscribedHearNoNewRound

LEMMA EndOfRoundKeepsLists ==
    ASSUME TypeOK, ListInv, EndRound
    PROVE  ListInv'
<1>1. /\ UNCHANGED <<observers, held, owed, left>> /\ healthyObservers' = <<>> /\ turn' = 1
      /\ turn > Len(healthyObservers) /\ healthyObservers \in Seq(Pairs) /\ turn \in Nat
  BY DEF EndRound, TypeOK
<1>2. Awaiting = {}
  <2>1. turn .. Len(healthyObservers) = {}
    BY <1>1
  <2>2. QED
    BY <2>1 DEF Awaiting
<1>3. Awaiting' = {} /\ Snapshotted' = {} /\ Distinct(healthyObservers')
  <2>1. Len(healthyObservers') = 0
    BY <1>1
  <2>2. QED
    BY <1>1, <2>1 DEF Awaiting, Snapshotted, Distinct
<1>4. Subscribed' = Subscribed /\ Subscribed \subseteq Pairs
  BY <1>1 DEF TypeOK, Subscribed
<1>5. \A q \in Pairs : Healthy(q)' => Healthy(q)
  BY <1>1, <1>3, OnlyReleases DEF NobodyRevives
<1>6. QED
  BY <1>1, <1>2, <1>3, <1>4, <1>5 DEF ListInv, Distinct, UnsubscribedHearNoNewRound
-----------------------------------------------------------------------------
LEMMA DrainKept ==
    ASSUME DrainInv, TypeOK, [Next]_vars
    PROVE  DrainInv'
<1>1. CASE LeavesLists
  BY <1>1 DEF LeavesLists, Release, Run, RaiseStop, TestStop, Block, WakeSpuriously,
       ExitOnShutdown, BeginDestruction, DestructorNotifies, DestructorJoins, Pop,
       TryChangingState, NotifyThread, DrainInv, Drained, rideVars, TypeOK
<1>2. CASE UNCHANGED vars
  BY <1>2 DEF vars, rideVars, DrainInv
<1>3. CASE ~LeavesLists /\ ~UNCHANGED vars
  BY <1>3, KindsOfSteps DEF Subscribe, Unsubscribe, TakeSnapshot, Dispatch, EndRound,
       rideVars, DrainInv
<1>4. QED
  BY <1>1, <1>2, <1>3

Inv == QueueInv /\ ListInv /\ DrainInv

LEMMA InvKept == Inv /\ [Next]_vars => Inv'
<1> SUFFICES ASSUME Inv, [Next]_vars PROVE Inv'
  OBVIOUS
<1>1. TypeOK /\ QueueInv /\ Distinct(observers) /\ ListInv /\ DrainInv
  BY DEF Inv, QueueInv, ListInv
<1>2. DrainInv'
  BY <1>1, DrainKept
<1>3. QueueInv'
  <2>1. CASE LeavesLists \/ UNCHANGED vars
    BY <1>1, <2>1, UntouchedTold, PopTold, ChangeTold
  <2>2. CASE ~(LeavesLists \/ UNCHANGED vars)
    BY <1>1, <2>2, KindsOfSteps, SnapshotTold, ListStepTold
  <2>3. QED
    BY <2>1, <2>2
<1>4. ListInv'
  <2>1. CASE LeavesLists \/ UNCHANGED vars
    BY <1>1, <2>1, ListsUntouched
  <2>2. CASE ~(LeavesLists \/ UNCHANGED vars)
    BY <1>1, <2>2, KindsOfSteps, SubscribeKeepsLists, UnsubscribeKeepsLists,
       SnapshotKeepsLists, DispatchKeepsLists, EndOfRoundKeepsLists
  <2>3. QED
    BY <2>1, <2>2
<1>5. QED
  BY <1>2, <1>3, <1>4 DEF Inv

LEMMA InvAlways == Spec => []Inv
<1>1. Init => Inv
  <2>1. Init => DrainInv
    BY DEF Init, DrainInv
  <2>2. QED
    BY <2>1, InitTold, InitLists DEF Inv
<1>2. QED
  BY <1>1, InvKept, PTL DEF Spec
-----------------------------------------------------------------------------
(***************************************************************************)
(* The observers of a snapshot are told one by one: the pairs before turn  *)
(* and those from it on have none in common, and are as many as the turns. *)
(***************************************************************************)
LEMMA TurnsAreDistinct ==
    ASSUME TypeOK, Distinct(healthyObservers)
    PROVE  /\ Served \cap Awaiting = {}
           /\ Cardinality(Awaiting) = Len(healthyObservers) + 1 - turn
<1> DEFINE n == Len(healthyObservers)
           at == [i \in turn .. n |-> healthyObservers[i]]
<1>1. n \in Nat /\ turn \in 1 .. n + 1
  BY DEF TypeOK
<1>2. \A i \in 1 .. turn - 1, j \in turn .. n : i \in 1 .. n /\ j \in 1 .. n /\ i # j
  BY <1>1
<1>3. Served \cap Awaiting = {}
  BY <1>2 DEF Served, Awaiting, Distinct
<1>4. at \in Bijection(turn .. n, Awaiting)
  <2>1. \A i, j \in turn .. n : at[i] = at[j] => i = j
    <3>1. turn .. n \subseteq 1 .. n
      BY <1>1
    <3>2. QED
      BY <3>1 DEF Distinct
  <2>2. at \in [turn .. n -> Awaiting] /\ \A p \in Awaiting : \E i \in turn .. n : at[i] = p
    BY DEF Awaiting
  <2>3. QED
    BY <2>1, <2>2 DEF Bijection, Injection, Surjection, IsInjective
<1>5. IsFiniteSet(turn .. n) /\ Cardinality(turn .. n) = n + 1 - turn
  <2>1. turn \in Int /\ n \in Int
    BY <1>1
  <2>2. IsFiniteSet(turn .. n) /\ Cardinality(turn .. n) = IF turn > n THEN 0 ELSE n - turn + 1
    BY <2>1, FS_Interval
  <2>3. QED
    BY <1>1, <2>2
<1>6. Cardinality(Awaiting) = Cardinality(turn .. n)
  BY <1>4, <1>5, FS_Bijection DEF ExistsBijection
<1>7. QED
  BY <1>3, <1>5, <1>6

(***************************************************************************)
(* For every limit of the queue, the notifications in it and the one being *)
(* dispatched are the last changes of the ride, in order: tryChangingState *)
(* changes the state and the queue together.                               *)
(***************************************************************************)
THEOREM QueueTellsTheRideHolds == Spec => []QueueTellsTheRide
<1>1. Inv => QueueTellsTheRide
  BY DEF Inv, QueueInv, RideTold, QueueTellsTheRide
<1>2. QED
  BY <1>1, InvAlways, PTL

(***************************************************************************)
(* For any observers and dispatchers, who is subscribed and alive is told  *)
(* once of each change dispatched: subscribe, unsubscribe and the snapshot *)
(* of the observer thread erase what expired and repeat no entry.          *)
(***************************************************************************)
THEOREM HeardExactlyOnceHolds == Spec => []HeardExactlyOnce
<1>1. Inv => HeardExactlyOnce
  <2> SUFFICES ASSUME Inv PROVE HeardExactlyOnce
    OBVIOUS
  <2>1. TypeOK /\ Distinct(healthyObservers)
    BY DEF Inv, QueueInv, ListInv
  <2>2. Served \cap Awaiting = {} /\ Cardinality(Awaiting) = Len(healthyObservers) + 1 - turn
    BY <2>1, TurnsAreDistinct
  <2>3. QED
    BY <2>2 DEF Inv, ListInv, HeardExactlyOnce
<1>2. QED
  BY <1>1, InvAlways, PTL

(* An observer that has unsubscribed is called by no round that begins later. *)
THEOREM UnsubscribedHearNoNewRoundHolds == Spec => []UnsubscribedHearNoNewRound
<1>1. Inv => UnsubscribedHearNoNewRound
  BY DEF Inv, ListInv
<1>2. QED
  BY <1>1, InvAlways, PTL

(* The destructor joins a thread that has exited on an empty queue, or on stop. *)
THEOREM ShutdownDrainsHolds == Spec => []ShutdownDrains
<1>1. Inv => ShutdownDrains
  BY DEF Inv, DrainInv, ShutdownDrains
<1>2. QED
  BY <1>1, InvAlways, PTL
-----------------------------------------------------------------------------
(***************************************************************************)
(* Whenever the observer thread sleeps there is nothing for it to do: no   *)
(* notification is queued, and no destructor waits to join it.             *)
(***************************************************************************)
NoLostWakeup ==
    thread = "asleep" => notificationsQueue = <<>> /\ owner \in {"using", "notifying"}

SleepInv == (isShuttingDown <=> owner # "using") /\ NoLostWakeup

LEMMA SleepKept == SleepInv /\ [Next]_vars => SleepInv'
<1> SUFFICES ASSUME SleepInv, [Next]_vars PROVE SleepInv'
  OBVIOUS
<1>1. isShuttingDown' <=> owner' # "using"
  <2>1. CASE BeginDestruction
    BY <2>1 DEF BeginDestruction
  <2>2. CASE DestructorNotifies \/ DestructorJoins
    BY <2>2 DEF DestructorNotifies, DestructorJoins, SleepInv
  <2>3. CASE ~BeginDestruction /\ ~DestructorNotifies /\ ~DestructorJoins
    <3>1. UNCHANGED <<isShuttingDown, owner>>
      BY <2>3, KindsOfSteps DEF LeavesLists, Release, Run, RaiseStop, TestStop, Block,
         WakeSpuriously, ExitOnShutdown, Pop, TryChangingState, Subscribe, Unsubscribe,
         TakeSnapshot, Dispatch, EndRound, vars
    <3>2. QED
      BY <3>1 DEF SleepInv
  <2>4. QED
    BY <2>1, <2>2, <2>3
<1>2. NoLostWakeup'
  <2>1. CASE Block
    BY <2>1 DEF Block, SleepInv, NoLostWakeup, rideVars
  <2>2. CASE \E s \in RideStates : TryChangingState(s)
    BY <2>2 DEF TryChangingState, NotifyThread, NoLostWakeup
  <2>3. CASE BeginDestruction \/ DestructorNotifies \/ DestructorJoins
    BY <2>3 DEF BeginDestruction, DestructorNotifies, DestructorJoins, NotifyThread,
       SleepInv, NoLostWakeup, rideVars
  <2>4. CASE Run \/ TestStop \/ WakeSpuriously \/ ExitOnShutdown \/ Pop \/ TakeSnapshot \/ EndRound
    BY <2>4 DEF Run, TestStop, WakeSpuriously, ExitOnShutdown, Pop, TakeSnapshot, EndRound,
       NoLostWakeup
  <2>5. CASE \/ \E x \in Dispatchers \cup Observers : Release(x)
             \/ \E d \in Dispatchers, o \in Observers : Subscribe(d, o)
             \/ \E o \in Observers : Unsubscribe(o)
             \/ RaiseStop \/ Dispatch \/ UNCHANGED vars
    BY <2>5 DEF Release, Subscribe, Unsubscribe, RaiseStop, Dispatch, SleepInv, NoLostWakeup,
       rideVars, vars
  <2>6. QED
    BY <2>1, <2>2, <2>3, <2>4, <2>5, KindsOfSteps DEF LeavesLists
<1>3. QED
  BY <1>1, <1>2 DEF SleepInv

(***************************************************************************)
(* No wakeup of the observer thread is lost: tryChangingState notifies     *)
(* after the push, and the destructor after it has raised isShuttingDown_, *)
(* though with the mutex released, so that a thread that tests its         *)
(* predicate just before or just after is woken or does not sleep.         *)
(***************************************************************************)
THEOREM NoWakeupIsLost == Spec => []NoLostWakeup
<1>1. Init => SleepInv
  BY DEF Init, SleepInv, NoLostWakeup
<1>2. SleepInv => NoLostWakeup
  BY DEF SleepInv
<1>3. QED
  BY <1>1, SleepKept, <1>2, PTL DEF Spec
=============================================================================
