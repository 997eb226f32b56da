------------------------------- MODULE TtlMap -------------------------------
(***************************************************************************)
(* A map whose entries vanish when their time to live is over: what the    *)
(* callers of get are promised by expiring_cache.h, whatever the cache     *)
(* keeps or forgets inside.                                                *)
(***************************************************************************)
EXTENDS Integers

CONSTANTS
    Keys,
    Ttls,       \* the times to live that are used
    MaxTime,    \* bound on the clock
    MaxPuts,    \* bound on the number of puts
    MaxRemoves  \* bound on the number of removes

VARIABLES
    now,
    puts,       \* number of puts so far; the n-th one puts value n
    removes,    \* number of removes so far: only a remove takes a value away early
    live,       \* per key, the value that get returns and when it expires
    closed      \* stop was called: get returns nothing any more

mapVars == <<now, puts, removes, live, closed>>

Nothing == [value |-> 0, expiration |-> 0]
AllGone == [k \in Keys |-> Nothing]

Init ==
    /\ now = 0
    /\ puts = 0
    /\ removes = 0
    /\ live = AllGone
    /\ closed = FALSE

Put(k, ttl) ==
    /\ ~closed
    /\ puts < MaxPuts
    /\ puts' = puts + 1
    /\ live' = [live EXCEPT ![k] =
                   IF ttl > 0 THEN [value |-> puts + 1, expiration |-> now + ttl] ELSE Nothing]
    /\ UNCHANGED <<now, removes, closed>>

Remove(k) ==
    /\ ~closed
    /\ removes < MaxRemoves
    /\ removes' = removes + 1
    /\ live' = [live EXCEPT ![k] = Nothing]
    /\ UNCHANGED <<now, puts, closed>>

Close ==
    /\ closed' = TRUE
    /\ live' = AllGone
    /\ UNCHANGED <<now, puts, removes>>

Tick ==
    /\ now < MaxTime
    /\ now' = now + 1
    /\ live' = [k \in Keys |-> IF live[k].expiration > now' THEN live[k] ELSE Nothing]
    /\ UNCHANGED <<puts, removes, closed>>

Next ==
    \/ \E k \in Keys : Remove(k) \/ \E ttl \in Ttls : Put(k, ttl)
    \/ Close
    \/ Tick

Spec == Init /\ [][Next]_mapVars
=============================================================================
