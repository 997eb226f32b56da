---------------------------- MODULE LoggerPools ----------------------------
(***************************************************************************)
(* The asynchronous loggers of spdlog as makeLogger, configure and main    *)
(* use them: a thread pool has a bounded queue of messages and one worker  *)
(* that writes them; its destructor lets the worker finish the queue.      *)
(*                                                                         *)
(* Of the messages only the last words of the tests ("Test finished") are  *)
(* told apart.  The rest is traffic: where it fills the queue and the      *)
(* policy is overrun_oldest, a message that is posted may drop one of      *)
(* them; with the policy block it waits for the worker instead.            *)
(***************************************************************************)
CONSTANTS
    Tests,
    MainPool,       \* the pool of main's logger
    QueueSize       \* how many messages a queue takes

VARIABLES
    shared,         \* TRUE iff --filename is given: all tests use main's logger
    stress,         \* TRUE iff --stress is given
    pools,          \* the pools that exist: main's and, by test, their own
    lastWord        \* per test, what became of its "Test finished"

logVars == <<pools, lastWord>>

TypeOK ==
    /\ shared \in BOOLEAN /\ stress \in BOOLEAN
    /\ pools \subseteq Tests \cup {MainPool}
    /\ lastWord \in [Tests -> {"unsaid", "queued", "written", "dropped", "refused"}]

Init ==
    /\ shared \in BOOLEAN /\ stress \in BOOLEAN
    /\ pools = {}
    /\ lastWord = [t \in Tests |-> "unsaid"]
-----------------------------------------------------------------------------
PoolOf(t) == IF shared THEN MainPool ELSE t

(* Faulty variant: the two policies are mixed up. *)
OverrunsWhenQuiet == ~stress

Overruns == stress

Open(p) == pools' = pools \cup {p} /\ UNCHANGED lastWord

(* A logger holds its pool by a weak pointer: without it the message is refused. *)
SayLastWord(t) ==
    /\ lastWord' = [lastWord EXCEPT ![t] = IF PoolOf(t) \in pools THEN "queued" ELSE "refused"]
    /\ UNCHANGED pools

(* A message is posted to pool p and finds, or does not find, the queue full. *)
Post(p) ==
    /\ \/ UNCHANGED lastWord
       \/ /\ Overruns
          /\ \E t \in Tests : /\ PoolOf(t) = p /\ lastWord[t] = "queued"
                              /\ lastWord' = [lastWord EXCEPT ![t] = "dropped"]
    /\ UNCHANGED pools

(* flush posts a message too: it can push out the one before only where no two fit. *)
Flush(t) == IF shared \/ QueueSize = 1 THEN Post(PoolOf(t)) ELSE UNCHANGED logVars

Write(t) ==
    /\ lastWord[t] = "queued"
    /\ lastWord' = [lastWord EXCEPT ![t] = "written"]
    /\ UNCHANGED pools

(* ~thread_pool joins the worker behind the queue. *)
Close(p) ==
    /\ \A t \in Tests : PoolOf(t) = p => lastWord[t] # "queued"
    /\ pools' = pools \ {p}
    /\ UNCHANGED lastWord
=============================================================================
