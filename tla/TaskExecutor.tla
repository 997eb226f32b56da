---------------------------- MODULE TaskExecutor ----------------------------
(***************************************************************************)
(* What a task executor promises to the threads that use it, whatever runs *)
(* the tasks.  Tasks are numbered in the order they are submitted; each is *)
(* started once, with at most Parallel of them running at a time, and a    *)
(* call of wait returns only when everything submitted so far has finished. *)
(*                                                                         *)
(* ThreadPool (thread_pool.h with a thread limit) and PerTaskThreads (the  *)
(* same class without one) are shown to implement this module, and Harness *)
(* (main.cpp) uses it in their place.                                      *)
(***************************************************************************)
EXTENDS Integers, FiniteSets

CONSTANTS
    Clients,    \* the threads that submit tasks and wait for them
    MaxTasks,   \* bound on the number of tasks ever submitted
    Parallel    \* how many tasks may run at the same time

VARIABLES
    submitted,  \* number of tasks submitted
    started,    \* the tasks that have been started
    finished,   \* the tasks that have finished
    waiting     \* the clients inside wait

execVars == <<submitted, started, finished, waiting>>

TypeOK ==
    /\ submitted \in 0 .. MaxTasks
    /\ started \in SUBSET (0 .. submitted - 1)
    /\ finished \in SUBSET started
    /\ waiting \in SUBSET Clients

Init ==
    /\ submitted = 0
    /\ started = {}
    /\ finished = {}
    /\ waiting = {}

Submit ==
    /\ submitted < MaxTasks
    /\ submitted' = submitted + 1
    /\ UNCHANGED <<started, finished, waiting>>

Start(t) ==
    /\ t \in 0 .. submitted - 1
    /\ t \notin started
    /\ Cardinality(started \ finished) < Parallel
    /\ started' = started \cup {t}
    /\ UNCHANGED <<submitted, finished, waiting>>

Finish(t) ==
    /\ t \in started
    /\ t \notin finished
    /\ finished' = finished \cup {t}
    /\ UNCHANGED <<submitted, started, waiting>>

CallWait(c) ==
    /\ c \notin waiting
    /\ waiting' = waiting \cup {c}
    /\ UNCHANGED <<submitted, started, finished>>

AllFinished == finished = 0 .. submitted - 1

ReturnFromWait(c) ==
    /\ c \in waiting
    /\ AllFinished
    /\ waiting' = waiting \ {c}
    /\ UNCHANGED <<submitted, started, finished>>

Next ==
    \/ Submit
    \/ \E t \in 0 .. MaxTasks - 1 : Start(t) \/ Finish(t)
    \/ \E c \in Clients : CallWait(c) \/ ReturnFromWait(c)

Spec == Init /\ [][Next]_execVars

(***************************************************************************)
(* Nobody has to call submit or wait; everything else goes on by itself,   *)
(* provided that the tasks themselves return.                              *)
(***************************************************************************)
Fairness ==
    /\ WF_execVars(\E t \in 0 .. MaxTasks - 1 : Start(t))
    /\ \A t \in 0 .. MaxTasks - 1 : WF_execVars(Finish(t))
    /\ \A c \in Clients : WF_execVars(ReturnFromWait(c))

FairSpec == Spec /\ Fairness
=============================================================================
