------------------------------ MODULE JobQueue ------------------------------
(***************************************************************************)
(* What CThreadsPool promises to those who assign jobs to it: each job is  *)
(* run once, by one of a fixed number of threads, sooner or later.         *)
(***************************************************************************)
EXTENDS Integers, FiniteSets

CONSTANTS
    Jobs,    \* the jobs that are assigned
    Threads  \* how many run at a time

VARIABLES
    waiting,  \* assigned and not begun
    running,  \* in their run()
    done      \* returned from it

vars == <<waiting, running, done>>

Init == waiting = {} /\ running = {} /\ done = {}

Assign(j) ==
    /\ j \notin waiting \cup running \cup done
    /\ waiting' = waiting \cup {j}
    /\ UNCHANGED <<running, done>>

Start(j) ==
    /\ j \in waiting /\ Cardinality(running) < Threads
    /\ waiting' = waiting \ {j}
    /\ running' = running \cup {j}
    /\ UNCHANGED done

Finish(j) ==
    /\ j \in running
    /\ running' = running \ {j}
    /\ done' = done \cup {j}
    /\ UNCHANGED waiting

Next == \E j \in Jobs : Assign(j) \/ Start(j) \/ Finish(j)

Spec == Init /\ [][Next]_vars
=============================================================================
