--------------------------- MODULE ReadWriteMutex ---------------------------
(***************************************************************************)
(* CReadWriteMutex of inc/event.h, with the CMutex and the two CConditions *)
(* it is built from and the guards CAutoReadMutex and CAutoWriteMutex.     *)
(* Every operation runs under _state_change, which it gives up only while  *)
(* it waits for a condition, so a step is what a thread does between two   *)
(* waits.  A wait may end without a signal (pthread_cond_wait); each test  *)
(* is in a loop and is made again.                                         *)
(***************************************************************************)
EXTENDS Integers, FiniteSets

CONSTANT Threads

ASSUME ThreadsFinite == IsFiniteSet(Threads)

VARIABLES
    thread,                     \* where each thread is
    shared_count,               \* _state: readers inside
    exclusive,                  \* a writer is inside
    exclusive_waiting_blocked   \* a writer waits: readers do not enter

vars == <<thread, shared_count, exclusive, exclusive_waiting_blocked>>

state == <<shared_count, exclusive, exclusive_waiting_blocked>>

Stages == {"out", "readwait", "readwoken", "read",
           "writewait", "writewoken", "write"}

At(stage) == {t \in Threads : thread[t] = stage}

Move(t, stage) == thread' = [thread EXCEPT ![t] = stage]

Init ==
    /\ thread = [t \in Threads |-> "out"]
    /\ shared_count = 0
    /\ exclusive = FALSE
    /\ exclusive_waiting_blocked = FALSE

-----------------------------------------------------------------------------

\* Mutant: a reader looks only at the waiting writers.
ReadersStoppedByWaiters == exclusive_waiting_blocked

\* Mutant: a reader looks only at the writer inside.
ReadersStoppedByWriter == exclusive

ReadersStopped == exclusive \/ exclusive_waiting_blocked

lockRead(t) ==
    /\ thread[t] \in {"out", "readwoken"}
    /\ ~ReadersStopped
    /\ Move(t, "read")
    /\ shared_count' = shared_count + 1
    /\ UNCHANGED <<exclusive, exclusive_waiting_blocked>>

\* Mutant: a reader counts itself each time it is about to wait.
lockReadWaitsCounted(t) ==
    /\ thread[t] \in {"out", "readwoken"}
    /\ ReadersStopped
    /\ Move(t, "readwait")
    /\ shared_count' = shared_count + 1
    /\ UNCHANGED <<exclusive, exclusive_waiting_blocked>>

lockReadWaits(t) ==
    /\ thread[t] \in {"out", "readwoken"}
    /\ ReadersStopped
    /\ Move(t, "readwait")
    /\ UNCHANGED state

lockWrite(t) ==
    /\ thread[t] \in {"out", "writewoken"}
    /\ shared_count = 0 /\ ~exclusive
    /\ Move(t, "write")
    /\ exclusive' = TRUE
    /\ UNCHANGED <<shared_count, exclusive_waiting_blocked>>

lockWriteWaits(t) ==
    /\ thread[t] \in {"out", "writewoken"}
    /\ shared_count # 0 \/ exclusive
    /\ Move(t, "writewait")
    /\ exclusive_waiting_blocked' = TRUE
    /\ UNCHANGED <<shared_count, exclusive>>

\* Mutant: only the writers are woken.
ReleasedWriters(stage) == IF stage = "writewait" THEN "writewoken" ELSE stage

\* Mutant: only the readers are woken.
ReleasedReaders(stage) == IF stage = "readwait" THEN "readwoken" ELSE stage

\* releaseWaiters, by a thread that leaves: signal is a broadcast.
Released(stage) ==
    CASE stage = "readwait"  -> "readwoken"
      [] stage = "writewait" -> "writewoken"
      [] OTHER -> stage

releaseWaiters(t) ==
    thread' = [u \in Threads |-> IF u = t THEN "out" ELSE Released(thread[u])]

unlockRead(t) ==
    /\ thread[t] = "read"
    /\ shared_count' = shared_count - 1
    /\ UNCHANGED exclusive
    /\ \/ /\ shared_count' = 0
          /\ exclusive_waiting_blocked' = FALSE
          /\ releaseWaiters(t)
       \/ /\ shared_count' # 0
          /\ Move(t, "out")
          /\ UNCHANGED exclusive_waiting_blocked

unlockWrite(t) ==
    /\ thread[t] = "write"
    /\ exclusive' = FALSE
    /\ exclusive_waiting_blocked' = FALSE
    /\ releaseWaiters(t)
    /\ UNCHANGED shared_count

\* A wait ends without a signal.
Spurious(t) ==
    /\ thread[t] \in {"readwait", "writewait"}
    /\ Move(t, Released(thread[t]))
    /\ UNCHANGED state

Next == \E t \in Threads :
    \/ lockRead(t) \/ lockReadWaits(t) \/ unlockRead(t)
    \/ lockWrite(t) \/ lockWriteWaits(t) \/ unlockWrite(t)
    \/ Spurious(t)

\* A thread that is inside leaves, and one that is woken runs.
Fairness == \A t \in Threads :
    /\ WF_vars(unlockRead(t) \/ unlockWrite(t))
    /\ WF_vars(thread[t] = "readwoken" /\ (lockRead(t) \/ lockReadWaits(t)))
    /\ WF_vars(thread[t] = "writewoken" /\ (lockWrite(t) \/ lockWriteWaits(t)))

Spec == Init /\ [][Next]_vars /\ Fairness

-----------------------------------------------------------------------------
\* The state of the lock is what its fields can hold: shared_count, which is
\* unsigned in the code, never passes below zero.
TypeOK ==
    /\ thread \in [Threads -> Stages]
    /\ shared_count \in 0 .. Cardinality(Threads)
    /\ exclusive \in BOOLEAN
    /\ exclusive_waiting_blocked \in BOOLEAN

\* A writer is inside alone, and the two fields the tests read say who is
\* inside, through every order of locking, waiting and unlocking.
Exclusion ==
    /\ \A t \in At("write") : At("read") \cup At("write") = {t}
    /\ shared_count = Cardinality(At("read"))
    /\ exclusive <=> At("write") # {}

\* No wakeup is lost: a thread waits only while somebody is inside who will
\* broadcast when it leaves, and readers are stopped for a writer only then.
NoLostWakeup ==
    At("readwait") \cup At("writewait") # {} \/ exclusive_waiting_blocked
        => At("read") \cup At("write") # {}

\* While a writer sleeps no reader gets in, though others read at that time:
\* those inside get fewer until the last of them wakes it.  That is all the
\* flag does (event.h:167-185).  The last reader clears it when it wakes the
\* writer, so other readers may get in before the writer has the lock, and it
\* sleeps again: nothing promises a writer its turn.
WriterGoesFirst ==
    [][At("writewait") # {} => At("read")' \subseteq At("read")]_vars

\* Whoever waits is woken (it may find the lock taken again and wait anew).
WaitersWoken == \A t \in Threads :
    thread[t] \in {"readwait", "writewait"}
        ~> thread[t] \notin {"readwait", "writewait"}

=============================================================================
