---------------------------- MODULE ThreadsPool ----------------------------
(***************************************************************************)
(* CThreadsPool: a queue of jobs (CCMsgQueue), a managing thread that      *)
(* takes them from it and hands each to an idle worker, and the workers.   *)
(*                                                                         *)
(* Every wait is on a CEvent, whose signal is a broadcast to those who     *)
(* wait at that moment and is otherwise forgotten.  A thread that wakes in *)
(* CCMsgQueue::receive looks again; one that wakes in either doWork goes   *)
(* on as if the signal had meant what it waited for.  POSIX lets           *)
(* pthread_cond_wait return without a signal: see Spurious.                *)
(***************************************************************************)
EXTENDS Integers, Sequences, FiniteSets

CONSTANTS
    Workers,   \* the CWorkThreads
    NoWorker,  \* no worker
    Jobs,      \* the jobs assigned, each assignment one of its own
    NoJob,     \* the NULL of _job
    Spurious   \* whether a wait may end without a signal

ASSUME ThreadsPoolAssumption ==
    /\ IsFiniteSet(Workers)
    /\ NoWorker \notin Workers /\ NoJob \notin Jobs
    /\ Spurious \in BOOLEAN

VARIABLES
    queue,    \* the pool's _queue
    manager,  \* where CThreadsPool::doWork is
    mjob,     \* its local job
    mworker,  \* its local w
    idle,     \* _idleList
    busy,     \* _busyList
    worker,   \* where each CWorkThread::doWork is
    slot,     \* CWorkThread::_job
    current,  \* the job whose run() the worker is in
    assigned, \* the jobs assigned so far
    ran,      \* the jobs whose run() has returned
    fault     \* "none", or the first use of a job or a worker that is not there

managerVars == <<manager, mjob, mworker>>
workerVars == <<worker, slot, current>>
vars == <<queue, managerVars, idle, busy, workerVars, assigned, ran, fault>>

Init ==
    /\ queue = <<>>
    /\ manager = "receive" /\ mjob = NoJob /\ mworker = NoWorker
    /\ idle = <<>> /\ busy = {}
    /\ worker = [w \in Workers |-> "new"]
    /\ slot = [w \in Workers |-> NoJob]
    /\ current = [w \in Workers |-> NoJob]
    /\ assigned = {} /\ ran = {} /\ fault = "none"

Up == fault = "none"

(* create starts the workers one by one; nobody assigns before it is done. *)
CreateWorker(w) ==
    /\ Up /\ worker[w] = "new"
    /\ idle' = Append(idle, w)
    /\ worker' = [worker EXCEPT ![w] = "check"]
    /\ UNCHANGED <<queue, managerVars, busy, slot, current, assigned, ran, fault>>

(* Mutant: nobody tells the manager.                                       *)
assignSilent(j) ==
    /\ Up /\ j \notin assigned /\ \A w \in Workers : worker[w] # "new"
    /\ assigned' = assigned \cup {j}
    /\ queue' = Append(queue, j)
    /\ UNCHANGED <<managerVars, idle, busy, workerVars, ran, fault>>

(* assign: CCMsgQueue::send.                                               *)
assign(j) ==
    /\ Up /\ j \notin assigned /\ \A w \in Workers : worker[w] # "new"
    /\ assigned' = assigned \cup {j}
    /\ queue' = Append(queue, j)
    /\ manager' = IF manager = "asleep, queue" THEN "receive" ELSE manager
    /\ UNCHANGED <<mjob, mworker, idle, busy, workerVars, ran, fault>>

-----------------------------------------------------------------------------
(* The managing thread.                                                    *)

receive ==
    /\ Up /\ manager = "receive"
    /\ IF queue = <<>>
       THEN manager' = "asleep, queue" /\ UNCHANGED <<queue, mjob>>
       ELSE manager' = "pick" /\ mjob' = Head(queue) /\ queue' = Tail(queue)
    /\ UNCHANGED <<mworker, idle, busy, workerVars, assigned, ran, fault>>

Fault(where) ==
    /\ fault' = where
    /\ UNCHANGED <<queue, managerVars, idle, busy, workerVars, assigned, ran>>

(* The front of the idle list becomes busy.                                *)
TakeIdle ==
    IF idle = <<>> THEN Fault("idle list")
    ELSE /\ mworker' = Head(idle)
         /\ idle' = Tail(idle)
         /\ busy' = busy \cup {Head(idle)}
         /\ manager' = "hand"
         /\ UNCHANGED <<queue, mjob, workerVars, assigned, ran, fault>>

Pick ==
    /\ Up /\ manager = "pick"
    /\ IF idle # <<>> THEN TakeIdle
       ELSE /\ manager' = "asleep, idle"
            /\ UNCHANGED <<queue, mjob, mworker, idle, busy, workerVars, assigned, ran, fault>>

(* Woken from the wait for an idle worker.                                 *)
PickWoken == Up /\ manager = "woken" /\ TakeIdle

(* CWorkThread::run.                                                       *)
run ==
    /\ Up /\ manager = "hand"
    /\ slot' = [slot EXCEPT ![mworker] = mjob]
    /\ worker' = [worker EXCEPT ![mworker] = IF @ = "asleep" THEN "woken" ELSE @]
    /\ manager' = "receive" /\ mjob' = NoJob /\ mworker' = NoWorker
    /\ UNCHANGED <<queue, idle, busy, current, assigned, ran, fault>>

-----------------------------------------------------------------------------
(* A worker.                                                               *)

(* Mutant: the slot is not cleared.                                        *)
StartJobKept(w) ==
    IF slot[w] = NoJob THEN Fault("job")
    ELSE /\ current' = [current EXCEPT ![w] = slot[w]]
         /\ worker' = [worker EXCEPT ![w] = "run"]
         /\ UNCHANGED <<queue, managerVars, idle, busy, slot, assigned, ran, fault>>

(* Mutant: the slot is not looked at.                                      *)
StartJobBlind(w) ==
    /\ current' = [current EXCEPT ![w] = slot[w]]
    /\ slot' = [slot EXCEPT ![w] = NoJob]
    /\ worker' = [worker EXCEPT ![w] = "run"]
    /\ UNCHANGED <<queue, managerVars, idle, busy, assigned, ran, fault>>

StartJob(w) ==
    IF slot[w] = NoJob THEN Fault("job")
    ELSE /\ current' = [current EXCEPT ![w] = slot[w]]
         /\ slot' = [slot EXCEPT ![w] = NoJob]
         /\ worker' = [worker EXCEPT ![w] = "run"]
         /\ UNCHANGED <<queue, managerVars, idle, busy, assigned, ran, fault>>

Check(w) ==
    /\ Up /\ worker[w] = "check"
    /\ IF slot[w] # NoJob THEN StartJob(w)
       ELSE /\ worker' = [worker EXCEPT ![w] = "asleep"]
            /\ UNCHANGED <<queue, managerVars, idle, busy, slot, current, assigned, ran, fault>>

Woken(w) == Up /\ worker[w] = "woken" /\ StartJob(w)

Finish(w) ==
    /\ Up /\ worker[w] = "run"
    /\ ran' = ran \cup {current[w]}
    /\ current' = [current EXCEPT ![w] = NoJob]
    /\ worker' = [worker EXCEPT ![w] = "return"]
    /\ UNCHANGED <<queue, managerVars, idle, busy, slot, assigned, fault>>

(* Mutant: the worker stays on the busy list.                              *)
moveToIdleListBusy(w) ==
    /\ Up /\ worker[w] = "return"
    /\ worker' = [worker EXCEPT ![w] = "check"]
    /\ idle' = Append(idle, w)
    /\ manager' = IF manager = "asleep, idle" THEN "woken" ELSE manager
    /\ UNCHANGED <<queue, mjob, mworker, busy, slot, current, assigned, ran, fault>>

(* Mutant: nobody tells the manager.                                       *)
moveToIdleListSilent(w) ==
    /\ Up /\ worker[w] = "return"
    /\ worker' = [worker EXCEPT ![w] = "check"]
    /\ busy' = busy \ {w}
    /\ idle' = Append(idle, w)
    /\ UNCHANGED <<queue, managerVars, slot, current, assigned, ran, fault>>

(* A worker that is not on the busy list only logs an error.               *)
moveToIdleList(w) ==
    /\ Up /\ worker[w] = "return"
    /\ worker' = [worker EXCEPT ![w] = "check"]
    /\ IF w \notin busy THEN UNCHANGED <<idle, busy, manager>>
       ELSE /\ busy' = busy \ {w}
            /\ idle' = Append(idle, w)
            /\ manager' = IF manager = "asleep, idle" THEN "woken" ELSE manager
    /\ UNCHANGED <<queue, mjob, mworker, slot, current, assigned, ran, fault>>

-----------------------------------------------------------------------------
(* A wait that ends without a signal.                                      *)
SpuriousWakeup ==
    /\ Up /\ Spurious
    /\ \/ /\ manager = "asleep, idle"
          /\ manager' = "woken" /\ UNCHANGED worker
       \/ /\ manager = "asleep, queue"
          /\ manager' = "receive" /\ UNCHANGED worker
       \/ \E w \in Workers :
             /\ worker[w] = "asleep"
             /\ worker' = [worker EXCEPT ![w] = "woken"] /\ UNCHANGED manager
    /\ UNCHANGED <<queue, mjob, mworker, idle, busy, slot, current, assigned, ran, fault>>

Manager == receive \/ Pick \/ PickWoken \/ run

Worker(w) == Check(w) \/ Woken(w) \/ Finish(w) \/ moveToIdleList(w)

Next ==
    \/ \E j \in Jobs : assign(j)
    \/ Manager
    \/ \E w \in Workers : CreateWorker(w) \/ Worker(w)
    \/ SpuriousWakeup

Spec == Init /\ [][Next]_vars

(* The threads run, and every job's run() returns.                         *)
Fairness == WF_vars(Manager) /\ \A w \in Workers : WF_vars(Worker(w))

FairSpec == Spec /\ Fairness

-----------------------------------------------------------------------------
InQueue == {queue[i] : i \in 1..Len(queue)}
InIdle == {idle[i] : i \in 1..Len(idle)}

Waiting == (InQueue \cup {mjob} \cup {slot[w] : w \in Workers}) \ {NoJob}
Running == {current[w] : w \in Workers} \ {NoJob}

TypeOK ==
    /\ queue \in Seq(Jobs) /\ idle \in Seq(Workers) /\ busy \subseteq Workers
    /\ manager \in {"receive", "asleep, queue", "pick", "asleep, idle", "woken", "hand"}
    /\ mjob \in Jobs \cup {NoJob} /\ mworker \in Workers \cup {NoWorker}
    /\ worker \in [Workers -> {"new", "check", "asleep", "woken", "run", "return"}]
    /\ slot \in [Workers -> Jobs \cup {NoJob}] /\ current \in [Workers -> Jobs \cup {NoJob}]
    /\ assigned \subseteq Jobs /\ ran \subseteq Jobs
    /\ fault \in {"none", "job", "idle list"}

(* Nobody sleeps on what is already there: a queued job, an idle worker or *)
(* a job in the worker's own slot.  A signal that came before the wait is  *)
(* lost, so the test and the wait must be under one lock, as they are.     *)
NoLostWakeup ==
    /\ manager = "asleep, queue" => queue = <<>>
    /\ manager = "asleep, idle" => idle = <<>>
    /\ \A w \in Workers : worker[w] = "asleep" => slot[w] = NoJob

(* The worker that is about to get a job has none: no job is overwritten   *)
(* between moveToIdleList and the worker's next look at its slot.          *)
HandsToFree ==
    manager = "hand" => slot[mworker] = NoJob /\ current[mworker] = NoJob

(* Every worker is on one of the two lists, once: none is lost to the pool *)
(* and none gets two jobs.                                                 *)
WorkersOnce ==
    /\ \A i, k \in 1..Len(idle) : idle[i] = idle[k] => i = k
    /\ InIdle \cap busy = {}
    /\ \A w \in Workers : worker[w] # "new" <=> w \in InIdle \cup busy

(* event.h: who waits wakes by a signal, so the job and the idle worker a  *)
(* thread was woken for are there.                                         *)
NothingMissing == fault = "none"

(* Every job assigned is run to its end.                                   *)
Served == \A j \in Jobs : j \in assigned ~> j \in ran \/ fault # "none"

Pool == INSTANCE JobQueue WITH
    Threads <- Cardinality(Workers),
    waiting <- Waiting, running <- Running, done <- ran

(* The pool is a queue of jobs each of which runs once (JobQueue).         *)
RunsEachOnce == Pool!Spec
=============================================================================
