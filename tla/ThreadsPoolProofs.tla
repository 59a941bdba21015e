------------------------- MODULE ThreadsPoolProofs -------------------------
(***************************************************************************)
(* For every number of workers and jobs, whether or not waits end without  *)
(* a signal: the pool implements JobQueue, no wakeup is lost and no worker *)
(* is.  When waits end by signals only, no thread misses what it was woken *)
(* for.                                                                    *)
(***************************************************************************)
EXTENDS ThreadsPool, FiniteSetTheorems, TLAPS

(* A worker that may be given a job.                                       *)
Free(w) ==
    slot[w] = NoJob /\ current[w] = NoJob /\ worker[w] \notin {"run", "return"}

(* Where the threads are.                                                  *)
Control ==
    /\ \A w \in InIdle : Free(w)
    /\ manager = "hand" => mworker \in busy /\ Free(mworker)
    /\ manager \in {"pick", "asleep, idle", "woken", "hand"} <=> mjob # NoJob
    /\ \A w \in Workers :
          /\ worker[w] \in {"new", "run", "return"} => slot[w] = NoJob
          /\ worker[w] = "run" <=> current[w] # NoJob
          /\ worker[w] = "new" => assigned = {}

(* Where the jobs are: each in one place.                                  *)
JobsOnce ==
    /\ \A i, k \in 1..Len(queue) : queue[i] = queue[k] => i = k
    /\ \A j \in InQueue :
          /\ j \in assigned \ ran /\ j # mjob
          /\ \A w \in Workers : slot[w] # j /\ current[w] # j
    /\ mjob # NoJob =>
          /\ mjob \in assigned \ ran
          /\ \A w \in Workers : slot[w] # mjob /\ current[w] # mjob
    /\ \A w \in Workers : slot[w] # NoJob =>
          /\ slot[w] \in assigned \ ran
          /\ \A v \in Workers : current[v] # slot[w] /\ (v # w => slot[v] # slot[w])
    /\ \A w \in Workers : current[w] # NoJob =>
          /\ current[w] \in assigned \ ran
          /\ \A v \in Workers \ {w} : current[v] # current[w]
    /\ ran \subseteq assigned

(* Without wakeups of its own making a thread finds what it was woken for. *)
Signalled ==
    ~Spurious =>
        /\ fault = "none"
        /\ manager = "woken" => idle # <<>>
        /\ \A w \in Workers : worker[w] = "woken" => slot[w] # NoJob

IInv == TypeOK /\ NoLostWakeup /\ WorkersOnce /\ Control /\ JobsOnce /\ Signalled

-----------------------------------------------------------------------------
(* What is in a sequence after one more is appended.                       *)
LEMMA AppendElements ==
    ASSUME NEW S, NEW q \in Seq(S), NEW e \in S
    PROVE  /\ Append(q, e) \in Seq(S) /\ Append(q, e) # <<>>
           /\ {Append(q, e)[i] : i \in 1..Len(Append(q, e))} = {q[i] : i \in 1..Len(q)} \cup {e}
           /\ (\A i, k \in 1..Len(q) : q[i] = q[k] => i = k) /\ e \notin {q[i] : i \in 1..Len(q)}
                 => \A i, k \in 1..Len(Append(q, e)) : Append(q, e)[i] = Append(q, e)[k] => i = k
<1> DEFINE p == Append(q, e)
<1>1. /\ p \in Seq(S) /\ Len(p) = Len(q) + 1 /\ Len(q) \in Nat
      /\ \A i \in 1..Len(q) : p[i] = q[i]
      /\ p[Len(q) + 1] = e
  OBVIOUS
<1>2. {p[i] : i \in 1..Len(p)} = {q[i] : i \in 1..Len(q)} \cup {e}
  <2>1. ASSUME NEW x \in {p[i] : i \in 1..Len(p)}
        PROVE  x \in {q[i] : i \in 1..Len(q)} \cup {e}
    <3>1. PICK i \in 1..Len(p) : x = p[i]
      BY <2>1
    <3>2. CASE i = Len(q) + 1
      BY <1>1, <3>1, <3>2
    <3>3. CASE i # Len(q) + 1
      BY <1>1, <3>1, <3>3
    <3>4. QED
      BY <3>2, <3>3
  <2>2. ASSUME NEW x \in {q[i] : i \in 1..Len(q)} \cup {e}
        PROVE  x \in {p[i] : i \in 1..Len(p)}
    <3>1. CASE x = e
      BY <1>1, <3>1
    <3>2. CASE x # e
      BY <1>1, <2>2, <3>2
    <3>3. QED
      BY <3>1, <3>2
  <2>3. QED
    BY <2>1, <2>2
<1>3. ASSUME \A i, k \in 1..Len(q) : q[i] = q[k] => i = k, e \notin {q[i] : i \in 1..Len(q)},
             NEW i \in 1..Len(p), NEW k \in 1..Len(p), p[i] = p[k]
      PROVE  i = k
  <2>1. CASE i \in 1..Len(q) /\ k \in 1..Len(q)
    BY <1>1, <1>3, <2>1
  <2>2. CASE ~(i \in 1..Len(q) /\ k \in 1..Len(q))
    BY <1>1, <1>3, <2>2
  <2>3. QED
    BY <2>1, <2>2
<1>4. QED
  BY <1>1, <1>2, <1>3

(* What is in a sequence without repetitions after its head is taken.      *)
LEMMA TailElements ==
    ASSUME NEW S, NEW q \in Seq(S), q # <<>>, \A i, k \in 1..Len(q) : q[i] = q[k] => i = k
    PROVE  /\ Tail(q) \in Seq(S) /\ Head(q) \in {q[i] : i \in 1..Len(q)} /\ Head(q) \in S
           /\ {Tail(q)[i] : i \in 1..Len(Tail(q))} = {q[i] : i \in 1..Len(q)} \ {Head(q)}
           /\ \A i, k \in 1..Len(Tail(q)) : Tail(q)[i] = Tail(q)[k] => i = k
<1> DEFINE t == Tail(q)
<1>1. /\ t \in Seq(S) /\ Len(q) \in Nat /\ Len(q) > 0 /\ Len(t) = Len(q) - 1
      /\ \A i \in 1..Len(t) : t[i] = q[i + 1]
      /\ Head(q) = q[1] /\ Head(q) \in S
  OBVIOUS
<1>2. ASSUME NEW x \in {t[i] : i \in 1..Len(t)}
      PROVE  x \in {q[i] : i \in 1..Len(q)} \ {Head(q)}
  <2>1. PICK i \in 1..Len(t) : x = q[i + 1]
    BY <1>1, <1>2
  <2>2. i + 1 \in 1..Len(q) /\ i + 1 # 1 /\ 1 \in 1..Len(q)
    BY <1>1
  <2>3. QED
    BY <1>1, <2>1, <2>2
<1>3. ASSUME NEW x \in {q[i] : i \in 1..Len(q)} \ {Head(q)}
      PROVE  x \in {t[i] : i \in 1..Len(t)}
  <2>1. PICK i \in 1..Len(q) : x = q[i] /\ i # 1
    BY <1>1, <1>3
  <2>2. i - 1 \in 1..Len(t) /\ t[i - 1] = q[i]
    BY <1>1, <2>1
  <2>3. QED
    BY <2>1, <2>2
<1>4. ASSUME NEW i \in 1..Len(t), NEW k \in 1..Len(t), t[i] = t[k]
      PROVE  i = k
  <2>1. i + 1 \in 1..Len(q) /\ k + 1 \in 1..Len(q) /\ q[i + 1] = q[k + 1]
    BY <1>1, <1>4
  <2>2. QED
    BY <2>1
<1>5. {t[i] : i \in 1..Len(t)} = {q[i] : i \in 1..Len(q)} \ {Head(q)}
  <2> HIDE DEF t
  <2>1. QED
    BY <1>2, <1>3
<1>6. 1 \in 1..Len(q)
  BY <1>1
<1>7. Head(q) \in {q[i] : i \in 1..Len(q)}
  BY <1>1, <1>6
<1>8. QED
  BY <1>1, <1>4, <1>5, <1>7

-----------------------------------------------------------------------------
(* The two lists hold workers.                                             *)
LEMMA ListsOfWorkers == TypeOK => InIdle \subseteq Workers /\ busy \subseteq Workers
<1> SUFFICES ASSUME TypeOK PROVE InIdle \subseteq Workers /\ busy \subseteq Workers
  OBVIOUS
<1>0. idle \in Seq(Workers)
  BY DEF TypeOK
<1>1. \A i \in 1..Len(idle) : idle[i] \in Workers
  BY <1>0
<1>2. QED
  BY <1>1 DEF InIdle, TypeOK

(* The inductive invariant holds at the start.                             *)
LEMMA InitIInv == Init => IInv
<1> SUFFICES ASSUME Init PROVE IInv
  OBVIOUS
<1> USE ThreadsPoolAssumption DEF ThreadsPoolAssumption
<1>1. InQueue = {} /\ InIdle = {}
  BY DEF Init, InQueue, InIdle
<1>2. TypeOK /\ NoLostWakeup
  BY DEF Init, TypeOK, NoLostWakeup
<1>3. WorkersOnce /\ Control /\ JobsOnce /\ Signalled
  BY <1>1 DEF Init, WorkersOnce, Control, JobsOnce, Signalled
<1>4. QED
  BY <1>2, <1>3 DEF IInv

(* Creating a worker keeps the inductive invariant.                        *)
LEMMA CreateWorkerStep ==
    ASSUME IInv, NEW w \in Workers, CreateWorker(w)
    PROVE  IInv'
<1> USE ThreadsPoolAssumption DEF ThreadsPoolAssumption, IInv, CreateWorker, managerVars
<1>1. w \notin InIdle \cup busy
  BY DEF WorkersOnce
<1>2. /\ idle' \in Seq(Workers) /\ InIdle' = InIdle \cup {w} /\ InQueue' = InQueue
      /\ \A i, k \in 1..Len(idle') : idle'[i] = idle'[k] => i = k
  <2>1. /\ idle \in Seq(Workers) /\ w \notin {idle[i] : i \in 1..Len(idle)}
        /\ \A i, k \in 1..Len(idle) : idle[i] = idle[k] => i = k
    BY <1>1 DEF TypeOK, WorkersOnce, InIdle
  <2>2. idle' = Append(idle, w) /\ queue' = queue
    OBVIOUS
  <2>3. QED
    BY <2>1, <2>2, AppendElements DEF InIdle, InQueue
<1>3. /\ \A v \in Workers : worker'[v] = IF v = w THEN "check" ELSE worker[v]
      /\ UNCHANGED <<queue, managerVars, busy, slot, current, assigned, ran, fault>>
  BY DEF TypeOK
<1>4. TypeOK'
  BY <1>2 DEF TypeOK
<1>5. manager # "asleep, idle"
  BY DEF Control, JobsOnce
<1> HIDE DEF CreateWorker
<1>6. NoLostWakeup'
  BY <1>3, <1>5 DEF NoLostWakeup, managerVars
<1>7. Signalled'
  <2>1. manager # "woken"
    BY DEF CreateWorker, Control, JobsOnce
  <2>2. QED
    BY <1>3, <2>1 DEF Signalled, managerVars
<1>8. WorkersOnce'
  BY <1>1, <1>2, <1>3 DEF WorkersOnce
<1>9. slot[w] = NoJob /\ current[w] = NoJob /\ assigned = {} /\ manager # "hand"
  BY DEF Control, CreateWorker, JobsOnce
<1>12. Control'
  <2>1. \A v \in InIdle' : Free(v)'
    BY <1>2, <1>3, <1>9, ListsOfWorkers DEF Control, Free
  <2>2. \A v \in Workers :
           /\ worker'[v] \in {"new", "run", "return"} => slot'[v] = NoJob
           /\ worker'[v] = "run" <=> current'[v] # NoJob
           /\ worker'[v] = "new" => assigned' = {}
    BY <1>3, <1>9 DEF Control
  <2>3. QED
    BY <1>3, <1>9, <2>1, <2>2 DEF Control, managerVars
<1>10. JobsOnce'
  BY <1>2, <1>3 DEF JobsOnce, managerVars
<1>11. QED
  BY <1>4, <1>6, <1>7, <1>8, <1>10, <1>12

(* Assigning a job keeps the inductive invariant.                          *)
LEMMA assignStep ==
    ASSUME IInv, NEW j \in Jobs, assign(j)
    PROVE  IInv'
<1> USE ThreadsPoolAssumption DEF ThreadsPoolAssumption, IInv, workerVars
<1>1. /\ queue' \in Seq(Jobs) /\ queue' # <<>>
      /\ InQueue' = InQueue \cup {j} /\ InIdle' = InIdle
      /\ \A i, k \in 1..Len(queue') : queue'[i] = queue'[k] => i = k
  <2>1. /\ queue \in Seq(Jobs) /\ j \notin {queue[i] : i \in 1..Len(queue)}
        /\ \A i, k \in 1..Len(queue) : queue[i] = queue[k] => i = k
    BY DEF TypeOK, JobsOnce, assign, InQueue
  <2>2. queue' = Append(queue, j) /\ idle' = idle
    BY DEF assign
  <2>3. QED
    BY <2>1, <2>2, AppendElements DEF InIdle, InQueue
<1>2. /\ manager' = IF manager = "asleep, queue" THEN "receive" ELSE manager
      /\ assigned' = assigned \cup {j} /\ j \notin assigned
      /\ \A w \in Workers : worker[w] # "new"
      /\ UNCHANGED <<mjob, mworker, idle, busy, worker, slot, current, ran, fault>>
  BY DEF assign
<1>3. TypeOK'
  BY <1>1, <1>2 DEF TypeOK
<1>4. NoLostWakeup' /\ Signalled'
  BY <1>2 DEF NoLostWakeup, Signalled
<1>5. WorkersOnce'
  BY <1>1, <1>2 DEF WorkersOnce
<1>6. Control'
  BY <1>1, <1>2 DEF Control, Free
<1>7. j # NoJob /\ j # mjob /\ j \notin ran /\ \A w \in Workers : slot[w] # j /\ current[w] # j
  <2>1. j # NoJob
    OBVIOUS
  <2>2. j # mjob /\ j \notin ran
    BY <1>2, <2>1 DEF JobsOnce
  <2>3. ASSUME NEW w \in Workers
        PROVE  slot[w] # j /\ current[w] # j
    <3>1. slot[w] # NoJob => slot[w] \in assigned
      BY DEF JobsOnce
    <3>2. current[w] # NoJob => current[w] \in assigned
      BY DEF JobsOnce
    <3>3. j \notin assigned
      BY DEF assign
    <3>4. QED
      BY <2>1, <3>1, <3>2, <3>3
  <2>4. QED
    BY <2>1, <2>2, <2>3
<1>8. JobsOnce'
  BY <1>1, <1>2, <1>7 DEF JobsOnce
<1>9. QED
  BY <1>3, <1>4, <1>5, <1>6, <1>8

(* Taking a job from the queue, or sleeping on it, keeps it.               *)
LEMMA receiveStep ==
    ASSUME IInv, receive
    PROVE  IInv'
<1> USE ThreadsPoolAssumption DEF ThreadsPoolAssumption, IInv, workerVars
<1>1. /\ manager = "receive" /\ mjob = NoJob
      /\ UNCHANGED <<mworker, idle, busy, worker, slot, current, assigned, ran, fault>>
  BY DEF receive, Control
<1>2. CASE queue = <<>>
  <2>1. manager' = "asleep, queue" /\ UNCHANGED <<queue, mjob>>
    BY <1>2 DEF receive
  <2>2. InQueue' = InQueue /\ InIdle' = InIdle
    BY <1>1, <2>1 DEF InQueue, InIdle
  <2>3. TypeOK' /\ NoLostWakeup' /\ WorkersOnce'
    BY <1>1, <1>2, <2>1, <2>2 DEF TypeOK, NoLostWakeup, WorkersOnce
  <2>4. Control' /\ Signalled'
    BY <1>1, <2>1, <2>2 DEF Control, Free, Signalled
  <2>5. JobsOnce'
    BY <1>1, <2>1, <2>2 DEF JobsOnce
  <2>6. QED
    BY <2>3, <2>4, <2>5
<1>3. CASE queue # <<>>
  <2>1. manager' = "pick" /\ mjob' = Head(queue) /\ queue' = Tail(queue)
    BY <1>3 DEF receive
  <2>2. /\ queue' \in Seq(Jobs) /\ mjob' \in InQueue /\ mjob' \in Jobs
        /\ InQueue' = InQueue \ {mjob'} /\ InIdle' = InIdle
        /\ \A i, k \in 1..Len(queue') : queue'[i] = queue'[k] => i = k
    <3>1. queue \in Seq(Jobs) /\ \A i, k \in 1..Len(queue) : queue[i] = queue[k] => i = k
      BY DEF TypeOK, JobsOnce
    <3>2. /\ Tail(queue) \in Seq(Jobs) /\ Head(queue) \in InQueue /\ Head(queue) \in Jobs
          /\ {Tail(queue)[i] : i \in 1..Len(Tail(queue))} = InQueue \ {Head(queue)}
          /\ \A i, k \in 1..Len(Tail(queue)) : Tail(queue)[i] = Tail(queue)[k] => i = k
      BY <1>3, <3>1, TailElements DEF InQueue
    <3>3. InQueue' = {Tail(queue)[i] : i \in 1..Len(Tail(queue))} /\ InIdle' = InIdle
      BY <1>1, <2>1 DEF InQueue, InIdle
    <3>4. QED
      BY <2>1, <3>2, <3>3
  <2>3. TypeOK' /\ NoLostWakeup' /\ WorkersOnce'
    <3>1. TypeOK'
      BY <1>1, <2>1, <2>2 DEF TypeOK
    <3>2. NoLostWakeup'
      BY <1>1, <2>1 DEF NoLostWakeup
    <3>3. WorkersOnce'
      BY <1>1, <2>2 DEF WorkersOnce
    <3>4. QED
      BY <3>1, <3>2, <3>3
  <2>4. Control' /\ Signalled'
    BY <1>1, <2>1, <2>2 DEF Control, Free, Signalled
  <2>5. JobsOnce'
    BY <1>1, <2>2 DEF JobsOnce
  <2>6. QED
    BY <2>3, <2>4, <2>5
<1>4. QED
  BY <1>2, <1>3

(* Taking an idle worker, or sleeping for one, keeps it.                   *)
LEMMA PickStep ==
    ASSUME IInv, Pick \/ PickWoken
    PROVE  IInv'
<1> USE ThreadsPoolAssumption DEF ThreadsPoolAssumption, IInv, workerVars
<1>1. /\ manager \in {"pick", "woken"} /\ mjob # NoJob
      /\ UNCHANGED <<queue, mjob, worker, slot, current, assigned, ran>>
  BY DEF Pick, PickWoken, TakeIdle, Fault, Control, managerVars
<1>2. CASE idle = <<>> /\ manager = "pick"
  <2>1. manager' = "asleep, idle" /\ UNCHANGED <<mworker, idle, busy, fault>>
    BY <1>2 DEF Pick, PickWoken
  <2>2. InQueue' = InQueue /\ InIdle' = InIdle
    BY <1>1, <2>1 DEF InQueue, InIdle
  <2>3. TypeOK' /\ NoLostWakeup' /\ WorkersOnce'
    <3>1. TypeOK'
      BY <1>1, <2>1 DEF TypeOK
    <3>2. NoLostWakeup'
      BY <1>1, <1>2, <2>1 DEF NoLostWakeup
    <3>3. WorkersOnce'
      BY <1>1, <2>1, <2>2 DEF WorkersOnce
    <3>4. QED
      BY <3>1, <3>2, <3>3
  <2>4. Control' /\ JobsOnce' /\ Signalled'
    BY <1>1, <1>2, <2>1, <2>2 DEF Control, Free, JobsOnce, Signalled
  <2>5. QED
    BY <2>3, <2>4
<1>3. CASE idle = <<>> /\ manager = "woken"
  <2>1. fault' = "idle list" /\ UNCHANGED <<manager, mworker, idle, busy>>
    BY <1>3 DEF Pick, PickWoken, TakeIdle, Fault, managerVars
  <2>2. InQueue' = InQueue /\ InIdle' = InIdle
    BY <1>1, <2>1 DEF InQueue, InIdle
  <2>3. Spurious
    BY <1>3 DEF Signalled
  <2>4. TypeOK' /\ NoLostWakeup' /\ WorkersOnce'
    <3>1. TypeOK'
      BY <1>1, <2>1 DEF TypeOK
    <3>2. NoLostWakeup'
      BY <1>1, <2>1 DEF NoLostWakeup
    <3>3. WorkersOnce'
      BY <1>1, <2>1, <2>2 DEF WorkersOnce
    <3>4. QED
      BY <3>1, <3>2, <3>3
  <2>5. Control' /\ JobsOnce' /\ Signalled'
    BY <1>1, <2>1, <2>2, <2>3 DEF Control, Free, JobsOnce, Signalled
  <2>6. QED
    BY <2>4, <2>5
<1>4. CASE idle # <<>>
  <2>1. /\ mworker' = Head(idle) /\ idle' = Tail(idle) /\ busy' = busy \cup {mworker'}
        /\ manager' = "hand" /\ fault' = fault
    BY <1>4 DEF Pick, PickWoken, TakeIdle
  <2>2. /\ idle' \in Seq(Workers) /\ mworker' \in InIdle /\ mworker' \in Workers
        /\ InIdle' = InIdle \ {mworker'} /\ InQueue' = InQueue
        /\ \A i, k \in 1..Len(idle') : idle'[i] = idle'[k] => i = k
    <3>1. idle \in Seq(Workers) /\ \A i, k \in 1..Len(idle) : idle[i] = idle[k] => i = k
      BY DEF TypeOK, WorkersOnce
    <3>2. /\ Tail(idle) \in Seq(Workers) /\ Head(idle) \in InIdle /\ Head(idle) \in Workers
          /\ {Tail(idle)[i] : i \in 1..Len(Tail(idle))} = InIdle \ {Head(idle)}
          /\ \A i, k \in 1..Len(Tail(idle)) : Tail(idle)[i] = Tail(idle)[k] => i = k
      <4> HIDE DEF ThreadsPoolAssumption, IInv, workerVars
      <4>1. QED
        BY <1>4, <3>1, TailElements DEF InIdle
    <3>3. InQueue' = InQueue
      BY <1>1 DEF InQueue
    <3>4. InIdle' = {Tail(idle)[i] : i \in 1..Len(Tail(idle))}
      BY <2>1 DEF InIdle
    <3>5. QED
      BY <2>1, <3>2, <3>3, <3>4
  <2>3. TypeOK' /\ NoLostWakeup'
    BY <1>1, <2>1, <2>2 DEF TypeOK, NoLostWakeup
  <2>4. WorkersOnce'
    BY <1>1, <2>1, <2>2 DEF WorkersOnce
  <2>5. Control' /\ JobsOnce' /\ Signalled'
    BY <1>1, <2>1, <2>2 DEF Control, Free, JobsOnce, Signalled
  <2>6. QED
    BY <2>3, <2>4, <2>5
<1>5. QED
  BY <1>1, <1>2, <1>3, <1>4

(* Handing the job to the worker keeps it.                                 *)
LEMMA runStep ==
    ASSUME IInv, run
    PROVE  IInv'
<1> USE ThreadsPoolAssumption DEF ThreadsPoolAssumption, IInv, workerVars
<1>1. /\ manager = "hand" /\ mworker \in busy /\ mworker \in Workers /\ Free(mworker)
      /\ mjob # NoJob /\ mjob \in Jobs
      /\ manager' = "receive" /\ mjob' = NoJob /\ mworker' = NoWorker
      /\ UNCHANGED <<queue, idle, busy, current, assigned, ran, fault>>
  BY ListsOfWorkers DEF run, Control, TypeOK
<1>2. /\ \A v \in Workers : slot'[v] = IF v = mworker THEN mjob ELSE slot[v]
      /\ \A v \in Workers : worker'[v] = IF v = mworker /\ worker[v] = "asleep" THEN "woken"
                                         ELSE worker[v]
  BY <1>1 DEF run, TypeOK
<1>3. InQueue' = InQueue /\ InIdle' = InIdle
  BY <1>1 DEF InQueue, InIdle
<1>4. TypeOK'
  <2>1. /\ slot' \in [Workers -> Jobs \cup {NoJob}]
        /\ worker' \in [Workers -> {"new", "check", "asleep", "woken", "run", "return"}]
    BY <1>1 DEF run, TypeOK
  <2>2. QED
    BY <1>1, <2>1 DEF TypeOK
<1>5. NoLostWakeup' /\ WorkersOnce'
  BY <1>1, <1>2, <1>3 DEF NoLostWakeup, WorkersOnce
<1>6. worker[mworker] \notin {"new", "run", "return"}
  BY <1>1 DEF Free, WorkersOnce
<1>7. Control'
  BY <1>1, <1>2, <1>3, <1>6, ListsOfWorkers DEF Control, Free, WorkersOnce
<1>8. JobsOnce'
  BY <1>1, <1>2, <1>3 DEF JobsOnce, Free
<1>9. Signalled'
  BY <1>1, <1>2 DEF Signalled
<1>10. QED
  BY <1>4, <1>5, <1>7, <1>8, <1>9

(* A look into the slot, and beginning the job in it, keep it.             *)
LEMMA StartJobStep ==
    ASSUME IInv, NEW w \in Workers, Check(w) \/ Woken(w)
    PROVE  IInv'
<1> USE ThreadsPoolAssumption DEF ThreadsPoolAssumption, IInv, workerVars, managerVars
<1>1. /\ worker[w] \in {"check", "woken"} /\ current[w] = NoJob
      /\ UNCHANGED <<queue, manager, mjob, mworker, idle, busy, assigned, ran>>
  BY DEF Check, Woken, StartJob, Fault, Control
<1>2. InQueue' = InQueue /\ InIdle' = InIdle
  BY <1>1 DEF InQueue, InIdle
<1>3. CASE slot[w] = NoJob /\ worker[w] = "check"
  <2>0. worker' = [worker EXCEPT ![w] = "asleep"]
    BY <1>3 DEF Check, Woken
  <2>1. UNCHANGED <<slot, current, fault>>
    BY <1>3 DEF Check, Woken
  <2>2. \A v \in Workers : worker'[v] = IF v = w THEN "asleep" ELSE worker[v]
    BY <2>0 DEF TypeOK
  <2>3. TypeOK'
    BY <1>1, <2>0, <2>1 DEF TypeOK
  <2>4. NoLostWakeup' /\ WorkersOnce'
    <3>1. NoLostWakeup'
      BY <1>1, <1>3, <2>1, <2>2 DEF NoLostWakeup
    <3>2. WorkersOnce'
      BY <1>1, <1>2, <2>2 DEF WorkersOnce
    <3>3. QED
      BY <3>1, <3>2
  <2>5. Control'
    <3>1. \A v \in InIdle' : Free(v)'
      BY <1>2, <2>1, <2>2, ListsOfWorkers DEF Control, Free
    <3>2. manager' = "hand" => mworker' \in busy' /\ Free(mworker)'
      BY <1>1, <2>1, <2>2, ListsOfWorkers DEF Control, Free
    <3>3. \A v \in Workers :
             /\ worker'[v] \in {"new", "run", "return"} => slot'[v] = NoJob
             /\ worker'[v] = "run" <=> current'[v] # NoJob
             /\ worker'[v] = "new" => assigned' = {}
      BY <1>1, <2>1, <2>2 DEF Control
    <3>4. QED
      BY <1>1, <3>1, <3>2, <3>3 DEF Control
  <2>6. JobsOnce' /\ Signalled'
    BY <1>1, <1>2, <1>3, <2>1, <2>2 DEF JobsOnce, Signalled
  <2>7. QED
    BY <2>3, <2>4, <2>5, <2>6
<1>4. CASE slot[w] = NoJob /\ worker[w] = "woken"
  <2>1. fault' = "job" /\ UNCHANGED <<worker, slot, current>>
    BY <1>4 DEF Check, Woken, StartJob, Fault
  <2>2. Spurious
    BY <1>4 DEF Signalled
  <2>3. TypeOK' /\ NoLostWakeup'
    BY <1>1, <2>1 DEF TypeOK, NoLostWakeup
  <2>4. WorkersOnce'
    BY <1>1, <1>2, <2>1 DEF WorkersOnce
  <2>5. Control' /\ JobsOnce' /\ Signalled'
    BY <1>1, <1>2, <2>1, <2>2 DEF Control, Free, JobsOnce, Signalled
  <2>6. QED
    BY <2>3, <2>4, <2>5
<1>5. CASE slot[w] # NoJob
  <2>1. /\ current' = [current EXCEPT ![w] = slot[w]]
        /\ slot' = [slot EXCEPT ![w] = NoJob]
        /\ worker' = [worker EXCEPT ![w] = "run"]
        /\ fault' = fault
    BY <1>5 DEF Check, Woken, StartJob
  <2>2. /\ \A v \in Workers : current'[v] = IF v = w THEN slot[w] ELSE current[v]
        /\ \A v \in Workers : slot'[v] = IF v = w THEN NoJob ELSE slot[v]
        /\ \A v \in Workers : worker'[v] = IF v = w THEN "run" ELSE worker[v]
    BY <2>1 DEF TypeOK
  <2>3. slot[w] \in Jobs /\ ~Free(w) /\ w \notin InIdle /\ (manager = "hand" => mworker # w)
    BY <1>5 DEF TypeOK, Control, Free
  <2>4. TypeOK'
    BY <1>1, <2>1, <2>3 DEF TypeOK
  <2>5. NoLostWakeup' /\ WorkersOnce'
    <3>1. NoLostWakeup'
      BY <1>1, <2>2 DEF NoLostWakeup
    <3>2. WorkersOnce'
      BY <1>1, <1>2, <2>2 DEF WorkersOnce
    <3>3. QED
      BY <3>1, <3>2
  <2>6. Control'
    BY <1>1, <1>2, <1>5, <2>2, <2>3, ListsOfWorkers DEF Control, Free
  <2>7. JobsOnce'
    <3>1. \A v \in Workers : current'[v] # NoJob =>
             /\ current'[v] \in assigned \ ran
             /\ \A u \in Workers \ {v} : current'[u] # current'[v]
      BY <1>5, <2>2 DEF JobsOnce
    <3>2. \A v \in Workers : slot'[v] # NoJob =>
             /\ slot'[v] \in assigned \ ran
             /\ \A u \in Workers : current'[u] # slot'[v] /\ (u # v => slot'[u] # slot'[v])
      BY <1>5, <2>2 DEF JobsOnce
    <3>3. mjob # NoJob => \A v \in Workers : slot'[v] # mjob /\ current'[v] # mjob
      BY <1>5, <2>2 DEF JobsOnce
    <3>4. \A j \in InQueue : \A v \in Workers : slot'[v] # j /\ current'[v] # j
      <4>1. NoJob \notin InQueue
        <5>1. queue \in Seq(Jobs)
          BY DEF TypeOK
        <5>2. \A i \in 1..Len(queue) : queue[i] \in Jobs
          BY <5>1
        <5>3. QED
          BY <5>2 DEF InQueue
      <4>2. QED
        BY <1>5, <2>2, <4>1 DEF JobsOnce
    <3>5. QED
      BY <1>1, <1>2, <3>1, <3>2, <3>3, <3>4 DEF JobsOnce
  <2>8. Signalled'
    BY <1>1, <2>1, <2>2 DEF Signalled
  <2>9. QED
    BY <2>4, <2>5, <2>6, <2>7, <2>8
<1>6. QED
  BY <1>1, <1>3, <1>4, <1>5

(* The end of a job keeps it.                                              *)
LEMMA FinishStep ==
    ASSUME IInv, NEW w \in Workers, Finish(w)
    PROVE  IInv'
<1> USE ThreadsPoolAssumption DEF ThreadsPoolAssumption, IInv, managerVars
<1>1. /\ worker[w] = "run" /\ current[w] # NoJob /\ current[w] \in Jobs
      /\ ran' = ran \cup {current[w]}
      /\ UNCHANGED <<queue, manager, mjob, mworker, idle, busy, slot, assigned, fault>>
  BY DEF Finish, Control, TypeOK
<1>2. InQueue' = InQueue /\ InIdle' = InIdle
  BY <1>1 DEF InQueue, InIdle
<1>3. /\ \A v \in Workers : current'[v] = IF v = w THEN NoJob ELSE current[v]
      /\ \A v \in Workers : worker'[v] = IF v = w THEN "return" ELSE worker[v]
  BY DEF Finish, TypeOK
<1>4. TypeOK'
  <2>1. /\ current' \in [Workers -> Jobs \cup {NoJob}]
        /\ worker' \in [Workers -> {"new", "check", "asleep", "woken", "run", "return"}]
    BY DEF Finish, TypeOK
  <2>2. QED
    BY <1>1, <2>1 DEF TypeOK
<1>5. NoLostWakeup' /\ WorkersOnce' /\ Signalled'
  <2>1. NoLostWakeup' /\ Signalled'
    BY <1>1, <1>3 DEF NoLostWakeup, Signalled
  <2>2. WorkersOnce'
    BY <1>1, <1>2, <1>3 DEF WorkersOnce
  <2>3. QED
    BY <2>1, <2>2
<1>6. w \notin InIdle /\ (manager = "hand" => mworker # w) /\ slot[w] = NoJob
  BY <1>1 DEF Control, Free
<1>7. Control'
  BY <1>1, <1>2, <1>3, <1>6, ListsOfWorkers DEF Control, Free
<1>8. JobsOnce'
  <2>1. current[w] \in assigned /\ \A v \in Workers \ {w} : current[v] # current[w]
    BY <1>1 DEF JobsOnce
  <2>2. \A v \in Workers : slot[v] # current[w]
    BY <1>1 DEF JobsOnce
  <2>3. current[w] \notin InQueue /\ current[w] # mjob
    BY <1>1 DEF JobsOnce
  <2>4. ASSUME NEW v \in Workers, current'[v] # NoJob
        PROVE  /\ current'[v] \in assigned \ ran'
               /\ \A u \in Workers \ {v} : current'[u] # current'[v]
    BY <1>1, <1>3, <2>1, <2>4 DEF JobsOnce
  <2>5. ASSUME NEW v \in Workers, slot[v] # NoJob
        PROVE  /\ slot[v] \in assigned \ ran'
               /\ \A u \in Workers : current'[u] # slot[v] /\ (u # v => slot[u] # slot[v])
    BY <1>1, <1>3, <2>2, <2>5 DEF JobsOnce
  <2>6. ASSUME NEW j \in InQueue
        PROVE  /\ j \in assigned \ ran' /\ j # mjob
               /\ \A v \in Workers : slot[v] # j /\ current'[v] # j
    <3>1. j # NoJob
      <4>1. queue \in Seq(Jobs)
        BY DEF TypeOK
      <4>2. \A i \in 1..Len(queue) : queue[i] \in Jobs
        BY <4>1
      <4>3. QED
        BY <4>2 DEF InQueue
    <3>2. QED
      BY <1>1, <1>3, <2>3, <3>1 DEF JobsOnce
  <2>7. mjob # NoJob => mjob \in assigned \ ran' /\ \A v \in Workers : slot[v] # mjob /\ current'[v] # mjob
    BY <1>1, <1>3, <2>3 DEF JobsOnce
  <2>8. QED
    BY <1>1, <1>2, <2>1, <2>4, <2>5, <2>6, <2>7 DEF JobsOnce
<1>9. QED
  BY <1>4, <1>5, <1>7, <1>8

(* Going back to the idle list keeps it.                                   *)
LEMMA moveToIdleListStep ==
    ASSUME IInv, NEW w \in Workers, moveToIdleList(w)
    PROVE  IInv'
<1> USE ThreadsPoolAssumption DEF ThreadsPoolAssumption, IInv
<1>1. worker[w] = "return" /\ slot[w] = NoJob /\ current[w] = NoJob
  BY DEF moveToIdleList, Control
<1>2. w \in busy /\ w \notin InIdle
  BY <1>1 DEF WorkersOnce, Control, Free
<1>3. /\ idle' = Append(idle, w) /\ busy' = busy \ {w}
      /\ manager' = IF manager = "asleep, idle" THEN "woken" ELSE manager
      /\ UNCHANGED <<queue, mjob, mworker, slot, current, assigned, ran, fault>>
  BY <1>2 DEF moveToIdleList
<1>0. worker' = [worker EXCEPT ![w] = "check"]
  BY DEF moveToIdleList
<1>4. /\ idle' \in Seq(Workers) /\ idle' # <<>> /\ InIdle' = InIdle \cup {w} /\ InQueue' = InQueue
      /\ \A i, k \in 1..Len(idle') : idle'[i] = idle'[k] => i = k
  <2>1. /\ idle \in Seq(Workers) /\ w \notin {idle[i] : i \in 1..Len(idle)}
        /\ \A i, k \in 1..Len(idle) : idle[i] = idle[k] => i = k
    BY <1>2 DEF TypeOK, WorkersOnce, InIdle
  <2>2. idle' = Append(idle, w) /\ queue' = queue
    BY <1>3
  <2>3. QED
    BY <2>1, <2>2, AppendElements DEF InIdle, InQueue
<1>5. \A v \in Workers : worker'[v] = IF v = w THEN "check" ELSE worker[v]
  BY <1>0 DEF TypeOK
<1>6. TypeOK'
  BY <1>0, <1>3, <1>4 DEF TypeOK
<1>7. NoLostWakeup'
  BY <1>3, <1>5 DEF NoLostWakeup
<1>8. WorkersOnce'
  BY <1>2, <1>3, <1>4, <1>5 DEF WorkersOnce
<1>9. Control'
  <2>1. \A v \in InIdle' : Free(v)'
    BY <1>1, <1>3, <1>4, <1>5, ListsOfWorkers DEF Control, Free
  <2>2. manager' = "hand" => mworker' \in busy' /\ Free(mworker)'
    BY <1>1, <1>3, <1>5, ListsOfWorkers DEF Control, Free
  <2>3. \A v \in Workers :
           /\ worker'[v] \in {"new", "run", "return"} => slot'[v] = NoJob
           /\ worker'[v] = "run" <=> current'[v] # NoJob
           /\ worker'[v] = "new" => assigned' = {}
    BY <1>1, <1>3, <1>5 DEF Control
  <2>4. QED
    BY <1>3, <2>1, <2>2, <2>3 DEF Control
<1>10. JobsOnce'
  BY <1>3, <1>4 DEF JobsOnce
<1>11. Signalled'
  BY <1>3, <1>4, <1>5 DEF Signalled
<1>12. QED
  BY <1>6, <1>7, <1>8, <1>9, <1>10, <1>11

(* A wait that ends without a signal keeps it.                             *)
LEMMA SpuriousWakeupStep ==
    ASSUME IInv, SpuriousWakeup
    PROVE  IInv'
<1> USE ThreadsPoolAssumption DEF ThreadsPoolAssumption, IInv
<1>1. /\ Spurious
      /\ UNCHANGED <<queue, mjob, mworker, idle, busy, slot, current, assigned, ran, fault>>
  BY DEF SpuriousWakeup
<1>2. InQueue' = InQueue /\ InIdle' = InIdle
  BY <1>1 DEF InQueue, InIdle
<1>3. /\ \/ manager' = manager
         \/ manager = "asleep, idle" /\ manager' = "woken"
         \/ manager = "asleep, queue" /\ manager' = "receive"
      /\ \/ worker' = worker
         \/ \E w \in Workers : worker[w] = "asleep" /\ worker' = [worker EXCEPT ![w] = "woken"]
  BY DEF SpuriousWakeup
<1>4. \A v \in Workers : worker'[v] = worker[v] \/ (worker[v] = "asleep" /\ worker'[v] = "woken")
  BY <1>3 DEF TypeOK
<1>5. TypeOK'
  BY <1>1, <1>3 DEF TypeOK
<1>6. NoLostWakeup' /\ Signalled'
  BY <1>1, <1>3, <1>4 DEF NoLostWakeup, Signalled
<1>7. WorkersOnce'
  BY <1>1, <1>2, <1>4 DEF WorkersOnce
<1>8. Control'
  <2>1. \A v \in InIdle' : Free(v)'
    BY <1>1, <1>2, <1>4, ListsOfWorkers DEF Control, Free
  <2>2. manager' = "hand" => mworker' \in busy' /\ Free(mworker)'
    BY <1>1, <1>3, <1>4, ListsOfWorkers DEF Control, Free
  <2>3. \A v \in Workers :
           /\ worker'[v] \in {"new", "run", "return"} => slot'[v] = NoJob
           /\ worker'[v] = "run" <=> current'[v] # NoJob
           /\ worker'[v] = "new" => assigned' = {}
    BY <1>1, <1>4 DEF Control
  <2>4. QED
    BY <1>1, <1>3, <2>1, <2>2, <2>3 DEF Control
<1>9. JobsOnce'
  BY <1>1, <1>2 DEF JobsOnce
<1>10. QED
  BY <1>5, <1>6, <1>7, <1>8, <1>9

(* Every step keeps the inductive invariant.                               *)
LEMMA NextIInv == IInv /\ [Next]_vars => IInv'
<1>1. SUFFICES ASSUME IInv, [Next]_vars PROVE IInv'
  OBVIOUS
<1>2. CASE UNCHANGED vars
  <2>1. InQueue' = InQueue /\ InIdle' = InIdle
    BY <1>2 DEF vars, InQueue, InIdle
  <2>2. TypeOK' /\ NoLostWakeup'
    BY <1>1, <1>2 DEF IInv, TypeOK, NoLostWakeup, vars, managerVars, workerVars
  <2>3. WorkersOnce' /\ Signalled'
    BY <1>1, <1>2, <2>1 DEF IInv, WorkersOnce, Signalled, vars, managerVars, workerVars
  <2>4. Control' /\ JobsOnce'
    BY <1>1, <1>2, <2>1 DEF IInv, Control, Free, JobsOnce, vars, managerVars, workerVars
  <2>5. QED
    BY <2>2, <2>3, <2>4 DEF IInv
<1>3. CASE Next
  BY <1>1, <1>3, CreateWorkerStep, assignStep, receiveStep, PickStep, runStep, StartJobStep,
     FinishStep, moveToIdleListStep, SpuriousWakeupStep DEF Next, Manager, Worker
<1>4. QED
  BY <1>1, <1>2, <1>3

(* The inductive invariant holds in every reachable state.                 *)
LEMMA Invariance == Spec => []IInv
BY InitIInv, NextIInv, PTL DEF Spec

-----------------------------------------------------------------------------
(* The lists hold workers, the queue and the slots hold jobs, and the only *)
(* faults are the two that a thread woken for nothing runs into.           *)
THEOREM TypesKept == Spec => []TypeOK
BY Invariance, PTL DEF IInv

(* No thread sleeps on a job or a worker that is there: the test and the   *)
(* wait of every doWork and of receive are one step under the lock that    *)
(* the signal needs.                                                       *)
THEOREM WakeupsKept == Spec => []NoLostWakeup
BY Invariance, PTL DEF IInv

(* Every worker is on one list, once, for any number of workers.           *)
THEOREM WorkersKept == Spec => []WorkersOnce
BY Invariance, PTL DEF IInv

(* A worker is handed a job only when it has none.                         *)
THEOREM HandsToFreeWorker == Spec => []HandsToFree
<1>1. IInv => HandsToFree
  BY DEF IInv, Control, Free, HandsToFree
<1>2. QED
  BY <1>1, Invariance, PTL

(* If waits end by signals only, no thread calls the run() of no job or    *)
(* takes a worker from an empty list.                                      *)
THEOREM WokenForGood ==
    ASSUME ~Spurious
    PROVE  Spec => []NothingMissing
<1>1. IInv => NothingMissing
  BY DEF IInv, Signalled, NothingMissing
<1>2. QED
  BY <1>1, Invariance, PTL

-----------------------------------------------------------------------------
(* A step that moves no job but from the queue to the manager and on to a  *)
(* worker's slot changes nothing for those who wait.                       *)
LEMMA Stutter ==
    ASSUME UNCHANGED <<current, ran>>,
           \A j : j # NoJob =>
              ((j \in InQueue \/ j = mjob \/ \E w \in Workers : slot[w] = j)'
                  <=> (j \in InQueue \/ j = mjob \/ \E w \in Workers : slot[w] = j))
    PROVE  UNCHANGED <<Waiting, Running, ran>>
<1>1. ASSUME NEW j
      PROVE  j \in Waiting' <=> j \in Waiting
  BY DEF Waiting
<1>2. Waiting' = Waiting
  BY <1>1
<1>3. QED
  BY <1>2 DEF Running

(* assign is JobQueue's Assign.                                            *)
LEMMA assignPool ==
    ASSUME IInv, NEW j \in Jobs, assign(j)
    PROVE  Pool!Assign(j)
<1> USE ThreadsPoolAssumption DEF ThreadsPoolAssumption, IInv
<1>1. /\ j \notin assigned /\ j # NoJob
      /\ UNCHANGED <<mjob, slot, current, ran>>
  BY DEF assign, workerVars
<1>2. InQueue' = InQueue \cup {j}
  <2>1. queue \in Seq(Jobs) /\ queue' = Append(queue, j)
    BY DEF assign, TypeOK
  <2>2. QED
    BY <2>1, AppendElements DEF InQueue
<1>3. Waiting' = Waiting \cup {j} /\ Running' = Running
  BY <1>1, <1>2 DEF Waiting, Running
<1>4. j \notin Waiting
  <2>1. j \notin InQueue /\ j # mjob
    BY <1>1 DEF JobsOnce
  <2>2. \A w \in Workers : slot[w] # j
    BY <1>1 DEF JobsOnce
  <2>3. QED
    BY <2>1, <2>2 DEF Waiting
<1>5. j \notin Running /\ j \notin ran
  BY <1>1 DEF JobsOnce, Running
<1>6. QED
  BY <1>1, <1>3, <1>4, <1>5 DEF Pool!Assign

(* Taking a job from the queue leaves it waiting.                          *)
LEMMA receivePool ==
    ASSUME IInv, receive
    PROVE  UNCHANGED <<Waiting, Running, ran>>
<1> USE DEF IInv
<1>1. mjob = NoJob /\ UNCHANGED <<slot, current, ran>>
  BY DEF receive, Control, workerVars
<1>2. CASE queue = <<>>
  <2>1. UNCHANGED <<queue, mjob>>
    BY <1>2 DEF receive
  <2>2. InQueue' = InQueue
    BY <2>1 DEF InQueue
  <2>3. QED
    BY <1>1, <2>1, <2>2, Stutter
<1>3. CASE queue # <<>>
  <2>1. mjob' = Head(queue) /\ queue' = Tail(queue)
    BY <1>3 DEF receive
  <2>2. queue \in Seq(Jobs) /\ \A i, k \in 1..Len(queue) : queue[i] = queue[k] => i = k
    BY DEF TypeOK, JobsOnce
  <2>3. /\ Head(queue) \in InQueue
        /\ {Tail(queue)[i] : i \in 1..Len(Tail(queue))} = InQueue \ {Head(queue)}
    BY <1>3, <2>2, TailElements DEF InQueue
  <2>4. InQueue' = InQueue \ {mjob'} /\ mjob' \in InQueue
    BY <2>1, <2>3 DEF InQueue
  <2>5. QED
    BY <1>1, <2>4, Stutter
<1>4. QED
  BY <1>2, <1>3

(* Handing it to a worker leaves it waiting.                               *)
LEMMA runPool ==
    ASSUME IInv, run
    PROVE  UNCHANGED <<Waiting, Running, ran>>
<1> USE DEF IInv
<1>1. /\ mworker \in Workers /\ slot[mworker] = NoJob /\ mjob' = NoJob
      /\ UNCHANGED <<queue, current, ran>>
  BY ListsOfWorkers DEF run, Control, Free
<1>2. \A v \in Workers : slot'[v] = IF v = mworker THEN mjob ELSE slot[v]
  BY DEF run, TypeOK
<1>3. InQueue' = InQueue
  BY <1>1 DEF InQueue
<1>4. QED
  BY <1>1, <1>2, <1>3, Stutter

(* A worker begins its job while fewer than all of them have one.          *)
LEMMA StartJobPool ==
    ASSUME IInv, NEW w \in Workers, Check(w) \/ Woken(w), slot[w] # NoJob
    PROVE  Pool!Start(slot[w])
<1> USE ThreadsPoolAssumption DEF ThreadsPoolAssumption, IInv
<1>1. /\ current[w] = NoJob
      /\ UNCHANGED <<queue, mjob, ran>>
      /\ current' = [current EXCEPT ![w] = slot[w]]
      /\ slot' = [slot EXCEPT ![w] = NoJob]
  BY DEF Check, Woken, StartJob, Control, managerVars
<1>2. /\ \A v \in Workers : current'[v] = IF v = w THEN slot[w] ELSE current[v]
      /\ \A v \in Workers : slot'[v] = IF v = w THEN NoJob ELSE slot[v]
  BY <1>1 DEF TypeOK
<1>3. InQueue' = InQueue
  BY <1>1 DEF InQueue
<1>4. /\ slot[w] \notin InQueue /\ slot[w] # mjob
      /\ \A v \in Workers \ {w} : slot[v] # slot[w]
  BY DEF JobsOnce
<1>5. Waiting' = Waiting \ {slot[w]} /\ slot[w] \in Waiting
  <2>1. ASSUME NEW j
        PROVE  j \in Waiting' <=> j \in Waiting \ {slot[w]}
    BY <1>1, <1>2, <1>3, <1>4 DEF Waiting
  <2>2. slot[w] \in Waiting
    BY DEF Waiting
  <2>3. QED
    BY <2>1, <2>2
<1>6. Running' = Running \cup {slot[w]}
  <2>1. ASSUME NEW j
        PROVE  j \in Running' <=> j \in Running \cup {slot[w]}
    BY <1>1, <1>2 DEF Running
  <2>2. QED
    BY <2>1
<1>7. Cardinality(Running) < Cardinality(Workers)
  <2> DEFINE B == {v \in Workers : current[v] # NoJob}
             f == [v \in B |-> current[v]]
  <2>1. B \subseteq Workers \ {w}
    BY <1>1
  <2>2. /\ IsFiniteSet(Workers \ {w})
        /\ Cardinality(Workers \ {w}) = Cardinality(Workers) - 1
        /\ Cardinality(Workers) \in Nat
    BY FS_RemoveElement, FS_CardinalityType
  <2>3. /\ IsFiniteSet(B) /\ Cardinality(B) <= Cardinality(Workers \ {w})
        /\ Cardinality(B) \in Nat
    BY <2>1, <2>2, FS_Subset, FS_CardinalityType
  <2>4. Running = {current[v] : v \in B}
    BY DEF Running
  <2>5. f \in Surjection(B, Running)
    BY <2>4 DEF Surjection
  <2>6. IsFiniteSet(Running) /\ Cardinality(Running) <= Cardinality(B)
    BY <2>3, <2>5, FS_Surjection
  <2>7. Cardinality(Running) \in Nat
    BY <2>6, FS_CardinalityType
  <2>8. QED
    BY <2>2, <2>3, <2>6, <2>7
<1>8. ran' = ran
  BY <1>1
<1>9. Pool!Cardinality(Running) = Cardinality(Running)
  BY DEF Pool!Cardinality, Cardinality
<1>10. QED
  BY <1>5, <1>6, <1>7, <1>8, <1>9 DEF Pool!Start

(* The end of run() is JobQueue's Finish.                                  *)
LEMMA FinishPool ==
    ASSUME IInv, NEW w \in Workers, Finish(w)
    PROVE  Pool!Finish(current[w])
<1> USE ThreadsPoolAssumption DEF ThreadsPoolAssumption, IInv
<1>1. /\ current[w] # NoJob /\ ran' = ran \cup {current[w]}
      /\ UNCHANGED <<queue, mjob, slot>>
  BY DEF Finish, Control, managerVars
<1>2. \A v \in Workers : current'[v] = IF v = w THEN NoJob ELSE current[v]
  BY DEF Finish, TypeOK
<1>3. \A v \in Workers \ {w} : current[v] # current[w]
  BY <1>1 DEF JobsOnce
<1>4. Waiting' = Waiting
  <2>1. InQueue' = InQueue
    BY <1>1 DEF InQueue
  <2>2. QED
    BY <1>1, <2>1 DEF Waiting
<1>5. current[w] \in Running
  BY <1>1 DEF Running
<1>6. Running' = Running \ {current[w]}
  <2>1. ASSUME NEW j
        PROVE  j \in Running' <=> j \in Running \ {current[w]}
    BY <1>1, <1>2, <1>3 DEF Running
  <2>2. QED
    BY <2>1
<1>7. QED
  BY <1>1, <1>4, <1>5, <1>6 DEF Pool!Finish

(* The pool starts as JobQueue does.                                       *)
LEMMA InitPool == Init => Pool!Init
<1> SUFFICES ASSUME Init PROVE Pool!Init
  OBVIOUS
<1>1. InQueue = {}
  BY DEF Init, InQueue
<1>2. QED
  BY <1>1 DEF Init, Waiting, Running, Pool!Init

(* Every step of the pool is a step of JobQueue or leaves it alone.        *)
LEMMA NextPool == IInv /\ [Next]_vars => [Pool!Next]_(Pool!vars)
<1> SUFFICES ASSUME IInv, [Next]_vars PROVE [Pool!Next]_(Pool!vars)
  OBVIOUS
<1>1. ASSUME UNCHANGED <<queue, mjob, slot, current, ran>>
      PROVE  UNCHANGED Pool!vars
  BY <1>1 DEF Pool!vars, Waiting, Running, InQueue
<1>2. CASE UNCHANGED vars
  BY <1>1, <1>2 DEF vars, managerVars, workerVars
<1>3. ASSUME NEW j \in Jobs, assign(j)
      PROVE  Pool!Next
  BY <1>3, assignPool DEF Pool!Next
<1>4. CASE receive \/ run
  BY <1>4, receivePool, runPool DEF Pool!vars
<1>5. CASE Pick \/ PickWoken \/ SpuriousWakeup
  BY <1>1, <1>5 DEF Pick, PickWoken, TakeIdle, Fault, SpuriousWakeup, managerVars, workerVars
<1>6. ASSUME NEW w \in Workers, CreateWorker(w) \/ moveToIdleList(w)
      PROVE  UNCHANGED Pool!vars
  BY <1>1, <1>6 DEF CreateWorker, moveToIdleList, managerVars, workerVars
<1>7. ASSUME NEW w \in Workers, Check(w) \/ Woken(w)
      PROVE  [Pool!Next]_(Pool!vars)
  <2>1. CASE slot[w] = NoJob
    BY <1>1, <1>7, <2>1 DEF Check, Woken, StartJob, Fault, managerVars, workerVars
  <2>2. CASE slot[w] # NoJob
    <3>1. slot[w] \in Jobs
      BY <2>2 DEF IInv, TypeOK
    <3>2. QED
      BY <1>7, <2>2, <3>1, StartJobPool DEF Pool!Next
  <2>3. QED
    BY <2>1, <2>2
<1>8. ASSUME NEW w \in Workers, Finish(w)
      PROVE  Pool!Next
  <2>1. current[w] \in Jobs
    BY <1>8 DEF IInv, TypeOK, Control, Finish
  <2>2. QED
    BY <1>8, <2>1, FinishPool DEF Pool!Next
<1>9. QED
  BY <1>2, <1>3, <1>4, <1>5, <1>6, <1>7, <1>8 DEF Next, Manager, Worker

(* The pool implements JobQueue: whatever the threads' steps, and even if  *)
(* waits end without a signal, no job is lost, run twice or run by more    *)
(* threads than there are.                                                 *)
THEOREM PoolIsJobQueue == Spec => RunsEachOnce
BY InitPool, NextPool, Invariance, PTL DEF Spec, RunsEachOnce, Pool!Spec
=============================================================================
