--------------------------- MODULE ClientIOProofs ---------------------------
(***************************************************************************)
(* For every number of epoll threads, every length of messages, every      *)
(* piecing of the data and every size of the socket's buffer: a client     *)
(* that lives is attended to and queueNotification never hands on a task   *)
(* that was deleted; what is written to the socket is whole messages, the  *)
(* notifications and the answers each in their order.                      *)
(*                                                                         *)
(* The first argument is about who has the client in hand (IInv).  The     *)
(* second is about what goes through its socket (OInv): for each IO state, *)
(* where the socket stands, as ToSend, ToNotify and ToRead say it; each of *)
(* dosend, donotify and doread takes one of them to another.               *)
(***************************************************************************)
EXTENDS ClientIO, SequenceTheorems, TLAPS

Registered == {"none", "in", "out"}
EventSteps == {"none", "taken", "removed", "forget"}

(* The part of the types the argument needs.                               *)
Sets ==
    /\ pstate \in {"Idle", "Reading", "Sending", "Notifing"}
    /\ epolls \in [Listeners -> Registered]
    /\ event \in [Listeners -> EventSteps]
    /\ jobs \in Nat
    /\ login \in Listeners \cup {"todo", "done"}

(* A client that was cleaned up is in the middle of its IO: the failure    *)
(* that ended it came from a read or a send that was not complete.         *)
EndsBusy == task = "deleted" => pstate # "Idle"

IInv == Sets /\ Watched /\ EndsBusy /\ NeverAssignsDeleted

-----------------------------------------------------------------------------
(* The IO records: what each function is given and returns.                *)
Fields == {"pstate", "rpos", "spos", "notimsgs", "npos", "out", "served", "inbox", "ok"}
IsIO(io) == io = [f \in Fields |-> io[f]]

(* What is returned: an IO state, and no failure that leaves an Idle one.  *)
IOStates == {"Idle", "Reading", "Sending", "Notifing"}
Sound(io) == io.pstate \in IOStates /\ (io.ok \/ io.pstate # "Idle")

(* donotify leaves a client that it fails for in Notifing.                 *)
LEMMA donotifyFails ==
    ASSUME NEW io, IsIO(io)
    PROVE  Sound(donotify(io))
<1>1. CASE io.notimsgs = <<>>
  BY <1>1 DEF donotify, IsIO, Fields, Sound, IOStates
<1>2. CASE io.notimsgs # <<>> /\ broken
  BY <1>2 DEF donotify, IsIO, Fields, Sound, IOStates
<1>3. CASE io.notimsgs # <<>> /\ ~broken
  <2> DEFINE w == Written(io, Head(io.notimsgs), io.npos, NoteLen)
             p == io.npos + Len(w) - Len(io.out)
  <2> HIDE DEF w, p
  <2>1. CASE p < NoteLen
    BY <1>3, <2>1 DEF donotify, IsIO, Fields, Sound, IOStates, w, p
  <2>2. CASE ~(p < NoteLen)
    BY <1>3, <2>2 DEF donotify, IsIO, Fields, Sound, IOStates, w, p
  <2>3. QED
    BY <2>1, <2>2
<1>4. QED
  BY <1>1, <1>2, <1>3

(* dosend fails in Sending, or where donotify does.                        *)
LEMMA dosendFails ==
    ASSUME NEW io, IsIO(io)
    PROVE  Sound(dosend(io))
<1>1. CASE broken
  BY <1>1 DEF dosend, IsIO, Fields, Sound, IOStates
<1>2. CASE ~broken
  <2> DEFINE w == Written(io, io.served, io.spos, AnswerLen)
             p == io.spos + Len(w) - Len(io.out)
             done == [io EXCEPT !.pstate = "Sending", !.out = w, !.spos = 0, !.rpos = 0]
  <2> HIDE DEF w, p
  <2>1. CASE p < AnswerLen
    BY <1>2, <2>1 DEF dosend, IsIO, Fields, Sound, IOStates, w, p
  <2>2. CASE ~(p < AnswerLen)
    <3>1. dosend(io) = donotify(done)
      BY <1>2, <2>2 DEF dosend, w, p
    <3>2. IsIO(done)
      BY DEF IsIO, Fields
    <3>3. QED
      BY <3>1, <3>2, donotifyFails
  <2>3. QED
    BY <2>1, <2>2
<1>3. QED
  BY <1>1, <1>2

(* doread fails in Reading, or where dosend does.                          *)
LEMMA doreadFails ==
    ASSUME NEW io, IsIO(io)
    PROVE  Sound(doread(io))
<1> DEFINE n == Least(io.inbox, Message - io.rpos)
           rd == [io EXCEPT !.pstate = "Reading", !.rpos = @ + n, !.inbox = @ - n]
           processed == [rd EXCEPT !.served = @ + 1]
<1> HIDE DEF n
<1>1. IsIO(rd) /\ rd.pstate = "Reading"
  BY DEF IsIO, Fields
<1>2. IsIO(processed)
  BY <1>1 DEF IsIO, Fields
<1>3. CASE ReadState(io) = "rdok"
  <2>1. doread(io) = dosend(processed)
    BY <1>3 DEF doread, n
  <2>2. QED
    BY <1>2, <2>1, dosendFails
<1>4. CASE ReadState(io) = "rdbd"
  <2>1. doread(io) = rd
    BY <1>4 DEF doread, n
  <2>2. QED
    BY <1>1, <2>1 DEF Sound, IOStates
<1>5. CASE ReadState(io) \notin {"rdok", "rdbd"}
  <2>1. doread(io) = [rd EXCEPT !.ok = FALSE]
    BY <1>5 DEF doread, n
  <2>2. QED
    BY <1>1, <2>1 DEF IsIO, Fields, Sound, IOStates
<1>6. QED
  BY <1>3, <1>4, <1>5

(* doWork never gives up on an Idle client.                                *)
LEMMA EffectFails ==
    ASSUME pstate \in IOStates
    PROVE  Sound(Effect(IO))
<1>1. IsIO(IO) /\ IO.pstate = pstate
  BY DEF IO, IsIO, Fields
<1>2. QED
  BY <1>1, donotifyFails, dosendFails, doreadFails DEF Effect, IOStates

-----------------------------------------------------------------------------
(* Taking the descriptor off an epoll set gives a registration again.      *)
LEMMA rmFromEpollTyped ==
    ASSUME epolls \in [Listeners -> Registered]
    PROVE  rmFromEpoll(epolls) \in [Listeners -> Registered]
BY DEF rmFromEpoll, Registered

(* Whichever epoll thread is chosen, and whether epoll_ctl(ADD) succeeds   *)
(* or finds the descriptor there already, some epoll set watches it after. *)
LEMMA addToEpollWatches ==
    ASSUME NEW sets \in [Listeners -> Registered], NEW st, addToEpoll(sets, st)
    PROVE  /\ epolls' \in [Listeners -> Registered]
           /\ \E l \in Listeners : epolls'[l] # "none"
<1>1. PICK l \in Listeners :
          epolls' = IF sets[l] = "none" THEN [sets EXCEPT ![l] = Interest(st)] ELSE sets
  BY DEF addToEpoll
<1>2. Interest(st) \in {"in", "out"}
  BY DEF Interest
<1>3. epolls'[l] # "none"
  BY <1>1, <1>2
<1>4. epolls' \in [Listeners -> Registered]
  BY <1>1, <1>2 DEF Registered
<1>5. QED
  BY <1>3, <1>4

-----------------------------------------------------------------------------
(* At the start no login job has run and the client is Idle.               *)
LEMMA InitIInv == Init => IInv
BY DEF Init, IInv, Sets, Watched, EndsBusy, NeverAssignsDeleted, Registered, EventSteps

(* The peer touches nothing of this.                                       *)
LEMMA PeerStep == ASSUME IInv, Peer PROVE IInv'
<1>1. UNCHANGED <<pstate, epolls, event, jobs, login, task, fault>>
  <2>1. CASE Receive
    BY <2>1 DEF Receive, clientVars
  <2>2. CASE Break
    BY <2>2 DEF Break, clientVars
  <2>3. CASE \E n \in Segments : Send(n)
    BY <2>3 DEF Send
  <2>4. QED
    BY <2>1, <2>2, <2>3 DEF Peer
<1>2. QED
  BY <1>1 DEF IInv, Sets, Watched, EndsBusy, NeverAssignsDeleted

(* The login job registers the client before it counts as done.            *)
LEMMA LoginStep == ASSUME IInv, Login \/ LoginDone PROVE IInv'
<1>1. UNCHANGED <<pstate, event, jobs, task, fault>>
  BY DEF Login, LoginDone, clientVars
<1>2. EndsBusy' /\ NeverAssignsDeleted'
  BY <1>1 DEF IInv, EndsBusy, NeverAssignsDeleted
<1>3. CASE Login
  <2>1. PICK l \in Listeners :
            /\ epolls' = [epolls EXCEPT ![l] = Interest(pstate)]
            /\ login' = l
    BY <1>3 DEF Login
  <2>2. Interest(pstate) \in {"in", "out"}
    BY DEF Interest
  <2>3. Sets'
    BY <1>1, <2>1, <2>2 DEF IInv, Sets, Registered
  <2>4. epolls'[l] # "none"
    BY <2>1, <2>2 DEF IInv, Sets
  <2>5. Watched'
    BY <2>4 DEF Watched
  <2>6. QED
    BY <1>2, <2>3, <2>5 DEF IInv
<1>4. CASE LoginDone
  <2>1. /\ login \in Listeners /\ login' = "done"
        /\ UNCHANGED epolls
    BY <1>4 DEF LoginDone
  <2>2. login # "todo"
    BY <2>1, ClientIOAssumption
  <2>3. Sets' /\ Watched'
    BY <1>1, <2>1, <2>2 DEF IInv, Sets, Watched
  <2>4. QED
    BY <1>2, <2>3 DEF IInv
<1>5. QED
  BY <1>3, <1>4

(* Until it has put the task into the pool an epoll thread has the event   *)
(* in hand.                                                                *)
LEMMA EpollThreadStep ==
    ASSUME IInv, NEW l \in Listeners, EpollThread(l)
    PROVE  IInv'
<1>1. UNCHANGED <<pstate, login, task>>
  BY DEF EpollThread, TakeEvent, RemoveFd, ForgetEpfd, AssignJob, UseDeleted, clientVars
<1>2. fault' # "assign"
  BY DEF EpollThread, TakeEvent, RemoveFd, ForgetEpfd, AssignJob, UseDeleted, IInv,
         NeverAssignsDeleted
<1>3. CASE RemoveFd(l) /\ task = "deleted"
  <2>1. UNCHANGED <<epolls, event, jobs>>
    BY <1>3 DEF RemoveFd, UseDeleted
  <2>2. QED
    BY <1>1, <1>2, <2>1 DEF IInv, Sets, Watched, EndsBusy, NeverAssignsDeleted
<1>4. CASE AssignJob(l)
  <2>1. /\ jobs' = jobs + 1 /\ event' = [event EXCEPT ![l] = "none"]
        /\ UNCHANGED epolls
    BY <1>4 DEF AssignJob
  <2>2. Sets' /\ jobs' > 0
    BY <1>1, <2>1 DEF IInv, Sets, EventSteps
  <2>3. QED
    BY <1>1, <1>2, <2>2 DEF IInv, Watched, EndsBusy, NeverAssignsDeleted
<1>5. CASE TakeEvent(l) \/ ForgetEpfd(l) \/ (RemoveFd(l) /\ task # "deleted")
  <2>1. PICK e \in EventSteps \ {"none"} : event' = [event EXCEPT ![l] = e]
    BY <1>5 DEF TakeEvent, ForgetEpfd, RemoveFd, EventSteps
  <2>2. UNCHANGED jobs
    BY <1>5 DEF TakeEvent, ForgetEpfd, RemoveFd
  <2>3. epolls' \in [Listeners -> Registered]
    <3>1. epolls' \in {epolls, rmFromEpoll(epolls)}
      BY <1>5 DEF TakeEvent, ForgetEpfd, RemoveFd
    <3>2. QED
      BY <3>1, rmFromEpollTyped DEF IInv, Sets
  <2>4. event' \in [Listeners -> EventSteps] /\ event'[l] # "none"
    BY <2>1 DEF IInv, Sets
  <2>5. QED
    BY <1>1, <1>2, <2>2, <2>3, <2>4 DEF IInv, Sets, Watched, EndsBusy, NeverAssignsDeleted
<1>6. QED
  BY <1>3, <1>4, <1>5 DEF EpollThread

(* A task that goes on goes back to an epoll set; one that does not leaves *)
(* the client in the middle of its IO.                                     *)
LEMMA doWorkStep == ASSUME IInv, doWork PROVE IInv'
<1> DEFINE io == Effect(IO)
<1>1. Sound(io)
  BY EffectFails DEF IInv, Sets, IOStates
<1> HIDE DEF io
<1>2. UNCHANGED <<event, login>> /\ fault' # "assign"
  BY DEF doWork, UseDeleted, IInv, NeverAssignsDeleted
<1>3. CASE task = "deleted"
  <2>1. UNCHANGED <<pstate, task, epolls, jobs>>
    BY <1>3 DEF doWork, UseDeleted, clientVars
  <2>2. QED
    BY <1>2, <1>3, <2>1 DEF IInv, Sets, Watched, EndsBusy, NeverAssignsDeleted
<1>4. CASE task # "deleted"
  <2>1. /\ jobs > 0 /\ jobs' = jobs - 1
        /\ pstate' = io.pstate
    BY <1>4 DEF doWork, Becomes, io
  <2>2. jobs' \in Nat /\ pstate' \in IOStates
    BY <1>1, <2>1 DEF IInv, Sets, Sound
  <2>3. CASE io.ok
    <3>1. addToEpoll(epolls, io.pstate) /\ UNCHANGED task
      BY <1>4, <2>3 DEF doWork, io
    <3>2. /\ epolls' \in [Listeners -> Registered]
          /\ \E l \in Listeners : epolls'[l] # "none"
      BY <3>1, addToEpollWatches DEF IInv, Sets
    <3>3. EndsBusy'
      BY <1>4, <3>1 DEF EndsBusy
    <3>4. QED
      BY <1>2, <2>2, <3>2, <3>3 DEF IInv, Sets, IOStates, Watched, NeverAssignsDeleted
  <2>4. CASE ~io.ok
    <3>1. task' = "deleted" /\ UNCHANGED epolls
      BY <1>4, <2>4 DEF doWork, io
    <3>2. pstate' # "Idle"
      BY <1>1, <2>1, <2>4 DEF Sound
    <3>3. QED
      BY <1>2, <2>2, <3>1, <3>2
         DEF IInv, Sets, IOStates, Watched, EndsBusy, NeverAssignsDeleted
  <2>5. QED
    BY <2>3, <2>4
<1>5. QED
  BY <1>3, <1>4

(* What is queued does not disturb an IO in progress; an Idle client lives *)
(* and goes back to an epoll set.                                          *)
LEMMA queueNotificationStep ==
    ASSUME IInv, NEW n \in Notes, queueNotification(n)
    PROVE  IInv'
<1>1. IsIO(Queued(n)) /\ Queued(n).pstate = pstate
  BY DEF Queued, IO, IsIO, Fields
<1>2. UNCHANGED <<task, event, jobs, login>>
  BY DEF queueNotification
<1>3. CASE pstate # "Idle"
  <2>1. UNCHANGED <<pstate, epolls, fault>>
    BY <1>1, <1>3 DEF queueNotification, Becomes, Waiting
  <2>2. QED
    BY <1>2, <2>1 DEF IInv, Sets, Watched, EndsBusy, NeverAssignsDeleted
<1>4. CASE pstate = "Idle"
  <2>1. task # "deleted"
    BY <1>4 DEF IInv, EndsBusy
  <2>2. /\ pstate' = donotify(Queued(n)).pstate
        /\ addToEpoll(rmFromEpoll(epolls), donotify(Queued(n)).pstate)
        /\ UNCHANGED fault
    BY <1>4, <2>1 DEF queueNotification, Becomes, Waiting
  <2>3. pstate' \in IOStates
    BY <1>1, <2>2, donotifyFails DEF Sound
  <2>4. /\ epolls' \in [Listeners -> Registered]
        /\ \E l \in Listeners : epolls'[l] # "none"
    BY <2>2, rmFromEpollTyped, addToEpollWatches DEF IInv, Sets
  <2>5. QED
    BY <1>2, <2>1, <2>2, <2>3, <2>4
       DEF IInv, Sets, IOStates, Watched, EndsBusy, NeverAssignsDeleted
<1>5. QED
  BY <1>3, <1>4

(* The end of addToEpoll only writes _epfd, and destroy empties the epoll  *)
(* sets of a client whose task is gone.                                    *)
LEMMA EndStep == ASSUME IInv, addToEpollDone \/ destroy PROVE IInv'
<1>1. UNCHANGED <<pstate, event, jobs, login, task, fault>>
  BY DEF addToEpollDone, destroy, clientVars
<1>2. CASE addToEpollDone
  <2>1. UNCHANGED epolls
    BY <1>2 DEF addToEpollDone
  <2>2. QED
    BY <1>1, <2>1 DEF IInv, Sets, Watched, EndsBusy, NeverAssignsDeleted
<1>3. CASE destroy
  <2>1. task = "deleted" /\ epolls' = [l \in Listeners |-> "none"]
    BY <1>3 DEF destroy
  <2>2. QED
    BY <1>1, <2>1 DEF IInv, Sets, Registered, Watched, EndsBusy, NeverAssignsDeleted
<1>4. QED
  BY <1>2, <1>3

(* Every step, and a stutter, keeps the invariant.                         *)
LEMMA NextIInv == IInv /\ [Next]_vars => IInv'
<1> SUFFICES ASSUME IInv, [Next]_vars PROVE IInv'
  OBVIOUS
<1>1. CASE UNCHANGED vars
  <2>1. UNCHANGED <<pstate, epolls, event, jobs, login, task, fault>>
    BY <1>1 DEF vars, clientVars
  <2>2. QED
    BY <2>1 DEF IInv, Sets, Watched, EndsBusy, NeverAssignsDeleted
<1>2. CASE Next
  BY <1>2, PeerStep, LoginStep, EpollThreadStep, doWorkStep, queueNotificationStep, EndStep
     DEF Next, Worker
<1>3. QED
  BY <1>1, <1>2

-----------------------------------------------------------------------------
(* The invariant holds of every reachable state.                           *)
LEMMA Inductive == Spec => []IInv
<1>1. Init => IInv
  BY InitIInv
<1>2. IInv /\ [Next]_vars => IInv'
  BY NextIInv
<1>3. QED
  BY <1>1, <1>2, PTL DEF Spec

(* A client whose task lives is never forgotten, whatever addToEpoll and   *)
(* rmFromEpoll of the workers and the epoll threads race to: its           *)
(* descriptor is watched, or an epoll thread, the pool or the login job    *)
(* has it in hand.  And queueNotification, which may be called long after  *)
(* the client's cleanup, never registers a task that doWork has deleted    *)
(* (client.h, client.cpp:216,239, user_listener.cpp).                      *)
THEOREM NeverForgotten == Spec => []Attended
<1>1. IInv => Attended
  BY DEF IInv, Attended
<1>2. QED
  BY <1>1, Inductive, PTL

-----------------------------------------------------------------------------
(* What is on the socket.                                                  *)
UnitRec == [msg : Notes \cup 1..Requests, at : Nat, len : Nat]
Stream == {o \in Seq(UnitRec) : \A i \in 1..Len(o) : o[i].at \in 1..o[i].len}

Complete(o) == o = <<>> \/ o[Len(o)].at = o[Len(o)].len

(* The socket is inside a message: so many of its units have been taken.   *)
Inside(o, msg, at, len) ==
    IF at = 0 THEN Complete(o)
    ELSE o # <<>> /\ o[Len(o)] = [msg |-> msg, at |-> at, len |-> len]

(* More of one message, after what was there.                              *)
Continues(o, w, msg, from, len) ==
    /\ w \in Seq(UnitRec) /\ Len(w) >= Len(o) /\ from + Len(w) - Len(o) <= len
    /\ \A i \in 1..Len(o) : w[i] = o[i]
    /\ \A i \in Len(o) + 1..Len(w) : w[i] = [msg |-> msg, at |-> from + i - Len(o), len |-> len]

LEMMA Continued ==
    ASSUME NEW o \in Seq(UnitRec), NEW msg \in Notes \cup 1..Requests,
           NEW len \in Nat \ {0}, NEW from \in 0..len - 1, NEW n \in Int, n <= len - from
    PROVE  Continues(o, o \o [i \in 1..n |-> [msg |-> msg, at |-> from + i, len |-> len]], msg, from, len)
<1> DEFINE m == IF n < 0 THEN 0 ELSE n
           s == [i \in 1..n |-> [msg |-> msg, at |-> from + i, len |-> len]]
           w == o \o s
<1>1. m \in Nat /\ 1..n = 1..m /\ m <= len - from
  OBVIOUS
<1>2. \A i \in 1..m : [msg |-> msg, at |-> from + i, len |-> len] \in UnitRec
  BY DEF UnitRec
<1>3. s \in Seq(UnitRec) /\ Len(s) = m
  <2>1. s = [i \in 1..m |-> [msg |-> msg, at |-> from + i, len |-> len]]
    BY <1>1
  <2> HIDE DEF s, m
  <2>2. s \in [1..m -> UnitRec] /\ m \in Nat
    BY <1>1, <1>2, <2>1
  <2>3. QED
    BY <2>2
<1>4. \A i \in 1..m : s[i] = [msg |-> msg, at |-> from + i, len |-> len]
  BY <1>1
<1> HIDE DEF s, m
<1>5. w \in Seq(UnitRec) /\ Len(w) = Len(o) + m
  BY <1>1, <1>3
<1>6. \A i \in 1..Len(o) : w[i] = o[i]
  BY <1>1, <1>3
<1>7. \A i \in Len(o) + 1..Len(w) : w[i] = [msg |-> msg, at |-> from + i - Len(o), len |-> len]
  <2> TAKE i \in Len(o) + 1..Len(w)
  <2>1. i - Len(o) \in 1..m /\ w[i] = s[i - Len(o)]
    BY <1>1, <1>3, <1>5
  <2>2. from + (i - Len(o)) = from + i - Len(o)
    OBVIOUS
  <2>3. QED
    BY <1>4, <2>1, <2>2
<1>8. from + Len(w) - Len(o) <= len
  BY <1>1, <1>5
<1> HIDE DEF w
<1>9. Continues(o, w, msg, from, len)
  BY <1>1, <1>5, <1>6, <1>7, <1>8 DEF Continues
<1>10. QED
  BY <1>9 DEF w, s

LEMMA ContinuedWell ==
    ASSUME NEW o \in Stream, NEW w, NEW msg \in Notes \cup 1..Requests,
           NEW len \in Nat \ {0}, NEW from \in 0..len - 1,
           Continues(o, w, msg, from, len), Inside(o, msg, from, len), Unmixed(o)
    PROVE  /\ w \in Stream /\ Unmixed(w)
           /\ from + Len(w) - Len(o) \in from..len
           /\ Inside(w, msg, from + Len(w) - Len(o), len)
           /\ from + Len(w) - Len(o) = len => Complete(w)
<1>1. /\ o \in Seq(UnitRec) /\ Len(o) \in Nat /\ w \in Seq(UnitRec) /\ Len(w) \in Nat
      /\ Len(w) >= Len(o) /\ from + Len(w) - Len(o) <= len
      /\ DOMAIN o = 1..Len(o) /\ DOMAIN w = 1..Len(w)
  BY DEF Continues, Stream
<1>l. /\ Len(o) \in Nat /\ Len(w) \in Nat /\ from \in Nat /\ len \in Nat
      /\ Len(w) >= Len(o) /\ from + Len(w) - Len(o) <= len /\ from < len
  BY <1>1
<1>2. \A i \in 1..Len(o) : w[i] = o[i]
  BY DEF Continues
<1>3. \A i \in Len(o) + 1..Len(w) : w[i] = [msg |-> msg, at |-> from + i - Len(o), len |-> len]
  BY DEF Continues
<1>4. \A i \in 1..Len(w) : i \in 1..Len(o) \/ i \in Len(o) + 1..Len(w)
  BY <1>1
<1>5. w \in Stream
  <2> SUFFICES ASSUME NEW i \in 1..Len(w) PROVE w[i].at \in 1..w[i].len
    BY <1>1 DEF Stream
  <2>1. CASE i \in 1..Len(o)
    BY <1>2, <2>1 DEF Stream
  <2>2. CASE i \in Len(o) + 1..Len(w)
    <3>1. from + i - Len(o) \in 1..len
      BY <1>l, <2>2
    <3>2. w[i] = [msg |-> msg, at |-> from + i - Len(o), len |-> len]
      BY <1>3, <2>2
    <3>3. w[i].at = from + i - Len(o) /\ w[i].len = len
      BY <3>2
    <3>4. QED
      BY <3>1, <3>3
  <2>3. QED
    BY <1>4, <2>1, <2>2
<1>6. from + Len(w) - Len(o) \in from..len
  BY <1>1
<1>7. Inside(w, msg, from + Len(w) - Len(o), len) /\ (from + Len(w) - Len(o) = len => Complete(w))
  <2>1. CASE Len(w) = Len(o)
    <3>1. w = o
      BY <1>1, <1>2, <2>1, SeqEqual
    <3>2. QED
      BY <1>1, <2>1, <3>1
  <2>2. CASE Len(w) # Len(o)
    <3>1. Len(w) \in Len(o) + 1..Len(w)
      BY <1>l, <2>2
    <3>2. w[Len(w)] = [msg |-> msg, at |-> from + Len(w) - Len(o), len |-> len]
      BY <1>3, <3>1
    <3>3. w # <<>> /\ from + Len(w) - Len(o) # 0
      <4>1. Len(w) # 0 /\ from + Len(w) - Len(o) # 0
        BY <1>l, <2>2
      <4>2. QED
        BY <4>1
    <3>4. QED
      BY <3>2, <3>3 DEF Inside, Complete
  <2>3. QED
    BY <2>1, <2>2
<1>8. Unmixed(w)
  <2> SUFFICES ASSUME NEW i \in 1..Len(w)
               PROVE  LET before == IF i = 1 THEN [at |-> 0, len |-> 0] ELSE w[i - 1] IN
                      IF w[i].at = 1 THEN before.at = before.len
                      ELSE before = [w[i] EXCEPT !.at = @ - 1]
    BY <1>1 DEF Unmixed
  <2>1. CASE i \in 1..Len(o)
    <3>1. w[i] = o[i] /\ (i # 1 => w[i - 1] = o[i - 1])
      BY <1>1, <1>2, <2>1
    <3>2. QED
      BY <1>1, <2>1, <3>1 DEF Unmixed
  <2>2. CASE i = Len(o) + 1
    <3>1. w[i] = [msg |-> msg, at |-> from + 1, len |-> len]
      <4>1. i \in Len(o) + 1..Len(w) /\ from + i - Len(o) = from + 1
        BY <1>1, <2>2
      <4>2. QED
        BY <1>3, <4>1
    <3>2. CASE from = 0
      <4>1. i = 1 \/ (w[i - 1] = o[Len(o)] /\ o # <<>> /\ i # 1)
        BY <1>1, <1>2, <2>2
      <4>2. o # <<>> => o[Len(o)].at = o[Len(o)].len
        BY <3>2 DEF Inside, Complete
      <4>3. QED
        BY <3>1, <3>2, <4>1, <4>2
    <3>3. CASE from # 0
      <4>1. o # <<>> /\ o[Len(o)] = [msg |-> msg, at |-> from, len |-> len]
        BY <3>3 DEF Inside
      <4>2. i # 1 /\ w[i - 1] = o[Len(o)]
        BY <1>1, <1>2, <2>2, <4>1
      <4>3. QED
        BY <3>1, <3>3, <4>1, <4>2
    <3>4. QED
      BY <3>2, <3>3
  <2>3. CASE i > Len(o) + 1
    <3>1. i \in Len(o) + 1..Len(w) /\ i - 1 \in Len(o) + 1..Len(w) /\ i # 1
      BY <1>1, <2>3
    <3>2. /\ w[i] = [msg |-> msg, at |-> from + i - Len(o), len |-> len]
          /\ w[i - 1] = [msg |-> msg, at |-> from + (i - 1) - Len(o), len |-> len]
      BY <1>3, <3>1
    <3>3. from + i - Len(o) # 1 /\ from + (i - 1) - Len(o) = from + i - Len(o) - 1
      BY <1>1, <2>3
    <3>4. w[i].at # 1 /\ w[i - 1] = [w[i] EXCEPT !.at = @ - 1]
      <4>1. PICK a : a = from + i - Len(o)
        OBVIOUS
      <4>2. w[i] = [msg |-> msg, at |-> a, len |-> len] /\ a # 1
        BY <3>2, <3>3, <4>1
      <4>3. w[i - 1] = [msg |-> msg, at |-> a - 1, len |-> len]
        BY <3>2, <3>3, <4>1
      <4>4. QED
        BY <4>2, <4>3
    <3>5. QED
      BY <3>1, <3>4
  <2>4. QED
    BY <1>1, <2>1, <2>2, <2>3
<1>9. QED
  BY <1>5, <1>6, <1>7, <1>8

-----------------------------------------------------------------------------
(* What is left of a sequence after its first elements.                    *)
LEMMA Rest ==
    ASSUME NEW S, NEW s \in Seq(S), NEW k \in 0..Len(s)
    PROVE  LET t == SubSeq(s, k + 1, Len(s)) IN
           /\ t \in Seq(S) /\ Len(t) = Len(s) - k
           /\ \A i \in 1..Len(s) - k : t[i] = s[k + i]
<1> DEFINE t == SubSeq(s, k + 1, Len(s))
<1>1. k + 1 \in Int /\ Len(s) \in Nat /\ \A i \in k + 1..Len(s) : s[i] \in S
  OBVIOUS
<1> HIDE DEF t
<1>2. PICK m \in Int, n \in Int : m = k + 1 /\ n = Len(s)
  BY <1>1
<1>3. /\ SubSeq(s, m, n) \in Seq(S)
      /\ Len(SubSeq(s, m, n)) = IF m <= n THEN n - m + 1 ELSE 0
      /\ \A i \in 1..n - m + 1 : SubSeq(s, m, n)[i] = s[m + i - 1]
  BY <1>1, <1>2, SubSeqProperties
<1>4. t = SubSeq(s, m, n)
  BY <1>2 DEF t
<1>5. n - m + 1 = Len(s) - k /\ (~(m <= n) => Len(s) - k = 0)
  BY <1>1, <1>2
<1>6. \A i \in 1..Len(s) - k : m + i - 1 = k + i
  BY <1>1, <1>2
<1>7. QED
  <2>1. t \in Seq(S) /\ Len(t) = Len(s) - k
    BY <1>3, <1>4, <1>5
  <2>2. \A i \in 1..Len(s) - k : t[i] = s[k + i]
    BY <1>3, <1>4, <1>5, <1>6
  <2>3. QED
    BY <2>1, <2>2 DEF t

(* Nothing of the kind is begun.                                           *)
LEMMA BegunNothing ==
    ASSUME NEW o \in Seq(UnitRec), NEW w \in Seq(UnitRec), Len(w) >= Len(o),
           \A i \in 1..Len(o) : w[i] = o[i],
           NEW kind, NEW names, NEW k,
           \A i \in Len(o) + 1..Len(w) : ~(w[i].at = 1 /\ w[i].msg \in kind),
           Begun(o, kind, names, k)
    PROVE  Begun(w, kind, names, k)
<1> DEFINE S(x) == {i \in DOMAIN x : x[i].at = 1 /\ x[i].msg \in kind}
<1>1. S(w) = S(o) /\ \A i \in S(o) : w[i] = o[i]
  OBVIOUS
<1>2. /\ {o[i].msg : i \in S(o)} = {names[a] : a \in 1..k}
      /\ \A i, j \in S(o) : \A a, b \in 1..k :
             i < j /\ o[i].msg = names[a] /\ o[j].msg = names[b] => a < b
  BY DEF Begun
<1> HIDE DEF S
<1>3. {w[i].msg : i \in S(w)} = {o[i].msg : i \in S(o)}
  BY <1>1
<1>4. \A i, j \in S(w) : \A a, b \in 1..k :
             i < j /\ w[i].msg = names[a] /\ w[j].msg = names[b] => a < b
  BY <1>1, <1>2
<1>5. QED
  BY <1>2, <1>3, <1>4 DEF Begun, S

(* The next one is begun.                                                  *)
LEMMA BegunNext ==
    ASSUME NEW o \in Seq(UnitRec), NEW w \in Seq(UnitRec), Len(w) > Len(o),
           \A i \in 1..Len(o) : w[i] = o[i],
           NEW kind, NEW names, NEW k \in Nat,
           w[Len(o) + 1].at = 1, w[Len(o) + 1].msg = names[k + 1], names[k + 1] \in kind,
           \A i \in Len(o) + 2..Len(w) : w[i].at # 1,
           \A a \in 1..k : names[a] # names[k + 1],
           Begun(o, kind, names, k)
    PROVE  Begun(w, kind, names, k + 1)
<1> DEFINE S(x) == {i \in DOMAIN x : x[i].at = 1 /\ x[i].msg \in kind}
           z == Len(o) + 1
<1>1. DOMAIN o = 1..Len(o) /\ DOMAIN w = 1..Len(w) /\ Len(o) \in Nat /\ Len(w) \in Nat
  OBVIOUS
<1>2. \A i \in 1..Len(w) : i \in 1..Len(o) \/ i = z \/ i \in Len(o) + 2..Len(w)
  BY <1>1
<1>3. S(w) = S(o) \cup {z}
  BY <1>1, <1>2
<1>4. \A i \in S(o) : w[i] = o[i] /\ i < z
  BY <1>1
<1>5. 1..k + 1 = 1..k \cup {k + 1}
  OBVIOUS
<1>6. /\ {o[i].msg : i \in S(o)} = {names[a] : a \in 1..k}
      /\ \A i, j \in S(o) : \A a, b \in 1..k :
             i < j /\ o[i].msg = names[a] /\ o[j].msg = names[b] => a < b
  BY DEF Begun
<1>a. z \in Nat /\ S(o) \subseteq Nat /\ z \in S(w) /\ w[z].msg = names[k + 1]
  BY <1>1, <1>3
<1> HIDE DEF S, z
<1>b. \A i \in S(o) : \E c \in 1..k : o[i].msg = names[c]
  <2> TAKE i \in S(o)
  <2>1. o[i].msg \in {o[j].msg : j \in S(o)}
    OBVIOUS
  <2>2. o[i].msg \in {names[a] : a \in 1..k}
    BY <1>6, <2>1, Zenon
  <2>3. QED
    BY <2>2
<1>c. \A c \in 1..k : \E i \in S(o) : o[i].msg = names[c]
  <2> TAKE c \in 1..k
  <2>1. names[c] \in {names[a] : a \in 1..k}
    OBVIOUS
  <2>2. names[c] \in {o[j].msg : j \in S(o)}
    BY <1>6, <2>1, Zenon
  <2>3. QED
    BY <2>2
<1>7. {w[i].msg : i \in S(w)} = {names[a] : a \in 1..k + 1}
  <2>1. ASSUME NEW i \in S(w) PROVE \E a \in 1..k + 1 : w[i].msg = names[a]
    BY <1>3, <1>4, <1>5, <1>a, <1>b
  <2>2. ASSUME NEW a \in 1..k + 1 PROVE \E i \in S(w) : w[i].msg = names[a]
    <3>1. CASE a = k + 1
      BY <1>a, <3>1
    <3>2. CASE a \in 1..k
      BY <1>3, <1>4, <1>c, <3>2
    <3>3. QED
      BY <1>5, <3>1, <3>2
  <2>3. {w[i].msg : i \in S(w)} \subseteq {names[a] : a \in 1..k + 1}
    BY <2>1
  <2>4. {names[a] : a \in 1..k + 1} \subseteq {w[i].msg : i \in S(w)}
    BY <2>2
  <2>5. QED
    BY <2>3, <2>4
<1>8. ASSUME NEW i \in S(w), NEW j \in S(w), NEW a \in 1..k + 1, NEW b \in 1..k + 1,
             i < j, w[i].msg = names[a], w[j].msg = names[b]
      PROVE  a < b
  <2>1. i \in S(o)
    <3>1. ~(i = z)
      BY <1>3, <1>4, <1>8, <1>a
    <3>2. QED
      BY <1>3, <3>1
  <2>2. a # k + 1
    BY <1>4, <1>b, <1>8, <2>1
  <2>3. CASE j = z
    <3>1. b = k + 1
      <4>1. names[b] = names[k + 1]
        BY <1>8, <1>a, <2>3
      <4>2. QED
        BY <1>5, <1>8, <4>1
    <3>2. QED
      BY <1>8, <2>2, <3>1
  <2>4. CASE j \in S(o)
    <3>1. b # k + 1
      BY <1>4, <1>b, <2>4, <1>8
    <3>2. QED
      BY <1>4, <1>5, <1>6, <1>8, <2>1, <2>2, <2>4, <3>1
  <2>5. QED
    BY <1>3, <2>3, <2>4
<1>9. QED
  BY <1>7, <1>8 DEF Begun, S

-----------------------------------------------------------------------------
(* The record that doWork and queueNotification pass on.                   *)
IORec ==
    [pstate : IOStates, rpos : 0..Message, spos : 0..AnswerLen - 1, notimsgs : Seq(Notes),
     npos : 0..NoteLen - 1, out : Stream, served : 0..Requests, inbox : Nat, ok : BOOLEAN]

Distinct(ord) ==
    ord \in Seq(Notes) /\ \A a, b \in 1..Len(ord) : ord[a] = ord[b] => a = b

Answered(io, k) == Begun(io.out, 1..Requests, Numbers, k)

NotesDue(io, ord) ==
    \E k \in 0..Len(ord) :
        /\ Begun(io.out, Notes, ord, k)
        /\ Unsent(io.notimsgs, io.npos) = SubSeq(ord, k + 1, Len(ord))

(* What holds whether the client lives or not.                             *)
Orderly(io, ord) ==
    /\ io \in IORec /\ Unmixed(io.out) /\ (io.npos > 0 => io.notimsgs # <<>>)
    /\ \E k \in 0..Requests : k <= io.served /\ io.served <= k + 1 /\ Answered(io, k)
    /\ ~broken => NotesDue(io, ord)

(* What dosend, donotify and doread start from: as long as the line is up, *)
(* the socket is inside what they go on to write.  Each request served, or *)
(* being read, has come out of what was sent.                              *)
ToSend(io) ==
    /\ io.npos = 0 /\ io.rpos = Message /\ io.served > 0
    /\ Answered(io, IF io.spos > 0 THEN io.served ELSE io.served - 1)
    /\ ~broken => Inside(io.out, io.served, io.spos, AnswerLen)
    /\ io.served * Message + io.inbox = sent

ToNotify(io) ==
    /\ io.spos = 0 /\ io.rpos < Message
    /\ Answered(io, io.served)
    /\ IF io.notimsgs = <<>> THEN io.npos = 0 /\ (~broken => Complete(io.out))
       ELSE ~broken => Inside(io.out, Head(io.notimsgs), io.npos, NoteLen)
    /\ io.served * Message + io.rpos + io.inbox = sent

ToRead(io) ==
    /\ io.spos = 0 /\ io.npos = 0 /\ io.rpos < Message
    /\ Answered(io, io.served)
    /\ ~broken => Complete(io.out)
    /\ io.served * Message + io.rpos + io.inbox = sent

Ready(io) ==
    /\ io.pstate = "Sending" => ToSend(io)
    /\ io.pstate = "Notifing" => ToNotify(io)
    /\ io.pstate \in {"Idle", "Reading"} => ToRead(io)
    /\ io.pstate = "Idle" /\ ~broken => io.notimsgs = <<>>

Result(io, ord) == Orderly(io, ord) /\ (io.ok => Ready(io))

LEMMA Lengths ==
    /\ Header \in Nat \ {0} /\ Body \in Nat \ {0} /\ Message \in Nat \ {0}
    /\ AnswerLen \in Nat \ {0} /\ NoteLen \in Nat \ {0} /\ OutCap \in Nat
    /\ Requests \in Nat
BY ClientIOAssumption DEF Message

LEMMA Records ==
    ASSUME NEW io \in IORec
    PROVE  /\ IsIO(io) /\ io.pstate \in IOStates /\ io.rpos \in 0..Message
           /\ io.spos \in 0..AnswerLen - 1 /\ io.notimsgs \in Seq(Notes)
           /\ io.npos \in 0..NoteLen - 1 /\ io.out \in Stream /\ io.served \in 0..Requests
           /\ io.inbox \in Nat /\ io.ok \in BOOLEAN
BY DEF IORec, IsIO, Fields

(* What a send leaves on the socket.                                       *)
LEMMA WrittenContinues ==
    ASSUME NEW io \in IORec, drained \in Nat, NEW msg \in Notes \cup 1..Requests,
           NEW len \in Nat \ {0}, NEW from \in 0..len - 1
    PROVE  Continues(io.out, Written(io, msg, from, len), msg, from, len)
<1> DEFINE n == Least(len - from, Space(io))
<1>1. io.out \in Seq(UnitRec) /\ Len(io.out) \in Nat
  BY Records DEF Stream
<1>2. Space(io) \in Int
  BY <1>1, Lengths DEF Space
<1>3. n \in Int /\ n <= len - from
  BY <1>2 DEF Least
<1> HIDE DEF n
<1>4. QED
  BY <1>1, <1>3, Continued DEF Written, n

-----------------------------------------------------------------------------
(* A notification goes on.  When its first unit is taken it counts as      *)
(* sent; as long as none is, it is the next of those that wait.            *)
LEMMA NoteGoesOn ==
    ASSUME NEW ord, Distinct(ord), NEW io \in IORec, NEW w,
           io.notimsgs # <<>>, NotesDue(io, ord),
           Continues(io.out, w, Head(io.notimsgs), io.npos, NoteLen)
    PROVE  \E k \in 0..Len(ord) :
               /\ Begun(w, Notes, ord, k)
               /\ SubSeq(ord, k + 1, Len(ord))
                      = IF io.npos + Len(w) - Len(io.out) > 0
                        THEN Tail(io.notimsgs) ELSE io.notimsgs
<1> DEFINE o == io.out
           q == io.notimsgs
<1>1. PICK k \in 0..Len(ord) : /\ Begun(o, Notes, ord, k)
                               /\ Unsent(q, io.npos) = SubSeq(ord, k + 1, Len(ord))
  BY DEF NotesDue
<1>2. /\ o \in Seq(UnitRec) /\ Len(o) \in Nat /\ w \in Seq(UnitRec) /\ Len(w) \in Nat
      /\ Len(w) >= Len(o) /\ io.npos \in Nat /\ q \in Seq(Notes)
  BY Records, Lengths DEF Stream, Continues
<1>3. \A i \in 1..Len(o) : w[i] = o[i]
  BY DEF Continues
<1>4. \A i \in Len(o) + 1..Len(w) :
          w[i].msg = Head(q) /\ w[i].at = io.npos + i - Len(o)
  <2> TAKE i \in Len(o) + 1..Len(w)
  <2>1. w[i] = [msg |-> Head(q), at |-> io.npos + i - Len(o), len |-> NoteLen]
    BY DEF Continues
  <2>2. QED
    BY <2>1
<1>5. CASE io.npos > 0 \/ Len(w) = Len(o)
  <2>1. \A i \in Len(o) + 1..Len(w) : w[i].at # 1
    BY <1>2, <1>4, <1>5
  <2>2. Begun(w, Notes, ord, k)
    BY <1>1, <1>2, <1>3, <2>1, BegunNothing
  <2>3. io.npos + Len(w) - Len(o) > 0 <=> io.npos > 0
    BY <1>2, <1>5
  <2>4. QED
    BY <1>1, <2>2, <2>3 DEF Unsent
<1>6. CASE io.npos = 0 /\ Len(w) > Len(o)
  <2>1. q = SubSeq(ord, k + 1, Len(ord))
    BY <1>1, <1>6 DEF Unsent
  <2>2. ord \in Seq(Notes) /\ Len(ord) \in Nat
    BY DEF Distinct
  <2>3. k + 1 \in 1..Len(ord)
    <3>1. ~(Len(ord) < k + 1)
      BY <2>1, <2>2, SubSeqEmpty
    <3>2. QED
      BY <2>2, <3>1
  <2>4. Head(q) = ord[k + 1] /\ Tail(q) = SubSeq(ord, k + 2, Len(ord))
    <3>1. Len(ord) \in k + 1..Len(ord) /\ (k + 1) + 1 = k + 2
      BY <2>2, <2>3
    <3>2. QED
      BY <2>1, <2>2, <2>3, <3>1, HeadTailOfSubSeq
  <2>5. Len(o) + 1 \in Len(o) + 1..Len(w) /\ \A i \in Len(o) + 2..Len(w) : i \in Len(o) + 1..Len(w)
    BY <1>2, <1>6
  <2>6. w[Len(o) + 1].at = 1 /\ w[Len(o) + 1].msg = ord[k + 1]
    <3>1. PICK z \in Len(o) + 1..Len(w) : z = Len(o) + 1
      BY <2>5
    <3>2. w[z].msg = Head(q) /\ w[z].at = io.npos + z - Len(o)
      BY <1>4
    <3>3. io.npos + z - Len(o) = 1
      BY <1>2, <1>6, <3>1
    <3>4. QED
      BY <2>4, <3>1, <3>2, <3>3
  <2>7. \A i \in Len(o) + 2..Len(w) : w[i].at # 1
    BY <1>2, <1>4, <1>6, <2>5
  <2>8. ord[k + 1] \in Notes /\ \A a \in 1..k : ord[a] # ord[k + 1]
    BY <2>2, <2>3 DEF Distinct
  <2>9. Begun(w, Notes, ord, k + 1)
    <3>1. k \in Nat
      OBVIOUS
    <3> HIDE DEF o, q
    <3>2. QED
      BY <1>1, <1>2, <1>3, <1>6, <2>6, <2>7, <2>8, <3>1, BegunNext
  <2>10. io.npos + Len(w) - Len(o) > 0 /\ k + 1 \in 0..Len(ord) /\ (k + 1) + 1 = k + 2
    BY <1>2, <1>6, <2>2, <2>3
  <2>11. QED
    BY <2>4, <2>9, <2>10
<1>7. io.npos > 0 \/ Len(w) = Len(o) \/ (io.npos = 0 /\ Len(w) > Len(o))
  BY <1>2
<1>8. QED
  BY <1>5, <1>6, <1>7

-----------------------------------------------------------------------------
(* A request's number is no notification.                                  *)
LEMMA Apart == \A n \in Notes : n \notin 1..Requests
BY ClientIOAssumption

(* One of the kinds goes on and nothing of the other is begun.             *)
LEMMA OtherKind ==
    ASSUME NEW o \in Seq(UnitRec), NEW w, NEW msg, NEW from, NEW len,
           Continues(o, w, msg, from, len),
           NEW kind, msg \notin kind, NEW names, NEW k, Begun(o, kind, names, k)
    PROVE  Begun(w, kind, names, k)
<1>1. /\ w \in Seq(UnitRec) /\ Len(w) >= Len(o)
      /\ \A i \in 1..Len(o) : w[i] = o[i]
  BY DEF Continues
<1>2. \A i \in Len(o) + 1..Len(w) : w[i].msg = msg
  <2> TAKE i \in Len(o) + 1..Len(w)
  <2>1. w[i] = [msg |-> msg, at |-> from + i - Len(o), len |-> len]
    BY DEF Continues
  <2>2. QED
    BY <2>1
<1>3. \A i \in Len(o) + 1..Len(w) : ~(w[i].at = 1 /\ w[i].msg \in kind)
  BY <1>2
<1>4. QED
  BY <1>1, <1>3, BegunNothing

(* donotify goes on with the notification the socket is inside, or begins  *)
(* the next.                                                               *)
LEMMA donotifyGood ==
    ASSUME NEW ord, Distinct(ord), drained \in Nat,
           NEW io, Orderly(io, ord), ToNotify(io)
    PROVE  Orderly(donotify(io), ord) /\ Ready(donotify(io))
<1>1. io \in IORec /\ Unmixed(io.out) /\ io.served \in 0..Requests /\ Answered(io, io.served)
  BY Records DEF Orderly, ToNotify
<1>2. CASE io.notimsgs = <<>>
  <2> DEFINE r == [io EXCEPT !.pstate = "Idle", !.ok = TRUE]
  <2>1. donotify(io) = r
    BY <1>2 DEF donotify
  <2>2. r \in IORec
    BY <1>1 DEF IORec, IOStates
  <2>3. /\ r.pstate = "Idle" /\ r.rpos = io.rpos /\ r.spos = io.spos /\ r.npos = io.npos
        /\ r.notimsgs = io.notimsgs /\ r.out = io.out /\ r.served = io.served /\ r.inbox = io.inbox
    BY <1>1 DEF IORec
  <2> HIDE DEF r
  <2>4. Orderly(r, ord)
    BY <2>2, <2>3 DEF Orderly, Answered, NotesDue
  <2>5. Ready(r)
    BY <1>2, <2>3 DEF Ready, ToNotify, ToRead, Answered
  <2>6. QED
    BY <2>1, <2>4, <2>5
<1>3. CASE io.notimsgs # <<>> /\ broken
  <2> DEFINE r == [io EXCEPT !.pstate = "Notifing", !.notimsgs = Tail(@), !.npos = 0, !.ok = FALSE]
  <2>1. donotify(io) = r
    BY <1>3 DEF donotify
  <2>2. Tail(io.notimsgs) \in Seq(Notes) /\ 0 \in 0..NoteLen - 1
    BY <1>1, <1>3, Records, Lengths
  <2>3. r \in IORec
    BY <1>1, <2>2 DEF IORec, IOStates
  <2>4. /\ r.pstate = "Notifing" /\ r.rpos = io.rpos /\ r.spos = io.spos /\ r.npos = 0
        /\ r.out = io.out /\ r.served = io.served /\ r.inbox = io.inbox
    BY <1>1 DEF IORec
  <2> HIDE DEF r
  <2>5. Orderly(r, ord)
    BY <1>3, <2>3, <2>4 DEF Orderly, Answered
  <2>6. Ready(r)
    BY <1>3, <2>4 DEF Ready, ToNotify, Answered
  <2>7. QED
    BY <2>1, <2>5, <2>6
<1>4. CASE io.notimsgs # <<>> /\ ~broken
  <2> DEFINE w == Written(io, Head(io.notimsgs), io.npos, NoteLen)
             p == io.npos + Len(w) - Len(io.out)
             part == [io EXCEPT !.pstate = "Notifing", !.out = w, !.npos = p, !.ok = TRUE]
             all == [io EXCEPT !.pstate = IF Tail(io.notimsgs) = <<>> THEN "Idle" ELSE "Notifing",
                               !.out = w, !.npos = 0, !.notimsgs = Tail(@), !.ok = TRUE]
  <2>1. /\ donotify(io) = IF p < NoteLen THEN part ELSE all
    BY <1>4 DEF donotify
  <2>2. /\ Head(io.notimsgs) \in Notes /\ Tail(io.notimsgs) \in Seq(Notes)
        /\ io.npos \in 0..NoteLen - 1 /\ io.out \in Stream
    BY <1>1, <1>4, Records
  <2>3. Continues(io.out, w, Head(io.notimsgs), io.npos, NoteLen)
    BY <1>1, <2>2, WrittenContinues, Lengths
  <2>4. Inside(io.out, Head(io.notimsgs), io.npos, NoteLen)
    BY <1>4 DEF ToNotify
  <2> HIDE DEF w
  <2>5. /\ w \in Stream /\ Unmixed(w) /\ p \in io.npos..NoteLen
        /\ Inside(w, Head(io.notimsgs), p, NoteLen) /\ (p = NoteLen => Complete(w))
    BY <1>1, <2>2, <2>3, <2>4, ContinuedWell, Lengths
  <2>6. Begun(w, 1..Requests, Numbers, io.served)
    BY <1>1, <2>2, <2>3, Apart, OtherKind DEF Answered, Stream
  <2>7. PICK k \in 0..Len(ord) :
            /\ Begun(w, Notes, ord, k)
            /\ SubSeq(ord, k + 1, Len(ord)) = IF p > 0 THEN Tail(io.notimsgs) ELSE io.notimsgs
    BY <1>1, <1>4, <2>3, NoteGoesOn DEF Orderly
  <2> HIDE DEF p
  <2>8. CASE p < NoteLen
    <3>1. p \in 0..NoteLen - 1
      BY <2>2, <2>5, <2>8, Lengths
    <3>2. part \in IORec
      BY <1>1, <2>5, <3>1 DEF IORec, IOStates
    <3>3. /\ part.pstate = "Notifing" /\ part.rpos = io.rpos /\ part.spos = io.spos
          /\ part.npos = p /\ part.notimsgs = io.notimsgs /\ part.out = w
          /\ part.served = io.served /\ part.inbox = io.inbox
      BY <1>1 DEF IORec
    <3> HIDE DEF part
    <3>4. NotesDue(part, ord)
      BY <2>7, <3>3 DEF NotesDue, Unsent
    <3>5. Orderly(part, ord)
      BY <1>1, <1>4, <2>5, <2>6, <3>2, <3>3, <3>4, Lengths DEF Orderly, Answered
    <3>6. Ready(part)
      BY <1>4, <2>5, <2>6, <3>3 DEF Ready, ToNotify, Answered
    <3>7. QED
      BY <2>1, <2>8, <3>5, <3>6
  <2>9. CASE ~(p < NoteLen)
    <3>1. p = NoteLen /\ p > 0
      BY <2>2, <2>5, <2>9, Lengths
    <3>2. all \in IORec
      <4>1. (IF Tail(io.notimsgs) = <<>> THEN "Idle" ELSE "Notifing") \in IOStates
        BY DEF IOStates
      <4>2. 0 \in 0..NoteLen - 1
        BY Lengths
      <4>3. QED
        BY <1>1, <2>2, <2>5, <4>1, <4>2 DEF IORec
    <3>3. /\ all.pstate = IF Tail(io.notimsgs) = <<>> THEN "Idle" ELSE "Notifing"
          /\ all.rpos = io.rpos /\ all.spos = io.spos
          /\ all.npos = 0 /\ all.notimsgs = Tail(io.notimsgs) /\ all.out = w
          /\ all.served = io.served /\ all.inbox = io.inbox
      BY <1>1 DEF IORec
    <3> HIDE DEF all
    <3>4. NotesDue(all, ord)
      <4>1. Unsent(all.notimsgs, all.npos) = Tail(io.notimsgs)
        BY <3>3 DEF Unsent
      <4>2. QED
        BY <2>7, <3>1, <3>3, <4>1 DEF NotesDue
    <3>5. Orderly(all, ord)
      BY <1>1, <2>5, <2>6, <3>2, <3>3, <3>4, Lengths DEF Orderly, Answered
    <3>6. Ready(all)
      BY <1>4, <2>5, <2>6, <3>1, <3>3 DEF Ready, ToNotify, ToRead, Answered, Inside
    <3>7. QED
      BY <2>1, <2>9, <3>5, <3>6
  <2>10. QED
    BY <2>8, <2>9
<1>5. QED
  BY <1>2, <1>3, <1>4

-----------------------------------------------------------------------------
(* A response goes on, and counts as sent when its first unit is taken.    *)
LEMMA AnswerGoesOn ==
    ASSUME NEW io \in IORec, NEW w, io.served > 0,
           Answered(io, IF io.spos > 0 THEN io.served ELSE io.served - 1),
           Continues(io.out, w, io.served, io.spos, AnswerLen)
    PROVE  Begun(w, 1..Requests, Numbers,
                 IF io.spos + Len(w) - Len(io.out) > 0 THEN io.served ELSE io.served - 1)
<1> DEFINE o == io.out
           s == io.served
<1>1. /\ o \in Seq(UnitRec) /\ Len(o) \in Nat /\ w \in Seq(UnitRec) /\ Len(w) \in Nat
      /\ Len(w) >= Len(o) /\ io.spos \in Nat /\ s \in 1..Requests
  BY Records, Lengths DEF Stream, Continues
<1>2. \A i \in 1..Len(o) : w[i] = o[i]
  BY DEF Continues
<1>3. \A i \in Len(o) + 1..Len(w) : w[i].msg = s /\ w[i].at = io.spos + i - Len(o)
  <2> TAKE i \in Len(o) + 1..Len(w)
  <2>1. w[i] = [msg |-> s, at |-> io.spos + i - Len(o), len |-> AnswerLen]
    BY DEF Continues
  <2>2. QED
    BY <2>1
<1>4. Begun(o, 1..Requests, Numbers, IF io.spos > 0 THEN s ELSE s - 1)
  BY DEF Answered
<1> HIDE DEF o, s
<1>5. CASE io.spos > 0 \/ Len(w) = Len(o)
  <2>1. \A i \in Len(o) + 1..Len(w) : w[i].at # 1
    BY <1>1, <1>3, <1>5
  <2>2. io.spos + Len(w) - Len(o) > 0 <=> io.spos > 0
    BY <1>1, <1>5
  <2>3. QED
    BY <1>1, <1>2, <1>4, <2>1, <2>2, BegunNothing DEF o, s
<1>6. CASE io.spos = 0 /\ Len(w) > Len(o)
  <2>1. PICK k \in Nat : k = s - 1 /\ k + 1 = s
    BY <1>1
  <2>2. Begun(o, 1..Requests, Numbers, k)
    BY <1>4, <1>6, <2>1
  <2>3. Numbers[k + 1] = k + 1 /\ \A a \in 1..k : Numbers[a] # Numbers[k + 1]
    BY <1>1, <2>1, Lengths DEF Numbers
  <2>4. w[Len(o) + 1].at = 1 /\ w[Len(o) + 1].msg = s
    BY <1>1, <1>3, <1>6
  <2>5. \A i \in Len(o) + 2..Len(w) : w[i].at # 1
    BY <1>1, <1>3, <1>6
  <2>6. Begun(w, 1..Requests, Numbers, k + 1)
    <3>1. Len(w) > Len(o) /\ Numbers[k + 1] = s /\ Numbers[k + 1] \in 1..Requests
      BY <1>1, <1>6, <2>1, <2>3
    <3>2. w[Len(o) + 1].msg = Numbers[k + 1]
      BY <2>4, <3>1
    <3>3. \A a \in 1..k : Numbers[a] # Numbers[k + 1]
      BY <2>3
    <3>4. o \in Seq(UnitRec) /\ w \in Seq(UnitRec) /\ Len(w) >= Len(o)
      BY <1>1
    <3>5. QED
      BY <1>2, <2>2, <2>4, <2>5, <3>1, <3>2, <3>3, <3>4, BegunNext
  <2>7. io.spos + Len(w) - Len(o) > 0
    BY <1>1, <1>6
  <2>8. QED
    BY <2>1, <2>6, <2>7 DEF o, s
<1>7. io.spos > 0 \/ Len(w) = Len(o) \/ (io.spos = 0 /\ Len(w) > Len(o))
  BY <1>1
<1>8. QED
  BY <1>5, <1>6, <1>7

LEMMA dosendGood ==
    ASSUME NEW ord, Distinct(ord), drained \in Nat,
           NEW io, Orderly(io, ord), ToSend(io)
    PROVE  Result(dosend(io), ord)
<1>1. io \in IORec /\ Unmixed(io.out) /\ io.served \in 1..Requests
  BY Records, Lengths DEF Orderly, ToSend
<1>2. CASE broken
  <2> DEFINE r == [io EXCEPT !.pstate = "Sending", !.ok = FALSE]
  <2>1. dosend(io) = r
    BY <1>2 DEF dosend
  <2>2. r \in IORec
    BY <1>1 DEF IORec, IOStates
  <2>3. /\ r.out = io.out /\ r.served = io.served /\ r.ok = FALSE
        /\ r.npos = io.npos /\ r.notimsgs = io.notimsgs
    BY <1>1 DEF IORec
  <2> HIDE DEF r
  <2>4. Orderly(r, ord)
    BY <1>2, <2>2, <2>3 DEF Orderly, Answered
  <2>5. QED
    BY <2>1, <2>3, <2>4 DEF Result
<1>3. CASE ~broken
  <2> DEFINE w == Written(io, io.served, io.spos, AnswerLen)
             p == io.spos + Len(w) - Len(io.out)
             part == [io EXCEPT !.pstate = "Sending", !.out = w, !.spos = p, !.ok = TRUE]
             all == [io EXCEPT !.pstate = "Sending", !.out = w, !.spos = 0, !.rpos = 0]
  <2>1. dosend(io) = IF p < AnswerLen THEN part ELSE donotify(all)
    BY <1>3 DEF dosend
  <2>2. io.spos \in 0..AnswerLen - 1 /\ io.out \in Stream
    BY <1>1, Records
  <2>3. Continues(io.out, w, io.served, io.spos, AnswerLen)
    BY <1>1, <2>2, WrittenContinues, Lengths
  <2>4. Inside(io.out, io.served, io.spos, AnswerLen)
    BY <1>3 DEF ToSend
  <2> HIDE DEF w
  <2>5. /\ w \in Stream /\ Unmixed(w) /\ p \in io.spos..AnswerLen
        /\ Inside(w, io.served, p, AnswerLen) /\ (p = AnswerLen => Complete(w))
    BY <1>1, <2>2, <2>3, <2>4, ContinuedWell, Lengths
  <2>6. Begun(w, 1..Requests, Numbers, IF p > 0 THEN io.served ELSE io.served - 1)
    BY <1>1, <2>3, AnswerGoesOn DEF ToSend
  <2>7. PICK k \in 0..Len(ord) :
            /\ Begun(io.out, Notes, ord, k)
            /\ Unsent(io.notimsgs, io.npos) = SubSeq(ord, k + 1, Len(ord))
    BY <1>3 DEF Orderly, NotesDue
  <2>8. Begun(w, Notes, ord, k)
    BY <1>1, <2>2, <2>3, <2>7, Apart, OtherKind DEF Stream
  <2> HIDE DEF p
  <2>9. CASE p < AnswerLen
    <3>1. p \in 0..AnswerLen - 1
      BY <2>2, <2>5, <2>9, Lengths
    <3>2. part \in IORec
      BY <1>1, <2>5, <3>1 DEF IORec, IOStates
    <3>3. /\ part.pstate = "Sending" /\ part.rpos = io.rpos /\ part.spos = p
          /\ part.npos = io.npos /\ part.notimsgs = io.notimsgs /\ part.out = w
          /\ part.served = io.served /\ part.inbox = io.inbox
      BY <1>1 DEF IORec
    <3> HIDE DEF part
    <3>4. NotesDue(part, ord)
      BY <2>7, <2>8, <3>3 DEF NotesDue
    <3>5. \E j \in 0..Requests : j <= part.served /\ part.served <= j + 1 /\ Answered(part, j)
      <4>1. PICK j : j = IF p > 0 THEN io.served ELSE io.served - 1
        OBVIOUS
      <4>2. j \in 0..Requests /\ j <= part.served /\ part.served <= j + 1
        BY <1>1, <3>1, <3>3, <4>1, Lengths
      <4>3. QED
        BY <2>6, <3>3, <4>1, <4>2 DEF Answered
    <3>6. Orderly(part, ord)
      BY <2>5, <3>2, <3>3, <3>4, <3>5 DEF Orderly, ToSend
    <3>7. Ready(part)
      BY <1>1, <2>5, <2>6, <3>3 DEF Ready, ToSend, Answered
    <3>8. QED
      BY <2>1, <2>9, <3>6, <3>7 DEF Result
  <2>10. CASE ~(p < AnswerLen)
    <3>1. p = AnswerLen /\ p > 0
      BY <2>2, <2>5, <2>10, Lengths
    <3>2. all \in IORec
      <4>1. 0 \in 0..AnswerLen - 1 /\ 0 \in 0..Message
        BY Lengths
      <4>2. QED
        BY <1>1, <2>5, <4>1 DEF IORec, IOStates
    <3>3. /\ all.rpos = 0 /\ all.spos = 0 /\ all.npos = io.npos
          /\ all.notimsgs = io.notimsgs /\ all.out = w
          /\ all.served = io.served /\ all.inbox = io.inbox
      BY <1>1 DEF IORec
    <3> HIDE DEF all
    <3>4. NotesDue(all, ord)
      BY <2>7, <2>8, <3>3 DEF NotesDue
    <3>5. Answered(all, all.served)
      BY <2>6, <3>1, <3>3 DEF Answered
    <3>6. Orderly(all, ord)
      BY <1>1, <2>5, <3>2, <3>3, <3>4, <3>5, Lengths DEF Orderly, ToSend
    <3>7. ToNotify(all)
      <4>1. all.npos = 0 /\ io.served * Message + io.inbox = sent
        BY <3>3 DEF ToSend
      <4>2. io.served * Message \in Nat /\ io.inbox \in Nat
        BY <1>1, Records, Lengths
      <4>3. all.served * Message + all.rpos + all.inbox = sent
        BY <3>3, <4>1, <4>2
      <4>4. Complete(all.out)
        BY <2>5, <3>1, <3>3
      <4>5. QED
        BY <3>3, <3>5, <4>1, <4>3, <4>4, Lengths DEF ToNotify, Inside
    <3>8. QED
      BY <2>1, <2>10, <3>6, <3>7, donotifyGood DEF Result
  <2>11. QED
    BY <2>9, <2>10
<1>4. QED
  BY <1>2, <1>3

(* More than the peer has sent cannot be read.                             *)
LEMMA InTime ==
    ASSUME NEW a \in Nat, NEW r \in Nat, NEW m \in Nat \ {0}, NEW x \in Nat,
           a * m + x <= r * m, x >= m
    PROVE  a + 1 <= r
<1>1. SUFFICES ASSUME a >= r PROVE FALSE
  OBVIOUS
<1>2. PICK d \in Nat : a = r + d
  BY <1>1
<1>3. a * m = r * m + d * m /\ d * m \in Nat /\ r * m \in Nat
  BY <1>2
<1>4. QED
  BY <1>3

LEMMA doreadGood ==
    ASSUME NEW ord, Distinct(ord), drained \in Nat, sent \in Nat, sent <= Requests * Message,
           NEW io, Orderly(io, ord), ToRead(io)
    PROVE  Result(doread(io), ord)
<1> DEFINE n == Least(io.inbox, Message - io.rpos)
           rd == [io EXCEPT !.pstate = "Reading", !.rpos = @ + n, !.inbox = @ - n]
           next == [rd EXCEPT !.served = @ + 1]
<1>1. /\ io \in IORec /\ Unmixed(io.out) /\ io.served \in 0..Requests
      /\ io.rpos \in 0..Message /\ io.rpos < Message /\ io.inbox \in Nat
      /\ Answered(io, io.served)
  BY Records DEF Orderly, ToRead
<1>2. n \in 0..io.inbox /\ io.rpos + n \in 0..Message /\ (io.rpos + io.inbox >= Message => io.rpos + n = Message)
      /\ (io.rpos + io.inbox < Message => io.rpos + n < Message)
  BY <1>1, Lengths DEF Least
<1> HIDE DEF n
<1>3. io.inbox - n \in Nat
  BY <1>1, <1>2
<1>4. rd \in IORec
  BY <1>1, <1>2, <1>3 DEF IORec, IOStates
<1>5. /\ rd.pstate = "Reading" /\ rd.rpos = io.rpos + n /\ rd.spos = io.spos /\ rd.npos = io.npos
      /\ rd.notimsgs = io.notimsgs /\ rd.out = io.out
      /\ rd.served = io.served /\ rd.inbox = io.inbox - n
  BY <1>1 DEF IORec
<1> HIDE DEF rd
<1>6. Orderly(rd, ord)
  BY <1>4, <1>5 DEF Orderly, Answered, NotesDue
<1>7. io.served * Message \in Nat /\ io.served * Message + io.rpos + io.inbox = sent
  BY <1>1, Lengths DEF ToRead
<1>8. CASE ReadState(io) = "rdok"
  <2>1. doread(io) = dosend(next)
    BY <1>8 DEF doread, n, rd
  <2>2. io.rpos + io.inbox >= Message
    BY <1>1, <1>8, Lengths DEF ReadState
  <2>3. io.served + 1 \in 1..Requests
    <3>1. io.served + 1 <= Requests
      BY <1>1, <1>7, <2>2, InTime, Lengths
    <3>2. QED
      BY <1>1, <3>1, Lengths
  <2>4. next \in IORec
    BY <1>4, <1>5, <2>3 DEF IORec
  <2>5. /\ next.rpos = Message /\ next.spos = io.spos /\ next.npos = io.npos
        /\ next.notimsgs = io.notimsgs /\ next.out = io.out
        /\ next.served = io.served + 1 /\ next.inbox = io.inbox - n
    BY <1>2, <1>4, <1>5, <2>2 DEF IORec
  <2> HIDE DEF next
  <2>6. Answered(next, next.served - 1) /\ io.served = next.served - 1
    BY <1>1, <2>5 DEF Answered
  <2>7. \E k \in 0..Requests : k <= next.served /\ next.served <= k + 1 /\ Answered(next, k)
    BY <1>1, <2>5, <2>6
  <2>8. Orderly(next, ord)
    BY <1>1, <2>4, <2>5, <2>7 DEF Orderly, NotesDue
  <2>9. ToSend(next)
    <3>1. io.spos = 0 /\ io.npos = 0 /\ (~broken => Complete(io.out))
      BY DEF ToRead
    <3>2. (io.served + 1) * Message = io.served * Message + Message
      BY <1>1, Lengths
    <3>3. next.served * Message + next.inbox = sent
      BY <1>1, <1>2, <1>7, <2>2, <2>5, <3>2, Lengths
    <3>4. next.served > 0
      BY <1>1, <2>5
    <3>5. QED
      BY <2>5, <2>6, <3>1, <3>3, <3>4 DEF ToSend, Inside
  <2>10. QED
    BY <2>1, <2>8, <2>9, dosendGood
<1>9. CASE ReadState(io) = "rdbd"
  <2>1. doread(io) = rd
    BY <1>9 DEF doread, n, rd
  <2>2. io.rpos + io.inbox < Message
    BY <1>1, <1>9, Lengths DEF ReadState
  <2>3. rd.served * Message + rd.rpos + rd.inbox = sent
    BY <1>1, <1>2, <1>5, <1>7
  <2>4. Ready(rd)
    BY <1>2, <1>5, <2>2, <2>3 DEF Ready, ToRead, Answered
  <2>5. QED
    BY <1>6, <2>1, <2>4 DEF Result
<1>10. CASE ReadState(io) \notin {"rdok", "rdbd"}
  <2> DEFINE r == [rd EXCEPT !.ok = FALSE]
  <2>1. doread(io) = r
    BY <1>10 DEF doread, n, rd
  <2>2. r \in IORec /\ r.ok = FALSE
    BY <1>4 DEF IORec
  <2>3. r.out = rd.out /\ r.served = rd.served /\ r.notimsgs = rd.notimsgs /\ r.npos = rd.npos
    BY <1>4 DEF IORec
  <2> HIDE DEF r
  <2>4. Orderly(r, ord)
    BY <1>6, <2>2, <2>3 DEF Orderly, Answered, NotesDue
  <2>5. QED
    BY <2>1, <2>2, <2>4 DEF Result
<1>11. QED
  BY <1>8, <1>9, <1>10

-----------------------------------------------------------------------------
(* The order of what is written, and what a live client goes on with.      *)
OInv ==
    /\ Orderly(IO, order) /\ Distinct(order)
    /\ task = "live" => Ready(IO)
    /\ task \in {"live", "deleted"}
    /\ drained \in Nat /\ sent \in Nat /\ sent <= Requests * Message

LEMMA FieldsOfIO ==
    /\ IO.pstate = pstate /\ IO.rpos = rpos /\ IO.spos = spos /\ IO.notimsgs = notimsgs
    /\ IO.npos = npos /\ IO.out = out /\ IO.served = served /\ IO.inbox = inbox /\ IO.ok = TRUE
BY DEF IO

LEMMA InitOInv == Init => OInv
<1> SUFFICES ASSUME Init PROVE OInv
  OBVIOUS
<1>1. /\ pstate = "Idle" /\ rpos = 0 /\ spos = 0 /\ notimsgs = <<>> /\ npos = 0
      /\ out = <<>> /\ served = 0 /\ inbox = 0 /\ order = <<>> /\ sent = 0 /\ drained = 0
      /\ task = "live"
  BY DEF Init
<1>2. IO \in IORec
  <2>1. <<>> \in Stream /\ <<>> \in Seq(Notes)
    BY DEF Stream
  <2>2. QED
    BY <1>1, <2>1, Lengths DEF IO, IORec, IOStates
<1>3. \A kind, names : Begun(<<>>, kind, names, 0)
  BY DEF Begun
<1>4. Unmixed(IO.out) /\ Answered(IO, 0)
  BY <1>1, <1>3, FieldsOfIO DEF Unmixed, Answered
<1>5. Distinct(order) /\ Len(order) = 0
  BY <1>1 DEF Distinct
<1>6. NotesDue(IO, order)
  <2>1. SubSeq(<<>>, 1, 0) = <<>>
    BY SubSeqEmpty
  <2>2. QED
    BY <1>1, <1>3, <1>5, <2>1, FieldsOfIO DEF NotesDue, Unsent
<1>7. Orderly(IO, order)
  BY <1>1, <1>2, <1>4, <1>6, FieldsOfIO, Lengths DEF Orderly
<1>8. Ready(IO)
  BY <1>1, <1>4, FieldsOfIO, Lengths DEF Ready, ToRead, Complete, Answered
<1>9. QED
  BY <1>1, <1>5, <1>7, <1>8, Lengths DEF OInv

(* The predicates look at the line and at what was sent, beside the record.*)
LEMMA OrderlyNext ==
    ASSUME NEW x, NEW y, IO' = x, order' = y, broken' = broken, Orderly(x, y)
    PROVE  Orderly(IO, order)'
<1>1. Orderly(IO, order)' = (/\ IO' \in IORec /\ Unmixed(IO'.out) /\ (IO'.npos > 0 => IO'.notimsgs # <<>>)
                             /\ \E k \in 0..Requests : k <= IO'.served /\ IO'.served <= k + 1 /\ Answered(IO', k)
                             /\ ~broken' => NotesDue(IO', order'))
  BY DEF Orderly, Answered, NotesDue
<1>2. QED
  BY <1>1 DEF Orderly

LEMMA ReadyNext ==
    ASSUME NEW x, IO' = x, UNCHANGED <<broken, sent>>, Ready(x)
    PROVE  Ready(IO)'
<1>1. broken' = broken /\ sent' = sent
  OBVIOUS
<1>2. Ready(IO') => Ready(IO)'
  BY <1>1 DEF Ready, ToSend, ToNotify, ToRead, Answered
<1>3. QED
  BY <1>2

(* The steps that leave the client's IO and its line alone.                *)
LEMMA OStutter ==
    ASSUME OInv, UNCHANGED <<clientVars, broken, sent, order, task>>, drained' \in Nat
    PROVE  OInv'
<1>1. IO' = IO
  BY DEF IO, clientVars
<1>2. order' = order /\ broken' = broken /\ sent' = sent /\ task' = task
  OBVIOUS
<1>3. Orderly(IO, order)'
  BY <1>1, <1>2, OrderlyNext DEF OInv
<1>4. task = "live" => Ready(IO)'
  BY <1>1, <1>2, ReadyNext DEF OInv
<1>5. Distinct(order)'
  BY <1>2 DEF OInv, Distinct
<1>6. QED
  BY <1>2, <1>3, <1>4, <1>5 DEF OInv

-----------------------------------------------------------------------------
LEMMA PeerOInv ==
    ASSUME OInv, Peer
    PROVE  OInv'
<1>1. CASE Receive
  <2>1. drained' \in Nat
    BY <1>1, Records, FieldsOfIO DEF Receive, OInv, Orderly, Stream
  <2>2. UNCHANGED <<clientVars, broken, sent, order, task>>
    BY <1>1 DEF Receive
  <2>3. QED
    BY <2>1, <2>2, OStutter
<1>2. CASE Break
  <2>1. /\ UNCHANGED <<order, task, sent, drained>> /\ IO' = IO /\ broken' = TRUE
    BY <1>2 DEF Break, IO, clientVars
  <2>2. Orderly(IO, order)'
    BY <2>1 DEF OInv, Orderly, Answered
  <2>3. task = "live" => Ready(IO)'
    BY <2>1 DEF OInv, Ready, ToSend, ToNotify, ToRead, Answered
  <2>4. QED
    BY <2>1, <2>2, <2>3 DEF OInv, Distinct
<1>3. ASSUME NEW n \in Segments, Send(n) PROVE OInv'
  <2>1. n \in Nat /\ sent \in Nat
    BY ClientIOAssumption DEF OInv
  <2>2. /\ sent' = sent + n /\ sent' <= Requests * Message
        /\ UNCHANGED <<order, task, broken, drained>>
        /\ inbox' = inbox + n
        /\ UNCHANGED <<pstate, rpos, spos, notimsgs, npos, out, served>>
    BY <1>3 DEF Send
  <2>3. IO \in IORec
    BY DEF OInv, Orderly
  <2>4. /\ IO'.pstate = IO.pstate /\ IO'.rpos = IO.rpos /\ IO'.spos = IO.spos
        /\ IO'.notimsgs = IO.notimsgs /\ IO'.npos = IO.npos /\ IO'.out = IO.out
        /\ IO'.served = IO.served /\ IO'.inbox = IO.inbox + n
    BY <2>2 DEF IO
  <2>5. IO.inbox + n \in Nat
    BY <2>1, <2>3, Records
  <2>6. IO' \in IORec
    <3>1. IO' = [pstate |-> pstate, rpos |-> rpos, spos |-> spos, notimsgs |-> notimsgs,
                 npos |-> npos, out |-> out, served |-> served, inbox |-> inbox + n, ok |-> TRUE]
      BY <2>2 DEF IO
    <3>2. QED
      BY <2>3, <2>5, <3>1, Records, FieldsOfIO DEF IORec
  <2>8. Orderly(IO, order)'
    BY <2>2, <2>4, <2>6 DEF OInv, Orderly, Answered, NotesDue
  <2>9. task = "live" => Ready(IO)'
    <3> SUFFICES ASSUME task = "live" PROVE Ready(IO)'
      OBVIOUS
    <3>1. Ready(IO)
      BY DEF OInv
    <3>2. IO.served * Message \in Nat /\ IO.inbox \in Nat /\ IO.rpos \in Nat
      BY <2>3, Records, Lengths
    <3>3. /\ IO'.served * Message + IO'.inbox = sent' <=> IO.served * Message + IO.inbox = sent
          /\ IO'.served * Message + IO'.rpos + IO'.inbox = sent'
               <=> IO.served * Message + IO.rpos + IO.inbox = sent
      <4>1. IO'.served * Message = IO.served * Message
        BY <2>4
      <4>2. PICK sm \in Nat : sm = IO.served * Message
        BY <3>2
      <4>3. QED
        BY <2>1, <2>2, <2>4, <3>2, <4>1, <4>2
    <3>4. ToSend(IO) => ToSend(IO)'
      BY <2>2, <2>4, <3>3 DEF ToSend, Answered
    <3>5. ToNotify(IO) => ToNotify(IO)'
      BY <2>2, <2>4, <3>3 DEF ToNotify, Answered
    <3>6. ToRead(IO) => ToRead(IO)'
      BY <2>2, <2>4, <3>3 DEF ToRead, Answered
    <3>7. QED
      BY <2>2, <2>4, <3>1, <3>4, <3>5, <3>6 DEF Ready
  <2>10. QED
    BY <2>1, <2>2, <2>8, <2>9 DEF OInv, Distinct
<1>4. QED
  BY <1>1, <1>2, <1>3 DEF Peer

(* A record that does not differ but in what its function returned.        *)
LEMMA ResultBecomes ==
    ASSUME OInv, NEW x, NEW y, Orderly(x, y), Distinct(y), Becomes(x), order' = y,
           UNCHANGED <<broken, sent, drained>>, task' \in {"live", "deleted"},
           task' = "live" => Ready(x)
    PROVE  OInv'
<1>1. x \in IORec
  BY DEF Orderly
<1>2. /\ IO'.pstate = x.pstate /\ IO'.rpos = x.rpos /\ IO'.spos = x.spos
      /\ IO'.notimsgs = x.notimsgs /\ IO'.npos = x.npos /\ IO'.out = x.out
      /\ IO'.served = x.served /\ IO'.inbox = x.inbox
  BY DEF IO, Becomes
<1>3. IO' \in IORec
  <2>1. IO' = [pstate |-> x.pstate, rpos |-> x.rpos, spos |-> x.spos, notimsgs |-> x.notimsgs,
               npos |-> x.npos, out |-> x.out, served |-> x.served, inbox |-> x.inbox, ok |-> TRUE]
    BY DEF IO, Becomes
  <2>2. QED
    BY <1>1, <2>1, Records DEF IORec
<1>4. Orderly(IO', y)
  BY <1>2, <1>3 DEF Orderly, Answered, NotesDue
<1>5. Ready(x) => Ready(IO)'
  <2>1. broken' = broken /\ sent' = sent
    OBVIOUS
  <2>2. QED
    BY <1>2, <2>1 DEF Ready, ToSend, ToNotify, ToRead, Answered
<1>6. Orderly(IO, order)'
  BY <1>4, OrderlyNext
<1>7. task' = "live" => Ready(IO)'
  BY <1>5
<1>8. Distinct(order)'
  BY DEF Distinct
<1>9. QED
  BY <1>6, <1>7, <1>8 DEF OInv

LEMMA doWorkOInv ==
    ASSUME OInv, doWork
    PROVE  OInv'
<1>1. CASE task = "deleted"
  <2>1. UNCHANGED <<clientVars, broken, sent, order, task, drained>>
    BY <1>1 DEF doWork, UseDeleted, peerVars
  <2>2. QED
    BY <2>1, OStutter DEF OInv
<1>2. CASE task # "deleted"
  <2> DEFINE io == Effect(IO)
  <2>1. task = "live" /\ Ready(IO) /\ Orderly(IO, order) /\ Distinct(order)
    BY <1>2 DEF OInv
  <2>2. IO.pstate \in IOStates
    BY <2>1, Records DEF Orderly
  <2>3. Result(io, order)
    <3>1. CASE IO.pstate \in {"Idle", "Reading"}
      BY <2>1, <3>1, doreadGood DEF Effect, Ready, OInv
    <3>2. CASE IO.pstate = "Sending"
      BY <2>1, <3>2, dosendGood DEF Effect, Ready, OInv
    <3>3. CASE IO.pstate = "Notifing"
      BY <2>1, <3>3, donotifyGood DEF Effect, Ready, OInv, Result
    <3>4. QED
      BY <2>2, <3>1, <3>2, <3>3 DEF IOStates
  <2>4. /\ Becomes(io) /\ order' = order /\ UNCHANGED <<broken, sent, drained>>
        /\ task' = IF io.ok THEN "live" ELSE "deleted"
    BY <1>2, <2>1 DEF doWork, peerVars
  <2> HIDE DEF io
  <2>5. Orderly(io, order) /\ (io.ok => Ready(io))
    BY <2>3 DEF Result
  <2>6. QED
    BY <2>1, <2>4, <2>5, ResultBecomes
<1>3. QED
  BY <1>1, <1>2

(* A notification that is new takes the last place of those that wait.     *)
LEMMA QueuedGood ==
    ASSUME OInv, NEW n \in Notes, n \notin {order[i] : i \in DOMAIN order}
    PROVE  /\ Distinct(Append(order, n)) /\ Orderly(Queued(n), Append(order, n))
           /\ task = "live" /\ pstate # "Idle" => Ready(Queued(n))
           /\ task = "live" /\ pstate = "Idle" => ToNotify(Queued(n))
<1> DEFINE r == Queued(n)
           y == Append(order, n)
<1>1. /\ IO \in IORec /\ notimsgs \in Seq(Notes) /\ order \in Seq(Notes)
      /\ npos \in Nat
  BY Records, FieldsOfIO, Lengths DEF OInv, Orderly, Distinct
<1>2. /\ r \in IORec /\ r.pstate = pstate /\ r.rpos = rpos /\ r.spos = spos /\ r.npos = npos
      /\ r.notimsgs = Append(notimsgs, n) /\ r.out = out /\ r.served = served /\ r.inbox = inbox
  <2>1. Append(notimsgs, n) \in Seq(Notes)
    BY <1>1
  <2>2. r = [IO EXCEPT !.notimsgs = Append(notimsgs, n)]
    BY FieldsOfIO DEF Queued, IO
  <2>3. QED
    BY <1>1, <2>1, <2>2, FieldsOfIO DEF IORec
<1>3. /\ y \in Seq(Notes) /\ Len(y) = Len(order) + 1 /\ Len(order) \in Nat
      /\ y[Len(y)] = n /\ \A i \in 1..Len(order) : y[i] = order[i]
  BY <1>1
<1> HIDE DEF r, y
<1>4. Distinct(y)
  <2>1. \A a \in 1..Len(y) : a \in 1..Len(order) \/ a = Len(y)
    BY <1>3
  <2>2. \A a \in 1..Len(order) : order[a] # n
    BY <1>1
  <2>3. \A a, b \in 1..Len(order) : order[a] = order[b] => a = b
    BY DEF OInv, Distinct
  <2>4. QED
    BY <1>3, <2>1, <2>2, <2>3 DEF Distinct
<1>5. ~broken => NotesDue(r, y)
  <2> SUFFICES ASSUME ~broken PROVE NotesDue(r, y)
    OBVIOUS
  <2>1. PICK k \in 0..Len(order) :
            /\ Begun(out, Notes, order, k)
            /\ Unsent(notimsgs, npos) = SubSeq(order, k + 1, Len(order))
    BY FieldsOfIO DEF OInv, Orderly, NotesDue
  <2>2. \A a \in 1..k : y[a] = order[a]
    BY <1>3
  <2>3. Begun(out, Notes, y, k)
    BY <2>1, <2>2 DEF Begun
  <2>4. SubSeq(y, k + 1, Len(y)) = Append(SubSeq(order, k + 1, Len(order)), n)
    <3> DEFINE s == SubSeq(y, k + 1, Len(y))
               t == SubSeq(order, k + 1, Len(order))
    <3>1. /\ s \in Seq(Notes) /\ Len(s) = Len(order) + 1 - k
          /\ \A i \in 1..Len(order) + 1 - k : s[i] = y[k + i]
      <4>1. k \in 0..Len(y)
        BY <1>3
      <4>2. QED
        BY <1>3, <4>1, Rest
    <3>2. /\ t \in Seq(Notes) /\ Len(t) = Len(order) - k
          /\ \A i \in 1..Len(order) - k : t[i] = order[k + i]
      BY <1>1, Rest
    <3> HIDE DEF s, t
    <3>3. /\ Append(t, n) \in Seq(Notes) /\ Len(Append(t, n)) = Len(s)
          /\ \A i \in 1..Len(order) - k : Append(t, n)[i] = t[i]
          /\ Append(t, n)[Len(order) - k + 1] = n
      BY <1>3, <3>1, <3>2
    <3>4. ASSUME NEW i \in 1..Len(s) PROVE s[i] = Append(t, n)[i]
      <4>1. CASE i \in 1..Len(order) - k
        <5>1. k + i \in 1..Len(order)
          BY <1>3, <4>1
        <5>2. QED
          BY <1>3, <3>1, <3>2, <3>3, <4>1, <5>1
      <4>2. CASE i = Len(order) - k + 1
        <5>1. k + i = Len(y)
          BY <1>3, <4>2
        <5>2. s[i] = y[k + i]
          BY <3>1
        <5>3. QED
          BY <1>3, <3>3, <4>2, <5>1, <5>2
      <4>3. i \in 1..Len(order) - k \/ i = Len(order) - k + 1
        BY <1>3, <3>1
      <4>4. QED
        BY <4>1, <4>2, <4>3
    <3>5. s = Append(t, n)
      BY <3>1, <3>3, <3>4, SeqEqual
    <3>6. QED
      BY <3>5 DEF s, t
  <2>5. Unsent(r.notimsgs, r.npos) = Append(Unsent(notimsgs, npos), n)
    <3>1. CASE npos > 0
      <4>1. notimsgs # <<>>
        BY <3>1, FieldsOfIO DEF OInv, Orderly
      <4>2. Tail(Append(notimsgs, n)) = Append(Tail(notimsgs), n)
        BY <1>1, <4>1, HeadTailAppend
      <4>3. QED
        BY <1>2, <3>1, <4>2 DEF Unsent
    <3>2. CASE ~(npos > 0)
      BY <1>2, <3>2 DEF Unsent
    <3>3. QED
      BY <3>1, <3>2
  <2>6. k \in 0..Len(y)
    BY <1>3
  <2>7. QED
    BY <1>2, <2>1, <2>3, <2>4, <2>5, <2>6 DEF NotesDue
<1>6. Orderly(r, y)
  BY <1>2, <1>5, FieldsOfIO DEF OInv, Orderly, Answered
<1>7. ASSUME task = "live", pstate # "Idle" PROVE Ready(r)
  <2>1. Ready(IO)
    BY <1>7 DEF OInv
  <2>2. notimsgs # <<>> => Head(r.notimsgs) = Head(notimsgs)
    BY <1>1, <1>2
  <2>3. IO.pstate = "Notifing" => ToNotify(IO)
    BY <2>1 DEF Ready
  <2>4. IO.pstate = "Notifing" => ToNotify(r)
    <3> SUFFICES ASSUME ToNotify(IO) PROVE ToNotify(r)
      BY <2>3
    <3>1. r.notimsgs # <<>> /\ Head(r.notimsgs) = IF notimsgs = <<>> THEN n ELSE Head(notimsgs)
      BY <1>1, <1>2, HeadTailAppend, AppendProperties
    <3>2. ~broken => Inside(out, Head(r.notimsgs), npos, NoteLen)
      BY <3>1, FieldsOfIO DEF ToNotify, Inside
    <3>3. QED
      BY <1>2, <3>1, <3>2, FieldsOfIO DEF ToNotify, Answered
  <2>5. (IO.pstate = "Sending" => ToSend(r)) /\ (IO.pstate = "Reading" => ToRead(r))
    BY <1>2, <2>1, FieldsOfIO DEF Ready, ToSend, ToRead, Answered
  <2>6. QED
    BY <1>2, <1>7, <2>4, <2>5, FieldsOfIO DEF Ready
<1>8. ASSUME task = "live", pstate = "Idle" PROVE ToNotify(r)
  <2>1. Ready(IO)
    BY <1>8 DEF OInv
  <2>2. ToRead(IO)
    BY <1>8, <2>1, FieldsOfIO DEF Ready
  <2>3. r.notimsgs # <<>>
    <3>1. Append(notimsgs, n) # <<>>
      BY <1>1, AppendProperties
    <3>2. QED
      BY <1>2, <3>1
  <2>4. QED
    BY <1>2, <2>2, <2>3, FieldsOfIO DEF ToRead, ToNotify, Answered, Inside
<1>9. QED
  BY <1>4, <1>6, <1>7, <1>8 DEF r, y

LEMMA queueNotificationOInv ==
    ASSUME IInv, OInv, NEW n \in Notes, queueNotification(n)
    PROVE  OInv'
<1> DEFINE y == Append(order, n)
<1>1. /\ order' = y /\ n \notin {order[i] : i \in DOMAIN order}
      /\ UNCHANGED <<task, sent, drained, broken>>
  BY DEF queueNotification, peerVars
<1>2. /\ Distinct(y) /\ Orderly(Queued(n), y)
      /\ task = "live" /\ pstate # "Idle" => Ready(Queued(n))
      /\ task = "live" /\ pstate = "Idle" => ToNotify(Queued(n))
  BY <1>1, QueuedGood
<1> HIDE DEF y
<1>3. task' \in {"live", "deleted"} /\ task' = task
  BY <1>1 DEF OInv
<1>4. CASE pstate # "Idle"
  <2>1. Becomes(Queued(n))
    BY <1>4 DEF queueNotification, Waiting
  <2>2. QED
    BY <1>1, <1>2, <1>3, <1>4, <2>1, ResultBecomes
<1>5. CASE pstate = "Idle"
  <2>1. task = "live"
    BY <1>5 DEF IInv, EndsBusy, OInv
  <2>2. Orderly(donotify(Queued(n)), y) /\ Ready(donotify(Queued(n)))
    BY <1>2, <1>5, <2>1, donotifyGood DEF OInv
  <2>3. Becomes(donotify(Queued(n)))
    BY <1>5 DEF queueNotification, Waiting
  <2>4. QED
    BY <1>1, <1>2, <1>3, <2>2, <2>3, ResultBecomes
<1>6. QED
  BY <1>4, <1>5

-----------------------------------------------------------------------------
(* The rest of the types.                                                  *)
Marks ==
    /\ closed \in BOOLEAN /\ broken \in BOOLEAN
    /\ epfd \in Listeners \cup {NoListener} /\ adding \in Listeners \cup {NoListener}
    /\ fault \in {"none", "event", "job", "assign"}

LEMMA NextMarks ==
    ASSUME Marks, [Next]_vars
    PROVE  Marks'
<1>a. ASSUME NEW sets, NEW st, addToEpoll(sets, st)
      PROVE  adding' \in Listeners \cup {NoListener}
  BY <1>a DEF addToEpoll
<1>1. CASE UNCHANGED vars
  BY <1>1 DEF vars, peerVars, Marks
<1>2. CASE Login \/ LoginDone
  BY <1>2 DEF Login, LoginDone, peerVars, Marks
<1>3. CASE Peer
  BY <1>3 DEF Peer, Send, Receive, Break, Marks
<1>4. ASSUME NEW l \in Listeners, EpollThread(l) PROVE Marks'
  BY <1>4 DEF EpollThread, TakeEvent, RemoveFd, ForgetEpfd, AssignJob, UseDeleted, peerVars, Marks
<1>5. CASE doWork
  <2>1. UNCHANGED <<closed, epfd, broken>> /\ fault' \in {fault, "job"}
    BY <1>5 DEF doWork, UseDeleted, peerVars
  <2>2. adding' \in Listeners \cup {NoListener}
    <3>1. UNCHANGED adding \/ addToEpoll(epolls, Effect(IO).pstate)
      BY <1>5 DEF doWork, UseDeleted
    <3>2. QED
      BY <1>a, <3>1 DEF Marks
  <2>3. QED
    BY <2>1, <2>2 DEF Marks
<1>6. CASE addToEpollDone \/ destroy
  BY <1>6 DEF addToEpollDone, destroy, peerVars, Marks
<1>7. ASSUME NEW n \in Notes, queueNotification(n) PROVE Marks'
  <2>1. UNCHANGED <<closed, broken>> /\ fault' \in {fault, "assign"} /\ epfd' \in {epfd, NoListener}
    BY <1>7 DEF queueNotification, peerVars
  <2>2. adding' \in Listeners \cup {NoListener}
    <3>1. UNCHANGED adding \/ addToEpoll(rmFromEpoll(epolls), donotify(Queued(n)).pstate)
      BY <1>7 DEF queueNotification
    <3>2. QED
      BY <1>a, <3>1 DEF Marks
  <2>3. QED
    BY <2>1, <2>2 DEF Marks
<1>8. QED
  BY <1>1, <1>2, <1>3, <1>4, <1>5, <1>6, <1>7 DEF Next, Worker

LEMMA NextOInv ==
    ASSUME IInv, OInv, [Next]_vars
    PROVE  OInv'
<1>0. drained \in Nat
  BY DEF OInv
<1>1. CASE UNCHANGED vars
  BY <1>0, <1>1, OStutter DEF vars, peerVars
<1>2. CASE Login \/ LoginDone
  <2>1. UNCHANGED <<clientVars, broken, sent, order, task, drained>>
    BY <1>2 DEF Login, LoginDone, peerVars
  <2>2. QED
    BY <1>0, <2>1, OStutter
<1>3. CASE Peer
  BY <1>3, PeerOInv
<1>4. ASSUME NEW l \in Listeners, EpollThread(l) PROVE OInv'
  <2>1. UNCHANGED <<clientVars, broken, sent, order, task, drained>>
    BY <1>4 DEF EpollThread, TakeEvent, RemoveFd, ForgetEpfd, AssignJob, UseDeleted, peerVars
  <2>2. QED
    BY <1>0, <2>1, OStutter
<1>5. CASE doWork
  BY <1>5, doWorkOInv
<1>6. CASE addToEpollDone \/ destroy
  <2>1. UNCHANGED <<clientVars, broken, sent, order, task, drained>>
    BY <1>6 DEF addToEpollDone, destroy, peerVars
  <2>2. QED
    BY <1>0, <2>1, OStutter
<1>7. ASSUME NEW n \in Notes, queueNotification(n) PROVE OInv'
  BY <1>7, queueNotificationOInv
<1>8. QED
  BY <1>1, <1>2, <1>3, <1>4, <1>5, <1>6, <1>7 DEF Next, Worker

LEMMA OrderKept == Spec => [](IInv /\ OInv /\ Marks)
<1>1. Init => IInv /\ OInv /\ Marks
  <2>1. Init => Marks
    BY DEF Init, Marks
  <2>2. QED
    BY <2>1, InitIInv, InitOInv
<1>2. IInv /\ OInv /\ Marks /\ [Next]_vars => (IInv /\ OInv /\ Marks)'
  BY NextIInv, NextOInv, NextMarks
<1>3. QED
  BY <1>1, <1>2, PTL DEF Spec

(* Every field of a client's socket stays in its range: a message's place  *)
(* never passes its length, in whatever pieces data comes and goes.        *)
THEOREM TypesKept == Spec => []TypeOK
<1>1. IInv /\ OInv /\ Marks => TypeOK
  <2> SUFFICES ASSUME IInv, OInv, Marks PROVE TypeOK
    OBVIOUS
  <2>1. /\ IO \in IORec /\ order \in Seq(Notes) /\ sent \in Nat /\ drained \in Nat
        /\ task \in {"live", "deleted"}
    BY DEF OInv, Orderly, Distinct
  <2>2. /\ pstate \in IOStates /\ rpos \in 0..Message
        /\ spos \in 0..AnswerLen - 1 /\ npos \in 0..NoteLen - 1
        /\ notimsgs \in Seq(Notes) /\ out \in Stream /\ served \in 0..Requests /\ inbox \in Nat
    BY <2>1, Records, FieldsOfIO
  <2>3. \A i \in DOMAIN out : Unit(out[i])
    <3>1. out \in Seq(UnitRec) /\ \A i \in 1..Len(out) : out[i].at \in 1..out[i].len
      BY <2>2 DEF Stream
    <3>2. \A i \in 1..Len(out) : out[i] \in UnitRec
      BY <3>1
    <3>3. QED
      BY <3>1, <3>2 DEF Unit, UnitRec
  <2>4. QED
    BY <2>1, <2>2, <2>3
       DEF TypeOK, IInv, Sets, Marks, IOStates, Registered, EventSteps
<1>2. QED
  BY <1>1, OrderKept, PTL

(* Responses and notifications never mix on the socket, whichever workers  *)
(* write and wherever a full socket or the peer's pace stops them          *)
(* (client.cpp: dosend, donotify; CCNIMsgPacker::send).                    *)
THEOREM StreamWhole == Spec => []NeverMixed
<1>1. OInv => NeverMixed
  BY FieldsOfIO DEF OInv, Orderly, NeverMixed
<1>2. QED
  BY <1>1, OrderKept, PTL

(* While the line is up no notification is lost, repeated or overtaken     *)
(* (client.cpp: queueNotification, donotify).                              *)
THEOREM NotesKept == Spec => []NotesInOrder
<1>1. OInv => NotesInOrder
  BY FieldsOfIO DEF OInv, Orderly, NotesDue, NotesInOrder
<1>2. QED
  BY <1>1, OrderKept, PTL

(* Every request that was read is answered once and in its turn, and none  *)
(* is processed before the answer to the one before it is out              *)
(* (client.cpp: doWork, doread, dosend).                                   *)
THEOREM AnswersKept == Spec => []AnswersInOrder
<1>1. OInv => AnswersInOrder
  BY FieldsOfIO DEF OInv, Orderly, Answered, AnswersInOrder
<1>2. QED
  BY <1>1, OrderKept, PTL
=============================================================================
