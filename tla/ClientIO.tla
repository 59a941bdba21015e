------------------------------ MODULE ClientIO ------------------------------
(***************************************************************************)
(* The socket of one logged-in client: the epoll threads that wait for it, *)
(* the worker threads that run its task, the notifiers of other clients    *)
(* that write to it, and the peer at the far end.                          *)
(*                                                                         *)
(* doWork and queueNotification run under _iolk and are atomic here but    *)
(* for the end of addToEpoll, which writes _epfd after epoll_ctl has made  *)
(* the descriptor visible to the epoll thread.  An epoll thread takes no   *)
(* lock: taking an event, epoll_ctl(DEL), "_epfd = -1" and handing the     *)
(* task to the pool are steps of their own.                                *)
(*                                                                         *)
(* Epoll is level triggered.  A send takes what fits into the socket; on a *)
(* broken line it fails, and a read fails once the received data is used   *)
(* up.  Messages have fixed lengths, counted in units.                     *)
(***************************************************************************)
EXTENDS Integers, Sequences

CONSTANTS
    Listeners,   \* CUserListener's epoll threads
    NoListener,  \* the value -1 of _epfd
    Header,      \* units of a request's CCNI_HEADER
    Body,        \* units of a request's body
    Segments,    \* the sizes in which the peer's data arrives
    Requests,    \* bound: the requests the peer sends
    Malformed,   \* the numbers of those that the parser refuses
    AnswerLen,   \* units of a response
    Notes,       \* the notifications other clients send to this one
    NoteLen,     \* units of a notification
    OutCap,      \* units the socket takes before the peer has read any
    MaxJobs      \* bound: no event is taken while the pool holds so many tasks

ASSUME ClientIOAssumption ==
    /\ Listeners \cap {NoListener, "todo", "done"} = {}
    /\ {Header, Body, AnswerLen, NoteLen, OutCap} \subseteq Nat \ {0}
    /\ Segments \subseteq Nat \ {0}
    /\ Requests \in Nat /\ Malformed \subseteq 1..Requests /\ Notes \cap Nat = {}
    /\ MaxJobs \in Nat

VARIABLES
    pstate,    \* CClient::_pstate
    rpos,      \* units of the current request read (CCNIMsgParser)
    spos,      \* units of the current response sent (CCNIMsgPacker)
    notimsgs,  \* CClient::_notimsgs
    npos,      \* units sent of its first notification
    out,       \* everything written to the socket, unit by unit
    task,      \* CClient::_ctsk: "live", or "deleted" after the cleanup
    closed,    \* the CClient is destroyed and its descriptor closed
    epfd,      \* CClient::_epfd
    epolls,    \* what each epoll set waits for: "none", "in" or "out"
    event,     \* what each epoll thread is doing with an event of this client
    jobs,      \* how often the task is in the pool
    adding,    \* the epoll set whose _epfd is still to be written, under _iolk
    login,     \* the same for the login job, which adds the client without _iolk
    served,    \* requests processed
    inbox,     \* units that have arrived and are not read
    sent,      \* units the peer has sent
    drained,   \* units the peer has read
    broken,    \* the line is down
    order,     \* the notifications in the order they were queued
    fault      \* "none", or the use of a deleted task

clientVars == <<pstate, rpos, spos, notimsgs, npos, out, served, inbox>>
peerVars == <<sent, drained, broken>>
vars == <<clientVars, task, closed, epfd, epolls, event, jobs, adding, login,
          peerVars, order, fault>>

Message == Header + Body

Least(a, b) == IF a <= b THEN a ELSE b

Init ==
    /\ pstate = "Idle" /\ rpos = 0 /\ spos = 0 /\ notimsgs = <<>> /\ npos = 0
    /\ out = <<>> /\ served = 0 /\ inbox = 0
    /\ task = "live" /\ closed = FALSE
    /\ epfd = NoListener
    /\ epolls = [l \in Listeners |-> "none"]
    /\ event = [l \in Listeners |-> "none"]
    /\ jobs = 0 /\ adding = NoListener /\ login = "todo"
    /\ sent = 0 /\ drained = 0 /\ broken = FALSE
    /\ order = <<>> /\ fault = "none"

Up == fault = "none"

-----------------------------------------------------------------------------
(* The peer.                                                               *)

Send(n) ==
    /\ Up /\ ~broken /\ sent + n <= Requests * Message
    /\ sent' = sent + n
    /\ inbox' = inbox + n
    /\ UNCHANGED <<pstate, rpos, spos, notimsgs, npos, out, served, task, closed, epfd, epolls,
                   event, jobs, adding, login, drained, broken, order, fault>>

Receive ==
    /\ Up /\ ~broken /\ drained < Len(out)
    /\ drained' = Len(out)
    /\ UNCHANGED <<clientVars, task, closed, epfd, epolls, event, jobs, adding, login,
                   sent, broken, order, fault>>

Break ==
    /\ Up /\ ~broken
    /\ broken' = TRUE
    /\ UNCHANGED <<clientVars, task, closed, epfd, epolls, event, jobs, adding, login,
                   sent, drained, order, fault>>

-----------------------------------------------------------------------------
(* What the client object does with its socket.  io holds the fields that  *)
(* change and, in ok, what the function returns.                           *)

IO == [pstate |-> pstate, rpos |-> rpos, spos |-> spos, notimsgs |-> notimsgs,
       npos |-> npos, out |-> out, served |-> served, inbox |-> inbox, ok |-> TRUE]

(* The socket takes as much of a message as fits: all its units have the   *)
(* message's name, the place in it and its length.                         *)
Space(io) == OutCap - (Len(io.out) - drained)

Written(io, msg, from, len) ==
    LET n == Least(len - from, Space(io)) IN
    io.out \o [i \in 1..n |-> [msg |-> msg, at |-> from + i, len |-> len]]

donotify(io) ==
    IF io.notimsgs = <<>> THEN [io EXCEPT !.pstate = "Idle", !.ok = TRUE]
    ELSE IF broken
    THEN [io EXCEPT !.pstate = "Notifing", !.notimsgs = Tail(@), !.npos = 0, !.ok = FALSE]
    ELSE LET w == Written(io, Head(io.notimsgs), io.npos, NoteLen)
             p == io.npos + Len(w) - Len(io.out)
         IN  IF p < NoteLen
             THEN [io EXCEPT !.pstate = "Notifing", !.out = w, !.npos = p, !.ok = TRUE]
             ELSE [io EXCEPT !.pstate = IF Tail(io.notimsgs) = <<>> THEN "Idle" ELSE "Notifing",
                             !.out = w, !.npos = 0, !.notimsgs = Tail(@), !.ok = TRUE]

(* Mutant: the parser is not freed for the next request.                   *)
dosendKeepsParser(io) ==
    IF broken THEN [io EXCEPT !.pstate = "Sending", !.ok = FALSE]
    ELSE LET w == Written(io, io.served, io.spos, AnswerLen)
             p == io.spos + Len(w) - Len(io.out)
         IN  IF p < AnswerLen
             THEN [io EXCEPT !.pstate = "Sending", !.out = w, !.spos = p, !.ok = TRUE]
             ELSE donotify([io EXCEPT !.pstate = "Sending", !.out = w, !.spos = 0])

(* The response to request number io.served.                               *)
dosend(io) ==
    IF broken THEN [io EXCEPT !.pstate = "Sending", !.ok = FALSE]
    ELSE LET w == Written(io, io.served, io.spos, AnswerLen)
             p == io.spos + Len(w) - Len(io.out)
         IN  IF p < AnswerLen
             THEN [io EXCEPT !.pstate = "Sending", !.out = w, !.spos = p, !.ok = TRUE]
             ELSE donotify([io EXCEPT !.pstate = "Sending", !.out = w, !.spos = 0, !.rpos = 0])

(* CCNIMsgParser::read: as much of the header, then of the body, as there  *)
(* is; no data at all is EAGAIN, or the end of a broken line.              *)
ReadState(io) ==
    LET got == io.rpos + io.inbox
        empty == io.inbox = 0 \/ got = Header
    IN  IF io.rpos < Message /\ empty /\ broken THEN "rderror"
        ELSE IF got < Header THEN "rdhd"
        ELSE IF io.rpos < Header /\ io.served + 1 \in Malformed THEN "hderror"
        ELSE IF got < Message THEN "rdbd" ELSE "rdok"

(* The test for "wait for the next read" reads (st == st_rdbd || st_rdhd), *)
(* and st_rdhd is 0: an incomplete header goes on to parse(), which fails. *)
doread(io) ==
    LET st == ReadState(io)
        n == Least(io.inbox, Message - io.rpos)
        rd == [io EXCEPT !.pstate = "Reading", !.rpos = @ + n, !.inbox = @ - n]
    IN  CASE st = "rdok" -> dosend([rd EXCEPT !.served = @ + 1])
          [] st = "rdbd" -> rd
          [] OTHER -> [rd EXCEPT !.ok = FALSE]

(* Mutant: a client that is Sending reads on.                              *)
EffectReads(io) ==
    IF io.pstate = "Notifing" THEN donotify(io) ELSE doread(io)

Effect(io) ==
    CASE io.pstate \in {"Idle", "Reading"} -> doread(io)
      [] io.pstate = "Sending" -> dosend(io)
      [] io.pstate = "Notifing" -> donotify(io)

Becomes(io) ==
    /\ pstate' = io.pstate /\ rpos' = io.rpos /\ spos' = io.spos
    /\ notimsgs' = io.notimsgs /\ npos' = io.npos /\ out' = io.out
    /\ served' = io.served /\ inbox' = io.inbox

-----------------------------------------------------------------------------
(* Epoll registration.                                                     *)

Interest(st) == IF st \in {"Idle", "Reading"} THEN "in" ELSE "out"

(* rmFromEpoll succeeds when the set that _epfd names holds the descriptor.*)
Removable == epfd # NoListener /\ epolls[epfd] # "none"

rmFromEpoll(sets) == IF Removable THEN [sets EXCEPT ![epfd] = "none"] ELSE sets

(* usrListener().assign: the next epoll thread in turn, which with other   *)
(* clients about may be any.  epoll_ctl(ADD) fails, and _epfd is left      *)
(* alone, when that set has the descriptor already.                        *)

(* Mutant: a client that is Idle again is not watched.                     *)
addToEpollUnlessIdle(sets, st) ==
    \E l \in Listeners :
        IF sets[l] = "none" /\ st # "Idle"
        THEN epolls' = [sets EXCEPT ![l] = Interest(st)] /\ adding' = l
        ELSE epolls' = sets /\ adding' = NoListener

addToEpoll(sets, st) ==
    \E l \in Listeners :
        IF sets[l] = "none"
        THEN epolls' = [sets EXCEPT ![l] = Interest(st)] /\ adding' = l
        ELSE epolls' = sets /\ adding' = NoListener

(* The last statement of addToEpoll; _iolk is released.                    *)
addToEpollDone ==
    /\ Up /\ adding # NoListener
    /\ epfd' = adding
    /\ adding' = NoListener
    /\ UNCHANGED <<clientVars, task, closed, epolls, event, jobs, login, peerVars, order, fault>>

(* doLogin assigns the new client to an epoll thread.                      *)
Login ==
    /\ Up /\ login = "todo"
    /\ \E l \in Listeners :
          /\ epolls' = [epolls EXCEPT ![l] = Interest(pstate)]
          /\ login' = l
    /\ UNCHANGED <<clientVars, task, closed, epfd, event, jobs, adding, peerVars, order, fault>>

LoginDone ==
    /\ Up /\ login \in Listeners
    /\ epfd' = login
    /\ login' = "done"
    /\ UNCHANGED <<clientVars, task, closed, epolls, event, jobs, adding, peerVars, order, fault>>

-----------------------------------------------------------------------------
(* The epoll threads.                                                      *)

Fires(l) ==
    \/ epolls[l] # "none" /\ broken
    \/ epolls[l] = "in" /\ inbox > 0
    \/ epolls[l] = "out" /\ Len(out) - drained < OutCap

TakeEvent(l) ==
    /\ Up /\ event[l] = "none" /\ Fires(l) /\ jobs < MaxJobs
    /\ event' = [event EXCEPT ![l] = "taken"]
    /\ UNCHANGED <<clientVars, task, closed, epfd, epolls, jobs, adding, login, peerVars, order, fault>>

UseDeleted(where) ==
    /\ fault' = where
    /\ UNCHANGED <<clientVars, task, closed, epfd, epolls, event, jobs, adding, login, peerVars, order>>

RemoveFd(l) ==
    /\ Up /\ event[l] = "taken"
    /\ IF task = "deleted" THEN UseDeleted("event")
       ELSE /\ epolls' = rmFromEpoll(epolls)
            /\ event' = [event EXCEPT ![l] = IF Removable THEN "removed" ELSE "forget"]
            /\ UNCHANGED <<clientVars, task, closed, epfd, jobs, adding, login, peerVars, order, fault>>

(* The rest of a successful rmFromEpoll.                                   *)
ForgetEpfd(l) ==
    /\ Up /\ event[l] = "removed"
    /\ epfd' = NoListener
    /\ event' = [event EXCEPT ![l] = "forget"]
    /\ UNCHANGED <<clientVars, task, closed, epolls, jobs, adding, login, peerVars, order, fault>>

(* Mutant: the pool drops the job.                                         *)
AssignJobDropped(l) ==
    /\ Up /\ event[l] = "forget"
    /\ event' = [event EXCEPT ![l] = "none"]
    /\ UNCHANGED <<clientVars, task, closed, epfd, epolls, jobs, adding, login, peerVars, order, fault>>

AssignJob(l) ==
    /\ Up /\ event[l] = "forget"
    /\ jobs' = jobs + 1
    /\ event' = [event EXCEPT ![l] = "none"]
    /\ UNCHANGED <<clientVars, task, closed, epfd, epolls, adding, login, peerVars, order, fault>>

-----------------------------------------------------------------------------
(* Under _iolk.                                                            *)

Unlocked == Up /\ adding = NoListener

(* The task's run: doWork, then back to an epoll set, or the cleanup.      *)
doWork ==
    LET io == Effect(IO) IN
    /\ Unlocked /\ jobs > 0
    /\ IF task = "deleted" THEN UseDeleted("job")
       ELSE /\ jobs' = jobs - 1
            /\ Becomes(io)
            /\ IF io.ok THEN addToEpoll(epolls, io.pstate) /\ UNCHANGED task
               ELSE task' = "deleted" /\ UNCHANGED <<epolls, adding>>
            /\ UNCHANGED <<closed, epfd, event, login, peerVars, order, fault>>

(* A notifier's call, from a worker that runs another client's job.        *)

(* Mutant: a new notification goes to the front.                           *)
QueuedFirst(n) == [IO EXCEPT !.notimsgs = <<n>> \o @]

Queued(n) == [IO EXCEPT !.notimsgs = Append(@, n)]

(* Mutant: a client that reads or sends counts as waiting.                 *)
WaitingOrBusy == pstate # "Notifing"

(* The client is in an epoll waiting list.                                 *)
Waiting == pstate = "Idle"

queueNotification(n) ==
    /\ Unlocked /\ ~closed /\ n \in Notes \ {order[i] : i \in DOMAIN order}
    /\ order' = Append(order, n)
    /\ IF ~Waiting
       THEN Becomes(Queued(n)) /\ UNCHANGED <<epfd, epolls, adding, fault>>
       ELSE /\ Becomes(donotify(Queued(n)))
            /\ epfd' = IF Removable THEN NoListener ELSE epfd
            /\ IF task = "deleted"
               THEN fault' = "assign" /\ UNCHANGED <<epolls, adding>>
               ELSE addToEpoll(rmFromEpoll(epolls), donotify(Queued(n)).pstate) /\ UNCHANGED fault
    /\ UNCHANGED <<task, closed, event, jobs, login, peerVars>>

(* The last reference to the CClient goes; close() empties the epoll sets. *)
destroy ==
    /\ Up /\ task = "deleted" /\ ~closed
    /\ closed' = TRUE
    /\ epolls' = [l \in Listeners |-> "none"]
    /\ UNCHANGED <<clientVars, task, epfd, event, jobs, adding, login, peerVars, order, fault>>

-----------------------------------------------------------------------------
Peer == Receive \/ Break \/ \E n \in Segments : Send(n)

EpollThread(l) == TakeEvent(l) \/ RemoveFd(l) \/ ForgetEpfd(l) \/ AssignJob(l)

Worker == doWork \/ addToEpollDone \/ destroy

Next ==
    \/ Login \/ LoginDone
    \/ Peer
    \/ \E l \in Listeners : EpollThread(l)
    \/ Worker
    \/ \E n \in Notes : queueNotification(n)

Spec == Init /\ [][Next]_vars

(* The threads of the server run, and the peer reads what it is sent.      *)
Fairness ==
    /\ WF_vars(Login) /\ WF_vars(LoginDone)
    /\ \A l \in Listeners : WF_vars(EpollThread(l))
    /\ WF_vars(doWork) /\ WF_vars(addToEpollDone) /\ WF_vars(destroy)
    /\ WF_vars(Receive)

FairSpec == Spec /\ Fairness

-----------------------------------------------------------------------------
Unit(u) == u.msg \in Notes \cup 1..Requests /\ u.at \in 1..u.len

TypeOK ==
    /\ pstate \in {"Idle", "Reading", "Sending", "Notifing"}
    /\ rpos \in 0..Message /\ spos \in 0..AnswerLen - 1 /\ npos \in 0..NoteLen - 1
    /\ notimsgs \in Seq(Notes) /\ order \in Seq(Notes)
    /\ \A i \in DOMAIN out : Unit(out[i])
    /\ served \in 0..Requests /\ {inbox, sent, drained, jobs} \subseteq Nat
    /\ task \in {"live", "deleted"} /\ {closed, broken} \subseteq BOOLEAN
    /\ {epfd, adding} \subseteq Listeners \cup {NoListener}
    /\ login \in Listeners \cup {"todo", "done"}
    /\ epolls \in [Listeners -> {"none", "in", "out"}]
    /\ event \in [Listeners -> {"none", "taken", "removed", "forget"}]
    /\ fault \in {"none", "event", "job", "assign"}

(* Responses and notifications share the socket but never mix: each starts *)
(* only when the one before it is complete, and goes on where it stopped,  *)
(* however many workers come to write (doWork, queueNotification).         *)
Unmixed(o) ==
    \A i \in DOMAIN o :
        LET before == IF i = 1 THEN [at |-> 0, len |-> 0] ELSE o[i - 1] IN
        IF o[i].at = 1 THEN before.at = before.len
        ELSE before = [o[i] EXCEPT !.at = @ - 1]

NeverMixed == Unmixed(out)

(* Of a kind of messages, those begun are the first k of names, each once  *)
(* and in that order.                                                      *)
Begun(o, kind, names, k) ==
    LET starts == {i \in DOMAIN o : o[i].at = 1 /\ o[i].msg \in kind} IN
    /\ {o[i].msg : i \in starts} = {names[a] : a \in 1..k}
    /\ \A i, j \in starts : \A a, b \in 1..k :
           i < j /\ o[i].msg = names[a] /\ o[j].msg = names[b] => a < b

(* The notifications of which nothing is sent.                             *)
Unsent(msgs, pos) == IF pos > 0 THEN Tail(msgs) ELSE msgs

(* While the line is up, the notifications sent, then those still queued,  *)
(* are exactly those that were queued, in that order: none is lost,        *)
(* repeated or overtaken.                                                  *)
NotesInOrder ==
    ~broken => \E k \in 0..Len(order) :
        /\ Begun(out, Notes, order, k)
        /\ Unsent(notimsgs, npos) = SubSeq(order, k + 1, Len(order))

(* Every request is answered once, in the order of the requests.           *)
Numbers == [r \in 1..Requests |-> r]

AnswersInOrder ==
    \E k \in 0..Requests : k <= served /\ served <= k + 1 /\ Begun(out, 1..Requests, Numbers, k)

(* A client whose task lives is watched by an epoll set, or an epoll       *)
(* thread, a job of the pool or the login job has it in hand.              *)
Watched ==
    task = "live" =>
        \/ login = "todo"
        \/ \E l \in Listeners : epolls[l] # "none" \/ event[l] # "none"
        \/ jobs > 0

(* The task that queueNotification hands to an epoll thread is there: a    *)
(* client that was cleaned up is never Idle.                               *)
NeverAssignsDeleted == fault # "assign"

(* A client is attended to as long as its task lives and no longer,        *)
(* whatever the registrations raced to (addToEpoll, rmFromEpoll,           *)
(* queueNotification, doWork).                                             *)
Attended == Watched /\ NeverAssignsDeleted

(* client.cpp on queueNotification: the client goes back to an epoll list  *)
(* to catch the break line event, and that event does end it.              *)
BreakCaught == broken ~> task = "deleted" \/ fault # "none"

(* client.cpp on doread: an incomplete header is just waiting for the next *)
(* read; the only ends of a client are a broken line and a bad message.    *)
KeepsLine == task = "deleted" => broken \/ Malformed # {}

(* client.h on CClientTask: run() is never processed twice at a time, as   *)
(* the next message is read only after this one has been processed.        *)
OneTask == jobs <= 1

(* client.h on the IO states: Sending ends when the response is complete,  *)
(* and the peer that reads gets it.                                        *)
SendingEnds == pstate = "Sending" ~> pstate # "Sending" \/ broken \/ fault # "none"
=============================================================================
