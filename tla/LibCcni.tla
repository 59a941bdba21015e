------------------------------- MODULE LibCcni -------------------------------
(***************************************************************************)
(* The client library: threads of a program make requests on one           *)
(* connection, a listening thread hands each answer to the queue of the    *)
(* thread whose number it carries, and a request waits a while for the     *)
(* next answer in its thread's queue.                                      *)
(*                                                                         *)
(* The number, seq, is a thread's id cut to 32 bits.  Threads may share it *)
(* and then share a queue, and a thread may get the id of one that has     *)
(* ended: a caller of this model is all the threads of one id, one after   *)
(* the other.                                                              *)
(*                                                                         *)
(* The server answers the requests of a connection in their order, however *)
(* late.  What a message says does not matter to the library's state: a    *)
(* message is its seq and, of the requests with that seq, how manieth it   *)
(* was.  A request is written in two parts, header and body, and threads   *)
(* write without a lock: the server cannot read a request that another has *)
(* got into, nor anything behind it.                                       *)
(*                                                                         *)
(* Broadcasts reach the listening thread by UDP.  Each is a job of the     *)
(* server's pool, which sends a header and a body in datagrams of their    *)
(* own through a socket that all jobs share; the network may lose,         *)
(* duplicate and reorder them.  The thread reads both sockets with one     *)
(* parser and blocks in it.                                                *)
(***************************************************************************)
EXTENDS Naturals, Sequences, FiniteSets

CONSTANTS
    Callers,    \* the threads that make requests
    Seqs,       \* the numbers that stand for them
    SeqOf,      \* the number of each, which others may have too
    Nobody,     \* the seq 0 of what the server sends unasked
    Broadcasts, \* the broadcasts the server sends
    Work        \* bound: how many requests, broadcasts and unasked messages begin

ASSUME LibAssumption ==
    /\ IsFiniteSet(Callers) /\ SeqOf \in [Callers -> Seqs] /\ Nobody \notin Seqs
    /\ Broadcasts \cap {"idle", "pieces", "end"} = {}
    /\ Work \in Nat

Ext == INSTANCE SequencesExt

VARIABLES
    stage,      \* what each thread is doing in talkToServer
    sent,       \* history: how many requests with each seq were begun to be sent
    late,       \* history: how many of them were given up
    took,       \* history: the last answer that was taken from each queue
    evts,       \* _evts: the queues, by seq
    asked,      \* the requests that have not been answered
    whole,      \* how many of them, from the first on, the server can read
    wire,       \* the messages that have not been read
    line,       \* does the TCP connection stand
    connecting, \* is the thread that connects still in connect
    connected,  \* _connected
    closed,     \* have the sockets been closed
    listener,   \* is the listening thread running
    job,        \* what the job of each broadcast has sent
    datagrams,  \* those that are on their way, as they were sent
    reading,    \* the broadcast whose body is waited for, or "idle", "pieces"
    damaged,    \* history: a datagram was lost, overtaken or read twice, or two
                \* broadcasts mixed
    begun,      \* how much work has begun
    fault       \* "none", or the use of a queue that was deleted

callVars == <<stage, sent, late, took>>
lineVars == <<asked, whole, wire, line>>
threadVars == <<connecting, connected, closed, listener>>
udpVars == <<job, datagrams, reading, damaged>>
vars == <<callVars, evts, lineVars, threadVars, udpVars, begun, fault>>

NoAnswer == [of |-> Nobody, nr |-> 0]

(* connect has created the listening thread.                               *)
Init ==
    /\ stage = [c \in Callers |-> "none"]
    /\ sent = [q \in Seqs |-> 0]
    /\ late = [q \in Seqs |-> 0]
    /\ took = [q \in Seqs |-> NoAnswer]
    /\ evts = [q \in {} |-> <<>>]
    /\ asked = <<>> /\ whole = 0 /\ wire = <<>>
    /\ line = TRUE
    /\ connecting = TRUE /\ connected = FALSE /\ closed = FALSE /\ listener = TRUE
    /\ job = [b \in Broadcasts |-> "none"]
    /\ datagrams = <<>> /\ reading = "idle" /\ damaged = FALSE
    /\ begun = 0
    /\ fault = "none"

(* ... and returns.                                                        *)
connect ==
    /\ connecting
    /\ connecting' = FALSE /\ connected' = TRUE
    /\ UNCHANGED <<callVars, evts, lineVars, closed, listener, udpVars, begun, fault>>

(* The bound of the instance.                                              *)
Begins == begun < Work /\ begun' = begun + 1

-----------------------------------------------------------------------------
(* The calling threads.                                                    *)

Up == ~connecting

(* login, logout, listrooms, enterroom, ...: each makes one request, looks *)
(* at no state of the connection first, and waits before it returns.       *)
Request(c) == Up /\ stage[c] = "none" /\ Begins

getMsgQue(c) ==
    /\ Request(c)
    /\ stage' = [stage EXCEPT ![c] = "send"]
    /\ evts' = [q \in DOMAIN evts \cup {SeqOf[c]} |-> IF q \in DOMAIN evts THEN evts[q] ELSE <<>>]
    /\ UNCHANGED <<sent, late, took, lineVars, threadVars, udpVars, fault>>

(* Written, written into a connection that is gone, or not: the socket is  *)
(* closed.                                                                 *)
Written == connected
NotWritten == ~(connected /\ line)

(* The header, and what goes out before another thread writes.             *)
block_sendHeader(c) ==
    LET q == SeqOf[c] IN
    /\ Up /\ stage[c] = "send"
    /\ \/ /\ Written
          /\ stage' = [stage EXCEPT ![c] = "body"]
          /\ sent' = [sent EXCEPT ![q] = @ + 1]
          /\ asked' = IF line THEN Append(asked, [of |-> q, nr |-> sent[q] + 1]) ELSE asked
       \/ NotWritten /\ stage' = [stage EXCEPT ![c] = "none"] /\ UNCHANGED <<sent, asked>>
    /\ UNCHANGED <<late, took, evts, whole, wire, line, threadVars, udpVars, begun, fault>>

(* The rest of the body.  The request has come whole if all before it have *)
(* and none was begun since: then it is the last.                          *)
block_sendBody(c) ==
    /\ Up /\ stage[c] = "body"
    /\ \/ /\ Written
          /\ stage' = [stage EXCEPT ![c] = "wait"]
          /\ whole' = IF whole + 1 = Len(asked) THEN whole + 1 ELSE whole
       \/ NotWritten /\ stage' = [stage EXCEPT ![c] = "none"] /\ UNCHANGED whole
    /\ UNCHANGED <<sent, late, took, evts, asked, wire, line, threadVars, udpVars, begun, fault>>

(* The oldest answer in the queue.                                         *)
receive(c) ==
    LET q == SeqOf[c] IN
    /\ Up /\ stage[c] = "wait" /\ ~closed /\ evts[q] # <<>>
    /\ took' = [took EXCEPT ![q] = Head(evts[q])]
    /\ evts' = [evts EXCEPT ![q] = Tail(@)]
    /\ stage' = [stage EXCEPT ![c] = "none"]
    /\ UNCHANGED <<sent, late, lineVars, threadVars, udpVars, begun, fault>>

(* The wait ends, in time or because the queue was signalled, and there is *)
(* none.                                                                   *)
receiveNothing(c) ==
    LET q == SeqOf[c] IN
    /\ Up /\ stage[c] = "wait" /\ ~closed /\ evts[q] = <<>>
    /\ stage' = [stage EXCEPT ![c] = "none"]
    /\ late' = [late EXCEPT ![q] = @ + 1]
    /\ UNCHANGED <<sent, took, evts, lineVars, threadVars, udpVars, begun, fault>>

(* The queue was deleted by disconnect, which also closed the sockets.     *)
receiveDeleted(c) ==
    /\ Up /\ stage[c] = "wait" /\ closed
    /\ fault' = "queue"
    /\ UNCHANGED <<callVars, evts, lineVars, threadVars, udpVars, begun>>

-----------------------------------------------------------------------------
(* The listening thread.                                                   *)

(* Mutant: an answer that nobody waits for is dropped.                     *)
sendResAwaited(m) ==
    evts' = [q \in DOMAIN evts |->
        IF q = m.of /\ \E c \in Callers : SeqOf[c] = q /\ stage[c] = "wait"
        THEN Append(evts[q], m) ELSE evts[q]]

(* Mutant: whatever comes gets a queue.                                    *)
sendResCreates(m) ==
    evts' = [q \in DOMAIN evts \cup {m.of} |->
        IF q \notin DOMAIN evts THEN <<m>>
        ELSE IF q = m.of THEN Append(evts[q], m) ELSE evts[q]]

(* The answer for a seq that has no queue is dropped, and so is what has   *)
(* the seq 0.                                                              *)
sendRes(m) ==
    evts' = [q \in DOMAIN evts |-> IF q = m.of THEN Append(evts[q], m) ELSE evts[q]]

(* select looks at the UDP socket first; what is on the way may not have   *)
(* arrived.                                                                *)
Listens == listener /\ ~closed /\ reading = "idle"

doServerMessage ==
    /\ Listens /\ wire # <<>>
    /\ wire' = Tail(wire)
    /\ sendRes(Head(wire))
    /\ UNCHANGED <<callVars, asked, whole, line, threadVars, udpVars, begun, fault>>

(* Mutant: the queues go and the connection seems to stand.                *)
disconnectHalf == evts' = [q \in {} |-> <<>>] /\ closed' = TRUE /\ UNCHANGED connected

disconnect ==
    IF connected
    THEN evts' = [q \in {} |-> <<>>] /\ connected' = FALSE /\ closed' = TRUE
    ELSE UNCHANGED <<evts, connected, closed>>

(* The thread ends: the read fails, or select finds the sockets closed.    *)
doWorkEnds ==
    /\ \/ Listens /\ ~line /\ wire = <<>>
       \/ listener /\ closed /\ reading = "idle"
    /\ listener' = FALSE
    /\ disconnect
    /\ UNCHANGED <<callVars, lineVars, connecting, udpVars, begun, fault>>

(* Mutant: a message that is for nobody is an error.                       *)
ParsedDiscards(d) ==
    IF reading = "idle" THEN IF d.part = "header" THEN {d.of} ELSE {"end"}
    ELSE IF reading = d.of /\ d.part = "body" THEN {"end"}
    ELSE {"pieces", "end"}

(* Mutant: the parser is kept for what follows.                            *)
ParsedGoesOn(d) ==
    IF reading = "idle" THEN IF d.part = "header" THEN {d.of} ELSE {"end"}
    ELSE IF reading = d.of /\ d.part = "body" THEN {"pieces"}
    ELSE {"pieces", "end"}

(* What the parser makes of a datagram.  A header is shorter than a body:  *)
(* a body is cut to the length of the header that is expected and is none, *)
(* and a header is the first piece of the body that is expected.  A body   *)
(* of another broadcast may have the right length, which makes it a whole  *)
(* message, or too many or too few bytes.  Pieces make no message.  All of *)
(* these messages have the seq 0 and are dropped.                          *)
Parsed(d) ==
    IF reading = "idle" THEN IF d.part = "header" THEN {d.of} ELSE {"end"}
    ELSE IF reading = "pieces" THEN {"pieces", "end"}
    ELSE IF d.part = "header" THEN {"pieces"}
    ELSE IF reading = d.of THEN {"idle"}
    ELSE {"idle", "pieces", "end"}

(* A datagram is read in its turn; it overtakes those sent before it; or   *)
(* it was duplicated and will be read again.                               *)
doServerDatagram ==
    /\ listener /\ ~closed
    /\ \E i \in DOMAIN datagrams, again \in BOOLEAN :
        /\ datagrams' = IF again THEN datagrams ELSE Ext!RemoveAt(datagrams, i)
        /\ damaged' = (damaged \/ again \/ i # 1)
        /\ \E to \in Parsed(datagrams[i]) :
            IF to = "end"
            THEN listener' = FALSE /\ disconnect /\ reading' = "idle"
            ELSE reading' = to /\ UNCHANGED <<listener, evts, connected, closed>>
    /\ UNCHANGED <<callVars, lineVars, connecting, job, begun, fault>>

(* The program ends the connection (~CCNIConnection, disconnect).          *)
hangup ==
    /\ Up /\ connected
    /\ disconnect
    /\ line' = FALSE /\ asked' = <<>> /\ whole' = 0 /\ wire' = <<>> /\ datagrams' = <<>>
    /\ UNCHANGED <<callVars, connecting, listener, job, reading, damaged, begun, fault>>

-----------------------------------------------------------------------------
(* The jobs of the broadcasts, CBroadCaster::run.                          *)

(* A socket that is closed gets none.                                      *)
Sent(b, part) ==
    datagrams' = IF closed THEN <<>> ELSE Append(datagrams, [of |-> b, part |-> part])

(* Another job is between its header and its body.                         *)
Mixes(b) == \E other \in Broadcasts \ {b} : job[other] = "header"

(* When the header is not sent the body is not either.                     *)
SendHeader(b) ==
    /\ job[b] = "none" /\ Begins
    /\ \/ /\ Sent(b, "header")
          /\ damaged' = (damaged \/ Mixes(b))
          /\ job' = [job EXCEPT ![b] = "header"]
       \/ job' = [job EXCEPT ![b] = "done"] /\ UNCHANGED <<datagrams, damaged>>
    /\ UNCHANGED <<callVars, evts, lineVars, threadVars, reading, fault>>

SendBody(b) ==
    /\ job[b] = "header"
    /\ \/ Sent(b, "body") /\ UNCHANGED damaged
       \/ UNCHANGED datagrams /\ damaged' = TRUE
    /\ job' = [job EXCEPT ![b] = "done"]
    /\ UNCHANGED <<callVars, evts, lineVars, threadVars, reading, begun, fault>>

(* The network loses a datagram.                                           *)
Lose ==
    /\ ~closed
    /\ \E i \in DOMAIN datagrams : datagrams' = Ext!RemoveAt(datagrams, i)
    /\ damaged' = TRUE
    /\ UNCHANGED <<callVars, evts, lineVars, threadVars, job, reading, begun, fault>>

-----------------------------------------------------------------------------
(* The server and the connection.                                          *)

(* The server answers the requests in turn.  It gives up a client of which *)
(* it has read something that is no request: what is behind that gets no   *)
(* answer before the connection breaks.                                    *)
Answer ==
    /\ line /\ asked # <<>> /\ whole > 0
    /\ asked' = Tail(asked) /\ whole' = whole - 1
    /\ wire' = Append(wire, Head(asked))
    /\ UNCHANGED <<callVars, evts, line, threadVars, udpVars, begun, fault>>

Notify ==
    /\ line /\ Begins
    /\ wire' = Append(wire, NoAnswer)
    /\ UNCHANGED <<callVars, evts, asked, whole, line, threadVars, udpVars, fault>>

Break ==
    /\ line
    /\ line' = FALSE /\ asked' = <<>> /\ whole' = 0
    /\ UNCHANGED <<callVars, evts, wire, threadVars, udpVars, begun, fault>>

-----------------------------------------------------------------------------
Listening == doServerMessage \/ doServerDatagram \/ doWorkEnds

(* Nothing is said of what follows the use of a deleted queue.             *)
Next ==
    /\ fault = "none"
    /\ \/ connect \/ hangup \/ Listening \/ Answer \/ Notify \/ Break \/ Lose
       \/ \E b \in Broadcasts : SendHeader(b) \/ SendBody(b)
       \/ \E c \in Callers :
            \/ getMsgQue(c) \/ block_sendHeader(c) \/ block_sendBody(c)
            \/ receive(c) \/ receiveNothing(c) \/ receiveDeleted(c)

Spec == Init /\ [][Next]_vars

(* The listening thread goes on, and so do the workers of the server.      *)
FairSpec ==
    /\ Spec /\ WF_vars(fault = "none" /\ Listening)
    /\ \A b \in Broadcasts : WF_vars(fault = "none" /\ SendBody(b))

-----------------------------------------------------------------------------
Messages == [of : Seqs, nr : Nat \ {0}] \cup {NoAnswer}

TypeOK ==
    /\ stage \in [Callers -> {"none", "send", "body", "wait"}]
    /\ sent \in [Seqs -> Nat] /\ late \in [Seqs -> Nat] /\ took \in [Seqs -> Messages]
    /\ DOMAIN evts \subseteq Seqs /\ \A q \in DOMAIN evts : evts[q] \in Seq(Messages)
    /\ asked \in Seq(Messages) /\ wire \in Seq(Messages) /\ whole \in 0..Len(asked)
    /\ {line, connecting, connected, closed, listener} \subseteq BOOLEAN
    /\ job \in [Broadcasts -> {"none", "header", "done"}]
    /\ datagrams \in Seq([of : Broadcasts, part : {"header", "body"}])
    /\ reading \in Broadcasts \cup {"idle", "pieces"}
    /\ damaged \in BOOLEAN
    /\ begun \in 0..Work
    /\ fault \in {"none", "queue"}

(* The threads with a seq whose requests are under way.                    *)
Asking(q) == {c \in Callers : SeqOf[c] = q /\ stage[c] \in {"body", "wait"}}

(* The answers to the requests with one seq are taken in the order of the  *)
(* requests, none left out and none twice, whatever other threads and the  *)
(* network do, and never before the request was sent.  A thread that alone *)
(* has a request with its seq under way on a connection that stands takes  *)
(* the answer to the request made as many before its own as were given up: *)
(* its own if none was, never again once one was.  A thread that shares    *)
(* its seq with another may take the other's, and one that has the id of a *)
(* thread that has ended takes what that one did not wait for.             *)
LagsByLate ==
    [][\A q \in Seqs :
        took'[q] # took[q] =>
            /\ took'[q] = [of |-> q, nr |-> took[q].nr + 1]
            /\ took'[q].nr <= sent[q] - late[q]
            /\ line /\ Cardinality(Asking(q)) = 1 => took'[q].nr = sent[q] - late[q]]_vars

(* The listening thread gives up a connection that stands only when        *)
(* datagrams have mixed with those of other broadcasts, got lost, overtaken*)
(* one another or come twice.                                              *)
InStep == line /\ ~listener => damaged

(* Broadcasts that arrive whole and in order never keep the thread from an *)
(* answer that has come: it is read, unless the connection has ended.      *)
AnswersRead ==
    []~damaged => (wire # <<>> ~> wire = <<>> \/ closed \/ fault # "none")

(* When the connection breaks, the listening thread comes to say so,       *)
(* unless connect had not returned when it ended, a queue was used that it *)
(* had deleted, or it waits for a datagram because of one that was lost or *)
(* mixed.                                                                  *)
LossNoticed ==
    ~line /\ connected /\ listener ~> ~connected \/ fault # "none" \/ damaged
=============================================================================
