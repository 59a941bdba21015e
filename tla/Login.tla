-------------------------------- MODULE Login --------------------------------
(***************************************************************************)
(* How a client gets in: a datagram asks for a secret key, the answer      *)
(* brings it, a TCP connection brings it back with a Login message, and    *)
(* the login job puts a CClient on the list of the data manager.           *)
(*                                                                         *)
(* The key map and the list each have a lock, and what happens under it is *)
(* one step; the jobs of different clients interleave between the steps.   *)
(* Datagrams may be lost, delayed and duplicated.  A descriptor is a       *)
(* number of the process's table, and accept takes the lowest free one.    *)
(* The parts that take part are created in the order of Engine::create,    *)
(* and those that exist work while the rest is being created.              *)
(***************************************************************************)
EXTENDS Integers, FiniteSets

CONSTANTS
    Peers,          \* the client programs, one connection each
    NoPeer,         \* no client
    User,           \* the name each of them logs in with
    Roaming,        \* those whose connection has another address than their datagram
    Descriptors,    \* the descriptors left for connections
    Serials,        \* the serial numbers of genSecret are 0..Serials - 1
    SecretTimeout,  \* CConfig::secret_timeout
    CleanThreshold, \* CSecKeyMap::CLEAN_THRESHOLD
    MaxTime,        \* bound: the clock stops there
    MaxJobs,        \* bound: the requests whose jobs run at a time
    Repeating       \* bound: those whose requests still come once they have connected

ASSUME LoginAssumption ==
    /\ NoPeer \notin Peers
    /\ DOMAIN User = Peers
    /\ Roaming \subseteq Peers
    /\ Descriptors \subseteq Nat \ {0}
    /\ Serials \in Nat \ {0}
    /\ {SecretTimeout, CleanThreshold, MaxTime, MaxJobs} \subseteq Nat

VARIABLES
    now,        \* time(NULL)
    started,    \* what Engine::create has come to
    serno,      \* the serial number last drawn
    drawn,      \* the keys about to be inserted, each with the time its job has read
    answering,  \* those about to be sent
    replies,    \* those that may be delivered
    keymap,     \* CSecKeyMap::_map: the time stamp of each key in it
    key,        \* the key each peer sends in its header, with that time, until it is used
    conn,       \* where the connection of each peer is
    fd,         \* its descriptor in the server, 0 before it is accepted
    table,      \* what each descriptor stands for
    clients,    \* CDataMgr::_list
    told,       \* what each peer was told in answer to Login
    fault       \* "none", or the use of a key or an epoll thread that is not there

udpVars == <<serno, drawn, answering, replies, keymap>>
tcpVars == <<conn, fd, table, clients, told>>
vars == <<now, started, udpVars, key, tcpVars, fault>>

Users == {User[p] : p \in Peers}

(* The digest of a serial number and the address that asked: the keys of   *)
(* one peer differ as long as the serial numbers have not come round.      *)
Keys == (0..Serials - 1) \X Peers
Asker(k) == k[2]
Times == 0..MaxTime
NoKey == <<<<-1, NoPeer>>, -1>>

Init ==
    /\ now = 0 /\ started = "pool" /\ serno = 0
    /\ drawn = {} /\ answering = {} /\ replies = {}
    /\ keymap = [k \in {} |-> 0]
    /\ key = [p \in Peers |-> NoKey]
    /\ conn = [p \in Peers |-> "none"]
    /\ fd = [p \in Peers |-> 0]
    /\ table = [d \in Descriptors |-> NoPeer]
    /\ clients = [u \in Users |-> NoPeer]
    /\ told = [p \in Peers |-> "nothing"]
    /\ fault = "none"

(* The listeners and the epoll threads are created one after another,      *)
(* while those that are there already work.                                *)
NextStart == [pool |-> "udp", udp |-> "tcp", tcp |-> "users", users |-> "all"]

Up == fault = "none" /\ started # "failed"

Tick ==
    /\ Up /\ now < MaxTime
    /\ now' = now + 1
    /\ UNCHANGED <<started, udpVars, key, tcpVars, fault>>

-----------------------------------------------------------------------------
(* Engine::create: the UDP listener ("udp"), the TCP listener ("tcp"), the *)
(* first epoll thread ("users") and the others.                            *)
create ==
    /\ Up /\ started \in DOMAIN NextStart
    /\ started' = NextStart[started]
    /\ UNCHANGED <<now, udpVars, key, tcpVars, fault>>

(* A part cannot be created and the server ends.                           *)
createFails ==
    /\ Up /\ started \in DOMAIN NextStart
    /\ started' = "failed"
    /\ UNCHANGED <<now, udpVars, key, tcpVars, fault>>

-----------------------------------------------------------------------------
(* Keys.                                                                   *)

(* Too old for a job whose clock reads t.                                  *)
Expired(k, t) == keymap[k] + SecretTimeout < t

(* Mutant: the keys that are still good are swept.                         *)
SweptFresh(t) ==
    IF Cardinality(DOMAIN keymap) > CleanThreshold
    THEN {k \in DOMAIN keymap : Expired(k, t)} ELSE DOMAIN keymap

(* clear_timeouted: the keys that an insertion leaves in the map.          *)
Swept(t) ==
    IF Cardinality(DOMAIN keymap) > CleanThreshold
    THEN {k \in DOMAIN keymap : ~Expired(k, t)} ELSE DOMAIN keymap

(* Mutant: the item holds the time from which the key is too old.          *)
StampDeadline(t) == t + SecretTimeout + 1

Stamp(t) == t

(* A peer may send a request, and the network deliver it, any number of    *)
(* times: the listener reads it and gives a job to the pool.               *)
requested(p) == started # "pool" /\ (conn[p] = "none" \/ p \in Repeating)

(* The job draws a key, and insert reads the clock before it takes the     *)
(* lock.                                                                   *)
(* Bound: the serial numbers do not come round while a job is running.     *)
genSecret(p) ==
    /\ Up /\ requested(p)
    /\ serno' = (serno + 1) % Serials
    /\ Cardinality(drawn \cup answering) < MaxJobs
    /\ \A m \in drawn \cup answering : m[1] # <<serno', p>>
    /\ drawn' = drawn \cup {<<<<serno', p>>, now>>}
    /\ UNCHANGED <<now, started, answering, replies, keymap, key, tcpVars, fault>>

(* Under the lock, with the time read before: the sweep, and the key goes  *)
(* into the map unless the map has it and it is still good.                *)
insert(m) ==
    LET k == m[1]  t == m[2] IN
    /\ Up /\ m \in drawn
    /\ drawn' = drawn \ {m}
    /\ IF k \in Swept(t) /\ ~Expired(k, t)
       THEN /\ keymap' = [j \in Swept(t) |-> keymap[j]]
            /\ UNCHANGED answering
       ELSE /\ keymap' = [j \in Swept(t) \cup {k} |-> IF j = k THEN Stamp(t) ELSE keymap[j]]
            /\ answering' = answering \cup {m}
    /\ UNCHANGED <<now, started, serno, replies, key, tcpVars, fault>>

(* A peer has no use for the keys that come after it has connected.        *)
SendKey(m) ==
    /\ Up /\ m \in answering
    /\ answering' = answering \ {m}
    /\ replies' = IF conn[Asker(m[1])] = "none" THEN replies \cup {m} ELSE replies
    /\ UNCHANGED <<now, started, serno, drawn, keymap, key, tcpVars, fault>>

(* sendto failed.  remove erases what find returns, the end of the map     *)
(* included when another insertion has swept the key.                      *)
remove(m) ==
    /\ Up /\ m \in answering
    /\ answering' = answering \ {m}
    /\ IF m[1] \in DOMAIN keymap
       THEN keymap' = [j \in DOMAIN keymap \ {m[1]} |-> keymap[j]] /\ UNCHANGED fault
       ELSE fault' = "remove" /\ UNCHANGED keymap
    /\ UNCHANGED <<now, started, serno, drawn, replies, key, tcpVars>>

-----------------------------------------------------------------------------
(* The TCP listener's thread.                                              *)

Free == {d \in Descriptors : table[d] = NoPeer}

Lowest(S) == CHOOSE d \in S : \A e \in S : d <= e

(* The peer takes the first key that reaches it and connects.              *)
Connect(p) ==
    /\ Up /\ started \notin {"pool", "udp"} /\ conn[p] = "none"
    /\ \E m \in replies : Asker(m[1]) = p /\ key' = [key EXCEPT ![p] = m]
    /\ replies' = {m \in replies : Asker(m[1]) # p}
    /\ conn' = [conn EXCEPT ![p] = "backlog"]
    /\ UNCHANGED <<now, started, serno, drawn, answering, keymap, fd, table, clients, told, fault>>

doaccept(p) ==
    /\ Up /\ conn[p] = "backlog" /\ Free # {}
    /\ fd' = [fd EXCEPT ![p] = Lowest(Free)]
    /\ table' = [table EXCEPT ![Lowest(Free)] = p]
    /\ conn' = [conn EXCEPT ![p] = "accepted"]
    /\ UNCHANGED <<now, started, udpVars, key, clients, told, fault>>

Move(p, from, to) ==
    /\ Up /\ conn[p] = from
    /\ conn' = [conn EXCEPT ![p] = to]
    /\ UNCHANGED <<now, started, udpVars, key, fault>>

(* Closing a number that is free fails and does no harm.                   *)
Close(p) == table' = [table EXCEPT ![fd[p]] = NoPeer]

(* A whole message has come and becomes a job of the pool.                 *)
doread(p) ==
    /\ Move(p, "accepted", "verify")
    /\ table[fd[p]] = p
    /\ UNCHANGED <<fd, table, clients, told>>

(* The peer has gone, or sent a header that is not one.                    *)
doreadFails(p) ==
    /\ Up /\ conn[p] = "accepted" /\ table[fd[p]] = p
    /\ conn' = [conn EXCEPT ![p] = "closed"]
    /\ key' = [key EXCEPT ![p] = NoKey]
    /\ Close(p)
    /\ UNCHANGED <<now, started, udpVars, fd, clients, told, fault>>

-----------------------------------------------------------------------------
(* The login job.                                                          *)

(* A key is good once, for the address that asked for it.                  *)
verifykey(p) ==
    /\ Up /\ conn[p] = "verify"
    /\ IF key[p][1] \in DOMAIN keymap /\ p \notin Roaming
       THEN /\ keymap' = [j \in DOMAIN keymap \ {key[p][1]} |-> keymap[j]]
            /\ conn' = [conn EXCEPT ![p] = "find"]
       ELSE /\ conn' = [conn EXCEPT ![p] = "closing"]
            /\ UNCHANGED keymap
    /\ key' = [key EXCEPT ![p] = NoKey]
    /\ UNCHANGED <<now, started, serno, drawn, answering, replies, fd, table, clients, told, fault>>

(* The message does not parse, or is not a Login.                          *)
parseFails(p) ==
    /\ Move(p, "find", "closing")
    /\ UNCHANGED <<fd, table, clients, told>>

Tell(p, what) == told' = [told EXCEPT ![p] = what]

(* The answer is sent before the client is on the list.                    *)
findClient(p) ==
    /\ IF clients[User[p]] # NoPeer
       THEN Move(p, "find", "closing") /\ Tell(p, "already login")
       ELSE Move(p, "find", "add") /\ Tell(p, "success")
    /\ UNCHANGED <<fd, table, clients>>

addClient(p) ==
    /\ IF clients[User[p]] # NoPeer
       THEN Move(p, "add", "rejected") /\ UNCHANGED clients
       ELSE Move(p, "add", "assign") /\ clients' = [clients EXCEPT ![User[p]] = p]
    /\ UNCHANGED <<fd, table, told>>

(* Mutant: the login job closes the socket that it has handed over.        *)
assignClosing(p) ==
    /\ started # "tcp"
    /\ Move(p, "assign", "online")
    /\ Close(p)
    /\ UNCHANGED <<fd, clients, told>>

(* The first of the epoll threads gets the client's socket.                *)
assign(p) ==
    /\ started # "tcp"
    /\ Move(p, "assign", "online")
    /\ UNCHANGED <<fd, table, clients, told>>

(* There is none yet, or create puts one on the list, without the lock, in *)
(* this very moment: anything may happen.                                  *)
assignNobody(p) ==
    /\ Up /\ conn[p] = "assign" /\ started \in {"tcp", "users"}
    /\ fault' = "assign"
    /\ UNCHANGED <<now, started, udpVars, key, tcpVars>>

(* addClient's failure ends the CClient, which closes the descriptor...    *)
destroyRejected(p) ==
    /\ Move(p, "rejected", "rejected, closing")
    /\ Close(p)
    /\ UNCHANGED <<fd, clients, told>>

(* ... and every failure ends at err_end, which closes it.                 *)
err_end(p) ==
    /\ \/ Move(p, "closing", "closed")
       \/ Move(p, "rejected, closing", "rejected, closed")
    /\ Close(p)
    /\ UNCHANGED <<fd, clients, told>>

-----------------------------------------------------------------------------
(* The line of a client breaks: off the list, then closed.                 *)

(* Mutant: the socket is closed and the name stays.                        *)
delClientNever(p) ==
    /\ Move(p, "online", "leaving")
    /\ table[fd[p]] = p
    /\ UNCHANGED <<fd, table, clients, told>>

delClient(p) ==
    /\ Move(p, "online", "leaving")
    /\ table[fd[p]] = p
    /\ clients' = [clients EXCEPT ![User[p]] = NoPeer]
    /\ UNCHANGED <<fd, table, told>>

destroy(p) ==
    /\ Move(p, "leaving", "closed")
    /\ Close(p)
    /\ UNCHANGED <<fd, clients, told>>

-----------------------------------------------------------------------------
Job(p) ==
    \/ verifykey(p) \/ parseFails(p) \/ findClient(p) \/ addClient(p)
    \/ assign(p) \/ assignNobody(p) \/ destroyRejected(p) \/ err_end(p)

Listener(p) == doaccept(p) \/ doread(p) \/ doreadFails(p)

Next ==
    \/ Tick \/ create \/ createFails
    \/ \E p \in Peers :
           genSecret(p) \/ Connect(p) \/ Listener(p) \/ Job(p) \/ delClient(p) \/ destroy(p)
    \/ \E m \in drawn : insert(m)
    \/ \E m \in answering : SendKey(m) \/ remove(m)

Spec == Init /\ [][Next]_vars

-----------------------------------------------------------------------------
Stages ==
    {"none", "backlog", "accepted", "verify", "find", "add", "assign", "online", "leaving",
     "closing", "closed", "rejected", "rejected, closing", "rejected, closed"}

TypeOK ==
    /\ now \in Times /\ started \in DOMAIN NextStart \cup {"all", "failed"}
    /\ serno \in 0..Serials - 1
    /\ drawn \subseteq Keys \X (0..now)
    /\ answering \subseteq Keys \X Times /\ replies \subseteq Keys \X Times
    /\ DOMAIN keymap \subseteq Keys /\ \A k \in DOMAIN keymap : keymap[k] \in 0..now
    /\ key \in [Peers -> (Keys \X Times) \cup {NoKey}]
    /\ conn \in [Peers -> Stages]
    /\ fd \in [Peers -> Descriptors \cup {0}]
    /\ table \in [Descriptors -> Peers \cup {NoPeer}]
    /\ clients \in [Users -> Peers \cup {NoPeer}]
    /\ told \in [Peers -> {"nothing", "success", "already login"}]
    /\ fault \in {"none", "remove", "assign"}

(* The list holds exactly the clients that are logged in, each under its   *)
(* name: of several logins with one name at most one gets through, and the *)
(* name is free again when its client has gone (addClient, delClient).     *)
ListAgrees ==
    \A p \in Peers : conn[p] \in {"assign", "online"} <=> clients[User[p]] = p

(* Every connection the server still works on has a descriptor that stands *)
(* for it, unless the number is also that of a connection addClient has    *)
(* rejected, whose second close (tcp_listener.cpp:316) may have hit it:    *)
(* nothing else closes a descriptor twice or under another's feet, and the *)
(* harm of a rejection stays with the one number.                          *)
Open == {"accepted", "verify", "find", "add", "assign", "online", "leaving", "closing"}
Rejected ==
    {p \in Peers : conn[p] \in {"rejected", "rejected, closing", "rejected, closed"}}

OwnDescriptor ==
    \A p \in Peers :
        conn[p] \in Open => table[fd[p]] = p \/ \E q \in Rejected : fd[q] = fd[p]

(* A key is good for at least its time: verifykey turns away only peers    *)
(* whose key is older, or whose address is not the one that asked for it.  *)
OnlyStaleRefused ==
    \A p \in Peers :
        conn[p] = "verify" /\ conn'[p] = "closing"
            => p \in Roaming \/ now > key[p][2] + SecretTimeout

(* The keys that nobody came back for do not pile up: an insertion leaves  *)
(* at most CLEAN_THRESHOLD that are too old by the clock its job has read. *)
(* (A job that was slow to get the lock leaves those that became too old   *)
(* while it waited.)                                                       *)
StaleFew ==
    \A m \in drawn \ drawn' :
        Cardinality({k \in DOMAIN keymap' : Expired(k, m[2])'}) <= CleanThreshold

(* Keys stay for their time and not much longer: the sweep of an insertion *)
(* takes neither a key that is good nor leaves too many that are not.      *)
KeysInTime == [][OnlyStaleRefused /\ StaleFew]_vars

(* Who was told "Login success." is not rejected afterwards.  The name is  *)
(* looked up and added under the lock, but not under one lock.             *)
SuccessIsKept == \A p \in Peers : told[p] = "success" => p \notin Rejected
=============================================================================
