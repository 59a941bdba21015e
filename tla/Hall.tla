-------------------------------- MODULE Hall --------------------------------
(***************************************************************************)
(* The game hall: the rooms, the playing sessions inside them and the game *)
(* state of every client, as the message handlers change them.             *)
(*                                                                         *)
(* A handler runs on a worker thread of the pool and is not atomic.  It    *)
(* checks the client's own _state, changes the room or the session under   *)
(* that object's lock, and writes its own _state, _roomid and _sessionid   *)
(* after the lock is released.  Each of these is a step here; pc[c] says   *)
(* which one the handler of client c is at.  A client has at most one      *)
(* handler at a time (doWork holds _iolk).                                 *)
(*                                                                         *)
(* ASSERT logs, sleeps a second and ends the process (log.h), so a failed  *)
(* one is the value of "exited", after which nothing happens.              *)
(***************************************************************************)
EXTENDS Integers, FiniteSets

CONSTANTS
    Clients,       \* the CClient objects (a user that logs in again reuses one)
    NoClient,      \* the empty CClientPtr
    Rooms,         \* the room ids of the hall's configuration
    Capacity,      \* capacity of each room
    WatcherCount,  \* CSessionConfig::watcherCount
    Red,           \* CSessionConfig::red: 0 when the owner moves first
    Modulus,       \* session ids are taken from 1..Modulus (20000 in the code)
    MaxSeed,       \* bound: no session is created once the seed has reached it
    Workers        \* number of worker threads of the pool

ASSUME HallAssumption ==
    /\ NoClient \notin Clients
    /\ Rooms \subseteq Nat \ {0}
    /\ Capacity \in [Rooms -> Nat]
    /\ WatcherCount \in Nat
    /\ Red \in Int
    /\ Modulus \in Nat \ {0}
    /\ MaxSeed \in Nat
    /\ Workers \in Nat

VARIABLES
    state,      \* CClient::_state
    roomid,     \* CClient::_roomid, -1 outside
    sessionid,  \* CClient::_sessionid, -1 outside
    pc,         \* where the handler of the client is, "idle" when none runs
    target,     \* the handler's local: a room id, a session id or a seed
    hangup,     \* the handler is doWork cleaning up a broken line
    users,      \* CRoom::_usrlist
    live,       \* the keys of CRoom::_sessions
    owner,      \* CSession::_owner
    opponent,   \* CSession::_opponent
    watchers,   \* CSession::_watchers
    idseed,     \* the static idseed of CSession::genid
    exited      \* "none", or the ASSERT that ended the process

clientVars == <<roomid, sessionid, hangup>>
sessionVars == <<live, owner, opponent, watchers>>
vars == <<state, clientVars, pc, target, users, sessionVars, idseed, exited>>

Ids == 1..Modulus

InSession == {"Sessional", "Ready", "Watching"}
Playing == {"Moving", "Pondering"}
States == {"Offline", "Online", "Idle"} \cup InSession \cup Playing

(* Mutant: a session may be watched from inside another.                   *)
msghndsWatch ==
    [EnterRoom |-> {"Online"}, LeaveRoom |-> {"Idle"}, NewSession |-> {"Idle"},
     EnterSession |-> {"Idle"}, LeaveSession |-> InSession,
     WatchSession |-> {"Idle", "Sessional"}, Ready |-> {"Sessional"}]

(* The rows of the handler table whose handlers change the hall: the       *)
(* states in which each message is accepted.                               *)
msghnds ==
    [EnterRoom    |-> {"Online"},
     LeaveRoom    |-> {"Idle"},
     NewSession   |-> {"Idle"},
     EnterSession |-> {"Idle"},
     LeaveSession |-> InSession,
     WatchSession |-> {"Idle"},
     Ready        |-> {"Sessional"}]

Labels == DOMAIN msghnds \cup
    {"idle", "EnterRoomDone", "LeaveRoomDone", "GenId", "Publish",
     "NewSessionDone", "EnterSessionDone", "LeaveSessionDone",
     "WatchSessionDone", "DelClient"}

Asserts ==
    {"createSession state", "createSession member", "leaveRoom", "leaveRoom member",
     "enterSession", "leaveSession", "leaveSession gone", "leaveSession member",
     "watchSession", "doReady", "doReady gone", "ready seat"}

Place(r, s) == {owner[r][s], opponent[r][s]} \cup watchers[r][s]
Members(r, s) == Place(r, s) \ {NoClient}

Busy == {c \in Clients : pc[c] # "idle"}

(* The process is up and the handler of c has come to label.               *)
At(c, label) == exited = "none" /\ pc[c] = label

Goto(c, label) == pc' = [pc EXCEPT ![c] = label]

(* The handler returns and its locals are gone.                            *)
Return(c) == Goto(c, "idle") /\ target' = [target EXCEPT ![c] = -1]

Fail(where) ==
    /\ exited' = where
    /\ UNCHANGED <<state, clientVars, pc, target, users, sessionVars, idseed>>

-----------------------------------------------------------------------------
Init ==
    /\ state = [c \in Clients |-> "Offline"]
    /\ roomid = [c \in Clients |-> -1]
    /\ sessionid = [c \in Clients |-> -1]
    /\ pc = [c \in Clients |-> "idle"]
    /\ target = [c \in Clients |-> -1]
    /\ hangup = [c \in Clients |-> FALSE]
    /\ users = [r \in Rooms |-> {}]
    /\ live = [r \in Rooms |-> {}]
    /\ owner = [r \in Rooms |-> [s \in Ids |-> NoClient]]
    /\ opponent = [r \in Rooms |-> [s \in Ids |-> NoClient]]
    /\ watchers = [r \in Rooms |-> [s \in Ids |-> {}]]
    /\ idseed = 0
    /\ exited = "none"

(* A client object is created with state Online.                           *)
Login(c) ==
    /\ At(c, "idle") /\ state[c] = "Offline"
    /\ state' = [state EXCEPT ![c] = "Online"]
    /\ roomid' = [roomid EXCEPT ![c] = -1]
    /\ sessionid' = [sessionid EXCEPT ![c] = -1]
    /\ UNCHANGED <<hangup, pc, target, users, sessionVars, idseed, exited>>

(* checkstate lets a message through and its handler is about to run.  A   *)
(* message refused by checkstate changes nothing.                          *)
Accept(c, msg, t) ==
    /\ At(c, "idle") /\ Cardinality(Busy) < Workers
    /\ state[c] \in msghnds[msg]
    /\ msg = "NewSession" => idseed < MaxSeed
    /\ Goto(c, msg)
    /\ target' = [target EXCEPT ![c] = t]
    /\ UNCHANGED <<state, clientVars, users, sessionVars, idseed, exited>>

(* What a message names; a room the hall does not have is refused before   *)
(* anything is touched, a session id may well be out of date.              *)
Targets(msg) ==
    CASE msg = "EnterRoom" -> Rooms
      [] msg \in {"EnterSession", "WatchSession"} -> Ids
      [] OTHER -> {-1}

(* Mutant: the broken line's client is deleted without leaving its room.   *)
HangupKeepsRoom(c) ==
    /\ At(c, "idle") /\ Cardinality(Busy) < Workers
    /\ state[c] # "Offline"
    /\ hangup' = [hangup EXCEPT ![c] = TRUE]
    /\ Goto(c, IF sessionid[c] > 0 THEN "LeaveSession" ELSE "DelClient")
    /\ UNCHANGED <<state, roomid, sessionid, target, users, sessionVars, idseed, exited>>

(* The line broke: doWork leaves the session, then the room, then deletes. *)
Hangup(c) ==
    /\ At(c, "idle") /\ Cardinality(Busy) < Workers
    /\ state[c] # "Offline"
    /\ hangup' = [hangup EXCEPT ![c] = TRUE]
    /\ Goto(c, IF sessionid[c] > 0 THEN "LeaveSession"
               ELSE IF roomid[c] > 0 THEN "LeaveRoom" ELSE "DelClient")
    /\ UNCHANGED <<state, roomid, sessionid, target, users, sessionVars, idseed, exited>>

DelClient(c) ==
    /\ At(c, "DelClient")
    /\ state' = [state EXCEPT ![c] = "Offline"]
    /\ hangup' = [hangup EXCEPT ![c] = FALSE]
    /\ Return(c)
    /\ UNCHANGED <<roomid, sessionid, users, sessionVars, idseed, exited>>

-----------------------------------------------------------------------------
(* Rooms, under CRoom::_lk.                                                *)

EnterRoomFull(c) ==
    /\ At(c, "EnterRoom")
    /\ Cardinality(users[target[c]]) >= Capacity[target[c]] \/ c \in users[target[c]]
    /\ Return(c)
    /\ UNCHANGED <<state, clientVars, users, sessionVars, idseed, exited>>

EnterRoom(c) ==
    /\ At(c, "EnterRoom")
    /\ Cardinality(users[target[c]]) < Capacity[target[c]] /\ c \notin users[target[c]]
    /\ users' = [users EXCEPT ![target[c]] = @ \cup {c}]
    /\ Goto(c, "EnterRoomDone")
    /\ UNCHANGED <<state, clientVars, target, sessionVars, idseed, exited>>

EnterRoomDone(c) ==
    /\ At(c, "EnterRoomDone")
    /\ state' = [state EXCEPT ![c] = "Idle"]
    /\ roomid' = [roomid EXCEPT ![c] = target[c]]
    /\ Return(c)
    /\ UNCHANGED <<sessionid, hangup, users, sessionVars, idseed, exited>>

LeaveRoom(c) ==
    /\ At(c, "LeaveRoom")
    /\ IF roomid[c] \notin Rooms THEN Fail("leaveRoom")
       ELSE IF c \notin users[roomid[c]] THEN Fail("leaveRoom member")
       ELSE /\ users' = [users EXCEPT ![roomid[c]] = @ \ {c}]
            /\ Goto(c, "LeaveRoomDone")
            /\ UNCHANGED <<state, clientVars, target, sessionVars, idseed, exited>>

(* Mutant: the cleanup of a broken line stops after the room.              *)
LeaveRoomDoneStops(c) ==
    /\ At(c, "LeaveRoomDone")
    /\ state' = [state EXCEPT ![c] = "Online"]
    /\ roomid' = [roomid EXCEPT ![c] = -1]
    /\ Goto(c, "idle")
    /\ UNCHANGED <<sessionid, hangup, target, users, sessionVars, idseed, exited>>

LeaveRoomDone(c) ==
    /\ At(c, "LeaveRoomDone")
    /\ state' = [state EXCEPT ![c] = "Online"]
    /\ roomid' = [roomid EXCEPT ![c] = -1]
    /\ Goto(c, IF hangup[c] THEN "DelClient" ELSE "idle")
    /\ UNCHANGED <<sessionid, hangup, target, users, sessionVars, idseed, exited>>

-----------------------------------------------------------------------------
(* Creating a session.  The room is only asked whether the client is in    *)
(* it; the id is drawn with no lock held, as a load and a store of idseed  *)
(* (the optimised build keeps the new value in a register for the result); *)
(* the session is put into the map under CRoom::_slk.                      *)

NewSession(c) ==
    /\ At(c, "NewSession")
    /\ IF state[c] # "Idle" \/ roomid[c] \notin Rooms THEN Fail("createSession state")
       ELSE IF c \notin users[roomid[c]] THEN Fail("createSession member")
       ELSE /\ target' = [target EXCEPT ![c] = idseed]
            /\ Goto(c, "GenId")
            /\ UNCHANGED <<state, clientVars, users, sessionVars, idseed, exited>>

(* Mutant: ids start at 0.                                                 *)
genidFromZero(c) ==
    /\ At(c, "GenId")
    /\ idseed' = (target[c] + 1) % Modulus
    /\ target' = [target EXCEPT ![c] = idseed']
    /\ Goto(c, "Publish")
    /\ UNCHANGED <<state, clientVars, users, sessionVars, exited>>

genid(c) ==
    /\ At(c, "GenId")
    /\ idseed' = (target[c] + 1) % Modulus
    /\ target' = [target EXCEPT ![c] = idseed' + 1]
    /\ Goto(c, "Publish")
    /\ UNCHANGED <<state, clientVars, users, sessionVars, exited>>

Publish(c) ==
    LET r == roomid[c]  s == target[c] IN
    /\ At(c, "Publish")
    /\ live' = [live EXCEPT ![r] = @ \cup {s}]
    /\ owner' = [owner EXCEPT ![r][s] = c]
    /\ opponent' = [opponent EXCEPT ![r][s] = NoClient]
    /\ watchers' = [watchers EXCEPT ![r][s] = {}]
    /\ Goto(c, "NewSessionDone")
    /\ UNCHANGED <<state, clientVars, target, users, idseed, exited>>

(* createSession, enterSession: the client takes the session for its own.  *)
TakeSession(c, label, st) ==
    /\ At(c, label)
    /\ state' = [state EXCEPT ![c] = st]
    /\ sessionid' = [sessionid EXCEPT ![c] = target[c]]
    /\ Return(c)
    /\ UNCHANGED <<roomid, hangup, users, sessionVars, idseed, exited>>

NewSessionDone(c) == TakeSession(c, "NewSessionDone", "Sessional")
EnterSessionDone(c) == TakeSession(c, "EnterSessionDone", "Sessional")
WatchSessionDone(c) == TakeSession(c, "WatchSessionDone", "Watching")

-----------------------------------------------------------------------------
(* Joining and leaving a session, under CRoom::_slk and CSession::_lk.     *)

SeatsTaken(r, s) == owner[r][s] # NoClient /\ opponent[r][s] # NoClient

(* No such session, or no seat or watching place left in it.               *)
Refuse(c) ==
    /\ Return(c)
    /\ UNCHANGED <<state, clientVars, users, sessionVars, idseed, exited>>

(* CSession::enter: the seat that is free; when both are, neither, and the *)
(* caller is told that it has entered all the same.                        *)
enter(c, r, s) ==
    /\ opponent' = IF owner[r][s] # NoClient
                   THEN [opponent EXCEPT ![r][s] = c] ELSE opponent
    /\ owner' = IF owner[r][s] = NoClient /\ opponent[r][s] # NoClient
                THEN [owner EXCEPT ![r][s] = c] ELSE owner

EnterSession(c) ==
    LET r == roomid[c]  s == target[c] IN
    /\ At(c, "EnterSession")
    /\ IF r \notin Rooms \/ sessionid[c] >= 0 THEN Fail("enterSession")
       ELSE IF s \notin live[r] \/ SeatsTaken(r, s) THEN Refuse(c)
       ELSE /\ enter(c, r, s)
            /\ Goto(c, "EnterSessionDone")
            /\ UNCHANGED <<state, clientVars, target, users, live, watchers, idseed, exited>>

WatchSession(c) ==
    LET r == roomid[c]  s == target[c] IN
    /\ At(c, "WatchSession")
    /\ IF r \notin Rooms \/ sessionid[c] >= 0 THEN Fail("watchSession")
       ELSE IF s \notin live[r] \/ Cardinality(watchers[r][s]) >= WatcherCount THEN Refuse(c)
       ELSE /\ watchers' = [watchers EXCEPT ![r][s] = @ \cup {c}]
            /\ Goto(c, "WatchSessionDone")
            /\ UNCHANGED <<state, clientVars, target, users, live, owner, opponent, idseed, exited>>

(* Mutant: when a player leaves, both seats are given up.                  *)
leaveBothSeats(c, r, s) ==
    IF c \in {owner[r][s], opponent[r][s]}
    THEN /\ owner' = [owner EXCEPT ![r][s] = NoClient]
         /\ opponent' = [opponent EXCEPT ![r][s] = NoClient]
         /\ UNCHANGED watchers
    ELSE /\ watchers' = [watchers EXCEPT ![r][s] = @ \ {c}]
         /\ UNCHANGED <<owner, opponent>>

(* CSession::leave gives up the first place it finds and counts who is     *)
(* left; the session goes when that is nobody.                             *)
leave(c, r, s) ==
    /\ owner' = IF owner[r][s] = c THEN [owner EXCEPT ![r][s] = NoClient] ELSE owner
    /\ opponent' = IF owner[r][s] # c /\ opponent[r][s] = c
                   THEN [opponent EXCEPT ![r][s] = NoClient] ELSE opponent
    /\ watchers' = IF c \notin {owner[r][s], opponent[r][s]}
                   THEN [watchers EXCEPT ![r][s] = @ \ {c}] ELSE watchers

(* Mutant: watchers do not count.                                          *)
EmptiedOfPlayers(c, r, s) == {owner[r][s], opponent[r][s]} \subseteq {c, NoClient}

(* Mutant: only the owner closes the session.                              *)
EmptiedByOwner(c, r, s) == owner[r][s] = c /\ Members(r, s) = {c}

Emptied(c, r, s) == Members(r, s) = {c}

LeaveSession(c) ==
    LET r == roomid[c]  s == sessionid[c] IN
    /\ At(c, "LeaveSession")
    /\ IF r \notin Rooms \/ s <= 0 THEN Fail("leaveSession")
       ELSE IF s \notin live[r] THEN Fail("leaveSession gone")
       ELSE IF c \notin Place(r, s) THEN Fail("leaveSession member")
       ELSE /\ leave(c, r, s)
            /\ live' = IF Emptied(c, r, s) THEN [live EXCEPT ![r] = @ \ {s}] ELSE live
            /\ Goto(c, "LeaveSessionDone")
            /\ UNCHANGED <<state, clientVars, target, users, idseed, exited>>

LeaveSessionDone(c) ==
    /\ At(c, "LeaveSessionDone")
    /\ state' = [state EXCEPT ![c] = "Idle"]
    /\ sessionid' = [sessionid EXCEPT ![c] = -1]
    /\ Goto(c, IF ~hangup[c] THEN "idle" ELSE IF roomid[c] > 0 THEN "LeaveRoom" ELSE "DelClient")
    /\ UNCHANGED <<roomid, hangup, target, users, sessionVars, idseed, exited>>

-----------------------------------------------------------------------------
(* Ready, under both locks: the client's own state is written there, and   *)
(* the second player to be ready puts both into the game.                  *)

Partner(c, r, s) == IF owner[r][s] = c THEN opponent[r][s] ELSE owner[r][s]

updatePlayersState(st, r, s) ==
    [st EXCEPT ![owner[r][s]] = IF Red = 0 THEN "Moving" ELSE "Pondering",
               ![opponent[r][s]] = IF Red = 0 THEN "Pondering" ELSE "Moving"]

(* Mutant: only the opponent's Ready starts the game.                      *)
OwnerReady(c, r, s) ==
    /\ opponent[r][s] = c /\ Partner(c, r, s) # NoClient
    /\ state[Partner(c, r, s)] = "Ready"

(* Mutant: the partner need not be ready.                                  *)
PartnerThere(c, r, s) == Partner(c, r, s) # NoClient

PartnerReady(c, r, s) ==
    /\ Partner(c, r, s) # NoClient
    /\ state[Partner(c, r, s)] = "Ready"

Ready(c) ==
    LET r == roomid[c]  s == sessionid[c]  st == [state EXCEPT ![c] = "Ready"] IN
    /\ At(c, "Ready")
    /\ IF r \notin Rooms \/ s <= 0 THEN Fail("doReady")
       ELSE IF s \notin live[r] THEN Fail("doReady gone")
       ELSE IF c \notin {owner[r][s], opponent[r][s]} THEN Fail("ready seat")
       ELSE /\ state' = IF PartnerReady(c, r, s) THEN updatePlayersState(st, r, s) ELSE st
            /\ Return(c)
            /\ UNCHANGED <<clientVars, users, sessionVars, idseed, exited>>

-----------------------------------------------------------------------------
(* The steps of a handler that is running.                                 *)
Handler(c) ==
    \/ EnterRoomFull(c) \/ EnterRoom(c) \/ EnterRoomDone(c)
    \/ LeaveRoom(c) \/ LeaveRoomDone(c)
    \/ NewSession(c) \/ genid(c) \/ Publish(c) \/ NewSessionDone(c)
    \/ EnterSession(c) \/ EnterSessionDone(c)
    \/ WatchSession(c) \/ WatchSessionDone(c)
    \/ LeaveSession(c) \/ LeaveSessionDone(c)
    \/ Ready(c) \/ DelClient(c)

Request(c) == \E msg \in DOMAIN msghnds : \E t \in Targets(msg) : Accept(c, msg, t)

Step(c) == Login(c) \/ Request(c) \/ Hangup(c) \/ Handler(c)

(* The process is gone.                                                    *)
Exited == exited # "none" /\ UNCHANGED vars

Next == (\E c \in Clients : Step(c)) \/ Exited

Spec == Init /\ [][Next]_vars

(* A worker that has a job runs it to its end.                             *)
Fairness == \A c \in Clients : WF_vars(Handler(c))

FairSpec == Spec /\ Fairness

-----------------------------------------------------------------------------
TypeOK ==
    /\ state \in [Clients -> States]
    /\ roomid \in [Clients -> Rooms \cup {-1}]
    /\ sessionid \in [Clients -> Ids \cup {-1}]
    /\ pc \in [Clients -> Labels]
    /\ target \in [Clients -> Int]
    /\ hangup \in [Clients -> BOOLEAN]
    /\ users \in [Rooms -> SUBSET Clients]
    /\ live \in [Rooms -> SUBSET Ids]
    /\ owner \in [Rooms -> [Ids -> Clients \cup {NoClient}]]
    /\ opponent \in [Rooms -> [Ids -> Clients \cup {NoClient}]]
    /\ watchers \in [Rooms -> [Ids -> SUBSET Clients]]
    /\ idseed \in Nat
    /\ exited \in Asserts \cup {"none"}

(* However many clients knock at once, a room never holds more than its    *)
(* configured capacity (CRoom::enter).                                     *)
RoomCapacity == \A r \in Rooms : Cardinality(users[r]) <= Capacity[r]

(* A client at rest is on the list of exactly the room it believes to be   *)
(* in, and on none while it is Online or Offline: a broken line or a leave *)
(* never leaves its name behind (enterRoom, leaveRoom, doWork).            *)
RoomsAgree ==
    \A c \in Clients : pc[c] = "idle" =>
        \A r \in Rooms : c \in users[r] <=>
            roomid[c] = r /\ state[c] \notin {"Offline", "Online"}

(* Whoever holds a place in a session of a room is in that room, and at    *)
(* rest believes to be in that session, as a watcher exactly when it is    *)
(* one: no session keeps a client that has gone elsewhere.                 *)
MembersAgree ==
    \A r \in Rooms, s \in Ids : \A c \in Members(r, s) :
        /\ s \in live[r] /\ c \in users[r]
        /\ pc[c] = "idle" =>
              /\ roomid[c] = r /\ sessionid[c] = s
              /\ c \in watchers[r][s] <=> state[c] = "Watching"

(* Nobody plays against himself, watches his own game or sits in two       *)
(* sessions, whatever the interleaving of requests.                        *)
NobodyTwice ==
    \A r \in Rooms, s \in Ids :
        /\ owner[r][s] # NoClient => owner[r][s] # opponent[r][s]
        /\ {owner[r][s], opponent[r][s]} \cap watchers[r][s] = {}
        /\ \A q \in Rooms, t \in Ids :
              Members(r, s) \cap Members(q, t) # {} => r = q /\ s = t

(* Every place in a session belongs to one client that knows of it and     *)
(* holds no other (CSession::enter, watch, leave and the cleanup).         *)
PlacesAgree == MembersAgree /\ NobodyTwice

(* A session in the map has somebody in it: the last one out removes it    *)
(* (CRoom::leaveSession).                                                  *)
NoEmptySession == \A r \in Rooms : \A s \in live[r] : Members(r, s) # {}

(* Two seated players are never both waiting in Ready: the second Ready    *)
(* starts the game, because CSession::ready writes and compares the states *)
(* under one lock.                                                         *)
NoMissedStart ==
    \A r \in Rooms, s \in Ids :
        SeatsTaken(r, s) => ~(state[owner[r][s]] = "Ready" /\ state[opponent[r][s]] = "Ready")

(* The two players of a session are never both to move nor both waiting.   *)
OneMover ==
    \A r \in Rooms, s \in Ids :
        SeatsTaken(r, s) /\ state[owner[r][s]] \in Playing =>
            state[owner[r][s]] # state[opponent[r][s]]

(* The states of the two players of a session fit together: no start is    *)
(* missed, and exactly one of two who play is to move (CSession::ready).   *)
PlayersAgree == NoMissedStart /\ OneMover

(* A game starts only for a client in a seat whose partner sits in the     *)
(* other one, starts in the same step on the other side, and one of the    *)
(* two had said Ready before.                                              *)
StartsInPairs ==
    \A c \in Clients : state[c] \notin Playing /\ state'[c] \in Playing =>
        \E r \in Rooms, s \in Ids : \E d \in Clients \ {c} :
            /\ {owner[r][s], opponent[r][s]} = {c, d}
            /\ {state'[c], state'[d]} = Playing
            /\ "Ready" \in {state[c], state[d]}

StartsTogether == [][StartsInPairs]_vars

(* The ASSERTs of the handlers about rooms, and the one about the session  *)
(* id at hand, hold under every interleaving: none of them ends the        *)
(* process (ccni_msghnds.cpp:189, 238, 264, 294, 318, 463, room.cpp:222).  *)
RoomAsserts ==
    exited \notin {"createSession state", "createSession member", "leaveRoom",
                   "leaveRoom member", "enterSession", "watchSession",
                   "leaveSession", "doReady"}

(* The session that a client believes to be in, or is about to: the steps  *)
(* after the lock has been released included.                              *)
Session(c) ==
    CASE pc[c] \in {"NewSessionDone", "EnterSessionDone", "WatchSessionDone"} -> target[c]
      [] pc[c] = "LeaveSessionDone" -> -1
      [] OTHER -> sessionid[c]

(* The session has gone, or does not know the client.                      *)
Lost(c) ==
    Session(c) # -1 /\ (Session(c) \notin live[roomid[c]] \/ c \notin Place(roomid[c], Session(c)))

(* The client enters a session whose two seats are free (room.cpp:121).    *)
TakesNoSeat(c) ==
    /\ pc[c] = "EnterSession" /\ pc'[c] = "EnterSessionDone"
    /\ {owner[roomid[c]][target[c]], opponent[roomid[c]][target[c]]} = {NoClient}

(* A new session gets the id of the one c is in, and its place in the map  *)
(* of the room (room.h:83).                                                *)
IsReplaced(c) ==
    \E d \in Clients \ {c} :
        /\ pc[d] = "Publish" /\ pc'[d] = "NewSessionDone"
        /\ roomid[d] = roomid[c] /\ target[d] = Session(c)

(* A client is lost in these two ways and in no other, whatever the others *)
(* enter, watch, leave or close meanwhile, and only the handler of one     *)
(* that is lost already fails an ASSERT.                                   *)
LossesExplained ==
    [][ /\ \A c \in Clients : ~Lost(c) /\ Lost(c)' => TakesNoSeat(c) \/ IsReplaced(c)
        /\ exited' # exited => \E c \in Busy : Lost(c) ]_vars

(* The ASSERT of CRoom::leaveSession: the client that leaves is found in   *)
(* its session.                                                            *)
LeaveFindsClient == exited # "leaveSession member"

(* The ASSERT(false) of CSession::ready: the client that is ready sits in  *)
(* its session.                                                            *)
ReadyFindsSeat == exited # "ready seat"

(* client.h on Pondering: the game has begun and the client waits for the  *)
(* other side to move.  When no handler runs there is then another side in *)
(* the session, and it is Moving.                                          *)
PonderingHasMover ==
    \A c \in Clients : Busy = {} /\ state[c] = "Pondering" =>
        \E d \in Clients :
            /\ state[d] = "Moving"
            /\ {owner[roomid[c]][sessionid[c]], opponent[roomid[c]][sessionid[c]]} = {c, d}

(* A broken line is cleaned up: the client ends Offline, out of every room *)
(* and session, whatever the other worker's handler does meanwhile, unless *)
(* an ASSERT ends the process first.                                       *)
HangupEnds ==
    \A c \in Clients : hangup[c] ~>
        \/ exited # "none"
        \/ /\ state[c] = "Offline"
           /\ \A r \in Rooms : c \notin users[r] /\ \A s \in Ids : c \notin Place(r, s)
=============================================================================
