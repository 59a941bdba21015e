----------------------------- MODULE HallProofs -----------------------------
(***************************************************************************)
(* What the hall guarantees for every number of clients, rooms, session    *)
(* ids and worker threads, with session ids that collide, sessions that    *)
(* are overwritten and ASSERTs that end the process all allowed; and, in   *)
(* the last part, which ways lead to such an ASSERT.                       *)
(***************************************************************************)
EXTENDS Hall, FiniteSetTheorems, TLAPS

(* Where a client can be.                                                  *)
Outside(c) == state[c] \in {"Offline", "Online"} /\ roomid[c] = -1 /\ sessionid[c] = -1
Lounge(c) == state[c] = "Idle" /\ roomid[c] \in Rooms /\ sessionid[c] = -1
Engaged(c) == state[c] \in InSession \cup Playing /\ roomid[c] \in Rooms /\ sessionid[c] \in Ids

(* Where it is at each label of its handler.                               *)
Control ==
    \A c \in Clients :
        /\ pc[c] = "idle" => Outside(c) \/ Lounge(c) \/ Engaged(c)
        /\ pc[c] \in {"EnterRoom", "EnterRoomDone"} => Outside(c) /\ target[c] \in Rooms
        /\ pc[c] \in {"LeaveRoom", "LeaveRoomDone", "NewSession"} => Lounge(c)
        /\ pc[c] = "GenId" => Lounge(c) /\ target[c] \in Nat
        /\ pc[c] \in {"Publish", "NewSessionDone", "EnterSession", "EnterSessionDone",
                      "WatchSession", "WatchSessionDone"} => Lounge(c) /\ target[c] \in Ids
        /\ pc[c] \in {"LeaveSession", "LeaveSessionDone"} => Engaged(c)
        /\ pc[c] = "Ready" => Engaged(c) /\ state[c] = "Sessional"
        /\ pc[c] = "DelClient" => Outside(c)

(* The room lists hold exactly the clients between the two locked steps.   *)
InRoom(c, r) ==
    \/ roomid[c] = r /\ pc[c] # "LeaveRoomDone"
    \/ pc[c] = "EnterRoomDone" /\ target[c] = r

RoomLists == \A r \in Rooms, c \in Clients : c \in users[r] <=> InRoom(c, r)

(* A place is held only by its client: one that knows it, or is just about *)
(* to, in the role it will know it by.                                     *)
Holds(c, r, s) ==
    /\ roomid[c] = r
    /\ \/ sessionid[c] = s /\ pc[c] # "LeaveSessionDone"
       \/ /\ pc[c] \in {"NewSessionDone", "EnterSessionDone", "WatchSessionDone"}
          /\ target[c] = s

Players(r, s) == {owner[r][s], opponent[r][s]} \ {NoClient}

PlayerOf(c, r, s) ==
    /\ Holds(c, r, s) /\ pc[c] # "WatchSessionDone" /\ state[c] # "Watching"
    /\ s \in live[r]

WatcherOf(c, r, s) ==
    /\ Holds(c, r, s) /\ pc[c] \notin {"NewSessionDone", "EnterSessionDone"}
    /\ pc[c] = "WatchSessionDone" \/ state[c] = "Watching"
    /\ s \in live[r]

Seating ==
    \A r \in Rooms, s \in Ids :
        /\ \A c \in Players(r, s) : PlayerOf(c, r, s)
        /\ \A c \in watchers[r][s] : WatcherOf(c, r, s)
        /\ owner[r][s] # NoClient => owner[r][s] # opponent[r][s]

IInv == TypeOK /\ Control /\ RoomLists /\ Seating

-----------------------------------------------------------------------------
(* Room ids and session ids are positive: never the -1 of "nowhere".       *)
LEMMA Positive == \A n \in Rooms \cup Ids : n \in Int /\ n > 0
BY HallAssumption DEF HallAssumption, Ids

(* Writing one entry of a table of sessions changes that entry only.       *)
LEMMA EntryWritten ==
    ASSUME NEW S, NEW f \in [Rooms -> [Ids -> S]],
           NEW r \in Rooms, NEW s \in Ids, NEW v \in S
    PROVE  LET g == [f EXCEPT ![r][s] = v] IN
           /\ g \in [Rooms -> [Ids -> S]]
           /\ g[r][s] = v
           /\ \A q \in Rooms, t \in Ids : q # r \/ t # s => g[q][t] = f[q][t]
OBVIOUS

(* A client in the lounge, and not about to take a place, holds none.      *)
LEMMA NoPlaceInLounge ==
    ASSUME IInv, NEW c \in Clients, Lounge(c),
           pc[c] \notin {"NewSessionDone", "EnterSessionDone", "WatchSessionDone"},
           NEW r \in Rooms, NEW s \in Ids
    PROVE  c # owner[r][s] /\ c # opponent[r][s] /\ c \notin watchers[r][s]
BY HallAssumption DEF HallAssumption, IInv, TypeOK, Seating, Players, PlayerOf, WatcherOf, Holds, Lounge, Ids

(* Nor does a client outside every room.                                   *)
LEMMA NoPlaceOutside ==
    ASSUME IInv, NEW c \in Clients, Outside(c),
           NEW r \in Rooms, NEW s \in Ids
    PROVE  c # owner[r][s] /\ c # opponent[r][s] /\ c \notin watchers[r][s]
BY HallAssumption DEF HallAssumption, IInv, TypeOK, Seating, Players, PlayerOf, WatcherOf, Holds, Outside

(* An ASSERT that ends the process leaves everything else as it was.       *)
LEMMA FailStep ==
    ASSUME IInv, NEW w \in Asserts, Fail(w)
    PROVE  IInv'
<1> USE DEF Fail, clientVars, sessionVars, IInv
<1>1. TypeOK'
  BY DEF TypeOK
<1>2. Control' /\ RoomLists'
  BY DEF Control, Outside, Lounge, Engaged, RoomLists, InRoom
<1>3. Seating'
  BY DEF Seating, Players, PlayerOf, WatcherOf, Holds
<1>4. QED
  BY <1>1, <1>2, <1>3

(* Deleting the client keeps the inductive invariant.                      *)
LEMMA DelClientStep ==
    ASSUME IInv, NEW c \in Clients, DelClient(c)
    PROVE  IInv'
<1> USE HallAssumption DEF HallAssumption, IInv, DelClient, At, Goto, Return, clientVars, sessionVars, InSession, Playing
<1>1. TypeOK'
  BY DEF TypeOK, Labels, States, Control, Lounge, Outside, Engaged, Ids, msghnds
<1>2. Control'
  BY DEF TypeOK, Control, Lounge, Outside, Engaged, Ids
<1>3. RoomLists'
  BY DEF TypeOK, RoomLists, InRoom, Control, Lounge, Outside, Engaged
<1>4. Seating'
  BY DEF TypeOK, Seating, Players, PlayerOf, WatcherOf, Holds, Control, Lounge, Outside, Engaged, Ids
<1>5. QED
  BY <1>1, <1>2, <1>3, <1>4

(* A refusal at the door of a room keeps the inductive invariant.          *)
LEMMA EnterRoomFullStep ==
    ASSUME IInv, NEW c \in Clients, EnterRoomFull(c)
    PROVE  IInv'
<1> USE HallAssumption DEF HallAssumption, IInv, EnterRoomFull, At, Goto, Return, clientVars, sessionVars, InSession, Playing
<1>1. TypeOK'
  BY DEF TypeOK, Labels, States, Control, Lounge, Outside, Engaged, Ids, msghnds
<1>2. Control'
  BY DEF TypeOK, Control, Lounge, Outside, Engaged, Ids
<1>3. RoomLists'
  BY DEF TypeOK, RoomLists, InRoom, Control, Lounge, Outside, Engaged
<1>4. Seating'
  BY DEF TypeOK, Seating, Players, PlayerOf, WatcherOf, Holds, Control, Lounge, Outside, Engaged, Ids
<1>5. QED
  BY <1>1, <1>2, <1>3, <1>4

(* Being put on the list of a room keeps the inductive invariant.          *)
LEMMA EnterRoomStep ==
    ASSUME IInv, NEW c \in Clients, EnterRoom(c)
    PROVE  IInv'
<1> USE HallAssumption DEF HallAssumption, IInv, EnterRoom, At, Goto, Return, clientVars, sessionVars, InSession, Playing
<1>1. TypeOK'
  BY DEF TypeOK, Labels, States, Control, Lounge, Outside, Engaged, Ids, msghnds
<1>2. Control'
  BY DEF TypeOK, Control, Lounge, Outside, Engaged, Ids
<1>3. RoomLists'
  BY DEF TypeOK, RoomLists, InRoom, Control, Lounge, Outside, Engaged
<1>4. Seating'
  BY DEF TypeOK, Seating, Players, PlayerOf, WatcherOf, Holds, Control, Lounge, Outside, Engaged, Ids
<1>5. QED
  BY <1>1, <1>2, <1>3, <1>4

(* Noting the room entered keeps the inductive invariant.                  *)
LEMMA EnterRoomDoneStep ==
    ASSUME IInv, NEW c \in Clients, EnterRoomDone(c)
    PROVE  IInv'
<1> USE HallAssumption DEF HallAssumption, IInv, EnterRoomDone, At, Goto, Return, clientVars, sessionVars, InSession, Playing
<1>1. TypeOK'
  BY DEF TypeOK, Labels, States, Control, Lounge, Outside, Engaged, Ids, msghnds
<1>2. Control'
  BY DEF TypeOK, Control, Lounge, Outside, Engaged, Ids
<1>3. RoomLists'
  BY DEF TypeOK, RoomLists, InRoom, Control, Lounge, Outside, Engaged
<1>4. Seating'
  BY DEF TypeOK, Seating, Players, PlayerOf, WatcherOf, Holds, Control, Lounge, Outside, Engaged, Ids
<1>5. QED
  BY <1>1, <1>2, <1>3, <1>4

(* Noting that the room is left keeps the inductive invariant.             *)
LEMMA LeaveRoomDoneStep ==
    ASSUME IInv, NEW c \in Clients, LeaveRoomDone(c)
    PROVE  IInv'
<1> USE HallAssumption DEF HallAssumption, IInv, LeaveRoomDone, At, Goto, Return, clientVars, sessionVars, InSession, Playing
<1>1. TypeOK'
  BY DEF TypeOK, Labels, States, Control, Lounge, Outside, Engaged, Ids, msghnds
<1>2. Control'
  BY DEF TypeOK, Control, Lounge, Outside, Engaged, Ids
<1>3. RoomLists'
  BY DEF TypeOK, RoomLists, InRoom, Control, Lounge, Outside, Engaged
<1>4. Seating'
  BY DEF TypeOK, Seating, Players, PlayerOf, WatcherOf, Holds, Control, Lounge, Outside, Engaged, Ids
<1>5. QED
  BY <1>1, <1>2, <1>3, <1>4

(* Drawing a session id keeps the inductive invariant.                     *)
LEMMA genidStep ==
    ASSUME IInv, NEW c \in Clients, genid(c)
    PROVE  IInv'
<1> USE HallAssumption DEF HallAssumption, IInv, genid, At, Goto, Return, clientVars, sessionVars, InSession, Playing
<1>a. target[c] \in Nat
  BY DEF Control
<1>b. idseed' \in Nat /\ idseed' + 1 \in Int
  BY <1>a
<1>c. target' \in [Clients -> Int] /\ pc' \in [Clients -> Labels]
  BY <1>b DEF TypeOK, Labels
<1>1. TypeOK'
  BY <1>b, <1>c DEF TypeOK
<1>2. Control'
  BY DEF TypeOK, Control, Lounge, Outside, Engaged, Ids
<1>3. RoomLists'
  BY DEF TypeOK, RoomLists, InRoom, Control, Lounge, Outside, Engaged
<1>4. Seating'
  BY DEF TypeOK, Seating, Players, PlayerOf, WatcherOf, Holds, Control, Lounge, Outside, Engaged, Ids
<1>5. QED
  BY <1>1, <1>2, <1>3, <1>4

(* A login keeps the inductive invariant.                                  *)
LEMMA LoginStep ==
    ASSUME IInv, NEW c \in Clients, Login(c)
    PROVE  IInv'
<1> USE HallAssumption DEF HallAssumption, IInv, Login, At, clientVars, sessionVars
<1>1. Outside(c) /\ pc[c] = "idle"
  BY DEF Control, Outside, Lounge, Engaged, InSession, Playing
<1>2. TypeOK'
  BY DEF TypeOK, States
<1>3. Control'
  BY <1>1 DEF TypeOK, Control, Lounge, Outside, Engaged
<1>4. RoomLists'
  BY <1>1 DEF TypeOK, RoomLists, InRoom, Outside
<1>5. Seating'
  BY <1>1, NoPlaceOutside DEF TypeOK, Seating, Players, PlayerOf, WatcherOf, Holds
<1>6. QED
  BY <1>2, <1>3, <1>4, <1>5

(* Noting that the session is left keeps the inductive invariant.          *)
LEMMA LeaveSessionDoneStep ==
    ASSUME IInv, NEW c \in Clients, LeaveSessionDone(c)
    PROVE  IInv'
<1> USE HallAssumption DEF HallAssumption, IInv, LeaveSessionDone, At, Goto, clientVars, sessionVars
<1>1. Engaged(c) /\ pc[c] = "LeaveSessionDone"
  BY DEF Control
<1>2. pc' = [pc EXCEPT ![c] = "idle"] \/ pc' = [pc EXCEPT ![c] = "LeaveRoom"]
  <2>1. roomid[c] > 0
    BY <1>1, Positive DEF Engaged
  <2>2. CASE hangup[c]
    BY <2>1, <2>2
  <2>3. CASE ~hangup[c]
    BY <2>3
  <2>4. QED
    BY <2>2, <2>3
<1>3. TypeOK'
  BY <1>2 DEF TypeOK, States, Labels, msghnds
<1>4. Control'
  BY <1>1, <1>2 DEF TypeOK, Control, Lounge, Outside, Engaged
<1>5. RoomLists'
  BY <1>1, <1>2 DEF TypeOK, RoomLists, InRoom
<1>6. Seating'
  BY <1>1, <1>2 DEF TypeOK, Seating, Players, PlayerOf, WatcherOf, Holds
<1>7. QED
  BY <1>3, <1>4, <1>5, <1>6

(* Letting a message through keeps the inductive invariant.                *)
LEMMA AcceptStep ==
    ASSUME IInv, NEW c \in Clients, Request(c)
    PROVE  IInv'
<1>1. PICK msg \in DOMAIN msghnds : \E t \in Targets(msg) : Accept(c, msg, t)
  BY DEF Request
<1>2. PICK t \in Targets(msg) : Accept(c, msg, t)
  BY <1>1
<1> USE HallAssumption DEF HallAssumption, IInv, Accept, At, Goto, clientVars, sessionVars
<1>3. msg \in {"EnterRoom", "LeaveRoom", "NewSession", "EnterSession", "LeaveSession",
               "WatchSession", "Ready"}
  BY DEF msghnds
<1>4. t \in Int /\ (msg = "EnterRoom" => t \in Rooms)
               /\ (msg \in {"EnterSession", "WatchSession"} => t \in Ids)
  BY <1>3 DEF Targets, Ids
<1>5. /\ msg = "EnterRoom" => Outside(c)
      /\ msg \in {"LeaveRoom", "NewSession", "EnterSession", "WatchSession"} => Lounge(c)
      /\ msg = "LeaveSession" => Engaged(c)
      /\ msg = "Ready" => Engaged(c) /\ state[c] = "Sessional"
  BY <1>2, <1>3 DEF Control, msghnds, Outside, Lounge, Engaged, InSession, Playing
<1>6. TypeOK'
  BY <1>2, <1>3, <1>4 DEF TypeOK, Labels
<1>7. Control'
  BY <1>2, <1>3, <1>4, <1>5 DEF TypeOK, Control, Lounge, Outside, Engaged
<1>8. RoomLists'
  BY <1>2, <1>3 DEF TypeOK, RoomLists, InRoom
<1>9. Seating'
  BY <1>2, <1>3 DEF TypeOK, Seating, Players, PlayerOf, WatcherOf, Holds
<1>10. QED
  BY <1>6, <1>7, <1>8, <1>9

(* Starting to clean up a broken line keeps the inductive invariant.       *)
LEMMA HangupStep ==
    ASSUME IInv, NEW c \in Clients, Hangup(c)
    PROVE  IInv'
<1> USE HallAssumption DEF HallAssumption, IInv, Hangup, At, Goto, clientVars, sessionVars
<1>a. Outside(c) \/ Lounge(c) \/ Engaged(c)
  BY DEF Control
<1>1. \/ Outside(c) /\ pc' = [pc EXCEPT ![c] = "DelClient"]
      \/ Lounge(c) /\ pc' = [pc EXCEPT ![c] = "LeaveRoom"]
      \/ Engaged(c) /\ pc' = [pc EXCEPT ![c] = "LeaveSession"]
  <2>1. CASE Outside(c)
    BY <2>1 DEF Outside
  <2>2. CASE Lounge(c)
    <3>1. roomid[c] > 0
      BY <2>2, Positive DEF Lounge
    <3>2. ~(sessionid[c] > 0)
      BY <2>2 DEF Lounge
    <3>3. QED
      BY <2>2, <3>1, <3>2
  <2>3. CASE Engaged(c)
    <3>1. sessionid[c] > 0
      BY <2>3, Positive DEF Engaged
    <3>2. QED
      BY <2>3, <3>1
  <2>4. QED
    BY <1>a, <2>1, <2>2, <2>3
<1>2. TypeOK'
  BY DEF TypeOK, Labels, msghnds
<1>3. Control'
  BY <1>1 DEF TypeOK, Control, Lounge, Outside, Engaged
<1>4. RoomLists'
  BY <1>1 DEF TypeOK, RoomLists, InRoom
<1>5. Seating'
  BY <1>1 DEF TypeOK, Seating, Players, PlayerOf, WatcherOf, Holds
<1>6. QED
  BY <1>2, <1>3, <1>4, <1>5

(* Being taken off the list of a room keeps the inductive invariant.       *)
LEMMA LeaveRoomStep ==
    ASSUME IInv, NEW c \in Clients, LeaveRoom(c)
    PROVE  IInv' /\ exited' = "none"
<1> USE HallAssumption DEF HallAssumption, IInv, LeaveRoom, At, Goto, clientVars, sessionVars
<1>1. Lounge(c) /\ c \in users[roomid[c]] /\ pc[c] = "LeaveRoom"
  BY DEF TypeOK, Control, RoomLists, InRoom, Lounge
<1>2. /\ users' = [users EXCEPT ![roomid[c]] = @ \ {c}]
      /\ pc' = [pc EXCEPT ![c] = "LeaveRoomDone"]
      /\ UNCHANGED <<state, clientVars, target, sessionVars, idseed, exited>>
  BY <1>1 DEF Lounge
<1> USE <1>2
<1> HIDE DEF LeaveRoom
<1>3. TypeOK'
  BY <1>1 DEF TypeOK, Labels, Lounge
<1>4. Control'
  BY <1>1 DEF TypeOK, Control, Lounge, Outside, Engaged
<1>5. RoomLists'
  BY <1>1 DEF TypeOK, RoomLists, InRoom, Lounge
<1>6. Seating'
  BY <1>1 DEF TypeOK, Seating, Players, PlayerOf, WatcherOf, Holds, Lounge
<1>7. QED
  BY <1>3, <1>4, <1>5, <1>6 DEF LeaveRoom

(* Asking the room whether the client is in it keeps the inductive invariant.*)
LEMMA NewSessionStep ==
    ASSUME IInv, NEW c \in Clients, NewSession(c)
    PROVE  IInv' /\ exited' = "none"
<1> USE HallAssumption DEF HallAssumption, IInv, NewSession, At, Goto, clientVars, sessionVars
<1>1. Lounge(c) /\ c \in users[roomid[c]] /\ pc[c] = "NewSession"
  BY DEF TypeOK, Control, RoomLists, InRoom, Lounge
<1>2. /\ target' = [target EXCEPT ![c] = idseed]
      /\ pc' = [pc EXCEPT ![c] = "GenId"]
      /\ UNCHANGED <<state, clientVars, users, sessionVars, idseed, exited>>
  BY <1>1 DEF Lounge
<1> USE <1>2
<1> HIDE DEF NewSession
<1>3. TypeOK'
  BY <1>1 DEF TypeOK, Labels
<1>4. Control'
  BY <1>1 DEF TypeOK, Control, Lounge, Outside, Engaged
<1>5. RoomLists'
  BY <1>1 DEF TypeOK, RoomLists, InRoom
<1>6. Seating'
  BY <1>1 DEF TypeOK, Seating, Players, PlayerOf, WatcherOf, Holds
<1>7. QED
  BY <1>3, <1>4, <1>5, <1>6 DEF NewSession

(* Putting a new session into the map keeps the inductive invariant.       *)
LEMMA PublishStep ==
    ASSUME IInv, NEW c \in Clients, Publish(c)
    PROVE  IInv'
<1> USE DEF IInv, Publish, At, Goto, clientVars, sessionVars
<1>0. Lounge(c) /\ roomid[c] \in Rooms /\ target[c] \in Ids /\ pc[c] = "Publish"
  BY DEF Control, Lounge
<1>1. PICK r \in Rooms, s \in Ids : r = roomid[c] /\ s = target[c]
  BY <1>0
<1>2. owner' \in [Rooms -> [Ids -> Clients \cup {NoClient}]]
      /\ owner'[r][s] = c
      /\ \A q \in Rooms, t \in Ids : q # r \/ t # s => owner'[q][t] = owner[q][t]
  <2>1. c \in Clients \cup {NoClient} /\ owner \in [Rooms -> [Ids -> Clients \cup {NoClient}]]
    BY DEF TypeOK
  <2>2. QED
    BY <1>1, <2>1, EntryWritten
<1>3. opponent' \in [Rooms -> [Ids -> Clients \cup {NoClient}]]
      /\ opponent'[r][s] = NoClient
      /\ \A q \in Rooms, t \in Ids : q # r \/ t # s => opponent'[q][t] = opponent[q][t]
  <2>1. NoClient \in Clients \cup {NoClient} /\ opponent \in [Rooms -> [Ids -> Clients \cup {NoClient}]]
    BY DEF TypeOK
  <2>2. QED
    BY <1>1, <2>1, EntryWritten
<1>4. watchers' \in [Rooms -> [Ids -> SUBSET Clients]]
      /\ watchers'[r][s] = {}
      /\ \A q \in Rooms, t \in Ids : q # r \/ t # s => watchers'[q][t] = watchers[q][t]
  <2>1. {} \in SUBSET Clients /\ watchers \in [Rooms -> [Ids -> SUBSET Clients]]
    BY DEF TypeOK
  <2>2. QED
    BY <1>1, <2>1, EntryWritten
<1>5. live' = [live EXCEPT ![r] = @ \cup {s}] /\ pc' = [pc EXCEPT ![c] = "NewSessionDone"]
      /\ UNCHANGED <<state, clientVars, target, users, idseed, exited>>
  BY <1>1
<1> HIDE DEF Publish
<1>6. TypeOK'
  BY <1>2, <1>3, <1>4, <1>5 DEF TypeOK, Labels
<1>7. Control'
  BY <1>0, <1>5 DEF TypeOK, Control, Lounge, Outside, Engaged
<1>8. RoomLists'
  BY <1>0, <1>5 DEF TypeOK, RoomLists, InRoom
<1>9. Seating'
  <2>1. c \in Clients /\ pc'[c] = "NewSessionDone" /\ roomid'[c] = r /\ target'[c] = s
        /\ s \in live'[r] /\ state'[c] # "Watching" /\ \A q \in Rooms : live[q] \subseteq live'[q]
    BY <1>0, <1>1, <1>5 DEF TypeOK, Lounge
  <2>2. \A d \in Clients, q \in Rooms, t \in Ids : d # c =>
            /\ PlayerOf(d, q, t) => PlayerOf(d, q, t)'
            /\ WatcherOf(d, q, t) => WatcherOf(d, q, t)'
    BY <1>5, <2>1 DEF TypeOK, PlayerOf, WatcherOf, Holds
  <2>3. \A q \in Rooms, t \in Ids : c # owner[q][t] /\ c # opponent[q][t] /\ c \notin watchers[q][t]
    BY <1>0, NoPlaceInLounge
  <2>4. PlayerOf(c, r, s)'
    BY <2>1 DEF PlayerOf, Holds
  <2>5. SUFFICES ASSUME NEW q \in Rooms, NEW t \in Ids
                 PROVE  /\ \A d \in Players(q, t)' : PlayerOf(d, q, t)'
                        /\ \A d \in watchers'[q][t] : WatcherOf(d, q, t)'
                        /\ owner'[q][t] # NoClient => owner'[q][t] # opponent'[q][t]
    BY DEF Seating
  <2>6. CASE q = r /\ t = s
    BY <1>2, <1>3, <1>4, <2>4, <2>6 DEF Players
  <2>7. CASE q # r \/ t # s
    BY <1>2, <1>3, <1>4, <2>2, <2>3, <2>7 DEF Players, Seating, TypeOK
  <2>8. QED
    BY <2>6, <2>7
<1>10. QED
  BY <1>6, <1>7, <1>8, <1>9

(* Noting the session taken keeps the inductive invariant.                 *)
LEMMA TakeSessionStep ==
    ASSUME IInv, NEW c \in Clients,
           NewSessionDone(c) \/ EnterSessionDone(c) \/ WatchSessionDone(c)
    PROVE  IInv'
<1> USE HallAssumption DEF HallAssumption, IInv, At, Goto, Return, clientVars, sessionVars
<1>1. PICK l \in {"NewSessionDone", "EnterSessionDone", "WatchSessionDone"},
           st \in {"Sessional", "Watching"} :
         /\ TakeSession(c, l, st)
         /\ st = "Watching" <=> l = "WatchSessionDone"
  BY DEF NewSessionDone, EnterSessionDone, WatchSessionDone
<1>2. Lounge(c) /\ target[c] \in Ids /\ pc[c] = l
  BY <1>1 DEF TakeSession, Control
<1> USE <1>1 DEF TakeSession
<1>3. TypeOK'
  BY <1>2 DEF TypeOK, States, Labels, InSession
<1>4. Control'
  BY <1>2 DEF TypeOK, Control, Lounge, Outside, Engaged, InSession
<1>5. RoomLists'
  BY <1>2 DEF TypeOK, RoomLists, InRoom
<1>6. Seating'
  <2>1. \A d \in Clients, q \in Rooms, t \in Ids :
            /\ PlayerOf(d, q, t) => PlayerOf(d, q, t)'
            /\ WatcherOf(d, q, t) => WatcherOf(d, q, t)'
    BY <1>2 DEF TypeOK, PlayerOf, WatcherOf, Holds, Lounge, Ids
  <2>2. QED
    BY <2>1 DEF TypeOK, Seating, Players
<1>7. QED
  BY <1>3, <1>4, <1>5, <1>6

(* A refusal by a session keeps the inductive invariant.                   *)
LEMMA RefuseStep ==
    ASSUME IInv, NEW c \in Clients, Refuse(c), exited' = exited,
           pc[c] \in {"EnterSession", "WatchSession"}
    PROVE  IInv'
<1> USE HallAssumption DEF HallAssumption, IInv, Refuse, Goto, Return, clientVars, sessionVars
<1>1. Lounge(c)
  BY DEF Control
<1>2. TypeOK'
  BY DEF TypeOK, Labels
<1>3. Control'
  BY <1>1 DEF TypeOK, Control, Lounge, Outside, Engaged
<1>4. RoomLists'
  BY <1>1 DEF TypeOK, RoomLists, InRoom
<1>5. Seating'
  BY DEF TypeOK, Seating, Players, PlayerOf, WatcherOf, Holds
<1>6. QED
  BY <1>2, <1>3, <1>4, <1>5

(* A client that held no place takes one, in any role, and nobody else is  *)
(* disturbed.                                                              *)
LEMMA OthersStay ==
    ASSUME IInv, NEW c \in Clients, NEW label \in Labels,
           pc' = [pc EXCEPT ![c] = label],
           UNCHANGED <<state, roomid, sessionid, target>>,
           \A r \in Rooms : live[r] \subseteq live'[r],
           NEW d \in Clients, d # c, NEW q \in Rooms, NEW t \in Ids
    PROVE  /\ PlayerOf(d, q, t) => PlayerOf(d, q, t)'
           /\ WatcherOf(d, q, t) => WatcherOf(d, q, t)'
BY DEF IInv, TypeOK, PlayerOf, WatcherOf, Holds

(* Taking a seat keeps the inductive invariant.                            *)
LEMMA EnterSessionStep ==
    ASSUME IInv, NEW c \in Clients, EnterSession(c)
    PROVE  IInv' /\ exited' = "none"
<1> USE DEF IInv, At, Goto, clientVars, sessionVars
<1>0. Lounge(c) /\ roomid[c] \in Rooms /\ target[c] \in Ids /\ pc[c] = "EnterSession"
      /\ exited = "none" /\ ~(sessionid[c] >= 0)
  BY DEF Control, Lounge, EnterSession, enter
<1>1. PICK r \in Rooms, s \in Ids : r = roomid[c] /\ s = target[c]
  BY <1>0
<1>2. CASE s \notin live[r] \/ SeatsTaken(r, s)
  <2>1. Refuse(c)
    BY <1>0, <1>1, <1>2 DEF EnterSession, enter
  <2>2. QED
    BY <1>0, <2>1, RefuseStep DEF Refuse
<1>3. CASE s \in live[r] /\ ~SeatsTaken(r, s)
  <2>1. /\ pc' = [pc EXCEPT ![c] = "EnterSessionDone"]
        /\ UNCHANGED <<state, clientVars, target, users, live, watchers, idseed, exited>>
        /\ opponent' = IF owner[r][s] # NoClient
                       THEN [opponent EXCEPT ![r][s] = c] ELSE opponent
        /\ owner' = IF owner[r][s] = NoClient /\ opponent[r][s] # NoClient
                    THEN [owner EXCEPT ![r][s] = c] ELSE owner
    BY <1>0, <1>1, <1>3 DEF EnterSession, enter
  <2>a. /\ c \in Clients \cup {NoClient}
        /\ owner \in [Rooms -> [Ids -> Clients \cup {NoClient}]]
        /\ opponent \in [Rooms -> [Ids -> Clients \cup {NoClient}]]
    BY DEF TypeOK
  <2>2. /\ owner' \in [Rooms -> [Ids -> Clients \cup {NoClient}]]
        /\ opponent' \in [Rooms -> [Ids -> Clients \cup {NoClient}]]
        /\ \A q \in Rooms, t \in Ids :
              /\ owner'[q][t] = owner[q][t] \/ (q = r /\ t = s /\ owner'[q][t] = c)
              /\ opponent'[q][t] = opponent[q][t] \/ (q = r /\ t = s /\ opponent'[q][t] = c)
              /\ owner'[q][t] = owner[q][t] \/ opponent'[q][t] = opponent[q][t]
    <3>1. CASE owner[r][s] # NoClient
      <4>1. opponent' = [opponent EXCEPT ![r][s] = c] /\ owner' = owner
        BY <2>1, <3>1
      <4>2. QED
        BY <2>a, <4>1, EntryWritten
    <3>2. CASE owner[r][s] = NoClient /\ opponent[r][s] # NoClient
      <4>1. owner' = [owner EXCEPT ![r][s] = c] /\ opponent' = opponent
        BY <2>1, <3>2
      <4>2. QED
        BY <2>a, <4>1, EntryWritten
    <3>3. CASE owner[r][s] = NoClient /\ opponent[r][s] = NoClient
      <4>1. owner' = owner /\ opponent' = opponent
        BY <2>1, <3>3
      <4>2. QED
        BY <2>a, <4>1
    <3>4. QED
      BY <3>1, <3>2, <3>3
  <2>3. TypeOK'
    BY <2>1, <2>2 DEF TypeOK, Labels
  <2>4. Control'
    BY <1>0, <2>1 DEF TypeOK, Control, Lounge, Outside, Engaged
  <2>5. RoomLists'
    BY <1>0, <2>1 DEF TypeOK, RoomLists, InRoom
  <2>6. Seating'
    <3>1. \A d \in Clients, q \in Rooms, t \in Ids : d # c =>
              /\ PlayerOf(d, q, t) => PlayerOf(d, q, t)'
              /\ WatcherOf(d, q, t) => WatcherOf(d, q, t)'
      BY <2>1, OthersStay DEF Labels
    <3>2. \A q \in Rooms, t \in Ids : c # owner[q][t] /\ c # opponent[q][t] /\ c \notin watchers[q][t]
      BY <1>0, NoPlaceInLounge
    <3>3. PlayerOf(c, r, s)'
      BY <1>0, <1>1, <1>3, <2>1 DEF TypeOK, PlayerOf, Holds, Lounge
    <3>4. SUFFICES ASSUME NEW q \in Rooms, NEW t \in Ids
                   PROVE  /\ \A d \in Players(q, t)' : PlayerOf(d, q, t)'
                          /\ \A d \in watchers'[q][t] : WatcherOf(d, q, t)'
                          /\ owner'[q][t] # NoClient => owner'[q][t] # opponent'[q][t]
      BY DEF Seating
    <3>5. \A d \in Players(q, t)' : PlayerOf(d, q, t)'
      <4>1. SUFFICES ASSUME NEW d \in Players(q, t)'
                     PROVE  PlayerOf(d, q, t)'
        OBVIOUS
      <4>2. d \in Players(q, t) \/ (d = c /\ q = r /\ t = s)
        BY <2>2 DEF Players
      <4>3. CASE d \in Players(q, t)
        <5>1. d \in Clients /\ d # c /\ PlayerOf(d, q, t)
          BY <3>2, <4>3 DEF Players, Seating, TypeOK
        <5>2. QED
          BY <3>1, <5>1
      <4>4. QED
        BY <3>3, <4>2, <4>3
    <3>6. \A d \in watchers'[q][t] : WatcherOf(d, q, t)'
      BY <2>1, <3>1, <3>2 DEF Seating, TypeOK
    <3>7. owner'[q][t] # NoClient => owner'[q][t] # opponent'[q][t]
      <4>1. c # NoClient
        BY HallAssumption DEF HallAssumption
      <4>2. c # owner[q][t] /\ c # opponent[q][t]
        BY <3>2
      <4>3. /\ owner'[q][t] = owner[q][t] \/ owner'[q][t] = c
            /\ opponent'[q][t] = opponent[q][t] \/ opponent'[q][t] = c
            /\ owner'[q][t] = owner[q][t] \/ opponent'[q][t] = opponent[q][t]
        BY <2>2
      <4>4. owner[q][t] # NoClient => owner[q][t] # opponent[q][t]
        BY DEF Seating
      <4>5. QED
        BY <4>1, <4>2, <4>3, <4>4
    <3>8. QED
      BY <3>5, <3>6, <3>7
  <2>7. QED
    BY <1>0, <2>1, <2>3, <2>4, <2>5, <2>6
<1>4. QED
  BY <1>2, <1>3

(* Starting to watch keeps the inductive invariant.                        *)
LEMMA WatchSessionStep ==
    ASSUME IInv, NEW c \in Clients, WatchSession(c)
    PROVE  IInv' /\ exited' = "none"
<1> USE DEF IInv, At, Goto, clientVars, sessionVars
<1>0. Lounge(c) /\ roomid[c] \in Rooms /\ target[c] \in Ids /\ pc[c] = "WatchSession"
      /\ exited = "none" /\ ~(sessionid[c] >= 0)
  BY DEF Control, Lounge, WatchSession
<1>1. PICK r \in Rooms, s \in Ids : r = roomid[c] /\ s = target[c]
  BY <1>0
<1>2. CASE Refuse(c)
  BY <1>0, <1>2, RefuseStep DEF Refuse
<1>3. CASE ~Refuse(c)
  <2>1. /\ s \in live[r]
        /\ pc' = [pc EXCEPT ![c] = "WatchSessionDone"]
        /\ UNCHANGED <<state, clientVars, target, users, live, owner, opponent, idseed, exited>>
        /\ watchers' = [watchers EXCEPT ![r][s] = watchers[r][s] \cup {c}]
    BY <1>0, <1>1, <1>3 DEF WatchSession
  <2>a. /\ watchers \in [Rooms -> [Ids -> SUBSET Clients]]
        /\ watchers[r][s] \cup {c} \in SUBSET Clients
    BY DEF TypeOK
  <2>2. /\ watchers' \in [Rooms -> [Ids -> SUBSET Clients]]
        /\ \A q \in Rooms, t \in Ids :
              \/ watchers'[q][t] = watchers[q][t]
              \/ q = r /\ t = s /\ watchers'[q][t] = watchers[q][t] \cup {c}
    BY <2>1, <2>a, EntryWritten
  <2>3. TypeOK'
    BY <2>1, <2>2 DEF TypeOK, Labels
  <2>4. Control'
    BY <1>0, <2>1 DEF TypeOK, Control, Lounge, Outside, Engaged
  <2>5. RoomLists'
    BY <1>0, <2>1 DEF TypeOK, RoomLists, InRoom
  <2>6. Seating'
    <3>1. \A d \in Clients, q \in Rooms, t \in Ids : d # c =>
              /\ PlayerOf(d, q, t) => PlayerOf(d, q, t)'
              /\ WatcherOf(d, q, t) => WatcherOf(d, q, t)'
      BY <2>1, OthersStay DEF Labels
    <3>2. \A q \in Rooms, t \in Ids : c # owner[q][t] /\ c # opponent[q][t] /\ c \notin watchers[q][t]
      BY <1>0, NoPlaceInLounge
    <3>3. WatcherOf(c, r, s)'
      BY <1>0, <1>1, <2>1 DEF TypeOK, WatcherOf, Holds
    <3>4. QED
      BY <2>1, <2>2, <3>1, <3>2, <3>3 DEF Seating, Players, TypeOK
  <2>7. QED
    BY <1>0, <2>1, <2>3, <2>4, <2>5, <2>6
<1>4. QED
  BY <1>2, <1>3

(* Giving up a place keeps the inductive invariant.                        *)
LEMMA LeaveSessionStep ==
    ASSUME IInv, NEW c \in Clients, LeaveSession(c)
    PROVE  IInv' /\ exited' # "leaveSession"
<1> USE DEF IInv, At, Goto, clientVars, sessionVars
<1>0. Engaged(c) /\ roomid[c] \in Rooms /\ sessionid[c] \in Ids /\ pc[c] = "LeaveSession"
      /\ exited = "none" /\ ~(sessionid[c] <= 0) /\ sessionid[c] # -1
  <2>1. Engaged(c) /\ pc[c] = "LeaveSession" /\ exited = "none"
    BY DEF Control, LeaveSession, leave, Emptied
  <2>2. \A n \in Ids : ~(n <= 0) /\ n # -1
    BY Positive
  <2>3. QED
    BY <2>1, <2>2 DEF Engaged
<1>1. PICK r \in Rooms, s \in Ids : r = roomid[c] /\ s = sessionid[c]
  BY <1>0
<1>2. CASE s \notin live[r] \/ c \notin Place(r, s)
  <2>1. Fail("leaveSession gone") \/ Fail("leaveSession member")
    BY <1>0, <1>1, <1>2 DEF LeaveSession, leave, Emptied
  <2>2. QED
    BY <2>1, FailStep DEF Fail, Asserts
<1>3. CASE s \in live[r] /\ c \in Place(r, s)
  <2>1. /\ owner' = IF owner[r][s] = c
                    THEN [owner EXCEPT ![r][s] = NoClient] ELSE owner
        /\ opponent' = IF owner[r][s] # c /\ opponent[r][s] = c
                       THEN [opponent EXCEPT ![r][s] = NoClient] ELSE opponent
        /\ watchers' = IF c \notin {owner[r][s], opponent[r][s]}
                       THEN [watchers EXCEPT ![r][s] = watchers[r][s] \ {c}] ELSE watchers
        /\ live' = IF Members(r, s) = {c} THEN [live EXCEPT ![r] = live[r] \ {s}] ELSE live
        /\ pc' = [pc EXCEPT ![c] = "LeaveSessionDone"]
        /\ UNCHANGED <<state, clientVars, target, users, idseed, exited>>
    BY <1>0, <1>1, <1>3 DEF LeaveSession, leave, Emptied
  <2>2. /\ owner' \in [Rooms -> [Ids -> Clients \cup {NoClient}]]
        /\ \A q \in Rooms, t \in Ids :
              owner'[q][t] = IF q = r /\ t = s /\ owner[r][s] = c
                             THEN NoClient ELSE owner[q][t]
    <3>1. /\ NoClient \in Clients \cup {NoClient}
          /\ owner \in [Rooms -> [Ids -> Clients \cup {NoClient}]]
      BY DEF TypeOK
    <3>2. QED
      BY <2>1, <3>1, EntryWritten
  <2>3. /\ opponent' \in [Rooms -> [Ids -> Clients \cup {NoClient}]]
        /\ \A q \in Rooms, t \in Ids :
              opponent'[q][t] = IF q = r /\ t = s /\ owner[r][s] # c /\ opponent[r][s] = c
                                THEN NoClient ELSE opponent[q][t]
    <3>1. /\ NoClient \in Clients \cup {NoClient}
          /\ opponent \in [Rooms -> [Ids -> Clients \cup {NoClient}]]
      BY DEF TypeOK
    <3>2. QED
      BY <2>1, <3>1, EntryWritten
  <2>4. /\ watchers' \in [Rooms -> [Ids -> SUBSET Clients]]
        /\ \A q \in Rooms, t \in Ids :
              watchers'[q][t] = IF q = r /\ t = s /\ c \notin {owner[r][s], opponent[r][s]}
                                THEN watchers[q][t] \ {c} ELSE watchers[q][t]
    <3>1. /\ watchers[r][s] \ {c} \in SUBSET Clients
          /\ watchers \in [Rooms -> [Ids -> SUBSET Clients]]
      BY DEF TypeOK
    <3>2. CASE c \notin {owner[r][s], opponent[r][s]}
      <4>1. PICK w \in SUBSET Clients : w = watchers[r][s] \ {c}
        BY <3>1
      <4>2. watchers' = [watchers EXCEPT ![r][s] = w]
        BY <2>1, <3>2, <4>1
      <4>3. /\ watchers' \in [Rooms -> [Ids -> SUBSET Clients]]
            /\ watchers'[r][s] = w
            /\ \A q \in Rooms, t \in Ids : q # r \/ t # s => watchers'[q][t] = watchers[q][t]
        BY <3>1, <4>2, EntryWritten
      <4>4. QED
        BY <3>2, <4>1, <4>3
    <3>3. CASE c \in {owner[r][s], opponent[r][s]}
      BY <2>1, <3>1, <3>3
    <3>4. QED
      BY <3>2, <3>3
  <2>5. /\ live' \in [Rooms -> SUBSET Ids]
        /\ \A q \in Rooms, t \in Ids : t \in live[q] => t \in live'[q] \/ (q = r /\ t = s /\ Members(r, s) = {c})
    BY <2>1 DEF TypeOK
  <2>6. TypeOK'
    BY <2>1, <2>2, <2>3, <2>4, <2>5 DEF TypeOK, Labels
  <2>7. Control'
    BY <1>0, <2>1 DEF TypeOK, Control, Lounge, Outside, Engaged
  <2>8. RoomLists'
    BY <1>0, <2>1 DEF TypeOK, RoomLists, InRoom
  <2>9. Seating'
    <3>1. \A q \in Rooms, t \in Ids :
              c \in {owner[q][t], opponent[q][t]} \cup watchers[q][t] => q = r /\ t = s
      BY <1>0, <1>1, HallAssumption DEF HallAssumption, Seating, Players, PlayerOf, WatcherOf, Holds
    <3>2. c \in {owner[r][s], opponent[r][s]} => c \notin watchers[r][s]
      BY <1>0, HallAssumption DEF HallAssumption, Seating, Players, PlayerOf, WatcherOf
    <3>3. owner[r][s] = c => opponent[r][s] # c
      BY HallAssumption DEF HallAssumption, Seating
    <3>4. SUFFICES ASSUME NEW q \in Rooms, NEW t \in Ids
                   PROVE  /\ \A d \in Players(q, t)' : PlayerOf(d, q, t)'
                          /\ \A d \in watchers'[q][t] : WatcherOf(d, q, t)'
                          /\ owner'[q][t] # NoClient => owner'[q][t] # opponent'[q][t]
      BY DEF Seating
    <3>5. \A d \in Players(q, t)' : d # c /\ d \in Players(q, t)
      BY <2>2, <2>3, <3>1, <3>3, HallAssumption DEF HallAssumption, Players
    <3>6. \A d \in watchers'[q][t] : d # c /\ d \in watchers[q][t]
      <4>1. CASE q = r /\ t = s
        BY <2>4, <3>2, <4>1
      <4>2. CASE q # r \/ t # s
        BY <2>4, <3>1, <4>2
      <4>3. QED
        BY <4>1, <4>2
    <3>7. \A d \in Players(q, t)' \cup watchers'[q][t] : t \in live[q] => t \in live'[q]
      <4>1. SUFFICES ASSUME NEW d \in Players(q, t)' \cup watchers'[q][t], t \in live[q]
                     PROVE  t \in live'[q]
        OBVIOUS
      <4>2. d # c /\ d \in Players(q, t) \cup watchers[q][t]
        BY <3>5, <3>6
      <4>3. d \in Members(q, t)
        <5>1. watchers[q][t] \subseteq Clients
          BY DEF TypeOK
        <5>2. QED
          BY <4>2, <5>1, HallAssumption DEF HallAssumption, Members, Place, Players
      <4>4. QED
        BY <2>5, <4>1, <4>2, <4>3
    <3>8. \A d \in Players(q, t)' : PlayerOf(d, q, t)'
      <4>1. \A d \in Players(q, t)' : d \in Clients /\ PlayerOf(d, q, t)
        <5>1. {owner[q][t], opponent[q][t]} \subseteq Clients \cup {NoClient}
          BY DEF TypeOK
        <5>2. QED
          BY <3>5, <5>1 DEF Seating, Players
      <4>2. QED
        BY <2>1, <3>5, <3>7, <4>1 DEF PlayerOf, Holds, TypeOK
    <3>9. \A d \in watchers'[q][t] : WatcherOf(d, q, t)'
      BY <2>1, <3>6, <3>7 DEF Seating, WatcherOf, Holds, TypeOK
    <3>10. owner'[q][t] # NoClient => owner'[q][t] # opponent'[q][t]
      BY <2>2, <2>3 DEF Seating
    <3>11. QED
      BY <3>8, <3>9, <3>10
  <2>10. QED
    BY <1>0, <2>1, <2>6, <2>7, <2>8, <2>9
<1>4. QED
  BY <1>2, <1>3

(* Being ready changes the state of players of one session only.           *)
LEMMA ReadyEffect ==
    ASSUME IInv, NEW c \in Clients, Ready(c), exited' = "none"
    PROVE  \E r \in Rooms, s \in Ids :
             /\ r = roomid[c] /\ s = sessionid[c] /\ s \in live[r]
             /\ c \in Players(r, s) /\ pc[c] = "Ready" /\ state[c] = "Sessional"
             /\ pc' = [pc EXCEPT ![c] = "idle"]
             /\ target' = [target EXCEPT ![c] = -1]
             /\ UNCHANGED <<clientVars, users, sessionVars, idseed, exited>>
             /\ \/ /\ ~PartnerReady(c, r, s)
                   /\ state' = [state EXCEPT ![c] = "Ready"]
                \/ /\ SeatsTaken(r, s) /\ "Ready" \in {state[owner[r][s]], state[opponent[r][s]]}
                   /\ state' = [state EXCEPT ![owner[r][s]] = IF Red = 0 THEN "Moving" ELSE "Pondering",
                                             ![opponent[r][s]] = IF Red = 0 THEN "Pondering" ELSE "Moving"]
<1> USE DEF IInv, At, Goto, Return
<1>0. pc[c] = "Ready" /\ Engaged(c) /\ state[c] = "Sessional" /\ exited = "none"
  BY DEF Control, Ready
<1>1. PICK r \in Rooms, s \in Ids : r = roomid[c] /\ s = sessionid[c]
  BY <1>0 DEF Engaged
<1>2. ~(s <= 0)
  BY Positive
<1>3. s \in live[r] /\ c \in {owner[r][s], opponent[r][s]}
  BY <1>0, <1>1, <1>2 DEF Ready, Fail
<1>4. c \in Players(r, s)
  BY <1>3, HallAssumption DEF HallAssumption, Players
<1>5. /\ state' = IF PartnerReady(c, r, s)
                  THEN updatePlayersState([state EXCEPT ![c] = "Ready"], r, s)
                  ELSE [state EXCEPT ![c] = "Ready"]
      /\ pc' = [pc EXCEPT ![c] = "idle"]
      /\ target' = [target EXCEPT ![c] = -1]
      /\ UNCHANGED <<clientVars, users, sessionVars, idseed, exited>>
  BY <1>0, <1>1, <1>2, <1>3 DEF Ready
<1>6. CASE ~PartnerReady(c, r, s)
  BY <1>0, <1>1, <1>3, <1>4, <1>5, <1>6
<1>7. CASE PartnerReady(c, r, s)
  <2>1. SeatsTaken(r, s) /\ "Ready" \in {state[owner[r][s]], state[opponent[r][s]]}
    BY <1>3, <1>7, HallAssumption DEF HallAssumption, PartnerReady, Partner, SeatsTaken
  <2>2. owner[r][s] \in Clients /\ opponent[r][s] \in Clients /\ state \in [Clients -> States]
    BY <2>1 DEF SeatsTaken, TypeOK
  <2>3. state' = [state EXCEPT ![owner[r][s]] = IF Red = 0 THEN "Moving" ELSE "Pondering",
                               ![opponent[r][s]] = IF Red = 0 THEN "Pondering" ELSE "Moving"]
    BY <1>3, <1>5, <1>7, <2>2 DEF updatePlayersState
  <2>4. QED
    BY <1>0, <1>1, <1>3, <1>4, <1>5, <2>1, <2>3
<1>8. QED
  BY <1>6, <1>7

(* Being ready, and starting the game, keeps the inductive invariant.      *)
LEMMA ReadyStep ==
    ASSUME IInv, NEW c \in Clients, Ready(c)
    PROVE  IInv' /\ exited' # "doReady"
<1> USE DEF IInv
<1>0. exited' = "none" \/ Fail("doReady gone") \/ Fail("ready seat")
  <2>1. Engaged(c) /\ exited = "none"
    BY DEF Control, Ready, At
  <2>2. roomid[c] \in Rooms /\ ~(sessionid[c] <= 0)
    BY <2>1, Positive DEF Engaged
  <2>3. QED
    BY <2>1, <2>2 DEF Ready
<1>1. CASE Fail("doReady gone") \/ Fail("ready seat")
  BY <1>1, FailStep DEF Fail, Asserts
<1>2. CASE exited' = "none"
  <2>1. PICK r \in Rooms, s \in Ids :
             /\ r = roomid[c] /\ s = sessionid[c] /\ s \in live[r]
             /\ c \in Players(r, s) /\ pc[c] = "Ready" /\ state[c] = "Sessional"
             /\ pc' = [pc EXCEPT ![c] = "idle"]
             /\ target' = [target EXCEPT ![c] = -1]
             /\ UNCHANGED <<clientVars, users, sessionVars, idseed, exited>>
             /\ \/ /\ ~PartnerReady(c, r, s)
                   /\ state' = [state EXCEPT ![c] = "Ready"]
                \/ /\ SeatsTaken(r, s) /\ "Ready" \in {state[owner[r][s]], state[opponent[r][s]]}
                   /\ state' = [state EXCEPT ![owner[r][s]] = IF Red = 0 THEN "Moving" ELSE "Pondering",
                                             ![opponent[r][s]] = IF Red = 0 THEN "Pondering" ELSE "Moving"]
    BY <1>2, ReadyEffect
  <2>2. Engaged(c)
    BY <2>1 DEF Control
  <2>3. /\ state' \in [Clients -> States]
        /\ \A d \in Clients :
             \/ state'[d] = state[d]
             \/ /\ d \in Players(r, s)
                /\ d = c \/ state[d] = "Ready"
                /\ state'[d] \in {"Ready", "Moving", "Pondering"}
    <3>1. CASE state' = [state EXCEPT ![c] = "Ready"]
      BY <2>1, <3>1 DEF TypeOK, States, InSession
    <3>2. CASE SeatsTaken(r, s) /\ state' # [state EXCEPT ![c] = "Ready"]
      <4>1. PICK a \in Clients, b \in Clients :
                /\ a = owner[r][s] /\ b = opponent[r][s] /\ Players(r, s) = {a, b} /\ c \in {a, b}
        BY <2>1, <3>2, HallAssumption DEF HallAssumption, SeatsTaken, TypeOK, Players
      <4>2. "Ready" \in {state[a], state[b]}
        BY <2>1, <3>2, <4>1
      <4>3. state' = [state EXCEPT ![a] = IF Red = 0 THEN "Moving" ELSE "Pondering",
                                   ![b] = IF Red = 0 THEN "Pondering" ELSE "Moving"]
        BY <2>1, <3>2, <4>1
      <4>4. \A d \in {a, b} : d = c \/ state[d] = "Ready"
        BY <2>1, <4>1, <4>2
      <4>5. QED
        BY <4>1, <4>3, <4>4 DEF TypeOK, States, Playing
    <3>3. QED
      BY <2>1, <3>1, <3>2
  <2>4. \A d \in Players(r, s) : d \in Clients /\ PlayerOf(d, r, s)
    BY DEF Seating, Players, TypeOK
  <2>5. TypeOK'
    BY <2>1, <2>3 DEF TypeOK, Labels, clientVars, sessionVars
  <2>6. Control'
    <3>1. SUFFICES ASSUME NEW d \in Clients
                   PROVE  /\ pc'[d] = "idle" => Outside(d)' \/ Lounge(d)' \/ Engaged(d)'
                          /\ pc'[d] \in {"EnterRoom", "EnterRoomDone"} => Outside(d)' /\ target'[d] \in Rooms
                          /\ pc'[d] \in {"LeaveRoom", "LeaveRoomDone", "NewSession"} => Lounge(d)'
                          /\ pc'[d] = "GenId" => Lounge(d)' /\ target'[d] \in Nat
                          /\ pc'[d] \in {"Publish", "NewSessionDone", "EnterSession", "EnterSessionDone",
                                        "WatchSession", "WatchSessionDone"} => Lounge(d)' /\ target'[d] \in Ids
                          /\ pc'[d] \in {"LeaveSession", "LeaveSessionDone"} => Engaged(d)'
                          /\ pc'[d] = "Ready" => Engaged(d)' /\ state'[d] = "Sessional"
                          /\ pc'[d] = "DelClient" => Outside(d)'
      BY DEF Control
    <3>2. CASE d = c
      <4>1. pc'[c] = "idle" /\ state'[c] \in InSession \cup Playing
        BY <2>1, <2>3 DEF TypeOK, InSession, Playing
      <4>2. Engaged(c)'
        BY <2>1, <2>2, <4>1 DEF Engaged, clientVars
      <4>3. QED
        BY <3>2, <4>1, <4>2
    <3>3. CASE d # c /\ state'[d] = state[d]
      <4>1. pc'[d] = pc[d] /\ target'[d] = target[d]
        BY <2>1, <3>3 DEF TypeOK
      <4>2. QED
        BY <2>1, <3>3, <4>1 DEF Control, Outside, Lounge, Engaged, clientVars
    <3>4. CASE d # c /\ state[d] = "Ready" /\ state'[d] \in {"Ready", "Moving", "Pondering"}
      <4>1. pc'[d] = pc[d] /\ target'[d] = target[d]
        BY <2>1, <3>4 DEF TypeOK
      <4>2. pc[d] \in {"idle", "LeaveSession", "LeaveSessionDone"} /\ Engaged(d)
        BY <3>4 DEF Control, TypeOK, Labels, msghnds, Outside, Lounge
      <4>3. Engaged(d)'
        BY <2>1, <3>4, <4>2 DEF Engaged, InSession, Playing, clientVars
      <4>4. QED
        BY <4>1, <4>2, <4>3
    <3>5. QED
      BY <2>3, <3>2, <3>3, <3>4
  <2>7. RoomLists'
    BY <2>1 DEF TypeOK, RoomLists, InRoom, clientVars
  <2>8. Seating'
    <3>1. \A d \in Clients, q \in Rooms, t \in Ids :
              /\ PlayerOf(d, q, t) => PlayerOf(d, q, t)'
              /\ WatcherOf(d, q, t) => WatcherOf(d, q, t)'
      <4>1. SUFFICES ASSUME NEW d \in Clients, NEW q \in Rooms, NEW t \in Ids
                     PROVE  /\ PlayerOf(d, q, t) => PlayerOf(d, q, t)'
                            /\ WatcherOf(d, q, t) => WatcherOf(d, q, t)'
        OBVIOUS
      <4>2. Holds(d, q, t) => Holds(d, q, t)'
        BY <2>1 DEF TypeOK, Holds, clientVars
      <4>3. state'[d] = "Watching" <=> state[d] = "Watching"
        BY <2>1, <2>3, <2>4 DEF PlayerOf
      <4>4. pc'[d] = pc[d] \/ (pc[d] = "Ready" /\ pc'[d] = "idle")
        BY <2>1 DEF TypeOK
      <4>5. QED
        BY <2>1, <4>2, <4>3, <4>4 DEF PlayerOf, WatcherOf, sessionVars
    <3>2. QED
      BY <2>1, <3>1 DEF Seating, Players, TypeOK, sessionVars
  <2>9. QED
    BY <1>2, <2>5, <2>6, <2>7, <2>8
<1>3. QED
  BY <1>0, <1>1, <1>2

(* The inductive invariant holds at the start.                             *)
LEMMA InitIInv == Init => IInv
<1> USE HallAssumption DEF HallAssumption
<1>1. Init => TypeOK
  BY DEF Init, TypeOK, States, Labels
<1>2. Init => Control /\ RoomLists
  BY DEF Init, Control, Outside, RoomLists, InRoom
<1>3. Init => Seating
  BY DEF Init, Seating, Players
<1>4. QED
  BY <1>1, <1>2, <1>3 DEF IInv

(* The inductive invariant is kept by every step.                          *)
LEMMA NextIInv == IInv /\ [Next]_vars => IInv'
<1>1. SUFFICES ASSUME IInv, [Next]_vars
               PROVE  IInv'
  OBVIOUS
<1>2. CASE UNCHANGED vars
  BY <1>1, <1>2 DEF vars, clientVars, sessionVars, IInv, TypeOK, Control, Outside, Lounge,
     Engaged, RoomLists, InRoom, Seating, Players, PlayerOf, WatcherOf, Holds
<1>3. CASE Exited
  BY <1>2, <1>3 DEF Exited
<1>4. ASSUME NEW c \in Clients, Step(c)
      PROVE  IInv'
  <2>1. CASE Login(c)
    BY <1>1, <2>1, LoginStep
  <2>2. CASE Request(c)
    BY <1>1, <2>2, AcceptStep
  <2>3. CASE Hangup(c)
    BY <1>1, <2>3, HangupStep
  <2>4. CASE EnterRoomFull(c) \/ EnterRoom(c) \/ EnterRoomDone(c)
    BY <1>1, <2>4, EnterRoomFullStep, EnterRoomStep, EnterRoomDoneStep
  <2>5. CASE LeaveRoom(c) \/ LeaveRoomDone(c)
    BY <1>1, <2>5, LeaveRoomStep, LeaveRoomDoneStep
  <2>6. CASE NewSession(c) \/ genid(c) \/ Publish(c)
    BY <1>1, <2>6, NewSessionStep, genidStep, PublishStep
  <2>7. CASE NewSessionDone(c) \/ EnterSessionDone(c) \/ WatchSessionDone(c)
    BY <1>1, <2>7, TakeSessionStep
  <2>8. CASE EnterSession(c) \/ WatchSession(c)
    BY <1>1, <2>8, EnterSessionStep, WatchSessionStep
  <2>9. CASE LeaveSession(c) \/ LeaveSessionDone(c)
    BY <1>1, <2>9, LeaveSessionStep, LeaveSessionDoneStep
  <2>10. CASE Ready(c) \/ DelClient(c)
    BY <1>1, <2>10, ReadyStep, DelClientStep
  <2>11. QED
    BY <1>4, <2>1, <2>2, <2>3, <2>4, <2>5, <2>6, <2>7, <2>8, <2>9, <2>10 DEF Step, Handler
<1>5. QED
  BY <1>1, <1>2, <1>3, <1>4 DEF Next

(* The inductive invariant holds in every reachable state.                 *)
LEMMA Invariance == Spec => []IInv
<1>1. QED
  BY InitIInv, NextIInv, PTL DEF Spec

(* Every variable keeps its type: session ids handed to clients are ids,   *)
(* room ids are rooms, the seed stays a natural number.                    *)
THEOREM TypeCorrect == Spec => []TypeOK
<1>1. IInv => TypeOK
  BY DEF IInv
<1>2. QED
  BY <1>1, Invariance, PTL

(* A client at rest is on the list of exactly the room it believes to be   *)
(* in (enterRoom, leaveRoom and the cleanup in doWork).                    *)
THEOREM RoomsAgreement == Spec => []RoomsAgree
<1>1. IInv => RoomsAgree
  BY HallAssumption DEF HallAssumption, IInv, RoomsAgree, Control, RoomLists, InRoom, Outside, Lounge,
     Engaged, InSession, Playing
<1>2. QED
  BY <1>1, Invariance, PTL

(* Every place in a session belongs to a client of that room that at rest  *)
(* believes to be in that session, in that role.                           *)
LEMMA MembersAgreement == Spec => []MembersAgree
<1>1. IInv => MembersAgree
  <2>1. SUFFICES ASSUME IInv, NEW r \in Rooms, NEW s \in Ids, NEW c \in Members(r, s)
                 PROVE  /\ s \in live[r] /\ c \in users[r]
                        /\ pc[c] = "idle" =>
                              /\ roomid[c] = r /\ sessionid[c] = s
                              /\ c \in watchers[r][s] <=> state[c] = "Watching"
    BY DEF MembersAgree
  <2>2. c \in Clients
    BY <2>1 DEF IInv, TypeOK, Members, Place
  <2>3. PlayerOf(c, r, s) \/ WatcherOf(c, r, s)
    BY <2>1 DEF IInv, Members, Place, Players, Seating
  <2>4. s \in live[r] /\ c \in users[r]
    <3>1. s # -1 /\ s \in live[r] /\ Holds(c, r, s)
      BY <2>3, Positive DEF PlayerOf, WatcherOf
    <3>2. pc[c] # "LeaveRoomDone"
      BY <2>1, <2>2, <3>1 DEF IInv, Control, Lounge, Holds
    <3>3. QED
      BY <2>1, <2>2, <3>1, <3>2 DEF IInv, Holds, RoomLists, InRoom
  <2>5. c \in watchers[r][s] => WatcherOf(c, r, s)
    BY <2>1 DEF IInv, Seating
  <2>6. c \notin watchers[r][s] => PlayerOf(c, r, s)
    BY <2>1 DEF IInv, Seating, Members, Place, Players
  <2>7. QED
    BY <2>3, <2>4, <2>5, <2>6 DEF PlayerOf, WatcherOf, Holds
<1>2. QED
  BY <1>1, Invariance, PTL

(* A player of one session holds no place in another one.                  *)
LEMMA PlayersOnce ==
    ASSUME IInv, NEW r \in Rooms, NEW s \in Ids, NEW q \in Rooms, NEW t \in Ids,
           NEW c \in Players(r, s), c \in Players(q, t)
    PROVE  r = q /\ s = t
<1>1. c \in Clients /\ Holds(c, r, s) /\ Holds(c, q, t)
  BY DEF IInv, TypeOK, Players, Seating, PlayerOf
<1>2. sessionid[c] \in Ids => pc[c] \notin {"NewSessionDone", "EnterSessionDone", "WatchSessionDone"}
  BY <1>1, Positive DEF IInv, Control, Lounge
<1>3. QED
  BY <1>1, <1>2 DEF Holds

(* Nobody holds two places, in one session or in two, however requests     *)
(* interleave and whichever session ids collide.                           *)
LEMMA NobodyTwiceEver == Spec => []NobodyTwice
<1>1. IInv => NobodyTwice
  <2>1. SUFFICES ASSUME IInv PROVE NobodyTwice
    OBVIOUS
  <2>2. ASSUME NEW r \in Rooms, NEW s \in Ids, NEW c \in Members(r, s)
        PROVE  /\ c \in Clients /\ Holds(c, r, s)
               /\ PlayerOf(c, r, s) \/ WatcherOf(c, r, s)
    BY <2>1, <2>2 DEF IInv, TypeOK, Members, Place, Players, Seating, PlayerOf, WatcherOf
  <2>3. ASSUME NEW r \in Rooms, NEW s \in Ids
        PROVE  {owner[r][s], opponent[r][s]} \cap watchers[r][s] = {}
    BY <2>1, HallAssumption DEF HallAssumption, IInv, TypeOK, Seating, Players, PlayerOf, WatcherOf
  <2>4. ASSUME NEW r \in Rooms, NEW s \in Ids, NEW q \in Rooms, NEW t \in Ids,
               NEW c \in Members(r, s) \cap Members(q, t)
        PROVE  r = q /\ s = t
    <3>1. c \in Clients /\ Holds(c, r, s) /\ Holds(c, q, t)
      BY <2>2, <2>4
    <3>2. sessionid[c] \in Ids => pc[c] \notin {"NewSessionDone", "EnterSessionDone", "WatchSessionDone"}
      BY <2>1, <3>1, Positive DEF IInv, Control, Lounge
    <3>3. QED
      BY <3>1, <3>2 DEF Holds
  <2>5. QED
    BY <2>1, <2>3, <2>4 DEF NobodyTwice, IInv, Seating
<1>2. QED
  BY <1>1, Invariance, PTL

(* Every place in a session belongs to one client that knows of it and     *)
(* holds no other, for every number of clients, rooms, ids and workers.    *)
THEOREM PlacesAgreement == Spec => []PlacesAgree
<1>1. MembersAgree /\ NobodyTwice => PlacesAgree
  BY DEF PlacesAgree
<1>2. QED
  BY <1>1, MembersAgreement, NobodyTwiceEver, PTL

(* None of the handlers' ASSERTs about rooms, and none about the client's  *)
(* own session id, ever ends the process.                                  *)
THEOREM RoomAssertsHold == Spec => []RoomAsserts
<1>1. Init => RoomAsserts
  BY DEF Init, RoomAsserts
<1>2. IInv /\ RoomAsserts /\ [Next]_vars => RoomAsserts'
  <2>1. SUFFICES ASSUME IInv, RoomAsserts, [Next]_vars
                 PROVE  RoomAsserts'
    OBVIOUS
  <2>2. CASE UNCHANGED vars
    BY <2>1, <2>2 DEF vars, RoomAsserts
  <2>3. CASE Exited
    BY <2>2, <2>3 DEF Exited
  <2>4. ASSUME NEW c \in Clients, Step(c)
        PROVE  RoomAsserts'
    <3>1. CASE Login(c) \/ Request(c) \/ Hangup(c) \/ DelClient(c)
      BY <2>1, <3>1 DEF RoomAsserts, Login, Request, Accept, Hangup, DelClient
    <3>2. CASE EnterRoomFull(c) \/ EnterRoom(c) \/ EnterRoomDone(c) \/ LeaveRoomDone(c)
      BY <2>1, <3>2 DEF RoomAsserts, EnterRoomFull, EnterRoom, EnterRoomDone, LeaveRoomDone
    <3>3. CASE LeaveRoom(c) \/ NewSession(c)
      BY <2>1, <3>3, LeaveRoomStep, NewSessionStep DEF RoomAsserts
    <3>4. CASE genid(c) \/ Publish(c) \/ NewSessionDone(c) \/ EnterSessionDone(c) \/ WatchSessionDone(c)
      BY <2>1, <3>4 DEF RoomAsserts, genid, Publish, NewSessionDone, EnterSessionDone,
         WatchSessionDone, TakeSession
    <3>5. CASE EnterSession(c) \/ WatchSession(c)
      BY <2>1, <3>5, EnterSessionStep, WatchSessionStep DEF RoomAsserts
    <3>6. CASE LeaveSession(c)
      <4>1. exited' # "leaveSession"
        BY <2>1, <3>6, LeaveSessionStep
      <4>2. exited' \in {"none", "leaveSession", "leaveSession gone", "leaveSession member"}
        BY <3>6 DEF LeaveSession, leave, Emptied, At, Fail
      <4>3. QED
        BY <4>1, <4>2 DEF RoomAsserts
    <3>7. CASE LeaveSessionDone(c)
      BY <2>1, <3>7 DEF RoomAsserts, LeaveSessionDone
    <3>8. CASE Ready(c)
      <4>1. exited' # "doReady"
        BY <2>1, <3>8, ReadyStep
      <4>2. exited' \in {"none", "doReady", "doReady gone", "ready seat"}
        BY <3>8 DEF Ready, At, Fail
      <4>3. QED
        BY <4>1, <4>2 DEF RoomAsserts
    <3>9. QED
      BY <2>4, <3>1, <3>2, <3>3, <3>4, <3>5, <3>6, <3>7, <3>8 DEF Step, Handler
  <2>5. QED
    BY <2>1, <2>2, <2>3, <2>4 DEF Next
<1>3. QED
  BY <1>1, <1>2, Invariance, PTL DEF Spec

(* The capacity check and the insertion are one critical section, so no    *)
(* number of simultaneous requests overfills a room.                       *)
CapacityInv ==
    \A r \in Rooms : IsFiniteSet(users[r]) /\ Cardinality(users[r]) <= Capacity[r]

(* Every step keeps the rooms within their capacity and their lists finite.*)
LEMMA NextCapacityInv == IInv /\ CapacityInv /\ [Next]_vars => CapacityInv'
<1>1. SUFFICES ASSUME IInv, CapacityInv, [Next]_vars
               PROVE  CapacityInv'
  OBVIOUS
<1>2. CASE UNCHANGED users
  BY <1>1, <1>2 DEF CapacityInv
<1>3. ASSUME NEW c \in Clients, EnterRoom(c)
      PROVE  CapacityInv'
  <2>1. PICK r \in Rooms : r = target[c]
    BY <1>1, <1>3 DEF IInv, Control, EnterRoom, At
  <2>2. c \notin users[r] /\ Cardinality(users[r]) < Capacity[r]
    BY <1>3, <2>1 DEF EnterRoom
  <2>3. users' = [users EXCEPT ![r] = users[r] \cup {c}]
    BY <1>3, <2>1 DEF EnterRoom
  <2>4. /\ IsFiniteSet(users[r] \cup {c})
        /\ Cardinality(users[r] \cup {c}) = Cardinality(users[r]) + 1
        /\ Cardinality(users[r]) \in Nat
    BY <1>1, <2>2, FS_AddElement, FS_CardinalityType DEF CapacityInv
  <2>5. Cardinality(users[r] \cup {c}) <= Capacity[r]
    BY <2>2, <2>4, HallAssumption DEF HallAssumption
  <2>6. QED
    BY <1>1, <2>3, <2>4, <2>5 DEF CapacityInv, IInv, TypeOK
<1>4. ASSUME NEW c \in Clients, LeaveRoom(c)
      PROVE  CapacityInv'
  <2>1. CASE users' = [users EXCEPT ![roomid[c]] = @ \ {c}]
    <3>1. ASSUME NEW r \in Rooms
          PROVE  users'[r] \in SUBSET users[r]
      BY <1>1, <2>1 DEF IInv, TypeOK
    <3>2. ASSUME NEW r \in Rooms
          PROVE  /\ IsFiniteSet(users'[r])
                 /\ Cardinality(users'[r]) <= Cardinality(users[r])
                 /\ Cardinality(users'[r]) \in Nat /\ Cardinality(users[r]) \in Nat
      BY <1>1, <3>1, FS_Subset, FS_CardinalityType DEF CapacityInv
    <3>3. QED
      <4>1. SUFFICES ASSUME NEW r \in Rooms
                     PROVE  IsFiniteSet(users'[r]) /\ Cardinality(users'[r]) <= Capacity[r]
        BY DEF CapacityInv
      <4>2. Capacity[r] \in Nat /\ Cardinality(users[r]) <= Capacity[r]
        BY <1>1, HallAssumption DEF HallAssumption, CapacityInv
      <4>3. QED
        BY <3>2, <4>2
  <2>2. CASE UNCHANGED users
    BY <1>2, <2>2
  <2>3. QED
    BY <1>4, <2>1, <2>2 DEF LeaveRoom, Fail
<1>5. ASSUME NEW c \in Clients, Step(c), ~EnterRoom(c), ~LeaveRoom(c)
      PROVE  UNCHANGED users
  BY <1>5 DEF Step, Handler, Login, Request, Accept, Hangup, DelClient, EnterRoomFull, EnterRoomDone,
     LeaveRoomDone, NewSession, genid, Publish, NewSessionDone, EnterSessionDone,
     WatchSessionDone, TakeSession, EnterSession, enter, WatchSession, LeaveSession, leave, Emptied, LeaveSessionDone,
     Ready, Refuse, Fail
<1>6. QED
  BY <1>1, <1>2, <1>3, <1>4, <1>5 DEF Next, Exited, vars

THEOREM CapacityHolds == Spec => []RoomCapacity
<1>1. Init => CapacityInv
  BY FS_EmptySet, HallAssumption DEF HallAssumption, Init, CapacityInv
<1>2. CapacityInv => RoomCapacity
  BY DEF CapacityInv, RoomCapacity
<1>3. QED
  BY <1>1, <1>2, NextCapacityInv, Invariance, PTL DEF Spec

(* A step other than Ready brings nobody into a seat, and nobody in a seat *)
(* into the game, by way of Ready, Moving or Pondering: a seated client in *)
(* one of those states was in that state in that seat before the step.     *)
Active == {"Ready", "Moving", "Pondering"}

Calm ==
    \A q \in Rooms, t \in Ids : \A d \in Clients :
        /\ owner'[q][t] = d /\ state'[d] \in Active => owner[q][t] = d /\ state[d] = state'[d]
        /\ opponent'[q][t] = d /\ state'[d] \in Active => opponent[q][t] = d /\ state[d] = state'[d]

(* No game is missed, and no game has two movers.                          *)
Meeting == NoMissedStart /\ OneMover

(* A step that leaves the players and their game states alone keeps Meeting. *)
LEMMA CalmMeeting ==
    ASSUME IInv, IInv', Meeting, Calm
    PROVE  Meeting'
<1>1. SUFFICES ASSUME NEW r \in Rooms, NEW s \in Ids, SeatsTaken(r, s)'
               PROVE  /\ ~(state'[owner'[r][s]] = "Ready" /\ state'[opponent'[r][s]] = "Ready")
                      /\ state'[owner'[r][s]] \in Playing =>
                            state'[owner'[r][s]] # state'[opponent'[r][s]]
  BY DEF Meeting, NoMissedStart, OneMover
<1>2. PICK a \in Clients, b \in Clients : a = owner'[r][s] /\ b = opponent'[r][s]
  BY <1>1 DEF IInv, TypeOK, SeatsTaken
<1>3. CASE state'[a] \in Active /\ state'[b] \in Active
  <2>1. owner[r][s] = a /\ opponent[r][s] = b /\ state[a] = state'[a] /\ state[b] = state'[b]
    BY <1>2, <1>3 DEF Calm
  <2>2. SeatsTaken(r, s)
    BY <2>1, HallAssumption DEF HallAssumption, SeatsTaken
  <2>3. QED
    BY <1>2, <2>1, <2>2 DEF Meeting, NoMissedStart, OneMover
<1>4. QED
  BY <1>2, <1>3 DEF Active, Playing

(* Every step but Ready leaves those who play and are ready as they were.  *)
LEMMA StepCalm ==
    ASSUME IInv, NEW c \in Clients, Step(c), ~Ready(c)
    PROVE  Calm
<1> USE DEF IInv, At, Goto, Return, clientVars, sessionVars
<1>1. ASSUME UNCHANGED <<owner, opponent>>,
             state' = state \/ \E st \in States \ Active : state' = [state EXCEPT ![c] = st]
      PROVE  Calm
  BY <1>1 DEF Calm, TypeOK
<1>2. CASE Login(c) \/ Request(c) \/ Hangup(c) \/ DelClient(c)
  BY <1>1, <1>2 DEF Login, Request, Accept, Hangup, DelClient, States, Active
<1>3. CASE EnterRoomFull(c) \/ EnterRoom(c) \/ EnterRoomDone(c)
  BY <1>1, <1>3 DEF EnterRoomFull, EnterRoom, EnterRoomDone, States, Active
<1>4. CASE LeaveRoom(c) \/ LeaveRoomDone(c) \/ NewSession(c) \/ genid(c)
  BY <1>1, <1>4 DEF LeaveRoom, LeaveRoomDone, NewSession, genid, Fail, States, Active
<1>5. CASE NewSessionDone(c) \/ EnterSessionDone(c) \/ WatchSessionDone(c)
  BY <1>1, <1>5 DEF NewSessionDone, EnterSessionDone, WatchSessionDone, TakeSession, States,
     Active, InSession
<1>6. CASE WatchSession(c) \/ LeaveSessionDone(c)
  BY <1>1, <1>6 DEF WatchSession, LeaveSessionDone, Refuse, Fail, States, Active
<1>7. CASE Publish(c)
  <2>1. state' = state /\ state[c] = "Idle" /\ roomid[c] \in Rooms /\ target[c] \in Ids
    BY <1>7 DEF Publish, Control, Lounge
  <2>2. \A q \in Rooms, t \in Ids :
            /\ owner'[q][t] \in {owner[q][t], c}
            /\ opponent'[q][t] \in {opponent[q][t], NoClient}
    BY <1>7, <2>1 DEF Publish, TypeOK
  <2>3. QED
    BY <2>1, <2>2, HallAssumption DEF HallAssumption, Calm, Active
<1>8. CASE EnterSession(c)
  <2>1. state' = state /\ state[c] = "Idle" /\ roomid[c] \in Rooms /\ target[c] \in Ids
    BY <1>8 DEF EnterSession, enter, Control, Lounge, Refuse, Fail
  <2>2. \A q \in Rooms, t \in Ids :
            /\ owner'[q][t] \in {owner[q][t], c}
            /\ opponent'[q][t] \in {opponent[q][t], c}
    <3>1. PICK r \in Rooms, s \in Ids : r = roomid[c] /\ s = target[c]
      BY <2>1
    <3>2. owner' = owner \/ owner' = [owner EXCEPT ![r][s] = c]
      BY <1>8, <3>1 DEF EnterSession, enter, Refuse, Fail
    <3>3. opponent' = opponent \/ opponent' = [opponent EXCEPT ![r][s] = c]
      BY <1>8, <3>1 DEF EnterSession, enter, Refuse, Fail
    <3>4. /\ owner \in [Rooms -> [Ids -> Clients \cup {NoClient}]]
          /\ opponent \in [Rooms -> [Ids -> Clients \cup {NoClient}]]
          /\ c \in Clients \cup {NoClient}
      BY DEF TypeOK
    <3>5. \A q \in Rooms, t \in Ids : owner'[q][t] \in {owner[q][t], c}
      BY <3>2, <3>4, EntryWritten
    <3>6. \A q \in Rooms, t \in Ids : opponent'[q][t] \in {opponent[q][t], c}
      BY <3>3, <3>4, EntryWritten
    <3>7. QED
      BY <3>5, <3>6
  <2>3. QED
    BY <2>1, <2>2 DEF Calm, Active
<1>9. CASE LeaveSession(c)
  <2>1. state' = state
    BY <1>9 DEF LeaveSession, leave, Emptied, Fail
  <2>2. \A q \in Rooms, t \in Ids :
            /\ owner'[q][t] \in {owner[q][t], NoClient}
            /\ opponent'[q][t] \in {opponent[q][t], NoClient}
    <3>1. PICK r \in Rooms, s \in Ids : r = roomid[c] /\ s = sessionid[c]
      BY <1>9 DEF LeaveSession, leave, Emptied, Control, Engaged
    <3>2. owner' = owner \/ owner' = [owner EXCEPT ![r][s] = NoClient]
      BY <1>9, <3>1 DEF LeaveSession, leave, Emptied, Fail
    <3>3. opponent' = opponent \/ opponent' = [opponent EXCEPT ![r][s] = NoClient]
      BY <1>9, <3>1 DEF LeaveSession, leave, Emptied, Fail
    <3>4. /\ owner \in [Rooms -> [Ids -> Clients \cup {NoClient}]]
          /\ opponent \in [Rooms -> [Ids -> Clients \cup {NoClient}]]
          /\ NoClient \in Clients \cup {NoClient}
      BY DEF TypeOK
    <3>5. \A q \in Rooms, t \in Ids : owner'[q][t] \in {owner[q][t], NoClient}
      BY <3>2, <3>4, EntryWritten
    <3>6. \A q \in Rooms, t \in Ids : opponent'[q][t] \in {opponent[q][t], NoClient}
      BY <3>3, <3>4, EntryWritten
    <3>7. QED
      BY <3>5, <3>6
  <2>3. QED
    BY <2>1, <2>2, HallAssumption DEF HallAssumption, Calm
<1>10. QED
  BY <1>2, <1>3, <1>4, <1>5, <1>6, <1>7, <1>8, <1>9 DEF Step, Handler

(* Ready keeps Meeting.                                                    *)
LEMMA ReadyMeeting ==
    ASSUME IInv, Meeting, NEW c \in Clients, Ready(c)
    PROVE  Meeting'
<1> USE DEF IInv
<1>1. CASE exited' # "none"
  <2>1. UNCHANGED <<state, owner, opponent>>
    BY <1>1 DEF Ready, At, Fail, sessionVars
  <2>2. QED
    BY <2>1 DEF Meeting, NoMissedStart, OneMover, SeatsTaken
<1>2. CASE exited' = "none"
  <2>1. PICK r \in Rooms, s \in Ids :
             /\ c \in Players(r, s) /\ state[c] = "Sessional" /\ pc[c] = "Ready"
             /\ UNCHANGED <<owner, opponent>>
             /\ \/ /\ ~PartnerReady(c, r, s)
                   /\ state' = [state EXCEPT ![c] = "Ready"]
                \/ /\ SeatsTaken(r, s)
                   /\ state' = [state EXCEPT ![owner[r][s]] = IF Red = 0 THEN "Moving" ELSE "Pondering",
                                             ![opponent[r][s]] = IF Red = 0 THEN "Pondering" ELSE "Moving"]
    BY <1>2, ReadyEffect DEF sessionVars
  <2>2. SUFFICES ASSUME NEW q \in Rooms, NEW t \in Ids, SeatsTaken(q, t)
                 PROVE  /\ ~(state'[owner[q][t]] = "Ready" /\ state'[opponent[q][t]] = "Ready")
                        /\ state'[owner[q][t]] \in Playing =>
                              state'[owner[q][t]] # state'[opponent[q][t]]
    BY <2>1 DEF Meeting, NoMissedStart, OneMover, SeatsTaken
  <2>3. PICK a \in Clients, b \in Clients :
            /\ a = owner[q][t] /\ b = opponent[q][t] /\ a # b /\ Players(q, t) = {a, b}
    BY <2>2 DEF TypeOK, SeatsTaken, Players, Seating
  <2>4. /\ ~(state[a] = "Ready" /\ state[b] = "Ready")
        /\ state[a] \in Playing => state[a] # state[b]
    BY <2>2, <2>3 DEF Meeting, NoMissedStart, OneMover
  <2>5. CASE q = r /\ t = s
    <3>1. CASE ~PartnerReady(c, r, s) /\ state' = [state EXCEPT ![c] = "Ready"]
      <4>1. c \in {a, b}
        BY <2>1, <2>3, <2>5
      <4>2. \A d \in {a, b} \ {c} : d = Partner(c, r, s)
        BY <2>3, <2>5, <4>1 DEF Partner
      <4>3. \A d \in {a, b} \ {c} : state[d] # "Ready"
        BY <3>1, <4>2, HallAssumption DEF HallAssumption, PartnerReady
      <4>4. QED
        BY <2>3, <3>1, <4>1, <4>3 DEF TypeOK, Playing
    <3>2. CASE state' = [state EXCEPT ![owner[r][s]] = IF Red = 0 THEN "Moving" ELSE "Pondering",
                                      ![opponent[r][s]] = IF Red = 0 THEN "Pondering" ELSE "Moving"]
      <4>1. state' = [state EXCEPT ![a] = IF Red = 0 THEN "Moving" ELSE "Pondering",
                                   ![b] = IF Red = 0 THEN "Pondering" ELSE "Moving"]
        BY <2>3, <2>5, <3>2
      <4>2. QED
        BY <2>3, <4>1 DEF TypeOK
    <3>3. QED
      BY <2>1, <3>1, <3>2
  <2>6. CASE ~(q = r /\ t = s)
    <3>1. \A d \in Players(r, s) : d # a /\ d # b
      BY <2>3, <2>6, PlayersOnce DEF IInv
    <3>2. state'[a] = state[a] /\ state'[b] = state[b]
      <4>1. CASE state' = [state EXCEPT ![c] = "Ready"]
        BY <2>1, <3>1, <4>1 DEF TypeOK
      <4>2. CASE SeatsTaken(r, s) /\ state' # [state EXCEPT ![c] = "Ready"]
        <5>1. owner[r][s] # a /\ owner[r][s] # b /\ opponent[r][s] # a /\ opponent[r][s] # b
          BY <3>1, <4>2 DEF Players, SeatsTaken
        <5>2. QED
          BY <2>1, <4>2, <5>1 DEF TypeOK
      <4>3. QED
        BY <2>1, <4>1, <4>2
    <3>3. QED
      BY <2>3, <2>4, <3>2
  <2>7. QED
    BY <2>5, <2>6
<1>3. QED
  BY <1>1, <1>2

(* Every step keeps Meeting.                                               *)
LEMMA NextMeeting == IInv /\ Meeting /\ [Next]_vars => Meeting'
<1>1. SUFFICES ASSUME IInv, Meeting, [Next]_vars
               PROVE  Meeting'
  OBVIOUS
<1>2. IInv'
  BY <1>1, NextIInv
<1>3. CASE UNCHANGED vars
  BY <1>1, <1>3 DEF vars, sessionVars, Meeting, NoMissedStart, OneMover, SeatsTaken
<1>4. ASSUME NEW c \in Clients, Step(c)
      PROVE  Meeting'
  BY <1>1, <1>2, <1>4, StepCalm, CalmMeeting, ReadyMeeting
<1>5. QED
  BY <1>1, <1>3, <1>4 DEF Next, Exited

(* Meeting holds in every reachable state.                                 *)
LEMMA MeetingInvariance == Spec => []Meeting
<1>1. Init => Meeting
  BY DEF Init, Meeting, NoMissedStart, OneMover, SeatsTaken
<1>2. QED
  BY <1>1, NextMeeting, Invariance, PTL DEF Spec

(* The states of two players fit together: two who are seated are never    *)
(* both left waiting in Ready, and never both to move or both waiting.     *)
THEOREM PlayersAgreement == Spec => []PlayersAgree
<1>1. Meeting => PlayersAgree
  BY DEF Meeting, PlayersAgree
<1>2. QED
  BY <1>1, MeetingInvariance, PTL

(* A game starts in pairs, on both sides of one session in one step.       *)
THEOREM GamesStartTogether == Spec => StartsTogether
<1>1. IInv /\ [Next]_vars => [StartsInPairs]_vars
  <2>1. SUFFICES ASSUME IInv, [Next]_vars, NEW c \in Clients,
                        state[c] \notin Playing, state'[c] \in Playing
                 PROVE  \E r \in Rooms, s \in Ids : \E d \in Clients \ {c} :
                            /\ {owner[r][s], opponent[r][s]} = {c, d}
                            /\ {state'[c], state'[d]} = Playing
                            /\ "Ready" \in {state[c], state[d]}
    BY DEF StartsInPairs
  <2> USE DEF IInv
  <2>2. PICK e \in Clients : Step(e)
    BY <2>1 DEF Next, Exited, vars
  <2>3. Ready(e)
    <3>1. SUFFICES ASSUME ~Ready(e) PROVE FALSE
      OBVIOUS
    <3>2. state' = state \/ \E st \in States \ Playing : state' = [state EXCEPT ![e] = st]
      BY <2>2, <3>1 DEF Step, Handler, Login, Request, Accept, Hangup, DelClient, EnterRoomFull,
         EnterRoom, EnterRoomDone, LeaveRoom, LeaveRoomDone, NewSession, genid, Publish,
         NewSessionDone, EnterSessionDone, WatchSessionDone, TakeSession, EnterSession, enter,
         WatchSession, LeaveSession, leave, Emptied, LeaveSessionDone, Refuse, Fail, States, InSession, Playing
    <3>3. QED
      BY <2>1, <3>2 DEF TypeOK
  <2>4. exited' = "none"
    <3>1. CASE exited' # "none"
      BY <2>1, <2>3, <3>1 DEF Ready, At, Fail
    <3>2. QED
      BY <3>1
  <2>5. PICK r \in Rooms, s \in Ids :
             /\ e \in Players(r, s) /\ state[e] = "Sessional"
             /\ \/ state' = [state EXCEPT ![e] = "Ready"]
                \/ /\ SeatsTaken(r, s) /\ "Ready" \in {state[owner[r][s]], state[opponent[r][s]]}
                   /\ state' = [state EXCEPT ![owner[r][s]] = IF Red = 0 THEN "Moving" ELSE "Pondering",
                                             ![opponent[r][s]] = IF Red = 0 THEN "Pondering" ELSE "Moving"]
    BY <2>1, <2>3, <2>4, ReadyEffect
  <2>6. CASE state' = [state EXCEPT ![e] = "Ready"]
    BY <2>1, <2>6 DEF TypeOK, Playing
  <2>7. CASE SeatsTaken(r, s) /\ state' # [state EXCEPT ![e] = "Ready"]
    <3>1. PICK a \in Clients, b \in Clients : a = owner[r][s] /\ b = opponent[r][s] /\ a # b
      BY <2>1, <2>7 DEF SeatsTaken, TypeOK, Seating
    <3>2. state' = [state EXCEPT ![a] = IF Red = 0 THEN "Moving" ELSE "Pondering",
                                 ![b] = IF Red = 0 THEN "Pondering" ELSE "Moving"]
      BY <2>5, <2>7, <3>1
    <3>3. c \in {a, b} /\ {state'[a], state'[b]} = Playing /\ "Ready" \in {state[a], state[b]}
      BY <2>1, <2>5, <2>7, <3>1, <3>2 DEF TypeOK, Playing
    <3>4. QED
      BY <3>1, <3>3
  <2>8. QED
    BY <2>5, <2>6, <2>7
<1>2. QED
  BY <1>1, Invariance, PTL DEF Spec, StartsTogether

(* A session is in the map only while somebody is in it.                   *)
LEMMA NextNoEmptySession == IInv /\ NoEmptySession /\ [Next]_vars => NoEmptySession'
<1>1. SUFFICES ASSUME IInv, NoEmptySession, [Next]_vars
               PROVE  NoEmptySession'
  OBVIOUS
<1> USE DEF IInv
<1>2. ASSUME UNCHANGED sessionVars
      PROVE  NoEmptySession'
  BY <1>1, <1>2 DEF NoEmptySession, Members, Place, sessionVars
<1>3. ASSUME NEW c \in Clients, Publish(c)
      PROVE  NoEmptySession'
  <2>1. PICK r \in Rooms, s \in Ids : r = roomid[c] /\ s = target[c]
    BY <1>1, <1>3 DEF Control, Lounge, Publish, At
  <2>2. /\ live' = [live EXCEPT ![r] = live[r] \cup {s}]
        /\ owner' = [owner EXCEPT ![r][s] = c]
        /\ opponent' = [opponent EXCEPT ![r][s] = NoClient]
        /\ watchers' = [watchers EXCEPT ![r][s] = {}]
    BY <1>3, <2>1 DEF Publish
  <2>3. ASSUME NEW q \in Rooms, NEW t \in Ids, t \in live'[q]
        PROVE  Members(q, t)' # {}
    <3>1. CASE q = r /\ t = s
      <4>1. owner'[q][t] = c
        BY <1>1, <2>2, <3>1 DEF TypeOK
      <4>2. QED
        BY <4>1, HallAssumption DEF HallAssumption, Members, Place
    <3>2. CASE ~(q = r /\ t = s)
      <4>1. /\ t \in live[q] /\ owner'[q][t] = owner[q][t]
            /\ opponent'[q][t] = opponent[q][t] /\ watchers'[q][t] = watchers[q][t]
        BY <1>1, <2>2, <2>3, <3>2 DEF TypeOK
      <4>2. QED
        BY <1>1, <4>1 DEF NoEmptySession, Members, Place
    <3>3. QED
      BY <3>1, <3>2
  <2>4. live' \in [Rooms -> SUBSET Ids]
    BY <1>1, <2>1, <2>2 DEF TypeOK
  <2>5. QED
    BY <2>3, <2>4 DEF NoEmptySession
<1>4. ASSUME NEW c \in Clients, EnterSession(c) \/ WatchSession(c)
      PROVE  NoEmptySession'
  <2>1. PICK r \in Rooms, s \in Ids : r = roomid[c] /\ s = target[c]
    BY <1>1, <1>4 DEF Control, Lounge, EnterSession, enter, WatchSession, At
  <2>2. /\ live' = live
        /\ owner' = owner \/ owner' = [owner EXCEPT ![r][s] = c]
        /\ opponent' = opponent \/ opponent' = [opponent EXCEPT ![r][s] = c]
        /\ watchers' = watchers \/ watchers' = [watchers EXCEPT ![r][s] = watchers[r][s] \cup {c}]
    BY <1>4, <2>1 DEF EnterSession, enter, WatchSession, Refuse, Fail, sessionVars
  <2>3. ASSUME NEW q \in Rooms, NEW t \in Ids, NEW d \in Members(q, t)
        PROVE  Members(q, t)' # {}
    <3>1. owner'[q][t] = owner[q][t] \/ owner'[q][t] = c
      <4>1. CASE owner' = owner
        BY <4>1
      <4>2. CASE owner' = [owner EXCEPT ![r][s] = c]
        <5>1. CASE q = r /\ t = s
          BY <1>1, <4>2, <5>1 DEF TypeOK
        <5>2. CASE ~(q = r /\ t = s)
          BY <1>1, <4>2, <5>2 DEF TypeOK
        <5>3. QED
          BY <5>1, <5>2
      <4>3. QED
        BY <2>2, <4>1, <4>2
    <3>2. opponent'[q][t] = opponent[q][t] \/ opponent'[q][t] = c
      <4>1. CASE opponent' = opponent
        BY <4>1
      <4>2. CASE opponent' = [opponent EXCEPT ![r][s] = c]
        <5>1. CASE q = r /\ t = s
          BY <1>1, <4>2, <5>1 DEF TypeOK
        <5>2. CASE ~(q = r /\ t = s)
          BY <1>1, <4>2, <5>2 DEF TypeOK
        <5>3. QED
          BY <5>1, <5>2
      <4>3. QED
        BY <2>2, <4>1, <4>2
    <3>3. d \in watchers[q][t] => d \in watchers'[q][t]
      <4>1. CASE q = r /\ t = s
        BY <1>1, <2>2, <4>1 DEF TypeOK
      <4>2. CASE ~(q = r /\ t = s)
        BY <1>1, <2>2, <4>2 DEF TypeOK
      <4>3. QED
        BY <4>1, <4>2
    <3>4. d \in Place(q, t)' \/ c \in Place(q, t)'
      BY <2>3, <3>1, <3>2, <3>3 DEF Members, Place
    <3>5. c # NoClient /\ d # NoClient
      BY <2>3, HallAssumption DEF HallAssumption, Members
    <3>6. QED
      BY <3>4, <3>5 DEF Members
  <2>4. ASSUME NEW q \in Rooms, NEW t \in Ids, Members(q, t) # {}
        PROVE  Members(q, t)' # {}
    BY <2>3, <2>4
  <2>5. QED
    BY <1>1, <2>2, <2>4 DEF NoEmptySession, TypeOK
<1>5. ASSUME NEW c \in Clients, LeaveSession(c)
      PROVE  NoEmptySession'
  <2>1. PICK r \in Rooms, s \in Ids : r = roomid[c] /\ s = sessionid[c]
    BY <1>1, <1>5 DEF Control, Engaged, LeaveSession, leave, Emptied, At
  <2>2. CASE UNCHANGED sessionVars
    BY <1>2, <2>2
  <2>3. CASE ~UNCHANGED sessionVars
    <3>1. /\ owner' = owner \/ (owner[r][s] = c /\ owner' = [owner EXCEPT ![r][s] = NoClient])
          /\ opponent' = opponent \/ (opponent[r][s] = c /\ opponent' = [opponent EXCEPT ![r][s] = NoClient])
          /\ watchers' = watchers \/ watchers' = [watchers EXCEPT ![r][s] = watchers[r][s] \ {c}]
          /\ live' = IF Members(r, s) = {c} THEN [live EXCEPT ![r] = live[r] \ {s}] ELSE live
          /\ c \in Place(r, s)
      BY <1>5, <2>1, <2>3 DEF LeaveSession, leave, Emptied, Fail
    <3>2. ASSUME NEW q \in Rooms, NEW t \in Ids, NEW d \in Members(q, t), d # c
          PROVE  d \in Members(q, t)'
      <4>1. /\ owner'[q][t] = owner[q][t] \/ (q = r /\ t = s /\ owner[q][t] = c)
            /\ opponent'[q][t] = opponent[q][t] \/ (q = r /\ t = s /\ opponent[q][t] = c)
            /\ watchers[q][t] \subseteq watchers'[q][t] \cup {c}
        BY <1>1, <3>1 DEF TypeOK
      <4>2. QED
        BY <3>2, <4>1 DEF Members, Place
    <3>3. ASSUME NEW q \in Rooms, NEW t \in Ids, ~(q = r /\ t = s)
          PROVE  Members(q, t)' = Members(q, t)
      <4>1. /\ owner'[q][t] = owner[q][t] /\ opponent'[q][t] = opponent[q][t]
            /\ watchers'[q][t] = watchers[q][t]
        BY <1>1, <3>1, <3>3 DEF TypeOK
      <4>2. QED
        BY <4>1 DEF Members, Place
    <3>4. ASSUME NEW q \in Rooms, NEW t \in Ids, t \in live'[q]
          PROVE  t \in live[q] /\ (q = r /\ t = s => Members(r, s) # {c})
      BY <1>1, <3>1, <3>4 DEF TypeOK
    <3>5. ASSUME NEW q \in Rooms, NEW t \in Ids, t \in live'[q]
          PROVE  Members(q, t)' # {}
      <4>1. CASE q = r /\ t = s
        <5>1. c \in Members(r, s) /\ Members(r, s) # {c}
          BY <3>1, <3>4, <3>5, <4>1, HallAssumption DEF HallAssumption, Members, Place
        <5>2. PICK d \in Members(q, t) : d # c
          BY <4>1, <5>1
        <5>3. QED
          BY <3>2, <5>2
      <4>2. CASE ~(q = r /\ t = s)
        BY <1>1, <3>3, <3>4, <3>5, <4>2 DEF NoEmptySession
      <4>3. QED
        BY <4>1, <4>2
    <3>6. live' \in [Rooms -> SUBSET Ids]
      BY <1>1, <3>1 DEF TypeOK
    <3>7. QED
      BY <3>5, <3>6 DEF NoEmptySession
  <2>4. QED
    BY <2>2, <2>3
<1>6. ASSUME NEW c \in Clients, Step(c), ~Publish(c), ~EnterSession(c), ~WatchSession(c), ~LeaveSession(c)
      PROVE  UNCHANGED sessionVars
  BY <1>6 DEF Step, Handler, Login, Request, Accept, Hangup, DelClient, EnterRoomFull, EnterRoom,
     EnterRoomDone, LeaveRoom, LeaveRoomDone, NewSession, genid, NewSessionDone, EnterSessionDone,
     WatchSessionDone, TakeSession, LeaveSessionDone, Ready, Fail
<1>7. QED
  BY <1>1, <1>2, <1>3, <1>4, <1>5, <1>6 DEF Next, Exited, vars

(* Every session that clients can see listed has somebody in it.           *)
THEOREM SessionsInhabited == Spec => []NoEmptySession
<1>1. Init => NoEmptySession
  BY DEF Init, NoEmptySession
<1>2. QED
  BY <1>1, NextNoEmptySession, Invariance, PTL DEF Spec

-----------------------------------------------------------------------------
(* Who is lost, and how.                                                   *)
HasPlace(c) == Session(c) \in live[roomid[c]] /\ c \in Place(roomid[c], Session(c))

(* A client that believes to be in a session believes to be in a room.     *)
LEMMA BelievesSomewhere ==
    ASSUME IInv, NEW c \in Clients, Session(c) # -1
    PROVE  roomid[c] \in Rooms /\ Session(c) \in Ids
BY DEF IInv, TypeOK, Control, Outside, Lounge, Engaged, Session, Labels, msghnds

(* A step of one client changes what no other one believes.                *)
LEMMA OthersBelieve ==
    ASSUME IInv, NEW c \in Clients, Step(c), NEW d \in Clients, d # c
    PROVE  Session(d)' = Session(d) /\ roomid'[d] = roomid[d]
<1>1. pc'[d] = pc[d] /\ target'[d] = target[d] /\ sessionid'[d] = sessionid[d] /\ roomid'[d] = roomid[d]
  <2> USE DEF IInv, TypeOK, Goto, Return, clientVars
  <2>1. CASE Login(c) \/ Request(c) \/ Hangup(c) \/ DelClient(c)
    BY <2>1 DEF Login, Request, Accept, Hangup, DelClient
  <2>2. CASE EnterRoomFull(c) \/ EnterRoom(c) \/ EnterRoomDone(c) \/ LeaveRoomDone(c)
    BY <2>2 DEF EnterRoomFull, EnterRoom, EnterRoomDone, LeaveRoomDone
  <2>3. CASE LeaveRoom(c) \/ NewSession(c)
    BY <2>3 DEF LeaveRoom, NewSession, Fail
  <2>4. CASE genid(c) \/ Publish(c) \/ NewSessionDone(c) \/ EnterSessionDone(c) \/ WatchSessionDone(c)
    BY <2>4 DEF genid, Publish, NewSessionDone, EnterSessionDone, WatchSessionDone, TakeSession
  <2>5. CASE EnterSession(c) \/ WatchSession(c)
    BY <2>5 DEF EnterSession, WatchSession, Refuse, Fail
  <2>6. CASE LeaveSession(c) \/ LeaveSessionDone(c)
    BY <2>6 DEF LeaveSession, LeaveSessionDone, Fail
  <2>7. CASE Ready(c)
    BY <2>7 DEF Ready, Fail
  <2>8. QED
    BY <2>1, <2>2, <2>3, <2>4, <2>5, <2>6, <2>7 DEF Step, Handler
<1>2. QED
  BY <1>1 DEF Session

(* Entering a session, watching it and leaving it take no place from       *)
(* another client.                                                         *)
LEMMA OthersKeepPlace ==
    ASSUME IInv, NEW c \in Clients, EnterSession(c) \/ WatchSession(c) \/ LeaveSession(c),
           NEW d \in Clients, d # c, NEW q \in Rooms, NEW t \in Ids,
           t \in live[q], d \in Place(q, t)
    PROVE  t \in live'[q] /\ d \in Place(q, t)'
<1> USE DEF IInv
<1>0. d # NoClient
  BY HallAssumption
<1>1. CASE UNCHANGED sessionVars
  BY <1>1 DEF sessionVars, Place
<1>2. CASE EnterSession(c) /\ ~UNCHANGED sessionVars
  <2>1. PICK r \in Rooms, s \in Ids : r = roomid[c] /\ s = target[c]
    BY <1>2 DEF Control, Lounge, EnterSession, At
  <2>2. /\ ~SeatsTaken(r, s) /\ UNCHANGED <<live, watchers>>
        /\ opponent' = IF owner[r][s] # NoClient
                       THEN [opponent EXCEPT ![r][s] = c] ELSE opponent
        /\ owner' = IF owner[r][s] = NoClient /\ opponent[r][s] # NoClient
                    THEN [owner EXCEPT ![r][s] = c] ELSE owner
    BY <1>2, <2>1 DEF EnterSession, enter, Refuse, Fail
  <2>3. owner[q][t] = d => owner'[q][t] = d
    BY <1>0, <2>2 DEF TypeOK
  <2>4. opponent[q][t] = d => opponent'[q][t] = d
    BY <1>0, <2>2 DEF TypeOK, SeatsTaken
  <2>5. QED
    BY <2>2, <2>3, <2>4 DEF Place
<1>3. CASE WatchSession(c) /\ ~UNCHANGED sessionVars
  <2>1. PICK r, s : r = roomid[c] /\ s = target[c]
    OBVIOUS
  <2>2. /\ UNCHANGED <<live, owner, opponent>>
        /\ watchers' = [watchers EXCEPT ![r][s] = watchers[r][s] \cup {c}]
    BY <1>3, <2>1 DEF WatchSession, Refuse, Fail
  <2>3. watchers[q][t] \subseteq watchers'[q][t]
    BY <2>2 DEF TypeOK
  <2>4. QED
    BY <2>2, <2>3 DEF Place
<1>4. CASE LeaveSession(c) /\ ~UNCHANGED sessionVars
  <2>1. PICK r \in Rooms, s \in Ids : r = roomid[c] /\ s = sessionid[c]
    BY <1>4 DEF Control, Engaged, LeaveSession, At
  <2>2. /\ owner' = owner \/ (owner[r][s] = c /\ owner' = [owner EXCEPT ![r][s] = NoClient])
        /\ \/ opponent' = opponent
           \/ opponent[r][s] = c /\ opponent' = [opponent EXCEPT ![r][s] = NoClient]
        /\ watchers' = watchers \/ watchers' = [watchers EXCEPT ![r][s] = watchers[r][s] \ {c}]
        /\ live' = IF Members(r, s) = {c} THEN [live EXCEPT ![r] = live[r] \ {s}] ELSE live
    BY <1>4, <2>1 DEF LeaveSession, leave, Emptied, Fail
  <2>8. owner'[q][t] = owner[q][t] \/ owner[q][t] = c
    <3>1. CASE owner' = [owner EXCEPT ![r][s] = NoClient] /\ owner[r][s] = c
      BY <2>1, <3>1 DEF TypeOK
    <3>2. QED
      BY <2>2, <3>1
  <2>9. opponent'[q][t] = opponent[q][t] \/ opponent[q][t] = c
    <3>1. CASE opponent' = [opponent EXCEPT ![r][s] = NoClient] /\ opponent[r][s] = c
      BY <2>1, <3>1 DEF TypeOK
    <3>2. QED
      BY <2>2, <3>1
  <2>3. watchers[q][t] \subseteq watchers'[q][t] \cup {c}
    <3>1. CASE watchers' = [watchers EXCEPT ![r][s] = watchers[r][s] \ {c}]
      BY <3>1 DEF TypeOK
    <3>2. QED
      BY <2>2, <3>1
  <2>4. d \in Place(q, t)'
    BY <2>3, <2>8, <2>9 DEF Place
  <2>5. d \in Members(q, t)
    BY <1>0 DEF Members
  <2>6. t \in live'[q]
    BY <2>2, <2>5 DEF TypeOK
  <2>7. QED
    BY <2>4, <2>6
<1>5. QED
  BY <1>1, <1>2, <1>3, <1>4

(* A step of another client costs a client its place only when it puts a   *)
(* new session in its place.                                               *)
LEMMA LostByOthers ==
    ASSUME IInv, NEW c \in Clients, Step(c), NEW d \in Clients, d # c, ~Lost(d), Lost(d)'
    PROVE  IsReplaced(d)
<1>1. PICK q, t : q = roomid[d] /\ t = Session(d)
  OBVIOUS
<1>2. Session(d)' = t /\ roomid'[d] = q
  BY <1>1, OthersBelieve
<1>3. q \in Rooms /\ t \in Ids /\ t \in live[q] /\ d \in Place(q, t)
  BY <1>1, <1>2, BelievesSomewhere DEF Lost
<1>4. ~(t \in live'[q] /\ d \in Place(q, t)')
  BY <1>2 DEF Lost, Place
<1>5. Publish(c)
  <2>1. ~(EnterSession(c) \/ WatchSession(c) \/ LeaveSession(c))
    BY <1>3, <1>4, OthersKeepPlace
  <2>2. ~UNCHANGED sessionVars
    BY <1>3, <1>4 DEF sessionVars, Place
  <2>3. QED
    BY <2>1, <2>2 DEF Step, Handler, Login, Request, Accept, Hangup, DelClient, EnterRoomFull,
       EnterRoom, EnterRoomDone, LeaveRoom, LeaveRoomDone, NewSession, genid, NewSessionDone,
       EnterSessionDone, WatchSessionDone, TakeSession, LeaveSessionDone, Ready, Fail
<1>6. PICK r, s : r = roomid[c] /\ s = target[c]
  OBVIOUS
<1>7. /\ pc[c] = "Publish" /\ pc'[c] = "NewSessionDone"
      /\ live' = [live EXCEPT ![r] = live[r] \cup {s}]
      /\ owner' = [owner EXCEPT ![r][s] = c]
      /\ opponent' = [opponent EXCEPT ![r][s] = NoClient]
      /\ watchers' = [watchers EXCEPT ![r][s] = {}]
  BY <1>5, <1>6 DEF Publish, At, Goto, IInv, TypeOK
<1>8. q = r /\ t = s
  <2>1. ASSUME ~(q = r /\ t = s)
        PROVE  /\ owner'[q][t] = owner[q][t] /\ opponent'[q][t] = opponent[q][t]
               /\ watchers'[q][t] = watchers[q][t] /\ t \in live'[q]
    BY <1>3, <1>7, <2>1 DEF IInv, TypeOK
  <2>2. QED
    BY <1>3, <1>4, <2>1 DEF Place
<1>9. QED
  BY <1>1, <1>6, <1>7, <1>8 DEF IsReplaced

(* A step of its own costs a client nothing but the seat it does not take. *)
LEMMA LostByItself ==
    ASSUME IInv, NEW c \in Clients, Step(c), ~Lost(c), Lost(c)'
    PROVE  TakesNoSeat(c)
<1> USE DEF IInv
<1>a. Session(c)' # -1 /\ ~HasPlace(c)' /\ (Session(c) = -1 \/ HasPlace(c))
  BY DEF Lost, HasPlace
<1>b. ASSUME UNCHANGED sessionVars, Session(c)' = Session(c),
             roomid'[c] = roomid[c]
      PROVE  FALSE
  BY <1>a, <1>b DEF sessionVars, HasPlace, Place
<1>c. c # NoClient
  BY HallAssumption
<1>1. CASE Login(c) \/ Request(c) \/ Hangup(c) \/ DelClient(c)
  <2>1. Session(c)' = -1 \/ (Session(c)' = Session(c) /\ roomid'[c] = roomid[c])
    <3>1. CASE Login(c)
      BY <3>1 DEF Login, Session, At, TypeOK
    <3>2. ASSUME NEW msg \in DOMAIN msghnds, NEW t, Accept(c, msg, t)
          PROVE  Session(c)' = Session(c) /\ roomid'[c] = roomid[c]
      <4>1. pc[c] = "idle" /\ pc'[c] = msg /\ sessionid' = sessionid /\ roomid' = roomid
        BY <3>2 DEF Accept, At, Goto, TypeOK, clientVars
      <4>2. msg \notin {"NewSessionDone", "EnterSessionDone", "WatchSessionDone", "LeaveSessionDone"}
        BY <3>2 DEF msghnds
      <4>3. QED
        BY <4>1, <4>2 DEF Session
    <3>3. CASE Hangup(c) \/ DelClient(c)
      BY <3>3 DEF Hangup, DelClient, Session, At, Goto, Return, TypeOK
    <3>4. QED
      BY <1>1, <3>1, <3>2, <3>3 DEF Request
  <2>2. UNCHANGED sessionVars
    BY <1>1 DEF Login, Request, Accept, Hangup, DelClient
  <2>3. QED
    BY <1>a, <1>b, <2>1, <2>2
<1>2. CASE EnterRoomFull(c) \/ EnterRoom(c) \/ EnterRoomDone(c) \/ LeaveRoomDone(c)
  <2>1. Session(c)' = -1 \/ (Session(c)' = Session(c) /\ roomid'[c] = roomid[c])
    <3>1. CASE EnterRoomFull(c) \/ EnterRoom(c)
      BY <3>1 DEF EnterRoomFull, EnterRoom, Session, At, Goto, Return, TypeOK, clientVars
    <3>2. CASE EnterRoomDone(c)
      <4>1. sessionid'[c] = -1 /\ pc'[c] = "idle"
        BY <3>2 DEF EnterRoomDone, At, Goto, Return, TypeOK, Control, Outside
      <4>2. QED
        BY <4>1 DEF Session
    <3>3. CASE LeaveRoomDone(c)
      <4>1. sessionid'[c] = -1 /\ pc'[c] \in {"DelClient", "idle"}
        BY <3>3 DEF LeaveRoomDone, At, Goto, TypeOK, Control, Lounge
      <4>2. QED
        BY <4>1 DEF Session
    <3>4. QED
      BY <1>2, <3>1, <3>2, <3>3
  <2>2. UNCHANGED sessionVars
    BY <1>2 DEF EnterRoomFull, EnterRoom, EnterRoomDone, LeaveRoomDone
  <2>3. QED
    BY <1>a, <1>b, <2>1, <2>2
<1>3. CASE LeaveRoom(c) \/ NewSession(c) \/ genid(c) \/ Ready(c)
  <2>1. Session(c)' = Session(c) /\ roomid'[c] = roomid[c]
    BY <1>3 DEF LeaveRoom, NewSession, genid, Ready, Fail, Session, At, Goto, Return, TypeOK, clientVars
  <2>2. UNCHANGED sessionVars
    BY <1>3 DEF LeaveRoom, NewSession, genid, Ready, Fail
  <2>3. QED
    BY <1>b, <2>1, <2>2
<1>4. CASE NewSessionDone(c) \/ EnterSessionDone(c) \/ WatchSessionDone(c) \/ LeaveSessionDone(c)
  <2>1. Session(c)' = -1 \/ (Session(c)' = Session(c) /\ roomid'[c] = roomid[c])
    BY <1>4 DEF NewSessionDone, EnterSessionDone, WatchSessionDone, TakeSession, LeaveSessionDone,
       Session, At, Goto, Return, TypeOK, clientVars
  <2>2. UNCHANGED sessionVars
    BY <1>4 DEF NewSessionDone, EnterSessionDone, WatchSessionDone, TakeSession, LeaveSessionDone
  <2>3. QED
    BY <1>a, <1>b, <2>1, <2>2
<1>5. CASE Publish(c)
  <2>1. PICK r \in Rooms, s \in Ids : r = roomid[c] /\ s = target[c]
    BY <1>5 DEF Control, Lounge, Publish, At
  <2>2. /\ live' = [live EXCEPT ![r] = live[r] \cup {s}]
        /\ owner' = [owner EXCEPT ![r][s] = c]
        /\ Session(c)' = s /\ roomid'[c] = r
    BY <1>5, <2>1 DEF Publish, At, Goto, Session, TypeOK, clientVars
  <2>3. s \in live'[r] /\ owner'[r][s] = c
    BY <2>2 DEF TypeOK
  <2>4. QED
    BY <1>a, <2>2, <2>3 DEF HasPlace, Place
<1>6. CASE WatchSession(c)
  <2>1. PICK r \in Rooms, s \in Ids : r = roomid[c] /\ s = target[c]
    BY <1>6 DEF Control, Lounge, WatchSession, At
  <2>2. CASE Refuse(c) \/ Fail("watchSession")
    <3>1. Session(c)' = Session(c) /\ roomid'[c] = roomid[c] /\ UNCHANGED sessionVars
      BY <1>6, <2>2 DEF WatchSession, At, Refuse, Fail, Return, Goto, Session, TypeOK, clientVars
    <3>2. QED
      BY <1>b, <3>1
  <2>3. CASE ~(Refuse(c) \/ Fail("watchSession"))
    <3>1. /\ s \in live[r] /\ live' = live
          /\ watchers' = [watchers EXCEPT ![r][s] = watchers[r][s] \cup {c}]
          /\ Session(c)' = s /\ roomid'[c] = r
      BY <1>6, <2>1, <2>3 DEF WatchSession, At, Goto, Session, TypeOK, clientVars
    <3>2. c \in watchers'[r][s]
      BY <3>1 DEF TypeOK
    <3>3. QED
      BY <1>a, <3>1, <3>2 DEF HasPlace, Place
  <2>4. QED
    BY <2>2, <2>3
<1>7. CASE EnterSession(c)
  <2>1. PICK r \in Rooms, s \in Ids : r = roomid[c] /\ s = target[c]
    BY <1>7 DEF Control, Lounge, EnterSession, At
  <2>2. CASE Refuse(c) \/ Fail("enterSession")
    <3>1. Session(c)' = Session(c) /\ roomid'[c] = roomid[c] /\ UNCHANGED sessionVars
      BY <1>7, <2>2 DEF EnterSession, At, Refuse, Fail, Return, Goto, Session, TypeOK, clientVars
    <3>2. QED
      BY <1>b, <3>1
  <2>3. CASE ~(Refuse(c) \/ Fail("enterSession"))
    <3>1. /\ s \in live[r] /\ live' = live /\ enter(c, r, s)
          /\ pc[c] = "EnterSession" /\ pc'[c] = "EnterSessionDone"
          /\ Session(c)' = s /\ roomid'[c] = r
      BY <1>7, <2>1, <2>3 DEF EnterSession, At, Goto, Session, TypeOK, clientVars
    <3>2. c \notin Place(r, s)'
      BY <1>a, <3>1 DEF HasPlace, Place
    <3>3. owner[r][s] = NoClient
      <4>1. owner[r][s] # NoClient => opponent'[r][s] = c
        BY <3>1 DEF enter, TypeOK
      <4>2. QED
        BY <3>2, <4>1 DEF Place
    <3>4. opponent[r][s] = NoClient
      <4>1. opponent[r][s] # NoClient => owner'[r][s] = c
        BY <3>1, <3>3 DEF enter, TypeOK
      <4>2. QED
        BY <3>2, <4>1 DEF Place
    <3>5. QED
      BY <2>1, <3>1, <3>3, <3>4 DEF TakesNoSeat
  <2>4. QED
    BY <2>2, <2>3
<1>8. CASE LeaveSession(c)
  <2>1. pc' = pc \/ pc'[c] = "LeaveSessionDone"
    BY <1>8 DEF LeaveSession, At, Goto, Fail, TypeOK
  <2>2. CASE pc'[c] = "LeaveSessionDone"
    BY <1>a, <2>2 DEF Session
  <2>3. CASE pc' = pc /\ pc'[c] # "LeaveSessionDone"
    <3>1. UNCHANGED sessionVars /\ UNCHANGED <<roomid, sessionid, target>>
      BY <1>8, <2>3 DEF LeaveSession, At, Goto, Fail, TypeOK, clientVars
    <3>2. QED
      BY <1>b, <2>3, <3>1 DEF Session
  <2>4. QED
    BY <2>1, <2>2, <2>3
<1>9. QED
  BY <1>1, <1>2, <1>3, <1>4, <1>5, <1>6, <1>7, <1>8 DEF Step, Handler

(* The handlers that fail an ASSERT are those of LeaveSession and Ready,   *)
(* and they look for the client in the session it believes to be in.       *)
LEMMA OnlyLostFail ==
    ASSUME IInv, RoomAsserts', NEW c \in Clients, Step(c), exited' # exited
    PROVE  c \in Busy /\ Lost(c)
<1> USE DEF IInv
<1>1. LeaveSession(c) \/ Ready(c)
  <2>1. CASE LeaveRoom(c) \/ NewSession(c) \/ EnterSession(c) \/ WatchSession(c)
    BY <2>1 DEF LeaveRoom, NewSession, EnterSession, WatchSession, Refuse, Fail, RoomAsserts
  <2>2. QED
    BY <2>1 DEF Step, Handler, Login, Request, Accept, Hangup, DelClient, EnterRoomFull, EnterRoom,
       EnterRoomDone, LeaveRoomDone, genid, Publish, NewSessionDone, EnterSessionDone,
       WatchSessionDone, TakeSession, LeaveSessionDone
<1>2. PICK r, s : r = roomid[c] /\ s = sessionid[c]
  OBVIOUS
<1>3. c \in Busy /\ Session(c) = s /\ r \in Rooms /\ s \in Ids /\ s # -1
  <2>1. pc[c] \in {"LeaveSession", "Ready"}
    BY <1>1 DEF LeaveSession, Ready, At
  <2>2. Engaged(c)
    BY <2>1 DEF Control
  <2>3. QED
    BY <1>2, <2>1, <2>2, Positive DEF Busy, Session, Engaged
<1>4. s \notin live[r] \/ c \notin Place(r, s)
  <2>1. CASE LeaveSession(c)
    BY <1>2, <2>1 DEF LeaveSession, Fail, RoomAsserts
  <2>2. CASE Ready(c)
    <3>1. s \notin live[r] \/ c \notin {owner[r][s], opponent[r][s]}
      BY <1>2, <2>2 DEF Ready, Fail, RoomAsserts
    <3>2. pc[c] = "Ready" /\ state[c] = "Sessional"
      BY <2>2 DEF Ready, At, Control
    <3>3. c \notin watchers[r][s]
      BY <1>3, <3>2 DEF Seating, WatcherOf
    <3>4. QED
      BY <3>1, <3>3 DEF Place
  <2>3. QED
    BY <1>1, <2>1, <2>2
<1>5. QED
  BY <1>2, <1>3, <1>4 DEF Lost

(* However many workers there are, whether ids collide or not and whoever  *)
(* watches: a client loses its session only by entering one whose seats    *)
(* are both free, or to a new session with the same id, and no ASSERT      *)
(* fails but in the handler of a client that is lost.                      *)
THEOREM LossesHaveCauses == Spec => LossesExplained
<1> DEFINE Explained ==
      /\ \A c \in Clients : ~Lost(c) /\ Lost(c)' => TakesNoSeat(c) \/ IsReplaced(c)
      /\ exited' # exited => \E c \in Busy : Lost(c)
<1>1. IInv /\ RoomAsserts' /\ [Next]_vars => [Explained]_vars
  <2> SUFFICES ASSUME IInv, RoomAsserts', NEW e \in Clients, Step(e)
               PROVE  Explained
    BY DEF Next, Exited
  <2>1. ASSUME NEW c \in Clients, ~Lost(c), Lost(c)'
        PROVE  TakesNoSeat(c) \/ IsReplaced(c)
    <3>1. CASE c = e
      BY <2>1, <3>1, LostByItself
    <3>2. CASE c # e
      BY <2>1, <3>2, LostByOthers
    <3>3. QED
      BY <3>1, <3>2
  <2>2. ASSUME exited' # exited
        PROVE  \E c \in Busy : Lost(c)
    BY <2>2, OnlyLostFail
  <2>3. QED
    BY <2>1, <2>2
<1>2. QED
  BY <1>1, Invariance, RoomAssertsHold, PTL DEF Spec, LossesExplained
=============================================================================
