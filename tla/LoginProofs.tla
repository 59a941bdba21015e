----------------------------- MODULE LoginProofs -----------------------------
(***************************************************************************)
(* For every number of peers, names and descriptors: the list holds who is *)
(* logged in, no descriptor is closed under the feet of another connection *)
(* unless addClient has rejected one that had the same number, and keys    *)
(* are good for their time and do not pile up.                             *)
(***************************************************************************)
EXTENDS Login, WellFoundedInduction, FiniteSetTheorems, TLAPS

(* The part of the types the argument needs.  A connection that the server *)
(* works on has been given a descriptor.                                   *)
Functions ==
    /\ conn \in [Peers -> Stages]
    /\ fd \in [Peers -> Descriptors \cup {0}]
    /\ table \in [Descriptors -> Peers \cup {NoPeer}]
    /\ clients \in [Users -> Peers \cup {NoPeer}]

Given == \A p \in Peers : conn[p] \in Open => fd[p] \in Descriptors

IInv == Functions /\ Given /\ ListAgrees /\ OwnDescriptor

(* A set of numbers that is not empty has a lowest one.                    *)
LEMMA LowestOf ==
    ASSUME NEW S \in SUBSET Nat, S # {}
    PROVE  Lowest(S) \in S
<1>1. PICK d \in S : \A e \in S : ~(<<e, d>> \in OpToRel(<, Nat))
  BY NatLessThanWellFounded, WFMin, Zenon
<1>2. \A e \in S : ~(e < d)
  BY <1>1, Zenon DEF OpToRel
<1>3. \A e \in S : d <= e
  BY <1>2
<1>4. QED
  BY <1>3 DEF Lowest

LEMMA InitIInv == Init => IInv
BY LoginAssumption DEF Init, IInv, Functions, Given, ListAgrees, OwnDescriptor, Stages, Open, Users

(* A step that takes one connection from a stage to the next and keeps its *)
(* descriptor, the table and the list: what is left is to look at the two  *)
(* stages.                                                                 *)
LEMMA MoveKeeps ==
    ASSUME IInv, NEW p \in Peers, NEW to \in Stages,
           conn' = [conn EXCEPT ![p] = to], UNCHANGED <<fd, table, clients>>,
           conn[p] \in {"assign", "online"} <=> to \in {"assign", "online"},
           to \in Open => conn[p] \in Open,
           conn[p] \notin {"rejected", "rejected, closing", "rejected, closed"}
    PROVE  IInv'
<1>1. \A q \in Peers : conn'[q] = IF q = p THEN to ELSE conn[q]
  BY DEF IInv, Functions
<1>2. Functions'
  BY DEF IInv, Functions
<1>3. Given'
  BY <1>1 DEF IInv, Given
<1>4. ListAgrees'
  <2>1. clients' = clients /\ ListAgrees
    BY DEF IInv
  <2>2. \A q \in Peers : conn'[q] \in {"assign", "online"} <=> conn[q] \in {"assign", "online"}
    BY <1>1
  <2>3. QED
    BY <2>1, <2>2 DEF ListAgrees
<1>5. Rejected \subseteq Rejected'
  BY <1>1 DEF Rejected
<1>6. OwnDescriptor'
  BY <1>1, <1>5 DEF IInv, OwnDescriptor
<1>7. QED
  BY <1>2, <1>3, <1>4, <1>6 DEF IInv

(* A step that ends a connection that has its own descriptor, or one that  *)
(* was rejected, and closes it.                                            *)
LEMMA CloseKeeps ==
    ASSUME IInv, NEW p \in Peers, NEW to \in Stages \ Open,
           conn' = [conn EXCEPT ![p] = to], Close(p), UNCHANGED <<fd, clients>>,
           conn[p] \notin {"assign", "online"},
           \/ conn[p] \in Open
           \/ to \in {"rejected, closing", "rejected, closed"}
    PROVE  IInv'
<1>1. \A q \in Peers : conn'[q] = IF q = p THEN to ELSE conn[q]
  BY DEF IInv, Functions
<1>2. \A d \in Descriptors : d # fd[p] => table'[d] = table[d]
  BY DEF IInv, Functions, Close
<1>3. Functions'
  BY DEF IInv, Functions, Close
<1>4. Given'
  BY <1>1 DEF IInv, Given
<1>5. ListAgrees'
  <2>1. to \notin {"assign", "online"}
    BY DEF Open
  <2>2. \A q \in Peers : conn'[q] \in {"assign", "online"} <=> conn[q] \in {"assign", "online"}
    BY <1>1, <2>1
  <2>3. clients' = clients /\ ListAgrees
    BY DEF IInv
  <2>4. QED
    BY <2>2, <2>3 DEF ListAgrees
<1>6. OwnDescriptor'
  <2> SUFFICES ASSUME NEW q \in Peers, conn'[q] \in Open
               PROVE  table'[fd[q]] = q \/ \E r \in Rejected' : fd[r] = fd[q]
    BY DEF OwnDescriptor
  <2>1. Rejected \subseteq Rejected'
    BY <1>1 DEF Rejected, Open
  <2>2. q # p /\ conn[q] \in Open /\ fd[q] \in Descriptors
    BY <1>1 DEF IInv, Given
  <2>3. CASE \E r \in Rejected : fd[r] = fd[q]
    BY <2>1, <2>3
  <2>4. CASE table[fd[q]] = q /\ fd[q] # fd[p]
    BY <2>2, <2>4, <1>2
  <2>5. CASE table[fd[q]] = q /\ fd[q] = fd[p]
    <3>1. CASE conn[p] \in Open
      <4>1. table[fd[p]] # p
        BY <2>2, <2>5
      <4>2. \E r \in Rejected : fd[r] = fd[p]
        BY <3>1, <4>1 DEF IInv, OwnDescriptor
      <4>3. QED
        BY <4>2, <2>1, <2>5
    <3>2. CASE to \in {"rejected, closing", "rejected, closed"}
      <4>1. p \in Rejected'
        BY <1>1, <3>2 DEF Rejected
      <4>2. QED
        BY <4>1, <2>5
    <3>3. QED
      BY <3>1, <3>2
  <2>6. QED
    BY <2>2, <2>3, <2>4, <2>5 DEF IInv, OwnDescriptor
<1>7. QED
  BY <1>3, <1>4, <1>5, <1>6 DEF IInv

-----------------------------------------------------------------------------
LEMMA doacceptKeeps ==
    ASSUME IInv, NEW p \in Peers, doaccept(p)
    PROVE  IInv'
<1> DEFINE d == Lowest(Free)
<1>1. d \in Descriptors /\ table[d] = NoPeer
  <2>1. Free \in SUBSET Nat /\ Free # {}
    BY LoginAssumption DEF Free, doaccept
  <2>2. QED
    BY <2>1, LowestOf DEF Free
<1> HIDE DEF d
<1>2. /\ conn' = [conn EXCEPT ![p] = "accepted"]
      /\ fd' = [fd EXCEPT ![p] = d]
      /\ table' = [table EXCEPT ![d] = p]
      /\ clients' = clients
      /\ conn[p] = "backlog"
  BY DEF doaccept, d
<1>3. \A q \in Peers : /\ conn'[q] = IF q = p THEN "accepted" ELSE conn[q]
                       /\ fd'[q] = IF q = p THEN d ELSE fd[q]
  BY <1>2 DEF IInv, Functions
<1>4. \A e \in Descriptors : table'[e] = IF e = d THEN p ELSE table[e]
  BY <1>2 DEF IInv, Functions
<1>5. Functions'
  BY <1>1, <1>2 DEF IInv, Functions, Stages
<1>6. Given'
  BY <1>1, <1>3 DEF IInv, Given
<1>7. ListAgrees'
  BY <1>2, <1>3 DEF IInv, ListAgrees
<1>8. OwnDescriptor'
  <2> SUFFICES ASSUME NEW q \in Peers, conn'[q] \in Open
               PROVE  table'[fd'[q]] = q \/ \E r \in Rejected' : fd'[r] = fd'[q]
    BY DEF OwnDescriptor
  <2>1. CASE q = p
    BY <2>1, <1>1, <1>3, <1>4
  <2>2. CASE q # p
    <3>1. \A r \in Rejected : r \in Rejected' /\ fd'[r] = fd[r]
      BY <1>2, <1>3 DEF Rejected
    <3>2. conn[q] \in Open /\ fd'[q] = fd[q] /\ fd[q] \in Descriptors
      BY <2>2, <1>3 DEF IInv, Given
    <3>3. CASE table[fd[q]] = q
      BY <3>2, <3>3, <1>1, <1>4, LoginAssumption
    <3>4. CASE \E r \in Rejected : fd[r] = fd[q]
      BY <3>1, <3>2, <3>4
    <3>5. QED
      BY <3>2, <3>3, <3>4 DEF IInv, OwnDescriptor
  <2>3. QED
    BY <2>1, <2>2
<1>9. QED
  BY <1>5, <1>6, <1>7, <1>8 DEF IInv

(* Two with one name: the second finds the first on the list.              *)
LEMMA addClientKeeps ==
    ASSUME IInv, NEW p \in Peers, addClient(p)
    PROVE  IInv'
<1>1. conn[p] = "add" /\ fd' = fd /\ table' = table
  BY DEF addClient, Move
<1>2. CASE clients[User[p]] # NoPeer
  <2>1. conn' = [conn EXCEPT ![p] = "rejected"] /\ clients' = clients
    BY <1>2 DEF addClient, Move
  <2>2. QED
    BY <1>1, <2>1, MoveKeeps DEF Stages, Open
<1>3. CASE clients[User[p]] = NoPeer
  <2>1. /\ conn' = [conn EXCEPT ![p] = "assign"]
        /\ clients' = [clients EXCEPT ![User[p]] = p]
    BY <1>3 DEF addClient, Move
  <2>2. \A q \in Peers : conn'[q] = IF q = p THEN "assign" ELSE conn[q]
    BY <2>1 DEF IInv, Functions
  <2>3. \A q \in Peers :
            clients'[User[q]] = IF User[q] = User[p] THEN p ELSE clients[User[q]]
    BY <2>1 DEF IInv, Functions, Users
  <2>4. Functions'
    BY <1>1, <2>1 DEF IInv, Functions, Stages, Users
  <2>5. Given'
    BY <1>1, <2>2 DEF IInv, Given, Open
  <2>6. ListAgrees'
    BY <1>3, <2>2, <2>3, LoginAssumption DEF IInv, ListAgrees
  <2>7. OwnDescriptor'
    <3>1. Rejected \subseteq Rejected'
      BY <1>1, <2>2 DEF Rejected
    <3>2. QED
      BY <1>1, <2>2, <3>1 DEF IInv, OwnDescriptor, Open
  <2>8. QED
    BY <2>4, <2>5, <2>6, <2>7 DEF IInv
<1>4. QED
  BY <1>2, <1>3

(* The name that becomes free is that of nobody else who is logged in.     *)
LEMMA delClientKeeps ==
    ASSUME IInv, NEW p \in Peers, delClient(p)
    PROVE  IInv'
<1>1. /\ conn[p] = "online" /\ fd' = fd /\ table' = table
      /\ conn' = [conn EXCEPT ![p] = "leaving"]
      /\ clients' = [clients EXCEPT ![User[p]] = NoPeer]
  BY DEF delClient, Move
<1>2. \A q \in Peers : conn'[q] = IF q = p THEN "leaving" ELSE conn[q]
  BY <1>1 DEF IInv, Functions
<1>3. \A q \in Peers :
          clients'[User[q]] = IF User[q] = User[p] THEN NoPeer ELSE clients[User[q]]
  BY <1>1 DEF IInv, Functions, Users
<1>4. Functions'
  BY <1>1 DEF IInv, Functions, Stages, Users
<1>5. Given'
  BY <1>1, <1>2 DEF IInv, Given, Open
<1>6. ListAgrees'
  <2>1. clients[User[p]] = p
    BY <1>1 DEF IInv, ListAgrees
  <2>2. \A q \in Peers : q # p /\ User[q] = User[p] => clients[User[q]] # q
    BY <2>1
  <2>3. QED
    BY <1>2, <1>3, <2>2, LoginAssumption DEF IInv, ListAgrees
<1>7. OwnDescriptor'
  <2>1. Rejected \subseteq Rejected'
    BY <1>1, <1>2 DEF Rejected
  <2>2. QED
    BY <1>1, <1>2, <2>1 DEF IInv, OwnDescriptor, Open
<1>8. QED
  BY <1>4, <1>5, <1>6, <1>7 DEF IInv

-----------------------------------------------------------------------------
(* The steps that leave the connections alone.                             *)
LEMMA KeepsUnchanged ==
    ASSUME IInv, UNCHANGED tcpVars
    PROVE  IInv'
BY DEF IInv, Functions, Given, ListAgrees, OwnDescriptor, Rejected, tcpVars

(* The steps that take a connection further without touching its socket.   *)
LEMMA OnwardKeeps ==
    ASSUME IInv, NEW p \in Peers,
           \/ Connect(p) \/ doread(p) \/ verifykey(p) \/ parseFails(p) \/ findClient(p)
           \/ assign(p)
    PROVE  IInv'
<1>1. CASE Connect(p)
  BY <1>1, MoveKeeps DEF Connect, Stages, Open
<1>2. CASE doread(p)
  BY <1>2, MoveKeeps DEF doread, Move, Stages, Open
<1>3. CASE verifykey(p)
  <2>1. \E to \in {"find", "closing"} : conn' = [conn EXCEPT ![p] = to]
    BY <1>3 DEF verifykey
  <2>2. conn[p] = "verify" /\ UNCHANGED <<fd, table, clients>>
    BY <1>3 DEF verifykey
  <2>3. QED
    BY <2>1, <2>2, MoveKeeps DEF Stages, Open
<1>4. CASE parseFails(p)
  BY <1>4, MoveKeeps DEF parseFails, Move, Stages, Open
<1>5. CASE findClient(p)
  <2>1. \E to \in {"add", "closing"} : conn' = [conn EXCEPT ![p] = to]
    BY <1>5 DEF findClient, Move
  <2>2. conn[p] = "find" /\ UNCHANGED <<fd, table, clients>>
    BY <1>5 DEF findClient, Move
  <2>3. QED
    BY <2>1, <2>2, MoveKeeps DEF Stages, Open
<1>6. CASE assign(p)
  BY <1>6, MoveKeeps DEF assign, Move, Stages, Open
<1>7. QED
  BY <1>1, <1>2, <1>3, <1>4, <1>5, <1>6

(* The steps that close a socket.                                          *)
LEMMA EndKeeps ==
    ASSUME IInv, NEW p \in Peers,
           doreadFails(p) \/ destroyRejected(p) \/ err_end(p) \/ destroy(p)
    PROVE  IInv'
<1>1. CASE doreadFails(p)
  BY <1>1, CloseKeeps DEF doreadFails, Move, Stages, Open
<1>2. CASE destroyRejected(p)
  BY <1>2, CloseKeeps DEF destroyRejected, Move, Stages, Open
<1>3. CASE Move(p, "closing", "closed") /\ Close(p) /\ UNCHANGED <<fd, clients, told>>
  BY <1>3, CloseKeeps DEF Move, Stages, Open
<1>4. CASE /\ Move(p, "rejected, closing", "rejected, closed")
           /\ Close(p) /\ UNCHANGED <<fd, clients, told>>
  BY <1>4, CloseKeeps DEF Move, Stages, Open
<1>5. CASE destroy(p)
  BY <1>5, CloseKeeps DEF destroy, Move, Stages, Open
<1>6. QED
  BY <1>1, <1>2, <1>3, <1>4, <1>5 DEF err_end

LEMMA NextIInv == IInv /\ [Next]_vars => IInv'
<1> SUFFICES ASSUME IInv, [Next]_vars PROVE IInv'
  OBVIOUS
<1>1. CASE Tick \/ create \/ createFails \/ UNCHANGED vars
  BY <1>1, KeepsUnchanged DEF Tick, create, createFails, vars
<1>2. /\ \A p \in Peers : genSecret(p) => IInv'
      /\ \A m \in drawn : insert(m) => IInv'
  BY KeepsUnchanged DEF genSecret, insert
<1>3. ASSUME NEW m \in answering, SendKey(m) \/ remove(m) PROVE IInv'
  BY <1>3, KeepsUnchanged DEF SendKey, remove
<1>4. ASSUME NEW p \in Peers, assignNobody(p) PROVE IInv'
  BY <1>4, KeepsUnchanged DEF assignNobody
<1>5. ASSUME NEW p \in Peers, Connect(p) \/ Listener(p) \/ Job(p) \/ delClient(p) \/ destroy(p)
      PROVE  IInv'
  BY <1>4, <1>5, doacceptKeeps, addClientKeeps, delClientKeeps, OnwardKeeps, EndKeeps
     DEF Listener, Job
<1>6. QED
  BY <1>1, <1>2, <1>3, <1>5 DEF Next

LEMMA Invariance == Spec => []IInv
BY InitIInv, NextIInv, PTL DEF Spec

(* The list holds exactly the clients that are logged in: of several       *)
(* logins with one name at most one gets through addClient, whatever the   *)
(* order in which their jobs look for the name.                            *)
THEOREM NamesKept == Spec => []ListAgrees
BY Invariance, PTL DEF IInv

(* Each open connection has a descriptor that stands for it, or one whose  *)
(* number is that of a connection addClient has rejected: the double close *)
(* of err_end is the only way to lose one.                                 *)
THEOREM DescriptorsKept == Spec => []OwnDescriptor
BY Invariance, PTL DEF IInv
-----------------------------------------------------------------------------
(* Types: Functions above, the keys, and the rest.                         *)
RestOK ==
    /\ now \in Times /\ started \in DOMAIN NextStart \cup {"all", "failed"}
    /\ key \in [Peers -> (Keys \X Times) \cup {NoKey}]
    /\ told \in [Peers -> {"nothing", "success", "already login"}]
    /\ fault \in {"none", "remove", "assign"}

KeysOK ==
    /\ serno \in 0..Serials - 1
    /\ drawn \subseteq Keys \X (0..now)
    /\ answering \subseteq Keys \X Times /\ replies \subseteq Keys \X Times
    /\ DOMAIN keymap \subseteq Keys /\ \A k \in DOMAIN keymap : keymap[k] \in 0..now

LEMMA Numbers ==
    /\ Serials \in Nat \ {0}
    /\ SecretTimeout \in Nat /\ CleanThreshold \in Nat /\ MaxTime \in Nat
BY LoginAssumption

(* Where create goes from each stage.                                      *)
LEMMA StartStages ==
    \A s \in DOMAIN NextStart : NextStart[s] \in DOMAIN NextStart \cup {"all", "failed"}
BY DEF NextStart

LEMMA TypeParts == TypeOK <=> Functions /\ RestOK /\ KeysOK
BY DEF TypeOK, Functions, RestOK, KeysOK

LEMMA InitTypes == Init => RestOK /\ KeysOK
BY LoginAssumption DEF Init, RestOK, KeysOK, NextStart, Times, NoKey

(* An insertion: the sweep, and the key that was drawn.                    *)
LEMMA insertRestricts ==
    ASSUME NEW m \in drawn, insert(m)
    PROVE  LET k == m[1]  t == m[2] IN
           /\ Swept(t) \subseteq DOMAIN keymap
           /\ \A j \in DOMAIN keymap \ Swept(t) : Expired(j, t)
           /\ drawn' = drawn \ {m}
           /\ \/ /\ k \in Swept(t) /\ ~Expired(k, t)
                 /\ DOMAIN keymap' = Swept(t) /\ \A j \in Swept(t) : keymap'[j] = keymap[j]
                 /\ answering' = answering
              \/ /\ ~(k \in Swept(t) /\ ~Expired(k, t))
                 /\ DOMAIN keymap' = Swept(t) \cup {k}
                 /\ keymap'[k] = t
                 /\ \A j \in Swept(t) \ {k} : keymap'[j] = keymap[j]
                 /\ answering' = answering \cup {m}
BY DEF insert, Swept, Stamp

LEMMA NowNat == now \in Times => now \in Nat /\ now \in 0..now /\ 0..now \subseteq Times
BY Numbers DEF Times

LEMMA TypeStep == Functions /\ RestOK /\ KeysOK /\ [Next]_vars => RestOK' /\ KeysOK'
<1> SUFFICES ASSUME Functions, RestOK, KeysOK, [Next]_vars PROVE RestOK' /\ KeysOK'
  OBVIOUS
<1>1. CASE Tick
  <2> now \in Times /\ now < MaxTime
    BY <1>1 DEF Tick, RestOK
  <2>1. now' = now + 1 /\ now' \in Times
    BY <1>1, Numbers DEF Tick, Times
  <2>2. UNCHANGED <<started, udpVars, key, told, fault>>
    BY <1>1 DEF Tick, tcpVars
  <2>3. RestOK'
    BY <2>1, <2>2 DEF RestOK
  <2>4. 0..now \subseteq 0..now'
    BY <2>1, Numbers DEF Times
  <2>5. KeysOK'
    BY <2>2, <2>4 DEF KeysOK, udpVars
  <2>6. QED
    BY <2>3, <2>5
<1>2. CASE create \/ createFails \/ UNCHANGED vars
  <2>1. started' \in DOMAIN NextStart \cup {"all", "failed"}
    BY <1>2, StartStages DEF create, createFails, RestOK, vars
  <2>2. QED
    BY <1>2, <2>1 DEF create, createFails, RestOK, KeysOK, vars, udpVars, tcpVars
<1>3. ASSUME NEW p \in Peers, genSecret(p) PROVE RestOK' /\ KeysOK'
  <2>1. serno' \in 0..Serials - 1
    BY <1>3, LoginAssumption DEF genSecret, KeysOK
  <2>2. <<<<serno', p>>, now>> \in Keys \X (0..now)
    BY <2>1, NowNat DEF Keys, RestOK
  <2>3. UNCHANGED <<now, started, answering, replies, keymap, key, told, fault>>
    BY <1>3 DEF genSecret, tcpVars
  <2>4. drawn' = drawn \cup {<<<<serno', p>>, now>>}
    BY <1>3 DEF genSecret
  <2>5. QED
    BY <2>1, <2>2, <2>3, <2>4 DEF RestOK, KeysOK
<1>10. ASSUME NEW m \in drawn, insert(m) PROVE RestOK' /\ KeysOK'
  <2>1. m \in Keys \X (0..now) /\ m \in Keys \X Times
    BY NowNat DEF KeysOK, RestOK, Times
  <2>2. UNCHANGED <<now, started, serno, replies, key, told, fault>>
    BY <1>10 DEF insert, tcpVars
  <2>3. drawn' \subseteq drawn /\ answering' \subseteq answering \cup {m}
    BY <1>10, insertRestricts
  <2>4. DOMAIN keymap' \subseteq DOMAIN keymap \cup {m[1]}
    BY <1>10, insertRestricts
  <2>5. \A j \in DOMAIN keymap' : (j \in DOMAIN keymap /\ keymap'[j] = keymap[j]) \/ keymap'[j] = m[2]
    <3>1. PICK k, t : k = m[1] /\ t = m[2]
      OBVIOUS
    <3>2. CASE DOMAIN keymap' = Swept(t) /\ \A j \in Swept(t) : keymap'[j] = keymap[j]
      BY <1>10, <3>1, <3>2, insertRestricts
    <3>3. CASE /\ DOMAIN keymap' = Swept(t) \cup {k} /\ keymap'[k] = t
               /\ \A j \in Swept(t) \ {k} : keymap'[j] = keymap[j]
      BY <1>10, <3>1, <3>3, insertRestricts
    <3>4. QED
      BY <1>10, <3>1, <3>2, <3>3, insertRestricts
  <2>6. m[1] \in Keys /\ m[2] \in 0..now
    BY <2>1
  <2>7. QED
    BY <2>1, <2>2, <2>3, <2>4, <2>5, <2>6 DEF RestOK, KeysOK
<1>4. ASSUME NEW m \in answering, SendKey(m) \/ remove(m) PROVE RestOK' /\ KeysOK'
  BY <1>4 DEF SendKey, remove, RestOK, KeysOK, tcpVars
<1>5. ASSUME NEW p \in Peers, Connect(p) PROVE RestOK' /\ KeysOK'
  BY <1>5 DEF Connect, RestOK, KeysOK
<1>6. ASSUME NEW p \in Peers, Listener(p) PROVE RestOK' /\ KeysOK'
  BY <1>6 DEF Listener, doaccept, doread, doreadFails, Move, RestOK, KeysOK, udpVars
<1>7. ASSUME NEW p \in Peers, verifykey(p) PROVE RestOK' /\ KeysOK'
  BY <1>7 DEF verifykey, RestOK, KeysOK
<1>8. ASSUME NEW p \in Peers, Job(p) PROVE RestOK' /\ KeysOK'
  BY <1>7, <1>8 DEF Job, parseFails, findClient, addClient, assign, assignNobody, destroyRejected,
     err_end, Move, Tell, RestOK, KeysOK, udpVars, tcpVars
<1>9. ASSUME NEW p \in Peers, delClient(p) \/ destroy(p) PROVE RestOK' /\ KeysOK'
  BY <1>9 DEF delClient, destroy, Move, RestOK, KeysOK, udpVars
<1>11. QED
  BY <1>1, <1>2, <1>3, <1>4, <1>5, <1>6, <1>8, <1>9, <1>10 DEF Next

-----------------------------------------------------------------------------
(* The keys that peers have been given.                                    *)
Coming == {"backlog", "accepted", "verify"}
Carried == replies \cup {key[p] : p \in {q \in Peers : conn[q] \in Coming}}

Good(m) == now <= m[2] + SecretTimeout
InMap(m) == m[1] \in DOMAIN keymap /\ m[2] <= keymap[m[1]]

(* A key with the time its job has read.                                   *)
Issued == Keys \X (0..now)

CarriedOK ==
    /\ drawn \subseteq Issued /\ answering \subseteq Issued /\ Carried \subseteq Issued
    /\ \A m \in replies : conn[Asker(m[1])] = "none"
    /\ \A p \in Peers : conn[p] \in Coming => Asker(key[p][1]) = p

(* A key that may still be used is in the map, and no newer answer holds   *)
(* the same one: whoever removes it does not remove another's.             *)
GoodKept ==
    /\ \A m \in Carried : Good(m) => InMap(m)
    /\ \A m \in answering : conn[Asker(m[1])] = "none" /\ Good(m) => InMap(m)
    /\ \A m \in answering, n \in Carried : m[1] = n[1] => ~Good(n)
    /\ \A m, n \in drawn \cup answering : m[1] = n[1] => m = n

KInv == TypeOK /\ CarriedOK /\ GoodKept /\ IsFiniteSet(DOMAIN keymap)

LEMMA NowInTime == TypeOK => now \in Nat /\ now \in 0..now
<1>1. TypeOK => now \in Times
  BY DEF TypeOK
<1>2. QED
  BY <1>1, Numbers DEF Times

(* The clock, and the steps that leave keys and connections alone.         *)
LEMMA TimePasses ==
    ASSUME KInv, now' \in {now, now + 1}, UNCHANGED <<udpVars, conn, key>>
    PROVE  CarriedOK' /\ GoodKept' /\ IsFiniteSet(DOMAIN keymap)'
<1>1. /\ Carried' = Carried /\ drawn' = drawn /\ answering' = answering
      /\ keymap' = keymap /\ replies' = replies
  BY DEF Carried, udpVars
<1>2. now \in Nat /\ SecretTimeout \in Nat
  BY Numbers, NowInTime DEF KInv
<1>3. Issued \subseteq Issued'
  BY <1>2 DEF Issued
<1>4. CarriedOK'
  BY <1>1, <1>3 DEF CarriedOK, KInv
<1>5. \A m \in Issued : Good(m)' => Good(m)
  BY <1>2 DEF Good, Issued
<1>6. \A m \in Issued : InMap(m)' <=> InMap(m)
  BY <1>1 DEF InMap
<1>7. GoodKept'
  <2>1. GoodKept /\ answering \subseteq Issued /\ Carried \subseteq Issued
    BY DEF KInv, CarriedOK
  <2>2. conn' = conn
    OBVIOUS
  <2>3. QED
    BY <1>1, <1>5, <1>6, <2>1, <2>2, Zenon DEF GoodKept
<1>8. QED
  BY <1>1, <1>4, <1>7 DEF KInv

(* A step after which no peer and no job has a key it had not before, and  *)
(* that removes none of those they may still use.                          *)
LEMMA NoneNew ==
    ASSUME KInv, now' = now,
           drawn' = drawn, answering' \subseteq answering, Carried' \subseteq Carried,
           \A m \in answering' : conn'[Asker(m[1])] = "none" => conn[Asker(m[1])] = "none",
           \A m \in Carried' : Good(m) /\ InMap(m) => InMap(m)',
           \A m \in answering' :
               conn'[Asker(m[1])] = "none" /\ Good(m) /\ InMap(m) => InMap(m)'
    PROVE  GoodKept'
<1>1. \A m : Good(m)' <=> Good(m)
  BY DEF Good
<1>2. GoodKept
  BY DEF KInv
<1>3. QED
  BY <1>1, <1>2, Zenon DEF GoodKept

(* A job of a connection or its listener: where a key has been given or    *)
(* used, it is not given or used again.                                    *)
LEMMA ConnMoves ==
    ASSUME KInv, NEW p \in Peers, NEW to,
           conn' = [conn EXCEPT ![p] = to], UNCHANGED <<now, udpVars>>,
           conn[p] # "none", to # "none", to \in Coming => conn[p] \in Coming,
           key' = key \/ (to \notin Coming /\ key' = [key EXCEPT ![p] = NoKey])
    PROVE  CarriedOK' /\ GoodKept' /\ IsFiniteSet(DOMAIN keymap)'
<1>1. \A q \in Peers : conn'[q] = IF q = p THEN to ELSE conn[q]
  BY DEF KInv, TypeOK
<1>2. /\ drawn' = drawn /\ answering' = answering /\ replies' = replies
      /\ keymap' = keymap /\ Issued' = Issued
  BY DEF udpVars, Issued
<1>0. \A q \in Peers : conn'[q] \in Coming => conn[q] \in Coming /\ key'[q] = key[q]
  BY <1>1 DEF KInv, TypeOK
<1>3. Carried' \subseteq Carried
  BY <1>0, <1>2 DEF Carried
<1>4. \A m \in answering \cup replies : Asker(m[1]) \in Peers
  BY DEF KInv, TypeOK, Keys, Asker
<1>5. CarriedOK'
  BY <1>0, <1>1, <1>2, <1>3, <1>4 DEF KInv, CarriedOK
<1>6. \A m \in answering : conn'[Asker(m[1])] = "none" => conn[Asker(m[1])] = "none"
  BY <1>1, <1>4
<1>7. \A m : InMap(m) => InMap(m)'
  BY <1>2 DEF InMap
<1>8. GoodKept'
  BY <1>2, <1>3, <1>6, <1>7, NoneNew
<1>9. QED
  BY <1>2, <1>5, <1>8 DEF KInv

(* A key is drawn that no running job has.                                 *)
LEMMA genSecretKeeps ==
    ASSUME KInv, NEW p \in Peers, genSecret(p)
    PROVE  CarriedOK' /\ GoodKept' /\ IsFiniteSet(DOMAIN keymap)'
<1>1. PICK new : new = <<<<serno', p>>, now>>
  OBVIOUS
<1>2. /\ now' = now /\ answering' = answering /\ replies' = replies /\ keymap' = keymap
      /\ conn' = conn /\ key' = key /\ drawn' = drawn \cup {new}
      /\ \A m \in drawn \cup answering : m[1] # new[1]
  BY <1>1 DEF genSecret, tcpVars
<1>3. Carried' = Carried /\ Issued' = Issued
  BY <1>2 DEF Carried, Issued
<1>4. new \in Issued
  <2>1. serno' \in 0..Serials - 1
    BY Numbers, TypeParts DEF genSecret, KInv, KeysOK
  <2>2. QED
    BY <1>1, <2>1, NowInTime DEF Issued, Keys, KInv
<1>5. CarriedOK /\ GoodKept
  BY DEF KInv
<1>6. CarriedOK'
  BY <1>2, <1>3, <1>4, <1>5 DEF CarriedOK
<1>7. \A n : (Good(n)' <=> Good(n)) /\ (InMap(n)' <=> InMap(n))
  BY <1>2 DEF Good, InMap
<1>8. \A m, n \in drawn' \cup answering' : m[1] = n[1] => m = n
  BY <1>2, <1>5 DEF GoodKept
<1>9. GoodKept'
  BY <1>2, <1>3, <1>5, <1>7, <1>8, Zenon DEF GoodKept
<1>10. QED
  BY <1>2, <1>6, <1>9 DEF KInv

LEMMA insertKeeps ==
    ASSUME KInv, NEW m \in drawn, insert(m)
    PROVE  CarriedOK' /\ GoodKept' /\ IsFiniteSet(DOMAIN keymap)'
<1>a. PICK k, t : k = m[1] /\ t = m[2]
  OBVIOUS
<1>0. /\ Swept(t) \subseteq DOMAIN keymap
      /\ \A j \in DOMAIN keymap \ Swept(t) : Expired(j, t)
      /\ drawn' = drawn \ {m}
      /\ \/ /\ k \in Swept(t) /\ ~Expired(k, t)
            /\ DOMAIN keymap' = Swept(t) /\ \A j \in Swept(t) : keymap'[j] = keymap[j]
            /\ answering' = answering
         \/ /\ ~(k \in Swept(t) /\ ~Expired(k, t))
            /\ DOMAIN keymap' = Swept(t) \cup {k}
            /\ keymap'[k] = t
            /\ \A j \in Swept(t) \ {k} : keymap'[j] = keymap[j]
            /\ answering' = answering \cup {m}
  BY <1>a, insertRestricts
<1>1. now' = now /\ replies' = replies /\ conn' = conn /\ key' = key
  BY DEF insert, tcpVars
<1>2. Carried' = Carried /\ Issued' = Issued
  BY <1>1 DEF Carried, Issued
<1>3. now \in Nat /\ SecretTimeout \in Nat
  BY Numbers, NowInTime DEF KInv
<1>4. m \in Issued /\ k \in Keys /\ t \in 0..now
  BY <1>a DEF KInv, CarriedOK, Issued
<1>5. \A n \in Issued : Good(n) /\ InMap(n) => n[1] \in Swept(t) /\ ~Expired(n[1], t)
  <2> SUFFICES ASSUME NEW n \in Issued, Good(n), InMap(n)
               PROVE  n[1] \in Swept(t) /\ ~Expired(n[1], t)
    OBVIOUS
  <2>1. n[1] \in DOMAIN keymap /\ n[2] <= keymap[n[1]]
    BY DEF InMap
  <2>2. keymap[n[1]] \in 0..now
    BY <2>1, TypeParts DEF KInv, KeysOK
  <2>3. n[2] \in Nat
    BY <1>3 DEF Issued
  <2>4. ~Expired(n[1], t)
    BY <2>1, <2>2, <2>3, <1>3, <1>4 DEF Good, Expired
  <2>5. QED
    BY <2>1, <2>4, <1>0
<1>6. \A n \in Issued : Good(n) /\ InMap(n) => InMap(n)'
  <2> SUFFICES ASSUME NEW n \in Issued, Good(n), InMap(n)
               PROVE  InMap(n)'
    OBVIOUS
  <2>1. /\ n[1] \in Swept(t) /\ ~Expired(n[1], t)
        /\ n[1] \in DOMAIN keymap /\ n[2] <= keymap[n[1]]
    BY <1>5 DEF InMap
  <2>2. n[1] \in DOMAIN keymap' /\ keymap'[n[1]] = keymap[n[1]]
    BY <2>1, <1>0
  <2>3. QED
    BY <2>1, <2>2 DEF InMap
<1>7. \/ answering' = answering
      \/ /\ answering' = answering \cup {m}
         /\ ~(k \in Swept(t) /\ ~Expired(k, t))
         /\ k \in DOMAIN keymap' /\ keymap'[k] = t
  BY <1>0
<1>9. CarriedOK'
  BY <1>0, <1>1, <1>2, <1>4, <1>7 DEF KInv, CarriedOK
<1>10. answering \subseteq Issued /\ Carried \subseteq Issued /\ GoodKept
  BY DEF KInv, CarriedOK
<1>11. \A n : Good(n)' <=> Good(n)
  BY <1>1 DEF Good
<1>12. \A n \in Carried' : Good(n)' => InMap(n)'
  BY <1>2, <1>6, <1>10, <1>11 DEF GoodKept
<1>8. \A n \in answering : conn[Asker(n[1])] = "none" /\ Good(n) => InMap(n)'
  BY <1>6, <1>10 DEF GoodKept
<1>16. drawn' \cup answering' \subseteq drawn \cup answering
  BY <1>0, <1>7
<1>17. \A l, n \in drawn' \cup answering' : l[1] = n[1] => l = n
  BY <1>10, <1>16 DEF GoodKept
<1>13. GoodKept'
  <2>1. CASE answering' = answering
    BY <1>1, <1>2, <1>8, <1>11, <1>12, <1>10, <1>17, <2>1, Zenon DEF GoodKept
  <2>2. CASE /\ answering' = answering \cup {m}
             /\ ~(k \in Swept(t) /\ ~Expired(k, t))
             /\ k \in DOMAIN keymap' /\ keymap'[k] = t
    <3>1. InMap(m)'
      BY <1>a, <1>4, <2>2 DEF InMap
    <3>2. \A n \in Carried : n[1] = k => ~Good(n)
      BY <1>5, <1>10, <2>2 DEF GoodKept
    <3>3. \A n \in answering' : conn'[Asker(n[1])] = "none" /\ Good(n)' => InMap(n)'
      BY <1>1, <1>8, <1>11, <2>2, <3>1
    <3>4. \A l \in answering', n \in Carried' : l[1] = n[1] => ~Good(n)'
      BY <1>a, <1>2, <1>10, <1>11, <2>2, <3>2 DEF GoodKept
    <3>5. QED
      BY <1>12, <1>17, <3>3, <3>4, Zenon DEF GoodKept
  <2>3. QED
    BY <1>7, <2>1, <2>2
<1>14. IsFiniteSet(DOMAIN keymap)'
  <2>1. DOMAIN keymap' \subseteq DOMAIN keymap \cup {k}
    BY <1>0
  <2>2. IsFiniteSet(DOMAIN keymap \cup {k})
    BY FS_AddElement DEF KInv
  <2>3. QED
    BY <2>1, <2>2, FS_Subset
<1>15. QED
  BY <1>9, <1>13, <1>14

LEMMA SendKeyKeeps ==
    ASSUME KInv, NEW m \in answering, SendKey(m)
    PROVE  CarriedOK' /\ GoodKept' /\ IsFiniteSet(DOMAIN keymap)'
<1>1. /\ now' = now /\ conn' = conn /\ key' = key /\ keymap' = keymap
      /\ drawn' = drawn /\ answering' = answering \ {m} /\ Issued' = Issued
  BY DEF SendKey, tcpVars, Issued
<1>2. \/ Carried' = Carried /\ replies' = replies
      \/ /\ Carried' = Carried \cup {m} /\ replies' = replies \cup {m}
         /\ conn[Asker(m[1])] = "none"
  BY <1>1 DEF SendKey, Carried
<1>3. CarriedOK /\ GoodKept
  BY DEF KInv
<1>4. CarriedOK'
  BY <1>1, <1>2, <1>3 DEF CarriedOK
<1>5. \A n : (Good(n)' <=> Good(n)) /\ (InMap(n)' <=> InMap(n))
  BY <1>1 DEF Good, InMap
<1>6. GoodKept'
  <2>1. \A n \in Carried' : Good(n)' => InMap(n)'
    BY <1>2, <1>3, <1>5 DEF GoodKept
  <2>2. \A l \in answering' : conn'[Asker(l[1])] = "none" /\ Good(l)' => InMap(l)'
    BY <1>1, <1>3, <1>5 DEF GoodKept
  <2>3. \A l \in answering', n \in Carried' : l[1] = n[1] => ~Good(n)'
    BY <1>1, <1>2, <1>3, <1>5 DEF GoodKept
  <2>4. \A l, n \in drawn' \cup answering' : l[1] = n[1] => l = n
    BY <1>1, <1>3 DEF GoodKept
  <2>5. QED
    BY <2>1, <2>2, <2>3, <2>4, Zenon DEF GoodKept
<1>7. QED
  BY <1>1, <1>4, <1>6 DEF KInv

(* Whoever else has had this key got it so long ago that it is too old.    *)
LEMMA removeKeeps ==
    ASSUME KInv, NEW m \in answering, remove(m)
    PROVE  CarriedOK' /\ GoodKept' /\ IsFiniteSet(DOMAIN keymap)'
<1>1. /\ now' = now /\ conn' = conn /\ key' = key /\ replies' = replies
      /\ answering' = answering \ {m} /\ drawn' = drawn
      /\ Issued' = Issued /\ Carried' = Carried
  BY DEF remove, tcpVars, Issued, Carried
<1>2. CarriedOK /\ GoodKept
  BY DEF KInv
<1>3. CarriedOK'
  BY <1>1, <1>2 DEF CarriedOK
<1>4. \A n : n[1] # m[1] /\ InMap(n) => InMap(n)'
  BY DEF InMap, remove
<1>5. \A n \in Carried : Good(n) => n[1] # m[1]
  BY <1>2 DEF GoodKept
<1>6. \A n \in answering' : n[1] # m[1]
  BY <1>1, <1>2 DEF GoodKept
<1>7. GoodKept'
  BY <1>1, <1>4, <1>5, <1>6, NoneNew
<1>8. IsFiniteSet(DOMAIN keymap)'
  <2>1. DOMAIN keymap' \subseteq DOMAIN keymap
    BY DEF remove
  <2>2. QED
    BY <2>1, FS_Subset DEF KInv
<1>9. QED
  BY <1>3, <1>7, <1>8

LEMMA ConnectKeeps ==
    ASSUME KInv, NEW p \in Peers, Connect(p)
    PROVE  CarriedOK' /\ GoodKept' /\ IsFiniteSet(DOMAIN keymap)'
<1>1. PICK m \in replies : Asker(m[1]) = p /\ key' = [key EXCEPT ![p] = m]
  BY DEF Connect
<1>2. /\ now' = now /\ keymap' = keymap /\ Issued' = Issued
      /\ drawn' = drawn /\ answering' = answering
      /\ replies' = {n \in replies : Asker(n[1]) # p}
      /\ conn' = [conn EXCEPT ![p] = "backlog"] /\ conn[p] = "none"
  BY DEF Connect, Issued
<1>3. \A q \in Peers : /\ conn'[q] = IF q = p THEN "backlog" ELSE conn[q]
                       /\ key'[q] = IF q = p THEN m ELSE key[q]
  BY <1>1, <1>2 DEF KInv, TypeOK
<1>4. Carried' \subseteq Carried
  BY <1>2, <1>3 DEF Carried
<1>5. \A n \in answering \cup replies : Asker(n[1]) \in Peers
  BY TypeParts DEF KInv, KeysOK, Keys, Asker
<1>6. CarriedOK'
  BY <1>1, <1>2, <1>3, <1>4, <1>5 DEF KInv, CarriedOK
<1>7. \A n \in answering : conn'[Asker(n[1])] = "none" => conn[Asker(n[1])] = "none"
  BY <1>3, <1>5
<1>8. \A n : InMap(n) => InMap(n)'
  BY <1>2 DEF InMap
<1>9. GoodKept'
  BY <1>2, <1>4, <1>7, <1>8, NoneNew
<1>10. QED
  BY <1>2, <1>6, <1>9 DEF KInv

(* The key of another peer is another key.                                 *)
LEMMA verifykeyKeeps ==
    ASSUME KInv, NEW p \in Peers, verifykey(p)
    PROVE  CarriedOK' /\ GoodKept' /\ IsFiniteSet(DOMAIN keymap)'
<1>1. PICK to \in {"find", "closing"} : conn' = [conn EXCEPT ![p] = to]
  BY DEF verifykey
<1>2. /\ now' = now /\ drawn' = drawn /\ answering' = answering /\ replies' = replies
      /\ key' = [key EXCEPT ![p] = NoKey] /\ Issued' = Issued /\ conn[p] = "verify"
  BY DEF verifykey, Issued
<1>3. \A q \in Peers : /\ conn'[q] = IF q = p THEN to ELSE conn[q]
                       /\ q # p => key'[q] = key[q]
  BY <1>1, <1>2 DEF KInv, TypeOK
<1>4. Carried' \subseteq Carried
  BY <1>2, <1>3 DEF Carried, Coming
<1>5. \A n \in answering \cup replies : Asker(n[1]) \in Peers
  BY TypeParts DEF KInv, KeysOK, Keys, Asker
<1>6. CarriedOK
  BY DEF KInv
<1>7. CarriedOK'
  BY <1>2, <1>3, <1>4, <1>5, <1>6 DEF CarriedOK, Coming
<1>8. \A n \in answering : conn'[Asker(n[1])] = "none" => conn[Asker(n[1])] = "none" /\ Asker(n[1]) # p
  BY <1>3, <1>5
<1>9. Asker(key[p][1]) = p
  BY <1>2, <1>6 DEF CarriedOK, Coming
<1>10. \A n \in Carried' : Asker(n[1]) # p
  BY <1>2, <1>3, <1>5, <1>6 DEF CarriedOK, Carried, Coming
<1>11. \A n : Asker(n[1]) # p /\ InMap(n) => InMap(n)'
  BY <1>9 DEF InMap, verifykey
<1>12. GoodKept'
  BY <1>2, <1>4, <1>8, <1>10, <1>11, NoneNew
<1>13. IsFiniteSet(DOMAIN keymap)'
  <2>1. DOMAIN keymap' \subseteq DOMAIN keymap
    BY DEF verifykey
  <2>2. QED
    BY <2>1, FS_Subset DEF KInv
<1>14. QED
  BY <1>7, <1>12, <1>13

LEMMA InitKInv == Init => KInv
<1> SUFFICES ASSUME Init PROVE KInv
  OBVIOUS
<1>1. TypeOK
  BY InitTypes, InitIInv, TypeParts DEF IInv
<1>2. drawn = {} /\ answering = {} /\ Carried = {} /\ replies = {} /\ \A p \in Peers : conn[p] = "none"
  BY DEF Init, Carried, Coming
<1>3. CarriedOK /\ GoodKept
  BY <1>2 DEF CarriedOK, GoodKept, Coming
<1>4. DOMAIN keymap = {}
  BY DEF Init
<1>5. QED
  BY <1>1, <1>3, <1>4, FS_EmptySet DEF KInv

LEMMA NextKInv == IInv /\ KInv /\ [Next]_vars => KInv'
<1> SUFFICES ASSUME IInv, KInv, [Next]_vars PROVE KInv'
  OBVIOUS
<1>1. TypeOK'
  <2>1. Functions' /\ RestOK' /\ KeysOK'
    BY NextIInv, TypeStep, TypeParts DEF KInv, IInv
  <2>2. QED
    BY <2>1 DEF TypeOK, Functions, RestOK, KeysOK
<1>2. SUFFICES CarriedOK' /\ GoodKept' /\ IsFiniteSet(DOMAIN keymap)'
  BY <1>1 DEF KInv
<1>3. CASE Tick \/ create \/ createFails \/ UNCHANGED vars
  BY <1>3, TimePasses DEF Tick, create, createFails, vars, tcpVars
<1>4. ASSUME NEW p \in Peers, genSecret(p) \/ Connect(p) \/ verifykey(p)
      PROVE  CarriedOK' /\ GoodKept' /\ IsFiniteSet(DOMAIN keymap)'
  BY <1>4, genSecretKeeps, ConnectKeeps, verifykeyKeeps
<1>5. /\ \A m \in drawn : insert(m) => CarriedOK' /\ GoodKept' /\ IsFiniteSet(DOMAIN keymap)'
      /\ \A m \in answering : SendKey(m) \/ remove(m)
                               => CarriedOK' /\ GoodKept' /\ IsFiniteSet(DOMAIN keymap)'
  BY insertKeeps, SendKeyKeeps, removeKeeps
<1>6. ASSUME NEW p \in Peers, assignNobody(p)
      PROVE  CarriedOK' /\ GoodKept' /\ IsFiniteSet(DOMAIN keymap)'
  BY <1>6, TimePasses DEF assignNobody, tcpVars
<1>7. ASSUME NEW p \in Peers,
             \/ Listener(p) \/ parseFails(p) \/ findClient(p) \/ addClient(p)
             \/ assign(p) \/ destroyRejected(p) \/ err_end(p) \/ delClient(p) \/ destroy(p)
      PROVE  CarriedOK' /\ GoodKept' /\ IsFiniteSet(DOMAIN keymap)'
  <2>1. /\ UNCHANGED <<now, udpVars>>
        /\ \E to \in Stages \ {"none"} :
               /\ conn' = [conn EXCEPT ![p] = to] /\ conn[p] # "none"
               /\ to \in Coming => conn[p] \in Coming
               /\ key' = key \/ (to \notin Coming /\ key' = [key EXCEPT ![p] = NoKey])
    <3>1. CASE doaccept(p)
      BY <3>1 DEF doaccept, Stages, Coming
    <3>2. CASE doread(p)
      BY <3>2 DEF doread, Move, Stages, Coming
    <3>7. CASE doreadFails(p)
      <4>1. /\ UNCHANGED <<now, udpVars>>
            /\ conn' = [conn EXCEPT ![p] = "closed"] /\ conn[p] = "accepted"
            /\ key' = [key EXCEPT ![p] = NoKey]
        BY <3>7 DEF doreadFails
      <4>2. "closed" \in Stages \ {"none"} /\ "closed" \notin Coming /\ conn[p] # "none"
        BY <4>1 DEF Stages, Coming
      <4>3. QED
        BY <4>1, <4>2, Zenon
    <3>3. CASE parseFails(p) \/ findClient(p) \/ addClient(p)
      BY <3>3 DEF parseFails, findClient, addClient, Move, Stages, Coming
    <3>4. CASE assign(p) \/ destroyRejected(p) \/ err_end(p)
      BY <3>4 DEF assign, destroyRejected, err_end, Move, Stages, Coming
    <3>5. CASE delClient(p) \/ destroy(p)
      BY <3>5 DEF delClient, destroy, Move, Stages, Coming
    <3>6. QED
      BY <1>7, <3>1, <3>2, <3>3, <3>4, <3>5, <3>7 DEF Listener
  <2>2. QED
    BY <2>1, ConnMoves
<1>8. ASSUME NEW p \in Peers,
             genSecret(p) \/ Connect(p) \/ Listener(p) \/ Job(p) \/ delClient(p) \/ destroy(p)
      PROVE  CarriedOK' /\ GoodKept' /\ IsFiniteSet(DOMAIN keymap)'
  BY <1>4, <1>6, <1>7, <1>8 DEF Job
<1>9. QED
  BY <1>3, <1>5, <1>8 DEF Next

(* Who is turned away has another address, or a key that has been in the   *)
(* map for its time: it is not there only because it was swept or used.    *)
LEMMA StaleRefused == KInv /\ [Next]_vars => OnlyStaleRefused
<1> SUFFICES ASSUME KInv, [Next]_vars, NEW p \in Peers,
                    conn[p] = "verify", conn'[p] = "closing", p \notin Roaming
             PROVE  now > key[p][2] + SecretTimeout
  BY DEF OnlyStaleRefused
<1>1. key[p] \in Carried /\ key[p] \in Issued
  BY DEF KInv, CarriedOK, Carried, Coming
<1>2. conn \in [Peers -> Stages]
  BY TypeParts DEF KInv, Functions
<1>3. key[p][1] \notin DOMAIN keymap
  <2>1. CASE Tick \/ create \/ createFails \/ UNCHANGED vars
    BY <2>1 DEF Tick, create, createFails, vars, tcpVars
  <2>2. ASSUME NEW m, insert(m) \/ SendKey(m) \/ remove(m) PROVE FALSE
    BY <2>2 DEF insert, SendKey, remove, tcpVars
  <2>3. ASSUME NEW q \in Peers, genSecret(q) \/ Connect(q) \/ Listener(q) PROVE FALSE
    BY <1>2, <2>3 DEF genSecret, Connect, Listener, doaccept, doread, doreadFails, Move, tcpVars
  <2>4. ASSUME NEW q \in Peers, verifykey(q) PROVE key[p][1] \notin DOMAIN keymap
    BY <1>2, <2>4 DEF verifykey
  <2>5. ASSUME NEW q \in Peers, parseFails(q) \/ findClient(q) \/ addClient(q) PROVE FALSE
    BY <1>2, <2>5 DEF parseFails, findClient, addClient, Move
  <2>6. ASSUME NEW q \in Peers,
               assign(q) \/ assignNobody(q) \/ destroyRejected(q) \/ err_end(q)
        PROVE  FALSE
    BY <1>2, <2>6 DEF assign, assignNobody, destroyRejected, err_end, Move, tcpVars
  <2>7. ASSUME NEW q \in Peers, delClient(q) \/ destroy(q) PROVE FALSE
    BY <1>2, <2>7 DEF delClient, destroy, Move
  <2>8. QED
    BY <2>1, <2>2, <2>3, <2>4, <2>5, <2>6, <2>7 DEF Next, Job
<1>4. ~Good(key[p])
  BY <1>1, <1>3 DEF KInv, GoodKept, InMap
<1>5. now \in Nat /\ key[p][2] \in Nat /\ SecretTimeout \in Nat
  BY <1>1, NowInTime, Numbers DEF KInv, Issued
<1>6. QED
  BY <1>4, <1>5 DEF Good

(* The map is swept before a key is added to it when there are more than   *)
(* CLEAN_THRESHOLD in it, and what it then keeps is good.                  *)
LEMMA FewStale == KInv /\ [Next]_vars => StaleFew
<1> SUFFICES ASSUME KInv, [Next]_vars, NEW m \in drawn \ drawn'
             PROVE  Cardinality({k \in DOMAIN keymap' : Expired(k, m[2])'}) <= CleanThreshold
  BY DEF StaleFew
<1>1. insert(m)
  <2>1. CASE Tick \/ create \/ createFails \/ UNCHANGED vars
    BY <2>1 DEF Tick, create, createFails, vars, udpVars
  <2>2. ASSUME NEW n, SendKey(n) \/ remove(n) PROVE FALSE
    BY <2>2 DEF SendKey, remove
  <2>3. ASSUME NEW q \in Peers, genSecret(q) \/ Connect(q) \/ Listener(q) \/ verifykey(q)
        PROVE  FALSE
    BY <2>3 DEF genSecret, Connect, Listener, doaccept, doread, doreadFails, Move, verifykey, udpVars
  <2>4. ASSUME NEW q \in Peers, Job(q) PROVE FALSE
    BY <2>3, <2>4 DEF Job, parseFails, findClient, addClient, assign, assignNobody,
       destroyRejected, err_end, Move, udpVars
  <2>5. ASSUME NEW q \in Peers, delClient(q) \/ destroy(q) PROVE FALSE
    BY <2>5 DEF delClient, destroy, Move, udpVars
  <2>6. ASSUME NEW n \in drawn, insert(n) PROVE insert(m)
    BY <2>6 DEF insert
  <2>7. QED
    BY <2>1, <2>2, <2>3, <2>4, <2>5, <2>6 DEF Next
<1>2. PICK k, t : k = m[1] /\ t = m[2]
  OBVIOUS
<1>3. /\ DOMAIN keymap' \subseteq Swept(t) \cup {k}
      /\ k \in DOMAIN keymap' \ Swept(t) => keymap'[k] = t
      /\ ~(k \in Swept(t) /\ ~Expired(k, t)) => keymap'[k] = t
      /\ \A j \in Swept(t) \ {k} : keymap'[j] = keymap[j]
      /\ k \in Swept(t) /\ ~Expired(k, t) => keymap'[k] = keymap[k]
  BY <1>1, <1>2, insertRestricts
<1>4. t \in Nat /\ SecretTimeout \in Nat /\ CleanThreshold \in Nat
  BY <1>2, NowInTime, Numbers DEF KInv, CarriedOK, Issued
<1> DEFINE Old == {j \in DOMAIN keymap' : keymap'[j] + SecretTimeout < t}
<1>5. \A j \in Old : j \in Swept(t) /\ Expired(j, t)
  BY <1>3, <1>4 DEF Expired
<1>6. {j \in DOMAIN keymap' : Expired(j, m[2])'} = Old
  BY <1>2 DEF Expired
<1>7. CASE Cardinality(DOMAIN keymap) > CleanThreshold
  <2>1. Old = {}
    BY <1>5, <1>7 DEF Swept
  <2>2. QED
    BY <1>4, <1>6, <2>1, FS_EmptySet
<1>8. CASE ~(Cardinality(DOMAIN keymap) > CleanThreshold)
  <2>1. Old \subseteq DOMAIN keymap /\ IsFiniteSet(DOMAIN keymap)
    BY <1>5 DEF Swept, KInv
  <2> HIDE DEF Old
  <2>2. /\ Cardinality(Old) \in Nat /\ Cardinality(DOMAIN keymap) \in Nat
        /\ Cardinality(Old) <= Cardinality(DOMAIN keymap)
    BY <2>1, FS_Subset, FS_CardinalityType
  <2>3. QED
    BY <1>4, <1>6, <1>8, <2>2
<1>9. QED
  BY <1>7, <1>8

LEMMA KInvariance == Spec => [](IInv /\ KInv)
BY InitIInv, NextIInv, InitKInv, NextKInv, PTL DEF Spec

(* Every state is one of the declared ones: a key in the map is one that   *)
(* genSecret draws and was put there before now, and a descriptor stands   *)
(* for a peer or for nobody.                                               *)
THEOREM TypesKept == Spec => []TypeOK
BY KInvariance, PTL DEF KInv

(* A key is good for its time, and those that nobody came back for do not  *)
(* pile up, whatever the number of peers, the timeout and the threshold.   *)
THEOREM KeysKept == Spec => KeysInTime
<1>1. KInv /\ [Next]_vars => [OnlyStaleRefused /\ StaleFew]_vars
  BY StaleRefused, FewStale
<1>2. QED
  BY KInvariance, <1>1, PTL DEF Spec, KeysInTime
=============================================================================
