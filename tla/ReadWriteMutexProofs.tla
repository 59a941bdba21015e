------------------------ MODULE ReadWriteMutexProofs ------------------------
(***************************************************************************)
(* What the read-write mutex guarantees for every finite set of threads,   *)
(* with waits that may end without a signal.                               *)
(***************************************************************************)
EXTENDS ReadWriteMutex, FiniteSetTheorems, TLAPS

(* A writer that waits has closed the door to readers behind it.           *)
WritersBlock == At("writewait") # {} => exclusive_waiting_blocked

IInv == TypeOK /\ Exclusion /\ NoLostWakeup /\ WritersBlock

Readers == At("read")

LEMMA InitIInv == Init => IInv
<1> SUFFICES ASSUME Init PROVE IInv
  OBVIOUS
<1>1. \A s \in Stages \ {"out"} : At(s) = {}
  BY DEF Init, At
<1>2. Cardinality(Readers) = 0
  BY <1>1, FS_EmptySet DEF Readers, Stages
<1>3. 0 \in 0 .. Cardinality(Threads)
  BY ThreadsFinite, FS_CardinalityType
<1>4. TypeOK
  BY <1>3 DEF Init, TypeOK, Stages
<1>5. Exclusion /\ NoLostWakeup /\ WritersBlock
  BY <1>1, <1>2 DEF Init, Exclusion, NoLostWakeup, WritersBlock, Readers, Stages
<1>6. QED
  BY <1>4, <1>5 DEF IInv

(* The readers are finitely many, and as many as the threads at most.      *)
LEMMA ReadersFinite ==
    /\ IsFiniteSet(Readers)
    /\ Cardinality(Readers) \in Nat
    /\ Cardinality(Readers) <= Cardinality(Threads)
    /\ Cardinality(Readers) = 0 <=> Readers = {}
<1>1. Readers \subseteq Threads
  BY DEF Readers, At
<1>2. QED
  BY <1>1, ThreadsFinite, FS_Subset, FS_CardinalityType, FS_EmptySet

LEMMA ReadersFiniteNext ==
    /\ IsFiniteSet(Readers')
    /\ Cardinality(Readers') \in Nat
    /\ Cardinality(Readers') <= Cardinality(Threads)
    /\ Cardinality(Readers') = 0 <=> Readers' = {}
<1>1. Readers' \subseteq Threads
  BY DEF Readers, At
<1>2. QED
  BY <1>1, ThreadsFinite, FS_Subset, FS_CardinalityType, FS_EmptySet

LEMMA lockReadKeeps == ASSUME IInv, NEW t \in Threads, lockRead(t) PROVE IInv'
<1> USE DEF IInv, TypeOK
<1>1. t \notin Readers /\ Readers' = Readers \cup {t}
  BY DEF lockRead, Move, Readers, At
<1>2. Cardinality(Readers') = Cardinality(Readers) + 1
  BY <1>1, ReadersFinite, FS_AddElement
<1>3. At("write")' = At("write") /\ At("write") = {}
  BY DEF lockRead, Move, At, Exclusion, ReadersStopped
<1>4. TypeOK'
  BY <1>2, ReadersFinite, ReadersFiniteNext DEF lockRead, Move, Stages, Exclusion, Readers
<1>5. Exclusion'
  BY <1>2, <1>3 DEF lockRead, Exclusion, Readers
<1>6. NoLostWakeup'
  BY <1>1 DEF NoLostWakeup, Readers
<1>7. At("writewait")' \subseteq At("writewait")
  BY DEF lockRead, Move, At
<1>8. WritersBlock'
  BY <1>7 DEF lockRead, WritersBlock
<1>9. QED
  BY <1>4, <1>5, <1>6, <1>8

LEMMA lockWriteKeeps == ASSUME IInv, NEW t \in Threads, lockWrite(t) PROVE IInv'
<1> USE DEF IInv, TypeOK
<1>1. Readers = {} /\ Readers' = {}
  BY ReadersFinite DEF lockWrite, Move, Readers, At, Exclusion
<1>2. At("write") = {} /\ At("write")' = {t}
  BY DEF lockWrite, Move, At, Exclusion
<1>3. TypeOK'
  BY DEF lockWrite, Move, Stages
<1>4. Exclusion'
  BY <1>1, <1>2, FS_EmptySet DEF lockWrite, Exclusion, Readers
<1>5. NoLostWakeup'
  BY <1>2 DEF NoLostWakeup
<1>6. At("writewait")' \subseteq At("writewait")
  BY DEF lockWrite, Move, At
<1>7. WritersBlock'
  BY <1>6 DEF lockWrite, WritersBlock
<1>8. QED
  BY <1>3, <1>4, <1>5, <1>7

(* Waiting changes nobody who is inside.                                   *)
LEMMA WaitKeeps ==
    ASSUME IInv, NEW t \in Threads, lockReadWaits(t) \/ lockWriteWaits(t)
    PROVE  IInv'
<1> USE DEF IInv, TypeOK
<1>1. At("read")' = At("read") /\ At("write")' = At("write")
  BY DEF lockReadWaits, lockWriteWaits, Move, At
<1>2. UNCHANGED <<shared_count, exclusive>> /\ exclusive_waiting_blocked' \in BOOLEAN
  BY DEF lockReadWaits, lockWriteWaits, state
<1>3. thread' \in [Threads -> Stages]
  BY DEF lockReadWaits, lockWriteWaits, Move, Stages
<1>4. TypeOK' /\ Exclusion'
  BY <1>1, <1>2, <1>3 DEF Exclusion
<1>5. At("read") \cup At("write") # {}
  BY ReadersFinite
     DEF lockReadWaits, lockWriteWaits, ReadersStopped, Exclusion, NoLostWakeup, Readers
<1>6. NoLostWakeup'
  BY <1>1, <1>5 DEF NoLostWakeup
<1>7. WritersBlock'
  BY DEF lockReadWaits, lockWriteWaits, Move, At, WritersBlock, state
<1>8. QED
  BY <1>4, <1>6, <1>7

(* Whoever broadcasts leaves nobody waiting, and nobody inside but those   *)
(* who were inside before.                                                 *)
LEMMA ReleasedAll ==
    ASSUME TypeOK, NEW t \in Threads, releaseWaiters(t)
    PROVE  /\ thread' \in [Threads -> Stages]
           /\ At("readwait")' = {} /\ At("writewait")' = {}
           /\ At("read")' = At("read") \ {t}
           /\ At("write")' = At("write") \ {t}
BY DEF TypeOK, releaseWaiters, Released, Stages, At

LEMMA unlockReadKeeps == ASSUME IInv, NEW t \in Threads, unlockRead(t) PROVE IInv'
<1> USE DEF IInv, TypeOK
<1>1. t \in Readers /\ At("write") = {}
  BY DEF unlockRead, Readers, At, Exclusion
<1>2. Cardinality(Readers \ {t}) = Cardinality(Readers) - 1
  BY <1>1, ReadersFinite, FS_RemoveElement
<1>3. At("read")' = At("read") \ {t} /\ At("write")' = {}
  <2>1. CASE releaseWaiters(t)
    BY <2>1, <1>1, ReleasedAll
  <2>2. CASE Move(t, "out")
    BY <2>2, <1>1 DEF Move, At
  <2>3. QED
    BY <2>1, <2>2 DEF unlockRead
<1>4. shared_count' = Cardinality(At("read")') /\ UNCHANGED exclusive
  BY <1>2, <1>3, ReadersFinite DEF unlockRead, Exclusion, Readers
<1>5. TypeOK'
  <2>1. thread' \in [Threads -> Stages]
    BY ReleasedAll DEF unlockRead, Move, Stages
  <2>2. shared_count' \in 0 .. Cardinality(Threads)
    BY <1>4, ReadersFiniteNext, ThreadsFinite, FS_CardinalityType DEF Readers
  <2>3. exclusive' \in BOOLEAN /\ exclusive_waiting_blocked' \in BOOLEAN
    BY DEF unlockRead
  <2>4. QED
    BY <2>1, <2>2, <2>3
<1>6. Exclusion'
  BY <1>1, <1>3, <1>4 DEF Exclusion
<1>7. NoLostWakeup' /\ WritersBlock'
  <2>1. CASE releaseWaiters(t) /\ exclusive_waiting_blocked' = FALSE
    BY <2>1, ReleasedAll DEF NoLostWakeup, WritersBlock
  <2>2. CASE shared_count' # 0 /\ Move(t, "out") /\ UNCHANGED exclusive_waiting_blocked
    <3>1. At("read")' # {}
      BY <2>2, <1>4, FS_EmptySet
    <3>2. At("writewait")' = At("writewait")
      BY <2>2, <1>1 DEF Move, At, Readers
    <3>3. QED
      BY <2>2, <3>1, <3>2 DEF NoLostWakeup, WritersBlock
  <2>3. QED
    BY <2>1, <2>2 DEF unlockRead
<1>8. QED
  BY <1>5, <1>6, <1>7

LEMMA unlockWriteKeeps == ASSUME IInv, NEW t \in Threads, unlockWrite(t) PROVE IInv'
<1> USE DEF IInv, TypeOK
<1>1. At("read") \cup At("write") = {t} /\ t \notin At("read")
  BY DEF unlockWrite, At, Exclusion
<1>2. /\ thread' \in [Threads -> Stages]
      /\ At("readwait")' = {} /\ At("writewait")' = {}
      /\ At("read")' = {} /\ At("write")' = {}
      /\ At("read") = {}
  BY <1>1, ReleasedAll DEF unlockWrite
<1>3. TypeOK'
  BY <1>2 DEF unlockWrite
<1>4. Exclusion'
  BY <1>2 DEF unlockWrite, Exclusion
<1>5. NoLostWakeup' /\ WritersBlock'
  BY <1>2 DEF unlockWrite, NoLostWakeup, WritersBlock
<1>6. QED
  BY <1>3, <1>4, <1>5

LEMMA SpuriousKeeps == ASSUME IInv, NEW t \in Threads, Spurious(t) PROVE IInv'
<1> USE DEF IInv, TypeOK
<1>1. /\ thread' \in [Threads -> Stages]
      /\ At("read")' = At("read") /\ At("write")' = At("write")
      /\ At("readwait")' \subseteq At("readwait")
      /\ At("writewait")' \subseteq At("writewait")
  BY DEF Spurious, Move, Released, At, Stages
<1>2. QED
  BY <1>1 DEF Spurious, state, Exclusion, NoLostWakeup, WritersBlock

LEMMA NextIInv == IInv /\ [Next]_vars => IInv'
<1> SUFFICES ASSUME IInv, [Next]_vars PROVE IInv'
  OBVIOUS
<1>1. CASE UNCHANGED vars
  BY <1>1 DEF vars, IInv, TypeOK, Exclusion, NoLostWakeup, WritersBlock, At
<1>2. CASE Next
  BY <1>2, lockReadKeeps, lockWriteKeeps, WaitKeeps, unlockReadKeeps, unlockWriteKeeps,
     SpuriousKeeps DEF Next
<1>3. QED
  BY <1>1, <1>2

LEMMA Invariance == Spec => []IInv
BY InitIInv, NextIInv, PTL DEF Spec

(* The fields keep their types; the count of readers stays within bounds.  *)
THEOREM TypeCorrect == Spec => []TypeOK
BY Invariance, PTL DEF IInv

(* A writer is alone, for every number of threads and every interleaving.  *)
THEOREM WritersAlone == Spec => []Exclusion
BY Invariance, PTL DEF IInv

(* Nobody waits for a broadcast that will not come.                        *)
THEOREM WakeupsKept == Spec => []NoLostWakeup
BY Invariance, PTL DEF IInv

(* While a writer sleeps no step lets a reader in.                         *)
LEMMA ReadersWait ==
    ASSUME IInv, [Next]_vars, At("writewait") # {}
    PROVE  At("read")' \subseteq At("read")
<1>1. ~ \E t \in Threads : lockRead(t)
  BY DEF IInv, WritersBlock, lockRead, ReadersStopped
<1>2. QED
  BY <1>1, ReleasedAll
     DEF Next, IInv, TypeOK, lockReadWaits, lockWrite, lockWriteWaits, unlockRead, unlockWrite,
         Spurious, Released, Move, At, vars

(* While a writer sleeps nobody joins the readers it waits for.  Once it   *)
(* has been woken readers may overtake it, and it sleeps again.            *)
THEOREM WriterNext == Spec => WriterGoesFirst
<1>1. IInv /\ [Next]_vars
        => [At("writewait") # {} => At("read")' \subseteq At("read")]_vars
  BY ReadersWait
<1>2. QED
  BY <1>1, Invariance, PTL DEF Spec, WriterGoesFirst
=============================================================================
