---------------------------- MODULE LibCcniProofs ----------------------------
(***************************************************************************)
(* For any number of threads, however they share their seqs, requests,     *)
(* notices and broadcasts: the answers with a seq are taken in the order   *)
(* of its requests, behind by as many as were given up, and the listening  *)
(* thread of a line that is up ends only when datagrams did not come whole *)
(* and in order.                                                           *)
(*                                                                         *)
(* The first argument (LInv) follows the numbers of the requests with one  *)
(* seq from asked over wire to its queue: Turn says that they go on        *)
(* without a gap from the answer last taken.  The second (DInv) follows    *)
(* the datagrams from the jobs of the broadcasts to the parser.            *)
(***************************************************************************)
EXTENDS LibCcni, SequenceTheorems, FiniteSetTheorems, TLAPS

-----------------------------------------------------------------------------
(* The numbers of the requests with a seq among messages, and their order. *)
Numbers(s, c) == {s[i].nr : i \in {j \in DOMAIN s : s[j].of = c}}

Increasing(s, c) ==
    \A i, j \in DOMAIN s : i < j /\ s[i].of = c /\ s[j].of = c => s[i].nr < s[j].nr

(* Answers come in the order of the requests and none of them is missing   *)
(* before another: those in a queue go on from the last one that was taken *)
(* from it, those that are to come from the last of the queue; and while   *)
(* the line is up they go on to the last request that was sent.            *)
Turn(c, queue, read, due, last, top, up) ==
    LET from == last + Len(queue) + 1
        rest == Numbers(read, c) \cup Numbers(due, c)
    IN  /\ \A i \in DOMAIN queue : queue[i] = [of |-> c, nr |-> last + i]
        /\ from <= top + 1
        /\ Increasing(read, c) /\ Increasing(due, c)
        /\ \A x \in Numbers(read, c), y \in Numbers(due, c) : x < y
        /\ \A x \in rest : from <= x /\ x <= top /\ from..x \subseteq rest
        /\ up => from..top \subseteq rest

LEMMA NumbersAppend ==
    ASSUME NEW s \in Seq(Messages), NEW m \in Messages, NEW c
    PROVE  Numbers(Append(s, m), c) = Numbers(s, c) \cup (IF m.of = c THEN {m.nr} ELSE {})
<1> DEFINE w == Append(s, m)
<1>1. /\ DOMAIN s = 1..Len(s) /\ DOMAIN w = 1..Len(s) \cup {Len(s) + 1}
      /\ w[Len(s) + 1] = m /\ \A i \in 1..Len(s) : w[i] = s[i]
  OBVIOUS
<1> HIDE DEF w
<1>2. QED
  BY <1>1 DEF Numbers, w

LEMMA IncreasingAppend ==
    ASSUME NEW s \in Seq(Messages), NEW m \in Messages, NEW c, Increasing(s, c),
           m.of = c => \A x \in Numbers(s, c) : x < m.nr
    PROVE  Increasing(Append(s, m), c)
<1> DEFINE w == Append(s, m)
<1>1. /\ DOMAIN s = 1..Len(s) /\ DOMAIN w = 1..Len(s) \cup {Len(s) + 1} /\ Len(s) \in Nat
      /\ w[Len(s) + 1] = m /\ \A i \in 1..Len(s) : w[i] = s[i]
  OBVIOUS
<1> HIDE DEF w
<1>2. ASSUME NEW i \in DOMAIN w, NEW j \in DOMAIN w, i < j, w[i].of = c, w[j].of = c
      PROVE  w[i].nr < w[j].nr
  <2>1. i \in 1..Len(s)
    BY <1>1, <1>2
  <2>2. CASE j \in 1..Len(s)
    BY <1>1, <1>2, <2>1, <2>2 DEF Increasing
  <2>3. CASE j = Len(s) + 1
    <3>1. s[i].nr \in Numbers(s, c)
      BY <1>1, <1>2, <2>1 DEF Numbers
    <3>2. QED
      BY <1>1, <1>2, <2>1, <2>3, <3>1
  <2>4. QED
    BY <1>1, <2>2, <2>3
<1>3. QED
  BY <1>2 DEF Increasing, w

LEMMA NumbersTail ==
    ASSUME NEW s \in Seq(Messages), s # <<>>, NEW c, Increasing(s, c)
    PROVE  /\ Increasing(Tail(s), c)
           /\ Head(s).of # c => Numbers(Tail(s), c) = Numbers(s, c)
           /\ Head(s).of = c =>
                  /\ Head(s).nr \in Numbers(s, c)
                  /\ Numbers(Tail(s), c) = Numbers(s, c) \ {Head(s).nr}
                  /\ \A x \in Numbers(Tail(s), c) : Head(s).nr < x
<1> DEFINE w == Tail(s)
<1>1. /\ DOMAIN s = 1..Len(s) /\ Len(s) \in Nat /\ Len(s) > 0 /\ DOMAIN w = 1..Len(s) - 1
      /\ Head(s) = s[1] /\ \A i \in 1..Len(s) - 1 : w[i] = s[i + 1]
      /\ \A i \in 1..Len(s) : s[i] \in Messages
  OBVIOUS
<1>n. \A m \in Messages : m.nr \in Nat
  BY LibAssumption DEF Messages, NoAnswer
<1> HIDE DEF w
<1>2. Increasing(w, c)
  <2>1. ASSUME NEW i \in 1..Len(s) - 1, NEW j \in 1..Len(s) - 1, i < j, w[i].of = c, w[j].of = c
        PROVE  w[i].nr < w[j].nr
    <3>1. i + 1 \in 1..Len(s) /\ j + 1 \in 1..Len(s) /\ i + 1 < j + 1
      BY <1>1, <2>1
    <3>2. w[i] = s[i + 1] /\ w[j] = s[j + 1]
      BY <1>1
    <3>3. QED
      BY <1>1, <2>1, <3>1, <3>2 DEF Increasing
  <2>2. QED
    BY <1>1, <2>1 DEF Increasing
<1>3. Numbers(w, c) = {s[i].nr : i \in {j \in 2..Len(s) : s[j].of = c}}
  <2>1. \A i \in 1..Len(s) - 1 : i + 1 \in 2..Len(s)
    BY <1>1
  <2>2. \A i \in 2..Len(s) : i - 1 \in 1..Len(s) - 1 /\ w[i - 1] = s[i]
    <3> TAKE i \in 2..Len(s)
    <3>1. i - 1 \in 1..Len(s) - 1 /\ (i - 1) + 1 = i
      BY <1>1
    <3>2. QED
      BY <1>1, <3>1
  <2>3. ASSUME NEW x \in Numbers(w, c) PROVE x \in {s[i].nr : i \in {j \in 2..Len(s) : s[j].of = c}}
    <3>1. PICK i \in 1..Len(s) - 1 : w[i].of = c /\ x = w[i].nr
      BY <1>1 DEF Numbers
    <3>2. QED
      BY <1>1, <2>1, <3>1
  <2>4. ASSUME NEW i \in 2..Len(s), s[i].of = c PROVE s[i].nr \in Numbers(w, c)
    BY <1>1, <2>2, <2>4 DEF Numbers
  <2>5. QED
    BY <2>3, <2>4
<1>4. 1..Len(s) = 2..Len(s) \cup {1}
  BY <1>1
<1> DEFINE I(n) == {j \in n..Len(s) : s[j].of = c}
<1>a. Numbers(w, c) = {s[i].nr : i \in I(2)} /\ Numbers(s, c) = {s[i].nr : i \in I(1)}
  BY <1>1, <1>3 DEF Numbers
<1>b. I(1) = I(2) \cup (IF Head(s).of = c THEN {1} ELSE {})
  BY <1>1, <1>4
<1> HIDE DEF I
<1>5. Head(s).of # c => Numbers(w, c) = Numbers(s, c)
  BY <1>a, <1>b
<1>6. ASSUME Head(s).of = c
      PROVE  /\ Head(s).nr \in Numbers(s, c)
             /\ Numbers(w, c) = Numbers(s, c) \ {Head(s).nr}
             /\ \A x \in Numbers(w, c) : Head(s).nr < x
  <2>1. Numbers(s, c) = Numbers(w, c) \cup {Head(s).nr}
    BY <1>1, <1>6, <1>a, <1>b
  <2>2. \A i \in 2..Len(s) : s[i].of = c => s[1].nr < s[i].nr
    BY <1>1, <1>6 DEF Increasing
  <2>3. \A x \in Numbers(w, c) : Head(s).nr < x
    BY <1>1, <1>3, <2>2
  <2>4. Head(s).nr \in Nat
    BY <1>1, <1>n
  <2>5. Head(s).nr \notin Numbers(w, c)
    BY <2>3, <2>4
  <2>6. QED
    BY <2>1, <2>3, <2>5
<1>7. QED
  BY <1>2, <1>5, <1>6 DEF w

LEMMA NumbersTyped ==
    ASSUME NEW s \in Seq(Messages), NEW c \in Seqs
    PROVE  Numbers(s, c) \subseteq Nat \ {0} /\ Numbers(s, c) \subseteq Nat
<1>1. \A i \in DOMAIN s : s[i] \in Messages
  OBVIOUS
<1>2. \A m \in Messages : m.of = c => m.nr \in Nat \ {0}
  BY LibAssumption DEF Messages, NoAnswer
<1>3. QED
  BY <1>1, <1>2, LibAssumption DEF Numbers

-----------------------------------------------------------------------------
(* The oldest answer of the queue is taken.                                *)
LEMMA TurnTaken ==
    ASSUME NEW c, NEW queue \in Seq(Messages), NEW read, NEW due, NEW last \in Nat, NEW top, NEW up,
           queue # <<>>, Turn(c, queue, read, due, last, top, up)
    PROVE  /\ Head(queue) = [of |-> c, nr |-> last + 1]
           /\ Turn(c, Tail(queue), read, due, last + 1, top, up)
<1>1. /\ Len(queue) \in Nat /\ Len(queue) > 0 /\ DOMAIN queue = 1..Len(queue)
      /\ Head(queue) = queue[1] /\ Len(Tail(queue)) = Len(queue) - 1
      /\ DOMAIN Tail(queue) = 1..Len(queue) - 1
      /\ \A i \in 1..Len(queue) - 1 : Tail(queue)[i] = queue[i + 1]
  OBVIOUS
<1>2. \A i \in 1..Len(queue) : queue[i] = [of |-> c, nr |-> last + i]
  BY <1>1 DEF Turn
<1>3. \A i \in 1..Len(queue) - 1 : Tail(queue)[i] = [of |-> c, nr |-> (last + 1) + i]
  <2> TAKE i \in 1..Len(queue) - 1
  <2>1. i + 1 \in 1..Len(queue) /\ last + (i + 1) = (last + 1) + i
    BY <1>1
  <2>2. QED
    BY <1>1, <1>2, <2>1
<1>4. (last + 1) + Len(Tail(queue)) + 1 = last + Len(queue) + 1
  BY <1>1
<1>5. Head(queue) = [of |-> c, nr |-> last + 1]
  BY <1>1, <1>2
<1>6. QED
  BY <1>1, <1>3, <1>4, <1>5 DEF Turn

(* A request is sent, and waits for its answer; or it is lost because the  *)
(* line has gone.                                                          *)
LEMMA TurnSent ==
    ASSUME NEW c \in Seqs, NEW queue \in Seq(Messages), NEW read \in Seq(Messages),
           NEW due \in Seq(Messages), NEW last \in Nat, NEW top \in Nat,
           Turn(c, queue, read, due, last, top, TRUE)
    PROVE  Turn(c, queue, read, Append(due, [of |-> c, nr |-> top + 1]), last, top + 1, TRUE)
<1> DEFINE m == [of |-> c, nr |-> top + 1]
           from == last + Len(queue) + 1
           R == Numbers(read, c)
           D == Numbers(due, c)
           E == Numbers(Append(due, m), c)
<1>1. m \in Messages /\ m.of = c /\ m.nr = top + 1
  BY LibAssumption DEF Messages
<1>2. E = D \cup {top + 1}
  BY <1>1, NumbersAppend
<1>3. R \subseteq Nat /\ D \subseteq Nat /\ from \in Nat
  BY NumbersTyped
<1>4. \A x \in R \cup D : from <= x /\ x <= top /\ from..x \subseteq R \cup D
  BY DEF Turn
<1>5. from..top \subseteq R \cup D /\ \A x \in R, y \in D : x < y
  BY DEF Turn
<1>6. Increasing(Append(due, m), c)
  <2>1. Increasing(due, c) /\ \A x \in D : x < m.nr
    BY <1>1, <1>3, <1>4 DEF Turn
  <2>2. QED
    BY <1>1, <2>1, IncreasingAppend
<1>7. /\ \A i \in DOMAIN queue : queue[i] = [of |-> c, nr |-> last + i]
      /\ Increasing(read, c)
  BY DEF Turn
<1>a. from <= top + 1 /\ from <= top + 1 + 1
  BY <1>3 DEF Turn
<1> HIDE DEF m, from, R, D, E
<1>8. \A x \in R, y \in E : x < y
  BY <1>2, <1>3, <1>4, <1>5
<1>9. from..top + 1 \subseteq R \cup E
  <2>1. \A x \in from..top + 1 : x \in from..top \/ x = top + 1
    BY <1>3
  <2>2. QED
    BY <1>2, <1>5, <2>1
<1>10. \A x \in R \cup E : from <= x /\ x <= top + 1 /\ from..x \subseteq R \cup E
  <2>1. ASSUME NEW x \in R \cup D PROVE from <= x /\ x <= top + 1 /\ from..x \subseteq R \cup E
    <3>1. x \in Nat /\ from <= x /\ x <= top /\ from..x \subseteq R \cup D
      BY <1>3, <1>4
    <3>2. x <= top + 1
      BY <3>1
    <3>3. QED
      BY <1>2, <3>1, <3>2
  <2>2. QED
    BY <1>2, <1>9, <1>a, <2>1
<1>11. QED
  BY <1>6, <1>7, <1>8, <1>9, <1>10, <1>a DEF Turn, m, from, R, D, E

LEMMA TurnUnsent ==
    ASSUME NEW c \in Seqs, NEW queue \in Seq(Messages), NEW read \in Seq(Messages),
           NEW due \in Seq(Messages), NEW last \in Nat, NEW top \in Nat,
           NEW higher \in Nat, NEW up, top <= higher, Turn(c, queue, read, due, last, top, up)
    PROVE  Turn(c, queue, read, due, last, higher, FALSE)
<1>1. Numbers(read, c) \subseteq Nat /\ Numbers(due, c) \subseteq Nat
  BY NumbersTyped
<1>2. \A x \in Nat : (x <= top => x <= higher) /\ (x <= top + 1 => x <= higher + 1)
  OBVIOUS
<1>3. last + Len(queue) + 1 \in Nat
  OBVIOUS
<1>4. QED
  BY <1>1, <1>2, <1>3 DEF Turn

(* The line breaks: the requests that were not answered are lost.          *)
LEMMA TurnBroken ==
    ASSUME NEW c \in Seqs, NEW queue \in Seq(Messages), NEW read \in Seq(Messages),
           NEW due \in Seq(Messages), NEW last \in Nat, NEW top, NEW up,
           Turn(c, queue, read, due, last, top, up)
    PROVE  Turn(c, queue, read, <<>>, last, top, FALSE)
<1> DEFINE from == last + Len(queue) + 1
           R == Numbers(read, c)
           D == Numbers(due, c)
<1>1. Numbers(<<>>, c) = {} /\ Increasing(<<>>, c)
  BY DEF Numbers, Increasing
<1>2. R \subseteq Nat /\ D \subseteq Nat /\ from \in Nat
  BY NumbersTyped
<1>3. /\ \A x \in R \cup D : from <= x /\ x <= top /\ from..x \subseteq R \cup D
      /\ \A x \in R, y \in D : x < y
  BY DEF Turn
<1> HIDE DEF from, R, D
<1>4. ASSUME NEW x \in R, NEW y \in from..x PROVE y \in R
  <2>1. y \in R \cup D
    BY <1>3
  <2>2. x \in Nat /\ y \in Nat /\ y <= x
    BY <1>2
  <2>3. y \notin D
    BY <1>3, <2>2
  <2>4. QED
    BY <2>1, <2>3
<1>5. \A x \in R : from <= x /\ x <= top /\ from..x \subseteq R
  BY <1>3, <1>4
<1>6. from <= top + 1
  BY DEF Turn, from
<1>7. QED
  BY <1>1, <1>5, <1>6 DEF Turn, from, R, D

(* The server answers the first request; something comes that has another  *)
(* seq.                                                                    *)
LEMMA TurnAnswered ==
    ASSUME NEW c \in Seqs, NEW queue, NEW read \in Seq(Messages),
           NEW due \in Seq(Messages), NEW last, NEW top, NEW up,
           due # <<>>, Turn(c, queue, read, due, last, top, up)
    PROVE  Turn(c, queue, Append(read, Head(due)), Tail(due), last, top, up)
<1> DEFINE m == Head(due)
           R == Numbers(read, c)
           D == Numbers(due, c)
           S == Numbers(Append(read, m), c)
           E == Numbers(Tail(due), c)
<1>1. m \in Messages /\ Increasing(read, c) /\ Increasing(due, c)
  BY DEF Turn
<1>2. S = R \cup (IF m.of = c THEN {m.nr} ELSE {})
  BY <1>1, NumbersAppend
<1>3. /\ Increasing(Tail(due), c) /\ (m.of # c => E = D)
      /\ m.of = c => m.nr \in D /\ E = D \ {m.nr} /\ \A x \in E : m.nr < x
  BY <1>1, NumbersTail
<1>4. \A x \in R, y \in D : x < y
  BY DEF Turn
<1>5. Increasing(Append(read, m), c)
  BY <1>1, <1>3, <1>4, IncreasingAppend
<1> HIDE DEF m, R, D, S, E
<1>6. S \cup E = R \cup D
  BY <1>2, <1>3
<1>7. \A x \in S, y \in E : x < y
  BY <1>2, <1>3, <1>4
<1>8. QED
  BY <1>3, <1>5, <1>6, <1>7 DEF Turn, m, R, D, S, E

LEMMA TurnOther ==
    ASSUME NEW c, NEW queue, NEW read \in Seq(Messages),
           NEW due \in Seq(Messages), NEW last, NEW top, NEW up,
           NEW m \in Messages, m.of # c, Turn(c, queue, read, due, last, top, up)
    PROVE  /\ Turn(c, queue, Append(read, m), due, last, top, up)
           /\ Turn(c, queue, read, Append(due, m), last, top, up)
<1>1. /\ Numbers(Append(read, m), c) = Numbers(read, c)
      /\ Numbers(Append(due, m), c) = Numbers(due, c)
  <2>1. /\ Numbers(Append(read, m), c) = Numbers(read, c) \cup (IF m.of = c THEN {m.nr} ELSE {})
        /\ Numbers(Append(due, m), c) = Numbers(due, c) \cup (IF m.of = c THEN {m.nr} ELSE {})
    BY NumbersAppend
  <2>2. QED
    BY <2>1
<1>2. Increasing(Append(read, m), c) /\ Increasing(Append(due, m), c)
  BY IncreasingAppend DEF Turn
<1>3. QED
  BY <1>1, <1>2 DEF Turn

(* The listening thread puts the first message into the queue it is for.   *)
LEMMA TurnRead ==
    ASSUME NEW c \in Seqs, NEW queue \in Seq(Messages), NEW read \in Seq(Messages),
           NEW due \in Seq(Messages), NEW last \in Nat, NEW top \in Int, NEW up,
           read # <<>>, Turn(c, queue, read, due, last, top, up)
    PROVE  Turn(c, IF Head(read).of = c THEN Append(queue, Head(read)) ELSE queue,
                Tail(read), due, last, top, up)
<1> DEFINE m == Head(read)
           from == last + Len(queue) + 1
           R == Numbers(read, c)
           D == Numbers(due, c)
           S == Numbers(Tail(read), c)
           longer == Append(queue, m)
<1>1. m \in Messages /\ Increasing(read, c) /\ Increasing(due, c)
  BY DEF Turn
<1>2. /\ Increasing(Tail(read), c) /\ (m.of # c => S = R)
      /\ m.of = c => m.nr \in R /\ S = R \ {m.nr} /\ \A x \in S : m.nr < x
  BY <1>1, NumbersTail
<1>3. /\ \A x \in R \cup D : from <= x /\ x <= top /\ from..x \subseteq R \cup D
      /\ \A x \in R, y \in D : x < y
      /\ \A i \in DOMAIN queue : queue[i] = [of |-> c, nr |-> last + i]
      /\ up => from..top \subseteq R \cup D
  BY DEF Turn
<1>4. CASE m.of # c
  BY <1>1, <1>2, <1>4 DEF Turn
<1>5. CASE m.of = c
  <2>1. R \subseteq Nat /\ D \subseteq Nat /\ Len(queue) \in Nat /\ from \in Nat
    BY NumbersTyped
  <2>2. /\ DOMAIN queue = 1..Len(queue) /\ Len(longer) = Len(queue) + 1
        /\ DOMAIN longer = 1..Len(queue) \cup {Len(queue) + 1}
        /\ longer[Len(queue) + 1] = m /\ \A i \in 1..Len(queue) : longer[i] = queue[i]
    BY <1>1
  <2> HIDE DEF R, D, S
  <2>3. m.nr = from
    <3>1. m.nr \in Nat /\ from <= m.nr
      BY <1>2, <1>3, <1>5, <2>1
    <3>2. from \in R \cup D
      <4>1. from \in from..m.nr
        BY <2>1, <3>1
      <4>2. QED
        BY <1>2, <1>3, <1>5, <4>1
    <3>3. ~(from < m.nr)
      <4> SUFFICES ASSUME from < m.nr PROVE FALSE
        OBVIOUS
      <4>1. from \in R
        BY <1>2, <1>3, <1>5, <2>1, <3>1, <3>2
      <4>2. from \in S
        BY <1>2, <1>5, <2>1, <3>1, <4>1
      <4>3. m.nr < from
        BY <1>2, <1>5, <4>2
      <4>4. QED
        BY <2>1, <3>1, <4>3
    <3>4. QED
      BY <2>1, <3>1, <3>3
  <2>4. m = [of |-> c, nr |-> last + (Len(queue) + 1)]
    <3>1. from = last + (Len(queue) + 1)
      BY <2>1
    <3>2. m = [of |-> m.of, nr |-> m.nr]
      BY <1>1 DEF Messages, NoAnswer
    <3>3. QED
      BY <1>5, <2>3, <3>1, <3>2
  <2> HIDE DEF longer, m
  <2>5. \A i \in DOMAIN longer : longer[i] = [of |-> c, nr |-> last + i]
    BY <1>3, <2>2, <2>4
  <2>6. last + Len(longer) + 1 = from + 1
    BY <2>1, <2>2
  <2>7. S = R \ {from} /\ from \in R /\ \A y \in D : y # from
    <3>1. S = R \ {from} /\ from \in R
      BY <1>2, <1>5, <2>3
    <3>2. QED
      BY <1>3, <2>1, <3>1
  <2> HIDE DEF from
  <2>8. \A x \in S \cup D : from + 1 <= x /\ x <= top /\ from + 1..x \subseteq S \cup D
    <3> TAKE x \in S \cup D
    <3>1. x \in R \cup D /\ x # from
      BY <2>7
    <3>2. from <= x /\ x <= top /\ from..x \subseteq R \cup D
      BY <1>3, <3>1
    <3>3. x \in Nat
      BY <2>1, <3>1
    <3>4. from + 1 <= x
      BY <2>1, <3>1, <3>2, <3>3
    <3>5. \A y \in from + 1..x : y \in from..x /\ y # from
      BY <2>1, <3>3
    <3>6. QED
      BY <2>7, <3>2, <3>4, <3>5
  <2>9. up => from + 1..top \subseteq S \cup D
    <3>1. \A y \in from + 1..top : y \in from..top /\ y # from
      BY <2>1
    <3>2. QED
      BY <1>3, <2>7, <3>1
  <2>10. \A x \in S, y \in D : x < y
    BY <1>3, <2>7
  <2>a. from + 1 <= top + 1
    <3>1. from \in R \cup D
      BY <2>7
    <3>2. from <= top
      BY <1>3, <3>1
    <3>3. QED
      BY <2>1, <3>2
  <2>11. Turn(c, longer, Tail(read), due, last, top, up)
    BY <1>1, <1>2, <2>5, <2>6, <2>8, <2>9, <2>10, <2>a DEF Turn, S, D
  <2>12. QED
    BY <1>5, <2>11 DEF longer, m
<1>6. QED
  BY <1>4, <1>5

-----------------------------------------------------------------------------
(* The queue of a seq, and its requests that are under way.                *)
QueueOf(q) == IF q \in DOMAIN evts THEN evts[q] ELSE <<>>

InTurn(q) ==
    /\ Turn(q, QueueOf(q), wire, asked, took[q].nr, sent[q], line)
    /\ sent[q] > 0 => q \in DOMAIN evts

(* Until the sockets are closed.                                           *)
Queues ==
    /\ \A q \in Seqs : InTurn(q)
    /\ \A c \in Callers : stage[c] # "none" => SeqOf[c] \in DOMAIN evts

(* A request ends with an answer, late, or because its body was not sent.  *)
Counted(q) ==
    LET n == took[q].nr + late[q] + Cardinality(Asking(q)) IN
    /\ n <= sent[q]
    /\ line /\ ~closed => n = sent[q]

Sockets ==
    /\ closed => ~connecting /\ ~connected
    /\ ~closed => connecting \/ connected
    /\ connecting => ~connected

LInv ==
    /\ ~closed => Queues
    /\ Sockets
    /\ \A q \in Seqs : Counted(q)

-----------------------------------------------------------------------------
(* The types, in parts.                                                    *)
CallTypes ==
    /\ stage \in [Callers -> {"none", "send", "body", "wait"}]
    /\ sent \in [Seqs -> Nat] /\ late \in [Seqs -> Nat] /\ took \in [Seqs -> Messages]

QueueTypes == DOMAIN evts \subseteq Seqs /\ \A q \in DOMAIN evts : evts[q] \in Seq(Messages)

LineTypes ==
    /\ asked \in Seq(Messages) /\ wire \in Seq(Messages) /\ line \in BOOLEAN
    /\ whole \in 0..Len(asked)

SocketTypes == connecting \in BOOLEAN /\ connected \in BOOLEAN /\ closed \in BOOLEAN

KnownTypes == CallTypes /\ QueueTypes /\ LineTypes /\ SocketTypes

UdpTypes ==
    /\ listener \in BOOLEAN /\ damaged \in BOOLEAN /\ begun \in 0..Work
    /\ job \in [Broadcasts -> {"none", "header", "done"}]
    /\ datagrams \in Seq([of : Broadcasts, part : {"header", "body"}])
    /\ reading \in Broadcasts \cup {"idle", "pieces"}
    /\ fault \in {"none", "queue"}

LEMMA TypesParts == TypeOK <=> KnownTypes /\ UdpTypes
BY DEF TypeOK, KnownTypes, CallTypes, QueueTypes, LineTypes, SocketTypes, UdpTypes

(* What is known of a seq.                                                 *)
LEMMA SeqTypes ==
    ASSUME KnownTypes, NEW q \in Seqs
    PROVE  /\ sent[q] \in Nat /\ late[q] \in Nat
           /\ took[q] \in Messages /\ took[q].nr \in Nat
           /\ QueueOf(q) \in Seq(Messages) /\ Len(QueueOf(q)) \in Nat
           /\ IsFiniteSet(Asking(q)) /\ Cardinality(Asking(q)) \in Nat
<1>1. sent[q] \in Nat /\ late[q] \in Nat /\ took[q] \in Messages
  BY DEF KnownTypes, CallTypes
<1>2. \A m \in Messages : m.nr \in Nat
  BY LibAssumption DEF Messages, NoAnswer
<1>3. QueueOf(q) \in Seq(Messages)
  BY DEF KnownTypes, QueueTypes, QueueOf
<1>4. IsFiniteSet(Asking(q))
  BY LibAssumption, FS_Subset DEF Asking
<1>5. QED
  BY <1>1, <1>2, <1>3, <1>4, FS_CardinalityType

(* One thread goes to another stage: its seq has one request more under    *)
(* way, or one less.                                                       *)
Busy(s) == IF s \in {"body", "wait"} THEN 1 ELSE 0

LEMMA AskingMoves ==
    ASSUME KnownTypes, NEW c \in Callers, NEW s,
           stage' = [stage EXCEPT ![c] = s], NEW q \in Seqs
    PROVE  Cardinality(Asking(q))' =
               IF q = SeqOf[c] THEN Cardinality(Asking(q)) + Busy(s) - Busy(stage[c])
               ELSE Cardinality(Asking(q))
<1> DEFINE A == Asking(q)
           B == Asking(q)'
           rest == A \ {c}
<1>1. /\ stage'[c] = s /\ \A d \in Callers \ {c} : stage'[d] = stage[d]
      /\ A \subseteq Callers /\ B \subseteq Callers
  BY DEF KnownTypes, CallTypes, Asking
<1>2. IsFiniteSet(rest) /\ c \notin rest /\ Cardinality(rest) \in Nat
  <2>1. IsFiniteSet(rest)
    BY LibAssumption, <1>1, FS_Subset
  <2>2. QED
    BY <2>1, FS_CardinalityType
<1>3. CASE q # SeqOf[c]
  <2>1. A = B
    BY <1>1, <1>3 DEF Asking
  <2>2. QED
    BY <1>3, <2>1
<1>4. CASE q = SeqOf[c]
  <2>1. /\ A = IF stage[c] \in {"body", "wait"} THEN rest \cup {c} ELSE rest
        /\ B = IF s \in {"body", "wait"} THEN rest \cup {c} ELSE rest
    BY <1>1, <1>4 DEF Asking
  <2>2. Cardinality(rest \cup {c}) = Cardinality(rest) + 1
    BY <1>2, FS_AddElement
  <2> HIDE DEF rest
  <2>3. /\ Cardinality(A) = Cardinality(rest) + Busy(stage[c])
        /\ Cardinality(B) = Cardinality(rest) + Busy(s)
    BY <1>2, <2>1, <2>2 DEF Busy
  <2>4. Busy(s) \in Nat /\ Busy(stage[c]) \in Nat
    BY DEF Busy
  <2> HIDE DEF A, B
  <2>5. Cardinality(B) = Cardinality(A) + Busy(s) - Busy(stage[c])
    BY <1>2, <2>3, <2>4
  <2>6. QED
    BY <1>4, <2>5 DEF A, B
<1>5. QED
  BY <1>3, <1>4

(* A seq that nothing happens to.                                          *)
LEMMA InTurnSame ==
    ASSUME NEW q \in Seqs, InTurn(q), sent'[q] = sent[q], took'[q] = took[q],
           QueueOf(q)' = QueueOf(q), q \in DOMAIN evts => q \in DOMAIN evts',
           UNCHANGED <<wire, asked, line>>
    PROVE  InTurn(q)'
BY DEF InTurn

LEMMA CountedSame ==
    ASSUME NEW q \in Seqs, Counted(q), sent'[q] = sent[q], late'[q] = late[q],
           took'[q] = took[q], Cardinality(Asking(q))' = Cardinality(Asking(q)),
           line' /\ ~closed' => line /\ ~closed
    PROVE  Counted(q)'
BY DEF Counted

(* Nothing of this is touched.                                             *)
LEMMA LStutter ==
    ASSUME KnownTypes, LInv,
           UNCHANGED <<callVars, evts, lineVars, connecting, connected, closed>>
    PROVE  KnownTypes' /\ LInv'
<1>1. UNCHANGED <<stage, sent, late, took, asked, whole, wire, line>>
  BY DEF callVars, lineVars
<1>2. KnownTypes'
  BY <1>1 DEF KnownTypes, CallTypes, QueueTypes, LineTypes, SocketTypes
<1>3. Sockets' /\ closed' = closed
  BY DEF LInv, Sockets
<1>4. ASSUME NEW q \in Seqs PROVE Counted(q)' /\ (InTurn(q) => InTurn(q)')
  <2>1. QueueOf(q)' = QueueOf(q) /\ Asking(q)' = Asking(q)
    BY <1>1 DEF QueueOf, Asking
  <2>2. QED
    BY <1>1, <2>1, CountedSame, InTurnSame DEF LInv
<1>5. QED
  BY <1>1, <1>2, <1>3, <1>4 DEF LInv, Queues

-----------------------------------------------------------------------------
LEMMA getMsgQueLInv ==
    ASSUME KnownTypes, LInv, NEW c \in Callers, getMsgQue(c)
    PROVE  KnownTypes' /\ LInv'
<1>1. /\ stage[c] = "none"
      /\ stage' = [stage EXCEPT ![c] = "send"]
      /\ evts' = [q \in DOMAIN evts \cup {SeqOf[c]} |-> IF q \in DOMAIN evts THEN evts[q] ELSE <<>>]
      /\ UNCHANGED <<sent, late, took, asked, whole, wire, line, connecting, connected, closed>>
  BY DEF getMsgQue, Request, lineVars, threadVars
<1>2. KnownTypes'
  <2>1. CallTypes'
    BY <1>1 DEF KnownTypes, CallTypes
  <2>2. <<>> \in Seq(Messages) /\ SeqOf[c] \in Seqs
    BY LibAssumption
  <2>3. QueueTypes'
    BY <1>1, <2>2 DEF KnownTypes, QueueTypes
  <2>4. QED
    BY <1>1, <2>1, <2>3 DEF KnownTypes, LineTypes, SocketTypes
<1>3. Sockets' /\ closed' = closed
  BY <1>1 DEF LInv, Sockets
<1>4. ASSUME NEW q \in Seqs PROVE Counted(q)' /\ (InTurn(q) => InTurn(q)')
  <2>1. QueueOf(q)' = QueueOf(q) /\ (q \in DOMAIN evts => q \in DOMAIN evts')
    BY <1>1 DEF QueueOf
  <2>2. Cardinality(Asking(q))' = Cardinality(Asking(q))
    <3>1. Busy("send") = 0 /\ Busy(stage[c]) = 0 /\ Cardinality(Asking(q)) \in Nat
      BY <1>1, SeqTypes DEF Busy
    <3>2. Cardinality(Asking(q))' =
              IF q = SeqOf[c] THEN Cardinality(Asking(q)) + Busy("send") - Busy(stage[c])
              ELSE Cardinality(Asking(q))
      BY <1>1, AskingMoves
    <3>3. QED
      BY <3>1, <3>2
  <2>3. QED
    BY <1>1, <2>1, <2>2, CountedSame, InTurnSame DEF LInv
<1>5. ASSUME Queues, NEW d \in Callers, stage'[d] # "none" PROVE SeqOf[d] \in DOMAIN evts'
  BY <1>1, <1>5 DEF Queues, KnownTypes, CallTypes
<1>6. QED
  BY <1>2, <1>3, <1>4, <1>5 DEF LInv, Queues

LEMMA block_sendHeaderLInv ==
    ASSUME KnownTypes, LInv, NEW c \in Callers, block_sendHeader(c)
    PROVE  KnownTypes' /\ LInv'
<1> DEFINE q == SeqOf[c]
           m == [of |-> q, nr |-> sent[q] + 1]
<1>1. /\ stage[c] = "send"
      /\ UNCHANGED <<late, took, evts, whole, wire, line, connecting, connected, closed>>
  BY DEF block_sendHeader, threadVars
<1>2. q \in Seqs /\ sent[q] \in Nat /\ m \in Messages /\ m.of = q /\ m.nr = sent[q] + 1
  <2>1. q \in Seqs /\ sent[q] \in Nat
    BY LibAssumption DEF KnownTypes, CallTypes
  <2>2. QED
    BY <2>1 DEF Messages
<1>3. \/ /\ stage' = [stage EXCEPT ![c] = "body"]
         /\ sent' = [sent EXCEPT ![q] = sent[q] + 1]
         /\ asked' = IF line THEN Append(asked, m) ELSE asked
      \/ /\ stage' = [stage EXCEPT ![c] = "none"] /\ UNCHANGED <<sent, asked>>
         /\ ~(line /\ ~closed)
  BY DEF block_sendHeader, NotWritten, Up, LInv, Sockets
<1> HIDE DEF q, m
<1>4. KnownTypes'
  <2>1. CallTypes'
    <3>1. sent[q] + 1 \in Nat
      BY <1>2
    <3>2. stage' \in [Callers -> {"none", "send", "body", "wait"}] /\ sent' \in [Seqs -> Nat]
      BY <1>2, <1>3, <3>1 DEF KnownTypes, CallTypes
    <3>3. QED
      BY <1>1, <3>2 DEF KnownTypes, CallTypes
  <2>2. asked' \in Seq(Messages) /\ Len(asked') \in Nat /\ Len(asked) <= Len(asked') /\ Len(asked) \in Nat
    <3>1. asked \in Seq(Messages) /\ Len(asked) \in Nat
      BY DEF KnownTypes, LineTypes
    <3>2. Append(asked, m) \in Seq(Messages) /\ Len(Append(asked, m)) = Len(asked) + 1
      BY <1>2, <3>1
    <3>3. QED
      BY <1>3, <3>1, <3>2
  <2>3. whole' \in 0..Len(asked')
    BY <1>1, <2>2 DEF KnownTypes, LineTypes
  <2>4. QED
    BY <1>1, <2>1, <2>2, <2>3 DEF KnownTypes, QueueTypes, LineTypes, SocketTypes
<1>5. Sockets' /\ closed' = closed
  BY <1>1 DEF LInv, Sockets
<1>6. ASSUME NEW p \in Seqs PROVE Counted(p)'
  <2>0. /\ sent[p] \in Nat /\ late[p] \in Nat /\ took[p].nr \in Nat /\ Cardinality(Asking(p)) \in Nat
        /\ Counted(p)
    BY SeqTypes DEF LInv
  <2>1. CASE stage' = [stage EXCEPT ![c] = "body"] /\ sent' = [sent EXCEPT ![q] = sent[q] + 1]
    <3>1. Cardinality(Asking(p))' =
              IF p = SeqOf[c] THEN Cardinality(Asking(p)) + Busy("body") - Busy(stage[c])
              ELSE Cardinality(Asking(p))
      BY <2>1, AskingMoves
    <3>2. Busy("body") = 1 /\ Busy(stage[c]) = 0
      BY <1>1 DEF Busy
    <3>3. /\ sent'[p] = IF p = q THEN sent[p] + 1 ELSE sent[p]
          /\ Cardinality(Asking(p))' =
                 IF p = q THEN Cardinality(Asking(p)) + 1 ELSE Cardinality(Asking(p))
      BY <2>0, <2>1, <3>1, <3>2 DEF q, KnownTypes, CallTypes
    <3>4. QED
      BY <1>1, <2>0, <3>3 DEF Counted
  <2>2. CASE stage' = [stage EXCEPT ![c] = "none"] /\ UNCHANGED sent
    <3>1. Cardinality(Asking(p))' =
              IF p = SeqOf[c] THEN Cardinality(Asking(p)) + Busy("none") - Busy(stage[c])
              ELSE Cardinality(Asking(p))
      BY <2>2, AskingMoves
    <3>2. Busy("none") = 0 /\ Busy(stage[c]) = 0
      BY <1>1 DEF Busy
    <3>3. Cardinality(Asking(p))' = Cardinality(Asking(p))
      BY <2>0, <3>1, <3>2
    <3>4. QED
      BY <1>1, <2>0, <2>2, <3>3, CountedSame
  <2>3. QED
    BY <1>3, <2>1, <2>2
<1>7. ASSUME Queues, NEW p \in Seqs PROVE InTurn(p)'
  <2>0. /\ sent[p] \in Nat /\ took[p].nr \in Nat /\ QueueOf(p) \in Seq(Messages)
        /\ asked \in Seq(Messages) /\ wire \in Seq(Messages) /\ line \in BOOLEAN
    BY SeqTypes DEF KnownTypes, LineTypes
  <2>1. InTurn(p) /\ QueueOf(p)' = QueueOf(p)
    BY <1>1, <1>7 DEF Queues, QueueOf
  <2>2. Turn(p, QueueOf(p), wire, asked, took[p].nr, sent[p], line)
    BY <2>1 DEF InTurn
  <2>3. q \in DOMAIN evts'
    BY <1>1, <1>7 DEF Queues, q
  <2>4. CASE UNCHANGED <<sent, asked>>
    BY <1>1, <2>1, <2>4, InTurnSame
  <2>5. CASE sent' = [sent EXCEPT ![q] = sent[q] + 1] /\ asked' = IF line THEN Append(asked, m) ELSE asked
    <3>1. CASE p # q
      <4>1. sent'[p] = sent[p]
        BY <1>2, <2>5, <3>1 DEF KnownTypes, CallTypes
      <4>2. Turn(p, QueueOf(p), wire, asked', took[p].nr, sent[p], line)
        BY <1>2, <2>0, <2>2, <2>5, <3>1, TurnOther
      <4>3. QED
        BY <1>1, <2>1, <4>1, <4>2 DEF InTurn
    <3>2. CASE p = q
      <4>1. sent'[p] = sent[p] + 1
        BY <1>2, <2>5, <3>2 DEF KnownTypes, CallTypes
      <4>2. Turn(p, QueueOf(p), wire, asked', took[p].nr, sent[p] + 1, line)
        <5>1. CASE line
          <6>1. asked' = Append(asked, [of |-> p, nr |-> sent[p] + 1])
            BY <2>5, <3>2, <5>1 DEF m
          <6>2. Turn(p, QueueOf(p), wire, asked, took[p].nr, sent[p], TRUE)
            BY <2>0, <2>2, <5>1
          <6>3. Turn(p, QueueOf(p), wire, Append(asked, [of |-> p, nr |-> sent[p] + 1]),
                     took[p].nr, sent[p] + 1, TRUE)
            BY <2>0, <6>2, TurnSent
          <6>4. QED
            BY <2>0, <5>1, <6>1, <6>3
        <5>2. CASE ~line
          <6>1. sent[p] + 1 \in Nat /\ sent[p] <= sent[p] + 1
            BY <2>0
          <6>2. Turn(p, QueueOf(p), wire, asked, took[p].nr, sent[p] + 1, FALSE)
            BY <2>0, <2>2, <6>1, TurnUnsent
          <6>3. QED
            BY <2>0, <2>5, <5>2, <6>2
        <5>3. QED
          BY <5>1, <5>2
      <4>3. QED
        BY <1>1, <2>1, <2>3, <3>2, <4>1, <4>2 DEF InTurn
    <3>3. QED
      BY <3>1, <3>2
  <2>6. QED
    BY <1>3, <2>4, <2>5
<1>8. ASSUME Queues, NEW d \in Callers, stage'[d] # "none" PROVE SeqOf[d] \in DOMAIN evts'
  BY <1>1, <1>3, <1>8 DEF Queues, KnownTypes, CallTypes
<1>9. QED
  BY <1>4, <1>5, <1>6, <1>7, <1>8 DEF LInv, Queues

LEMMA block_sendBodyLInv ==
    ASSUME KnownTypes, LInv, NEW c \in Callers, block_sendBody(c)
    PROVE  KnownTypes' /\ LInv'
<1>1. /\ stage[c] = "body"
      /\ UNCHANGED <<sent, late, took, evts, asked, wire, line, connecting, connected, closed>>
  BY DEF block_sendBody, threadVars
<1>2. PICK s \in {"wait", "none"} :
          /\ stage' = [stage EXCEPT ![c] = s]
          /\ s = "none" => ~(line /\ ~closed)
  BY DEF block_sendBody, NotWritten, Up, LInv, Sockets
<1>3. whole' = whole \/ (whole' = whole + 1 /\ whole + 1 = Len(asked))
  BY DEF block_sendBody
<1>4. KnownTypes'
  <2>1. CallTypes'
    BY <1>1, <1>2 DEF KnownTypes, CallTypes
  <2>2. Len(asked) \in Nat
    BY DEF KnownTypes, LineTypes
  <2>3. whole' \in 0..Len(asked)
    BY <1>3, <2>2 DEF KnownTypes, LineTypes
  <2>4. QED
    BY <1>1, <2>1, <2>3 DEF KnownTypes, QueueTypes, LineTypes, SocketTypes
<1>5. Sockets' /\ closed' = closed
  BY <1>1 DEF LInv, Sockets
<1>6. ASSUME NEW q \in Seqs PROVE Counted(q)' /\ (InTurn(q) => InTurn(q)')
  <2>0. /\ sent[q] \in Nat /\ late[q] \in Nat /\ took[q].nr \in Nat /\ Cardinality(Asking(q)) \in Nat
        /\ Counted(q)
    BY SeqTypes DEF LInv
  <2>1. Cardinality(Asking(q))' =
            IF q = SeqOf[c] THEN Cardinality(Asking(q)) + Busy(s) - Busy(stage[c])
            ELSE Cardinality(Asking(q))
    BY <1>2, AskingMoves
  <2>2. Busy("wait") = 1 /\ Busy("none") = 0 /\ Busy(stage[c]) = 1
    BY <1>1 DEF Busy
  <2>3. Counted(q)'
    <3>1. CASE s = "wait"
      <4>1. Cardinality(Asking(q))' = Cardinality(Asking(q))
        BY <2>0, <2>1, <2>2, <3>1
      <4>2. QED
        BY <1>1, <2>0, <4>1, CountedSame
    <3>2. CASE s = "none"
      <4>1. /\ Cardinality(Asking(q))' \in Int
            /\ Cardinality(Asking(q))' <= Cardinality(Asking(q))
        BY <2>0, <2>1, <2>2, <3>2
      <4>2. QED
        BY <1>1, <1>2, <2>0, <3>2, <4>1 DEF Counted
    <3>3. QED
      BY <3>1, <3>2
  <2>4. QueueOf(q)' = QueueOf(q)
    BY <1>1 DEF QueueOf
  <2>5. QED
    BY <1>1, <2>3, <2>4, InTurnSame
<1>7. ASSUME Queues, NEW d \in Callers, stage'[d] # "none" PROVE SeqOf[d] \in DOMAIN evts'
  BY <1>1, <1>2, <1>7 DEF Queues, KnownTypes, CallTypes
<1>8. QED
  BY <1>4, <1>5, <1>6, <1>7 DEF LInv, Queues

-----------------------------------------------------------------------------
(* An answer that is taken is the next one of its seq.                     *)
LEMMA receiveTakes ==
    ASSUME KnownTypes, LInv, NEW c \in Callers, receive(c), NEW q, q = SeqOf[c]
    PROVE  /\ q \in Seqs /\ q \in DOMAIN evts /\ evts[q] \in Seq(Messages) /\ evts[q] # <<>>
           /\ Head(evts[q]) = [of |-> q, nr |-> took[q].nr + 1]
           /\ Turn(q, Tail(evts[q]), wire, asked, took[q].nr + 1, sent[q], line)
<1>1. stage[c] = "wait" /\ ~closed /\ evts[q] # <<>>
  BY DEF receive
<1>2. q \in Seqs /\ q \in DOMAIN evts /\ InTurn(q)
  BY <1>1, LibAssumption DEF LInv, Queues
<1>3. QueueOf(q) = evts[q] /\ evts[q] \in Seq(Messages) /\ took[q].nr \in Nat
  BY <1>2, SeqTypes DEF QueueOf
<1>4. Turn(q, evts[q], wire, asked, took[q].nr, sent[q], line)
  BY <1>2, <1>3 DEF InTurn
<1>5. QED
  BY <1>1, <1>2, <1>3, <1>4, TurnTaken

LEMMA receiveLInv ==
    ASSUME KnownTypes, LInv, NEW c \in Callers, receive(c)
    PROVE  KnownTypes' /\ LInv'
<1> DEFINE q == SeqOf[c]
<1>1. /\ stage[c] = "wait" /\ ~closed
      /\ took' = [took EXCEPT ![q] = Head(evts[q])]
      /\ evts' = [evts EXCEPT ![q] = Tail(evts[q])]
      /\ stage' = [stage EXCEPT ![c] = "none"]
      /\ UNCHANGED <<sent, late, asked, whole, wire, line, connecting, connected, closed>>
  BY DEF receive, lineVars, threadVars
<1> HIDE DEF q
<1>2. /\ q \in Seqs /\ q \in DOMAIN evts /\ evts[q] \in Seq(Messages) /\ evts[q] # <<>>
      /\ Head(evts[q]) = [of |-> q, nr |-> took[q].nr + 1]
      /\ Turn(q, Tail(evts[q]), wire, asked, took[q].nr + 1, sent[q], line)
  BY receiveTakes DEF q
<1>3. Tail(evts[q]) \in Seq(Messages) /\ Head(evts[q]) \in Messages
  BY <1>2
<1>4. KnownTypes'
  <2>1. CallTypes'
    BY <1>1, <1>3 DEF KnownTypes, CallTypes
  <2>2. QueueTypes'
    BY <1>1, <1>3 DEF KnownTypes, QueueTypes
  <2>3. QED
    BY <1>1, <2>1, <2>2 DEF KnownTypes, LineTypes, SocketTypes
<1>5. Sockets' /\ closed' = closed
  BY <1>1 DEF LInv, Sockets
<1>6. /\ took'[q].nr = took[q].nr + 1 /\ \A p \in Seqs \ {q} : took'[p] = took[p]
      /\ evts'[q] = Tail(evts[q]) /\ DOMAIN evts' = DOMAIN evts
      /\ \A p \in DOMAIN evts \ {q} : evts'[p] = evts[p]
  BY <1>1, <1>2 DEF KnownTypes, CallTypes
<1>7. ASSUME NEW p \in Seqs PROVE Counted(p)' /\ InTurn(p)'
  <2>0. /\ sent[p] \in Nat /\ late[p] \in Nat /\ took[p].nr \in Nat /\ Cardinality(Asking(p)) \in Nat
        /\ Counted(p) /\ InTurn(p)
    BY <1>1, SeqTypes DEF LInv, Queues
  <2>1. Cardinality(Asking(p))' =
            IF p = SeqOf[c] THEN Cardinality(Asking(p)) + Busy("none") - Busy(stage[c])
            ELSE Cardinality(Asking(p))
    BY <1>1, AskingMoves
  <2>2. Busy("none") = 0 /\ Busy(stage[c]) = 1
    BY <1>1 DEF Busy
  <2>3. CASE p # q
    <3>1. Cardinality(Asking(p))' = Cardinality(Asking(p))
      BY <2>1, <2>3 DEF q
    <3>2. QueueOf(p)' = QueueOf(p) /\ took'[p] = took[p]
      BY <1>6, <2>3 DEF QueueOf
    <3>3. QED
      BY <1>1, <1>6, <2>0, <3>1, <3>2, CountedSame, InTurnSame
  <2>4. CASE p = q
    <3>1. Cardinality(Asking(p))' = Cardinality(Asking(p)) - 1
      BY <2>0, <2>1, <2>2, <2>4 DEF q
    <3>2. took'[p].nr = took[p].nr + 1
      BY <1>6, <2>4
    <3>3. Counted(p)'
      BY <1>1, <2>0, <3>1, <3>2 DEF Counted
    <3>4. QueueOf(p)' = Tail(evts[p])
      BY <1>2, <1>6, <2>4 DEF QueueOf
    <3>5. InTurn(p)'
      BY <1>1, <1>2, <1>6, <2>4, <3>2, <3>4 DEF InTurn
    <3>6. QED
      BY <3>3, <3>5
  <2>5. QED
    BY <2>3, <2>4
<1>8. ASSUME NEW d \in Callers, stage'[d] # "none" PROVE SeqOf[d] \in DOMAIN evts'
  BY <1>1, <1>6, <1>8 DEF LInv, Queues, KnownTypes, CallTypes
<1>9. QED
  BY <1>4, <1>5, <1>7, <1>8 DEF LInv, Queues

LEMMA receiveNothingLInv ==
    ASSUME KnownTypes, LInv, NEW c \in Callers, receiveNothing(c)
    PROVE  KnownTypes' /\ LInv'
<1> DEFINE q == SeqOf[c]
<1>1. /\ stage[c] = "wait"
      /\ stage' = [stage EXCEPT ![c] = "none"]
      /\ late' = [late EXCEPT ![q] = late[q] + 1]
      /\ UNCHANGED <<sent, took, evts, asked, whole, wire, line, connecting, connected, closed>>
  BY DEF receiveNothing, lineVars, threadVars
<1>2. q \in Seqs
  BY LibAssumption
<1> HIDE DEF q
<1>3. KnownTypes'
  <2>1. late[q] + 1 \in Nat
    BY <1>2, SeqTypes
  <2>2. CallTypes'
    BY <1>1, <2>1 DEF KnownTypes, CallTypes
  <2>3. QED
    BY <1>1, <2>2 DEF KnownTypes, QueueTypes, LineTypes, SocketTypes
<1>4. Sockets' /\ closed' = closed
  BY <1>1 DEF LInv, Sockets
<1>5. ASSUME NEW p \in Seqs PROVE Counted(p)' /\ (InTurn(p) => InTurn(p)')
  <2>0. /\ sent[p] \in Nat /\ late[p] \in Nat /\ took[p].nr \in Nat /\ Cardinality(Asking(p)) \in Nat
        /\ Counted(p)
    BY SeqTypes DEF LInv
  <2>1. Cardinality(Asking(p))' =
            IF p = SeqOf[c] THEN Cardinality(Asking(p)) + Busy("none") - Busy(stage[c])
            ELSE Cardinality(Asking(p))
    BY <1>1, AskingMoves
  <2>2. Busy("none") = 0 /\ Busy(stage[c]) = 1
    BY <1>1 DEF Busy
  <2>3. /\ late'[p] = IF p = q THEN late[p] + 1 ELSE late[p]
        /\ Cardinality(Asking(p))' =
               IF p = q THEN Cardinality(Asking(p)) - 1 ELSE Cardinality(Asking(p))
    BY <1>1, <2>0, <2>1, <2>2 DEF q, KnownTypes, CallTypes
  <2>4. Counted(p)'
    BY <1>1, <2>0, <2>3 DEF Counted
  <2>5. QueueOf(p)' = QueueOf(p)
    BY <1>1 DEF QueueOf
  <2>6. QED
    BY <1>1, <2>4, <2>5, InTurnSame
<1>6. ASSUME Queues, NEW d \in Callers, stage'[d] # "none" PROVE SeqOf[d] \in DOMAIN evts'
  BY <1>1, <1>6 DEF Queues, KnownTypes, CallTypes
<1>7. QED
  BY <1>3, <1>4, <1>5, <1>6 DEF LInv, Queues

(* The listening thread hands on what it reads.                            *)
LEMMA doServerMessageLInv ==
    ASSUME KnownTypes, LInv, doServerMessage
    PROVE  KnownTypes' /\ LInv'
<1> DEFINE m == Head(wire)
<1>1. /\ ~closed /\ wire # <<>> /\ wire' = Tail(wire)
      /\ evts' = [q \in DOMAIN evts |-> IF q = m.of THEN Append(evts[q], m) ELSE evts[q]]
      /\ UNCHANGED <<stage, sent, late, took, asked, whole, line, connecting, connected, closed>>
  BY DEF doServerMessage, Listens, sendRes, callVars, threadVars
<1>2. wire \in Seq(Messages) /\ asked \in Seq(Messages) /\ Tail(wire) \in Seq(Messages) /\ m \in Messages
  BY <1>1 DEF KnownTypes, LineTypes
<1>3. KnownTypes'
  <2>1. QueueTypes'
    <3>1. ASSUME NEW q \in DOMAIN evts PROVE evts'[q] \in Seq(Messages)
      <4>1. evts[q] \in Seq(Messages)
        BY DEF KnownTypes, QueueTypes
      <4>2. Append(evts[q], m) \in Seq(Messages)
        BY <1>2, <4>1
      <4>3. QED
        BY <1>1, <4>1, <4>2
    <3>2. QED
      BY <1>1, <3>1 DEF KnownTypes, QueueTypes
  <2>2. QED
    BY <1>1, <1>2, <2>1 DEF KnownTypes, CallTypes, LineTypes, SocketTypes
<1>4. Sockets'
  BY <1>1 DEF LInv, Sockets
<1>5. ASSUME NEW q \in Seqs PROVE Counted(q)' /\ InTurn(q)'
  <2>1. InTurn(q) /\ Counted(q) /\ Asking(q)' = Asking(q)
    BY <1>1 DEF LInv, Queues, Asking
  <2>2. Counted(q)'
    BY <1>1, <2>1, CountedSame
  <2>3. /\ Turn(q, QueueOf(q), wire, asked, took[q].nr, sent[q], line)
        /\ QueueOf(q) \in Seq(Messages) /\ took[q].nr \in Nat /\ sent[q] \in Nat
    BY <2>1, SeqTypes DEF InTurn
  <2>4. Turn(q, IF m.of = q THEN Append(QueueOf(q), m) ELSE QueueOf(q),
             Tail(wire), asked, took[q].nr, sent[q], line)
    BY <1>1, <1>2, <2>3, TurnRead
  <2>5. m.of = q => q \in DOMAIN evts
    <3> SUFFICES ASSUME m.of = q PROVE sent[q] > 0
      BY <2>1 DEF InTurn
    <3>1. Increasing(wire, q)
      BY <2>3 DEF Turn
    <3>2. m.nr \in Numbers(wire, q)
      BY <1>1, <1>2, <3>1, NumbersTail
    <3>3. m.nr <= sent[q] /\ m.nr \in Nat \ {0}
      BY <1>2, <2>3, <3>2, NumbersTyped DEF Turn
    <3>4. QED
      BY <2>3, <3>3
  <2>6. QueueOf(q)' = IF m.of = q THEN Append(QueueOf(q), m) ELSE QueueOf(q)
    BY <1>1, <2>5 DEF QueueOf
  <2>7. InTurn(q)'
    BY <1>1, <2>1, <2>4, <2>6 DEF InTurn
  <2>8. QED
    BY <2>2, <2>7
<1>6. \A c \in Callers : stage'[c] # "none" => SeqOf[c] \in DOMAIN evts'
  BY <1>1 DEF LInv, Queues
<1>7. QED
  BY <1>1, <1>3, <1>4, <1>5, <1>6 DEF LInv, Queues

(* What only moves messages towards the listening thread, or loses those   *)
(* that were not answered.                                                 *)
LEMMA ServerLInv ==
    ASSUME KnownTypes, LInv, Answer \/ Notify \/ Break
    PROVE  KnownTypes' /\ LInv'
<1>1. UNCHANGED <<stage, sent, late, took, evts, connecting, connected, closed>>
  BY DEF Answer, Notify, Break, callVars, threadVars
<1>2. asked \in Seq(Messages) /\ wire \in Seq(Messages) /\ NoAnswer \in Messages
  BY DEF KnownTypes, LineTypes, Messages
<1>3. LineTypes' /\ (line' => line)
  <2>0. line \in BOOLEAN /\ whole \in 0..Len(asked) /\ Len(asked) \in Nat
    BY <1>2 DEF KnownTypes, LineTypes
  <2>1. CASE Answer
    <3>1. Head(asked) \in Messages /\ Tail(asked) \in Seq(Messages) /\ Len(Tail(asked)) = Len(asked) - 1
      BY <1>2, <2>1 DEF Answer
    <3>2. whole' \in 0..Len(asked) - 1
      BY <2>0, <2>1 DEF Answer
    <3>3. QED
      BY <1>2, <2>0, <2>1, <3>1, <3>2 DEF Answer, LineTypes
  <2>2. CASE Notify
    BY <1>2, <2>0, <2>2 DEF Notify, LineTypes
  <2>3. CASE Break
    <3>1. <<>> \in Seq(Messages) /\ 0 \in 0..Len(<<>>)
      OBVIOUS
    <3>2. QED
      BY <1>2, <2>3, <3>1 DEF Break, LineTypes
  <2>4. QED
    BY <2>1, <2>2, <2>3
<1>4. KnownTypes'
  BY <1>1, <1>3 DEF KnownTypes, CallTypes, QueueTypes, SocketTypes
<1>5. Sockets'
  BY <1>1 DEF LInv, Sockets
<1>6. ASSUME NEW q \in Seqs PROVE Counted(q)' /\ (InTurn(q) => InTurn(q)')
  <2>1. QueueOf(q)' = QueueOf(q) /\ Asking(q)' = Asking(q) /\ Counted(q)
    BY <1>1 DEF LInv, QueueOf, Asking
  <2>2. Counted(q)'
    BY <1>1, <1>3, <2>1, CountedSame
  <2>3. ASSUME InTurn(q) PROVE InTurn(q)'
    <3>1. /\ Turn(q, QueueOf(q), wire, asked, took[q].nr, sent[q], line)
          /\ QueueOf(q) \in Seq(Messages) /\ took[q].nr \in Nat
      BY <2>3, SeqTypes DEF InTurn
    <3>2. Turn(q, QueueOf(q), wire', asked', took[q].nr, sent[q], line')
      <4>1. CASE Answer
        <5>1. asked # <<>> /\ asked' = Tail(asked) /\ wire' = Append(wire, Head(asked)) /\ line' = line
          BY <4>1 DEF Answer
        <5>2. QED
          BY <1>2, <3>1, <5>1, TurnAnswered
      <4>2. CASE Notify
        <5>1. wire' = Append(wire, NoAnswer) /\ asked' = asked /\ line' = line
          BY <4>2 DEF Notify
        <5>2. NoAnswer.of # q
          BY LibAssumption DEF NoAnswer
        <5>3. QED
          BY <1>2, <3>1, <5>1, <5>2, TurnOther
      <4>3. CASE Break
        <5>1. wire' = wire /\ asked' = <<>> /\ line' = FALSE
          BY <4>3 DEF Break
        <5>2. QED
          BY <1>2, <3>1, <5>1, TurnBroken
      <4>4. QED
        BY <4>1, <4>2, <4>3
    <3>3. QED
      BY <1>1, <2>1, <2>3, <3>2 DEF InTurn
  <2>4. QED
    BY <2>2, <2>3
<1>7. QED
  BY <1>1, <1>4, <1>5, <1>6 DEF LInv, Queues

(* disconnect empties the queues for good, or finds the sockets closed or  *)
(* connect not finished.                                                   *)
LEMMA disconnectLInv ==
    ASSUME KnownTypes, LInv, disconnect, UNCHANGED <<callVars, connecting>>,
           LineTypes', line' => line, ~connected => UNCHANGED lineVars
    PROVE  KnownTypes' /\ LInv'
<1>1. CASE ~connected
  BY <1>1, LStutter DEF disconnect
<1>2. CASE connected
  <2>1. /\ evts' = [q \in {} |-> <<>>] /\ connected' = FALSE /\ closed' = TRUE
        /\ UNCHANGED <<stage, sent, late, took, connecting>>
    BY <1>2 DEF disconnect, callVars
  <2>2. KnownTypes'
    BY <2>1 DEF KnownTypes, CallTypes, QueueTypes, SocketTypes
  <2>3. Sockets'
    BY <1>2, <2>1 DEF LInv, Sockets
  <2>4. ASSUME NEW q \in Seqs PROVE Counted(q)'
    <3>1. Asking(q)' = Asking(q)
      BY <2>1 DEF Asking
    <3>2. QED
      BY <2>1, <3>1, CountedSame DEF LInv
  <2>5. QED
    BY <2>1, <2>2, <2>3, <2>4 DEF LInv
<1>3. QED
  BY <1>1, <1>2

LEMMA connectLInv ==
    ASSUME KnownTypes, LInv, connect
    PROVE  KnownTypes' /\ LInv'
<1>1. /\ connecting /\ connecting' = FALSE /\ connected' = TRUE
      /\ UNCHANGED <<stage, sent, late, took, evts, asked, whole, wire, line, closed>>
  BY DEF connect, callVars, lineVars
<1>2. KnownTypes'
  BY <1>1 DEF KnownTypes, CallTypes, QueueTypes, LineTypes, SocketTypes
<1>3. Sockets'
  BY <1>1 DEF LInv, Sockets
<1>4. ASSUME NEW q \in Seqs PROVE Counted(q)' /\ (InTurn(q) => InTurn(q)')
  <2>1. QueueOf(q)' = QueueOf(q) /\ Asking(q)' = Asking(q)
    BY <1>1 DEF QueueOf, Asking
  <2>2. QED
    BY <1>1, <2>1, CountedSame, InTurnSame DEF LInv
<1>5. QED
  BY <1>1, <1>2, <1>3, <1>4 DEF LInv, Queues

LEMMA NextLInv ==
    ASSUME KnownTypes, LInv, [Next]_vars
    PROVE  KnownTypes' /\ LInv'
<1>1. CASE UNCHANGED vars
  BY <1>1, LStutter DEF vars, threadVars
<1>2. ASSUME NEW c \in Callers,
             getMsgQue(c) \/ block_sendHeader(c) \/ block_sendBody(c) \/ receive(c) \/ receiveNothing(c)
      PROVE  KnownTypes' /\ LInv'
  BY <1>2, getMsgQueLInv, block_sendHeaderLInv, block_sendBodyLInv, receiveLInv, receiveNothingLInv
<1>3. ASSUME NEW c \in Callers, receiveDeleted(c) PROVE KnownTypes' /\ LInv'
  BY <1>3, LStutter DEF receiveDeleted, threadVars
<1>4. ASSUME NEW b \in Broadcasts, SendHeader(b) \/ SendBody(b) PROVE KnownTypes' /\ LInv'
  BY <1>4, LStutter DEF SendHeader, SendBody, threadVars
<1>5. CASE Lose
  BY <1>5, LStutter DEF Lose, threadVars
<1>6. CASE Answer \/ Notify \/ Break
  BY <1>6, ServerLInv
<1>7. CASE connect
  BY <1>7, connectLInv
<1>8. CASE hangup
  <2>1. /\ connected /\ disconnect /\ UNCHANGED <<callVars, connecting>>
        /\ line' = FALSE /\ asked' = <<>> /\ whole' = 0 /\ wire' = <<>>
    BY <1>8 DEF hangup
  <2>2. <<>> \in Seq(Messages) /\ 0 \in 0..Len(<<>>)
    OBVIOUS
  <2>3. LineTypes'
    BY <2>1, <2>2 DEF LineTypes
  <2>4. QED
    BY <2>1, <2>3, disconnectLInv
<1>9. CASE Listening
  <2>0. UNCHANGED lineVars => LineTypes' /\ (line' => line)
    BY DEF KnownTypes, LineTypes, lineVars
  <2>1. CASE doServerMessage
    BY <2>1, doServerMessageLInv
  <2>2. CASE doWorkEnds
    BY <2>0, <2>2, disconnectLInv DEF doWorkEnds
  <2>3. CASE doServerDatagram
    <3>1. /\ UNCHANGED <<callVars, connecting, lineVars>>
          /\ disconnect \/ UNCHANGED <<evts, connected, closed>>
      BY <2>3 DEF doServerDatagram
    <3>2. CASE disconnect
      BY <2>0, <3>1, <3>2, disconnectLInv
    <3>3. CASE UNCHANGED <<evts, connected, closed>>
      BY <3>1, <3>3, LStutter
    <3>4. QED
      BY <3>1, <3>2, <3>3
  <2>4. QED
    BY <1>9, <2>1, <2>2, <2>3 DEF Listening
<1>10. QED
  BY <1>1, <1>2, <1>3, <1>4, <1>5, <1>6, <1>7, <1>8, <1>9 DEF Next

LEMMA InitLInv == Init => KnownTypes /\ LInv
<1> SUFFICES ASSUME Init PROVE KnownTypes /\ LInv
  OBVIOUS
<1>1. KnownTypes
  <2>1. NoAnswer \in Messages /\ <<>> \in Seq(Messages) /\ 0 \in 0..Len(<<>>)
    BY DEF Messages
  <2>2. CallTypes
    BY <2>1 DEF Init, CallTypes
  <2>3. QueueTypes
    BY DEF Init, QueueTypes
  <2>4. LineTypes /\ SocketTypes
    BY <2>1 DEF Init, LineTypes, SocketTypes
  <2>5. QED
    BY <2>2, <2>3, <2>4 DEF KnownTypes
<1>2. Sockets
  BY DEF Init, Sockets
<1>3. ASSUME NEW q \in Seqs PROVE InTurn(q) /\ Counted(q)
  <2>1. QueueOf(q) = <<>> /\ sent[q] = 0 /\ late[q] = 0 /\ took[q].nr = 0
    BY DEF Init, QueueOf, NoAnswer
  <2>2. Numbers(<<>>, q) = {} /\ Increasing(<<>>, q)
    BY DEF Numbers, Increasing
  <2>3. wire = <<>> /\ asked = <<>> /\ line = TRUE
    BY DEF Init
  <2>4. InTurn(q)
    <3>1. Turn(q, QueueOf(q), wire, asked, took[q].nr, sent[q], line)
      BY <2>1, <2>2, <2>3 DEF Turn
    <3>2. ~(sent[q] > 0)
      BY <2>1
    <3>3. QED
      BY <3>1, <3>2 DEF InTurn
  <2>5. Asking(q) = {}
    BY DEF Init, Asking
  <2>6. Cardinality(Asking(q)) = 0
    BY <2>5, FS_EmptySet
  <2>7. Counted(q)
    BY <2>1, <2>6 DEF Counted
  <2>8. QED
    BY <2>4, <2>7
<1>4. \A c \in Callers : stage[c] = "none"
  BY DEF Init
<1>5. QED
  BY <1>1, <1>2, <1>3, <1>4 DEF LInv, Queues

-----------------------------------------------------------------------------
(* The datagrams of one broadcast come one after the other: what a header  *)
(* opens its body closes, beginning with what the parser has read.         *)
Datagrams == [of : Broadcasts, part : {"header", "body"}]

Opened(r, ds, i) ==
    IF i = 0 THEN r ELSE IF ds[i].part = "header" THEN ds[i].of ELSE "idle"

Follows(r, ds, i) ==
    Opened(r, ds, i - 1) = IF ds[i].part = "header" THEN "idle" ELSE ds[i].of

Whole ==
    /\ listener /\ ~closed /\ reading # "pieces"
    /\ \A i \in 1..Len(datagrams) : Follows(reading, datagrams, i)
    /\ \A b \in Broadcasts : job[b] = "header" <=> Opened(reading, datagrams, Len(datagrams)) = b

DInv == UdpTypes /\ (line /\ ~damaged => Whole)

LEMMA OneMore ==
    ASSUME NEW r, NEW ds \in Seq(Datagrams), NEW d \in Datagrams,
           \A i \in 1..Len(ds) : Follows(r, ds, i),
           Opened(r, ds, Len(ds)) = IF d.part = "header" THEN "idle" ELSE d.of
    PROVE  LET es == Append(ds, d) IN
           /\ \A i \in 1..Len(es) : Follows(r, es, i)
           /\ Opened(r, es, Len(es)) = IF d.part = "header" THEN d.of ELSE "idle"
<1> DEFINE es == Append(ds, d)
<1>1. /\ Len(ds) \in Nat /\ Len(es) = Len(ds) + 1 /\ es[Len(es)] = d
      /\ \A i \in 1..Len(ds) : es[i] = ds[i]
  OBVIOUS
<1> HIDE DEF es
<1>2. \A i \in 0..Len(ds) : Opened(r, es, i) = Opened(r, ds, i)
  <2> TAKE i \in 0..Len(ds)
  <2>1. i = 0 \/ i \in 1..Len(ds)
    OBVIOUS
  <2>2. QED
    BY <1>1, <2>1 DEF Opened
<1>3. ASSUME NEW i \in 1..Len(es) PROVE Follows(r, es, i)
  <2>1. CASE i \in 1..Len(ds)
    <3>1. i - 1 \in 0..Len(ds)
      BY <1>1, <2>1
    <3>2. QED
      BY <1>1, <1>2, <2>1, <3>1 DEF Follows
  <2>2. CASE i = Len(es)
    <3>1. i - 1 = Len(ds) /\ Len(ds) \in 0..Len(ds)
      BY <1>1, <2>2
    <3>2. QED
      BY <1>1, <1>2, <2>2, <3>1 DEF Follows
  <2>3. QED
    BY <1>1, <2>1, <2>2
<1>4. Len(es) # 0
  BY <1>1
<1>5. QED
  BY <1>1, <1>3, <1>4 DEF Opened, es

LEMMA OneLess ==
    ASSUME NEW r, NEW ds \in Seq(Datagrams), ds # <<>>,
           \A i \in 1..Len(ds) : Follows(r, ds, i)
    PROVE  LET es == Tail(ds)
               s == Opened(r, ds, 1) IN
           /\ \A i \in 1..Len(es) : Follows(s, es, i)
           /\ Opened(s, es, Len(es)) = Opened(r, ds, Len(ds))
<1> DEFINE es == Tail(ds)
           s == Opened(r, ds, 1)
<1>1. /\ Len(ds) \in Nat /\ Len(ds) > 0 /\ Len(es) = Len(ds) - 1
      /\ \A i \in 1..Len(ds) - 1 : es[i] = ds[i + 1]
  OBVIOUS
<1> HIDE DEF es
<1>2. \A i \in 0..Len(ds) - 1 : Opened(s, es, i) = Opened(r, ds, i + 1)
  <2> TAKE i \in 0..Len(ds) - 1
  <2>1. CASE i = 0
    BY <2>1 DEF Opened
  <2>2. CASE i # 0
    <3>1. i \in 1..Len(ds) - 1 /\ i + 1 # 0
      BY <2>2
    <3>2. QED
      BY <1>1, <2>2, <3>1 DEF Opened
  <2>3. QED
    BY <2>1, <2>2
<1>3. ASSUME NEW i \in 1..Len(es) PROVE Follows(s, es, i)
  <2>1. i - 1 \in 0..Len(ds) - 1 /\ (i - 1) + 1 = i /\ i + 1 \in 1..Len(ds) /\ (i + 1) - 1 = i
    BY <1>1
  <2>2. Opened(s, es, i - 1) = Opened(r, ds, i) /\ es[i] = ds[i + 1]
    BY <1>1, <1>2, <2>1
  <2>3. Follows(r, ds, i + 1)
    BY <2>1
  <2>4. QED
    BY <2>1, <2>2, <2>3 DEF Follows
<1>4. Len(es) \in 0..Len(ds) - 1 /\ Len(es) + 1 = Len(ds)
  BY <1>1
<1>5. QED
  BY <1>2, <1>3, <1>4 DEF es

(* Nothing of this is touched, or the line breaks.                         *)
LEMMA DStutter ==
    ASSUME DInv, UNCHANGED <<listener, closed, udpVars>>, line' => line,
           begun' \in 0..Work, fault' \in {"none", "queue"}
    PROVE  DInv'
<1>1. UNCHANGED <<job, datagrams, reading, damaged>>
  BY DEF udpVars
<1>2. UdpTypes'
  BY <1>1 DEF DInv, UdpTypes
<1>3. Whole => Whole'
  BY <1>1 DEF Whole, Opened, Follows
<1>4. QED
  BY <1>1, <1>2, <1>3 DEF DInv

LEMMA BeginsTyped ==
    ASSUME DInv, Begins
    PROVE  begun' \in 0..Work
BY LibAssumption DEF DInv, UdpTypes, Begins

LEMMA Removed ==
    ASSUME NEW ds \in Seq(Datagrams), NEW i \in DOMAIN ds
    PROVE  Ext!RemoveAt(ds, i) \in Seq(Datagrams) /\ (i = 1 => Ext!RemoveAt(ds, i) = Tail(ds))
<1>1. i \in 1..Len(ds) /\ ds # <<>>
  OBVIOUS
<1>2. SubSeq(ds, 1, i - 1) \in Seq(Datagrams) /\ SubSeq(ds, i + 1, Len(ds)) \in Seq(Datagrams)
  BY <1>1
<1>3. ASSUME i = 1 PROVE Ext!RemoveAt(ds, i) = Tail(ds)
  <2>1. SubSeq(ds, 1, 1 - 1) = <<>> /\ SubSeq(ds, 1 + 1, Len(ds)) = Tail(ds) /\ Tail(ds) \in Seq(Datagrams)
    BY <1>1, TailIsSubSeq, SubSeqEmpty
  <2>2. <<>> \o Tail(ds) = Tail(ds)
    BY <2>1
  <2>3. QED
    BY <1>3, <2>1, <2>2 DEF Ext!RemoveAt
<1>4. QED
  BY <1>2, <1>3 DEF Ext!RemoveAt

LEMMA doServerDatagramDInv ==
    ASSUME DInv, doServerDatagram
    PROVE  DInv'
<1>1. UNCHANGED <<line, job, begun, fault>>
  BY DEF doServerDatagram, lineVars
<1>2. PICK i \in DOMAIN datagrams, again \in BOOLEAN :
          /\ datagrams' = IF again THEN datagrams ELSE Ext!RemoveAt(datagrams, i)
          /\ damaged' = (damaged \/ again \/ i # 1)
          /\ \E to \in Parsed(datagrams[i]) :
              IF to = "end"
              THEN listener' = FALSE /\ disconnect /\ reading' = "idle"
              ELSE reading' = to /\ UNCHANGED <<listener, evts, connected, closed>>
  BY DEF doServerDatagram
<1> DEFINE d == datagrams[i]
<1>3. /\ datagrams \in Seq(Datagrams) /\ d \in Datagrams
      /\ reading \in Broadcasts \cup {"idle", "pieces"}
      /\ damaged \in BOOLEAN /\ listener \in BOOLEAN
  <2>1. /\ datagrams \in Seq(Datagrams) /\ reading \in Broadcasts \cup {"idle", "pieces"}
        /\ damaged \in BOOLEAN /\ listener \in BOOLEAN
    BY DEF DInv, UdpTypes, Datagrams
  <2>2. QED
    BY <1>2, <2>1
<1>4. datagrams' \in Seq(Datagrams) /\ (~again /\ i = 1 => datagrams' = Tail(datagrams))
  BY <1>2, <1>3, Removed
<1>5. PICK to \in Parsed(d) :
          IF to = "end"
          THEN listener' = FALSE /\ disconnect /\ reading' = "idle"
          ELSE reading' = to /\ UNCHANGED <<listener, evts, connected, closed>>
  BY <1>2
<1>6. Parsed(d) \subseteq Broadcasts \cup {"idle", "pieces", "end"}
  BY <1>3 DEF Parsed, Datagrams
<1>7. reading' \in Broadcasts \cup {"idle", "pieces"} /\ listener' \in BOOLEAN /\ damaged' \in BOOLEAN
  BY <1>2, <1>3, <1>5, <1>6
<1>8. UdpTypes'
  BY <1>1, <1>4, <1>7 DEF DInv, UdpTypes, Datagrams
<1>9. ASSUME line, ~damaged' PROVE Whole'
  <2>1. ~damaged /\ ~again /\ i = 1 /\ Whole
    BY <1>2, <1>9 DEF DInv
  <2>2. datagrams # <<>> /\ datagrams' = Tail(datagrams)
    BY <1>2, <1>3, <1>4, <2>1
  <2>3. 1 \in 1..Len(datagrams) /\ d = datagrams[1]
    BY <1>3, <2>1, <2>2
  <2>4. Follows(reading, datagrams, 1)
    BY <2>1, <2>3 DEF Whole
  <2> HIDE DEF d
  <2>5. reading = IF d.part = "header" THEN "idle" ELSE d.of
    BY <2>3, <2>4 DEF Follows, Opened
  <2>6. "idle" \notin Broadcasts /\ "end" \notin Broadcasts /\ "pieces" \notin Broadcasts
    BY LibAssumption
  <2>7. Parsed(d) = {IF d.part = "header" THEN d.of ELSE "idle"}
    <3>1. d.part \in {"header", "body"} /\ d.of \in Broadcasts
      BY <1>3 DEF Datagrams
    <3>2. CASE d.part = "header"
      <4>1. reading = "idle"
        BY <2>5, <3>2
      <4>2. Parsed(d) = {d.of}
        BY <3>2, <4>1 DEF Parsed
      <4>3. QED
        BY <3>2, <4>2
    <3>3. CASE d.part = "body"
      <4>1. reading = d.of /\ reading \notin {"idle", "pieces"} /\ d.part # "header"
        BY <2>5, <2>6, <3>1, <3>3
      <4>2. Parsed(d) = {"idle"}
        BY <3>3, <4>1 DEF Parsed
      <4>3. QED
        BY <3>3, <4>2
    <3>4. QED
      BY <3>1, <3>2, <3>3
  <2>8. to = Opened(reading, datagrams, 1) /\ to \in Broadcasts \cup {"idle"}
    BY <1>3, <2>3, <2>7 DEF Opened, Datagrams
  <2>9. reading' = to /\ UNCHANGED <<listener, closed>>
    BY <1>5, <2>6, <2>8
  <2>10. \A j \in 1..Len(datagrams) : Follows(reading, datagrams, j)
    BY <2>1 DEF Whole
  <2>11. /\ \A j \in 1..Len(datagrams') : Follows(reading', datagrams', j)
         /\ Opened(reading', datagrams', Len(datagrams')) = Opened(reading, datagrams, Len(datagrams))
    BY <1>3, <2>2, <2>8, <2>9, <2>10, OneLess
  <2>12. reading' # "pieces" /\ job' = job
    BY <1>1, <2>6, <2>8, <2>9
  <2>13. QED
    BY <2>1, <2>9, <2>11, <2>12 DEF Whole
<1>10. QED
  BY <1>1, <1>8, <1>9 DEF DInv

LEMMA LoseDInv ==
    ASSUME DInv, Lose
    PROVE  DInv'
<1>1. PICK i \in DOMAIN datagrams : datagrams' = Ext!RemoveAt(datagrams, i)
  BY DEF Lose
<1>2. datagrams \in Seq(Datagrams)
  BY DEF DInv, UdpTypes, Datagrams
<1>3. datagrams' \in Seq(Datagrams)
  BY <1>1, <1>2, Removed
<1>4. damaged' /\ UNCHANGED <<listener, begun, job, reading, fault>> /\ damaged' \in BOOLEAN
  BY DEF Lose, threadVars
<1>5. UdpTypes'
  BY <1>3, <1>4 DEF DInv, UdpTypes, Datagrams
<1>6. QED
  BY <1>4, <1>5 DEF DInv

LEMMA SendDInv ==
    ASSUME DInv, NEW b \in Broadcasts, SendHeader(b) \/ SendBody(b)
    PROVE  DInv'
<1> DEFINE part == IF SendHeader(b) THEN "header" ELSE "body"
           d == [of |-> b, part |-> part]
<1>1. UNCHANGED <<line, listener, closed, reading, fault>> /\ begun' \in 0..Work
  <2>1. UNCHANGED <<line, listener, closed, reading, fault>> /\ (Begins \/ begun' = begun)
    BY DEF SendHeader, SendBody, lineVars, threadVars
  <2>2. begun' \in 0..Work
    BY <2>1, BeginsTyped DEF DInv, UdpTypes
  <2>3. QED
    BY <2>1, <2>2
<1>2. /\ datagrams \in Seq(Datagrams) /\ d \in Datagrams /\ damaged \in BOOLEAN
      /\ job \in [Broadcasts -> {"none", "header", "done"}]
  BY DEF DInv, UdpTypes, Datagrams
<1>3. Append(datagrams, d) \in Seq(Datagrams) /\ <<>> \in Seq(Datagrams)
  BY <1>2
<1>4. SendHeader(b) => ~SendBody(b)
  BY DEF SendHeader, SendBody
<1>5. /\ datagrams' \in {datagrams, <<>>, Append(datagrams, d)}
      /\ damaged' \in BOOLEAN /\ (damaged => damaged')
      /\ job' \in {[job EXCEPT ![b] = "header"], [job EXCEPT ![b] = "done"]}
  BY <1>2, <1>4 DEF SendHeader, SendBody, Sent, Mixes
<1>6. UdpTypes'
  <2>1. datagrams' \in Seq(Datagrams)
    BY <1>2, <1>3, <1>5
  <2>2. job' \in [Broadcasts -> {"none", "header", "done"}]
    BY <1>2, <1>5
  <2>3. QED
    BY <1>1, <1>5, <2>1, <2>2 DEF DInv, UdpTypes, Datagrams
<1>7. ASSUME line, ~damaged' PROVE Whole'
  <2>1. Whole /\ ~damaged
    BY <1>5, <1>7 DEF DInv
  <2>2. ~closed /\ reading # "pieces" /\ listener
    BY <2>1 DEF Whole
  <2>3. /\ \A i \in 1..Len(datagrams) : Follows(reading, datagrams, i)
        /\ \A c \in Broadcasts : job[c] = "header" <=> Opened(reading, datagrams, Len(datagrams)) = c
    BY <2>1 DEF Whole
  <2>4. Opened(reading, datagrams, Len(datagrams)) \in Broadcasts \cup {"idle"}
    <3>1. reading \in Broadcasts \cup {"idle"}
      BY <2>2 DEF DInv, UdpTypes
    <3>2. Len(datagrams) # 0 => datagrams[Len(datagrams)] \in Datagrams
      BY <1>2
    <3>3. QED
      BY <3>1, <3>2 DEF Opened, Datagrams
  <2>5. "idle" \notin Broadcasts
    BY LibAssumption
  <2>6. CASE SendHeader(b) /\ ~Mixes(b) /\ datagrams' = Append(datagrams, d) /\ job' = [job EXCEPT ![b] = "header"]
    <3>1. job[b] = "none" /\ d.part = "header" /\ d.of = b
      BY <2>6 DEF SendHeader
    <3>2. \A c \in Broadcasts : job[c] # "header"
      BY <2>6, <3>1 DEF Mixes
    <3>3. Opened(reading, datagrams, Len(datagrams)) = "idle"
      BY <2>3, <2>4, <3>2
    <3>4. /\ \A i \in 1..Len(datagrams') : Follows(reading, datagrams', i)
          /\ Opened(reading, datagrams', Len(datagrams')) = b
      BY <1>2, <2>3, <2>6, <3>1, <3>3, OneMore
    <3>5. \A c \in Broadcasts : job'[c] = "header" <=> c = b
      BY <1>2, <2>6, <3>2
    <3>6. QED
      BY <1>1, <2>2, <3>4, <3>5 DEF Whole
  <2>7. CASE SendHeader(b) /\ datagrams' = datagrams /\ job' = [job EXCEPT ![b] = "done"]
    <3>1. job[b] = "none"
      BY <2>7 DEF SendHeader
    <3>2. \A c \in Broadcasts : job'[c] = "header" <=> job[c] = "header"
      BY <1>2, <2>7, <3>1
    <3>3. QED
      BY <1>1, <2>2, <2>3, <2>7, <3>2 DEF Whole, Opened, Follows
  <2>8. CASE SendBody(b) /\ datagrams' = Append(datagrams, d)
    <3>1. job[b] = "header" /\ d.part = "body" /\ d.of = b /\ job' = [job EXCEPT ![b] = "done"]
      BY <1>4, <2>8 DEF SendBody
    <3>2. Opened(reading, datagrams, Len(datagrams)) = b
      BY <2>3, <3>1
    <3>3. /\ \A i \in 1..Len(datagrams') : Follows(reading, datagrams', i)
          /\ Opened(reading, datagrams', Len(datagrams')) = "idle"
      BY <1>2, <2>3, <2>8, <3>1, <3>2, OneMore
    <3>4. \A c \in Broadcasts : job'[c] # "header"
      BY <1>2, <2>3, <3>1, <3>2
    <3>5. QED
      BY <1>1, <2>2, <2>5, <3>3, <3>4 DEF Whole
  <2>9. QED
    BY <1>4, <1>7, <2>2, <2>6, <2>7, <2>8 DEF SendHeader, SendBody, Sent
<1>8. QED
  BY <1>1, <1>6, <1>7 DEF DInv

LEMMA NextDInv ==
    ASSUME DInv, [Next]_vars
    PROVE  DInv'
<1>0. begun \in 0..Work /\ fault \in {"none", "queue"}
  BY DEF DInv, UdpTypes
<1>1. CASE UNCHANGED vars
  BY <1>0, <1>1, DStutter DEF vars, lineVars, threadVars
<1>2. ASSUME NEW c \in Callers,
             \/ getMsgQue(c) \/ block_sendHeader(c) \/ block_sendBody(c)
             \/ receive(c) \/ receiveNothing(c) \/ receiveDeleted(c)
      PROVE  DInv'
  <2>1. /\ UNCHANGED <<listener, closed, udpVars, line>> /\ (Begins \/ begun' = begun)
        /\ fault' \in {"none", "queue"}
    BY <1>0, <1>2 DEF getMsgQue, Request, block_sendHeader, block_sendBody, receive, receiveNothing,
                      receiveDeleted, lineVars, threadVars
  <2>2. begun' \in 0..Work
    BY <1>0, <2>1, BeginsTyped
  <2>3. QED
    BY <2>1, <2>2, DStutter
<1>3. ASSUME NEW b \in Broadcasts, SendHeader(b) \/ SendBody(b) PROVE DInv'
  BY <1>3, SendDInv
<1>4. CASE Answer \/ Notify \/ Break \/ connect \/ doServerMessage
  <2>1. /\ UNCHANGED <<listener, closed, udpVars, fault>> /\ (line' => line)
        /\ Begins \/ begun' = begun
    BY <1>4 DEF Answer, Notify, Break, connect, doServerMessage, lineVars, threadVars
  <2>2. begun' \in 0..Work
    BY <1>0, <2>1, BeginsTyped
  <2>3. QED
    BY <1>0, <2>1, <2>2, DStutter
<1>5. CASE hangup
  <2>1. /\ line' = FALSE /\ datagrams' = <<>>
        /\ UNCHANGED <<begun, listener, job, reading, damaged, fault>>
    BY <1>5 DEF hangup
  <2>2. UdpTypes'
    BY <2>1 DEF DInv, UdpTypes
  <2>3. QED
    BY <2>1, <2>2 DEF DInv
<1>6. CASE doWorkEnds
  <2>1. /\ ~line \/ closed
        /\ listener' = FALSE /\ UNCHANGED <<line, begun, udpVars, fault>>
    BY <1>6 DEF doWorkEnds, Listens, lineVars
  <2>2. UNCHANGED <<job, datagrams, reading, damaged>>
    BY <2>1 DEF udpVars
  <2>3. UdpTypes'
    BY <2>1, <2>2 DEF DInv, UdpTypes
  <2>4. ~(line /\ ~damaged)
    BY <2>1 DEF DInv, Whole
  <2>5. QED
    BY <2>1, <2>2, <2>3, <2>4 DEF DInv
<1>7. CASE doServerDatagram
  BY <1>7, doServerDatagramDInv
<1>8. CASE Lose
  BY <1>8, LoseDInv
<1>9. QED
  BY <1>1, <1>2, <1>3, <1>4, <1>5, <1>6, <1>7, <1>8 DEF Next, Listening

LEMMA InitDInv == Init => DInv
<1> SUFFICES ASSUME Init PROVE DInv
  OBVIOUS
<1>1. UdpTypes
  <2>1. job \in [Broadcasts -> {"none", "header", "done"}]
    BY DEF Init
  <2>2. datagrams \in Seq([of : Broadcasts, part : {"header", "body"}])
    BY DEF Init
  <2>3. QED
    <3>1. 0 \in 0..Work
      BY LibAssumption
    <3>2. /\ listener = TRUE /\ damaged = FALSE /\ begun = 0 /\ reading = "idle"
          /\ fault = "none"
      BY DEF Init
    <3>3. QED
      BY <2>1, <2>2, <3>1, <3>2 DEF UdpTypes
<1>2. Whole
  <2>1. "idle" \notin Broadcasts
    BY LibAssumption
  <2>2. datagrams = <<>> /\ Len(datagrams) = 0 /\ reading = "idle" /\ listener /\ ~closed
        /\ \A b \in Broadcasts : job[b] = "none"
    BY DEF Init
  <2>3. QED
    BY <2>1, <2>2 DEF Whole, Opened
<1>3. QED
  BY <1>1, <1>2 DEF DInv

-----------------------------------------------------------------------------
(* The invariants hold of every reachable state.                           *)
LEMMA Inductive == Spec => [](KnownTypes /\ LInv /\ DInv)
<1>1. Init => KnownTypes /\ LInv /\ DInv
  BY InitLInv, InitDInv
<1>2. KnownTypes /\ LInv /\ DInv /\ [Next]_vars => (KnownTypes /\ LInv /\ DInv)'
  BY NextLInv, NextDInv
<1>3. QED
  BY <1>1, <1>2, PTL DEF Spec

(* However many threads make requests, share their seqs and give up, every *)
(* field of the library keeps its type: no queue is made for what the      *)
(* server sends unasked, and what the server can read has been sent.       *)
THEOREM TypesKept == Spec => []TypeOK
<1>1. KnownTypes /\ DInv => TypeOK
  BY TypesParts DEF DInv
<1>2. QED
  BY <1>1, Inductive, PTL

(* However threads share their seqs, write into each other's requests and  *)
(* give up: the answers with a seq are taken in the order of its requests, *)
(* none left out and none twice, and while the line is up a thread that    *)
(* has the only request under way takes the answer that is as many         *)
(* requests behind as were given up (libccni.cpp: talkToServer, getMsgQue, *)
(* sendRes, doServerMessage, disconnect).                                  *)
THEOREM AnswersLag == Spec => LagsByLate
<1> DEFINE A == \A q \in Seqs :
        took'[q] # took[q] =>
            /\ took'[q] = [of |-> q, nr |-> took[q].nr + 1]
            /\ took'[q].nr <= sent[q] - late[q]
            /\ line /\ Cardinality(Asking(q)) = 1 => took'[q].nr = sent[q] - late[q]
<1>1. ASSUME KnownTypes, LInv, Next PROVE A
  <2> SUFFICES ASSUME NEW q \in Seqs, took'[q] # took[q]
               PROVE  /\ took'[q] = [of |-> q, nr |-> took[q].nr + 1]
                      /\ took'[q].nr <= sent[q] - late[q]
                      /\ line /\ Cardinality(Asking(q)) = 1 => took'[q].nr = sent[q] - late[q]
    OBVIOUS
  <2>1. \E c \in Callers : receive(c)
    BY <1>1 DEF Next, Listening, connect, hangup, doServerMessage, doServerDatagram, doWorkEnds,
                Answer, Notify, Break, Lose, SendHeader, SendBody, getMsgQue, block_sendHeader,
                block_sendBody, receiveNothing, receiveDeleted, callVars
  <2>2. PICK c \in Callers : receive(c)
    BY <2>1
  <2>3. /\ took' = [took EXCEPT ![SeqOf[c]] = Head(evts[SeqOf[c]])]
        /\ stage[c] = "wait" /\ ~closed
    BY <2>2 DEF receive
  <2>4. q = SeqOf[c]
    BY <1>1, <2>3 DEF KnownTypes, CallTypes
  <2>5. Head(evts[q]) = [of |-> q, nr |-> took[q].nr + 1]
    BY <1>1, <2>2, <2>4, receiveTakes
  <2>6. took'[q] = [of |-> q, nr |-> took[q].nr + 1]
    BY <1>1, <2>3, <2>4, <2>5 DEF KnownTypes, CallTypes
  <2>7. took'[q].nr = took[q].nr + 1
    BY <2>6
  <2>8. /\ sent[q] \in Nat /\ late[q] \in Nat /\ took[q].nr \in Nat
        /\ IsFiniteSet(Asking(q)) /\ Cardinality(Asking(q)) \in Nat
    BY <1>1, SeqTypes
  <2>9. Cardinality(Asking(q)) > 0
    <3>1. c \in Asking(q)
      BY <2>3, <2>4 DEF Asking
    <3>2. QED
      BY <2>8, <3>1, FS_EmptySet
  <2>10. /\ took[q].nr + late[q] + Cardinality(Asking(q)) <= sent[q]
         /\ line => took[q].nr + late[q] + Cardinality(Asking(q)) = sent[q]
    BY <1>1, <2>3 DEF LInv, Counted
  <2>11. QED
    BY <2>6, <2>7, <2>8, <2>9, <2>10
<1>2. KnownTypes /\ LInv /\ DInv /\ [Next]_vars => [A]_vars
  BY <1>1
<1>3. QED
  BY <1>2, Inductive, PTL DEF Spec, LagsByLate

(* While the line is up the listening thread ends only when datagrams of   *)
(* different broadcasts mixed, or one of them was lost, overtaken or came  *)
(* twice (libccni.cpp: doServerMessage on the UDP socket; broadcaster.cpp: *)
(* run).                                                                   *)
THEOREM StepKept == Spec => []InStep
<1>1. DInv => InStep
  BY DEF DInv, Whole, InStep
<1>2. QED
  BY <1>1, Inductive, PTL
=============================================================================
