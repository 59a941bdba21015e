------------------------------ MODULE LogProofs ------------------------------
(***************************************************************************)
(* What is proved of Log, for any number of threads, records, runs, sizes  *)
(* and failures.                                                           *)
(*                                                                         *)
(* The argument follows a record.  It is in one place at a time (Once), so *)
(* there is a file number for each record that asks for one (Numbered) and *)
(* the files are no longer than what was written (Long).  A record leaves  *)
(* its place for none only where a file cannot be opened or the log thread *)
(* is cancelled (Lost).  Until exit begins, what is written, in hand and   *)
(* queued follow each other (Placed, Ordered).  The size of a file is a    *)
(* matter of who has found it not full (Sized), whatever the records are.  *)
(***************************************************************************)
EXTENDS Log, SequenceTheorems, FiniteSetTheorems, TLAPS
-----------------------------------------------------------------------------
(* The types, of the parts that do not count files.                        *)
Busy == {"update", "open", "write"}
LogSteps == {"receive", "update", "open", "write", "testcancel", "gone"}
ExitSteps == {"no", "count", "receive", "update", "open", "write", "close", "ended"}

Printing ==
    /\ printed \in [Threads -> 0 .. MaxRecords] /\ queue \in Seq(Record)
    /\ run \in 1 .. MaxRuns
    /\ failures \in [run : 0 .. MaxFailures, all : 0 .. MaxFailures]
    /\ failures.run <= failures.all

Steps ==
    /\ pc \in [Writers -> LogSteps \cup ExitSteps]
    /\ pc["log"] \in LogSteps /\ pc["exit"] \in ExitSteps
    /\ hand \in [Writers -> Record \cup {None}]
    /\ \A w \in Writers : hand[w] # None <=> pc[w] \in Busy
    /\ cancelled \in BOOLEAN /\ late \in BOOLEAN
    /\ cancelled => pc["exit"] # "no"
    /\ ~cancelled => pc["exit"] = "no"
    /\ fault \in {"none", "queue", "file"}

Files ==
    /\ files \in [FileNos -> Seq(Record \cup {Old})]
    /\ logfp \in FileNos \cup {Null, Dangling}
    /\ pos \in Nat /\ fnumber \in Nat

Shape == Printing /\ Steps /\ Files

-----------------------------------------------------------------------------
LEMMA Bounds ==
    /\ FileSize \in Nat /\ FileSize > 0 /\ MaxRuns \in Nat /\ MaxRuns > 0
    /\ MaxRecords \in Nat /\ MaxFailures \in Nat /\ IsFiniteSet(Threads)
    /\ FileNos = 0 .. MaxRecords /\ Null \notin FileNos /\ Dangling \notin FileNos
BY LogAssumption DEF FileNos, Null, Dangling

LEMMA Records ==
    /\ IsFiniteSet(Record) /\ Old \notin Record /\ None \notin Record
    /\ \A r \in Record : r[1] \in Threads /\ r[2] \in 1 .. MaxRecords /\ r = <<r[1], r[2]>>
<1>1. IsFiniteSet(1 .. MaxRecords)
  BY Bounds, FS_Interval
<1>2. IsFiniteSet(Record)
  BY <1>1, Bounds, FS_Product DEF Record
<1>3. \A r \in Record : r # <<>>
  BY DEF Record
<1>4. QED
  BY <1>2, <1>3 DEF Record, Old, None

LEMMA PrintedFinite == IsFiniteSet(Printed) /\ Printed \subseteq Record
<1>1. Printed \subseteq Record
  BY DEF Printed
<1>2. QED
  BY <1>1, Records, FS_Subset

(* The bound leaves room for one more record.                              *)
LEMMA RoomForOne ==
    ASSUME Printing, NEW t \in Threads, Cardinality(Printed) < MaxRecords
    PROVE  printed[t] + 1 \in 1 .. MaxRecords
<1>1. printed[t] \in Nat /\ printed[t] <= MaxRecords
  BY Bounds DEF Printing
<1>2. ASSUME printed[t] = MaxRecords PROVE Cardinality(1 .. MaxRecords) <= Cardinality(Printed)
  <2> DEFINE f == [n \in 1 .. MaxRecords |-> <<t, n>>]
  <2>1. \A n \in 1 .. MaxRecords : <<t, n>> \in Printed
    BY <1>1, <1>2 DEF Printed, Record
  <2>2. f \in [1 .. MaxRecords -> Printed]
    BY <2>1
  <2>3. \A n, m \in 1 .. MaxRecords : f[n] = f[m] => n = m
    OBVIOUS
  <2>4. f \in Injection(1 .. MaxRecords, Printed)
    BY <2>2, <2>3 DEF Injection, IsInjective
  <2>5. QED
    BY <2>4, PrintedFinite, FS_Injection
<1>3. Cardinality(1 .. MaxRecords) = MaxRecords
  <2>1. Cardinality(1 .. MaxRecords) = IF 1 > MaxRecords THEN 0 ELSE MaxRecords - 1 + 1
    BY Bounds, FS_Interval
  <2>2. QED
    BY <2>1, Bounds
<1>4. Cardinality(Printed) \in Nat
  BY PrintedFinite, FS_CardinalityType
<1>5. printed[t] # MaxRecords
  BY <1>2, <1>3, <1>4, Bounds
<1>6. QED
  BY <1>1, <1>5, Bounds

-----------------------------------------------------------------------------
LEMMA PrintingNext ==
    ASSUME Printing, Next
    PROVE  Printing'
<1> USE Bounds
<1>1. ASSUME NEW t \in Threads, print(t) PROVE Printing'
  <2>1. UNCHANGED <<run, failures>>
    BY <1>1 DEF print, Breaks
  <2>2. CASE UNCHANGED <<printed, queue>>
    BY <2>1, <2>2 DEF Printing
  <2>3. CASE ~UNCHANGED <<printed, queue>>
    <3>1. /\ printed' = [printed EXCEPT ![t] = @ + 1]
          /\ queue' = Append(queue, <<t, printed[t] + 1>>)
      BY <1>1, <2>3 DEF print, Breaks
    <3>2. printed[t] + 1 \in 1 .. MaxRecords
      BY <1>1, RoomForOne DEF print
    <3>3. <<t, printed[t] + 1>> \in Record
      BY <3>2 DEF Record
    <3>4. queue' \in Seq(Record)
      BY <3>1, <3>3 DEF Printing
    <3>5. printed' \in [Threads -> 0 .. MaxRecords]
      BY <3>1, <3>2 DEF Printing
    <3>6. QED
      BY <2>1, <3>4, <3>5 DEF Printing
  <2>4. QED
    BY <2>2, <2>3
<1>2. ASSUME NEW w \in Writers, receive(w) PROVE Printing'
  <2>1. UNCHANGED <<printed, run, failures>> /\ (queue' = queue \/ (queue # <<>> /\ queue' = Tail(queue)))
    BY <1>2 DEF receive, Breaks
  <2>2. queue' \in Seq(Record)
    BY <2>1 DEF Printing
  <2>3. QED
    BY <2>1, <2>2 DEF Printing
<1>3. ASSUME NEW w \in Writers, createFails(w) PROVE Printing'
  <2>1. /\ failures.all < MaxFailures /\ UNCHANGED <<printed, queue, run>>
        /\ failures' = [run |-> failures.run + 1, all |-> failures.all + 1]
    BY <1>3 DEF createFails
  <2>2. failures.all \in 0 .. MaxFailures /\ failures.run \in 0 .. MaxFailures /\ failures.run <= failures.all
    BY DEF Printing
  <2>3. failures.all + 1 \in 0 .. MaxFailures /\ failures.run + 1 \in 0 .. MaxFailures
        /\ failures.run + 1 <= failures.all + 1
    BY <2>1, <2>2
  <2>4. QED
    BY <2>1, <2>3 DEF Printing
<1>4. CASE Restart
  <2>1. /\ run < MaxRuns /\ run' = run + 1 /\ printed' = NoRecords /\ queue' = <<>>
        /\ failures' = [failures EXCEPT !.run = 0]
    BY <1>4 DEF Restart
  <2>2. run' \in 1 .. MaxRuns
    BY <2>1 DEF Printing
  <2>3. printed' \in [Threads -> 0 .. MaxRecords]
    BY <2>1 DEF NoRecords
  <2>4. queue' \in Seq(Record)
    BY <2>1
  <2>5. failures' \in [run : 0 .. MaxFailures, all : 0 .. MaxFailures] /\ failures'.run <= failures'.all
    BY <2>1 DEF Printing
  <2>6. QED
    BY <2>2, <2>3, <2>4, <2>5 DEF Printing
<1>5. ASSUME NEW w \in Writers, update(w) \/ createSizeLogFile(w) \/ write(w) PROVE Printing'
  BY <1>5 DEF update, createSizeLogFile, write, Breaks, Printing
<1>6. CASE testcancel \/ Cancelled \/ destroy \/ count \/ close
  BY <1>6 DEF testcancel, Cancelled, destroy, count, close, Breaks, Printing
<1>7. QED
  BY <1>1, <1>2, <1>3, <1>4, <1>5, <1>6 DEF Next, thread_func, Exit, Update, Writers

(* Where the writers are decides what they have in hand.                   *)
LEMMA StepsNext ==
    ASSUME Printing, Steps, Next
    PROVE  Steps'
<1>0. "log" \in Writers /\ "exit" \in Writers /\ "log" # "exit"
      /\ \A w \in Writers : w = "log" \/ w = "exit"
  BY DEF Writers
<1>1. ASSUME NEW w \in Writers, receive(w), ~QueueDeleted PROVE Steps'
  <2>1. /\ pc[w] = "receive" /\ queue # <<>> /\ hand' = [hand EXCEPT ![w] = Head(queue)]
        /\ pc' = [pc EXCEPT ![w] = "update"] /\ UNCHANGED <<cancelled, fault>>
        /\ late' = (late \/ (w = "log" /\ cancelled))
    BY <1>1 DEF receive, Go
  <2>2. Head(queue) \in Record /\ Head(queue) # None
    BY <2>1, Records DEF Printing
  <2>3. late' \in BOOLEAN
    BY <2>1 DEF Steps
  <2>4. QED
    BY <1>0, <2>1, <2>2, <2>3 DEF Steps, Busy, LogSteps, ExitSteps
<1>2. ASSUME NEW w \in Writers, update(w), logfp # Dangling PROVE Steps'
  <2>1. PICK to \in {"open", "write"} : pc' = [pc EXCEPT ![w] = to]
    BY <1>2 DEF update, Go
  <2>2. pc[w] = "update" /\ UNCHANGED <<hand, cancelled, late, fault>>
    BY <1>2 DEF update
  <2>3. QED
    BY <1>0, <2>1, <2>2 DEF Steps, Busy, LogSteps, ExitSteps
<1>3. ASSUME NEW w \in Writers, createSizeLogFile(w) PROVE Steps'
  <2>1. pc[w] = "open" /\ pc' = [pc EXCEPT ![w] = "write"] /\ UNCHANGED <<hand, cancelled, late, fault>>
    BY <1>3 DEF createSizeLogFile, Go
  <2>2. QED
    BY <1>0, <2>1 DEF Steps, Busy, LogSteps, ExitSteps
<1>4. ASSUME NEW w \in Writers, createFails(w) \/ (write(w) /\ logfp \notin {Null, Dangling}) PROVE Steps'
  <2>1. /\ pc[w] \in {"open", "write"} /\ hand' = [hand EXCEPT ![w] = None]
        /\ pc' = [pc EXCEPT ![w] = IF w = "log" THEN "testcancel" ELSE "count"]
        /\ UNCHANGED <<cancelled, late, fault>>
    BY <1>4 DEF createFails, write, Done, Go
  <2>2. QED
    BY <1>0, <2>1 DEF Steps, Busy, LogSteps, ExitSteps
<1>5. CASE testcancel
  <2>1. PICK to \in {"gone", "receive"} : pc' = [pc EXCEPT !["log"] = to]
    BY <1>5 DEF testcancel, Go
  <2>2. pc["log"] = "testcancel" /\ UNCHANGED <<hand, cancelled, late, fault>>
    BY <1>5 DEF testcancel
  <2>3. QED
    BY <1>0, <2>1, <2>2 DEF Steps, Busy, LogSteps, ExitSteps
<1>6. CASE Cancelled
  <2>1. /\ pc' = [pc EXCEPT !["log"] = "gone"] /\ hand' = [hand EXCEPT !["log"] = None]
        /\ UNCHANGED <<cancelled, late, fault>>
    BY <1>6 DEF Cancelled, Go
  <2>2. QED
    BY <1>0, <2>1 DEF Steps, Busy, LogSteps, ExitSteps
<1>7. CASE destroy
  <2>1. /\ pc["exit"] = "no" /\ cancelled' = TRUE /\ pc' = [pc EXCEPT !["exit"] = "count"]
        /\ UNCHANGED <<hand, late, fault>>
    BY <1>7 DEF destroy, Go
  <2>2. QED
    BY <1>0, <2>1 DEF Steps, Busy, LogSteps, ExitSteps
<1>8. CASE count \/ (close /\ logfp # Dangling)
  <2>1. PICK to \in {"receive", "close", "ended"} : pc' = [pc EXCEPT !["exit"] = to]
    BY <1>8 DEF count, close, Go
  <2>2. pc["exit"] \in {"count", "close"} /\ UNCHANGED <<hand, cancelled, late, fault>>
    BY <1>8 DEF count, close
  <2>3. QED
    BY <1>0, <2>1, <2>2 DEF Steps, Busy, LogSteps, ExitSteps
<1>9. CASE Restart
  <2>1. /\ pc' = AtStart /\ hand' = Empty /\ cancelled' = FALSE /\ late' = FALSE /\ fault' = "none"
    BY <1>9 DEF Restart
  <2>2. /\ pc' \in [Writers -> LogSteps \cup ExitSteps]
        /\ pc'["log"] = "receive" /\ pc'["exit"] = "no"
    BY <1>0, <2>1 DEF LogSteps, ExitSteps, AtStart, Writers
  <2>3. hand' = [w \in Writers |-> None]
    BY <2>1 DEF Empty
  <2>4. \A w \in Writers : hand'[w] = None /\ pc'[w] \notin Busy
    BY <1>0, <2>2, <2>3 DEF Busy
  <2>5. pc'["log"] \in LogSteps /\ pc'["exit"] \in ExitSteps
    BY <2>2 DEF LogSteps, ExitSteps
  <2>6. hand' \in [Writers -> Record \cup {None}]
    BY <2>3
  <2>7. (\A w \in Writers : hand[w] # None <=> pc[w] \in Busy)'
    BY <2>4
  <2>8. (cancelled => pc["exit"] # "no")' /\ (~cancelled => pc["exit"] = "no")'
    BY <2>1, <2>2
  <2>9. cancelled' \in BOOLEAN /\ late' \in BOOLEAN /\ fault' \in {"none", "queue", "file"}
    BY <2>1
  <2>10. QED
    BY <2>2, <2>5, <2>6, <2>7, <2>8, <2>9 DEF Steps
<1>10. ASSUME UNCHANGED <<pc, hand, cancelled, late>>, fault' \in {"none", "queue", "file"} PROVE Steps'
  BY <1>10 DEF Steps
<1>11. ASSUME NEW t \in Threads, print(t) PROVE Steps'
  BY <1>10, <1>11 DEF print, Breaks, Steps
<1>12. ASSUME NEW w \in Writers,
              (receive(w) /\ QueueDeleted) \/ (update(w) /\ logfp = Dangling)
                  \/ (write(w) /\ logfp \in {Null, Dangling}) \/ (close /\ logfp = Dangling)
       PROVE  Steps'
  BY <1>10, <1>12 DEF receive, update, write, close, Breaks
<1>13. QED
  BY <1>0, <1>1, <1>2, <1>3, <1>4, <1>5, <1>6, <1>7, <1>8, <1>9, <1>11, <1>12
     DEF Next, thread_func, Exit, Update
-----------------------------------------------------------------------------
(* What becomes of a record: it is printed, taken from the queue, given up *)
(* or written.  No other step moves one.                                   *)
Quiet == UNCHANGED <<printed, queue, hand, files>>

Prints(t) ==
    /\ Cardinality(Printed) < MaxRecords
    /\ printed' = [printed EXCEPT ![t] = @ + 1]
    /\ queue' = Append(queue, <<t, printed[t] + 1>>)
    /\ UNCHANGED <<hand, files>>

Takes(w) ==
    /\ pc[w] = "receive" /\ queue # <<>>
    /\ hand' = [hand EXCEPT ![w] = Head(queue)]
    /\ queue' = Tail(queue)
    /\ UNCHANGED <<printed, files>>

GivesUp(w) ==
    /\ hand' = [hand EXCEPT ![w] = None]
    /\ UNCHANGED <<printed, queue, files>>

Writes(w) ==
    /\ pc[w] = "write" /\ logfp \notin {Null, Dangling}
    /\ files' = [files EXCEPT ![logfp] = Append(@, hand[w])]
    /\ pos' = Len(files[logfp]) + 1
    /\ hand' = [hand EXCEPT ![w] = None]
    /\ UNCHANGED <<printed, queue, logfp, fnumber>>

LEMMA Moves ==
    ASSUME Next
    PROVE  \/ Quiet \/ Restart \/ \E t \in Threads : Prints(t)
           \/ \E w \in Writers : Takes(w) \/ GivesUp(w) \/ Writes(w)
<1>0. "log" \in Writers /\ "exit" \in Writers
  BY DEF Writers
<1>1. ASSUME NEW t \in Threads, print(t) PROVE Quiet \/ Prints(t)
  BY <1>1 DEF print, Breaks, Quiet, Prints, fileVars
<1>2. ASSUME NEW w \in Writers, receive(w) PROVE Quiet \/ Takes(w)
  BY <1>2 DEF receive, Breaks, Quiet, Takes, fileVars
<1>3. ASSUME NEW w \in Writers, update(w) \/ createSizeLogFile(w) PROVE Quiet
  BY <1>3 DEF update, createSizeLogFile, Breaks, Quiet, fileVars
<1>4. ASSUME NEW w \in Writers, createFails(w) PROVE GivesUp(w)
  BY <1>4 DEF createFails, Done, GivesUp
<1>5. ASSUME NEW w \in Writers, write(w) PROVE Quiet \/ Writes(w)
  BY <1>5 DEF write, Done, Breaks, Quiet, Writes, fileVars
<1>6. CASE Cancelled
  BY <1>0, <1>6 DEF Cancelled, GivesUp, fileVars
<1>7. CASE testcancel \/ destroy \/ count \/ close
  BY <1>7 DEF testcancel, destroy, count, close, Quiet, Breaks, fileVars
<1>8. QED
  BY <1>0, <1>1, <1>2, <1>3, <1>4, <1>5, <1>6, <1>7 DEF Next, thread_func, Exit, Update

-----------------------------------------------------------------------------
(* What the steps do to the sets of records.                               *)
LEMMA QueuedPrints ==
    ASSUME Printing, NEW t \in Threads, Prints(t)
    PROVE  LET r == <<t, printed[t] + 1>>
           IN  /\ r \in Record /\ r \notin Printed /\ Printed' = Printed \cup {r}
               /\ Queued' = Queued \cup {r} /\ Len(queue') = Len(queue) + 1
               /\ \A i \in DOMAIN queue : queue'[i] = queue[i]
               /\ queue'[Len(queue) + 1] = r
<1> DEFINE r == <<t, printed[t] + 1>>
<1>1. r \in Record
  BY RoomForOne DEF Prints, Record
<1>2. printed \in [Threads -> 0 .. MaxRecords] /\ printed' = [printed EXCEPT ![t] = @ + 1]
  BY DEF Printing, Prints
<1>3. r \notin Printed
  BY <1>2, Bounds DEF Printed
<1>4. Printed' = Printed \cup {r}
  <2>1. ASSUME NEW s \in Record PROVE s \in Printed' <=> s \in Printed \cup {r}
    <3>1. s = <<s[1], s[2]>> /\ s[1] \in Threads /\ s[2] \in 1 .. MaxRecords
      BY Records
    <3>2. CASE s[1] = t
      <4>1. printed'[s[1]] = printed[t] + 1 /\ printed[t] \in Nat /\ s[2] \in Nat
        BY <1>2, <3>1, <3>2, Bounds
      <4>2. s[2] <= printed[t] + 1 <=> (s[2] <= printed[t] \/ s[2] = printed[t] + 1)
        BY <4>1
      <4>3. s = r <=> s[2] = printed[t] + 1
        BY <3>1, <3>2
      <4>4. QED
        BY <3>2, <4>1, <4>2, <4>3 DEF Printed
    <3>3. CASE s[1] # t
      <4>1. printed'[s[1]] = printed[s[1]] /\ s # r
        BY <1>2, <3>1, <3>3
      <4>2. QED
        BY <4>1 DEF Printed
    <3>4. QED
      BY <3>2, <3>3
  <2>2. Printed' \subseteq Record /\ Printed \subseteq Record
    BY DEF Printed
  <2>3. QED
    BY <1>1, <2>1, <2>2
<1>5. queue \in Seq(Record) /\ queue' = Append(queue, r)
  BY DEF Printing, Prints
<1>6. /\ Len(queue') = Len(queue) + 1 /\ DOMAIN queue' = 1 .. Len(queue) + 1
      /\ \A i \in DOMAIN queue : queue'[i] = queue[i]
      /\ queue'[Len(queue) + 1] = r /\ DOMAIN queue = 1 .. Len(queue) /\ Len(queue) \in Nat
  BY <1>5, <1>1
<1>7. Queued' = Queued \cup {r}
  <2>1. Queued' = {queue'[i] : i \in DOMAIN queue'}
    BY DEF Queued
  <2>2. DOMAIN queue' = DOMAIN queue \cup {Len(queue) + 1}
    BY <1>6
  <2>3. QED
    BY <1>6, <2>1, <2>2 DEF Queued
<1>8. QED
  BY <1>1, <1>3, <1>4, <1>6, <1>7

LEMMA QueuedTakes ==
    ASSUME Printing, queue # <<>>
    PROVE  /\ Head(queue) \in Queued /\ Head(queue) \in Record
           /\ Queued = {Tail(queue)[i] : i \in DOMAIN Tail(queue)} \cup {Head(queue)}
           /\ Tail(queue) \in Seq(Record) /\ Head(queue) = queue[1]
           /\ \A i \in DOMAIN Tail(queue) : i + 1 \in DOMAIN queue /\ i \in Nat /\ i + 1 # 1
                                            /\ Tail(queue)[i] = queue[i + 1]
<1>1. queue \in Seq(Record) /\ Len(queue) \in Nat /\ Len(queue) >= 1 /\ DOMAIN queue = 1 .. Len(queue)
  BY DEF Printing
<1>2. /\ Tail(queue) \in Seq(Record) /\ Head(queue) = queue[1] /\ 1 \in DOMAIN queue
      /\ DOMAIN Tail(queue) = 1 .. Len(queue) - 1
  BY <1>1
<1>3. \A i \in DOMAIN Tail(queue) : i + 1 \in DOMAIN queue /\ i \in Nat /\ i + 1 # 1
                                    /\ Tail(queue)[i] = queue[i + 1]
  BY <1>1, <1>2
<1>4. \A i \in DOMAIN queue : i = 1 \/ (i - 1 \in DOMAIN Tail(queue) /\ i = (i - 1) + 1)
  BY <1>1, <1>2
<1>5. Queued = {Tail(queue)[i] : i \in DOMAIN Tail(queue)} \cup {Head(queue)}
  <2>1. ASSUME NEW i \in DOMAIN queue
        PROVE  queue[i] \in {Tail(queue)[j] : j \in DOMAIN Tail(queue)} \cup {Head(queue)}
    <3>1. CASE i = 1
      BY <3>1, <1>2
    <3>2. CASE i # 1
      <4>1. i - 1 \in DOMAIN Tail(queue) /\ Tail(queue)[i - 1] = queue[i]
        BY <3>2, <1>3, <1>4
      <4>2. QED
        BY <4>1
    <3>3. QED
      BY <3>1, <3>2
  <2>2. QED
    BY <1>2, <1>3, <2>1 DEF Queued
<1>6. Head(queue) \in Queued /\ Head(queue) \in Record
  BY <1>1, <1>2 DEF Queued
<1>7. QED
  BY <1>2, <1>3, <1>5, <1>6

-----------------------------------------------------------------------------
(* Writing adds a place.                                                   *)
LEMMA PlaceIs ==
    ASSUME Files
    PROVE  /\ \A p \in Places : /\ p = <<p[1], p[2]>> /\ p[1] \in FileNos /\ p[2] \in 1 .. Len(files[p[1]])
                                /\ At(p) \in Record
           /\ \A i \in FileNos : \A n \in 1 .. Len(files[i]) :
                  files[i][n] # Old => <<i, n>> \in Places /\ At(<<i, n>>) = files[i][n]
           /\ Written \subseteq Record
<1>1. \A i \in FileNos : files[i] \in Seq(Record \cup {Old}) /\ DOMAIN files[i] = 1 .. Len(files[i])
  BY DEF Files
<1>2. \A i \in FileNos : \A n \in 1 .. Len(files[i]) : files[i][n] \in Record \cup {Old}
  BY <1>1
<1>3. ASSUME NEW p \in Places
      PROVE  /\ p = <<p[1], p[2]>> /\ p[1] \in FileNos /\ p[2] \in 1 .. Len(files[p[1]])
             /\ At(p) \in Record
  <2>1. PICK i \in FileNos : p \in {i} \X DOMAIN files[i]
    BY DEF Places
  <2>2. p = <<p[1], p[2]>> /\ p[1] = i /\ p[2] \in 1 .. Len(files[i])
    BY <1>1, <2>1
  <2>3. At(p) \in Record
    BY <1>2, <2>2 DEF Places, At
  <2>4. QED
    BY <2>2, <2>3
<1>4. ASSUME NEW i \in FileNos, NEW n \in 1 .. Len(files[i]), files[i][n] # Old
      PROVE  <<i, n>> \in Places /\ At(<<i, n>>) = files[i][n]
  BY <1>1, <1>4 DEF Places, At
<1>5. QED
  BY <1>3, <1>4 DEF Written

LEMMA PlacesWrite ==
    ASSUME Steps, Files, NEW w \in Writers, Writes(w)
    PROVE  \E i \in FileNos, n \in Nat :
               /\ logfp = i /\ n = Len(files[i]) + 1 /\ n > 0
               /\ hand[w] \in Record /\ <<i, n>> \notin Places
               /\ Places' = Places \cup {<<i, n>>} /\ At(<<i, n>>)' = hand[w]
               /\ \A p \in Places : At(p)' = At(p)
               /\ Written' = Written \cup {hand[w]}
               /\ files' \in [FileNos -> Seq(Record \cup {Old})]
               /\ Len(files'[i]) = n
               /\ \A j \in FileNos : j # i => files'[j] = files[j]
<1>1. logfp \in FileNos /\ files \in [FileNos -> Seq(Record \cup {Old})]
  BY DEF Writes, Files
<1>2. hand[w] \in Record /\ hand[w] # Old
  <2>1. hand[w] \in Record \cup {None} /\ hand[w] # None
    BY DEF Writes, Steps, Busy
  <2>2. QED
    BY <2>1, Records
<1>3. /\ files' = [files EXCEPT ![logfp] = Append(files[logfp], hand[w])]
      /\ files[logfp] \in Seq(Record \cup {Old}) /\ hand[w] \in Record \cup {Old}
  BY <1>1, <1>2 DEF Writes
<1>4. /\ Append(files[logfp], hand[w]) \in Seq(Record \cup {Old})
      /\ Len(Append(files[logfp], hand[w])) = Len(files[logfp]) + 1
      /\ \A n \in 1 .. Len(files[logfp]) : Append(files[logfp], hand[w])[n] = files[logfp][n]
      /\ Append(files[logfp], hand[w])[Len(files[logfp]) + 1] = hand[w]
      /\ Len(files[logfp]) \in Nat
  BY <1>3
<1>0. PICK f \in FileNos, k \in Nat : logfp = f /\ k = Len(files[f]) + 1 /\ k > 0
  BY <1>1, <1>4
<1> DEFINE new == <<f, k>>
<1>5. /\ files' \in [FileNos -> Seq(Record \cup {Old})] /\ files'[logfp] = Append(files[logfp], hand[w])
      /\ \A i \in FileNos : i # logfp => files'[i] = files[i]
  BY <1>1, <1>3, <1>4
<1>6. /\ Len(files'[logfp]) = Len(files[logfp]) + 1
      /\ \A n \in 1 .. Len(files[logfp]) : files'[logfp][n] = files[logfp][n]
      /\ files'[logfp][Len(files[logfp]) + 1] = hand[w]
  BY <1>4, <1>5
<1>20. files'[f][k] = hand[w]
  BY <1>0, <1>6
<1>7. \A i \in FileNos : DOMAIN files'[i] = 1 .. Len(files'[i]) /\ DOMAIN files[i] = 1 .. Len(files[i])
  BY <1>1, <1>5
<1>8. Places' = {p \in UNION {{i} \X DOMAIN files'[i] : i \in FileNos} : files'[p[1]][p[2]] # Old}
  BY DEF Places, At
<1>9. new \notin Places
  <2>1. \A p \in Places : p[1] = logfp => p[2] \in 1 .. Len(files[logfp])
    BY PlaceIs
  <2>2. Len(files[logfp]) + 1 \notin 1 .. Len(files[logfp])
    BY <1>4
  <2>3. QED
    BY <1>0, <2>1, <2>2
<1>10. \A p \in Places : files'[p[1]][p[2]] = files[p[1]][p[2]]
  BY PlaceIs, <1>5, <1>6
<1>11. Places \cup {new} \subseteq Places'
  <2>1. ASSUME NEW p \in Places PROVE p \in Places'
    <3>1. p = <<p[1], p[2]>> /\ p[1] \in FileNos /\ p[2] \in 1 .. Len(files[p[1]])
      BY PlaceIs
    <3>2. p[2] \in DOMAIN files'[p[1]]
      <4>1. CASE p[1] = logfp
        BY <3>1, <1>4, <1>6, <1>7, <4>1
      <4>2. CASE p[1] # logfp
        BY <3>1, <1>5, <1>7, <4>2
      <4>3. QED
        BY <4>1, <4>2
    <3>3. files[p[1]][p[2]] # Old
      BY DEF Places, At
    <3>4. QED
      BY <1>8, <1>10, <3>1, <3>2, <3>3
  <2>2. Len(files[logfp]) + 1 \in DOMAIN files'[logfp]
    BY <1>1, <1>4, <1>6, <1>7
  <2>3. new \in Places'
    <3>1. new \in {f} \X DOMAIN files'[f]
      BY <1>0, <2>2
    <3>2. new[1] = f /\ new[2] = k /\ files'[f][k] # Old
      BY <1>2, <1>20
    <3>3. QED
      BY <1>0, <1>8, <3>1, <3>2
  <2>4. QED
    BY <2>1, <2>3
<1>12. ASSUME NEW p \in Places' PROVE p \in Places \cup {new}
  <2>1. PICK i \in FileNos : p \in {i} \X DOMAIN files'[i]
    BY <1>8
  <2>2. p = <<i, p[2]>> /\ p[2] \in 1 .. Len(files'[i]) /\ files'[i][p[2]] # Old
    BY <1>7, <1>8, <2>1
  <2>3. CASE i = logfp /\ p[2] = Len(files[logfp]) + 1
    BY <1>0, <2>2, <2>3
  <2>4. CASE ~(i = logfp /\ p[2] = Len(files[logfp]) + 1)
    <3>1. p[2] \in 1 .. Len(files[i]) /\ files[i][p[2]] = files'[i][p[2]]
      <4>1. CASE i = logfp
        BY <1>4, <1>6, <2>2, <2>4, <4>1
      <4>2. CASE i # logfp
        BY <1>5, <2>2, <4>2
      <4>3. QED
        BY <4>1, <4>2
    <3>2. QED
      BY <3>1, <2>2, PlaceIs
  <2>5. QED
    BY <2>3, <2>4
<1>13. Places' = Places \cup {new}
  BY <1>11, <1>12
<1>14. At(new)' = hand[w] /\ \A p \in Places : At(p)' = At(p)
  <2>1. At(new)' = hand[w]
    BY <1>20 DEF At
  <2>2. QED
    BY <2>1, <1>10 DEF At
<1>15. Written' = Written \cup {hand[w]}
  <2>1. Written' = {At(p)' : p \in Places'}
    BY DEF Written
  <2>2. QED
    BY <1>13, <1>14, <2>1 DEF Written
<1>16. Len(files'[f]) = k
  BY <1>0, <1>6
<1>17. \A j \in FileNos : j # f => files'[j] = files[j]
  BY <1>0, <1>5
<1>18. QED
  BY <1>0, <1>2, <1>5, <1>9, <1>13, <1>14, <1>15, <1>16, <1>17
-----------------------------------------------------------------------------
(* A record is in one place.                                               *)
Once ==
    /\ \A i, j \in DOMAIN queue : queue[i] = queue[j] => i = j
    /\ \A w \in Writers : hand[w] \notin Queued
    /\ \A v, w \in Writers : hand[v] = hand[w] /\ hand[v] # None => v = w
    /\ \A p, q \in Places : At(p) = At(q) => p = q
    /\ Pending \cap Written = {}
    /\ Pending \cup Written \subseteq Printed
    /\ Cardinality(Printed) <= MaxRecords

LEMMA PendingIs ==
    ASSUME Printing, Steps
    PROVE  /\ Pending = Queued \cup ({hand[w] : w \in Writers} \ {None})
           /\ Queued \subseteq Record /\ None \notin Queued /\ Pending \subseteq Record
<1>1. {hand["log"], hand["exit"]} = {hand[w] : w \in Writers}
  BY DEF Writers
<1>2. Queued \subseteq Record
  <2>1. queue \in Seq(Record)
    BY DEF Printing
  <2>2. QED
    BY <2>1 DEF Queued
<1>3. \A w \in Writers : hand[w] \in Record \cup {None}
  BY DEF Steps
<1>4. QED
  BY <1>1, <1>2, <1>3, Records DEF Pending

LEMMA OncePrints ==
    ASSUME Printing, Steps, Files, Once, Printing', Steps', NEW t \in Threads, Prints(t)
    PROVE  Once'
<1> DEFINE r == <<t, printed[t] + 1>>
<1>1. PICK s \in Record :
          /\ s = r /\ s \notin Printed /\ Printed' = Printed \cup {s}
          /\ Queued' = Queued \cup {s} /\ Len(queue') = Len(queue) + 1
          /\ \A i \in DOMAIN queue : queue'[i] = queue[i]
          /\ queue'[Len(queue) + 1] = s
  BY QueuedPrints
<1>2. UNCHANGED <<hand, files>> /\ Cardinality(Printed) < MaxRecords
  BY DEF Prints
<1>3. Places' = Places /\ Written' = Written /\ \A p : At(p)' = At(p)
  BY <1>2 DEF Places, Written, At
<1>4. s \notin Queued /\ s \notin Written /\ s \notin Pending /\ \A w \in Writers : hand[w] # s
  BY <1>1, PendingIs, Records DEF Once
<1>5. (\A i, j \in DOMAIN queue : queue[i] = queue[j] => i = j)'
  <2>1. /\ DOMAIN queue = 1 .. Len(queue) /\ DOMAIN queue' = 1 .. Len(queue') /\ Len(queue) \in Nat
    BY DEF Printing
  <2>2. \A i \in DOMAIN queue' : i \in DOMAIN queue \/ i = Len(queue) + 1
    BY <2>1, <1>1
  <2>3. \A i \in DOMAIN queue : queue'[i] = queue[i] /\ queue[i] # s
    BY <1>1, <1>4 DEF Queued
  <2>4. QED
    BY <1>1, <2>2, <2>3 DEF Once
<1>6. (\A w \in Writers : hand[w] \notin Queued)'
  BY <1>1, <1>2, <1>4 DEF Once
<1>7. Pending' = Pending \cup {s}
  BY <1>1, <1>2, Records DEF Pending
<1>8. Cardinality(Printed') <= MaxRecords
  <2>1. Cardinality(Printed \cup {s}) = Cardinality(Printed) + 1
    BY <1>1, PrintedFinite, FS_AddElement
  <2>2. Cardinality(Printed) \in Nat
    BY PrintedFinite, FS_CardinalityType
  <2>3. QED
    BY <2>1, <2>2, <1>1, <1>2, Bounds
<1>9. (Pending \cap Written = {})' /\ (Pending \cup Written \subseteq Printed)'
  BY <1>1, <1>3, <1>4, <1>7 DEF Once
<1>10. (\A v, w \in Writers : hand[v] = hand[w] /\ hand[v] # None => v = w)'
  BY <1>2 DEF Once
<1>11. (\A p, q \in Places : At(p) = At(q) => p = q)'
  BY <1>3 DEF Once
<1>12. QED
  BY <1>5, <1>6, <1>8, <1>9, <1>10, <1>11 DEF Once

LEMMA OnceTakes ==
    ASSUME Printing, Steps, Files, Once, Printing', Steps', NEW v \in Writers, Takes(v)
    PROVE  Once' /\ Pending' = Pending
<1> DEFINE h == Head(queue)
<1>1. /\ pc[v] = "receive" /\ queue # <<>> /\ hand' = [hand EXCEPT ![v] = h] /\ queue' = Tail(queue)
      /\ UNCHANGED <<printed, files>>
  BY DEF Takes
<1>2. /\ h \in Queued /\ h \in Record
      /\ Queued = {Tail(queue)[i] : i \in DOMAIN Tail(queue)} \cup {h} /\ h = queue[1]
      /\ \A i \in DOMAIN Tail(queue) : i + 1 \in DOMAIN queue /\ i \in Nat /\ i + 1 # 1
                                       /\ Tail(queue)[i] = queue[i + 1]
  BY <1>1, QueuedTakes
<1>3. Places' = Places /\ Written' = Written /\ (\A p : At(p)' = At(p)) /\ Printed' = Printed
  BY <1>1 DEF Places, Written, At, Printed
<1>4. Queued' = {Tail(queue)[i] : i \in DOMAIN Tail(queue)} /\ Queued = Queued' \cup {h}
  BY <1>1, <1>2 DEF Queued
<1>5. hand[v] = None /\ hand \in [Writers -> Record \cup {None}]
  BY <1>1 DEF Steps, Busy
<1>6. hand'[v] = h /\ \A w \in Writers : w # v => hand'[w] = hand[w]
  BY <1>1, <1>5
<1>7. 1 \in DOMAIN queue
  <2>1. queue \in Seq(Record)
    BY DEF Printing
  <2>2. QED
    BY <1>1, <2>1
<1>8. h \notin Queued'
  <2>1. \A i \in DOMAIN Tail(queue) : Tail(queue)[i] # h
    BY <1>2, <1>7 DEF Once
  <2>2. QED
    BY <2>1, <1>4
<1>9. \A w \in Writers : hand[w] # h
  BY <1>2 DEF Once
<1>10. (\A i, j \in DOMAIN queue : queue[i] = queue[j] => i = j)'
  <2>1. ASSUME NEW i \in DOMAIN Tail(queue), NEW j \in DOMAIN Tail(queue), Tail(queue)[i] = Tail(queue)[j]
        PROVE  i = j
    <3>1. queue[i + 1] = queue[j + 1] /\ i + 1 \in DOMAIN queue /\ j + 1 \in DOMAIN queue
          /\ i \in Nat /\ j \in Nat
      BY <1>2, <2>1
    <3>2. i + 1 = j + 1
      BY <3>1 DEF Once
    <3>3. QED
      BY <3>1, <3>2
  <2>2. QED
    BY <1>1, <2>1
<1>11. (\A w \in Writers : hand[w] \notin Queued)'
  BY <1>4, <1>6, <1>8 DEF Once
<1>12. (\A u, w \in Writers : hand[u] = hand[w] /\ hand[u] # None => u = w)'
  BY <1>6, <1>9 DEF Once
<1>13. Pending' = Pending
  <2>1. Pending' = Queued' \cup ({hand'[w] : w \in Writers} \ {None})
    BY DEF Pending, Writers
  <2>2. {hand'[w] : w \in Writers} \ {None} = ({hand[w] : w \in Writers} \ {None}) \cup {h}
    BY <1>2, <1>5, <1>6, Records
  <2>3. QED
    BY <1>4, <2>1, <2>2, PendingIs
<1>14. QED
  BY <1>3, <1>10, <1>11, <1>12, <1>13 DEF Once

LEMMA OnceGivesUp ==
    ASSUME Printing, Steps, Files, Once, Printing', Steps', NEW v \in Writers, GivesUp(v)
    PROVE  Once' /\ Pending' = Pending \ {hand[v]}
<1>1. hand' = [hand EXCEPT ![v] = None] /\ UNCHANGED <<printed, queue, files>>
  BY DEF GivesUp
<1>2. hand \in [Writers -> Record \cup {None}]
  BY DEF Steps
<1>3. hand'[v] = None /\ \A w \in Writers : w # v => hand'[w] = hand[w]
  BY <1>1, <1>2
<1>4. /\ Places' = Places /\ Written' = Written /\ (\A p : At(p)' = At(p)) /\ Printed' = Printed
      /\ Queued' = Queued
  BY <1>1 DEF Places, Written, At, Printed, Queued
<1>5. Pending' = Pending \ {hand[v]}
  <2>1. Pending' = Queued' \cup ({hand'[w] : w \in Writers} \ {None})
    BY DEF Pending, Writers
  <2>2. {hand'[w] : w \in Writers} \ {None} = ({hand[w] : w \in Writers} \ {None}) \ {hand[v]}
    <3>1. ASSUME NEW w \in Writers, hand'[w] # None PROVE hand'[w] = hand[w] /\ hand[w] # hand[v]
      BY <1>3, <3>1 DEF Once
    <3>2. ASSUME NEW w \in Writers, hand[w] # None, hand[w] # hand[v] PROVE hand'[w] = hand[w]
      BY <1>3, <3>2
    <3>3. QED
      BY <3>1, <3>2
  <2>3. hand[v] \notin Queued
    BY DEF Once
  <2>4. QED
    BY <1>4, <2>1, <2>2, <2>3, PendingIs
<1>6. (\A w \in Writers : hand[w] \notin Queued)'
  BY <1>3, <1>4, PendingIs DEF Once
<1>7. (\A u, w \in Writers : hand[u] = hand[w] /\ hand[u] # None => u = w)'
  BY <1>3 DEF Once
<1>8. QED
  BY <1>1, <1>4, <1>5, <1>6, <1>7 DEF Once

LEMMA OnceWrites ==
    ASSUME Printing, Steps, Files, Once, Printing', Steps', NEW v \in Writers, Writes(v)
    PROVE  Once' /\ Pending' = Pending \ {hand[v]}
<1>1. hand' = [hand EXCEPT ![v] = None] /\ UNCHANGED <<printed, queue>>
  BY DEF Writes
<1>2. hand \in [Writers -> Record \cup {None}]
  BY DEF Steps
<1>3. hand'[v] = None /\ \A w \in Writers : w # v => hand'[w] = hand[w]
  BY <1>1, <1>2
<1>4. Printed' = Printed /\ Queued' = Queued
  BY <1>1 DEF Printed, Queued
<1>5. PICK i \in FileNos, n \in Nat :
               /\ hand[v] \in Record /\ <<i, n>> \notin Places
               /\ Places' = Places \cup {<<i, n>>} /\ At(<<i, n>>)' = hand[v]
               /\ \A p \in Places : At(p)' = At(p)
               /\ Written' = Written \cup {hand[v]}
  BY PlacesWrite
<1>6. Pending' = Pending \ {hand[v]}
  <2>1. Pending' = Queued' \cup ({hand'[w] : w \in Writers} \ {None})
    BY DEF Pending, Writers
  <2>2. {hand'[w] : w \in Writers} \ {None} = ({hand[w] : w \in Writers} \ {None}) \ {hand[v]}
    <3>1. ASSUME NEW w \in Writers, hand'[w] # None PROVE hand'[w] = hand[w] /\ hand[w] # hand[v]
      BY <1>3, <3>1 DEF Once
    <3>2. ASSUME NEW w \in Writers, hand[w] # None, hand[w] # hand[v] PROVE hand'[w] = hand[w]
      BY <1>3, <3>2
    <3>3. QED
      BY <3>1, <3>2
  <2>3. hand[v] \notin Queued
    BY DEF Once
  <2>4. QED
    BY <1>4, <2>1, <2>2, <2>3, PendingIs
<1>7. hand[v] \in Pending
  BY <1>5, PendingIs, Records
<1>8. (\A p, q \in Places : At(p) = At(q) => p = q)'
  <2>1. \A p \in Places : At(p) # hand[v]
    BY <1>7 DEF Once, Written
  <2>2. QED
    BY <1>5, <2>1 DEF Once
<1>9. (\A w \in Writers : hand[w] \notin Queued)'
  BY <1>3, <1>4, PendingIs DEF Once
<1>10. (\A u, w \in Writers : hand[u] = hand[w] /\ hand[u] # None => u = w)'
  BY <1>3 DEF Once
<1>11. (Pending \cap Written = {})' /\ (Pending \cup Written \subseteq Printed)'
  BY <1>4, <1>5, <1>6, <1>7 DEF Once
<1>12. QED
  BY <1>1, <1>4, <1>6, <1>8, <1>9, <1>10, <1>11 DEF Once

\* Before anything is printed there is nothing to look for.
Nothing ==
    /\ printed = NoRecords /\ queue = <<>> /\ hand = Empty
    /\ Places = {}

LEMMA NothingYet ==
    Nothing => /\ Printed = {} /\ Cardinality(Printed) = 0 /\ Queued = {} /\ Pending = {} /\ Written = {}
               /\ Cardinality(Written) = 0 /\ Once
<1> SUFFICES ASSUME Nothing
             PROVE  /\ Printed = {} /\ Cardinality(Printed) = 0 /\ Queued = {} /\ Pending = {} /\ Written = {}
                    /\ Cardinality(Written) = 0 /\ Once
  OBVIOUS
<1>1. Printed = {}
  BY Records DEF Nothing, Printed, NoRecords
<1>2. Queued = {} /\ Written = {} /\ DOMAIN queue = {}
  BY DEF Nothing, Queued, Written
<1>3. \A w \in Writers : hand[w] = None
  BY DEF Nothing, Empty
<1>4. Pending = {}
  BY <1>2, <1>3 DEF Pending, Writers
<1>5. Cardinality(Printed) = 0 /\ Cardinality(Written) = 0
  BY <1>1, <1>2, FS_EmptySet
<1>6. QED
  BY <1>1, <1>2, <1>3, <1>4, <1>5, Bounds DEF Once, Nothing

LEMMA NothingAtStart == Init => Nothing
<1>1. ASSUME Init PROVE Places = {}
  <2>1. \A i \in FileNos : DOMAIN files[i] = {}
    BY <1>1 DEF Init
  <2>2. QED
    BY <2>1 DEF Places
<1>2. QED
  BY <1>1 DEF Init, Nothing

LEMMA NothingAfterRestart ==
    ASSUME Files, Restart
    PROVE  /\ Nothing' /\ files' \in [FileNos -> Seq(Record \cup {Old})]
           /\ \A i \in FileNos : Len(files'[i]) = Len(files[i])
<1>1. files' = [i \in FileNos |-> [n \in 1 .. Len(files[i]) |-> Old]]
  BY DEF Restart
<1>2. \A i \in FileNos : Len(files[i]) \in Nat
  BY DEF Files
<1>3. \A i \in FileNos : files'[i] = [n \in 1 .. Len(files[i]) |-> Old]
  BY <1>1
<1>4. ASSUME NEW i \in FileNos
      PROVE  files'[i] \in Seq(Record \cup {Old}) /\ Len(files'[i]) = Len(files[i])
  <2> DEFINE s == [n \in 1 .. Len(files[i]) |-> Old]
  <2>1. Len(files[i]) \in Nat /\ files'[i] = s
    BY <1>2, <1>3
  <2>2. s \in Seq(Record \cup {Old}) /\ Len(s) = Len(files[i])
    BY <2>1
  <2>3. QED
    BY <2>1, <2>2
<1>5. Places' = {}
  <2>1. Places' = {p \in UNION {{i} \X DOMAIN files'[i] : i \in FileNos} : files'[p[1]][p[2]] # Old}
    BY DEF Places, At
  <2>2. ASSUME NEW p \in Places' PROVE FALSE
    <3>1. PICK i \in FileNos : p \in {i} \X DOMAIN files'[i]
      BY <2>1
    <3>2. p[1] = i /\ p[2] \in DOMAIN files'[i] /\ files'[p[1]][p[2]] # Old
      BY <2>1, <3>1
    <3>3. QED
      BY <3>2, <1>3
  <2>3. QED
    BY <2>2
<1>6. files' \in [FileNos -> Seq(Record \cup {Old})]
  BY <1>1, <1>4
<1>7. QED
  BY <1>4, <1>5, <1>6 DEF Restart, Nothing

LEMMA OnceNext ==
    ASSUME Printing, Steps, Files, Once, Next
    PROVE  Once'
<1>0. Printing' /\ Steps'
  BY PrintingNext, StepsNext
<1>1. CASE Quiet
  <2>1. /\ Places' = Places /\ Written' = Written /\ (\A p : At(p)' = At(p)) /\ Printed' = Printed
        /\ Queued' = Queued /\ Pending' = Pending
    BY <1>1 DEF Places, Written, At, Printed, Queued, Pending, Quiet
  <2>2. QED
    BY <1>1, <2>1 DEF Once, Quiet
<1>2. CASE Restart
  <2>1. Nothing'
    BY <1>2, NothingAfterRestart
  <2>2. QED
    BY <2>1, NothingYet, PTL
<1>3. QED
  BY <1>0, <1>1, <1>2, Moves, OncePrints, OnceTakes, OnceGivesUp, OnceWrites
-----------------------------------------------------------------------------
(* There is a file for each record.  Those waiting have none yet.          *)
Waiting == Queued \cup {hand[w] : w \in {v \in Writers : pc[v] \in {"update", "open"}}}

Numbered == fnumber <= Cardinality(Printed \ Waiting)

LEMMA Smaller ==
    ASSUME NEW T, IsFiniteSet(T), NEW S \in SUBSET T
    PROVE  Cardinality(S) <= Cardinality(T) /\ Cardinality(S) \in Nat /\ Cardinality(T) \in Nat
BY FS_Subset, FS_CardinalityType

LEMMA RoomForFile ==
    ASSUME Printing, Steps, Files, Once, Numbered, NEW w \in Writers, pc[w] = "open"
    PROVE  fnumber < MaxRecords
<1>1. hand[w] \in Printed /\ hand[w] \in Waiting
  <2>1. hand[w] # None
    BY DEF Steps, Busy
  <2>2. QED
    BY <2>1, PendingIs DEF Once, Waiting
<1>2. Printed \ Waiting \in SUBSET (Printed \ {hand[w]})
  BY <1>1
<1>3. Cardinality(Printed \ {hand[w]}) = Cardinality(Printed) - 1 /\ IsFiniteSet(Printed \ {hand[w]})
  BY <1>1, PrintedFinite, FS_RemoveElement
<1>4. Cardinality(Printed \ Waiting) <= Cardinality(Printed \ {hand[w]}) /\ Cardinality(Printed \ Waiting) \in Nat
  BY <1>2, <1>3, Smaller
<1>5. Cardinality(Printed) <= MaxRecords /\ Cardinality(Printed) \in Nat
  BY PrintedFinite, FS_CardinalityType DEF Once
<1>6. fnumber \in Nat /\ fnumber <= Cardinality(Printed \ Waiting)
  BY DEF Files, Numbered
<1>7. QED
  BY <1>3, <1>4, <1>5, <1>6, Bounds

LEMMA FilesNext ==
    ASSUME Printing, Steps, Files, Once, Numbered, Next
    PROVE  Files'
<1>0. "log" \in Writers /\ "exit" \in Writers
  BY DEF Writers
<1>1. ASSUME NEW w \in Writers, createSizeLogFile(w) PROVE Files'
  <2>1. pc[w] = "open" /\ logfp' = fnumber /\ pos' = 0 /\ fnumber' = fnumber + 1 /\ files' = files
    BY <1>1 DEF createSizeLogFile
  <2>2. fnumber \in Nat /\ fnumber < MaxRecords
    BY <2>1, RoomForFile DEF Files
  <2>3. fnumber \in FileNos /\ fnumber + 1 \in Nat
    BY <2>2, Bounds
  <2>4. QED
    BY <2>1, <2>3 DEF Files
<1>2. ASSUME NEW w \in Writers, write(w), logfp \notin {Null, Dangling} PROVE Files'
  <2>1. Writes(w) /\ UNCHANGED <<logfp, fnumber>> /\ pos' = Len(files[logfp]) + 1
    BY <1>2 DEF write, Done, Writes
  <2>2. files' \in [FileNos -> Seq(Record \cup {Old})]
    BY <2>1, PlacesWrite
  <2>3. logfp \in FileNos
    BY <1>2 DEF Files
  <2>4. Len(files[logfp]) + 1 \in Nat
    BY <2>3 DEF Files
  <2>5. QED
    BY <2>1, <2>2, <2>4 DEF Files
<1>3. ASSUME NEW w \in Writers, createFails(w) \/ update(w) PROVE Files'
  <2>1. UNCHANGED <<pos, fnumber, files>> /\ logfp' \in {logfp, Null, Dangling}
    BY <1>3 DEF createFails, update, Breaks, fileVars
  <2>2. QED
    BY <2>1 DEF Files
<1>4. CASE close
  <2>1. UNCHANGED <<pos, fnumber, files>> /\ logfp' \in {logfp, Null}
    BY <1>4 DEF close, Breaks, fileVars
  <2>2. QED
    BY <2>1 DEF Files
<1>5. CASE Restart
  <2>1. logfp' = Null /\ pos' = 0 /\ fnumber' = 0
    BY <1>5 DEF Restart
  <2>2. files' \in [FileNos -> Seq(Record \cup {Old})]
    BY <1>5, NothingAfterRestart
  <2>3. QED
    BY <2>1, <2>2 DEF Files
<1>6. CASE UNCHANGED fileVars
  BY <1>6 DEF Files, fileVars
<1>7. ASSUME NEW w \in Writers, receive(w) \/ (write(w) /\ logfp \in {Null, Dangling})
      PROVE  UNCHANGED fileVars
  BY <1>7 DEF receive, write, Breaks
<1>8. ASSUME testcancel \/ Cancelled \/ destroy \/ count \/ \E t \in Threads : print(t)
      PROVE  UNCHANGED fileVars
  BY <1>8 DEF testcancel, Cancelled, destroy, count, print, Breaks
<1>9. QED
  BY <1>0, <1>1, <1>2, <1>3, <1>4, <1>5, <1>6, <1>7, <1>8 DEF Next, thread_func, Exit, Update

LEMMA NumberedNext ==
    ASSUME Printing, Steps, Files, Once, Numbered, Next
    PROVE  Numbered'
<1>0. "log" \in Writers /\ "exit" \in Writers
  BY DEF Writers
<1>a. Printing' /\ Steps'
  BY PrintingNext, StepsNext
<1>b. hand \in [Writers -> Record \cup {None}] /\ pc \in [Writers -> LogSteps \cup ExitSteps]
  BY DEF Steps
<1>c. fnumber \in Nat /\ Cardinality(Printed \ Waiting) \in Nat
  BY PrintedFinite, FS_Subset, FS_CardinalityType DEF Files
<1>1. ASSUME NEW t \in Threads, print(t) PROVE Printed \ Waiting \subseteq Printed' \ Waiting'
  <2>1. UNCHANGED <<pc, hand>>
    BY <1>1 DEF print, Breaks
  <2>2. CASE UNCHANGED <<printed, queue>>
    BY <2>1, <2>2 DEF Printed, Waiting, Queued
  <2>3. CASE ~UNCHANGED <<printed, queue>>
    <3>1. Prints(t)
      BY <1>1, <2>3 DEF print, Breaks, Prints, fileVars
    <3>2. PICK s \in Record : s \notin Printed /\ Printed' = Printed \cup {s} /\ Queued' = Queued \cup {s}
      BY <3>1, QueuedPrints
    <3>3. Waiting' = Waiting \cup {s}
      BY <3>2, <2>1 DEF Waiting
    <3>4. QED
      BY <3>2, <3>3
  <2>4. QED
    BY <2>2, <2>3
<1>2. ASSUME NEW w \in Writers, receive(w) PROVE Printed \ Waiting \subseteq Printed' \ Waiting'
  <2>1. CASE QueueDeleted
    BY <1>2, <2>1 DEF receive, Breaks, Printed, Waiting, Queued
  <2>2. CASE ~QueueDeleted
    <3>1. /\ pc[w] = "receive" /\ queue # <<>> /\ hand' = [hand EXCEPT ![w] = Head(queue)]
          /\ queue' = Tail(queue) /\ pc' = [pc EXCEPT ![w] = "update"] /\ printed' = printed
      BY <1>2, <2>2 DEF receive, Go
    <3>2. Queued = {Tail(queue)[i] : i \in DOMAIN Tail(queue)} \cup {Head(queue)}
      BY <3>1, QueuedTakes
    <3>3. Queued = Queued' \cup {Head(queue)}
      BY <3>1, <3>2 DEF Queued
    <3>4. ASSUME NEW v \in Writers, pc'[v] \in {"update", "open"}
          PROVE  hand'[v] = Head(queue) \/ (pc[v] \in {"update", "open"} /\ hand'[v] = hand[v])
      BY <1>b, <3>1, <3>4
    <3>5. Waiting' \subseteq Waiting
      BY <3>3, <3>4 DEF Waiting
    <3>6. QED
      BY <3>1, <3>5 DEF Printed
  <2>3. QED
    BY <2>1, <2>2
<1>3. ASSUME NEW w \in Writers, update(w) PROVE Printed \ Waiting \subseteq Printed' \ Waiting'
  <2>1. pc[w] = "update" /\ UNCHANGED <<printed, queue, hand>>
        /\ \E to \in {"update", "open", "write"} : pc' = [pc EXCEPT ![w] = to]
    BY <1>3, <1>b DEF update, Breaks, Go, fileVars
  <2>2. \A v \in Writers : pc'[v] \in {"update", "open"} => pc[v] \in {"update", "open"}
    BY <1>b, <2>1
  <2>3. Printed' = Printed /\ Queued' = Queued
    BY <2>1 DEF Printed, Queued
  <2>4. QED
    BY <2>1, <2>2, <2>3 DEF Waiting
<1>4. ASSUME NEW w \in Writers, createFails(w) \/ write(w) PROVE Printed \ Waiting \subseteq Printed' \ Waiting'
  <2>1. UNCHANGED <<printed, queue>>
        /\ \/ UNCHANGED <<pc, hand>>
           \/ /\ hand' = [hand EXCEPT ![w] = None]
              /\ \E to \in {"testcancel", "count"} : pc' = [pc EXCEPT ![w] = to]
    BY <1>4 DEF createFails, write, Done, Breaks, Go, fileVars
  <2>2. \A v \in Writers : pc'[v] \in {"update", "open"} => pc[v] \in {"update", "open"} /\ hand'[v] = hand[v]
    BY <1>b, <2>1
  <2>3. Printed' = Printed /\ Queued' = Queued
    BY <2>1 DEF Printed, Queued
  <2>4. QED
    BY <2>1, <2>2, <2>3 DEF Waiting
<1>5. ASSUME Cancelled PROVE Printed \ Waiting \subseteq Printed' \ Waiting'
  <2>1. UNCHANGED <<printed, queue>>
        /\ hand' = [hand EXCEPT !["log"] = None] /\ pc' = [pc EXCEPT !["log"] = "gone"]
    BY <1>5 DEF Cancelled, Go
  <2>2. \A v \in Writers : pc'[v] \in {"update", "open"} => pc[v] \in {"update", "open"} /\ hand'[v] = hand[v]
    BY <1>b, <2>1
  <2>3. Printed' = Printed /\ Queued' = Queued
    BY <2>1 DEF Printed, Queued
  <2>4. QED
    BY <2>1, <2>2, <2>3 DEF Waiting
<1>6. ASSUME testcancel \/ destroy \/ count \/ close PROVE Printed \ Waiting \subseteq Printed' \ Waiting'
  <2>1. UNCHANGED <<printed, queue, hand>>
        /\ \/ UNCHANGED pc
           \/ \E w \in Writers, to \in {"gone", "receive", "count", "close", "ended"} : pc' = [pc EXCEPT ![w] = to]
    <3>1. CASE testcancel
      BY <1>0, <3>1 DEF testcancel, Go
    <3>2. CASE destroy
      BY <1>0, <3>2 DEF destroy, Go
    <3>3. CASE count
      BY <1>0, <3>3 DEF count, Go
    <3>4. CASE close
      BY <1>0, <3>4 DEF close, Go, Breaks
    <3>5. QED
      BY <1>6, <3>1, <3>2, <3>3, <3>4
  <2>2. \A v \in Writers : pc'[v] \in {"update", "open"} => pc[v] \in {"update", "open"}
    BY <1>b, <2>1
  <2>3. Printed' = Printed /\ Queued' = Queued
    BY <2>1 DEF Printed, Queued
  <2>4. QED
    BY <2>1, <2>2, <2>3 DEF Waiting
<1>7. ASSUME Printed \ Waiting \subseteq Printed' \ Waiting', fnumber' = fnumber PROVE Numbered'
  <2>1. IsFiniteSet(Printed' \ Waiting')
    <3>1. Printed' \subseteq Record
      BY DEF Printed
    <3>2. QED
      BY <3>1, Records, FS_Subset
  <2>2. Cardinality(Printed \ Waiting) <= Cardinality(Printed' \ Waiting') /\ Cardinality(Printed' \ Waiting') \in Nat
    BY <1>7, <2>1, Smaller
  <2>3. QED
    BY <1>c, <1>7, <2>2 DEF Numbered
<1>8. ASSUME NEW w \in Writers, createSizeLogFile(w) PROVE Numbered'
  <2>1. /\ pc[w] = "open" /\ fnumber' = fnumber + 1 /\ pc' = [pc EXCEPT ![w] = "write"]
        /\ UNCHANGED <<printed, queue, hand>>
    BY <1>8 DEF createSizeLogFile, Go
  <2>2. hand[w] # None
    BY <2>1 DEF Steps, Busy
  <2>3. hand[w] \in Printed /\ hand[w] \in Waiting /\ hand[w] \notin Queued
    BY <2>1, <2>2, PendingIs DEF Once, Waiting
  <2>4. Printed' = Printed /\ Queued' = Queued
    BY <2>1 DEF Printed, Queued
  <2>5. \A v \in Writers : pc'[v] \in {"update", "open"} => pc[v] \in {"update", "open"} /\ v # w
    BY <1>b, <2>1
  <2>6. \A v \in Writers : v # w => hand[v] # hand[w]
    BY <2>2 DEF Once
  <2>7. Waiting' \subseteq Waiting \ {hand[w]}
    BY <2>1, <2>3, <2>4, <2>5, <2>6 DEF Waiting
  <2>8. (Printed \ Waiting) \cup {hand[w]} \in SUBSET (Printed' \ Waiting')
    BY <2>3, <2>4, <2>7
  <2>9. IsFiniteSet(Printed \ Waiting) /\ IsFiniteSet(Printed' \ Waiting')
    BY <2>4, PrintedFinite, FS_Subset
  <2>10. Cardinality((Printed \ Waiting) \cup {hand[w]}) = Cardinality(Printed \ Waiting) + 1
    BY <2>3, <2>9, FS_AddElement
  <2>11. /\ Cardinality((Printed \ Waiting) \cup {hand[w]}) <= Cardinality(Printed' \ Waiting')
         /\ Cardinality(Printed' \ Waiting') \in Nat
    BY <2>8, <2>9, Smaller
  <2>12. QED
    BY <1>c, <2>1, <2>10, <2>11 DEF Numbered
<1>9. CASE Restart
  <2>1. fnumber' = 0
    BY <1>9 DEF Restart
  <2>2. Nothing'
    BY <1>9, NothingAfterRestart
  <2>3. (Printed = {})'
    BY <2>2, NothingYet, PTL
  <2>4. Cardinality(Printed' \ Waiting') = 0
    BY <2>3, FS_EmptySet
  <2>5. QED
    BY <2>1, <2>4 DEF Numbered
<1>10. ASSUME NEW w \in Writers, receive(w) \/ update(w) \/ createFails(w) \/ write(w) PROVE fnumber' = fnumber
  BY <1>10 DEF receive, update, createFails, write, Breaks, fileVars
<1>11. ASSUME testcancel \/ Cancelled \/ destroy \/ count \/ close \/ \E t \in Threads : print(t)
       PROVE  fnumber' = fnumber
  BY <1>11 DEF testcancel, Cancelled, destroy, count, close, print, Breaks, fileVars
<1>12. QED
  BY <1>0, <1>1, <1>2, <1>3, <1>4, <1>5, <1>6, <1>7, <1>8, <1>9, <1>10, <1>11
     DEF Next, thread_func, Exit, Update
-----------------------------------------------------------------------------
(* The files are no longer than what has been written.                     *)
Long ==
    /\ \A i \in FileNos : Len(files[i]) <= (run - 1) * MaxRecords + Cardinality(Written)
    /\ pos <= run * MaxRecords

LEMMA WrittenCount ==
    ASSUME Once
    PROVE  IsFiniteSet(Written) /\ Cardinality(Written) \in Nat /\ Cardinality(Written) <= MaxRecords
<1>1. Written \in SUBSET Printed /\ Cardinality(Printed) <= MaxRecords
  BY DEF Once
<1>2. QED
  BY <1>1, PrintedFinite, FS_Subset, Smaller, Bounds

LEMMA LongWrites ==
    ASSUME Printing, Steps, Files, Once, Long, Printing', Steps', Once',
           NEW w \in Writers, Writes(w), run' = run
    PROVE  Long'
<1>1. PICK i \in FileNos, n \in Nat :
               /\ logfp = i /\ n = Len(files[i]) + 1 /\ hand[w] \in Record
               /\ Written' = Written \cup {hand[w]} /\ Len(files'[i]) = n
               /\ \A j \in FileNos : j # i => files'[j] = files[j]
  BY PlacesWrite
<1>2. pos' = n
  BY <1>1 DEF Writes
<1>3. hand[w] \notin Written
  <2>1. hand[w] \in Pending
    BY <1>1, PendingIs, Records
  <2>2. QED
    BY <2>1 DEF Once
<1>4. Cardinality(Written') = Cardinality(Written) + 1
  BY <1>1, <1>3, WrittenCount, FS_AddElement
<1>5. Cardinality(Written) \in Nat /\ Cardinality(Written') <= MaxRecords
  <2>1. Written' \in SUBSET Printed' /\ Cardinality(Printed') <= MaxRecords
    BY DEF Once
  <2>2. (IsFiniteSet(Printed))'
    BY PrintedFinite, PTL
  <2>3. Cardinality(Written') <= Cardinality(Printed') /\ Cardinality(Written') \in Nat /\ Cardinality(Printed') \in Nat
    BY <2>1, <2>2, Smaller
  <2>4. QED
    BY <2>1, <2>3, WrittenCount, Bounds
<1>6. PICK below \in Int : below = (run - 1) * MaxRecords /\ run * MaxRecords = below + MaxRecords
  <2>1. run \in Int /\ MaxRecords \in Int
    BY Bounds DEF Printing
  <2>2. (run - 1) * MaxRecords \in Int /\ run * MaxRecords = (run - 1) * MaxRecords + MaxRecords
    BY <2>1
  <2>3. QED
    BY <2>2
<1>7. \A j \in FileNos : Len(files[j]) \in Nat /\ Len(files[j]) <= below + Cardinality(Written)
  BY <1>6 DEF Long, Files
<1>8. \A j \in FileNos : Len(files'[j]) <= below + Cardinality(Written')
  <2>1. n <= below + (Cardinality(Written) + 1)
    BY <1>1, <1>5, <1>6, <1>7
  <2>2. ASSUME NEW j \in FileNos, j # i PROVE Len(files'[j]) <= below + (Cardinality(Written) + 1)
    <3>1. Len(files'[j]) = Len(files[j]) /\ Len(files[j]) \in Nat /\ Len(files[j]) <= below + Cardinality(Written)
      BY <1>1, <1>7, <2>2
    <3>2. QED
      BY <3>1, <1>5, <1>6
  <2>3. QED
    BY <1>1, <1>4, <2>1, <2>2
<1>9. pos' <= run' * MaxRecords
  <2>1. n <= below + Cardinality(Written')
    BY <1>1, <1>8
  <2>2. Cardinality(Written') \in Nat
    BY <1>4, <1>5
  <2>3. pos' <= below + MaxRecords
    BY <1>2, <1>5, <1>6, <2>1, <2>2, Bounds
  <2>4. QED
    BY <2>3, <1>6
<1>10. QED
  BY <1>6, <1>8, <1>9 DEF Long

LEMMA LongNext ==
    ASSUME Printing, Steps, Files, Once, Long, Next
    PROVE  Long'
<1>0. "log" \in Writers /\ "exit" \in Writers
  BY DEF Writers
<1>1. Printing' /\ Steps' /\ Once'
  BY PrintingNext, StepsNext, OnceNext
<1>2. ASSUME UNCHANGED <<files, run>>, pos' \in {0, pos} PROVE Long'
  <2>1. Written' = Written
    BY <1>2 DEF Written, Places, At
  <2>2. 0 <= run * MaxRecords
    BY Bounds DEF Printing
  <2>3. QED
    BY <1>2, <2>1, <2>2 DEF Long
<1>3. ASSUME NEW w \in Writers, write(w), logfp \notin {Null, Dangling} PROVE Long'
  <2>1. Writes(w) /\ run' = run
    BY <1>3 DEF write, Done, Writes
  <2>2. QED
    BY <1>1, <2>1, LongWrites
<1>4. CASE Restart
  <2>1. run' = run + 1 /\ pos' = 0
    BY <1>4 DEF Restart
  <2>2. Nothing' /\ \A i \in FileNos : Len(files'[i]) = Len(files[i])
    BY <1>4, NothingAfterRestart
  <2>3. (Cardinality(Written) = 0)'
    BY <2>2, NothingYet, PTL
  <2>4. PICK below \in Nat : /\ below = (run - 1) * MaxRecords /\ (run' - 1) * MaxRecords = below + MaxRecords
                             /\ run' * MaxRecords >= 0
    <3>1. run \in Nat /\ run >= 1 /\ MaxRecords \in Nat
      BY Bounds DEF Printing
    <3>2. (run - 1) * MaxRecords \in Nat /\ run * MaxRecords = (run - 1) * MaxRecords + MaxRecords
      BY <3>1
    <3>3. run' - 1 = run
      BY <3>1, <2>1
    <3>4. run' * MaxRecords \in Nat
      BY <3>1, <2>1
    <3>5. QED
      BY <3>2, <3>3, <3>4
  <2>5. ASSUME NEW i \in FileNos PROVE Len(files'[i]) <= (run' - 1) * MaxRecords + Cardinality(Written')
    <3>1. Len(files[i]) <= below + Cardinality(Written) /\ Len(files[i]) \in Nat
      BY <2>4 DEF Long, Files
    <3>2. Cardinality(Written) \in Nat /\ Cardinality(Written) <= MaxRecords
      BY WrittenCount
    <3>3. Len(files'[i]) <= below + MaxRecords
      BY <3>1, <3>2, <2>2, Bounds
    <3>4. QED
      BY <3>3, <2>3, <2>4, Bounds
  <2>6. QED
    BY <2>1, <2>4, <2>5 DEF Long
<1>5. ASSUME NEW w \in Writers,
             receive(w) \/ update(w) \/ createSizeLogFile(w) \/ createFails(w)
                 \/ (write(w) /\ logfp \in {Null, Dangling})
      PROVE  UNCHANGED <<files, run>> /\ pos' \in {0, pos}
  BY <1>5 DEF receive, update, createSizeLogFile, createFails, write, Breaks, fileVars
<1>6. ASSUME testcancel \/ Cancelled \/ destroy \/ count \/ close \/ \E t \in Threads : print(t)
      PROVE  UNCHANGED <<files, run>> /\ pos' \in {0, pos}
  BY <1>6 DEF testcancel, Cancelled, destroy, count, close, print, Breaks, fileVars
<1>7. QED
  BY <1>0, <1>2, <1>3, <1>4, <1>5, <1>6 DEF Next, thread_func, Exit, Update

-----------------------------------------------------------------------------
(* A record is lost only with a file that cannot be opened, or with the    *)
(* log thread.                                                             *)
Missing == Printed \ (Pending \cup Written)
Taken == IF pc["log"] = "gone" THEN 1 ELSE 0

Lost == Cardinality(Missing) <= failures.run + Taken

LEMMA MissingCount ==
    IsFiniteSet(Missing) /\ Cardinality(Missing) \in Nat
BY PrintedFinite, FS_Subset, FS_CardinalityType DEF Missing

LEMMA LostGrows ==
    ASSUME Printing, Steps, Lost, Printing', NEW r, Missing' \subseteq Missing \cup {r},
           failures'.run + Taken' = failures.run + Taken + 1
    PROVE  Lost'
<1>1. /\ IsFiniteSet(Missing \cup {r}) /\ Cardinality(Missing \cup {r}) <= Cardinality(Missing) + 1
  <2> DEFINE M == Missing
  <2>1. IsFiniteSet(M) /\ Cardinality(M) \in Nat
    BY MissingCount
  <2> HIDE DEF M
  <2>2. /\ IsFiniteSet(M \cup {r})
        /\ Cardinality(M \cup {r}) = IF r \in M THEN Cardinality(M) ELSE Cardinality(M) + 1
    BY <2>1, FS_AddElement
  <2>3. IsFiniteSet(M \cup {r}) /\ Cardinality(M \cup {r}) <= Cardinality(M) + 1
    BY <2>1, <2>2
  <2>4. QED
    BY <2>3 DEF M
<1>2. /\ Cardinality(Missing') <= Cardinality(Missing \cup {r}) /\ Cardinality(Missing') \in Nat
      /\ Cardinality(Missing \cup {r}) \in Nat
  BY <1>1, Smaller
<1>3. failures.run \in Nat /\ Taken \in Nat
  BY DEF Printing, Taken
<1>4. QED
  BY <1>1, <1>2, <1>3, MissingCount DEF Lost

LEMMA LostNext ==
    ASSUME Printing, Steps, Files, Once, Lost, Next
    PROVE  Lost'
<1>0. "log" \in Writers /\ "exit" \in Writers /\ pc \in [Writers -> LogSteps \cup ExitSteps]
  BY DEF Steps, Writers
<1>1. Printing' /\ Steps' /\ Once'
  BY PrintingNext, StepsNext, OnceNext
<1>2. failures.run \in Nat /\ Taken \in {0, 1}
  BY DEF Printing, Taken
<1>3. ASSUME NEW w \in Writers, createFails(w) PROVE Lost'
  <2>1. GivesUp(w) /\ pc[w] = "open" /\ failures'.run = failures.run + 1
        /\ pc' = [pc EXCEPT ![w] = IF w = "log" THEN "testcancel" ELSE "count"]
    BY <1>3 DEF createFails, Done, GivesUp, Go
  <2>2. Taken' = Taken
    BY <1>0, <2>1 DEF Taken
  <2>3. Pending' = Pending \ {hand[w]}
    BY <1>1, <2>1, OnceGivesUp
  <2>4. Printed' = Printed /\ Written' = Written
    BY <2>1 DEF GivesUp, Printed, Written, Places, At
  <2>5. Missing' \subseteq Missing \cup {hand[w]}
    BY <2>3, <2>4 DEF Missing
  <2>6. failures'.run + Taken' = failures.run + Taken + 1
    BY <1>2, <2>1, <2>2
  <2>7. QED
    BY <1>1, <2>5, <2>6, LostGrows
<1>4. CASE Cancelled
  <2>1. GivesUp("log") /\ pc["log"] # "gone" /\ failures' = failures /\ pc' = [pc EXCEPT !["log"] = "gone"]
    BY <1>4 DEF Cancelled, GivesUp, Go, fileVars
  <2>2. Taken' = 1 /\ Taken = 0
    BY <1>0, <2>1 DEF Taken
  <2>3. Pending' = Pending \ {hand["log"]}
    BY <1>0, <1>1, <2>1, OnceGivesUp
  <2>4. Printed' = Printed /\ Written' = Written
    BY <2>1 DEF GivesUp, Printed, Written, Places, At
  <2>5. Missing' \subseteq Missing \cup {hand["log"]}
    BY <2>3, <2>4 DEF Missing
  <2>6. failures'.run + Taken' = failures.run + Taken + 1
    BY <1>2, <2>1, <2>2
  <2>7. QED
    BY <1>1, <2>5, <2>6, LostGrows
<1>5. CASE Restart
  <2>1. Nothing'
    BY <1>5, NothingAfterRestart
  <2>2. (Printed = {})'
    BY <2>1, NothingYet, PTL
  <2>3. Missing' = {}
    BY <2>2 DEF Missing
  <2>4. failures'.run \in Nat /\ Taken' \in Nat
    BY <1>1 DEF Printing, Taken
  <2>5. QED
    BY <2>3, <2>4, FS_EmptySet DEF Lost
<1>6. ASSUME Missing' = Missing, failures'.run = failures.run, pc["log"] = "gone" => pc'["log"] = "gone"
      PROVE  Lost'
  <2>1. Taken <= Taken' /\ Taken' \in Nat
    BY <1>6 DEF Taken
  <2>2. QED
    BY <1>2, <1>6, <2>1, MissingCount DEF Lost
<1>7. ASSUME Quiet PROVE Missing' = Missing
  BY <1>7 DEF Quiet, Missing, Printed, Pending, Written, Places, At, Queued
<1>8. ASSUME NEW t \in Threads, print(t) PROVE Missing' = Missing /\ failures' = failures /\ pc' = pc
  <2>1. failures' = failures /\ pc' = pc
    BY <1>8 DEF print, Breaks
  <2>2. CASE Prints(t)
    <3>1. PICK s \in Record : s \notin Printed /\ Printed' = Printed \cup {s} /\ Queued' = Queued \cup {s}
      BY <2>2, QueuedPrints
    <3>2. Written' = Written /\ hand' = hand
      BY <2>2 DEF Prints, Written, Places, At
    <3>3. Pending' = Pending \cup {s}
      BY <3>1, <3>2, Records DEF Pending
    <3>4. QED
      BY <2>1, <3>1, <3>2, <3>3 DEF Missing
  <2>3. QED
    BY <1>7, <1>8, <2>1, <2>2 DEF print, Breaks, Prints, Quiet, fileVars
<1>9. ASSUME NEW w \in Writers, receive(w)
      PROVE  Missing' = Missing /\ failures' = failures /\ (pc["log"] = "gone" => pc'["log"] = "gone")
  <2>1. failures' = failures /\ (pc["log"] = "gone" => pc'["log"] = "gone")
    BY <1>0, <1>9 DEF receive, Breaks, Go
  <2>2. CASE Takes(w)
    <3>1. Pending' = Pending
      BY <1>1, <2>2, OnceTakes
    <3>2. Printed' = Printed /\ Written' = Written
      BY <2>2 DEF Takes, Printed, Written, Places, At
    <3>3. QED
      BY <2>1, <3>1, <3>2 DEF Missing
  <2>3. QED
    BY <1>7, <1>9, <2>1, <2>2 DEF receive, Breaks, Takes, Quiet, fileVars
<1>10. ASSUME NEW w \in Writers, write(w)
       PROVE  Missing' = Missing /\ failures' = failures /\ (pc["log"] = "gone" => pc'["log"] = "gone")
  <2>1. failures' = failures /\ (pc["log"] = "gone" => pc'["log"] = "gone")
    BY <1>0, <1>10 DEF write, Breaks, Done, Go
  <2>2. CASE Writes(w)
    <3>1. Pending' = Pending \ {hand[w]} /\ Printed' = Printed
      BY <1>1, <2>2, OnceWrites DEF Writes, Printed
    <3>2. Written' = Written \cup {hand[w]} /\ hand[w] \in Record
      BY <2>2, PlacesWrite
    <3>3. hand[w] \in Pending
      BY <3>2, PendingIs, Records
    <3>4. QED
      BY <2>1, <3>1, <3>2, <3>3 DEF Missing
  <2>3. QED
    BY <1>7, <1>10, <2>1, <2>2 DEF write, Breaks, Done, Writes, Quiet, fileVars
<1>11. ASSUME NEW w \in Writers, update(w) \/ createSizeLogFile(w)
       PROVE  Quiet /\ failures' = failures /\ (pc["log"] = "gone" => pc'["log"] = "gone")
  BY <1>0, <1>11 DEF update, createSizeLogFile, Breaks, Go, Quiet, fileVars
<1>12. ASSUME testcancel \/ destroy \/ count \/ close
       PROVE  Quiet /\ failures' = failures /\ (pc["log"] = "gone" => pc'["log"] = "gone")
  BY <1>0, <1>12 DEF testcancel, destroy, count, close, Breaks, Go, Quiet, fileVars
<1>13. QED
  BY <1>0, <1>3, <1>4, <1>5, <1>6, <1>7, <1>8, <1>9, <1>10, <1>11, <1>12
     DEF Next, thread_func, Exit, Update
-----------------------------------------------------------------------------
(* A file is written past its size only by those who found it not full.    *)
Size == FileSize + 2 * (run - 1)
More == IF cancelled THEN 1 ELSE 0
Share(w) == IF pc[w] = "write" THEN 1 ELSE 0

Sized ==
    /\ \A i \in FileNos : Len(files[i]) <= Size + More
    /\ \A i \in FileNos : i >= fnumber => Len(files[i]) <= Size - 1
    /\ logfp \in FileNos =>
          /\ logfp < fnumber
          /\ Len(files[logfp]) + Share("log") + Share("exit") <= Size + More
          /\ pos < FileSize => Len(files[logfp]) <= Size - 1

LEMMA SizeTypes ==
    ASSUME Printing, Steps, Files
    PROVE  /\ Size \in Nat /\ Size > 0 /\ Size >= FileSize /\ More \in {0, 1}
           /\ Share("log") \in {0, 1} /\ Share("exit") \in {0, 1} /\ (Share("exit") = 1 => More = 1)
           /\ pos \in Nat /\ fnumber \in Nat /\ \A i \in FileNos : Len(files[i]) \in Nat
<1>1. run \in Nat /\ run >= 1
  BY Bounds DEF Printing
<1>2. Size \in Nat /\ Size > 0 /\ Size >= FileSize
  BY <1>1, Bounds DEF Size
<1>3. Share("exit") = 1 => More = 1
  BY DEF Steps, Share, More
<1>4. QED
  BY <1>2, <1>3 DEF Share, More, Files

\* A writer that goes on to write keeps the file small enough.
LEMMA SizedWhenSmall ==
    ASSUME Printing, Steps, Files, Sized, Printing', Steps', Files',
           UNCHANGED <<files, run, cancelled>>, logfp' \in FileNos, logfp' < fnumber', fnumber <= fnumber',
           Len(files[logfp']) <= Size - 1
    PROVE  Sized'
<1>1. /\ Share("log")' \in {0, 1} /\ Share("exit")' \in {0, 1} /\ (Share("exit")' = 1 => More = 1)
  <2>1. Share("exit")' = 1 => cancelled'
    BY DEF Steps, Share
  <2>2. QED
    BY <2>1 DEF Share, More
<1>2. Size' = Size /\ More' = More
  BY DEF Size, More
<1>3. Len(files'[logfp']) + Share("log")' + Share("exit")' <= Size' + More'
  <2>1. PICK l \in Nat : l = Len(files[logfp']) /\ l = Len(files'[logfp'])
    BY SizeTypes
  <2>2. PICK a \in {0, 1}, b \in {0, 1} : a = Share("log")' /\ b = Share("exit")' /\ (b = 1 => More = 1)
    BY <1>1
  <2>3. l + a + b <= Size + More
    BY <2>1, <2>2, SizeTypes
  <2>4. QED
    BY <1>2, <2>1, <2>2, <2>3
<1>4. \A i \in FileNos : i >= fnumber' => i >= fnumber
  <2>1. fnumber \in Nat /\ fnumber' \in Nat /\ FileNos \subseteq Nat
    BY Bounds DEF Files
  <2>2. QED
    BY <2>1
<1>5. (\A i \in FileNos : Len(files[i]) <= Size + More)'
  BY <1>2 DEF Sized
<1>6. (\A i \in FileNos : i >= fnumber => Len(files[i]) <= Size - 1)'
  BY <1>2, <1>4 DEF Sized
<1>7. Len(files'[logfp']) <= Size' - 1
  BY <1>2
<1>8. QED
  BY <1>3, <1>5, <1>6, <1>7 DEF Sized

LEMMA SizedWrites ==
    ASSUME Printing, Steps, Files, Sized, Printing', Steps', Files', NEW w \in Writers, Writes(w),
           pc'[w] # "write", \A v \in Writers : v # w => pc'[v] = pc[v], UNCHANGED <<run, cancelled>>
    PROVE  Sized'
<1>1. PICK i \in FileNos, n \in Nat :
               /\ logfp = i /\ n = Len(files[i]) + 1
               /\ Len(files'[i]) = n
               /\ \A j \in FileNos : j # i => files'[j] = files[j]
  BY PlacesWrite
<1>2. pos' = n /\ UNCHANGED <<logfp, fnumber>> /\ pc[w] = "write"
  BY <1>1 DEF Writes
<1>3. Size' = Size /\ More' = More
  BY DEF Size, More
<1>4. Share("log")' + Share("exit")' + 1 = Share("log") + Share("exit") /\ Share("log")' \in {0, 1}
      /\ Share("exit")' \in {0, 1}
  <2>1. CASE w = "log"
    <3>1. Share("log") = 1 /\ Share("log")' = 0 /\ Share("exit")' = Share("exit")
      BY <1>2, <2>1 DEF Share, Writers
    <3>2. QED
      BY <3>1, SizeTypes
  <2>2. CASE w = "exit"
    <3>1. Share("exit") = 1 /\ Share("exit")' = 0 /\ Share("log")' = Share("log")
      BY <1>2, <2>2 DEF Share, Writers
    <3>2. QED
      BY <3>1, SizeTypes
  <2>3. QED
    BY <2>1, <2>2 DEF Writers
<1>5. PICK a \in {0, 1}, b \in {0, 1} : a = Share("log")' /\ b = Share("exit")'
                                        /\ a + b + 1 = Share("log") + Share("exit")
  BY <1>4
<1>6. i < fnumber /\ n - 1 + (a + b + 1) <= Size + More /\ n - 1 \in Nat
  <2>1. i < fnumber /\ Len(files[i]) + Share("log") + Share("exit") <= Size + More /\ Len(files[i]) \in Nat
    BY <1>1, SizeTypes DEF Sized
  <2>2. PICK c \in Nat, d \in Nat : c = Share("log") /\ d = Share("exit") /\ a + b + 1 = c + d
    BY <1>5, SizeTypes
  <2>3. PICK l \in Nat : l = Len(files[i]) /\ n - 1 = l
    BY <1>1, <2>1
  <2>4. l + c + d <= Size + More
    BY <2>1, <2>2, <2>3
  <2>5. l + (a + b + 1) = l + c + d
    BY <2>2, <1>5
  <2>6. QED
    BY <2>1, <2>3, <2>4, <2>5
<1>7. n + a + b <= Size + More /\ n <= Size + More /\ (n < FileSize => n <= Size - 1)
  <2>1. PICK s \in Nat, m \in Nat : s = Size /\ m = More /\ s >= FileSize
    BY SizeTypes
  <2>2. a \in Nat /\ b \in Nat /\ n - 1 + (a + b + 1) <= s + m
    BY <1>6, <2>1
  <2>3. n + a + b <= s + m /\ n <= s + m
    BY <2>2
  <2>4. n < FileSize => n <= s - 1
    BY <2>1, Bounds
  <2>5. QED
    BY <2>1, <2>3, <2>4
<1>8. \A j \in FileNos : Len(files'[j]) <= Size + More
  BY <1>1, <1>7 DEF Sized
<1>9. \A j \in FileNos : j >= fnumber => Len(files'[j]) <= Size - 1
  <2>1. ~(i >= fnumber)
    BY <1>6, SizeTypes, Bounds
  <2>2. QED
    BY <1>1, <2>1 DEF Sized
<1>10. QED
  BY <1>1, <1>2, <1>3, <1>5, <1>6, <1>7, <1>8, <1>9 DEF Sized

LEMMA SizedNext ==
    ASSUME Printing, Steps, Files, Sized, Next, Files'
    PROVE  Sized'
<1>0. "log" \in Writers /\ "exit" \in Writers /\ pc \in [Writers -> LogSteps \cup ExitSteps]
  BY DEF Steps, Writers
<1>1. Printing' /\ Steps'
  BY PrintingNext, StepsNext
<1>2. ASSUME UNCHANGED <<files, run, pos, fnumber>>, cancelled => cancelled', logfp' \in {logfp, Null, Dangling},
             \A w \in Writers : pc'[w] = "write" => pc[w] = "write"
      PROVE  Sized'
  <2>1. Size' = Size /\ More' \in {0, 1} /\ More <= More'
    BY <1>2 DEF Size, More
  <2>2. Share("log")' \in {0, 1} /\ Share("exit")' \in {0, 1} /\ Share("log")' <= Share("log")
        /\ Share("exit")' <= Share("exit")
    BY <1>0, <1>2 DEF Share
  <2>3. \A i \in FileNos : Len(files'[i]) <= Size' + More'
    <3>1. \A i \in FileNos : Len(files'[i]) \in Nat /\ Len(files'[i]) <= Size + More
      BY <1>2, SizeTypes DEF Sized
    <3>2. QED
      BY <3>1, <2>1, SizeTypes
  <2>4. (\A i \in FileNos : i >= fnumber => Len(files[i]) <= Size - 1)'
    BY <1>2, <2>1 DEF Sized
  <2>5. ASSUME logfp' \in FileNos
        PROVE  /\ logfp' < fnumber'
               /\ Len(files'[logfp']) + Share("log")' + Share("exit")' <= Size' + More'
               /\ pos' < FileSize => Len(files'[logfp']) <= Size' - 1
    <3>1. logfp' = logfp
      BY <1>2, <2>5, Bounds
    <3>2. PICK l \in Nat : l = Len(files[logfp])
      BY <2>5, <3>1, SizeTypes
    <3>3. logfp < fnumber /\ l + Share("log") + Share("exit") <= Size + More /\ (pos < FileSize => l <= Size - 1)
      BY <2>5, <3>1, <3>2 DEF Sized
    <3>4. l + Share("log")' + Share("exit")' <= Size + More'
      BY <2>1, <2>2, <3>3, SizeTypes
    <3>5. QED
      BY <1>2, <2>1, <3>1, <3>2, <3>3, <3>4
  <2>6. QED
    BY <2>3, <2>4, <2>5 DEF Sized
<1>3. ASSUME NEW w \in Writers, update(w), logfp # Dangling, logfp # Null, ~Full PROVE Sized'
  <2>1. UNCHANGED <<files, run, cancelled, logfp, fnumber>> /\ logfp \in FileNos /\ pos < FileSize
    BY <1>3, SizeTypes, Bounds DEF update, Full, Files
  <2>2. fnumber <= fnumber' /\ logfp' < fnumber' /\ Len(files[logfp']) <= Size - 1
    BY <2>1, SizeTypes DEF Sized
  <2>3. QED
    BY <1>1, <2>1, <2>2, SizedWhenSmall
<1>4. ASSUME NEW w \in Writers, createSizeLogFile(w) PROVE Sized'
  <2>1. UNCHANGED <<files, run, cancelled>> /\ logfp' = fnumber /\ fnumber' = fnumber + 1
    BY <1>4 DEF createSizeLogFile
  <2>2. fnumber \in FileNos
    <3>1. fnumber \in Nat /\ fnumber # Null /\ fnumber # Dangling
      BY SizeTypes DEF Null, Dangling
    <3>2. QED
      BY <2>1, <3>1 DEF Files
  <2>3. fnumber >= fnumber /\ logfp' < fnumber' /\ fnumber <= fnumber'
    BY <2>1, SizeTypes
  <2>4. Len(files[logfp']) <= Size - 1
    BY <2>1, <2>2, <2>3 DEF Sized
  <2>5. QED
    BY <1>1, <2>1, <2>2, <2>3, <2>4, SizedWhenSmall
<1>5. ASSUME NEW w \in Writers, write(w), logfp \notin {Null, Dangling} PROVE Sized'
  <2>1. /\ Writes(w) /\ UNCHANGED <<run, cancelled>> /\ pc' = [pc EXCEPT ![w] = IF w = "log" THEN "testcancel" ELSE "count"]
    BY <1>5 DEF write, Writes, Done, Go
  <2>2. pc'[w] # "write" /\ \A v \in Writers : v # w => pc'[v] = pc[v]
    BY <1>0, <2>1
  <2>3. QED
    BY <1>1, <2>1, <2>2, SizedWrites
<1>6. CASE Restart
  <2>1. run' = run + 1 /\ cancelled' = FALSE /\ logfp' = Null /\ fnumber' = 0
    BY <1>6 DEF Restart
  <2>2. \A i \in FileNos : Len(files'[i]) = Len(files[i])
    BY <1>6, NothingAfterRestart
  <2>3. Size' = Size + 2 /\ More' = 0
    BY <2>1, Bounds DEF Size, More, Printing
  <2>4. \A i \in FileNos : Len(files'[i]) <= Size + 1
    <3>1. \A i \in FileNos : Len(files[i]) \in Nat /\ Len(files[i]) <= Size + More
      BY SizeTypes DEF Sized
    <3>2. QED
      BY <3>1, <2>2, SizeTypes
  <2>5. \A i \in FileNos : Len(files'[i]) <= Size' - 1 /\ Len(files'[i]) <= Size' + More'
    <3>1. \A i \in FileNos : Len(files'[i]) \in Nat
      BY <2>2, SizeTypes
    <3>2. QED
      BY <3>1, <2>3, <2>4, SizeTypes
  <2>6. logfp' \notin FileNos
    BY <2>1, Bounds
  <2>7. QED
    BY <2>5, <2>6 DEF Sized
<1>7. ASSUME NEW w \in Writers,
             receive(w) \/ (update(w) /\ (logfp \in {Dangling, Null} \/ Full)) \/ createFails(w)
                 \/ (write(w) /\ logfp \in {Null, Dangling})
      PROVE  Sized'
  <2>1. UNCHANGED <<files, run, pos, fnumber, cancelled>> /\ logfp' \in {logfp, Null, Dangling}
    BY <1>7 DEF receive, update, createFails, write, Breaks, fileVars
  <2>2. \A v \in Writers : pc'[v] = "write" => pc[v] = "write"
    <3>1. CASE receive(w)
      BY <1>0, <3>1 DEF receive, Breaks, Go
    <3>2. CASE update(w) /\ (logfp \in {Dangling, Null} \/ Full)
      BY <1>0, <3>2 DEF update, Breaks, Go
    <3>3. CASE createFails(w)
      BY <1>0, <3>3 DEF createFails, Done, Go
    <3>4. CASE write(w) /\ logfp \in {Null, Dangling}
      BY <3>4 DEF write, Breaks
    <3>5. QED
      BY <1>7, <3>1, <3>2, <3>3, <3>4
  <2>3. QED
    BY <1>2, <2>1, <2>2
<1>8. ASSUME testcancel \/ Cancelled \/ destroy \/ count \/ close \/ \E t \in Threads : print(t)
      PROVE  Sized'
  <2>1. UNCHANGED <<files, run, pos, fnumber>> /\ (cancelled => cancelled') /\ logfp' \in {logfp, Null, Dangling}
    BY <1>8 DEF testcancel, Cancelled, destroy, count, close, print, Breaks, fileVars
  <2>2. \A v \in Writers : pc'[v] = "write" => pc[v] = "write"
    BY <1>0, <1>8 DEF testcancel, Cancelled, destroy, count, close, print, Breaks, Go
  <2>3. QED
    BY <1>2, <2>1, <2>2
<1>9. QED
  BY <1>0, <1>3, <1>4, <1>5, <1>6, <1>7, <1>8 DEF Next, thread_func, Exit, Update
-----------------------------------------------------------------------------
(* The order, until exit begins.                                           *)
Placed ==
    /\ logfp \in FileNos => logfp = fnumber - 1
    /\ \A p \in Places : p[1] < fnumber

Follows(r, s) == r[1] = s[1] => r[2] < s[2]
AfterFiles(s) == \A p \in Places : Follows(At(p), s)

Ordered == pc["exit"] = "no" =>
    /\ \A p, q \in Places : Before(p, q) => Follows(At(p), At(q))
    /\ hand["log"] # None => AfterFiles(hand["log"])
    /\ \A s \in Queued : AfterFiles(s) /\ (hand["log"] # None => Follows(hand["log"], s))
    /\ \A i, j \in DOMAIN queue : i < j => Follows(queue[i], queue[j])

LEMMA PlacedNext ==
    ASSUME Printing, Steps, Files, Placed, Next
    PROVE  Placed'
<1>0. fnumber \in Nat /\ FileNos \subseteq Nat
  BY Bounds DEF Files
<1>p. \A p \in Places : p[1] \in Nat
  BY <1>0, PlaceIs
<1>1. ASSUME NEW w \in Writers, Writes(w) PROVE Placed'
  <2>1. PICK i \in FileNos, n \in Nat : logfp = i /\ Places' = Places \cup {<<i, n>>}
    BY <1>1, PlacesWrite
  <2>2. UNCHANGED <<logfp, fnumber>>
    BY <1>1 DEF Writes
  <2>3. i < fnumber
    BY <2>1, <1>0 DEF Placed
  <2>4. QED
    BY <2>1, <2>2, <2>3 DEF Placed
<1>2. ASSUME NEW w \in Writers, createSizeLogFile(w) PROVE Placed'
  <2>1. logfp' = fnumber /\ fnumber' = fnumber + 1 /\ files' = files
    BY <1>2 DEF createSizeLogFile
  <2>2. Places' = Places
    BY <2>1 DEF Places, At
  <2>3. \A p \in Places' : p[1] < fnumber'
    BY <1>0, <1>p, <2>1, <2>2 DEF Placed
  <2>4. QED
    BY <1>0, <2>1, <2>3 DEF Placed
<1>3. CASE Restart
  <2>1. logfp' = Null
    BY <1>3 DEF Restart
  <2>2. Places' = {}
    BY <1>3, NothingAfterRestart DEF Nothing
  <2>3. QED
    BY <2>1, <2>2, Bounds DEF Placed
<1>4. ASSUME UNCHANGED <<files, fnumber>>, logfp' \in {logfp, Null, Dangling} PROVE Placed'
  <2>1. Places' = Places
    BY <1>4 DEF Places, At
  <2>2. QED
    BY <1>4, <2>1, Bounds DEF Placed
<1>5. ASSUME NEW w \in Writers, receive(w) \/ update(w) \/ createFails(w) \/ (write(w) /\ ~Writes(w))
      PROVE  UNCHANGED <<files, fnumber>> /\ logfp' \in {logfp, Null, Dangling}
  BY <1>5 DEF receive, update, createFails, write, Writes, Done, Breaks, fileVars
<1>6. ASSUME testcancel \/ Cancelled \/ destroy \/ count \/ close \/ \E t \in Threads : print(t)
      PROVE  UNCHANGED <<files, fnumber>> /\ logfp' \in {logfp, Null, Dangling}
  BY <1>6 DEF testcancel, Cancelled, destroy, count, close, print, Breaks, fileVars
<1>7. QED
  BY <1>1, <1>2, <1>3, <1>4, <1>5, <1>6 DEF Next, thread_func, Exit, Update, Writers

LEMMA ExitStays ==
    ASSUME Steps, Next, pc["exit"] # "no", ~Restart
    PROVE  pc'["exit"] # "no"
<1>0. "log" \in Writers /\ "exit" \in Writers /\ pc \in [Writers -> LogSteps \cup ExitSteps]
  BY DEF Steps, Writers
<1>1. ASSUME NEW w \in Writers, receive(w) \/ update(w) \/ createSizeLogFile(w) PROVE pc'["exit"] # "no"
  BY <1>0, <1>1 DEF receive, update, createSizeLogFile, Breaks, Go
<1>2. ASSUME NEW w \in Writers, createFails(w) \/ write(w) PROVE pc'["exit"] # "no"
  BY <1>0, <1>2 DEF createFails, write, Done, Breaks, Go
<1>3. ASSUME testcancel \/ Cancelled \/ destroy \/ count \/ close \/ \E t \in Threads : print(t)
      PROVE  pc'["exit"] # "no"
  BY <1>0, <1>3 DEF testcancel, Cancelled, destroy, count, close, print, Breaks, Go
<1>4. QED
  BY <1>0, <1>1, <1>2, <1>3 DEF Next, thread_func, Exit, Update

LEMMA OrderedPrints ==
    ASSUME Printing, Steps, Files, Once, Ordered, pc["exit"] = "no", NEW t \in Threads, Prints(t)
    PROVE  Ordered'
<1>1. PICK s \in Record :
          /\ s = <<t, printed[t] + 1>> /\ Queued' = Queued \cup {s} /\ Len(queue') = Len(queue) + 1
          /\ \A i \in DOMAIN queue : queue'[i] = queue[i]
          /\ queue'[Len(queue) + 1] = s
  BY QueuedPrints
<1>2. UNCHANGED <<hand, files>>
  BY DEF Prints
<1>3. Places' = Places /\ \A p : At(p)' = At(p)
  BY <1>2 DEF Places, At
<1>4. \A r \in Printed : Follows(r, s)
  <2>1. s[1] = t /\ s[2] = printed[t] + 1 /\ printed[t] \in Nat
    BY <1>1, Bounds DEF Printing
  <2>2. \A r \in Printed : r[2] <= printed[r[1]] /\ r[2] \in Nat
    BY Records, Bounds DEF Printed
  <2>3. QED
    BY <2>1, <2>2 DEF Follows
<1>5. \A p \in Places : At(p) \in Printed
  BY DEF Once, Written
<1>6. AfterFiles(s) /\ \A r \in Queued : Follows(r, s)
  BY <1>4, <1>5 DEF AfterFiles, Once, Pending
<1>7. hand["log"] # None => Follows(hand["log"], s)
  BY <1>4 DEF Once, Pending
<1>8. \A i, j \in DOMAIN queue' : i < j => Follows(queue'[i], queue'[j])
  <2>1. DOMAIN queue = 1 .. Len(queue) /\ DOMAIN queue' = 1 .. Len(queue) + 1 /\ Len(queue) \in Nat
    <3>1. queue \in Seq(Record) /\ queue' = Append(queue, s)
      BY <1>1 DEF Printing, Prints
    <3>2. QED
      BY <3>1
  <2>2. ASSUME NEW i \in DOMAIN queue', NEW j \in DOMAIN queue', i < j PROVE Follows(queue'[i], queue'[j])
    <3>1. i \in DOMAIN queue /\ queue'[i] = queue[i] /\ queue[i] \in Queued
      BY <1>1, <2>1, <2>2 DEF Queued
    <3>2. CASE j \in DOMAIN queue
      BY <1>1, <2>2, <3>1, <3>2 DEF Ordered
    <3>3. CASE j = Len(queue) + 1
      BY <1>1, <1>6, <3>1, <3>3
    <3>4. QED
      BY <2>1, <3>2, <3>3
  <2>3. QED
    BY <2>2
<1>9. (\A r \in Queued : AfterFiles(r) /\ (hand["log"] # None => Follows(hand["log"], r)))'
  BY <1>1, <1>2, <1>3, <1>6, <1>7 DEF Ordered, AfterFiles, Follows
<1>10. (\A p, q \in Places : Before(p, q) => Follows(At(p), At(q)))'
  BY <1>3 DEF Ordered, Before, Follows
<1>11. (hand["log"] # None => AfterFiles(hand["log"]))'
  BY <1>2, <1>3 DEF Ordered, AfterFiles, Follows
<1>12. QED
  BY <1>8, <1>9, <1>10, <1>11 DEF Ordered, Follows

LEMMA OrderedTakes ==
    ASSUME Printing, Steps, Files, Once, Ordered, pc["exit"] = "no", Takes("log")
    PROVE  Ordered'
<1> DEFINE h == Head(queue)
<1>1. /\ queue # <<>> /\ hand' = [hand EXCEPT !["log"] = h] /\ queue' = Tail(queue)
      /\ files' = files
  BY DEF Takes
<1>2. /\ h \in Queued /\ h = queue[1]
      /\ Queued = {Tail(queue)[i] : i \in DOMAIN Tail(queue)} \cup {h}
      /\ \A i \in DOMAIN Tail(queue) : i + 1 \in DOMAIN queue /\ i \in Nat /\ i + 1 # 1
                                       /\ Tail(queue)[i] = queue[i + 1]
  BY <1>1, QueuedTakes
<1>3. Places' = Places /\ \A p : At(p)' = At(p)
  BY <1>1 DEF Places, At
<1>4. hand'["log"] = h
  BY <1>1 DEF Steps, Writers
<1>5. Queued' = {Tail(queue)[i] : i \in DOMAIN Tail(queue)} /\ Queued' \subseteq Queued
  BY <1>1, <1>2 DEF Queued
<1>6. 1 \in DOMAIN queue
  <2>1. queue \in Seq(Record)
    BY DEF Printing
  <2>2. QED
    BY <1>1, <2>1
<1>7. ASSUME NEW r \in Queued' PROVE Follows(h, r)
  <2>1. PICK i \in DOMAIN Tail(queue) : r = Tail(queue)[i]
    BY <1>5
  <2>2. i + 1 \in DOMAIN queue /\ r = queue[i + 1] /\ 1 < i + 1
    BY <1>2, <2>1
  <2>3. QED
    BY <1>2, <1>6, <2>2 DEF Ordered
<1>8. AfterFiles(h)
  BY <1>2 DEF Ordered
<1>9. (\A s \in Queued : AfterFiles(s) /\ (hand["log"] # None => Follows(hand["log"], s)))'
  BY <1>3, <1>4, <1>5, <1>7 DEF Ordered, AfterFiles, Follows
<1>10. \A i, j \in DOMAIN queue' : i < j => Follows(queue'[i], queue'[j])
  <2>1. ASSUME NEW i \in DOMAIN Tail(queue), NEW j \in DOMAIN Tail(queue), i < j
        PROVE  Follows(Tail(queue)[i], Tail(queue)[j])
    <3>1. i + 1 \in DOMAIN queue /\ j + 1 \in DOMAIN queue /\ i + 1 < j + 1
          /\ Tail(queue)[i] = queue[i + 1] /\ Tail(queue)[j] = queue[j + 1]
      BY <1>2, <2>1
    <3>2. QED
      BY <3>1 DEF Ordered
  <2>2. QED
    BY <1>1, <2>1
<1>11. (\A p, q \in Places : Before(p, q) => Follows(At(p), At(q)))'
  BY <1>3 DEF Ordered, Before, Follows
<1>12. (hand["log"] # None => AfterFiles(hand["log"]))'
  BY <1>3, <1>4, <1>8 DEF AfterFiles, Follows
<1>13. QED
  BY <1>9, <1>10, <1>11, <1>12 DEF Ordered, Follows

LEMMA OrderedWrites ==
    ASSUME Printing, Steps, Files, Once, Placed, Ordered, pc["exit"] = "no", Writes("log")
    PROVE  Ordered'
<1>0. "log" \in Writers
  BY DEF Writers
<1>1. PICK i \in FileNos, n \in Nat :
               /\ logfp = i /\ n = Len(files[i]) + 1
               /\ hand["log"] \in Record
               /\ Places' = Places \cup {<<i, n>>} /\ At(<<i, n>>)' = hand["log"]
               /\ \A p \in Places : At(p)' = At(p)
  BY <1>0, PlacesWrite
<1>2. queue' = queue /\ hand'["log"] = None
  BY <1>0 DEF Writes, Steps
<1>3. hand["log"] # None
  BY <1>1, Records
<1>4. Queued' = Queued
  BY <1>2 DEF Queued
<1>5. \A p \in Places : ~Before(<<i, n>>, p)
  <2>1. ASSUME NEW p \in Places PROVE ~(i < p[1]) /\ ~(i = p[1] /\ n < p[2])
    <3>1. p[1] \in Nat /\ p[1] < fnumber /\ i = fnumber - 1 /\ fnumber \in Nat /\ i \in Nat
      BY <1>1, PlaceIs, Bounds DEF Placed, Files
    <3>2. i = p[1] => p[2] \in 1 .. Len(files[i])
      BY PlaceIs
    <3>3. Len(files[i]) \in Nat
      BY DEF Files
    <3>4. QED
      BY <1>1, <3>1, <3>2, <3>3
  <2>2. QED
    BY <2>1 DEF Before
<1>6. ~Before(<<i, n>>, <<i, n>>)
  BY Bounds DEF Before
<1>7. \A p \in Places : Follows(At(p), hand["log"])
  BY <1>3 DEF Ordered, AfterFiles
<1>8. \A p, q \in Places' : Before(p, q) => Follows(At(p)', At(q)')
  <2>1. ASSUME NEW p \in Places', NEW q \in Places', Before(p, q) PROVE Follows(At(p)', At(q)')
    <3>1. p \in Places
      BY <1>1, <1>5, <1>6, <2>1
    <3>2. CASE q \in Places
      BY <1>1, <2>1, <3>1, <3>2 DEF Ordered
    <3>3. CASE q = <<i, n>>
      BY <1>1, <1>7, <3>1, <3>3
    <3>4. QED
      BY <1>1, <3>2, <3>3
  <2>2. QED
    BY <2>1
<1>9. \A s \in Queued : \A p \in Places' : Follows(At(p)', s)
  BY <1>1, <1>3 DEF Ordered, AfterFiles
<1>10. (\A p, q \in Places : Before(p, q) => Follows(At(p), At(q)))'
  BY <1>8 DEF Before, Follows
<1>11. (\A s \in Queued : AfterFiles(s) /\ (hand["log"] # None => Follows(hand["log"], s)))'
  BY <1>2, <1>4, <1>9 DEF AfterFiles, Follows
<1>12. (\A j, k \in DOMAIN queue : j < k => Follows(queue[j], queue[k]))'
  BY <1>2 DEF Ordered, Follows
<1>13. QED
  BY <1>2, <1>10, <1>11, <1>12 DEF Ordered

LEMMA OrderedNext ==
    ASSUME Printing, Steps, Files, Once, Placed, Ordered, Next
    PROVE  Ordered'
<1>1. CASE Restart
  <2>1. Nothing'
    BY <1>1, NothingAfterRestart
  <2>2. Places' = {} /\ queue' = <<>> /\ hand'["log"] = None /\ Queued' = {}
    BY <2>1 DEF Nothing, Empty, Queued, Writers
  <2>3. QED
    BY <2>2 DEF Ordered
<1>2. CASE pc["exit"] # "no" /\ ~Restart
  BY <1>2, ExitStays DEF Ordered
<1>3. CASE pc["exit"] = "no"
  <2>0. "exit" \in Writers /\ "log" \in Writers /\ \A w \in Writers : w = "log" \/ w = "exit"
    BY DEF Writers
  <2>1. ASSUME UNCHANGED <<queue, files>>, hand'["log"] \in {hand["log"], None} PROVE Ordered'
    <3>1. Places' = Places /\ (\A p : At(p)' = At(p)) /\ Queued' = Queued
      BY <2>1 DEF Places, At, Queued
    <3>2. QED
      BY <1>3, <2>1, <3>1 DEF Ordered, AfterFiles, Follows, Before
  <2>2. ASSUME NEW w \in Writers, GivesUp(w) PROVE hand'["log"] \in {hand["log"], None}
    BY <2>0, <2>2 DEF GivesUp, Steps
  <2>3. ASSUME NEW w \in Writers, Takes(w) \/ Writes(w) PROVE w = "log"
    BY <1>3, <2>0, <2>3 DEF Takes, Writes
  <2>4. QED
    BY <1>1, <1>3, <2>1, <2>2, <2>3, Moves, OrderedPrints, OrderedTakes, OrderedWrites DEF Quiet, GivesUp
<1>4. QED
  BY <1>1, <1>2, <1>3
-----------------------------------------------------------------------------
(* The invariant, and what follows.                                        *)
Inv ==
    /\ Printing /\ Steps /\ Files
    /\ Once /\ Numbered /\ Long /\ Lost
    /\ Sized /\ Placed /\ Ordered

LEMMA InvInit == Init => Inv
<1> SUFFICES ASSUME Init PROVE Inv
  OBVIOUS
<1>1. Nothing /\ Once
  BY NothingAtStart, NothingYet
<1>2. /\ Printed = {} /\ Cardinality(Printed) = 0 /\ Queued = {} /\ Written = {} /\ Cardinality(Written) = 0
      /\ Places = {}
  BY <1>1, NothingYet DEF Nothing
<1>3. /\ pc["log"] = "receive" /\ pc["exit"] = "no" /\ \A w \in Writers : hand[w] = None
      /\ logfp = Null /\ pos = 0 /\ fnumber = 0 /\ run = 1
      /\ failures = [run |-> 0, all |-> 0] /\ cancelled = FALSE /\ late = FALSE /\ fault = "none"
      /\ \A i \in FileNos : files[i] = <<>>
  BY DEF Init, AtStart, Empty
<1>4. Printing
  <2>1. printed \in [Threads -> 0 .. MaxRecords]
    BY Bounds DEF Init, NoRecords
  <2>2. queue \in Seq(Record)
    BY DEF Init
  <2>3. run \in 1 .. MaxRuns
    BY <1>3, Bounds
  <2>4. failures \in [run : 0 .. MaxFailures, all : 0 .. MaxFailures] /\ failures.run <= failures.all
    BY <1>3, Bounds
  <2>5. QED
    BY <2>1, <2>2, <2>3, <2>4 DEF Printing
<1>5. Steps
  <2>1. pc \in [Writers -> LogSteps \cup ExitSteps]
    BY DEF Init, AtStart, Writers, LogSteps, ExitSteps
  <2>2. hand \in [Writers -> Record \cup {None}]
    BY DEF Init, Empty
  <2>3. \A w \in Writers : hand[w] # None <=> pc[w] \in Busy
    BY <1>3 DEF Writers, Busy
  <2>4. pc["log"] \in LogSteps /\ pc["exit"] \in ExitSteps
    BY <1>3 DEF LogSteps, ExitSteps
  <2>5. QED
    BY <1>3, <2>1, <2>2, <2>3, <2>4 DEF Steps
<1>6. Files
  <2>1. files \in [FileNos -> Seq(Record \cup {Old})]
    <3>1. <<>> \in Seq(Record \cup {Old})
      OBVIOUS
    <3>2. QED
      BY <3>1 DEF Init
  <2>2. QED
    BY <1>3, <2>1 DEF Files
<1>7. \A i \in FileNos : Len(files[i]) = 0
  BY <1>3
<1>8. Numbered
  <2>1. Printed \ Waiting = {}
    BY <1>2
  <2>2. QED
    BY <1>3, <2>1, FS_EmptySet DEF Numbered
<1>9. Long
  <2>1. (run - 1) * MaxRecords = 0 /\ run * MaxRecords = MaxRecords
    BY <1>3, Bounds
  <2>2. QED
    BY <1>2, <1>3, <1>7, <2>1, Bounds DEF Long
<1>10. Lost
  <2>1. Missing = {}
    BY <1>2 DEF Missing
  <2>2. failures.run + Taken = 0
    BY <1>3 DEF Taken
  <2>3. QED
    BY <2>1, <2>2, FS_EmptySet DEF Lost
<1>11. Sized
  <2>1. Size = FileSize /\ More = 0
    BY <1>3, Bounds DEF Size, More
  <2>2. QED
    BY <1>3, <1>7, <2>1, Bounds DEF Sized
<1>12. Placed
  BY <1>2, <1>3, Bounds DEF Placed
<1>13. Ordered
  <2>1. DOMAIN queue = {}
    BY DEF Init
  <2>2. hand["log"] = None
    BY <1>3 DEF Writers
  <2>3. QED
    BY <1>2, <2>1, <2>2 DEF Ordered
<1>14. QED
  BY <1>1, <1>4, <1>5, <1>6, <1>8, <1>9, <1>10, <1>11, <1>12, <1>13 DEF Inv

LEMMA InvStep == Inv /\ [Next]_vars => Inv'
<1> SUFFICES ASSUME Inv, [Next]_vars PROVE Inv'
  OBVIOUS
<1>1. CASE Next
  <2>1. Printing' /\ Steps' /\ Files'
    BY <1>1, PrintingNext, StepsNext, FilesNext DEF Inv
  <2>2. Once' /\ Numbered' /\ Long' /\ Lost'
    BY <1>1, OnceNext, NumberedNext, LongNext, LostNext DEF Inv
  <2>3. Sized' /\ Placed' /\ Ordered'
    BY <1>1, <2>1, SizedNext, PlacedNext, OrderedNext DEF Inv
  <2>4. QED
    BY <2>1, <2>2, <2>3 DEF Inv
<1>2. CASE UNCHANGED vars
  <2>1. UNCHANGED <<printed, queue, pc, hand, cancelled, logfp, pos, fnumber, files, run, failures, late, fault>>
    BY <1>2 DEF vars, fileVars
  <2>2. /\ Places' = Places /\ (\A p : At(p)' = At(p)) /\ Queued' = Queued /\ Printed' = Printed
        /\ Written' = Written /\ Pending' = Pending
    BY <2>1 DEF Places, At, Queued, Printed, Written, Pending
  <2>3. Printing' /\ Steps' /\ Files'
    BY <2>1 DEF Inv, Printing, Steps, Files
  <2>4. Once' /\ Placed'
    BY <2>1, <2>2 DEF Inv, Once, Placed
  <2>5. Numbered' /\ Long' /\ Lost'
    BY <2>1, <2>2 DEF Inv, Numbered, Waiting, Long, Lost, Missing, Taken
  <2>6. Sized'
    BY <2>1 DEF Inv, Sized, Size, More, Share
  <2>7. Ordered'
    BY <2>1, <2>2 DEF Inv, Ordered, AfterFiles, Follows, Before
  <2>8. QED
    BY <2>3, <2>4, <2>5, <2>6, <2>7 DEF Inv
<1>3. QED
  BY <1>1, <1>2

LEMMA InvAlways == Spec => []Inv
BY InvInit, InvStep, PTL DEF Spec

LEMMA InvTypes == Inv => TypeOK
<1> SUFFICES ASSUME Inv PROVE TypeOK
  OBVIOUS
<1>1. Printing /\ Steps /\ Files /\ Once /\ Numbered /\ Long
  BY DEF Inv
<1>2. fnumber \in 0 .. MaxRecords + 1
  <2>1. Printed \ Waiting \in SUBSET Printed
    OBVIOUS
  <2>2. Cardinality(Printed \ Waiting) <= Cardinality(Printed) /\ Cardinality(Printed \ Waiting) \in Nat
        /\ Cardinality(Printed) \in Nat
    BY <2>1, PrintedFinite, Smaller
  <2>3. Cardinality(Printed) <= MaxRecords /\ fnumber <= Cardinality(Printed \ Waiting) /\ fnumber \in Nat
    BY <1>1 DEF Once, Numbered, Files
  <2>4. QED
    BY <2>2, <2>3, Bounds
<1>3. pos \in 0 .. MaxRuns * MaxRecords
  <2>1. run \in Nat /\ MaxRuns \in Nat /\ MaxRecords \in Nat /\ run <= MaxRuns
    BY <1>1, Bounds DEF Printing
  <2>2. run * MaxRecords <= MaxRuns * MaxRecords /\ run * MaxRecords \in Nat /\ MaxRuns * MaxRecords \in Nat
    BY <2>1
  <2>3. pos \in Nat /\ pos <= run * MaxRecords
    BY <1>1 DEF Files, Long
  <2>4. QED
    BY <2>2, <2>3
<1>4. \A w \in Writers : hand[w] \in Record <=> pc[w] \in {"update", "open", "write"}
  BY <1>1, Records DEF Steps, Busy
<1>5. {failures.run, failures.all} \subseteq 0 .. MaxFailures
  BY <1>1 DEF Printing
<1>6. QED
  BY <1>1, <1>2, <1>3, <1>4, <1>5 DEF TypeOK, Printing, Steps, Files, LogSteps, ExitSteps

\* The log keeps its types: in particular files are numbered within the records
\* printed, and ftell stays within what all runs have written.
THEOREM TypesKept == Spec => []TypeOK
BY InvAlways, InvTypes, PTL

\* Whatever the rotation and the failures, until exit begins the records of a
\* thread are in the files in the order in which it printed them.
THEOREM OrderKept == Spec => []InOrder
<1>1. Inv => InOrder
  BY DEF Inv, Ordered, InOrder, Follows
<1>2. QED
  BY <1>1, InvAlways, PTL

\* A record is never in two places, and is lost only with a file that cannot be
\* opened or in the hand of the log thread when it is cancelled.
THEOREM NoMoreLost == Spec => []AtMostOneLost
<1>1. Inv => AtMostOneLost
  BY DEF Inv, Lost, Missing, Taken, Once, AtMostOneLost
<1>2. QED
  BY <1>1, InvAlways, PTL

\* A file never holds more than its size and two records for each further run,
\* and one for the two writers of exit.
THEOREM SizeKept == Spec => []SizeBound
<1>1. Inv => SizeBound
  BY DEF Inv, Sized, Size, More, SizeBound
<1>2. QED
  BY <1>1, InvAlways, PTL
==============================================================================
