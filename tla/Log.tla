-------------------------------- MODULE Log --------------------------------
(***************************************************************************)
(* CLog of utils/log.cpp: the server's threads print records into a queue  *)
(* and the log thread writes them to files fname0000.log, fname0001.log... *)
(* of a limited size (SPLIT_ON_SIZE, the policy of the only logger that is *)
(* ever written to, dbgLog).  The destructor of the last logger runs in    *)
(* the thread that calls exit: it cancels the log thread, does not wait    *)
(* for its end, and writes what is left in the queue itself, so for a time *)
(* two threads are in update.  Nothing stops the server's threads.  Files  *)
(* outlive the process and are appended to by the next one, which counts   *)
(* from 0000 again.                                                        *)
(*                                                                         *)
(* Sizes are in records.  After fopen(.., "a+") ftell is 0 whatever the    *)
(* file holds, and its true end after the first write.  pthread_cancel     *)
(* takes effect where the log thread waits, opens a file or tests for it.  *)
(***************************************************************************)
EXTENDS Integers, Sequences, FiniteSets

CONSTANTS
    Threads,       \* of the server
    FileSize,      \* _fsize
    MaxRecords,    \* bound: records printed in a run
    MaxRuns,       \* bound: runs of the server
    MaxFailures    \* bound: files that cannot be opened

ASSUME LogAssumption ==
    /\ IsFiniteSet(Threads)
    /\ {FileSize, MaxRuns} \subseteq Nat \ {0}
    /\ {MaxRecords, MaxFailures} \subseteq Nat

VARIABLES
    printed,   \* how many records each thread has printed in this run
    queue,     \* _queue
    pc, hand,  \* of "log", the log thread, and "exit", the one in the destructor
    cancelled, \* pthread_cancel has been called
    logfp, pos, fnumber,  \* _logfp, its ftell, and _fnumber
    files,     \* what the files hold
    run,       \* the number of the run
    failures,  \* opens that failed in this run, and their sum
    late,      \* history: the log thread has received after pthread_cancel
    fault      \* memory that is gone is used

fileVars == <<logfp, pos, fnumber, files>>
vars == <<printed, queue, pc, hand, cancelled, fileVars, run, failures, late, fault>>

Writers == {"log", "exit"}
FileNos == 0 .. MaxRecords
Null == -1       \* _logfp is NULL
Dangling == -2   \* _logfp has been closed and not set
None == <<>>     \* no record in hand

Record == Threads \X (1 .. MaxRecords)
Old == <<>>      \* a record of an earlier run

NoRecords == [t \in Threads |-> 0]
AtStart == [log |-> "receive", exit |-> "no"]
Empty == [w \in Writers |-> None]

Init ==
    /\ printed = NoRecords
    /\ queue = <<>>
    /\ pc = AtStart /\ hand = Empty
    /\ cancelled = FALSE /\ late = FALSE
    /\ logfp = Null /\ pos = 0 /\ fnumber = 0
    /\ files = [i \in FileNos |-> <<>>]
    /\ run = 1
    /\ failures = [run |-> 0, all |-> 0]
    /\ fault = "none"

Printed == {r \in Record : r[2] <= printed[r[1]]}

Go(w, label) == pc' = [pc EXCEPT ![w] = label]

\* The process is up and nothing has gone wrong.
Up == pc["exit"] # "ended" /\ fault = "none"

QueueDeleted == pc["exit"] = "close"

Breaks(what) ==
    /\ fault' = what
    /\ UNCHANGED <<printed, queue, pc, hand, cancelled, fileVars, run, failures, late>>

-----------------------------------------------------------------------------
(* The server's threads.                                                   *)

\* print and dumpbin, of a level that is logged.
print(t) ==
    /\ Cardinality(Printed) < MaxRecords
    /\ IF QueueDeleted
       THEN Breaks("queue")
       ELSE /\ printed' = [printed EXCEPT ![t] = @ + 1]
            /\ queue' = Append(queue, <<t, printed[t] + 1>>)
            /\ UNCHANGED <<pc, hand, cancelled, fileVars, run, failures, late, fault>>

-----------------------------------------------------------------------------
(* receive and update, by the log thread and by the destructor.            *)

\* Mutant: the newest record is written first.
receiveNewest(w) ==
    /\ pc[w] = "receive"
    /\ IF QueueDeleted
       THEN Breaks("queue")
       ELSE /\ queue # <<>>
            /\ hand' = [hand EXCEPT ![w] = queue[Len(queue)]]
            /\ queue' = SubSeq(queue, 1, Len(queue) - 1)
            /\ late' = (late \/ (w = "log" /\ cancelled))
            /\ Go(w, "update")
            /\ UNCHANGED <<printed, cancelled, fileVars, run, failures, fault>>

receive(w) ==
    /\ pc[w] = "receive"
    /\ IF QueueDeleted
       THEN Breaks("queue")
       ELSE /\ queue # <<>>
            /\ hand' = [hand EXCEPT ![w] = Head(queue)]
            /\ queue' = Tail(queue)
            /\ late' = (late \/ (w = "log" /\ cancelled))
            /\ Go(w, "update")
            /\ UNCHANGED <<printed, cancelled, fileVars, run, failures, fault>>

Done(w) ==
    /\ hand' = [hand EXCEPT ![w] = None]
    /\ Go(w, IF w = "log" THEN "testcancel" ELSE "count")

\* Mutant: a file takes one record more.
FullLate == pos > FileSize

Full == pos >= FileSize

\* Mutant: the record that finds the file full is dropped.
updateDrops(w) ==
    /\ pc[w] = "update"
    /\ IF logfp = Dangling
       THEN Breaks("file")
       ELSE /\ logfp' = IF logfp # Null /\ Full THEN Null ELSE logfp
            /\ IF logfp # Null /\ Full
               THEN Done(w)
               ELSE Go(w, IF logfp = Null THEN "open" ELSE "write") /\ UNCHANGED hand
            /\ UNCHANGED <<printed, queue, cancelled, pos, fnumber, files, run,
                           failures, late, fault>>

\* A full file is closed before the next is opened.
update(w) ==
    /\ pc[w] = "update"
    /\ IF logfp = Dangling
       THEN Breaks("file")
       ELSE /\ Go(w, IF logfp = Null \/ Full THEN "open" ELSE "write")
            /\ logfp' = IF logfp # Null /\ Full THEN Dangling ELSE logfp
            /\ UNCHANGED <<printed, queue, hand, cancelled, pos, fnumber, files, run,
                           failures, late, fault>>

createSizeLogFile(w) ==
    /\ pc[w] = "open"
    /\ logfp' = fnumber /\ pos' = 0
    /\ fnumber' = fnumber + 1
    /\ Go(w, "write")
    /\ UNCHANGED <<printed, queue, hand, cancelled, files, run, failures, late, fault>>

\* Mutant: a file that could not be opened is passed over for good.
createFailsPastIt(w) ==
    /\ pc[w] = "open" /\ failures.all < MaxFailures
    /\ logfp' = fnumber
    /\ failures' = [run |-> failures.run + 1, all |-> failures.all + 1]
    /\ Go(w, "testcancel")
    /\ UNCHANGED <<printed, queue, hand, cancelled, pos, fnumber, files, run, late, fault>>

\* Mutant: the log thread ends at the first file it cannot open.
createFailsEnds(w) ==
    /\ pc[w] = "open" /\ failures.all < MaxFailures
    /\ logfp' = Null
    /\ failures' = [run |-> failures.run + 1, all |-> failures.all + 1]
    /\ hand' = [hand EXCEPT ![w] = None]
    /\ Go(w, IF w = "log" THEN "gone" ELSE "count")
    /\ UNCHANGED <<printed, queue, cancelled, pos, fnumber, files, run, late, fault>>

\* The record is given up; the next one tries the same file again.
createFails(w) ==
    /\ pc[w] = "open" /\ failures.all < MaxFailures
    /\ logfp' = Null
    /\ failures' = [run |-> failures.run + 1, all |-> failures.all + 1]
    /\ Done(w)
    /\ UNCHANGED <<printed, queue, cancelled, pos, fnumber, files, run, late, fault>>

write(w) ==
    /\ pc[w] = "write"
    /\ IF logfp \in {Null, Dangling}
       THEN Breaks("file")
       ELSE /\ files' = [files EXCEPT ![logfp] = Append(@, hand[w])]
            /\ pos' = Len(files[logfp]) + 1
            /\ Done(w)
            /\ UNCHANGED <<printed, queue, cancelled, logfp, fnumber, run, failures, late, fault>>

\* The end of the loop of thread_func.
testcancel ==
    /\ pc["log"] = "testcancel"
    /\ Go("log", IF cancelled THEN "gone" ELSE "receive")
    /\ UNCHANGED <<printed, queue, hand, cancelled, fileVars, run, failures, late, fault>>

\* The cancelled log thread ends where it waits or opens a file.
Cancelled ==
    /\ cancelled
    /\ \/ pc["log"] = "receive" /\ queue = <<>> /\ ~QueueDeleted
       \/ pc["log"] = "open"
    /\ Go("log", "gone")
    /\ hand' = [hand EXCEPT !["log"] = None]
    /\ UNCHANGED <<printed, queue, cancelled, fileVars, run, failures, late, fault>>

Update(w) == receive(w) \/ update(w) \/ createSizeLogFile(w) \/ createFails(w) \/ write(w)

thread_func == Update("log") \/ testcancel \/ Cancelled

-----------------------------------------------------------------------------
(* The end of the process and the next one.                                *)

destroy ==
    /\ pc["exit"] = "no"
    /\ cancelled' = TRUE
    /\ Go("exit", "count")
    /\ UNCHANGED <<printed, queue, hand, fileVars, run, failures, late, fault>>

\* Mutant: the loop of the destructor goes on until it has received nothing.
MoreToWriteAlways == TRUE

\* getMsgCnt; the queue is deleted once it has been seen empty.
MoreToWrite == queue # <<>>

count ==
    /\ pc["exit"] = "count"
    /\ Go("exit", IF MoreToWrite THEN "receive" ELSE "close")
    /\ UNCHANGED <<printed, queue, hand, cancelled, fileVars, run, failures, late, fault>>

\* The file is closed and the process is over.
close ==
    /\ pc["exit"] = "close"
    /\ IF logfp = Dangling
       THEN Breaks("file")
       ELSE /\ logfp' = Null
            /\ Go("exit", "ended")
            /\ UNCHANGED <<printed, queue, hand, cancelled, pos, fnumber, files, run,
                           failures, late, fault>>

Exit == Update("exit") \/ count \/ close

\* The process is over or is killed at any point, and the server is started
\* again.  Of what earlier runs have written only the amount matters.
Restart ==
    /\ run < MaxRuns
    /\ run' = run + 1
    /\ printed' = NoRecords
    /\ queue' = <<>>
    /\ pc' = AtStart /\ hand' = Empty
    /\ cancelled' = FALSE /\ late' = FALSE
    /\ logfp' = Null /\ pos' = 0 /\ fnumber' = 0
    /\ files' = [i \in FileNos |-> [n \in 1 .. Len(files[i]) |-> Old]]
    /\ failures' = [failures EXCEPT !.run = 0]
    /\ fault' = "none"

Next ==
    \/ Up /\ (thread_func \/ destroy \/ Exit \/ \E t \in Threads : print(t))
    \/ Restart

Spec ==
    /\ Init /\ [][Next]_vars
    /\ WF_vars(Up /\ thread_func) /\ WF_vars(Up /\ Exit)

-----------------------------------------------------------------------------
TypeOK ==
    /\ printed \in [Threads -> 0 .. MaxRecords]
    /\ queue \in Seq(Record)
    /\ pc["log"] \in {"receive", "update", "open", "write", "testcancel", "gone"}
    /\ pc["exit"] \in {"no", "count", "receive", "update", "open", "write", "close",
                       "ended"}
    /\ \A w \in Writers : hand[w] \in Record <=> pc[w] \in {"update", "open", "write"}
    /\ cancelled \in BOOLEAN /\ late \in BOOLEAN
    /\ logfp \in FileNos \cup {Null, Dangling}
    /\ pos \in 0 .. MaxRuns * MaxRecords
    /\ fnumber \in 0 .. MaxRecords + 1
    /\ files \in [FileNos -> Seq(Record \cup {Old})]
    /\ run \in 1 .. MaxRuns
    /\ {failures.run, failures.all} \subseteq 0 .. MaxFailures
    /\ fault \in {"none", "queue", "file"}

\* Where the records of this run are in the files, and what is there.
At(p) == files[p[1]][p[2]]
Places == {p \in UNION {{i} \X DOMAIN files[i] : i \in FileNos} : At(p) # Old}
Before(p, q) == p[1] < q[1] \/ (p[1] = q[1] /\ p[2] < q[2])

Written == {At(p) : p \in Places}
Queued == {queue[i] : i \in DOMAIN queue}
Pending == Queued \cup ({hand["log"], hand["exit"]} \ {None})

\* Until exit begins the files hold, from the first to the last, the records of
\* each thread in the order in which it printed them and none twice, across
\* rotation and failures.  (Then two threads write, and the order may break.)
InOrder ==
    pc["exit"] = "no" =>
        \A p, q \in Places :
            Before(p, q) /\ At(p)[1] = At(q)[1] => At(p)[2] < At(q)[2]

\* Each record printed is in the queue, in a hand, or once in a file, but for
\* one for each file that could not be opened and the one that the log thread
\* had in hand when it was cancelled: the destructor writes what is queued.
AtMostOneLost ==
    /\ Cardinality(Printed \ (Pending \cup Written))
           <= failures.run + (IF pc["log"] = "gone" THEN 1 ELSE 0)
    /\ \A p, q \in Places : At(p) = At(q) => p = q
    /\ Pending \cap Written = {}

\* A file is full when the next is begun, and grows past its size by at most
\* one record each time a new process begins with it and one each time two
\* threads write at the end of a process.
SizeBound == \A i \in FileNos :
    Len(files[i]) <= FileSize + 2 * (run - 1) + (IF cancelled THEN 1 ELSE 0)

\* A record does not stay queued while the server is up.
WrittenSoon == \A r \in Record : r \in Pending ~> r \notin Pending \/ pc["exit"] # "no"

\* exit comes to an end, unless memory that is gone is used or the log thread
\* has received, after pthread_cancel, a record the destructor had counted.
ExitEnds == cancelled /\ Up ~> ~(cancelled /\ Up) \/ late

=============================================================================
