# CCNI server: a verification development

This directory holds TLA+ specifications of the CCNI server, a multi-threaded
server for Chinese chess written in C++ (`src/ccniserver/src`), the TLC
configurations that check them on small instances, and TLAPS proofs about them.

## 1. The system

### 1.1 Components

| Component | Code | State it keeps | Operations |
|---|---|---|---|
| UDP listener | `framework/udp_listener.*` | its sockets | receive a connection request, give a job to the pool; the job makes a key, stores it, answers |
| Key map | `framework/seckey_map.h` | key -> (address, time) | insert, verifykey, remove, clear_timeouted |
| TCP listener | `framework/tcp_listener.*` | one epoll set, a parser per connection | accept, read the first message, give it to the pool; the job verifies the key and logs in |
| Data manager | `framework/data_mgr.h` | clients by name, rooms by id | findClient, addClient, delClient, findRoom |
| User listener | `framework/user_listener.*` | epoll threads, round robin | register a client's socket, give its task to the pool when it is ready |
| Client | `framework/client.*` | game state, room, session, IO state, parser, packer, queued notifications | doWork (read, answer, notify, clean up), queueNotification, addToEpoll, rmFromEpoll |
| Message handlers | `framework/ccni_msghnds.*` | none | one per message, by the client's game state |
| Rooms and sessions | `framework/room.*` | users and sessions of a room; owner, opponent and watchers of a session | enter, leave, createSession, enterSession, watchSession, leaveSession, ready |
| Broadcaster, notifier | `framework/broadcaster.*`, `notifier.*` | addresses, clients to tell | send by UDP, queue a notification per client |
| Threads pool | `utils/threads_pool.cpp`, `inc/threads_pool.h`, `cmsgqueue.h`, `event.h` | job queue, idle and busy lists, a job slot per worker | assign, the manager's loop, the worker's loop |
| Messages | `inc/ccni_msg.h`, `ccnimsg/` | bytes read or sent so far | pack, send, read, parse |
| Client library | `libccni/` | two sockets, a queue per calling thread | connect, requests, the listening thread |
| Engine, main, commander | `framework/engine.h`, `conn_listener.*`, `main.cpp`, `cmder.*` | all of the above | create, destroy, console commands |
| Log | `utils/log.cpp`, `inc/log.h` | a queue and a thread for all loggers; a file, its number and its size for each | print, update, rotation, the destructor |
| Read-write mutex | `inc/event.h:137-239` | readers inside, a writer inside, a writer waits | lockRead, unlockRead, lockWrite, unlockWrite |
| Configuration, database, XML, utilities, tools | `config.*`, `dbi/`, `xml.*`, `utils.cpp`, `tool/`, `sclient/` | | |

### 1.2 How they interact

A client sends a UDP datagram and gets a key, opens a TCP connection and sends
Login with that key. The login job puts a `CClient` on the list and hands its
socket to one of the epoll threads of the user listener. From then on every
event on the socket becomes a job of the pool: `CClient::doWork` reads a
message, runs its handler, and sends the answer; handlers change rooms and
sessions and, through notifiers, write to the sockets of other clients, and
through broadcasters to the UDP addresses of those in the room. The socket then
goes back to some epoll thread. A failure on the line, or a message that cannot
be parsed, ends the client: it leaves its session, its room and the list.

The locks are per object: `_iolk` of a client, `_lk` and `_slk` of a room, `_lk`
of a session, the list's and the map's. No handler holds a lock from one object
to the next beyond `_slk` with a session's `_lk`, so a handler is a sequence of
locked steps, and a client's own fields are written outside of them.

### 1.3 What is hard here

The list of hazards with their lines is in `PROJECT.json`. In short: handlers
interleave between their locked steps; a client's socket is shared by its task,
the epoll threads and the notifiers of others; the pool's signals are forgotten
when nobody waits; lines break anywhere; sockets fill up and messages arrive in
pieces; ids are drawn and names checked without the lock that the later use
takes; the key map and the connections time out, or do not.

## 2. The plan

| Step | Module | State |
|---|---|---|
| 1 | `Hall`: rooms, sessions, game states | done, proved |
| 2 | `ClientIO`: a client's socket, its task and its notifications | done, proved |
| 3 | `ThreadsPool`, which implements `JobQueue` | done, proved |
| 4 | `Login`: keys, the client list, the descriptors, the start of the engine | done, proved |
| 5 | `LibCcni`: the client library, with the broadcasts it receives | done, proved |
| 6 | `ReadWriteMutex`: the lock of `event.h` | done, proved |
| 7 | `Log`: the log thread, rotation, the end of the process and the next run | done, proved |
| 8 | `Lobby`: what the hall promises to a client (a client is in at most one place and hears of every change), implemented by `Hall` with the notifications of `ClientIO` | planned |

Every safety property that a passing run checks is stated by a theorem of section
5. Theorems to come: that `Hall` implements `Lobby`.

## 3. The modules and the code

Each action is one locked step of the code, or what one thread does between two
of them; a handler that takes several locks is several actions, and the modules
keep track of how far it has come. What messages say, formatting, logging and
counters are left out. `PROJECT.json` gives, for each definition, the lines it
stands for. A definition whose comment begins with "Mutant" is a plausible
mistake in one of the definitions after it; none of them is used by the specifications,
and each makes some property fail when it takes the place of the real one.

### 3.1 Hall

State: `state`, `roomid`, `sessionid` are the fields of each `CClient`;
`users[r]` is a room's `_usrlist`; `live[r]` the sessions in its map, `owner`,
`opponent` and `watchers` the places of a session; `idseed` is the static of
`genid`. `pc[c]` says which step of which handler client `c` is at, and
`target[c]` is what the handler holds in a local variable: a room, a session or a
seed. `hangup[c]` marks the cleanup of a broken line.

| Actions | Code |
|---|---|
| `Login`, `Accept` | a client comes in; a message is read and let in by the table of game states (`ccni_msghnds.cpp:48-165`) |
| `EnterRoom`, `EnterRoomFull`, `EnterRoomDone`; `LeaveRoom`, `LeaveRoomDone` | `CRoom::enter`/`leave` under the room's lock, then the client's fields |
| `NewSession`, `genid`, `Publish`, `NewSessionDone` | the id is a load and a store of the seed with no lock; then the session goes into the map, and its id into the client |
| `EnterSession`, `WatchSession` and their `Done` (`TakeSession`) | find, enter or watch under the locks, or `Refuse`; then the fields |
| `LeaveSession`, `LeaveSessionDone` | `CSession::leave` and, for the last one, removal from the map |
| `Ready` | `CSession::ready` writes the client's state under the lock, looks at the partner (`PartnerReady`), and starts the game for both or not (`updatePlayersState`) |
| `Hangup`, `DelClient` | the cleanup of `CClient::doWork`: session, room, list |

At most `Workers` handlers are under way at a time, as the pool has that many
threads, and a client has one handler at a time, as its socket has left the epoll
set. A failed `ASSERT` is the value of `exited`: it ends the process (`log.h`), and
nothing happens afterwards. That two sessions share an id is not forbidden by the
model, as the code does not forbid it.

The code has two faults by which a client comes to believe in a session that does
not know it: `CSession::enter` may take no seat (`TakesNoSeat`), and a new session
may get the id of one that is there and its place in the map (`IsReplaced`).
`LossesExplained` says that there is no third one: whatever the others enter,
watch, leave or close meanwhile, a client becomes `Lost` in these two ways only,
and no `ASSERT` fails but in the handler of a client that is lost already.

### 3.2 ClientIO

State: `pstate` is `_pstate` (Idle, Reading, Sending, Notifing); `rpos`, `spos`,
`npos` are the positions in the parser, the packer and the first notification,
counted in units of which a header has `Header` and a body `Body`; `notimsgs` is
the queue, and `order` the notifications in the order they were queued; `epfd` is
`_epfd`; `epolls` says for which events each epoll set has the descriptor; `event`
how far each epoll thread is with an event (taken, removed from the set, `_epfd`
forgotten); `jobs` how often the task waits in the pool; `task` whether it was
deleted, and `closed` whether the client was destroyed; `out` is everything
written to the socket, `inbox` what has arrived and was not read.

`doWork` is one step: it holds `_iolk` from end to end. `queueNotification` is
one step too, and so is each system call of an epoll thread; `addToEpoll` is two,
as it writes `_epfd` after `epoll_ctl` has made the descriptor visible (`adding`,
and `login` for the login job, which holds no lock). The environment sends whole messages or
pieces (`Segments`), reads, and may break the line at any moment.

### 3.3 ThreadsPool and JobQueue

State: the job `queue`, the `manager`'s and each `worker`'s position in its loop,
the lists `idle` and `busy`, each worker's job `slot`, and what was `assigned` and
`ran`.
Signals are forgotten when nobody waits, as `CEvent` says. With `Spurious`, waits
may end without a signal, as POSIX allows; the two places that do not look again
(`threads_pool.cpp:49`, `:105`) then use a job or a worker that is not there,
which is the value of `fault`. `JobQueue` is what the users of the pool rely on:
a job that was assigned is started once and finished once, and no more of them run
than there are workers.

### 3.4 Login

State: `keymap` is `CSecKeyMap::_map` with the time of each key; `drawn` the keys
about to be inserted, each with the time its job has read, `answering` and
`replies` the keys on their way; `conn[p]` how far the connection of a peer is;
`fd` and `table` the descriptor numbers and what they stand for; `clients` the
list of the data manager. Requests may be repeated at any time, answers may be
lost (never taken) and late. `accept` takes the lowest free number, as the kernel
does: that is what makes a second `close` of a number dangerous.
`insert` reads the clock before it takes the lock, so `genSecret` draws a key and
reads the clock, and `insert` does the rest, later, with that time: the sweep may be
one of a moment ago, and so may the key's stamp. `StaleFew` counts by the clock the
job has read; a job that was slow to get the lock leaves those that became too
old while it waited.

A client that `addClient` rejects has its descriptor closed twice, and the second
close may hit a connection that got the number in between. `OwnDescriptor` says how
far that goes: a connection in use stands for its descriptor, or has the number of a
rejected one; every other close hits its own.

`started` is how far `Engine::create` has come: the UDP listener, the TCP listener
and the epoll threads of the user listener are created one after another, each
works as soon as it is there, and each creation may fail, which ends the server.
A login job that comes to `assign` before the first epoll thread is on the list,
or while others are being put on it without the lock, uses what is not there
(`fault = "assign"`).

`verifykey` does not compare times, so an old key that was not swept is good; that
is in the model as in the code. The step after `addClient` has failed is modelled
with both of its closes. One bound is an assumption about the code: the serial number in
a key does not come round to one whose job is still running (there are 2^32 of
them in the code, `Serials` in the model). The model does allow it to come round
otherwise, so a key may be issued again to the same address; the proof of `KeysInTime` needs
the bound, as a second job with the same key could remove it under the first.
`docs/issuetracking.txt:16` notes duplicated keys in 2009. In this code a key is the digest
of a serial number that is drawn under a lock, and of the address; the digest works
in memory of the job's own, and the map compares both halves of it. Two jobs
draw one key only when the serial number has come round, which the model has, more often
than the code: `Serials` is 1 in the runs.

### 3.5 LibCcni

State: `stage[c]` is where a thread is in `talkToServer`, `evts` the queues by
number, `asked` and `wire` the two directions of the connection, `connecting`,
`connected` and `listener` the connection's own state; `sent`, `late` and `took`
count, for each number, the requests, the waits that were given up and the answers
taken. Any wait may time out while the queue is empty, also because it ended
without a signal: the code does not wait again. The server answers in order,
since a client has one handler at a time (3.1) and its responses do not overtake
each other (`AnswersInOrder` of `ClientIO`).

The number of a thread is `pthread_self()` cut to 32 bits (`libccni.cpp:144`). `SeqOf` lets
threads share one and then a queue; a caller of the model makes one request
after another, and stands for all threads that have had its id. `LagsByLate` therefore
speaks of numbers: their answers are taken in order, once, with none left out,
by whichever thread. Only of a thread that alone has a request with its number
under way does it say which answer comes: its own, behind by what was given up.

`block_send` writes a header and then a body, without a lock: `block_sendHeader` and
`block_sendBody`. When another thread writes in between, the server reads what is no request
and answers nothing from there on (`whole` counts the requests it can
read).

Broadcasts come to the same listening thread by UDP. `job[b]` is what
`CBroadCaster::run` has sent of broadcast `b`: a header and a body, each a datagram,
each through a socket that all workers share and lock for one datagram.
`datagrams` are those on their way; the network loses (`Lose`), reorders and
duplicates them: `doServerDatagram` reads any of them, and may read it again.
`reading` is what the thread's parser is in
the middle of: the thread reads until a message is whole and blocks. `Parsed` says
what becomes of each datagram in each state of the parser; it is
nondeterministic where the lengths decide. `damaged` is a history variable: a
datagram was lost, overtaken or read twice, or the parts of two broadcasts have mixed. `hangup` is the
program's own `disconnect`.

### 3.6 ReadWriteMutex

State: the three fields of `CReadWriteMutex::_state` and where each thread is
(`out`, waiting or woken for either lock, or inside). A step is what a thread does
under `_state_change` between two waits. `signal` of `CCondition` is a broadcast.
Waits may end without a signal. `WriterGoesFirst` is what the flag does, and no more:
while a writer sleeps no reader gets in. The last reader clears the flag when it
wakes the writer, so other readers may overtake it and it sleeps anew; that it
gets its turn is not promised and not claimed. At this commit the class is offered by `event.h`
and instantiated nowhere.

### 3.7 Log

State: `queue` is `_queue`; `logfp`, `pos`, `fnumber` the logger's file, what
`ftell` says of it, and its number; `files` what is on the disk, which outlives the
process; `pc` and `hand` where the two threads that call `update` are, the log
thread and the one in the destructor, and the record each has in hand;
`cancelled` whether `pthread_cancel` was called. Sizes are counted in records.
`Restart` starts the next run of the server, after the end of the process or at
any moment before it (a kill). `late` is a history variable: the log thread has
received a record after it was cancelled. `fault` is the use of the deleted queue
or of a closed file; both can be reached, by threads that still print when the
destructor has deleted the queue, and by the two writers while one is between
`fclose` and `fopen`.

## 4. The runs

Passing runs check every property named; a run that is expected to fail checks a
single one that states what the code or its comments say and that does not hold.

| Run | Instance | What it shows |
|---|---|---|
| `hall` | 3 clients, 2 rooms of 2 places, 2 workers, one watcher per session, ids modulo 2 | handlers of different clients interleave between their locks; rooms agree with their clients; whoever has a seat knows it and has no other; two players that are Ready play, one of them moves, and both start in one step; a client loses its session only by the two faults of 3.1 |
| `hall_hangup` | 3 clients, 1 room of 2 places, 2 workers, one watcher per session, ids modulo 2, fair | lines break between any two messages of a client, at any step of another's handler or cleanup: the client ends Offline and out of every room and session, unless an assertion fails first |
| `hall_ghost` (violated) | one watcher, 1 worker | a client enters a session whose seats are both free and gets none |
| `client_io` | 2 epoll threads, 3 requests of which the last is malformed, 2 notifications, room for 3 units | responses and notifications never mix, stay in order, and the client is always in a set, in an epoll thread's hand, in the pool, or gone |
| `client_io_break` | the line breaks at any moment, fair | the client is cleaned up |
| `client_io_pieces` (violated) | a header in two pieces | the client is ended |
| `pool` | 2 workers, 4 jobs, spurious wakeups, fair | no signal is lost, nobody is listed twice, the pool implements `JobQueue`, and each job is run unless a missing job or worker is used |
| `login` | 3 peers (two with one name, one with another address), 2 descriptors, keys good for 0 ticks, the map swept beyond 1 key, 1 tick, from the start of the engine on | the list agrees with who is logged in; a connection in use keeps its descriptor, unless it has the number of a rejected one; keys are good for their time; old ones do not pile up |
| `login_race` (violated) | the same | a peer is told of success and rejected |
| `lib` | 3 threads, two of which share a number, 2 broadcasts, 4 requests, broadcasts and messages unasked in all (`Work`), datagrams lost, reordered, duplicated and mixed, fair | the answers to a number are taken in order and once, and each timeout shifts what follows by one; broadcasts that arrive whole, unmixed, once and in order end nothing and keep no answer waiting; and the loss of the connection is noticed |
| `rwmutex` | 4 threads, waits that end at any time, fair | a writer is alone, no reader gets in while one sleeps, nobody sleeps on what will not come, and whoever waits is woken |
| `log` | 2 threads with 3 records in a run, files of 2 records, 1 file that cannot be opened, 2 runs, fair | records are written once and in order until exit begins, and before long; what is lost is bounded by the files that failed and the record the cancelled thread had; files keep their size but for the excess that a restart and the two writers at exit make; exit ends unless the cancelled log thread takes the record that the destructor has counted |

Bounds. Three clients are two players and one who watches, enters or leaves, and
three is one more than a room of two places takes. Two rooms are needed only for a
client that leaves one and enters the other. Two workers are enough for any two
handlers to interleave; the proofs cover more. Ids modulo 2 make the wrap of
`genid` (20000 in the code) happen. In `client_io` two epoll threads are needed
for a descriptor to be in two sets, and three requests leave two responses that must
keep their order before the one that ends the client; buffers of 1 and 3 units against messages of 2
make a message fit, fit in part and not fit. In `pool` four jobs for two
workers make the manager wait for a worker, and workers return while others are
handed a job. In `login` two descriptors for three peers make a number be used twice.
Two jobs of requests run at a time there (`MaxJobs`), which is what it takes for one to
read the clock before another's sweep; of the three peers one sends
requests after it has connected (`Repeating`), the others before.
In `lib` four pieces of work are enough for a thread to be late, be answered wrongly and go on, for
two to take each other's answers or to write into each other's requests, and for
two broadcasts to lose each datagram and mix in each way. In `rwmutex` four threads
are two readers, a writer that waits and one more reader or writer that comes. In
`log` three records fill a file and begin the next, and the second run begins with
a file that is full.
Symmetry is used in safety runs only.

Deadlock is checked in all runs of the hall; a process that has ended stays as it is (`Exited`). The other configurations turn it
off since their systems stop: a client whose line has broken, a pool whose jobs
are done, a library whose threads have made their requests. In `rwmutex` it is
checked too: a thread can always do something.

Fairness. `Hall`: the steps of a handler and of a cleanup go on, since the thread
that runs it does. `ClientIO`: the epoll threads, the login job and the task's workers go on, and the
peer reads what it is sent, until the line breaks. `ThreadsPool`: each thread goes on when it can. `LibCcni`:
the listening thread, and a broadcast whose header was sent goes on to its body.
`ReadWriteMutex`: whoever is inside leaves, and whoever was woken runs; that it then
gets the lock is not assumed. `Log`: the log thread and the thread in the
destructor go on. No run assumes that a peer sends, that a lock is given
to one particular thread among several, or strong fairness where the code gives
none.

## 5. What is proved

The proofs assume only the named assumption of each module on its constants: sets
of clients, workers, descriptors and so on of any size, messages and files of any
length. Where an argument counts threads, the set is finite. One theorem
has a condition of its own, and says so: `WokenForGood`. Every safety property of a passing run is stated by a
theorem for all values of the constants; what an induction needed beyond the
property was checked by TLC on the instances of section 4 before it was proved.

**Hall** (`HallProofs`). `TypeOK`, `RoomsAgree`, `PlacesAgree`, `RoomAsserts`,
`PlayersAgree`, `NoEmptySession`, that no room exceeds its capacity (`CapacityHolds`)
and the action property `StartsTogether`. None of them is inductive alone: that a
client's fields agree with a room at rest follows only when one knows, for every
step of every handler, what the client has done already and what it holds. The
invariant `IInv` says this per step, and the two states of the players of a
session are related through the seats, which only the session's lock protects.
`PlacesAgree` says what remains true in spite of the sessions that share an id and
the client without a seat, and no more.

`LossesHaveCauses` is the action property `LossesExplained`, for any number of
clients, rooms, workers, watchers and ids. Its lemmas go by who takes the step. A step
of another client leaves what `c` believes (`OthersBelieve`) and, unless it publishes a
session with the id of the one `c` is in, leaves `c` its place (`OthersKeepPlace`); it is there that
`leave` must free one seat only, and the last one out, who removes the session, must have been
alone in it. A step of `c` itself makes it believe in a session only together with the
place, but for `enter` with both seats free (`LostByItself`). And an `ASSERT` that
fails looks for somebody who is not there, so its client was lost (`OnlyLostFail`).

**ClientIO** (`ClientIOProofs`). Two arguments. `Attended`: a client whose task lives is watched or
in somebody's hand, and one whose task was deleted is never registered. The step
that could break the first half is the cleanup, the one that could break the
second a notification to a client that was cleaned up. The strengthening is `EndsBusy`:
a client is never Idle once it was cleaned up, because every failure of a read or
a send leaves another state; the lemmas on `donotify`, `dosend` and `doread` show
that for each function.

`TypeOK`, `NeverMixed`, `NotesInOrder` and `AnswersInOrder` are about the stream. The
invariant `OInv` says for each IO state where the socket stands (`ToSend`, `ToNotify`,
`ToRead`): in the middle of exactly the message that the next call goes on with, or at
the end of one, with the notifications not begun still queued and the requests
that were served answered. `dosend`, `donotify` and `doread` each take
one of the three to another one (`Result`), and so does `doWork`, which runs through them.
Two messages are told apart by their names, so notifications are not numbers
(`Notes \cap Nat = {}`).

**ThreadsPool** (`ThreadsPoolProofs`). `TypeOK`, `NoLostWakeup`, `WorkersOnce`, that a
worker is handed a job only when it has none (`HandsToFreeWorker`), that no job or worker is missing when there are no spurious
wakeups (`WokenForGood`), and that the pool implements `JobQueue`. The invariant
relates the position of each thread to the lists: a worker that is handed a job
has an empty slot, a job is in one of the queue, the manager's hand, a slot or a
worker, and a thread that sleeps has nothing to find.

**Login** (`LoginProofs`). `ListAgrees` and `OwnDescriptor`, for any number of
peers that use one name, whoever is rejected. Both are inductive together with the types and `Given`,
that a connection in the hands of the server has a descriptor. That `accept`
takes a free number needs that a set of numbers has a lowest one.

`TypeOK`, and the action property `KeysInTime`. Its first half needs to know where each
good key is: a key that is on its way to a peer, or comes back from one, is in the
map as long as its time has not run out, and no other job is about to send, or
to remove, the same one (`GoodKept`). A job sweeps by a time that is not later than the present
one, so it takes no key that is still good. The second half is the sweep's: it leaves
nothing that is too old by the clock of its job, and it runs when there are more than
`CleanThreshold` keys. The bound on serial numbers (3.4) is used in the first half.

**LibCcni** (`LibCcniProofs`). `TypeOK`, `InStep`, and the action property
`LagsByLate`. For each number of a thread, whoever shares it, the requests go on without a gap
from the answer that was taken last through the queue, the wire and the requests the
server has not answered, up to the last one sent (`Turn`); and the answers taken, the waits
given up and the requests under way add up to those that were sent (`Counted`). While the line is up both
are equations, and the lag of an answer follows; afterwards they are inequalities,
as a queue may end early. For `InStep` the invariant follows the datagrams: as long
as nothing was lost, overtaken, duplicated or mixed, each header on the way is followed by its body,
beginning with what the parser has read (`Whole`).

**ReadWriteMutex** (`ReadWriteMutexProofs`). `TypeOK`, `Exclusion`, `NoLostWakeup` and
the action property `WriterGoesFirst`, for every finite set of threads. `Exclusion`
relates the count to the number of threads that are inside, so each step needs
what adding or taking away one thread does to a cardinality; the flag that stops readers is
set only by a writer that finds somebody inside, and that one clears it.

**Log** (`LogProofs`). `TypeOK`, `InOrder`, `AtMostOneLost` and `SizeBound`. Both
threads that write take from one queue, so a record is in one place at a time
(`Once`); a record leaves its place for none only in `createFails` and when the log
thread is cancelled (`Lost`). Until exit begins only the log thread takes, and what
is in the files comes before what it has in hand, and that before what is queued
(`Ordered`). Afterwards this fails, and `InOrder` does not claim it. That a file
outside the range of numbers is never needed takes a count: there are no more
file numbers given out than records that left the queue (`Numbered`); that a file's
position is bounded, that it holds no more than was written (`Long`). `SizeBound`
is independent of the records: whoever may still write a file has found it not full,
and there is one of them until the process is cancelled and two afterwards (`Sized`).

Only model-checked: liveness (`HangupEnds`, `BreakCaught`, `Served`,
`LossNoticed`, `AnswersRead`, `WaitersWoken`, `WrittenSoon`, `ExitEnds`), which is out
of the prover's reach; and the three properties that runs expect to be violated.

## 6. What the code does not do

1. `hall_ghost`: `CSession::enter` (`room.cpp:113-136`) takes no seat when both
   are free, which happens when both players have left and a watcher stays, and
   returns 0. When that client leaves, `room.cpp:247` asserts and ends the server.
2. `client_io_pieces`: `client.cpp:85` tests two states of the parser, one of
   which is 0; a header in pieces ends the client, where the comment says it waits.
3. `login_race`: "Login success." is sent before the name is taken.

Others are stated in the models and have no run of their own:

- `ReadyFindsSeat` (`Hall`): `genid` (`room.h:81-86`) is not under a lock; two sessions
  with one id replace each other in the map, and `room.cpp:170` asserts. TLC finds it
  with two workers.
- `SendingEnds` (`ClientIO`): a notification may register a client's descriptor for
  input while its answer is being sent; the registration for output then fails, and
  the rest of the answer stays.
- `PonderingHasMover` (`Hall`): the player who is left in a game when the other hangs
  up stays in a state that allows no message.
- After a rejected `addClient` a descriptor number is closed twice, and whoever has got
  the number in between loses it (`OwnDescriptor` says that nobody else does).
- A late answer is taken for the next one for good (`LagsByLate` says by how much),
  also by a later thread with the same id; threads whose ids agree in 32 bits take
  each other's answers; threads that write at the same time may leave the server with nothing it
  can read.
- When the connection breaks before `connect` has returned, `_connected` is set for good
  (`libccni.cpp:101`; `LossNoticed` leaves that case out).
- Lost, duplicated, reordered or mixed broadcasts can end a connection that stands, or hold its thread (`InStep` and
  `AnswersRead` say that nothing else does).
- A file of the log may exceed its size after each restart (`SizeBound`), and exit
  may wait for a record that the cancelled log thread took (`ExitEnds`).

## 7. What is not modelled

The end of the engine (its threads are cancelled, and the signal handler runs in
whichever thread was interrupted), the destruction of the pool, the console and
the counters; the first half of the library's `connect` and a second `connect` on
one object; the formatting of log records, their levels, and rotation by date,
which only the event logger asks for and nothing writes to; whom a notification or
a broadcast is addressed to; configuration, the database (its result is ignored by
`doLogin`), XML, and the tools. Data races that the models take as atomic: the
fields of a client read by other threads are single words; the walk over
`_usrlist` in `leaveSession` and the second look at the map in `getMsgQue` are
undefined behaviour and are listed as hazards, not modelled. Memory is modelled
where it decides what happens (the task of a client, the queues of the library)
and not elsewhere.
