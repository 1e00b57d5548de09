# TLA+ specifications of TSF4G

TSF4G is a small framework for game servers: processes on one machine exchange
packets over rings in shared memory (`tbus`), a connection server (`tconnd`)
sits between TCP clients and such a ring, and libraries for logging, timers,
pools and application loops support both.  This directory holds TLA+ models of
its parts, the TLC configurations that check them, and proofs that TLAPS checks.

    tlc  -config MCTbus_safety.cfg MCTbus.tla      # any run of the table below
    tlapm TbusProofs.tla                           # any module of proofs

## 1. Inventory

| Part | State it keeps | Operations | Talks to |
|---|---|---|---|
| `tbus` ring (`tbus/source/tbus.c`) | `head_offset`, `tail_offset`, `packet_size`, `size`, the buffer, all in shared memory | `tbus_init`, `tbus_send_begin/end`, `tbus_read_begin/end` | two processes, without locks |
| `tbusapi` (`tbusapi/source/tbusapi.c`) | a batch of iovecs | `tbusapi_process`, `tbusapi_send` | a ring each way, the application's `on_recv` |
| `tbusmgr` | none after it exits | creates and lays out a segment | the processes that attach |
| `tconnd` sockets and pools (`tconnd_socket.c`, `tconnd_mempool.c`) | a pool of sockets with serial numbers, a pool of buffers for incomplete packages, four intrusive lists | new, delete, accept, send, flush, recv, close | kernel sockets, both rings |
| `tconnd` listener, loop, timer, bus (`tconnd_listen.c`, `tconnd_epoll.c`, `tconnd_timer.c`, `tconnd_tbus.c`, `tconnd.c`) | readable, pending, package and writable lists; ticks | one pass: epoll, commands, timeouts | epoll, a timerfd, the backend |
| `tconnapi` | the two rings of a backend | accept, send, close; connect and receive callbacks | `tconnd`, over two rings |
| `tsocketapi` (`socketapi.c`) | one receive buffer, one descriptor | open, process, send | `tconnd`, over TCP |
| `tlog` | the appenders of an instance, their files and indices | init, write, fini | files, a ring to `tlogd` |
| `tlogd` | a ring and a `tlog` instance | a `tbusapi` loop | `tlog` of other processes |
| `tapp` | `g_tapp_sigterm`, threads | `tapp_loop`, `tapp_spawn`, signals, pid file | every daemon |
| `tutils` | timer wheel, memory pool, hash table, lists | push, pop, tick; alloc, free; insert, remove | every other part |
| `tools/start-stop-daemon` | vendored from Debian | | not part of the program's logic |

### Where the difficulty is, and what makes each part correct

* **tbus.** Two processes, no lock, two offsets.  Each works on a copy of the
  other's offset that is out of date when it is used; free space is whatever
  the offsets say it is; either process may be killed anywhere and attach again.
  Correct: the space given to the sender overlaps nothing unread, a packet is
  delivered once, whole and in order (again only after the receiver died inside
  a batch), full is never taken for empty, and neither side waits for ever.
* **tconnd.** One thread, but clients, the backend, the kernel's edge-triggered
  events and the clock interleave with every call it makes.  A socket may be
  deleted by five different paths while it is on up to four intrusive lists and
  while commands that name it are still in the ring.  Correct: a list holds
  exactly the sockets whose flags say so and no freed one; a command reaches
  only the connection it was meant for; no socket keeps a pointer into the ring
  past the end of the batch; the stream is cut into packages without loss; a
  connection that is not accepted, or a package that is not completed, in time
  is closed.
* **tconnapi.** A command that finds no room is thrown away in silence, and a
  batch is released only after all its callbacks.  Correct: the backend hears of
  a connection before its data and of its end once; a request is answered once,
  to the client that asked.
* **tsocketapi.** One buffer for all connections, `recv()` cuts anywhere,
  `errno` outlives the call that set it.  Correct: packets are handed over whole
  and in order; a server never gets a packet after a part of one.
* **tlog, tlogd.** A record passes a thread, a ring, a daemon and two appenders;
  the daemon is stopped or killed between any two of its steps, days end, calls
  of the file system fail.  Correct: a record given back to the ring has been
  written; a record is repeated only after a kill; files keep the latest
  records, days keep their own.
* **tutils.** Correct: the wheel fires a timer once, at its tick; an identifier
  with a stale serial number never passes the pool's test; the table finds what
  was inserted and not removed.
* **tapp.** A flag that threads and a signal handler share without protection; a
  `pthread_create` that fails half-way.  Correct: every function of a loop is
  called again until a signal or an error; `tapp_spawn` returns after all its
  threads, with the right verdict.

## 2. Modules

| Module | Models | Built on |
|---|---|---|
| `Channel` | what a ring promises: a FIFO of numbered packets | |
| `Tbus` | `tbus.c` and `tbusapi.c`: sender, receiver, shared memory, crashes | |
| `TbusInv` | its properties, the inductive invariant, the refinement of `Channel` | `Tbus`, `Channel` |
| `TbusProofs` | the theorems about `Tbus` | `TbusInv`, TLAPS |
| `Sessions` | what `tconnd` promises its backend about each client | |
| `Tconnd` | the connection server with clients, kernel, clock and backend around it | rings seen as channels |
| `TconndInv` | its properties, the refinement of `Sessions` | `Tconnd`, `Sessions` |
| `TconndCore`, `TconndProofs` | the theorems about `Tconnd`, from its lists upwards | `TconndInv`, TLAPS |
| `Echo` | the chain of `tutorials/tconnd`: robots, `tconnd`, backend with `tconnapi` | `Sessions` |
| `EchoProofs` | the theorems about `Echo` | `Echo`, TLAPS |
| `SocketApi` | `socketapi.c` with its network and server | |
| `SocketApiProofs` | the theorems about what it sends and what it delivers | `SocketApi`, TLAPS |
| `RollingFile`, `DailyDirectory` | the two appenders that write files | |
| `Tlogd` | threads, ring, log daemon with both appenders, calendar, faults | `Channel`, `RollingFile`, `DailyDirectory` |
| `TlogdProofs` | the theorems about `Tlogd` | `Tlogd`, TLAPS |
| `Tapp` | `tapp_spawn`, `tapp_loop`, the signal flag | |
| `TappProofs` | the theorems about `Tapp` | `Tapp`, TLAPS |
| `TimerQueue` | what a timer queue promises | |
| `TlibcTimer` | the timer wheel of `tutils`, its properties, the refinement of `TimerQueue` | `TimerQueue` |
| `TlibcTimerProofs` | the theorems about `TlibcTimer` | `TlibcTimer`, TLAPS |
| `MCTbus`, `MCTconnd`, `MCEcho`, `MCSocketApi`, `MCTlogd`, `MCTapp`, `MCTlibcTimer` | small instances for TLC | |

How they compose: `Tbus` is proved to implement `Channel`, and `Tlogd` uses
`Channel` as the shared memory between threads and daemon.  `Tconnd` is proved
to implement `Sessions`, and `Echo` puts robots and a backend around `Sessions`.

An operator whose comment begins with *Mutant* is a plausible mistake in the
code that follows it.  It is used by no action; putting it in place of the
definition after it makes TLC report the property it stands against.

### Tbus

State: the fields of `tbus_t` under their own names, and for each process a
program counter (`wpc`, `rpc`) with the local variables that live across shared
accesses: the sender's copy of the head (`whead`) and the space it was given
(`wgrant`), the receiver's copy of the tail (`rtail`), its cursor (`curr`), the
packets found (`iov`) and how many `on_recv` has accepted (`pos`).

Every load or store of `head_offset` and `tail_offset`, every write into the
buffer and every round of `peek()` is an action.  `SendBegin` is the load in
`tbus_send_begin`; `NoRoom`, `MarkIgnore`, `Wrap` with `SendAgain`, and `Grant`
are its outcomes; `Decline` and `Encode` are the caller (`tlog_appender_shm`
declines, `tbusapi_send` encodes); `PutHeader`, `SendEndHead` and `Publish` are
`tbus_send_end`, which looks at the head a second time.  `ReadBegin`,
`PeekPackage`, `PeekSecond` and `PeekLast` are `tbus_read_begin` with the
segments before and after the end of the buffer; `OnRecv`, `OnRecvRefuse`,
`OnRecvAll` and `ReadEnd` are `tbusapi_process`.  `TbusInit` is the two stores of
`tbusmgr`; processes may attach before them.  `SenderCrash` and `ReaderCrash`
kill a process anywhere and start it again on the same segment.

A cell of the buffer is a header or *junk*; a header occupies `HeaderSize` cells
of which the first stands for it.  A payload is the number of its packet, which
is what lets the properties say that a batch holds the right packets.

### Tconnd

The server has one thread, so a step is one call of a handler (`tconnd_listen`,
`tconnd_socket_recv`, one command for one connection, one flush, one timeout),
and everything else happens between calls.

| Code | Model |
|---|---|
| `g_socket_pool` with `sn`, `used_list_num` and the list of unused units; `g_package_pool` | `pool` |
| `tconnd_socket_t` | `sock[s]`; `who` is the client, for the properties only |
| `readable_list`, `g_pending_socket_list`, `g_package_socket_list`, `writable_list` | sequences of sockets |
| `iter` and the saved `next` of `tconnd_epool_proc` | `iter`, computed before the handler's effect |
| `epoll_wait`, EPOLLET | `EpollWait` and `edges`: an event is reported once |
| the connections in the accept queue | clients `accepted + 1 .. arrived` |
| the bytes of a client | halves of packages: `stream` sent, `got` received; `huge` an oversize length |
| the timerfd | `expired` ticks not read, added to `g_cur_ticks` |
| the output and input tbus | the sequences `output` and `input` |
| `tbus_read_end` after the batch | `InputEnd` releases the batch as a whole |
| exit, kill, start | `Restart` |

Choices worth knowing:

* `epoll_wait` is called with a timeout of 0 and only while `readable_list` is
  empty, as in the code.
* The fields of a socket in the pool are normalised (`Unused`); in the code they
  keep old values until `tconnd_socket_new` overwrites them.  The one reader of
  a freed socket is `ServeFreed`, which models what happens then.  After it
  (`pc = "wrecked"`) the list of unused sockets is a cycle and the model stops;
  the properties about lists, pools and events are conditional on `Sane`.
* `OutputFull` replaces the arithmetic of ring space by a number of messages.
  `Tbus` has the arithmetic.
* The properties of `Tbus` justify the two sequences: `Channel` is what `Tbus`
  is proved to implement.  The backend here takes one message at a time and is
  not restarted.
* Errors of `accept()`, of `epoll_ctl()` on the listener and of `tbus` end the
  process; that is `Restart`, which may happen anywhere.

### TlibcTimer

`slot[t]` is the list a timer is linked into, `<<vector, index>>`, `PushSlot` is the
choice `tlibc_timer_push` makes, `TickBegin` is `tlibc_timer_tick` up to its loop,
with the cascades, `Fire` one round of the loop.  Callbacks are `Push` and `Pop` in
phase `"callback"`.  The sizes of the vectors are constants `TVR_SIZE` and
`TVN_SIZE` and `Unit(k)` is the number of ticks of a slot; in the code they are
powers of two, and its shifts and masks are divisions and remainders here.  The
order of the timers in a slot is left open, so what is checked does not depend on
it.

### Sessions and Echo

`Sessions` has no sockets, lists or commands: for each client what was last said
of it (`told`), what was forwarded (`forwarded`), whether the backend has
accepted it (`established`), and the messages in the output ring.  `IsSessions` in
`TconndInv` maps `Tconnd` to it: `established` is computed from the sockets, a
message loses its cid and keeps the client it was meant for.  So an order of
messages that holds in `Sessions` holds for `tconnd` under everything `Tconnd` has:
batches, restarts, evictions, commands for connections that are gone.

`Echo` adds both ends.  A robot (`robot_test_login` in `tconnd_client.c`) opens a
connection, sends a request, waits for the reply, compares it, and ends the process
when it is another one's; its state is the function it is in, `again` is whether its
`errno` says to try again.  `Create`, `Signalled`, `Join` and `AllJoined` are
`main()`, `init()` and `fini()`.  The backend is the three callbacks of
`tconnd_server.c` (`OnConnect`, `OnRecv`, `OnClose`), each with the command it sends
through `tconnapi_send`, which throws a command away when the ring is full
(`thrown`).  `ReadBegin`, `ReadEnd` and `Kill` are the batch of `tbusapi_process`: a
backend killed before `ReadEnd` gets the batch again.  `Tconnd(r)` is what the
server does with robot `r`, in the steps of `Sessions`.  Two paths cannot be taken
here and are left out: the robots send packets of the right size only, so `on_recv`
never closes, and the encoder of the backend never fails.

### SocketApi

`RecvBytes(n)` is one call of `socketapi_process` in which `recv()` returns `n`
bytes: `Cuts` finds the packets in the buffer as its loop does, `Whole` is what
`on_recv` gets, `Remainder` what stays.  `RecvNothing`, `RecvAgain`,
`RecvInterrupted`, `RecvFails` and `NotOpen` are its other outcomes.  The actions of
`Send` are `socketapi_send` with `socketapi_open`: `errno` is a variable, because the
code reads it after calls that do not set it; EAGAIN and EINTR are told apart,
since `socketapi_open` goes on with the one and not with the other.  A byte says
which connection and packet it belongs to and where in it.  `delivered` and `seen` are
history, `exact` and `cut` remember that one of the accidents of section 6 has
happened, and `asked` how many packets had been sent on a connection when `errno`
first told to try again.

### Tlogd, RollingFile, DailyDirectory

The daemon is at one of `"down"`, `"loop"`, `"rolling"` and `"daily"`: the last two
are the points between `tlog_write`'s call of one appender and the next.
`MakeMessage` dates a record; `Write` puts it in the ring; `OnRecv` takes the next
packet of a batch; `AppendRolling` and `AppendDaily` are one call of an appender
each, with every combination of failing `rename()`, `fopen()` and writes, and
`ftell()` failing (`RollingDrops`); writes that fail leave nothing of the record;
`ReadEnd` returns the batch; `Stop` is a signal, `Kill` a kill between two steps,
`KillInAppender` one between the `rename()` and the write.  Files and directories
survive, `fout`, `index` and `day` do not.  A record has a length, a level and a
day.

### Tapp

`pc` is where `tapp_spawn` is, `state[w]` where worker `w` is.  `Create` and
`CreateFails` are rounds of the first loop, `Join` of the second; after a failed
creation the code sets the flag and joins the started ones (`CancelJoin`) and the
one it could not create, by an identifier it never wrote (`CancelUninitialised`:
it returns, blocks for ever or ends the process).  `tapp_loop` is `PassBegins`,
`Call(w, r)` with each result `r`, the three ends of a pass and `Usleep`; `OnSignal`
sets `g_tapp_sigterm` at any time.  A step is one call of a function, since the flag
is one word, read and written whole.

## 3. What the runs check

| Run | Expect | Properties | Question |
|---|---|---|---|
| `tbus_safety` | pass | `TypeOK` `GrantedSpaceIsFree` `PacketsIntact` `NeverDiscards` `BatchInOrder` `EqualIsEmpty` `IInv` `IsChannel` | is anything lost, overwritten, repeated or misread? |
| `tbus_live` | pass | `AllReleased` | can both sides wait for ever? |
| `tbus_log` | violation | `AllReleased` | does every log get through on the bus of the tutorial? |
| `tconnd_stream` | pass | `ListsAgree` `PoolsAgree` `DeadlinesInOrder` `NoLostEvent` `IsSessions` | are lists, pools, deadlines and edges right whatever clients do, and is what the backend hears in order? |
| `tconnd_commands` | pass | `TypeOK` `ListsAgree` `NoDanglingIov` `CidsUntilRestart` | is any sequence of commands safe? |
| `tconnd_forward` | pass | `StreamCut` `Deadlines` `PackagesForwarded` | is the stream cut without loss, does it arrive, do timeouts come? |
| `tconnd_full` | violation | `Deadlines` | with as many clients as sockets? |
| `timer_wheel` | pass | `DrainsWhatIsDue` `IsTimerQueue` | does each timer fire in its tick? |
| `tapp_spawn` | pass | `AllJoined` `Verdict` `Stops` `EveryFunctionCalled` | are threads joined, failures told, and all functions called? |
| `tlogd_logs` | pass | `NothingSkipped` `RepeatsOnlyAfterKills` `RollingKeeps` `DailyKeeps` `Drained` | is a record lost, repeated or misfiled on the way to a file? |
| `socketapi_cut` | pass | `TypeOK` `Delivery` `Framed` `Received` | is the stream cut into the packets the server sent? |
| `echo_chain` | pass | `RepliesMatch` `NothingThrown` `Answered` `Ends` | does each robot get its own reply, once, and end when told to? |

### Bounds, and why they are enough

* **tbus_safety.**  A header of two cells, so that a remainder smaller than a
  header exists; packets of four; a buffer of three packets; batches of two, so
  a batch can be cut short and can wrap; messages of one and two cells, one
  larger than a packet, one whose encoder fails; five packets, which take the
  tail more than once round; one crash of either side.  1.1 million states.  For
  safety these bounds carry no weight: the theorems hold for all of them.
  The same is true of `tconnd_stream` and `tconnd_commands`, whose properties are
  all proved (`TconndProofs`).
* **tbus_live.**  A bus of one packet is the hardest case: the sender has no
  space until the receiver has moved the head over a gap, in a batch that holds
  no packet.  Messages that fit, since a larger one need not get through; two
  crashes.
* **tconnd_stream.**  Two clients and three sockets.  A socket to spare is
  needed: with none the listener blocks everything (`tconnd_full`).  One package
  buffer, so that evictions happen, that of the next socket of the loop
  included.  Two halves for each client, one message of output, two commands,
  timeouts of one tick.
* **tconnd_commands.**  Two sockets, two clients, two commands of every kind,
  each to one or two connections, and at most one iovec for a socket, so that
  the limit of the list of iovecs is reached by the second send.  Halves are not
  needed.  One restart.
* **tconnd_forward.**  Three package buffers, so that no eviction spoils
  liveness; two halves for each client, and closing.
* **Clock of tconnd.**  It stands still while no deadline lies ahead, which
  bounds it and loses nothing: a deadline is compared with the clock only.
* **timer_wheel.**  A first vector of four slots and four of two, 64 ticks
  instead of 2^32, 70 ticks in all so that the wheel goes round and
  `TLIBC_MAX_TVAL` cuts a delay; delays on both sides of every boundary and in
  the past; two timers, since only two meet in a callback.  Both properties are
  proved for every size and number of timers (`TlibcTimerProofs`).
* **tapp_spawn.**  Up to four workers asked for with `TAPP_THREADS` four, so that
  the limit refuses and three run; two functions in a loop; `idle_limit` two, so
  that a pass that found nothing need not sleep at once; one worker that does
  not call `tapp_loop`, the first (section 6 says what another one could do).
* **tlogd_logs.**  Two threads and a ring of two records, so that records are
  dropped and two threads meet at midnight; two days; a file of three and two
  backups, so that four records, short or longer than a file may be, go round the
  backups; a record below the daemon's level; one stop, kill or failing call at
  any point.  1.4 million states.  For everything but `Drained` the bounds carry no
  weight (`TlogdProofs`); the one assumption that is not a bound is a longest kind
  of record, and the code cuts a message to `TLOG_MESSAGE_LENGTH`.
* **socketapi_cut.**  A buffer of six bytes and packets of two and of four, so that
  packets are cut at every byte, inside the size too, and the buffer can fill
  up (all but `Received` is proved for any buffer); two connections, two packets
  on each, three calls of `socketapi_send`, so that a part can be followed by more.
* **echo_chain.**  Two robots; one message of output, so that `tconnd` waits for
  the backend; an input ring of one command for each robot, the least for which
  `NothingThrown` is stated; two requests, by one robot or by both; one
  connection refused or dropped, or one kill.  300 000 states.  For `RepliesMatch`
  and `NothingThrown` the bounds carry no weight (`EchoProofs`).

### Fairness, and why the code justifies it

`tapp_loop` (`tapp/source/tapp.c`) calls every function of a daemon again and again
until a signal: `EveryFunctionCalled` in `Tapp` is that statement, checked with one
function that always finds work.  So a process that can take a step takes one: weak
fairness of `Send`, `Process` and `TbusInit` in `Tbus`, of the server's `Process` in
`Tconnd`, of `Daemon` in `Tlogd`, of `Process` in `SocketApi`, of `Backend` and
`Tconnd(r)` in `Echo`.  The backend of `Tconnd` runs the same loop over its ring
(`BackendRecv`), and the timerfd expires because time passes (`TimerExpire`).  The
kernel schedules every thread: weak fairness of each worker and of `Spawn` in
`Tapp`, of each robot and of `Main` in `Echo`.  For the robots this takes it that no
`connect()` or `send()` tells to try again for ever; the loop around `connect()`
does not look at `g_working`, so `fini()` would then wait for ever.  Nothing is
assumed of clients, of the commands a backend sends, of signals, of faults, of kills
and of who starts a daemon again.

## 4. What is proved

### TbusProofs

From `TbusAssumption` alone (a packet holds at least a header; requests do not
use more than they insist on; everything else is any number):

| Theorem | States |
|---|---|
| `Invariance` | `Spec => []IInv` |
| `TypeCorrect` | every offset stays in the buffer |
| `NoPacketOverwritten` | a packet is intact until it is released |
| `NoOverlap` | the space given to the sender touches no unreleased packet |
| `NothingDiscarded` | the path that throws everything away is never taken |
| `InOrder` | a batch is the oldest unreleased packets, each as it was sent |
| `FullIsNotEmpty` | equal offsets mean an empty bus |
| `Refinement` | `Spec => IsChannel` |

None of the safety properties is inductive, because each process acts on a copy
of an offset that has moved on.  `IInv` says what an old copy is still worth:

* `Layout`: the unreleased packets tile the buffer from head to tail, in one
  piece, or from head to `top` and from 0 to tail, with a gap at `top`.
* `HeadSeen`: the sender's copy is a place where the head has been since the tail
  last went back to 0.  The head only moves away from the sender's space until
  then, so a space that was free for the copy is free for the head.
* `ReaderInv`: the receiver's copy of the tail is where the packets published
  at that time end (`LayoutAt(rsent, rtail)`), and its cursor is where the next
  packet begins that it has not taken.  Publishing changes neither, because new
  packets follow the old ones (`TailMoves`).

The proof has a lemma for each action, or group of actions that disturb the same
parts, below `SendKeeps` and `ProcessKeeps`; the lemmas about `Tile` (append, drop
a prefix, order) carry the arithmetic.  `AtCursor` and `PeekFinds` show that
`peek()` stands at a packet or at a gap, never at garbage.  The refinement follows
because `Publish` is the only step that changes `sent`, `OnRecv` delivers
packet `released + pos`, and `ReadEnd` releases what was delivered.

### TconndProofs

| Theorem | States |
|---|---|
| `Invariant` | `Spec => []IInv` |
| `TypeCorrect` | every list, counter and message keeps its type; the output ring and the iovecs keep to their sizes |
| `ListsAlwaysAgree` | a list holds exactly the sockets whose flags say so, each once, and none of the pool |
| `PoolsAlwaysAgree` | every socket and every package buffer is in use or unused, once |
| `NeverDanglingIov` | no socket points into the input ring after the batch |
| `DeadlinesAlwaysInOrder` | the deadlines along both lists never decrease |
| `NeverLosesEvents` | who has something to read is readable or about to be reported |
| `StreamsAlwaysCut` | what was received is what was forwarded and the half package in the buffer |
| `CidsNameTheirClients` | until a restart a command reaches only the client it was meant for |
| `ImplementsSessions` | `Spec => IsSessions` |

From `TconndAssumption` alone: any number of sockets, buffers, clients, halves,
commands and restarts, rings and batches of any size, any timeouts.  The
properties say little about what lies between two handlers; `IInv` adds

* `Core` (`TconndCore`): a live socket has a client of its own and a serial number
  that was given out; each list links its set of sockets (`Lists`); deadlines
  along a list are sorted and none lies further ahead than the limit from now,
  which is what makes the next one the last (`Ticking`); only accepted
  connections have events (`Owned`).
* `Writing`: in a batch `writable_list` is the writable sockets, in the flush what is
  left of it is.  A deletion by a command takes the socket off, one by the flush
  is at the cursor; a timeout or an eviction comes when nothing is writable.
* `Iterating`: `iter` is on `readable_list` or its socket has just been freed: what
  saving `next` before the handler costs (section 6).
* `Events`, `Streams`: no event is lost and no half package; of clients in the accept
  queue nothing has been received, so a new socket starts right.
* `Names`: until a restart, each name of a connection that the backend has, will
  have from the output ring, or has put into a command has a serial number below
  the next one, and fits a live socket only if it is its client's.
* `Says`: of a live socket the last thing said is that it has connected, of a
  client in the accept queue nothing: the order that `Sessions` demands.
* `Used`: `used_list_num` and the unused sockets are all sockets, until the double
  free of `ServeFreed`.  The other parts hold after it as well.

`TconndCore` begins with the lemmas about lists (`Unlink`, `Append` and `Tail` keep
a list linked to its set, and sorted) and shows for each change of a socket, whoever
makes it (`DeleteKeeps`, `NewSocketKeeps`, `AcceptKeeps`, `PackageKeeps`,
`WritesKeep`, `AgainKeeps`, `PollKeeps`), that it keeps `Core`; `TconndProofs` has
one `Step` lemma for each handler.  For the refinement every deletion is an `End` or
a `Drop` of the client's session, `Says` gives the guards of `Connect`, `Forward`
and `End`, and everything else is a stutter (`SilentMoves`, `SilentWrites`).

### TappProofs

| Theorem | States |
|---|---|
| `Invariance`, `TypeCorrect` | `Spec => []IInv`, `Spec => []TypeOK` |
| `NobodyLeftBehind` | no worker runs when `tapp_spawn` returns |
| `VerdictRight` | it returns success exactly if all were started and none failed |

For any limit, number of workers, of functions, and set of workers that return
of their own.  `IInv` follows the three loops of `tapp_spawn`: while it creates, the
workers below `i` are started and no other (`Creation`); while it joins, those
below `i` have ended and `ret` is success exactly if they succeeded (`Joining`);
after a failed creation those below `i` have ended (`Cancelling`).  `Verdict` alone
says nothing before the return.

### TlogdProofs

| Theorem | States |
|---|---|
| `Invariance` | `Spec => []IInv` |
| `NothingIsSkipped` | nothing given back to the ring is missing from an appender |
| `RepeatsAreCounted` | a log goes back at most once for each kill |
| `FilesKept` | `Spec => [](IInv /\ Kept)` |
| `Retention` | the rolling file and its backups hold the latest records and stay within their sizes |
| `Filing` | while days come in order nothing is lost and each record is under its day |
| `TypeCorrect` | `Spec => []TypeOK` |

For any threads, kinds of records, sizes, days and numbers of faults.  For what is
lost and what is repeated the invariant needs, for each appender, how far it is:
everything below `Place` is written or thrown away, and nothing above it (`Place` is
one record ahead for the rolling file between the two appenders).  For the count of
repetitions, `WillRepeat` says that the end of a log may lie ahead of `Place` only
by a kill that has not yet been paid for with a step back.

What the files hold needs a second invariant, `Kept`, beside `IInv`.

* `Rolling`: the file is an end of the log; without trouble so are backups and file
  together, and either every backup is in use or the backups below `index` are and
  nothing has been dropped.  It is `index` that says which backup is the oldest.
* `Sized`: a file that is not open, or whose next record is due, has not spent the
  record that trouble may cost it: each stop, kill or failed call allows one
  record more (`Cap`), and only the step that has the trouble uses it.
* `Filed`: the directories, and then the file, are the log; no directory from
  `latest` on is in use, so the file that is moved at a change of the day
  replaces nothing.
* `Fresh`: a daemon that never had trouble is down only before its first start.

`ByAge` and `FlattenSeq` put sequences together one after the other.  Both are
chains (`Chain`: each element is the one before it joined with the next piece),
a chain exists for any pieces (`ChainExists`), and what holds of a chain is shown
by taking the least place where it would fail (`LeastNatural`, `Upwards`).  So
replacing a piece that was empty, or dropping the first and adding one at the end,
is followed through the whole (`ChainGains`, `ChainShifts`).

### EchoProofs

| Theorem | States |
|---|---|
| `Invariance`, `TypeCorrect` | `EchoSpec => []IInv`, `EchoSpec => []TypeOK` |
| `RepliesRight` | no reply goes to a robot that does not wait for it |
| `RoomEnough` | with room for a command of each robot none is thrown away |

For any number of robots, rings of any size, any number of refused and dropped
connections and of kills (after one inside a batch both properties are silent).
`OneThing`: of the places where something of a robot can be (its connect message,
the accept command, its request on the wire, in the output ring, in the batch,
its reply in the input ring, on the wire) at most one is taken, and which one is
known from its state.  So the commands in the input ring are of different
robots; a ring with room for each cannot be full when one more is sent
(`RoomEnough`, by counting), and a reply can only meet the request it is for.

### SocketApiProofs

| Theorem | States |
|---|---|
| `Invariance`, `TypeCorrect` | `Spec => []IInv`, `Spec => []TypeOK` |
| `FramingKept` | what is sent on a connection before `errno` first tells to try again is whole packets up to the last |
| `Delivered` | however `recv()` cuts the stream, the packets delivered are those of the server, in order |

For a buffer of any size, any number of packets, connections and calls, and packets
of any size two bytes can say.  For what is sent, `IInv` says which packets of a
connection may be parts: those from `asked` on, and the last one of a connection
that is not in use (`Parts`); and that `errno` tells to try again only on a
connection for which `asked` is set (`Asking`), also when it is left from an earlier
one.  For what is received the invariant is `Onward`: what lies in the buffer,
followed by what the network still holds, is a stream of whole packets that goes on
where the packets delivered end (`Stream`, `Continues`), unless a connection was
opened over a part of a packet. A pass keeps it because the loop stops exactly at
the end of the last packet that is whole.  Where it stops is computed by `Cuts`, a
recursive function from the end of the buffer to its start: that it is defined is
shown by induction from the well-founded order of the numbers, and that each cut is
the end of a packet in the same way.

### TlibcTimerProofs

| Theorem | States |
|---|---|
| `Invariance` | `Spec => []IInv` |
| `NothingIsLate` | no timer stays queued beyond its tick |
| `DrainedInTime` | a tick drains what is due at it and nothing else |
| `Refinement` | `Spec => IsTimerQueue` |

For vectors of any sizes above one, any timers and delays.  The last two assume
that no callback pushes a timer `TVR_SIZE - 1` ticks ahead (section 6); the others
do not.  `IInv` places every queued timer (`Placed`).  A slot of the first vector
holds one tick of the next `Reach`, the range within which a residue tells ticks
apart (`Near`).  A slot of vector `k` stands for a range of `Unit(k)` ticks that has
not begun, and the timer is due in it (`Far`).  A cascade comes exactly when the
range of a slot begins (`CascadeIsTimely`), and then `PushSlot` finds a place in a
lower vector (`PushPlaces`); a timer beyond `MaxTval` is pushed again from the last
slot of the last vector.

### Only model-checked

* Liveness, all of it: it rests on fairness, which the prover does not reach.
* `Tconnd`: liveness only (`Deadlines`, `PackagesForwarded`).
* Every other property of a passing run is a theorem.  Its run is
  still worth having: TLC evaluates the assumptions there, and the mutants show that
  the property can fail.

## 5. Findings

* `tconnd_full`: after the last free socket is taken, `tconnd_listen` returns
  `E_TLIBC_TOO_MANY_SOCKET` without calling `accept`, the listener stays on
  `readable_list`, and `epoll_wait`, where data and ticks come from, is not
  called again.  No timeout can free a socket any more.
* `tbus_log`: `tlog_appender_shm_log` insists on `sizeof(tlog_message_t)`, more than
  a packet on the bus of `tutorials/tlog/tbus.sh`; close to the end of the buffer it
  is refused for ever.

## 6. Known limits of the code, and how the properties state them

Where the code does something that a property would have to exclude, the model
does it too, and the property says under which condition it holds.

* **tconnd.**  `tconnd_epool_proc` saves `next` before the handler
  (`tconnd_epoll.c`), and the eviction of a package may delete that very socket:
  `ServeFreed`, after which `Sane` is false.  Serial numbers start from 0 after a
  restart (`tconnd_mempool.c`): hence `CidsUntilRestart`.
* **timer.**  A tick drains its slot in place, so a callback that pushes a timer
  `TLIBC_TVR_SIZE - 1` ticks ahead is called again at once; `SafeDelays` leaves that
  delay out for callbacks, and `DrainedInTime` and `Refinement` assume it away.
* **tapp.**  A worker that does not call `tapp_loop`, fails, and is not the first is
  noticed only when those before it have been joined, so `Stops` is checked with
  `Plain = {0}`.  SIGUSR1 and SIGUSR2 set flags that `tapp_loop` does not look at
  (`tapp.h` says so of both).  After a failing `pthread_create` the worker that was
  not created is joined as well, by an identifier nobody wrote:
  `CancelUninitialised` may return, block for ever, or end the process.
  `pthread_join` stores a pointer into a variable of four bytes; it is taken as
  storing the result.
* **tlogd.**  A kill between the `rename()` at midnight and the end of the batch, or
  two threads that log around midnight, makes the day of the file go back, and
  the next change renames a file over the directory entry of a day: `in_order`
  in `DailyKeeps`.  After a restart `index` is 0, and the backup overwritten next
  need not be the oldest: `Troubles = 0` in `RollingKeeps`.  `tlog_fini` begins one past
  the last appender; the daemon ends right after it.
* **tsocketapi.**  When a pass of `socketapi_process` ends exactly with a packet,
  `recvbuf_size` is not set: the packets are handed over again with the next bytes,
  and a buffer full of them receives nothing more (`exact`, and `Room = 0` in
  `Received`).  A partial `writev()` does not set `errno`; when an earlier call has
  left EAGAIN or EINTR there, and one idle `recv()` is enough, the connection is
  kept with a part in it.  `Framed` claims nothing from there on (`asked`).
  `recvbuf` is kept when a connection is opened again (`cut`).  `recv()` returning 0
  does not close; `socketapi_send` takes a connection opened at once for a failure;
  the old descriptor is not closed. The `memcpy()` of overlapping ranges is taken as
  a copy forward.  No program of the repository uses this library.
* **echo.**  `recv()` returns 0 at the end of a connection and `errno` is stale: the
  robot waits until it is told to end (`Lost` in `Answered`).  A backend killed
  inside a batch answers twice: a robot may meet a reply it does not expect,
  and a second accept closes the connection (`kills = 0`).

## 7. Not modelled, and why

* `tbus` on a machine that reorders stores: each access is taken in program
  order, as on x86.  Offsets near 2^32.
* `tconnd`: option parsing, configuration, opening sockets, `TCP_NODELAY` and
  the like; the bytes of sizes and of encoded commands, so also the boundary at
  `package_size` (a length that makes a package of exactly that size passes the
  check, a remainder larger than it closes the connection).
* `tbusmgr`, `tapp`: option parsing and configuration, the pid file.
* `tlog`: the formats of a line, and macros that choose a level; `tlogd` is
  given records it can decode.
* `tutils`: the hash table and the lists are sequential and keep nothing across
  calls of this program but what `Tconnd` and `TlibcTimer` show as sequences and
  sets.
* `tconnd_client`: its statistics; a signal during `init()` is taken with the one
  after it.
* `start-stop-daemon` is vendored from Debian.  The tutorials other than
  `tutorials/tconnd` call one library each.
