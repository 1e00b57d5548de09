------------------------------- MODULE Tconnd -------------------------------
(***************************************************************************)
(* The connection server tconnd: one thread that accepts TCP clients, cuts *)
(* their streams into packages for a backend behind a pair of tbus rings,  *)
(* and carries out the commands that come back.                            *)
(*                                                                         *)
(* A step of the server is one call of a handler: tconnd_listen,           *)
(* tconnd_socket_recv on one socket, one command for one connection,       *)
(* tconnd_socket_flush on one socket, one timeout.  Between any two of     *)
(* them clients connect, send and close, the timer fd expires and the      *)
(* backend reads and writes.  The rings are the channels of module         *)
(* Channel.  A package on the wire is two halves, so that a client can     *)
(* stop, and recv() can return, in the middle of one.                      *)
(***************************************************************************)
EXTENDS Integers, FiniteSets, Sequences, SequencesExt

CONSTANTS
  Connections,         \* g_config.connections: units of g_socket_pool
  PackageConnections,  \* g_config.package_connections: of g_package_pool
  AcceptTicksLimit,    \* g_config.accept_ticks_limit
  PackageTicksLimit,   \* g_config.package_ticks_limit
  OpListMax,           \* TCONND_SOCKET_OP_LIST_MAX
  OutputLimit,         \* how many messages the output tbus holds
  CommandKinds,        \* commands the backend may send
  BroadcastMax,        \* how many connections one command may name
  ClientFaults,        \* what clients do besides sending good packages
  MaxClients,          \* bound: clients that ever connect
  MaxHalves,           \* bound: halves of packages sent by one client
  MaxCommands,         \* bound: commands ever sent by the backend
  MaxRestarts          \* bound: restarts of the server

ASSUME TconndAssumption ==
  /\ Connections \in Nat \ {0} /\ PackageConnections \in Nat \ {0}
  /\ AcceptTicksLimit \in Nat /\ PackageTicksLimit \in Nat
  /\ OpListMax \in Nat \ {0} /\ OutputLimit \in Nat \ {0}
  /\ CommandKinds \subseteq {"accept", "send", "close", "bad"}
  /\ BroadcastMax \in Nat \ {0}
  /\ ClientFaults \subseteq {"huge", "close"}
  /\ MaxClients \in Nat /\ MaxHalves \in Nat
  /\ MaxCommands \in Nat /\ MaxRestarts \in Nat

Slots   == 0 .. Connections - 1
Listen  == Connections            \* g_listen, when it is on readable_list
End     == Connections + 1        \* the head of a list: the end of a loop
Clients == 1 .. MaxClients
Invalid == -1                     \* tlibc_mempool_invalid_id

VARIABLES
  (* the pools: next serial number, unused sockets, used_list_num, and the *)
  (* number of unused package buffers                                      *)
  pool,
  (* the sockets, and g_listen.readable                                    *)
  sock, listen_readable,
  (* the lists that link them                                              *)
  readable_list, g_pending_socket_list, g_package_socket_list, writable_list,
  g_cur_ticks,
  (* the thread: where it is, iter in tconnd_epool_proc, and in            *)
  (* process_input_tbus the number of commands of the batch, the current   *)
  (* one, and the current cid in it or the current socket of writable_list *)
  pc, iter, batch, command, index,
  (* the clients, in the order of the accept queue: how many have          *)
  (* connected and how many of them have left the queue, halves sent and   *)
  (* halves received, who has sent an oversize length, who has closed      *)
  arrived, accepted, stream, got, huge, closed,
  (* the kernel: sockets with an event for epoll_wait, whether the         *)
  (* listening socket has one, and expirations of the timer fd not read    *)
  edges, listen_edge, expired,
  (* the rings, what the backend has heard of, how often it has spoken     *)
  output, input, heard, commands,
  (* history: clients whose connection the server has not closed, packages *)
  (* put into the output tbus, what was last said of each, and restarts    *)
  open, forwarded, told, restarts

sockets == <<pool, sock, g_pending_socket_list, g_package_socket_list,
             readable_list, edges, open>>
thread  == <<pc, iter, batch, command, index, writable_list>>
clients == <<arrived, stream, huge, closed, heard, commands>>
vars == <<sockets, thread, clients, listen_readable, g_cur_ticks, accepted,
          got, listen_edge, expired, output, input, forwarded, told, restarts>>

-----------------------------------------------------------------------------
(* tlibc_list_del on an entry that is on the list.                         *)
Unlink(list, x) ==
  IF \E i \in DOMAIN list : list[i] = x
  THEN RemoveAt(list, CHOOSE i \in DOMAIN list : list[i] = x)
  ELSE list

(* A socket as tcond_socket_construct leaves it, and one in the pool.  The *)
(* fields of a socket in the pool are not told apart: the next             *)
(* tconnd_socket_new overwrites them.                                      *)
Constructed(sn, who) ==
  [sn |-> sn, status |-> "closed", readable |-> FALSE, writable |-> FALSE,
   iov_num |-> 0, package |-> 0, pending_ticks |-> 0, package_ticks |-> 0,
   who |-> who]
Unused == Constructed(Invalid, 0)

Live(s) == sock[s].sn # Invalid

(* Commands and messages name a connection by the id and the serial number *)
(* of its socket; who, the client, is there for the properties.            *)
Cid(s) == [id |-> s, sn |-> sock[s].sn, who |-> sock[s].who]

Init ==
  /\ pool = [sn |-> 0, unused |-> [i \in 1 .. Connections |-> i - 1],
             used |-> 0, packages |-> PackageConnections]
  /\ sock = [s \in Slots |-> Unused] /\ listen_readable = FALSE
  /\ readable_list = <<>> /\ g_pending_socket_list = <<>>
  /\ g_package_socket_list = <<>> /\ writable_list = <<>>
  /\ g_cur_ticks = 0
  /\ pc = "poll" /\ iter = End
  /\ batch = 0 /\ command = 0 /\ index = 0
  /\ arrived = 0 /\ accepted = 0
  /\ stream = [c \in Clients |-> 0] /\ got = stream
  /\ huge = {} /\ closed = {}
  /\ edges = {} /\ listen_edge = FALSE /\ expired = 0
  /\ output = <<>> /\ input = <<>> /\ heard = {} /\ commands = 0
  /\ open = {} /\ forwarded = stream
  /\ told = [c \in Clients |-> "nothing"] /\ restarts = 0

-----------------------------------------------------------------------------
(***************************************************************************)
(* Pools and lists.                                                        *)
(***************************************************************************)

(* Mutant: tlibc_list_add instead of tlibc_list_add_tail.                  *)
NewSocketFirst(s, c) ==
  /\ sock' = [sock EXCEPT ![s] =
       [Constructed(pool.sn, c) EXCEPT
          !.status = "syn_sent",
          !.pending_ticks = g_cur_ticks + AcceptTicksLimit]]
  /\ pool' = [pool EXCEPT !.sn = @ + 1, !.unused = Tail(@), !.used = @ + 1]
  /\ g_pending_socket_list' = <<s>> \o g_pending_socket_list
  /\ open' = open \union {c}
  /\ UNCHANGED <<readable_list, g_package_socket_list, edges>>

(* tconnd_socket_new, with what tconnd_listen then stores in the socket.   *)
NewSocket(s, c) ==
  /\ sock' = [sock EXCEPT ![s] =
       [Constructed(pool.sn, c) EXCEPT
          !.status = "syn_sent",
          !.pending_ticks = g_cur_ticks + AcceptTicksLimit]]
  /\ pool' = [pool EXCEPT !.sn = @ + 1, !.unused = Tail(@), !.used = @ + 1]
  /\ g_pending_socket_list' = Append(g_pending_socket_list, s)
  /\ open' = open \union {c}
  /\ UNCHANGED <<readable_list, g_package_socket_list, edges>>

(* Mutant: an incomplete package is neither unlinked nor freed.            *)
DeleteKeepsPackage(s) ==
  LET established == sock[s].status = "established"
  IN  /\ sock' = [sock EXCEPT ![s] = Unused]
      /\ pool' = [pool EXCEPT !.unused = <<s>> \o @, !.used = @ - 1]
      /\ g_pending_socket_list' =
           IF established THEN g_pending_socket_list
                          ELSE Unlink(g_pending_socket_list, s)
      /\ readable_list' =
           IF established /\ sock[s].readable THEN Unlink(readable_list, s)
                                              ELSE readable_list
      /\ open' = open \ {sock[s].who}
      /\ edges' = edges \ {sock[s].who}
      /\ UNCHANGED g_package_socket_list

(* tconnd_socket_delete: tcond_socket_destruct, by status, and             *)
(* tlibc_mempool_free.  Closing the descriptor drops its events.           *)
Delete(s) ==
  LET established == sock[s].status = "established"
      buffered    == established /\ sock[s].package > 0
  IN  /\ sock' = [sock EXCEPT ![s] = Unused]
      /\ pool' = [pool EXCEPT !.unused = <<s>> \o @, !.used = @ - 1,
                              !.packages = @ + (IF buffered THEN 1 ELSE 0)]
      /\ g_pending_socket_list' =
           IF established THEN g_pending_socket_list
                          ELSE Unlink(g_pending_socket_list, s)
      /\ g_package_socket_list' =
           IF buffered THEN Unlink(g_package_socket_list, s)
                       ELSE g_package_socket_list
      /\ readable_list' =
           IF established /\ sock[s].readable THEN Unlink(readable_list, s)
                                              ELSE readable_list
      /\ open' = open \ {sock[s].who}
      /\ edges' = edges \ {sock[s].who}

-----------------------------------------------------------------------------
(***************************************************************************)
(* tconnd_epool_proc.                                                      *)
(***************************************************************************)
PollOnly == UNCHANGED <<clients, accepted, got, output, input, forwarded, told,
                        restarts, batch, command, index, writable_list>>

(* The connection's socket and event, and an order of a set of them.       *)
SlotOf(c) == CHOOSE s \in Slots : sock[s].who = c
OrdersOf(S) == {q \in [1 .. Cardinality(S) -> S] : ToSet(q) = S}

(* Nothing is left to read: epoll_wait, which reports every event once, in *)
(* an order of its own, and the ticks of the timer fd.                     *)
EpollWait ==
  /\ pc = "poll" /\ readable_list = <<>>
  /\ LET ready == {SlotOf(c) : c \in edges}
                    \union (IF listen_edge THEN {Listen} ELSE {})
     IN  /\ readable_list' \in OrdersOf(ready)
         /\ sock' = [s \in Slots |->
              IF s \in ready THEN [sock[s] EXCEPT !.readable = TRUE]
                             ELSE sock[s]]
  /\ listen_readable' = (listen_readable \/ listen_edge)
  /\ edges' = {} /\ listen_edge' = FALSE
  /\ g_cur_ticks' = g_cur_ticks + expired
  /\ expired' = 0
  /\ iter' = IF readable_list' = <<>> THEN End ELSE Head(readable_list')
  /\ pc' = "serve"
  /\ UNCHANGED <<pool, g_pending_socket_list, g_package_socket_list, open>>
  /\ PollOnly

(* Something is still readable from an earlier pass: no epoll_wait.        *)
SkipEpollWait ==
  /\ pc = "poll" /\ readable_list # <<>>
  /\ iter' = Head(readable_list)
  /\ pc' = "serve"
  /\ UNCHANGED <<sockets, listen_readable, listen_edge, g_cur_ticks, expired>>
  /\ PollOnly

(* next, which is read before the handler is called.                       *)
NextIter ==
  LET i == CHOOSE j \in DOMAIN readable_list : readable_list[j] = iter
  IN  IF i = Len(readable_list) THEN End ELSE readable_list[i + 1]

Serving(x) == pc = "serve" /\ iter = x

ServeOnly == UNCHANGED <<clients, g_cur_ticks, expired, input, restarts,
                         batch, command, index, writable_list>>

ServeEnd ==
  /\ Serving(End)
  /\ pc' = "input"
  /\ UNCHANGED <<sockets, iter, listen_readable, listen_edge, accepted, got,
                 output, forwarded, told>>
  /\ ServeOnly

(* E_TLIBC_TBUS_NOT_ENOUGH_SPACE, from either handler, ends the loop.      *)
OutputFull == Len(output) >= OutputLimit

(* Mutant: the socket is taken off readable_list, as after EAGAIN.         *)
ServeOutputFullTakesOff ==
  /\ pc = "serve" /\ iter \in Slots /\ Live(iter) /\ OutputFull
  /\ pc' = "input" /\ iter' = End
  /\ sock' = [sock EXCEPT ![iter].readable = FALSE]
  /\ readable_list' = Unlink(readable_list, iter)
  /\ UNCHANGED <<pool, g_pending_socket_list, g_package_socket_list, edges,
                 open, listen_readable, listen_edge, accepted, got,
                 output, forwarded, told>>
  /\ ServeOnly

ServeOutputFull ==
  /\ pc = "serve" /\ iter # End /\ OutputFull
  /\ pc' = "input" /\ iter' = End
  /\ UNCHANGED <<sockets, listen_readable, listen_edge, accepted, got,
                 output, forwarded, told>>
  /\ ServeOnly

-----------------------------------------------------------------------------
(***************************************************************************)
(* tconnd_listen.                                                          *)
(***************************************************************************)
ListenOnly == /\ pc' = "serve" /\ iter' = NextIter
              /\ UNCHANGED <<listen_edge, got, forwarded>>
              /\ ServeOnly

(* E_TLIBC_TOO_MANY_SOCKET: g_listen stays readable.                       *)
ListenTooMany ==
  /\ Serving(Listen) /\ ~OutputFull
  /\ pool.unused = <<>>
  /\ UNCHANGED <<sockets, listen_readable, accepted, output, told>>
  /\ ListenOnly

(* Mutant: after EAGAIN g_listen stays on readable_list.                   *)
ListenAgainKept ==
  /\ Serving(Listen) /\ ~OutputFull
  /\ pool.unused # <<>> /\ accepted = arrived
  /\ UNCHANGED <<sockets, listen_readable, accepted, output, told>>
  /\ ListenOnly

ListenAgain ==
  /\ Serving(Listen) /\ ~OutputFull
  /\ pool.unused # <<>> /\ accepted = arrived
  /\ listen_readable' = FALSE
  /\ readable_list' = Unlink(readable_list, Listen)
  /\ UNCHANGED <<pool, sock, g_pending_socket_list, g_package_socket_list,
                 edges, open, accepted, output, told>>
  /\ ListenOnly

ListenAccept ==
  /\ Serving(Listen) /\ ~OutputFull
  /\ pool.unused # <<>> /\ accepted < arrived
  /\ LET s == Head(pool.unused)
         c == accepted + 1
     IN  /\ NewSocket(s, c)
         /\ accepted' = c
         /\ output' = Append(output,
              [cmd |-> "connect", size |-> 0,
               cid |-> [id |-> s, sn |-> pool.sn, who |-> c]])
         /\ told' = [told EXCEPT ![c] = "connect"]
  /\ UNCHANGED listen_readable
  /\ ListenOnly

-----------------------------------------------------------------------------
(***************************************************************************)
(* tconnd_socket_recv, and what the loop does with its result.             *)
(***************************************************************************)
RecvOnly == /\ pc' = "serve" /\ iter' = NextIter
            /\ UNCHANGED <<listen_readable, listen_edge, accepted>>
            /\ ServeOnly

Receiving(s) == Serving(s) /\ Live(s) /\ ~OutputFull

(* E_TLIBC_NO_MEMORY: the package buffers are all taken, and the socket    *)
(* that has held one for longest is closed.  It may be the next one.       *)
RecvNoMemory(s) ==
  /\ Receiving(s) /\ pool.packages = 0
  /\ Delete(Head(g_package_socket_list))
  /\ UNCHANGED <<got, output, forwarded, told>>
  /\ RecvOnly

Unread(c) == stream[c] - got[c]

(* Mutant: the socket leaves the list before recv() has returned EAGAIN.   *)
RecvAgainEarly(s) ==
  /\ Receiving(s) /\ pool.packages > 0
  /\ sock' = [sock EXCEPT ![s].readable = FALSE]
  /\ readable_list' = Unlink(readable_list, s)
  /\ UNCHANGED <<pool, g_pending_socket_list, g_package_socket_list, edges,
                 open, got, output, forwarded, told>>
  /\ RecvOnly

RecvAgain(s) ==
  /\ Receiving(s) /\ pool.packages > 0
  /\ LET c == sock[s].who IN Unread(c) = 0 /\ c \notin huge \union closed
  /\ sock' = [sock EXCEPT ![s].readable = FALSE]
  /\ readable_list' = Unlink(readable_list, s)
  /\ UNCHANGED <<pool, g_pending_socket_list, g_package_socket_list, edges,
                 open, got, output, forwarded, told>>
  /\ RecvOnly

(* Mutant: the backend is told, and the connection is kept.                *)
RecvClosedKept(s) ==
  /\ Receiving(s) /\ pool.packages > 0
  /\ sock[s].who \in closed
  /\ output' = Append(output, [cmd |-> "recv", size |-> 0, cid |-> Cid(s)])
  /\ told' = [told EXCEPT ![sock[s].who] = "closed"]
  /\ UNCHANGED <<sockets, got, forwarded>>
  /\ RecvOnly

(* recv() returns 0, or an error after a reset: the backend is told.       *)
RecvClosed(s) ==
  /\ Receiving(s) /\ pool.packages > 0
  /\ sock[s].who \in closed
  /\ output' = Append(output, [cmd |-> "recv", size |-> 0, cid |-> Cid(s)])
  /\ told' = [told EXCEPT ![sock[s].who] = "closed"]
  /\ Delete(s)
  /\ UNCHANGED <<got, forwarded>>
  /\ RecvOnly

(* Mutant: the half package in the buffer is not put in front.             *)
ReceivedAlone(s, n) == n

Received(s, n) == sock[s].package + n

(* recv() returns some halves, which follow those in the package buffer.   *)
(* Whole packages go out, half a package goes to a buffer.                 *)
RecvPackages(s, n) ==
  LET c     == sock[s].who
      whole == Received(s, n) \div 2
      half  == Received(s, n) % 2
      freed == IF sock[s].package > 0 THEN 1 ELSE 0
      list  == IF sock[s].package > 0 THEN Unlink(g_package_socket_list, s)
                                      ELSE g_package_socket_list
  IN  /\ Receiving(s) /\ pool.packages > 0
      /\ n <= Unread(c)
      /\ got' = [got EXCEPT ![c] = @ + n]
      /\ sock' = [sock EXCEPT ![s].package = half,
                              ![s].package_ticks =
                                IF half > 0 THEN g_cur_ticks + PackageTicksLimit
                                            ELSE 0]
      /\ pool' = [pool EXCEPT !.packages = @ + freed - half]
      /\ g_package_socket_list' = IF half > 0 THEN Append(list, s) ELSE list
      /\ output' = IF whole = 0 THEN output
                   ELSE Append(output, [cmd |-> "recv", size |-> whole,
                                        cid |-> Cid(s)])
      /\ forwarded' = [forwarded EXCEPT ![c] = @ + whole]
      /\ UNCHANGED <<g_pending_socket_list, readable_list, edges, open, told>>
      /\ RecvOnly

(* An oversize length among what was received: the socket is closed, and   *)
(* the whole packages before that length are thrown away with it.          *)
RecvHuge(s) ==
  /\ Receiving(s) /\ pool.packages > 0
  /\ sock[s].who \in huge
  /\ got' = [got EXCEPT ![sock[s].who] = stream[sock[s].who]]
  /\ Delete(s)
  /\ UNCHANGED <<output, forwarded, told>>
  /\ RecvOnly

(* The loop has come to a socket that RecvNoMemory has just freed.  recv() *)
(* fails on the closed descriptor, the backend is told that a connection   *)
(* without a serial number has closed, and the socket is freed again.  The *)
(* list of unused sockets is a cycle now; the model stops here.            *)
ServeFreed ==
  /\ pc = "serve" /\ iter \in Slots /\ ~Live(iter) /\ ~OutputFull
  /\ output' = Append(output, [cmd |-> "recv", size |-> 0, cid |-> Cid(iter)])
  /\ pool' = [pool EXCEPT !.used = @ - 1]
  /\ pc' = "wrecked"
  /\ UNCHANGED <<sock, g_pending_socket_list, g_package_socket_list,
                 readable_list, edges, open, iter, listen_readable,
                 listen_edge, accepted, got, forwarded, told>>
  /\ ServeOnly

Wrecked == pc = "wrecked" /\ UNCHANGED vars

EpoolProc ==
  \/ EpollWait \/ SkipEpollWait \/ ServeEnd \/ ServeOutputFull
  \/ ListenTooMany \/ ListenAgain \/ ListenAccept
  \/ \E s \in Slots : \/ RecvNoMemory(s) \/ RecvAgain(s) \/ RecvClosed(s)
                      \/ \E n \in 1 .. MaxHalves : RecvPackages(s, n)
                      \/ RecvHuge(s)
  \/ ServeFreed \/ Wrecked

-----------------------------------------------------------------------------
(***************************************************************************)
(* process_input_tbus: the commands of a batch for each connection they    *)
(* name, then a flush of every socket written to, then tbus_read_end.      *)
(***************************************************************************)
InputOnly == UNCHANGED <<clients, listen_readable, listen_edge, iter, accepted,
                         got, g_cur_ticks, expired, output, forwarded, told,
                         restarts>>

InputEmpty ==
  /\ pc = "input" /\ input = <<>>
  /\ pc' = "pending"
  /\ UNCHANGED <<sockets, input, batch, command, index, writable_list>>
  /\ InputOnly

InputBegin ==
  /\ pc = "input" /\ input # <<>>
  /\ pc' = "command"
  /\ batch' = Len(input) /\ command' = 1 /\ index' = 1
  /\ writable_list' = <<>>
  /\ UNCHANGED <<sockets, input>>
  /\ InputOnly

Commanding == pc = "command" /\ command <= batch /\ input[command].cmd # "bad"

(* Mutant: after one that cannot be decoded nothing is flushed.            *)
CommandsDoneUnflushed ==
  /\ pc = "command" /\ ~Commanding
  /\ pc' = "flush"
  /\ index' = IF command <= batch THEN Len(writable_list) + 1 ELSE 1
  /\ UNCHANGED <<sockets, input, batch, command, writable_list>>
  /\ InputOnly

(* All are done, or one cannot be decoded, and the rest of the batch is    *)
(* skipped.                                                                *)
CommandsDone ==
  /\ pc = "command" /\ ~Commanding
  /\ pc' = "flush" /\ index' = 1
  /\ UNCHANGED <<sockets, input, batch, command, writable_list>>
  /\ InputOnly

Target == input[command].cids[index]

NextCid ==
  /\ IF index < Len(input[command].cids)
     THEN index' = index + 1 /\ UNCHANGED command
     ELSE index' = 1 /\ command' = command + 1
  /\ UNCHANGED <<pc, batch, input>>
  /\ InputOnly

(* Mutant: the serial number is not compared.                              *)
MatchesAnyone(cid) == Live(cid.id)

(* tlibc_mempool_ptr_test.                                                 *)
Matches(cid) == Live(cid.id) /\ sock[cid.id].sn = cid.sn

CommandMismatch ==
  /\ Commanding /\ ~Matches(Target)
  /\ UNCHANGED <<sockets, writable_list>>
  /\ NextCid

(* tconnd_socket_push_pkg(s) for a command of the given kind.              *)
Pushing(kind, s) ==
  /\ Commanding /\ input[command].cmd = kind
  /\ Target.id = s /\ Matches(Target)

Written(s) == IF sock[s].writable THEN writable_list
                                  ELSE Append(writable_list, s)

(* Mutant: the socket stays on writable_list.                              *)
PushFailsKeepsWritable(s) ==
  /\ UNCHANGED writable_list
  /\ Delete(s)
  /\ NextCid

(* It returns E_TLIBC_CLOSE.                                               *)
PushFails(s) ==
  /\ writable_list' = IF sock[s].writable THEN Unlink(writable_list, s)
                                          ELSE writable_list
  /\ Delete(s)
  /\ NextCid

(* Mutant: one iovec too many is taken.                                    *)
IovOverfull(s) == sock[s].iov_num > OpListMax

IovFull(s) == sock[s].iov_num >= OpListMax

(* tconnd_socket_on_cmd_send.  The iov points into the input tbus.         *)
PushSend(s) ==
  /\ Pushing("send", s)
  /\ IovFull(s) => sock[s].status = "established"
  /\ sock' = [sock EXCEPT ![s].iov_num = IF IovFull(s) THEN 1 ELSE @ + 1,
                          ![s].writable = TRUE]
  /\ writable_list' = Written(s)
  /\ UNCHANGED <<pool, g_pending_socket_list, g_package_socket_list,
                 readable_list, edges, open>>
  /\ NextCid

(* The body is empty; or no more iovecs fit and writev() fails or takes a  *)
(* part, or the socket is not accepted yet.                                *)
PushSendFails(s) ==
  /\ Pushing("send", s)
  /\ PushFails(s)

(* tconnd_socket_on_cmd_accept.  What has come before EPOLL_CTL_ADD is an  *)
(* event as well.                                                          *)
PushAccept(s) ==
  /\ Pushing("accept", s) /\ sock[s].status = "syn_sent"
  /\ g_pending_socket_list' = Unlink(g_pending_socket_list, s)
  /\ sock' = [sock EXCEPT ![s].status = "established", ![s].writable = TRUE]
  /\ LET c == sock[s].who
     IN  edges' = IF Unread(c) > 0 \/ c \in huge \union closed
                  THEN edges \union {c} ELSE edges
  /\ writable_list' = Written(s)
  /\ UNCHANGED <<pool, g_package_socket_list, readable_list, open>>
  /\ NextCid

(* epoll_ctl() fails, or the connection was accepted before.               *)
PushAcceptFails(s) ==
  /\ Pushing("accept", s)
  /\ PushFails(s)

(* The result of the flush before closing is not looked at.                *)
PushClose(s) ==
  /\ Pushing("close", s)
  /\ PushFails(s)

(* tconnd_socket_flush on each socket of writable_list.                    *)
Flushing(s) ==
  pc = "flush" /\ index <= Len(writable_list) /\ writable_list[index] = s

FlushOnly == /\ index' = index + 1
             /\ UNCHANGED <<pc, batch, command, input, writable_list>>
             /\ InputOnly

Flush(s) ==
  /\ Flushing(s) /\ sock[s].status = "established"
  /\ sock' = [sock EXCEPT ![s].iov_num = 0, ![s].writable = FALSE]
  /\ UNCHANGED <<pool, g_pending_socket_list, g_package_socket_list,
                 readable_list, edges, open>>
  /\ FlushOnly

FlushFails(s) ==
  /\ Flushing(s)
  /\ sock[s].status = "established" => sock[s].iov_num > 0
  /\ Delete(s)
  /\ FlushOnly

InputEnd ==
  /\ pc = "flush" /\ index > Len(writable_list)
  /\ input' = SubSeq(input, batch + 1, Len(input))
  /\ pc' = "pending"
  /\ batch' = 0 /\ command' = 0 /\ index' = 0 /\ writable_list' = <<>>
  /\ UNCHANGED sockets
  /\ InputOnly

ProcessInputTbus ==
  \/ InputEmpty \/ InputBegin \/ CommandsDone \/ CommandMismatch \/ InputEnd
  \/ \E s \in Slots : \/ PushSend(s) \/ PushSendFails(s)
                      \/ PushAccept(s) \/ PushAcceptFails(s) \/ PushClose(s)
                      \/ Flush(s) \/ FlushFails(s)

-----------------------------------------------------------------------------
(***************************************************************************)
(* tconnd_timer_process: both lists from the front, up to the first socket *)
(* whose time has not come.                                                *)
(***************************************************************************)
TimerOnly == UNCHANGED <<clients, listen_readable, listen_edge, accepted, got,
                         g_cur_ticks, expired, output, forwarded, told,
                         restarts, input, iter, batch, command, index,
                         writable_list>>

PendingLate == /\ g_pending_socket_list # <<>>
               /\ sock[Head(g_pending_socket_list)].pending_ticks <= g_cur_ticks
PackageLate == /\ g_package_socket_list # <<>>
               /\ sock[Head(g_package_socket_list)].package_ticks <= g_cur_ticks

PendingTimeout ==
  /\ pc = "pending" /\ PendingLate
  /\ Delete(Head(g_pending_socket_list))
  /\ UNCHANGED pc
  /\ TimerOnly

PendingDone ==
  /\ pc = "pending" /\ ~PendingLate
  /\ pc' = "package"
  /\ UNCHANGED sockets
  /\ TimerOnly

PackageTimeout ==
  /\ pc = "package" /\ PackageLate
  /\ Delete(Head(g_package_socket_list))
  /\ UNCHANGED pc
  /\ TimerOnly

PackageDone ==
  /\ pc = "package" /\ ~PackageLate
  /\ pc' = "poll"
  /\ UNCHANGED sockets
  /\ TimerOnly

TimerProcess == PendingTimeout \/ PendingDone \/ PackageTimeout \/ PackageDone

(* process() in tconnd.c, called by tapp_loop for ever.                    *)
Process == EpoolProc \/ ProcessInputTbus \/ TimerProcess

-----------------------------------------------------------------------------
(***************************************************************************)
(* The clients and the kernel.  A client is of interest until the server   *)
(* closes its connection.                                                  *)
(***************************************************************************)
ServerIdle == UNCHANGED <<pool, sock, g_pending_socket_list,
                          g_package_socket_list, readable_list, open, thread,
                          listen_readable, g_cur_ticks, accepted, got,
                          output, input, forwarded, told, restarts>>

ClientOnly == ServerIdle /\ UNCHANGED <<expired, heard, commands>>

Connected(c) == c <= arrived /\ (c > accepted \/ c \in open) /\ c \notin closed

(* An event for a socket that has been given to epoll.                     *)
RaiseEdge(c) ==
  /\ edges' = IF \E s \in Slots : /\ sock[s].who = c
                                  /\ sock[s].status = "established"
              THEN edges \union {c} ELSE edges
  /\ UNCHANGED <<arrived, listen_edge>>
  /\ ClientOnly

ClientConnect ==
  /\ arrived < MaxClients
  /\ arrived' = arrived + 1 /\ listen_edge' = TRUE
  /\ UNCHANGED <<stream, huge, closed, edges>>
  /\ ClientOnly

ClientSend(c) ==
  /\ Connected(c) /\ c \notin huge /\ stream[c] < MaxHalves
  /\ stream' = [stream EXCEPT ![c] = @ + 1]
  /\ UNCHANGED <<huge, closed>>
  /\ RaiseEdge(c)

ClientSendHuge(c) ==
  /\ "huge" \in ClientFaults
  /\ Connected(c) /\ c \notin huge /\ stream[c] % 2 = 0
  /\ huge' = huge \union {c}
  /\ UNCHANGED <<stream, closed>>
  /\ RaiseEdge(c)

ClientClose(c) ==
  /\ "close" \in ClientFaults
  /\ Connected(c)
  /\ closed' = closed \union {c}
  /\ UNCHANGED <<stream, huge>>
  /\ RaiseEdge(c)

Client == ClientConnect \/ \E c \in Clients : \/ ClientSend(c)
                                              \/ ClientSendHuge(c)
                                              \/ ClientClose(c)

(* The timer fd.  Bound: the clock stands while no deadline lies ahead.    *)
DeadlineAhead ==
  \E s \in Slots :
    LET now == g_cur_ticks + expired
    IN  \/ sock[s].status = "syn_sent" /\ sock[s].pending_ticks > now
        \/ sock[s].package > 0 /\ sock[s].package_ticks > now

TimerExpire ==
  /\ DeadlineAhead
  /\ expired' = expired + 1
  /\ UNCHANGED <<clients, edges, listen_edge>>
  /\ ServerIdle

-----------------------------------------------------------------------------
(***************************************************************************)
(* The backend reads the output tbus and sends any command for any         *)
(* connection it has heard of, also for one that is gone.                  *)
(***************************************************************************)
BackendOnly == UNCHANGED <<sockets, thread, arrived, stream, huge, closed,
                           listen_readable, g_cur_ticks, accepted, got,
                           listen_edge, expired, forwarded, told, restarts>>

BackendRecv ==
  /\ output # <<>>
  /\ output' = Tail(output)
  /\ heard' = IF Head(output).cmd = "connect"
              THEN heard \union {Head(output).cid} ELSE heard
  /\ UNCHANGED <<input, commands>>
  /\ BackendOnly

BackendSend ==
  /\ commands < MaxCommands
  /\ \E kind \in CommandKinds, n \in 1 .. BroadcastMax :
       \E cids \in [1 .. n -> heard] :
         input' = Append(input, [cmd |-> kind, cids |-> cids])
  /\ commands' = commands + 1
  /\ UNCHANGED <<output, heard>>
  /\ BackendOnly

-----------------------------------------------------------------------------
(* The server exits, or is killed, and is started again.  The rings and    *)
(* the backend are as they were; a batch not released is read again.       *)
Restart ==
  /\ restarts < MaxRestarts
  /\ restarts' = restarts + 1
  /\ pool' = [sn |-> 0, unused |-> [i \in 1 .. Connections |-> i - 1],
              used |-> 0, packages |-> PackageConnections]
  /\ sock' = [s \in Slots |-> Unused] /\ listen_readable' = FALSE
  /\ readable_list' = <<>> /\ g_pending_socket_list' = <<>>
  /\ g_package_socket_list' = <<>> /\ writable_list' = <<>>
  /\ g_cur_ticks' = 0
  /\ pc' = "poll" /\ iter' = End
  /\ batch' = 0 /\ command' = 0 /\ index' = 0
  /\ accepted' = arrived
  /\ edges' = {} /\ listen_edge' = FALSE /\ expired' = 0
  /\ open' = {}
  /\ UNCHANGED <<clients, got, output, input, forwarded, told>>

Next == \/ Process \/ Client \/ TimerExpire
        \/ BackendRecv \/ BackendSend \/ Restart

Spec == Init /\ [][Next]_vars

(* tapp_loop calls process() again and again, the backend's loop reads its *)
(* ring, and time passes.  Clients and commands may come or not.           *)
Fairness == WF_vars(Process) /\ WF_vars(BackendRecv) /\ WF_vars(TimerExpire)

FairSpec == Spec /\ Fairness
=============================================================================
