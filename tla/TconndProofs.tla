---------------------------- MODULE TconndProofs -----------------------------
(***************************************************************************)
(* Proofs about module Tconnd.  Core, of module TconndCore, says how the   *)
(* sockets, the pools and the lists belong together; the other parts of    *)
(* the inductive invariant relate them to the thread, the kernel, the      *)
(* rings and what the backend has been told.                               *)
(***************************************************************************)
EXTENDS TconndCore

ThreadTypes ==
  /\ pc \in {"poll", "serve", "input", "command", "flush", "pending",
             "package", "wrecked"}
  /\ iter \in Slots \union {Listen, End}
  /\ batch \in Nat /\ command \in Nat /\ index \in Nat
  /\ writable_list \in Seq(Slots)

ClientTypes ==
  /\ arrived \in 0 .. MaxClients /\ accepted \in 0 .. arrived
  /\ stream \in [Clients -> 0 .. MaxHalves]
  /\ got \in [Clients -> 0 .. MaxHalves]
  /\ huge \subseteq Clients /\ closed \subseteq Clients
  /\ listen_edge \in BOOLEAN /\ expired \in Nat

OutputTypes ==
  /\ output \in Seq([cmd : {"connect", "recv"}, size : Nat, cid : CidType])
  /\ Len(output) <= OutputLimit

InputTypes ==
  /\ input \in Seq([cmd : CommandKinds, cids : Seq(CidType)])
  /\ heard \subseteq CidType /\ commands \in 0 .. MaxCommands

HistoryTypes ==
  /\ forwarded \in [Clients -> Nat]
  /\ told \in [Clients -> {"nothing", "connect", "closed"}]
  /\ restarts \in 0 .. MaxRestarts

Types == ThreadTypes /\ ClientTypes /\ OutputTypes /\ InputTypes /\ HistoryTypes

(* Only while a batch is worked on is anything writable, and then it is on *)
(* writable_list, or on what is left of it to flush.                       *)
Writable == {s \in Slots : sock[s].writable}
Left     == {writable_list[i] : i \in index .. Len(writable_list)}

Writing ==
  /\ IsInjective(writable_list)
  /\ pc = "command" => ToSet(writable_list) = Writable
  /\ pc = "flush" => Left = Writable /\ index > 0
  /\ pc \notin {"command", "flush"} => Writable = {}
  /\ \A s \in Slots : sock[s].iov_num > 0 => sock[s].writable

(* iter is on readable_list, unless its socket has just been freed.        *)
Iterating == pc = "serve" => iter \in Readable \union Free \union {End}

HasNews(c) == Unread(c) > 0 \/ c \in huge \union closed

Events ==
  /\ \A s \in Established :
       HasNews(sock[s].who) => sock[s].readable \/ sock[s].who \in edges
  /\ accepted < arrived => listen_readable \/ listen_edge

Streams ==
  /\ \A s \in Slots : Live(s) =>
       2 * forwarded[sock[s].who] + sock[s].package = got[sock[s].who]
  /\ \A c \in Clients : c > accepted => got[c] = 0 /\ forwarded[c] = 0

(* Every name of a connection that the backend can have, now or later.     *)
Connects == {output[i].cid :
              i \in {j \in DOMAIN output : output[j].cmd = "connect"}}
Sent     == UNION {ToSet(input[i].cids) : i \in DOMAIN input}
Known    == heard \union Sent \union Connects

Names ==
  restarts = 0 =>
    \A cid \in Known : /\ cid.sn < pool.sn
                       /\ Matches(cid) => sock[cid.id].who = cid.who

Says ==
  /\ \A s \in Slots : Live(s) => told[sock[s].who] = "connect"
  /\ \A c \in Clients : c > accepted => told[c] = "nothing"

Used == Sane => pool.used + Len(pool.unused) = Connections

IInv == /\ Types /\ Core /\ Writing /\ Iterating /\ Events /\ Streams
        /\ Names /\ Says /\ Used

-----------------------------------------------------------------------------
(* next, as tconnd_epool_proc reads it, is another socket of the list, or  *)
(* its end.                                                                *)
LEMMA NextIterOK ==
  ASSUME Core, iter \in Readable
  PROVE  NextIter \in (Readable \ {iter}) \union {End}
<1> DEFINE i == CHOOSE j \in DOMAIN readable_list : readable_list[j] = iter
<1>1. /\ readable_list \in Seq(Slots \union {Listen})
      /\ Links(readable_list, Readable)
  BY DEF Core, CoreTypes, Lists
<1>2. /\ DOMAIN readable_list = 1 .. Len(readable_list)
      /\ Len(readable_list) \in Nat
      /\ \A j \in 1 .. Len(readable_list) : readable_list[j] \in Readable
      /\ \E j \in 1 .. Len(readable_list) : readable_list[j] = iter
  BY <1>1, Entry
<1>3. i \in 1 .. Len(readable_list) /\ readable_list[i] = iter
  BY <1>2
<1>4. NextIter = IF i = Len(readable_list) THEN End ELSE readable_list[i + 1]
  BY DEF NextIter
<1> HIDE DEF i
<1>5. CASE i = Len(readable_list)
  BY <1>4, <1>5
<1>6. CASE i # Len(readable_list)
  <2>1. i + 1 \in 1 .. Len(readable_list) /\ i + 1 # i
    <3>1. Len(readable_list) \in Nat /\ i \in 1 .. Len(readable_list)
      BY <1>2, <1>3
    <3> QED
      BY <3>1, <1>6
  <2>2. readable_list[i + 1] # iter
    BY <2>1, <1>1, <1>2, <1>3 DEF Links, IsInjective
  <2> QED
    BY <2>1, <2>2, <1>2, <1>4, <1>6
<1> QED
  BY <1>5, <1>6

(* What a live socket is.                                                  *)
LEMMA LiveSocket ==
  ASSUME Core
  PROVE  \A s \in Slots :
           /\ Live(s) => /\ sock[s].who \in Clients /\ sock[s].who <= accepted
                         /\ sock[s].sn \in Nat /\ sock[s].sn < pool.sn
                         /\ sock[s].status \in {"syn_sent", "established"}
           /\ Live(s) <=> s \notin Free
           /\ s \in Established => Live(s) /\ sock[s].status = "established"
           /\ \A t \in Slots :
                Live(s) /\ Live(t) /\ sock[s].who = sock[t].who => s = t
<1>0. CoreTypes /\ SocketsOK
  BY DEF Core
<1> TAKE s \in Slots
<1>1. /\ Live(s) => sock[s].sn \in Nat /\ sock[s].who \in Clients
      /\ (Live(s) <=> sock[s].status # "closed")
      /\ sock[s] \in SocketType /\ SocketOK(s)
  BY <1>0, Fields DEF SocketsOK
<1>2. accepted \in Nat
  BY <1>0, Constants DEF CoreTypes
<1>3. Live(s) => /\ sock[s].who \in Clients /\ sock[s].who <= accepted
                 /\ sock[s].sn \in Nat /\ sock[s].sn < pool.sn
                 /\ sock[s].status \in {"syn_sent", "established"}
  BY <1>1, <1>2 DEF SocketOK, SocketType
<1>4. Live(s) <=> s \notin Free
  BY DEF Free
<1>5. s \in Established => Live(s) /\ sock[s].status = "established"
  BY <1>1 DEF Established
<1>6. \A t \in Slots :
        Live(s) /\ Live(t) /\ sock[s].who = sock[t].who => s = t
  BY <1>0 DEF SocketsOK
<1> QED
  BY <1>3, <1>4, <1>5, <1>6

(* Names only go away when messages of another kind are put into the       *)
(* output tbus, or messages are taken out of either ring.                  *)
LEMMA KnownOfRecv ==
  ASSUME OutputTypes, NEW m, m.cmd # "connect", output' = Append(output, m)
  PROVE  Connects' = Connects
<1>1. /\ output \in Seq([cmd : {"connect", "recv"}, size : Nat, cid : CidType])
      /\ Len(output) \in Nat
  BY DEF OutputTypes
<1>2. /\ DOMAIN output = 1 .. Len(output)
      /\ DOMAIN output' = 1 .. Len(output) + 1
      /\ \A i \in 1 .. Len(output) : output'[i] = output[i]
      /\ output'[Len(output) + 1] = m
  BY <1>1
<1>3. {j \in DOMAIN output' : output'[j].cmd = "connect"}
        = {j \in DOMAIN output : output[j].cmd = "connect"}
  BY <1>1, <1>2
<1>4. \A i \in {j \in DOMAIN output : output[j].cmd = "connect"} :
        output'[i].cid = output[i].cid
  BY <1>2
<1> QED
  BY <1>3, <1>4 DEF Connects

(* Every name the backend can have is a name.                              *)
LEMMA KnownTypes ==
  ASSUME OutputTypes, InputTypes
  PROVE  Known \subseteq CidType
<1>1. ASSUME NEW i \in DOMAIN input PROVE ToSet(input[i].cids) \subseteq CidType
  <2>1. input[i] \in [cmd : CommandKinds, cids : Seq(CidType)]
    <3> DEFINE Command == [cmd : CommandKinds, cids : Seq(CidType)]
    <3>1. input \in Seq(Command)
      BY DEF InputTypes
    <3> HIDE DEF Command
    <3>2. input[i] \in Command
      BY <3>1
    <3> QED
      BY <3>2 DEF Command
  <2>2. input[i].cids \in Seq(CidType)
    BY <2>1
  <2> QED
    BY <2>2 DEF ToSet
<1>2. ASSUME NEW i \in DOMAIN output PROVE output[i].cid \in CidType
  <2>1. output[i] \in [cmd : {"connect", "recv"}, size : Nat, cid : CidType]
    <3> DEFINE Message == [cmd : {"connect", "recv"}, size : Nat, cid : CidType]
    <3>1. output \in Seq(Message)
      BY DEF OutputTypes
    <3> HIDE DEF Message
    <3>2. output[i] \in Message
      BY <3>1
    <3> QED
      BY <3>2 DEF Message
  <2> QED
    BY <2>1
<1>3. Sent \subseteq CidType
  BY <1>1 DEF Sent
<1>4. Connects \subseteq CidType
  BY <1>2 DEF Connects
<1> QED
  BY <1>3, <1>4 DEF Known, InputTypes

(* A step of the thread that changes nothing but where it is.              *)
LEMMA ThreadMoves ==
  ASSUME IInv,
         UNCHANGED <<sockets, clients, listen_readable, g_cur_ticks, accepted,
                     got, listen_edge, expired, output, forwarded, told,
                     restarts>>,
         InputTypes', Sent' \subseteq Sent,
         ThreadTypes', Writing', Iterating', Sane
  PROVE  IInv'
<1>1. Types'
  BY DEF IInv, Types, ClientTypes, OutputTypes, HistoryTypes, clients, sockets
<1>2. UNCHANGED <<pool, sock, g_pending_socket_list, g_package_socket_list,
                  readable_list, edges, open, arrived, stream, huge, closed,
                  heard, commands>>
  BY DEF sockets, clients
<1>3. Core'
  <2>1. \A s \in Slots : /\ sock'[s].sn = sock[s].sn
                         /\ ~Live(s) => sock'[s] = Unused
    BY <1>2 DEF IInv, Core, SocketsOK, SocketOK
  <2>2. sock' \in [Slots -> SocketType]
    BY <1>2 DEF IInv, Core, CoreTypes
  <2> QED
    BY <2>1, <2>2, <1>2, WritesKeep DEF IInv
<1>4. Events'
  BY <1>2 DEF IInv, Events, Established, HasNews, Unread
<1>5. Streams' /\ Says'
  BY <1>2 DEF IInv, Streams, Says, Live
<1>6. Names'
  BY <1>2 DEF IInv, Names, Known, Connects, Matches, Live
<1>7. Used'
  BY <1>2 DEF IInv, Used, Sane
<1> QED
  BY <1>1, <1>3, <1>4, <1>5, <1>6, <1>7 DEF IInv

(* What a deletion leaves of the invariant, whoever deletes: no other      *)
(* socket has the same client.                                             *)
LEMMA DeleteKeepsRest ==
  ASSUME IInv, Sane, NEW s \in Slots, Live(s), Delete(s),
         UNCHANGED <<clients, listen_readable, g_cur_ticks, accepted,
                     listen_edge, forwarded, restarts, input>>,
         \A c \in Clients \ {sock[s].who} : /\ got'[c] = got[c]
                                            /\ told'[c] = told[c],
         Connects' = Connects
  PROVE  /\ Core' /\ Events' /\ Streams' /\ Names' /\ Says' /\ Used'
         /\ Writable' = Writable \ {s} /\ Free' = Free \union {s}
         /\ Readable' = Readable \ {s}
         /\ sock'[s] = Unused /\ \A t \in Slots \ {s} : sock'[t] = sock[t]
<1> DEFINE w == sock[s].who
<1>1. /\ Core /\ Events /\ Streams /\ Names /\ Says /\ Used
      /\ UNCHANGED <<arrived, stream, huge, closed, heard, commands>>
  BY DEF IInv, clients
<1>2. /\ Core'
      /\ sock'[s] = Unused /\ \A t \in Slots \ {s} : sock'[t] = sock[t]
      /\ pool'.sn = pool.sn
      /\ pool'.used + Len(pool'.unused) = pool.used + Len(pool.unused)
  BY <1>1, DeleteKeeps
<1>3. /\ Unused.sn = Invalid /\ Unused.status = "closed"
      /\ ~Unused.writable /\ ~Unused.readable
  BY DEF Unused, Constructed
<1>4. \A t \in Slots :
        /\ Live(t)' <=> Live(t) /\ t # s
        /\ t \in Established' <=> t \in Established /\ t # s
  BY <1>2, <1>3 DEF Live, Established
<1>5. \A t \in Slots \ {s} :
        Live(t) => /\ sock[t].who \in Clients \ {w} /\ sock'[t] = sock[t]
  BY <1>1, <1>2, LiveSocket
<1>6. /\ w \in Clients /\ w <= accepted /\ accepted \in Nat
      /\ Clients \subseteq Nat
  <2>1. w \in Clients /\ w <= accepted
    BY <1>1, LiveSocket
  <2>2. accepted \in 0 .. MaxClients
    BY <1>1 DEF Core, CoreTypes
  <2> QED
    BY <2>1, <2>2, Constants
<1>7. Writable' = Writable \ {s}
  BY <1>2, <1>3 DEF Writable
<1>8. Free' = Free \union {s} /\ Readable' = Readable \ {s}
  <2>1. s # Listen
    BY Constants
  <2> QED
    BY <1>2, <1>3, <1>4, <2>1 DEF Free, Readable
<1>9. Events'
  <2>1. edges' = edges \ {w}
    BY DEF Delete
  <2>2. ASSUME NEW t \in Established', HasNews(sock[t].who)'
        PROVE  sock'[t].readable \/ sock'[t].who \in edges'
    <3>1. t \in Slots
      BY DEF Established
    <3>2. t # s /\ t \in Established /\ Live(t)
      BY <2>2, <3>1, <1>1, <1>4, LiveSocket
    <3>3. sock'[t] = sock[t] /\ sock[t].who \in Clients \ {w}
      BY <3>1, <3>2, <1>5
    <3>4. got'[sock[t].who] = got[sock[t].who]
      BY <3>3
    <3>5. HasNews(sock[t].who)
      BY <2>2, <3>3, <3>4, <1>1 DEF HasNews, Unread
    <3> QED
      BY <2>1, <3>2, <3>3, <3>5, <1>1 DEF Events
  <2> QED
    BY <2>2, <1>1 DEF Events
<1>10. Streams' /\ Says'
  <2>1. ASSUME NEW t \in Slots, Live(t)'
        PROVE  /\ 2 * forwarded'[sock'[t].who] + sock'[t].package
                    = got'[sock'[t].who]
               /\ told'[sock'[t].who] = "connect"
    <3>1. t # s /\ Live(t)
      BY <2>1, <1>4
    <3>2. sock'[t] = sock[t] /\ sock[t].who \in Clients \ {w}
      BY <3>1, <1>5
    <3> QED
      BY <3>1, <3>2, <1>1 DEF Streams, Says
  <2>2. ASSUME NEW c \in Clients, c > accepted
        PROVE  got'[c] = 0 /\ forwarded'[c] = 0 /\ told'[c] = "nothing"
    <3>1. c # w
      BY <2>2, <1>6
    <3> QED
      BY <2>2, <3>1, <1>1 DEF Streams, Says
  <2> QED
    BY <2>1, <2>2 DEF Streams, Says
<1>11. Names'
  <2>1. Known' = Known
    BY <1>1 DEF Known, Sent
  <2>2. \A cid \in Known : Matches(cid)' /\ cid.id \in Slots =>
          Matches(cid) /\ sock'[cid.id] = sock[cid.id]
    BY <1>2, <1>4 DEF Matches
  <2>3. \A cid \in Known : cid.id \in Slots
    BY KnownTypes DEF IInv, Types, CidType
  <2> QED
    BY <2>1, <2>2, <2>3, <1>1, <1>2 DEF Names
<1>12. Used'
  BY <1>1, <1>2 DEF Used
<1> QED
  BY <1>2, <1>7, <1>8, <1>9, <1>10, <1>11, <1>12

-----------------------------------------------------------------------------
(* The actions that close a connection.                                    *)
LEMMA OutputGrows ==
  ASSUME OutputTypes, ~OutputFull, NEW cmd \in {"connect", "recv"},
         NEW size \in Nat, NEW cid \in CidType,
         output' = Append(output, [cmd |-> cmd, size |-> size, cid |-> cid])
  PROVE  OutputTypes'
<1> DEFINE Message == [cmd : {"connect", "recv"}, size : Nat, cid : CidType]
           m       == [cmd |-> cmd, size |-> size, cid |-> cid]
<1>1. m \in Message
  OBVIOUS
<1>2. output \in Seq(Message) /\ Len(output) < OutputLimit
  BY Constants DEF OutputTypes, OutputFull
<1> HIDE DEF Message, m
<1>3. output' = Append(output, m)
  BY DEF m
<1>4. output' \in Seq(Message) /\ Len(output') = Len(output) + 1
  BY <1>1, <1>2, <1>3
<1> QED
  BY <1>2, <1>4, Constants DEF OutputTypes, Message

(* The name of a socket has its type.                                      *)
LEMMA CidTyped ==
  ASSUME Core, NEW s \in Slots
  PROVE  Cid(s) \in CidType
<1>1. sock[s] \in SocketType
  BY DEF Core, CoreTypes
<1> QED
  BY <1>1 DEF Cid, CidType, SocketType

(* The socket being served is on readable_list.                            *)
LEMMA ServedReadable ==
  ASSUME IInv, pc = "serve", NEW s \in Slots, iter = s, Live(s)
  PROVE  iter \in Readable /\ sock[s].readable
<1>1. iter \in Readable \union Free \union {End} /\ s \notin Free
  BY DEF IInv, Iterating, Free
<1>2. s # End /\ s # Listen
  BY Constants
<1> QED
  BY <1>1, <1>2 DEF Readable

(* A handler of the event loop that closes a connection.                   *)
LEMMA ServeDelete ==
  ASSUME IInv, pc = "serve", iter \in Readable, NEW s \in Slots, Live(s),
         Delete(s), RecvOnly, UNCHANGED forwarded,
         got' \in [Clients -> 0 .. MaxHalves], OutputTypes', HistoryTypes',
         \A c \in Clients \ {sock[s].who} : /\ got'[c] = got[c]
                                            /\ told'[c] = told[c],
         Connects' = Connects
  PROVE  IInv'
<1>0. /\ Types /\ Core /\ Writing /\ Sane
      /\ pc' = "serve" /\ iter' = NextIter
      /\ UNCHANGED <<clients, listen_readable, listen_edge, accepted,
                     g_cur_ticks, expired, input, restarts, batch, command,
                     index, writable_list, arrived, stream, huge, closed,
                     heard, commands>>
  BY DEF IInv, RecvOnly, ServeOnly, Sane, clients
<1>1. /\ Core' /\ Events' /\ Streams' /\ Names' /\ Says' /\ Used'
      /\ Writable' = Writable \ {s} /\ Free' = Free \union {s}
      /\ Readable' = Readable \ {s}
      /\ sock'[s] = Unused /\ \A t \in Slots \ {s} : sock'[t] = sock[t]
  BY <1>0, DeleteKeepsRest
<1>2. NextIter \in Readable \union {End}
  BY <1>0, NextIterOK
<1>3. Types'
  <2>1. iter' \in Slots \union {Listen, End}
    BY <1>0, <1>2 DEF Readable
  <2> QED
    BY <2>1, <1>0 DEF Types, ThreadTypes, ClientTypes, InputTypes
<1>4. Writing'
  <2>1. Writable = {}
    BY <1>0 DEF IInv, Writing
  <2>2. Unused.iov_num = 0
    BY DEF Unused, Constructed
  <2>3. Writable' = {}
    BY <1>1, <2>1
  <2>4. \A t \in Slots : sock'[t].iov_num > 0 => sock'[t].writable
    BY <1>0, <1>1, <2>2 DEF Writing
  <2> QED
    BY <1>0, <2>3, <2>4 DEF Writing
<1>5. Iterating'
  BY <1>0, <1>1, <1>2 DEF Iterating
<1> QED
  BY <1>1, <1>3, <1>4, <1>5 DEF IInv

(* No package buffer is left, and the one held longest is freed.           *)
LEMMA StepRecvNoMemory ==
  ASSUME IInv, NEW s \in Slots, RecvNoMemory(s) PROVE IInv'
<1> DEFINE d == Head(g_package_socket_list)
<1>1. Core /\ pc = "serve" /\ iter = s /\ Live(s)
  BY DEF RecvNoMemory, Receiving, Serving, IInv
<1>2. iter \in Readable
  BY <1>1, ServedReadable
<1>3. /\ g_package_socket_list \in Seq(Slots)
      /\ Links(g_package_socket_list, Buffered)
      /\ pool.packages + Len(g_package_socket_list) = PackageConnections
  BY <1>1 DEF Core, CoreTypes, Lists, Buffers
<1>4. g_package_socket_list # <<>>
  <2>1. pool.packages = 0
    BY DEF RecvNoMemory
  <2> QED
    BY <1>3, <2>1, Constants
<1>5. d \in Buffered /\ d \in Slots
  BY <1>3, <1>4, TailLinks
<1>6. Live(d)
  <2>1. sock[d].status = "established"
    BY <1>1, <1>5 DEF Core, SocketsOK, SocketOK, Buffered
  <2> QED
    BY <1>1, <1>5, <2>1, LiveSocket DEF Established
<1>7. Delete(d) /\ UNCHANGED <<got, output, forwarded, told>> /\ RecvOnly
  BY DEF RecvNoMemory
<1>8. /\ got' \in [Clients -> 0 .. MaxHalves] /\ OutputTypes' /\ HistoryTypes'
      /\ Connects' = Connects
  BY <1>7 DEF IInv, Types, ClientTypes, OutputTypes, HistoryTypes, Connects,
              RecvOnly, ServeOnly
<1> HIDE DEF d
<1> QED
  BY <1>1, <1>2, <1>5, <1>6, <1>7, <1>8, ServeDelete

(* The client has closed.                                                  *)
LEMMA StepRecvClosed ==
  ASSUME IInv, NEW s \in Slots, RecvClosed(s) PROVE IInv'
<1>1. /\ Core /\ pc = "serve" /\ iter = s /\ Live(s) /\ ~OutputFull
      /\ OutputTypes /\ HistoryTypes
  BY DEF RecvClosed, Receiving, Serving, IInv, Types
<1>2. iter \in Readable
  BY <1>1, ServedReadable
<1>3. /\ output' = Append(output, [cmd |-> "recv", size |-> 0, cid |-> Cid(s)])
      /\ told' = [told EXCEPT ![sock[s].who] = "closed"]
      /\ Delete(s) /\ UNCHANGED <<got, forwarded, restarts>> /\ RecvOnly
  BY DEF RecvClosed, RecvOnly, ServeOnly
<1>4. OutputTypes'
  BY <1>1, <1>3, OutputGrows, CidTyped
<1>5. Connects' = Connects
  <2>1. [cmd |-> "recv", size |-> 0, cid |-> Cid(s)].cmd # "connect"
    OBVIOUS
  <2> QED
    BY <1>1, <1>3, <2>1, KnownOfRecv
<1>6. HistoryTypes' /\ \A c \in Clients \ {sock[s].who} : told'[c] = told[c]
  BY <1>1, <1>3 DEF HistoryTypes
<1>7. got' \in [Clients -> 0 .. MaxHalves] /\ got' = got
  BY <1>3 DEF IInv, Types, ClientTypes
<1> QED
  BY <1>1, <1>2, <1>3, <1>4, <1>5, <1>6, <1>7, ServeDelete

(* The client has sent an oversize length.                                 *)
LEMMA StepRecvHuge ==
  ASSUME IInv, NEW s \in Slots, RecvHuge(s) PROVE IInv'
<1>1. /\ Core /\ pc = "serve" /\ iter = s /\ Live(s)
      /\ ClientTypes /\ OutputTypes /\ HistoryTypes
  BY DEF RecvHuge, Receiving, Serving, IInv, Types
<1>2. iter \in Readable
  BY <1>1, ServedReadable
<1>3. /\ got' = [got EXCEPT ![sock[s].who] = stream[sock[s].who]]
      /\ Delete(s) /\ UNCHANGED <<output, forwarded, told, restarts>> /\ RecvOnly
  BY DEF RecvHuge, RecvOnly, ServeOnly
<1>4. /\ got' \in [Clients -> 0 .. MaxHalves]
      /\ \A c \in Clients \ {sock[s].who} : got'[c] = got[c]
  BY <1>1, <1>3, LiveSocket DEF ClientTypes
<1>5. OutputTypes' /\ HistoryTypes' /\ Connects' = Connects
  BY <1>1, <1>3 DEF OutputTypes, HistoryTypes, Connects
<1> QED
  BY <1>1, <1>2, <1>3, <1>4, <1>5, ServeDelete

(* A command closes its connection.                                        *)
LEMMA StepPushFails ==
  ASSUME IInv, NEW s \in Slots, NEW kind, Pushing(kind, s), PushFails(s)
  PROVE  IInv'
<1>0. /\ Types /\ Core /\ Writing /\ Sane /\ Live(s) /\ pc = "command"
      /\ pc' = "command" /\ Delete(s)
      /\ writable_list' = IF sock[s].writable THEN Unlink(writable_list, s)
                                              ELSE writable_list
      /\ UNCHANGED <<clients, listen_readable, listen_edge, accepted, got,
                     g_cur_ticks, expired, input, restarts, batch, iter,
                     output, forwarded, told, arrived, stream, huge, closed,
                     heard, commands>>
  BY DEF IInv, Pushing, Commanding, Matches, PushFails, NextCid, InputOnly,
         Sane, clients
<1>1. /\ Core' /\ Events' /\ Streams' /\ Names' /\ Says' /\ Used'
      /\ Writable' = Writable \ {s}
      /\ sock'[s] = Unused /\ \A t \in Slots \ {s} : sock'[t] = sock[t]
  <2>1. Connects' = Connects
    BY <1>0 DEF Connects
  <2> QED
    BY <1>0, <2>1, DeleteKeepsRest
<1>2. Links(writable_list, Writable) /\ writable_list \in Seq(Slots)
  BY <1>0 DEF Writing, Links, Types, ThreadTypes
<1>3. Links(writable_list', Writable') /\ writable_list' \in Seq(Slots)
  <2>1. CASE sock[s].writable
    <3>1. s \in Writable
      BY <2>1 DEF Writable
    <3> QED
      BY <2>1, <3>1, <1>0, <1>1, <1>2, UnlinkKeepsOrder, UnlinkLinks
  <2>2. CASE ~sock[s].writable
    <3>1. Writable \ {s} = Writable
      BY <2>2 DEF Writable
    <3> QED
      BY <2>2, <3>1, <1>0, <1>1, <1>2
  <2> QED
    BY <2>1, <2>2
<1>4. index' \in Nat /\ command' \in Nat
  BY <1>0 DEF PushFails, NextCid, Types, ThreadTypes
<1>5. Types'
  BY <1>0, <1>3, <1>4 DEF Types, ThreadTypes, ClientTypes, OutputTypes,
                          InputTypes, HistoryTypes
<1>6. Writing'
  <2>1. Unused.iov_num = 0
    BY DEF Unused, Constructed
  <2>2. \A t \in Slots : sock'[t].iov_num > 0 => sock'[t].writable
    BY <1>0, <1>1, <2>1 DEF Writing
  <2> QED
    BY <2>2, <1>0, <1>3 DEF Writing, Links
<1>7. Iterating'
  BY <1>0 DEF Iterating
<1> QED
  BY <1>1, <1>5, <1>6, <1>7 DEF IInv

(* What is left to flush, one socket after the other.                      *)
LEMMA LeftShrinks ==
  ASSUME ThreadTypes, IsInjective(writable_list), index > 0,
         index <= Len(writable_list), index' = index + 1,
         writable_list' = writable_list
  PROVE  /\ writable_list[index] \in Left /\ writable_list[index] \in Slots
         /\ Left' = Left \ {writable_list[index]}
<1> DEFINE list == writable_list
           n    == Len(writable_list)
<1>1. /\ list \in Seq(Slots) /\ n \in Nat /\ index \in 1 .. n
      /\ DOMAIN list = 1 .. n
  BY DEF ThreadTypes
<1>2. list[index] \in Left /\ list[index] \in Slots
  BY <1>1 DEF Left
<1>3. Left' = {list[i] : i \in index + 1 .. n}
  BY DEF Left
<1>4. index .. n = (index + 1 .. n) \union {index}
  BY <1>1
<1>5. Left = {list[i] : i \in index + 1 .. n} \union {list[index]}
  BY <1>4 DEF Left
<1>6. \A i \in index + 1 .. n : i \in 1 .. n /\ i # index
  BY <1>1
<1>7. list[index] \notin {list[i] : i \in index + 1 .. n}
  BY <1>1, <1>6 DEF IsInjective
<1> QED
  BY <1>2, <1>3, <1>5, <1>7

(* writev() fails when the batch is flushed.                               *)
LEMMA StepFlushFails ==
  ASSUME IInv, NEW s \in Slots, FlushFails(s) PROVE IInv'
<1>0. /\ Types /\ Core /\ Writing /\ Sane /\ pc = "flush"
      /\ pc' = "flush" /\ Delete(s) /\ index' = index + 1
      /\ index <= Len(writable_list) /\ writable_list[index] = s
      /\ UNCHANGED <<clients, listen_readable, listen_edge, accepted, got,
                     g_cur_ticks, expired, input, restarts, batch, iter,
                     output, forwarded, told, arrived, stream, huge, closed,
                     heard, commands, command, writable_list>>
  BY DEF IInv, FlushFails, Flushing, FlushOnly, InputOnly, Sane, clients
<1>1. /\ s \in Left /\ Left' = Left \ {s} /\ Left = Writable /\ index > 0
      /\ IsInjective(writable_list)
  BY <1>0, LeftShrinks DEF Writing, Types
<1>2. Live(s)
  <2>1. sock[s].writable
    BY <1>1 DEF Writable
  <2> QED
    BY <1>0, <2>1, Fields DEF Core
<1>3. /\ Core' /\ Events' /\ Streams' /\ Names' /\ Says' /\ Used'
      /\ Writable' = Writable \ {s}
      /\ sock'[s] = Unused /\ \A t \in Slots \ {s} : sock'[t] = sock[t]
  <2>1. Connects' = Connects
    BY <1>0 DEF Connects
  <2> QED
    BY <1>0, <1>2, <2>1, DeleteKeepsRest
<1>4. Types'
  BY <1>0 DEF Types, ThreadTypes, ClientTypes, OutputTypes, InputTypes,
              HistoryTypes
<1>5. Writing'
  <2>1. Unused.iov_num = 0
    BY DEF Unused, Constructed
  <2>2. \A t \in Slots : sock'[t].iov_num > 0 => sock'[t].writable
    BY <1>0, <1>3, <2>1 DEF Writing
  <2>3. index' > 0
    BY <1>0, <1>1 DEF Types, ThreadTypes
  <2> QED
    BY <2>2, <2>3, <1>0, <1>1, <1>3 DEF Writing
<1>6. Iterating'
  BY <1>0 DEF Iterating
<1> QED
  BY <1>3, <1>4, <1>5, <1>6 DEF IInv

(* A timeout: neither a batch nor a pass of the event loop is under way.   *)
LEMMA TimeoutDeletes ==
  ASSUME IInv, pc \in {"pending", "package"}, UNCHANGED pc, TimerOnly,
         NEW s \in Slots, Live(s), Delete(s)
  PROVE  IInv'
<1>0. /\ Types /\ Core /\ Writing /\ Sane
      /\ UNCHANGED <<clients, listen_readable, listen_edge, accepted, got,
                     g_cur_ticks, expired, output, forwarded, told, restarts,
                     input, iter, batch, command, index, writable_list,
                     arrived, stream, huge, closed, heard, commands>>
  BY DEF IInv, TimerOnly, Sane, clients
<1>1. /\ Core' /\ Events' /\ Streams' /\ Names' /\ Says' /\ Used'
      /\ Writable' = Writable \ {s}
      /\ sock'[s] = Unused /\ \A t \in Slots \ {s} : sock'[t] = sock[t]
  <2>1. Connects' = Connects
    BY <1>0 DEF Connects
  <2> QED
    BY <1>0, <2>1, DeleteKeepsRest
<1>2. Types'
  BY <1>0 DEF Types, ThreadTypes, ClientTypes, OutputTypes, InputTypes,
              HistoryTypes
<1>3. Writing'
  <2>1. Unused.iov_num = 0
    BY DEF Unused, Constructed
  <2>2. \A t \in Slots : sock'[t].iov_num > 0 => sock'[t].writable
    BY <1>0, <1>1, <2>1 DEF Writing
  <2>3. Writable' = {}
    BY <1>0, <1>1 DEF Writing
  <2> QED
    BY <2>2, <2>3, <1>0 DEF Writing
<1>4. Iterating'
  BY DEF Iterating
<1> QED
  BY <1>1, <1>2, <1>3, <1>4 DEF IInv

(* A deadline has come.                                                    *)
LEMMA StepTimeout ==
  ASSUME IInv, PendingTimeout \/ PackageTimeout PROVE IInv'
<1>0. /\ Core /\ g_pending_socket_list \in Seq(Slots)
      /\ Links(g_pending_socket_list, Pending)
      /\ g_package_socket_list \in Seq(Slots)
      /\ Links(g_package_socket_list, Buffered)
  BY DEF IInv, Core, CoreTypes, Lists
<1>1. CASE PendingTimeout
  <2>1. g_pending_socket_list # <<>>
    BY <1>1 DEF PendingTimeout, PendingLate
  <2>2. Head(g_pending_socket_list) \in Pending
    BY <1>0, <2>1, TailLinks
  <2>3. /\ Head(g_pending_socket_list) \in Slots
        /\ Live(Head(g_pending_socket_list))
    BY <1>0, <2>2, Fields DEF Pending, Core
  <2> QED
    BY <1>1, <2>3, TimeoutDeletes DEF PendingTimeout
<1>2. CASE PackageTimeout
  <2>1. g_package_socket_list # <<>>
    BY <1>2 DEF PackageTimeout, PackageLate
  <2>2. Head(g_package_socket_list) \in Buffered
    BY <1>0, <2>1, TailLinks
  <2>3. /\ Head(g_package_socket_list) \in Slots
        /\ sock[Head(g_package_socket_list)].status = "established"
    BY <1>0, <2>2 DEF Buffered, Core, SocketsOK, SocketOK
  <2>4. Live(Head(g_package_socket_list))
    BY <1>0, <2>3, Fields DEF Core
  <2> QED
    BY <1>2, <2>3, <2>4, TimeoutDeletes DEF PackageTimeout
<1> QED
  BY <1>1, <1>2

-----------------------------------------------------------------------------
(* The actions that only move the thread.                                  *)
LEMMA StepServeMoves ==
  ASSUME IInv, SkipEpollWait \/ ServeEnd \/ ServeOutputFull \/ ListenTooMany
  PROVE  IInv'
<1>0. /\ ThreadTypes /\ InputTypes /\ Core /\ Writing /\ Iterating
  BY DEF IInv, Types
<1>1. /\ UNCHANGED <<sockets, clients, listen_readable, g_cur_ticks, accepted,
                     got, listen_edge, expired, output, forwarded, told,
                     restarts, input, batch, command, index, writable_list,
                     sock, readable_list, heard, commands>>
      /\ pc \in {"poll", "serve"}
  BY DEF SkipEpollWait, ServeEnd, ServeOutputFull, ListenTooMany, PollOnly,
         ServeOnly, ListenOnly, sockets, clients, Serving
<1>2. /\ pc' \in {"serve", "input"}
      /\ pc' = "serve" => iter' \in Readable \union {End}
      /\ iter' \in Slots \union {Listen, End}
  <2>1. CASE SkipEpollWait
    <3>1. /\ readable_list \in Seq(Slots \union {Listen})
          /\ Links(readable_list, Readable) /\ readable_list # <<>>
      BY <1>0, <2>1 DEF Core, CoreTypes, Lists, SkipEpollWait
    <3>2. Head(readable_list) \in Readable
      BY <3>1, TailLinks
    <3> QED
      BY <2>1, <3>2 DEF SkipEpollWait, Readable
  <2>2. CASE ServeEnd
    BY <2>2, <1>0 DEF ServeEnd, ThreadTypes
  <2>3. CASE ServeOutputFull
    BY <2>3 DEF ServeOutputFull
  <2>4. CASE ListenTooMany
    <3>1. pc = "serve" /\ iter = Listen /\ iter' = NextIter /\ pc' = "serve"
      BY <2>4 DEF ListenTooMany, Serving, ListenOnly
    <3>2. iter \in Readable
      BY <3>1, <1>0, Constants DEF Iterating, Free, Listen, End
    <3>3. NextIter \in Readable \union {End}
      BY <3>2, <1>0, NextIterOK
    <3> QED
      BY <3>1, <3>3 DEF Readable
  <2> QED
    BY <2>1, <2>2, <2>3, <2>4
<1>3. ThreadTypes'
  BY <1>0, <1>1, <1>2 DEF ThreadTypes
<1>4. Writing'
  BY <1>0, <1>1, <1>2 DEF Writing, Writable
<1>5. Iterating'
  BY <1>1, <1>2 DEF Iterating, Readable
<1>6. InputTypes' /\ Sent' = Sent /\ Sane
  BY <1>0, <1>1 DEF InputTypes, Sent, Sane
<1> QED
  BY <1>1, <1>3, <1>4, <1>5, <1>6, ThreadMoves

(* No deadline of a list is left.                                          *)
LEMMA StepTimerMoves ==
  ASSUME IInv, PendingDone \/ PackageDone PROVE IInv'
<1>0. /\ ThreadTypes /\ InputTypes /\ Writing
  BY DEF IInv, Types
<1>1. /\ UNCHANGED <<sockets, clients, listen_readable, g_cur_ticks, accepted,
                     got, listen_edge, expired, output, forwarded, told,
                     restarts, input, iter, batch, command, index,
                     writable_list, sock, heard, commands>>
      /\ pc \in {"pending", "package"} /\ pc' \in {"package", "poll"}
  BY DEF PendingDone, PackageDone, TimerOnly, sockets, clients
<1>2. ThreadTypes' /\ Writing' /\ Iterating'
  BY <1>0, <1>1 DEF ThreadTypes, Writing, Writable, Iterating
<1>3. InputTypes' /\ Sent' = Sent /\ Sane
  BY <1>0, <1>1 DEF InputTypes, Sent, Sane
<1> QED
  BY <1>1, <1>2, <1>3, ThreadMoves

(* The list of writable sockets is empty when a batch begins, and again    *)
(* when all that was left of it has been flushed.                          *)
LEMMA StepInputMoves ==
  ASSUME IInv, InputEmpty \/ InputBegin \/ CommandsDone \/ CommandMismatch
  PROVE  IInv'
<1>0. /\ ThreadTypes /\ InputTypes /\ Writing
  BY DEF IInv, Types
<1>1. /\ UNCHANGED <<sockets, clients, listen_readable, g_cur_ticks, accepted,
                     got, listen_edge, expired, output, forwarded, told,
                     restarts, input, iter, sock, heard, commands>>
      /\ pc \in {"input", "command"} /\ pc' \in {"pending", "command", "flush"}
  BY DEF InputEmpty, InputBegin, CommandsDone, CommandMismatch, Commanding,
         NextCid, InputOnly, sockets, clients
<1>2. ThreadTypes'
  <2>1. Len(input) \in Nat
    BY <1>0 DEF InputTypes
  <2>2. \A T : <<>> \in Seq(T)
    OBVIOUS
  <2>3. CASE InputEmpty
    BY <2>3, <1>0, <1>1 DEF ThreadTypes, InputEmpty
  <2>4. CASE InputBegin
    BY <2>1, <2>2, <2>4, <1>0, <1>1 DEF ThreadTypes, InputBegin
  <2>5. CASE CommandsDone
    BY <2>5, <1>0, <1>1 DEF ThreadTypes, CommandsDone
  <2>6. CASE CommandMismatch
    <3>1. command' \in Nat /\ index' \in Nat
      BY <2>6, <1>0 DEF ThreadTypes, CommandMismatch, NextCid
    <3>2. batch' = batch /\ writable_list' = writable_list
      BY <2>6 DEF CommandMismatch, NextCid
    <3> QED
      BY <3>1, <3>2, <1>0, <1>1 DEF ThreadTypes
  <2> QED
    BY <2>3, <2>4, <2>5, <2>6
<1>3. Writing'
  <2>0. Writable' = Writable
    BY <1>1 DEF Writable
  <2>1. CASE InputEmpty
    BY <2>0, <2>1, <1>0, <1>1 DEF InputEmpty, Writing
  <2>2. CASE InputBegin
    <3>1. IsInjective(<<>>) /\ ToSet(<<>>) = {}
      BY DEF IsInjective, ToSet
    <3>2. writable_list' = <<>> /\ pc' = "command" /\ Writable = {}
      BY <2>2, <1>0 DEF InputBegin, Writing
    <3> QED
      BY <2>0, <3>1, <3>2, <1>0, <1>1 DEF Writing
  <2>3. CASE CommandsDone
    <3>1. /\ writable_list' = writable_list /\ index' = 1 /\ pc' = "flush"
          /\ ToSet(writable_list) = Writable /\ IsInjective(writable_list)
      BY <2>3, <1>0 DEF CommandsDone, Writing
    <3>2. DOMAIN writable_list = 1 .. Len(writable_list)
      BY <1>0 DEF ThreadTypes
    <3>3. Left' = ToSet(writable_list)
      BY <3>1, <3>2 DEF Left, ToSet
    <3> QED
      BY <2>0, <3>1, <3>3, <1>0, <1>1 DEF Writing
  <2>4. CASE CommandMismatch
    <3>1. writable_list' = writable_list /\ pc = "command" /\ pc' = "command"
      BY <2>4 DEF CommandMismatch, NextCid, Commanding
    <3> QED
      BY <2>0, <3>1, <1>0, <1>1 DEF Writing
  <2> QED
    BY <2>1, <2>2, <2>3, <2>4
<1>4. Iterating'
  BY <1>1 DEF Iterating
<1>5. InputTypes' /\ Sent' = Sent /\ Sane
  BY <1>0, <1>1 DEF InputTypes, Sent, Sane
<1> QED
  BY <1>1, <1>2, <1>3, <1>4, <1>5, ThreadMoves

(* tbus_read_end: everything written has been flushed.                     *)
LEMMA StepInputEnd ==
  ASSUME IInv, InputEnd PROVE IInv'
<1>0. /\ ThreadTypes /\ InputTypes /\ Writing
  BY DEF IInv, Types
<1>1. /\ UNCHANGED <<sockets, clients, listen_readable, g_cur_ticks, accepted,
                     got, listen_edge, expired, output, forwarded, told,
                     restarts, iter, sock, heard, commands>>
      /\ pc = "flush" /\ pc' = "pending" /\ writable_list' = <<>>
      /\ batch' = 0 /\ command' = 0 /\ index' = 0
      /\ index > Len(writable_list)
      /\ input' = SubSeq(input, batch + 1, Len(input))
  BY DEF InputEnd, InputOnly, sockets, clients
<1>2. ThreadTypes'
  <2>1. <<>> \in Seq(Slots)
    OBVIOUS
  <2> QED
    BY <2>1, <1>0, <1>1 DEF ThreadTypes
<1>3. Writing'
  <2>1. Left = {}
    <3>1. index .. Len(writable_list) = {}
      BY <1>0, <1>1 DEF ThreadTypes
    <3> QED
      BY <3>1 DEF Left
  <2>2. Writable' = {} /\ IsInjective(<<>>)
    BY <2>1, <1>0, <1>1 DEF Writing, Writable, IsInjective
  <2> QED
    BY <2>2, <1>0, <1>1 DEF Writing
<1>4. Iterating' /\ Sane
  BY <1>1 DEF Iterating, Sane
<1>5. InputTypes' /\ Sent' \subseteq Sent
  <2> DEFINE Command == [cmd : CommandKinds, cids : Seq(CidType)]
  <2>1. input \in Seq(Command) /\ batch \in Nat
    BY <1>0 DEF InputTypes, ThreadTypes
  <2> HIDE DEF Command
  <2>2. /\ input' \in Seq(Command)
        /\ \A i \in DOMAIN input' : \E j \in DOMAIN input : input'[i] = input[j]
    <3> DEFINE n == Len(input)
    <3>1. n \in Nat /\ DOMAIN input = 1 .. n
      BY <2>1
    <3>2. CASE batch + 1 > n
      <4>1. input' = <<>>
        BY <2>1, <3>1, <3>2, <1>1
      <4> QED
        BY <4>1
    <3>3. CASE batch + 1 <= n
      <4>1. /\ input' \in Seq(Command) /\ Len(input') = n - batch
            /\ \A i \in 1 .. n - batch : input'[i] = input[batch + i]
        BY <2>1, <3>1, <3>3, <1>1
      <4>2. \A i \in 1 .. n - batch : batch + i \in 1 .. n
        BY <2>1, <3>1, <3>3
      <4> QED
        BY <3>1, <4>1, <4>2
    <3> QED
      BY <2>1, <3>1, <3>2, <3>3
  <2>3. InputTypes'
    BY <2>2, <1>0, <1>1 DEF InputTypes, Command
  <2> QED
    BY <2>2, <2>3 DEF Sent
<1> QED
  BY <1>1, <1>2, <1>3, <1>4, <1>5, ThreadMoves

-----------------------------------------------------------------------------
(* The actions of the event loop that change what is readable.             *)
LEMMA StepEpollWait ==
  ASSUME IInv, EpollWait PROVE IInv'
<1> DEFINE ready == {SlotOf(c) : c \in edges}
                      \union (IF listen_edge THEN {Listen} ELSE {})
<1>0. /\ Types /\ Core /\ Writing /\ Events /\ Streams /\ Names /\ Says /\ Used
      /\ pc = "poll" /\ pc' = "serve" /\ Sane
      /\ iter' = IF readable_list' = <<>> THEN End ELSE Head(readable_list')
      /\ expired' = 0 /\ listen_edge' = FALSE /\ edges' = {}
      /\ UNCHANGED <<pool, arrived, stream, huge, closed, heard, commands,
                     accepted, got, output, input, forwarded, told, restarts,
                     batch, command, index, writable_list>>
  BY DEF IInv, EpollWait, PollOnly, clients, Sane
<1>1. /\ Core'
      /\ \A s \in Slots : s \in Established /\ sock[s].who \in edges
                            => sock'[s].readable
      /\ listen_edge => listen_readable'
      /\ \A s \in Slots : /\ sock'[s].sn = sock[s].sn
                          /\ sock'[s].who = sock[s].who
                          /\ sock'[s].status = sock[s].status
                          /\ sock'[s].writable = sock[s].writable
                          /\ sock'[s].iov_num = sock[s].iov_num
                          /\ sock'[s].package = sock[s].package
  <2>1. /\ readable_list = <<>> /\ listen_edge \in BOOLEAN /\ expired \in Nat
        /\ readable_list' \in OrdersOf(ready)
        /\ sock' = [s \in Slots |->
                      IF s \in ready THEN [sock[s] EXCEPT !.readable = TRUE]
                                     ELSE sock[s]]
        /\ listen_readable' = (listen_readable \/ listen_edge)
        /\ edges' = {} /\ g_cur_ticks' = g_cur_ticks + expired
        /\ UNCHANGED <<pool, g_pending_socket_list, g_package_socket_list,
                       open, accepted>>
    BY <1>0 DEF EpollWait, Types, ClientTypes
  <2> HIDE DEF ready
  <2>2. ready = {SlotOf(c) : c \in edges}
                  \union (IF listen_edge THEN {Listen} ELSE {})
    BY DEF ready
  <2> QED
    BY <2>1, <2>2, <1>0, PollKeeps
<1>2. iter' \in Readable' \union {End} /\ iter' \in Slots \union {Listen, End}
  <2>1. /\ readable_list' \in Seq(Slots \union {Listen})
        /\ Links(readable_list', Readable')
    BY <1>1 DEF Core, CoreTypes, Lists
  <2>2. readable_list' # <<>> => /\ Head(readable_list') \in Readable'
                                 /\ Head(readable_list') \in Slots \union {Listen}
    BY <2>1, TailLinks
  <2> QED
    BY <2>2, <1>0
<1>3. Types'
  BY <1>0, <1>2 DEF Types, ThreadTypes, ClientTypes, OutputTypes, InputTypes,
                    HistoryTypes
<1>4. Writing'
  <2>1. Writable' = Writable
    BY <1>1 DEF Writable
  <2> QED
    BY <2>1, <1>0, <1>1 DEF Writing
<1>5. Iterating'
  BY <1>2 DEF Iterating
<1>6. Events'
  <2>1. ASSUME NEW s \in Established', HasNews(sock[s].who)'
        PROVE  sock'[s].readable
    <3>1. s \in Slots /\ s \in Established /\ sock'[s].who = sock[s].who
      BY <1>1 DEF Established
    <3>2. HasNews(sock[s].who)
      BY <2>1, <3>1, <1>0 DEF HasNews, Unread
    <3>3. CASE sock[s].who \in edges
      BY <3>1, <3>3, <1>1
    <3>4. CASE sock[s].who \notin edges
      <4>1. sock[s].readable
        BY <3>1, <3>2, <3>4, <1>0 DEF Events
      <4>2. s \in Readable /\ Readable = {}
        <5>1. /\ readable_list \in Seq(Slots \union {Listen})
              /\ Links(readable_list, Readable) /\ readable_list = <<>>
          BY <1>0 DEF Core, CoreTypes, Lists, EpollWait
        <5> QED
          BY <3>1, <4>1, <5>1, Entry DEF Readable
      <4> QED
        BY <4>2
    <3> QED
      BY <3>3, <3>4
  <2>2. accepted' < arrived' => listen_readable'
    <3>1. accepted < arrived => listen_readable \/ listen_edge
      BY <1>0 DEF Events
    <3>2. listen_readable' = (listen_readable \/ listen_edge)
      BY DEF EpollWait
    <3> QED
      BY <3>1, <3>2, <1>0
  <2> QED
    BY <2>1, <2>2, <1>1 DEF Events
<1>7. \A s \in Slots : Live(s)' <=> Live(s)
  BY <1>1 DEF Live
<1>8. Streams' /\ Says'
  BY <1>0, <1>1, <1>7 DEF Streams, Says
<1>9. Names'
  <2>1. Known' = Known
    BY <1>0 DEF Known, Sent, Connects
  <2>2. \A cid \in Known : cid.id \in Slots
    BY <1>0, KnownTypes DEF Types, CidType
  <2> QED
    BY <2>1, <2>2, <1>0, <1>1, <1>7 DEF Names, Matches
<1>10. Used'
  BY <1>0 DEF Used
<1> QED
  BY <1>1, <1>3, <1>4, <1>5, <1>6, <1>8, <1>9, <1>10 DEF IInv

(* The accept queue is empty.                                              *)
LEMMA StepListenAgain ==
  ASSUME IInv, ListenAgain PROVE IInv'
<1>0. /\ Types /\ Core /\ Writing /\ Events /\ Streams /\ Names /\ Says /\ Used
      /\ pc = "serve" /\ pc' = "serve" /\ Sane
      /\ iter = Listen /\ iter' = NextIter
      /\ accepted = arrived /\ listen_readable' = FALSE
      /\ readable_list' = Unlink(readable_list, Listen)
      /\ UNCHANGED <<pool, sock, g_pending_socket_list, g_package_socket_list,
                     edges, open, accepted, output, told, listen_edge, got,
                     forwarded, arrived, stream, huge, closed, heard,
                     commands, g_cur_ticks, expired, input, restarts, batch,
                     command, index, writable_list>>
  BY DEF IInv, ListenAgain, Serving, ListenOnly, ServeOnly, clients, Sane
<1>1. iter \in Readable /\ listen_readable
  BY <1>0, Constants DEF IInv, Iterating, Free, Readable, Listen, End
<1>2. Core'
  BY <1>0, <1>1, ListenAgainKeeps
<1>3. NextIter \in (Readable \ {Listen}) \union {End}
  BY <1>0, <1>1, NextIterOK
<1>4. iter' \in Readable' \union {End} /\ iter' \in Slots \union {Listen, End}
  BY <1>0, <1>3 DEF Readable
<1>5. Types'
  BY <1>0, <1>4 DEF Types, ThreadTypes, ClientTypes, OutputTypes, InputTypes,
                    HistoryTypes
<1>6. Writing' /\ Iterating'
  BY <1>0, <1>4 DEF Writing, Writable, Iterating
<1>7. Events'
  <2>1. Established' = Established /\ \A c : HasNews(c)' <=> HasNews(c)
    BY <1>0 DEF Established, HasNews, Unread
  <2>2. ~(accepted' < arrived')
    BY <1>0 DEF Types, ClientTypes
  <2> QED
    BY <2>1, <2>2, <1>0 DEF Events
<1>8. Streams' /\ Says' /\ Used'
  BY <1>0 DEF Streams, Says, Live, Used
<1>9. Names'
  BY <1>0 DEF Names, Known, Sent, Connects, Matches, Live
<1> QED
  BY <1>2, <1>5, <1>6, <1>7, <1>8, <1>9 DEF IInv

(* The stream is empty.                                                    *)
LEMMA StepRecvAgain ==
  ASSUME IInv, NEW s \in Slots, RecvAgain(s) PROVE IInv'
<1>0. /\ Types /\ Core /\ Writing /\ Events /\ Streams /\ Names /\ Says /\ Used
      /\ pc = "serve" /\ pc' = "serve" /\ Sane
      /\ iter = s /\ iter' = NextIter /\ Live(s)
      /\ ~HasNews(sock[s].who)
      /\ sock' = [sock EXCEPT ![s].readable = FALSE]
      /\ readable_list' = Unlink(readable_list, s)
      /\ UNCHANGED <<pool, g_pending_socket_list, g_package_socket_list, edges,
                     open, got, output, forwarded, told, listen_readable,
                     listen_edge, accepted, arrived, stream, huge, closed,
                     heard, commands, g_cur_ticks, expired, input, restarts,
                     batch, command, index, writable_list>>
  BY DEF IInv, RecvAgain, Receiving, Serving, RecvOnly, ServeOnly, clients,
         Sane, HasNews
<1>1. iter \in Readable /\ sock[s].readable
  BY <1>0, ServedReadable
<1>2. Core'
  BY <1>0, <1>1, AgainKeeps
<1>3. \A t \in Slots : /\ sock'[t].sn = sock[t].sn
                       /\ sock'[t].who = sock[t].who
                       /\ sock'[t].status = sock[t].status
                       /\ sock'[t].writable = sock[t].writable
                       /\ sock'[t].iov_num = sock[t].iov_num
                       /\ sock'[t].package = sock[t].package
                       /\ t # s => sock'[t] = sock[t]
  <2>1. sock \in [Slots -> SocketType]
    BY <1>0 DEF Core, CoreTypes
  <2> QED
    BY <2>1, <1>0 DEF SocketType
<1>4. NextIter \in (Readable \ {s}) \union {End}
  BY <1>0, <1>1, NextIterOK
<1>5. iter' \in Readable' \union {End} /\ iter' \in Slots \union {Listen, End}
  BY <1>0, <1>3, <1>4 DEF Readable
<1>6. Types'
  BY <1>0, <1>5 DEF Types, ThreadTypes, ClientTypes, OutputTypes, InputTypes,
                    HistoryTypes
<1>7. Writing' /\ Iterating'
  <2>1. Writable' = Writable
    BY <1>3 DEF Writable
  <2> QED
    BY <2>1, <1>0, <1>3, <1>5 DEF Writing, Iterating
<1>8. Events'
  <2>1. ASSUME NEW t \in Established', HasNews(sock[t].who)'
        PROVE  sock'[t].readable \/ sock'[t].who \in edges'
    <3>1. t \in Slots /\ t \in Established /\ sock'[t].who = sock[t].who
      BY <1>3 DEF Established
    <3>2. HasNews(sock[t].who)
      BY <2>1, <3>1, <1>0 DEF HasNews, Unread
    <3>3. t # s
      BY <3>2, <1>0
    <3> QED
      BY <3>1, <3>2, <3>3, <1>0, <1>3 DEF Events
  <2> QED
    BY <2>1, <1>0, <1>3 DEF Events, Established
<1>9. \A t \in Slots : Live(t)' <=> Live(t)
  BY <1>3 DEF Live
<1>10. Streams' /\ Says' /\ Used'
  BY <1>0, <1>3, <1>9 DEF Streams, Says, Used
<1>11. Names'
  <2>1. Known' = Known
    BY <1>0 DEF Known, Sent, Connects
  <2>2. \A cid \in Known : cid.id \in Slots
    BY <1>0, KnownTypes DEF Types, CidType
  <2> QED
    BY <2>1, <2>2, <1>0, <1>3, <1>9 DEF Names, Matches
<1> QED
  BY <1>2, <1>6, <1>7, <1>8, <1>10, <1>11 DEF IInv

(* A message that tells of a connection adds its name.                     *)
LEMMA KnownOfConnect ==
  ASSUME OutputTypes, NEW m, m.cmd = "connect", output' = Append(output, m)
  PROVE  Connects' = Connects \union {m.cid}
<1> DEFINE Told(out) == {j \in DOMAIN out : out[j].cmd = "connect"}
<1>1. /\ output \in Seq([cmd : {"connect", "recv"}, size : Nat, cid : CidType])
      /\ Len(output) \in Nat
  BY DEF OutputTypes
<1>2. /\ DOMAIN output = 1 .. Len(output)
      /\ DOMAIN output' = 1 .. Len(output) + 1
      /\ \A i \in 1 .. Len(output) : output'[i] = output[i]
      /\ output'[Len(output) + 1] = m
  BY <1>1
<1>3. Told(output') = Told(output) \union {Len(output) + 1}
  BY <1>1, <1>2
<1>4. \A i \in Told(output) : output'[i].cid = output[i].cid
  BY <1>2
<1>5. Connects' = {output'[i].cid : i \in Told(output')}
      /\ Connects = {output[i].cid : i \in Told(output)}
  BY DEF Connects
<1> HIDE DEF Told
<1>6. {output'[i].cid : i \in Told(output')}
        = {output'[i].cid : i \in Told(output)}
            \union {output'[Len(output) + 1].cid}
  BY <1>3
<1>7. {output'[i].cid : i \in Told(output)} = {output[i].cid : i \in Told(output)}
  BY <1>4
<1> QED
  BY <1>2, <1>5, <1>6, <1>7

(* A client is taken from the accept queue, with a socket from the pool.   *)
LEMMA StepListenAccept ==
  ASSUME IInv, ListenAccept PROVE IInv'
<1> DEFINE s   == Head(pool.unused)
           c   == accepted + 1
           cid == [id |-> s, sn |-> pool.sn, who |-> c]
           new == [Constructed(pool.sn, c) EXCEPT
                     !.status = "syn_sent",
                     !.pending_ticks = g_cur_ticks + AcceptTicksLimit]
<1>0. /\ Types /\ Core /\ Writing /\ Events /\ Streams /\ Names /\ Says /\ Used
      /\ pc = "serve" /\ pc' = "serve" /\ Sane /\ ~OutputFull
      /\ iter = Listen /\ iter' = NextIter
      /\ pool.unused # <<>> /\ accepted < arrived
      /\ NewSocket(s, c) /\ accepted' = c
      /\ output' = Append(output, [cmd |-> "connect", size |-> 0, cid |-> cid])
      /\ told' = [told EXCEPT ![c] = "connect"]
      /\ UNCHANGED <<listen_readable, listen_edge, got, forwarded, arrived,
                     stream, huge, closed, heard, commands, g_cur_ticks,
                     expired, input, restarts, batch, command, index,
                     writable_list>>
  BY DEF IInv, ListenAccept, Serving, ListenOnly, ServeOnly, clients, Sane
<1>1. /\ c \in Clients /\ accepted \in Nat /\ c \in 0 .. arrived /\ c \in Nat
      /\ Clients \subseteq Nat /\ pool.sn \in Nat
  BY <1>0, Constants DEF Types, ClientTypes, Clients, Core, CoreTypes
<1> HIDE DEF s, c, cid, new
<1>2. /\ Core'
      /\ s \in Slots /\ ~Live(s) /\ sock'[s] = new
      /\ \A t \in Slots \ {s} : sock'[t] = sock[t]
      /\ pool'.sn = pool.sn + 1
      /\ pool'.used + Len(pool'.unused) = pool.used + Len(pool.unused)
  BY <1>0, <1>1, NewSocketKeeps DEF s, c, new
<1>3. /\ new.sn = pool.sn /\ new.status = "syn_sent" /\ new.package = 0
      /\ ~new.readable /\ ~new.writable /\ new.iov_num = 0 /\ new.who = c
  BY DEF new, Constructed
<1>4. \A t \in Slots : Live(t)' <=> Live(t) \/ t = s
  BY <1>1, <1>2, <1>3 DEF Live, Invalid
<1>5. \A t \in Slots : Live(t) => /\ t # s /\ sock'[t] = sock[t]
                                  /\ sock[t].who \in Clients
                                  /\ sock[t].who # c
  BY <1>0, <1>1, <1>2, LiveSocket DEF c
<1>6. ~sock[s].writable /\ ~sock[s].readable /\ s \notin Established
  BY <1>0, <1>2, Fields, LiveSocket DEF Core
<1>7. /\ cid \in CidType /\ cid.id = s /\ cid.sn = pool.sn /\ cid.who = c
  BY <1>1, <1>2 DEF cid, CidType
<1>8. OutputTypes' /\ Connects' = Connects \union {cid}
  <2>1. OutputTypes'
    BY <1>0, <1>7, OutputGrows DEF Types
  <2>2. /\ [cmd |-> "connect", size |-> 0, cid |-> cid].cmd = "connect"
        /\ [cmd |-> "connect", size |-> 0, cid |-> cid].cid = cid
    OBVIOUS
  <2> QED
    BY <2>1, <2>2, <1>0, KnownOfConnect DEF Types
<1>9. iter' \in Readable' \union {End} /\ iter' \in Slots \union {Listen, End}
  <2>1. iter \in Readable
    BY <1>0, Constants DEF IInv, Iterating, Free, Listen, End
  <2>2. NextIter \in Readable \union {End}
    BY <2>1, <1>0, NextIterOK
  <2>3. Readable' = Readable
    BY <1>0, <1>2, <1>3, <1>6 DEF Readable
  <2> QED
    BY <2>2, <2>3, <1>0 DEF Readable
<1>10. /\ told' \in [Clients -> {"nothing", "connect", "closed"}]
       /\ told'[c] = "connect" /\ \A d \in Clients \ {c} : told'[d] = told[d]
  BY <1>0, <1>1 DEF Types, HistoryTypes
<1>11. Types'
  BY <1>0, <1>1, <1>8, <1>9, <1>10
     DEF Types, ThreadTypes, ClientTypes, InputTypes, HistoryTypes
<1>12. Writing' /\ Iterating'
  <2>1. Writable' = Writable
    BY <1>2, <1>3, <1>6 DEF Writable
  <2>2. \A t \in Slots : sock'[t].iov_num > 0 => sock'[t].writable
    BY <1>0, <1>2, <1>3 DEF Writing
  <2> QED
    BY <2>1, <2>2, <1>0, <1>9 DEF Writing, Iterating
<1>13. Events'
  <2>1. edges' = edges
    BY <1>0 DEF NewSocket
  <2>2. \A t \in Established' : t \in Established /\ sock'[t] = sock[t]
    BY <1>2, <1>3 DEF Established
  <2>3. \A d : HasNews(d)' <=> HasNews(d)
    BY <1>0 DEF HasNews, Unread
  <2> QED
    BY <2>1, <2>2, <2>3, <1>0 DEF Events
<1>14. Streams' /\ Says'
  <2>1. ASSUME NEW t \in Slots, Live(t)'
        PROVE  /\ 2 * forwarded'[sock'[t].who] + sock'[t].package
                    = got'[sock'[t].who]
               /\ told'[sock'[t].who] = "connect"
    <3>1. CASE t = s
      <4>1. got[c] = 0 /\ forwarded[c] = 0
        BY <1>0, <1>1 DEF Streams, c
      <4> QED
        BY <3>1, <4>1, <1>0, <1>2, <1>3, <1>10
    <3>2. CASE t # s
      <4>1. Live(t)
        BY <2>1, <3>2, <1>4
      <4> QED
        BY <4>1, <1>0, <1>5, <1>10 DEF Streams, Says
    <3> QED
      BY <3>1, <3>2
  <2>2. ASSUME NEW d \in Clients, d > accepted'
        PROVE  got'[d] = 0 /\ forwarded'[d] = 0 /\ told'[d] = "nothing"
    <3>1. d > accepted /\ d # c
      BY <2>2, <1>0, <1>1 DEF c
    <3> QED
      BY <3>1, <1>0, <1>10 DEF Streams, Says
  <2> QED
    BY <2>1, <2>2 DEF Streams, Says
<1>15. Names'
  <2>1. Known' = Known \union {cid}
    BY <1>0, <1>8 DEF Known, Sent
  <2>2. \A k \in Known : k.id \in Slots /\ k.sn \in Nat \union {Invalid}
    BY <1>0, KnownTypes DEF Types, CidType
  <2> SUFFICES ASSUME restarts = 0, NEW k \in Known \union {cid}
               PROVE  /\ k.sn < pool'.sn
                      /\ Matches(k)' => sock'[k.id].who = k.who
    BY <2>1, <1>0 DEF Names
  <2>3. CASE k = cid
    BY <2>3, <1>1, <1>2, <1>3, <1>7
  <2>4. CASE k \in Known
    <3>1. k.sn < pool.sn /\ (Matches(k) => sock[k.id].who = k.who)
      BY <2>4, <1>0 DEF Names
    <3>2. k.sn < pool'.sn
      BY <3>1, <2>2, <2>4, <1>1, <1>2 DEF Invalid
    <3>3. Matches(k)' => k.id # s
      BY <3>1, <2>2, <2>4, <1>1, <1>2, <1>3 DEF Matches, Invalid
    <3> QED
      BY <3>1, <3>2, <3>3, <2>2, <2>4, <1>2, <1>4 DEF Matches
  <2> QED
    BY <2>3, <2>4
<1>16. Used'
  BY <1>0, <1>2 DEF Used
<1> QED
  BY <1>2, <1>11, <1>12, <1>13, <1>14, <1>15, <1>16 DEF IInv

(* The whole packages that go out and the half that stays are what was     *)
(* there and what has come.                                                *)
LEMMA Halves ==
  ASSUME NEW m \in Nat
  PROVE  /\ m \div 2 \in Nat /\ m % 2 \in 0 .. 1
         /\ 2 * (m \div 2) + (m % 2) = m
OBVIOUS

(* Whole packages go out, half a package stays.                            *)
LEMMA StepRecvPackages ==
  ASSUME IInv, NEW s \in Slots, NEW n \in 1 .. MaxHalves, RecvPackages(s, n)
  PROVE  IInv'
<1> DEFINE c     == sock[s].who
           whole == Received(s, n) \div 2
           half  == Received(s, n) % 2
           list  == IF sock[s].package > 0 THEN Unlink(g_package_socket_list, s)
                                           ELSE g_package_socket_list
           m     == [cmd |-> "recv", size |-> whole, cid |-> Cid(s)]
<1>0. /\ Types /\ Core /\ Writing /\ Events /\ Streams /\ Names /\ Says /\ Used
      /\ pc = "serve" /\ pc' = "serve" /\ Sane /\ ~OutputFull
      /\ iter = s /\ Live(s) /\ iter' = NextIter /\ pool.packages > 0
      /\ n <= Unread(c)
      /\ got' = [got EXCEPT ![c] = @ + n]
      /\ sock' = [sock EXCEPT ![s].package = half,
                              ![s].package_ticks =
                                IF half > 0 THEN g_cur_ticks + PackageTicksLimit
                                            ELSE 0]
      /\ pool' = [pool EXCEPT !.packages =
                    @ + (IF sock[s].package > 0 THEN 1 ELSE 0) - half]
      /\ g_package_socket_list' = IF half > 0 THEN Append(list, s) ELSE list
      /\ output' = IF whole = 0 THEN output ELSE Append(output, m)
      /\ forwarded' = [forwarded EXCEPT ![c] = @ + whole]
      /\ UNCHANGED <<g_pending_socket_list, readable_list, edges, open, told,
                     listen_readable, listen_edge, accepted, arrived, stream,
                     huge, closed, heard, commands, g_cur_ticks, expired,
                     input, restarts, batch, command, index, writable_list>>
  BY DEF IInv, RecvPackages, Receiving, Serving, RecvOnly, ServeOnly, clients,
         Sane
<1>1. /\ c \in Clients /\ c <= accepted /\ accepted \in Nat
      /\ Clients \subseteq Nat
      /\ sock[s].package \in 0 .. 1
      /\ stream[c] \in 0 .. MaxHalves /\ got[c] \in 0 .. MaxHalves
      /\ forwarded[c] \in Nat /\ n \in Nat \ {0}
      /\ got \in [Clients -> 0 .. MaxHalves] /\ forwarded \in [Clients -> Nat]
  <2>1. sock[s] \in SocketType
    BY <1>0 DEF Core, CoreTypes
  <2>2. c \in Clients /\ c <= accepted /\ accepted \in Nat
    BY <1>0, LiveSocket DEF Core, CoreTypes
  <2>3. sock[s].package \in 0 .. 1
    BY <2>1 DEF SocketType
  <2>4. /\ stream \in [Clients -> 0 .. MaxHalves]
        /\ got \in [Clients -> 0 .. MaxHalves] /\ forwarded \in [Clients -> Nat]
    BY <1>0 DEF Types, ClientTypes, HistoryTypes
  <2> HIDE DEF c
  <2>5. /\ stream[c] \in 0 .. MaxHalves /\ got[c] \in 0 .. MaxHalves
        /\ forwarded[c] \in Nat
    BY <2>2, <2>4
  <2>6. n \in Nat \ {0}
    BY Constants
  <2> QED
    BY <2>2, <2>3, <2>4, <2>5, <2>6, Constants
<1>2. /\ whole \in Nat /\ half \in 0 .. 1
      /\ 2 * whole + half = sock[s].package + n
  <2>1. sock[s].package + n \in Nat
    BY <1>1
  <2> QED
    BY <2>1, Halves DEF Received
<1> HIDE DEF whole, half, list, c, m
<1>3. iter \in Readable /\ sock[s].readable /\ sock[s].status = "established"
  <2>1. iter \in Readable /\ sock[s].readable
    BY <1>0, ServedReadable
  <2> QED
    BY <2>1, <1>0 DEF Core, SocketsOK, SocketOK
<1>4. /\ Core'
      /\ sock'[s].package = half
      /\ \A t \in Slots : /\ sock'[t].sn = sock[t].sn
                          /\ sock'[t].who = sock[t].who
                          /\ sock'[t].status = sock[t].status
                          /\ sock'[t].readable = sock[t].readable
                          /\ sock'[t].writable = sock[t].writable
                          /\ sock'[t].iov_num = sock[t].iov_num
                          /\ t # s => sock'[t] = sock[t]
      /\ pool'.sn = pool.sn /\ pool'.unused = pool.unused
      /\ pool'.used = pool.used
  BY <1>0, <1>2, <1>3, PackageKeeps DEF list
<1>5. /\ got'[c] = got[c] + n /\ forwarded'[c] = forwarded[c] + whole
      /\ \A d \in Clients \ {c} : got'[d] = got[d] /\ forwarded'[d] = forwarded[d]
      /\ got'[c] <= stream[c]
      /\ got' \in [Clients -> 0 .. MaxHalves] /\ forwarded' \in [Clients -> Nat]
  <2>1. got[c] + n <= stream[c] /\ got[c] + n \in 0 .. MaxHalves
    <3>1. n <= stream[c] - got[c]
      BY <1>0 DEF Unread
    <3> QED
      BY <3>1, <1>1, Constants
  <2>2. forwarded[c] + whole \in Nat
    BY <1>1, <1>2
  <2> QED
    BY <2>1, <2>2, <1>0, <1>1
<1>6. OutputTypes' /\ Connects' = Connects
  <2>1. CASE whole = 0
    BY <2>1, <1>0 DEF Types, OutputTypes, Connects
  <2>2. CASE whole # 0
    <3>1. m.cmd # "connect" /\ output' = Append(output, m)
      BY <2>2, <1>0 DEF m
    <3>2. OutputTypes'
      BY <3>1, <1>0, <1>2, OutputGrows, CidTyped DEF m, Types
    <3> QED
      BY <3>1, <3>2, <1>0, KnownOfRecv DEF Types
  <2> QED
    BY <2>1, <2>2
<1>7. iter' \in Readable' \union {End} /\ iter' \in Slots \union {Listen, End}
  <2>1. NextIter \in Readable \union {End}
    BY <1>0, <1>3, NextIterOK
  <2>2. Readable' = Readable
    BY <1>0, <1>4 DEF Readable
  <2> QED
    BY <2>1, <2>2, <1>0 DEF Readable
<1>frame. /\ Core /\ Events /\ Streams /\ Names /\ Says /\ Used
          /\ UNCHANGED <<edges, told, accepted, arrived, stream, huge, closed,
                         heard, input, restarts, listen_readable, listen_edge>>
          /\ Sane /\ \A t \in Slots : t # s /\ Live(t) =>
                       sock[t].who \in Clients \ {c}
  <2>1. \A t \in Slots : t # s /\ Live(t) => sock[t].who \in Clients \ {c}
    BY <1>0, LiveSocket DEF c
  <2> QED
    BY <2>1, <1>0
<1>8. Types'
  BY <1>0, <1>5, <1>6, <1>7 DEF Types, ThreadTypes, ClientTypes, InputTypes,
                                HistoryTypes
<1>9. Writing' /\ Iterating'
  <2>1. Writable' = Writable
    BY <1>4 DEF Writable
  <2> QED
    BY <2>1, <1>0, <1>4, <1>7 DEF Writing, Iterating
<1>10. Events'
  <2>1. ASSUME NEW t \in Established', HasNews(sock[t].who)'
        PROVE  sock'[t].readable \/ sock'[t].who \in edges'
    <3>1. t \in Slots /\ t \in Established /\ sock'[t].who = sock[t].who
      BY <1>4 DEF Established
    <3>2. CASE t = s
      BY <3>2, <1>3, <1>4
    <3>3. CASE t # s
      <4>1. sock[t].who \in Clients \ {c}
        BY <3>1, <3>3, <1>frame, LiveSocket
      <4>2. got'[sock[t].who] = got[sock[t].who]
        BY <4>1, <1>5
      <4>3. HasNews(sock[t].who)
        BY <2>1, <3>1, <4>2, <1>frame DEF HasNews, Unread
      <4>4. sock'[t] = sock[t]
        BY <3>1, <3>3, <1>4
      <4> QED
        BY <3>1, <4>3, <4>4, <1>frame DEF Events
    <3> QED
      BY <3>2, <3>3
  <2> QED
    BY <2>1, <1>0, <1>4 DEF Events, Established
<1>11. \A t \in Slots : Live(t)' <=> Live(t)
  BY <1>4 DEF Live
<1>12. Streams'
  <2>1. ASSUME NEW t \in Slots, Live(t)
        PROVE  2 * forwarded'[sock'[t].who] + sock'[t].package
                 = got'[sock'[t].who]
    <3>1. CASE t = s
      <4>1. 2 * forwarded[c] + sock[s].package = got[c]
        BY <1>0 DEF Streams, c
      <4>2. 2 * (forwarded[c] + whole) + half = got[c] + n
        BY <4>1, <1>1, <1>2
      <4> QED
        BY <3>1, <4>2, <1>4, <1>5 DEF c
    <3>2. CASE t # s
      <4>1. sock[t].who \in Clients \ {c} /\ sock'[t] = sock[t]
        BY <2>1, <3>2, <1>frame, <1>4
      <4>2. /\ got'[sock[t].who] = got[sock[t].who]
            /\ forwarded'[sock[t].who] = forwarded[sock[t].who]
        BY <4>1, <1>5
      <4> QED
        BY <2>1, <4>1, <4>2, <1>frame DEF Streams
    <3> QED
      BY <3>1, <3>2
  <2>2. ASSUME NEW d \in Clients, d > accepted
        PROVE  got'[d] = 0 /\ forwarded'[d] = 0
    <3>1. d # c
      BY <2>2, <1>1
    <3> QED
      BY <2>2, <3>1, <1>0, <1>5 DEF Streams
  <2> QED
    BY <2>1, <2>2, <1>0, <1>11 DEF Streams
<1>13. Says' /\ Used'
  <2>1. Says'
    BY <1>frame, <1>4, <1>11 DEF Says
  <2>2. Used'
    BY <1>frame, <1>4 DEF Used
  <2> QED
    BY <2>1, <2>2
<1>14. Names'
  <2>1. Known' = Known
    BY <1>0, <1>6 DEF Known, Sent
  <2>2. \A cid \in Known : cid.id \in Slots
    BY <1>0, KnownTypes DEF Types, CidType
  <2>3. \A cid \in Known :
          /\ Matches(cid)' <=> Matches(cid)
          /\ sock'[cid.id].who = sock[cid.id].who
    BY <2>2, <1>4, <1>11 DEF Matches
  <2>4. Names /\ restarts' = restarts /\ pool'.sn = pool.sn
    BY <1>frame, <1>4
  <2> QED
    BY <2>1, <2>3, <2>4 DEF Names
<1> QED
  BY <1>4, <1>8, <1>9, <1>10, <1>12, <1>13, <1>14 DEF IInv

(* A freed socket is served.                                               *)
LEMMA StepServeFreed ==
  ASSUME IInv, ServeFreed PROVE IInv'
<1> DEFINE m == [cmd |-> "recv", size |-> 0, cid |-> Cid(iter)]
<1>0. /\ Types /\ Core /\ Writing /\ Events /\ Streams /\ Names /\ Says
      /\ pc = "serve" /\ pc' = "wrecked" /\ ~OutputFull /\ iter \in Slots
      /\ output' = Append(output, m)
      /\ pool' = [pool EXCEPT !.used = @ - 1]
      /\ UNCHANGED <<sock, g_pending_socket_list, g_package_socket_list,
                     readable_list, edges, open, iter, listen_readable,
                     listen_edge, accepted, got, forwarded, told, arrived,
                     stream, huge, closed, heard, commands, g_cur_ticks,
                     expired, input, restarts, batch, command, index,
                     writable_list>>
  BY DEF IInv, ServeFreed, ServeOnly, clients
<1>1. /\ pool'.sn = pool.sn /\ pool'.unused = pool.unused
      /\ pool'.packages = pool.packages
      /\ pool' \in [sn : Nat, unused : Seq(Slots), used : Int, packages : Nat]
  <2>1. pool \in [sn : Nat, unused : Seq(Slots), used : Int, packages : Nat]
    BY <1>0 DEF Core, CoreTypes
  <2>2. pool.used - 1 \in Int
    BY <2>1
  <2> QED
    BY <2>1, <2>2, <1>0
<1>2. Core'
  <2>1. CoreTypes'
    BY <1>0, <1>1 DEF Core, CoreTypes
  <2>2. SocketsOK'
    BY <1>0, <1>1 DEF Core, SocketsOK, SocketOK, Live
  <2>3. Lists' /\ Buffers'
    BY <1>0, <1>1 DEF Core, Lists, Buffers, Pending, Buffered, Readable, Free,
                      Live
  <2>4. Ticking' /\ Owned'
    BY <1>0 DEF Core, Ticking, Owned, Pending, Buffered, Established, Live,
                PendingTicks, PackageTicks
  <2> QED
    BY <2>1, <2>2, <2>3, <2>4 DEF Core
<1>3. OutputTypes' /\ Connects' = Connects
  <2>1. OutputTypes'
    BY <1>0, OutputGrows, CidTyped DEF Types
  <2>2. m.cmd # "connect"
    OBVIOUS
  <2> HIDE DEF m
  <2> QED
    BY <2>1, <2>2, <1>0, KnownOfRecv DEF Types
<1> HIDE DEF m
<1>4. Types'
  BY <1>0, <1>3 DEF Types, ThreadTypes, ClientTypes, InputTypes, HistoryTypes
<1>5. Writing' /\ Iterating'
  BY <1>0 DEF Writing, Writable, Iterating
<1>6. Events' /\ Streams' /\ Says'
  BY <1>0 DEF Events, Established, HasNews, Unread, Streams, Says, Live
<1>7. Names'
  BY <1>0, <1>1, <1>3 DEF Names, Known, Sent, Matches, Live
<1>8. Used'
  BY <1>0 DEF Used, Sane
<1> QED
  BY <1>2, <1>4, <1>5, <1>6, <1>7, <1>8 DEF IInv

-----------------------------------------------------------------------------
(* The commands that leave the connection open.                            *)
LEMMA WrittenLinks ==
  ASSUME IInv, pc = "command", NEW s \in Slots, writable_list' = Written(s)
  PROVE  /\ writable_list' \in Seq(Slots)
         /\ Links(writable_list', Writable \union {s})
<1>1. Links(writable_list, Writable) /\ writable_list \in Seq(Slots)
  BY DEF IInv, Writing, Links, Types, ThreadTypes
<1>2. CASE s \in Writable
  <2>1. writable_list' = writable_list /\ Writable \union {s} = Writable
    BY <1>2 DEF Written, Writable
  <2> QED
    BY <2>1, <1>1
<1>3. CASE s \notin Writable
  <2>1. writable_list' = Append(writable_list, s)
    BY <1>3 DEF Written, Writable
  <2> QED
    BY <2>1, <1>1, <1>3, AppendLinks
<1> QED
  BY <1>2, <1>3

(* A package for the client.                                               *)
LEMMA StepPushSend ==
  ASSUME IInv, NEW s \in Slots, PushSend(s) PROVE IInv'
<1> DEFINE n == IF IovFull(s) THEN 1 ELSE sock[s].iov_num + 1
<1>0. /\ Types /\ Core /\ Writing /\ Events /\ Streams /\ Names /\ Says /\ Used
      /\ pc = "command" /\ pc' = "command" /\ Sane /\ Live(s)
      /\ sock' = [sock EXCEPT ![s].iov_num = n, ![s].writable = TRUE]
      /\ writable_list' = Written(s)
      /\ UNCHANGED <<pool, g_pending_socket_list, g_package_socket_list,
                     readable_list, edges, open, arrived, stream, huge,
                     closed, heard, commands, listen_readable, listen_edge,
                     iter, accepted, got, g_cur_ticks, expired, output,
                     forwarded, told, restarts, batch, input>>
  BY DEF IInv, PushSend, Pushing, Commanding, Matches, NextCid, InputOnly,
         clients, Sane
<1>1. sock \in [Slots -> SocketType] /\ sock[s] \in SocketType
  BY <1>0 DEF Core, CoreTypes
<1>2. n \in 0 .. OpListMax
  <2>1. sock[s].iov_num \in 0 .. OpListMax
    BY <1>1 DEF SocketType
  <2> QED
    BY <2>1, Constants DEF IovFull
<1> HIDE DEF n
<1>3. /\ sock' \in [Slots -> SocketType]
      /\ sock'[s].writable
      /\ \A t \in Slots : /\ sock'[t].sn = sock[t].sn
                          /\ sock'[t].who = sock[t].who
                          /\ sock'[t].status = sock[t].status
                          /\ sock'[t].readable = sock[t].readable
                          /\ sock'[t].package = sock[t].package
                          /\ sock'[t].pending_ticks = sock[t].pending_ticks
                          /\ sock'[t].package_ticks = sock[t].package_ticks
                          /\ t # s => sock'[t] = sock[t]
  BY <1>0, <1>1, <1>2 DEF SocketType
<1>4. Core'
  <2>1. \A t \in Slots : ~Live(t) => sock'[t] = Unused
    BY <1>0, <1>3 DEF Core, SocketsOK, SocketOK
  <2> QED
    BY <2>1, <1>0, <1>3, WritesKeep
<1>5. /\ writable_list' \in Seq(Slots) /\ Links(writable_list', Writable')
  <2>1. Writable' = Writable \union {s}
    BY <1>3 DEF Writable
  <2> QED
    BY <2>1, <1>0, WrittenLinks
<1>6. index' \in Nat /\ command' \in Nat
  BY <1>0 DEF PushSend, NextCid, Types, ThreadTypes
<1>frame. /\ Events /\ Streams /\ Names /\ Says /\ Used /\ Writing
          /\ pc = "command" /\ pc' = "command"
          /\ UNCHANGED <<pool, edges, arrived, stream, huge, closed, heard,
                         listen_readable, listen_edge, accepted, got, output,
                         forwarded, told, restarts, input>>
  BY <1>0
<1>7. Types'
  BY <1>0, <1>5, <1>6 DEF Types, ThreadTypes, ClientTypes, OutputTypes,
                          InputTypes, HistoryTypes
<1>8. Writing' /\ Iterating'
  <2>1. \A t \in Slots : sock'[t].iov_num > 0 => sock'[t].writable
    BY <1>frame, <1>3 DEF Writing
  <2> QED
    BY <2>1, <1>frame, <1>5 DEF Writing, Links, Iterating
<1>9. \A t \in Slots : Live(t)' <=> Live(t)
  BY <1>3 DEF Live
<1>10. Events'
  BY <1>frame, <1>3 DEF Events, Established, HasNews, Unread
<1>11. Streams' /\ Says'
  BY <1>frame, <1>3, <1>9 DEF Streams, Says
<1>12. Names'
  <2>1. Known' = Known
    BY <1>frame DEF Known, Sent, Connects
  <2>2. \A cid \in Known : cid.id \in Slots
    BY <1>0, KnownTypes DEF Types, CidType
  <2> QED
    BY <2>1, <2>2, <1>frame, <1>3, <1>9 DEF Names, Matches
<1>13. Used'
  BY <1>frame DEF Used, Sane
<1> QED
  BY <1>4, <1>7, <1>8, <1>10, <1>11, <1>12, <1>13 DEF IInv

(* The backend accepts the connection.                                     *)
LEMMA StepPushAccept ==
  ASSUME IInv, NEW s \in Slots, PushAccept(s) PROVE IInv'
<1>0. /\ Types /\ Core /\ Writing /\ Events /\ Streams /\ Names /\ Says /\ Used
      /\ pc = "command" /\ pc' = "command" /\ Live(s)
      /\ sock[s].status = "syn_sent"
      /\ g_pending_socket_list' = Unlink(g_pending_socket_list, s)
      /\ sock' = [sock EXCEPT ![s].status = "established", ![s].writable = TRUE]
      /\ edges' = IF HasNews(sock[s].who) THEN edges \union {sock[s].who}
                                          ELSE edges
      /\ writable_list' = Written(s)
      /\ UNCHANGED <<pool, g_package_socket_list,
                     readable_list, open, arrived, stream, huge,
                     closed, heard, commands, listen_readable, listen_edge,
                     iter, accepted, got, g_cur_ticks, expired, output,
                     forwarded, told, restarts, batch, input>>
  BY DEF IInv, PushAccept, Pushing, Commanding, Matches, NextCid, InputOnly,
         clients, HasNews
<1>1. Core'
  <2>1. edges \subseteq edges' /\ edges' \subseteq edges \union {sock[s].who}
    BY <1>0
  <2> QED
    BY <2>1, <1>0, AcceptKeeps
<1>2. /\ sock'[s].writable
      /\ \A t \in Slots : /\ sock'[t].sn = sock[t].sn
                          /\ sock'[t].who = sock[t].who
                          /\ sock'[t].readable = sock[t].readable
                          /\ sock'[t].package = sock[t].package
                          /\ sock'[t].iov_num = sock[t].iov_num
                          /\ t # s => sock'[t] = sock[t]
  <2>1. sock \in [Slots -> SocketType]
    BY <1>0 DEF Core, CoreTypes
  <2> QED
    BY <2>1, <1>0 DEF SocketType
<1>3. /\ writable_list' \in Seq(Slots) /\ Links(writable_list', Writable')
  <2>1. Writable' = Writable \union {s}
    BY <1>2 DEF Writable
  <2> QED
    BY <2>1, <1>0, WrittenLinks
<1>4. index' \in Nat /\ command' \in Nat
  BY <1>0 DEF PushAccept, NextCid, Types, ThreadTypes
<1>frame. /\ Events /\ Streams /\ Names /\ Says /\ Used /\ Writing
          /\ pc = "command" /\ pc' = "command"
          /\ edges \subseteq edges'
          /\ HasNews(sock[s].who) => sock[s].who \in edges'
          /\ UNCHANGED <<pool, arrived, stream, huge, closed, heard,
                         listen_readable, listen_edge, accepted, got, output,
                         forwarded, told, restarts, input>>
  BY <1>0
<1>5. Types'
  BY <1>0, <1>3, <1>4 DEF Types, ThreadTypes, ClientTypes, OutputTypes,
                          InputTypes, HistoryTypes
<1>6. Writing' /\ Iterating'
  <2>1. \A t \in Slots : sock'[t].iov_num > 0 => sock'[t].writable
    BY <1>frame, <1>2 DEF Writing
  <2> QED
    BY <2>1, <1>frame, <1>3 DEF Writing, Links, Iterating
<1>7. \A t \in Slots : Live(t)' <=> Live(t)
  BY <1>2 DEF Live
<1>8. Events'
  <2>1. \A c : HasNews(c)' <=> HasNews(c)
    BY <1>frame DEF HasNews, Unread
  <2>2. \A t \in Established' : t \in Slots /\ (t # s => t \in Established)
    BY <1>2 DEF Established
  <2> QED
    BY <2>1, <2>2, <1>frame, <1>2 DEF Events
<1>9. Streams' /\ Says'
  BY <1>frame, <1>2, <1>7 DEF Streams, Says
<1>10. Names'
  <2>1. Known' = Known
    BY <1>frame DEF Known, Sent, Connects
  <2>2. \A cid \in Known : cid.id \in Slots
    BY <1>0, KnownTypes DEF Types, CidType
  <2> QED
    BY <2>1, <2>2, <1>frame, <1>2, <1>7 DEF Names, Matches
<1>11. Used'
  BY <1>frame DEF Used, Sane
<1> QED
  BY <1>1, <1>5, <1>6, <1>8, <1>9, <1>10, <1>11 DEF IInv

(* writev() takes everything.                                              *)
LEMMA StepFlush ==
  ASSUME IInv, NEW s \in Slots, Flush(s) PROVE IInv'
<1>0. /\ Types /\ Core /\ Writing /\ Events /\ Streams /\ Names /\ Says /\ Used
      /\ pc = "flush" /\ pc' = "flush"
      /\ sock[s].status = "established"
      /\ sock' = [sock EXCEPT ![s].iov_num = 0, ![s].writable = FALSE]
      /\ index' = index + 1
      /\ index <= Len(writable_list) /\ writable_list[index] = s
      /\ UNCHANGED <<pool, g_pending_socket_list, g_package_socket_list,
                     readable_list, edges, open, arrived, stream, huge,
                     closed, heard, commands, listen_readable, listen_edge,
                     iter, accepted, got, g_cur_ticks, expired, output,
                     forwarded, told, restarts, batch, input, command,
                     writable_list>>
  BY DEF IInv, Flush, Flushing, FlushOnly, InputOnly, clients
<1>1. /\ s \in Left /\ Left' = Left \ {s} /\ Left = Writable /\ index > 0
      /\ IsInjective(writable_list)
  BY <1>0, LeftShrinks DEF Writing, Types
<1>2. /\ sock' \in [Slots -> SocketType]
      /\ ~sock'[s].writable /\ sock'[s].iov_num = 0
      /\ \A t \in Slots : /\ sock'[t].sn = sock[t].sn
                          /\ sock'[t].who = sock[t].who
                          /\ sock'[t].status = sock[t].status
                          /\ sock'[t].readable = sock[t].readable
                          /\ sock'[t].package = sock[t].package
                          /\ sock'[t].pending_ticks = sock[t].pending_ticks
                          /\ sock'[t].package_ticks = sock[t].package_ticks
                          /\ t # s => sock'[t] = sock[t]
  <2> DEFINE new == [sock[s] EXCEPT !.iov_num = 0, !.writable = FALSE]
  <2>1. sock \in [Slots -> SocketType] /\ 0 \in 0 .. OpListMax
    BY <1>0, Constants DEF Core, CoreTypes
  <2>2. sock[s] \in SocketType
    BY <2>1
  <2>3. /\ new \in SocketType
        /\ ~new.writable /\ new.iov_num = 0
        /\ new.sn = sock[s].sn /\ new.who = sock[s].who
        /\ new.status = sock[s].status /\ new.readable = sock[s].readable
        /\ new.package = sock[s].package
        /\ new.pending_ticks = sock[s].pending_ticks
        /\ new.package_ticks = sock[s].package_ticks
    BY <2>1, <2>2 DEF SocketType
  <2>4. sock' = [sock EXCEPT ![s] = new]
    BY <1>0, <2>1
  <2> HIDE DEF new
  <2> QED
    BY <2>1, <2>3, <2>4
<1>3. Core'
  <2>1. \A t \in Slots : ~Live(t) => sock'[t] = Unused
    <3>1. Live(s)
      BY <1>0, LiveSocket DEF Established
    <3> QED
      BY <3>1, <1>0, <1>2 DEF Core, SocketsOK, SocketOK
  <2> QED
    BY <2>1, <1>0, <1>2, WritesKeep
<1>frame. /\ Events /\ Streams /\ Names /\ Says /\ Used /\ Writing
          /\ pc = "flush" /\ pc' = "flush" /\ index' > 0
          /\ UNCHANGED <<pool, edges, arrived, stream, huge, closed, heard,
                         listen_readable, listen_edge, accepted, got, output,
                         forwarded, told, restarts, input, writable_list>>
  BY <1>0, <1>1 DEF Types, ThreadTypes
<1>4. Types'
  <2>1. Types /\ index' = index + 1 /\ pc = "flush" /\ pc' = "flush"
        /\ UNCHANGED <<iter, batch, command, writable_list, arrived, accepted,
                       stream, got, huge, closed, listen_edge, expired, output,
                       input, heard, commands, forwarded, told, restarts>>
    BY <1>0
  <2>2. ThreadTypes'
    BY <2>1 DEF Types, ThreadTypes
  <2>3. ClientTypes' /\ HistoryTypes'
    BY <2>1 DEF Types, ClientTypes, HistoryTypes
  <2>4. OutputTypes' /\ InputTypes'
    BY <2>1 DEF Types, OutputTypes, InputTypes
  <2> QED
    BY <2>2, <2>3, <2>4 DEF Types
<1>5. Writing' /\ Iterating'
  <2>1. \A t \in Slots : sock'[t].iov_num > 0 => sock'[t].writable
    BY <1>frame, <1>2 DEF Writing
  <2>2. Writable' = Writable \ {s}
    BY <1>2 DEF Writable
  <2> QED
    BY <2>1, <2>2, <1>frame, <1>1 DEF Writing, Iterating
<1>6. \A t \in Slots : Live(t)' <=> Live(t)
  BY <1>2 DEF Live
<1>7. Events'
  BY <1>frame, <1>2 DEF Events, Established, HasNews, Unread
<1>8. Streams' /\ Says'
  BY <1>frame, <1>2, <1>6 DEF Streams, Says
<1>9. Names'
  <2>1. Known' = Known
    BY <1>frame DEF Known, Sent, Connects
  <2>2. \A cid \in Known : cid.id \in Slots
    BY <1>0, KnownTypes DEF Types, CidType
  <2> QED
    BY <2>1, <2>2, <1>frame, <1>2, <1>6 DEF Names, Matches
<1>10. Used'
  BY <1>frame DEF Used, Sane
<1> QED
  BY <1>3, <1>4, <1>5, <1>7, <1>8, <1>9, <1>10 DEF IInv

-----------------------------------------------------------------------------
(* The clients, the clock and the backend.                                 *)
LEMMA OthersMove ==
  ASSUME IInv,
         UNCHANGED <<pool, sock, g_pending_socket_list, g_package_socket_list,
                     readable_list, open, thread, listen_readable,
                     g_cur_ticks, accepted, got, forwarded, told, restarts>>,
         Types', edges' \subseteq {sock[s].who : s \in Established},
         Events', Known' \subseteq Known
  PROVE  IInv'
<1>0. UNCHANGED <<pc, iter, batch, command, index, writable_list>>
  BY DEF thread
<1>1. Core'
  <2>1. CoreTypes' /\ SocketsOK'
    BY DEF IInv, Core, CoreTypes, SocketsOK, SocketOK, Live
  <2>2. Lists' /\ Buffers'
    BY DEF IInv, Core, Lists, Buffers, Pending, Buffered, Readable, Free, Live
  <2>3. Ticking' /\ Owned'
    BY DEF IInv, Core, Ticking, Owned, Pending, Buffered, Established, Live,
           PendingTicks, PackageTicks
  <2> QED
    BY <2>1, <2>2, <2>3 DEF Core
<1>2. Writing' /\ Iterating'
  BY <1>0 DEF IInv, Writing, Writable, Left, Iterating, Readable, Free, Live
<1>3. Streams' /\ Says' /\ Used'
  BY <1>0 DEF IInv, Streams, Says, Used, Sane, Live
<1>4. Names'
  BY DEF IInv, Names, Matches, Live
<1> QED
  BY <1>1, <1>2, <1>3, <1>4 DEF IInv

(* An event of one client disturbs no other.                               *)
LEMMA RaiseKeeps ==
  ASSUME IInv, NEW c \in Clients, RaiseEdge(c),
         \A d \in Clients \ {c} : /\ stream'[d] = stream[d]
                                  /\ d \in huge' => d \in huge
                                  /\ d \in closed' => d \in closed,
         stream' \in [Clients -> 0 .. MaxHalves],
         huge' \subseteq Clients, closed' \subseteq Clients
  PROVE  IInv'
<1>0. /\ Types /\ Core /\ Events
      /\ UNCHANGED <<pool, sock, g_pending_socket_list, g_package_socket_list,
                     readable_list, open, thread, listen_readable, g_cur_ticks,
                     accepted, got, output, input, forwarded, told, restarts,
                     expired, heard, commands, arrived, listen_edge, pc, iter,
                     batch, command, index, writable_list>>
      /\ edges' = IF \E s \in Established : sock[s].who = c
                  THEN edges \union {c} ELSE edges
  BY DEF IInv, RaiseEdge, ClientOnly, ServerIdle, thread, Established
<1>1. edges' \subseteq {sock[s].who : s \in Established}
  BY <1>0 DEF Core, Owned
<1>2. Types'
  BY <1>0 DEF Types, ThreadTypes, ClientTypes, OutputTypes, InputTypes,
              HistoryTypes
<1>3. Events'
  <2>1. ASSUME NEW s \in Established, HasNews(sock[s].who)'
        PROVE  sock[s].readable \/ sock[s].who \in edges'
    <3>1. s \in Slots /\ sock[s].who \in Clients
      BY <1>0, LiveSocket DEF Established
    <3>2. CASE sock[s].who = c
      BY <3>2, <1>0
    <3>3. CASE sock[s].who # c
      <4>1. HasNews(sock[s].who)
        BY <2>1, <3>1, <3>3, <1>0 DEF HasNews, Unread
      <4> QED
        BY <4>1, <1>0 DEF Events
    <3> QED
      BY <3>2, <3>3
  <2>2. Established' = Established
    BY <1>0 DEF Established
  <2> QED
    BY <2>1, <2>2, <1>0 DEF Events
<1>4. Known' = Known
  BY <1>0 DEF Known, Sent, Connects
<1> QED
  BY <1>0, <1>1, <1>2, <1>3, <1>4, OthersMove

(* Clients connect, send and close.                                        *)
LEMMA StepClient ==
  ASSUME IInv, Client PROVE IInv'
<1>0. Types /\ Core /\ Events
  BY DEF IInv
<1>1. CASE ClientConnect
  <2>1. /\ arrived < MaxClients /\ arrived' = arrived + 1 /\ listen_edge' = TRUE
        /\ UNCHANGED <<pool, sock, g_pending_socket_list, g_package_socket_list,
                       readable_list, open, thread, listen_readable,
                       g_cur_ticks, accepted, got, output, input, forwarded,
                       told, restarts, expired, heard, commands, stream, huge,
                       closed, edges, pc, iter, batch, command, index,
                       writable_list>>
    BY <1>1 DEF ClientConnect, ClientOnly, ServerIdle, thread
  <2>2. arrived' \in 0 .. MaxClients /\ accepted \in 0 .. arrived'
    BY <2>1, <1>0, Constants DEF Types, ClientTypes
  <2>3. Types'
    BY <2>1, <2>2, <1>0 DEF Types, ThreadTypes, ClientTypes, OutputTypes,
                            InputTypes, HistoryTypes
  <2>4. Events'
    BY <2>1, <1>0 DEF Events, Established, HasNews, Unread
  <2>5. edges' \subseteq {sock[s].who : s \in Established}
    BY <2>1, <1>0 DEF Core, Owned
  <2>6. Known' = Known
    BY <2>1 DEF Known, Sent, Connects
  <2> QED
    BY <2>1, <2>3, <2>4, <2>5, <2>6, OthersMove
<1>2. ASSUME NEW c \in Clients, ClientSend(c) PROVE IInv'
  <2>1. stream \in [Clients -> 0 .. MaxHalves] /\ huge \subseteq Clients
        /\ closed \subseteq Clients
    BY <1>0 DEF Types, ClientTypes
  <2>2. /\ stream[c] < MaxHalves /\ stream' = [stream EXCEPT ![c] = @ + 1]
        /\ UNCHANGED <<huge, closed>> /\ RaiseEdge(c)
    BY <1>2 DEF ClientSend
  <2>3. stream[c] + 1 \in 0 .. MaxHalves
    BY <2>1, <2>2, Constants
  <2>4. /\ stream' \in [Clients -> 0 .. MaxHalves]
        /\ \A d \in Clients \ {c} : stream'[d] = stream[d]
    BY <2>1, <2>2, <2>3
  <2> QED
    BY <2>1, <2>2, <2>4, RaiseKeeps
<1>3. ASSUME NEW c \in Clients, ClientSendHuge(c) PROVE IInv'
  <2>1. stream \in [Clients -> 0 .. MaxHalves] /\ huge \subseteq Clients
        /\ closed \subseteq Clients
    BY <1>0 DEF Types, ClientTypes
  <2>2. /\ huge' = huge \union {c} /\ UNCHANGED <<stream, closed>>
        /\ RaiseEdge(c)
    BY <1>3 DEF ClientSendHuge
  <2> QED
    BY <2>1, <2>2, RaiseKeeps
<1>4. ASSUME NEW c \in Clients, ClientClose(c) PROVE IInv'
  <2>1. stream \in [Clients -> 0 .. MaxHalves] /\ huge \subseteq Clients
        /\ closed \subseteq Clients
    BY <1>0 DEF Types, ClientTypes
  <2>2. /\ closed' = closed \union {c} /\ UNCHANGED <<stream, huge>>
        /\ RaiseEdge(c)
    BY <1>4 DEF ClientClose
  <2> QED
    BY <2>1, <2>2, RaiseKeeps
<1> QED
  BY <1>1, <1>2, <1>3, <1>4 DEF Client

(* The timer fd expires.                                                   *)
LEMMA StepTimerExpire ==
  ASSUME IInv, TimerExpire PROVE IInv'
<1>1. /\ Types /\ Core /\ Events /\ expired' = expired + 1
      /\ UNCHANGED <<pool, sock, g_pending_socket_list, g_package_socket_list,
                     readable_list, open, thread, listen_readable,
                     g_cur_ticks, accepted, got, output, input, forwarded,
                     told, restarts, arrived, heard, commands, stream, huge,
                     closed, edges, listen_edge, pc, iter, batch, command,
                     index, writable_list>>
  BY DEF IInv, TimerExpire, ServerIdle, thread, clients
<1>2. expired' \in Nat
  BY <1>1 DEF Types, ClientTypes
<1>3. Types'
  BY <1>1, <1>2 DEF Types, ThreadTypes, ClientTypes, OutputTypes, InputTypes,
                    HistoryTypes
<1>4. Events'
  BY <1>1 DEF Events, Established, HasNews, Unread
<1>5. edges' \subseteq {sock[s].who : s \in Established}
  BY <1>1 DEF Core, Owned
<1>6. Known' = Known
  BY <1>1 DEF Known, Sent, Connects
<1> QED
  BY <1>1, <1>3, <1>4, <1>5, <1>6, OthersMove

(* The backend reads a message, or sends a command.                        *)
LEMMA StepBackend ==
  ASSUME IInv, BackendRecv \/ BackendSend PROVE IInv'
<1>1. /\ Types /\ Core /\ Events
      /\ UNCHANGED <<pool, sock, g_pending_socket_list, g_package_socket_list,
                     readable_list, edges, open, thread, arrived, stream, huge,
                     closed, listen_readable, g_cur_ticks, accepted, got,
                     listen_edge, expired, forwarded, told, restarts, pc, iter,
                     batch, command, index, writable_list>>
  BY DEF IInv, BackendRecv, BackendSend, BackendOnly, sockets, thread
<1>2. OutputTypes' /\ InputTypes' /\ Known' \subseteq Known
  <2>0. OutputTypes /\ InputTypes /\ Known \subseteq CidType
    BY <1>1, KnownTypes DEF Types
  <2>1. CASE BackendRecv
    <3> DEFINE Message == [cmd : {"connect", "recv"}, size : Nat, cid : CidType]
    <3>1. /\ output # <<>> /\ output' = Tail(output)
          /\ heard' = IF Head(output).cmd = "connect"
                      THEN heard \union {Head(output).cid} ELSE heard
          /\ UNCHANGED <<input, commands>>
      BY <2>1 DEF BackendRecv
    <3>2. output \in Seq(Message) /\ Len(output) <= OutputLimit
      BY <2>0 DEF OutputTypes
    <3> HIDE DEF Message
    <3>3. /\ output' \in Seq(Message) /\ Len(output') = Len(output) - 1
          /\ Len(output) \in Nat \ {0}
          /\ DOMAIN output' = 1 .. Len(output) - 1
          /\ DOMAIN output = 1 .. Len(output)
          /\ \A i \in 1 .. Len(output) - 1 : output'[i] = output[i + 1]
          /\ Head(output) = output[1]
      BY <3>1, <3>2
    <3>4. OutputTypes'
      BY <3>2, <3>3, Constants DEF OutputTypes, Message
    <3>5. ASSUME NEW i \in DOMAIN output', output'[i].cmd = "connect"
          PROVE  output'[i].cid \in Connects
      <4>1. output'[i] = output[i + 1] /\ i + 1 \in DOMAIN output
        BY <3>3
      <4> QED
        BY <4>1, <3>5 DEF Connects
    <3>6. Connects' \subseteq Connects
      BY <3>5 DEF Connects
    <3>7. heard' \subseteq heard \union Connects
      <4>1. 1 \in DOMAIN output
        BY <3>3
      <4> QED
        BY <4>1, <3>1, <3>3 DEF Connects
    <3>8. Known' \subseteq Known
      BY <3>1, <3>6, <3>7 DEF Known, Sent
    <3>9. heard' \subseteq CidType
      BY <3>8, <2>0 DEF Known
    <3> QED
      BY <3>1, <3>4, <3>8, <3>9, <2>0 DEF InputTypes
  <2>2. CASE BackendSend
    <3>0. PICK kind \in CommandKinds, n \in 1 .. BroadcastMax :
            \E cids \in [1 .. n -> heard] :
              input' = Append(input, [cmd |-> kind, cids |-> cids])
      BY <2>2 DEF BackendSend
    <3>1. PICK cids \in [1 .. n -> heard] :
            input' = Append(input, [cmd |-> kind, cids |-> cids])
      BY <3>0
    <3> DEFINE Command == [cmd : CommandKinds, cids : Seq(CidType)]
               m       == [cmd |-> kind, cids |-> cids]
    <3>2. commands' = commands + 1 /\ commands < MaxCommands
          /\ UNCHANGED <<output, heard>>
      BY <2>2 DEF BackendSend
    <3>3. input \in Seq(Command) /\ heard \subseteq CidType
          /\ commands \in 0 .. MaxCommands
      BY <2>0 DEF InputTypes
    <3>4. m \in Command /\ m.cids = cids /\ ToSet(cids) \subseteq heard
      <4>1. n \in Nat
        BY TconndAssumption
      <4>2. cids \in Seq(CidType)
        BY <4>1, <3>3
      <4> QED
        BY <4>2 DEF ToSet
    <3>5. commands' \in 0 .. MaxCommands
      BY <3>2, <3>3, TconndAssumption
    <3> HIDE DEF Command, m
    <3>6. input' = Append(input, m)
      BY <3>1 DEF m
    <3>7. /\ input' \in Seq(Command)
          /\ DOMAIN input = 1 .. Len(input)
          /\ DOMAIN input' = 1 .. Len(input) + 1 /\ Len(input) \in Nat
          /\ \A i \in 1 .. Len(input) : input'[i] = input[i]
          /\ input'[Len(input) + 1] = m
      BY <3>3, <3>4, <3>6
    <3>8. \A i \in DOMAIN input' : i \in DOMAIN input \/ i = Len(input) + 1
      BY <3>7
    <3>9. \A i \in DOMAIN input' : ToSet(input'[i].cids) \subseteq heard \union Sent
      <4> TAKE i \in DOMAIN input'
      <4>1. CASE i \in DOMAIN input
        <5>1. input'[i] = input[i]
          BY <4>1, <3>7
        <5> QED
          BY <4>1, <5>1 DEF Sent
      <4>2. CASE i = Len(input) + 1
        BY <4>2, <3>4, <3>7
      <4> QED
        BY <4>1, <4>2, <3>8
    <3>10. Sent' \subseteq heard \union Sent
      BY <3>9 DEF Sent
    <3>11. Known' \subseteq Known
      BY <3>2, <3>10 DEF Known, Connects
    <3> QED
      BY <3>2, <3>3, <3>5, <3>7, <3>11, <2>0 DEF InputTypes, OutputTypes, Command
  <2> QED
    BY <2>1, <2>2
<1>3. Types'
  BY <1>1, <1>2 DEF Types, ThreadTypes, ClientTypes, HistoryTypes
<1>4. Events'
  BY <1>1 DEF Events, Established, HasNews, Unread
<1>5. edges' \subseteq {sock[s].who : s \in Established}
  BY <1>1 DEF Core, Owned
<1> QED
  BY <1>1, <1>2, <1>3, <1>4, <1>5, OthersMove

-----------------------------------------------------------------------------
(* A server that has just been started.                                    *)
Started == /\ Fresh /\ pc = "poll" /\ writable_list = <<>>
           /\ accepted = arrived /\ arrived \in Nat

NoneLive == \A s \in Slots : ~Live(s)

(* What holds of a server that has just started, with a used output tbus.  *)
LEMMA StartedRest ==
  Started => Writing /\ Iterating /\ Events /\ Used /\ NoneLive
<1> SUFFICES ASSUME Started PROVE Writing /\ Iterating /\ Events /\ Used /\ NoneLive
  OBVIOUS
<1>1. \A s \in Slots : sock[s] = Unused
  BY DEF Started, Fresh
<1>2. /\ Unused.sn = Invalid /\ Unused.status = "closed"
      /\ ~Unused.writable /\ Unused.iov_num = 0
  BY DEF Unused, Constructed
<1>3. Writing
  <2>1. IsInjective(<<>>)
    BY DEF IsInjective
  <2> QED
    BY <2>1, <1>1, <1>2 DEF Started, Writing, Writable
<1>4. Iterating
  BY DEF Started, Iterating
<1>5. Events
  BY <1>1, <1>2 DEF Started, Events, Established
<1>6. Used
  <2> DEFINE u == [i \in 1 .. Connections |-> i - 1]
  <2>1. Len(u) = Connections
    BY Constants
  <2>2. pool.used = 0 /\ pool.unused = u
    BY DEF Started, Fresh
  <2> HIDE DEF u
  <2> QED
    BY <2>1, <2>2, Constants DEF Used
<1>7. NoneLive
  BY <1>1, <1>2 DEF NoneLive, Live
<1> QED
  BY <1>3, <1>4, <1>5, <1>6, <1>7

(* A server that starts satisfies it.                                      *)
LEMMA InitIInv == Init => IInv
<1> SUFFICES ASSUME Init PROVE IInv
  OBVIOUS
<1>1. Fresh
  BY Constants DEF Init, Fresh
<1>2. Core
  BY <1>1, CoreFresh
<1>3. Writing /\ Iterating /\ Events /\ Used /\ NoneLive
  BY <1>1, StartedRest DEF Init, Started
<1>4. Types
  <2>1. ThreadTypes
    BY DEF Init, ThreadTypes
  <2>2. ClientTypes
    <3>1. /\ arrived = 0 /\ accepted = 0 /\ expired = 0 /\ listen_edge = FALSE
          /\ huge = {} /\ closed = {} /\ stream = [c \in Clients |-> 0]
          /\ got = [c \in Clients |-> 0]
      BY DEF Init
    <3>2. 0 \in 0 .. MaxClients /\ 0 \in 0 .. 0 /\ 0 \in 0 .. MaxHalves
      BY Constants
    <3> QED
      BY <3>1, <3>2 DEF ClientTypes
  <2>3. OutputTypes
    BY Constants DEF Init, OutputTypes
  <2>4. InputTypes
    BY TconndAssumption DEF Init, InputTypes
  <2>5. HistoryTypes
    BY TconndAssumption DEF Init, HistoryTypes
  <2> QED
    BY <2>1, <2>2, <2>3, <2>4, <2>5 DEF Types
<1>5. Streams /\ Says
  BY <1>3 DEF Init, Streams, Says, NoneLive
<1>6. Names
  BY DEF Init, Names, Known, Sent, Connects
<1> QED
  BY <1>2, <1>3, <1>4, <1>5, <1>6 DEF IInv

(* A restart forgets the sockets and keeps the rings.                      *)
LEMMA StepRestart ==
  ASSUME IInv, Restart PROVE IInv'
<1>0. /\ Types /\ Streams /\ Says /\ arrived' = arrived
  BY DEF IInv, Restart, clients
<1>1. arrived \in 0 .. MaxClients /\ arrived \in Nat /\ accepted \in 0 .. arrived
      /\ accepted' = arrived /\ Clients \subseteq Nat
  BY <1>0, Constants DEF Types, ClientTypes, Restart
<1>2. Fresh'
  BY <1>0, <1>1 DEF Restart, Fresh
<1>3. Core'
  BY <1>2, CoreFresh, PTL
<1>4. Writing' /\ Iterating' /\ Events' /\ Used' /\ NoneLive'
  <2>1. Started'
    BY <1>0, <1>1, <1>2 DEF Restart, Started
  <2> QED
    BY <2>1, StartedRest, PTL
<1>5. Types'
  <2>1. /\ UNCHANGED <<stream, huge, closed, heard, commands, got, output,
                       input, forwarded, told>>
        /\ restarts' = restarts + 1 /\ restarts < MaxRestarts
        /\ listen_edge' = FALSE /\ expired' = 0
    BY DEF Restart, clients
  <2>2. ThreadTypes'
    BY DEF Restart, ThreadTypes
  <2>3. ClientTypes'
    <3>1. /\ stream \in [Clients -> 0 .. MaxHalves]
          /\ got \in [Clients -> 0 .. MaxHalves]
          /\ huge \subseteq Clients /\ closed \subseteq Clients
      BY <1>0 DEF Types, ClientTypes
    <3>2. arrived' \in 0 .. MaxClients /\ accepted' \in 0 .. arrived'
      BY <1>0, <1>1
    <3> QED
      BY <2>1, <3>1, <3>2 DEF ClientTypes
  <2>4. HistoryTypes'
    BY <2>1, <1>0, TconndAssumption DEF Types, HistoryTypes
  <2>5. OutputTypes' /\ InputTypes'
    BY <2>1, <1>0 DEF Types, OutputTypes, InputTypes
  <2> QED
    BY <2>2, <2>3, <2>4, <2>5 DEF Types
<1>6. Streams' /\ Says'
  <2>1. UNCHANGED <<got, forwarded, told>>
    BY DEF Restart
  <2>2. \A c \in Clients : c > accepted' => c > accepted
    BY <1>1
  <2> QED
    BY <2>1, <2>2, <1>0, <1>4 DEF Streams, Says, NoneLive
<1>7. Names'
  <2>1. restarts' # 0
    BY <1>0, TconndAssumption DEF Restart, Types, HistoryTypes
  <2> QED
    BY <2>1 DEF Names
<1> QED
  BY <1>3, <1>4, <1>5, <1>6, <1>7 DEF IInv

(* A step that changes nothing.                                            *)
LEMMA Unmoved ==
  ASSUME IInv, UNCHANGED vars PROVE IInv'
<1>0. /\ Types /\ Core /\ Events
      /\ UNCHANGED <<pool, sock, g_pending_socket_list, g_package_socket_list,
                     readable_list, edges, open, thread, listen_readable,
                     g_cur_ticks, accepted, got, output, input, forwarded,
                     told, restarts, arrived, stream, huge, closed, heard,
                     commands, listen_edge, expired, pc, iter, batch, command,
                     index, writable_list>>
  BY DEF IInv, vars, sockets, thread, clients
<1>1. Types'
  BY <1>0 DEF Types, ThreadTypes, ClientTypes, OutputTypes, InputTypes,
              HistoryTypes
<1>2. Events'
  BY <1>0 DEF Events, Established, HasNews, Unread
<1>3. edges' \subseteq {sock[s].who : s \in Established}
  BY <1>0 DEF Core, Owned
<1>4. Known' = Known
  BY <1>0 DEF Known, Sent, Connects
<1> QED
  BY <1>0, <1>1, <1>2, <1>3, <1>4, OthersMove

(* One step per action.                                                    *)
LEMMA NextIInv == IInv /\ [Next]_vars => IInv'
<1> SUFFICES ASSUME IInv, [Next]_vars PROVE IInv'
  OBVIOUS
<1>1. CASE EpoolProc
  <2>1. ASSUME NEW s \in Slots, NEW n \in 1 .. MaxHalves, RecvPackages(s, n)
        PROVE  IInv'
    BY <2>1, StepRecvPackages
  <2>2. ASSUME NEW s \in Slots,
               RecvNoMemory(s) \/ RecvAgain(s) \/ RecvClosed(s) \/ RecvHuge(s)
        PROVE  IInv'
    BY <2>2, StepRecvNoMemory, StepRecvAgain, StepRecvClosed, StepRecvHuge
  <2>3. CASE Wrecked
    <3>1. UNCHANGED vars
      BY <2>3 DEF Wrecked
    <3> QED
      BY <3>1, Unmoved
  <2> QED
    BY <1>1, <2>1, <2>2, <2>3, StepEpollWait, StepServeMoves, StepListenAgain,
       StepListenAccept, StepServeFreed DEF EpoolProc
<1>2. CASE ProcessInputTbus
  <2>1. ASSUME NEW s \in Slots,
               PushSendFails(s) \/ PushAcceptFails(s) \/ PushClose(s)
        PROVE  IInv'
    <3>1. PICK kind \in {"send", "accept", "close"} :
            Pushing(kind, s) /\ PushFails(s)
      BY <2>1 DEF PushSendFails, PushAcceptFails, PushClose
    <3> QED
      BY <3>1, StepPushFails
  <2>2. ASSUME NEW s \in Slots,
               PushSend(s) \/ PushAccept(s) \/ Flush(s) \/ FlushFails(s)
        PROVE  IInv'
    BY <2>2, StepPushSend, StepPushAccept, StepFlush, StepFlushFails
  <2> QED
    BY <1>2, <2>1, <2>2, StepInputMoves, StepInputEnd DEF ProcessInputTbus
<1>3. CASE TimerProcess
  BY <1>3, StepTimeout, StepTimerMoves DEF TimerProcess
<1>4. CASE Client
  BY <1>4, StepClient
<1>5. CASE TimerExpire
  BY <1>5, StepTimerExpire
<1>6. CASE BackendRecv \/ BackendSend
  BY <1>6, StepBackend
<1>7. CASE Restart
  BY <1>7, StepRestart
<1>8. CASE UNCHANGED vars
  BY <1>8, Unmoved
<1> QED
  BY <1>1, <1>2, <1>3, <1>4, <1>5, <1>6, <1>7, <1>8 DEF Next, Process

(* The inductive invariant holds in every reachable state.                 *)
LEMMA Invariant == Spec => []IInv
BY InitIInv, NextIInv, PTL DEF Spec

-----------------------------------------------------------------------------
(* Type correctness of module Tconnd, for every size of the pools and of   *)
(* the output tbus: no list, counter or message ever leaves its type, no   *)
(* more iovecs are taken than TCONND_SOCKET_OP_LIST_MAX, and the output    *)
(* tbus never holds more than it has room for.                             *)
THEOREM TypeCorrect == Spec => []TypeOK
<1>1. IInv => TypeOK
  <2> SUFFICES ASSUME IInv PROVE TypeOK
    OBVIOUS
  <2>1. Types /\ Core
    BY DEF IInv
  <2>2. pool.packages \in 0 .. PackageConnections
    <3>1. /\ pool.packages \in Nat /\ Len(g_package_socket_list) \in Nat
          /\ pool.packages + Len(g_package_socket_list) = PackageConnections
      BY <2>1 DEF Core, CoreTypes, Buffers
    <3> QED
      BY <3>1, Constants
  <2>3. pool \in [sn : Nat, unused : Seq(Slots), used : Int,
                  packages : 0 .. PackageConnections]
    <3>1. pool \in [sn : Nat, unused : Seq(Slots), used : Int, packages : Nat]
      BY <2>1 DEF Core, CoreTypes
    <3> QED
      BY <2>2, <3>1
  <2>4. edges \subseteq Clients /\ open \subseteq Clients
    <3>1. \A s \in Slots : Live(s) => sock[s].who \in Clients
      BY <2>1, LiveSocket
    <3>2. \A s \in Established : s \in Slots /\ Live(s)
      BY <2>1, LiveSocket DEF Established
    <3> QED
      BY <3>1, <3>2, <2>1 DEF Core, Owned
  <2> QED
    BY <2>1, <2>3, <2>4 DEF TypeOK, Core, CoreTypes, Types, ThreadTypes,
       ClientTypes, OutputTypes, InputTypes, HistoryTypes
<1> QED
  BY <1>1, Invariant, PTL

(* Each intrusive list of tconnd links exactly the sockets whose state     *)
(* says so, each once, and no socket of the pool.                          *)
THEOREM ListsAlwaysAgree == Spec => []ListsAgree
<1>1. IInv => ListsAgree
  <2> SUFFICES ASSUME IInv PROVE ListsAgree
    OBVIOUS
  <2>1. Core /\ Writing
    BY DEF IInv
  <2>2. /\ Links(g_pending_socket_list, {s \in Slots : sock[s].status = "syn_sent"})
        /\ Links(g_package_socket_list, {s \in Slots : sock[s].package > 0})
        /\ Links(readable_list,
                 {s \in Slots : sock[s].readable}
                   \union (IF listen_readable THEN {Listen} ELSE {}))
    BY <2>1 DEF Core, Lists, Pending, Buffered, Readable
  <2>3. pc = "command" => Links(writable_list, {s \in Slots : sock[s].writable})
    BY <2>1 DEF Writing, Writable, Links
  <2>4. /\ \A s \in Slots : ~Live(s) => sock[s] = Unused
        /\ \A s \in Slots : sock[s].readable \/ sock[s].package > 0 =>
                              sock[s].status = "established"
    BY <2>1 DEF Core, SocketsOK, SocketOK
  <2> QED
    BY <2>2, <2>3, <2>4 DEF ListsAgree
<1> QED
  BY <1>1, Invariant, PTL

(* Both pools of tconnd account for every unit, whatever is accepted,      *)
(* closed or timed out, as long as no socket has been freed twice.         *)
THEOREM PoolsAlwaysAgree == Spec => []PoolsAgree
<1>1. IInv => PoolsAgree
  <2> SUFFICES ASSUME IInv, Sane PROVE PoolsAgree
    BY DEF PoolsAgree
  <2>1. /\ Core /\ pool.used + Len(pool.unused) = Connections
        /\ pool.unused \in Seq(Slots) /\ Links(pool.unused, Free)
        /\ g_package_socket_list \in Seq(Slots)
        /\ Links(g_package_socket_list, Buffered)
        /\ pool.used \in Int
        /\ pool.packages + Len(g_package_socket_list) = PackageConnections
    BY DEF IInv, Used, Core, CoreTypes, Lists, Buffers
  <2>2. IsFiniteSet(Slots) /\ Cardinality(Slots) = Connections
    <3>1. 0 \in Int /\ Connections - 1 \in Int /\ Connections \in Nat \ {0}
      BY Constants
    <3> QED
      BY <3>1, FS_Interval DEF Slots
  <2> DEFINE live == {s \in Slots : Live(s)}
  <2>3. live = Slots \ Free /\ Free \subseteq Slots
    BY DEF Free
  <2>4. IsFiniteSet(Free) /\ Cardinality(Free) = Len(pool.unused)
    BY <2>1, LinksCount
  <2>5. Cardinality(live) = Connections - Len(pool.unused)
    <3>1. Slots \intersect Free = Free
      BY <2>3
    <3>2. Cardinality(Slots \ Free)
            = Cardinality(Slots) - Cardinality(Slots \intersect Free)
      BY <2>2, FS_Difference
    <3> HIDE DEF live
    <3> QED
      BY <2>2, <2>3, <2>4, <3>1, <3>2
  <2>6. UsedListNum
    <3>1. Len(pool.unused) \in Nat
      BY <2>1
    <3> QED
      BY <2>1, <2>5, <3>1, Constants DEF UsedListNum
  <2>7. Cardinality(Buffered) = Len(g_package_socket_list)
    BY <2>1, LinksCount
  <2> QED
    BY <2>1, <2>6, <2>7 DEF PoolsAgree, Free, Buffered
<1> QED
  BY <1>1, Invariant, PTL

(* No socket of tconnd points into the input tbus after tbus_read_end.     *)
THEOREM NeverDanglingIov == Spec => []NoDanglingIov
<1>1. IInv => NoDanglingIov
  <2> SUFFICES ASSUME IInv, NEW s \in Slots, sock[s].iov_num > 0
               PROVE  \/ pc = "command" /\ s \in ToSet(writable_list)
                      \/ pc = "flush" /\ \E i \in index .. Len(writable_list) :
                                           writable_list[i] = s
    BY DEF NoDanglingIov
  <2>1. Writing /\ s \in Writable
    BY DEF IInv, Writing, Writable
  <2> QED
    BY <2>1 DEF Writing, Left
<1> QED
  BY <1>1, Invariant, PTL

(* The deadlines along both lists of tconnd_timer_process never decrease.  *)
THEOREM DeadlinesAlwaysInOrder == Spec => []DeadlinesInOrder
<1>1. IInv => DeadlinesInOrder
  <2> SUFFICES ASSUME IInv PROVE DeadlinesInOrder
    OBVIOUS
  <2>1. /\ g_pending_socket_list \in Seq(Slots)
        /\ g_package_socket_list \in Seq(Slots)
        /\ Sorted(g_pending_socket_list, PendingTicks)
        /\ Sorted(g_package_socket_list, PackageTicks)
    BY DEF IInv, Core, CoreTypes, Ticking
  <2>2. /\ DOMAIN g_pending_socket_list = 1 .. Len(g_pending_socket_list)
        /\ DOMAIN g_package_socket_list = 1 .. Len(g_package_socket_list)
        /\ \A i \in DOMAIN g_pending_socket_list : g_pending_socket_list[i] \in Slots
        /\ \A i \in DOMAIN g_package_socket_list : g_package_socket_list[i] \in Slots
    BY <2>1
  <2>3. \A s \in Slots : /\ PendingTicks[s] = sock[s].pending_ticks
                         /\ PackageTicks[s] = sock[s].package_ticks
    BY DEF PendingTicks, PackageTicks
  <2> QED
    BY <2>1, <2>2, <2>3 DEF DeadlinesInOrder, Sorted
<1> QED
  BY <1>1, Invariant, PTL

(* No edge-triggered event of epoll is ever lost: a socket, or g_listen,   *)
(* that has something for the server is readable or about to be reported.  *)
THEOREM NeverLosesEvents == Spec => []NoLostEvent
<1>1. IInv => NoLostEvent
  BY DEF IInv, Events, HasNews, Established, NoLostEvent
<1> QED
  BY <1>1, Invariant, PTL

(* Cutting the streams into packages loses and invents nothing.            *)
THEOREM StreamsAlwaysCut == Spec => []StreamCut
<1>1. IInv => StreamCut
  <2> SUFFICES ASSUME IInv, NEW s \in Slots, sock[s].status = "established"
               PROVE  2 * forwarded[sock[s].who] + sock[s].package
                        = got[sock[s].who]
    BY DEF StreamCut
  <2>1. Live(s)
    BY LiveSocket DEF IInv, Established
  <2> QED
    BY <2>1 DEF IInv, Streams
<1> QED
  BY <1>1, Invariant, PTL

(* Until the server is restarted a command never reaches another client    *)
(* than the one the backend meant.                                         *)
THEOREM CidsNameTheirClients == Spec => []CidsUntilRestart
<1>1. IInv => CidsUntilRestart
  <2> SUFFICES ASSUME IInv, restarts = 0,
                      NEW cid \in heard \union Sent, Matches(cid)
               PROVE  sock[cid.id].who = cid.who
    BY DEF CidsUntilRestart, CidsReachTheirClients, Sent
  <2> QED
    BY DEF IInv, Names, Known
<1> QED
  BY <1>1, Invariant, PTL

-----------------------------------------------------------------------------
(* The refinement of module Sessions.                                      *)
Accepted == {sock[s].who : s \in Established}
Heard(m) == [cmd |-> m.cmd, who |-> m.cid.who, size |-> m.size]
Messages == [i \in DOMAIN output |-> Heard(output[i])]

(* What the variables of module Sessions are mapped to.                    *)
LEMMA Mapping ==
  /\ S!vars = <<Messages, told, forwarded, open, Accepted>>
  /\ S!Init <=> /\ Messages = <<>>
                /\ told = [c \in Clients |-> "nothing"]
                /\ forwarded = [c \in Clients |-> 0]
                /\ open = {} /\ Accepted = {}
BY DEF S!vars, S!Init, Messages, Heard, Accepted, Established

(* A message put into the ring, or taken out of it, is one for both.       *)
LEMMA MessageTold ==
  ASSUME OutputTypes, ~OutputFull, NEW m, output' = Append(output, m)
  PROVE  /\ Messages' = Append(Messages, Heard(m))
         /\ Len(Messages) < OutputLimit
<1>1. /\ output \in Seq([cmd : {"connect", "recv"}, size : Nat, cid : CidType])
      /\ Len(output) \in Nat
  BY DEF OutputTypes
<1>2. /\ DOMAIN output = 1 .. Len(output)
      /\ DOMAIN output' = 1 .. Len(output) + 1
      /\ \A i \in 1 .. Len(output) : output'[i] = output[i]
      /\ output'[Len(output) + 1] = m
  BY <1>1
<1>3. /\ Messages = [i \in 1 .. Len(output) |-> Heard(output[i])]
      /\ Messages' = [i \in 1 .. Len(output) + 1 |-> Heard(output'[i])]
  BY <1>2 DEF Messages, Heard
<1>4. Len(Messages) = Len(output)
  BY <1>1, <1>3
<1>5. Append(Messages, Heard(m))
        = [i \in 1 .. Len(output) + 1 |->
             IF i = Len(output) + 1 THEN Heard(m) ELSE Messages[i]]
  BY <1>1, <1>3, <1>4
<1>6. \A i \in 1 .. Len(output) + 1 :
        Heard(output'[i]) = IF i = Len(output) + 1 THEN Heard(m) ELSE Messages[i]
  <2> TAKE i \in 1 .. Len(output) + 1
  <2>1. CASE i = Len(output) + 1
    BY <2>1, <1>2
  <2>2. CASE i # Len(output) + 1
    <3>1. i \in 1 .. Len(output)
      BY <2>2, <1>1
    <3> QED
      BY <2>2, <3>1, <1>2, <1>3
  <2> QED
    BY <2>1, <2>2
<1>7. Len(output) < OutputLimit
  BY <1>1, Constants DEF OutputFull
<1> QED
  BY <1>3, <1>4, <1>5, <1>6, <1>7

(* Taking the oldest one is a step of both.                                *)
LEMMA MessageTaken ==
  ASSUME OutputTypes, output # <<>>, output' = Tail(output)
  PROVE  /\ 1 \in 1 .. Len(Messages)
         /\ Messages' = SubSeq(Messages, 2, Len(Messages))
<1>1. /\ output \in Seq([cmd : {"connect", "recv"}, size : Nat, cid : CidType])
      /\ Len(output) \in Nat \ {0}
  BY DEF OutputTypes
<1>2. /\ DOMAIN output = 1 .. Len(output)
      /\ DOMAIN output' = 1 .. Len(output) - 1
      /\ \A i \in 1 .. Len(output) - 1 : output'[i] = output[i + 1]
  BY <1>1
<1>3. /\ Messages = [i \in 1 .. Len(output) |-> Heard(output[i])]
      /\ Messages' = [i \in 1 .. Len(output) - 1 |-> Heard(output'[i])]
  BY <1>2 DEF Messages, Heard
<1>4. Len(Messages) = Len(output)
  BY <1>1, <1>3
<1>5. SubSeq(Messages, 2, Len(Messages))
        = [i \in 1 .. Len(output) - 1 |-> Messages[i + 1]]
  BY <1>1, <1>3, <1>4
<1>6. \A i \in 1 .. Len(output) - 1 : Heard(output'[i]) = Messages[i + 1]
  BY <1>1, <1>2, <1>3
<1> QED
  BY <1>1, <1>3, <1>4, <1>5, <1>6

(* A connection that is closed without a word.                             *)
LEMMA Leaving ==
  ASSUME IInv, NEW s \in Slots, Live(s), Delete(s)
  PROVE  /\ sock[s].who \in open /\ sock[s].who \in Clients
         /\ open' = open \ {sock[s].who} /\ Accepted' = Accepted \ {sock[s].who}
<1>1. Core /\ sock \in [Slots -> SocketType]
  BY DEF IInv, Core, CoreTypes
<1>2. /\ sock'[s] = Unused /\ \A t \in Slots \ {s} : sock'[t] = sock[t]
      /\ open' = open \ {sock[s].who} /\ Unused.status = "closed"
  BY <1>1 DEF Delete, Unused, Constructed
<1>3. Established' = Established \ {s}
  BY <1>2 DEF Established
<1>4. \A t \in Established \ {s} : /\ sock[t].who # sock[s].who
                                   /\ sock'[t] = sock[t]
  BY <1>1, <1>2, LiveSocket DEF Established
<1>5. Accepted' = {sock[t].who : t \in Established \ {s}}
  BY <1>3, <1>4 DEF Accepted
<1>6. Accepted' = Accepted \ {sock[s].who}
  BY <1>4, <1>5 DEF Accepted
<1>7. sock[s].who \in open /\ sock[s].who \in Clients
  BY <1>1, LiveSocket DEF Core, Owned
<1> QED
  BY <1>2, <1>6, <1>7

(* Where no socket is accepted or closed, and nothing is said.             *)
LEMMA Silent ==
  ASSUME \A s \in Slots : /\ sock'[s].who = sock[s].who
                          /\ sock'[s].status = sock[s].status,
         UNCHANGED <<output, told, forwarded, open>>
  PROVE  UNCHANGED S!vars
<1>1. Established' = Established /\ Established \subseteq Slots
  BY DEF Established
<1>2. Accepted' = Accepted
  BY <1>1 DEF Accepted
<1> QED
  BY <1>2 DEF S!vars, Accepted, Established

(* A step of one client is a step of module Sessions.                      *)
LEMMA Choice ==
  ASSUME NEW c \in Clients,
         \/ S!Connect(c) \/ S!Accept(c) \/ S!End(c) \/ S!Drop(c)
         \/ S!Forward(c, forwarded'[c] - forwarded[c])
  PROVE  S!Next
BY Zenon DEF S!Next

(* A connection is dropped: nothing is said, and nothing forwarded.        *)
LEMMA Dropping ==
  ASSUME IInv, NEW s \in Slots, Live(s), Delete(s),
         UNCHANGED <<output, told, forwarded>>
  PROVE  S!Next
<1>1. PICK c \in Clients : /\ c \in open /\ open' = open \ {c}
                           /\ Accepted' = Accepted \ {c}
  BY Leaving
<1>2. S!Drop(c)
  BY <1>1 DEF S!Drop, S!Leaves, Accepted, Established
<1> QED
  BY <1>1, <1>2, Choice

(* By a timeout.                                                           *)
LEMMA DropsWhenLate ==
  ASSUME IInv, PendingTimeout \/ PackageTimeout PROVE S!Next
<1>0. /\ Core /\ g_pending_socket_list \in Seq(Slots)
      /\ Links(g_pending_socket_list, Pending)
      /\ g_package_socket_list \in Seq(Slots)
      /\ Links(g_package_socket_list, Buffered)
  BY DEF IInv, Core, CoreTypes, Lists
<1>1. UNCHANGED <<output, told, forwarded>>
  BY DEF PendingTimeout, PackageTimeout, TimerOnly
<1>2. CASE PendingTimeout
  <2> DEFINE s == Head(g_pending_socket_list)
  <2>1. s \in Pending
    BY <1>0, <1>2, TailLinks DEF PendingTimeout, PendingLate
  <2>2. s \in Slots /\ Live(s)
    BY <1>0, <2>1, Fields DEF Pending, Core
  <2> QED
    BY <1>1, <1>2, <2>2, Dropping DEF PendingTimeout
<1>3. CASE PackageTimeout
  <2> DEFINE s == Head(g_package_socket_list)
  <2>1. s \in Buffered
    BY <1>0, <1>3, TailLinks DEF PackageTimeout, PackageLate
  <2>2. s \in Slots /\ sock[s].package > 0
    BY <2>1 DEF Buffered
  <2>3. sock[s].status = "established"
    BY <1>0, <2>2 DEF Core, SocketsOK, SocketOK
  <2>4. Live(s)
    BY <1>0, <2>2, <2>3, Fields DEF Core
  <2> QED
    BY <1>1, <1>3, <2>2, <2>4, Dropping DEF PackageTimeout
<1> QED
  BY <1>2, <1>3

(* For its package buffer.                                                 *)
LEMMA DropsWhenFull ==
  ASSUME IInv, NEW s \in Slots, RecvNoMemory(s) PROVE S!Next
<1> DEFINE d == Head(g_package_socket_list)
<1>1. /\ Core /\ g_package_socket_list \in Seq(Slots)
      /\ Links(g_package_socket_list, Buffered)
      /\ pool.packages + Len(g_package_socket_list) = PackageConnections
      /\ pool.packages = 0
  BY DEF IInv, Core, CoreTypes, Lists, Buffers, RecvNoMemory
<1>2. d \in Buffered
  <2>1. g_package_socket_list # <<>>
    BY <1>1, Constants
  <2> QED
    BY <1>1, <2>1, TailLinks
<1>3. d \in Slots /\ sock[d].package > 0
  BY <1>2 DEF Buffered
<1>4. sock[d].status = "established"
  BY <1>1, <1>3 DEF Core, SocketsOK, SocketOK
<1>5. Live(d)
  BY <1>1, <1>3, <1>4, Fields DEF Core
<1> QED
  BY <1>3, <1>5, Dropping DEF RecvNoMemory

(* For what its client has sent, what it does not take, or by a command.   *)
LEMMA DropsOnError ==
  ASSUME IInv, NEW s \in Slots,
         \/ RecvHuge(s) \/ FlushFails(s)
         \/ PushSendFails(s) \/ PushAcceptFails(s) \/ PushClose(s)
  PROVE  S!Next
<1>1. CASE RecvHuge(s)
  BY <1>1, Dropping DEF RecvHuge, Receiving
<1>2. CASE FlushFails(s)
  <2>1. /\ pc = "flush" /\ index <= Len(writable_list)
        /\ writable_list[index] = s /\ index' = index + 1
        /\ UNCHANGED writable_list
    BY <1>2 DEF FlushFails, Flushing, FlushOnly
  <2>2. s \in Left /\ Left = Writable
    BY <2>1, LeftShrinks DEF IInv, Writing, Types
  <2>3. Live(s)
    BY <2>2, Fields DEF IInv, Core, Writable
  <2> QED
    BY <1>2, <2>3, Dropping DEF FlushFails, FlushOnly, InputOnly
<1>3. CASE PushSendFails(s) \/ PushAcceptFails(s) \/ PushClose(s)
  <2>1. PICK kind : Pushing(kind, s) /\ PushFails(s)
    BY <1>3 DEF PushSendFails, PushAcceptFails, PushClose
  <2>2. Live(s) /\ Delete(s) /\ UNCHANGED <<output, told, forwarded>>
    BY <2>1 DEF Pushing, Matches, PushFails, NextCid, InputOnly
  <2> QED
    BY <2>2, Dropping
<1> QED
  BY <1>1, <1>2, <1>3

(* The backend is told once, of a client that it has accepted.             *)
LEMMA Ends ==
  ASSUME IInv, NEW s \in Slots, RecvClosed(s) PROVE S!Next
<1> DEFINE m == [cmd |-> "recv", size |-> 0, cid |-> Cid(s)]
<1>0. PICK c \in Clients : c = sock[s].who
  BY LiveSocket DEF IInv, RecvClosed, Receiving
<1>1. /\ Core /\ Says /\ pc = "serve" /\ iter = s /\ Live(s) /\ ~OutputFull
      /\ OutputTypes
      /\ output' = Append(output, m)
      /\ told' = [told EXCEPT ![c] = "closed"]
      /\ Delete(s) /\ UNCHANGED forwarded
  BY <1>0 DEF RecvClosed, Receiving, Serving, IInv, Types
<1>2. c \in open /\ open' = open \ {c} /\ Accepted' = Accepted \ {c}
  BY <1>0, <1>1, Leaving
<1>3. c \in Accepted /\ told[c] = "connect"
  <2>1. sock[s].readable
    BY <1>1, ServedReadable
  <2>2. s \in Established
    BY <1>1, <2>1 DEF Core, SocketsOK, SocketOK, Established
  <2> QED
    BY <1>0, <1>1, <2>2 DEF Accepted, Says
<1>4. Heard(m) = [cmd |-> "recv", who |-> c, size |-> 0]
  BY <1>0 DEF Heard, Cid
<1> HIDE DEF m
<1>5. /\ Messages' = Append(Messages, Heard(m))
      /\ Len(Messages) < OutputLimit
  BY <1>1, MessageTold
<1>6. S!Tells("recv", c, 0)
  BY <1>4, <1>5 DEF S!Tells, Messages, Heard
<1>7. S!End(c)
  BY <1>1, <1>2, <1>3, <1>6 DEF S!End, S!Leaves, Accepted, Established
<1> QED
  BY <1>7, Choice

(* Nothing was said of the client before.                                  *)
LEMMA ConnectsFirst ==
  ASSUME IInv, ListenAccept PROVE S!Next
<1> DEFINE s   == Head(pool.unused)
           c   == accepted + 1
           cid == [id |-> s, sn |-> pool.sn, who |-> c]
           m   == [cmd |-> "connect", size |-> 0, cid |-> cid]
           new == [Constructed(pool.sn, c) EXCEPT
                     !.status = "syn_sent",
                     !.pending_ticks = g_cur_ticks + AcceptTicksLimit]
<1>1. /\ Types /\ Core /\ Says /\ OutputTypes /\ ~OutputFull
      /\ pool.unused # <<>> /\ accepted < arrived
      /\ NewSocket(s, c) /\ output' = Append(output, m)
      /\ told' = [told EXCEPT ![c] = "connect"] /\ UNCHANGED forwarded
      /\ accepted' = c /\ UNCHANGED <<listen_readable, g_cur_ticks>>
  BY DEF IInv, Types, ListenAccept, ListenOnly, ServeOnly
<1>2. /\ c \in Clients /\ c > accepted /\ accepted \in Nat /\ pool.sn \in Nat
  BY <1>1, Constants DEF Types, ClientTypes, Clients, Core, CoreTypes
<1>3. Heard(m) = [cmd |-> "connect", who |-> c, size |-> 0]
  BY DEF Heard
<1> HIDE DEF s, c, cid, m, new
<1>4. /\ s \in Slots /\ ~Live(s) /\ sock'[s] = new
      /\ \A t \in Slots \ {s} : sock'[t] = sock[t]
  BY <1>1, <1>2, NewSocketKeeps DEF s, c, new
<1>5. new.status = "syn_sent" /\ sock[s].status = "closed"
  BY <1>1, <1>4, Fields DEF new, Constructed, Core
<1>6. Established' = Established /\ Established \subseteq Slots \ {s}
  BY <1>4, <1>5 DEF Established
<1>7. Accepted' = Accepted
  BY <1>4, <1>6 DEF Accepted
<1>8. told[c] = "nothing" /\ open' = open \union {c}
  BY <1>1, <1>2 DEF Says, NewSocket
<1>9. /\ Messages' = Append(Messages, Heard(m))
      /\ Len(Messages) < OutputLimit
  BY <1>1, MessageTold
<1>10. S!Tells("connect", c, 0)
  BY <1>3, <1>9 DEF S!Tells, Messages, Heard
<1>11. S!Connect(c)
  BY <1>1, <1>7, <1>8, <1>10 DEF S!Connect, Accepted, Established
<1> QED
  BY <1>2, <1>11, Choice

(* The backend accepts a connection.                                       *)
LEMMA Accepts ==
  ASSUME IInv, NEW s \in Slots, PushAccept(s) PROVE S!Next
<1>0. PICK c \in Clients : c = sock[s].who
  BY LiveSocket DEF IInv, PushAccept, Pushing, Matches
<1>1. /\ Core /\ Live(s) /\ sock[s].status = "syn_sent"
      /\ sock \in [Slots -> SocketType]
      /\ sock' = [sock EXCEPT ![s].status = "established", ![s].writable = TRUE]
      /\ UNCHANGED <<output, told, forwarded, open>>
  BY DEF IInv, Core, CoreTypes, PushAccept, Pushing, Matches, NextCid, InputOnly
<1>2. /\ sock'[s].status = "established"
      /\ \A t \in Slots : sock'[t].who = sock[t].who
      /\ \A t \in Slots \ {s} : sock'[t] = sock[t]
  BY <1>1 DEF SocketType
<1>3. Established' = Established \union {s} /\ s \notin Established
  BY <1>1, <1>2 DEF Established
<1>4. Accepted' = Accepted \union {c}
  <2>1. Accepted' = {sock'[t].who : t \in Established \union {s}}
    BY <1>3 DEF Accepted
  <2>2. Established \subseteq Slots
    BY DEF Established
  <2> QED
    BY <1>0, <1>2, <2>1, <2>2 DEF Accepted
<1>5. c \in open
  BY <1>0, <1>1, LiveSocket DEF Core, Owned
<1>6. c \notin Accepted
  <2>1. \A t \in Established : sock[t].who # c
    BY <1>0, <1>1, <1>3, LiveSocket DEF Established
  <2> QED
    BY <2>1 DEF Accepted
<1>7. S!Accept(c)
  <2>1. UNCHANGED Messages
    BY <1>1 DEF Messages, Heard
  <2> QED
    BY <2>1, <1>1, <1>4, <1>5, <1>6
       DEF S!Accept, Accepted, Established, Messages, Heard
<1> QED
  BY <1>7, Choice

(* Packages go out for accepted clients only; half a package is silent.    *)
LEMMA Forwards ==
  ASSUME IInv, NEW s \in Slots, NEW n \in 1 .. MaxHalves, RecvPackages(s, n)
  PROVE  S!Next \/ UNCHANGED S!vars
<1> DEFINE c     == sock[s].who
           whole == Received(s, n) \div 2
           m     == [cmd |-> "recv", size |-> whole, cid |-> Cid(s)]
<1>1. /\ Core /\ Says /\ OutputTypes /\ HistoryTypes /\ ~OutputFull /\ Live(s)
      /\ pc = "serve" /\ iter = s
      /\ sock \in [Slots -> SocketType]
      /\ \E i, j : sock' = [sock EXCEPT ![s].package = i, ![s].package_ticks = j]
      /\ output' = IF whole = 0 THEN output ELSE Append(output, m)
      /\ forwarded' = [forwarded EXCEPT ![c] = @ + whole]
      /\ UNCHANGED <<told, open>>
  BY DEF IInv, Types, Core, CoreTypes, RecvPackages, Receiving, Serving
<1>2. \A t \in Slots : /\ sock'[t].who = sock[t].who
                       /\ sock'[t].status = sock[t].status
  BY <1>1 DEF SocketType
<1>3. c \in Clients /\ c \in Accepted /\ told[c] = "connect"
  <2>1. sock[s].readable
    BY <1>1, ServedReadable
  <2>2. s \in Established
    BY <1>1, <2>1 DEF Core, SocketsOK, SocketOK, Established
  <2> QED
    BY <1>1, <2>2, LiveSocket DEF Accepted, Says
<1>4. whole \in Nat
  <2>1. sock[s].package \in 0 .. 1
    BY <1>1 DEF SocketType
  <2>2. sock[s].package + n \in Nat
    BY <2>1, Constants
  <2> QED
    BY <2>2, Halves DEF Received
<1>5. Heard(m) = [cmd |-> "recv", who |-> c, size |-> whole]
  BY DEF Heard, Cid
<1> HIDE DEF c, whole, m
<1>6. /\ forwarded \in [Clients -> Nat] /\ forwarded'[c] - forwarded[c] = whole
      /\ forwarded[c] + whole = forwarded'[c]
  BY <1>1, <1>3, <1>4 DEF HistoryTypes
<1>7. CASE whole = 0
  <2>1. forwarded' = forwarded
    <3>1. forwarded[c] + 0 = forwarded[c]
      BY <1>3, <1>6
    <3> QED
      BY <3>1, <1>1, <1>6, <1>7
  <2> QED
    BY <2>1, <1>1, <1>2, <1>7, Silent
<1>8. CASE whole # 0
  <2>1. /\ Messages' = Append(Messages, Heard(m))
        /\ Len(Messages) < OutputLimit
    BY <1>1, <1>8, MessageTold
  <2>2. S!Tells("recv", c, whole)
    BY <1>5, <2>1 DEF S!Tells, Messages, Heard
  <2>3. Established' = Established /\ Established \subseteq Slots
    BY <1>2 DEF Established
  <2>4. Accepted' = Accepted
    BY <1>2, <2>3 DEF Accepted
  <2>5. S!Forward(c, whole)
    BY <1>1, <1>3, <1>4, <1>8, <2>2, <2>4 DEF S!Forward, Accepted, Established
  <2>6. S!Forward(c, forwarded'[c] - forwarded[c])
    BY <1>6, <2>5
  <2> QED
    BY <1>3, <2>6, Choice
<1> QED
  BY <1>7, <1>8

(* What is said of a freed socket names no client.                         *)
LEMMA Strays ==
  ASSUME IInv, ServeFreed PROVE S!Next
<1> DEFINE m == [cmd |-> "recv", size |-> 0, cid |-> Cid(iter)]
<1>1. /\ Core /\ OutputTypes /\ ~OutputFull /\ iter \in Slots /\ ~Live(iter)
      /\ output' = Append(output, m)
      /\ UNCHANGED <<sock, told, forwarded, open>>
  BY DEF IInv, Types, ServeFreed
<1>2. Heard(m) = [cmd |-> "recv", who |-> 0, size |-> 0]
  BY <1>1, Fields DEF Heard, Cid, Core
<1> HIDE DEF m
<1>3. /\ Messages' = Append(Messages, Heard(m))
      /\ Len(Messages) < OutputLimit
  BY <1>1, MessageTold
<1>4. S!Tells("recv", 0, 0)
  BY <1>2, <1>3 DEF S!Tells, Messages, Heard
<1>5. Accepted' = Accepted
  BY <1>1 DEF Accepted, Established
<1>6. S!Stray
  BY <1>1, <1>4, <1>5 DEF S!Stray, Accepted, Established
<1> QED
  BY <1>6 DEF S!Next

(* The backend reads its oldest message.                                   *)
LEMMA Takes ==
  ASSUME IInv, BackendRecv PROVE S!Next
<1>1. /\ OutputTypes /\ output # <<>> /\ output' = Tail(output)
      /\ UNCHANGED <<sock, told, forwarded, open>>
  BY DEF IInv, Types, BackendRecv, BackendOnly, sockets
<1>2. /\ 1 \in 1 .. Len(Messages)
      /\ Messages' = SubSeq(Messages, 2, Len(Messages))
  BY <1>1, MessageTaken
<1>3. Accepted' = Accepted
  BY <1>1 DEF Accepted, Established
<1>4. S!Take(1)
  <2>1. 1 + 1 = 2
    OBVIOUS
  <2> QED
    BY <2>1, <1>1, <1>2, <1>3 DEF S!Take, Messages, Heard, Accepted, Established
<1>5. \E n \in 1 .. Len(Messages) : S!Take(n)
  BY <1>2, <1>4
<1> QED
  BY <1>5 DEF S!Next, Messages, Heard

(* A restart closes what is open, and says nothing.                        *)
LEMMA Restarts ==
  ASSUME Restart PROVE S!Next
<1>1. /\ sock' = [s \in Slots |-> Unused] /\ open' = {}
      /\ UNCHANGED <<output, told, forwarded>>
  BY DEF Restart
<1>2. Established' = {}
  BY <1>1 DEF Established, Unused, Constructed
<1>3. Accepted' = {}
  BY <1>2 DEF Accepted
<1>4. S!Restart
  BY <1>1, <1>3 DEF S!Restart, Accepted, Established, Messages, Heard
<1> QED
  BY <1>4 DEF S!Next

(* The other steps of the event loop and of the commands.                  *)
LEMMA SilentMoves ==
  ASSUME IInv,
         \/ EpollWait \/ SkipEpollWait \/ ServeEnd \/ ServeOutputFull
         \/ ListenTooMany \/ ListenAgain \/ Wrecked
         \/ InputEmpty \/ InputBegin \/ CommandsDone \/ CommandMismatch
         \/ InputEnd \/ PendingDone \/ PackageDone
         \/ Client \/ TimerExpire \/ BackendSend
  PROVE  UNCHANGED S!vars
<1>1. UNCHANGED <<output, told, forwarded, open>>
  BY DEF EpollWait, PollOnly, SkipEpollWait, ServeEnd, ServeOutputFull,
         ListenTooMany, ListenAgain, ListenOnly, Wrecked, vars, sockets,
         InputEmpty, InputBegin, CommandsDone, CommandMismatch, InputEnd,
         NextCid, InputOnly, PendingDone, PackageDone, TimerOnly, Client,
         ClientConnect, ClientSend, ClientSendHuge, ClientClose, RaiseEdge,
         ClientOnly, ServerIdle, TimerExpire, BackendSend, BackendOnly
<1>2. \A s \in Slots : /\ sock'[s].who = sock[s].who
                       /\ sock'[s].status = sock[s].status
  <2>1. CASE EpollWait
    <3>1. \A s \in Slots : sock'[s] = sock[s]
                           \/ sock'[s] = [sock[s] EXCEPT !.readable = TRUE]
      BY <2>1 DEF EpollWait
    <3>2. \A s \in Slots : sock[s] \in SocketType
      BY DEF IInv, Core, CoreTypes
    <3> QED
      BY <3>1, <3>2 DEF SocketType
  <2>2. CASE ~EpollWait
    <3>1. UNCHANGED sock
      BY <2>2
      DEF SkipEpollWait, ServeEnd, ServeOutputFull,
         ListenTooMany, ListenAgain, ListenOnly, Wrecked, vars, sockets,
         InputEmpty, InputBegin, CommandsDone, CommandMismatch, InputEnd,
         NextCid, InputOnly, PendingDone, PackageDone, TimerOnly, Client,
         ClientConnect, ClientSend, ClientSendHuge, ClientClose, RaiseEdge,
         ClientOnly, ServerIdle, TimerExpire, BackendSend, BackendOnly
    <3> QED
      BY <3>1
  <2> QED
    BY <2>1, <2>2
<1> QED
  BY <1>1, <1>2, Silent

(* The steps that write a socket and are not a step of Sessions.           *)
LEMMA SilentWrites ==
  ASSUME IInv, NEW s \in Slots, RecvAgain(s) \/ PushSend(s) \/ Flush(s)
  PROVE  UNCHANGED S!vars
<1>1. UNCHANGED <<output, told, forwarded, open>>
  BY DEF RecvAgain, RecvOnly, ServeOnly, PushSend, NextCid, Flush, FlushOnly,
         InputOnly
<1>2. sock \in [Slots -> SocketType]
  BY DEF IInv, Core, CoreTypes
<1>3. \/ sock' = [sock EXCEPT ![s].readable = FALSE]
      \/ \E n, b : sock' = [sock EXCEPT ![s].iov_num = n, ![s].writable = b]
  BY DEF RecvAgain, PushSend, Flush
<1>4. \A t \in Slots : /\ sock'[t].who = sock[t].who
                       /\ sock'[t].status = sock[t].status
  <2>1. CASE sock' = [sock EXCEPT ![s].readable = FALSE]
    BY <2>1, <1>2 DEF SocketType
  <2>2. ASSUME NEW n, NEW b,
               sock' = [sock EXCEPT ![s].iov_num = n, ![s].writable = b]
        PROVE  \A t \in Slots : /\ sock'[t].who = sock[t].who
                                /\ sock'[t].status = sock[t].status
    BY <2>2, <1>2 DEF SocketType
  <2> QED
    BY <1>3, <2>1, <2>2
<1> QED
  BY <1>1, <1>4, Silent

(* The server implements module Sessions: whatever clients, commands,      *)
(* timeouts and restarts do, the backend is told of a connection first,    *)
(* then of its packages, none before it has accepted it, then at most once *)
(* of its end, and of nothing after that.                                  *)
THEOREM ImplementsSessions == Spec => IsSessions
<1>1. Init => S!Init
  <2> SUFFICES ASSUME Init PROVE S!Init
    OBVIOUS
  <2>1. /\ output = <<>> /\ open = {} /\ sock = [s \in Slots |-> Unused]
        /\ told = [c \in Clients |-> "nothing"]
        /\ stream = [c \in Clients |-> 0] /\ forwarded = stream
    BY DEF Init
  <2>2. Established = {}
    BY <2>1 DEF Established, Unused, Constructed
  <2>3. Accepted = {} /\ Messages = <<>>
    BY <2>1, <2>2 DEF Accepted, Messages
  <2> QED
    BY <2>1, <2>3, Mapping
<1>2. IInv /\ [Next]_vars => [S!Next]_(S!vars)
  <2> SUFFICES ASSUME IInv, [Next]_vars PROVE S!Next \/ UNCHANGED S!vars
    OBVIOUS
  <2>1. CASE EpoolProc
    <3>1. ASSUME NEW s \in Slots
          PROVE  /\ \A n \in 1 .. MaxHalves :
                      RecvPackages(s, n) => S!Next \/ UNCHANGED S!vars
                 /\ RecvNoMemory(s) \/ RecvClosed(s) \/ RecvHuge(s) => S!Next
                 /\ RecvAgain(s) => UNCHANGED S!vars
      BY Forwards, DropsWhenFull, Ends, DropsOnError, SilentWrites
    <3>2. ListenAccept \/ ServeFreed => S!Next
      BY ConnectsFirst, Strays
    <3> QED
      BY <2>1, <3>1, <3>2, SilentMoves DEF EpoolProc
  <2>2. CASE ProcessInputTbus
    <3>1. ASSUME NEW s \in Slots
          PROVE  /\ PushSend(s) \/ Flush(s) => UNCHANGED S!vars
                 /\ PushSendFails(s) \/ PushAcceptFails(s) \/ PushClose(s)
                      => S!Next
                 /\ PushAccept(s) \/ FlushFails(s) => S!Next
      BY SilentWrites, DropsOnError, Accepts
    <3> QED
      BY <2>2, <3>1, SilentMoves DEF ProcessInputTbus
  <2>3. CASE TimerProcess
    BY <2>3, DropsWhenLate, SilentMoves DEF TimerProcess
  <2>4. CASE Client \/ TimerExpire \/ BackendSend
    BY <2>4, SilentMoves
  <2>5. CASE BackendRecv
    BY <2>5, Takes
  <2>6. CASE Restart
    BY <2>6, Restarts
  <2>7. CASE UNCHANGED vars
    <3>1. UNCHANGED <<sock, output, told, forwarded, open>>
      BY <2>7 DEF vars, sockets
    <3> QED
      BY <3>1, Silent
  <2> QED
    BY <2>1, <2>2, <2>3, <2>4, <2>5, <2>6, <2>7 DEF Next, Process
<1> QED
  BY <1>1, <1>2, Invariant, PTL DEF Spec, IsSessions, S!Spec
=============================================================================
