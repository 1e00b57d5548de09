------------------------------ MODULE SocketApi ------------------------------
(***************************************************************************)
(* socketapi.c: a client's end of a connection to tconnd.  It opens the    *)
(* connection when something is sent, and cuts what it receives into       *)
(* packets: two bytes of size and that many bytes.                         *)
(*                                                                         *)
(* A byte is a record that says where it comes from: the connection, the   *)
(* packet, its place in it; and its value.  Bodies are zeroes.             *)
(***************************************************************************)
EXTENDS Integers, Sequences, SequencesExt, FiniteSets

CONSTANTS
  SOCKETAPI_RECVBUF_SIZE,
  Sizes,         \* sizes of the packets the server sends
  MaxOpens,      \* bound: connections opened
  MaxPackets,    \* bound: packets the server sends on a connection
  MaxSends       \* bound: calls of socketapi_send

UINT16_MAX == 65535

ASSUME SocketApiAssumption ==
  /\ SOCKETAPI_RECVBUF_SIZE \in Nat \ {0}
  /\ Sizes \subseteq 0 .. UINT16_MAX
  /\ {MaxOpens, MaxPackets, MaxSends} \subseteq Nat

HeadSize == 2              \* sizeof(uint16_t)
Conns    == 1 .. MaxOpens

VARIABLES
  socket_fd,   \* -1, or the connection
  recvbuf,     \* the first recvbuf_size bytes of it
  errno,       \* as the last failing call of the thread has left it
  (* the network: connections opened; for each connection, what the server *)
  (* has sent and is not yet received, packets it has sent, what it gets   *)
  (* from us, packet by packet; whether it has closed or reset it          *)
  opens, wire, packets, upstream, over,
  sends,       \* calls of socketapi_send
  (* history: what the last pass of socketapi_process has handed over, and *)
  (* what earlier ones have; whether a pass ended with a whole packet, and *)
  (* a connection was opened with a part of a packet in recvbuf; for each  *)
  (* connection, how many packets were sent on it before errno first told  *)
  (* to try again (Never, if it has not)                                   *)
  delivered, seen, exact, cut, asked

network == <<opens, wire, packets, upstream, over>>
history == <<delivered, seen, exact, cut, asked>>
vars == <<socket_fd, recvbuf, errno, network, sends, history>>

(* What errno may say, and what means that a call may be made again.       *)
Errnos == {"EINPROGRESS", "EAGAIN", "EINTR", "other"}
Retry  == {"EAGAIN", "EINTR"}

Never == MaxSends     \* no more are sent

Byte(c, n, k, v) == [conn |-> c, packet |-> n, at |-> k, value |-> v]

(* Byte k of a packet: the size comes first, its lower byte before the     *)
(* other.                                                                  *)
Value(k, size) == CASE k = 1 -> size % 256
                    [] k = 2 -> size \div 256
                    [] OTHER -> 0

(* Packet n of connection c, as the server sends it.                       *)
Packet(c, n, size) ==
  [k \in 1 .. HeadSize + size |-> Byte(c, n, k, Value(k, size))]

(* socketapi_init.                                                         *)
Init ==
  /\ socket_fd = -1 /\ recvbuf = <<>> /\ errno = "other"
  /\ opens = 0 /\ wire = [c \in Conns |-> <<>>]
  /\ packets = [c \in Conns |-> 0] /\ upstream = wire /\ over = {}
  /\ sends = 0
  /\ delivered = <<>> /\ seen = {}
  /\ exact = FALSE /\ cut = FALSE /\ asked = [c \in Conns |-> Never]

-----------------------------------------------------------------------------
(***************************************************************************)
(* Cutting.  Places in the buffer are 1 .. Len(b) + 1; the last one is     *)
(* limit.                                                                  *)
(***************************************************************************)
SizeAt(b, i) == b[i].value + 256 * b[i + 1].value

(* The places at which the loop of socketapi_process finds whole packets,  *)
(* and after them the place where it stops (last, if there was one).       *)
Cuts(b) ==
  LET From[i \in 1 .. Len(b) + 1] ==
        IF Len(b) + 1 - i < HeadSize THEN <<i>>
        ELSE LET next == i + HeadSize + SizeAt(b, i)
             IN  IF next <= Len(b) + 1 THEN <<i>> \o From[next] ELSE <<i>>
  IN  From[1]

Stop(b) == Last(Cuts(b))

(* What is handed to on_recv: the bytes of each whole packet.              *)
Whole(b) ==
  [j \in 1 .. Len(Cuts(b)) - 1 |->
     SubSeq(b, Cuts(b)[j], Cuts(b)[j + 1] - 1)]

(* Mutant: the part of a packet at the end is forgotten.                   *)
RemainderForgotten(b) == <<>>

(* What stays in recvbuf.  When the pass has ended with a whole packet,    *)
(* recvbuf_size is not set, and everything stays.                          *)
Remainder(b) == IF Stop(b) <= Len(b) THEN SubSeq(b, Stop(b), Len(b)) ELSE b

-----------------------------------------------------------------------------
(* errno tells to try again on connection c, for the first time if it has  *)
(* not before.                                                             *)
Asked(c) ==
  asked' = IF asked[c] = Never THEN [asked EXCEPT ![c] = Len(upstream[c])]
                               ELSE asked

(***************************************************************************)
(* socketapi_open, when there is no connection.                            *)
(***************************************************************************)
NewConnection ==
  /\ opens < MaxOpens
  /\ opens' = opens + 1 /\ socket_fd' = opens + 1
  /\ cut' = (cut \/ Stop(recvbuf) <= Len(recvbuf))
  /\ UNCHANGED <<wire, packets, upstream, over>>

(* connect() has begun.                                                    *)
OpenInProgress ==
  NewConnection /\ errno' = "EINPROGRESS" /\ UNCHANGED asked

(* connect() has succeeded at once: only errno is looked at, which is as   *)
(* an earlier call has left it.                                            *)
OpenAtOnce ==
  /\ errno \in {"EINPROGRESS", "EAGAIN"}
  /\ NewConnection /\ UNCHANGED errno
  /\ IF errno = "EAGAIN" THEN Asked(opens + 1) ELSE UNCHANGED asked

OpenAtOnceFails ==
  /\ errno \notin {"EINPROGRESS", "EAGAIN"}
  /\ UNCHANGED <<socket_fd, errno, network, cut, asked>>

(* socket(), setsockopt(), ioctl() or connect() fails.                     *)
OpenFails ==
  /\ errno' = "other"
  /\ UNCHANGED <<socket_fd, network, cut, asked>>

(* The descriptor is overwritten before it is closed: it stays open.       *)
Close == socket_fd' = -1

-----------------------------------------------------------------------------
(***************************************************************************)
(* socketapi_send.                                                         *)
(***************************************************************************)
Sending == sends < MaxSends /\ sends' = sends + 1

SendOnly == UNCHANGED <<recvbuf, delivered, seen, exact>>

(* There was no connection: one is opened, and the packet is not sent.     *)
SendOpens ==
  /\ Sending /\ socket_fd = -1
  /\ OpenInProgress \/ OpenAtOnce
  /\ SendOnly

(* It could not be opened, and writev() is called with descriptor -1.      *)
SendUnopened ==
  /\ Sending /\ socket_fd = -1
  /\ OpenAtOnceFails \/ OpenFails
  /\ SendOnly

Writes(what) ==
  /\ upstream' = [upstream EXCEPT ![socket_fd] = Append(@, what)]
  /\ UNCHANGED <<opens, wire, packets, over, cut, asked>>

SendWhole ==
  /\ Sending /\ socket_fd # -1 /\ socket_fd \notin over
  /\ Writes("whole")
  /\ UNCHANGED <<socket_fd, errno>> /\ SendOnly

(* Mutant: the connection is kept.                                         *)
SendPartKeeps ==
  /\ Sending /\ socket_fd # -1 /\ socket_fd \notin over
  /\ Writes("part")
  /\ UNCHANGED <<socket_fd, errno>> /\ SendOnly

(* writev() takes a part of the packet.  It has not failed, so errno is as *)
(* an earlier call has left it; it may tell to try again, as it does after *)
(* a recv() that found nothing, and the connection is kept.                *)
SendPart ==
  /\ Sending /\ socket_fd # -1 /\ socket_fd \notin over
  /\ Writes("part")
  /\ IF errno \in Retry THEN UNCHANGED socket_fd ELSE Close
  /\ UNCHANGED errno /\ SendOnly

(* Nothing can be sent now (or the call is interrupted), or no more.       *)
SendAgain ==
  /\ Sending /\ socket_fd # -1
  /\ errno' \in Retry /\ Asked(socket_fd)
  /\ UNCHANGED <<socket_fd, network, cut>> /\ SendOnly

SendFails ==
  /\ Sending /\ socket_fd # -1
  /\ errno' = "other" /\ Close
  /\ UNCHANGED <<network, cut, asked>> /\ SendOnly

Send == \/ SendOpens \/ SendUnopened \/ SendWhole \/ SendPart
        \/ SendAgain \/ SendFails

-----------------------------------------------------------------------------
(***************************************************************************)
(* socketapi_process.                                                      *)
(***************************************************************************)
ProcessOnly == UNCHANGED <<opens, packets, upstream, over, sends, cut>>

(* Mutant: recvbuf_size is not taken off.                                  *)
RoomWhole == SOCKETAPI_RECVBUF_SIZE

Room == SOCKETAPI_RECVBUF_SIZE - Len(recvbuf)

(* What a pass over buffer b hands over and leaves.                        *)
Pass(b) ==
  /\ delivered' = Whole(b) /\ seen' = seen \union ToSet(delivered)
  /\ exact' = (exact \/ (Whole(b) # <<>> /\ Stop(b) = Len(b) + 1))
  /\ recvbuf' = Remainder(b)

(* Mutant: errno is looked at first.                                       *)
RecvBytesIfNoError(n) ==
  /\ socket_fd # -1 /\ errno \notin Retry
  /\ n <= Room /\ n <= Len(wire[socket_fd])
  /\ Pass(recvbuf \o SubSeq(wire[socket_fd], 1, n))
  /\ wire' = [wire EXCEPT ![socket_fd] = SubSeq(@, n + 1, Len(@))]
  /\ UNCHANGED <<socket_fd, errno, asked>>
  /\ ProcessOnly

RecvBytes(n) ==
  /\ socket_fd # -1 /\ n <= Room /\ n <= Len(wire[socket_fd])
  /\ Pass(recvbuf \o SubSeq(wire[socket_fd], 1, n))
  /\ wire' = [wire EXCEPT ![socket_fd] = SubSeq(@, n + 1, Len(@))]
  /\ UNCHANGED <<socket_fd, errno, asked>>
  /\ ProcessOnly

(* recv() returns 0, because the server has closed or because there is no  *)
(* room: what is in the buffer is cut again.                               *)
RecvNothing ==
  /\ socket_fd # -1
  /\ Room = 0 \/ (wire[socket_fd] = <<>> /\ socket_fd \in over)
  /\ Pass(recvbuf)
  /\ UNCHANGED <<socket_fd, errno, asked, wire>>
  /\ ProcessOnly

RecvAgain ==
  /\ socket_fd # -1 /\ Room > 0
  /\ wire[socket_fd] = <<>> /\ socket_fd \notin over
  /\ errno' = "EAGAIN" /\ Asked(socket_fd)
  /\ UNCHANGED <<socket_fd, recvbuf, wire, delivered, seen, exact>>
  /\ ProcessOnly

(* recv() is interrupted.                                                  *)
RecvInterrupted ==
  /\ socket_fd # -1 /\ Room > 0
  /\ errno' = "EINTR" /\ Asked(socket_fd)
  /\ UNCHANGED <<socket_fd, recvbuf, wire, delivered, seen, exact>>
  /\ ProcessOnly

(* The connection was refused or reset.                                    *)
RecvFails ==
  /\ socket_fd # -1 /\ Room > 0 /\ socket_fd \in over
  /\ errno' = "other" /\ Close
  /\ UNCHANGED <<recvbuf, wire, delivered, seen, exact, asked>>
  /\ ProcessOnly

(* No connection: E_TLIBC_WOULD_BLOCK.                                     *)
NotOpen == socket_fd = -1 /\ UNCHANGED vars

Process == \/ \E n \in 1 .. SOCKETAPI_RECVBUF_SIZE : RecvBytes(n)
           \/ RecvNothing \/ RecvAgain \/ RecvInterrupted \/ RecvFails
           \/ NotOpen

-----------------------------------------------------------------------------
(* The server sends a packet, or closes or resets the connection.          *)
ServerOnly == UNCHANGED <<socket_fd, recvbuf, errno, opens, upstream, sends,
                          history>>

ServerSends(size) ==
  /\ socket_fd \in Conns \ over /\ packets[socket_fd] < MaxPackets
  /\ packets' = [packets EXCEPT ![socket_fd] = @ + 1]
  /\ wire' = [wire EXCEPT ![socket_fd] =
                @ \o Packet(socket_fd, packets'[socket_fd], size)]
  /\ UNCHANGED over
  /\ ServerOnly

ServerCloses ==
  /\ socket_fd \in Conns \ over
  /\ over' = over \union {socket_fd}
  /\ UNCHANGED <<wire, packets>>
  /\ ServerOnly

Next == \/ Send \/ Process
        \/ (\E size \in Sizes : ServerSends(size)) \/ ServerCloses

Spec == Init /\ [][Next]_vars

(* The application calls socketapi_process in its loop.                    *)
FairSpec == Spec /\ WF_vars(Process)

-----------------------------------------------------------------------------
(* Type invariant; the buffer is never overrun.                            *)
TypeOK ==
  /\ socket_fd \in Conns \union {-1}
  /\ Len(recvbuf) <= SOCKETAPI_RECVBUF_SIZE
  /\ errno \in Errnos
  /\ opens \in 0 .. MaxOpens /\ packets \in [Conns -> 0 .. MaxPackets]
  /\ over \subseteq Conns
  /\ \A c \in Conns : upstream[c] \in Seq({"whole", "part"})
  /\ sends \in 0 .. MaxSends
  /\ {exact, cut} \subseteq BOOLEAN
  /\ asked \in [Conns -> 0 .. MaxSends]

(* Safety: what on_recv is given are packets of the server, those of a     *)
(* pass without a gap, and none is left out: the first time they come, the *)
(* packets of a connection come in their order.  As long as every pass     *)
(* ends inside a packet, each comes once.  (After one that does not, the   *)
(* packets stay in the buffer and are handed over again; and a connection  *)
(* opened with a part of a packet in the buffer is out of step.)           *)
Number(p) == [conn |-> p[1].conn, n |-> p[1].packet]
Genuine(p) == /\ p = Packet(p[1].conn, p[1].packet, Len(p) - HeadSize)
              /\ p[1].at = 1

Delivery ==
  ~cut =>
    LET all == ToSet(delivered) \union seen
    IN  /\ \A p \in all : Genuine(p)
        /\ \A c \in Conns :
             LET ns == {Number(p).n : p \in {q \in all : q[1].conn = c}}
             IN  ns = 1 .. Cardinality(ns)
        /\ \A j \in 2 .. Len(delivered) :
             LET a == Number(delivered[j - 1])
                 b == Number(delivered[j])
             IN  IF a.conn = b.conn THEN b.n = a.n + 1 ELSE a.conn < b.conn
        /\ ~exact => ToSet(delivered) \intersect seen = {}

(* Safety: what the server gets on a connection is in frame up to the      *)
(* first time errno has told to try again: a part of a packet that was     *)
(* sent before that is the last thing on its connection.  (From then on    *)
(* errno goes on telling so as long as the connection lasts, and one that  *)
(* was sent in part is followed by others.)                                *)
Framed ==
  \A c \in Conns : \A j \in 1 .. Len(upstream[c]) - 1 :
    upstream[c][j] = "part" => j > asked[c]

(* Liveness: what the server sends is received, until the connection is    *)
(* closed or the buffer is full of packets handed over already.            *)
Received ==
  []<>(\/ socket_fd = -1 \/ wire[socket_fd] = <<>> \/ Room = 0)
=============================================================================
