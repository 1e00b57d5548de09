-------------------------------- MODULE Tbus --------------------------------
(***************************************************************************)
(* The shared-memory bus of tbus/source/tbus.c, between one sending and    *)
(* one receiving process that follow tbusapi/source/tbusapi.c, laid out by *)
(* tbusmgr.                                                                *)
(*                                                                         *)
(* Every access to head_offset and tail_offset is a step of its own, and   *)
(* so is every round of the loop in peek(): the two processes interleave   *)
(* between any two of them.  Offsets count cells; a header takes           *)
(* HeaderSize cells, of which the first stands for the header and the rest *)
(* are, like the cells of a payload, Junk that must never be read as a     *)
(* header.  A packet's payload is the number of the packet.                *)
(***************************************************************************)
EXTENDS Integers, Sequences

CONSTANTS
  HeaderSize,   \* sizeof(tbus_header_t)
  PacketSize,   \* what tbus_init stores in packet_size: header + packet
  Number,       \* the number of packets given to tbus_init
  IovNum,       \* the iov_num the receiver passes to tbus_read_begin
  Requests,     \* the messages the sender may try to send, see below
  MayRefuse,    \* whether on_recv may return false
  MaxSent,      \* bound: number of packets ever published
  MaxCrashes    \* bound: number of times a process is killed and restarted

(***************************************************************************)
(* A request is what a caller of tbus_send_begin brings with it: need is   *)
(* the space it insists on, len what it then passes to tbus_send_end, 0    *)
(* when its encoder fails.                                                 *)
(***************************************************************************)
ASSUME TbusAssumption ==
  /\ HeaderSize \in Nat \ {0}
  /\ PacketSize \in Nat
  /\ PacketSize >= HeaderSize
  /\ Number \in Nat \ {0}
  /\ IovNum \in Nat \ {0}
  /\ Requests \subseteq {r \in [need : Nat, len : Nat] : r.len <= r.need}
  /\ MayRefuse \in BOOLEAN
  /\ MaxSent \in Nat
  /\ MaxCrashes \in Nat

Size == PacketSize * Number

VARIABLES
  (* the tbus_t in shared memory *)
  head_offset, tail_offset, packet_size, size, buff,
  (* the sender: where it is, its request, its copy of head_offset, and    *)
  (* the space tbus_send_begin returned to it                              *)
  wpc, wreq, whead, wgrant,
  (* the receiver: where it is, its copy of tail_offset, the cursor of     *)
  (* peek() and then the offset to release, the packets found, and how     *)
  (* many of them on_recv has accepted                                     *)
  rpc, rtail, curr, iov, pos,
  (* history, not kept by the program: packets published and released, the *)
  (* offsets where each begins and ends, the packets published when the    *)
  (* tail last went back to 0 and where it stood then, the packets         *)
  (* published when the receiver copied tail_offset, the packet accepted   *)
  (* last, and the number of crashes                                       *)
  sent, released, at, to, lap, top, rsent, last, crashes

shm    == <<head_offset, tail_offset, packet_size, size, buff>>
sender == <<wpc, wreq, whead, wgrant>>
reader == <<rpc, rtail, curr, iov, pos>>
layout == <<sent, at, to, lap, top>>
vars   == <<shm, sender, reader, layout, released, rsent, last, crashes>>

(* The contents of a cell.                                                 *)
Cell   == [cmd : {"package", "ignore", "junk"}, size : Nat, val : Nat]
Junk   == [cmd |-> "junk", size |-> 0, val |-> 0]
Ignore == [cmd |-> "ignore", size |-> 0, val |-> 0]
Package(n, v) == [cmd |-> "package", size |-> n, val |-> v]

(* Cells lo .. hi-1 of the buffer overwritten with bytes of a payload.     *)
Scribble(lo, hi) ==
  [o \in DOMAIN buff |-> IF lo <= o /\ o < hi THEN Junk ELSE buff[o]]

(***************************************************************************)
(* tbusmgr creates the segment, which the kernel fills with zeroes, and    *)
(* tbus_init then stores packet_size and size.  Both processes may attach  *)
(* as soon as the segment exists.                                          *)
(***************************************************************************)
Init ==
  /\ head_offset = 0 /\ tail_offset = 0
  /\ packet_size = 0 /\ size = 0
  /\ buff = [o \in 0 .. Size - 1 |-> Junk]
  /\ wpc = "idle" /\ wreq = [need |-> 0, len |-> 0] /\ whead = 0 /\ wgrant = 0
  /\ rpc = "idle" /\ rtail = 0 /\ curr = 0 /\ iov = <<>> /\ pos = 0
  /\ sent = 0 /\ released = 0 /\ rsent = 0 /\ last = -1 /\ crashes = 0
  /\ at = [n \in 0 .. MaxSent |-> 0] /\ to = at /\ lap = 0 /\ top = 0

InitPacketSize ==
  /\ packet_size = 0
  /\ packet_size' = PacketSize
  /\ UNCHANGED <<head_offset, tail_offset, size, buff, sender, reader, layout,
                 released, rsent, last, crashes>>

InitSize ==
  /\ packet_size # 0 /\ size = 0
  /\ size' = packet_size * Number
  /\ UNCHANGED <<head_offset, tail_offset, packet_size, buff, sender, reader,
                 layout, released, rsent, last, crashes>>

TbusInit == InitPacketSize \/ InitSize

-----------------------------------------------------------------------------
(***************************************************************************)
(* tbus_send_begin.  The sender owns tail_offset and works on a copy of    *)
(* head_offset, which may be out of date when it is used.                  *)
(***************************************************************************)
SenderOnly == UNCHANGED <<head_offset, packet_size, size, reader,
                          released, rsent, last, crashes>>

Behind == whead <= tail_offset

(* Mutants: the cell between tail and head is given away as well, or the   *)
(* head is not looked at.                                                  *)
WriteSizeUpToHead ==
  IF Behind THEN size - tail_offset ELSE whead - tail_offset
WriteSizeIgnoresHead == size - tail_offset

WriteSize == IF Behind THEN size - tail_offset ELSE whead - tail_offset - 1

LoadHead(next) ==
  /\ whead' = head_offset
  /\ wpc' = next
  /\ UNCHANGED <<tail_offset, buff, wgrant, layout>>

SendBegin ==
  /\ wpc = "idle" /\ sent < MaxSent
  /\ wreq' \in Requests
  /\ LoadHead("room")
  /\ SenderOnly

(* The recursive call, after the tail went back to 0.                      *)
SendAgain ==
  /\ wpc = "again"
  /\ LoadHead("room")
  /\ UNCHANGED wreq
  /\ SenderOnly

NoRoom ==
  /\ wpc = "room"
  /\ IF Behind THEN WriteSize < HeaderSize /\ whead = 0
               ELSE WriteSize < packet_size
  /\ wpc' = "idle"
  /\ UNCHANGED <<tail_offset, buff, wreq, whead, wgrant, layout>>
  /\ SenderOnly

(* Mutant: the tail goes back without a mark.                              *)
MarkForgotten ==
  /\ wpc = "room" /\ Behind
  /\ WriteSize >= HeaderSize /\ WriteSize < packet_size
  /\ wpc' = IF whead # 0 THEN "wrap" ELSE "idle"
  /\ UNCHANGED <<tail_offset, buff, wreq, whead, wgrant, layout>>
  /\ SenderOnly

(* The rest of the buffer holds a header but not a packet: it is marked.   *)
MarkIgnore ==
  /\ wpc = "room" /\ Behind
  /\ WriteSize >= HeaderSize /\ WriteSize < packet_size
  /\ buff' = [buff EXCEPT ![tail_offset] = Ignore]
  /\ wpc' = IF whead # 0 THEN "wrap" ELSE "idle"
  /\ UNCHANGED <<tail_offset, wreq, whead, wgrant, layout>>
  /\ SenderOnly

(* The tail goes back to 0.                                                *)
Wrap ==
  /\ \/ wpc = "wrap"
     \/ wpc = "room" /\ Behind /\ WriteSize < HeaderSize /\ whead # 0
  /\ tail_offset' = 0
  /\ wpc' = "again"
  /\ lap' = sent /\ top' = tail_offset
  /\ UNCHANGED <<buff, wreq, whead, wgrant, sent, at, to>>
  /\ SenderOnly

(* Mutants: the header is not taken off, or the space is not compared with *)
(* packet_size.                                                            *)
GrantWithHeader ==
  /\ wpc = "room"
  /\ Behind => WriteSize >= HeaderSize
  /\ WriteSize >= packet_size
  /\ wgrant' = WriteSize
  /\ wpc' = "granted"
  /\ UNCHANGED <<tail_offset, buff, wreq, whead, layout>>
  /\ SenderOnly
GrantUnchecked ==
  /\ wpc = "room"
  /\ Behind => WriteSize >= HeaderSize
  /\ wgrant' = WriteSize - HeaderSize
  /\ wpc' = "granted"
  /\ UNCHANGED <<tail_offset, buff, wreq, whead, layout>>
  /\ SenderOnly

Grant ==
  /\ wpc = "room"
  /\ Behind => WriteSize >= HeaderSize
  /\ WriteSize >= packet_size
  /\ wgrant' = WriteSize - HeaderSize
  /\ wpc' = "granted"
  /\ UNCHANGED <<tail_offset, buff, wreq, whead, layout>>
  /\ SenderOnly

-----------------------------------------------------------------------------
(***************************************************************************)
(* The caller: tbusapi_send, tlog_appender_shm_log, tconnd_listen and      *)
(* tconnd_socket_recv give up when the space is too small for them, write  *)
(* anywhere in it otherwise, and do not call tbus_send_end (or call it     *)
(* with 0) when nothing came out.                                          *)
(***************************************************************************)
Decline ==
  /\ wpc = "granted" /\ wgrant < wreq.need
  /\ wpc' = "idle"
  /\ UNCHANGED <<tail_offset, buff, wreq, whead, wgrant, layout>>
  /\ SenderOnly

Encode ==
  /\ wpc = "granted" /\ wgrant >= wreq.need
  /\ buff' = Scribble(tail_offset + HeaderSize,
                      tail_offset + HeaderSize + wgrant)
  /\ wpc' = IF wreq.len = 0 THEN "idle" ELSE "encoded"
  /\ UNCHANGED <<tail_offset, wreq, whead, wgrant, layout>>
  /\ SenderOnly

(* tbus_send_end: the header first, ...                                    *)
PutHeader ==
  /\ wpc = "encoded"
  /\ buff' = [Scribble(tail_offset, tail_offset + HeaderSize)
                EXCEPT ![tail_offset] = Package(wreq.len, sent)]
  /\ wpc' = "header"
  /\ UNCHANGED <<tail_offset, wreq, whead, wgrant, layout>>
  /\ SenderOnly

(* ... then another look at head_offset, ...                               *)
SendEndHead ==
  /\ wpc = "header"
  /\ LoadHead("publish")
  /\ UNCHANGED wreq
  /\ SenderOnly

PacketEnd == tail_offset + HeaderSize + wreq.len

(* Mutant: whether the head is at 0 is not asked.                          *)
RewindAlways == PacketEnd >= size

(* The tail goes back to 0 behind a packet that fills the buffer.          *)
Rewind == PacketEnd >= size /\ whead # 0

(* ... and the store to tail_offset that publishes the packet.             *)
Publish ==
  /\ wpc = "publish"
  /\ tail_offset' = IF Rewind THEN 0 ELSE PacketEnd
  /\ wpc' = "idle"
  /\ sent' = sent + 1
  /\ at' = [at EXCEPT ![sent] = tail_offset]
  /\ to' = [to EXCEPT ![sent] = PacketEnd]
  /\ lap' = IF Rewind THEN sent + 1 ELSE lap
  /\ top' = IF Rewind THEN PacketEnd ELSE top
  /\ UNCHANGED <<buff, wreq, whead, wgrant>>
  /\ SenderOnly

Send ==
  \/ SendBegin \/ SendAgain \/ NoRoom \/ MarkIgnore \/ Wrap \/ Grant
  \/ Decline \/ Encode \/ PutHeader \/ SendEndHead \/ Publish

-----------------------------------------------------------------------------
(***************************************************************************)
(* tbus_read_begin.  The receiver owns head_offset and works on a copy of  *)
(* tail_offset.  peek() walks one segment when the unread bytes lie in one *)
(* piece, and otherwise the end of the buffer and then its beginning.      *)
(***************************************************************************)
ReceiverOnly == UNCHANGED <<tail_offset, packet_size, size, buff, sender,
                            layout, crashes>>

ReadBegin ==
  /\ rpc = "idle"
  /\ rpc' = "seg0"
  /\ rtail' = tail_offset
  /\ curr' = head_offset
  /\ iov' = <<>>
  /\ pos' = 0
  /\ rsent' = sent
  /\ UNCHANGED <<head_offset, released, last>>
  /\ ReceiverOnly

OnePiece == head_offset <= rtail

Limit == IF rpc = "seg0" /\ ~OnePiece THEN size ELSE rtail

Peeking == rpc \in {"seg0", "seg1"} /\ curr < Limit

(* Less than a header before the limit, or a mark.                         *)
AtGap ==
  /\ Peeking
  /\ Limit - curr < HeaderSize \/ buff[curr].cmd = "ignore"

AtPackage ==
  /\ Peeking /\ ~AtGap
  /\ buff[curr].cmd = "package"
  /\ Limit - curr >= HeaderSize + buff[curr].size

(* The bytes at the cursor are no header: peek() returns NULL.             *)
AtGarbage == Peeking /\ ~AtGap /\ ~AtPackage

PeekPackage ==
  /\ AtPackage /\ Len(iov) < IovNum
  /\ iov' = Append(iov, [base |-> curr + HeaderSize,
                         len |-> buff[curr].size,
                         val |-> buff[curr].val])
  /\ curr' = curr + HeaderSize + buff[curr].size
  /\ UNCHANGED <<head_offset, rpc, rtail, pos, released, rsent, last>>
  /\ ReceiverOnly

(* peek() is about to return, and where it has come to.                    *)
PeekDone ==
  /\ rpc \in {"seg0", "seg1"}
  /\ AtPackage => Len(iov) >= IovNum

(* Mutant: a full iov ends the reading as the limit does.                  *)
PeekReturnLimit == Limit

PeekReturn == IF AtGap THEN Limit ELSE curr

(* The first of two segments is read to the end: on to the second.         *)
PeekSecond ==
  /\ PeekDone /\ ~AtGarbage
  /\ rpc = "seg0" /\ ~OnePiece /\ PeekReturn = Limit
  /\ rpc' = "seg1"
  /\ curr' = 0
  /\ UNCHANGED <<head_offset, rtail, iov, pos, released, rsent, last>>
  /\ ReceiverOnly

(* The result of tbus_read_begin: where the packets found end, or, at      *)
(* garbage, no packet and the tail.                                        *)
PeekLast ==
  /\ PeekDone
  /\ rpc = "seg0" /\ ~OnePiece => AtGarbage \/ PeekReturn # Limit
  /\ rpc' = "deliver"
  /\ curr' = IF AtGarbage THEN rtail ELSE PeekReturn
  /\ iov' = IF AtGarbage THEN <<>> ELSE iov
  /\ UNCHANGED <<head_offset, rtail, pos, released, rsent, last>>
  /\ ReceiverOnly

-----------------------------------------------------------------------------
(***************************************************************************)
(* tbusapi_process on the packets found, and tbus_read_end.                *)
(***************************************************************************)
OnRecv ==
  /\ rpc = "deliver" /\ pos < Len(iov)
  /\ pos' = pos + 1
  /\ last' = iov[pos + 1].val
  /\ UNCHANGED <<head_offset, rpc, rtail, curr, iov, released, rsent>>
  /\ ReceiverOnly

(* Mutant: the refused packet is released with the others.                 *)
RefuseForgotten ==
  /\ MayRefuse
  /\ rpc = "deliver" /\ pos < Len(iov)
  /\ rpc' = "end"
  /\ UNCHANGED <<head_offset, rtail, curr, iov, pos, released, rsent, last>>
  /\ ReceiverOnly

(* on_recv returned false: the packet it refused is the new head.          *)
OnRecvRefuse ==
  /\ MayRefuse
  /\ rpc = "deliver" /\ pos < Len(iov)
  /\ curr' = iov[pos + 1].base - HeaderSize
  /\ rpc' = "end"
  /\ UNCHANGED <<head_offset, rtail, iov, pos, released, rsent, last>>
  /\ ReceiverOnly

(* Mutant: with no packet there is never a tbus_read_end.                  *)
EmptyNeverEnds ==
  /\ rpc = "deliver" /\ pos = Len(iov)
  /\ rpc' = IF iov = <<>> THEN "idle" ELSE "end"
  /\ UNCHANGED <<head_offset, rtail, curr, iov, pos, released, rsent, last>>
  /\ ReceiverOnly

(* All were accepted; with nothing read at all there is no tbus_read_end.  *)
OnRecvAll ==
  /\ rpc = "deliver" /\ pos = Len(iov)
  /\ rpc' = IF iov = <<>> /\ curr = head_offset THEN "idle" ELSE "end"
  /\ UNCHANGED <<head_offset, rtail, curr, iov, pos, released, rsent, last>>
  /\ ReceiverOnly

ReadEnd ==
  /\ rpc = "end"
  /\ head_offset' = curr
  /\ released' = released + pos
  /\ pos' = 0
  /\ rpc' = "idle"
  /\ UNCHANGED <<rtail, curr, iov, rsent, last>>
  /\ ReceiverOnly

Process ==
  \/ ReadBegin \/ PeekPackage \/ PeekSecond \/ PeekLast
  \/ OnRecv \/ OnRecvRefuse \/ OnRecvAll \/ ReadEnd

-----------------------------------------------------------------------------
(***************************************************************************)
(* A process is killed and started again.  It attaches to the same segment *)
(* and has forgotten everything that is not in it.                         *)
(***************************************************************************)
Restart ==
  /\ crashes < MaxCrashes
  /\ crashes' = crashes + 1
  /\ UNCHANGED <<shm, wreq, whead, wgrant, rtail, curr, iov,
                 layout, released, rsent, last>>

SenderCrash ==
  /\ wpc # "idle"
  /\ wpc' = "idle"
  /\ UNCHANGED <<rpc, pos>>
  /\ Restart

ReaderCrash ==
  /\ rpc # "idle"
  /\ rpc' = "idle"
  /\ pos' = 0
  /\ UNCHANGED wpc
  /\ Restart

Crash == SenderCrash \/ ReaderCrash

-----------------------------------------------------------------------------
Next == TbusInit \/ Send \/ Process \/ Crash

Spec == Init /\ [][Next]_vars

(* Both processes run an endless loop (tapp_loop) that comes back to the   *)
(* bus again and again.                                                    *)
Fairness == WF_vars(TbusInit) /\ WF_vars(Send) /\ WF_vars(Process)

FairSpec == Spec /\ Fairness
=============================================================================
