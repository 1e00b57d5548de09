------------------------------ MODULE TbusInv -------------------------------
(***************************************************************************)
(* What makes the bus of module Tbus correct, the invariant it rests on,   *)
(* and the abstract channel it implements.                                 *)
(***************************************************************************)
EXTENDS Tbus

Ch == INSTANCE Channel WITH delivering <- pos

(* Every variable has its type, and every offset lies in the buffer as     *)
(* tbus_init has sized it so far: nothing is ever stored outside it.       *)
TypeOK ==
  /\ packet_size \in {0, PacketSize} /\ size \in {0, Size}
  /\ size # 0 => packet_size = PacketSize
  /\ head_offset \in 0 .. size /\ tail_offset \in 0 .. size
  /\ buff \in [0 .. Size - 1 -> Cell]
  /\ wpc \in {"idle", "room", "wrap", "again", "granted", "encoded",
              "header", "publish"}
  /\ wreq \in {r \in [need : Nat, len : Nat] : r.len <= r.need}
  /\ whead \in 0 .. size /\ wgrant \in 0 .. size
  /\ rpc \in {"idle", "seg0", "seg1", "deliver", "end"}
  /\ rtail \in 0 .. size /\ curr \in 0 .. size
  /\ iov \in Seq([base : Nat, len : Nat, val : Nat])
  /\ pos \in 0 .. Len(iov)
  /\ sent \in 0 .. MaxSent /\ released \in 0 .. MaxSent
  /\ at \in [0 .. MaxSent -> 0 .. size] /\ to \in [0 .. MaxSent -> 0 .. size]
  /\ lap \in 0 .. MaxSent /\ top \in 0 .. size /\ rsent \in 0 .. MaxSent
  /\ last \in -1 .. MaxSent /\ crashes \in 0 .. MaxCrashes

-----------------------------------------------------------------------------
(***************************************************************************)
(* The layout of the packets.                                              *)
(***************************************************************************)

(* Packets lo .. hi-1, which begin at f[n] and end at t[n], lie end to end *)
(* and fill the cells a .. b-1.                                            *)
Tile(f, t, lo, hi, a, b) ==
  /\ lo <= hi /\ a <= b
  /\ lo = hi => a = b
  /\ lo < hi => f[lo] = a /\ t[hi - 1] = b
  /\ \A n \in lo .. hi - 1 : /\ a <= f[n] /\ f[n] + HeaderSize < t[n]
                             /\ t[n] <= b
                             /\ n + 1 < hi => f[n + 1] = t[n]
  /\ \A m, n \in lo .. hi - 1 : m < n => t[m] <= f[n]

(* A head at offset h, with packet r the first one not released, would     *)
(* find r and all that follow.                                             *)
LayoutAt(r, h) ==
  IF h <= tail_offset
  THEN /\ lap <= r
       /\ Tile(at, to, r, sent, h, tail_offset)
  ELSE /\ Tile(at, to, lap, sent, 0, tail_offset)
       /\ Tile(at, to, r, lap, h, top)

(* What stands at offset o sends the receiver to the beginning.            *)
Gap(o) == size - o < HeaderSize \/ buff[o].cmd = "ignore"

Layout ==
  /\ LayoutAt(released, head_offset)
  /\ head_offset > tail_offset => Gap(top)

(* Safety: no packet is overwritten while the receiver may still read it.  *)
PacketsIntact ==
  \A n \in released .. sent - 1 :
    buff[at[n]] = Package(to[n] - at[n] - HeaderSize, n)

-----------------------------------------------------------------------------
(***************************************************************************)
(* The sender.  Its copy of head_offset is a place where the head has been *)
(* since the tail last went back to 0, and the space it was given ends     *)
(* before the head, or at the end of the buffer.                           *)
(***************************************************************************)
HeadSeen ==
  IF Behind THEN whead <= head_offset /\ head_offset <= tail_offset
            ELSE head_offset <= tail_offset \/ whead <= head_offset

GrantEnd == tail_offset + HeaderSize + wgrant

SenderInv ==
  /\ wpc # "idle" => sent < MaxSent
  /\ wpc \notin {"idle", "again"} => HeadSeen
  /\ wpc = "wrap" => /\ Behind /\ whead # 0
                     /\ tail_offset < size
                     /\ buff[tail_offset].cmd = "ignore"
  /\ wpc \in {"granted", "encoded", "header", "publish"} =>
       /\ GrantEnd <= size
       /\ head_offset > tail_offset => GrantEnd < head_offset
  /\ wpc \in {"encoded", "header", "publish"} =>
       0 < wreq.len /\ wreq.len <= wgrant
  /\ wpc \in {"header", "publish"} =>
       buff[tail_offset] = Package(wreq.len, sent)
  /\ wpc = "publish" /\ PacketEnd >= size => Behind

(***************************************************************************)
(* The receiver.  Its copy of tail_offset is where the packets end that    *)
(* had been published when it was made, and its cursor stands where the    *)
(* next packet begins that it has not taken.                               *)
(***************************************************************************)
Taken == released + (IF rpc = "end" THEN pos ELSE Len(iov))

Reached(h) == IF head_offset <= tail_offset
              THEN head_offset <= h /\ h <= tail_offset
              ELSE head_offset <= h \/ h <= tail_offset

ReaderInv ==
  rpc # "idle" =>
    /\ LayoutAt(rsent, rtail) /\ Reached(rtail)
    /\ OnePiece \/ rtail <= tail_offset
    /\ LayoutAt(Taken, curr) /\ Reached(curr)
    /\ released <= rsent /\ released + Len(iov) <= rsent
    /\ \A i \in 1 .. Len(iov) :
         LET n == released + i - 1
         IN  iov[i] = [base |-> at[n] + HeaderSize,
                       len |-> to[n] - at[n] - HeaderSize, val |-> n]
    /\ rpc \in {"seg0", "seg1"} => pos = 0
    /\ rpc = "seg0" => head_offset <= curr
    /\ rpc = "seg0" /\ OnePiece => curr <= rtail
    /\ rpc = "seg1" => ~OnePiece /\ curr <= rtail

(* The inductive invariant.                                                *)
IInv == TypeOK /\ Layout /\ PacketsIntact /\ SenderInv /\ ReaderInv

-----------------------------------------------------------------------------
(* Safety: the space tbus_send_begin has given away lies in the buffer and *)
(* touches no packet that is not released, however far the receiver has    *)
(* moved on since the sender looked at head_offset.                        *)
GrantedSpaceIsFree ==
  wpc \in {"granted", "encoded", "header", "publish"} =>
    /\ GrantEnd <= size
    /\ \A n \in released .. sent - 1 :
         to[n] <= tail_offset \/ GrantEnd <= at[n]

(* Safety: peek() never meets bytes that are no header, the case in which  *)
(* tbus_read_begin silently discards everything up to the tail.            *)
NeverDiscards == ~AtGarbage

(* Safety: the packets of a batch are the oldest not yet released, with    *)
(* their own sizes and payloads, none left out and none twice.             *)
BatchInOrder ==
  rpc # "idle" =>
    \A i \in 1 .. Len(iov) :
      LET n == released + i - 1
      IN  /\ n < sent
          /\ iov[i].val = n
          /\ iov[i].len = to[n] - at[n] - HeaderSize

(* Safety: equal offsets mean an empty bus and never a full one.           *)
EqualIsEmpty == head_offset = tail_offset => released = sent

(* Refinement: the bus is a channel that loses nothing and keeps order,    *)
(* and hands a packet over twice only when the receiver died in between.   *)
IsChannel == Ch!Spec

(* Liveness: when every message fits in a packet, the encoder never fails  *)
(* and no packet is refused for ever, every message gets through: a full   *)
(* bus does not stay full, and no packet is left in it.                    *)
AllReleased == <>(released = MaxSent)
=============================================================================
