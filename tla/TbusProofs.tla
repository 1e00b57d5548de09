---------------------------- MODULE TbusProofs ------------------------------
(***************************************************************************)
(* The bus is correct for every buffer size, every message and any number  *)
(* of packets and crashes: IInv is an inductive invariant of module Tbus,  *)
(* the safety properties follow from it, and every step of the bus is a    *)
(* step of the abstract channel or leaves it as it is.                     *)
(***************************************************************************)
EXTENDS TbusInv, TLAPS

-----------------------------------------------------------------------------
(* The constants.                                                          *)
LEMMA Constants ==
  /\ HeaderSize \in Nat /\ HeaderSize > 0
  /\ PacketSize \in Nat /\ PacketSize >= HeaderSize
  /\ Number \in Nat /\ IovNum \in Nat /\ MaxSent \in Nat /\ MaxCrashes \in Nat
BY TbusAssumption DEF TbusAssumption

-----------------------------------------------------------------------------
(* Facts about a row of packets.                                           *)
Offsets == [0 .. MaxSent -> Nat]

(* No packets fill no cells.                                               *)
LEMMA TileEmpty ==
  ASSUME NEW f, NEW t, NEW lo \in Nat, NEW a \in Nat
  PROVE  Tile(f, t, lo, lo, a, a)
BY SMT DEF Tile

(* The first packet of a row, and the row without it.                      *)
LEMMA TileHead ==
  ASSUME NEW f \in Offsets, NEW t \in Offsets,
         NEW lo \in Nat, NEW hi \in 0 .. MaxSent,
         NEW a \in Nat, NEW b \in Nat,
         Tile(f, t, lo, hi, a, b), lo < hi
  PROVE  /\ f[lo] = a
         /\ a + HeaderSize < t[lo] /\ t[lo] <= b
         /\ Tile(f, t, lo + 1, hi, t[lo], b)
<1>1. \A n \in lo .. hi - 1 : f[n] \in Nat /\ t[n] \in Nat
  BY Constants DEF Offsets
<1>2. f[lo] = a /\ a + HeaderSize < t[lo] /\ t[lo] <= b
  BY Constants, <1>1 DEF Tile
<1>3. lo + 1 = hi => t[lo] = b
  BY DEF Tile
<1>4. lo + 1 < hi => f[lo + 1] = t[lo] /\ t[hi - 1] = b
  BY DEF Tile
<1>5. \A n \in lo + 1 .. hi - 1 : t[lo] <= f[n]
  BY DEF Tile
<1>6. \A n \in lo + 1 .. hi - 1 : /\ f[n] + HeaderSize < t[n] /\ t[n] <= b
                                  /\ n + 1 < hi => f[n + 1] = t[n]
  BY DEF Tile
<1>7. \A m, n \in lo + 1 .. hi - 1 : m < n => t[m] <= f[n]
  BY DEF Tile
<1> QED
  BY <1>1, <1>2, <1>3, <1>4, <1>5, <1>6, <1>7 DEF Tile

(* A row without its first few packets.                                    *)
LEMMA TileSuffix ==
  ASSUME NEW f \in Offsets, NEW t \in Offsets,
         NEW lo \in Nat, NEW hi \in 0 .. MaxSent,
         NEW a \in Nat, NEW b \in Nat, NEW k \in Nat,
         Tile(f, t, lo, hi, a, b), lo <= k, k < hi
  PROVE  /\ a <= f[k] /\ f[k] + HeaderSize < t[k] /\ t[k] <= b
         /\ Tile(f, t, k, hi, f[k], b)
<1>1. \A n \in lo .. hi - 1 : f[n] \in Nat /\ t[n] \in Nat
  BY Constants DEF Offsets
<1>2. a <= f[k] /\ f[k] + HeaderSize < t[k] /\ t[k] <= b
  BY DEF Tile
<1>3. t[hi - 1] = b
  BY DEF Tile
<1>4. \A n \in k .. hi - 1 : /\ f[n] + HeaderSize < t[n] /\ t[n] <= b
                             /\ n + 1 < hi => f[n + 1] = t[n]
  BY DEF Tile
<1>5. \A m, n \in k .. hi - 1 : m < n => t[m] <= f[n]
  BY DEF Tile
<1>6. \A n \in k .. hi - 1 : f[k] <= f[n]
  BY Constants, <1>1, <1>2, <1>5
<1> QED
  BY Constants, <1>1, <1>2, <1>3, <1>4, <1>5, <1>6 DEF Tile

(* A row with one more packet.                                             *)
LEMMA TileAppend ==
  ASSUME NEW f \in Offsets, NEW t \in Offsets,
         NEW lo \in Nat, NEW hi \in 0 .. MaxSent,
         NEW a \in Nat, NEW b \in Nat, NEW c \in Nat,
         Tile(f, t, lo, hi, a, b), b + HeaderSize < c
  PROVE  Tile([f EXCEPT ![hi] = b], [t EXCEPT ![hi] = c], lo, hi + 1, a, c)
<1> DEFINE g == [f EXCEPT ![hi] = b]
           u == [t EXCEPT ![hi] = c]
<1>1. \A n \in lo .. hi - 1 : f[n] \in Nat /\ t[n] \in Nat
  BY Constants DEF Offsets
<1>2. /\ g[hi] = b /\ u[hi] = c
      /\ \A n \in lo .. hi - 1 : g[n] = f[n] /\ u[n] = t[n]
  BY DEF Offsets
<1>3. lo <= hi /\ a <= b /\ (lo = hi => a = b)
  BY DEF Tile
<1>4. lo < hi => f[lo] = a /\ t[hi - 1] = b
  BY DEF Tile
<1>5. \A n \in lo .. hi - 1 : /\ a <= f[n] /\ f[n] + HeaderSize < t[n]
                              /\ t[n] <= b
                              /\ n + 1 < hi => f[n + 1] = t[n]
  BY DEF Tile
<1>6. \A m, n \in lo .. hi - 1 : m < n => t[m] <= f[n]
  BY DEF Tile
<1> HIDE DEF g, u
<1>7. g[lo] = a
  BY <1>2, <1>3, <1>4
<1>8. \A n \in lo .. hi : /\ a <= g[n] /\ g[n] + HeaderSize < u[n]
                          /\ u[n] <= c
                          /\ n + 1 < hi + 1 => g[n + 1] = u[n]
  <2> TAKE n \in lo .. hi
  <2>1. CASE n = hi
    BY Constants, <1>2, <1>3, <2>1
  <2>2. CASE n < hi
    BY Constants, <1>1, <1>2, <1>3, <1>4, <1>5, <2>2
  <2> QED
    BY <2>1, <2>2
<1>9. \A m, n \in lo .. hi : m < n => u[m] <= g[n]
  <2> TAKE m, n \in lo .. hi
  <2>1. CASE n = hi
    BY <1>1, <1>2, <1>5, <2>1
  <2>2. CASE n < hi
    BY <1>2, <1>6, <2>2
  <2> QED
    BY <2>1, <2>2
<1>10. Tile(g, u, lo, hi + 1, a, c)
  BY Constants, <1>2, <1>3, <1>7, <1>8, <1>9 DEF Tile
<1> QED
  BY <1>10 DEF g, u

(* A packet behind a row does not disturb it.                              *)
LEMMA TileSame ==
  ASSUME NEW f \in Offsets, NEW t \in Offsets,
         NEW lo \in Nat, NEW hi \in 0 .. MaxSent,
         NEW a \in Nat, NEW b \in Nat,
         NEW s \in Nat, NEW x, NEW y,
         Tile(f, t, lo, hi, a, b), hi <= s
  PROVE  Tile([f EXCEPT ![s] = x], [t EXCEPT ![s] = y], lo, hi, a, b)
<1> DEFINE g == [f EXCEPT ![s] = x]
           u == [t EXCEPT ![s] = y]
<1>1. \A n \in lo .. hi - 1 : g[n] = f[n] /\ u[n] = t[n]
  BY Constants DEF Offsets
<1> HIDE DEF g, u
<1>2. lo <= hi /\ a <= b /\ (lo = hi => a = b)
  BY DEF Tile
<1>3. lo < hi => g[lo] = a /\ u[hi - 1] = b
  BY <1>1 DEF Tile
<1>4. \A n \in lo .. hi - 1 : /\ a <= g[n] /\ g[n] + HeaderSize < u[n]
                              /\ u[n] <= b
                              /\ n + 1 < hi => g[n + 1] = u[n]
  BY <1>1 DEF Tile
<1>5. \A m, n \in lo .. hi - 1 : m < n => u[m] <= g[n]
  BY <1>1 DEF Tile
<1>6. Tile(g, u, lo, hi, a, b)
  BY <1>2, <1>3, <1>4, <1>5 DEF Tile
<1> QED
  BY <1>6 DEF g, u

(* Two rows that end together begin in the order of their first packets.   *)
LEMMA TileOrder ==
  ASSUME NEW f \in Offsets, NEW t \in Offsets,
         NEW k \in Nat, NEW m \in Nat, NEW hi \in 0 .. MaxSent,
         NEW c \in Nat, NEW d \in Nat, NEW b \in Nat,
         Tile(f, t, k, hi, c, b), Tile(f, t, m, hi, d, b), k <= m
  PROVE  /\ k = m => c = d
         /\ k < m => f[k] = c /\ t[k] <= d
<1>1. \A n \in k .. hi - 1 : f[n] \in Nat /\ t[n] \in Nat
  BY Constants DEF Offsets
<1>2. CASE k = m
  BY <1>2 DEF Tile
<1>3. CASE k < m
  <2>1. m <= hi /\ k < hi
    BY <1>3 DEF Tile
  <2>2. f[k] = c /\ t[k] <= b
    BY <2>1 DEF Tile
  <2>3. CASE m = hi
    BY <2>2, <2>3, <1>3 DEF Tile
  <2>4. CASE m < hi
    <3>1. f[m] = d
      BY <2>4 DEF Tile
    <3>2. t[k] <= f[m]
      BY <2>4, <1>3 DEF Tile
    <3> QED
      BY <3>1, <3>2, <2>2, <1>3
  <2> QED
    BY <2>1, <2>3, <2>4
<1> QED
  BY <1>2, <1>3

-----------------------------------------------------------------------------
(* Facts about the state that every proof below uses.                      *)

LEMMA SizeNat == Size \in Nat
BY Constants DEF Size

LEMMA Numbers ==
  ASSUME TypeOK
  PROVE  /\ head_offset \in Nat /\ tail_offset \in Nat /\ whead \in Nat
         /\ wgrant \in Nat /\ wreq.len \in Nat /\ wreq.need \in Nat
         /\ size \in Nat /\ packet_size \in Nat
         /\ rtail \in Nat /\ curr \in Nat /\ pos \in Nat /\ Len(iov) \in Nat
         /\ sent \in Nat /\ released \in Nat /\ rsent \in Nat
         /\ lap \in Nat /\ top \in Nat
         /\ at \in Offsets /\ to \in Offsets
BY SizeNat, Constants DEF TypeOK, Offsets

(* What each of the two processes leaves alone.                            *)
LEMMA Frames ==
  /\ Send => SenderOnly
  /\ Process => ReceiverOnly
<1>1. Send => SenderOnly
  BY DEF Send, SendBegin, SendAgain, NoRoom, MarkIgnore, Wrap, Grant, Decline,
         Encode, PutHeader, SendEndHead, Publish
<1>2. Process => ReceiverOnly
  BY DEF Process, ReadBegin, PeekPackage, PeekSecond, PeekLast, OnRecv,
         OnRecvRefuse, OnRecvAll, ReadEnd
<1> QED
  BY <1>1, <1>2

(* Nothing but copies and program counters changes.                        *)
LEMMA QuietSend ==
  ASSUME Layout, PacketsIntact, ReaderInv,
         UNCHANGED <<head_offset, tail_offset, size, buff, reader, layout,
                     released, rsent>>
  PROVE  Layout' /\ PacketsIntact' /\ ReaderInv'
<1> USE DEF reader, layout
<1>1. Layout'
  BY DEF Layout, LayoutAt, Gap
<1>2. PacketsIntact'
  BY DEF PacketsIntact
<1>3. ReaderInv'
  BY DEF ReaderInv, LayoutAt, Reached, OnePiece, Taken
<1> QED
  BY <1>1, <1>2, <1>3

(* What the invariant says of a receiver that is reading.                  *)
LEMMA Reading ==
  ASSUME TypeOK, ReaderInv, rpc # "idle"
  PROVE  /\ LayoutAt(rsent, rtail) /\ Reached(rtail) /\ rsent <= sent
         /\ OnePiece \/ rtail <= tail_offset
         /\ LayoutAt(Taken, curr) /\ Reached(curr) /\ Taken \in Nat
         /\ released <= rsent /\ released + Len(iov) <= rsent
         /\ rpc \in {"seg0", "seg1"} => pos = 0
         /\ rpc = "seg0" => head_offset <= curr
         /\ rpc = "seg0" /\ OnePiece => curr <= rtail
         /\ rpc = "seg1" => ~OnePiece /\ curr <= rtail
<1>1. /\ LayoutAt(rsent, rtail) /\ Reached(rtail)
      /\ OnePiece \/ rtail <= tail_offset
      /\ LayoutAt(Taken, curr) /\ Reached(curr)
      /\ released <= rsent /\ released + Len(iov) <= rsent
      /\ rpc \in {"seg0", "seg1"} => pos = 0
      /\ rpc = "seg0" => head_offset <= curr
      /\ rpc = "seg0" /\ OnePiece => curr <= rtail
      /\ rpc = "seg1" => ~OnePiece /\ curr <= rtail
  BY DEF ReaderInv
<1>2. rsent <= sent
  <2>1. rsent \in Nat /\ sent \in Nat /\ lap \in Nat
    BY Numbers
  <2> QED
    BY <1>1, <2>1 DEF LayoutAt, Tile
<1>3. Taken \in Nat
  <2>1. released \in Nat /\ pos \in Nat /\ Len(iov) \in Nat
    BY Numbers
  <2> QED
    BY <2>1 DEF Taken
<1> QED
  BY <1>1, <1>2, <1>3

(* The packets of a layout, released ones aside, are clear of the space    *)
(* between the tail and the head.                                          *)
LEMMA PacketsClear ==
  ASSUME TypeOK, Layout, NEW n \in released .. sent - 1
  PROVE  /\ at[n] \in Nat /\ to[n] \in Nat /\ at[n] + HeaderSize < to[n]
         /\ \/ to[n] <= tail_offset
            \/ head_offset > tail_offset /\ head_offset <= at[n]
         /\ at[n] < size
<1>1. at[n] \in 0 .. size /\ to[n] \in 0 .. size /\ size \in Nat
  BY Numbers, Constants DEF TypeOK
<1> HeaderSize \in Nat /\ HeaderSize > 0 /\ tail_offset \in Nat
    /\ head_offset \in Nat
  BY Numbers, Constants
<1>2. CASE head_offset <= tail_offset
  <2>1. Tile(at, to, released, sent, head_offset, tail_offset)
    BY <1>2 DEF Layout, LayoutAt
  <2>2. at[n] + HeaderSize < to[n] /\ to[n] <= tail_offset
    BY <2>1 DEF Tile
  <2> QED
    BY <1>1, <2>2
<1>3. CASE head_offset > tail_offset
  <2>1. /\ Tile(at, to, lap, sent, 0, tail_offset)
        /\ Tile(at, to, released, lap, head_offset, top)
    BY <1>3, Numbers DEF Layout, LayoutAt
  <2>2. CASE n < lap
    <3>1. n \in released .. lap - 1
      BY <2>2, Numbers
    <3>2. at[n] + HeaderSize < to[n] /\ head_offset <= at[n]
      BY <2>1, <3>1 DEF Tile
    <3> QED
      BY <1>1, <1>3, <3>2
  <2>3. CASE n >= lap
    <3>1. n \in lap .. sent - 1
      BY <2>3, Numbers
    <3>2. at[n] + HeaderSize < to[n] /\ to[n] <= tail_offset
      BY <2>1, <3>1 DEF Tile
    <3> QED
      BY <1>1, <3>2
  <2> QED
    BY <2>2, <2>3, Numbers
<1> QED
  BY <1>2, <1>3, Numbers

(* The packet the sender is about to publish.                              *)
LEMMA PublishedSpace ==
  ASSUME TypeOK, SenderInv, wpc \in {"encoded", "header", "publish"}
  PROVE  /\ PacketEnd \in Nat /\ tail_offset + HeaderSize < PacketEnd
         /\ PacketEnd <= GrantEnd /\ PacketEnd <= size
         /\ head_offset > tail_offset => PacketEnd < head_offset
         /\ sent \in 0 .. MaxSent /\ sent < MaxSent
<1>1. 0 < wreq.len /\ wreq.len <= wgrant
  BY DEF SenderInv
<1>2. GrantEnd <= size /\ (head_offset > tail_offset => GrantEnd < head_offset)
  BY DEF SenderInv
<1>3. sent < MaxSent
  BY DEF SenderInv
<1>4. sent \in 0 .. MaxSent
  BY DEF TypeOK
<1>5. /\ tail_offset \in Nat /\ head_offset \in Nat /\ wreq.len \in Nat
      /\ wgrant \in Nat /\ size \in Nat /\ HeaderSize \in Nat
  BY Numbers, Constants
<1> QED
  BY <1>1, <1>2, <1>3, <1>4, <1>5 DEF PacketEnd, GrantEnd

(* A position the receiver may have reached stays one when the sender      *)
(* moves the tail.                                                         *)
LEMMA TailMoves ==
  ASSUME IInv, Wrap \/ Publish, UNCHANGED <<head_offset, size>>,
         NEW r \in Nat, NEW h \in Nat, LayoutAt(r, h), Reached(h)
  PROVE  LayoutAt(r, h)' /\ Reached(h)'
<1> TypeOK /\ SenderInv
  BY DEF IInv
<1> /\ head_offset \in Nat /\ tail_offset \in Nat /\ whead \in Nat
    /\ sent \in Nat /\ sent \in 0 .. MaxSent /\ lap \in Nat /\ top \in Nat
    /\ at \in Offsets /\ to \in Offsets /\ HeaderSize \in Nat /\ MaxSent \in Nat
  BY Numbers, Constants DEF TypeOK
<1>1. ASSUME Wrap
      PROVE  LayoutAt(r, h)' /\ Reached(h)'
  <2>1. Behind /\ whead # 0 /\ HeadSeen
    BY <1>1 DEF Wrap, SenderInv
  <2>2. head_offset <= tail_offset /\ head_offset > 0
    BY <2>1 DEF Behind, HeadSeen
  <2>3. h <= tail_offset /\ head_offset <= h
    BY <2>2 DEF Reached
  <2>4. Tile(at, to, r, sent, h, tail_offset)
    BY <2>3 DEF LayoutAt
  <2>5. tail_offset' = 0 /\ sent' = sent /\ lap' = sent /\ top' = tail_offset
        /\ at' = at /\ to' = to
    BY <1>1 DEF Wrap
  <2>6. Tile(at', to', lap', sent', 0, tail_offset')
    BY <2>5, TileEmpty
  <2> QED
    BY <2>2, <2>3, <2>4, <2>5, <2>6 DEF LayoutAt, Reached
<1>2. ASSUME Publish, Rewind
      PROVE  LayoutAt(r, h)' /\ Reached(h)'
  <2>1. Behind /\ whead # 0 /\ HeadSeen
    BY <1>2 DEF Publish, SenderInv, Rewind
  <2>2. head_offset <= tail_offset /\ head_offset > 0
    BY <2>1 DEF Behind, HeadSeen
  <2>3. h <= tail_offset /\ head_offset <= h
    BY <2>2 DEF Reached
  <2>4. Tile(at, to, r, sent, h, tail_offset)
    BY <2>3 DEF LayoutAt
  <2>5. tail_offset' = 0 /\ sent' = sent + 1 /\ lap' = sent + 1
        /\ top' = PacketEnd /\ at' = [at EXCEPT ![sent] = tail_offset]
        /\ to' = [to EXCEPT ![sent] = PacketEnd]
    BY <1>2 DEF Publish
  <2>6. Tile(at', to', lap', sent', 0, tail_offset')
    BY <2>5, TileEmpty
  <2>7. PacketEnd \in Nat /\ tail_offset + HeaderSize < PacketEnd
    BY <1>2, PublishedSpace DEF Publish
  <2>9. Tile(at', to', r, sent', h, top')
    BY <2>4, <2>5, <2>7, TileAppend
  <2> QED
    BY <2>2, <2>3, <2>5, <2>6, <2>9 DEF LayoutAt, Reached
<1>3. ASSUME Publish, ~Rewind
      PROVE  LayoutAt(r, h)' /\ Reached(h)'
  <2>1. tail_offset' = PacketEnd /\ sent' = sent + 1 /\ lap' = lap
        /\ top' = top /\ at' = [at EXCEPT ![sent] = tail_offset]
        /\ to' = [to EXCEPT ![sent] = PacketEnd]
    BY <1>3 DEF Publish
  <2>2. PacketEnd \in Nat /\ tail_offset + HeaderSize < PacketEnd
    BY <1>3, PublishedSpace DEF Publish
  <2>3. tail_offset < PacketEnd
    BY <2>2
  <2>4. head_offset > tail_offset => PacketEnd < head_offset
    BY <1>3, PublishedSpace DEF Publish
  <2>5. Reached(h)'
    BY <2>1, <2>2, <2>3, <2>4 DEF Reached
  <2>6. CASE h <= tail_offset
    <3>1. lap <= r /\ Tile(at, to, r, sent, h, tail_offset)
      BY <2>6 DEF LayoutAt
    <3>2. Tile(at', to', r, sent', h, tail_offset')
      BY <2>1, <2>2, <3>1, TileAppend
    <3> QED
      BY <2>1, <2>2, <2>3, <2>5, <2>6, <3>1, <3>2 DEF LayoutAt
  <2>7. CASE h > tail_offset
    <3>1. /\ Tile(at, to, lap, sent, 0, tail_offset)
          /\ Tile(at, to, r, lap, h, top)
      BY <2>7 DEF LayoutAt
    <3>2. lap <= sent /\ lap \in 0 .. MaxSent
      BY <3>1 DEF Tile
    <3>3. Tile(at', to', lap', sent', 0, tail_offset')
      BY <2>1, <2>2, <3>1, TileAppend
    <3>4. Tile(at', to', r, lap', h, top')
      BY <2>1, <3>1, <3>2, TileSame
    <3>5. h > PacketEnd
      BY <2>2, <2>4, <2>7 DEF Reached
    <3> QED
      BY <2>1, <2>5, <3>3, <3>4, <3>5, <2>2 DEF LayoutAt
  <2> QED
    BY <2>6, <2>7
<1> QED
  BY <1>1, <1>2, <1>3

-----------------------------------------------------------------------------
(* The initial states.                                                     *)
LEMMA InitIInv == Init => IInv
<1> SUFFICES ASSUME Init PROVE IInv
  OBVIOUS
<1> USE SizeNat, Constants DEF Init
<1>1. TypeOK
  BY DEF TypeOK, Cell, Junk
<1>2. Layout
  BY TileEmpty DEF Layout, LayoutAt
<1>3. PacketsIntact
  BY DEF PacketsIntact
<1>4. SenderInv /\ ReaderInv
  BY DEF SenderInv, ReaderInv
<1> QED
  BY <1>1, <1>2, <1>3, <1>4 DEF IInv

-----------------------------------------------------------------------------
(* tbus_init: the size of the buffer is stored while both processes may    *)
(* already be looking at it.                                               *)
LEMMA TbusInitKeeps ==
  ASSUME IInv, TbusInit
  PROVE  IInv'
<1> USE DEF sender, reader, layout
<1> TypeOK /\ Layout /\ PacketsIntact /\ SenderInv /\ ReaderInv
  BY DEF IInv
<1> UNCHANGED <<head_offset, tail_offset, buff, wpc, wreq, whead, wgrant, rpc,
                rtail, curr, iov, pos, sent, at, to, lap, top, released, rsent,
                last, crashes>>
  BY DEF TbusInit, InitPacketSize, InitSize
<1>1. CASE InitPacketSize
  <2>1. size' = size /\ packet_size = 0 /\ packet_size' = PacketSize
    BY <1>1 DEF InitPacketSize
  <2>2. TypeOK'
    BY <2>1 DEF TypeOK
  <2>3. Layout' /\ PacketsIntact' /\ ReaderInv'
    BY <2>1, QuietSend
  <2>4. SenderInv'
    BY <2>1 DEF SenderInv, HeadSeen, Behind, GrantEnd, PacketEnd
  <2> QED
    BY <2>2, <2>3, <2>4 DEF IInv
<1>2. CASE InitSize
  <2>1. size = 0 /\ packet_size' = packet_size /\ size' = Size
        /\ packet_size = PacketSize
    BY <1>2 DEF InitSize, TypeOK, Size
  <2>2. TypeOK'
    BY <2>1, SizeNat DEF TypeOK
  <2>3. head_offset = 0 /\ tail_offset = 0 /\ wgrant = 0 /\ whead = 0
    BY <2>1 DEF TypeOK
  <2>4. Layout'
    BY <2>1, <2>3 DEF Layout, LayoutAt
  <2>5. PacketsIntact'
    BY DEF PacketsIntact
  <2>6. ReaderInv'
    BY DEF ReaderInv, LayoutAt, Reached, OnePiece, Taken
  <2>7. wpc \in {"idle", "room", "again"}
    BY <2>1, <2>3, Constants DEF SenderInv, TypeOK, GrantEnd
  <2>8. SenderInv'
    BY <2>7 DEF SenderInv, HeadSeen, Behind
  <2> QED
    BY <2>2, <2>4, <2>5, <2>6, <2>8 DEF IInv
<1> QED
  BY <1>1, <1>2 DEF TbusInit

-----------------------------------------------------------------------------
(* The steps of the sender that change neither the buffer nor the tail.    *)
LEMMA LoadHeadKeeps ==
  ASSUME IInv, Send, SendBegin \/ SendAgain \/ SendEndHead
  PROVE  IInv'
<1> USE DEF SenderOnly, layout
<1> TypeOK /\ Layout /\ PacketsIntact /\ SenderInv /\ ReaderInv
  BY DEF IInv
<1>1. /\ whead' = head_offset /\ sent' = sent
      /\ UNCHANGED <<head_offset, tail_offset, size, packet_size, buff, reader,
                     layout, released, rsent, last, crashes, wgrant>>
  BY DEF SendBegin, SendAgain, SendEndHead, LoadHead
<1>2. /\ wpc' \in {"room", "publish"} /\ sent < MaxSent
      /\ wreq' \in {r \in [need : Nat, len : Nat] : r.len <= r.need}
  BY TbusAssumption
  DEF SendBegin, SendAgain, SendEndHead, LoadHead, TypeOK, SenderInv,
      TbusAssumption
<1>3. wpc' = "publish" => wpc = "header" /\ wreq' = wreq
  BY DEF SendBegin, SendAgain, SendEndHead, LoadHead
<1>4. TypeOK'
  BY <1>1, <1>2 DEF TypeOK, reader
<1>5. Layout' /\ PacketsIntact' /\ ReaderInv'
  BY <1>1, QuietSend
<1>6. HeadSeen'
  BY <1>1, Numbers DEF HeadSeen, Behind
<1> sent' < MaxSent
  BY <1>1, <1>2
<1>7. CASE wpc' = "room"
  <2>1. SenderInv'
    BY <1>6, <1>7 DEF SenderInv
  <2> QED
    BY <1>4, <1>5, <2>1 DEF IInv
<1>8. CASE wpc' = "publish"
  <2>1. wpc = "header" /\ wreq' = wreq
    BY <1>3, <1>8
  <2>2. PacketEnd' = PacketEnd /\ GrantEnd' = GrantEnd
    BY <1>1, <2>1 DEF PacketEnd, GrantEnd
  <2>3. PacketEnd >= size => head_offset <= tail_offset
    BY <2>1, PublishedSpace, Numbers DEF TypeOK
  <2>4. PacketEnd' >= size' => Behind'
    BY <1>1, <2>2, <2>3 DEF Behind
  <2>5. SenderInv'
    BY <1>1, <1>6, <1>8, <2>1, <2>2, <2>4 DEF SenderInv
  <2> QED
    BY <1>4, <1>5, <2>5 DEF IInv
<1> QED
  BY <1>2, <1>7, <1>8

LEMMA GrantKeeps ==
  ASSUME IInv, Send, NoRoom \/ Grant \/ Decline
  PROVE  IInv'
<1> USE DEF SenderOnly, layout
<1> TypeOK /\ Layout /\ PacketsIntact /\ SenderInv /\ ReaderInv
  BY DEF IInv
<1>1. /\ UNCHANGED <<head_offset, tail_offset, size, packet_size, buff, reader,
                     layout, released, rsent, last, crashes, wreq, whead>>
      /\ wpc' \in {"idle", "granted"} /\ sent' = sent
  BY DEF NoRoom, Grant, Decline
<1>2. Layout' /\ PacketsIntact' /\ ReaderInv'
  BY <1>1, QuietSend
<1>3. CASE wpc' = "idle"
  <2>1. wgrant' = wgrant
    BY <1>3 DEF NoRoom, Grant, Decline
  <2>2. TypeOK'
    BY <1>1, <2>1 DEF TypeOK, reader
  <2>3. SenderInv'
    BY <1>3 DEF SenderInv
  <2> QED
    BY <1>2, <2>2, <2>3 DEF IInv
<1>4. CASE wpc' = "granted"
  <2>1. /\ wpc = "room" /\ WriteSize >= packet_size
        /\ Behind => WriteSize >= HeaderSize
        /\ wgrant' = WriteSize - HeaderSize
    BY <1>4 DEF NoRoom, Grant, Decline
  <2>2. HeadSeen /\ sent < MaxSent
    BY <2>1 DEF SenderInv
  <2>3. /\ tail_offset \in Nat /\ head_offset \in Nat /\ whead \in Nat
        /\ size \in Nat /\ HeaderSize \in Nat /\ PacketSize \in Nat
        /\ HeaderSize > 0 /\ PacketSize >= HeaderSize
        /\ tail_offset <= size /\ whead <= size
        /\ size # 0 => packet_size = PacketSize
    BY Numbers, Constants DEF TypeOK
  <2>4. wgrant' \in 0 .. size /\ tail_offset + HeaderSize + wgrant' <= size
    BY <2>1, <2>3 DEF WriteSize, Behind
  <2>5. head_offset > tail_offset =>
          tail_offset + HeaderSize + wgrant' < head_offset
    BY <2>1, <2>2, <2>3 DEF WriteSize, Behind, HeadSeen
  <2>6. TypeOK'
    BY <1>1, <2>4 DEF TypeOK, reader
  <2>7. SenderInv'
    BY <1>1, <1>4, <2>2, <2>4, <2>5 DEF SenderInv, GrantEnd, HeadSeen, Behind
  <2> QED
    BY <1>2, <2>6, <2>7 DEF IInv
<1> QED
  BY <1>1, <1>3, <1>4

-----------------------------------------------------------------------------
(* The steps of the sender that write into the buffer do so in the space   *)
(* between the tail and the head.                                          *)
LEMMA WriteKeeps ==
  ASSUME IInv, Send, MarkIgnore \/ Encode \/ PutHeader
  PROVE  IInv'
<1> USE DEF SenderOnly, layout
<1> TypeOK /\ Layout /\ PacketsIntact /\ SenderInv /\ ReaderInv
  BY DEF IInv
<1> /\ tail_offset \in Nat /\ head_offset \in Nat /\ whead \in Nat
    /\ size \in Nat /\ HeaderSize \in Nat /\ PacketSize \in Nat /\ top \in Nat
    /\ HeaderSize > 0 /\ Size \in Nat
    /\ tail_offset <= size /\ size <= Size /\ wgrant \in Nat
  BY Numbers, Constants, SizeNat DEF TypeOK
<1>1. /\ UNCHANGED <<head_offset, tail_offset, size, packet_size, reader,
                     layout, released, rsent, last, crashes, wreq, whead, wgrant>>
      /\ sent' = sent
  BY DEF MarkIgnore, Encode, PutHeader
<1>2. wpc \notin {"idle", "again"} /\ HeadSeen /\ sent < MaxSent
  BY DEF MarkIgnore, Encode, PutHeader, SenderInv
<1>3. /\ tail_offset < size
      /\ \A o \in 0 .. Size - 1 :
           o < tail_offset \/ (head_offset > tail_offset /\ o >= head_offset)
             => buff'[o] = buff[o]
  <2>1. CASE MarkIgnore
    <3>1. tail_offset < size /\ buff' = [buff EXCEPT ![tail_offset] = Ignore]
      BY <2>1 DEF MarkIgnore, WriteSize
    <3> QED
      BY <3>1 DEF TypeOK
  <2>2. CASE Encode
    <3>1. /\ GrantEnd <= size
          /\ head_offset > tail_offset => GrantEnd < head_offset
      BY <2>2 DEF Encode, SenderInv
    <3>2. buff' = Scribble(tail_offset + HeaderSize,
                           tail_offset + HeaderSize + wgrant)
      BY <2>2 DEF Encode
    <3> QED
      BY <3>1, <3>2 DEF TypeOK, Scribble, GrantEnd
  <2>3. CASE PutHeader
    <3>1. /\ GrantEnd <= size
          /\ head_offset > tail_offset => GrantEnd < head_offset
      BY <2>3 DEF PutHeader, SenderInv
    <3>2. buff' = [Scribble(tail_offset, tail_offset + HeaderSize)
                     EXCEPT ![tail_offset] = Package(wreq.len, sent)]
      BY <2>3 DEF PutHeader
    <3>3. tail_offset + HeaderSize <= GrantEnd /\ tail_offset < GrantEnd
      BY DEF GrantEnd
    <3>4. tail_offset < size
      BY <3>1, <3>3 DEF GrantEnd
    <3>5. ASSUME NEW o \in 0 .. Size - 1,
                 o < tail_offset \/ (head_offset > tail_offset /\ o >= head_offset)
          PROVE  buff'[o] = buff[o]
      <4>1. o < tail_offset \/ o >= tail_offset + HeaderSize
        BY <3>1, <3>3, <3>5 DEF GrantEnd
      <4> QED
        BY <3>2, <3>5, <4>1 DEF TypeOK, Scribble
    <3> QED
      BY <3>4, <3>5
  <2> QED
    BY <2>1, <2>2, <2>3
<1>4. TypeOK'
  <2> DEFINE Buffers == [0 .. Size - 1 -> Cell]
  <2> Junk \in Cell /\ Ignore \in Cell
    BY DEF Junk, Ignore, Cell
  <2> Package(wreq.len, sent) \in Cell
    BY Numbers DEF Package, Cell
  <2> buff \in Buffers /\ \A lo, hi : Scribble(lo, hi) \in Buffers
    BY DEF TypeOK, Scribble
  <2>1. buff' \in Buffers
    BY DEF MarkIgnore, Encode, PutHeader
  <2>2. wpc' \in {"wrap", "idle", "encoded", "header"}
    BY DEF MarkIgnore, Encode, PutHeader
  <2> QED
    BY <1>1, <2>1, <2>2 DEF TypeOK, reader
<1>5. Layout'
  <2>1. LayoutAt(released, head_offset)'
    BY <1>1 DEF Layout, LayoutAt
  <2>2. ASSUME head_offset > tail_offset
        PROVE  Gap(top)'
    <3>1. Tile(at, to, released, lap, head_offset, top) /\ Gap(top)
      BY <2>2 DEF Layout, LayoutAt
    <3>2. head_offset <= top /\ top <= size
      BY <3>1 DEF Tile, TypeOK
    <3>3. size - top < HeaderSize \/ buff'[top] = buff[top]
      BY <1>3, <2>2, <3>2
    <3> QED
      BY <1>1, <3>1, <3>3 DEF Gap
  <2> QED
    BY <1>1, <2>1, <2>2 DEF Layout
<1>6. PacketsIntact'
  <2> SUFFICES ASSUME NEW n \in released .. sent - 1
               PROVE  buff'[at[n]] = buff[at[n]]
    BY <1>1 DEF PacketsIntact
  <2>1. /\ at[n] \in 0 .. Size - 1
        /\ \/ at[n] < tail_offset
           \/ head_offset > tail_offset /\ head_offset <= at[n]
    <3>1. at[n] \in Nat /\ at[n] < size
      BY PacketsClear
    <3>2. \/ to[n] <= tail_offset /\ at[n] + HeaderSize < to[n] /\ to[n] \in Nat
          \/ head_offset > tail_offset /\ head_offset <= at[n]
      BY PacketsClear
    <3>3. at[n] \in 0 .. Size - 1
      BY <3>1
    <3>4. to[n] <= tail_offset /\ at[n] + HeaderSize < to[n] /\ to[n] \in Nat
            => at[n] < tail_offset
      BY <3>1
    <3> QED
      BY <3>2, <3>3, <3>4
  <2> QED
    BY <1>3, <2>1
<1>7. ReaderInv'
  BY <1>1 DEF ReaderInv, LayoutAt, Reached, OnePiece, Taken, reader
<1>8. SenderInv'
  <2>1. CASE MarkIgnore
    <3>1. /\ Behind /\ buff' = [buff EXCEPT ![tail_offset] = Ignore]
          /\ wpc' \in {"wrap", "idle"} /\ (wpc' = "wrap" => whead # 0)
      BY <2>1 DEF MarkIgnore
    <3>2. buff'[tail_offset] = Ignore
      BY <1>3, <3>1 DEF TypeOK
    <3> QED
      BY <1>1, <1>2, <1>3, <3>1, <3>2 DEF SenderInv, HeadSeen, Behind, Ignore
  <2>2. CASE Encode
    <3>1. /\ wpc = "granted" /\ wpc' \in {"idle", "encoded"}
          /\ wpc' = "encoded" => wreq.len # 0 /\ wgrant >= wreq.need
      BY <2>2 DEF Encode
    <3>2. wreq.len <= wreq.need /\ wreq.len \in Nat /\ wreq.need \in Nat
      BY Numbers DEF TypeOK
    <3> QED
      BY <1>1, <1>2, <3>1, <3>2 DEF SenderInv, HeadSeen, Behind, GrantEnd
  <2>3. CASE PutHeader
    <3>1. /\ wpc = "encoded" /\ wpc' = "header"
          /\ buff' = [Scribble(tail_offset, tail_offset + HeaderSize)
                        EXCEPT ![tail_offset] = Package(wreq.len, sent)]
      BY <2>3 DEF PutHeader
    <3>2. buff'[tail_offset] = Package(wreq.len, sent)
      BY <1>3, <3>1 DEF TypeOK, Scribble
    <3> QED
      BY <1>1, <1>2, <3>1, <3>2 DEF SenderInv, HeadSeen, Behind, GrantEnd
  <2> QED
    BY <2>1, <2>2, <2>3
<1> QED
  BY <1>4, <1>5, <1>6, <1>7, <1>8 DEF IInv

-----------------------------------------------------------------------------
(* The steps of the sender that move the tail.                             *)
LEMMA TailKeeps ==
  ASSUME IInv, Send, Wrap \/ Publish
  PROVE  IInv'
<1> USE DEF SenderOnly
<1> TypeOK /\ Layout /\ PacketsIntact /\ SenderInv /\ ReaderInv
  BY DEF IInv
<1> /\ tail_offset \in Nat /\ head_offset \in Nat /\ whead \in Nat
    /\ size \in Nat /\ HeaderSize \in Nat /\ HeaderSize > 0
    /\ sent \in Nat /\ released \in Nat /\ rsent \in Nat /\ pos \in Nat
    /\ rtail \in Nat /\ curr \in Nat /\ Len(iov) \in Nat /\ MaxSent \in Nat
    /\ at \in Offsets /\ to \in Offsets
  BY Numbers, Constants
<1>1. /\ UNCHANGED <<head_offset, packet_size, size, buff, reader, released,
                     rsent, last, crashes, wreq, whead, wgrant>>
      /\ wpc' \in {"idle", "again"}
      /\ sent < MaxSent /\ HeadSeen
  BY DEF Wrap, Publish, SenderInv
<1>2. /\ Wrap => head_offset > 0 /\ head_offset <= tail_offset
      /\ Publish /\ Rewind => head_offset > 0 /\ head_offset <= tail_offset
  BY DEF Wrap, Publish, Rewind, SenderInv, HeadSeen, Behind
<1>3. /\ Wrap => sent' = sent /\ tail_offset' = 0 /\ top' = tail_offset
                 /\ lap' = sent /\ at' = at /\ to' = to
      /\ Publish => /\ sent' = sent + 1
                    /\ at' = [at EXCEPT ![sent] = tail_offset]
                    /\ to' = [to EXCEPT ![sent] = PacketEnd]
      /\ Publish /\ Rewind => tail_offset' = 0 /\ top' = PacketEnd
                               /\ lap' = sent + 1
      /\ Publish /\ ~Rewind => tail_offset' = PacketEnd /\ top' = top
                                /\ lap' = lap
  BY DEF Wrap, Publish
<1>4. Publish => /\ PacketEnd \in 0 .. size /\ tail_offset < PacketEnd
                 /\ head_offset > tail_offset => PacketEnd < head_offset
  BY PublishedSpace DEF Publish
<1>5. TypeOK'
  <2>1. Wrap \/ (Publish /\ Rewind) \/ (Publish /\ ~Rewind)
    OBVIOUS
  <2> /\ tail_offset \in 0 .. size /\ top \in 0 .. size /\ lap \in 0 .. MaxSent
      /\ sent \in 0 .. MaxSent
    BY DEF TypeOK
  <2>2. /\ sent' \in 0 .. MaxSent /\ lap' \in 0 .. MaxSent
        /\ tail_offset' \in 0 .. size /\ top' \in 0 .. size
    <3>1. CASE Wrap
      BY <1>3, <3>1
    <3>2. CASE Publish /\ Rewind
      BY <1>1, <1>3, <1>4, <3>2
    <3>3. CASE Publish /\ ~Rewind
      <4>1. sent' = sent + 1 /\ tail_offset' = PacketEnd /\ top' = top
            /\ lap' = lap
        BY <1>3, <3>3
      <4> QED
        BY <1>1, <1>4, <3>3, <4>1
    <3> QED
      BY <2>1, <3>1, <3>2, <3>3
  <2>4. /\ at' \in [0 .. MaxSent -> 0 .. size]
        /\ to' \in [0 .. MaxSent -> 0 .. size]
    BY <1>3, <1>4, <2>1 DEF TypeOK
  <2> QED
    BY <1>1, <2>2, <2>4 DEF TypeOK, reader
<1>6. Layout'
  <2>1. Reached(head_offset)
    BY DEF Reached
  <2>2. LayoutAt(released, head_offset)
    BY DEF Layout
  <2>3. LayoutAt(released, head_offset)'
    BY <1>1, <2>1, <2>2, TailMoves DEF LayoutAt
  <2>4. ASSUME Wrap PROVE Gap(top)'
    BY <1>1, <1>3, <2>4 DEF Wrap, SenderInv, Gap, WriteSize, Behind
  <2>5. ASSUME Publish, Rewind PROVE Gap(top)'
    BY <1>1, <1>3, <1>4, <2>5 DEF Rewind, Gap
  <2>6. ASSUME Publish, ~Rewind, head_offset > tail_offset' PROVE Gap(top)'
    BY <1>1, <1>3, <1>4, <2>6 DEF Layout, Gap
  <2> QED
    BY <1>1, <2>3, <2>4, <2>5, <2>6 DEF Layout
<1>7. PacketsIntact'
  <2> SUFFICES ASSUME NEW n \in released .. sent' - 1
               PROVE  buff[at'[n]] = Package(to'[n] - at'[n] - HeaderSize, n)
    BY <1>1 DEF PacketsIntact
  <2>1. CASE n < sent
    <3>1. n # sent /\ n \in 0 .. MaxSent
      BY <1>1, <2>1
    <3>2. at'[n] = at[n] /\ to'[n] = to[n]
      BY <1>3, <3>1 DEF Offsets
    <3> QED
      BY <2>1, <3>2 DEF PacketsIntact
  <2>2. CASE n >= sent
    <3>1. Publish /\ n = sent
      BY <1>3, <2>2
    <3>2. buff[tail_offset] = Package(wreq.len, sent) /\ wreq.len \in Nat
      BY <3>1, Numbers DEF Publish, SenderInv
    <3>3. at'[n] = tail_offset /\ to'[n] = PacketEnd
      BY <1>1, <1>3, <3>1 DEF Offsets
    <3>4. PacketEnd - tail_offset - HeaderSize = wreq.len
      BY <3>2 DEF PacketEnd
    <3> QED
      BY <3>1, <3>2, <3>3, <3>4
  <2> QED
    BY <2>1, <2>2
<1>8. SenderInv'
  <2>1. wpc' = "again" => sent' < MaxSent
    BY <1>1, <1>3 DEF Publish
  <2> QED
    BY <1>1, <2>1 DEF SenderInv
<1>9. ReaderInv'
  <2> SUFFICES ASSUME rpc # "idle" PROVE ReaderInv'
    BY <1>1 DEF ReaderInv, reader
  <2>1. /\ LayoutAt(rsent, rtail) /\ Reached(rtail)
        /\ LayoutAt(Taken, curr) /\ Reached(curr)
        /\ Taken \in Nat /\ (OnePiece \/ rtail <= tail_offset)
        /\ released <= rsent /\ released + Len(iov) <= rsent
    BY Reading
  <2>7. rsent <= sent
    BY Reading
  <2>2. LayoutAt(rsent, rtail)' /\ Reached(rtail)'
    BY <1>1, <2>1, TailMoves DEF LayoutAt, Reached, reader
  <2>3. Taken' = Taken
    BY <1>1 DEF Taken, reader
  <2>4. LayoutAt(Taken, curr)' /\ Reached(curr)'
    BY <1>1, <2>1, <2>3, TailMoves DEF LayoutAt, Reached, reader
  <2>5. OnePiece' \/ rtail' <= tail_offset'
    <3>1. CASE OnePiece
      BY <1>1, <3>1 DEF OnePiece, reader
    <3>2. CASE ~OnePiece
      <4>1. rtail <= tail_offset /\ head_offset > tail_offset
        BY <2>1, <3>2 DEF OnePiece, Reached
      <4>2. tail_offset' = PacketEnd /\ tail_offset < PacketEnd
            /\ PacketEnd \in Nat
        BY <1>2, <1>3, <1>4, <4>1
      <4> QED
        BY <1>1, <4>1, <4>2 DEF reader
    <3> QED
      BY <3>1, <3>2
  <2>6. \A n \in released .. rsent - 1 : at'[n] = at[n] /\ to'[n] = to[n]
    <3> TAKE n \in released .. rsent - 1
    <3> n < sent /\ n # sent
      BY <2>7
    <3> QED
      BY <1>3 DEF Offsets
  <2>8. \A i \in 1 .. Len(iov') :
          LET n == released' + i - 1
          IN  iov'[i] = [base |-> at'[n] + HeaderSize,
                         len |-> to'[n] - at'[n] - HeaderSize, val |-> n]
    <3>1. \A i \in 1 .. Len(iov) : released + i - 1 \in released .. rsent - 1
      BY <2>1
    <3> QED
      BY <1>1, <2>6, <3>1 DEF ReaderInv, reader
  <2>9. OnePiece' = OnePiece /\ UNCHANGED <<rpc, rtail, curr, iov, pos>>
    BY <1>1 DEF OnePiece, reader
  <2> QED
    BY <1>1, <2>2, <2>4, <2>5, <2>8, <2>9 DEF ReaderInv
<1> QED
  BY <1>5, <1>6, <1>7, <1>8, <1>9 DEF IInv

LEMMA SendKeeps ==
  ASSUME IInv, Send
  PROVE  IInv'
<1>1. CASE SendBegin \/ SendAgain \/ SendEndHead
  BY <1>1, LoadHeadKeeps
<1>2. CASE NoRoom \/ Grant \/ Decline
  BY <1>2, GrantKeeps
<1>3. CASE MarkIgnore \/ Encode \/ PutHeader
  BY <1>3, WriteKeeps
<1>4. CASE Wrap \/ Publish
  BY <1>4, TailKeeps
<1> QED
  BY <1>1, <1>2, <1>3, <1>4 DEF Send

-----------------------------------------------------------------------------
(* The receiver.  A packet that is not released is a place where the       *)
(* reading may be resumed.                                                 *)
LEMMA StartOfPacket ==
  ASSUME TypeOK, Layout, NEW n \in released .. sent - 1
  PROVE  LayoutAt(n, at[n]) /\ Reached(at[n])
<1> /\ head_offset \in Nat /\ tail_offset \in Nat /\ sent \in 0 .. MaxSent
    /\ lap \in 0 .. MaxSent /\ released \in Nat /\ top \in Nat
    /\ at \in Offsets /\ to \in Offsets /\ n \in Nat
    /\ HeaderSize \in Nat /\ MaxSent \in Nat
  BY Numbers, Constants DEF TypeOK
<1>1. at[n] \in Nat /\ to[n] \in Nat
  BY PacketsClear
<1>2. CASE head_offset <= tail_offset
  <2>1. lap <= released /\ Tile(at, to, released, sent, head_offset, tail_offset)
    BY <1>2 DEF Layout, LayoutAt
  <2>2. /\ head_offset <= at[n] /\ at[n] + HeaderSize < to[n]
        /\ to[n] <= tail_offset /\ Tile(at, to, n, sent, at[n], tail_offset)
    BY <2>1, TileSuffix
  <2> QED
    BY <1>1, <1>2, <2>1, <2>2 DEF LayoutAt, Reached
<1>3. CASE head_offset > tail_offset
  <2>1. /\ Tile(at, to, lap, sent, 0, tail_offset)
        /\ Tile(at, to, released, lap, head_offset, top)
    BY <1>3 DEF Layout, LayoutAt
  <2>2. CASE n < lap
    <3>1. head_offset <= at[n] /\ Tile(at, to, n, lap, at[n], top)
      BY <2>1, <2>2, TileSuffix
    <3> QED
      BY <1>1, <1>3, <2>1, <3>1 DEF LayoutAt, Reached
  <2>3. CASE n >= lap
    <3>1. /\ at[n] + HeaderSize < to[n] /\ to[n] <= tail_offset
          /\ Tile(at, to, n, sent, at[n], tail_offset)
      BY <2>1, <2>3, TileSuffix
    <3> QED
      BY <1>1, <1>3, <2>3, <3>1 DEF LayoutAt, Reached
  <2> QED
    BY <2>2, <2>3
<1> QED
  BY <1>2, <1>3

(* The next packet stands at the cursor ...                                *)
Upcoming == released + Len(iov)

PacketAtCursor ==
  /\ Upcoming < rsent /\ rsent <= sent
  /\ at[Upcoming] = curr /\ curr + HeaderSize < to[Upcoming] /\ to[Upcoming] <= Limit
  /\ LayoutAt(Upcoming + 1, to[Upcoming]) /\ Reached(to[Upcoming])

(* ... or else the last one before the gap has been taken.                 *)
GapAtCursor ==
  /\ rpc = "seg0" /\ ~OnePiece
  /\ Upcoming = lap /\ curr = top /\ Gap(top)

LEMMA AtCursor ==
  ASSUME IInv, Peeking
  PROVE  PacketAtCursor \/ GapAtCursor
<1> TypeOK /\ Layout /\ ReaderInv
  BY DEF IInv
<1> DEFINE k == released + Len(iov)
<1> /\ head_offset \in Nat /\ tail_offset \in Nat /\ sent \in 0 .. MaxSent
    /\ lap \in 0 .. MaxSent /\ released \in Nat /\ top \in Nat
    /\ rsent \in 0 .. MaxSent /\ rtail \in Nat /\ curr \in Nat /\ size \in Nat
    /\ at \in Offsets /\ to \in Offsets /\ k \in Nat /\ top <= size
    /\ HeaderSize \in Nat /\ MaxSent \in Nat
  BY Numbers, Constants DEF TypeOK
<1> DEFINE e == to[k]
<1>1. /\ LayoutAt(rsent, rtail) /\ Reached(rtail)
      /\ OnePiece \/ rtail <= tail_offset
      /\ LayoutAt(k, curr) /\ Reached(curr) /\ k <= rsent
      /\ rpc = "seg0" => head_offset <= curr
      /\ rpc = "seg1" => ~OnePiece /\ curr <= rtail
      /\ rpc \in {"seg0", "seg1"} /\ curr < Limit
  BY DEF ReaderInv, Peeking, Taken
<1>2. rsent <= sent
  BY <1>1 DEF LayoutAt, Tile
<1>3. k < MaxSent + 1 => e \in Nat
  BY DEF Offsets
<1>6. k = Upcoming
  BY DEF Upcoming
<1> HIDE DEF k
<1>4. CASE rpc = "seg1" \/ OnePiece
  <2>1. Limit = rtail /\ curr < rtail
    BY <1>1, <1>4 DEF Limit
  <2>2. CASE rtail <= tail_offset
    <3>1. /\ Tile(at, to, k, sent, curr, tail_offset) /\ lap <= k
          /\ Tile(at, to, rsent, sent, rtail, tail_offset)
      BY <1>1, <2>1, <2>2 DEF LayoutAt
    <3>2. k < rsent /\ at[k] = curr /\ to[k] <= rtail
      <4>1. /\ k = rsent => curr = rtail
            /\ k < rsent => at[k] = curr /\ to[k] <= rtail
        BY <1>1, <3>1, TileOrder
      <4> QED
        BY <1>1, <2>1, <4>1
    <3>3. /\ curr + HeaderSize < e
          /\ Tile(at, to, k + 1, sent, e, tail_offset)
      BY <1>2, <3>1, <3>2, TileHead
    <3>4. LayoutAt(k + 1, e) /\ Reached(e)
      BY <1>1, <1>3, <2>1, <2>2, <3>1, <3>2, <3>3 DEF LayoutAt, Reached
    <3> QED
      BY <1>2, <2>1, <3>2, <3>3, <3>4, <1>6 DEF PacketAtCursor
  <2>3. CASE rtail > tail_offset
    <3>1. head_offset > tail_offset /\ OnePiece /\ rpc = "seg0"
          /\ curr > tail_offset
      BY <1>1, <2>3 DEF Reached
    <3>2. /\ Tile(at, to, lap, sent, 0, tail_offset)
          /\ Tile(at, to, k, lap, curr, top)
          /\ Tile(at, to, rsent, lap, rtail, top)
      BY <1>1, <2>3, <3>1 DEF LayoutAt
    <3>3. k < rsent /\ at[k] = curr /\ to[k] <= rtail
      <4>1. /\ k = rsent => curr = rtail
            /\ k < rsent => at[k] = curr /\ to[k] <= rtail
        <5>1. k <= rsent /\ lap \in 0 .. MaxSent /\ rsent \in Nat
          BY <1>1
        <5> QED
          BY <3>2, <5>1, TileOrder
      <4> QED
        BY <1>1, <2>1, <4>1
    <3>4. rsent <= lap
      BY <3>2 DEF Tile
    <3>5. curr + HeaderSize < e /\ Tile(at, to, k + 1, lap, e, top)
      BY <3>2, <3>3, <3>4, TileHead
    <3>6. LayoutAt(k + 1, e) /\ Reached(e)
      BY <1>1, <1>3, <3>1, <3>2, <3>3, <3>5 DEF LayoutAt, Reached
    <3> QED
      BY <1>2, <2>1, <3>3, <3>5, <3>6, <1>6 DEF PacketAtCursor
  <2> QED
    BY <2>2, <2>3
<1>5. CASE rpc = "seg0" /\ ~OnePiece
  <2>1. Limit = size /\ rtail <= tail_offset
    BY <1>1, <1>5 DEF Limit
  <2>2. head_offset > tail_offset
    BY <1>1, <1>5, <2>1 DEF OnePiece, Reached
  <2>3. /\ Tile(at, to, lap, sent, 0, tail_offset)
        /\ Tile(at, to, k, lap, curr, top) /\ lap <= rsent
        /\ curr > tail_offset /\ Gap(top)
    BY <1>1, <1>5, <2>1, <2>2 DEF LayoutAt, Layout
  <2>4. CASE k = lap
    BY <1>5, <2>3, <2>4, <1>6 DEF GapAtCursor, Tile
  <2>5. CASE k # lap
    <3>1. k < lap
      BY <2>3, <2>5 DEF Tile
    <3>2. /\ at[k] = curr /\ curr + HeaderSize < e /\ e <= top
          /\ Tile(at, to, k + 1, lap, e, top)
      BY <2>3, <3>1, TileHead
    <3>3. LayoutAt(k + 1, e) /\ Reached(e)
      BY <1>1, <1>3, <1>5, <2>2, <2>3, <3>1, <3>2 DEF LayoutAt, Reached
    <3> QED
      BY <1>2, <1>3, <2>1, <2>3, <3>1, <3>2, <3>3, <1>6 DEF PacketAtCursor
  <2> QED
    BY <2>4, <2>5
<1> QED
  BY <1>1, <1>4, <1>5

(* peek() finds the next packet whole, and otherwise the gap.              *)
LEMMA PeekFinds ==
  ASSUME IInv, Peeking
  PROVE  /\ ~AtGarbage
         /\ AtGap => GapAtCursor
         /\ AtPackage =>
              /\ PacketAtCursor
              /\ buff[curr] = Package(to[Upcoming] - curr - HeaderSize, Upcoming)
<1> TypeOK /\ PacketsIntact
  BY DEF IInv
<1> /\ curr \in Nat /\ size \in Nat /\ HeaderSize \in Nat /\ HeaderSize > 0
    /\ Upcoming \in Nat /\ released \in Nat /\ sent \in Nat /\ Limit \in Nat
    /\ Len(iov) \in Nat /\ rsent \in 0 .. MaxSent /\ MaxSent \in Nat
    /\ to \in Offsets
  BY Numbers, Constants DEF TypeOK, Upcoming, Limit
<1> released <= Upcoming
  BY DEF Upcoming
<1>1. CASE PacketAtCursor
  <2>1. /\ Upcoming \in released .. sent - 1 /\ at[Upcoming] = curr
        /\ curr + HeaderSize < to[Upcoming] /\ to[Upcoming] <= Limit
        /\ to[Upcoming] \in Nat
    BY <1>1 DEF PacketAtCursor, Offsets
  <2>2. buff[curr] = Package(to[Upcoming] - curr - HeaderSize, Upcoming)
    BY <2>1 DEF PacketsIntact
  <2>3. ~AtGap /\ AtPackage
    BY <2>1, <2>2 DEF AtGap, AtPackage, Package, Peeking
  <2> QED
    BY <1>1, <2>2, <2>3 DEF AtGarbage
<1>2. CASE GapAtCursor
  <2>1. AtGap
    BY <1>2 DEF GapAtCursor, Gap, AtGap, Limit
  <2> QED
    BY <1>2, <2>1 DEF AtGarbage, AtPackage
<1> QED
  BY <1>1, <1>2, AtCursor

-----------------------------------------------------------------------------
(* What the receiver leaves alone while it reads.                          *)
LEMMA QuietProcess ==
  ASSUME IInv, Process, UNCHANGED <<head_offset, released>>,
         TypeOK', ReaderInv'
  PROVE  IInv'
<1> USE DEF ReceiverOnly, sender, layout
<1> ReceiverOnly
  BY Frames
<1>1. Layout'
  BY DEF IInv, Layout, LayoutAt, Gap
<1>2. PacketsIntact'
  BY DEF IInv, PacketsIntact
<1>3. SenderInv'
  BY DEF IInv, SenderInv, HeadSeen, Behind, GrantEnd, PacketEnd
<1> QED
  BY <1>1, <1>2, <1>3 DEF IInv

LEMMA ReadBeginKeeps ==
  ASSUME IInv, Process, ReadBegin
  PROVE  IInv'
<1> USE DEF ReceiverOnly, sender, layout
<1> TypeOK /\ Layout
  BY DEF IInv
<1> /\ head_offset \in Nat /\ tail_offset \in Nat /\ sent \in Nat
    /\ released \in Nat /\ lap \in Nat
  BY Numbers
<1>1. /\ rpc' = "seg0" /\ rtail' = tail_offset /\ curr' = head_offset
      /\ iov' = <<>> /\ pos' = 0 /\ rsent' = sent
      /\ UNCHANGED <<head_offset, released, last, tail_offset, packet_size, size,
                     buff, wpc, wreq, whead, wgrant, sent, at, to, lap, top,
                     crashes>>
  BY DEF ReadBegin
<1>2. TypeOK'
  BY <1>1 DEF TypeOK
<1>3. LayoutAt(released, head_offset)
  BY DEF Layout
<1>4. released <= sent /\ lap <= sent
  BY <1>3 DEF LayoutAt, Tile
<1>5. LayoutAt(rsent, rtail)' /\ Reached(rtail)'
  BY <1>1, <1>4, TileEmpty DEF LayoutAt, Reached
<1>6. LayoutAt(Taken, curr)' /\ Reached(curr)'
  <2>1. Taken' = released
    BY <1>1 DEF Taken
  <2> QED
    BY <1>1, <1>3, <2>1 DEF LayoutAt, Reached
<1>7. ReaderInv'
  BY <1>1, <1>4, <1>5, <1>6 DEF ReaderInv, OnePiece
<1> QED
  BY <1>1, <1>2, <1>7, QuietProcess

LEMMA PeekPackageKeeps ==
  ASSUME IInv, Process, PeekPackage
  PROVE  IInv'
<1> USE DEF ReceiverOnly, sender, layout
<1> TypeOK /\ ReaderInv
  BY DEF IInv
<1> /\ curr \in Nat /\ HeaderSize \in Nat /\ sent \in 0 .. MaxSent
    /\ released \in Nat /\ Len(iov) \in Nat /\ rsent \in Nat /\ MaxSent \in Nat
    /\ rtail \in Nat /\ head_offset \in Nat
  BY Numbers, Constants DEF TypeOK
<1>1. /\ Peeking /\ AtPackage /\ rpc \in {"seg0", "seg1"} /\ pos = 0
  BY DEF PeekPackage, AtPackage, Peeking, ReaderInv
<1>2. /\ PacketAtCursor
      /\ buff[curr] = Package(to[Upcoming] - curr - HeaderSize, Upcoming)
  BY <1>1, PeekFinds
<1> DEFINE e == to[Upcoming]
<1>3. /\ Upcoming < rsent /\ rsent <= sent /\ at[Upcoming] = curr
      /\ curr + HeaderSize < e /\ e <= Limit
      /\ LayoutAt(Upcoming + 1, e) /\ Reached(e)
  BY <1>2 DEF PacketAtCursor
<1>4. Upcoming \in 0 .. MaxSent
  BY <1>3 DEF Upcoming
<1>5. e \in 0 .. size /\ e \in Nat
  BY <1>4, Numbers DEF TypeOK
<1>6. /\ curr' = e
      /\ iov' = Append(iov, [base |-> curr + HeaderSize,
                             len |-> e - curr - HeaderSize, val |-> Upcoming])
      /\ UNCHANGED <<head_offset, rpc, rtail, pos, released, rsent, last,
                     tail_offset, packet_size, size, buff, wpc, wreq, whead,
                     wgrant, sent, at, to, lap, top, crashes>>
  BY <1>2, <1>5 DEF PeekPackage, Package
<1>7. /\ Len(iov') = Len(iov) + 1
      /\ \A i \in 1 .. Len(iov) : iov'[i] = iov[i]
      /\ iov'[Len(iov) + 1] = [base |-> curr + HeaderSize,
                               len |-> e - curr - HeaderSize, val |-> Upcoming]
      /\ iov' \in Seq([base : Nat, len : Nat, val : Nat])
  <2> [base |-> curr + HeaderSize, len |-> e - curr - HeaderSize,
       val |-> Upcoming] \in [base : Nat, len : Nat, val : Nat]
    BY <1>3, <1>4, <1>5
  <2> QED
    BY <1>6 DEF TypeOK
<1> HIDE DEF e
<1>8. TypeOK'
  <2>1. pos' \in 0 .. Len(iov') /\ curr' \in 0 .. size'
    BY <1>1, <1>5, <1>6, <1>7
  <2> QED
    BY <1>6, <1>7, <2>1 DEF TypeOK
<1>9. Taken' = Upcoming + 1 /\ released' + Len(iov') = Upcoming + 1
  BY <1>1, <1>6, <1>7 DEF Taken, Upcoming
<1>10. LayoutAt(Taken, curr)' /\ Reached(curr)'
  BY <1>3, <1>6, <1>9 DEF LayoutAt, Reached
<1>11. LayoutAt(rsent, rtail)' /\ Reached(rtail)'
  BY <1>1, <1>6 DEF ReaderInv, LayoutAt, Reached
<1>12. \A i \in 1 .. Len(iov') :
         LET n == released' + i - 1
         IN  iov'[i] = [base |-> at'[n] + HeaderSize,
                        len |-> to'[n] - at'[n] - HeaderSize, val |-> n]
  <2> SUFFICES ASSUME NEW i \in 1 .. Len(iov) + 1
               PROVE  LET n == released + i - 1
                      IN  iov'[i] = [base |-> at[n] + HeaderSize,
                                     len |-> to[n] - at[n] - HeaderSize,
                                     val |-> n]
    BY <1>6, <1>7
  <2>1. CASE i = Len(iov) + 1
    <3>1. released + i - 1 = Upcoming
      BY <2>1 DEF Upcoming
    <3> QED
      BY <1>3, <1>7, <2>1, <3>1 DEF e
  <2>2. CASE i # Len(iov) + 1
    <3>1. i \in 1 .. Len(iov) /\ rpc # "idle"
      BY <1>1, <2>2
    <3> QED
      BY <1>7, <3>1 DEF ReaderInv
  <2> QED
    BY <2>1, <2>2
<1>13. /\ rpc = "seg0" => head_offset <= e
       /\ rpc = "seg1" \/ OnePiece => e <= rtail
  <2>1. /\ rpc = "seg0" => head_offset <= curr
        /\ rpc = "seg1" => ~OnePiece /\ curr <= rtail
    BY <1>1, Reading
  <2>2. rpc = "seg1" \/ OnePiece => Limit = rtail
    BY <1>1, <2>1 DEF Limit
  <2> QED
    BY <1>3, <1>5, <2>1, <2>2
<1>14. ReaderInv'
  <2>1. OnePiece' = OnePiece /\ (OnePiece \/ rtail <= tail_offset)
    BY <1>1, <1>6 DEF ReaderInv, OnePiece
  <2>2. /\ released' <= rsent' /\ released' + Len(iov') <= rsent'
        /\ rpc = "seg1" => ~OnePiece
    BY <1>1, <1>3, <1>6, <1>9 DEF ReaderInv, Upcoming
  <2>3. UNCHANGED <<rpc, pos, rtail, tail_offset, head_offset>> /\ curr' = e
    BY <1>6
  <2> QED
    BY <1>1, <1>10, <1>11, <1>12, <1>13, <2>1, <2>2, <2>3 DEF ReaderInv
<1> QED
  BY <1>6, <1>8, <1>14, QuietProcess

LEMMA PeekSecondKeeps ==
  ASSUME IInv, Process, PeekSecond
  PROVE  IInv'
<1> USE DEF ReceiverOnly, sender, layout
<1> TypeOK /\ ReaderInv
  BY DEF IInv
<1> /\ curr \in Nat /\ head_offset \in Nat /\ tail_offset \in Nat
    /\ sent \in Nat /\ released \in Nat /\ Len(iov) \in Nat /\ rtail \in Nat
    /\ size \in Nat /\ lap \in 0 .. MaxSent /\ top \in 0 .. size
    /\ at \in Offsets /\ to \in Offsets /\ HeaderSize \in Nat
  BY Numbers, Constants DEF TypeOK
<1>1. /\ rpc = "seg0" /\ ~OnePiece /\ rpc' = "seg1" /\ curr' = 0
      /\ UNCHANGED <<head_offset, rtail, iov, pos, released, rsent, last,
                     tail_offset, packet_size, size, buff, wpc, wreq, whead,
                     wgrant, sent, at, to, lap, top, crashes>>
  BY DEF PeekSecond
<1>2. /\ LayoutAt(rsent, rtail) /\ Reached(rtail) /\ rtail <= tail_offset
      /\ LayoutAt(Upcoming, curr) /\ head_offset <= curr
  BY <1>1 DEF ReaderInv, Taken, Upcoming
<1>3. head_offset > tail_offset
  BY <1>1, <1>2 DEF OnePiece, Reached
<1>4. /\ Tile(at, to, lap, sent, 0, tail_offset)
      /\ Tile(at, to, Upcoming, lap, curr, top)
  BY <1>2, <1>3 DEF LayoutAt
<1>5. Upcoming = lap
  <2>1. CASE curr < size
    <3>1. Peeking /\ AtGap
      BY <1>1, <2>1 DEF PeekSecond, PeekReturn, Peeking, Limit
    <3> QED
      BY <3>1, PeekFinds DEF GapAtCursor
  <2>2. CASE curr >= size
    <3>1. Upcoming \in Nat /\ Upcoming <= lap
      BY <1>4 DEF Tile, Upcoming
    <3>2. ASSUME Upcoming < lap PROVE FALSE
      <4>1. /\ curr + HeaderSize < to[Upcoming] /\ to[Upcoming] <= top
        BY <1>4, <3>1, <3>2, TileHead
      <4>2. to[Upcoming] \in Nat
        BY <3>1, <3>2, Constants DEF Offsets
      <4> QED
        BY <2>2, <4>1, <4>2
    <3> QED
      BY <3>1, <3>2
  <2> QED
    BY <2>1, <2>2
<1>6. TypeOK'
  BY <1>1 DEF TypeOK
<1>7. Taken' = Upcoming
  BY <1>1 DEF Taken, Upcoming
<1>8. LayoutAt(Taken, curr)' /\ Reached(curr)'
  BY <1>1, <1>3, <1>4, <1>5, <1>7 DEF LayoutAt, Reached
<1>9. LayoutAt(rsent, rtail)' /\ Reached(rtail)'
  BY <1>1, <1>2 DEF LayoutAt, Reached
<1>10. ReaderInv'
  BY <1>1, <1>8, <1>9 DEF ReaderInv, OnePiece
<1> QED
  BY <1>1, <1>6, <1>10, QuietProcess

(* An entry of the batch describes its packet.                             *)
LEMMA BatchEntry ==
  ASSUME ReaderInv, rpc # "idle", NEW p \in Nat, p < Len(iov),
         released \in Nat, Len(iov) \in Nat
  PROVE  /\ iov[p + 1].base = at[released + p] + HeaderSize
         /\ iov[p + 1].len = to[released + p] - at[released + p] - HeaderSize
         /\ iov[p + 1].val = released + p
<1>1. p + 1 \in 1 .. Len(iov) /\ released + (p + 1) - 1 = released + p
  OBVIOUS
<1>2. LET n == released + (p + 1) - 1
      IN  iov[p + 1] = [base |-> at[n] + HeaderSize,
                        len |-> to[n] - at[n] - HeaderSize, val |-> n]
  BY <1>1 DEF ReaderInv
<1> QED
  BY <1>1, <1>2

(* peek() ends where the packets end that it has taken.                    *)
LEMMA PeekLastKeeps ==
  ASSUME IInv, Process, PeekLast
  PROVE  IInv'
<1> USE DEF ReceiverOnly, sender, layout
<1> TypeOK /\ ReaderInv
  BY DEF IInv
<1>1. ~AtGarbage /\ ~AtGap
  <2>1. ASSUME AtGap PROVE FALSE
    <3>1. Peeking /\ GapAtCursor /\ ~AtGarbage
      BY <2>1, PeekFinds DEF AtGap
    <3> QED
      BY <2>1, <3>1 DEF PeekLast, PeekReturn, GapAtCursor
  <2>2. ~AtGarbage
    BY PeekFinds DEF AtGarbage
  <2> QED
    BY <2>1, <2>2
<1>2. /\ rpc \in {"seg0", "seg1"} /\ rpc' = "deliver" /\ curr' = curr /\ iov' = iov
      /\ UNCHANGED <<head_offset, rtail, pos, released, rsent, last, tail_offset,
                     packet_size, size, buff, wpc, wreq, whead, wgrant, sent,
                     at, to, lap, top, crashes>>
  BY <1>1 DEF PeekLast, PeekDone, PeekReturn
<1>3. TypeOK'
  BY <1>2 DEF TypeOK
<1>4. ReaderInv'
  BY <1>2 DEF ReaderInv, LayoutAt, Reached, OnePiece, Taken
<1> QED
  BY <1>2, <1>3, <1>4, QuietProcess

LEMMA OnRecvKeeps ==
  ASSUME IInv, Process, OnRecv \/ OnRecvAll
  PROVE  IInv'
<1> USE DEF ReceiverOnly, sender, layout
<1> TypeOK /\ ReaderInv
  BY DEF IInv
<1> Len(iov) \in Nat /\ pos \in Nat /\ released \in Nat /\ MaxSent \in Nat
    /\ rsent \in 0 .. MaxSent
  BY Numbers, Constants DEF TypeOK
<1>1. /\ rpc = "deliver" /\ rpc' \in {"deliver", "idle", "end"}
      /\ pos' \in 0 .. Len(iov) /\ (rpc' = "end" => pos' = Len(iov))
      /\ UNCHANGED <<head_offset, rtail, curr, iov, released, rsent, tail_offset,
                     packet_size, size, buff, wpc, wreq, whead, wgrant, sent,
                     at, to, lap, top, crashes>>
  BY DEF OnRecv, OnRecvAll
<1>2. last' \in -1 .. MaxSent
  <2>1. CASE OnRecv
    <3>1. last' = iov[pos + 1].val /\ pos < Len(iov)
      BY <2>1 DEF OnRecv
    <3>2. iov[pos + 1].val = released + pos
      BY <1>1, <3>1, BatchEntry
    <3>3. released + Len(iov) <= rsent
      BY <1>1 DEF ReaderInv
    <3> QED
      BY <3>1, <3>2, <3>3
  <2>2. CASE OnRecvAll
    BY <2>2 DEF OnRecvAll, TypeOK
  <2> QED
    BY <2>1, <2>2
<1>3. TypeOK'
  BY <1>1, <1>2 DEF TypeOK
<1>4. ReaderInv'
  BY <1>1 DEF ReaderInv, LayoutAt, Reached, OnePiece, Taken
<1> QED
  BY <1>1, <1>3, <1>4, QuietProcess

(* The packet that was refused is where the next reading begins.           *)
LEMMA OnRecvRefuseKeeps ==
  ASSUME IInv, Process, OnRecvRefuse
  PROVE  IInv'
<1> USE DEF ReceiverOnly, sender, layout
<1> TypeOK /\ Layout /\ ReaderInv
  BY DEF IInv
<1> /\ Len(iov) \in Nat /\ pos \in Nat /\ released \in Nat /\ MaxSent \in Nat
    /\ rsent \in 0 .. MaxSent /\ sent \in 0 .. MaxSent /\ HeaderSize \in Nat
  BY Numbers, Constants DEF TypeOK
<1> DEFINE n == released + pos
<1>1. /\ rpc = "deliver" /\ rpc' = "end" /\ pos < Len(iov)
      /\ curr' = iov[pos + 1].base - HeaderSize
      /\ UNCHANGED <<head_offset, rtail, iov, pos, released, rsent, last,
                     tail_offset, packet_size, size, buff, wpc, wreq, whead,
                     wgrant, sent, at, to, lap, top, crashes>>
  BY DEF OnRecvRefuse
<1>2. LayoutAt(rsent, rtail) /\ released + Len(iov) <= rsent
  BY <1>1 DEF ReaderInv
<1>3. rsent <= sent
  BY <1>2, Numbers DEF LayoutAt, Tile
<1>5. n \in released .. sent - 1
  BY <1>1, <1>2, <1>3
<1>4. at[n] \in 0 .. size
  BY <1>5 DEF TypeOK
<1>6. iov[pos + 1].base = at[n] + HeaderSize
  BY <1>1, BatchEntry
<1>7. curr' = at[n]
  <2>1. at[n] \in Nat
    BY <1>4, Numbers
  <2> QED
    BY <1>1, <1>6, <2>1
<1>8. TypeOK'
  BY <1>1, <1>4, <1>7 DEF TypeOK
<1>9. LayoutAt(n, at[n]) /\ Reached(at[n])
  BY <1>5, StartOfPacket
<1>10. Taken' = n
  BY <1>1 DEF Taken
<1>11. LayoutAt(Taken, curr)' /\ Reached(curr)'
  BY <1>1, <1>7, <1>9, <1>10 DEF LayoutAt, Reached
<1>12. LayoutAt(rsent, rtail)' /\ Reached(rtail)'
  BY <1>1 DEF ReaderInv, LayoutAt, Reached
<1>13. ReaderInv'
  BY <1>1, <1>11, <1>12 DEF ReaderInv, OnePiece
<1> QED
  BY <1>1, <1>8, <1>13, QuietProcess

(* The head moves to where the reading ended.                              *)
LEMMA ReadEndKeeps ==
  ASSUME IInv, Process, ReadEnd
  PROVE  IInv'
<1> USE DEF ReceiverOnly, sender, layout
<1> TypeOK /\ Layout /\ PacketsIntact /\ SenderInv /\ ReaderInv
  BY DEF IInv
<1> /\ head_offset \in Nat /\ tail_offset \in Nat /\ curr \in Nat /\ pos \in Nat
    /\ released \in Nat /\ whead \in Nat /\ wgrant \in Nat /\ HeaderSize \in Nat
    /\ Len(iov) \in Nat /\ rsent \in 0 .. MaxSent /\ MaxSent \in Nat
    /\ pos <= Len(iov)
  BY Numbers, Constants DEF TypeOK
<1>1. /\ rpc = "end" /\ rpc' = "idle" /\ pos' = 0
      /\ head_offset' = curr /\ released' = released + pos
      /\ UNCHANGED <<rtail, curr, iov, rsent, last, tail_offset, packet_size,
                     size, buff, wpc, wreq, whead, wgrant, sent, at, to, lap,
                     top, crashes>>
  BY DEF ReadEnd
<1>2. /\ LayoutAt(Taken, curr) /\ Taken = released' /\ Reached(curr)
      /\ released + Len(iov) <= rsent
  BY <1>1 DEF ReaderInv, Taken
<1>3. TypeOK'
  <2>1. released' \in 0 .. MaxSent
    BY <1>1, <1>2
  <2> QED
    BY <1>1, <2>1 DEF TypeOK
<1>4. Layout'
  <2>1. curr > tail_offset => Gap(top)
    BY <1>2 DEF Reached, Layout
  <2> QED
    BY <1>1, <1>2, <2>1 DEF Layout, LayoutAt, Gap
<1>5. PacketsIntact'
  BY <1>1 DEF PacketsIntact
<1>6. SenderInv'
  <2>1. HeadSeen => HeadSeen'
    BY <1>1, <1>2 DEF HeadSeen, Behind, Reached
  <2>2. head_offset' > tail_offset =>
          head_offset > tail_offset /\ head_offset <= head_offset'
    BY <1>1, <1>2 DEF Reached
  <2>3. GrantEnd' = GrantEnd /\ PacketEnd' = PacketEnd /\ Behind' = Behind
        /\ GrantEnd \in Nat
    BY <1>1 DEF GrantEnd, PacketEnd, Behind
  <2>4. GrantEnd < head_offset /\ head_offset <= head_offset'
          => GrantEnd < head_offset'
    BY <1>1, <2>3
  <2> QED
    BY <1>1, <2>1, <2>2, <2>3, <2>4 DEF SenderInv
<1>7. ReaderInv'
  BY <1>1 DEF ReaderInv
<1> QED
  BY <1>3, <1>4, <1>5, <1>6, <1>7 DEF IInv

LEMMA ProcessKeeps ==
  ASSUME IInv, Process
  PROVE  IInv'
BY ReadBeginKeeps, PeekPackageKeeps, PeekSecondKeeps, PeekLastKeeps,
   OnRecvKeeps, OnRecvRefuseKeeps, ReadEndKeeps DEF Process

LEMMA CrashKeeps ==
  ASSUME IInv, Crash
  PROVE  IInv'
<1> USE DEF shm, layout
<1> TypeOK /\ Layout /\ PacketsIntact /\ SenderInv /\ ReaderInv
  BY DEF IInv
<1>1. /\ UNCHANGED <<head_offset, tail_offset, packet_size, size, buff, wreq,
                     whead, wgrant, rtail, curr, iov, sent, at, to, lap, top,
                     released, rsent, last>>
      /\ crashes' = crashes + 1 /\ crashes < MaxCrashes
      /\ \/ wpc' = "idle" /\ rpc' = rpc /\ pos' = pos
         \/ wpc' = wpc /\ rpc' = "idle" /\ pos' = 0
  BY DEF Crash, SenderCrash, ReaderCrash, Restart
<1>2. TypeOK'
  <2>1. pos' \in 0 .. Len(iov) /\ crashes' \in 0 .. MaxCrashes
    <3>1. /\ pos \in 0 .. Len(iov) /\ crashes \in 0 .. MaxCrashes
          /\ Len(iov) \in Nat /\ MaxCrashes \in Nat
      BY Constants, Numbers DEF TypeOK
    <3> QED
      BY <1>1, <3>1
  <2> QED
    BY <1>1, <2>1 DEF TypeOK
<1>3. Layout' /\ PacketsIntact'
  BY <1>1 DEF Layout, LayoutAt, Gap, PacketsIntact
<1>4. SenderInv'
  BY <1>1 DEF SenderInv, HeadSeen, Behind, GrantEnd, PacketEnd
<1>5. ReaderInv'
  BY <1>1 DEF ReaderInv, LayoutAt, Reached, OnePiece, Taken
<1> QED
  BY <1>2, <1>3, <1>4, <1>5 DEF IInv

LEMMA StutterKeeps ==
  ASSUME IInv, UNCHANGED vars
  PROVE  IInv'
<1> USE DEF vars, shm, sender, reader, layout, IInv
<1>1. TypeOK'
  BY DEF TypeOK
<1>2. Layout' /\ PacketsIntact'
  BY DEF Layout, LayoutAt, Gap, PacketsIntact
<1>3. SenderInv'
  BY DEF SenderInv, HeadSeen, Behind, GrantEnd, PacketEnd
<1>4. ReaderInv'
  BY DEF ReaderInv, LayoutAt, Reached, OnePiece, Taken
<1> QED
  BY <1>1, <1>2, <1>3, <1>4

-----------------------------------------------------------------------------
(* The invariant is inductive, so it holds in every reachable state.       *)
THEOREM Invariance == Spec => []IInv
<1>1. IInv /\ [Next]_vars => IInv'
  BY TbusInitKeeps, SendKeeps, ProcessKeeps, CrashKeeps, StutterKeeps DEF Next
<1> QED
  BY InitIInv, <1>1, PTL DEF Spec

(* Type correctness: every offset the two processes ever store lies in the *)
(* buffer, for every size of buffer, packet and message.                   *)
THEOREM TypeCorrect == Spec => []TypeOK
BY Invariance, PTL DEF IInv

(* No packet is overwritten before the receiver has released it.           *)
THEOREM NoPacketOverwritten == Spec => []PacketsIntact
BY Invariance, PTL DEF IInv

(* The space given to the sender is disjoint from every packet that is not *)
(* released.                                                               *)
THEOREM NoOverlap == Spec => []GrantedSpaceIsFree
<1>1. IInv => GrantedSpaceIsFree
  <2> SUFFICES ASSUME IInv, wpc \in {"granted", "encoded", "header", "publish"}
               PROVE  /\ GrantEnd <= size
                      /\ \A n \in released .. sent - 1 :
                           to[n] <= tail_offset \/ GrantEnd <= at[n]
    BY DEF GrantedSpaceIsFree
  <2> TypeOK /\ Layout /\ SenderInv
    BY DEF IInv
  <2> /\ tail_offset \in Nat /\ head_offset \in Nat /\ HeaderSize \in Nat
      /\ wgrant \in Nat
    BY Numbers, Constants
  <2>1. GrantEnd <= size /\ (head_offset > tail_offset => GrantEnd < head_offset)
    BY DEF SenderInv
  <2>2. GrantEnd \in Nat
    BY DEF GrantEnd
  <2>3. ASSUME NEW n \in released .. sent - 1
        PROVE  to[n] <= tail_offset \/ GrantEnd <= at[n]
    <3>1. /\ at[n] \in Nat
          /\ \/ to[n] <= tail_offset
             \/ head_offset > tail_offset /\ head_offset <= at[n]
      BY PacketsClear
    <3> QED
      BY <2>1, <2>2, <3>1
  <2> QED
    BY <2>1, <2>3
<1> QED
  BY Invariance, <1>1, PTL

(* The receiver never meets garbage, and so never discards anything.       *)
THEOREM NothingDiscarded == Spec => []NeverDiscards
<1>1. IInv => NeverDiscards
  BY PeekFinds DEF NeverDiscards, AtGarbage
<1> QED
  BY Invariance, <1>1, PTL

(* A batch holds the oldest packets in order.                              *)
THEOREM InOrder == Spec => []BatchInOrder
<1>1. IInv => BatchInOrder
  <2> SUFFICES ASSUME IInv, rpc # "idle", NEW i \in 1 .. Len(iov)
               PROVE  LET n == released + i - 1
                      IN  /\ n < sent
                          /\ iov[i].val = n
                          /\ iov[i].len = to[n] - at[n] - HeaderSize
    BY DEF BatchInOrder
  <2> TypeOK /\ ReaderInv
    BY DEF IInv
  <2> DEFINE n == released + i - 1
  <2>1. iov[i] = [base |-> at[n] + HeaderSize,
                  len |-> to[n] - at[n] - HeaderSize, val |-> n]
    BY DEF ReaderInv
  <2>2. LayoutAt(rsent, rtail) /\ released + Len(iov) <= rsent
    BY DEF ReaderInv
  <2>3. rsent <= sent
    BY <2>2, Numbers DEF LayoutAt, Tile
  <2>4. n < sent
    BY <2>2, <2>3, Numbers
  <2> QED
    BY <2>1, <2>4
<1> QED
  BY Invariance, <1>1, PTL

(* A full bus is never taken for an empty one.                             *)
THEOREM FullIsNotEmpty == Spec => []EqualIsEmpty
<1>1. IInv => EqualIsEmpty
  <2> SUFFICES ASSUME IInv, head_offset = tail_offset PROVE released = sent
    BY DEF EqualIsEmpty
  <2> TypeOK /\ Layout
    BY DEF IInv
  <2>1. Tile(at, to, released, sent, head_offset, tail_offset)
    BY Numbers DEF Layout, LayoutAt
  <2>2. released <= sent
    BY <2>1 DEF Tile
  <2>3. ASSUME released < sent PROVE FALSE
    <3>1. released \in released .. sent - 1
      BY <2>3, Numbers
    <3>2. /\ at[released] \in Nat /\ to[released] \in Nat
          /\ at[released] + HeaderSize < to[released]
      BY <3>1, PacketsClear
    <3>3. head_offset <= at[released] /\ to[released] <= tail_offset
      BY <2>1, <3>1 DEF Tile
    <3>4. HeaderSize \in Nat /\ head_offset \in Nat /\ tail_offset \in Nat
      BY Numbers, Constants
    <3> QED
      BY <3>2, <3>3, <3>4
  <2> QED
    BY <2>2, <2>3, Numbers
<1> QED
  BY Invariance, <1>1, PTL

-----------------------------------------------------------------------------
(* The refinement: every step of the bus is a step of the channel or none. *)
LEMMA StepIsChannelStep ==
  ASSUME IInv, IInv', [Next]_vars
  PROVE  [Ch!Next]_(Ch!vars)
<1> TypeOK /\ ReaderInv
  BY DEF IInv
<1> /\ released \in Nat /\ pos \in Nat /\ Len(iov) \in Nat /\ sent \in Nat
    /\ rsent \in Nat
  BY Numbers
<1> USE DEF Ch!vars
<1>1. CASE UNCHANGED vars
  BY <1>1 DEF vars, reader, layout
<1>2. CASE TbusInit
  BY <1>2 DEF TbusInit, InitPacketSize, InitSize, reader, layout
<1>3. CASE Send
  <2>1. UNCHANGED <<released, pos, last>>
    BY <1>3, Frames DEF SenderOnly, reader
  <2>2. CASE Publish
    <3>1. sent' = sent + 1 /\ sent < MaxSent
      BY <2>2 DEF Publish, IInv, SenderInv
    <3> QED
      BY <2>1, <3>1 DEF Ch!Next, Ch!Send
  <2>3. CASE ~Publish
    <3>1. sent' = sent
      BY <1>3, <2>3 DEF Send, SendBegin, SendAgain, NoRoom, MarkIgnore, Wrap,
                        Grant, Decline, Encode, PutHeader, SendEndHead,
                        LoadHead, layout
    <3> QED
      BY <2>1, <3>1
  <2> QED
    BY <2>2, <2>3
<1>4. CASE Process
  <2>1. sent' = sent
    BY <1>4, Frames DEF ReceiverOnly, layout
  <2>2. CASE ReadBegin
    <3>1. pos' = 0 /\ UNCHANGED <<released, last>>
      BY <2>2 DEF ReadBegin
    <3> QED
      BY <2>1, <3>1 DEF Ch!Next, Ch!ReceiverCrash
  <2>3. CASE OnRecv
    <3>1. /\ rpc = "deliver" /\ pos < Len(iov) /\ pos' = pos + 1
          /\ last' = iov[pos + 1].val /\ released' = released
      BY <2>3 DEF OnRecv
    <3>2. iov[pos + 1].val = released + pos
      BY <3>1, BatchEntry
    <3>3. LayoutAt(rsent, rtail) /\ released + Len(iov) <= rsent
      BY <3>1 DEF ReaderInv
    <3>4. rsent <= sent
      BY <3>3, Numbers DEF LayoutAt, Tile
    <3> QED
      BY <2>1, <3>1, <3>2, <3>3, <3>4 DEF Ch!Next, Ch!Deliver
  <2>4. CASE ReadEnd
    <3>1. released' = released + pos /\ pos' = 0 /\ last' = last
      BY <2>4 DEF ReadEnd
    <3> QED
      BY <2>1, <3>1 DEF Ch!Next, Ch!Release
  <2>5. CASE PeekPackage \/ PeekSecond \/ PeekLast \/ OnRecvRefuse \/ OnRecvAll
    BY <2>1, <2>5 DEF PeekPackage, PeekSecond, PeekLast, OnRecvRefuse, OnRecvAll
  <2> QED
    BY <1>4, <2>2, <2>3, <2>4, <2>5 DEF Process
<1>5. CASE Crash
  <2>1. UNCHANGED <<sent, released, last>> /\ pos' \in {0, pos}
    BY <1>5 DEF Crash, SenderCrash, ReaderCrash, Restart, layout
  <2> QED
    BY <2>1 DEF Ch!Next, Ch!ReceiverCrash
<1> QED
  BY <1>1, <1>2, <1>3, <1>4, <1>5 DEF Next

(* The bus implements the channel: nothing is lost, nothing is reordered,  *)
(* and only a crash of the receiver makes it hand a packet over twice.     *)
THEOREM Refinement == Spec => IsChannel
<1>1. Init => Ch!Init
  BY DEF Init, Ch!Init
<1>2. IInv /\ IInv' /\ [Next]_vars => [Ch!Next]_(Ch!vars)
  BY StepIsChannelStep
<1> QED
  BY Invariance, <1>1, <1>2, PTL DEF Spec, IsChannel, Ch!Spec
=============================================================================
