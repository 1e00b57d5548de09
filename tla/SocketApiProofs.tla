-------------------------- MODULE SocketApiProofs ---------------------------
(***************************************************************************)
(* Proofs about socketapi.c, for any size of the buffer, any sizes of the  *)
(* packets and any number of connections.                                  *)
(*                                                                         *)
(* Sending: until errno has told to try again on a connection, the server  *)
(* gets whole packets on it, and at most one part of one at its end.       *)
(*                                                                         *)
(* Receiving: the places at which a pass over the buffer cuts it (Cuts is  *)
(* a recursive function, so that it exists has to be proved) are the       *)
(* beginnings of packets, because what is in the buffer and what is still  *)
(* to come on the connection are together a stream of whole packets, which *)
(* goes on where what on_recv was given ends.                              *)
(***************************************************************************)
EXTENDS SocketApi, FiniteSetTheorems, SequenceTheorems, WellFoundedInduction,
        TLAPS

TypesOK ==
  /\ opens \in 0 .. MaxOpens /\ sends \in 0 .. MaxSends
  /\ socket_fd = -1 \/ socket_fd \in 1 .. opens
  /\ upstream \in [Conns -> Seq({"whole", "part"})]
  /\ asked \in [Conns -> 0 .. MaxSends]

(* Nothing has been sent on a connection that is not open yet, and nowhere *)
(* more than the calls of socketapi_send.                                  *)
NotYet == /\ \A c \in Conns : c > opens => upstream[c] = <<>>
          /\ \A c \in Conns : Len(upstream[c]) <= sends

(* Only the last packet may be a part, and that of the connection in use   *)
(* is not, of what was sent before errno told to try again.                *)
Parts ==
  \A c \in Conns : \A j \in 1 .. Len(upstream[c]) :
    upstream[c][j] = "part" =>
      j > asked[c] \/ (j = Len(upstream[c]) /\ c # socket_fd)

(* When errno tells to try again, it has done so on the connection in use, *)
(* and a connection cannot have been asked before more was sent on it.     *)
Asking ==
  /\ \A c \in Conns : asked[c] = Never \/ asked[c] <= Len(upstream[c])
  /\ socket_fd # -1 /\ errno \in Retry =>
       asked[socket_fd] <= Len(upstream[socket_fd])

IInv == TypesOK /\ NotYet /\ Parts /\ Asking

-----------------------------------------------------------------------------
LEMMA Constants == MaxOpens \in Nat /\ MaxSends \in Nat /\ Never = MaxSends
BY SocketApiAssumption DEF Never

LEMMA InitHolds == Init => IInv
<1> SUFFICES ASSUME Init
             PROVE  IInv
  OBVIOUS
<1>1. /\ opens = 0 /\ sends = 0 /\ socket_fd = -1
      /\ upstream = [c \in Conns |-> <<>>] /\ asked = [c \in Conns |-> Never]
  BY DEF Init
<1>2. TypesOK
  BY <1>1, Constants DEF TypesOK
<1>3. NotYet /\ Parts /\ Asking
  BY <1>1, Constants DEF NotYet, Parts, Asking
<1> QED
  BY <1>2, <1>3 DEF IInv

(* What is sent on a connection, as a sequence.                            *)
LEMMA Lengths ==
  ASSUME TypesOK, NEW c \in Conns
  PROVE  /\ upstream[c] \in Seq({"whole", "part"}) /\ Len(upstream[c]) \in Nat
         /\ asked[c] \in 0 .. MaxSends /\ c # -1 /\ c \in Nat
BY Constants DEF TypesOK, Conns

LEMMA InUse ==
  ASSUME TypesOK, socket_fd # -1
  PROVE  socket_fd \in Conns /\ socket_fd <= opens /\ opens \in Nat
BY Constants DEF TypesOK, Conns

(* Steps that send nothing and open nothing, and leave asked alone.        *)
LEMMA OthersKeepParts ==
  ASSUME IInv, UNCHANGED <<opens, upstream, asked>>,
         sends' = sends \/ Sending,
         socket_fd' = socket_fd \/ socket_fd' = -1,
         socket_fd' # -1 => UNCHANGED errno \/ errno' \notin Retry
  PROVE  IInv'
<1>1. sends \in Nat /\ sends' \in 0 .. MaxSends /\ sends <= sends'
  BY Constants DEF IInv, TypesOK, Sending
<1>2. TypesOK'
  BY <1>1 DEF IInv, TypesOK
<1>3. NotYet'
  <2>1. \A c \in Conns : Len(upstream[c]) <= sends /\ Len(upstream[c]) \in Nat
    BY Lengths DEF IInv, NotYet
  <2>2. \A c \in Conns : Len(upstream[c]) <= sends'
    BY <1>1, <2>1
  <2> QED BY <2>2 DEF IInv, NotYet
<1>4. Parts'
  BY Lengths DEF IInv, Parts
<1>5. Asking'
  BY DEF IInv, Asking
<1> QED
  BY <1>2, <1>3, <1>4, <1>5 DEF IInv

(* errno tells to try again on connection c, which has no part at its end. *)
LEMMA AskedGives ==
  ASSUME IInv, NEW c \in Conns, Asked(c), c = socket_fd \/ upstream[c] = <<>>
  PROVE  /\ asked' \in [Conns -> 0 .. MaxSends]
         /\ \A d \in Conns : asked'[d] = Never \/ asked'[d] <= Len(upstream[d])
         /\ asked'[c] <= Len(upstream[c])
         /\ \A d \in Conns : \A j \in 1 .. Len(upstream[d]) :
              upstream[d][j] = "part" =>
                j > asked'[d] \/ (j = Len(upstream[d]) /\ d # socket_fd /\ d # c)
<1>1. /\ upstream[c] \in Seq({"whole", "part"}) /\ Len(upstream[c]) \in Nat
      /\ Len(upstream[c]) <= sends /\ sends \in 0 .. MaxSends
      /\ asked \in [Conns -> 0 .. MaxSends]
      /\ asked[c] = Never \/ asked[c] <= Len(upstream[c])
  BY Lengths DEF IInv, NotYet, TypesOK, Asking
<1>2. Len(upstream[c]) \in 0 .. MaxSends
  BY <1>1, Constants
<1>3. ASSUME NEW d \in Conns, NEW j \in 1 .. Len(upstream[d]),
             upstream[d][j] = "part"
      PROVE  j > asked[d] \/ (j = Len(upstream[d]) /\ d # socket_fd /\ d # c)
  <2>1. j > asked[d] \/ (j = Len(upstream[d]) /\ d # socket_fd)
    BY <1>3 DEF IInv, Parts
  <2>2. CASE d = c /\ upstream[c] = <<>>
    <3>1. Len(upstream[d]) = 0
      BY <2>2
    <3> QED BY <1>3, <3>1
  <2> QED BY <2>1, <2>2
<1>4. CASE asked[c] # Never
  <2>1. asked' = asked
    BY <1>4 DEF Asked
  <2> QED BY <1>1, <1>3, <1>4, <2>1 DEF IInv, Asking
<1>5. CASE asked[c] = Never
  <2>1. /\ \A d \in Conns : d # c => asked'[d] = asked[d]
        /\ asked'[c] = Len(upstream[c])
        /\ asked' \in [Conns -> 0 .. MaxSends]
    BY <1>1, <1>2, <1>5 DEF Asked
  <2>2. ASSUME NEW d \in Conns
        PROVE  asked'[d] = Never \/ asked'[d] <= Len(upstream[d])
    BY <1>1, <2>1, Lengths DEF IInv, Asking
  <2>3. ASSUME NEW d \in Conns, NEW j \in 1 .. Len(upstream[d]),
               upstream[d][j] = "part"
        PROVE  j > asked'[d] \/ (j = Len(upstream[d]) /\ d # socket_fd /\ d # c)
    <3>1. CASE d # c
      BY <1>3, <2>1, <2>3, <3>1
    <3>2. CASE d = c
      <4>1. j > asked[c]
        BY <1>3, <2>3, <3>2
      <4>2. j <= MaxSends /\ j \in Nat
        BY <1>1, <1>2, <2>3, <3>2, Constants
      <4> QED BY <1>5, <4>1, <4>2, Constants
    <3> QED BY <3>1, <3>2
  <2> QED BY <1>1, <2>1, <2>2, <2>3
<1> QED
  BY <1>4, <1>5

(* On the connection in use.                                               *)
LEMMA AskedKeeps ==
  ASSUME IInv, socket_fd # -1, Asked(socket_fd),
         UNCHANGED <<opens, upstream, socket_fd>>, sends' = sends \/ Sending
  PROVE  IInv'
<1>1. socket_fd \in Conns
  BY InUse DEF IInv
<1>2. /\ asked' \in [Conns -> 0 .. MaxSends]
      /\ \A d \in Conns : asked'[d] = Never \/ asked'[d] <= Len(upstream[d])
      /\ asked'[socket_fd] <= Len(upstream[socket_fd])
      /\ \A d \in Conns : \A j \in 1 .. Len(upstream[d]) :
           upstream[d][j] = "part" =>
             j > asked'[d] \/ (j = Len(upstream[d]) /\ d # socket_fd)
  BY <1>1, AskedGives
<1>3. sends \in Nat /\ sends' \in 0 .. MaxSends /\ sends <= sends'
  BY Constants DEF IInv, TypesOK, Sending
<1>4. TypesOK'
  BY <1>2, <1>3 DEF IInv, TypesOK
<1>5. NotYet'
  <2>1. \A c \in Conns : Len(upstream[c]) <= sends /\ Len(upstream[c]) \in Nat
    BY Lengths DEF IInv, NotYet
  <2>2. \A c \in Conns : Len(upstream[c]) <= sends'
    BY <1>3, <2>1
  <2> QED BY <2>2 DEF IInv, NotYet
<1> QED
  BY <1>2, <1>4, <1>5 DEF IInv, Parts, Asking

(* A connection is opened: nothing has been sent on it.                    *)
LEMMA NewConnectionKeeps ==
  ASSUME IInv, NewConnection, socket_fd = -1, Sending,
         \/ errno' \notin Retry /\ UNCHANGED asked
         \/ Asked(opens + 1)
  PROVE  IInv'
<1> DEFINE n == opens + 1
<1>1. /\ opens' = n /\ socket_fd' = n /\ upstream' = upstream
      /\ opens \in Nat /\ n \in Conns /\ n # -1 /\ n \in 1 .. n
      /\ n \in 0 .. MaxOpens
  BY Constants DEF NewConnection, IInv, TypesOK, Conns
<1>2. upstream[n] = <<>> /\ Len(upstream[n]) = 0
  BY <1>1 DEF IInv, NotYet
<1>3. sends \in Nat /\ sends' \in 0 .. MaxSends /\ sends <= sends'
  BY Constants DEF IInv, TypesOK, Sending
<1>4. NotYet'
  <2>1. \A c \in Conns : Len(upstream[c]) <= sends /\ Len(upstream[c]) \in Nat
    BY Lengths DEF IInv, NotYet
  <2>2. \A c \in Conns : Len(upstream[c]) <= sends'
    BY <1>3, <2>1
  <2>3. \A c \in Conns : c > opens' => c > opens
    BY <1>1, Constants DEF Conns
  <2> QED BY <1>1, <2>2, <2>3 DEF IInv, NotYet
<1>5. ASSUME NEW d \in Conns, NEW j \in 1 .. Len(upstream[d]),
             upstream[d][j] = "part"
      PROVE  d # n
  <2>1. CASE d = n
    BY <1>2, <1>5, <2>1
  <2> QED BY <2>1
<1> HIDE DEF n
<1>6. CASE errno' \notin Retry /\ UNCHANGED asked
  <2>1. TypesOK'
    BY <1>1, <1>3, <1>6 DEF IInv, TypesOK
  <2>2. Parts'
    BY <1>1, <1>5, <1>6 DEF IInv, Parts
  <2>3. Asking'
    BY <1>1, <1>6 DEF IInv, Asking
  <2> QED BY <1>4, <2>1, <2>2, <2>3 DEF IInv
<1>7. CASE Asked(opens + 1)
  <2>1. /\ asked' \in [Conns -> 0 .. MaxSends]
        /\ \A d \in Conns : asked'[d] = Never \/ asked'[d] <= Len(upstream[d])
        /\ asked'[n] <= Len(upstream[n])
        /\ \A d \in Conns : \A j \in 1 .. Len(upstream[d]) :
             upstream[d][j] = "part" =>
               j > asked'[d] \/ (j = Len(upstream[d]) /\ d # socket_fd /\ d # n)
    BY <1>1, <1>2, <1>7, AskedGives DEF n
  <2>2. TypesOK'
    BY <1>1, <1>3, <2>1 DEF IInv, TypesOK
  <2>3. Parts' /\ Asking'
    BY <1>1, <2>1 DEF Parts, Asking
  <2> QED BY <1>4, <2>2, <2>3 DEF IInv
<1> QED
  BY <1>6, <1>7

(* A packet, or a part of one, goes out on the connection in use, which is *)
(* given up after a part unless errno tells to try again.                  *)
LEMMA WritesKeeps ==
  ASSUME IInv, Sending, socket_fd # -1,
         NEW what \in {"whole", "part"}, Writes(what), UNCHANGED errno,
         \/ UNCHANGED socket_fd /\ (what = "whole" \/ errno \in Retry)
         \/ socket_fd' = -1
  PROVE  IInv'
<1> DEFINE c == socket_fd
           s == upstream[c]
<1>1. c \in Conns /\ c <= opens /\ opens' = opens /\ asked' = asked /\ c # -1
  BY InUse DEF IInv, Writes
<1>2. upstream' = [upstream EXCEPT ![c] = Append(@, what)]
  BY DEF Writes
<1>3. s \in Seq({"whole", "part"}) /\ Len(s) \in Nat /\ Len(s) <= sends
  BY <1>1, Lengths DEF IInv, NotYet
<1>4. sends \in Nat /\ sends' = sends + 1 /\ sends' \in 0 .. MaxSends
  BY Constants DEF IInv, TypesOK, Sending
<1>5. /\ \A d \in Conns \ {c} : upstream'[d] = upstream[d]
      /\ upstream'[c] = Append(s, what)
      /\ upstream' \in [Conns -> Seq({"whole", "part"})]
  BY <1>1, <1>2, <1>3 DEF IInv, TypesOK
<1> HIDE DEF s
<1>6. /\ Len(upstream'[c]) = Len(s) + 1
      /\ upstream'[c][Len(s) + 1] = what
      /\ \A k \in 1 .. Len(s) : upstream'[c][k] = s[k]
  BY <1>3, <1>5
<1>7. TypesOK'
  BY <1>1, <1>4, <1>5 DEF IInv, TypesOK
<1>8. NotYet'
  <2>1. ASSUME NEW d \in Conns
        PROVE  /\ Len(upstream'[d]) <= sends'
               /\ d > opens' => upstream'[d] = <<>>
    <3>1. CASE d = c
      <4>1. ~(d > opens')
        BY <1>1, <3>1, InUse, Lengths DEF IInv
      <4> QED BY <1>3, <1>4, <1>6, <3>1, <4>1
    <3>2. CASE d # c
      <4>1. Len(upstream[d]) <= sends /\ Len(upstream[d]) \in Nat
        BY Lengths DEF IInv, NotYet
      <4>2. Len(upstream[d]) <= sends'
        BY <1>4, <4>1
      <4> QED BY <1>1, <1>5, <3>2, <4>2 DEF IInv, NotYet
    <3> QED BY <3>1, <3>2
  <2> QED BY <2>1 DEF NotYet
<1>9. Asking'
  <2>1. asked[c] \in 0 .. MaxSends /\ (asked[c] = Never \/ asked[c] <= Len(s))
    BY <1>1, Lengths DEF IInv, Asking, s
  <2>2. asked'[c] = Never \/ asked'[c] <= Len(upstream'[c])
    BY <1>1, <1>3, <1>6, <2>1
  <2>3. ASSUME errno \in Retry
        PROVE  asked'[c] <= Len(upstream'[c])
    <3>1. asked[c] <= Len(s)
      BY <1>1, <2>3 DEF IInv, Asking, s
    <3> QED BY <1>1, <1>3, <1>6, <2>1, <3>1
  <2>4. \A d \in Conns : asked'[d] = Never \/ asked'[d] <= Len(upstream'[d])
    BY <1>1, <1>5, <2>2 DEF IInv, Asking
  <2> QED BY <1>1, <2>3, <2>4 DEF Asking
<1>10. ASSUME NEW d \in Conns, NEW j \in 1 .. Len(upstream'[d]),
              upstream'[d][j] = "part"
       PROVE  j > asked'[d] \/ (j = Len(upstream'[d]) /\ d # socket_fd')
  <2>1. CASE d # c
    <3>1. d # -1 /\ upstream'[d] = upstream[d] /\ asked'[d] = asked[d]
      BY <1>1, <1>5, <2>1, Lengths DEF IInv
    <3>2. j > asked[d] \/ (j = Len(upstream[d]) /\ d # c)
      BY <1>10, <3>1 DEF IInv, Parts
    <3> QED BY <2>1, <3>1, <3>2
  <2>2. CASE d = c /\ j \in 1 .. Len(s)
    <3>1. s[j] = "part"
      BY <1>6, <1>10, <2>2
    <3>2. j > asked[c]
      BY <1>1, <2>2, <3>1 DEF IInv, Parts, s
    <3> QED BY <1>1, <2>2, <3>2
  <2>3. CASE d = c /\ j = Len(s) + 1
    <3>1. what = "part"
      BY <1>6, <1>10, <2>3
    <3>2. CASE socket_fd' = -1
      BY <1>1, <1>6, <2>3, <3>2
    <3>3. CASE errno \in Retry
      <4>1. asked[c] <= Len(s) /\ asked[c] \in Nat
        BY <1>1, <3>3, Lengths DEF IInv, Asking, s
      <4> QED BY <1>1, <1>3, <2>3, <4>1
    <3> QED BY <3>1, <3>2, <3>3
  <2>4. d = c => j \in 1 .. Len(s) \/ j = Len(s) + 1
    BY <1>3, <1>6, <1>10
  <2> QED
    BY <2>1, <2>2, <2>3, <2>4
<1> QED
  BY <1>7, <1>8, <1>9, <1>10 DEF IInv, Parts

LEMMA StepKeeps == IInv /\ [Next]_vars => IInv'
<1> SUFFICES ASSUME IInv, [Next]_vars
             PROVE  IInv'
  OBVIOUS
<1>1. CASE SendOpens
  <2>1. CASE OpenInProgress
    <3>1. errno' \notin Retry /\ UNCHANGED asked
      BY <2>1 DEF OpenInProgress, Retry
    <3> QED
      BY <1>1, <2>1, <3>1, NewConnectionKeeps DEF SendOpens, OpenInProgress
  <2>2. CASE OpenAtOnce
    <3>1. (errno' \notin Retry /\ UNCHANGED asked) \/ Asked(opens + 1)
      BY <2>2 DEF OpenAtOnce, Retry
    <3> QED
      BY <1>1, <2>2, <3>1, NewConnectionKeeps DEF SendOpens, OpenAtOnce
  <2> QED BY <1>1, <2>1, <2>2 DEF SendOpens
<1>2. CASE SendUnopened
  BY <1>2, OthersKeepParts
     DEF SendUnopened, OpenAtOnceFails, OpenFails, network, Retry
<1>3. CASE SendWhole
  BY <1>3, WritesKeeps DEF SendWhole
<1>4. CASE SendPart
  BY <1>4, WritesKeeps DEF SendPart, Close
<1>5. CASE SendAgain
  BY <1>5, AskedKeeps DEF SendAgain, network
<1>6. CASE SendFails
  BY <1>6, OthersKeepParts DEF SendFails, Close, network
<1>7. CASE RecvAgain \/ RecvInterrupted
  BY <1>7, AskedKeeps DEF RecvAgain, RecvInterrupted, ProcessOnly
<1>8. CASE Process /\ ~RecvAgain /\ ~RecvInterrupted
  BY <1>8, OthersKeepParts DEF Process, RecvBytes, RecvNothing, RecvFails,
     NotOpen, ProcessOnly, Close, vars, network, history
<1>9. CASE (\E size \in Sizes : ServerSends(size)) \/ ServerCloses
  BY <1>9, OthersKeepParts DEF ServerSends, ServerCloses, ServerOnly, history
<1>10. CASE UNCHANGED vars
  BY <1>10, OthersKeepParts DEF vars, network, history
<1> QED
  BY <1>1, <1>2, <1>3, <1>4, <1>5, <1>6, <1>7, <1>8, <1>9, <1>10 DEF Next, Send

-----------------------------------------------------------------------------
(* What errno has told, and which packets may have gone out in part, agree *)
(* on every connection.                                                    *)
THEOREM Invariance == Spec => []IInv
<1> QED
  BY InitHolds, StepKeeps, PTL DEF Spec

(* On every connection the server is in frame up to the first time errno   *)
(* has told to try again.                                                  *)
THEOREM FramingKept == Spec => []Framed
<1>1. IInv => Framed
  <2> SUFFICES ASSUME IInv, NEW c \in Conns,
                      NEW j \in 1 .. Len(upstream[c]) - 1,
                      upstream[c][j] = "part"
               PROVE  j > asked[c]
    BY DEF Framed
  <2>1. j \in 1 .. Len(upstream[c]) /\ j # Len(upstream[c])
    BY Lengths DEF IInv
  <2> QED
    BY <2>1 DEF IInv, Parts
<1> QED
  BY Invariance, <1>1, PTL

-----------------------------------------------------------------------------
(***************************************************************************)
(* The receiving half: what the recursion of Cuts finds in any buffer.     *)
(***************************************************************************)
Bytes == [conn : Conns, packet : Nat \ {0}, at : Nat \ {0}, value : 0 .. 255]

(* Every set of naturals has a least element.                              *)
LEMMA LeastNatural ==
  ASSUME NEW T \in SUBSET Nat, T # {}
  PROVE  \E m \in T : \A n \in T : m <= n
<1> DEFINE R == OpToRel(<, Nat)
<1>1. IsWellFoundedOn(R, Nat)
  BY NatLessThanWellFounded
<1>2. PICK m \in T : \A n \in T : <<n, m>> \notin R
  <2> HIDE DEF R
  <2> QED BY <1>1, WFMin
<1>3. \A n \in T : ~(n < m)
  BY <1>2 DEF OpToRel
<1> QED
  BY <1>3

(* Counting down from the end of the buffer: what holds of a place if it   *)
(* holds of all places behind it, holds of all.                            *)
LEMMA Downwards ==
  ASSUME NEW L \in Nat, NEW S \in SUBSET (1 .. L),
         \A i \in 1 .. L : (\A k \in i + 1 .. L : k \in S) => i \in S
  PROVE  S = 1 .. L
<1> SUFFICES ASSUME S # 1 .. L
             PROVE  FALSE
  OBVIOUS
<1> DEFINE T == {L - i : i \in (1 .. L) \ S}
<1>1. T \in SUBSET Nat
  OBVIOUS
<1>2. T # {}
  <2>1. PICK i \in 1 .. L : i \notin S
    OBVIOUS
  <2> QED BY <2>1
<1>3. PICK m \in T : \A n \in T : m <= n
  <2> HIDE DEF T
  <2> QED BY <1>1, <1>2, LeastNatural
<1>4. PICK i \in (1 .. L) \ S : m = L - i
  BY <1>3
<1>5. ASSUME NEW k \in i + 1 .. L
      PROVE  k \in S
  <2>1. SUFFICES ASSUME k \notin S
                 PROVE  FALSE
    OBVIOUS
  <2>2. k \in 1 .. L /\ L - k < L - i
    BY <1>4
  <2>3. L - k \in T
    BY <2>1, <2>2
  <2>4. m <= L - k
    BY <1>3, <2>3
  <2> QED BY <1>4, <2>2, <2>4
<1> QED
  BY <1>4, <1>5

LEMMA SizeIsNat ==
  ASSUME NEW b \in Seq(Bytes), NEW i \in 1 .. Len(b), i + 1 \in 1 .. Len(b)
  PROVE  SizeAt(b, i) \in Nat
<1>1. b[i] \in Bytes /\ b[i + 1] \in Bytes
  OBVIOUS
<1>2. \A x \in Bytes : x.value \in 0 .. 255
  BY DEF Bytes
<1>3. b[i].value \in 0 .. 255 /\ b[i + 1].value \in 0 .. 255
  BY <1>1, <1>2
<1>4. \A u, v \in 0 .. 255 : u + 256 * v \in Nat
  OBVIOUS
<1> QED
  BY <1>3, <1>4 DEF SizeAt

(* At place i the loop of socketapi_process finds a whole packet; where it *)
(* goes then; and what is cut from there on, if g tells it for places that *)
(* are further behind.                                                     *)
WholeAt(b, i) == /\ HeadSize <= Len(b) + 1 - i
                 /\ i + HeadSize + SizeAt(b, i) <= Len(b) + 1
After(b, i) == i + HeadSize + SizeAt(b, i)
From(b, g, i) == IF WholeAt(b, i) THEN <<i>> \o g[After(b, i)] ELSE <<i>>

LEMMA CutsIs ==
  ASSUME NEW b \in Seq(Bytes)
  PROVE  Cuts(b) = (CHOOSE g : g = [i \in 1 .. Len(b) + 1 |-> From(b, g, i)])[1]
<1> DEFINE F(g, i) ==
      IF Len(b) + 1 - i < HeadSize THEN <<i>>
      ELSE LET next == i + HeadSize + SizeAt(b, i)
           IN  IF next <= Len(b) + 1 THEN <<i>> \o g[next] ELSE <<i>>
<1>1. Len(b) \in Nat
  OBVIOUS
<1>2. \A g : \A i \in 1 .. Len(b) + 1 : From(b, g, i) = F(g, i)
  BY <1>1 DEF From, WholeAt, After, HeadSize
<1>3. \A g : [i \in 1 .. Len(b) + 1 |-> From(b, g, i)]
              = [i \in 1 .. Len(b) + 1 |-> F(g, i)]
  BY <1>2
<1> QED
  BY <1>3, Zenon DEF Cuts

LEMMA CutsExists ==
  ASSUME NEW b \in Seq(Bytes)
  PROVE  \E g : g = [i \in 1 .. Len(b) + 1 |-> From(b, g, i)]
<1> DEFINE L == Len(b) + 1
           Has(m) == \E g : g = [i \in m .. L |-> From(b, g, i)]
           S == {m \in 1 .. L : Has(m)}
<1>1. L \in Nat \ {0}
  OBVIOUS
<1>2. ASSUME NEW m \in 1 .. L, \A k \in m + 1 .. L : k \in S
      PROVE  m \in S
  <2>1. Has(m + 1)
    <3>1. CASE m = L
      <4>1. m + 1 .. L = {}
        BY <1>1, <3>1
      <4>2. [i \in m + 1 .. L |-> <<>>] = [i \in m + 1 .. L |-> From(b, [j \in m + 1 .. L |-> <<>>], i)]
        BY <4>1
      <4> QED BY <4>2
    <3>2. CASE m # L
      <4>1. m + 1 \in m + 1 .. L
        BY <1>1, <3>2
      <4> QED BY <1>2, <4>1
    <3> QED BY <3>1, <3>2
  <2>2. PICK g : g = [i \in m + 1 .. L |-> From(b, g, i)]
    BY <2>1
  <2> DEFINE h == [i \in m .. L |-> IF i = m THEN From(b, g, m) ELSE g[i]]
  <2>3. ASSUME NEW i \in m .. L
        PROVE  h[i] = From(b, h, i)
    <3>1. WholeAt(b, i) => After(b, i) \in m + 1 .. L
      <4>1. WholeAt(b, i) => i \in 1 .. Len(b) /\ i + 1 \in 1 .. Len(b)
        BY DEF WholeAt, HeadSize
      <4>2. WholeAt(b, i) => SizeAt(b, i) \in Nat
        BY <4>1, SizeIsNat
      <4> QED BY <1>1, <4>2 DEF WholeAt, After, HeadSize
    <3>2. WholeAt(b, i) => h[After(b, i)] = g[After(b, i)]
      BY <3>1
    <3>3. From(b, h, i) = From(b, g, i)
      BY <3>2 DEF From
    <3>4. CASE i = m
      BY <3>3, <3>4
    <3>5. CASE i # m
      <4>1. i \in m + 1 .. L
        BY <1>1, <3>5
      <4>2. g[i] = From(b, g, i)
        BY <2>2, <4>1
      <4> QED BY <3>3, <3>5, <4>2
    <3> QED BY <3>4, <3>5
  <2>4. h = [i \in m .. L |-> From(b, h, i)]
    BY <2>3
  <2> QED
    BY <2>4
<1>3. S = 1 .. L
  <2> HIDE DEF Has
  <2> QED BY <1>1, <1>2, Downwards
<1>4. Has(1)
  BY <1>1, <1>3
<1> QED
  BY <1>4

(* The places of a pass, one after the other, beginning at place i.        *)
Chain(b, C, i) ==
  /\ C \in Seq(1 .. Len(b) + 1) /\ C # <<>> /\ C[1] = i
  /\ \A j \in 1 .. Len(C) - 1 : WholeAt(b, C[j]) /\ C[j + 1] = After(b, C[j])
  /\ ~WholeAt(b, C[Len(C)])

LEMMA CutsChain ==
  ASSUME NEW b \in Seq(Bytes)
  PROVE  Chain(b, Cuts(b), 1)
<1> DEFINE L == Len(b) + 1
<1>1. L \in Nat \ {0}
  OBVIOUS
<1>2. PICK g : g = [i \in 1 .. L |-> From(b, g, i)] /\ Cuts(b) = g[1]
  <2> DEFINE P(f) == f = [i \in 1 .. L |-> From(b, f, i)]
  <2>1. \E f : P(f)
    BY CutsExists
  <2>2. Cuts(b) = (CHOOSE f : P(f))[1]
    BY CutsIs
  <2> HIDE DEF P
  <2>3. P(CHOOSE f : P(f))
    BY <2>1
  <2> QED BY <2>2, <2>3 DEF P
<1> DEFINE S == {i \in 1 .. L : Chain(b, g[i], i)}
<1>3. ASSUME NEW i \in 1 .. L, \A k \in i + 1 .. L : k \in S
      PROVE  i \in S
  <2>1. g[i] = From(b, g, i)
    BY <1>2
  <2>2. CASE ~WholeAt(b, i)
    <3>1. g[i] = <<i>>
      BY <2>1, <2>2 DEF From
    <3>2. /\ g[i] \in Seq(1 .. Len(b) + 1) /\ Len(g[i]) = 1
          /\ g[i] # <<>> /\ g[i][1] = i
      BY <3>1
    <3>3. Chain(b, g[i], i)
      BY <2>2, <3>2 DEF Chain
    <3> QED BY <3>3
  <2>3. CASE WholeAt(b, i)
    <3> DEFINE next == After(b, i)
               C == g[next]
               D == <<i>> \o C
    <3>1. next \in i + 1 .. L
      <4>1. i \in 1 .. Len(b) /\ i + 1 \in 1 .. Len(b)
        BY <2>3 DEF WholeAt, HeadSize
      <4>2. SizeAt(b, i) \in Nat
        BY <4>1, SizeIsNat
      <4> QED BY <1>1, <2>3, <4>2 DEF WholeAt, After, HeadSize
    <3>2. Chain(b, C, next)
      BY <1>3, <3>1
    <3>3. g[i] = D
      BY <2>1, <2>3 DEF From
    <3> HIDE DEF C, next
    <3>4. C \in Seq(1 .. L) /\ Len(C) \in Nat \ {0}
      BY <3>2 DEF Chain
    <3>5. /\ D \in Seq(1 .. L) /\ Len(D) = Len(C) + 1 /\ D[1] = i /\ D # <<>>
          /\ \A j \in 1 .. Len(C) : D[j + 1] = C[j]
      BY <3>4
    <3> HIDE DEF D
    <3>6. ASSUME NEW j \in 1 .. Len(D) - 1
          PROVE  WholeAt(b, D[j]) /\ D[j + 1] = After(b, D[j])
      <4>1. CASE j = 1
        <5>1. D[2] = C[1]
          BY <3>4, <3>5
        <5> QED BY <2>3, <3>2, <3>5, <4>1, <5>1 DEF Chain, next
      <4>2. CASE j # 1
        <5>1. j - 1 \in 1 .. Len(C) - 1 /\ (j - 1) + 1 = j
          BY <3>4, <3>5, <4>2
        <5>2. j \in 1 .. Len(C) /\ j - 1 \in 1 .. Len(C)
          BY <3>4, <5>1
        <5>3. D[(j - 1) + 1] = C[j - 1] /\ D[j + 1] = C[j] /\ C[(j - 1) + 1] = C[j]
          BY <3>5, <5>1, <5>2
        <5> QED BY <3>2, <5>1, <5>3 DEF Chain
      <4> QED BY <4>1, <4>2
    <3>7. D[Len(D)] = C[Len(C)]
      BY <3>4, <3>5
    <3>8. Chain(b, D, i)
      BY <3>2, <3>5, <3>6, <3>7 DEF Chain
    <3> QED BY <3>3, <3>8
  <2> QED BY <2>2, <2>3
<1>4. S = 1 .. L
  <2> HIDE DEF S
  <2>1. S \in SUBSET (1 .. L)
    BY DEF S
  <2> QED BY <1>1, <1>3, <2>1, Downwards
<1>5. 1 \in S
  BY <1>1, <1>4
<1> QED
  BY <1>2, <1>5
-----------------------------------------------------------------------------
(* Every field in its type.  The theorem about sends knows the rest.       *)
Typed ==
  /\ opens \in 0 .. MaxOpens
  /\ socket_fd = -1 \/ (socket_fd = opens /\ opens \in Conns)
  /\ recvbuf \in Seq(Bytes) /\ Len(recvbuf) <= SOCKETAPI_RECVBUF_SIZE
  /\ errno \in Errnos
  /\ wire \in [Conns -> Seq(Bytes)]
  /\ packets \in [Conns -> 0 .. MaxPackets]
  /\ over \subseteq Conns
  /\ sends \in 0 .. MaxSends
  /\ delivered \in Seq(Seq(Bytes))
  /\ exact \in BOOLEAN /\ cut \in BOOLEAN

LEMMA CutsInside ==
  ASSUME NEW b \in Seq(Bytes)
  PROVE  /\ Len(Cuts(b)) \in Nat \ {0}
         /\ \A j \in 1 .. Len(Cuts(b)) : Cuts(b)[j] \in 1 .. Len(b) + 1
         /\ Stop(b) = Cuts(b)[Len(Cuts(b))] /\ Stop(b) \in 1 .. Len(b) + 1
         /\ Whole(b) \in Seq(Seq(Bytes)) /\ Len(Whole(b)) = Len(Cuts(b)) - 1
         /\ Remainder(b) \in Seq(Bytes) /\ Len(Remainder(b)) <= Len(b)
<1> DEFINE C == Cuts(b)
<1>1. /\ C \in Seq(1 .. Len(b) + 1) /\ C # <<>>
  BY CutsChain DEF Chain
<1>2. /\ Len(C) \in Nat \ {0}
      /\ \A j \in 1 .. Len(C) : C[j] \in 1 .. Len(b) + 1
  <2> HIDE DEF C
  <2> QED BY <1>1
<1>3. Stop(b) = C[Len(C)] /\ Stop(b) \in 1 .. Len(b) + 1
  <2>1. Stop(b) = C[Len(C)]
    BY DEF Stop, Last
  <2> HIDE DEF C
  <2> QED BY <1>2, <2>1
<1>4. ASSUME NEW j \in 1 .. Len(C) - 1
      PROVE  SubSeq(b, C[j], C[j + 1] - 1) \in Seq(Bytes)
  <2>1. j \in 1 .. Len(C) /\ j + 1 \in 1 .. Len(C)
    BY <1>2
  <2>2. C[j] \in 1 .. Len(b) + 1 /\ C[j + 1] \in 1 .. Len(b) + 1
    BY <1>2, <2>1
  <2> HIDE DEF C
  <2> QED BY <2>2
<1>5. Whole(b) \in Seq(Seq(Bytes)) /\ Len(Whole(b)) = Len(C) - 1
  <2>1. Whole(b) = [j \in 1 .. Len(C) - 1 |-> SubSeq(b, C[j], C[j + 1] - 1)]
    BY DEF Whole
  <2>2. Len(C) - 1 \in Nat
    BY <1>2
  <2> HIDE DEF C
  <2> QED BY <1>4, <2>1, <2>2
<1>6. Remainder(b) \in Seq(Bytes) /\ Len(Remainder(b)) <= Len(b)
  BY <1>3 DEF Remainder
<1> QED
  BY <1>2, <1>3, <1>5, <1>6

LEMMA Uint16 == UINT16_MAX \in Nat /\ UINT16_MAX < 256 * 256
BY DEF UINT16_MAX

(* The two bytes of a size are bytes, and give it back.                    *)
LEMMA ValueIs ==
  ASSUME NEW size \in 0 .. UINT16_MAX
  PROVE  /\ \A k \in Nat : Value(k, size) \in 0 .. 255
         /\ Value(1, size) + 256 * Value(2, size) = size
<1> DEFINE low  == size % 256
           high == size \div 256
<1>1. low \in 0 .. 255 /\ high \in 0 .. 255 /\ low + 256 * high = size
  BY Uint16
<1>2. Value(1, size) = low /\ Value(2, size) = high
  BY DEF Value
<1>3. ASSUME NEW k \in Nat, k # 1, k # 2
      PROVE  Value(k, size) = 0
  BY <1>3 DEF Value
<1> HIDE DEF low, high
<1>4. ASSUME NEW k \in Nat
      PROVE  Value(k, size) \in 0 .. 255
  <2>1. CASE k = 1
    BY <1>1, <1>2, <2>1
  <2>2. CASE k = 2
    BY <1>1, <1>2, <2>2
  <2>3. CASE k # 1 /\ k # 2
    BY <1>3, <2>3
  <2> QED BY <2>1, <2>2, <2>3
<1>5. Value(1, size) + 256 * Value(2, size) = size
  <2> DEFINE a == Value(1, size)
             b == Value(2, size)
  <2>1. a = low /\ b = high
    BY <1>2
  <2> HIDE DEF a, b
  <2>2. a + 256 * b = size
    BY <1>1, <2>1
  <2> QED BY <2>2 DEF a, b
<1> QED
  BY <1>4, <1>5

LEMMA PacketIs ==
  ASSUME NEW c \in Conns, NEW n \in Nat \ {0}, NEW size \in 0 .. UINT16_MAX
  PROVE  /\ Packet(c, n, size) \in Seq(Bytes)
         /\ Len(Packet(c, n, size)) = size + 2
         /\ \A k \in 1 .. size + 2 :
              Packet(c, n, size)[k] = Byte(c, n, k, Value(k, size))
<1>1. \A k \in 1 .. 2 + size : Byte(c, n, k, Value(k, size)) \in Bytes
  <2>1. \A k \in 1 .. 2 + size : Value(k, size) \in 0 .. 255
    BY ValueIs
  <2> QED BY <2>1 DEF Byte, Bytes
<1>2. 2 + size \in Nat /\ 2 + size = size + 2
  OBVIOUS
<1>3. Packet(c, n, size)
        = [k \in 1 .. 2 + size |-> Byte(c, n, k, Value(k, size))]
  BY DEF Packet, HeadSize
<1> QED
  BY <1>1, <1>2, <1>3

(* A pass of socketapi_process over recvbuf and the bytes that follow it.  *)
LEMMA PassTyped ==
  ASSUME Typed, NEW b \in Seq(Bytes), Len(b) <= SOCKETAPI_RECVBUF_SIZE, Pass(b),
         wire' \in [Conns -> Seq(Bytes)],
         UNCHANGED <<socket_fd, errno, opens, packets, over, sends, cut>>
  PROVE  Typed'
<1>1. /\ Whole(b) \in Seq(Seq(Bytes))
      /\ Remainder(b) \in Seq(Bytes) /\ Len(Remainder(b)) <= Len(b)
  BY CutsInside
<1>2. /\ recvbuf' \in Seq(Bytes) /\ Len(recvbuf') <= SOCKETAPI_RECVBUF_SIZE
      /\ delivered' \in Seq(Seq(Bytes)) /\ exact' \in BOOLEAN
  BY <1>1, SocketApiAssumption DEF Pass, Typed
<1> QED
  BY <1>2 DEF Typed

LEMMA RecvBytesGives ==
  ASSUME Typed, NEW n \in 1 .. SOCKETAPI_RECVBUF_SIZE, RecvBytes(n)
  PROVE  /\ recvbuf \o SubSeq(wire[socket_fd], 1, n) \in Seq(Bytes)
         /\ Len(recvbuf \o SubSeq(wire[socket_fd], 1, n)) = Len(recvbuf) + n
         /\ Len(recvbuf) + n <= SOCKETAPI_RECVBUF_SIZE
         /\ wire' \in [Conns -> Seq(Bytes)]
<1>1. /\ socket_fd \in Conns /\ n \in Nat /\ recvbuf \in Seq(Bytes)
      /\ wire[socket_fd] \in Seq(Bytes) /\ n <= Len(wire[socket_fd])
      /\ n <= SOCKETAPI_RECVBUF_SIZE - Len(recvbuf)
      /\ SOCKETAPI_RECVBUF_SIZE \in Nat
  BY SocketApiAssumption DEF RecvBytes, Typed, Room
<1> DEFINE w == wire[socket_fd]
<1>2. /\ SubSeq(w, 1, n) \in Seq(Bytes) /\ Len(SubSeq(w, 1, n)) = n
      /\ SubSeq(w, n + 1, Len(w)) \in Seq(Bytes)
  <2> HIDE DEF w
  <2> QED BY <1>1 DEF w
<1>3. wire' \in [Conns -> Seq(Bytes)]
  BY <1>1, <1>2 DEF RecvBytes, Typed
<1> HIDE DEF w
<1>4. recvbuf \o SubSeq(w, 1, n) \in Seq(Bytes)
      /\ Len(recvbuf \o SubSeq(w, 1, n)) = Len(recvbuf) + n
  BY <1>1, <1>2
<1>5. Len(recvbuf) + n <= SOCKETAPI_RECVBUF_SIZE
  BY <1>1
<1> QED
  BY <1>3, <1>4, <1>5 DEF w

LEMMA InitTyped == Init => Typed
<1> SUFFICES ASSUME Init
             PROVE  Typed
  OBVIOUS
<1>1. <<>> \in Seq(Bytes) /\ Len(<<>>) = 0 /\ <<>> \in Seq(Seq(Bytes))
  OBVIOUS
<1>2. wire \in [Conns -> Seq(Bytes)]
  BY <1>1 DEF Init
<1>3. packets \in [Conns -> 0 .. MaxPackets]
  BY SocketApiAssumption DEF Init
<1>4. recvbuf \in Seq(Bytes) /\ Len(recvbuf) <= SOCKETAPI_RECVBUF_SIZE
      /\ delivered \in Seq(Seq(Bytes))
  BY <1>1, SocketApiAssumption DEF Init
<1>5. /\ opens \in 0 .. MaxOpens /\ sends \in 0 .. MaxSends
      /\ socket_fd = -1 /\ errno \in Errnos
      /\ over \subseteq Conns
  BY Constants DEF Init, Errnos
<1>6. exact \in BOOLEAN /\ cut \in BOOLEAN
  BY DEF Init
<1> QED
  BY <1>2, <1>3, <1>4, <1>5, <1>6 DEF Typed

LEMMA StepTyped == Typed /\ [Next]_vars => Typed'
<1> SUFFICES ASSUME Typed, [Next]_vars
             PROVE  Typed'
  OBVIOUS
<1> USE DEF Typed, Errnos, Retry
<1>1. ASSUME Sending, SendOnly, UNCHANGED <<wire, packets, over>>,
             errno' \in Errnos,
             opens' \in 0 .. MaxOpens, cut' \in BOOLEAN,
             socket_fd' = -1 \/ (socket_fd' = opens' /\ opens' \in Conns)
      PROVE  Typed'
  BY <1>1, Constants DEF Sending, SendOnly
<1>2. ASSUME NewConnection
      PROVE  /\ opens' \in 0 .. MaxOpens /\ cut' \in BOOLEAN
             /\ socket_fd' = opens' /\ opens' \in Conns
             /\ UNCHANGED <<wire, packets, over>>
  BY <1>2, Constants DEF NewConnection, Conns
<1>3. CASE SendOpens
  BY <1>1, <1>2, <1>3 DEF SendOpens, OpenInProgress, OpenAtOnce
<1>4. CASE SendUnopened
  BY <1>1, <1>4 DEF SendUnopened, OpenAtOnceFails, OpenFails, network
<1>5. CASE SendWhole
  BY <1>1, <1>5 DEF SendWhole, Writes
<1>6. CASE SendPart
  BY <1>1, <1>6 DEF SendPart, Writes, Close
<1>7. CASE SendAgain \/ SendFails
  BY <1>1, <1>7 DEF SendAgain, SendFails, Close, network
<1>8. ASSUME NEW n \in 1 .. SOCKETAPI_RECVBUF_SIZE, RecvBytes(n)
      PROVE  Typed'
  <2> DEFINE b == recvbuf \o SubSeq(wire[socket_fd], 1, n)
  <2>1. /\ b \in Seq(Bytes) /\ Len(b) <= SOCKETAPI_RECVBUF_SIZE
        /\ wire' \in [Conns -> Seq(Bytes)]
    BY <1>8, RecvBytesGives
  <2>2. Pass(b) /\ UNCHANGED <<socket_fd, errno, opens, packets, over, sends, cut>>
    BY <1>8 DEF RecvBytes, ProcessOnly
  <2> HIDE DEF b
  <2> QED BY <2>1, <2>2, PassTyped
<1>9. CASE RecvNothing
  <2>1. /\ Pass(recvbuf) /\ UNCHANGED wire
        /\ UNCHANGED <<socket_fd, errno, opens, packets, over, sends, cut>>
    BY <1>9 DEF RecvNothing, ProcessOnly
  <2> QED BY <2>1, PassTyped
<1>10. CASE RecvAgain \/ RecvInterrupted \/ RecvFails \/ NotOpen
  BY <1>10 DEF RecvAgain, RecvInterrupted, RecvFails, NotOpen, ProcessOnly, Close, vars, network, history
<1>11. ASSUME NEW size \in Sizes, ServerSends(size)
       PROVE  Typed'
  <2>1. socket_fd \in Conns /\ packets[socket_fd] + 1 \in 1 .. MaxPackets
    BY <1>11, SocketApiAssumption DEF ServerSends
  <2>2. size \in 0 .. UINT16_MAX
    BY SocketApiAssumption
  <2>3. packets' \in [Conns -> 0 .. MaxPackets]
    BY <1>11, <2>1 DEF ServerSends
  <2>4. Packet(socket_fd, packets[socket_fd] + 1, size) \in Seq(Bytes)
    <3>1. packets[socket_fd] + 1 \in Nat \ {0}
      BY <2>1, SocketApiAssumption
    <3> QED BY <2>1, <2>2, <3>1, PacketIs
  <2>5. wire' = [wire EXCEPT ![socket_fd] =
                   @ \o Packet(socket_fd, packets[socket_fd] + 1, size)]
    BY <1>11, <2>1 DEF ServerSends
  <2>6. wire' \in [Conns -> Seq(Bytes)]
    BY <2>1, <2>4, <2>5
  <2> QED
    BY <1>11, <2>3, <2>6 DEF ServerSends, ServerOnly, history
<1>12. CASE ServerCloses
  BY <1>12 DEF ServerCloses, ServerOnly, history
<1>13. CASE UNCHANGED vars
  BY <1>13 DEF vars, network, history
<1> QED
  BY <1>3, <1>4, <1>5, <1>6, <1>7, <1>8, <1>9, <1>10, <1>11, <1>12, <1>13
     DEF Next, Send, Process

LEMMA AlwaysTyped == Spec => []Typed
BY InitTyped, StepTyped, PTL DEF Spec

(* The buffer is never overrun, and what is left in it after a pass is a   *)
(* part of it.                                                             *)
THEOREM TypeCorrect == Spec => []TypeOK
<1>1. Typed /\ IInv => TypeOK
  BY DEF Typed, IInv, TypesOK, TypeOK, Conns
<1> QED
  BY <1>1, AlwaysTyped, Invariance, PTL

-----------------------------------------------------------------------------
(***************************************************************************)
(* What on_recv is given, as long as no connection has been opened with a  *)
(* part of a packet in the buffer.                                         *)
(***************************************************************************)
(* What is in the buffer and what is still to come on the connection (or   *)
(* was, on the last one): a stream of whole packets.                       *)
Coming == IF opens = 0 THEN <<>> ELSE wire[opens]
Incoming == recvbuf \o Coming

(* At place i of s begins a whole packet with this size.                   *)
PacketAt(s, i, size) ==
  /\ i + 1 + size <= Len(s)
  /\ \A k \in 1 .. size + 2 :
       s[i + k - 1] = Byte(s[i].conn, s[i].packet, k, Value(k, size))

(* The packet of byte y comes next after that of byte x.                   *)
Follows(x, y) == \/ y.conn = x.conn /\ y.packet = x.packet + 1
                 \/ y.conn > x.conn /\ y.packet = 1

Before(x, y) == \/ x.conn < y.conn
                \/ x.conn = y.conn /\ x.packet < y.packet
                \/ x.conn = y.conn /\ x.packet = y.packet /\ x.at < y.at

Stream(s) ==
  /\ s \in Seq(Bytes)
  /\ s # <<>> => s[1].at = 1
  /\ \A i \in 1 .. Len(s) : s[i].at = 1 =>
       \E size \in 0 .. UINT16_MAX :
         /\ PacketAt(s, i, size)
         /\ i + size + 2 <= Len(s) =>
              s[i + size + 2].at = 1 /\ Follows(s[i], s[i + size + 2])
  /\ \A i, j \in 1 .. Len(s) : i < j => Before(s[i], s[j])

(* What on_recv has been given.                                            *)
Given == ToSet(delivered) \union seen
Has(c, n) == \E p \in Given : p[1].conn = c /\ p[1].packet = n

(* Packets of the server, none left out before one that was given.         *)
Told ==
  /\ \A p \in Given : \E c \in Conns : \E n \in 1 .. packets[c], size \in 0 .. UINT16_MAX :
       p = Packet(c, n, size)
  /\ \A p \in Given : p[1].packet = 1 \/ Has(p[1].conn, p[1].packet - 1)
  /\ \A j \in 1 .. Len(delivered) - 1 : Follows(delivered[j][1], delivered[j + 1][1])
  /\ ~exact => ToSet(delivered) \intersect seen = {}

(* The stream goes on where what was given ends.                           *)
Continues ==
  /\ Incoming # <<>> =>
       Incoming[1].packet = 1 \/ Has(Incoming[1].conn, Incoming[1].packet - 1)
  /\ \A i \in 1 .. Len(Incoming) :
       /\ Incoming[i].conn <= opens
       /\ Incoming[i].packet <= packets[Incoming[i].conn]
       /\ ~exact /\ Incoming[i].at = 1 => ~Has(Incoming[i].conn, Incoming[i].packet)

(* The server's next packet follows the last.                              *)
Latest ==
  opens > 0 =>
    LET last == Incoming[Len(Incoming)]
    IN  IF Incoming # <<>> /\ last.conn = opens
        THEN packets[opens] = last.packet
        ELSE packets[opens] = 0

Unopened == \A c \in Conns : c > opens => packets[c] = 0 /\ wire[c] = <<>>

InStep == Stream(Incoming) /\ Told /\ Continues /\ Latest

LEMMA ByteIs ==
  ASSUME NEW x \in Bytes
  PROVE  /\ x.conn \in Conns /\ x.conn \in Nat \ {0} /\ x.packet \in Nat \ {0}
         /\ x.at \in Nat \ {0} /\ x.value \in 0 .. 255
BY DEF Bytes, Conns

LEMMA ByteFields ==
  ASSUME NEW c, NEW n, NEW k, NEW v
  PROVE  /\ Byte(c, n, k, v).conn = c /\ Byte(c, n, k, v).packet = n
         /\ Byte(c, n, k, v).at = k /\ Byte(c, n, k, v).value = v
BY DEF Byte

(* A whole packet that a pass finds at the beginning of one is that one.   *)
LEMMA WholeIsPacket ==
  ASSUME NEW s, Stream(s), NEW b \in Seq(Bytes), Len(b) <= Len(s),
         \A i \in 1 .. Len(b) : b[i] = s[i],
         NEW i \in 1 .. Len(b) + 1, WholeAt(b, i), s[i].at = 1
  PROVE  \E size \in 0 .. UINT16_MAX :
           /\ i + size + 2 <= Len(b) + 1 /\ i + size + 2 <= Len(s) + 1
           /\ After(b, i) = i + size + 2
           /\ SubSeq(b, i, After(b, i) - 1) = Packet(s[i].conn, s[i].packet, size)
           /\ i + size + 2 <= Len(s) =>
                s[i + size + 2].at = 1 /\ Follows(s[i], s[i + size + 2])
<1>1. s \in Seq(Bytes) /\ Len(s) \in Nat /\ Len(b) \in Nat
  BY DEF Stream
<1>2. i \in 1 .. Len(b) /\ i + 1 \in 1 .. Len(b) /\ i \in 1 .. Len(s)
  BY <1>1 DEF WholeAt, HeadSize
<1>3. PICK size \in 0 .. UINT16_MAX :
        /\ PacketAt(s, i, size)
        /\ i + size + 2 <= Len(s) =>
             s[i + size + 2].at = 1 /\ Follows(s[i], s[i + size + 2])
  BY <1>2 DEF Stream
<1>4. \A k \in 1 .. size + 2 :
        s[i + k - 1] = Byte(s[i].conn, s[i].packet, k, Value(k, size))
  BY <1>3 DEF PacketAt
<1>5. SizeAt(b, i) = size
  <2>1. s[i] = s[i + 1 - 1] /\ s[i + 1] = s[i + 2 - 1]
        /\ 1 \in 1 .. size + 2 /\ 2 \in 1 .. size + 2
    BY <1>2
  <2>2. s[i].value = Value(1, size) /\ s[i + 1].value = Value(2, size)
    BY <1>4, <2>1, ByteFields
  <2>3. b[i] = s[i] /\ b[i + 1] = s[i + 1]
    BY <1>2
  <2> DEFINE u == Value(1, size)
             v == Value(2, size)
  <2>4. u + 256 * v = size
    BY ValueIs
  <2>5. b[i].value = u /\ b[i + 1].value = v
    BY <2>2, <2>3
  <2> HIDE DEF u, v
  <2> QED BY <2>4, <2>5 DEF SizeAt
<1>6. After(b, i) = i + size + 2
  BY <1>5 DEF After, HeadSize
<1>7. i + size + 2 <= Len(b) + 1 /\ i + size + 2 <= Len(s) + 1
  BY <1>1, <1>5, <1>2 DEF WholeAt, HeadSize
<1>8. SubSeq(b, i, After(b, i) - 1) = Packet(s[i].conn, s[i].packet, size)
  <2> DEFINE p == Packet(s[i].conn, s[i].packet, size)
             q == SubSeq(b, i, i + size + 1)
  <2>1. s[i] \in Bytes /\ s[i].conn \in Conns /\ s[i].packet \in Nat \ {0}
    BY <1>1, <1>2, ByteIs
  <2>2. p \in Seq(Bytes) /\ Len(p) = size + 2
        /\ \A k \in 1 .. size + 2 :
             p[k] = Byte(s[i].conn, s[i].packet, k, Value(k, size))
    BY <2>1, PacketIs
  <2>3. q \in Seq(Bytes) /\ Len(q) = size + 2
        /\ \A k \in 1 .. size + 2 : q[k] = b[i + k - 1]
    BY <1>1, <1>2, <1>7
  <2>4. \A k \in 1 .. size + 2 : i + k - 1 \in 1 .. Len(b)
    BY <1>1, <1>2, <1>7
  <2>5. \A k \in 1 .. size + 2 : p[k] = q[k]
    BY <1>4, <2>2, <2>3, <2>4
  <2>6. p = q
    <3> HIDE DEF p, q
    <3> QED BY <2>2, <2>3, <2>5
  <2>7. After(b, i) - 1 = i + size + 1
    BY <1>6, <1>2
  <2> QED BY <2>6, <2>7
<1> QED
  BY <1>3, <1>6, <1>7, <1>8

(* The places that a pass goes through are the beginnings of packets.      *)
LEMMA CutsAtPackets ==
  ASSUME NEW s, Stream(s), NEW b \in Seq(Bytes), Len(b) <= Len(s),
         \A i \in 1 .. Len(b) : b[i] = s[i],
         NEW j \in 1 .. Len(Cuts(b)), Cuts(b)[j] <= Len(s)
  PROVE  s[Cuts(b)[j]].at = 1
<1> DEFINE C == Cuts(b)
           Bad == {k \in 1 .. Len(C) : C[k] <= Len(s) /\ s[C[k]].at # 1}
<1>1. /\ Chain(b, C, 1) /\ Len(C) \in Nat \ {0}
      /\ Len(b) \in Nat /\ Len(s) \in Nat
      /\ \A k \in 1 .. Len(C) : C[k] \in 1 .. Len(b) + 1
  <2>1. Chain(b, C, 1)
    BY CutsChain
  <2>2. Len(C) \in Nat \ {0} /\ \A k \in 1 .. Len(C) : C[k] \in 1 .. Len(b) + 1
    BY CutsInside
  <2>3. Len(b) \in Nat /\ Len(s) \in Nat
    BY DEF Stream
  <2> QED BY <2>1, <2>2, <2>3
<1> HIDE DEF C
<1>2. SUFFICES ASSUME Bad # {}
               PROVE  FALSE
  BY DEF C
<1>3. PICK k \in Bad : \A l \in Bad : k <= l
  <2>1. Bad \in SUBSET Nat
    BY <1>1
  <2> HIDE DEF Bad
  <2> QED BY <1>2, <2>1, LeastNatural
<1>4. k \in 1 .. Len(C) /\ C[k] <= Len(s) /\ s[C[k]].at # 1
  BY <1>3
<1>5. CASE k = 1
  <2>1. C[k] = 1
    BY <1>1, <1>5 DEF Chain
  <2>2. s # <<>> => s[1].at = 1
    BY DEF Stream
  <2>3. s = <<>> => Len(s) = 0
    OBVIOUS
  <2> QED BY <1>4, <2>1, <2>2, <2>3
<1>6. CASE k # 1
  <2> DEFINE l == k - 1
  <2>1. l \in 1 .. Len(C) - 1 /\ l \in 1 .. Len(C) /\ l + 1 = k /\ ~(k <= l)
    BY <1>1, <1>4, <1>6
  <2> HIDE DEF l
  <2>2. WholeAt(b, C[l]) /\ C[k] = After(b, C[l]) /\ C[l] \in 1 .. Len(b) + 1
    BY <1>1, <2>1 DEF Chain
  <2>3. C[l] <= Len(s)
    BY <1>1, <2>2 DEF WholeAt, HeadSize
  <2>4. s[C[l]].at = 1
    BY <1>3, <2>1, <2>3
  <2>5. After(b, C[l]) <= Len(s) => s[After(b, C[l])].at = 1
    <3> DEFINE i == C[l]
    <3>1. i \in 1 .. Len(b) + 1 /\ WholeAt(b, i) /\ s[i].at = 1
      BY <2>2, <2>4
    <3> HIDE DEF i
    <3>2. \E size \in 0 .. UINT16_MAX :
            /\ After(b, i) = i + size + 2
            /\ i + size + 2 <= Len(s) =>
                 s[i + size + 2].at = 1 /\ Follows(s[i], s[i + size + 2])
      BY <3>1, WholeIsPacket
    <3>3. After(b, i) <= Len(s) => s[After(b, i)].at = 1
      BY <3>2
    <3> QED BY <3>3 DEF i
  <2> QED BY <1>4, <2>2, <2>5
<1> QED
  BY <1>5, <1>6

(* A pass hands over these packets, one after the other.                   *)
LEMMA PassGives ==
  ASSUME NEW s, Stream(s), NEW b \in Seq(Bytes), Len(b) <= Len(s),
         \A i \in 1 .. Len(b) : b[i] = s[i],
         NEW j \in 1 .. Len(Cuts(b)) - 1
  PROVE  LET i == Cuts(b)[j]
             next == Cuts(b)[j + 1]
         IN  /\ i \in 1 .. Len(b) /\ i \in 1 .. Len(s) /\ s[i].at = 1 /\ i < next
             /\ \E size \in 0 .. UINT16_MAX :
                  Whole(b)[j] = Packet(s[i].conn, s[i].packet, size)
             /\ Whole(b)[j][1].conn = s[i].conn
             /\ Whole(b)[j][1].packet = s[i].packet
             /\ next <= Len(s) => Follows(s[i], s[next])
<1> DEFINE C == Cuts(b)
           i == C[j]
<1>1. /\ Chain(b, C, 1) /\ Len(C) \in Nat \ {0}
      /\ Len(b) \in Nat /\ Len(s) \in Nat /\ s \in Seq(Bytes)
      /\ j \in 1 .. Len(C) /\ C[j] \in 1 .. Len(b) + 1
  <2>1. Chain(b, C, 1)
    BY CutsChain
  <2>2. Len(C) \in Nat \ {0} /\ \A k \in 1 .. Len(C) : C[k] \in 1 .. Len(b) + 1
    BY CutsInside
  <2>3. Len(b) \in Nat /\ Len(s) \in Nat /\ s \in Seq(Bytes)
    BY DEF Stream
  <2>4. j \in 1 .. Len(C)
    BY <2>2
  <2> QED BY <2>1, <2>2, <2>3, <2>4
<1>2. WholeAt(b, C[j]) /\ C[j + 1] = After(b, C[j])
  BY <1>1 DEF Chain
<1>3. i \in 1 .. Len(b) /\ i \in 1 .. Len(s)
  <2> HIDE DEF C
  <2> QED BY <1>1, <1>2 DEF WholeAt, HeadSize
<1>4. s[i].at = 1
  BY <1>1, <1>3, CutsAtPackets
<1>5. PICK size \in 0 .. UINT16_MAX :
        /\ After(b, i) = i + size + 2
        /\ SubSeq(b, i, After(b, i) - 1) = Packet(s[i].conn, s[i].packet, size)
        /\ i + size + 2 <= Len(s) => Follows(s[i], s[i + size + 2])
  BY <1>1, <1>2, <1>4, WholeIsPacket
<1>6. Whole(b)[j] = Packet(s[i].conn, s[i].packet, size)
  BY <1>2, <1>5 DEF Whole
<1>7. s[i].conn \in Conns /\ s[i].packet \in Nat \ {0}
  <2>1. s[i] \in Bytes
    BY <1>1, <1>3
  <2> QED BY <2>1, ByteIs
<1>8. Packet(s[i].conn, s[i].packet, size)[1]
        = Byte(s[i].conn, s[i].packet, 1, Value(1, size))
  <2>1. 1 \in 1 .. size + 2
    OBVIOUS
  <2> QED BY <1>7, <2>1, PacketIs
<1>9. Whole(b)[j][1].conn = s[i].conn /\ Whole(b)[j][1].packet = s[i].packet
  BY <1>6, <1>8, ByteFields
<1>10. i < C[j + 1] /\ (C[j + 1] <= Len(s) => Follows(s[i], s[C[j + 1]]))
  <2>1. C[j + 1] = i + size + 2
    BY <1>2, <1>5
  <2>2. i < i + size + 2
    <3>1. i \in Int
      BY <1>1, <1>3
    <3> HIDE DEF i
    <3> QED BY <3>1
  <2> QED BY <1>5, <2>1, <2>2
<1> QED
  BY <1>3, <1>4, <1>6, <1>9, <1>10

-----------------------------------------------------------------------------
(* From the beginning of a packet on, or up to one, a stream is a stream.  *)
LEMMA StreamFrom ==
  ASSUME NEW s, Stream(s), NEW f \in 1 .. Len(s), s[f].at = 1
  PROVE  LET t == SubSeq(s, f, Len(s))
         IN  /\ Stream(t) /\ Len(t) = Len(s) - f + 1
             /\ \A i \in 1 .. Len(t) : t[i] = s[f + i - 1] /\ f + i - 1 \in 1 .. Len(s)
<1> DEFINE t == SubSeq(s, f, Len(s))
           N == Len(s)
<1>1. s \in Seq(Bytes) /\ N \in Nat
  BY DEF Stream
<1>2. t \in Seq(Bytes) /\ Len(t) = N - f + 1
      /\ \A i \in 1 .. N - f + 1 : t[i] = s[f + i - 1]
  BY <1>1
<1>3. \A i \in 1 .. N - f + 1 : f + i - 1 \in 1 .. N
  BY <1>1
<1> HIDE DEF t
<1>4. t[1].at = 1
  <2>1. 1 \in 1 .. N - f + 1 /\ f + 1 - 1 = f
    BY <1>1
  <2> QED BY <1>2, <2>1
<1>5. ASSUME NEW i \in 1 .. Len(t), t[i].at = 1
      PROVE  \E size \in 0 .. UINT16_MAX :
               /\ PacketAt(t, i, size)
               /\ i + size + 2 <= Len(t) =>
                    t[i + size + 2].at = 1 /\ Follows(t[i], t[i + size + 2])
  <2> DEFINE g == f + i - 1
  <2>1. g \in 1 .. N /\ t[i] = s[g]
    BY <1>2, <1>3
  <2>2. PICK size \in 0 .. UINT16_MAX :
          /\ PacketAt(s, g, size)
          /\ g + size + 2 <= N =>
               s[g + size + 2].at = 1 /\ Follows(s[g], s[g + size + 2])
    BY <1>5, <2>1 DEF Stream
  <2>3. i + 1 + size <= Len(t)
    <3>1. g + 1 + size <= N
      BY <2>2 DEF PacketAt
    <3> QED BY <1>1, <1>2, <3>1
  <2>4. ASSUME NEW k \in 1 .. size + 2
        PROVE  t[i + k - 1] = Byte(t[i].conn, t[i].packet, k, Value(k, size))
    <3>1. i + k - 1 \in 1 .. N - f + 1 /\ f + (i + k - 1) - 1 = g + k - 1
      BY <1>1, <1>2, <2>3
    <3>2. t[i + k - 1] = s[g + k - 1]
      BY <1>2, <3>1
    <3> HIDE DEF g
    <3> QED BY <2>1, <2>2, <3>2 DEF PacketAt
  <2>5. PacketAt(t, i, size)
    BY <2>3, <2>4 DEF PacketAt
  <2>6. ASSUME i + size + 2 <= Len(t)
        PROVE  t[i + size + 2].at = 1 /\ Follows(t[i], t[i + size + 2])
    <3>1. i + size + 2 \in 1 .. N - f + 1 /\ f + (i + size + 2) - 1 = g + size + 2
          /\ g + size + 2 <= N
      BY <1>1, <1>2, <2>6
    <3> DEFINE m == i + size + 2
    <3> HIDE DEF g, m
    <3>2. t[m] = s[g + size + 2]
      <4>1. m \in 1 .. N - f + 1 /\ f + m - 1 = g + size + 2
        BY <3>1 DEF m
      <4>2. t[m] = s[f + m - 1]
        BY <1>2, <4>1
      <4> QED BY <4>1, <4>2
    <3> USE DEF m
    <3> QED BY <2>1, <2>2, <3>1, <3>2
  <2> QED BY <2>5, <2>6
<1>6. ASSUME NEW i \in 1 .. Len(t), NEW j \in 1 .. Len(t), i < j
      PROVE  Before(t[i], t[j])
  <2>1. f + i - 1 \in 1 .. N /\ f + j - 1 \in 1 .. N /\ f + i - 1 < f + j - 1
    BY <1>1, <1>2, <1>6
  <2>2. t[i] = s[f + i - 1] /\ t[j] = s[f + j - 1]
    BY <1>2
  <2> QED BY <2>1, <2>2 DEF Stream
<1>7. Stream(t)
  BY <1>2, <1>4, <1>5, <1>6 DEF Stream
<1> QED
  BY <1>2, <1>3, <1>7 DEF t

LEMMA StreamUpTo ==
  ASSUME NEW s, Stream(s), NEW b \in Seq(Bytes), Len(b) <= Len(s),
         \A i \in 1 .. Len(b) : b[i] = s[i],
         Len(b) < Len(s) => s[Len(b) + 1].at = 1
  PROVE  Stream(b)
<1> DEFINE N == Len(b)
<1>1. s \in Seq(Bytes) /\ N \in Nat /\ Len(s) \in Nat
  BY DEF Stream
<1>2. b # <<>> => b[1].at = 1
  <2>1. b # <<>> => 1 \in 1 .. N /\ s # <<>>
    BY <1>1
  <2> QED BY <2>1 DEF Stream
<1>3. ASSUME NEW i \in 1 .. N, b[i].at = 1
      PROVE  \E size \in 0 .. UINT16_MAX :
               /\ PacketAt(b, i, size)
               /\ i + size + 2 <= N =>
                    b[i + size + 2].at = 1 /\ Follows(b[i], b[i + size + 2])
  <2>1. i \in 1 .. Len(s) /\ s[i] = b[i]
    BY <1>1
  <2>2. PICK size \in 0 .. UINT16_MAX :
          /\ PacketAt(s, i, size)
          /\ i + size + 2 <= Len(s) =>
               s[i + size + 2].at = 1 /\ Follows(s[i], s[i + size + 2])
    BY <1>3, <2>1 DEF Stream
  <2>3. \A k \in 1 .. size + 2 :
          s[i + k - 1] = Byte(s[i].conn, s[i].packet, k, Value(k, size))
    BY <2>2 DEF PacketAt
  <2>4. i + 1 + size <= N
    <3> SUFFICES ASSUME N < i + 1 + size
                 PROVE  FALSE
      BY <1>1
    <3> DEFINE k == N + 2 - i
    <3>1. k \in 1 .. size + 2 /\ k # 1 /\ i + k - 1 = N + 1
      BY <1>1
    <3>2. N < Len(s)
      BY <1>1, <2>2 DEF PacketAt
    <3>3. s[N + 1].at = k
      <4> HIDE DEF k
      <4>1. s[i + k - 1].at = k
        BY <2>3, <3>1, ByteFields
      <4> QED BY <3>1, <4>1
    <3> HIDE DEF k
    <3> QED BY <3>1, <3>2, <3>3
  <2>5. \A k \in 1 .. size + 2 : b[i + k - 1] = s[i + k - 1]
    BY <1>1, <2>4
  <2>6. PacketAt(b, i, size)
    BY <2>1, <2>3, <2>4, <2>5 DEF PacketAt
  <2>7. ASSUME i + size + 2 <= N
        PROVE  b[i + size + 2].at = 1 /\ Follows(b[i], b[i + size + 2])
    <3>1. i + size + 2 \in 1 .. N /\ i + size + 2 <= Len(s)
      BY <1>1, <2>7
    <3> QED BY <2>1, <2>2, <3>1
  <2> QED BY <2>6, <2>7
<1>4. ASSUME NEW i \in 1 .. N, NEW j \in 1 .. N, i < j
      PROVE  Before(b[i], b[j])
  <2>1. i \in 1 .. Len(s) /\ j \in 1 .. Len(s)
    BY <1>1
  <2> QED BY <1>4, <2>1 DEF Stream
<1> QED
  BY <1>2, <1>3, <1>4 DEF Stream

(* Packet n of connection c comes next after the last of s.                *)
NextIs(s, c, n) ==
  s # <<>> => \/ s[Len(s)].conn = c /\ s[Len(s)].packet = n - 1
              \/ s[Len(s)].conn < c /\ n = 1

(* Stream t is stream s and after it a packet.                             *)
Appended(s, t, c, n, size) ==
  /\ Stream(t) /\ Len(t) = Len(s) + size + 2
  /\ \A i \in 1 .. Len(s) : t[i] = s[i]
  /\ \A k \in 1 .. size + 2 : t[Len(s) + k].conn = c /\ t[Len(s) + k].packet = n

(* What is appended to a sequence comes after it.                          *)
IsAppended(s, p, t) ==
  /\ t \in Seq(Bytes) /\ Len(t) = Len(s) + Len(p)
  /\ \A i \in 1 .. Len(s) : t[i] = s[i]
  /\ \A k \in 1 .. Len(p) : t[Len(s) + k] = p[k]

LEMMA Appending ==
  ASSUME NEW s \in Seq(Bytes), NEW p \in Seq(Bytes)
  PROVE  IsAppended(s, p, s \o p)
<1>1. s \o p \in Seq(Bytes) /\ Len(s \o p) = Len(s) + Len(p)
  OBVIOUS
<1>2. \A i \in 1 .. Len(s) : (s \o p)[i] = s[i]
  OBVIOUS
<1>3. \A k \in 1 .. Len(p) : (s \o p)[Len(s) + k] = p[k]
  OBVIOUS
<1> QED BY <1>1, <1>2, <1>3 DEF IsAppended

(* The server's next packet.                                               *)
LEMMA StreamAppend ==
  ASSUME NEW s, Stream(s), NEW c \in Conns, NEW n \in Nat \ {0},
         NEW size \in 0 .. UINT16_MAX,
         NextIs(s, c, n),
         NEW t, t = s \o Packet(c, n, size)
  PROVE  Appended(s, t, c, n, size)
<1> DEFINE p == Packet(c, n, size)
           N == Len(s)
           v(k) == Value(k, size)
<1> USE DEF NextIs
<1>1. s \in Seq(Bytes) /\ N \in Nat
  BY DEF Stream
<1>2. p \in Seq(Bytes) /\ Len(p) = size + 2
      /\ \A k \in 1 .. size + 2 : p[k] = Byte(c, n, k, v(k))
  BY PacketIs
<1>3. /\ t \in Seq(Bytes) /\ Len(t) = N + size + 2
      /\ \A i \in 1 .. N : t[i] = s[i]
      /\ \A k \in 1 .. size + 2 : t[N + k] = p[k]
  <2>1. t = s \o p
    OBVIOUS
  <2>2. size + 2 \in Nat /\ N + (size + 2) = N + size + 2
    BY <1>1, Uint16
  <2> HIDE DEF p
  <2>3. /\ t \in Seq(Bytes) /\ Len(t) = N + Len(p)
        /\ \A i \in 1 .. N : t[i] = s[i]
        /\ \A k \in 1 .. Len(p) : t[N + k] = p[k]
    <3>1. s \in Seq(Bytes) /\ p \in Seq(Bytes)
      BY <1>1, <1>2
    <3>2. IsAppended(s, p, s \o p)
      BY <3>1, Appending, Zenon
    <3>3. IsAppended(s, p, t)
      BY <2>1, <3>2, Zenon
    <3> QED BY <3>3, Zenon DEF IsAppended
  <2> QED BY <1>2, <2>2, <2>3
<1>4. \A k \in 1 .. size + 2 : t[N + k] = Byte(c, n, k, v(k))
  <2> HIDE DEF p, v
  <2> QED BY <1>2, <1>3
<1> HIDE DEF p, v
<1>5. c \in Nat
  BY DEF Conns
<1>6. \A i \in 1 .. N : /\ s[i] \in Bytes /\ s[i].conn \in Nat /\ s[i].packet \in Nat
                        /\ s[i].at \in Nat \ {0}
  <2>1. \A i \in 1 .. N : s[i] \in Bytes
    BY <1>1
  <2> QED BY <2>1, ByteIs
<1>7. \A i \in 1 .. N + size + 2 :
        i \in 1 .. N \/ (i - N \in 1 .. size + 2 /\ N + (i - N) = i)
  BY <1>1
<1>8. t # <<>> => t[1].at = 1
  <2>1. CASE s = <<>>
    <3>1. N = 0 /\ 1 \in 1 .. size + 2
      BY <2>1
    <3> QED BY <1>4, <3>1, ByteFields
  <2>2. CASE s # <<>>
    <3>1. 1 \in 1 .. N
      BY <1>1, <2>2
    <3> QED BY <1>3, <2>2, <3>1 DEF Stream
  <2> QED BY <2>1, <2>2
<1>9. ASSUME NEW i \in 1 .. Len(t), t[i].at = 1
      PROVE  \E z \in 0 .. UINT16_MAX :
               /\ PacketAt(t, i, z)
               /\ i + z + 2 <= Len(t) =>
                    t[i + z + 2].at = 1 /\ Follows(t[i], t[i + z + 2])
  <2>1. CASE i \in 1 .. N
    <3>1. t[i] = s[i] /\ s[i].at = 1
      BY <1>3, <1>9, <2>1
    <3>2. PICK z \in 0 .. UINT16_MAX :
            /\ PacketAt(s, i, z)
            /\ i + z + 2 <= N =>
                 s[i + z + 2].at = 1 /\ Follows(s[i], s[i + z + 2])
      BY <2>1, <3>1 DEF Stream
    <3>3. \A k \in 1 .. z + 2 :
            s[i + k - 1] = Byte(s[i].conn, s[i].packet, k, Value(k, z))
      BY <3>2 DEF PacketAt
    <3>8. i + 1 + z <= N
      BY <3>2 DEF PacketAt
    <3>4. \A k \in 1 .. z + 2 : i + k - 1 \in 1 .. N
      BY <1>1, <2>1, <3>8
    <3>9. \A k \in 1 .. z + 2 : t[i + k - 1] = s[i + k - 1]
      BY <1>3, <3>4
    <3>10. i + 1 + z <= Len(t)
      BY <1>1, <1>3, <3>8
    <3>5. PacketAt(t, i, z)
      BY <3>1, <3>3, <3>9, <3>10 DEF PacketAt
    <3>6. CASE i + z + 2 <= N
      <4>1. i + z + 2 \in 1 .. N
        BY <1>1, <3>6
      <4> QED BY <1>3, <3>1, <3>2, <3>5, <3>6, <4>1
    <3>7. CASE ~(i + z + 2 <= N)
      <4>1. /\ i + z + 2 = N + 1 /\ 1 \in 1 .. size + 2
            /\ z + 2 \in Nat \ {0} /\ i + (z + 2) - 1 = N
        <5> USE Uint16
        <5>1. i + z + 2 = N + 1
          BY <1>1, <3>8, <3>7
        <5>2. 1 \in 1 .. size + 2
          OBVIOUS
        <5>3. z + 2 \in Nat \ {0} /\ i + (z + 2) - 1 = i + z + 2 - 1
          BY <1>1
        <5> QED BY <1>1, <5>1, <5>2, <5>3
      <4>2. s[N].conn = s[i].conn /\ s[N].packet = s[i].packet
        <5> DEFINE l == z + 2
        <5>1. l \in 1 .. l
          BY <4>1
        <5>2. s[i + l - 1] = Byte(s[i].conn, s[i].packet, l, Value(l, z))
          BY <3>3, <5>1
        <5> DEFINE e == Byte(s[i].conn, s[i].packet, l, Value(l, z))
        <5>3. e.conn = s[i].conn /\ e.packet = s[i].packet
          <6> HIDE DEF l
          <6> QED BY DEF e, Byte
        <5>4. s[N] = e
          BY <4>1, <5>2
        <5> HIDE DEF e, l
        <5> QED BY <5>3, <5>4
      <4>3. t[N + 1].at = 1 /\ t[N + 1].conn = c /\ t[N + 1].packet = n
        <5>1. t[N + 1] = Byte(c, n, 1, v(1))
          BY <1>4, <4>1
        <5> QED BY <5>1, ByteFields
      <4>4. s # <<>>
        BY <2>1
      <4>5. s[i].packet \in Nat /\ s[i].conn \in Nat
        BY <1>6, <2>1
      <4>6. Follows(s[i], t[N + 1])
        BY <1>5, <4>2, <4>3, <4>4, <4>5 DEF Follows
      <4> QED BY <3>1, <3>5, <4>1, <4>3, <4>6
    <3> QED BY <3>6, <3>7
  <2>2. CASE i \notin 1 .. N
    <3>1. i - N \in 1 .. size + 2 /\ N + (i - N) = i
      BY <1>3, <1>7, <2>2
    <3>2. t[i].at = i - N
      BY <1>4, <3>1, ByteFields
    <3>3. i = N + 1
      BY <1>1, <1>9, <3>1, <3>2
    <3>4. 1 \in 1 .. size + 2
      OBVIOUS
    <3>5. t[i].conn = c /\ t[i].packet = n
      BY <1>4, <3>3, <3>4, ByteFields
    <3>6. \A k \in 1 .. size + 2 : i + k - 1 = N + k
      BY <1>1, <3>3
    <3>7. PacketAt(t, i, size)
      <4>1. \A k \in 1 .. size + 2 : t[i + k - 1] = Byte(t[i].conn, t[i].packet, k, v(k))
        BY <1>4, <3>5, <3>6
      <4>2. i + 1 + size <= Len(t)
        BY <1>1, <1>3, <3>3
      <4> QED BY <4>1, <4>2 DEF PacketAt, v
    <3>8. ~(i + size + 2 <= Len(t))
      BY <1>1, <1>3, <3>3
    <3> QED BY <3>7, <3>8
  <2> QED BY <2>1, <2>2
<1>10. ASSUME NEW i \in 1 .. Len(t), NEW j \in 1 .. Len(t), i < j
       PROVE  Before(t[i], t[j])
  <2>1. CASE j \in 1 .. N
    <3>1. i \in 1 .. N
      BY <1>10, <2>1
    <3> QED BY <1>3, <1>10, <2>1, <3>1 DEF Stream
  <2>2. CASE j \notin 1 .. N
    <3>1. j - N \in 1 .. size + 2 /\ N + (j - N) = j
      BY <1>3, <1>7, <2>2
    <3>2. t[j].conn = c /\ t[j].packet = n /\ t[j].at = j - N
      <4> DEFINE k == j - N
      <4> HIDE DEF k
      <4>1. t[N + k] = Byte(c, n, k, v(k))
        BY <1>4, <3>1 DEF k
      <4>2. t[j] = t[N + k]
        BY <3>1 DEF k
      <4>3. t[j].conn = c /\ t[j].packet = n /\ t[j].at = k
        BY <4>1, <4>2, ByteFields
      <4> QED BY <4>3 DEF k
    <3>3. CASE i \in 1 .. N
      <4>1. N \in 1 .. N /\ s # <<>>
        BY <1>1, <3>3
      <4>2. s[i] = s[N] \/ Before(s[i], s[N])
        BY <1>1, <3>3, <4>1 DEF Stream
      <4>3. s[i].conn < c \/ (s[i].conn = c /\ s[i].packet < n)
        BY <1>5, <1>6, <3>3, <4>1, <4>2 DEF Before
      <4> QED BY <1>3, <3>2, <3>3, <4>3 DEF Before
    <3>4. CASE i \notin 1 .. N
      <4>1. i - N \in 1 .. size + 2 /\ N + (i - N) = i
        BY <1>3, <1>7, <3>4
      <4>2. t[i].conn = c /\ t[i].packet = n /\ t[i].at = i - N
        <5> DEFINE k == i - N
        <5> HIDE DEF k
        <5>1. t[N + k] = Byte(c, n, k, v(k))
          BY <1>4, <4>1 DEF k
        <5>2. t[i] = t[N + k]
          BY <4>1 DEF k
        <5>3. t[i].conn = c /\ t[i].packet = n /\ t[i].at = k
          BY <5>1, <5>2, ByteFields
        <5> QED BY <5>3 DEF k
      <4>3. i - N < j - N
        BY <1>1, <1>10
      <4> QED BY <3>2, <4>2, <4>3 DEF Before
    <3> QED BY <3>3, <3>4
  <2> QED BY <2>1, <2>2
<1>11. Stream(t)
  BY <1>3, <1>8, <1>9, <1>10 DEF Stream
<1> QED
  BY <1>3, <1>4, <1>11, ByteFields DEF Appended

(* recv() moves bytes from the connection to the end of the buffer.        *)
LEMMA ReceivedAgain ==
  ASSUME NEW r \in Seq(Bytes), NEW w \in Seq(Bytes), NEW n \in 0 .. Len(w)
  PROVE  (r \o SubSeq(w, 1, n)) \o SubSeq(w, n + 1, Len(w)) = r \o w
<1> DEFINE u == SubSeq(w, 1, n)
           x == SubSeq(w, n + 1, Len(w))
<1>1. /\ u \in Seq(Bytes) /\ Len(u) = n /\ \A i \in 1 .. n : u[i] = w[i]
      /\ x \in Seq(Bytes) /\ Len(x) = Len(w) - n
      /\ \A i \in 1 .. Len(w) - n : x[i] = w[n + i]
  OBVIOUS
<1> HIDE DEF u, x
<1>2. /\ r \o u \in Seq(Bytes) /\ Len(r \o u) = Len(r) + n
      /\ \A i \in 1 .. Len(r) + n :
           (r \o u)[i] = IF i <= Len(r) THEN r[i] ELSE u[i - Len(r)]
  BY <1>1, ConcatProperties
<1>3. (r \o u) \o x \in Seq(Bytes) /\ Len((r \o u) \o x) = Len(r) + Len(w)
  <2> DEFINE a == r \o u
  <2>1. a \in Seq(Bytes) /\ Len(a) = Len(r) + n
    BY <1>2
  <2> HIDE DEF a
  <2>2. a \o x \in Seq(Bytes) /\ Len(a \o x) = Len(a) + Len(x)
    BY <1>1, <2>1, ConcatProperties
  <2>3. Len(a) + Len(x) = Len(r) + Len(w)
    BY <1>1, <2>1
  <2> QED BY <2>2, <2>3 DEF a
<1>4. r \o w \in Seq(Bytes) /\ Len(r \o w) = Len(r) + Len(w)
  OBVIOUS
<1>5. ASSUME NEW i \in 1 .. Len(r) + Len(w)
      PROVE  ((r \o u) \o x)[i] = (r \o w)[i]
  <2>1. CASE i <= Len(r) + n
    BY <1>1, <1>2, <2>1
  <2>2. CASE ~(i <= Len(r) + n)
    <3>1. ((r \o u) \o x)[i] = x[i - (Len(r) + n)]
      BY <1>1, <1>2, <2>2
    <3>2. i - (Len(r) + n) \in 1 .. Len(w) - n /\ n + (i - (Len(r) + n)) = i - Len(r)
      BY <2>2
    <3>3. x[i - (Len(r) + n)] = w[i - Len(r)]
      BY <1>1, <3>2
    <3>4. (r \o w)[i] = w[i - Len(r)]
      BY <2>2
    <3> QED BY <3>1, <3>3, <3>4
  <2> QED BY <2>1, <2>2
<1>6. (r \o u) \o x = r \o w
  <2> DEFINE a == (r \o u) \o x
             d == r \o w
  <2>1. a \in Seq(Bytes) /\ d \in Seq(Bytes) /\ Len(a) = Len(d)
        /\ \A i \in 1 .. Len(a) : a[i] = d[i]
    BY <1>3, <1>4, <1>5
  <2> HIDE DEF a, d
  <2>2. a = d
    BY <2>1, SeqEqual
  <2> QED BY <2>2 DEF a, d
<1> QED
  BY <1>6 DEF u, x

(* What a pass leaves is followed by the rest of the stream.               *)
LEMMA LeftAndComing ==
  ASSUME NEW b \in Seq(Bytes), NEW x \in Seq(Bytes), NEW f \in 1 .. Len(b)
  PROVE  SubSeq(b, f, Len(b)) \o x = SubSeq(b \o x, f, Len(b \o x))
<1> DEFINE l == SubSeq(b, f, Len(b))
           s == b \o x
           d == SubSeq(s, f, Len(s))
           N == Len(b) - f + 1 + Len(x)
<1>1. l \in Seq(Bytes) /\ Len(l) = Len(b) - f + 1
      /\ \A i \in 1 .. Len(b) - f + 1 : l[i] = b[f + i - 1]
  OBVIOUS
<1>2. /\ s \in Seq(Bytes) /\ Len(s) = Len(b) + Len(x)
      /\ \A i \in 1 .. Len(b) : s[i] = b[i]
      /\ \A i \in 1 .. Len(x) : s[Len(b) + i] = x[i]
  OBVIOUS
<1> HIDE DEF s, l
<1>3. d \in Seq(Bytes) /\ Len(d) = N /\ \A i \in 1 .. N : d[i] = s[f + i - 1]
  BY <1>2
<1>4. l \o x \in Seq(Bytes) /\ Len(l \o x) = N
      /\ \A i \in 1 .. N : (l \o x)[i] = IF i <= Len(l) THEN l[i] ELSE x[i - Len(l)]
  <2>1. N = Len(l) + Len(x)
    BY <1>1
  <2> HIDE DEF N
  <2> QED BY <1>1, <2>1, ConcatProperties
<1>5. ASSUME NEW i \in 1 .. N
      PROVE  (l \o x)[i] = d[i]
  <2>1. CASE i <= Len(l)
    <3>1. i \in 1 .. Len(b) - f + 1 /\ f + i - 1 \in 1 .. Len(b)
      BY <1>1, <2>1
    <3> QED BY <1>1, <1>2, <1>3, <1>4, <2>1, <3>1
  <2>2. CASE ~(i <= Len(l))
    <3>1. i - Len(l) \in 1 .. Len(x) /\ Len(b) + (i - Len(l)) = f + i - 1
      BY <1>1, <2>2
    <3>2. s[f + i - 1] = x[i - Len(l)]
      BY <1>2, <3>1
    <3> QED BY <1>3, <1>4, <2>2, <3>2
  <2> QED BY <2>1, <2>2
<1> HIDE DEF d, N
<1>6. l \o x = d
  <2> DEFINE a == l \o x
  <2>1. a \in Seq(Bytes) /\ Len(a) = Len(d) /\ \A i \in 1 .. Len(a) : a[i] = d[i]
    BY <1>3, <1>4, <1>5
  <2> HIDE DEF a
  <2>2. a = d
    BY <1>3, <2>1, SeqEqual
  <2> QED BY <2>2 DEF a
<1> QED
  BY <1>6 DEF l, d, s

(* Packets come to the end of a pass one after the other.                  *)
LEMMA CutsBeforeStop ==
  ASSUME NEW s, Stream(s), NEW b \in Seq(Bytes), Len(b) <= Len(s),
         \A i \in 1 .. Len(b) : b[i] = s[i],
         NEW j \in 1 .. Len(Cuts(b)) - 1
  PROVE  Cuts(b)[j] < Stop(b)
<1> DEFINE C == Cuts(b)
           M == Len(C) - 1
           S == {k \in 1 .. M : C[k] < C[M + 1]}
<1>1. M \in Nat /\ Stop(b) = C[M + 1] /\ \A k \in 1 .. M + 1 : C[k] \in Nat
  <2>1. /\ Len(C) \in Nat \ {0} /\ Stop(b) = C[Len(C)]
        /\ \A k \in 1 .. Len(C) : C[k] \in 1 .. Len(b) + 1
    BY CutsInside
  <2> HIDE DEF C
  <2> QED BY <2>1
<1>2. \A k \in 1 .. M : C[k] < C[k + 1]
  BY PassGives
<1> HIDE DEF C
<1>3. ASSUME NEW k \in 1 .. M, \A l \in k + 1 .. M : l \in S
      PROVE  k \in S
  <2>1. CASE k = M
    BY <1>2, <2>1
  <2>2. CASE k # M
    <3>1. k + 1 \in 1 .. M /\ k + 1 \in k + 1 .. M
      BY <1>1, <2>2
    <3>2. C[k] < C[k + 1] /\ C[k + 1] < C[M + 1]
      BY <1>2, <1>3, <3>1
    <3>3. C[k] \in Nat /\ C[k + 1] \in Nat /\ C[M + 1] \in Nat
      BY <1>1, <3>1
    <3> QED BY <3>2, <3>3
  <2> QED BY <2>1, <2>2
<1>4. S = 1 .. M
  <2> HIDE DEF S, M
  <2>1. S \in SUBSET (1 .. M)
    BY DEF S
  <2> QED BY <1>1, <1>3, <2>1, Downwards
<1>5. j \in 1 .. M
  BY DEF C
<1> QED
  BY <1>1, <1>4, <1>5 DEF C

(* A pass leaves the stream from where it stops on; all of it, when it has *)
(* ended with a whole packet.                                              *)
LEMMA PassLeaves ==
  ASSUME NEW b \in Seq(Bytes), NEW x \in Seq(Bytes), Stream(b \o x)
  PROVE  LET s == b \o x
             t == Remainder(b) \o x
         IN  /\ Stream(t)
             /\ IF Stop(b) <= Len(b)
                THEN /\ Stop(b) \in 1 .. Len(s)
                     /\ s[Stop(b)].at = 1
                     /\ Len(t) = Len(s) - Stop(b) + 1
                     /\ \A i \in 1 .. Len(t) :
                          t[i] = s[Stop(b) + i - 1] /\ Stop(b) + i - 1 \in 1 .. Len(s)
                ELSE t = s
<1> DEFINE s == b \o x
           f == Stop(b)
           t == Remainder(b) \o x
<1>1. /\ s \in Seq(Bytes) /\ Len(s) = Len(b) + Len(x)
      /\ \A i \in 1 .. Len(b) : b[i] = s[i]
  OBVIOUS
<1>2. CASE ~(f <= Len(b))
  BY <1>2 DEF Remainder
<1>3. CASE f <= Len(b)
  <2>1. /\ Len(Cuts(b)) \in Nat \ {0} /\ f = Cuts(b)[Len(Cuts(b))]
        /\ f \in 1 .. Len(b) + 1
    BY CutsInside
  <2>2. f \in 1 .. Len(b) /\ f \in 1 .. Len(s) /\ Len(b) <= Len(s)
    BY <1>1, <1>3, <2>1
  <2>3. t = SubSeq(s, f, Len(s))
    BY <1>3, <2>2, LeftAndComing DEF Remainder
  <2> HIDE DEF s, f, t
  <2>4. Stream(s)
    BY DEF s
  <2>5. s[f].at = 1
    <3>1. Len(Cuts(b)) \in 1 .. Len(Cuts(b)) /\ Cuts(b)[Len(Cuts(b))] <= Len(s)
      BY <1>1, <2>1, <2>2
    <3> QED BY <1>1, <2>1, <2>2, <2>4, <3>1, CutsAtPackets
  <2>6. /\ Stream(t) /\ Len(t) = Len(s) - f + 1
        /\ \A i \in 1 .. Len(t) : t[i] = s[f + i - 1] /\ f + i - 1 \in 1 .. Len(s)
    BY <2>2, <2>3, <2>4, <2>5, StreamFrom
  <2> QED BY <1>3, <2>2, <2>5, <2>6 DEF s, f, t
<1> QED
  BY <1>2, <1>3

(* A pass keeps all this.                                                  *)
LEMMA PassKeeps ==
  ASSUME Typed, InStep, NEW b \in Seq(Bytes), NEW x \in Seq(Bytes),
         Incoming = b \o x, Coming' = x, Pass(b), UNCHANGED <<opens, packets>>
  PROVE  InStep'
<1> DEFINE s == Incoming
           C == Cuts(b)
           M == Len(C) - 1
           W == Whole(b)
           f == Stop(b)
<1>1. /\ Stream(s) /\ s \in Seq(Bytes) /\ Len(s) = Len(b) + Len(x)
      /\ Len(b) <= Len(s) /\ \A i \in 1 .. Len(b) : b[i] = s[i]
  BY DEF InStep
<1>2. /\ M \in Nat /\ Len(C) = M + 1 /\ f = C[M + 1] /\ f \in 1 .. Len(b) + 1
      /\ W \in Seq(Seq(Bytes)) /\ Len(W) = M
      /\ C[1] = 1
      /\ \A j \in 1 .. M + 1 : C[j] \in 1 .. Len(b) + 1
  <2>1. /\ Len(C) \in Nat \ {0} /\ f = C[Len(C)] /\ f \in 1 .. Len(b) + 1
        /\ W \in Seq(Seq(Bytes)) /\ Len(W) = Len(C) - 1
        /\ \A j \in 1 .. Len(C) : C[j] \in 1 .. Len(b) + 1
    BY CutsInside
  <2>2. C[1] = 1
    BY CutsChain DEF Chain
  <2> HIDE DEF C, W, f
  <2> QED BY <2>1, <2>2
<1>3. \A j \in 1 .. M :
        /\ C[j] \in 1 .. Len(s) /\ s[C[j]].at = 1 /\ C[j] < f
        /\ \E size \in 0 .. UINT16_MAX :
             W[j] = Packet(s[C[j]].conn, s[C[j]].packet, size)
        /\ W[j][1].conn = s[C[j]].conn /\ W[j][1].packet = s[C[j]].packet
        /\ C[j + 1] <= Len(s) => Follows(s[C[j]], s[C[j + 1]])
  <2>1. \A j \in 1 .. M : C[j] < f
    BY <1>1, CutsBeforeStop
  <2>2. ASSUME NEW j \in 1 .. M
        PROVE  /\ C[j] \in 1 .. Len(s) /\ s[C[j]].at = 1
               /\ \E size \in 0 .. UINT16_MAX :
                    W[j] = Packet(s[C[j]].conn, s[C[j]].packet, size)
               /\ W[j][1].conn = s[C[j]].conn /\ W[j][1].packet = s[C[j]].packet
               /\ C[j + 1] <= Len(s) => Follows(s[C[j]], s[C[j + 1]])
    <3>1. j \in 1 .. Len(Cuts(b)) - 1
      OBVIOUS
    <3> HIDE DEF s, C, W, f, M
    <3>2. LET i == Cuts(b)[j]
              next == Cuts(b)[j + 1]
          IN  /\ i \in 1 .. Len(b) /\ i \in 1 .. Len(s) /\ s[i].at = 1 /\ i < next
              /\ \E size \in 0 .. UINT16_MAX :
                   Whole(b)[j] = Packet(s[i].conn, s[i].packet, size)
              /\ Whole(b)[j][1].conn = s[i].conn
              /\ Whole(b)[j][1].packet = s[i].packet
              /\ next <= Len(s) => Follows(s[i], s[next])
      <4>1. Stream(s) /\ Len(b) <= Len(s) /\ \A i \in 1 .. Len(b) : b[i] = s[i]
        BY <1>1
      <4> QED BY <3>1, <4>1, PassGives
    <3> QED BY <3>2 DEF C, W, f, M
  <2> HIDE DEF s, C, W, f
  <2> QED BY <2>1, <2>2
<1>4. Incoming' = Remainder(b) \o x
  BY DEF Incoming, Pass
<1>5. /\ delivered' = W /\ Given' = ToSet(W) \union Given
      /\ seen' = Given
      /\ exact' = (exact \/ (W # <<>> /\ f = Len(b) + 1))
  BY DEF Given, Pass
<1>6. /\ Stream(Incoming')
      /\ IF f <= Len(b)
         THEN /\ f \in 1 .. Len(s) /\ s[f].at = 1
              /\ Len(Incoming') = Len(s) - f + 1
              /\ \A i \in 1 .. Len(Incoming') :
                   Incoming'[i] = s[f + i - 1] /\ f + i - 1 \in 1 .. Len(s)
         ELSE Incoming' = s
  BY <1>1, <1>4, PassLeaves
<1> HIDE DEF s, C, W, f, M
<1>7. \A i \in 1 .. Len(s) :
        /\ s[i] \in Bytes /\ s[i].conn \in Conns /\ s[i].packet \in Nat \ {0}
        /\ s[i].packet <= packets[s[i].conn] /\ s[i].conn <= opens
        /\ ~exact /\ s[i].at = 1 => ~Has(s[i].conn, s[i].packet)
  <2>1. \A i \in 1 .. Len(s) :
          /\ s[i].packet <= packets[s[i].conn] /\ s[i].conn <= opens
          /\ ~exact /\ s[i].at = 1 => ~Has(s[i].conn, s[i].packet)
    BY DEF s, InStep, Continues
  <2>2. \A i \in 1 .. Len(s) : s[i] \in Bytes
    BY <1>1
  <2> QED BY <2>1, <2>2, ByteIs
<1> DEFINE Now(c, n) == \E j \in 1 .. M : s[C[j]].conn = c /\ s[C[j]].packet = n
           HasNow(c, n) == \E p \in Given' : p[1].conn = c /\ p[1].packet = n
<1>8. ToSet(W) = {W[j] : j \in 1 .. M}
  <2>1. DOMAIN W = 1 .. M
    BY <1>2
  <2> QED BY <2>1 DEF ToSet
<1>9. ASSUME NEW c, NEW n
      PROVE  HasNow(c, n) <=> Has(c, n) \/ Now(c, n)
  <2>2. Has(c, n) <=> \E p \in Given : p[1].conn = c /\ p[1].packet = n
    BY DEF Has
  <2>3. (\E p \in ToSet(W) : p[1].conn = c /\ p[1].packet = n) <=> Now(c, n)
    <3>1. \A j \in 1 .. M : /\ W[j][1].conn = s[C[j]].conn
                           /\ W[j][1].packet = s[C[j]].packet
      BY <1>3
    <3>2. (\E p \in ToSet(W) : p[1].conn = c /\ p[1].packet = n)
            <=> \E j \in 1 .. M : W[j][1].conn = c /\ W[j][1].packet = n
      BY <1>8
    <3> QED BY <3>1, <3>2
  <2> QED BY <1>5, <2>2, <2>3
<1> HIDE DEF Now, HasNow
<1>10. ASSUME NEW j \in 1 .. M + 1, C[j] <= Len(s)
       PROVE  s[C[j]].packet = 1 \/ HasNow(s[C[j]].conn, s[C[j]].packet - 1)
  <2>1. C[j] \in 1 .. Len(s)
    BY <1>1, <1>2, <1>10
  <2>2. CASE j = 1
    <3>1. C[j] = 1 /\ s # <<>>
      BY <1>2, <2>1, <2>2
    <3>2. s[1].packet = 1 \/ Has(s[1].conn, s[1].packet - 1)
      BY <3>1 DEF s, InStep, Continues
    <3> QED BY <1>9, <3>1, <3>2
  <2>3. CASE j # 1
    <3> DEFINE k == j - 1
    <3>1. k \in 1 .. M /\ k + 1 = j
      BY <1>2, <2>3
    <3>2. Follows(s[C[k]], s[C[j]])
      BY <1>3, <1>10, <3>1
    <3>3. C[k] \in 1 .. Len(s)
      BY <1>3, <3>1
    <3>4. s[C[k]].packet \in Nat
      BY <1>7, <3>3
    <3> HIDE DEF k
    <3>5. CASE s[C[j]].conn = s[C[k]].conn /\ s[C[j]].packet = s[C[k]].packet + 1
      <4>1. s[C[j]].packet - 1 = s[C[k]].packet
        BY <3>4, <3>5
      <4>2. Now(s[C[j]].conn, s[C[j]].packet - 1)
        BY <3>1, <3>5, <4>1 DEF Now
      <4> QED BY <1>9, <4>2
    <3> QED BY <3>2, <3>5 DEF Follows
  <2> QED BY <2>2, <2>3
<1>11. Told'
  <2>1. ASSUME NEW p \in Given'
        PROVE  \E c \in Conns : \E n \in 1 .. packets[c], size \in 0 .. UINT16_MAX :
                 p = Packet(c, n, size)
    <3>1. CASE p \in Given
      BY <3>1 DEF InStep, Told
    <3>2. CASE p \in ToSet(W)
      <4>1. PICK j \in 1 .. M : p = W[j]
        BY <1>8, <3>2
      <4>2. PICK size \in 0 .. UINT16_MAX : p = Packet(s[C[j]].conn, s[C[j]].packet, size)
        BY <1>3, <4>1
      <4>3. C[j] \in 1 .. Len(s)
        BY <1>3
      <4> DEFINE y == s[C[j]]
      <4>4. /\ y.conn \in Conns /\ y.packet \in Nat \ {0}
            /\ y.packet <= packets[y.conn]
        BY <1>7, <4>3
      <4>5. packets[y.conn] \in Nat
        BY <4>4, SocketApiAssumption DEF Typed
      <4> HIDE DEF y
      <4>6. y.packet \in 1 .. packets[y.conn]
        BY <4>4, <4>5
      <4>7. p = Packet(y.conn, y.packet, size)
        BY <4>2 DEF y
      <4> QED BY <4>4, <4>6, <4>7
    <3> QED BY <1>5, <3>1, <3>2
  <2>2. ASSUME NEW p \in Given'
        PROVE  p[1].packet = 1 \/ HasNow(p[1].conn, p[1].packet - 1)
    <3>1. CASE p \in Given
      <4>1. p[1].packet = 1 \/ Has(p[1].conn, p[1].packet - 1)
        BY <3>1 DEF InStep, Told
      <4> QED BY <1>9, <4>1
    <3>2. CASE p \in ToSet(W)
      <4>1. PICK j \in 1 .. M : p = W[j]
        BY <1>8, <3>2
      <4>2. /\ p[1].conn = s[C[j]].conn /\ p[1].packet = s[C[j]].packet
            /\ C[j] \in 1 .. Len(s)
        BY <1>3, <4>1
      <4>3. j \in 1 .. M + 1 /\ C[j] <= Len(s)
        BY <1>2, <4>2
      <4> QED BY <1>10, <4>2, <4>3
    <3> QED BY <1>5, <3>1, <3>2
  <2>3. ASSUME NEW j \in 1 .. Len(W) - 1
        PROVE  Follows(W[j][1], W[j + 1][1])
    <3>1. j \in 1 .. M /\ j + 1 \in 1 .. M
      BY <1>2
    <3>2. C[j + 1] \in 1 .. Len(s)
      BY <1>3, <3>1
    <3>3. C[j + 1] <= Len(s)
      BY <1>1, <3>2
    <3>4. Follows(s[C[j]], s[C[j + 1]])
      BY <1>3, <3>1, <3>3
    <3>5. /\ W[j][1].conn = s[C[j]].conn /\ W[j][1].packet = s[C[j]].packet
          /\ W[j + 1][1].conn = s[C[j + 1]].conn
          /\ W[j + 1][1].packet = s[C[j + 1]].packet
      BY <1>3, <3>1
    <3> QED BY <3>4, <3>5 DEF Follows
  <2>4. ASSUME ~exact', NEW p \in ToSet(W)
        PROVE  p \notin Given
    <3>1. PICK j \in 1 .. M : p = W[j]
      BY <1>8, <2>4
    <3>2. /\ p[1].conn = s[C[j]].conn /\ p[1].packet = s[C[j]].packet
          /\ C[j] \in 1 .. Len(s) /\ s[C[j]].at = 1
      BY <1>3, <3>1
    <3>3. ~exact
      BY <1>5, <2>4
    <3>4. ~Has(p[1].conn, p[1].packet)
      BY <1>7, <3>2, <3>3
    <3> QED BY <3>4 DEF Has
  <2>5. ~exact' => ToSet(delivered') \intersect seen' = {}
    BY <1>5, <2>4
  <2> QED BY <1>5, <2>1, <2>2, <2>3, <2>5 DEF Told, Has, HasNow
<1>12. Continues'
  <2>1. ASSUME Incoming' # <<>>
        PROVE  Incoming'[1].packet = 1
                 \/ HasNow(Incoming'[1].conn, Incoming'[1].packet - 1)
    <3>1. \E j \in 1 .. M + 1 : C[j] <= Len(s) /\ Incoming'[1] = s[C[j]]
      <4>1. CASE f <= Len(b)
        <5>1. M + 1 \in 1 .. M + 1 /\ C[M + 1] <= Len(s)
          BY <1>1, <1>2, <4>1
        <5>2. 1 \in 1 .. Len(Incoming') /\ f + 1 - 1 = f
          BY <1>1, <1>2, <1>6, <4>1
        <5>3. Incoming'[1] = s[f]
          BY <1>6, <4>1, <5>2
        <5> QED BY <1>2, <5>1, <5>3
      <4>2. CASE ~(f <= Len(b))
        <5>1. Incoming' = s
          BY <1>6, <4>2
        <5>2. 1 <= Len(s) /\ 1 \in 1 .. M + 1
          BY <1>1, <1>2, <2>1, <5>1
        <5> QED BY <1>2, <5>1, <5>2
      <4> QED BY <4>1, <4>2
    <3> QED BY <1>10, <3>1
  <2>2. ASSUME NEW i \in 1 .. Len(Incoming')
        PROVE  \E k \in 1 .. Len(s) :
                 /\ Incoming'[i] = s[k]
                 /\ ~exact' /\ s[k].at = 1 => ~Now(s[k].conn, s[k].packet)
    <3>1. CASE f <= Len(b)
      <4> DEFINE k == f + i - 1
      <4>1. k \in 1 .. Len(s) /\ Incoming'[i] = s[k]
        BY <1>6, <3>1
      <4>2. f <= k
        BY <1>2
      <4> HIDE DEF k
      <4>3. ASSUME NEW j \in 1 .. M, s[C[j]].conn = s[k].conn,
                   s[C[j]].packet = s[k].packet, s[k].at = 1
            PROVE  FALSE
        <5>1. C[j] \in 1 .. Len(s) /\ C[j] < k /\ s[C[j]].at = 1
          <6>1. C[j] \in 1 .. Len(s) /\ C[j] < f /\ s[C[j]].at = 1
            BY <1>3
          <6>2. C[j] \in Int /\ f \in Int /\ k \in Int
            BY <1>2, <4>1, <6>1
          <6>3. C[j] < k
            BY <4>2, <6>1, <6>2
          <6> QED BY <6>1, <6>3
        <5>2. Before(s[C[j]], s[k])
          BY <1>1, <4>1, <5>1 DEF Stream
        <5>3. s[k].conn \in Nat /\ s[k].packet \in Nat
          BY <1>7, <4>1 DEF Conns
        <5> QED BY <4>3, <5>1, <5>2, <5>3 DEF Before
      <4> QED BY <4>1, <4>3 DEF Now
    <3>2. CASE ~(f <= Len(b))
      <4>1. Incoming' = s
        BY <1>6, <3>2
      <4>2. f = Len(b) + 1
        BY <1>2, <3>2
      <4>3. ~exact' => M = 0
        <5>1. M # 0 => W # <<>>
          BY <1>2
        <5> QED BY <1>5, <4>2, <5>1
      <4>4. M = 0 => ~Now(s[i].conn, s[i].packet)
        BY DEF Now
      <4> QED BY <4>1, <4>3, <4>4
    <3> QED BY <3>1, <3>2
  <2>3. ASSUME NEW i \in 1 .. Len(Incoming')
        PROVE  /\ Incoming'[i].conn <= opens'
               /\ Incoming'[i].packet <= packets'[Incoming'[i].conn]
               /\ ~exact' /\ Incoming'[i].at = 1
                    => ~HasNow(Incoming'[i].conn, Incoming'[i].packet)
    <3>1. PICK k \in 1 .. Len(s) :
            /\ Incoming'[i] = s[k]
            /\ ~exact' /\ s[k].at = 1 => ~Now(s[k].conn, s[k].packet)
      BY <2>2
    <3>2. /\ s[k].packet <= packets[s[k].conn] /\ s[k].conn <= opens
          /\ ~exact /\ s[k].at = 1 => ~Has(s[k].conn, s[k].packet)
      BY <1>7
    <3>3. ~exact' => ~exact
      BY <1>5
    <3>4. ~exact' /\ s[k].at = 1 => ~HasNow(s[k].conn, s[k].packet)
      BY <1>9, <3>1, <3>2, <3>3
    <3> QED BY <3>1, <3>2, <3>4
  <2> QED BY <2>1, <2>3 DEF Continues, Has, HasNow
<1>13. Latest'
  <2>1. /\ Incoming' # <<>> <=> s # <<>>
        /\ s # <<>> => Incoming'[Len(Incoming')] = s[Len(s)]
    <3>1. CASE f <= Len(b)
      <4> DEFINE t == Incoming'
      <4>1. t \in Seq(Bytes)
        BY <1>6 DEF Stream
      <4>2. /\ f \in 1 .. Len(s) /\ Len(t) = Len(s) - f + 1
            /\ \A i \in 1 .. Len(t) : t[i] = s[f + i - 1]
        BY <1>6, <3>1
      <4> HIDE DEF t
      <4>3. Len(t) \in 1 .. Len(t) /\ f + Len(t) - 1 = Len(s)
        BY <1>1, <4>2
      <4>4. t # <<>> /\ s # <<>>
        BY <4>1, <4>2, <4>3
      <4> QED BY <4>2, <4>3, <4>4 DEF t
    <3>2. CASE ~(f <= Len(b))
      BY <1>6, <3>2
    <3> QED BY <3>1, <3>2
  <2> QED BY <2>1 DEF InStep, Latest, s
<1>14. Stream(Incoming)'
  BY <1>6
<1> QED
  BY <1>11, <1>12, <1>13, <1>14 DEF InStep

LEMMA OthersKeep ==
  ASSUME InStep, Coming' = Coming,
         UNCHANGED <<recvbuf, opens, packets, delivered, seen, exact>>
  PROVE  InStep'
<1>1. Incoming' = Incoming /\ Given' = Given
  BY DEF Incoming, Given
<1>2. Stream(Incoming)'
  BY <1>1 DEF InStep
<1>3. Told'
  BY <1>1 DEF InStep, Told, Has
<1>4. Continues'
  BY <1>1 DEF InStep, Continues, Has
<1>5. Latest'
  BY <1>1 DEF InStep, Latest
<1> QED
  BY <1>2, <1>3, <1>4, <1>5 DEF InStep

(* What was still to come on the last connection does not come; the buffer *)
(* ends with a whole packet.                                               *)
LEMMA OpenKeeps ==
  ASSUME Typed, Unopened, InStep, NewConnection, ~cut',
         UNCHANGED <<recvbuf, delivered, seen, exact>>
  PROVE  InStep'
<1> DEFINE s == Incoming
           C == Cuts(recvbuf)
<1>1. /\ recvbuf \in Seq(Bytes) /\ Coming \in Seq(Bytes)
      /\ opens \in Nat /\ opens' = opens + 1 /\ opens' \in Conns /\ wire' = wire
      /\ packets' = packets
  BY Constants DEF Typed, Coming, NewConnection, Conns
<1>2. /\ Stream(s) /\ s \in Seq(Bytes) /\ Len(s) = Len(recvbuf) + Len(Coming)
      /\ Len(recvbuf) <= Len(s) /\ \A i \in 1 .. Len(recvbuf) : recvbuf[i] = s[i]
  BY <1>1 DEF InStep, Incoming
<1>3. packets[opens'] = 0 /\ wire[opens'] = <<>>
  BY <1>1 DEF Unopened
<1>4. Incoming' = recvbuf
  <2>1. Coming' = <<>>
    BY <1>1, <1>3 DEF Coming
  <2> QED BY <1>1, <2>1, ConcatEmptySeq DEF Incoming
<1>5. Stream(recvbuf)
  <2>1. /\ Len(C) \in Nat \ {0} /\ Stop(recvbuf) = C[Len(C)]
        /\ Stop(recvbuf) \in 1 .. Len(recvbuf) + 1
    BY <1>1, CutsInside
  <2>2. Stop(recvbuf) = Len(recvbuf) + 1
    <3>1. ~(Stop(recvbuf) <= Len(recvbuf))
      BY DEF NewConnection
    <3> QED BY <2>1, <3>1
  <2>3. Len(recvbuf) < Len(s) => s[Len(recvbuf) + 1].at = 1
    <3> SUFFICES ASSUME Len(recvbuf) < Len(s)
                 PROVE  s[Len(recvbuf) + 1].at = 1
      OBVIOUS
    <3>1. Len(C) \in 1 .. Len(C) /\ C[Len(C)] <= Len(s)
      BY <1>2, <2>1, <2>2
    <3> HIDE DEF s
    <3>2. s[C[Len(C)]].at = 1
      BY <1>1, <1>2, <3>1, CutsAtPackets
    <3> QED BY <2>1, <2>2, <3>2
  <2> HIDE DEF s, C
  <2> QED BY <1>1, <1>2, <2>3, StreamUpTo
<1>6. Given' = Given
  BY DEF Given
<1>7. Told'
  BY <1>1, <1>6 DEF InStep, Told, Has
<1>8. ASSUME NEW i \in 1 .. Len(recvbuf)
      PROVE  /\ i \in 1 .. Len(s) /\ recvbuf[i] = s[i]
             /\ recvbuf[i].conn <= opens /\ recvbuf[i].conn \in Nat
  <2>1. i \in 1 .. Len(s) /\ recvbuf[i] = s[i] /\ recvbuf[i] \in Bytes
    BY <1>1, <1>2
  <2>2. s[i].conn <= opens
    BY <2>1 DEF InStep, Continues
  <2> QED BY <2>1, <2>2, ByteIs
<1>9. Continues'
  <2>1. ASSUME recvbuf # <<>>
        PROVE  recvbuf[1].packet = 1 \/ Has(recvbuf[1].conn, recvbuf[1].packet - 1)
    <3>1. 1 \in 1 .. Len(recvbuf)
      BY <1>1, <2>1
    <3>2. s[1] = recvbuf[1] /\ s # <<>>
      BY <1>8, <3>1
    <3> QED BY <3>2 DEF InStep, Continues
  <2>2. ASSUME NEW i \in 1 .. Len(recvbuf)
        PROVE  /\ recvbuf[i].conn <= opens'
               /\ recvbuf[i].packet <= packets[recvbuf[i].conn]
               /\ ~exact /\ recvbuf[i].at = 1 => ~Has(recvbuf[i].conn, recvbuf[i].packet)
    <3>1. /\ s[i].packet <= packets[s[i].conn]
          /\ ~exact /\ s[i].at = 1 => ~Has(s[i].conn, s[i].packet)
      BY <1>8 DEF InStep, Continues
    <3> QED BY <1>1, <1>8, <3>1
  <2> QED BY <1>1, <1>4, <1>6, <2>1, <2>2 DEF Continues, Has
<1>10. Latest'
  <2>1. recvbuf # <<>> => recvbuf[Len(recvbuf)].conn # opens'
    <3>1. recvbuf # <<>> => Len(recvbuf) \in 1 .. Len(recvbuf)
      BY <1>1
    <3> QED BY <1>1, <1>8, <3>1
  <2> QED BY <1>1, <1>3, <1>4, <2>1 DEF Latest
<1>11. Stream(Incoming)'
  BY <1>4, <1>5
<1> QED
  BY <1>7, <1>9, <1>10, <1>11 DEF InStep

LEMMA ServerSendsKeeps ==
  ASSUME Typed, InStep, NEW size \in Sizes, ServerSends(size)
  PROVE  InStep'
<1> DEFINE s == Incoming
           c == socket_fd
           n == packets[c] + 1
           t == s \o Packet(c, n, size)
<1>1. /\ c \in Conns /\ c = opens /\ opens \in Nat \ {0} /\ n \in Nat \ {0}
      /\ size \in 0 .. UINT16_MAX /\ packets[c] \in Nat
      /\ packets' = [packets EXCEPT ![c] = n]
      /\ \A d \in Conns : packets[d] \in Nat /\ packets[d] <= packets'[d]
      /\ packets'[c] = n
  <2>1. c \in Conns /\ c = opens /\ size \in 0 .. UINT16_MAX
    BY SocketApiAssumption DEF ServerSends, Typed, Conns
  <2>2. packets' = [packets EXCEPT ![c] = n]
    BY DEF ServerSends
  <2>3. \A d \in Conns : packets[d] \in Nat
    BY SocketApiAssumption DEF Typed
  <2>4. \A d \in Conns : packets'[d] = IF d = c THEN n ELSE packets[d]
    BY <2>1, <2>2 DEF Typed
  <2>5. opens \in Nat \ {0}
    BY <2>1 DEF Conns
  <2> QED BY <2>1, <2>2, <2>3, <2>4, <2>5
<1>2. Stream(s) /\ s \in Seq(Bytes)
  BY DEF InStep, Stream
<1>3. Packet(c, n, size) \in Seq(Bytes)
  BY <1>1, PacketIs
<1>4. Incoming' = t
  <2>1. Coming = wire[c] /\ wire[c] \in Seq(Bytes) /\ recvbuf \in Seq(Bytes)
    BY <1>1 DEF Coming, Typed
  <2>2. wire' = [wire EXCEPT ![c] = @ \o Packet(c, n, size)]
    BY <1>1 DEF ServerSends
  <2>3. opens' = opens /\ recvbuf' = recvbuf
    BY DEF ServerSends, ServerOnly
  <2>4. Coming' = Coming \o Packet(c, n, size)
    BY <1>1, <2>1, <2>2, <2>3 DEF Coming, Typed
  <2> DEFINE p == Packet(c, n, size)
             w == wire[c]
  <2>6. p \in Seq(Bytes) /\ w \in Seq(Bytes) /\ recvbuf \in Seq(Bytes)
    BY <1>3, <2>1
  <2> HIDE DEF p, w
  <2>5. (recvbuf \o w) \o p = recvbuf \o (w \o p)
    BY <2>6, ConcatAssociative
  <2> QED BY <2>1, <2>3, <2>4, <2>5 DEF Incoming, p, w
<1>5. \A i \in 1 .. Len(s) :
        /\ s[i] \in Bytes /\ s[i].conn \in Conns /\ s[i].packet \in Nat \ {0}
        /\ s[i].conn <= opens /\ s[i].packet <= packets[s[i].conn]
        /\ ~exact /\ s[i].at = 1 => ~Has(s[i].conn, s[i].packet)
  <2>1. \A i \in 1 .. Len(s) :
          /\ s[i].conn <= opens /\ s[i].packet <= packets[s[i].conn]
          /\ ~exact /\ s[i].at = 1 => ~Has(s[i].conn, s[i].packet)
    BY DEF InStep, Continues
  <2>2. \A i \in 1 .. Len(s) : s[i] \in Bytes
    BY <1>2
  <2> QED BY <2>1, <2>2, ByteIs
<1>6. IF s # <<>> /\ s[Len(s)].conn = c
      THEN packets[c] = s[Len(s)].packet
      ELSE packets[c] = 0
  BY <1>1 DEF InStep, Latest
<1>7. NextIs(s, c, n)
  <2>1. s # <<>> => Len(s) \in 1 .. Len(s)
    BY <1>2
  <2>2. \A i \in 1 .. Len(s) : s[i].conn \in Nat /\ s[i].conn <= c
    BY <1>1, <1>5 DEF Conns
  <2>3. n - 1 = packets[c] /\ c \in Nat /\ n \in Nat
    BY <1>1
  <2> HIDE DEF s, c, n
  <2>4. ASSUME s # <<>>
        PROVE  \/ s[Len(s)].conn = c /\ s[Len(s)].packet = n - 1
               \/ s[Len(s)].conn < c /\ n = 1
    <3>1. s[Len(s)].conn \in Nat /\ s[Len(s)].conn <= c
      BY <2>1, <2>2, <2>4
    <3>2. CASE s[Len(s)].conn = c
      BY <1>6, <2>3, <2>4, <3>2
    <3>3. CASE s[Len(s)].conn # c
      <4>1. packets[c] = 0
        BY <1>6, <3>3
      <4>2. n = 1
        BY <2>3, <4>1
      <4>3. s[Len(s)].conn < c
        BY <2>3, <3>1, <3>3
      <4> QED BY <4>2, <4>3
    <3> QED BY <3>2, <3>3
  <2> QED BY <2>4 DEF NextIs
<1> HIDE DEF s, t, c, n
<1>8. /\ Stream(t) /\ Len(t) = Len(s) + size + 2
      /\ \A i \in 1 .. Len(s) : t[i] = s[i]
      /\ \A k \in 1 .. size + 2 :
           t[Len(s) + k].conn = c /\ t[Len(s) + k].packet = n
  <2>1. Stream(s) /\ c \in Conns /\ n \in Nat \ {0} /\ size \in 0 .. UINT16_MAX
    BY <1>1, <1>2
  <2>2. t = s \o Packet(c, n, size)
    BY DEF t
  <2>3. Appended(s, t, c, n, size)
    BY <1>7, <2>1, <2>2, StreamAppend
  <2> QED BY <2>3 DEF Appended
<1>9. Len(s) \in Nat /\ size \in Nat /\ Len(t) = Len(s) + size + 2
  <2>1. Len(s) \in Nat
    BY <1>2
  <2>2. size \in Nat
    BY <1>1
  <2> QED BY <1>8, <2>1, <2>2
<1>10. /\ Given' = Given /\ delivered' = delivered /\ seen' = seen
       /\ exact' = exact /\ opens' = opens
  BY DEF ServerSends, ServerOnly, history, Given
<1>11. Told'
  <2>1. ASSUME NEW p \in Given
        PROVE  \E d \in Conns : \E m \in 1 .. packets'[d], z \in 0 .. UINT16_MAX :
                 p = Packet(d, m, z)
    <3>1. PICK d \in Conns : \E m \in 1 .. packets[d], z \in 0 .. UINT16_MAX :
                               p = Packet(d, m, z)
      BY DEF InStep, Told
    <3>2. PICK m \in 1 .. packets[d], z \in 0 .. UINT16_MAX : p = Packet(d, m, z)
      BY <3>1
    <3>3. packets[d] <= packets'[d] /\ packets[d] \in Nat /\ packets'[d] \in Int
      <4>1. packets'[d] = IF d = c THEN n ELSE packets[d]
        BY <1>1 DEF Typed
      <4> QED BY <1>1, <4>1
    <3>4. m \in 1 .. packets'[d]
      BY <3>3
    <3> QED BY <3>2, <3>4
  <2> QED BY <1>10, <2>1 DEF InStep, Told, Has
<1>12. ~Has(c, n)
  <2> SUFFICES ASSUME NEW p \in Given, p[1].conn = c, p[1].packet = n
               PROVE  FALSE
    BY DEF Has
  <2>1. PICK d \in Conns : \E m \in 1 .. packets[d], z \in 0 .. UINT16_MAX :
                             p = Packet(d, m, z)
    BY DEF InStep, Told
  <2>2. PICK m \in 1 .. packets[d], z \in 0 .. UINT16_MAX : p = Packet(d, m, z)
    BY <2>1
  <2>3. p[1] = Byte(d, m, 1, Value(1, z))
    <3>1. 1 \in 1 .. z + 2 /\ m \in Nat \ {0}
      OBVIOUS
    <3> QED BY <2>2, <3>1, PacketIs
  <2>4. d = c /\ m = n
    BY <2>3, ByteFields
  <2> QED BY <1>1, <2>2, <2>4 DEF n
<1>13. ASSUME NEW i \in 1 .. Len(t), i \notin 1 .. Len(s)
       PROVE  t[i].conn = c /\ t[i].packet = n
  <2> DEFINE k == i - Len(s)
  <2>1. k \in 1 .. size + 2 /\ Len(s) + k = i
    BY <1>1, <1>2, <1>8, <1>13
  <2> HIDE DEF k
  <2> QED BY <1>8, <2>1
<1>14. Continues'
  <2>1. t[1].packet = 1 \/ Has(t[1].conn, t[1].packet - 1)
    <3>1. CASE s = <<>>
      <4>1. Len(s) = 0 /\ 1 \in 1 .. Len(t)
        <5>1. Len(s) = 0
          BY <3>1
        <5> QED BY <1>9, <5>1
      <4>2. t[1].packet = n
        BY <1>13, <4>1
      <4> QED BY <1>6, <3>1, <4>2 DEF n
    <3>2. CASE s # <<>>
      <4>1. 1 \in 1 .. Len(s)
        BY <1>2, <3>2
      <4>2. s[1].packet = 1 \/ Has(s[1].conn, s[1].packet - 1)
        BY <3>2 DEF InStep, Continues, s
      <4> QED BY <1>8, <4>1, <4>2
    <3> QED BY <3>1, <3>2
  <2>2. ASSUME NEW i \in 1 .. Len(t)
        PROVE  /\ t[i].conn <= opens /\ t[i].packet <= packets'[t[i].conn]
               /\ ~exact /\ t[i].at = 1 => ~Has(t[i].conn, t[i].packet)
    <3>1. CASE i \in 1 .. Len(s)
      <4>1. t[i] = s[i]
        BY <1>8, <3>1
      <4> DEFINE y == s[i]
      <4>2. /\ y.conn \in Conns /\ y.packet \in Nat \ {0} /\ y.conn <= opens
            /\ y.packet <= packets[y.conn]
            /\ ~exact /\ y.at = 1 => ~Has(y.conn, y.packet)
        BY <1>5, <3>1
      <4> HIDE DEF y
      <4>3. /\ packets[y.conn] \in Nat
            /\ packets'[y.conn] = IF y.conn = c THEN n ELSE packets[y.conn]
            /\ packets[y.conn] <= packets'[y.conn]
        BY <1>1, <4>2 DEF Typed
      <4>4. y.packet <= packets'[y.conn]
        BY <1>1, <4>2, <4>3
      <4> QED BY <4>1, <4>2, <4>4 DEF y
    <3>2. CASE i \notin 1 .. Len(s)
      BY <1>1, <1>12, <1>13, <3>2
    <3> QED BY <3>1, <3>2
  <2> QED BY <1>4, <1>10, <2>1, <2>2 DEF Continues, Has
<1>15. Latest'
  <2>1. Len(t) \in 1 .. Len(t) /\ Len(t) \notin 1 .. Len(s)
    BY <1>9
  <2>2. t # <<>>
    BY <2>1
  <2>3. t[Len(t)].conn = c /\ t[Len(t)].packet = n
    BY <1>13, <2>1
  <2> QED BY <1>1, <1>4, <1>10, <2>2, <2>3 DEF Latest
<1>16. Stream(Incoming)'
  BY <1>4, <1>8
<1> QED
  BY <1>11, <1>14, <1>15, <1>16 DEF InStep

(* The whole invariant.                                                    *)
Onward == Unopened /\ (~cut => InStep)

LEMMA InitOnward == Init => Onward
<1> SUFFICES ASSUME Init
             PROVE  Onward
  OBVIOUS
<1>1. /\ Coming = <<>> /\ recvbuf = <<>> /\ opens = 0
      /\ delivered = <<>> /\ seen = {} /\ ~exact
      /\ packets = [c \in Conns |-> 0] /\ wire = [c \in Conns |-> <<>>]
  BY DEF Init, Coming
<1>2. Incoming = <<>> /\ Given = {}
  BY <1>1 DEF Incoming, Given, ToSet
<1>3. Stream(Incoming)
  BY <1>2 DEF Stream
<1>4. Told
  BY <1>1, <1>2 DEF Told, ToSet
<1>5. Continues
  BY <1>2 DEF Continues
<1>6. Latest /\ Unopened
  BY <1>1 DEF Latest, Unopened
<1> QED
  BY <1>3, <1>4, <1>5, <1>6 DEF Onward, InStep

LEMMA StepUnopened == Typed /\ Unopened /\ [Next]_vars => Unopened'
<1> SUFFICES ASSUME Typed, Unopened, [Next]_vars
             PROVE  Unopened'
  OBVIOUS
<1>1. /\ opens \in Nat /\ \A c \in Conns : c \in Nat
      /\ wire \in [Conns -> Seq(Bytes)]
      /\ DOMAIN packets = Conns /\ DOMAIN wire = Conns
  BY SocketApiAssumption DEF Typed, Conns
<1>2. ASSUME UNCHANGED <<wire, packets>>, opens' = opens \/ opens' = opens + 1
      PROVE  Unopened'
  BY <1>1, <1>2 DEF Unopened
<1>3. CASE Send
  BY <1>2, <1>3
     DEF Send, SendOpens, SendUnopened, SendWhole, SendPart, SendAgain, SendFails,
         OpenInProgress, OpenAtOnce, OpenAtOnceFails, OpenFails, NewConnection,
         Writes, network
<1>4. ASSUME NEW n \in 1 .. SOCKETAPI_RECVBUF_SIZE, RecvBytes(n)
      PROVE  Unopened'
  <2>1. /\ socket_fd = opens /\ opens' = opens /\ packets' = packets
        /\ wire' = [wire EXCEPT ![socket_fd] = SubSeq(@, n + 1, Len(@))]
    BY <1>1, <1>4 DEF RecvBytes, ProcessOnly, Typed
  <2>2. \A c \in Conns : c > opens => wire'[c] = wire[c]
    BY <1>1, <2>1
  <2> QED BY <2>1, <2>2 DEF Unopened
<1>5. CASE RecvNothing \/ RecvAgain \/ RecvInterrupted \/ RecvFails \/ NotOpen
  BY <1>2, <1>5 DEF RecvNothing, RecvAgain, RecvInterrupted, RecvFails, NotOpen, ProcessOnly,
                    vars, network
<1>6. ASSUME NEW size \in Sizes, ServerSends(size)
      PROVE  Unopened'
  <2>1. /\ socket_fd \in Conns /\ socket_fd = opens /\ opens' = opens
        /\ packets' = [packets EXCEPT ![socket_fd] = @ + 1]
        /\ wire' = [wire EXCEPT ![socket_fd] =
                      @ \o Packet(socket_fd, packets'[socket_fd], size)]
    BY <1>1, <1>6 DEF ServerSends, ServerOnly, Typed, Conns
  <2>2. \A c \in Conns : c > opens => wire'[c] = wire[c] /\ packets'[c] = packets[c]
    BY <1>1, <2>1
  <2> QED BY <2>1, <2>2 DEF Unopened
<1>7. CASE ServerCloses
  BY <1>2, <1>7 DEF ServerCloses, ServerOnly
<1>8. CASE UNCHANGED vars
  BY <1>2, <1>8 DEF vars, network
<1> QED
  BY <1>3, <1>4, <1>5, <1>6, <1>7, <1>8 DEF Next, Process

LEMMA StepInStep == Typed /\ Unopened /\ InStep /\ ~cut' /\ [Next]_vars => InStep'
<1> SUFFICES ASSUME Typed, Unopened, InStep, ~cut', [Next]_vars
             PROVE  InStep'
  OBVIOUS
<1>1. /\ recvbuf \in Seq(Bytes) /\ Coming \in Seq(Bytes)
      /\ socket_fd # -1 => socket_fd = opens /\ opens \in Conns /\ opens # 0
  BY DEF Typed, Coming, Conns
<1>2. ASSUME UNCHANGED <<recvbuf, wire, opens, packets, delivered, seen, exact>>
      PROVE  InStep'
  <2>1. Coming' = Coming
    BY <1>2 DEF Coming
  <2> QED BY <1>2, <2>1, OthersKeep
<1>3. ASSUME NewConnection, SendOnly
      PROVE  InStep'
  BY <1>3, OpenKeeps DEF SendOnly
<1>4. CASE Send
  BY <1>2, <1>3, <1>4
     DEF Send, SendOpens, SendUnopened, SendWhole, SendPart, SendAgain, SendFails,
         OpenInProgress, OpenAtOnce, OpenAtOnceFails, OpenFails,
         Writes, network, SendOnly
<1>5. ASSUME NEW n \in 1 .. SOCKETAPI_RECVBUF_SIZE, RecvBytes(n)
      PROVE  InStep'
  <2> DEFINE w == wire[socket_fd]
             u == SubSeq(w, 1, n)
             x == SubSeq(w, n + 1, Len(w))
             b == recvbuf \o u
  <2>1. /\ socket_fd = opens /\ opens \in Conns /\ opens # 0
        /\ n <= Len(w) /\ w \in Seq(Bytes) /\ DOMAIN wire = Conns
        /\ wire' = [wire EXCEPT ![socket_fd] = x]
        /\ Pass(b) /\ opens' = opens /\ packets' = packets
    BY <1>1, <1>5 DEF RecvBytes, ProcessOnly, Typed
  <2>2. Coming = w /\ Coming' = x
    BY <2>1 DEF Coming
  <2> HIDE DEF w
  <2>3. n \in 0 .. Len(w)
    BY <2>1
  <2>4. u \in Seq(Bytes) /\ x \in Seq(Bytes)
    BY <2>1, <2>3
  <2>5. b \o x = Incoming
    BY <1>1, <2>1, <2>2, <2>3, ReceivedAgain DEF Incoming
  <2> HIDE DEF u, x
  <2>6. b \in Seq(Bytes)
    BY <1>1, <2>4
  <2> HIDE DEF b
  <2> QED BY <2>1, <2>2, <2>4, <2>5, <2>6, PassKeeps
<1>6. CASE RecvNothing
  <2>1. Pass(recvbuf) /\ UNCHANGED <<opens, packets, wire>>
    BY <1>6 DEF RecvNothing, ProcessOnly
  <2>2. Coming' = Coming /\ Incoming = recvbuf \o Coming
    BY <2>1 DEF Coming, Incoming
  <2> QED BY <1>1, <2>1, <2>2, PassKeeps
<1>7. CASE RecvAgain \/ RecvInterrupted \/ RecvFails \/ NotOpen
  BY <1>2, <1>7 DEF RecvAgain, RecvInterrupted, RecvFails, NotOpen, ProcessOnly, vars, network, history
<1>8. ASSUME NEW size \in Sizes, ServerSends(size)
      PROVE  InStep'
  BY <1>8, ServerSendsKeeps
<1>9. CASE ServerCloses
  BY <1>2, <1>9 DEF ServerCloses, ServerOnly, history
<1>10. CASE UNCHANGED vars
  BY <1>2, <1>10 DEF vars, network, history
<1> QED
  BY <1>4, <1>5, <1>6, <1>7, <1>8, <1>9, <1>10 DEF Next, Process

LEMMA CutStays == Typed /\ [Next]_vars /\ cut => cut'
<1> SUFFICES ASSUME Typed, [Next]_vars, cut
             PROVE  cut'
  OBVIOUS
<1> QED
  BY DEF Next, Send, SendOpens, SendUnopened, SendWhole, SendPart, SendAgain,
         SendFails, OpenInProgress, OpenAtOnce, OpenAtOnceFails, OpenFails,
         NewConnection, Writes, Process, RecvBytes, RecvNothing, RecvAgain,
         RecvInterrupted, RecvFails, NotOpen, ProcessOnly, ServerSends, ServerCloses, ServerOnly,
         history, vars

LEMMA AlwaysOnward == Spec => []Onward
<1>1. Typed /\ Onward /\ [Next]_vars => Onward'
  <2>1. Typed /\ Unopened /\ [Next]_vars => Unopened'
    BY StepUnopened
  <2>2. Typed /\ Unopened /\ (~cut => InStep) /\ [Next]_vars => (~cut => InStep)'
    <3> SUFFICES ASSUME Typed, Unopened, ~cut => InStep, [Next]_vars, ~cut'
                 PROVE  InStep'
      OBVIOUS
    <3>1. ~cut
      BY CutStays
    <3> QED BY <3>1, StepInStep
  <2> QED BY <2>1, <2>2 DEF Onward
<1> QED
  BY <1>1, InitOnward, AlwaysTyped, PTL DEF Spec

-----------------------------------------------------------------------------
(* Numbers of which none is left out before another are the first ones.    *)
LEMMA NoneLeftOut ==
  ASSUME NEW m \in Nat, NEW ns \in SUBSET (1 .. m),
         \A n \in ns : n = 1 \/ n - 1 \in ns
  PROVE  ns = 1 .. Cardinality(ns)
<1> DEFINE Gaps == {k \in 1 .. m + 1 : k \notin ns}
<1>1. PICK k \in Gaps : \A l \in Gaps : k <= l
  <2>1. Gaps \in SUBSET Nat
    OBVIOUS
  <2>2. m + 1 \in Gaps
    OBVIOUS
  <2> HIDE DEF Gaps
  <2> QED BY <2>1, <2>2, LeastNatural
<1>2. k \in 1 .. m + 1 /\ k \notin ns
  BY <1>1
<1>3. \A n \in 1 .. k - 1 : n \in ns
  <2> SUFFICES ASSUME NEW n \in 1 .. k - 1, n \notin ns
               PROVE  FALSE
    OBVIOUS
  <2>1. n \in Gaps
    BY <1>2
  <2>2. k <= n
    BY <1>1, <2>1
  <2> QED BY <1>2, <2>2
<1> DEFINE Above == {n \in ns : n > k}
<1>4. Above = {}
  <2> SUFFICES ASSUME Above # {}
               PROVE  FALSE
    OBVIOUS
  <2>1. PICK n \in Above : \A l \in Above : n <= l
    <3>1. Above \in SUBSET Nat
      <4>1. \A n \in Above : n \in 1 .. m
        OBVIOUS
      <4> HIDE DEF Above
      <4> QED BY <4>1
    <3> HIDE DEF Above
    <3> QED BY <3>1, LeastNatural
  <2>2. n \in ns /\ n \in 1 .. m /\ n > k
    BY <2>1
  <2>3. n - 1 \in ns
    BY <1>2, <2>2
  <2>4. n - 1 > k
    <3>1. n - 1 # k
      BY <1>2, <2>3
    <3> QED BY <1>2, <2>2, <3>1
  <2>5. n <= n - 1
    BY <2>1, <2>3, <2>4
  <2> QED BY <2>2, <2>5
<1>5. ns = 1 .. k - 1
  <2>1. ASSUME NEW n \in ns
        PROVE  n \in 1 .. k - 1
    <3>1. n \in 1 .. m /\ n # k /\ ~(n > k)
      BY <1>2, <1>4
    <3> QED BY <1>2, <3>1
  <2> HIDE DEF Gaps, Above
  <2> QED BY <1>3, <2>1
<1>6. Cardinality(1 .. k - 1) = k - 1
  <2>1. k - 1 \in Int /\ 1 \in Int
    BY <1>2
  <2>2. Cardinality(1 .. k - 1) = IF 1 > k - 1 THEN 0 ELSE k - 1 - 1 + 1
    BY <2>1, FS_Interval
  <2> QED BY <1>2, <2>2
<1> QED
  BY <1>5, <1>6

LEMMA GivenIs ==
  ASSUME Typed, Told, NEW p \in Given
  PROVE  /\ p[1].conn \in Conns /\ p[1].packet \in 1 .. packets[p[1].conn]
         /\ Genuine(p)
<1>1. PICK c \in Conns : \E n \in 1 .. packets[c], size \in 0 .. UINT16_MAX :
                           p = Packet(c, n, size)
  BY DEF Told
<1>2. PICK n \in 1 .. packets[c], size \in 0 .. UINT16_MAX : p = Packet(c, n, size)
  BY <1>1
<1>3. n \in Nat \ {0} /\ 1 \in 1 .. size + 2
  OBVIOUS
<1>4. Len(p) = size + 2 /\ p[1] = Byte(c, n, 1, Value(1, size))
  BY <1>2, <1>3, PacketIs
<1>5. p[1].conn = c /\ p[1].packet = n /\ p[1].at = 1
  BY <1>4, ByteFields
<1>6. Len(p) - HeadSize = size
  BY <1>4 DEF HeadSize
<1> QED
  BY <1>2, <1>5, <1>6 DEF Genuine

LEMMA OnwardDelivers == Typed /\ Onward => Delivery
<1> SUFFICES ASSUME Typed, Onward, ~cut
             PROVE  LET all == ToSet(delivered) \union seen
                    IN  /\ \A p \in all : Genuine(p)
                        /\ \A c \in Conns :
                             LET ns == {Number(p).n : p \in {q \in all : q[1].conn = c}}
                             IN  ns = 1 .. Cardinality(ns)
                        /\ \A j \in 2 .. Len(delivered) :
                             LET a == Number(delivered[j - 1])
                                 b == Number(delivered[j])
                             IN  IF a.conn = b.conn THEN b.n = a.n + 1
                                                    ELSE a.conn < b.conn
                        /\ ~exact => ToSet(delivered) \intersect seen = {}
  BY DEF Delivery
<1>1. Told
  BY DEF Onward, InStep
<1>2. ASSUME NEW p \in Given
      PROVE  Genuine(p)
  BY <1>1, GivenIs
<1>3. ASSUME NEW c \in Conns
      PROVE  LET ns == {Number(p).n : p \in {q \in Given : q[1].conn = c}}
             IN  ns = 1 .. Cardinality(ns)
  <2> DEFINE ns == {Number(p).n : p \in {q \in Given : q[1].conn = c}}
  <2>1. \A n : n \in ns <=> \E p \in Given : p[1].conn = c /\ p[1].packet = n
    BY DEF Number
  <2> HIDE DEF ns
  <2>2. packets[c] \in Nat
    BY SocketApiAssumption DEF Typed
  <2>3. ASSUME NEW n \in ns
        PROVE  n \in 1 .. packets[c] /\ (n = 1 \/ n - 1 \in ns)
    <3>1. PICK p \in Given : p[1].conn = c /\ p[1].packet = n
      BY <2>1
    <3>2. n \in 1 .. packets[c]
      BY <1>1, <3>1, GivenIs
    <3>3. n = 1 \/ Has(c, n - 1)
      BY <1>1, <3>1 DEF Told
    <3> QED BY <2>1, <3>2, <3>3 DEF Has
  <2>4. ns = 1 .. Cardinality(ns)
    BY <2>2, <2>3, NoneLeftOut
  <2> QED BY <2>4 DEF ns
<1>4. ASSUME NEW j \in 2 .. Len(delivered)
      PROVE  LET a == Number(delivered[j - 1])
                 b == Number(delivered[j])
             IN  IF a.conn = b.conn THEN b.n = a.n + 1 ELSE a.conn < b.conn
  <2> DEFINE p == delivered[j - 1]
             q == delivered[j]
  <2>1. /\ j - 1 \in 1 .. Len(delivered) - 1 /\ (j - 1) + 1 = j
        /\ j - 1 \in DOMAIN delivered /\ j \in DOMAIN delivered
    BY DEF Typed
  <2>2. Follows(p[1], q[1])
    BY <1>1, <2>1 DEF Told
  <2>3. p \in Given /\ q \in Given
    BY <2>1 DEF Given, ToSet
  <2> HIDE DEF p, q
  <2>4. p[1].conn \in Nat /\ q[1].conn \in Nat
    BY <1>1, <2>3, GivenIs DEF Conns
  <2>5. IF p[1].conn = q[1].conn THEN q[1].packet = p[1].packet + 1
                                 ELSE p[1].conn < q[1].conn
    BY <2>2, <2>4 DEF Follows
  <2> QED BY <2>5 DEF Number, p, q
<1>5. ~exact => ToSet(delivered) \intersect seen = {}
  BY <1>1 DEF Told
<1> QED
  BY <1>2, <1>3, <1>4, <1>5 DEF Given

(* As long as no connection is opened with a part of a packet in the       *)
(* buffer, on_recv is given the server's packets, in order, none left out; *)
(* and each once, until a pass ends with a whole packet.                   *)
THEOREM Delivered == Spec => []Delivery
BY AlwaysTyped, AlwaysOnward, OnwardDelivers, PTL
=============================================================================
