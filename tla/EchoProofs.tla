----------------------------- MODULE EchoProofs -----------------------------
(***************************************************************************)
(* Proofs about the chain of robots, tconnd and backend, for any number of *)
(* robots and any size of the two rings: while the backend is not killed   *)
(* inside a batch, no reply goes to a robot that does not wait for it, and *)
(* with room for one command of each robot none is thrown away.            *)
(*                                                                         *)
(* Both rest on there being one thing of a robot on its way at most: its   *)
(* connection, which the backend has to accept, then its request, on the   *)
(* way to tconnd, in the output tbus, as a command in the input tbus, or   *)
(* on the way back.  Each part of IInv says of one of these places that    *)
(* the others are empty.                                                   *)
(***************************************************************************)
EXTENDS Echo, FiniteSetTheorems, TLAPS

Messages == [cmd : {"connect", "recv"}, who : Clients, size : Nat]

Commands == [cmd : {"accept", "send"}, who : Clients, reply : Int]

SessionsTypeOK ==
  /\ output \in Seq(Messages)
  /\ told \in [Clients -> {"nothing", "connect", "closed"}]
  /\ forwarded \in [Clients -> Nat]
  /\ established \subseteq Clients

RobotsTypeOK ==
  /\ state \in [Clients -> {"none", "open", "loop", "send", "expect", "done"}]
  /\ request \in [Clients -> Nat]
  /\ up \in [Clients -> Nat] /\ down \in [Clients -> Seq(Int)]

BackendTypeOK ==
  /\ batch \in 0 .. Len(output) /\ handled \in 0 .. batch
  /\ input \in Seq(Commands)
  /\ thrown \subseteq Clients
  /\ kills \in Nat

TypeOK == SessionsTypeOK /\ RobotsTypeOK /\ BackendTypeOK

-----------------------------------------------------------------------------
(* What the backend has not handled yet.                                   *)
Pending == handled + 1 .. Len(output)

NoCommand(r) == \A k \in DOMAIN input : input[k].who # r

Waits(r) == state[r] \in {"expect", "done"} /\ request[r] > 0

(* The request r has made is on its way, beyond tconnd.                    *)
Asked(r) == Waits(r) /\ forwarded[r] = request[r] /\ up[r] = 0

RequestPending ==
  \A j \in Pending : output[j].size > 0 =>
    /\ Asked(output[j].who) /\ NoCommand(output[j].who)
    /\ down[output[j].who] = <<>>
    /\ \A k \in Pending : output[k].who = output[j].who =>
         output[k].cmd = "recv" /\ (k # j => output[k].size = 0)

ConnectPending ==
  \A j \in Pending : output[j].cmd = "connect" =>
    /\ output[j].size = 0
    /\ output[j].who \notin established /\ forwarded[output[j].who] = 0
    /\ NoCommand(output[j].who)
    /\ \A k \in Pending : output[k].who = output[j].who => k = j

CommandInRing ==
  \A j \in DOMAIN input :
    /\ \A k \in DOMAIN input : input[k].who = input[j].who => k = j
    /\ input[j].cmd = "accept" =>
         input[j].who \notin established /\ forwarded[input[j].who] = 0
    /\ input[j].cmd = "send" =>
         /\ Asked(input[j].who) /\ down[input[j].who] = <<>>
         /\ input[j].reply = request[input[j].who]

RequestSent(r) ==
  up[r] # 0 => /\ Waits(r) /\ up[r] = request[r]
               /\ forwarded[r] = request[r] - 1 /\ down[r] = <<>>

ReplySent(r) == down[r] # <<>> => Asked(r) /\ down[r] = <<request[r]>>

NoRequest(r) ==
  /\ state[r] \in {"none", "open", "loop"} => forwarded[r] = request[r]
  /\ state[r] = "send" => forwarded[r] = request[r] - 1

Own(r) == RequestSent(r) /\ ReplySent(r) /\ NoRequest(r)

NotTold ==
  \A r \in Clients : told[r] = "nothing" =>
    /\ forwarded[r] = 0 /\ r \notin established /\ r \notin open
    /\ NoCommand(r)
    /\ \A k \in Pending : output[k].who # r

(* Robots are created in order.                                            *)
Creation ==
  pc = "init" =>
    i \in Nat /\ \A r \in Clients : r >= i => state[r] = "none"

OneThing ==
  /\ RequestPending /\ ConnectPending /\ CommandInRing /\ NotTold
  /\ \A r \in Clients : Own(r)
  /\ pc # "mismatch"

IInv == /\ TypeOK /\ Creation /\ (batch = 0 => handled = 0)
        /\ (kills = 0 => OneThing) /\ NothingThrown

-----------------------------------------------------------------------------
(* The constants.                                                          *)
LEMMA Constants ==
  /\ IsFiniteSet(Clients) /\ Cardinality(Clients) \in Nat
  /\ Clients = 1 .. Cardinality(Clients)
  /\ \A r \in Clients : r \in Nat \ {0}
  /\ OutputLimit \in Nat /\ InputLimit \in Nat
BY EchoAssumption, FS_CardinalityType

(* The initial states.                                                     *)
LEMMA InitHolds == EchoInit => IInv
<1> SUFFICES ASSUME EchoInit
             PROVE  IInv
  OBVIOUS
<1> USE DEF EchoInit, Init
<1>1. Pending = {}
  BY DEF Pending
<1>2. TypeOK
  BY Constants DEF TypeOK, SessionsTypeOK, RobotsTypeOK, BackendTypeOK
<1>3. OneThing
  BY <1>1 DEF OneThing, RequestPending, ConnectPending, CommandInRing,
     Own, RequestSent, ReplySent, NoRequest, NotTold, NoCommand
<1>4. Creation /\ NothingThrown
  BY DEF Creation, NothingThrown
<1> QED
  BY <1>2, <1>3, <1>4 DEF IInv

-----------------------------------------------------------------------------
(***************************************************************************)
(* Types.                                                                  *)
(***************************************************************************)
LEMMA MainTypes ==
  ASSUME TypeOK, Main \/ Signalled
  PROVE  TypeOK'
<1> USE DEF TypeOK, SessionsTypeOK, RobotsTypeOK, BackendTypeOK, ServerGoesOn,
            vars, backend, bounds, robots, streams
<1>1. CASE Create
  BY <1>1 DEF Create
<1>2. CASE CreateFails
  BY <1>2 DEF CreateFails
<1>3. CASE InitDone
  BY <1>3 DEF InitDone
<1>4. CASE Signalled
  BY <1>4 DEF Signalled
<1>5. CASE Join
  BY <1>5 DEF Join
<1>6. CASE AllJoined
  BY <1>6 DEF AllJoined
<1> QED
  BY <1>1, <1>2, <1>3, <1>4, <1>5, <1>6 DEF Main

LEMMA RobotTypes ==
  ASSUME TypeOK, NEW r \in Clients, Robot(r)
  PROVE  TypeOK'
<1>1. SessionsTypeOK' /\ BackendTypeOK'
  <2>1. ServerGoesOn
    BY Zenon DEF Robot, OpenConnection, OpenAgain, OpenFails, MakeRequest,
       TestEnds, SendWhole, SendAgain, SendFails, ExpectReply, ExpectMismatch,
       ExpectPart, ExpectAgain, ExpectLost
  <2> QED
    BY <2>1 DEF TypeOK, SessionsTypeOK, BackendTypeOK, ServerGoesOn, vars,
       backend, bounds
<1>2. RobotsTypeOK'
  <2>1. RobotsTypeOK
    BY DEF TypeOK
  <2> USE <2>1 DEF RobotsTypeOK, Goes, GoesOnIfWorking, robots, streams
  <2>2. CASE OpenConnection(r) \/ OpenAgain(r)
    BY <2>2 DEF OpenConnection, OpenAgain
  <2>3. CASE OpenFails(r)
    BY <2>3 DEF OpenFails
  <2>4. CASE MakeRequest(r)
    <3>1. /\ request' = [request EXCEPT ![r] = @ + 1]
          /\ state' = [state EXCEPT ![r] = "send"] /\ UNCHANGED streams
      BY <2>4 DEF MakeRequest
    <3> QED
      BY <3>1
  <2>5. CASE TestEnds(r)
    BY <2>5 DEF TestEnds
  <2>6. CASE SendWhole(r)
    BY <2>6 DEF SendWhole
  <2>7. CASE SendAgain(r)
    BY <2>7 DEF SendAgain
  <2>8. CASE SendFails(r)
    BY <2>8 DEF SendFails
  <2>9. CASE ExpectReply(r)
    BY <2>9 DEF ExpectReply
  <2>10. CASE ExpectMismatch(r)
    BY <2>10 DEF ExpectMismatch
  <2>11. CASE ExpectPart(r)
    BY <2>11 DEF ExpectPart
  <2>12. CASE ExpectAgain(r)
    BY <2>12 DEF ExpectAgain
  <2>13. CASE ExpectLost(r)
    BY <2>13 DEF ExpectLost
  <2> QED
    BY <2>2, <2>3, <2>4, <2>5, <2>6, <2>7, <2>8, <2>9, <2>10, <2>11, <2>12,
       <2>13 DEF Robot
<1> QED
  BY <1>1, <1>2 DEF TypeOK

LEMMA TconndTypes ==
  ASSUME TypeOK, NEW r \in Clients, Tconnd(r) \/ TconndDrop(r) \/ Refuse(r)
  PROVE  TypeOK'
<1> USE DEF TypeOK, SessionsTypeOK, RobotsTypeOK, BackendTypeOK, Messages,
            RobotsGoOn, vars, streams, backend, bounds, robots
<1>1. CASE TconndAccept(r)
  BY <1>1 DEF TconndAccept, Connect, Tells
<1>2. CASE TconndForward(r)
  BY <1>2 DEF TconndForward, Forward, Tells
<1>3. CASE TconndEnd(r)
  BY <1>3 DEF TconndEnd, End, Tells, Leaves
<1>4. CASE CommandAccept(r)
  <2>1. established' \subseteq Clients /\ UNCHANGED <<output, told, forwarded>>
    BY <1>4 DEF CommandAccept, Drop, Accept, Leaves
  <2>2. input' \in Seq(Commands)
    BY <1>4 DEF CommandAccept, NextCommand
  <2>3. UNCHANGED <<streams, batch, handled, thrown, bounds, robots>>
    BY <1>4 DEF CommandAccept
  <2> QED
    BY <2>1, <2>2, <2>3
<1>5. CASE CommandSend(r)
  <2>1. Head(input) \in Commands /\ input' \in Seq(Commands)
    BY <1>5 DEF CommandSend, NextCommand
  <2>2. Head(input).reply \in Int
    BY <2>1 DEF Commands
  <2>3. down' \in [Clients -> Seq(Int)]
    BY <1>5, <2>2 DEF CommandSend
  <2> QED
    BY <1>5, <2>1, <2>3 DEF CommandSend
<1>6. CASE TconndDrop(r)
  BY <1>6 DEF TconndDrop, Drop, Leaves
<1>7. CASE Refuse(r)
  BY <1>7 DEF Refuse
<1> QED
  BY <1>1, <1>2, <1>3, <1>4, <1>5, <1>6, <1>7 DEF Tconnd

(* What a packet asks for is a number.                                     *)
LEMMA RequestInType ==
  ASSUME TypeOK, handled < Len(output)
  PROVE  RequestIn \in Int /\ Packet \in Messages
<1>1. handled \in Nat /\ Len(output) \in Nat
  BY DEF TypeOK, SessionsTypeOK, BackendTypeOK
<1>2. Packet \in Messages
  BY <1>1 DEF TypeOK, SessionsTypeOK, Packet
<1>3. forwarded[Packet.who] \in Nat
  BY <1>2 DEF TypeOK, SessionsTypeOK, Messages
<1> DEFINE Later == {j \in handled + 2 .. Len(output) :
                      output[j].who = Packet.who /\ output[j].size > 0}
<1>4. Cardinality(Later) \in Nat
  <2>1. IsFiniteSet(handled + 2 .. Len(output))
    BY <1>1, FS_Interval
  <2> HIDE DEF Packet
  <2>2. Later \in SUBSET (handled + 2 .. Len(output))
    OBVIOUS
  <2>3. IsFiniteSet(Later)
    BY <2>1, <2>2, FS_Subset
  <2> QED
    BY <2>3, FS_CardinalityType
<1> HIDE DEF Later
<1> QED
  BY <1>2, <1>3, <1>4 DEF RequestIn, Later

LEMMA SendTypes ==
  ASSUME TypeOK, NEW command \in Commands, Send(command)
  PROVE  /\ input' \in Seq(Commands) /\ thrown' \subseteq Clients
         /\ input' = input \/ input' = Append(input, command)
<1>1. command.who \in Clients
  BY DEF Commands
<1>2. input \in Seq(Commands) /\ thrown \subseteq Clients
  BY DEF TypeOK, BackendTypeOK
<1>3. CASE Len(input) < InputLimit
  BY <1>2, <1>3 DEF Send
<1>4. CASE ~(Len(input) < InputLimit)
  BY <1>1, <1>2, <1>4 DEF Send
<1> QED
  BY <1>3, <1>4

LEMMA BackendTypes ==
  ASSUME TypeOK, Backend \/ Kill
  PROVE  TypeOK'
<1> USE DEF TypeOK, SessionsTypeOK, RobotsTypeOK, BackendTypeOK, FrontGoesOn,
            vars, streams, bounds, robots, Handling
<1>1. CASE ReadBegin
  BY <1>1 DEF ReadBegin
<1>2. CASE OnConnect
  <2>1. Packet \in Messages
    BY <1>2, RequestInType DEF OnConnect
  <2>2. [cmd |-> "accept", who |-> Packet.who, reply |-> 0] \in Commands
    BY <2>1 DEF Messages, Commands
  <2>3. input' \in Seq(Commands) /\ thrown' \subseteq Clients
    BY <1>2, <2>2, SendTypes DEF OnConnect
  <2> QED
    BY <1>2, <2>3 DEF OnConnect
<1>3. CASE OnRecv
  <2>1. Packet \in Messages /\ RequestIn \in Int
    BY <1>3, RequestInType DEF OnRecv
  <2>2. [cmd |-> "send", who |-> Packet.who, reply |-> RequestIn] \in Commands
    BY <2>1 DEF Messages, Commands
  <2>3. input' \in Seq(Commands) /\ thrown' \subseteq Clients
    BY <1>3, <2>2, SendTypes DEF OnRecv
  <2> QED
    BY <1>3, <2>3 DEF OnRecv
<1>4. CASE OnClose
  BY <1>4 DEF OnClose
<1>5. CASE ReadEnd
  BY <1>5 DEF ReadEnd, Take
<1>6. CASE Kill
  BY <1>6 DEF Kill
<1> QED
  BY <1>1, <1>2, <1>3, <1>4, <1>5, <1>6 DEF Backend

-----------------------------------------------------------------------------
(* Messages and commands name clients.                                     *)
LEMMA Entries ==
  ASSUME TypeOK
  PROVE  /\ \A j \in Pending : j \in Nat \ {0} /\ output[j] \in Messages
         /\ \A j \in Pending : output[j].who \in Clients
                              /\ output[j].size \in Nat
         /\ \A j \in DOMAIN input : input[j] \in Commands
         /\ \A j \in DOMAIN input : input[j].who \in Clients
<1>1. \A j \in Pending : j \in Nat \ {0} /\ output[j] \in Messages
  BY DEF TypeOK, SessionsTypeOK, BackendTypeOK, Pending
<1>2. \A j \in DOMAIN input : input[j] \in Commands
  BY DEF TypeOK, BackendTypeOK
<1>3. \A m \in Messages : m.who \in Clients /\ m.size \in Nat
  BY DEF Messages
<1>4. \A m \in Commands : m.who \in Clients
  BY DEF Commands
<1> QED
  BY <1>1, <1>2, <1>3, <1>4

(***************************************************************************)
(* Steps of the robots: one that leaves what the others keep about robot r *)
(* alone while its reply is on the way.                                    *)
(***************************************************************************)
LEMMA RobotAlone ==
  ASSUME TypeOK, OneThing, NEW r \in Clients, ServerGoesOn,
         \A q \in Clients \ {r} :
           /\ state'[q] = state[q] /\ request'[q] = request[q]
           /\ up'[q] = up[q] /\ down'[q] = down[q],
         Asked(r) /\ down[r] = <<>> =>
           Asked(r)' /\ down'[r] = <<>> /\ request'[r] = request[r],
         Own(r)', pc' # "mismatch"
  PROVE  OneThing'
<1>1. /\ output' = output /\ told' = told /\ forwarded' = forwarded
      /\ open' = open /\ established' = established
      /\ handled' = handled /\ input' = input
  BY DEF ServerGoesOn, vars, backend
<1>2. Pending' = Pending /\ \A q : NoCommand(q)' = NoCommand(q)
  BY <1>1 DEF Pending, NoCommand
<1>3. NotTold' /\ ConnectPending'
  BY <1>1, <1>2 DEF OneThing, NotTold, ConnectPending
<1>4. \A q \in Clients : Asked(q) /\ down[q] = <<>> =>
        Asked(q)' /\ down'[q] = <<>> /\ request'[q] = request[q]
  BY <1>1 DEF Asked, Waits
<1>5. RequestPending'
  <2>1. \A j \in Pending : output[j].who \in Clients
    BY Entries
  <2> QED
    BY <1>1, <1>2, <1>4, <2>1 DEF OneThing, RequestPending
<1>6. CommandInRing'
  <2>1. \A j \in DOMAIN input : input[j].who \in Clients
    BY Entries
  <2> QED
    BY <1>1, <1>4, <2>1 DEF OneThing, CommandInRing
<1>7. \A q \in Clients : Own(q)'
  <2> SUFFICES ASSUME NEW q \in Clients \ {r}
               PROVE  Own(q)'
    OBVIOUS
  <2> QED
    BY <1>1 DEF OneThing, Own, RequestSent, ReplySent, NoRequest, Waits, Asked
<1> QED
  BY <1>3, <1>5, <1>6, <1>7 DEF OneThing

LEMMA RobotKeeps ==
  ASSUME TypeOK, OneThing, NEW r \in Clients, Robot(r)
  PROVE  OneThing'
<1>1. ServerGoesOn
  BY Zenon DEF Robot, OpenConnection, OpenAgain, OpenFails, MakeRequest,
     TestEnds, SendWhole, SendAgain, SendFails, ExpectReply, ExpectMismatch,
     ExpectPart, ExpectAgain, ExpectLost
<1>2. forwarded' = forwarded
  BY <1>1 DEF ServerGoesOn, vars
<1>3. RobotsTypeOK /\ forwarded \in [Clients -> Nat] /\ Own(r)
      /\ pc # "mismatch"
  BY DEF TypeOK, SessionsTypeOK, OneThing
<1> DEFINE Alone ==
      /\ \A q \in Clients \ {r} :
           /\ state'[q] = state[q] /\ request'[q] = request[q]
           /\ up'[q] = up[q] /\ down'[q] = down[q]
      /\ Asked(r) /\ down[r] = <<>> =>
           Asked(r)' /\ down'[r] = <<>> /\ request'[r] = request[r]
      /\ Own(r)' /\ pc' # "mismatch"
<1>4. Alone
  <2> USE <1>2, <1>3 DEF RobotsTypeOK, Goes, GoesOnIfWorking, robots, streams,
          main, At, Own, RequestSent, ReplySent, NoRequest, Waits, Asked
  <2>2. CASE OpenConnection(r) \/ OpenAgain(r)
    BY <2>2 DEF OpenConnection, OpenAgain
  <2>3. CASE OpenFails(r)
    BY <2>3 DEF OpenFails
  <2>4. CASE MakeRequest(r)
    <3>1. /\ request' = [request EXCEPT ![r] = @ + 1]
          /\ state' = [state EXCEPT ![r] = "send"] /\ UNCHANGED <<pc, streams>>
          /\ state[r] = "loop"
      BY <2>4 DEF MakeRequest
    <3> QED
      BY <3>1
  <2>5. CASE TestEnds(r)
    BY <2>5 DEF TestEnds
  <2>6. CASE SendWhole(r)
    BY <2>6 DEF SendWhole
  <2>7. CASE SendAgain(r)
    BY <2>7 DEF SendAgain
  <2>8. CASE SendFails(r)
    BY <2>8 DEF SendFails
  <2>9. CASE ExpectReply(r)
    BY <2>9 DEF ExpectReply
  <2>10. CASE ExpectMismatch(r)
    BY <2>10 DEF ExpectMismatch
  <2>11. CASE ExpectPart(r)
    BY <2>11 DEF ExpectPart
  <2>12. CASE ExpectAgain(r)
    BY <2>12 DEF ExpectAgain
  <2>13. CASE ExpectLost(r)
    BY <2>13 DEF ExpectLost
  <2> QED
    BY <2>2, <2>3, <2>4, <2>5, <2>6, <2>7, <2>8, <2>9, <2>10, <2>11, <2>12,
       <2>13 DEF Robot
<1> QED
  BY <1>1, <1>4, RobotAlone

LEMMA MainKeeps ==
  ASSUME TypeOK, Creation, OneThing, Main \/ Signalled
  PROVE  OneThing'
<1>1. ServerGoesOn
  BY DEF Main, Create, CreateFails, InitDone, Signalled, Join, AllJoined
<1>2. forwarded' = forwarded
  BY <1>1 DEF ServerGoesOn, vars
<1>3. RobotsTypeOK /\ forwarded \in [Clients -> Nat]
      /\ (\A r \in Clients : Own(r)) /\ pc # "mismatch"
  BY DEF TypeOK, SessionsTypeOK, OneThing
<1>4. pc' # "mismatch"
  BY <1>3 DEF Main, Create, CreateFails, InitDone, Signalled, Join, AllJoined
<1>5. CASE Create
  <2>1. PICK r \in Clients : r = i
    BY <1>5 DEF Create
  <2>2. state[r] = "none"
    BY <1>5, <2>1, Constants DEF Create, Creation
  <2>3. /\ state' = [state EXCEPT ![r] = "open"]
        /\ UNCHANGED <<request, up, down>>
    BY <1>5, <2>1 DEF Create, streams
  <2>4. \A q \in Clients \ {r} :
          /\ state'[q] = state[q] /\ request'[q] = request[q]
          /\ up'[q] = up[q] /\ down'[q] = down[q]
    BY <1>3, <2>3 DEF RobotsTypeOK
  <2>5. ~Asked(r)
    BY <2>2 DEF Asked, Waits
  <2>6. Own(r)'
    BY <1>2, <1>3, <2>2, <2>3 DEF RobotsTypeOK, Own, RequestSent, ReplySent,
       NoRequest, Waits, Asked
  <2> QED
    BY <1>1, <1>4, <2>4, <2>5, <2>6, RobotAlone
<1>6. CASE ~Create
  <2>1. UNCHANGED <<state, request, up, down>>
    BY <1>6 DEF Main, CreateFails, InitDone, Signalled, Join, AllJoined,
       robots, streams
  <2>2. UNCHANGED <<output, told, forwarded, open, established, handled, input>>
    BY <1>1 DEF ServerGoesOn, vars, backend
  <2> QED
    BY <1>4, <2>1, <2>2 DEF OneThing, RequestPending, ConnectPending,
       CommandInRing, NotTold, Own, RequestSent, ReplySent, NoRequest, Waits,
       Asked, NoCommand, Pending
<1> QED
  BY <1>5, <1>6

-----------------------------------------------------------------------------
(***************************************************************************)
(* Steps of tconnd.  What it tells the backend is the last thing pending.  *)
(***************************************************************************)
LEMMA PendingGrows ==
  ASSUME TypeOK, NEW m, output' = Append(output, m), handled' = handled
  PROVE  LET last == Len(output) + 1
         IN  /\ last \in Pending' /\ output'[last] = m
             /\ \A k \in Pending :
                  k # last /\ k \in Pending' /\ output'[k] = output[k]
             /\ \A k \in Pending' : k \in Pending \/ k = last
<1>1. /\ output \in Seq(Messages) /\ handled \in Nat /\ Len(output) \in Nat
      /\ handled <= Len(output)
  BY DEF TypeOK, SessionsTypeOK, BackendTypeOK
<1>2. Len(output') = Len(output) + 1 /\ output'[Len(output) + 1] = m
      /\ \A k \in 1 .. Len(output) : output'[k] = output[k]
  BY <1>1
<1> QED
  BY <1>1, <1>2 DEF Pending

LEMMA AcceptKeeps ==
  ASSUME TypeOK, OneThing, NEW r \in Clients, TconndAccept(r)
  PROVE  OneThing'
<1> DEFINE last == Len(output) + 1
           m == [cmd |-> "connect", who |-> r, size |-> 0]
<1>1. /\ told[r] = "nothing" /\ told' = [told EXCEPT ![r] = "connect"]
      /\ output' = Append(output, m) /\ open' = open \union {r}
      /\ handled' = handled
  BY DEF TconndAccept, Connect, Tells, backend
<1>2. UNCHANGED <<forwarded, established, pc, state, request, up, down, input>>
  BY DEF TconndAccept, Connect, streams, backend, RobotsGoOn, main, robots
<1>3. /\ last \in Pending' /\ output'[last] = m
      /\ \A k \in Pending :
           k # last /\ k \in Pending' /\ output'[k] = output[k]
      /\ \A k \in Pending' : k \in Pending \/ k = last
  BY <1>1, PendingGrows
<1>4. m.cmd = "connect" /\ m.who = r /\ m.size = 0
  OBVIOUS
<1>5. /\ \A q \in Clients \ {r} : told'[q] = told[q]
      /\ told'[r] = "connect"
  BY <1>1 DEF TypeOK, SessionsTypeOK
<1>6. /\ forwarded[r] = 0 /\ r \notin established /\ NoCommand(r)
      /\ \A k \in Pending : output[k].who # r
  BY <1>1 DEF OneThing, NotTold
<1>7. \A q : NoCommand(q)' = NoCommand(q) /\ Asked(q)' = Asked(q)
  BY <1>2 DEF NoCommand, Asked, Waits
<1> HIDE DEF last, m
<1>8. RequestPending'
  <2>1. RequestPending
    BY DEF OneThing
  <2> QED
    BY <1>2, <1>3, <1>4, <1>6, <1>7, <2>1 DEF RequestPending
<1>9. ConnectPending'
  <2>1. ConnectPending
    BY DEF OneThing
  <2> QED
    BY <1>2, <1>3, <1>4, <1>6, <1>7, <2>1 DEF ConnectPending
<1>10. NotTold'
  <2>1. NotTold
    BY DEF OneThing
  <2>2. \A q \in Clients \ {r} : q \in open' => q \in open
    BY <1>1
  <2> QED
    BY <1>2, <1>3, <1>4, <1>5, <1>7, <2>1, <2>2 DEF NotTold
<1>11. CommandInRing' /\ \A q \in Clients : Own(q)'
  BY <1>2, <1>7 DEF OneThing, CommandInRing, Own, RequestSent, ReplySent,
     NoRequest, Waits, Asked
<1> QED
  BY <1>2, <1>8, <1>9, <1>10, <1>11 DEF OneThing

LEMMA ForwardKeeps ==
  ASSUME TypeOK, OneThing, NEW r \in Clients, TconndForward(r)
  PROVE  OneThing'
<1> DEFINE last == Len(output) + 1
           m == [cmd |-> "recv", who |-> r, size |-> 1]
<1>1. /\ up[r] # 0 /\ r \in established /\ told[r] = "connect"
      /\ output' = Append(output, m) /\ handled' = handled
      /\ forwarded' = [forwarded EXCEPT ![r] = @ + 1]
      /\ up' = [up EXCEPT ![r] = 0]
  BY DEF TconndForward, Forward, Tells, backend
<1>2. UNCHANGED <<told, open, established, pc, state, request, down, input>>
  BY DEF TconndForward, Forward, backend, RobotsGoOn, main, robots
<1>3. /\ last \in Pending' /\ output'[last] = m
      /\ \A k \in Pending :
           k # last /\ k \in Pending' /\ output'[k] = output[k]
      /\ \A k \in Pending' : k \in Pending \/ k = last
  BY <1>1, PendingGrows
<1>4. m.cmd = "recv" /\ m.who = r /\ m.size = 1
  OBVIOUS
<1>5. /\ Waits(r) /\ up[r] = request[r] /\ down[r] = <<>>
      /\ forwarded[r] = request[r] - 1 /\ ~Asked(r)
  BY <1>1 DEF OneThing, Own, RequestSent, Asked
<1>6. /\ \A q \in Clients \ {r} : forwarded'[q] = forwarded[q]
                                /\ up'[q] = up[q]
      /\ forwarded'[r] = request[r] /\ up'[r] = 0
  BY <1>1, <1>5 DEF TypeOK, SessionsTypeOK, RobotsTypeOK
<1>7. /\ \A q \in Clients \ {r} : Asked(q)' = Asked(q)
      /\ Asked(r)' /\ \A q : NoCommand(q)' = NoCommand(q)
  BY <1>2, <1>5, <1>6 DEF NoCommand, Asked, Waits
<1> HIDE DEF last, m
<1>8. \A j \in Pending : output[j].who = r =>
        output[j].cmd = "recv" /\ output[j].size = 0
  <2>1. \A j \in Pending : output[j].cmd \in {"connect", "recv"}
                           /\ output[j].size \in Nat
    BY Entries DEF Messages
  <2>2. RequestPending /\ ConnectPending
    BY DEF OneThing
  <2> QED
    BY <1>1, <1>5, <2>1, <2>2 DEF RequestPending, ConnectPending
<1>9. NoCommand(r)
  <2>1. \A j \in DOMAIN input : input[j].cmd \in {"accept", "send"}
    BY Entries DEF Commands
  <2> QED
    BY <1>1, <1>5, <2>1 DEF OneThing, CommandInRing, NoCommand
<1>10. RequestPending'
  <2>1. RequestPending
    BY DEF OneThing
  <2> QED
    BY <1>2, <1>3, <1>4, <1>5, <1>7, <1>8, <1>9, <2>1, Entries
       DEF RequestPending
<1>11. ConnectPending'
  <2>1. ConnectPending
    BY DEF OneThing
  <2> QED
    BY <1>2, <1>3, <1>4, <1>6, <1>7, <1>8, <2>1, Entries DEF ConnectPending
<1>12. CommandInRing'
  BY <1>2, <1>6, <1>7, <1>9, Entries DEF OneThing, CommandInRing, NoCommand
<1>13. NotTold'
  <2>1. NotTold
    BY DEF OneThing
  <2>2. \A q \in Clients : told[q] = "nothing" => q # r
    BY <1>1
  <2> QED
    BY <1>2, <1>3, <1>4, <1>6, <1>7, <2>1, <2>2 DEF NotTold
<1>14. \A q \in Clients : Own(q)'
  BY <1>2, <1>5, <1>6, <1>7 DEF OneThing, Own, RequestSent, ReplySent,
     NoRequest, Waits
<1> QED
  BY <1>2, <1>10, <1>11, <1>12, <1>13, <1>14 DEF OneThing

LEMMA EndKeeps ==
  ASSUME TypeOK, OneThing, NEW r \in Clients, TconndEnd(r)
  PROVE  OneThing'
<1> DEFINE last == Len(output) + 1
           m == [cmd |-> "recv", who |-> r, size |-> 0]
<1>1. /\ r \in established /\ told[r] = "connect"
      /\ told' = [told EXCEPT ![r] = "closed"]
      /\ output' = Append(output, m) /\ handled' = handled
      /\ open' = open \ {r} /\ established' = established \ {r}
  BY DEF TconndEnd, End, Leaves, Tells, backend
<1>2. UNCHANGED <<forwarded, pc, state, request, up, down, input>>
  BY DEF TconndEnd, End, streams, backend, RobotsGoOn, main, robots
<1>3. /\ last \in Pending' /\ output'[last] = m
      /\ \A k \in Pending :
           k # last /\ k \in Pending' /\ output'[k] = output[k]
      /\ \A k \in Pending' : k \in Pending \/ k = last
  BY <1>1, PendingGrows
<1>4. m.cmd = "recv" /\ m.who = r /\ m.size = 0
  OBVIOUS
<1>5. /\ \A q \in Clients \ {r} : told'[q] = told[q]
      /\ told'[r] = "closed"
  BY <1>1 DEF TypeOK, SessionsTypeOK
<1>7. \A q : NoCommand(q)' = NoCommand(q) /\ Asked(q)' = Asked(q)
  BY <1>2 DEF NoCommand, Asked, Waits
<1>8. \A q : (q \in open' => q \in open)
             /\ (q \in established' => q \in established)
  BY <1>1
<1> HIDE DEF last, m
<1>9. RequestPending'
  <2>1. RequestPending
    BY DEF OneThing
  <2> QED
    BY <1>2, <1>3, <1>4, <1>7, <2>1, Entries DEF RequestPending
<1>10. ConnectPending'
  <2>1. ConnectPending
    BY DEF OneThing
  <2>2. \A k \in Pending : output[k].cmd = "connect" => output[k].who # r
    BY <1>1, <2>1 DEF ConnectPending
  <2> QED
    BY <1>2, <1>3, <1>4, <1>7, <1>8, <2>1, <2>2 DEF ConnectPending
<1>11. NotTold'
  <2>1. NotTold
    BY DEF OneThing
  <2> QED
    BY <1>2, <1>3, <1>4, <1>5, <1>7, <1>8, <2>1 DEF NotTold
<1>12. CommandInRing' /\ \A q \in Clients : Own(q)'
  BY <1>2, <1>7, <1>8 DEF OneThing, CommandInRing, Own, RequestSent,
     ReplySent, NoRequest, Waits, Asked
<1> QED
  BY <1>2, <1>9, <1>10, <1>11, <1>12 DEF OneThing

(* The connection is dropped, or does not come about.                      *)
LEMMA DropKeeps ==
  ASSUME TypeOK, OneThing, NEW r \in Clients, TconndDrop(r) \/ Refuse(r)
  PROVE  OneThing'
<1>1. /\ established' \subseteq established /\ open' \subseteq open
      /\ UNCHANGED <<output, told, forwarded, pc, state, request, down,
                     handled, input>>
  BY DEF TconndDrop, Refuse, Drop, Leaves, streams, backend, RobotsGoOn, main,
         robots, vars
<1>2. up' = up \/ up' = [up EXCEPT ![r] = 0]
  BY DEF TconndDrop, Refuse, streams
<1>3. \A q \in Clients : up'[q] \in {up[q], 0}
  BY <1>2 DEF TypeOK, RobotsTypeOK
<1>4. \A q : NoCommand(q)' = NoCommand(q)
  BY <1>1 DEF NoCommand
<1>5. \A q \in Clients : Asked(q) => Asked(q)'
  BY <1>1, <1>3 DEF Asked, Waits
<1>6. Pending' = Pending
  BY <1>1 DEF Pending
<1>7. RequestPending' /\ ConnectPending' /\ CommandInRing'
  BY <1>1, <1>4, <1>5, <1>6, Entries DEF OneThing, RequestPending,
     ConnectPending, CommandInRing
<1>8. NotTold'
  BY <1>1, <1>4, <1>6 DEF OneThing, NotTold
<1>9. \A q \in Clients : Own(q)'
  BY <1>1, <1>3, <1>5 DEF OneThing, Own, RequestSent, ReplySent, NoRequest,
     Waits
<1> QED
  BY <1>1, <1>7, <1>8, <1>9 DEF OneThing

(* A command is taken out of the input tbus.                               *)
LEMMA InputShrinks ==
  ASSUME TypeOK, OneThing, NextCommand, NEW r, r = Head(input).who
  PROVE  /\ 1 \in DOMAIN input /\ Head(input) = input[1]
         /\ \A k \in DOMAIN input' :
              /\ k + 1 \in DOMAIN input /\ input'[k] = input[k + 1]
              /\ input'[k].who # r
         /\ NoCommand(r)' /\ \A q : NoCommand(q) => NoCommand(q)'
<1>1. input \in Seq(Commands) /\ input # <<>> /\ input' = Tail(input)
  BY DEF NextCommand, TypeOK, BackendTypeOK
<1>2. 1 \in DOMAIN input /\ Head(input) = input[1]
  BY <1>1
<1>3. \A k \in DOMAIN input' :
        k \in Nat \ {0} /\ k + 1 \in DOMAIN input /\ input'[k] = input[k + 1]
  BY <1>1
<1>4. CommandInRing
  BY DEF OneThing
<1>5. \A k \in DOMAIN input' : input'[k].who # r
  <2>1. \A k \in DOMAIN input : input[k].who = input[1].who => k = 1
    BY <1>2, <1>4 DEF CommandInRing
  <2> QED
    BY <1>2, <1>3, <2>1
<1>6. NoCommand(r)' /\ \A q : NoCommand(q) => NoCommand(q)'
  BY <1>3, <1>5 DEF NoCommand
<1> QED
  BY <1>2, <1>3, <1>5, <1>6

LEMMA CommandKeeps ==
  ASSUME TypeOK, OneThing, NEW r \in Clients,
         CommandAccept(r) \/ CommandSend(r)
  PROVE  OneThing'
<1>1. NextCommand /\ Head(input).who = r
  BY DEF CommandAccept, CommandSend
<1>2. /\ 1 \in DOMAIN input /\ Head(input) = input[1]
      /\ \A k \in DOMAIN input' :
           /\ k + 1 \in DOMAIN input /\ input'[k] = input[k + 1]
           /\ input'[k].who # r
      /\ NoCommand(r)' /\ \A q : NoCommand(q) => NoCommand(q)'
  BY <1>1, InputShrinks
<1>3. UNCHANGED <<output, told, forwarded, pc, state, request, up, handled>>
  BY DEF CommandAccept, CommandSend, Drop, Accept, Leaves, vars, streams,
         RobotsGoOn, main, robots
<1>4. Pending' = Pending /\ \A q : Asked(q)' = Asked(q)
  BY <1>3 DEF Pending, Asked, Waits
<1>5. input[1].who = r
  BY <1>1, <1>2
<1>6. ~NoCommand(r)
  BY <1>2, <1>5 DEF NoCommand
<1>7. told[r] # "nothing"
  BY <1>6 DEF OneThing, NotTold
<1>8. \A j \in Pending : output[j].who = r =>
        ~(output[j].size > 0) /\ output[j].cmd # "connect"
  BY <1>6 DEF OneThing, RequestPending, ConnectPending
<1>9. \A k \in DOMAIN input' : \A n \in DOMAIN input' :
        input'[k].who = input'[n].who => k = n
  <2>1. \A k \in DOMAIN input' : k \in Nat
    BY <1>1 DEF NextCommand, TypeOK, BackendTypeOK
  <2>2. CommandInRing
    BY DEF OneThing
  <2> QED
    BY <1>2, <2>1, <2>2 DEF CommandInRing
<1>10. /\ \A q \in Clients \ {r} : down'[q] = down[q]
       /\ \A q : q # r => (q \in established' => q \in established)
                       /\ (q \in open' => q \in open)
  BY DEF CommandAccept, CommandSend, TypeOK, RobotsTypeOK, Drop, Accept,
         Leaves, vars, streams
<1>11. RequestPending'
  <2>1. RequestPending
    BY DEF OneThing
  <2> QED
    BY <1>2, <1>3, <1>4, <1>8, <1>10, <2>1, Entries DEF RequestPending
<1>12. ConnectPending'
  <2>1. ConnectPending
    BY DEF OneThing
  <2> QED
    BY <1>2, <1>3, <1>4, <1>8, <1>10, <2>1, Entries DEF ConnectPending
<1>13. CommandInRing'
  <2>1. CommandInRing
    BY DEF OneThing
  <2>2. \A k \in DOMAIN input' : input'[k].who \in Clients \ {r}
    BY <1>2, Entries
  <2> QED
    BY <1>2, <1>3, <1>4, <1>9, <1>10, <2>1, <2>2 DEF CommandInRing
<1>14. NotTold'
  <2>1. NotTold
    BY DEF OneThing
  <2> QED
    BY <1>2, <1>3, <1>4, <1>7, <1>10, <2>1 DEF NotTold
<1>15. Own(r)'
  <2>1. Own(r)
    BY DEF OneThing
  <2>2. CASE down'[r] = down[r]
    BY <1>3, <1>4, <2>1, <2>2 DEF Own, RequestSent, ReplySent, NoRequest, Waits
  <2>3. CASE down'[r] # down[r]
    <3>1. /\ input[1].cmd = "send"
          /\ down' = [down EXCEPT ![r] = Append(@, input[1].reply)]
      BY <1>2, <2>3 DEF CommandAccept, CommandSend, streams
    <3>2. /\ Asked(r) /\ down[r] = <<>> /\ input[1].reply = request[r]
      BY <1>2, <1>5, <3>1 DEF OneThing, CommandInRing
    <3>3. down'[r] = <<request[r]>>
      BY <3>1, <3>2 DEF TypeOK, RobotsTypeOK
    <3> QED
      BY <1>3, <1>4, <2>1, <3>2, <3>3 DEF Own, RequestSent, ReplySent,
         NoRequest, Asked
  <2> QED
    BY <2>2, <2>3
<1>16. \A q \in Clients : Own(q)'
  BY <1>3, <1>4, <1>10, <1>15 DEF OneThing, Own, RequestSent, ReplySent,
     NoRequest, Waits
<1> QED
  BY <1>3, <1>11, <1>12, <1>13, <1>14, <1>16 DEF OneThing

-----------------------------------------------------------------------------
(***************************************************************************)
(* Steps of the backend.                                                   *)
(***************************************************************************)

(* It has handled a packet, or a part of the batch again, or given it back *)
(* (what is pending moves by n places): nothing else has changed.          *)
LEMMA PendingMoves ==
  ASSUME TypeOK, OneThing, NEW n \in Nat, FrontGoesOn,
         UNCHANGED <<told, forwarded, open, established, input>>,
         \A k \in Pending' : k + n \in Pending /\ output'[k] = output[k + n]
  PROVE  OneThing'
<1>1. UNCHANGED <<pc, state, request, up, down>>
  BY DEF FrontGoesOn, main, robots, streams
<1>2. \A q : NoCommand(q)' = NoCommand(q) /\ Asked(q)' = Asked(q)
  BY <1>1 DEF NoCommand, Asked, Waits
<1>3. \A k \in Pending' : k \in Int
  BY DEF Pending
<1>4. RequestPending'
  <2>1. RequestPending
    BY DEF OneThing
  <2> QED
    BY <1>1, <1>2, <1>3, <2>1 DEF RequestPending
<1>5. ConnectPending'
  <2>1. ConnectPending
    BY DEF OneThing
  <2>2. \A k \in Pending' : \A j \in Pending' : k + n = j + n => k = j
    <3> SUFFICES ASSUME NEW k \in Int, NEW j \in Int, k + n = j + n
                 PROVE  k = j
      BY <1>3
    <3> QED
      OBVIOUS
  <2> QED
    BY <1>1, <1>2, <2>1, <2>2 DEF ConnectPending
<1>6. NotTold'
  <2>1. NotTold
    BY DEF OneThing
  <2> QED
    BY <1>1, <1>2, <2>1 DEF NotTold
<1>7. CommandInRing' /\ \A q \in Clients : Own(q)'
  BY <1>1, <1>2 DEF OneThing, CommandInRing, Own, RequestSent, ReplySent,
     NoRequest, Waits, Asked
<1> QED
  BY <1>1, <1>4, <1>5, <1>6, <1>7 DEF OneThing

LEMMA ReadKeeps ==
  ASSUME TypeOK, OneThing, batch = 0 => handled = 0,
         ReadBegin \/ OnClose \/ ReadEnd
  PROVE  OneThing'
<1>1. /\ FrontGoesOn
      /\ UNCHANGED <<told, forwarded, open, established, input>>
  BY DEF ReadBegin, OnClose, ReadEnd, Take, vars
<1>2. /\ output \in Seq(Messages) /\ handled \in Nat /\ batch \in Nat
      /\ batch <= Len(output) /\ handled <= batch
  BY DEF TypeOK, SessionsTypeOK, BackendTypeOK
<1>3. CASE ReadBegin
  <2>1. \A k \in Pending' : k + 0 \in Pending /\ output'[k] = output[k + 0]
    BY <1>2, <1>3 DEF ReadBegin, Pending, vars
  <2> QED
    BY <1>1, <2>1, PendingMoves
<1>4. CASE OnClose
  <2>1. \A k \in Pending' : k + 0 \in Pending /\ output'[k] = output[k + 0]
    BY <1>2, <1>4 DEF OnClose, Handling, Pending, vars
  <2> QED
    BY <1>1, <2>1, PendingMoves
<1>5. CASE ReadEnd
  <2>1. /\ output' = SubSeq(output, batch + 1, Len(output))
        /\ handled = batch /\ handled' = 0
    BY <1>5 DEF ReadEnd, Take
  <2>2. /\ Len(output') = Len(output) - batch
        /\ \A k \in 1 .. Len(output') : output'[k] = output[k + batch]
    BY <1>2, <2>1
  <2>3. \A k \in Pending' :
          k + batch \in Pending /\ output'[k] = output[k + batch]
    BY <1>2, <2>1, <2>2 DEF Pending
  <2> QED
    BY <1>1, <1>2, <2>3, PendingMoves
<1> QED
  BY <1>3, <1>4, <1>5

(* While a client has no command in the input tbus there is room for one.  *)
LEMMA RoomForOne ==
  ASSUME TypeOK, OneThing, NEW r \in Clients, NoCommand(r),
         \A q \in Clients : q <= InputLimit
  PROVE  Len(input) < InputLimit
<1> DEFINE S == 1 .. Len(input)
           T == Clients \ {r}
           f == [k \in S |-> input[k].who]
<1>1. Len(input) \in Nat /\ DOMAIN input = S
  BY DEF TypeOK, BackendTypeOK
<1>2. IsFiniteSet(S) /\ Cardinality(S) = Len(input)
  <2>1. \A n \in Nat : /\ IsFiniteSet(1 .. n)
                       /\ Cardinality(1 .. n) = IF 1 > n THEN 0 ELSE n - 1 + 1
    BY FS_Interval
  <2> QED
    BY <1>1, <2>1
<1>3. IsFiniteSet(T) /\ Cardinality(T) = Cardinality(Clients) - 1
  BY Constants, FS_RemoveElement
<1>4. f \in [S -> T]
  BY <1>1, Entries DEF NoCommand
<1>5. \A j \in S : \A k \in S : f[j] = f[k] => j = k
  BY <1>1 DEF OneThing, CommandInRing
<1>6. ~(Cardinality(T) < Cardinality(S))
  <2> SUFFICES ASSUME Cardinality(T) < Cardinality(S)
               PROVE  FALSE
    OBVIOUS
  <2> HIDE DEF S, T, f
  <2>1. \E x, y \in S : x # y /\ f[x] = f[y]
    BY <1>2, <1>3, <1>4, FS_PigeonHole
  <2> QED
    BY <1>5, <2>1
<1> HIDE DEF S, T
<1>7. Cardinality(Clients) \in Clients
  <2>1. Cardinality(Clients) \in Nat /\ r \in Nat /\ 1 <= r
        /\ r <= Cardinality(Clients)
    BY Constants
  <2> QED
    BY <2>1, Constants
<1>8. Cardinality(Clients) <= InputLimit
  BY <1>7
<1> QED
  BY <1>1, <1>2, <1>3, <1>6, <1>8, Constants

(* The backend answers to the packet it handles.                           *)
LEMMA AnswerKeeps ==
  ASSUME TypeOK, OneThing, NEW r \in Clients, NEW c \in Commands, c.who = r,
         Send(c), Handling, FrontGoesOn, UNCHANGED <<vars, batch>>,
         NoCommand(r), told[r] # "nothing",
         c.cmd = "accept" => r \notin established /\ forwarded[r] = 0,
         c.cmd = "send" =>
           Asked(r) /\ down[r] = <<>> /\ c.reply = request[r],
         \A k \in Pending : output[k].who = r /\ k # handled + 1 =>
           output[k].cmd # "connect" /\ ~(output[k].size > 0)
  PROVE  OneThing'
<1>1. UNCHANGED <<pc, state, request, up, down>>
  BY DEF FrontGoesOn, main, robots, streams
<1>2. UNCHANGED <<output, told, forwarded, open, established>>
  BY DEF vars
<1>3. \A k \in Pending' :
        k \in Nat /\ k + 0 \in Pending /\ output'[k] = output[k + 0]
        /\ k \in Pending /\ k # handled + 1
  BY <1>2 DEF Handling, Pending, TypeOK, SessionsTypeOK, BackendTypeOK
<1>4. CASE input' = input
  BY <1>2, <1>3, <1>4, PendingMoves
<1>5. CASE input' = Append(input, c)
  <2> DEFINE last == Len(input) + 1
  <2>1. /\ last \in DOMAIN input' /\ input'[last] = c
        /\ \A k \in DOMAIN input :
             k # last /\ k \in DOMAIN input' /\ input'[k] = input[k]
        /\ \A k \in DOMAIN input' : k \in DOMAIN input \/ k = last
    BY <1>5 DEF TypeOK, BackendTypeOK
  <2> HIDE DEF last
  <2>2. \A q : Asked(q)' = Asked(q)
    BY <1>1, <1>2 DEF Asked, Waits
  <2>3. \A q \in Clients \ {r} : NoCommand(q) => NoCommand(q)'
    BY <2>1 DEF NoCommand
  <2>4. RequestPending'
    <3>1. RequestPending
      BY DEF OneThing
    <3> QED
      BY <1>1, <1>2, <1>3, <2>2, <2>3, <3>1, Entries DEF RequestPending
  <2>5. ConnectPending'
    <3>1. ConnectPending
      BY DEF OneThing
    <3> QED
      BY <1>1, <1>2, <1>3, <2>3, <3>1, Entries DEF ConnectPending
  <2>6. NotTold'
    <3>1. NotTold
      BY DEF OneThing
    <3> QED
      BY <1>2, <1>3, <2>3, <3>1 DEF NotTold
  <2>7. CommandInRing'
    <3>1. CommandInRing
      BY DEF OneThing
    <3>2. \A k \in DOMAIN input : input[k].who # r
      BY DEF NoCommand
    <3> QED
      BY <1>1, <1>2, <2>1, <2>2, <3>1, <3>2, Entries DEF CommandInRing
  <2>8. \A q \in Clients : Own(q)'
    BY <1>1, <1>2, <2>2 DEF OneThing, Own, RequestSent, ReplySent, NoRequest,
       Waits
  <2> QED
    BY <1>1, <2>4, <2>5, <2>6, <2>7, <2>8 DEF OneThing
<1> QED
  BY <1>4, <1>5, SendTypes

LEMMA HandleKeeps ==
  ASSUME TypeOK, OneThing, OnConnect \/ OnRecv
  PROVE  /\ OneThing'
         /\ (\A q \in Clients : q <= InputLimit) => thrown' = thrown
<1>1. /\ Handling /\ FrontGoesOn /\ UNCHANGED <<vars, batch>>
      /\ handled < Len(output) /\ handled + 1 \in Pending
  BY DEF OnConnect, OnRecv, Handling, Pending, TypeOK, SessionsTypeOK,
         BackendTypeOK
<1>2. Packet \in Messages /\ RequestIn \in Int
  BY <1>1, RequestInType
<1> DEFINE r == Packet.who
<1>3. r \in Clients /\ r = output[handled + 1].who
  BY <1>2 DEF Messages, Packet
<1>4. told[r] # "nothing"
  BY <1>1, <1>3 DEF OneThing, NotTold
<1>5. CASE OnConnect
  <2> DEFINE c == [cmd |-> "accept", who |-> r, reply |-> 0]
  <2>1. c \in Commands /\ c.who = r /\ c.cmd = "accept" /\ Send(c)
    BY <1>3, <1>5 DEF OnConnect, Commands
  <2>2. output[handled + 1].cmd = "connect"
    BY <1>5 DEF OnConnect, Packet
  <2>3. /\ r \notin established /\ forwarded[r] = 0 /\ NoCommand(r)
        /\ \A k \in Pending : output[k].who = r => k = handled + 1
    BY <1>1, <1>3, <2>2 DEF OneThing, ConnectPending
  <2>4. c.cmd # "send"
    OBVIOUS
  <2> HIDE DEF c, r
  <2>5. OneThing'
    BY <1>1, <1>3, <1>4, <2>1, <2>3, <2>4, AnswerKeeps
  <2>6. (\A q \in Clients : q <= InputLimit) => thrown' = thrown
    BY <1>3, <2>1, <2>3, RoomForOne DEF Send
  <2> QED
    BY <2>5, <2>6
<1>6. CASE OnRecv
  <2> DEFINE c == [cmd |-> "send", who |-> r, reply |-> RequestIn]
  <2>1. c \in Commands /\ c.who = r /\ c.cmd = "send" /\ Send(c)
        /\ c.reply = RequestIn
    BY <1>2, <1>3, <1>6 DEF OnRecv, Commands
  <2>2. output[handled + 1].size > 0
    BY <1>6 DEF OnRecv, Packet
  <2>3. /\ Asked(r) /\ NoCommand(r) /\ down[r] = <<>>
        /\ \A k \in Pending : output[k].who = r /\ k # handled + 1 =>
             output[k].cmd = "recv" /\ output[k].size = 0
    BY <1>1, <1>3, <2>2 DEF OneThing, RequestPending
  <2>4. RequestIn = request[r]
    <3>1. \A j \in handled + 2 .. Len(output) :
            ~(output[j].who = r /\ output[j].size > 0)
      <4>1. \A j \in handled + 2 .. Len(output) :
              j \in Pending /\ j # handled + 1
        BY DEF Pending, TypeOK, SessionsTypeOK, BackendTypeOK
      <4> QED
        BY <2>3, <4>1
    <3>2. {j \in handled + 2 .. Len(output) :
            output[j].who = Packet.who /\ output[j].size > 0} = {}
      BY <3>1
    <3>3. forwarded[r] = request[r] /\ request[r] \in Nat
      BY <1>3, <2>3 DEF Asked, TypeOK, RobotsTypeOK
    <3>4. RequestIn = forwarded[r] - Cardinality({})
      BY Zenon, <3>2 DEF RequestIn
    <3> QED
      BY <3>3, <3>4, FS_EmptySet
  <2>5. c.cmd # "accept"
    OBVIOUS
  <2>6. \A k \in Pending : output[k].who = r /\ k # handled + 1 =>
          output[k].cmd # "connect" /\ ~(output[k].size > 0)
    BY <2>3
  <2> HIDE DEF c, r
  <2>7. OneThing'
    BY <1>1, <1>3, <1>4, <2>1, <2>3, <2>4, <2>5, <2>6, AnswerKeeps
  <2>8. (\A q \in Clients : q <= InputLimit) => thrown' = thrown
    BY <1>3, <2>1, <2>3, RoomForOne DEF Send
  <2> QED
    BY <2>7, <2>8
<1> QED
  BY <1>5, <1>6

-----------------------------------------------------------------------------
(***************************************************************************)
(* Every step.                                                             *)
(***************************************************************************)
LEMMA TypesKept ==
  ASSUME TypeOK, [EchoNext]_echoVars
  PROVE  TypeOK'
<1>1. CASE UNCHANGED echoVars
  BY <1>1 DEF echoVars, vars, main, robots, streams, backend, bounds, TypeOK,
     SessionsTypeOK, RobotsTypeOK, BackendTypeOK
<1>2. CASE Rest
  BY <1>1, <1>2 DEF Rest
<1> QED
  BY <1>1, <1>2, MainTypes, RobotTypes, TconndTypes, BackendTypes DEF EchoNext

LEMMA CreationKept ==
  ASSUME TypeOK, Creation, [EchoNext]_echoVars
  PROVE  Creation'
<1>1. CASE Create
  <2>1. i \in Nat /\ i' = i + 1 /\ state' = [state EXCEPT ![i] = "open"]
    BY <1>1 DEF Create, Creation
  <2> QED
    BY <1>1, <2>1, Constants DEF Create, Creation, TypeOK, RobotsTypeOK
<1>2. CASE \E r \in Clients : Robot(r)
  <2> PICK r \in Clients : Robot(r)
    BY <1>2
  <2>1. state[r] # "none" /\ i' = i /\ (pc' = "init" => pc = "init")
        /\ \A q \in Clients \ {r} : state'[q] = state[q]
    BY DEF Robot, OpenConnection, OpenAgain, OpenFails, MakeRequest, TestEnds,
       SendWhole, SendAgain, SendFails, ExpectReply, ExpectMismatch,
       ExpectPart, ExpectAgain, ExpectLost, At, Goes, GoesOnIfWorking, main, robots,
       TypeOK, RobotsTypeOK
  <2> QED
    BY <2>1, Constants DEF Creation
<1>3. CASE pc' # "init"
  BY <1>3 DEF Creation
<1>4. CASE ~Create /\ pc' = "init" /\ ~\E r \in Clients : Robot(r)
  <2>1. UNCHANGED <<pc, i, state>>
    BY <1>4 DEF EchoNext, echoVars, Main, CreateFails, InitDone, Signalled,
       Join, AllJoined, Backend, ReadBegin, OnConnect, OnRecv, OnClose,
       ReadEnd, Kill, Rest, Tconnd, TconndAccept, TconndForward, TconndEnd,
       CommandAccept, CommandSend, TconndDrop, Refuse, FrontGoesOn,
       RobotsGoOn, main, robots
  <2> QED
    BY <2>1 DEF Creation
<1> QED
  BY <1>1, <1>2, <1>3, <1>4

LEMMA OthersKeep ==
  ASSUME TypeOK, OneThing, UNCHANGED echoVars
  PROVE  OneThing'
BY DEF echoVars, vars, main, robots, streams, backend, OneThing,
       RequestPending, ConnectPending, CommandInRing, NotTold, Own,
       RequestSent, ReplySent, NoRequest, Waits, Asked, NoCommand, Pending

(* A kill of the backend is counted, and nothing else is.                  *)
LEMMA Kills ==
  ASSUME TypeOK, [EchoNext]_echoVars
  PROVE  IF Kill THEN kills' # 0 /\ batch' = 0 /\ handled' = 0
                 ELSE kills' = kills
<1>1. kills \in Nat
  BY DEF TypeOK, BackendTypeOK
<1>2. CASE Kill
  BY <1>1, <1>2 DEF Kill
<1>3. CASE ~Kill
  BY <1>3 DEF EchoNext, echoVars, Main, Create, CreateFails, InitDone,
     Signalled, Join, AllJoined, Robot, OpenConnection, OpenAgain, OpenFails,
     MakeRequest, TestEnds, SendWhole, SendAgain, SendFails, ExpectReply,
     ExpectMismatch, ExpectPart, ExpectAgain, ExpectLost, Backend, ReadBegin,
     OnConnect, OnRecv, OnClose, ReadEnd, Rest, Tconnd, TconndAccept,
     TconndForward, TconndEnd, CommandAccept, CommandSend, TconndDrop, Refuse,
     ServerGoesOn, bounds
<1> QED
  BY <1>2, <1>3

(* Commands are thrown away by the two callbacks that answer only.         *)
LEMMA Throws ==
  ASSUME [EchoNext]_echoVars
  PROVE  OnConnect \/ OnRecv \/ thrown' = thrown
BY DEF EchoNext, echoVars, Main, Create, CreateFails, InitDone, Signalled,
   Join, AllJoined, Robot, OpenConnection, OpenAgain, OpenFails, MakeRequest,
   TestEnds, SendWhole, SendAgain, SendFails, ExpectReply, ExpectMismatch,
   ExpectPart, ExpectAgain, ExpectLost, Backend, ReadBegin, OnClose, ReadEnd, Kill, Rest,
   Tconnd, TconndAccept, TconndForward, TconndEnd, CommandAccept, CommandSend,
   TconndDrop, Refuse, ServerGoesOn, backend

LEMMA BatchKept ==
  ASSUME TypeOK, batch = 0 => handled = 0, [EchoNext]_echoVars
  PROVE  batch' = 0 => handled' = 0
<1>1. CASE Backend \/ Kill
  BY <1>1 DEF Backend, ReadBegin, OnConnect, OnRecv, OnClose, ReadEnd, Kill,
     Handling, TypeOK, BackendTypeOK
<1>2. CASE ~(Backend \/ Kill)
  BY <1>2 DEF EchoNext, echoVars, Main, Create, CreateFails, InitDone,
     Signalled, Join, AllJoined, Robot, OpenConnection, OpenAgain, OpenFails,
     MakeRequest, TestEnds, SendWhole, SendAgain, SendFails, ExpectReply,
     ExpectMismatch, ExpectPart, ExpectAgain, ExpectLost, Rest, Tconnd,
     TconndAccept, TconndForward, TconndEnd, CommandAccept, CommandSend,
     TconndDrop, Refuse, ServerGoesOn, backend
<1> QED
  BY <1>1, <1>2

LEMMA OneThingKept ==
  ASSUME IInv, [EchoNext]_echoVars, kills' = 0
  PROVE  OneThing'
<1>1. ~Kill /\ kills = 0
  BY Kills DEF IInv
<1>2. TypeOK /\ Creation /\ OneThing /\ (batch = 0 => handled = 0)
  BY <1>1 DEF IInv
<1>3. CASE UNCHANGED echoVars
  BY <1>2, <1>3, OthersKeep
<1>4. CASE EchoNext
  BY <1>1, <1>2, <1>4, MainKeeps, RobotKeeps, AcceptKeeps, ForwardKeeps,
     EndKeeps, DropKeeps, CommandKeeps, ReadKeeps, HandleKeeps, OthersKeep
     DEF EchoNext, Backend, Tconnd, Rest
<1> QED
  BY <1>3, <1>4

LEMMA StepKeeps == IInv /\ [EchoNext]_echoVars => IInv'
<1> SUFFICES ASSUME IInv, [EchoNext]_echoVars
             PROVE  IInv'
  OBVIOUS
<1>1. TypeOK' /\ Creation' /\ (batch' = 0 => handled' = 0)
  BY TypesKept, CreationKept, BatchKept DEF IInv
<1>2. kills' = 0 => OneThing'
  BY OneThingKept
<1>3. NothingThrown'
  <2> SUFFICES ASSUME kills' = 0, \A r \in Clients : r <= InputLimit
               PROVE  thrown' = {}
    BY DEF NothingThrown
  <2>1. kills = 0 /\ TypeOK /\ OneThing /\ NothingThrown
    BY Kills DEF IInv
  <2>2. thrown = {}
    BY <2>1 DEF NothingThrown
  <2> QED
    BY <2>1, <2>2, Throws, HandleKeeps
<1> QED
  BY <1>1, <1>2, <1>3 DEF IInv

-----------------------------------------------------------------------------
(* As long as the backend is not killed inside a batch, one thing of each  *)
(* robot at most is on its way between the robot and the backend.          *)
THEOREM Invariance == EchoSpec => []IInv
<1> QED
  BY InitHolds, StepKeeps, PTL DEF EchoSpec

(* Every variable of the chain has its type.                               *)
THEOREM TypeCorrect == EchoSpec => []TypeOK
<1>1. IInv => TypeOK
  BY DEF IInv
<1> QED
  BY Invariance, <1>1, PTL

(* No reply goes to a robot that does not wait for it, so robot_expect     *)
(* never meets another request's reply, however many robots there are.     *)
THEOREM RepliesRight == EchoSpec => []RepliesMatch
<1>1. IInv => RepliesMatch
  BY DEF IInv, RepliesMatch, OneThing, Own, ReplySent, Asked, Waits
<1> QED
  BY Invariance, <1>1, PTL

(* Room for one command of each robot is enough for tconnapi_send to find  *)
(* a place for all of them.                                                *)
THEOREM RoomEnough == EchoSpec => []NothingThrown
<1>1. IInv => NothingThrown
  BY DEF IInv
<1> QED
  BY Invariance, <1>1, PTL
=============================================================================
