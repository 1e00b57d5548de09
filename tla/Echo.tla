-------------------------------- MODULE Echo --------------------------------
(***************************************************************************)
(* The whole chain, as tutorials/tconnd runs it: robots (tconnd_client.c,  *)
(* one thread each) send a request and wait for its reply; tconnd, seen as *)
(* the sessions of module Sessions, which Tconnd implements, passes it to  *)
(* the backend (tconnd_server.c with tconnapi.c), which accepts every      *)
(* connection and answers every request through the input tbus.            *)
(*                                                                         *)
(* A packet and its reply are the number of the robot's request.           *)
(***************************************************************************)
EXTENDS Sessions, FiniteSets, Functions

CONSTANTS
  InputLimit,    \* how many commands the input tbus holds
  MaxRequests,   \* bound: requests of all robots
  MaxTroubles    \* bound: connections refused or dropped, kills of the backend

ASSUME EchoAssumption ==
  /\ IsFiniteSet(Clients) /\ Clients = 1 .. Cardinality(Clients)
  /\ OutputLimit \in Nat \ {0} /\ InputLimit \in Nat \ {0}
  /\ MaxRequests \in Nat /\ MaxTroubles \in Nat

VARIABLES
  (* main() of tconnd_client.c: where it is, i of its loops, the flags     *)
  pc, i, g_working,
  (* each robot: where it is, its thread's errno (does it say to try       *)
  (* again?), the number of its request                                    *)
  state, again, request,
  (* its connection: bytes on their way to tconnd, and back                *)
  up, down,
  refused,       \* robots whose connection does not come about
  (* the backend: packets of the batch, how many it has handled; commands  *)
  (* in the input tbus, and the robots of those that found no room         *)
  batch, handled, input, thrown,
  faults, kills

main     == <<pc, i, g_working>>
robots   == <<state, again, request>>
streams  == <<up, down, refused>>
backend  == <<batch, handled, input, thrown>>
bounds   == <<faults, kills>>
echoVars == <<vars, main, robots, streams, backend, bounds>>

EchoInit ==
  /\ Init
  /\ pc = "init" /\ i = 1 /\ g_working = TRUE
  /\ state = [r \in Clients |-> "none"]
  /\ again = [r \in Clients |-> FALSE]
  /\ request = [r \in Clients |-> 0]
  /\ up = [r \in Clients |-> 0] /\ down = [r \in Clients |-> <<>>]
  /\ refused = {}
  /\ batch = 0 /\ handled = 0 /\ input = <<>> /\ thrown = {}
  /\ faults = 0 /\ kills = 0

Running == pc \notin {"ended", "exited", "mismatch"}

(* The connection is over for the robot, which need not know it yet.       *)
Lost(r) == r \in refused \/ (told[r] = "connect" /\ r \notin open)

(* The robot has closed its end, or the process with all of them has gone. *)
Closed(r) == state[r] = "done" \/ (state[r] # "none" /\ ~Running)

-----------------------------------------------------------------------------
(***************************************************************************)
(* main() of the robots.                                                   *)
(***************************************************************************)
ServerGoesOn == UNCHANGED <<vars, backend, bounds>>

Create ==
  /\ pc = "init" /\ i \in Clients
  /\ state' = [state EXCEPT ![i] = "open"]
  /\ i' = i + 1
  /\ UNCHANGED <<pc, g_working, again, request, streams>>
  /\ ServerGoesOn

CreateFails ==
  /\ pc = "init" /\ i \in Clients
  /\ pc' = "exited"
  /\ UNCHANGED <<i, g_working, robots, streams>>
  /\ ServerGoesOn

InitDone ==
  /\ pc = "init" /\ i \notin Clients
  /\ pc' = "loop"
  /\ UNCHANGED <<i, g_working, robots, streams>>
  /\ ServerGoesOn

(* A signal has come, now or during init(), and tapp_loop returns; fini()  *)
(* tells the robots and joins them in order.                               *)
Signalled ==
  /\ pc = "loop"
  /\ pc' = "fini" /\ g_working' = FALSE /\ i' = 1
  /\ UNCHANGED <<robots, streams>>
  /\ ServerGoesOn

Join ==
  /\ pc = "fini" /\ i \in Clients /\ state[i] = "done"
  /\ i' = i + 1
  /\ UNCHANGED <<pc, g_working, robots, streams>>
  /\ ServerGoesOn

AllJoined ==
  /\ pc = "fini" /\ i \notin Clients
  /\ pc' = "ended"
  /\ UNCHANGED <<i, g_working, robots, streams>>
  /\ ServerGoesOn

Main == Create \/ CreateFails \/ InitDone \/ Join \/ AllJoined

-----------------------------------------------------------------------------
(***************************************************************************)
(* Robot r: robot_test_login.                                              *)
(***************************************************************************)
At(r, where) == Running /\ state[r] = where

Goes(r, where) == state' = [state EXCEPT ![r] = where]

(* It tries again unless the program is to end.                            *)
GoesOnIfWorking(r, where) == Goes(r, IF g_working THEN where ELSE "done")

(* connect() is in progress, and errno says so, or it is done.             *)
OpenConnection(r) ==
  /\ At(r, "open")
  /\ \E e \in {again[r], FALSE} : again' = [again EXCEPT ![r] = e]
  /\ Goes(r, "loop")
  /\ UNCHANGED <<main, request, streams>>
  /\ ServerGoesOn

(* It is to be called again: this loop does not look at g_working.         *)
OpenAgain(r) ==
  /\ At(r, "open")
  /\ again' = [again EXCEPT ![r] = TRUE]
  /\ UNCHANGED <<main, state, request, streams>>
  /\ ServerGoesOn

OpenFails(r) ==
  /\ At(r, "open")
  /\ pc' = "exited"
  /\ UNCHANGED <<i, g_working, robots, streams>>
  /\ ServerGoesOn

TestEnds(r) ==
  /\ At(r, "loop") /\ ~g_working
  /\ Goes(r, "done")
  /\ again' = [again EXCEPT ![r] = FALSE]
  /\ UNCHANGED <<main, request, streams>>
  /\ ServerGoesOn

MakeRequest(r) ==
  /\ At(r, "loop") /\ g_working
  /\ FoldFunction(+, 0, request) < MaxRequests
  /\ request' = [request EXCEPT ![r] = @ + 1]
  /\ Goes(r, "send")
  /\ UNCHANGED <<main, again, streams>>
  /\ ServerGoesOn

(* The last bytes are taken by the kernel, also of a connection that is    *)
(* over already.  The robot gives up even so if the program is to end.     *)
SendWhole(r) ==
  /\ At(r, "send")
  /\ up' = IF Lost(r) THEN up ELSE [up EXCEPT ![r] = request[r]]
  /\ GoesOnIfWorking(r, "expect")
  /\ UNCHANGED <<main, again, request, down, refused>>
  /\ ServerGoesOn

(* A part is sent, or nothing can be sent now.                             *)
SendAgain(r) ==
  /\ At(r, "send")
  /\ \E e \in {again[r], TRUE} : again' = [again EXCEPT ![r] = e]
  /\ GoesOnIfWorking(r, "send")
  /\ UNCHANGED <<main, request, streams>>
  /\ ServerGoesOn

SendFails(r) ==
  /\ At(r, "send") /\ Lost(r)
  /\ again' = [again EXCEPT ![r] = FALSE]
  /\ Goes(r, "done")
  /\ UNCHANGED <<main, request, streams>>
  /\ ServerGoesOn

ExpectReply(r) ==
  /\ At(r, "expect") /\ down[r] # <<>> /\ Head(down[r]) = request[r]
  /\ down' = [down EXCEPT ![r] = Tail(@)]
  /\ Goes(r, "loop")
  /\ UNCHANGED <<main, again, request, up, refused>>
  /\ ServerGoesOn

(* It is the reply to another request: "sid mismatch", exit(1).            *)
ExpectMismatch(r) ==
  /\ At(r, "expect") /\ down[r] # <<>> /\ Head(down[r]) # request[r]
  /\ down' = [down EXCEPT ![r] = Tail(@)]
  /\ pc' = "mismatch"
  /\ UNCHANGED <<i, g_working, robots, up, refused>>
  /\ ServerGoesOn

(* A part of the reply has come.                                           *)
ExpectPart(r) ==
  /\ At(r, "expect") /\ down[r] # <<>>
  /\ GoesOnIfWorking(r, "expect")
  /\ UNCHANGED <<main, again, request, streams>>
  /\ ServerGoesOn

(* Mutant: a robot that waits does not look at g_working.                  *)
ExpectAgainForEver(r) ==
  /\ At(r, "expect") /\ down[r] = <<>>
  /\ ~Lost(r) \/ again[r]
  /\ again' = [again EXCEPT ![r] = TRUE]
  /\ UNCHANGED <<main, state, request, streams>>
  /\ ServerGoesOn

(* Nothing has come.  The end of the connection looks the same, recv()     *)
(* returning 0, when errno still says to try again from an earlier call.   *)
ExpectAgain(r) ==
  /\ At(r, "expect") /\ down[r] = <<>>
  /\ ~Lost(r) \/ again[r]
  /\ again' = [again EXCEPT ![r] = TRUE]
  /\ GoesOnIfWorking(r, "expect")
  /\ UNCHANGED <<main, request, streams>>
  /\ ServerGoesOn

ExpectLost(r) ==
  /\ At(r, "expect") /\ down[r] = <<>> /\ Lost(r)
  /\ again' = [again EXCEPT ![r] = FALSE]
  /\ Goes(r, "done")
  /\ UNCHANGED <<main, request, streams>>
  /\ ServerGoesOn

Robot(r) ==
  \/ OpenConnection(r) \/ OpenAgain(r) \/ OpenFails(r)
  \/ MakeRequest(r) \/ TestEnds(r)
  \/ SendWhole(r) \/ SendAgain(r) \/ SendFails(r)
  \/ ExpectReply(r) \/ ExpectMismatch(r) \/ ExpectPart(r)
  \/ ExpectAgain(r) \/ ExpectLost(r)

-----------------------------------------------------------------------------
(***************************************************************************)
(* tconnd: the actions of Sessions, with what the network brings and takes *)
(* and the commands of the backend.                                        *)
(***************************************************************************)
RobotsGoOn == UNCHANGED <<main, robots>>

TconndAccept(r) ==
  /\ state[r] \notin {"none", "open"} /\ r \notin refused
  /\ Connect(r)
  /\ UNCHANGED <<streams, backend, bounds>> /\ RobotsGoOn

TconndForward(r) ==
  /\ up[r] > 0
  /\ Forward(r, 1)
  /\ up' = [up EXCEPT ![r] = 0]
  /\ UNCHANGED <<down, refused, backend, bounds>> /\ RobotsGoOn

TconndEnd(r) ==
  /\ Closed(r) /\ up[r] = 0
  /\ End(r)
  /\ UNCHANGED <<streams, backend, bounds>> /\ RobotsGoOn

NextCommand == input # <<>> /\ input' = Tail(input)

(* Mutant: what has come before the connection is accepted is lost.        *)
CommandAcceptLosesData(r) ==
  /\ NextCommand /\ Head(input) = [cmd |-> "accept", who |-> r, reply |-> 0]
  /\ IF r \in established THEN Drop(r) /\ UNCHANGED up
     ELSE IF r \in open THEN Accept(r) /\ up' = [up EXCEPT ![r] = 0]
                        ELSE UNCHANGED <<vars, up>>
  /\ UNCHANGED <<down, refused, batch, handled, thrown, bounds>>
  /\ RobotsGoOn

(* A connection that has been accepted already is closed.                  *)
CommandAccept(r) ==
  /\ NextCommand /\ Head(input) = [cmd |-> "accept", who |-> r, reply |-> 0]
  /\ IF r \in established THEN Drop(r)
     ELSE IF r \in open THEN Accept(r) ELSE UNCHANGED vars
  /\ UNCHANGED <<streams, batch, handled, thrown, bounds>> /\ RobotsGoOn

CommandSend(r) ==
  /\ NextCommand /\ Head(input).cmd = "send" /\ Head(input).who = r
  /\ down' = IF r \in open /\ ~Closed(r)
             THEN [down EXCEPT ![r] = Append(@, Head(input).reply)] ELSE down
  /\ UNCHANGED <<vars, up, refused, batch, handled, thrown, bounds>>
  /\ RobotsGoOn

Tconnd(r) == \/ TconndAccept(r) \/ TconndForward(r) \/ TconndEnd(r)
             \/ CommandAccept(r) \/ CommandSend(r)

(* tconnd drops a connection without a word: an error or a timeout.        *)
TconndDrop(r) ==
  /\ faults + kills < MaxTroubles /\ faults' = faults + 1
  /\ Drop(r)
  /\ UNCHANGED <<kills, streams, backend>> /\ RobotsGoOn

Refuse(r) ==
  /\ faults + kills < MaxTroubles /\ faults' = faults + 1
  /\ told[r] = "nothing" /\ r \notin refused
  /\ state[r] \notin {"none", "open"}
  /\ refused' = refused \union {r}
  /\ up' = [up EXCEPT ![r] = 0]
  /\ UNCHANGED <<vars, down, backend, kills>> /\ RobotsGoOn

-----------------------------------------------------------------------------
(***************************************************************************)
(* The backend: tconnapi_process, and the callbacks of tconnd_server.c.    *)
(***************************************************************************)
FrontGoesOn == UNCHANGED <<main, robots, streams>>

ReadBegin ==
  /\ batch = 0
  /\ batch' \in 1 .. Len(output) /\ handled' = 0
  /\ UNCHANGED <<vars, input, thrown, bounds>> /\ FrontGoesOn

(* tbusapi_send: without room the command is thrown away, and nobody told. *)
Send(command) ==
  IF Len(input) < InputLimit
  THEN input' = Append(input, command) /\ UNCHANGED thrown
  ELSE thrown' = thrown \union {command.who} /\ UNCHANGED input

Packet == output[handled + 1]

(* Which request the packet is: those of a robot are forwarded in order.   *)
RequestIn ==
  forwarded[Packet.who] -
    Cardinality({j \in handled + 2 .. Len(output) :
                   output[j].who = Packet.who /\ output[j].size > 0})

Handling == handled < batch /\ handled' = handled + 1

OnConnect ==
  /\ Handling /\ Packet.cmd = "connect"
  /\ Send([cmd |-> "accept", who |-> Packet.who, reply |-> 0])
  /\ UNCHANGED <<vars, batch, bounds>> /\ FrontGoesOn

(* Mutant: the loop over the packets of a message does not move on.        *)
OnRecvStays ==
  /\ handled < batch /\ Packet.size > 0
  /\ Send([cmd |-> "send", who |-> Packet.who, reply |-> RequestIn])
  /\ \E n \in {handled, handled + 1} : handled' = n
  /\ UNCHANGED <<vars, batch, bounds>> /\ FrontGoesOn

OnRecv ==
  /\ Handling /\ Packet.size > 0
  /\ Send([cmd |-> "send", who |-> Packet.who, reply |-> RequestIn])
  /\ UNCHANGED <<vars, batch, bounds>> /\ FrontGoesOn

(* Mutant: the backend takes leave of a client that has gone.              *)
OnCloseAnswers ==
  /\ Handling /\ Packet.cmd = "recv" /\ Packet.size = 0
  /\ Send([cmd |-> "send", who |-> Packet.who, reply |-> 0])
  /\ UNCHANGED <<vars, batch, bounds>> /\ FrontGoesOn

OnClose ==
  /\ Handling /\ Packet.cmd = "recv" /\ Packet.size = 0
  /\ UNCHANGED <<vars, batch, input, thrown, bounds>> /\ FrontGoesOn

ReadEnd ==
  /\ batch > 0 /\ handled = batch
  /\ Take(batch)
  /\ batch' = 0 /\ handled' = 0
  /\ UNCHANGED <<input, thrown, bounds>> /\ FrontGoesOn

Backend == ReadBegin \/ OnConnect \/ OnRecv \/ OnClose \/ ReadEnd

(* The backend is killed inside a batch and started again.                 *)
Kill ==
  /\ faults + kills < MaxTroubles /\ kills' = kills + 1
  /\ batch > 0
  /\ batch' = 0 /\ handled' = 0
  /\ UNCHANGED <<vars, input, thrown, faults>> /\ FrontGoesOn

-----------------------------------------------------------------------------
(* Nothing more need happen.                                               *)
Rest ==
  /\ output = <<>> /\ input = <<>>
  /\ UNCHANGED echoVars

EchoNext ==
  \/ Main \/ Signalled \/ Backend \/ Kill \/ Rest
  \/ \E r \in Clients : Robot(r) \/ Tconnd(r) \/ TconndDrop(r) \/ Refuse(r)

EchoSpec == EchoInit /\ [][EchoNext]_echoVars

(* The loops of the three programs, and the threads of the robots; no call *)
(* tells a robot to try again for ever.                                    *)
EchoFairness ==
  /\ WF_echoVars(Main) /\ WF_echoVars(Backend)
  /\ \A r \in Clients : WF_echoVars(Robot(r)) /\ WF_echoVars(Tconnd(r))

EchoFairSpec == EchoSpec /\ EchoFairness

-----------------------------------------------------------------------------
(* Safety: as long as the backend is not killed inside a batch, a robot is *)
(* never sent a reply it does not wait for, so none exits with a mismatch, *)
(* however requests and replies lie in the two rings and sockets.          *)
RepliesMatch ==
  kills = 0 =>
    /\ pc # "mismatch"
    /\ \A r \in Clients : down[r] # <<>> =>
         state[r] \in {"expect", "done"} /\ down[r] = <<request[r]>>

(* Safety: a robot has one command at most on its way, so an input tbus    *)
(* with room for one of each is enough, and tconnapi throws none away:     *)
(* there is no other flow control towards tconnd.                          *)
NothingThrown ==
  (kills = 0 /\ \A r \in Clients : r <= InputLimit) => thrown = {}

(* Liveness: a robot that waits for a reply gets it, unless its connection *)
(* is lost or a command for it was thrown away.                            *)
Answered ==
  \A r \in Clients :
    At(r, "expect") ~> (~At(r, "expect") \/ Lost(r) \/ r \in thrown)

(* Liveness: the robots end when they are told to, also those that wait    *)
(* for a reply that does not come, so that fini() joins them all.  (One    *)
(* whose connect() said to try again for ever would be joined for ever.)   *)
Ends == (pc = "fini") ~> ~Running
=============================================================================
