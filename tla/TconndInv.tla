----------------------------- MODULE TconndInv ------------------------------
(***************************************************************************)
(* What makes the connection server of module Tconnd correct.              *)
(***************************************************************************)
EXTENDS Tconnd

(* Every variable has its type; iovecs stay within TCONND_SOCKET_OP_LIST_  *)
(* MAX, and the output tbus within its size.                               *)
SocketType ==
  [sn : Nat \union {Invalid}, status : {"closed", "syn_sent", "established"},
   readable : BOOLEAN, writable : BOOLEAN, iov_num : 0 .. OpListMax,
   package : 0 .. 1, pending_ticks : Nat, package_ticks : Nat,
   who : Clients \union {0}]
CidType == [id : Slots, sn : Nat \union {Invalid}, who : Clients \union {0}]

TypeOK ==
  /\ pool \in [sn : Nat, unused : Seq(Slots), used : Int,
               packages : 0 .. PackageConnections]
  /\ sock \in [Slots -> SocketType] /\ listen_readable \in BOOLEAN
  /\ readable_list \in Seq(Slots \union {Listen})
  /\ g_pending_socket_list \in Seq(Slots)
  /\ g_package_socket_list \in Seq(Slots) /\ writable_list \in Seq(Slots)
  /\ g_cur_ticks \in Nat
  /\ pc \in {"poll", "serve", "input", "command", "flush", "pending",
             "package", "wrecked"}
  /\ iter \in Slots \union {Listen, End}
  /\ batch \in Nat /\ command \in Nat /\ index \in Nat
  /\ arrived \in 0 .. MaxClients /\ accepted \in 0 .. arrived
  /\ stream \in [Clients -> 0 .. MaxHalves]
  /\ got \in [Clients -> 0 .. MaxHalves]
  /\ huge \subseteq Clients /\ closed \subseteq Clients
  /\ edges \subseteq Clients /\ listen_edge \in BOOLEAN /\ expired \in Nat
  /\ output \in Seq([cmd : {"connect", "recv"}, size : Nat, cid : CidType])
  /\ Len(output) <= OutputLimit
  /\ input \in Seq([cmd : CommandKinds, cids : Seq(CidType)])
  /\ heard \subseteq CidType /\ commands \in 0 .. MaxCommands
  /\ open \subseteq Clients /\ forwarded \in [Clients -> Nat]
  /\ told \in [Clients -> {"nothing", "connect", "closed"}]
  /\ restarts \in 0 .. MaxRestarts

(* Once a socket has been freed twice nothing is promised any more.        *)
Sane == pc # "wrecked"

-----------------------------------------------------------------------------
(* Safety: each intrusive list links exactly the sockets whose state says  *)
(* so, each once, and no socket of the pool; in particular epoll_wait      *)
(* never reports a socket that is readable already (the assert in          *)
(* tconnd_epool_proc).                                                     *)
Links(list, S) == IsInjective(list) /\ ToSet(list) = S

ListsAgree ==
  Sane =>
    /\ Links(g_pending_socket_list,
             {s \in Slots : sock[s].status = "syn_sent"})
    /\ Links(g_package_socket_list,
             {s \in Slots : sock[s].package > 0})
    /\ Links(readable_list,
             {s \in Slots : sock[s].readable}
               \union (IF listen_readable THEN {Listen} ELSE {}))
    /\ pc = "command" => Links(writable_list,
                               {s \in Slots : sock[s].writable})
    /\ \A s \in Slots : ~Live(s) => sock[s] = Unused
    /\ \A s \in Slots : sock[s].readable \/ sock[s].package > 0 =>
                          sock[s].status = "established"

(* Safety: both pools account for every unit: a unit is in use or on the   *)
(* list of unused ones, once, and a package buffer belongs to one socket.  *)
UsedListNum == pool.used = Cardinality({s \in Slots : Live(s)})

PoolsAgree ==
  Sane => /\ UsedListNum
          /\ Links(pool.unused, {s \in Slots : ~Live(s)})
          /\ pool.packages + Cardinality({s \in Slots : sock[s].package > 0})
               = PackageConnections

(* Safety: no socket points into the input tbus after tbus_read_end: what  *)
(* it was given to send has been sent, or it has been closed.              *)
NoDanglingIov ==
  \A s \in Slots :
    sock[s].iov_num > 0 =>
      \/ pc = "command" /\ s \in ToSet(writable_list)
      \/ pc = "flush" /\ \E i \in index .. Len(writable_list) :
                           writable_list[i] = s

(* Safety: the deadlines along a list never decrease, so the loops of      *)
(* tconnd_timer_process, which stop at the first one that has not come,    *)
(* miss none.                                                              *)
DeadlinesInOrder ==
  /\ \A i, j \in DOMAIN g_pending_socket_list :
       i < j => sock[g_pending_socket_list[i]].pending_ticks
                  <= sock[g_pending_socket_list[j]].pending_ticks
  /\ \A i, j \in DOMAIN g_package_socket_list :
       i < j => sock[g_package_socket_list[i]].package_ticks
                  <= sock[g_package_socket_list[j]].package_ticks

(* Safety: with edge-triggered events a socket that has something to read  *)
(* is either still readable for the loop or about to be reported; so is    *)
(* the listening socket.                                                   *)
NoLostEvent ==
  Sane =>
    /\ \A s \in Slots :
         LET c == sock[s].who
         IN  /\ sock[s].status = "established"
             /\ Unread(c) > 0 \/ c \in huge \union closed
             => sock[s].readable \/ c \in edges
    /\ accepted < arrived => listen_readable \/ listen_edge

(* Safety: cutting a stream into packages loses and invents nothing: what  *)
(* was received is what was forwarded and the half package in the buffer.  *)
StreamCut ==
  \A s \in Slots :
    sock[s].status = "established" =>
      2 * forwarded[sock[s].who] + sock[s].package = got[sock[s].who]

(* Safety: a command reaches the client the backend meant: a connection    *)
(* that is gone, its socket used again, is told by its serial number.      *)
CidsReachTheirClients ==
  LET named == heard \union UNION {ToSet(input[i].cids) : i \in DOMAIN input}
  IN  \A cid \in named : Matches(cid) => sock[cid.id].who = cid.who

(* Safety: the same as long as the server that gave out the serial numbers *)
(* is the one that compares them.                                          *)
CidsUntilRestart == restarts = 0 => CidsReachTheirClients

(* Refinement: the server implements the sessions of module Sessions: the  *)
(* backend hears of a connection first, then of its packages, none before  *)
(* it has accepted, then of its end, which comes once and last, whatever   *)
(* the clients, the commands, the timeouts and the restarts do.            *)
S == INSTANCE Sessions WITH
       output <- [i \in DOMAIN output |->
                    [cmd |-> output[i].cmd, who |-> output[i].cid.who,
                     size |-> output[i].size]],
       established <- {sock[s].who :
                         s \in {t \in Slots : sock[t].status = "established"}}

IsSessions == S!Spec

-----------------------------------------------------------------------------
(* Liveness: a connection that the backend does not accept, and a package  *)
(* that the client does not complete, do not last for ever: the timeouts   *)
(* of tconnd_config.tdr.                                                   *)
Waiting(c) == \E s \in Slots : /\ sock[s].who = c
                               /\ \/ sock[s].status = "syn_sent"
                                  \/ sock[s].package > 0

Deadlines == \A c \in Clients : Waiting(c) ~> ~Waiting(c)

(* Liveness: a whole package that a client has sent on an established      *)
(* connection reaches the output tbus, unless the connection is closed.    *)
Complete(c) == /\ \E s \in Slots : /\ sock[s].who = c
                                   /\ sock[s].status = "established"
               /\ stream[c] > 2 * forwarded[c] + 1

PackagesForwarded == \A c \in Clients : Complete(c) ~> ~Complete(c)
=============================================================================
