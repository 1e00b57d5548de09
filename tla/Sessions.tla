------------------------------ MODULE Sessions ------------------------------
(***************************************************************************)
(* What tconnd promises to its backend about each client: it is told of    *)
(* the connection, then it is sent the client's packages, once it has      *)
(* accepted it, then at most one message that it is over, and nothing      *)
(* after that.  A connection may also be dropped without a word: by a      *)
(* timeout, an oversize length, an error, a command, or a restart.         *)
(***************************************************************************)
EXTENDS Integers, Sequences

CONSTANTS
  Clients,
  OutputLimit    \* how many messages the output tbus holds

VARIABLES
  output,        \* messages the backend has not given back
  told,          \* what was last said of each client
  forwarded,     \* packages put into the output tbus
  open,          \* clients whose connection the server has not closed
  established    \* those the backend has accepted

vars == <<output, told, forwarded, open, established>>

Init ==
  /\ output = <<>>
  /\ told = [c \in Clients |-> "nothing"]
  /\ forwarded = [c \in Clients |-> 0]
  /\ open = {} /\ established = {}

Tells(cmd, c, n) ==
  /\ Len(output) < OutputLimit
  /\ output' = Append(output, [cmd |-> cmd, who |-> c, size |-> n])

Connect(c) ==
  /\ told[c] = "nothing"
  /\ Tells("connect", c, 0)
  /\ told' = [told EXCEPT ![c] = "connect"]
  /\ open' = open \union {c}
  /\ UNCHANGED <<forwarded, established>>

Accept(c) ==
  /\ c \in open \ established
  /\ established' = established \union {c}
  /\ UNCHANGED <<output, told, forwarded, open>>

Forward(c, n) ==
  /\ c \in established /\ told[c] = "connect" /\ n > 0
  /\ Tells("recv", c, n)
  /\ forwarded' = [forwarded EXCEPT ![c] = @ + n]
  /\ UNCHANGED <<told, open, established>>

Leaves(c) ==
  /\ open' = open \ {c}
  /\ established' = established \ {c}

End(c) ==
  /\ c \in established /\ told[c] = "connect"
  /\ Tells("recv", c, 0)
  /\ told' = [told EXCEPT ![c] = "closed"]
  /\ Leaves(c)
  /\ UNCHANGED forwarded

Drop(c) ==
  /\ c \in open
  /\ Leaves(c)
  /\ UNCHANGED <<output, told, forwarded>>

Restart ==
  /\ open' = {} /\ established' = {}
  /\ UNCHANGED <<output, told, forwarded>>

(* A message that names no client: what the event loop says of a socket    *)
(* it has freed a moment before.                                           *)
Stray ==
  /\ Tells("recv", 0, 0)
  /\ UNCHANGED <<told, forwarded, open, established>>

(* The backend gives back the n oldest messages.                           *)
Take(n) ==
  /\ n \in 1 .. Len(output)
  /\ output' = SubSeq(output, n + 1, Len(output))
  /\ UNCHANGED <<told, forwarded, open, established>>

Next ==
  \/ \E c \in Clients : \/ Connect(c) \/ Accept(c) \/ End(c) \/ Drop(c)
                        \/ Forward(c, forwarded'[c] - forwarded[c])
  \/ Restart \/ Stray \/ \E n \in 1 .. Len(output) : Take(n)

Spec == Init /\ [][Next]_vars
=============================================================================
