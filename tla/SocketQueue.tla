---------------------------- MODULE SocketQueue ----------------------------
(***************************************************************************)
(* What the accepted-socket queue of the master promises: a bounded FIFO   *)
(* of connections, filled by the master and emptied by the workers, each   *)
(* connection going to one worker and in the order of acceptance.          *)
(***************************************************************************)
EXTENDS Integers, Sequences

CONSTANTS Conns, NoConn, Workers, Capacity

VARIABLES
  fifo,  \* connections accepted and not yet taken
  held   \* the connection a worker is serving

Init ==
  /\ fifo = <<>>
  /\ held = [w \in Workers |-> NoConn]

Put(c) ==
  /\ Len(fifo) < Capacity
  /\ fifo' = Append(fifo, c)
  /\ UNCHANGED held

Get(w) ==
  /\ fifo # <<>> /\ held[w] = NoConn
  /\ held' = [held EXCEPT ![w] = Head(fifo)]
  /\ fifo' = Tail(fifo)

Close(w) ==
  /\ held[w] # NoConn
  /\ held' = [held EXCEPT ![w] = NoConn]
  /\ UNCHANGED fifo

Next == (\E c \in Conns : Put(c)) \/ (\E w \in Workers : Get(w) \/ Close(w))

Spec == Init /\ [][Next]_<<fifo, held>>
=============================================================================
