---------------------------- MODULE BoundedFifo ----------------------------
(***************************************************************************)
(* What a PACKET_QUEUE used as a FIFO promises its callers: packets leave  *)
(* in the order they came, none is lost or invented, and at most SIZE of   *)
(* them wait.  An address waits only once: a request for a waiting address *)
(* is absorbed by the waiting packet.                                      *)
(***************************************************************************)
EXTENDS Naturals, Sequences

CONSTANTS Addr, SIZE

VARIABLE fifo

Init == fifo = <<>>

Enqueue(a) ==
  /\ Len(fifo) < SIZE
  /\ \A i \in DOMAIN fifo : fifo[i] # a
  /\ fifo' = Append(fifo, a)

Dequeue ==
  /\ fifo # <<>>
  /\ fifo' = Tail(fifo)

Next == Dequeue \/ \E a \in Addr : Enqueue(a)

Spec == Init /\ [][Next]_fifo
=============================================================================
