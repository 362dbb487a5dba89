---------------------------- MODULE PacketQueue ----------------------------
(***************************************************************************)
(* PACKET_QUEUE (inc/block.h, src/block.cc): the ring buffer behind every  *)
(* RQ, WQ and PQ of a cache, used the way CACHE::add_rq, add_wq and add_pq *)
(* use it: look for the address, then for room, then append (a PROCESSED   *)
(* queue is the same ring without the look-up).  A packet is abstracted to *)
(* its address; address 0 marks an empty slot, as in the code, which has   *)
(* no other way to tell a free slot (the constructor of PACKET clears it). *)
(***************************************************************************)
EXTENDS Integers

CONSTANTS
  Addr,     \* the addresses packets carry
  SIZE      \* the number of slots

ASSUME SizeAssumption == SIZE \in Nat \ {0}
ASSUME AddrAssumption == 0 \notin Addr

VARIABLES entry, head, tail, occupancy,
          result   \* what the last call returned: an index, -1 (queued) or -2 (full)

vars == <<entry, head, tail, occupancy, result>>

Slots == 0 .. SIZE - 1
Empty == 0

Init ==
  /\ entry = [i \in Slots |-> Empty]
  /\ head = 0 /\ tail = 0 /\ occupancy = 0
  /\ result = -1

(* The slots check_queue walks: none, head..tail-1, or the two runs of a   *)
(* ring that has wrapped (or is full).                                     *)
WindowNoWrap == IF head < tail THEN head .. tail - 1 ELSE {}   \* mutant: forgets the wrap

Window ==
  IF head = tail /\ occupancy = 0 THEN {}
  ELSE IF head < tail THEN head .. tail - 1
  ELSE (head .. SIZE - 1) \cup (0 .. tail - 1)

(* The walk starts at head: of two slots the one it meets first. *)
Steps(i) == IF i >= head THEN i - head ELSE i + SIZE - head

check_queue(a) ==
  LET hits == {i \in Window : entry[i] = a}
  IN  IF hits = {} THEN -1
      ELSE CHOOSE i \in hits : \A j \in hits : Steps(i) <= Steps(j)

AdvanceOffByOne(i) == IF i + 1 > SIZE THEN 0 ELSE i + 1         \* mutant
AdvanceTooSoon(i) == IF i + 1 >= SIZE - 1 THEN 0 ELSE i + 1     \* mutant

Advance(i) == IF i + 1 >= SIZE THEN 0 ELSE i + 1

add_queue(a) ==
  /\ entry' = [entry EXCEPT ![tail] = a]
  /\ occupancy' = occupancy + 1
  /\ tail' = Advance(tail)
  /\ UNCHANGED head

(* add_rq, add_wq, add_pq: a packet that is already waiting absorbs the    *)
(* request, a full queue refuses it, otherwise it takes the slot at tail.  *)
AddMerging(a) ==
  \/ /\ check_queue(a) # -1
     /\ result' = check_queue(a)
     /\ UNCHANGED <<entry, head, tail, occupancy>>
  \/ /\ check_queue(a) = -1
     /\ occupancy = SIZE
     /\ result' = -2
     /\ UNCHANGED <<entry, head, tail, occupancy>>
  \/ /\ check_queue(a) = -1
     /\ occupancy # SIZE
     /\ add_queue(a)
     /\ result' = -1

(* mutant: the packet leaves but its slot is not cleared *)
RemoveWithoutClear ==
  /\ occupancy > 0
  /\ occupancy' = occupancy - 1
  /\ head' = Advance(head)
  /\ UNCHANGED <<entry, tail, result>>

(* remove_queue on the head: every FIFO user removes entry[head]. *)
remove_queue ==
  /\ occupancy > 0
  /\ entry' = [entry EXCEPT ![head] = Empty]
  /\ occupancy' = occupancy - 1
  /\ head' = Advance(head)
  /\ UNCHANGED <<tail, result>>

Next ==
  \/ remove_queue
  \/ \E a \in Addr : AddMerging(a)

Spec == Init /\ [][Next]_vars

-----------------------------------------------------------------------------

TypeOK ==
  /\ entry \in [Slots -> Addr \cup {Empty}]
  /\ head \in Slots /\ tail \in Slots
  /\ occupancy \in 0 .. SIZE
  /\ result \in Slots \cup {-1, -2}

(* The slot of the k-th waiting packet, k counted from 0. *)
Slot(k) == IF head + k < SIZE THEN head + k ELSE head + k - SIZE

(* head, tail and occupancy are three counters that must tell the same    *)
(* story: tail is occupancy slots behind head, exactly the slots between   *)
(* them hold packets.  add_rq asserts the last part for the slot at tail   *)
(* ("is not empty index", src/cache.cc:1391).                              *)
RingConsistent ==
  /\ tail = IF occupancy = SIZE THEN head ELSE Slot(occupancy)
  /\ \A i \in Slots : entry[i] # Empty <=> \E k \in 0 .. occupancy - 1 : i = Slot(k)

(* An address waits at most once: the duplicate search must see every      *)
(* waiting packet, wrapped ring or not.                                    *)
WaitsOnce ==
  \A i, j \in Slots : entry[i] = entry[j] /\ entry[i] # Empty => i = j

(* The queue as its callers see it, oldest packet first. *)
Contents == [k \in 1 .. occupancy |-> entry[Slot(k - 1)]]

Fifo == INSTANCE BoundedFifo WITH fifo <- Contents

(* The ring implements the bounded FIFO. *)
ImplementsFifo == Fifo!Spec
=============================================================================
