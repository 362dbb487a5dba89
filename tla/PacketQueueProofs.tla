------------------------- MODULE PacketQueueProofs -------------------------
(***************************************************************************)
(* The ring of PacketQueue is correct for every number of slots and every  *)
(* set of addresses.                                                       *)
(***************************************************************************)
EXTENDS PacketQueue, SequenceTheorems, TLAPS

USE SizeAssumption, AddrAssumption

IInv == TypeOK /\ RingConsistent /\ WaitsOnce

(* The waiting slots, as an interval test instead of an existential. *)
Waiting(i) == Steps(i) < occupancy

(* Slot and Steps are inverse to each other: the k-th waiting packet is k  *)
(* steps from head.                                                        *)
LEMMA SlotSteps ==
  ASSUME TypeOK
  PROVE  /\ \A k \in 0 .. SIZE - 1 : Slot(k) \in Slots /\ Steps(Slot(k)) = k
         /\ \A i \in Slots : Steps(i) \in 0 .. SIZE - 1 /\ Slot(Steps(i)) = i
BY DEF TypeOK, Slots, Slot, Steps

LEMMA WaitingSlots ==
  ASSUME TypeOK, NEW i \in Slots
  PROVE  (\E k \in 0 .. occupancy - 1 : i = Slot(k)) <=> Waiting(i)
<1>1. \A k \in 0 .. occupancy - 1 : k \in 0 .. SIZE - 1
  BY DEF TypeOK
<1>2. ASSUME NEW k \in 0 .. occupancy - 1, i = Slot(k)  PROVE Waiting(i)
  BY <1>1, <1>2, SlotSteps DEF TypeOK, Waiting
<1>3. ASSUME Waiting(i)  PROVE \E k \in 0 .. occupancy - 1 : i = Slot(k)
  BY <1>3, SlotSteps DEF TypeOK, Waiting
<1> QED BY <1>2, <1>3

(* RingConsistent in the form the proofs use. *)
Ring ==
  /\ tail = IF occupancy = SIZE THEN head ELSE Slot(occupancy)
  /\ \A i \in Slots : entry[i] # Empty <=> Waiting(i)

LEMMA RingForm == ASSUME TypeOK PROVE RingConsistent <=> Ring
BY WaitingSlots DEF RingConsistent, Ring

LEMMA RingFormPrime == TypeOK' => (RingConsistent' <=> Ring')
<1>1. TypeOK => (RingConsistent <=> Ring)
  BY RingForm
<1> QED BY <1>1, PTL

LEMMA InitIInv == Init => IInv
<1> SUFFICES ASSUME Init PROVE IInv OBVIOUS
<1>1. TypeOK
  BY DEF Init, TypeOK, Slots, Empty
<1>2. Ring
  BY DEF Init, Ring, Slots, Empty, Slot, Waiting, Steps
<1>3. WaitsOnce
  BY DEF Init, WaitsOnce, Slots, Empty
<1> QED BY <1>1, <1>2, <1>3, RingForm DEF IInv

(* check_queue misses no waiting packet: it answers -1 only for an address *)
(* that is in no slot, and otherwise the slot that holds it.               *)
LEMMA WindowIsWaiting ==
  ASSUME TypeOK, Ring
  PROVE  Window = {i \in Slots : Waiting(i)}
BY DEF TypeOK, Ring, Window, Waiting, Steps, Slots, Slot

LEMMA CheckQueue ==
  ASSUME IInv, NEW a \in Addr
  PROVE  /\ check_queue(a) = -1 => \A i \in Slots : entry[i] # a
         /\ check_queue(a) # -1 => check_queue(a) \in Slots /\ entry[check_queue(a)] = a
<1> DEFINE hits == {i \in Window : entry[i] = a}
<1>1. Ring /\ TypeOK
  BY RingForm DEF IInv
<1>2. hits = {i \in Slots : entry[i] = a}
  BY <1>1, WindowIsWaiting DEF Ring, TypeOK, Empty
<1>3. CASE hits = {}
  BY <1>2, <1>3 DEF check_queue, Slots
<1>4. CASE hits # {}
  <2>1. \A i, j \in hits : i = j
    BY <1>2 DEF IInv, WaitsOnce, Empty
  <2>2. PICK h \in hits : TRUE
    BY <1>4
  <2>3. \A j \in hits : Steps(h) <= Steps(j)
    BY <2>1, <1>1, <1>2, SlotSteps DEF TypeOK
  <2>4. check_queue(a) \in hits
    BY <2>2, <2>3 DEF check_queue
  <2> QED BY <2>4, <1>2 DEF Slots
<1> QED BY <1>3, <1>4

-----------------------------------------------------------------------------
(* Appending to a ring with room, and taking the packet at head, keep the  *)
(* three counters and the slots in step.                                   *)
LEMMA AddKeepsRing ==
  ASSUME TypeOK, Ring, NEW a \in Addr, occupancy < SIZE, add_queue(a)
  PROVE  /\ entry' \in [Slots -> Addr \cup {Empty}] /\ head' \in Slots /\ tail' \in Slots
         /\ occupancy' \in 0 .. SIZE
         /\ Ring'
         /\ entry[tail] = Empty
<1>1. tail = Slot(occupancy) /\ Steps(tail) = occupancy
  BY SlotSteps DEF TypeOK, Ring
<1>2. entry[tail] = Empty
  BY <1>1 DEF Ring, Waiting, TypeOK
<1>3. /\ entry' \in [Slots -> Addr \cup {Empty}] /\ head' \in Slots /\ tail' \in Slots
      /\ occupancy' \in 0 .. SIZE
  BY DEF TypeOK, add_queue, Advance, Slots
<1>4. tail' = IF occupancy' = SIZE THEN head' ELSE Slot(occupancy)'
  BY <1>1 DEF TypeOK, add_queue, Advance, Slots, Slot
<1>5. ASSUME NEW i \in Slots  PROVE entry'[i] # Empty <=> Waiting(i)'
  <2>1. Steps(i) = occupancy <=> i = tail
    BY <1>1, SlotSteps DEF TypeOK
  <2>2. Waiting(i)' <=> Waiting(i) \/ i = tail
    BY <2>1, SlotSteps DEF add_queue, Waiting, Steps, TypeOK
  <2>3. entry'[i] # Empty <=> entry[i] # Empty \/ i = tail
    BY DEF add_queue, TypeOK, Empty
  <2> QED BY <2>2, <2>3 DEF Ring
<1> QED BY <1>2, <1>3, <1>4, <1>5 DEF Ring

LEMMA RemoveKeepsRing ==
  ASSUME TypeOK, Ring, remove_queue
  PROVE  TypeOK' /\ Ring' /\ entry[head] # Empty
<1>1. TypeOK'
  BY DEF TypeOK, remove_queue, Advance, Slots
<1>2. tail' = IF occupancy' = SIZE THEN head' ELSE Slot(occupancy)'
  BY DEF TypeOK, Ring, remove_queue, Advance, Slots, Slot
<1>3. ASSUME NEW i \in Slots  PROVE Waiting(i)' <=> Waiting(i) /\ i # head
  BY DEF TypeOK, remove_queue, Advance, Slots, Waiting, Steps
<1>4. ASSUME NEW i \in Slots  PROVE entry'[i] # Empty <=> entry[i] # Empty /\ i # head
  BY DEF remove_queue, TypeOK
<1>5. entry[head] # Empty
  <2>1. Waiting(head)
    BY DEF Waiting, Steps, remove_queue, TypeOK, Slots
  <2> QED BY <2>1 DEF Ring, TypeOK
<1> QED BY <1>1, <1>2, <1>3, <1>4, <1>5 DEF Ring

LEMMA NextIInv == IInv /\ [Next]_vars => IInv'
<1> SUFFICES ASSUME IInv, [Next]_vars  PROVE IInv' OBVIOUS
<1>1. TypeOK /\ Ring /\ WaitsOnce
  BY RingForm DEF IInv
<1>2. ASSUME remove_queue  PROVE TypeOK' /\ Ring' /\ WaitsOnce'
  <2>1. TypeOK' /\ Ring'
    BY <1>1, <1>2, RemoveKeepsRing
  <2>2. WaitsOnce'
    BY <1>1, <1>2 DEF WaitsOnce, remove_queue, TypeOK, Empty
  <2> QED BY <2>1, <2>2
<1>4. ASSUME NEW a \in Addr, AddMerging(a)  PROVE TypeOK' /\ Ring' /\ WaitsOnce'
  <2>1. CASE check_queue(a) # -1
    BY <1>1, <1>4, <2>1, CheckQueue
    DEF AddMerging, TypeOK, Ring, WaitsOnce, Slot, Waiting, Steps
  <2>2. CASE check_queue(a) = -1 /\ occupancy = SIZE
    BY <1>1, <1>4, <2>2 DEF AddMerging, TypeOK, Ring, WaitsOnce, Slot, Waiting, Steps
  <2>3. CASE check_queue(a) = -1 /\ occupancy # SIZE
    <3>1. add_queue(a) /\ result' = -1 /\ occupancy < SIZE
      BY <1>1, <1>4, <2>3 DEF AddMerging, TypeOK
    <3>2. TypeOK' /\ Ring'
      BY <1>1, <3>1, AddKeepsRing DEF TypeOK
    <3>3. \A i \in Slots : entry[i] # a
      BY <2>3, <3>1, CheckQueue
    <3>4. WaitsOnce'
      BY <1>1, <3>1, <3>3 DEF WaitsOnce, add_queue, TypeOK, Empty
    <3> QED BY <3>2, <3>4
  <2> QED BY <2>1, <2>2, <2>3
<1>5. ASSUME UNCHANGED vars  PROVE TypeOK' /\ Ring' /\ WaitsOnce'
  BY <1>1, <1>5 DEF vars, TypeOK, Ring, WaitsOnce, Slot, Waiting, Steps
<1>6. TypeOK' /\ Ring' /\ WaitsOnce'
  <2>1. CASE Next
    BY <1>2, <1>4, <2>1 DEF Next
  <2> QED BY <1>5, <2>1
<1>7. RingConsistent'
  BY <1>6, RingFormPrime
<1> QED BY <1>6, <1>7 DEF IInv

(* The agreement of head, tail, occupancy and slots, with the types and    *)
(* "an address waits once", for every reachable state of every ring.       *)
THEOREM QueueInvariant == Spec => [](TypeOK /\ RingConsistent /\ WaitsOnce)
<1>1. Init => IInv
  BY InitIInv
<1>2. IInv /\ [Next]_vars => IInv'
  BY NextIInv
<1> QED BY <1>1, <1>2, PTL DEF Spec, IInv

(* The counters of the ring stay in range: occupancy never passes SIZE and *)
(* head and tail never leave the array.                                    *)
THEOREM QueueTyped == Spec => []TypeOK
BY QueueInvariant, PTL

(* A request whose address already waits is merged and never takes a       *)
(* second slot.                                                            *)
THEOREM AddressesWaitOnce == Spec => []WaitsOnce
BY QueueInvariant, PTL

-----------------------------------------------------------------------------
(* The refinement: enqueueing appends to Contents, removing drops its head. *)
LEMMA ContentsSeq ==
  ASSUME TypeOK, Ring
  PROVE  /\ Contents \in Seq(Addr)
         /\ Len(Contents) = occupancy
         /\ DOMAIN Contents = 1 .. occupancy
<1>1. ASSUME NEW k \in 1 .. occupancy  PROVE Contents[k] \in Addr
  <2>1. Slot(k - 1) \in Slots /\ Waiting(Slot(k - 1))
    BY SlotSteps DEF TypeOK, Waiting
  <2> QED BY <2>1 DEF Ring, TypeOK, Contents
<1> QED BY <1>1 DEF Contents, TypeOK

LEMMA AddAppends ==
  ASSUME TypeOK, Ring, NEW a \in Addr, occupancy < SIZE, add_queue(a)
  PROVE  Contents' = Append(Contents, a)
<1>1. tail = Slot(occupancy) /\ occupancy \in Nat /\ occupancy + 1 <= SIZE
  BY DEF TypeOK, Ring
<1>2. Contents' = [k \in 1 .. occupancy + 1 |-> entry'[Slot(k - 1)]]
  BY DEF add_queue, Contents, Slot
<1>3. ASSUME NEW k \in 1 .. occupancy
      PROVE  entry'[Slot(k - 1)] = Contents[k]
  <2>1. Slot(k - 1) \in Slots /\ Slot(k - 1) # tail
    BY <1>1, SlotSteps DEF TypeOK
  <2> QED BY <2>1 DEF add_queue, TypeOK, Contents
<1>4. entry'[Slot(occupancy)] = a
  BY <1>1 DEF add_queue, TypeOK
<1>5. Append(Contents, a) = [k \in 1 .. occupancy + 1 |-> IF k = occupancy + 1 THEN a ELSE Contents[k]]
  <2> DEFINE t == [k \in 1 .. occupancy + 1 |-> IF k = occupancy + 1 THEN a ELSE Contents[k]]
  <2>1. /\ Append(Contents, a) \in Seq(Addr)
        /\ Len(Append(Contents, a)) = occupancy + 1
        /\ \A k \in 1 .. occupancy : Append(Contents, a)[k] = Contents[k]
        /\ Append(Contents, a)[occupancy + 1] = a
    BY ContentsSeq, AppendProperties
  <2>2. \A k \in 1 .. occupancy : Contents[k] \in Addr
    BY ContentsSeq
  <2>3. t \in Seq(Addr) /\ Len(t) = occupancy + 1
    BY <1>1, <2>2
  <2>4. \A k \in 1 .. occupancy + 1 : Append(Contents, a)[k] = t[k]
    BY <1>1, <2>1
  <2> HIDE DEF t
  <2>5. Append(Contents, a) = t
    BY <2>1, <2>3, <2>4, SeqEqual
  <2> QED BY <2>5 DEF t
<1>6. ASSUME NEW k \in 1 .. occupancy + 1
      PROVE  entry'[Slot(k - 1)] = IF k = occupancy + 1 THEN a ELSE Contents[k]
  BY <1>1, <1>3, <1>4
<1> QED BY <1>2, <1>5, <1>6

LEMMA RemoveDropsHead ==
  ASSUME TypeOK, Ring, remove_queue
  PROVE  Contents # <<>> /\ Contents' = Tail(Contents)
<1>1. occupancy \in Nat /\ occupancy > 0 /\ occupancy <= SIZE
  BY DEF TypeOK, remove_queue
<1>2. Contents' = [k \in 1 .. occupancy - 1 |-> entry'[Slot(k - 1)']]
  BY DEF remove_queue, Contents
<1>3. ASSUME NEW k \in 1 .. occupancy - 1
      PROVE  entry'[Slot(k - 1)'] = Contents[k + 1]
  <2>1. Slot(k - 1)' = Slot(k)
    BY <1>1 DEF remove_queue, Slot, Advance, TypeOK, Slots
  <2>2. Slot(k) \in Slots /\ Slot(k) # head
    BY <1>1 DEF TypeOK, Slots, Slot
  <2>3. Contents[k + 1] = entry[Slot(k)]
    BY <1>1 DEF Contents
  <2> QED BY <2>1, <2>2, <2>3 DEF remove_queue, TypeOK
<1>4. Contents # <<>>
  BY ContentsSeq, <1>1
<1>5. Tail(Contents) = [k \in 1 .. occupancy - 1 |-> Contents[k + 1]]
  <2> DEFINE t == [k \in 1 .. occupancy - 1 |-> Contents[k + 1]]
  <2>1. /\ Tail(Contents) \in Seq(Addr)
        /\ Len(Tail(Contents)) = occupancy - 1
        /\ \A k \in 1 .. occupancy - 1 : Tail(Contents)[k] = Contents[k + 1]
    BY ContentsSeq, <1>4, HeadTailProperties
  <2>2. \A k \in 1 .. occupancy - 1 : Contents[k + 1] \in Addr
    BY ContentsSeq, <1>1
  <2>3. t \in Seq(Addr) /\ Len(t) = occupancy - 1
    BY <1>1, <2>2
  <2>4. \A k \in 1 .. occupancy - 1 : Tail(Contents)[k] = t[k]
    BY <2>1
  <2> HIDE DEF t
  <2>5. Tail(Contents) = t
    BY <2>1, <2>3, <2>4, SeqEqual
  <2> QED BY <2>5 DEF t
<1> QED BY <1>2, <1>3, <1>4, <1>5

LEMMA StepRefines == IInv /\ [Next]_vars => [Fifo!Next]_Contents
<1> SUFFICES ASSUME IInv, [Next]_vars  PROVE [Fifo!Next]_Contents OBVIOUS
<1>1. TypeOK /\ Ring
  BY RingForm DEF IInv
<1>2. ASSUME remove_queue  PROVE Fifo!Next
  BY <1>1, <1>2, RemoveDropsHead DEF Fifo!Next, Fifo!Dequeue
<1>3. ASSUME NEW a \in Addr, add_queue(a), occupancy < SIZE,
             \A i \in Slots : entry[i] # a
      PROVE  Fifo!Next
  <2>1. Contents' = Append(Contents, a) /\ Len(Contents) < SIZE
    BY <1>1, <1>3, AddAppends, ContentsSeq
  <2>2. \A k \in DOMAIN Contents : Contents[k] # a
    BY <1>1, <1>3, ContentsSeq, SlotSteps DEF Contents, TypeOK
  <2> QED BY <2>1, <2>2 DEF Fifo!Next, Fifo!Enqueue
<1>4. ASSUME NEW a \in Addr, AddMerging(a)
      PROVE  Fifo!Next \/ UNCHANGED Contents
  <2>1. CASE add_queue(a) /\ check_queue(a) = -1 /\ occupancy # SIZE
    <3>1. \A i \in Slots : entry[i] # a
      BY <2>1, CheckQueue
    <3> QED BY <2>1, <3>1, <1>1, <1>3 DEF TypeOK
  <2>2. CASE UNCHANGED <<entry, head, tail, occupancy>>
    BY <2>2 DEF Contents, Slot
  <2> QED BY <1>4, <2>1, <2>2 DEF AddMerging
<1>6. CASE UNCHANGED vars
  BY <1>6 DEF vars, Contents, Slot
<1>7. CASE Next
  BY <1>2, <1>4, <1>7 DEF Next
<1> QED BY <1>6, <1>7

(* Every ring implements the bounded FIFO its callers rely on. *)
THEOREM RingImplementsFifo == Spec => ImplementsFifo
<1>1. Init => Fifo!Init
  BY DEF Init, Fifo!Init, Contents
<1>2. IInv /\ [Next]_vars => [Fifo!Next]_Contents
  BY StepRefines
<1>3. Spec => []IInv
  BY InitIInv, NextIInv, PTL DEF Spec
<1> QED BY <1>1, <1>2, <1>3, PTL DEF Spec, ImplementsFifo, Fifo!Spec
=============================================================================
