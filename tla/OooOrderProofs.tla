--------------------------- MODULE OooOrderProofs ---------------------------
(***************************************************************************)
(* What the loads of OooCore are given: every load has the data of the     *)
(* youngest older store to its address, every register that of its         *)
(* youngest older writer, so that the core implements the in-order         *)
(* machine, for every program that is Whole, any number of registers and   *)
(* addresses and any sizes of the queues.                                  *)
(***************************************************************************)
EXTENDS OooCoreProofs

(* The programs in which no load finds a store of the ROB overwritten in   *)
(* part.                                                                   *)
WholeTraces == \A tr \in Traces : Whole(tr)

-----------------------------------------------------------------------------
(* The youngest store to an address, the youngest writer of a register. *)

StoreSet(l, h, a) == {m \in l .. h : a \in Elements(trace[m].stores)}
LastStore(n, a) == YoungestOrNone(StoreSet(1, n, a))
WriteSet(l, h, r) == {m \in l .. h : r \in trace[m].writes}
LastWrite(n, r) == YoungestOrNone(WriteSet(1, n, r))

(* Of two sets the smaller of which has the youngest of the larger, both   *)
(* have the same youngest.                                                 *)
LEMMA YoungestSame ==
  ASSUME NEW N \in Nat, NEW B \in SUBSET (1 .. N), NEW A \in SUBSET B, YoungestOrNone(B) # 0 => YoungestOrNone(B) \in A
  PROVE  YoungestOrNone(A) = YoungestOrNone(B)
<1>1. A \in SUBSET (1 .. N)
  OBVIOUS
<1>2. /\ YoungestOrNone(A) \in 0 .. N /\ (A = {} <=> YoungestOrNone(A) = 0)
      /\ \A m \in A : (\A k \in A : k <= m) => YoungestOrNone(A) = m
  BY <1>1, YoungestUnique
<1>3. /\ (B = {} <=> YoungestOrNone(B) = 0)
      /\ (B # {} => YoungestOrNone(B) \in B /\ \A k \in B : k <= YoungestOrNone(B))
  BY YoungestUnique
<1>4. CASE YoungestOrNone(B) = 0
  BY <1>2, <1>3, <1>4
<1>5. CASE YoungestOrNone(B) # 0
  BY <1>2, <1>3, <1>5
<1> QED BY <1>4, <1>5

(* One more instruction is the youngest store or leaves it as it was.      *)
LEMMA LastStoreNext ==
  ASSUME NEW n \in Nat, NEW a
  PROVE  /\ LastStore(n, a) \in 0 .. n
         /\ LastStore(n + 1, a) = IF a \in Elements(trace[n + 1].stores) THEN n + 1 ELSE LastStore(n, a)
         /\ LastStore(0, a) = 0
<1>1. PICK A, B : A = StoreSet(1, n, a) /\ B = StoreSet(1, n + 1, a)
  OBVIOUS
<1>0. YoungestOrNone(A) = LastStore(n, a) /\ YoungestOrNone(B) = LastStore(n + 1, a)
  BY <1>1 DEF LastStore
<1>2. A \in SUBSET (1 .. n) /\ B \in SUBSET (1 .. (n + 1)) /\ n + 1 \in Nat
  BY <1>1 DEF StoreSet
<1>3. YoungestOrNone(A) \in 0 .. n
  BY <1>2, YoungestUnique
<1>4. LastStore(n + 1, a) = IF a \in Elements(trace[n + 1].stores) THEN n + 1 ELSE LastStore(n, a)
  <2>1. CASE a \in Elements(trace[n + 1].stores)
    <3>1. n + 1 \in B /\ \A k \in B : k <= n + 1
      BY <1>1, <2>1 DEF StoreSet
    <3>2. YoungestOrNone(B) = n + 1
      BY <1>2, <3>1, YoungestUnique
    <3> QED BY <1>0, <2>1, <3>2
  <2>2. CASE ~(a \in Elements(trace[n + 1].stores))
    <3>1. A = B
      BY <1>1, <2>2 DEF StoreSet
    <3> QED BY <1>0, <2>2, <3>1
  <2> QED BY <2>1, <2>2
<1>6. LastStore(0, a) = 0
  <2>1. StoreSet(1, 0, a) = {}
    BY DEF StoreSet
  <2> QED BY <2>1 DEF LastStore, YoungestOrNone
<1> QED BY <1>1, <1>3, <1>4, <1>6 DEF LastStore

(* ... and the same of the writers of a register. *)
LEMMA LastWriteNext ==
  ASSUME NEW n \in Nat, NEW r
  PROVE  /\ LastWrite(n, r) \in 0 .. n
         /\ LastWrite(n, r) # 0 => r \in trace[LastWrite(n, r)].writes
         /\ \A m \in 1 .. n : r \in trace[m].writes => LastWrite(n, r) # 0 /\ m <= LastWrite(n, r)
         /\ LastWrite(n + 1, r) = IF r \in trace[n + 1].writes THEN n + 1 ELSE LastWrite(n, r)
         /\ LastWrite(0, r) = 0
<1>1. PICK A, B : A = WriteSet(1, n, r) /\ B = WriteSet(1, n + 1, r)
  OBVIOUS
<1>0. YoungestOrNone(A) = LastWrite(n, r) /\ YoungestOrNone(B) = LastWrite(n + 1, r)
  BY <1>1 DEF LastWrite
<1>2. A \in SUBSET (1 .. n) /\ B \in SUBSET (1 .. (n + 1)) /\ n + 1 \in Nat
  BY <1>1 DEF WriteSet
<1>3. /\ YoungestOrNone(A) \in 0 .. n /\ (A = {} <=> YoungestOrNone(A) = 0)
      /\ (A # {} => YoungestOrNone(A) \in A /\ \A k \in A : k <= YoungestOrNone(A))
  BY <1>2, YoungestUnique
<1>4. LastWrite(n + 1, r) = IF r \in trace[n + 1].writes THEN n + 1 ELSE LastWrite(n, r)
  <2>1. CASE r \in trace[n + 1].writes
    <3>1. n + 1 \in B /\ \A k \in B : k <= n + 1
      BY <1>1, <2>1 DEF WriteSet
    <3>2. YoungestOrNone(B) = n + 1
      BY <1>2, <3>1, YoungestUnique
    <3> QED BY <1>0, <2>1, <3>2
  <2>2. CASE ~(r \in trace[n + 1].writes)
    <3>1. A = B
      BY <1>1, <2>2 DEF WriteSet
    <3> QED BY <1>0, <2>2, <3>1
  <2> QED BY <2>1, <2>2
<1>6. LastWrite(0, r) = 0
  <2>1. WriteSet(1, 0, r) = {}
    BY DEF WriteSet
  <2> QED BY <2>1 DEF LastWrite, YoungestOrNone
<1>7. YoungestOrNone(A) = LastWrite(n, r)
  BY <1>1 DEF LastWrite
<1>8. /\ LastWrite(n, r) # 0 => r \in trace[LastWrite(n, r)].writes
      /\ \A m \in 1 .. n : r \in trace[m].writes => LastWrite(n, r) # 0 /\ m <= LastWrite(n, r)
  BY <1>1, <1>3, <1>7 DEF WriteSet
<1> QED BY <1>3, <1>4, <1>6, <1>7, <1>8

(* The producer of a load is the youngest store to its address that has    *)
(* not retired; without one, the youngest that has.                        *)
LEMMA ProducerLast ==
  ASSUME trace \in Traces, NEW s, Rob(s), NEW n \in InRob(s), NEW a
  PROVE  /\ Producer(s, n, a) \in 0 .. (n - 1)
         /\ Producer(s, n, a) # 0 =>
              /\ Producer(s, n, a) \in InRob(s) /\ a \in Elements(trace[Producer(s, n, a)].stores)
              /\ LastStore(n - 1, a) = Producer(s, n, a)
         /\ Producer(s, n, a) = 0 => LastStore(n - 1, a) = LastStore(s.head, a)
         /\ \A m \in Older(s, n) : a \in Elements(trace[m].stores) => m <= Producer(s, n, a)
<1>1. n \in Nat /\ n - 1 \in Nat /\ n \in Id /\ s.head \in Nat /\ s.head <= n - 1 /\ n <= s.tail /\ s.tail \in Nat
  BY InRobIs, InstructionIs DEF Rob
<1>2. PICK A, B, C : A = StoreSet(s.head + 1, n - 1, a) /\ B = StoreSet(1, n - 1, a) /\ C = StoreSet(1, s.head, a)
  OBVIOUS
<1>3. /\ Producer(s, n, a) = YoungestOrNone(A) /\ LastStore(n - 1, a) = YoungestOrNone(B)
      /\ LastStore(s.head, a) = YoungestOrNone(C)
  BY <1>2 DEF Producer, Older, StoreSet, LastStore
<1>4. A \in SUBSET (1 .. (n - 1)) /\ B \in SUBSET (1 .. (n - 1)) /\ A \in SUBSET B /\ C \in SUBSET B
  BY <1>1, <1>2 DEF StoreSet
<1>5. /\ YoungestOrNone(A) \in 0 .. (n - 1) /\ (A = {} <=> YoungestOrNone(A) = 0)
      /\ (A # {} => YoungestOrNone(A) \in A /\ \A k \in A : k <= YoungestOrNone(A))
  BY <1>1, <1>4, YoungestUnique
<1>6. /\ YoungestOrNone(B) \in 0 .. (n - 1) /\ (B = {} <=> YoungestOrNone(B) = 0)
      /\ (B # {} => YoungestOrNone(B) \in B /\ \A k \in B : k <= YoungestOrNone(B))
  BY <1>1, <1>4, YoungestUnique
<1>7. \A m \in Older(s, n) : a \in Elements(trace[m].stores) => m \in A
  BY <1>2 DEF Older, StoreSet
<1>8. A \subseteq InRob(s) /\ \A m \in A : a \in Elements(trace[m].stores)
  BY <1>1, <1>2 DEF StoreSet, InRob
<1>9. A # {} => YoungestOrNone(B) \in A
  <2> SUFFICES ASSUME A # {}  PROVE YoungestOrNone(B) \in A
    OBVIOUS
  <2>1. PICK m \in A : TRUE
    OBVIOUS
  <2>2. m <= YoungestOrNone(B) /\ YoungestOrNone(B) \in B
    BY <1>4, <1>6, <2>1
  <2> QED BY <1>1, <1>2, <2>1, <2>2 DEF StoreSet
<1>10. A = {} => B = C
  <2> SUFFICES ASSUME A = {}, NEW m \in B  PROVE m \in C
    BY <1>4
  <2>1. m \in 1 .. (n - 1) /\ a \in Elements(trace[m].stores)
    BY <1>2 DEF StoreSet
  <2>2. ~(s.head + 1 <= m)
    BY <1>1, <1>2, <2>1 DEF StoreSet
  <2> QED BY <1>1, <1>2, <2>1, <2>2 DEF StoreSet
<1>11. CASE A = {}
  BY <1>3, <1>5, <1>7, <1>10, <1>11
<1>12. CASE A # {}
  <2>1. YoungestOrNone(A) = YoungestOrNone(B)
    BY <1>1, <1>4, <1>9, YoungestSame, <1>12
  <2> QED BY <1>3, <1>5, <1>7, <1>8, <1>12, <2>1
<1> QED BY <1>11, <1>12

-----------------------------------------------------------------------------
(* The invariant. *)

(* The store that source j of n waits for, and whether its data is there.  *)
WaitedFor(s, n, j) == Producer(s, n, trace[n].loads[j])
HasData(s, n, j) == CanForward(s, WaitedFor(s, n, j), trace[n].loads[j])

(* A source that has been added still has its entry, and then its store    *)
(* knows of it and has no data yet, or it was given the right data.        *)
Pending(s, n, j) == s.lq[s.lqIndex[n][j]].id = n /\ s.lq[s.lqIndex[n][j]].src = j
Waiting(s, n, j) ==
  /\ s.lq[s.lqIndex[n][j]].producer = WaitedFor(s, n, j)
  /\ WaitedFor(s, n, j) # 0 => n \in s.dependents[WaitedFor(s, n, j)] /\ ~HasData(s, n, j)
Given(s, n, j) ==
  /\ WaitedFor(s, n, j) # 0 => HasData(s, n, j)
  /\ s.sawMem[n][j] = LastStore(n - 1, trace[n].loads[j])
Link(s, n, j) == IF Pending(s, n, j) THEN Waiting(s, n, j) ELSE Given(s, n, j)
Links(s) == \A n \in Id : \A j \in s.srcAdded[n] : Link(s, n, j)

(* What a store has in memory_instrs_depend_on_me waits for it with one of *)
(* its sources.                                                            *)
Known(s) ==
  \A p \in Id : \A n \in s.dependents[p] : n \in InRob(s) /\ \E j \in DOMAIN trace[n].loads : p = WaitedFor(s, n, j)

(* A load that waits for no store is in exactly one stage.                 *)
Moving(s) == {i \in LqSlot : s.lq[i].id # 0 /\ s.lq[i].producer = 0}
LoadPaths(s) ==
  /\ s.rtl0 \cup s.dtlbL \cup s.rtl1 \cup s.l1d = Moving(s)
  /\ s.rtl0 \cap s.dtlbL = {} /\ s.rtl0 \cap s.rtl1 = {} /\ s.rtl0 \cap s.l1d = {}
  /\ s.dtlbL \cap s.rtl1 = {} /\ s.dtlbL \cap s.l1d = {} /\ s.rtl1 \cap s.l1d = {}

(* What the retired instructions have loaded.                              *)
MemRead(s) ==
  /\ DOMAIN s.sawMem = Id
  /\ \A n \in Id : s.sawMem[n] \in [DOMAIN trace[n].loads -> Nat]
  /\ \A n \in Id : n <= s.head =>
       \A j \in DOMAIN trace[n].loads : s.sawMem[n][j] = LastStore(n - 1, trace[n].loads[j])

LoadsRight(s) == Links(s) /\ Known(s) /\ LoadPaths(s) /\ MemRead(s)

-----------------------------------------------------------------------------
(* Loads. *)

(* The stores whose data is in the store queue are the same.               *)
SameData(s, t) == \A p, a : CanForward(t, p, a) <=> CanForward(s, p, a)

(* They are when the store queue is.                                       *)
LEMMA SameQueue ==
  ASSUME NEW s, NEW t, t.sq = s.sq
  PROVE  SameData(s, t)
BY DEF SameData, CanForward, StoreAddr

(* An entry of the load queue belongs to the source whose lq_index it is.  *)
LEMMA EntryIs ==
  ASSUME trace \in Traces, NEW s, LoadQueue(s), NEW i \in LqSlot, s.lq[i].id # 0
  PROVE  /\ s.lq[i].id \in Id /\ s.lq[i].id \in InRob(s) /\ s.lq[i].src \in s.srcAdded[s.lq[i].id]
         /\ s.lq[i].src \in DOMAIN trace[s.lq[i].id].loads
         /\ s.lqIndex[s.lq[i].id][s.lq[i].src] = i
         /\ Pending(s, s.lq[i].id, s.lq[i].src)
         /\ LoadAddr(s, i) = trace[s.lq[i].id].loads[s.lq[i].src]
<1>1. s.lq[i] \in LqEntry
  BY DEF LoadQueue, NoLoad
<1>2. s.lq[i].id \in Id
  BY <1>1 DEF LqEntry
<1>3. s.lq[i].src \in s.srcAdded[s.lq[i].id] /\ s.lqIndex[s.lq[i].id][s.lq[i].src] = i
  BY DEF LoadQueue
<1>4. s.lq[i].id \in InRob(s) /\ s.lq[i].src \in DOMAIN trace[s.lq[i].id].loads
  BY <1>2, <1>3 DEF LoadQueue
<1> QED BY <1>2, <1>3, <1>4 DEF Pending, LoadAddr

(* The other way round, too. *)
LEMMA PendingIs ==
  ASSUME trace \in Traces, NEW s, LoadQueue(s), NEW n \in Id, NEW j \in s.srcAdded[n]
  PROVE  /\ s.lqIndex[n][j] \in LqSlot /\ j \in DOMAIN trace[n].loads /\ n \in InRob(s)
         /\ \A i \in LqSlot : s.lq[i].id = n /\ s.lq[i].src = j => i = s.lqIndex[n][j] /\ Pending(s, n, j)
<1>1. n # 0
  BY InstructionIs
<1> QED BY SMTT(60), <1>1, EntryIs DEF LoadQueue

(* A source to which nothing happens.                                      *)
LinkFixed(s, t, n, j) ==
  /\ Pending(t, n, j) <=> Pending(s, n, j)
  /\ Pending(s, n, j) => t.lq[t.lqIndex[n][j]].producer = s.lq[s.lqIndex[n][j]].producer
  /\ WaitedFor(t, n, j) = WaitedFor(s, n, j)
  /\ WaitedFor(s, n, j) # 0 =>
       (n \in s.dependents[WaitedFor(s, n, j)] => n \in t.dependents[WaitedFor(s, n, j)])
  /\ HasData(t, n, j) <=> HasData(s, n, j)
  /\ t.sawMem[n][j] = s.sawMem[n][j]

(* It stays as it is.                                                      *)
LEMMA LinkKept ==
  ASSUME NEW s, NEW t, NEW n, NEW j, Link(s, n, j), LinkFixed(s, t, n, j)
  PROVE  Link(t, n, j)
BY DEF Link, LinkFixed, Waiting, Given

(* The producer of a load depends on which instructions have retired.      *)
LEMMA WaitedForKept ==
  ASSUME NEW s, NEW t, t.head = s.head
  PROVE  \A n, j : WaitedFor(t, n, j) = WaitedFor(s, n, j)
BY DEF WaitedFor, Producer, Older

(* A handler that adds no load, frees none and gives no store its data.    *)
LEMMA LoadsKeptRight ==
  ASSUME trace \in Traces, NEW s, NEW t, Rob(s), LoadsRight(s), t.head = s.head, t.tail \in {s.tail, s.tail + 1},
         LoadsKept(s, t), t.dependents = s.dependents, t.sawMem = s.sawMem, SameData(s, t), LoadPaths(t)
  PROVE  LoadsRight(t)
<1>1. \A n, j : WaitedFor(t, n, j) = WaitedFor(s, n, j)
  BY WaitedForKept
<1>2. InRob(s) \subseteq InRob(t)
  BY DEF InRob, Rob
<1>3. Links(t)
  <2> SUFFICES ASSUME NEW n \in Id, NEW j \in t.srcAdded[n]  PROVE Link(t, n, j)
    BY DEF Links
  <2>1. Link(s, n, j)
    BY DEF LoadsRight, Links, LoadsKept
  <2>2. HasData(t, n, j) <=> HasData(s, n, j)
    BY <1>1 DEF SameData, HasData
  <2>3. LinkFixed(s, t, n, j)
    BY <1>1, <2>2 DEF LinkFixed, Pending, LoadsKept
  <2> QED BY <2>1, <2>3, LinkKept
<1>4. Known(t)
  BY <1>1, <1>2 DEF LoadsRight, Known
<1>5. MemRead(t)
  BY DEF LoadsRight, MemRead
<1> QED BY <1>3, <1>4, <1>5 DEF LoadsRight

(* Other handlers do not move the loads.                                   *)
LEMMA LoadPathsKept ==
  ASSUME NEW s, NEW t, LoadPaths(s), LoadWayKept(s, t), t.lq = s.lq
  PROVE  LoadPaths(t)
BY DEF LoadPaths, LoadWayKept, Moving

(* What add_load_queue makes of a source that it adds.                     *)
LoadEntered(s, t, n, j, i, p) ==
  /\ t.srcAdded[n] = s.srcAdded[n] \cup {j} /\ \A m \in Id : m # n => t.srcAdded[m] = s.srcAdded[m]
  /\ t.lqIndex[n][j] = i /\ \A k \in Operands : k # j => t.lqIndex[n][k] = s.lqIndex[n][k]
  /\ \A m \in Id : m # n => t.lqIndex[m] = s.lqIndex[m]
  /\ p # 0 => t.dependents[p] = s.dependents[p] \cup {n}
  /\ \A m \in Id : m # p => t.dependents[m] = s.dependents[m]

(* One source is added, in entry i, and one store told.                    *)
LEMMA LoadEnteredIs ==
  ASSUME trace \in Traces, NEW s, NEW t, LoadQueue(s), NEW n \in Id, NEW j \in Operands, NEW i, NEW p \in Id \cup {0},
         t.srcAdded = Put(s.srcAdded, n, s.srcAdded[n] \cup {j}),
         t.lqIndex = Put(s.lqIndex, n, Put(s.lqIndex[n], j, i)),
         t.dependents = DependentsTold(s, n, {p} \ {0})
  PROVE  LoadEntered(s, t, n, j, i, p)
<1>1. DOMAIN s.srcAdded = Id /\ DOMAIN s.lqIndex = Id /\ DOMAIN s.lqIndex[n] = Operands
  BY DEF LoadQueue
<1>2. t.srcAdded[n] = s.srcAdded[n] \cup {j} /\ \A m \in Id : m # n => t.srcAdded[m] = s.srcAdded[m]
  BY <1>1 DEF Put
<1>3. \A m \in Id : m # n => t.lqIndex[m] = s.lqIndex[m]
  BY <1>1 DEF Put
<1>4. t.lqIndex[n] = Put(s.lqIndex[n], j, i)
  BY <1>1 DEF Put
<1>5. t.lqIndex[n][j] = i /\ \A k \in Operands : k # j => t.lqIndex[n][k] = s.lqIndex[n][k]
  BY <1>1, <1>4 DEF Put
<1>6. /\ p # 0 => t.dependents[p] = s.dependents[p] \cup {n}
      /\ \A m \in Id : m # p => t.dependents[m] = s.dependents[m]
  BY DEF DependentsTold
<1> QED BY <1>2, <1>3, <1>5, <1>6 DEF LoadEntered

(* The load queue keeps its entries but for a free one, which may be taken.*)
EntryTaken(s, t, i, n, j) ==
  \/ t.lq = s.lq
  \/ /\ t.lq[i].id = n /\ t.lq[i].src = j
     /\ \A k \in LqSlot : k # i => t.lq[k] = s.lq[k]

(* The other sources and the stores do not notice.                         *)
LEMMA OthersLinked ==
  ASSUME trace \in Traces, NEW s, NEW t, Rob(s), LoadQueue(s), Links(s), NEW n \in Id, NEW j \in Operands,
         NEW i \in LqSlot, s.lq[i].id = 0, NEW p, OrderKept(s, t), t.sq = s.sq,
         LoadEntered(s, t, n, j, i, p), EntryTaken(s, t, i, n, j),
         \A m \in Id : \A k : m # n \/ k # j => t.sawMem[m][k] = s.sawMem[m][k]
  PROVE  \A m \in Id : \A k \in t.srcAdded[m] : m # n \/ k # j => Link(t, m, k)
<1> SUFFICES ASSUME NEW m \in Id, NEW k \in t.srcAdded[m], m # n \/ k # j  PROVE Link(t, m, k)
  OBVIOUS
<1>1. k \in s.srcAdded[m]
  BY DEF LoadEntered
<1>2. Link(s, m, k)
  BY <1>1 DEF Links
<1>3. k \in Operands /\ m # 0 /\ s.lqIndex[m][k] \in LqSlot
  <2>1. m # 0
    BY InstructionIs
  <2> QED BY <1>1, <2>1 DEF LoadQueue
<1>4. t.lqIndex[m][k] = s.lqIndex[m][k]
  BY <1>3 DEF LoadEntered
<1>5. WaitedFor(t, m, k) = WaitedFor(s, m, k)
  BY WaitedForKept DEF OrderKept
<1>6. HasData(t, m, k) <=> HasData(s, m, k)
  BY <1>5, SameQueue DEF HasData, SameData
<1>7. WaitedFor(s, m, k) # 0 =>
        (m \in s.dependents[WaitedFor(s, m, k)] => m \in t.dependents[WaitedFor(s, m, k)])
  <2>1. m \in InRob(s)
    BY <1>1 DEF LoadQueue
  <2>2. WaitedFor(s, m, k) \in Id \cup {0}
    BY <2>1, ProducerIs DEF WaitedFor
  <2> QED BY <2>2 DEF LoadEntered
<1>8. PICK l : l = s.lqIndex[m][k]
  OBVIOUS
<1>9. Pending(t, m, k) <=> Pending(s, m, k)
  <2>1. CASE l = i
    <3>1. ~Pending(s, m, k)
      BY <1>3, <1>8, <2>1 DEF Pending
    <3>2. ~Pending(t, m, k)
      BY <1>3, <1>4, <1>8, <2>1 DEF Pending, EntryTaken
    <3> QED BY <3>1, <3>2
  <2>2. CASE l # i
    BY <1>3, <1>4, <1>8, <2>2 DEF Pending, EntryTaken
  <2> QED BY <2>1, <2>2
<1>10. Pending(s, m, k) => t.lq[t.lqIndex[m][k]].producer = s.lq[s.lqIndex[m][k]].producer
  <2>1. Pending(s, m, k) => l # i
    BY <1>3, <1>8 DEF Pending
  <2> QED BY <1>3, <1>4, <1>8, <2>1 DEF EntryTaken
<1>11. LinkFixed(s, t, m, k)
  BY <1>5, <1>6, <1>7, <1>9, <1>10 DEF LinkFixed
<1> QED BY <1>2, <1>11, LinkKept

(* The stores that are told about a load are told about one they produce   *)
(* for.                                                                    *)
LEMMA KnownAdded ==
  ASSUME trace \in Traces, NEW s, NEW t, Rob(s), Known(s), NEW n \in InRob(s), NEW j \in DOMAIN trace[n].loads,
         NEW i, NEW p, p = WaitedFor(s, n, j), OrderKept(s, t), LoadEntered(s, t, n, j, i, p)
  PROVE  Known(t)
<1>1. InRob(t) = InRob(s)
  BY DEF InRob, OrderKept
<1>2. \A m, k : WaitedFor(t, m, k) = WaitedFor(s, m, k)
  BY WaitedForKept DEF OrderKept
<1> SUFFICES ASSUME NEW q \in Id, NEW m \in t.dependents[q]
             PROVE  m \in InRob(t) /\ \E k \in DOMAIN trace[m].loads : q = WaitedFor(t, m, k)
  BY DEF Known
<1>3. CASE m \in s.dependents[q]
  BY <1>1, <1>2, <1>3 DEF Known
<1>4. CASE m \notin s.dependents[q]
  <2>1. q = p /\ m = n
    <3>1. q # 0
      BY InstructionIs
    <3> QED BY <1>4, <3>1 DEF LoadEntered
  <2> QED BY <1>1, <1>2, <2>1
<1> QED BY <1>3, <1>4

(* A load that is answered by a store of the store queue.                  *)
LEMMA LoadsForwarded ==
  ASSUME trace \in Traces, NEW s, NEW t, Rob(s), LoadQueue(s), LoadsRight(s), NEW n \in InRob(s),
         NEW j \in DOMAIN trace[n].loads, j \notin s.srcAdded[n], NEW i \in LqSlot, s.lq[i].id = 0, NEW p,
         p = Producer(s, n, trace[n].loads[j]), CanForward(s, p, trace[n].loads[j]), LoadForwardedTo(s, t, n, j, i, p)
  PROVE  LoadsRight(t)
<1>1. /\ OrderKept(s, t) /\ StoresKept(s, t) /\ LoadWayKept(s, t) /\ t.lq = s.lq
      /\ t.srcAdded = Put(s.srcAdded, n, s.srcAdded[n] \cup {j})
      /\ t.lqIndex = Put(s.lqIndex, n, Put(s.lqIndex[n], j, i))
      /\ t.dependents = DependentsTold(s, n, {p} \ {0})
      /\ t.sawMem = Put(s.sawMem, n, Put(s.sawMem[n], j, p))
  BY DEF LoadForwardedTo
<1>2. n \in Id /\ n # 0 /\ n > s.head /\ s.head \in Nat /\ j \in Operands
  <2>1. n \in Id /\ trace[n].loads \in Places(Addr)
    BY InRobIs, InstructionIs
  <2>2. DOMAIN trace[n].loads \subseteq Operands
    BY <2>1, PlacesAre
  <2> QED BY <2>1, <2>2, InRobIs, InstructionIs DEF Rob
<1>3. p \in Id /\ p \in Nat /\ p # 0 /\ p = WaitedFor(s, n, j)
  <2>1. p \in Id \cup {0} /\ p \in 0 .. (n - 1)
    BY ProducerIs
  <2>2. p # 0
    BY DEF CanForward
  <2> QED BY <1>2, <2>1, <2>2 DEF WaitedFor
<1>4. LoadEntered(s, t, n, j, i, p)
  BY <1>1, <1>2, <1>3, LoadEnteredIs
<1>5. DOMAIN s.sawMem = Id /\ s.sawMem[n] \in [DOMAIN trace[n].loads -> Nat]
  BY <1>2 DEF LoadsRight, MemRead
<1>6. /\ t.sawMem[n] = Put(s.sawMem[n], j, p) /\ DOMAIN t.sawMem = Id
      /\ \A m \in Id : m # n => t.sawMem[m] = s.sawMem[m]
  BY <1>1, <1>2, <1>5 DEF Put
<1>7. t.sawMem[n][j] = p /\ \A k : k # j => t.sawMem[n][k] = s.sawMem[n][k]
  BY <1>5, <1>6 DEF Put
<1>8. Links(t)
  <2>1. \A m \in Id : \A k \in t.srcAdded[m] : m # n \/ k # j => Link(t, m, k)
    <3>1. EntryTaken(s, t, i, n, j) /\ t.sq = s.sq
      BY <1>1 DEF EntryTaken, StoresKept
    <3>2. \A m \in Id : \A k : m # n \/ k # j => t.sawMem[m][k] = s.sawMem[m][k]
      BY <1>6, <1>7
    <3>3. Links(s)
      BY DEF LoadsRight
    <3> QED BY <1>1, <1>2, <1>4, <3>1, <3>2, <3>3, OthersLinked
  <2>2. ~Pending(t, n, j)
    BY <1>1, <1>2, <1>4 DEF Pending, LoadEntered
  <2>3. WaitedFor(t, n, j) = p
    BY <1>1, <1>3, WaitedForKept DEF OrderKept
  <2>4. HasData(t, n, j)
    BY <1>1, <2>3, SameQueue DEF SameData, HasData, StoresKept
  <2>5. LastStore(n - 1, trace[n].loads[j]) = p
    BY <1>3, ProducerLast
  <2>6. Link(t, n, j)
    BY <1>7, <2>2, <2>4, <2>5 DEF Link, Given
  <2> QED BY <2>1, <2>6 DEF Links
<1>9. Known(t)
  BY <1>1, <1>3, <1>4, KnownAdded DEF LoadsRight
<1>10. LoadPaths(t)
  BY <1>1, LoadPathsKept DEF LoadsRight
<1>11. MemRead(t)
  <2>1. t.sawMem[n] \in [DOMAIN trace[n].loads -> Nat]
    BY <1>3, <1>5, <1>6, Updated DEF Put
  <2>2. \A m \in Id : m <= t.head => m # n
    BY <1>1, <1>2, InstructionIs DEF OrderKept
  <2>3. t.head = s.head
    BY <1>1 DEF OrderKept
  <2> QED BY <1>6, <2>1, <2>2, <2>3 DEF LoadsRight, MemRead
<1> QED BY <1>8, <1>9, <1>10, <1>11 DEF LoadsRight

(* A load that takes an entry, and sets off if it waits for no store.      *)
LEMMA LoadsQueued ==
  ASSUME trace \in Traces, NEW s, NEW t, Rob(s), LoadQueue(s), LoadsRight(s), NEW n \in InRob(s),
         NEW j \in DOMAIN trace[n].loads, j \notin s.srcAdded[n], NEW i \in LqSlot, s.lq[i].id = 0, NEW p,
         p = Producer(s, n, trace[n].loads[j]), ~CanForward(s, p, trace[n].loads[j]), LoadQueuedTo(s, t, n, j, i, p)
  PROVE  LoadsRight(t)
<1>1. /\ OrderKept(s, t) /\ StoresKept(s, t) /\ t.sawMem = s.sawMem /\ t.lq = LqWith(s, i, n, j, p)
      /\ t.srcAdded = Put(s.srcAdded, n, s.srcAdded[n] \cup {j})
      /\ t.lqIndex = Put(s.lqIndex, n, Put(s.lqIndex[n], j, i))
      /\ t.dependents = DependentsTold(s, n, {p} \ {0})
      /\ t.rtl0 = (IF p = 0 THEN s.rtl0 \cup {i} ELSE s.rtl0)
      /\ t.dtlbL = s.dtlbL /\ t.rtl1 = s.rtl1 /\ t.l1d = s.l1d
  BY DEF LoadQueuedTo, SeenKept
<1>2. n \in Id /\ n # 0 /\ n > s.head /\ s.head \in Nat /\ j \in Operands
  <2>1. n \in Id /\ trace[n].loads \in Places(Addr)
    BY InRobIs, InstructionIs
  <2>2. DOMAIN trace[n].loads \subseteq Operands
    BY <2>1, PlacesAre
  <2> QED BY <2>1, <2>2, InRobIs, InstructionIs DEF Rob
<1>3. p \in Id \cup {0} /\ p = WaitedFor(s, n, j)
  BY ProducerIs DEF WaitedFor
<1>4. LoadEntered(s, t, n, j, i, p)
  BY <1>1, <1>2, <1>3, LoadEnteredIs
<1>5. /\ t.lq[i].id = n /\ t.lq[i].src = j /\ t.lq[i].producer = p
      /\ \A k \in LqSlot : k # i => t.lq[k] = s.lq[k]
  <2>1. DOMAIN s.lq = LqSlot
    BY DEF LoadQueue
  <2> QED BY <1>1, <2>1 DEF LqWith
<1>6. Links(t)
  <2>1. \A m \in Id : \A k \in t.srcAdded[m] : m # n \/ k # j => Link(t, m, k)
    <3>1. EntryTaken(s, t, i, n, j) /\ t.sq = s.sq
      BY <1>1, <1>5 DEF EntryTaken, StoresKept
    <3>2. \A m \in Id : \A k : m # n \/ k # j => t.sawMem[m][k] = s.sawMem[m][k]
      BY <1>1
    <3>3. Links(s)
      BY DEF LoadsRight
    <3> QED BY <1>1, <1>2, <1>4, <3>1, <3>2, <3>3, OthersLinked
  <2>2. Pending(t, n, j) /\ t.lqIndex[n][j] = i
    BY <1>4, <1>5 DEF Pending, LoadEntered
  <2>3. WaitedFor(t, n, j) = p
    BY <1>1, <1>3, WaitedForKept DEF OrderKept
  <2>4. ~HasData(t, n, j)
    BY <1>1, <2>3, SameQueue DEF SameData, HasData, StoresKept
  <2>5. p # 0 => n \in t.dependents[p]
    BY <1>4 DEF LoadEntered
  <2>6. Link(t, n, j)
    BY <1>5, <2>2, <2>3, <2>4, <2>5 DEF Link, Waiting
  <2> QED BY <2>1, <2>6 DEF Links
<1>7. Known(t)
  BY <1>1, <1>3, <1>4, KnownAdded DEF LoadsRight
<1>8. LoadPaths(t)
  <2>1. i \notin Moving(s) /\ Moving(t) = IF p = 0 THEN Moving(s) \cup {i} ELSE Moving(s)
    BY <1>2, <1>5 DEF Moving
  <2> QED BY <1>1, <2>1 DEF LoadsRight, LoadPaths
<1>9. MemRead(t)
  BY <1>1 DEF LoadsRight, MemRead, OrderKept
<1> QED BY <1>6, <1>7, <1>8, <1>9 DEF LoadsRight

(* add_load_queue                                                          *)
LEMMA LoadsAdded ==
  ASSUME trace \in Traces, NEW s, NEW t, Queues(s), LoadsRight(s), NEW n \in InRob(s), NEW j, t = AddLoad(s, n, j)
  PROVE  LoadsRight(t) /\ t.sawRegs = s.sawRegs
<1>0. Shaped(s) /\ Rob(s) /\ LoadQueue(s)
  BY DEF Queues
<1>1. CASE j \notin DOMAIN trace[n].loads \/ j \in s.srcAdded[n] \/ FreeLq(s) = {}
  <2>1. t = s
    BY <1>1, AddLoadIs
  <2> QED BY <2>1
<1>2. CASE ~(j \notin DOMAIN trace[n].loads \/ j \in s.srcAdded[n] \/ FreeLq(s) = {})
  <2>1. j \in DOMAIN trace[n].loads /\ j \notin s.srcAdded[n] /\ FreeLq(s) # {}
    BY <1>2
  <2>2. PICK i : i = FirstFreeLq(s)
    OBVIOUS
  <2>3. i \in LqSlot /\ s.lq[i].id = 0
    BY <1>0, <2>1, <2>2, FreeLqIs
  <2>4. PICK p : p = Producer(s, n, trace[n].loads[j])
    OBVIOUS
  <2>5. CASE CanForward(s, p, trace[n].loads[j])
    <3>1. LoadForwardedTo(s, t, n, j, i, p)
      BY <1>0, <2>1, <2>2, <2>4, <2>5, LoadForwardedIs
    <3>2. LoadsRight(t)
      BY <1>0, <2>1, <2>3, <2>4, <2>5, <3>1, LoadsForwarded
    <3> QED BY <3>1, <3>2 DEF LoadForwardedTo
  <2>6. CASE ~CanForward(s, p, trace[n].loads[j])
    <3>1. LoadQueuedTo(s, t, n, j, i, p)
      BY <1>0, <2>1, <2>2, <2>4, <2>6, LoadQueuedIs
    <3>2. LoadsRight(t)
      BY <1>0, <2>1, <2>3, <2>4, <2>6, <3>1, LoadsQueued
    <3> QED BY <3>1, <3>2 DEF LoadQueuedTo, SeenKept
  <2> QED BY <2>5, <2>6
<1> QED BY <1>1, <1>2

(* add_store_queue: the data is not there yet.                             *)
LEMMA LoadsStoreAdded ==
  ASSUME trace \in Traces, NEW s, NEW t, Queues(s), LoadsRight(s), NEW n \in InRob(s), NEW d, t = AddStore(s, n, d)
  PROVE  LoadsRight(t) /\ t.sawRegs = s.sawRegs
<1>0. Shaped(s) /\ Rob(s) /\ LoadQueue(s) /\ StoreQueue(s) /\ Sta(s) /\ Ring(s)
  BY DEF Queues
<1>1. CASE d \notin DOMAIN trace[n].stores \/ d \in s.dstAdded[n] \/ FreeSq(s) = {} \/ ~StaAllows(s, n)
  <2>1. t = s
    BY <1>1 DEF AddStore
  <2> QED BY <2>1
<1>2. CASE ~(d \notin DOMAIN trace[n].stores \/ d \in s.dstAdded[n] \/ FreeSq(s) = {} \/ ~StaAllows(s, n))
  <2>1. StoreQueuedTo(s, t, n, d)
    BY <1>0, <1>2, StoreQueuedIs
  <2>2. /\ OrderKept(s, t) /\ LoadsKept(s, t) /\ LoadWayKept(s, t) /\ SeenKept(s, t)
        /\ t.dependents = s.dependents /\ t.sq = SqWith(s, s.sqTail, n, d)
    BY <2>1 DEF StoreQueuedTo
  <2>3. PICK k \in SqSlot : k = s.sqTail
    BY <1>0 DEF StoreQueue
  <2>4. s.sq[k].id = 0
    BY <1>0, <1>2, <2>3, TailIsFree
  <2>5. t.sq[k].done = FALSE /\ \A l \in SqSlot : l # k => t.sq[l] = s.sq[l]
    BY <1>0, <2>2, <2>3 DEF SqWith, StoreQueue
  <2>6. SameData(s, t)
    BY <2>4, <2>5 DEF SameData, CanForward, StoreAddr
  <2>7. LoadPaths(t)
    BY <2>2, LoadPathsKept DEF LoadsRight, LoadsKept
  <2>8. LoadsRight(t)
    BY <1>0, <2>2, <2>6, <2>7, LoadsKeptRight DEF OrderKept, SeenKept
  <2> QED BY <2>2, <2>8 DEF SeenKept
<1> QED BY <1>1, <1>2

(* What happens to a source when the entries of I are answered.            *)
LEMMA ReleasedIs ==
  ASSUME trace \in Traces, NEW s, NEW t, NEW I, NEW f, LoadQueue(s), MemRead(s), I \subseteq LqSlot, LoadedTo(s, t, I, f),
         NEW n \in Id, NEW j \in s.srcAdded[n]
  PROVE  /\ Pending(t, n, j) <=> Pending(s, n, j) /\ s.lqIndex[n][j] \notin I
         /\ Pending(t, n, j) => t.lq[t.lqIndex[n][j]] = s.lq[s.lqIndex[n][j]]
         /\ t.sawMem[n][j] = IF Pending(s, n, j) /\ s.lqIndex[n][j] \in I THEN f[trace[n].loads[j]] ELSE s.sawMem[n][j]
<1>1. t.lqIndex = s.lqIndex /\ t.lq = LqReleased(s, I) /\ t.sawMem = SawMemLoaded(s, I, f)
  BY DEF LoadedTo
<1>2. PICK i \in LqSlot : i = s.lqIndex[n][j]
  BY PendingIs
<1>3. t.lq[i] = IF i \in I THEN NoLoad ELSE s.lq[i]
  BY <1>1 DEF LqReleased
<1>4. n # 0 /\ j \in DOMAIN trace[n].loads
  BY PendingIs, InstructionIs
<1>5. Pending(t, n, j) <=> Pending(s, n, j) /\ i \notin I
  BY <1>1, <1>2, <1>3, <1>4 DEF Pending, NoLoad
<1>6. (\E l \in I : s.lq[l].id = n /\ s.lq[l].src = j) <=> Pending(s, n, j) /\ i \in I
  <2>1. \A l \in LqSlot : s.lq[l].id = n /\ s.lq[l].src = j => l = i
    BY <1>2, PendingIs
  <2> QED BY <1>2, <2>1 DEF Pending
<1>7. j \in DOMAIN s.sawMem[n]
  BY <1>4 DEF MemRead
<1>8. t.sawMem[n][j] = IF \E l \in I : s.lq[l].id = n /\ s.lq[l].src = j THEN f[trace[n].loads[j]] ELSE s.sawMem[n][j]
  BY <1>1, <1>7 DEF SawMemLoaded
<1> QED BY <1>1, <1>2, <1>3, <1>5, <1>6, <1>8

(* What the retired instructions have loaded stays, whoever is answered.   *)
LEMMA MemReadLoaded ==
  ASSUME trace \in Traces, NEW s, NEW t, NEW I, NEW f, Rob(s), LoadQueue(s), MemRead(s), I \subseteq LqSlot,
         LoadedTo(s, t, I, f), \A a \in Addr : f[a] \in Nat
  PROVE  MemRead(t)
<1>1. OrderKept(s, t) /\ t.sawMem = SawMemLoaded(s, I, f)
  BY DEF LoadedTo
<1>2. ASSUME NEW n \in Id
      PROVE  /\ t.sawMem[n] \in [DOMAIN trace[n].loads -> Nat]
             /\ n <= s.head => t.sawMem[n] = s.sawMem[n]
  <2>1. s.sawMem[n] \in [DOMAIN trace[n].loads -> Nat]
    BY DEF MemRead
  <2>2. t.sawMem[n] = [j \in DOMAIN s.sawMem[n] |->
          IF \E i \in I : s.lq[i].id = n /\ s.lq[i].src = j THEN f[trace[n].loads[j]] ELSE s.sawMem[n][j]]
    BY <1>1 DEF SawMemLoaded
  <2>3. \A j \in DOMAIN trace[n].loads : trace[n].loads[j] \in Addr
    BY InstructionIs, PlacesAre
  <2>4. t.sawMem[n] \in [DOMAIN trace[n].loads -> Nat]
    BY <2>1, <2>2, <2>3
  <2>5. ASSUME n <= s.head  PROVE t.sawMem[n] = s.sawMem[n]
    <3>1. n \notin InRob(s) /\ n # 0
      BY <2>5, InRobIs, InstructionIs DEF Rob
    <3>2. \A i \in I : s.lq[i].id # n
      BY <3>1, EntryIs
    <3> QED BY <2>1, <2>2, <3>2
  <2> QED BY <2>4, <2>5
<1>3. DOMAIN t.sawMem = Id
  BY <1>1 DEF SawMemLoaded
<1> QED BY <1>1, <1>2, <1>3 DEF MemRead, OrderKept

(* Memory holds what the last store before the head has written.           *)
MemoryRight(s, mem) == mem = [a \in Addr |-> LastStore(s.head, a)]

(* The L1D answers loads that wait for no store with what is in memory.    *)
LEMMA LoadsAnswered ==
  ASSUME trace \in Traces, NEW s, NEW t, NEW u, NEW I, NEW mem, Queues(s), LoadsRight(s), MemoryRight(s, mem),
         I \subseteq s.l1d, LoadedTo(s, u, I, mem), StagesOnly(u, t), SeenKept(u, t),
         t.rtl0 = u.rtl0, t.dtlbL = u.dtlbL, t.rtl1 = u.rtl1, t.l1d = u.l1d \ I
  PROVE  LoadsRight(t)
<1>0. Shaped(s) /\ Rob(s) /\ LoadQueue(s)
  BY DEF Queues
<1>1. /\ OrderKept(s, u) /\ LoadWayKept(s, u) /\ u.sq = s.sq
      /\ u.dependents = s.dependents /\ u.srcAdded = s.srcAdded /\ u.lq = LqReleased(s, I)
  BY DEF LoadedTo, StoresKept
<1>2. /\ OrderKept(u, t) /\ LoadsKept(u, t) /\ t.sq = u.sq /\ t.dependents = u.dependents /\ t.sawMem = u.sawMem
  BY DEF StagesOnly, StoresKept, SeenKept
<1>3. Links(s) /\ Known(s) /\ LoadPaths(s) /\ MemRead(s)
  BY DEF LoadsRight
<1>4. I \subseteq LqSlot /\ \A i \in I : s.lq[i].id # 0 /\ s.lq[i].producer = 0
  BY <1>3 DEF LoadPaths, Moving
<1>5. Links(u)
  <2> SUFFICES ASSUME NEW n \in Id, NEW j \in s.srcAdded[n]  PROVE Link(u, n, j)
    BY <1>1 DEF Links
  <2>1. Link(s, n, j)
    BY <1>3 DEF Links
  <2>2. /\ Pending(u, n, j) <=> Pending(s, n, j) /\ s.lqIndex[n][j] \notin I
        /\ Pending(u, n, j) => u.lq[u.lqIndex[n][j]] = s.lq[s.lqIndex[n][j]]
        /\ u.sawMem[n][j] = IF Pending(s, n, j) /\ s.lqIndex[n][j] \in I THEN mem[trace[n].loads[j]] ELSE s.sawMem[n][j]
    BY <1>0, <1>3, <1>4, ReleasedIs
  <2>3. WaitedFor(u, n, j) = WaitedFor(s, n, j)
    BY <1>1, WaitedForKept DEF OrderKept
  <2>4. HasData(u, n, j) <=> HasData(s, n, j)
    BY <1>1, <2>3, SameQueue DEF HasData, SameData
  <2>5. CASE Pending(s, n, j) /\ s.lqIndex[n][j] \in I
    <3>1. WaitedFor(s, n, j) = 0
      BY <1>4, <2>1, <2>5 DEF Link, Waiting
    <3>2. n \in InRob(s) /\ trace[n].loads[j] \in Addr
      BY <1>0, PendingIs, InstructionIs, PlacesAre
    <3>3. LastStore(n - 1, trace[n].loads[j]) = LastStore(s.head, trace[n].loads[j])
      BY <1>0, <3>1, <3>2, ProducerLast DEF WaitedFor
    <3>4. mem[trace[n].loads[j]] = LastStore(s.head, trace[n].loads[j])
      BY <3>2 DEF MemoryRight
    <3> QED BY <2>2, <2>3, <2>5, <3>1, <3>3, <3>4 DEF Link, Given
  <2>6. CASE ~(Pending(s, n, j) /\ s.lqIndex[n][j] \in I)
    <3>1. LinkFixed(s, u, n, j)
      BY <1>1, <2>2, <2>3, <2>4, <2>6 DEF LinkFixed
    <3> QED BY <2>1, <3>1, LinkKept
  <2> QED BY <2>5, <2>6
<1>6. Known(u)
  <2>1. InRob(u) = InRob(s) /\ \A n, j : WaitedFor(u, n, j) = WaitedFor(s, n, j)
    BY <1>1, WaitedForKept DEF OrderKept, InRob
  <2> QED BY <1>1, <1>3, <2>1 DEF Known
<1>7. MemRead(u)
  <2>1. \A a \in Addr : mem[a] \in Nat
    <3>1. \A a \in Addr : LastStore(s.head, a) \in 0 .. s.head
      BY <1>0, LastStoreNext DEF Rob
    <3> QED BY <3>1 DEF MemoryRight
  <2> QED BY <1>0, <1>3, <1>4, <2>1, MemReadLoaded
<1>8. LoadPaths(t)
  <2>1. Moving(t) = Moving(s) \ I
    BY <1>1, <1>2, <1>4 DEF Moving, LqReleased, NoLoad, LoadsKept
  <2>2. t.rtl0 = s.rtl0 /\ t.dtlbL = s.dtlbL /\ t.rtl1 = s.rtl1 /\ t.l1d = s.l1d \ I
    BY <1>1 DEF LoadWayKept
  <2> QED BY <1>3, <2>1, <2>2 DEF LoadPaths
<1>9. Links(t) /\ Known(t) /\ MemRead(t)
  <2>1. SameData(u, t) /\ InRob(t) = InRob(u) /\ \A n, j : WaitedFor(t, n, j) = WaitedFor(u, n, j)
    BY <1>2, SameQueue, WaitedForKept DEF OrderKept, InRob
  <2>2. Known(t) /\ MemRead(t)
    BY <1>2, <1>6, <1>7, <2>1 DEF Known, MemRead, OrderKept
  <2> SUFFICES ASSUME NEW n \in Id, NEW j \in t.srcAdded[n]  PROVE Link(t, n, j)
    BY <2>2 DEF Links
  <2>3. Link(u, n, j)
    BY <1>2, <1>5 DEF Links, LoadsKept
  <2>4. LinkFixed(u, t, n, j)
    BY <1>2, <2>1 DEF LinkFixed, Pending, LoadsKept, HasData, SameData
  <2> QED BY <2>3, <2>4, LinkKept
<1> QED BY <1>8, <1>9 DEF LoadsRight
-----------------------------------------------------------------------------
(* execute_store *)

(* In a program that is Whole, a store that one source of a load waits for *)
(* is the youngest for all sources whose address it has.                   *)
LEMMA ProducesForAll ==
  ASSUME trace \in Traces, WholeTraces, NEW s, Rob(s), NEW m \in InRob(s), NEW p \in Id,
         NEW b \in Elements(trace[m].loads), p = Producer(s, m, b),
         NEW a \in Elements(trace[m].loads), a \in Elements(trace[p].stores)
  PROVE  Producer(s, m, a) = p
<1>1. p # 0 /\ p \in Nat /\ m \in Id /\ m \in Nat /\ s.head \in Nat
  BY InRobIs, InstructionIs DEF Rob
<1>2. p \in Older(s, m) /\ b \in Elements(trace[p].stores)
  BY <1>1, ProducerIs
<1>3. PICK q : q = Producer(s, m, a)
  OBVIOUS
<1>4. q \in 0 .. (m - 1) /\ p <= q
  BY <1>2, <1>3, ProducerLast
<1>5. q # 0 => q \in Older(s, m) /\ a \in Elements(trace[q].stores)
  BY <1>3, ProducerIs
<1>6. CASE p < q
  <2>0. m < p + ROB_SIZE
    <3>1. s.tail \in Nat /\ s.tail - s.head <= ROB_SIZE
      BY DEF Rob
    <3>2. m <= s.tail
      BY InRobIs
    <3>3. s.head < p
      BY <1>1, <1>2 DEF Older
    <3> QED BY <1>1, <3>1, <3>2, <3>3, SlotsFinite
  <2>1. p \in DOMAIN trace /\ q \in DOMAIN trace /\ m \in DOMAIN trace /\ q < m
    <3>1. DOMAIN trace = Id
      BY TracesAssumption DEF Id
    <3>2. q \in Id
      BY <1>1, <1>4, <1>6, InstructionIs
    <3> QED BY <1>1, <1>4, <3>1, <3>2
  <2>2. a \in Elements(trace[p].stores) \cap Elements(trace[q].stores) \cap Elements(trace[m].loads)
    BY <1>1, <1>4, <1>5, <1>6
  <2>3. Whole(trace)
    BY DEF WholeTraces
  <2>4. Elements(trace[p].stores) \cap Elements(trace[m].loads) \subseteq Elements(trace[q].stores)
    BY <1>6, <2>0, <2>1, <2>2, <2>3 DEF Whole
  <2>5. b \in Elements(trace[q].stores)
    BY <1>2, <2>4
  <2>6. q <= p
    BY <1>1, <1>4, <1>5, <1>6, <2>5, ProducerLast
  <2> QED BY <1>1, <1>4, <1>6, <2>6
<1> QED BY <1>1, <1>3, <1>4, <1>6

(* A store that is about to execute has no data in the queue yet.          *)
LEMMA StoreComing ==
  ASSUME trace \in Traces, NEW s, Queues(s), NEW k \in s.rts1
  PROVE  /\ k \in SqSlot /\ s.sq[k].id \in Id /\ s.sq[k].id \in InRob(s) /\ s.sq[k].id # 0 /\ k \in Undone(s)
         /\ StoreAddr(s, k) \in Elements(trace[s.sq[k].id].stores)
         /\ ~CanForward(s, s.sq[k].id, StoreAddr(s, k))
<1>0. Rob(s) /\ StoreQueue(s) /\ StoreWay(s)
  BY DEF Queues
<1>1. k \in SqSlot /\ s.sq[k].id # 0 /\ ~s.sq[k].done /\ k \in Undone(s)
  BY <1>0 DEF StoreWay, Undone
<1>2. PICK n, d : n = s.sq[k].id /\ d = s.sq[k].dst
  OBVIOUS
<1>3. n \in Id /\ n \in InRob(s)
  BY <1>0, <1>1, <1>2, SqEntryIs
<1>4. d \in s.dstAdded[n] /\ s.sqIndex[n][d] = k /\ d \in DOMAIN trace[n].stores
  BY <1>0, <1>1, <1>2, <1>3 DEF StoreQueue
<1>5. StoreAddr(s, k) = trace[n].stores[d]
  BY <1>2 DEF StoreAddr
<1>6. StoreAddr(s, k) \in Elements(trace[n].stores)
  BY <1>4, <1>5 DEF Elements
<1>7. ASSUME NEW l \in SqSlot, s.sq[l].id = n, StoreAddr(s, l) = StoreAddr(s, k)  PROVE l = k
  <2>1. PICK e : e = s.sq[l].dst
    OBVIOUS
  <2>2. e \in s.dstAdded[n] /\ s.sqIndex[n][e] = l /\ e \in DOMAIN trace[n].stores
    BY <1>0, <1>1, <1>2, <1>3, <1>7, <2>1 DEF StoreQueue
  <2>3. trace[n].stores[e] = trace[n].stores[d]
    BY <1>5, <1>7, <2>1 DEF StoreAddr
  <2>4. e = d
    BY <1>3, <1>4, <2>2, <2>3, InstructionIs, PlacesAre
  <2> QED BY <1>4, <2>2, <2>4
<1>8. ~CanForward(s, n, StoreAddr(s, k))
  BY <1>1, <1>7 DEF CanForward
<1> QED BY <1>1, <1>2, <1>3, <1>6, <1>8

(* The entries that execute_store gives its data are those that wait for   *)
(* it.                                                                     *)
Awaiting(s, k) == {i \in LqSlot : s.lq[i].id # 0 /\ s.lq[i].producer = s.sq[k].id /\ LoadAddr(s, i) = StoreAddr(s, k)}

(* This is where the programs have to be Whole.                            *)
LEMMA TargetsAre ==
  ASSUME trace \in Traces, WholeTraces, NEW s, Queues(s), Links(s), Known(s), NEW k \in s.rts1
  PROVE  Targets(s, k) = Awaiting(s, k)
<1>0. Rob(s) /\ LoadQueue(s) /\ s.dependents \in [Id -> SUBSET Id]
  BY DEF Queues
<1>1. PICK p, a : p = s.sq[k].id /\ a = StoreAddr(s, k)
  OBVIOUS
<1>2. p \in Id /\ p # 0 /\ a \in Elements(trace[p].stores) /\ ~CanForward(s, p, a)
  BY SMTT(60), <1>1, StoreComing
<1>3. ASSUME NEW m \in s.dependents[p], NEW j \in s.srcAdded[m], trace[m].loads[j] = a
      PROVE  s.lqIndex[m][j] \in Awaiting(s, k)
  <2>1. m \in Id /\ m \in InRob(s) /\ s.lqIndex[m][j] \in LqSlot /\ j \in DOMAIN trace[m].loads
    BY <1>0, <1>2, <1>3, PendingIs
  <2>2. PICK h \in DOMAIN trace[m].loads : p = WaitedFor(s, m, h)
    BY <1>2 DEF Known
  <2>3. PICK b : b = trace[m].loads[h]
    OBVIOUS
  <2>4. b \in Elements(trace[m].loads) /\ a \in Elements(trace[m].loads) /\ p = Producer(s, m, b)
    BY <1>3, <2>1, <2>2, <2>3 DEF Elements, WaitedFor
  <2>5. WaitedFor(s, m, j) = p
    BY <1>0, <1>2, <1>3, <2>1, <2>4, ProducesForAll DEF WaitedFor
  <2>6. Link(s, m, j)
    BY <1>3, <2>1 DEF Links
  <2>7. Pending(s, m, j)
    BY <1>2, <1>3, <2>5, <2>6 DEF Link, Given, HasData
  <2>8. s.lq[s.lqIndex[m][j]].producer = p
    BY <2>5, <2>6, <2>7 DEF Link, Waiting
  <2>9. m # 0
    BY <2>1, InstructionIs
  <2> QED BY <1>1, <1>3, <2>1, <2>7, <2>8, <2>9 DEF Awaiting, Pending, LoadAddr
<1>4. ASSUME NEW i \in Awaiting(s, k)
      PROVE  \E m \in s.dependents[p] : \E j \in s.srcAdded[m] : trace[m].loads[j] = a /\ s.lqIndex[m][j] = i
  <2>1. i \in LqSlot /\ s.lq[i].id # 0 /\ s.lq[i].producer = p /\ LoadAddr(s, i) = a
    BY <1>1 DEF Awaiting
  <2>2. PICK m, j : m = s.lq[i].id /\ j = s.lq[i].src
    OBVIOUS
  <2>3. /\ m \in Id /\ j \in s.srcAdded[m] /\ s.lqIndex[m][j] = i /\ Pending(s, m, j)
        /\ trace[m].loads[j] = a
    BY <1>0, <2>1, <2>2, EntryIs
  <2>4. Link(s, m, j)
    BY <2>3 DEF Links
  <2>5. WaitedFor(s, m, j) = p /\ m \in s.dependents[p]
    BY <1>2, <2>1, <2>3, <2>4 DEF Link, Waiting
  <2> QED BY <2>3, <2>5
<1>5. \A i : i \in Targets(s, k) <=>
        \E m \in s.dependents[p] : \E j \in s.srcAdded[m] : trace[m].loads[j] = a /\ s.lqIndex[m][j] = i
  BY <1>1 DEF Targets
<1>6. \A i : i \in Targets(s, k) <=> i \in Awaiting(s, k)
  BY <1>3, <1>4, <1>5
<1> QED BY <1>6

(* Once a store is done its data is in the queue, and that of no other.    *)
LEMMA DataArrives ==
  ASSUME trace \in Traces, NEW s, NEW u, Queues(s), NEW k \in s.rts1, StoreDoneTo(s, u, k)
  PROVE  \A p, a : CanForward(u, p, a) <=> CanForward(s, p, a) \/ (p = s.sq[k].id /\ a = StoreAddr(s, k))
<1>1. k \in SqSlot /\ s.sq[k].id # 0 /\ StoreQueue(s)
  BY SMTT(60), StoreComing DEF Queues
<1>2. u.sq = SqDone(s, k) /\ DOMAIN s.sq = SqSlot
  BY <1>1 DEF StoreDoneTo, StoreQueue
<1>3. \A l \in SqSlot : l # k => u.sq[l] = s.sq[l]
  BY <1>2 DEF SqDone
<1>4. u.sq[k].id = s.sq[k].id /\ u.sq[k].dst = s.sq[k].dst /\ u.sq[k].done = TRUE
  <2>1. s.sq[k] \in SqEntry
    BY <1>1, SqEntryIs DEF Queues
  <2> QED BY <1>1, <1>2, <2>1 DEF SqDone, SqEntry
<1>5. \A l \in SqSlot : u.sq[l].id = s.sq[l].id /\ StoreAddr(u, l) = StoreAddr(s, l)
  BY <1>3, <1>4 DEF StoreAddr
<1>6. \A l \in SqSlot : u.sq[l].done <=> s.sq[l].done \/ l = k
  BY <1>3, <1>4
<1> QED BY <1>1, <1>5, <1>6 DEF CanForward

(* The loads that wait for the store get its data, and no others.          *)
LEMMA LoadsExecuted ==
  ASSUME trace \in Traces, WholeTraces, NEW s, NEW t, Queues(s), LoadsRight(s), NEW k \in s.rts1, t = StoreExecuted(s, k)
  PROVE  LoadsRight(t) /\ t.sawRegs = s.sawRegs
<1>0. Shaped(s) /\ Rob(s) /\ LoadQueue(s)
  BY DEF Queues
<1>1. Links(s) /\ Known(s) /\ LoadPaths(s) /\ MemRead(s)
  BY DEF LoadsRight
<1>2. PICK u : u = StoreDone(s, k)
  OBVIOUS
<1>3. PICK I, f : I = Targets(s, k) /\ f = [a \in Addr |-> s.sq[k].id]
  OBVIOUS
<1>4. StoreDoneTo(s, u, k)
  BY <1>0, <1>2, StoreDoneIs
<1>5. Queues(u) /\ I = Awaiting(s, k) /\ I \subseteq LqSlot
  BY <1>1, <1>3, <1>4, QueuesStoreDone, TargetsAre DEF Awaiting
<1>6. LoadedTo(u, t, I, f)
  <2>1. Shaped(u)
    BY <1>5 DEF Queues
  <2> QED BY <1>2, <1>3, <2>1, StoreExecutedIs, LoadedIs
<1>7. /\ OrderKept(s, u) /\ LoadsKept(s, u) /\ LoadWayKept(s, u) /\ SeenKept(s, u) /\ u.dependents = s.dependents
      /\ Rob(u) /\ LoadQueue(u)
  BY <1>4, <1>5 DEF StoreDoneTo, Queues
<1>8. /\ OrderKept(u, t) /\ LoadWayKept(u, t) /\ t.sq = u.sq /\ t.sawRegs = u.sawRegs
      /\ t.dependents = u.dependents /\ t.srcAdded = u.srcAdded /\ t.lq = LqReleased(u, I)
  BY <1>6 DEF LoadedTo, StoresKept
<1>9. PICK p, a : p = s.sq[k].id /\ a = StoreAddr(s, k)
  OBVIOUS
<1>10. p \in Id /\ p # 0 /\ p \in Nat /\ a \in Addr
  <2>1. p \in Id /\ p # 0 /\ a \in Elements(trace[p].stores)
    BY <1>9, StoreComing
  <2>2. trace[p].stores \in Places(Addr) /\ p \in Nat
    BY <2>1, InstructionIs
  <2>3. \A d \in DOMAIN trace[p].stores : trace[p].stores[d] \in Addr
    BY <2>2, PlacesAre
  <2> QED BY <2>1, <2>2, <2>3 DEF Elements
<1>11. \A q, b : CanForward(t, q, b) <=> CanForward(s, q, b) \/ (q = p /\ b = a)
  <2>1. \A q, b : CanForward(u, q, b) <=> CanForward(s, q, b) \/ (q = p /\ b = a)
    BY <1>4, <1>9, DataArrives
  <2> QED BY <1>8, <2>1, SameQueue DEF SameData
<1>12. \A n, j : WaitedFor(t, n, j) = WaitedFor(s, n, j)
  BY <1>7, <1>8, WaitedForKept DEF OrderKept
<1>13. MemRead(u)
  BY <1>1, <1>7 DEF MemRead, OrderKept, SeenKept
<1>14. Links(t)
  <2> SUFFICES ASSUME NEW n \in Id, NEW j \in s.srcAdded[n]  PROVE Link(t, n, j)
    BY <1>7, <1>8 DEF Links, LoadsKept
  <2>1. Link(s, n, j)
    BY <1>1 DEF Links
  <2>2. PICK i \in LqSlot : i = s.lqIndex[n][j]
    BY <1>0, PendingIs
  <2>3. Pending(u, n, j) <=> Pending(s, n, j)
    BY <1>7 DEF Pending, LoadsKept
  <2>4. /\ Pending(t, n, j) <=> Pending(s, n, j) /\ i \notin I
        /\ Pending(t, n, j) => t.lq[t.lqIndex[n][j]] = s.lq[i]
        /\ t.sawMem[n][j] = IF Pending(s, n, j) /\ i \in I THEN f[trace[n].loads[j]] ELSE s.sawMem[n][j]
    <3>1. u.lqIndex = s.lqIndex /\ u.lq = s.lq /\ u.sawMem = s.sawMem /\ j \in u.srcAdded[n]
      BY <1>7 DEF LoadsKept, SeenKept
    <3>2. /\ Pending(t, n, j) <=> Pending(u, n, j) /\ u.lqIndex[n][j] \notin I
          /\ Pending(t, n, j) => t.lq[t.lqIndex[n][j]] = u.lq[u.lqIndex[n][j]]
          /\ t.sawMem[n][j] =
               IF Pending(u, n, j) /\ u.lqIndex[n][j] \in I THEN f[trace[n].loads[j]] ELSE u.sawMem[n][j]
      BY SMTT(60), <1>5, <1>6, <1>7, <1>13, <3>1, ReleasedIs
    <3> QED BY <2>2, <2>3, <3>1, <3>2
  <2>5. Pending(s, n, j) => (i \in I <=> s.lq[i].producer = p /\ trace[n].loads[j] = a)
    <3> SUFFICES ASSUME Pending(s, n, j)  PROVE i \in I <=> s.lq[i].producer = p /\ trace[n].loads[j] = a
      OBVIOUS
    <3>1. s.lq[i].id = n /\ s.lq[i].src = j /\ n # 0
      BY <2>2, InstructionIs DEF Pending
    <3> QED BY <1>5, <1>9, <2>2, <3>1 DEF Awaiting, LoadAddr
  <2>6. HasData(t, n, j) <=> HasData(s, n, j) \/ (WaitedFor(s, n, j) = p /\ trace[n].loads[j] = a)
    BY <1>11, <1>12 DEF HasData
  <2>7. CASE Pending(s, n, j) /\ i \in I
    <3>1. WaitedFor(s, n, j) = p /\ trace[n].loads[j] = a
      BY <2>1, <2>2, <2>5, <2>7 DEF Link, Waiting
    <3>2. n \in InRob(s)
      BY <1>0, PendingIs
    <3>3. LastStore(n - 1, a) = p
      BY <1>0, <1>10, <3>1, <3>2, ProducerLast DEF WaitedFor
    <3>4. t.sawMem[n][j] = p
      BY <1>3, <1>9, <1>10, <2>4, <2>7, <3>1
    <3> QED BY <1>12, <2>4, <2>6, <2>7, <3>1, <3>3, <3>4 DEF Link, Given
  <2>8. CASE Pending(s, n, j) /\ i \notin I
    <3>1. Pending(t, n, j) /\ t.lq[t.lqIndex[n][j]].producer = WaitedFor(s, n, j)
      BY <2>1, <2>2, <2>4, <2>8 DEF Link, Waiting
    <3>2. ~(WaitedFor(s, n, j) = p /\ trace[n].loads[j] = a)
      BY <2>1, <2>2, <2>5, <2>8 DEF Link, Waiting
    <3>3. Waiting(s, n, j)
      BY <2>1, <2>8 DEF Link
    <3> QED BY <1>7, <1>8, <1>12, <2>6, <3>1, <3>2, <3>3 DEF Link, Waiting
  <2>9. CASE ~Pending(s, n, j)
    <3>1. Given(s, n, j) /\ ~Pending(t, n, j) /\ t.sawMem[n][j] = s.sawMem[n][j]
      BY <2>1, <2>4, <2>9 DEF Link
    <3> QED BY <1>12, <2>6, <3>1 DEF Link, Given
  <2> QED BY <2>7, <2>8, <2>9
<1>15. Known(t)
  <2>1. InRob(t) = InRob(s)
    BY <1>7, <1>8 DEF OrderKept, InRob
  <2> QED BY <1>1, <1>7, <1>8, <1>12, <2>1 DEF Known
<1>16. LoadPaths(t)
  <2>1. \A i \in I : s.lq[i].producer # 0
    BY <1>5, <1>9, <1>10 DEF Awaiting
  <2>2. u.lq = s.lq
    BY <1>7 DEF LoadsKept
  <2>3. Moving(t) = Moving(s)
    BY <1>5, <1>8, <2>1, <2>2 DEF Moving, LqReleased, NoLoad
  <2> QED BY <1>1, <1>7, <1>8, <2>3 DEF LoadPaths, LoadWayKept
<1>17. MemRead(t)
  <2>1. \A b \in Addr : f[b] \in Nat
    BY <1>3, <1>9, <1>10
  <2> QED BY <1>5, <1>6, <1>7, <1>13, <2>1, MemReadLoaded
<1>18. t.sawRegs = s.sawRegs
  BY <1>7, <1>8 DEF SeenKept
<1> QED BY <1>14, <1>15, <1>16, <1>17, <1>18 DEF LoadsRight
-----------------------------------------------------------------------------
(* retire_rob *)

(* A load that waited for the instruction that retires waits for none.     *)
LEMMA ProducerRetired ==
  ASSUME trace \in Traces, NEW s, NEW t, Rob(s), s.head < s.tail, t.head = s.head + 1, NEW m \in InRob(s), m # s.head + 1,
         NEW a
  PROVE  Producer(t, m, a) = IF Producer(s, m, a) = s.head + 1 THEN 0 ELSE Producer(s, m, a)
<1>1. PICK h \in Nat : h = s.head
  BY DEF Rob
<1>2. m \in Nat /\ h + 1 < m /\ m - 1 \in Nat
  BY SMTT(60), <1>1, InRobIs, InstructionIs DEF Rob
<1>3. PICK A, B : /\ A = {x \in Older(s, m) : a \in Elements(trace[x].stores)}
                  /\ B = {x \in Older(t, m) : a \in Elements(trace[x].stores)}
  OBVIOUS
<1>4. A \in SUBSET (1 .. (m - 1)) /\ B \in SUBSET A /\ \A x \in A : x # h + 1 => x \in B
  BY <1>1, <1>2, <1>3 DEF Older
<1>5. /\ (A = {} <=> YoungestOrNone(A) = 0)
      /\ (A # {} => YoungestOrNone(A) \in A /\ \A k \in A : k <= YoungestOrNone(A))
  BY <1>2, <1>4, YoungestUnique
<1>6. Producer(s, m, a) = YoungestOrNone(A) /\ Producer(t, m, a) = YoungestOrNone(B)
  BY <1>3 DEF Producer
<1>7. CASE YoungestOrNone(A) = h + 1
  <2>1. \A x \in A : x >= h + 1
    BY <1>1, <1>3 DEF Older
  <2>2. A # {} /\ \A x \in A : x <= h + 1
    BY <1>5, <1>7
  <2>3. \A x \in A : x = h + 1
    BY <1>4, <2>1, <2>2
  <2>4. \A x \in B : x > h + 1
    BY <1>1, <1>3 DEF Older
  <2>5. B = {}
    BY <1>4, <2>3, <2>4
  <2> QED BY <1>1, <1>6, <1>7, <2>5 DEF YoungestOrNone
<1>8. CASE YoungestOrNone(A) # h + 1
  <2>1. YoungestOrNone(A) # 0 => YoungestOrNone(A) \in B
    BY <1>4, <1>5, <1>8
  <2>2. YoungestOrNone(B) = YoungestOrNone(A)
    BY <1>2, <1>4, <2>1, YoungestSame
  <2> QED BY <1>1, <1>6, <1>8, <2>2
<1> QED BY <1>7, <1>8

(* What has completed has the data of all its stores in the store queue.   *)
LEMMA CompletedHasData ==
  ASSUME trace \in Traces, NEW s, Queues(s), NEW n \in InRob(s), s.executed[n] = "completed",
         NEW a \in Elements(trace[n].stores)
  PROVE  CanForward(s, n, a)
<1>0. Rob(s) /\ StoreQueue(s) /\ Ops(s) /\ n \in Id /\ n # 0
  BY InRobIs, InstructionIs DEF Queues
<1>1. s.scheduled[n] = "completed"
  BY <1>0 DEF Rob
<1>2. s.dstAdded[n] = DOMAIN trace[n].stores
  BY <1>0, <1>1 DEF Ops
<1>3. PICK d \in DOMAIN trace[n].stores : a = trace[n].stores[d]
  BY DEF Elements
<1>4. PICK k \in SqSlot : s.sq[k].id = n /\ s.sq[k].dst = d
  BY <1>0, <1>2 DEF StoreQueue
<1>5. s.memOps[n] = 0
  BY <1>0 DEF Ops
<1>6. StoresOf(s, n) = {}
  BY <1>0, <1>5, OpsDone
<1>7. s.sq[k].done
  BY <1>4, <1>6 DEF StoresOf
<1> QED BY <1>0, <1>3, <1>4, <1>7 DEF CanForward, StoreAddr

(* The oldest instruction retires: nothing waits for it any more, and it   *)
(* has loaded what it should.                                              *)
LEMMA LoadsRetired ==
  ASSUME trace \in Traces, NEW s, NEW t, NEW n, Queues(s), LoadsRight(s), n = s.head + 1, s.head < s.tail,
         s.executed[n] = "completed", RetiredTo(s, t, n)
  PROVE  LoadsRight(t)
<1>0. Rob(s) /\ LoadQueue(s) /\ StoreQueue(s) /\ Ops(s) /\ s.dependents \in [Id -> SUBSET Id]
  BY DEF Queues
<1>1. Links(s) /\ Known(s) /\ LoadPaths(s) /\ MemRead(s)
  BY DEF LoadsRight
<1>2. /\ LoadWayKept(s, t) /\ t.sawMem = s.sawMem /\ t.head = n /\ t.tail = s.tail /\ t.lq = s.lq
      /\ t.sq = SqRetired(s, n) /\ t.dependents = Put(s.dependents, n, {})
      /\ t.srcAdded = Put(s.srcAdded, n, {}) /\ t.lqIndex = Put(s.lqIndex, n, NoIndex)
      /\ t.dstAdded = Put(s.dstAdded, n, {}) /\ t.sqIndex = Put(s.sqIndex, n, NoIndex) /\ t.sqTail = s.sqTail
  BY DEF RetiredTo, SeenKept
<1>3. n \in InRob(s) /\ n \in Id /\ n # 0 /\ n \in Nat /\ s.head \in Nat
  BY <1>0, InstructionIs DEF Rob, InRob
<1>4. /\ t.dependents[n] = {} /\ \A m \in Id : m # n => t.dependents[m] = s.dependents[m]
      /\ t.srcAdded[n] = {} /\ \A m \in Id : m # n => t.srcAdded[m] = s.srcAdded[m] /\ t.lqIndex[m] = s.lqIndex[m]
  <2>1. DOMAIN s.dependents = Id /\ DOMAIN s.srcAdded = Id /\ DOMAIN s.lqIndex = Id
    BY <1>0 DEF LoadQueue
  <2> QED BY <1>2, <1>3, <2>1 DEF Put
<1>5. \A k \in SqSlot : t.sq[k] = IF s.sq[k].id = n THEN NoStore ELSE s.sq[k]
  BY <1>0, <1>2, StoreQueueRetired
<1>6. \A p, a : p # n /\ p # 0 => (CanForward(t, p, a) <=> CanForward(s, p, a))
  BY <1>5 DEF CanForward, StoreAddr, NoStore
<1>7. InRob(t) = InRob(s) \ {n}
  BY <1>0, <1>2, <1>3 DEF InRob, Rob
<1>8. \A m \in InRob(s) : m # n => \A j : WaitedFor(t, m, j) = IF WaitedFor(s, m, j) = n THEN 0 ELSE WaitedFor(s, m, j)
  BY <1>0, <1>2, ProducerRetired DEF WaitedFor
<1>9. Links(t)
  <2> SUFFICES ASSUME NEW m \in Id, NEW j \in t.srcAdded[m]  PROVE Link(t, m, j)
    BY DEF Links
  <2>1. m # n /\ j \in s.srcAdded[m]
    BY <1>4
  <2>2. Link(s, m, j) /\ m \in InRob(s)
    BY <1>0, <1>1, <2>1, PendingIs DEF Links
  <2>3. /\ Pending(t, m, j) <=> Pending(s, m, j)
        /\ t.lq[t.lqIndex[m][j]] = s.lq[s.lqIndex[m][j]]
    BY <1>2, <1>4, <2>1 DEF Pending
  <2>4. CASE WaitedFor(s, m, j) = n
    <3>1. trace[m].loads[j] \in Elements(trace[n].stores)
      BY <1>0, <1>3, <2>2, <2>4, ProducerIs DEF WaitedFor
    <3>2. HasData(s, m, j)
      BY <1>3, <2>4, <3>1, CompletedHasData DEF HasData
    <3>3. ~Pending(s, m, j) /\ Given(s, m, j)
      BY <1>3, <2>2, <2>4, <3>2 DEF Link, Waiting
    <3>4. WaitedFor(t, m, j) = 0
      BY <1>8, <2>1, <2>2, <2>4
    <3> QED BY <1>2, <2>3, <3>3, <3>4 DEF Link, Given
  <2>5. CASE WaitedFor(s, m, j) # n
    <3>1. WaitedFor(t, m, j) = WaitedFor(s, m, j)
      BY <1>8, <2>1, <2>2, <2>5
    <3>2. CASE WaitedFor(s, m, j) = 0
      <4>1. CASE Pending(s, m, j)
        BY <1>2, <2>2, <2>3, <3>1, <3>2, <4>1 DEF Link, Waiting
      <4>2. CASE ~Pending(s, m, j)
        BY <1>2, <2>2, <2>3, <3>1, <3>2, <4>2 DEF Link, Given
      <4> QED BY <4>1, <4>2
    <3>3. CASE WaitedFor(s, m, j) # 0
      <4>1. HasData(t, m, j) <=> HasData(s, m, j)
        BY <1>6, <2>5, <3>1, <3>3 DEF HasData
      <4>2. WaitedFor(s, m, j) \in Id
        BY <1>0, <2>2, <3>3, ProducerIs DEF WaitedFor
      <4>3. t.dependents[WaitedFor(s, m, j)] = s.dependents[WaitedFor(s, m, j)]
        BY <1>4, <2>5, <4>2
      <4>4. LinkFixed(s, t, m, j)
        BY <1>2, <2>3, <3>1, <4>1, <4>3 DEF LinkFixed
      <4> QED BY <2>2, <4>4, LinkKept
    <3> QED BY <3>2, <3>3
  <2> QED BY <2>4, <2>5
<1>10. Known(t)
  <2> SUFFICES ASSUME NEW p \in Id, NEW m \in t.dependents[p]
               PROVE  m \in InRob(t) /\ \E j \in DOMAIN trace[m].loads : p = WaitedFor(t, m, j)
    BY DEF Known
  <2>1. p # n /\ m \in s.dependents[p] /\ p # 0
    BY <1>4, InstructionIs
  <2>2. m \in InRob(s)
    BY <1>1, <2>1 DEF Known
  <2>3. PICK j \in DOMAIN trace[m].loads : p = WaitedFor(s, m, j)
    BY <1>1, <2>1 DEF Known
  <2>4. m # n
    <3>1. p \in Older(s, m)
      BY <1>0, <2>1, <2>2, <2>3, ProducerIs DEF WaitedFor
    <3> QED BY <1>3, <3>1 DEF Older
  <2> QED BY <1>7, <1>8, <2>1, <2>2, <2>3, <2>4
<1>11. LoadPaths(t)
  BY <1>1, <1>2, LoadPathsKept
<1>12. MemRead(t)
  <2>1. ASSUME NEW j \in DOMAIN trace[n].loads  PROVE s.sawMem[n][j] = LastStore(n - 1, trace[n].loads[j])
    <3>1. s.scheduled[n] = "completed"
      BY <1>0, <1>3 DEF Rob
    <3>2. j \in s.srcAdded[n]
      BY <1>0, <1>3, <3>1 DEF Ops
    <3>3. s.memOps[n] = 0
      BY <1>0, <1>3 DEF Ops
    <3>4. LoadsOf(s, n) = {}
      BY <1>0, <1>3, <3>3, OpsDone
    <3>5. ~Pending(s, n, j)
      BY <1>0, <1>3, <3>2, <3>4, PendingIs DEF Pending, LoadsOf
    <3> QED BY <1>1, <1>3, <3>2, <3>5 DEF Links, Link, Given
  <2>2. \A m \in Id : m <= t.head => m <= s.head \/ m = n
    BY <1>2, <1>3, InstructionIs
  <2> QED BY <1>1, <1>2, <2>1, <2>2 DEF MemRead
<1> QED BY <1>9, <1>10, <1>11, <1>12 DEF LoadsRight

(* ... and its stores are in memory. *)
LEMMA MemoryRetired ==
  ASSUME NEW s, NEW t, NEW mem, NEW n, s.head \in Nat, n = s.head + 1, t.head = n, MemoryRight(s, mem)
  PROVE  MemoryRight(t, [a \in Addr |-> IF a \in Elements(trace[n].stores) THEN n ELSE mem[a]])
<1>1. \A a \in Addr : LastStore(n, a) = IF a \in Elements(trace[n].stores) THEN n ELSE LastStore(s.head, a)
  BY LastStoreNext
<1> QED BY <1>1 DEF MemoryRight
-----------------------------------------------------------------------------
(* Registers. *)

(* What instruction n reads, and that it is woken for what it cannot read  *)
(* yet.                                                                    *)
RegsSeen(s, n) == \A r \in trace[n].reads : s.sawRegs[n][r] = LastWrite(n - 1, r)
Woken(s, n, r) ==
  LastWrite(n - 1, r) # 0 => s.executed[LastWrite(n - 1, r)] = "completed" \/ Wakes(s, LastWrite(n - 1, r), n, r)
SawRegsAre(s) == DOMAIN s.sawRegs = Id /\ \A n \in Id : s.sawRegs[n] \in [trace[n].reads -> Nat]
RegsRight(s) ==
  /\ SawRegsAre(s)
  /\ \A n \in Id : s.scheduled[n] # "no" => \A r \in trace[n].reads : Woken(s, n, r)
  /\ \A n \in Id : s.executed[n] # "no" => RegsSeen(s, n)

(* Handlers that have nothing to do with registers.                        *)
LEMMA RegsKeptRight ==
  ASSUME NEW s, NEW t, RegsRight(s), StatusKept(s, t), RegsKept(s, t), t.sawRegs = s.sawRegs
  PROVE  RegsRight(t)
BY DEF RegsRight, SawRegsAre, StatusKept, RegsKept, Woken, Wakes, RegsSeen

(* The youngest writer before n is in the program.                         *)
LEMMA LastWriteIs ==
  ASSUME trace \in Traces, NEW n \in Id, NEW r
  PROVE  /\ LastWrite(n - 1, r) \in 0 .. (n - 1) /\ LastWrite(n - 1, r) \in Id \cup {0}
         /\ LastWrite(n - 1, r) # 0 => r \in trace[LastWrite(n - 1, r)].writes
         /\ \A m \in 1 .. (n - 1) : r \in trace[m].writes => LastWrite(n - 1, r) # 0 /\ m <= LastWrite(n - 1, r)
<1>1. n \in Nat /\ n # 0 /\ n - 1 \in Nat
  BY InstructionIs
<1>2. /\ LastWrite(n - 1, r) \in 0 .. (n - 1)
      /\ LastWrite(n - 1, r) # 0 => r \in trace[LastWrite(n - 1, r)].writes
      /\ \A m \in 1 .. (n - 1) : r \in trace[m].writes => LastWrite(n - 1, r) # 0 /\ m <= LastWrite(n - 1, r)
  BY <1>1, LastWriteNext
<1>3. 0 .. (n - 1) \subseteq Id \cup {0}
  BY <1>1, InstructionIs
<1> QED BY <1>2, <1>3

(* It is who wakes n, unless it has completed.                             *)
LEMMA RegsScheduled ==
  ASSUME trace \in Traces, NEW s, NEW t, Rob(s), RegsRight(s), NEW n \in InRob(s), s.scheduled[n] = "no", ScheduledTo(s, t, n)
  PROVE  RegsRight(t)
<1>1. /\ t.executed = s.executed /\ t.sawRegs = s.sawRegs /\ t.wakes = WakesScheduled(s, n)
      /\ t.scheduled = Put(s.scheduled, n, IF IsMemory(n) THEN "inflight" ELSE "completed")
  BY DEF ScheduledTo, SeenKept
<1>2. n \in Id /\ n \in Nat /\ s.head \in Nat /\ s.head < n
  BY InRobIs, InstructionIs DEF Rob
<1>3. \A m \in Id : m # n => t.scheduled[m] = s.scheduled[m]
  BY <1>1 DEF Put, Rob
<1>4. \A m, k \in Id : \A r : Wakes(s, m, k, r) => Wakes(t, m, k, r)
  BY <1>1 DEF Wakes, WakesScheduled
<1>5. ASSUME NEW r \in trace[n].reads  PROVE Woken(t, n, r)
  <2>1. PICK w : w = LastWrite(n - 1, r)
    OBVIOUS
  <2>2. w \in 0 .. (n - 1) /\ w \in Id \cup {0} /\ (w # 0 => r \in trace[w].writes)
        /\ \A m \in 1 .. (n - 1) : r \in trace[m].writes => m <= w
    BY <1>2, <2>1, LastWriteIs
  <2> SUFFICES ASSUME w # 0, s.executed[w] # "completed"  PROVE Wakes(t, w, n, r)
    BY <1>1, <2>1 DEF Woken
  <2>3. w \in Writers(s, n, r)
    <3>1. ~(w <= s.head)
      BY <2>2 DEF Rob
    <3> QED BY <1>2, <2>2, <3>1 DEF Writers, Older
  <2>4. PICK p : p = RegProducer(s, n, r)
    OBVIOUS
  <2>5. p \in 0 .. (n - 1) /\ p # 0 /\ w <= p /\ p \in Writers(s, n, r)
    BY <2>3, <2>4, RegProducerIs
  <2>6. p <= w
    BY <1>2, <2>2, <2>5 DEF Writers, Older
  <2>7. p = w
    BY <2>2, <2>5, <2>6
  <2>8. r \in RegsAwaited(s, n)
    BY <2>4, <2>5 DEF RegsAwaited
  <2> QED BY ZenonT(60), <1>1, <2>2, <2>4, <2>7, <2>8 DEF Wakes, WakesScheduled
<1>6. ASSUME NEW m \in Id, t.scheduled[m] # "no", NEW r \in trace[m].reads  PROVE Woken(t, m, r)
  <2>1. CASE m = n
    BY <1>5, <2>1
  <2>2. CASE m # n
    <3>1. Woken(s, m, r)
      BY <1>3, <1>6, <2>2 DEF RegsRight
    <3>2. LastWrite(m - 1, r) \in Id \cup {0}
      BY LastWriteIs
    <3> QED BY <1>1, <1>4, <3>1, <3>2 DEF Woken
  <2> QED BY <2>1, <2>2
<1> QED BY <1>1, <1>6 DEF RegsRight, SawRegsAre, RegsSeen

(* The more has completed, the fewer are waited for.                       *)
LEMMA RegsCompleted ==
  ASSUME trace \in Traces, NEW s, NEW t, Rob(s), RegsRight(s), NEW n \in InRob(s), s.executed[n] = "inflight",
         CompletedTo(s, t, n)
  PROVE  RegsRight(t)
<1>1. /\ t.scheduled = s.scheduled /\ t.wakes = s.wakes /\ t.sawRegs = s.sawRegs
      /\ t.executed = Put(s.executed, n, "completed")
  BY DEF CompletedTo, SeenKept
<1>2. n \in Id /\ t.executed[n] = "completed" /\ \A m \in Id : m # n => t.executed[m] = s.executed[m]
  BY <1>1, InRobIs DEF Put, Rob
<1>3. ASSUME NEW m \in Id, s.scheduled[m] # "no", NEW r \in trace[m].reads  PROVE Woken(t, m, r)
  <2>1. Woken(s, m, r)
    BY <1>3 DEF RegsRight
  <2>2. LastWrite(m - 1, r) \in Id \cup {0}
    BY LastWriteIs
  <2> QED BY <1>1, <1>2, <2>1, <2>2 DEF Woken, Wakes
<1>4. \A m \in Id : t.executed[m] # "no" => s.executed[m] # "no"
  BY <1>2
<1> QED BY <1>1, <1>3, <1>4 DEF RegsRight, SawRegsAre, RegsSeen

(* What retires has completed, so that nothing waits for it.               *)
LEMMA RegsRetired ==
  ASSUME trace \in Traces, NEW s, NEW t, NEW n, RegsRight(s), s.executed[n] = "completed", RetiredTo(s, t, n)
  PROVE  RegsRight(t)
<1>1. StatusKept(s, t) /\ t.sawRegs = s.sawRegs /\ t.wakes = Put(s.wakes, n, {})
  BY DEF RetiredTo, SeenKept
<1>2. \A m, k, r : m # n /\ Wakes(s, m, k, r) => Wakes(t, m, k, r)
  BY <1>1 DEF Wakes, Put
<1>3. ASSUME NEW m \in Id, NEW r, Woken(s, m, r)  PROVE Woken(t, m, r)
  BY <1>1, <1>2, <1>3 DEF Woken, StatusKept
<1> QED BY <1>1, <1>3 DEF RegsRight, SawRegsAre, RegsSeen, StatusKept

(* An instruction that is ready reads what its youngest older writers have *)
(* written, and all of them have.                                          *)
LEMMA RegsAreRead ==
  ASSUME trace \in Traces, NEW s, NEW t, Rob(s), Registers(s), RegsRight(s), NEW n \in InRob(s), RegReady(s, n),
         s.executed[n] = "no", RegsReadTo(s, t, n)
  PROVE  RegsRight(t) /\ RegsSeen(t, n)
<1>1. StatusKept(s, t) /\ RegsKept(s, t) /\ t.sawRegs = Put(s.sawRegs, n, RegsRead(s, n))
  BY DEF RegsReadTo
<1>2. n \in Id /\ n \in Nat /\ n - 1 \in Nat /\ s.scheduled[n] # "no" /\ trace[n].reads \subseteq Reg
  BY InRobIs, InstructionIs DEF RegReady
<1>3. AwaitedRegs(s, n) = {}
  <2>1. s.regDeps[n] = Cardinality(AwaitedRegs(s, n)) /\ s.regDeps[n] = 0
    BY <1>2 DEF Registers, RegReady
  <2> QED BY <2>1, AwaitedFinite, FS_EmptySet
<1>4. ASSUME NEW r \in trace[n].reads  PROVE RegValue(s, n, r) = LastWrite(n - 1, r)
  <2>1. PICK A, B : /\ A = {m \in 1 .. (n - 1) : r \in trace[m].writes /\ (m <= s.head \/ s.executed[m] = "completed")}
                    /\ B = WriteSet(1, n - 1, r)
    OBVIOUS
  <2>2. RegValue(s, n, r) = YoungestOrNone(A) /\ LastWrite(n - 1, r) = YoungestOrNone(B)
    BY <2>1 DEF RegValue, LastWrite
  <2>3. B \in SUBSET (1 .. (n - 1)) /\ A \in SUBSET B
    BY <2>1 DEF WriteSet
  <2>4. ASSUME YoungestOrNone(B) # 0  PROVE YoungestOrNone(B) \in A
    <3>1. PICK w : w = LastWrite(n - 1, r)
      OBVIOUS
    <3>2. w \in 0 .. (n - 1) /\ w \in Id \cup {0} /\ (w # 0 => r \in trace[w].writes)
      BY <1>2, <3>1, LastWriteIs
    <3>3. w # 0
      BY <2>2, <2>4, <3>1
    <3>4. Woken(s, n, r)
      BY <1>2 DEF RegsRight
    <3>5. s.executed[w] = "completed"
      BY <1>2, <1>3, <3>1, <3>2, <3>3, <3>4 DEF Woken, AwaitedRegs
    <3>6. w \in 1 .. (n - 1)
      BY <1>2, <3>2, <3>3
    <3> QED BY <2>1, <2>2, <3>1, <3>2, <3>3, <3>5, <3>6
  <2>5. YoungestOrNone(A) = YoungestOrNone(B)
    BY <1>2, <2>3, <2>4, YoungestSame
  <2> QED BY <2>2, <2>5
<1>5. \A r \in trace[n].reads : LastWrite(n - 1, r) \in Nat
  BY <1>2, LastWriteIs
<1>6. DOMAIN t.sawRegs = Id /\ t.sawRegs[n] = RegsRead(s, n) /\ \A m \in Id : m # n => t.sawRegs[m] = s.sawRegs[m]
  BY <1>1, <1>2 DEF RegsRight, SawRegsAre, Put
<1>7. t.sawRegs[n] \in [trace[n].reads -> Nat] /\ RegsSeen(t, n)
  BY <1>4, <1>5, <1>6 DEF RegsRead, RegsSeen
<1>8. SawRegsAre(t)
  BY <1>6, <1>7 DEF RegsRight, SawRegsAre
<1>9. \A m \in Id : t.scheduled[m] # "no" => \A r \in trace[m].reads : Woken(t, m, r)
  BY <1>1 DEF RegsRight, StatusKept, RegsKept, Woken, Wakes
<1>10. \A m \in Id : t.executed[m] # "no" => RegsSeen(t, m)
  BY <1>1, <1>6, <1>7 DEF RegsRight, StatusKept, RegsSeen
<1> QED BY <1>7, <1>8, <1>9, <1>10 DEF RegsRight

(* ... and starts to execute with that.                                    *)
LEMMA RegsBegun ==
  ASSUME trace \in Traces, NEW s, NEW t, Rob(s), RegsRight(s), NEW n \in InRob(s), RegReady(s, n), RegsSeen(s, n),
         s.executed[n] = "no", BegunTo(s, t, n)
  PROVE  RegsRight(t)
<1>1. /\ RegsKept(s, t) /\ t.sawRegs = s.sawRegs
      /\ t.scheduled = Put(s.scheduled, n, "completed") /\ t.executed = Put(s.executed, n, "inflight")
  BY DEF BegunTo, SeenKept
<1>2. n \in Id /\ s.scheduled[n] # "no"
  BY InRobIs DEF RegReady
<1>3. /\ t.executed[n] = "inflight"
      /\ \A m \in Id : m # n => t.executed[m] = s.executed[m] /\ t.scheduled[m] = s.scheduled[m]
  BY <1>1, <1>2 DEF Put, Rob
<1>4. ASSUME NEW m \in Id, t.scheduled[m] # "no", NEW r \in trace[m].reads  PROVE Woken(t, m, r)
  <2>1. Woken(s, m, r)
    BY <1>2, <1>3, <1>4 DEF RegsRight
  <2>2. LastWrite(m - 1, r) \in Id \cup {0}
    BY LastWriteIs
  <2> QED BY <1>1, <1>3, <2>1, <2>2 DEF Woken, Wakes, RegsKept
<1>5. \A m \in Id : t.executed[m] # "no" => RegsSeen(t, m)
  BY <1>1, <1>3 DEF RegsRight, RegsSeen
<1> QED BY <1>1, <1>4, <1>5 DEF RegsRight, SawRegsAre
-----------------------------------------------------------------------------
(* The handlers. *)

(* A handler that does nothing about loads and stores.                     *)
LEMMA LoadsUntouched ==
  ASSUME trace \in Traces, NEW s, NEW t, Rob(s), LoadsRight(s), t.head = s.head, t.tail \in {s.tail, s.tail + 1},
         LoadsKept(s, t), LoadWayKept(s, t), t.sq = s.sq, t.dependents = s.dependents, t.sawMem = s.sawMem
  PROVE  LoadsRight(t)
<1>1. SameData(s, t)
  BY SameQueue
<1>2. LoadPaths(t)
  BY LoadPathsKept DEF LoadsRight, LoadsKept
<1> QED BY <1>1, <1>2, LoadsKeptRight

(* On the way through do_memory_scheduling.                                *)
Trying(s, t, n) ==
  /\ Queues(t) /\ LoadsRight(t) /\ RegsRight(t) /\ RegsSeen(t, n)
  /\ OrderKept(s, t) /\ StatusKept(s, t) /\ RegsKept(s, t)

(* It reads the registers, ...                                             *)
LEMMA TryingRegs ==
  ASSUME trace \in Traces, NEW s, NEW t, Queues(s), LoadsRight(s), RegsRight(s), NEW n \in InRob(s), RegReady(s, n),
         s.executed[n] = "no", t = ReadsRegs(s, n)
  PROVE  Trying(s, t, n)
<1>0. Shaped(s) /\ Rob(s) /\ Registers(s)
  BY DEF Queues
<1>1. RegsReadTo(s, t, n)
  BY <1>0, ReadsRegsIs
<1>2. /\ OrderKept(s, t) /\ StatusKept(s, t) /\ RegsKept(s, t) /\ LoadsKept(s, t) /\ StoresKept(s, t)
      /\ LoadWayKept(s, t) /\ t.dependents = s.dependents /\ t.sawMem = s.sawMem
  BY <1>1 DEF RegsReadTo
<1>3. t.head = s.head /\ t.tail = s.tail /\ t.sq = s.sq
  BY <1>2 DEF OrderKept, StoresKept
<1>4. LoadsRight(t)
  BY <1>0, <1>2, <1>3, LoadsUntouched
<1>5. RegsRight(t) /\ RegsSeen(t, n)
  BY <1>0, <1>1, RegsAreRead
<1>6. Queues(t)
  BY <1>1, QueuesRegsRead
<1> QED BY <1>2, <1>4, <1>5, <1>6 DEF Trying

(* ... adds a source ...                                                   *)
LEMMA TryingLoad ==
  ASSUME trace \in Traces, NEW s, NEW x, NEW t, NEW n \in InRob(s), s.scheduled[n] = "inflight", Trying(s, x, n), NEW j,
         t = AddLoad(x, n, j)
  PROVE  Trying(s, t, n)
<1>1. /\ Queues(x) /\ LoadsRight(x) /\ RegsRight(x) /\ RegsSeen(x, n)
      /\ OrderKept(s, x) /\ StatusKept(s, x) /\ RegsKept(s, x)
  BY DEF Trying
<1>2. n \in InRob(x) /\ x.scheduled[n] = "inflight"
  BY <1>1 DEF OrderKept, StatusKept, InRob
<1>3. Queues(t) /\ OrderKept(x, t) /\ StatusKept(x, t) /\ RegsKept(x, t)
  BY <1>1, <1>2, QueuesAddLoad
<1>4. LoadsRight(t) /\ t.sawRegs = x.sawRegs
  BY <1>1, <1>2, LoadsAdded
<1>5. RegsRight(t) /\ RegsSeen(t, n)
  BY <1>1, <1>3, <1>4, RegsKeptRight DEF RegsSeen
<1>6. OrderKept(s, t) /\ StatusKept(s, t) /\ RegsKept(s, t)
  BY <1>1, <1>3 DEF OrderKept, StatusKept, RegsKept
<1> QED BY <1>3, <1>4, <1>5, <1>6 DEF Trying

(* ... or a destination.                                                   *)
LEMMA TryingStore ==
  ASSUME trace \in Traces, NEW s, NEW x, NEW t, NEW n \in InRob(s), s.scheduled[n] = "inflight", Trying(s, x, n), NEW d,
         t = AddStore(x, n, d)
  PROVE  Trying(s, t, n)
<1>1. /\ Queues(x) /\ LoadsRight(x) /\ RegsRight(x) /\ RegsSeen(x, n)
      /\ OrderKept(s, x) /\ StatusKept(s, x) /\ RegsKept(s, x)
  BY DEF Trying
<1>2. n \in InRob(x) /\ x.scheduled[n] = "inflight"
  BY <1>1 DEF OrderKept, StatusKept, InRob
<1>3. Queues(t) /\ OrderKept(x, t) /\ StatusKept(x, t) /\ RegsKept(x, t)
  BY <1>1, <1>2, QueuesAddStore
<1>4. LoadsRight(t) /\ t.sawRegs = x.sawRegs
  BY <1>1, <1>2, LoadsStoreAdded
<1>5. RegsRight(t) /\ RegsSeen(t, n)
  BY <1>1, <1>3, <1>4, RegsKeptRight DEF RegsSeen
<1>6. OrderKept(s, t) /\ StatusKept(s, t) /\ RegsKept(s, t)
  BY <1>1, <1>3 DEF OrderKept, StatusKept, RegsKept
<1> QED BY <1>3, <1>4, <1>5, <1>6 DEF Trying

(* An instruction that has read its registers starts to execute.           *)
LEMMA OrderBegun ==
  ASSUME trace \in Traces, NEW s, NEW t, Queues(s), LoadsRight(s), RegsRight(s), NEW n \in InRob(s), RegReady(s, n),
         RegsSeen(s, n), s.executed[n] = "no", BegunTo(s, t, n)
  PROVE  LoadsRight(t) /\ RegsRight(t) /\ t.head = s.head
<1>0. Rob(s)
  BY DEF Queues
<1>1. /\ LoadsKept(s, t) /\ LoadWayKept(s, t) /\ t.dependents = s.dependents
      /\ t.head = s.head /\ t.tail = s.tail /\ t.sq = s.sq /\ t.sawMem = s.sawMem
  BY DEF BegunTo, OrderKept, StoresKept, SeenKept
<1>2. LoadsRight(t)
  BY <1>0, <1>1, LoadsUntouched
<1> QED BY <1>0, <1>1, <1>2, RegsBegun

(* do_memory_scheduling                                                    *)
LEMMA OrderMemScheduled ==
  ASSUME trace \in Traces, NEW s, NEW t, Queues(s), LoadsRight(s), RegsRight(s), NEW n \in InRob(s), RegReady(s, n),
         s.scheduled[n] = "inflight", t = MemScheduled(s, n)
  PROVE  LoadsRight(t) /\ RegsRight(t) /\ t.head = s.head
<1>0. s.executed[n] = "no"
  <2>1. Rob(s) /\ n \in Id
    BY InRobIs DEF Queues
  <2> QED BY <2>1 DEF Rob, Status
<1>1. PICK r : r = ReadsRegs(s, n)
  OBVIOUS
<1>2. PICK a : a = AddLoad(r, n, 1)
  OBVIOUS
<1>3. PICK b : b = AddLoad(a, n, 2)
  OBVIOUS
<1>4. PICK c : c = AddStore(b, n, 1)
  OBVIOUS
<1>5. PICK e : e = AddStore(c, n, 2)
  OBVIOUS
<1>6. t = IF e.srcAdded[n] = DOMAIN trace[n].loads /\ e.dstAdded[n] = DOMAIN trace[n].stores THEN Begun(e, n) ELSE e
  BY <1>1, <1>2, <1>3, <1>4, <1>5 DEF MemScheduled, Begun
<1>7. Trying(s, r, n)
  BY <1>0, <1>1, TryingRegs
<1>8. Trying(s, a, n)
  BY <1>2, <1>7, TryingLoad
<1>9. Trying(s, b, n)
  BY <1>3, <1>8, TryingLoad
<1>10. Trying(s, c, n)
  BY <1>4, <1>9, TryingStore
<1>11. Trying(s, e, n)
  BY <1>5, <1>10, TryingStore
<1>12. /\ Queues(e) /\ LoadsRight(e) /\ RegsRight(e) /\ RegsSeen(e, n) /\ e.head = s.head
       /\ n \in InRob(e) /\ RegReady(e, n) /\ e.executed[n] = "no"
  BY <1>0, <1>11 DEF Trying, OrderKept, StatusKept, RegsKept, InRob, RegReady
<1>13. CASE e.srcAdded[n] = DOMAIN trace[n].loads /\ e.dstAdded[n] = DOMAIN trace[n].stores
  <2>1. BegunTo(e, t, n)
    BY <1>6, <1>12, <1>13, BegunIs DEF Queues
  <2>2. LoadsRight(t) /\ RegsRight(t) /\ t.head = e.head
    BY <1>12, <2>1, OrderBegun
  <2> QED BY <1>12, <2>2
<1>14. CASE ~(e.srcAdded[n] = DOMAIN trace[n].loads /\ e.dstAdded[n] = DOMAIN trace[n].stores)
  BY <1>6, <1>12, <1>14
<1> QED BY <1>13, <1>14

(* execute_instruction                                                     *)
LEMMA OrderExecuted ==
  ASSUME trace \in Traces, NEW s, NEW t, Queues(s), LoadsRight(s), RegsRight(s), NEW n \in InRob(s), ~IsMemory(n),
         RegReady(s, n), s.executed[n] = "no", t = [ReadsRegs(s, n) EXCEPT !.executed[n] = "inflight"]
  PROVE  LoadsRight(t) /\ RegsRight(t) /\ t.head = s.head
<1>1. PICK r : r = ReadsRegs(s, n)
  OBVIOUS
<1>2. Trying(s, r, n)
  BY <1>1, TryingRegs
<1>3. /\ Queues(r) /\ LoadsRight(r) /\ RegsRight(r) /\ RegsSeen(r, n) /\ r.head = s.head
      /\ n \in InRob(r) /\ RegReady(r, n) /\ r.executed[n] = "no"
  BY <1>2 DEF Trying, OrderKept, StatusKept, RegsKept, InRob, RegReady
<1>4. Shaped(r) /\ Rob(r) /\ n \in Id
  BY <1>3, InRobIs DEF Queues
<1>5. r.scheduled[n] = "completed"
  BY <1>3, <1>4 DEF Rob, RegReady, Status
<1>6. Put(r.scheduled, n, "completed") = r.scheduled
  <2>1. r.scheduled \in [Id -> Status]
    BY <1>4 DEF Rob
  <2> QED BY <1>5, <2>1 DEF Put
<1>7. BegunTo(r, t, n)
  <2>1. t = [r EXCEPT !.executed[n] = "inflight"]
    BY <1>1
  <2>2. t.executed = Put(r.executed, n, "inflight") /\ t.scheduled = r.scheduled
    BY <1>4, <2>1 DEF Put, Shaped, Fields
  <2> QED BY <1>4, <1>6, <2>1, <2>2 DEF BegunTo, Shaped, Fields, OrderKept, RegsKept, LoadsKept, StoresKept, LoadWayKept,
                                      StoreWayKept, SeenKept
<1>8. LoadsRight(t) /\ RegsRight(t) /\ t.head = r.head
  BY <1>3, <1>7, OrderBegun
<1> QED BY <1>3, <1>8

(* The next instruction enters the ROB.                                    *)
LEMMA OrderFetched ==
  ASSUME trace \in Traces, NEW s, NEW t, Queues(s), LoadsRight(s), RegsRight(s), FetchedTo(s, t)
  PROVE  LoadsRight(t) /\ RegsRight(t) /\ t.head = s.head
<1>1. /\ StatusKept(s, t) /\ RegsKept(s, t) /\ LoadsKept(s, t) /\ LoadWayKept(s, t) /\ t.sq = s.sq
      /\ t.dependents = s.dependents /\ t.head = s.head /\ t.tail = s.tail + 1
      /\ t.sawRegs = s.sawRegs /\ t.sawMem = s.sawMem
  BY DEF FetchedTo, SeenKept
<1>2. LoadsRight(t)
  BY <1>1, LoadsUntouched DEF Queues
<1> QED BY <1>1, <1>2, RegsKeptRight

(* do_scheduling                                                           *)
LEMMA OrderScheduled ==
  ASSUME trace \in Traces, NEW s, NEW t, Queues(s), LoadsRight(s), RegsRight(s), NEW n \in InRob(s),
         s.scheduled[n] = "no", ScheduledTo(s, t, n)
  PROVE  LoadsRight(t) /\ RegsRight(t) /\ t.head = s.head
<1>1. /\ LoadsKept(s, t) /\ LoadWayKept(s, t) /\ t.sq = s.sq
      /\ t.dependents = s.dependents /\ t.head = s.head /\ t.tail = s.tail /\ t.sawMem = s.sawMem
  BY DEF ScheduledTo, SeenKept, OrderKept, StoresKept
<1>2. LoadsRight(t)
  BY <1>1, LoadsUntouched DEF Queues
<1> QED BY <1>1, <1>2, RegsScheduled DEF Queues

(* complete_execution                                                      *)
LEMMA OrderCompleted ==
  ASSUME trace \in Traces, NEW s, NEW t, Queues(s), LoadsRight(s), RegsRight(s), NEW n \in InRob(s),
         s.executed[n] = "inflight", CompletedTo(s, t, n)
  PROVE  LoadsRight(t) /\ RegsRight(t) /\ t.head = s.head
<1>1. /\ LoadsKept(s, t) /\ LoadWayKept(s, t) /\ t.sq = s.sq
      /\ t.dependents = s.dependents /\ t.head = s.head /\ t.tail = s.tail /\ t.sawMem = s.sawMem
  BY DEF CompletedTo, SeenKept, OrderKept, StoresKept
<1>2. LoadsRight(t)
  BY <1>1, LoadsUntouched DEF Queues
<1> QED BY <1>1, <1>2, RegsCompleted DEF Queues

(* Loads and stores that move on to their next stage.                      *)
LEMMA OrderMoved ==
  ASSUME trace \in Traces, NEW s, NEW t, Queues(s), LoadsRight(s), RegsRight(s), StagesOnly(s, t), SeenKept(s, t),
         LoadPaths(t)
  PROVE  LoadsRight(t) /\ RegsRight(t) /\ t.head = s.head
<1>1. /\ StatusKept(s, t) /\ RegsKept(s, t) /\ LoadsKept(s, t) /\ t.sq = s.sq
      /\ t.dependents = s.dependents /\ t.head = s.head /\ t.tail = s.tail
      /\ t.sawRegs = s.sawRegs /\ t.sawMem = s.sawMem
  BY DEF StagesOnly, SeenKept, OrderKept, StoresKept
<1>2. SameData(s, t)
  BY <1>1, SameQueue
<1>3. LoadsRight(t)
  BY <1>1, <1>2, LoadsKeptRight DEF Queues
<1> QED BY <1>1, <1>3, RegsKeptRight
-----------------------------------------------------------------------------
(* The steps. *)

OrderRight(s, mem) == LoadsRight(s) /\ RegsRight(s) /\ MemoryRight(s, mem)

(* What holds of a state t and a memory holds after the step to them.      *)
LEMMA OrderReached ==
  ASSUME NEW t, NEW mem, core' = t, trace' = trace, memory' = mem, OrderRight(t, mem)
  PROVE  OrderRight(core, memory)'
<1>0. Links(t) /\ Known(t) /\ LoadPaths(t) /\ MemRead(t) /\ RegsRight(t) /\ MemoryRight(t, mem)
  BY DEF OrderRight, LoadsRight
<1>1. \A n, a : LastStore(n, a)' = LastStore(n, a)
  BY DEF LastStore, StoreSet, YoungestOrNone, Youngest, Elements
<1>2. \A n, j : WaitedFor(core, n, j)' = WaitedFor(t, n, j)
  BY DEF WaitedFor, Producer, Older, YoungestOrNone, Youngest, Elements
<1>3. \A n, j : HasData(core, n, j)' <=> HasData(t, n, j)
  BY <1>2 DEF HasData, CanForward, StoreAddr, SqSlot
<1>4. \A n, j : Pending(core, n, j)' <=> Pending(t, n, j)
  BY DEF Pending
<1>5. Links(core)'
  <2>1. \A n, j : Waiting(t, n, j) => Waiting(core, n, j)'
    BY <1>2, <1>3 DEF Waiting
  <2>2. \A n, j : Given(t, n, j) => Given(core, n, j)'
    BY <1>1, <1>2, <1>3 DEF Given
  <2>3. \A n, j : Link(t, n, j) => Link(core, n, j)'
    BY <1>4, <2>1, <2>2 DEF Link
  <2> QED BY <1>0, <2>3 DEF Links, Id
<1>6. Known(core)'
  BY <1>0, <1>2 DEF Known, Id, InRob
<1>7. LoadPaths(core)'
  BY <1>0 DEF LoadPaths, Moving, LqSlot
<1>8. MemRead(core)'
  BY <1>0, <1>1 DEF MemRead, Id
<1>9. RegsRight(core)'
  <2>1. \A n, r : LastWrite(n, r)' = LastWrite(n, r)
    BY DEF LastWrite, WriteSet, YoungestOrNone, Youngest
  <2>2. SawRegsAre(core)'
    BY <1>0 DEF RegsRight, SawRegsAre, Id
  <2>3. \A n, r : Woken(t, n, r) => Woken(core, n, r)'
    BY <2>1 DEF Woken, Wakes
  <2>4. \A n : RegsSeen(t, n) => RegsSeen(core, n)'
    BY <2>1 DEF RegsSeen
  <2> QED BY <1>0, <2>2, <2>3, <2>4 DEF RegsRight, Id
<1>10. MemoryRight(core, memory)'
  BY <1>0, <1>1 DEF MemoryRight
<1> QED BY <1>5, <1>6, <1>7, <1>8, <1>9, <1>10 DEF OrderRight, LoadsRight

(* Before the first instruction nobody has read anything.                  *)
LEMMA OrderInit ==
  ASSUME Init
  PROVE  OrderRight(core, memory)
<1>0. trace \in Traces
  BY DEF Init
<1>1. /\ core.head = 0 /\ core.scheduled = [n \in Id |-> "no"] /\ core.executed = [n \in Id |-> "no"]
      /\ core.dependents = [n \in Id |-> {}] /\ core.srcAdded = [n \in Id |-> {}]
      /\ core.lq = [i \in LqSlot |-> NoLoad]
      /\ core.rtl0 = {} /\ core.dtlbL = {} /\ core.rtl1 = {} /\ core.l1d = {}
      /\ core.sawRegs = [n \in Id |-> [r \in trace[n].reads |-> 0]]
      /\ core.sawMem = [n \in Id |-> [j \in DOMAIN trace[n].loads |-> 0]]
  BY DEF Init, Start
<1>2. \A n \in Id : ~(n <= core.head)
  BY <1>0, <1>1, InstructionIs
<1>3. Links(core) /\ Known(core)
  BY <1>1 DEF Links, Known
<1>4. LoadPaths(core)
  BY <1>1 DEF LoadPaths, Moving, NoLoad
<1>5. MemRead(core)
  <2>1. \A n \in Id : core.sawMem[n] = [j \in DOMAIN trace[n].loads |-> 0]
    BY <1>1
  <2>2. DOMAIN core.sawMem = Id
    BY <1>1
  <2>3. ASSUME NEW n \in Id  PROVE core.sawMem[n] \in [DOMAIN trace[n].loads -> Nat]
    <3>1. PICK D : D = DOMAIN trace[n].loads
      OBVIOUS
    <3>2. core.sawMem[n] = [j \in D |-> 0] /\ 0 \in Nat
      BY <2>1, <3>1
    <3> QED BY <3>1, <3>2
  <2> QED BY <1>2, <2>2, <2>3 DEF MemRead
<1>6. RegsRight(core)
  BY <1>1 DEF RegsRight, SawRegsAre
<1>7. MemoryRight(core, memory)
  <2>1. \A a : LastStore(0, a) = 0
    BY LastStoreNext
  <2> QED BY <1>1, <2>1 DEF MemoryRight, Init
<1> QED BY <1>3, <1>4, <1>5, <1>6, <1>7 DEF OrderRight, LoadsRight

(* Every handler keeps what the loads and the registers are given, and     *)
(* only retire_rob moves the head.                                         *)
LEMMA OrderNext ==
  ASSUME trace \in Traces, WholeTraces, Queues(core), OrderRight(core, memory), Next
  PROVE  OrderRight(core, memory)' /\ (Retire \/ (core'.head = core.head /\ memory' = memory))
<1>0. /\ Shaped(core) /\ Rob(core) /\ LoadsRight(core) /\ RegsRight(core) /\ MemoryRight(core, memory)
      /\ LoadPaths(core) /\ LoadWay(core) /\ StoreWay(core)
  BY DEF Queues, OrderRight, LoadsRight
<1> DEFINE Reaches(t, mem) ==
      /\ core' = t /\ trace' = trace /\ memory' = mem /\ OrderRight(t, mem)
      /\ Retire \/ (t.head = core.head /\ mem = memory)
<1> SUFFICES \E t, mem : Reaches(t, mem)
  BY OrderReached
<1>a. ASSUME NEW t, LoadsRight(t), RegsRight(t), t.head = core.head, core' = t, trace' = trace, memory' = memory
      PROVE  \E u, mem : Reaches(u, mem)
  <2>1. PICK mem : mem = memory
    OBVIOUS
  <2>2. MemoryRight(t, mem)
    BY <1>0, <1>a, <2>1 DEF MemoryRight
  <2>3. Reaches(t, mem)
    BY <1>a, <2>1, <2>2 DEF OrderRight
  <2> QED BY <2>3
<1> HIDE DEF Reaches
<1>1. CASE Fetch
  <2>1. PICK t : t = Fetched(core)
    OBVIOUS
  <2>2. FetchedTo(core, t)
    BY <1>0, <2>1, FetchedIs
  <2>3. LoadsRight(t) /\ RegsRight(t) /\ t.head = core.head
    BY <1>0, <2>2, OrderFetched
  <2>4. core' = t /\ trace' = trace /\ memory' = memory
    BY <1>1, <2>1 DEF Fetch
  <2> QED BY <1>a, <2>3, <2>4
<1>2. ASSUME NEW n \in Id, Schedule(n)  PROVE \E t, mem : Reaches(t, mem)
  <2>1. PICK t : t = Scheduled(core, n)
    OBVIOUS
  <2>2. ScheduledTo(core, t, n)
    BY <1>0, <2>1, ScheduledIs
  <2>3. n \in InRob(core) /\ core.scheduled[n] = "no"
    BY <1>2 DEF Schedule
  <2>4. LoadsRight(t) /\ RegsRight(t) /\ t.head = core.head
    BY <1>0, <2>2, <2>3, OrderScheduled
  <2>5. core' = t /\ trace' = trace /\ memory' = memory
    BY <1>2, <2>1 DEF Schedule
  <2> QED BY <1>a, <2>4, <2>5
<1>3. ASSUME NEW n \in Id, Execute(n)  PROVE \E t, mem : Reaches(t, mem)
  <2>1. PICK t : t = [ReadsRegs(core, n) EXCEPT !.executed[n] = "inflight"]
    OBVIOUS
  <2>2. n \in InRob(core) /\ ~IsMemory(n) /\ RegReady(core, n) /\ core.executed[n] = "no"
    BY <1>3 DEF Execute
  <2>3. LoadsRight(t) /\ RegsRight(t) /\ t.head = core.head
    BY <1>0, <2>1, <2>2, OrderExecuted
  <2>4. core' = t /\ trace' = trace /\ memory' = memory
    BY <1>3, <2>1 DEF Execute
  <2> QED BY <1>a, <2>3, <2>4
<1>4. ASSUME NEW n \in Id, Complete(n)  PROVE \E t, mem : Reaches(t, mem)
  <2>1. PICK t : t = Completed(core, n)
    OBVIOUS
  <2>2. CompletedTo(core, t, n)
    BY <1>0, <2>1, CompletedIs
  <2>3. n \in InRob(core) /\ core.executed[n] = "inflight"
    BY <1>4 DEF Complete
  <2>4. LoadsRight(t) /\ RegsRight(t) /\ t.head = core.head
    BY <1>0, <2>2, <2>3, OrderCompleted
  <2>5. core' = t /\ trace' = trace /\ memory' = memory
    BY <1>4, <2>1 DEF Complete
  <2> QED BY <1>a, <2>4, <2>5
<1>5. ASSUME NEW n \in Id, ScheduleMemory(n)  PROVE \E t, mem : Reaches(t, mem)
  <2>1. PICK t : t = MemScheduled(core, n)
    OBVIOUS
  <2>2. n \in InRob(core) /\ RegReady(core, n) /\ core.scheduled[n] = "inflight"
    BY <1>5 DEF ScheduleMemory, Schedulable
  <2>3. LoadsRight(t) /\ RegsRight(t) /\ t.head = core.head
    BY <1>0, <2>1, <2>2, OrderMemScheduled
  <2>4. core' = t /\ trace' = trace /\ memory' = memory
    BY <1>5, <2>1 DEF ScheduleMemory
  <2> QED BY <1>a, <2>3, <2>4
<1>6. ASSUME NEW k \in SqSlot, TranslateStore(k)  PROVE \E t, mem : Reaches(t, mem)
  <2>1. PICK t : t = [core EXCEPT !.rts0 = @ \ {k}, !.dtlbS = @ \cup {k}]
    OBVIOUS
  <2>2. StagesOnly(core, t) /\ SeenKept(core, t) /\ LoadWayKept(core, t) /\ t.lq = core.lq
    BY <1>0, <2>1 DEF StagesOnly, Shaped, Fields, OrderKept, StatusKept, RegsKept, LoadsKept, StoresKept, SeenKept,
                      LoadWayKept
  <2>3. LoadPaths(t)
    BY <1>0, <2>2, LoadPathsKept
  <2>4. LoadsRight(t) /\ RegsRight(t) /\ t.head = core.head
    BY <1>0, <2>2, <2>3, OrderMoved
  <2>5. core' = t /\ trace' = trace /\ memory' = memory
    BY <1>6, <2>1 DEF TranslateStore
  <2> QED BY <1>a, <2>4, <2>5
<1>7. ASSUME NEW k \in SqSlot, ExecuteStore(k)  PROVE \E t, mem : Reaches(t, mem)
  <2>1. PICK t : t = StoreExecuted(core, k)
    OBVIOUS
  <2>2. k \in core.rts1
    BY <1>7 DEF ExecuteStore
  <2>3. LoadsRight(t) /\ t.sawRegs = core.sawRegs
    BY <1>0, <2>1, <2>2, LoadsExecuted
  <2>4. StatusKept(core, t) /\ RegsKept(core, t) /\ t.head = core.head
    <3>1. PICK u : u = StoreDone(core, k)
      OBVIOUS
    <3>2. StoreDoneTo(core, u, k)
      BY <1>0, <3>1, StoreDoneIs
    <3>3. PICK I, f : t = Loaded(u, I, f)
      BY <2>1, <3>1, StoreExecutedIs
    <3>4. LoadedTo(u, t, I, f)
      BY <3>2, <3>3, LoadedIs DEF StoreDoneTo
    <3> QED BY <3>2, <3>4 DEF StoreDoneTo, LoadedTo, StatusKept, RegsKept, OrderKept
  <2>5. RegsRight(t)
    BY <1>0, <2>3, <2>4, RegsKeptRight
  <2>6. core' = t /\ trace' = trace /\ memory' = memory
    BY <1>7, <2>1 DEF ExecuteStore
  <2> QED BY <1>a, <2>3, <2>4, <2>5, <2>6
<1>8. ASSUME NEW i \in LqSlot, TranslateLoad(i)  PROVE \E t, mem : Reaches(t, mem)
  <2>1. PICK t : t = [core EXCEPT !.rtl0 = @ \ {i}, !.dtlbL = @ \cup {i}]
    OBVIOUS
  <2>2. StagesOnly(core, t) /\ SeenKept(core, t) /\ t.lq = core.lq
    BY <1>0, <2>1 DEF StagesOnly, Shaped, Fields, OrderKept, StatusKept, RegsKept, LoadsKept, StoresKept, SeenKept
  <2>3. t.rtl0 = core.rtl0 \ {i} /\ t.dtlbL = core.dtlbL \cup {i} /\ t.rtl1 = core.rtl1 /\ t.l1d = core.l1d
    BY <1>0, <2>1 DEF Shaped, Fields
  <2>4. i \in core.rtl0
    BY <1>8 DEF TranslateLoad
  <2>5. LoadPaths(t)
    BY <1>0, <2>2, <2>3, <2>4 DEF LoadPaths, Moving
  <2>6. LoadsRight(t) /\ RegsRight(t) /\ t.head = core.head
    BY <1>0, <2>2, <2>5, OrderMoved
  <2>7. core' = t /\ trace' = trace /\ memory' = memory
    BY <1>8, <2>1 DEF TranslateLoad
  <2> QED BY <1>a, <2>6, <2>7
<1>9. ASSUME NEW i \in LqSlot, ExecuteLoad(i)  PROVE \E t, mem : Reaches(t, mem)
  <2>1. PICK t : t = [core EXCEPT !.rtl1 = @ \ {i}, !.l1d = @ \cup {i}]
    OBVIOUS
  <2>2. StagesOnly(core, t) /\ SeenKept(core, t) /\ t.lq = core.lq
    BY <1>0, <2>1 DEF StagesOnly, Shaped, Fields, OrderKept, StatusKept, RegsKept, LoadsKept, StoresKept, SeenKept
  <2>3. t.rtl0 = core.rtl0 /\ t.dtlbL = core.dtlbL /\ t.rtl1 = core.rtl1 \ {i} /\ t.l1d = core.l1d \cup {i}
    BY <1>0, <2>1 DEF Shaped, Fields
  <2>4. i \in core.rtl1
    BY <1>9 DEF ExecuteLoad
  <2>5. LoadPaths(t)
    BY <1>0, <2>2, <2>3, <2>4 DEF LoadPaths, Moving
  <2>6. LoadsRight(t) /\ RegsRight(t) /\ t.head = core.head
    BY <1>0, <2>2, <2>5, OrderMoved
  <2>7. core' = t /\ trace' = trace /\ memory' = memory
    BY <1>9, <2>1 DEF ExecuteLoad
  <2> QED BY <1>a, <2>6, <2>7
<1>10. ASSUME NEW I, NEW K, Translated(I, K)  PROVE \E t, mem : Reaches(t, mem)
  <2>1. PICK t : t = [core EXCEPT !.dtlbL = @ \ I, !.rtl1 = @ \cup I, !.dtlbS = @ \ K, !.rts1 = @ \cup K]
    OBVIOUS
  <2>2. StagesOnly(core, t) /\ SeenKept(core, t) /\ t.lq = core.lq
    BY <1>0, <2>1 DEF StagesOnly, Shaped, Fields, OrderKept, StatusKept, RegsKept, LoadsKept, StoresKept, SeenKept
  <2>3. t.rtl0 = core.rtl0 /\ t.dtlbL = core.dtlbL \ I /\ t.rtl1 = core.rtl1 \cup I /\ t.l1d = core.l1d
    BY <1>0, <2>1 DEF Shaped, Fields
  <2>4. I \subseteq core.dtlbL
    BY <1>10 DEF Translated
  <2>5. LoadPaths(t)
    BY <1>0, <2>2, <2>3, <2>4 DEF LoadPaths, Moving
  <2>6. LoadsRight(t) /\ RegsRight(t) /\ t.head = core.head
    BY <1>0, <2>2, <2>5, OrderMoved
  <2>7. core' = t /\ trace' = trace /\ memory' = memory
    BY <1>10, <2>1 DEF Translated
  <2> QED BY <1>a, <2>6, <2>7
<1>11. ASSUME NEW I, Answered(I)  PROVE \E t, mem : Reaches(t, mem)
  <2>1. PICK f : f = memory
    OBVIOUS
  <2>2. PICK u : u = Loaded(core, I, f)
    OBVIOUS
  <2>3. PICK t : t = [u EXCEPT !.l1d = @ \ I]
    OBVIOUS
  <2>4. I \subseteq core.l1d
    BY <1>11 DEF Answered
  <2>5. LoadedTo(core, u, I, f)
    BY <1>0, <2>2, LoadedIs
  <2>6. Shaped(u)
    BY <2>5 DEF LoadedTo
  <2>7. StagesOnly(u, t) /\ SeenKept(u, t)
    BY <2>3, <2>6 DEF StagesOnly, Shaped, Fields, OrderKept, StatusKept, RegsKept, LoadsKept, StoresKept, SeenKept
  <2>8. t.rtl0 = u.rtl0 /\ t.dtlbL = u.dtlbL /\ t.rtl1 = u.rtl1 /\ t.l1d = u.l1d \ I
    BY <2>3, <2>6 DEF Shaped, Fields
  <2>9. MemoryRight(core, f)
    BY <1>0, <2>1
  <2>10. LoadsRight(t)
    BY <1>0, <2>4, <2>5, <2>7, <2>8, <2>9, LoadsAnswered
  <2>11. StatusKept(core, t) /\ RegsKept(core, t) /\ t.sawRegs = core.sawRegs /\ t.head = core.head
    BY <2>5, <2>7 DEF LoadedTo, StagesOnly, StatusKept, RegsKept, OrderKept, SeenKept
  <2>12. RegsRight(t)
    BY <1>0, <2>11, RegsKeptRight
  <2>13. core' = t /\ trace' = trace /\ memory' = memory
    BY <1>11, <2>1, <2>2, <2>3 DEF Answered
  <2> QED BY <1>a, <2>10, <2>11, <2>12, <2>13
<1>12. CASE Retire
  <2>1. PICK t : t = Retired(core)
    OBVIOUS
  <2>2. PICK n : n = core.head + 1
    OBVIOUS
  <2>3. PICK mem : mem = [a \in Addr |-> IF a \in Elements(trace[n].stores) THEN n ELSE memory[a]]
    OBVIOUS
  <2>4. RetiredTo(core, t, n)
    BY <1>0, <2>1, <2>2, RetiredIs
  <2>5. core.head < core.tail /\ core.executed[n] = "completed"
    BY <1>12, <2>2 DEF Retire
  <2>6. LoadsRight(t)
    BY <1>0, <2>2, <2>4, <2>5, LoadsRetired
  <2>7. RegsRight(t)
    BY <1>0, <2>4, <2>5, RegsRetired
  <2>8. MemoryRight(t, mem)
    <3>1. core.head \in Nat /\ t.head = n
      BY <1>0, <2>4 DEF Rob, RetiredTo
    <3> QED BY <1>0, <2>2, <2>3, <3>1, MemoryRetired
  <2>9. core' = t /\ trace' = trace /\ memory' = mem
    BY <1>12, <2>1, <2>2, <2>3 DEF Retire
  <2>10. OrderRight(t, mem)
    BY <2>6, <2>7, <2>8 DEF OrderRight
  <2>11. Retire \/ (t.head = core.head /\ mem = memory)
    BY <1>12
  <2>12. Reaches(t, mem)
    BY <2>9, <2>10, <2>11 DEF Reaches
  <2> QED BY <2>12
<1> QED BY <1>1, <1>2, <1>3, <1>4, <1>5, <1>6, <1>7, <1>8, <1>9, <1>10, <1>11, <1>12 DEF Next

(* A step that changes nothing keeps it, too.                              *)
LEMMA OrderUnchanged ==
  ASSUME OrderRight(core, memory), UNCHANGED vars
  PROVE  OrderRight(core, memory)'
<1>1. PICK t, mem : t = core /\ mem = memory
  OBVIOUS
<1>2. core' = t /\ trace' = trace /\ memory' = mem /\ OrderRight(t, mem)
  BY <1>1 DEF vars
<1> QED BY <1>2, OrderReached

OrderInvariant == QueueInvariant /\ OrderRight(core, memory)

(* In a program that is Whole every load is given, or waits for, the data  *)
(* of the youngest older store to its address, and every register that of  *)
(* its youngest older writer.                                              *)
THEOREM OrderHolds == WholeTraces => (Spec => []OrderInvariant)
<1> SUFFICES ASSUME WholeTraces  PROVE Spec => []OrderInvariant
  OBVIOUS
<1>1. Init => OrderRight(core, memory)
  BY OrderInit
<1>2. QueueInvariant /\ OrderRight(core, memory) /\ [Next]_vars => OrderRight(core, memory)'
  BY OrderNext, OrderUnchanged DEF QueueInvariant
<1>3. QueueInvariant /\ OrderRight(core, memory) <=> OrderInvariant
  BY DEF OrderInvariant
<1> QED BY <1>1, <1>2, <1>3, QueuesHold, PTL DEF Spec

(* What each stage holds of disjoint ones.                                 *)
LEMMA StagesAre ==
  ASSUME NEW A, NEW B, NEW C, NEW D, NEW i, A \cap B = {}, A \cap C = {}, A \cap D = {}, B \cap C = {}, B \cap D = {},
         C \cap D = {}
  PROVE  StagesOf(<<A, B, C, D>>, i) = IF i \in A \cup B \cup C \cup D THEN 1 ELSE 0
<1>1. PICK S : S = {x \in DOMAIN <<A, B, C, D>> : i \in <<A, B, C, D>>[x]}
  OBVIOUS
<1>2. \A x : x \in S <=> \/ x = 1 /\ i \in A
                         \/ x = 2 /\ i \in B
                         \/ x = 3 /\ i \in C
                         \/ x = 4 /\ i \in D
  BY <1>1
<1>3. StagesOf(<<A, B, C, D>>, i) = Cardinality(S)
  BY <1>1 DEF StagesOf
<1>4. CASE i \in A \cup B \cup C \cup D
  <2>1. PICK x : S = {x}
    <3>1. i \in A => S = {1}
      BY <1>2
    <3>2. i \in B => S = {2}
      BY <1>2
    <3>3. i \in C => S = {3}
      BY <1>2
    <3>4. i \in D => S = {4}
      BY <1>2
    <3> QED BY <1>4, <3>1, <3>2, <3>3, <3>4
  <2> QED BY <1>3, <1>4, <2>1, FS_Singleton
<1>5. CASE ~(i \in A \cup B \cup C \cup D)
  <2>1. S = {}
    BY <1>2, <1>5
  <2> QED BY <1>3, <1>5, <2>1, FS_EmptySet
<1> QED BY <1>4, <1>5

(* Nothing gets lost between the queues and the rings of ready entries:    *)
(* what is in a queue is in exactly one stage of its way, or waits for a   *)
(* store that knows of it and has not executed.                            *)
THEOREM NothingIsLost == WholeTraces => (Spec => []NothingLost)
<1> SUFFICES ASSUME WholeTraces  PROVE Spec => []NothingLost
  OBVIOUS
<1>1. OrderInvariant => NothingLost
  <2> SUFFICES ASSUME OrderInvariant  PROVE NothingLost
    OBVIOUS
  <2>1. /\ trace \in Traces /\ Rob(core) /\ LoadQueue(core) /\ StoreWay(core) /\ Queues(core)
        /\ Links(core) /\ LoadPaths(core)
    BY DEF OrderInvariant, OrderRight, LoadsRight, QueueInvariant, Queues
  <2>2. ASSUME NEW i \in LqSlot
        PROVE  StagesOf(LoadStages, i) = IF core.lq[i].id # 0 /\ core.lq[i].producer = 0 THEN 1 ELSE 0
    <3>1. PICK A, B, C, D : A = core.rtl0 /\ B = core.dtlbL /\ C = core.rtl1 /\ D = core.l1d
      OBVIOUS
    <3>2. /\ A \cap B = {} /\ A \cap C = {} /\ A \cap D = {} /\ B \cap C = {} /\ B \cap D = {} /\ C \cap D = {}
          /\ A \cup B \cup C \cup D = Moving(core)
      BY <2>1, <3>1 DEF LoadPaths
    <3>3. StagesOf(<<A, B, C, D>>, i) = IF i \in Moving(core) THEN 1 ELSE 0
      BY <3>2, StagesAre
    <3>4. LoadStages = <<A, B, C, D>>
      BY <3>1 DEF LoadStages
    <3> QED BY <3>3, <3>4 DEF Moving
  <2>3. ASSUME NEW i \in LqSlot, core.lq[i].producer # 0  PROVE AwaitsStore(i)
    <3>1. core.lq[i].id # 0
      <4>1. core.lq[i] \in LqEntry
        BY <2>1, <2>3 DEF LoadQueue, NoLoad
      <4>2. core.lq[i].id \in Id
        BY <4>1 DEF LqEntry
      <4> QED BY <2>1, <4>2, InstructionIs
    <3>2. PICK n, j, p : n = core.lq[i].id /\ j = core.lq[i].src /\ p = core.lq[i].producer
      OBVIOUS
    <3>3. /\ n \in Id /\ n \in InRob(core) /\ j \in core.srcAdded[n] /\ core.lqIndex[n][j] = i /\ Pending(core, n, j)
          /\ LoadAddr(core, i) = trace[n].loads[j]
      BY <2>1, <3>1, <3>2, EntryIs
    <3>4. Waiting(core, n, j)
      BY <2>1, <3>3 DEF Links, Link
    <3>5. p = WaitedFor(core, n, j) /\ p # 0 /\ n \in core.dependents[p] /\ ~HasData(core, n, j)
      BY <2>3, <3>2, <3>3, <3>4 DEF Waiting
    <3>6. p \in Older(core, n)
      BY <2>1, <3>3, <3>5, ProducerIs DEF WaitedFor
    <3>7. ~CanForward(core, p, LoadAddr(core, i))
      BY <3>3, <3>5 DEF HasData
    <3> QED BY <3>2, <3>5, <3>6, <3>7 DEF AwaitsStore
  <2>4. ASSUME NEW k \in SqSlot
        PROVE  StagesOf(StoreStages, k) = IF core.sq[k].id # 0 /\ ~core.sq[k].done THEN 1 ELSE 0
    <3>1. PICK A, B, C, D : A = core.rts0 /\ B = core.dtlbS /\ C = core.rts1 /\ D = {}
      OBVIOUS
    <3>2. /\ A \cap B = {} /\ A \cap C = {} /\ A \cap D = {} /\ B \cap C = {} /\ B \cap D = {} /\ C \cap D = {}
          /\ A \cup B \cup C \cup D = Undone(core)
      BY <2>1, <3>1 DEF StoreWay
    <3>3. StagesOf(<<A, B, C, D>>, k) = IF k \in Undone(core) THEN 1 ELSE 0
      BY <3>2, StagesAre
    <3>4. StagesOf(StoreStages, k) = StagesOf(<<A, B, C, D>>, k)
      <4>1. {x \in DOMAIN <<A, B, C>> : k \in <<A, B, C>>[x]} = {x \in DOMAIN <<A, B, C, D>> : k \in <<A, B, C, D>>[x]}
        BY <3>1
      <4> QED BY <3>1, <4>1 DEF StagesOf, StoreStages
    <3> QED BY <3>3, <3>4 DEF Undone
  <2> QED BY <2>2, <2>3, <2>4 DEF NothingLost
<1> QED BY <1>1, OrderHolds, PTL

(* A store hands its data only to load queue entries that wait for this    *)
(* very store: the assertion of execute_store.                             *)
THEOREM StoresForwardOwn == WholeTraces => (Spec => []ForwardsOwnLoads)
<1> SUFFICES ASSUME WholeTraces  PROVE Spec => []ForwardsOwnLoads
  OBVIOUS
<1>1. OrderInvariant => ForwardsOwnLoads
  <2> SUFFICES ASSUME OrderInvariant, NEW k \in core.rts1, NEW i \in Targets(core, k)
               PROVE  i \in LqSlot /\ core.lq[i].producer = core.sq[k].id
    BY DEF ForwardsOwnLoads
  <2>1. trace \in Traces /\ Queues(core) /\ Links(core) /\ Known(core)
    BY DEF OrderInvariant, OrderRight, LoadsRight, QueueInvariant
  <2>2. Targets(core, k) = Awaiting(core, k)
    BY <2>1, TargetsAre
  <2> QED BY <2>2 DEF Awaiting
<1> QED BY <1>1, OrderHolds, PTL
-----------------------------------------------------------------------------
(* The sequential machine. *)

(* What instruction n has read when it retires.                            *)
ReadInOrder(n) ==
  [regs  |-> [r \in trace[n].reads |-> LastWrite(n - 1, r)],
   loads |-> [j \in DOMAIN trace[n].loads |-> LastStore(n - 1, trace[n].loads[j])]]
SeenInOrder == [n \in 1 .. core.head |-> ReadInOrder(n)]
SeenByCore == [n \in 1 .. core.head |-> [regs |-> core.sawRegs[n], loads |-> core.sawMem[n]]]

(* The history of the core is that of the machine.                         *)
LEMMA SeenIs ==
  ASSUME OrderInvariant
  PROVE  SeenByCore = SeenInOrder
<1>1. /\ trace \in Traces /\ Rob(core) /\ RegsRight(core) /\ MemRead(core)
  BY DEF OrderInvariant, OrderRight, LoadsRight, QueueInvariant, Queues
<1>2. ASSUME NEW n \in 1 .. core.head
      PROVE  core.sawRegs[n] = [r \in trace[n].reads |-> LastWrite(n - 1, r)]
  <2>1. n \in Id /\ core.executed[n] = "completed"
    BY <1>1, InstructionIs DEF Rob
  <2>2. RegsSeen(core, n) /\ core.sawRegs[n] \in [trace[n].reads -> Nat]
    BY <1>1, <2>1 DEF RegsRight, SawRegsAre
  <2> QED BY <2>2 DEF RegsSeen
<1>3. ASSUME NEW n \in 1 .. core.head
      PROVE  core.sawMem[n] = [j \in DOMAIN trace[n].loads |-> LastStore(n - 1, trace[n].loads[j])]
  <2>1. n \in Id
    BY <1>1, InstructionIs DEF Rob
  <2>2. core.sawMem[n] \in [DOMAIN trace[n].loads -> Nat]
    BY <1>1, <2>1 DEF MemRead
  <2>3. \A j \in DOMAIN trace[n].loads : core.sawMem[n][j] = LastStore(n - 1, trace[n].loads[j])
    BY <1>1, <2>1 DEF MemRead
  <2> QED BY <2>2, <2>3
<1> QED BY <1>2, <1>3 DEF SeenByCore, SeenInOrder, ReadInOrder

IsList(f, k) == DOMAIN f = 1 .. k /\ f = [i \in 1 .. k |-> f[i]]

(* A sequence with one more element.                                       *)
LEMMA AppendIs ==
  ASSUME NEW k \in Nat, NEW f, NEW g, IsList(f, k), IsList(g, k + 1), \A i \in 1 .. k : g[i] = f[i]
  PROVE  g = Append(f, g[k + 1])
<1>1. PICK X : X = {g[i] : i \in 1 .. (k + 1)}
  OBVIOUS
<1>2. g \in [1 .. (k + 1) -> X] /\ f \in [1 .. k -> X] /\ g[k + 1] \in X /\ k + 1 \in Nat
  BY SMTT(60), <1>1 DEF IsList
<1>3. g \in Seq(X) /\ Len(g) = k + 1 /\ f \in Seq(X) /\ Len(f) = k
  BY <1>2, SequenceIs
<1>4. PICK e \in X : e = g[k + 1]
  BY <1>2
<1>5. /\ Append(f, e) \in Seq(X) /\ Len(Append(f, e)) = k + 1
      /\ \A i \in 1 .. k : Append(f, e)[i] = f[i]
      /\ Append(f, e)[k + 1] = e
  BY <1>3, AppendProperties
<1>6. \A i \in 1 .. (k + 1) : g[i] = Append(f, e)[i]
  <2>1. ASSUME NEW i \in 1 .. (k + 1)  PROVE i \in 1 .. k \/ i = k + 1
    OBVIOUS
  <2>2. \A i \in 1 .. k : g[i] = f[i]
    OBVIOUS
  <2>3. \A i \in 1 .. k : g[i] = Append(f, e)[i]
    BY <1>5, <2>2
  <2>4. g[k + 1] = Append(f, e)[k + 1]
    BY <1>4, <1>5
  <2> QED BY <2>1, <2>3, <2>4
<1> QED BY <1>3, <1>4, <1>5, <1>6, SeqEqual

(* Whatever the order of execution, the retired instructions have read     *)
(* from registers and memory what they would have read one after the       *)
(* other: retire_rob is the step of the sequential machine, and no other   *)
(* handler is seen by it.                                                  *)
THEOREM CoreImplementsInOrder == WholeTraces => (Spec => ImplementsInOrder)
<1> SUFFICES ASSUME WholeTraces  PROVE Spec => ImplementsInOrder
  OBVIOUS
<1>1. Init => InOrder!Init
  <2> SUFFICES ASSUME Init  PROVE InOrder!Init
    OBVIOUS
  <2>1. core.head = 0 /\ trace \in Traces /\ memory = [a \in Addr |-> 0]
    BY DEF Init, Start
  <2>2. \A r : LastWriter(r) = 0
    BY <2>1, LastWriteNext DEF LastWriter, LastWrite, WriteSet
  <2>3. [n \in 1 .. core.head |-> [regs |-> core.sawRegs[n], loads |-> core.sawMem[n]]] = <<>>
    BY <2>1
  <2> QED BY <2>1, <2>2, <2>3 DEF InOrder!Init
<1>2. OrderInvariant => SeenByCore = SeenInOrder
  BY SeenIs
<1>3. OrderInvariant /\ SeenByCore = SeenInOrder /\ (SeenByCore = SeenInOrder)' /\ [Next]_vars
        => [InOrder!Step]_(InOrder!vars)
  <2> SUFFICES ASSUME OrderInvariant, SeenByCore = SeenInOrder, (SeenByCore = SeenInOrder)', [Next]_vars
               PROVE  [InOrder!Step]_(InOrder!vars)
    OBVIOUS
  <2>1. trace \in Traces /\ Queues(core) /\ OrderRight(core, memory) /\ Rob(core) /\ MemoryRight(core, memory)
    BY DEF OrderInvariant, QueueInvariant, Queues, OrderRight
  <2>2. trace' = trace /\ (Retire \/ (core'.head = core.head /\ memory' = memory))
    <3>1. CASE Next
      BY <2>1, <3>1, QueuesNext, OrderNext
    <3>2. CASE UNCHANGED vars
      BY <3>2 DEF vars
    <3> QED BY <3>1, <3>2
  <2>3. /\ \A n, a : LastStore(n, a)' = LastStore(n, a)
        /\ \A n, r : LastWrite(n, r)' = LastWrite(n, r)
    BY <2>2 DEF LastStore, StoreSet, LastWrite, WriteSet, YoungestOrNone, Youngest, Elements
  <2>4. \A n : ReadInOrder(n)' = ReadInOrder(n)
    BY SMTT(60), <2>2, <2>3 DEF ReadInOrder
  <2>5. CASE Retire
    <3>1. PICK h \in Nat : h = core.head
      BY <2>1 DEF Rob
    <3>2. core'.head = h + 1 /\ h < Len(trace)
      <4>1. core' = Retired(core) /\ core.head < core.tail /\ Shaped(core)
        BY <2>1, <2>5 DEF Retire, Queues
      <4>2. PICK t : t = Retired(core)
        OBVIOUS
      <4>3. RetiredTo(core, t, h + 1)
        BY <3>1, <4>1, <4>2, RetiredIs
      <4> QED BY <2>1, <3>1, <4>1, <4>2, <4>3, InstructionIs DEF RetiredTo, Rob
    <3>3. h + 1 \in Id
      BY <2>1, <3>1, <3>2, InstructionIs
    <3>4. /\ trace[h + 1].reads \subseteq Reg
          /\ \A j \in DOMAIN trace[h + 1].loads : trace[h + 1].loads[j] \in Addr
      BY <2>1, <3>3, InstructionIs, PlacesAre
    <3>5. \A r : LastWriter(r) = LastWrite(h, r)
      BY <3>1 DEF LastWriter, LastWrite, WriteSet
    <3>6. \A r : LastWriter(r)' = LastWrite(h + 1, r)
      BY <2>2, <3>2 DEF LastWriter, LastWrite, WriteSet, YoungestOrNone, Youngest
    <3>7. ReadInOrder(h + 1) =
            [regs  |-> [r \in trace[h + 1].reads |-> [x \in Reg |-> LastWriter(x)][r]],
             loads |-> [j \in DOMAIN trace[h + 1].loads |-> memory[trace[h + 1].loads[j]]]]
      <4>1. (h + 1) - 1 = h
        OBVIOUS
      <4>2. \A a \in Addr : memory[a] = LastStore(h, a)
        BY <2>1, <3>1 DEF MemoryRight
      <4> QED BY <3>4, <3>5, <4>1, <4>2 DEF ReadInOrder
    <3>8. SeenByCore' = Append(SeenByCore, ReadInOrder(h + 1))
      <4>1. PICK f, g : f = SeenInOrder /\ g = SeenInOrder'
        OBVIOUS
      <4>2. f = [n \in 1 .. h |-> ReadInOrder(n)] /\ g = [n \in 1 .. (h + 1) |-> ReadInOrder(n)]
        BY <2>4, <3>1, <3>2, <4>1 DEF SeenInOrder
      <4>3. IsList(f, h) /\ IsList(g, h + 1)
        BY <4>2 DEF IsList
      <4>4. (\A n \in 1 .. h : g[n] = f[n]) /\ g[h + 1] = ReadInOrder(h + 1)
        <5>1. /\ \A n \in 1 .. h : f[n] = ReadInOrder(n)
              /\ \A n \in 1 .. (h + 1) : g[n] = ReadInOrder(n)
          BY <4>2
        <5>2. h + 1 \in 1 .. (h + 1) /\ \A n \in 1 .. h : n \in 1 .. (h + 1)
          BY <3>1
        <5> QED BY <5>1, <5>2
      <4>5. g = Append(f, g[h + 1])
        BY <3>1, <4>3, <4>4, AppendIs
      <4> QED BY <4>1, <4>4, <4>5
    <3>9. \A r \in Reg : LastWriter(r)' = IF r \in trace[h + 1].writes THEN h + 1 ELSE LastWriter(r)
      BY <3>5, <3>6, LastWriteNext
    <3>10. memory' = InOrder!Written(memory, InOrder!Elements(trace[h + 1].stores), h + 1)
      <4>1. DOMAIN memory = Addr
        BY <2>1 DEF MemoryRight
      <4>2. memory' = [a \in Addr |-> IF a \in Elements(trace[h + 1].stores) THEN h + 1 ELSE memory[a]]
        BY <2>5, <3>1 DEF Retire
      <4> QED BY <4>1, <4>2 DEF InOrder!Written, InOrder!Elements, Elements
    <3>11. [r \in Reg |-> LastWriter(r)]' = InOrder!Written([r \in Reg |-> LastWriter(r)], trace[h + 1].writes, h + 1)
      BY <3>9 DEF InOrder!Written
    <3> QED BY <2>2, <3>1, <3>2, <3>7, <3>8, <3>10, <3>11 DEF InOrder!Step, SeenByCore
  <2>6. CASE core'.head = core.head /\ memory' = memory
    <3>1. [r \in Reg |-> LastWriter(r)]' = [r \in Reg |-> LastWriter(r)]
      BY <2>2, <2>6 DEF LastWriter, YoungestOrNone, Youngest
    <3>2. SeenByCore' = SeenByCore
      BY <2>4, <2>6 DEF SeenInOrder
    <3> QED BY <2>2, <2>6, <3>1, <3>2 DEF InOrder!vars, SeenByCore
  <2> QED BY <2>2, <2>5, <2>6
<1> QED BY <1>1, <1>2, <1>3, OrderHolds, PTL DEF Spec, ImplementsInOrder, InOrder!Spec
=============================================================================
