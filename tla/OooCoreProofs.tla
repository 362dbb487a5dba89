---------------------------- MODULE OooCoreProofs ----------------------------
(***************************************************************************)
(* The queues and counters of the core of OooCore, for every program, any  *)
(* number of registers and addresses and any sizes of the ROB, the load    *)
(* queue, the store queue and the scheduler.  The handlers are functions   *)
(* on the record core, so each has a lemma of what it changes, and each    *)
(* part of the invariant a lemma for each handler that can disturb it.     *)
(***************************************************************************)
EXTENDS OooCore, FiniteSetTheorems, SequenceTheorems, TLAPS

-----------------------------------------------------------------------------
(* The handlers. *)

Fields == {"head", "tail", "scheduled", "executed", "regDeps", "wakes", "dependents", "memOps",
           "srcAdded", "dstAdded", "lqIndex", "sqIndex", "lq", "sq", "sqTail", "sta",
           "rtl0", "dtlbL", "rtl1", "l1d", "rts0", "dtlbS", "rts1", "sawRegs", "sawMem"}
Shaped(s) == DOMAIN s = Fields

(* From s to t the order, the registers, ... stay as they are. *)
OrderKept(s, t) == t.head = s.head /\ t.tail = s.tail
StatusKept(s, t) == t.scheduled = s.scheduled /\ t.executed = s.executed
RegsKept(s, t) == t.regDeps = s.regDeps /\ t.wakes = s.wakes
LoadsKept(s, t) == t.srcAdded = s.srcAdded /\ t.lqIndex = s.lqIndex /\ t.lq = s.lq
StoresKept(s, t) ==
  t.dstAdded = s.dstAdded /\ t.sqIndex = s.sqIndex /\ t.sq = s.sq /\ t.sqTail = s.sqTail /\ t.sta = s.sta
LoadWayKept(s, t) == t.rtl0 = s.rtl0 /\ t.dtlbL = s.dtlbL /\ t.rtl1 = s.rtl1 /\ t.l1d = s.l1d
StoreWayKept(s, t) == t.rts0 = s.rts0 /\ t.dtlbS = s.dtlbS /\ t.rts1 = s.rts1
SeenKept(s, t) == t.sawRegs = s.sawRegs /\ t.sawMem = s.sawMem

(* What the handlers make of the fields they change.                       *)
Put(f, a, v) == [f EXCEPT ![a] = v]
SqDone(s, k) == [s.sq EXCEPT ![k].done = TRUE]
LqWith(s, i, n, j, p) == [s.lq EXCEPT ![i] = [id |-> n, src |-> j, producer |-> p]]
SqWith(s, k, n, d) == [s.sq EXCEPT ![k] = [id |-> n, dst |-> d, done |-> FALSE]]
StaOf(n) == [d \in DOMAIN trace[n].stores |-> n]
RegsRead(s, n) == [r \in trace[n].reads |-> RegValue(s, n, r)]
RegsAwaited(s, n) == {r \in trace[n].reads : RegProducer(s, n, r) # 0}
WakesScheduled(s, n) ==
  [m \in Id |-> s.wakes[m] \cup {<<n, r>> : r \in {x \in RegsAwaited(s, n) : RegProducer(s, n, x) = m}}]
RegDepsCompleted(s, n) == [m \in Id |-> s.regDeps[m] - Cardinality({r \in Reg : <<m, r>> \in s.wakes[n]})]
LqReleased(s, I) == [i \in LqSlot |-> IF i \in I THEN NoLoad ELSE s.lq[i]]
MemOpsLoaded(s, I) == [n \in Id |-> s.memOps[n] - Cardinality({i \in I : s.lq[i].id = n})]
SawMemLoaded(s, I, f) ==
  [n \in Id |-> [j \in DOMAIN s.sawMem[n] |->
     IF \E i \in I : s.lq[i].id = n /\ s.lq[i].src = j THEN f[trace[n].loads[j]] ELSE s.sawMem[n][j]]]
SqRetired(s, n) == [i \in SqSlot |-> IF \E d \in s.dstAdded[n] : s.sqIndex[n][d] = i THEN NoStore ELSE s.sq[i]]
NoIndex == [j \in Operands |-> 0]

(* The next instruction enters. *)
FetchedTo(s, t) ==
  /\ Shaped(t) /\ StatusKept(s, t) /\ RegsKept(s, t) /\ LoadsKept(s, t)
  /\ LoadWayKept(s, t) /\ StoreWayKept(s, t) /\ SeenKept(s, t)
  /\ t.dstAdded = s.dstAdded /\ t.sqIndex = s.sqIndex /\ t.sq = s.sq /\ t.sqTail = s.sqTail
  /\ t.dependents = s.dependents
  /\ t.head = s.head /\ t.tail = s.tail + 1
  /\ t.memOps = Put(s.memOps, s.tail + 1, NumMemOps(s.tail + 1))
  /\ t.sta = s.sta \o StaOf(s.tail + 1)

(* handle_branch and add_to_rob.                                           *)
LEMMA FetchedIs ==
  ASSUME NEW s, NEW t, Shaped(s), t = Fetched(s)
  PROVE  FetchedTo(s, t)
BY DEF FetchedTo, Put, StaOf, Shaped, Fields, Fetched, StatusKept, RegsKept, LoadsKept, LoadWayKept, StoreWayKept, SeenKept

(* add_load_queue: with the data of a store or with an entry.              *)
LEMMA AddLoadIs ==
  ASSUME NEW s, NEW n, NEW j
  PROVE  AddLoad(s, n, j) =
           IF j \notin DOMAIN trace[n].loads \/ j \in s.srcAdded[n] \/ FreeLq(s) = {} THEN s
           ELSE LET p == Producer(s, n, trace[n].loads[j])
                    i == FirstFreeLq(s)
                    u == LoadAdded(s, n, j, i, {p} \ {0})
                IN  IF CanForward(s, p, trace[n].loads[j]) THEN LoadForwarded(u, n, j, p) ELSE LoadQueued(u, n, j, i, p)
BY DEF AddLoad, Told

LoadAddedTo(s, t, n, j, i, T) ==
  /\ Shaped(t) /\ OrderKept(s, t) /\ StatusKept(s, t) /\ RegsKept(s, t) /\ StoresKept(s, t)
  /\ LoadWayKept(s, t) /\ StoreWayKept(s, t) /\ SeenKept(s, t)
  /\ t.lq = s.lq /\ t.memOps = s.memOps
  /\ t.srcAdded = Put(s.srcAdded, n, s.srcAdded[n] \cup {j})
  /\ t.lqIndex = Put(s.lqIndex, n, Put(s.lqIndex[n], j, i))
  /\ t.dependents = DependentsTold(s, n, T)

(* What both do.                                                           *)
LEMMA LoadAddedIs ==
  ASSUME NEW s, NEW t, NEW n, NEW j, NEW i, NEW T, Shaped(s), t = LoadAdded(s, n, j, i, T)
  PROVE  LoadAddedTo(s, t, n, j, i, T)
BY DEF LoadAddedTo, LoadAdded, Put, Shaped, Fields, OrderKept, StatusKept, RegsKept, StoresKept, LoadWayKept, StoreWayKept, SeenKept

(* ... with its data from the store queue ...                              *)
LoadForwardedTo(s, t, n, j, i, p) ==
  /\ Shaped(t) /\ OrderKept(s, t) /\ StatusKept(s, t) /\ RegsKept(s, t) /\ StoresKept(s, t)
  /\ LoadWayKept(s, t) /\ StoreWayKept(s, t)
  /\ t.srcAdded = Put(s.srcAdded, n, s.srcAdded[n] \cup {j})
  /\ t.lqIndex = Put(s.lqIndex, n, Put(s.lqIndex[n], j, i))
  /\ t.lq = s.lq
  /\ t.dependents = DependentsTold(s, n, {p} \ {0})
  /\ t.memOps = Put(s.memOps, n, s.memOps[n] - 1)
  /\ t.sawRegs = s.sawRegs
  /\ t.sawMem = Put(s.sawMem, n, Put(s.sawMem[n], j, p))

(* add_load_queue with a store that has its data.                          *)
LEMMA LoadForwardedIs ==
  ASSUME NEW s, NEW t, NEW n, NEW j, NEW i, NEW p, Shaped(s),
         j \in DOMAIN trace[n].loads, j \notin s.srcAdded[n], FreeLq(s) # {},
         i = FirstFreeLq(s),
         p = Producer(s, n, trace[n].loads[j]), CanForward(s, p, trace[n].loads[j]),
         t = AddLoad(s, n, j)
  PROVE  LoadForwardedTo(s, t, n, j, i, p)
<1>1. PICK u : u = LoadAdded(s, n, j, i, {p} \ {0})
  OBVIOUS
<1>2. t = LoadForwarded(u, n, j, p)
  BY <1>1, AddLoadIs
<1>3. LoadAddedTo(s, u, n, j, i, {p} \ {0})
  BY <1>1, LoadAddedIs
<1> QED BY <1>2, <1>3 DEF LoadAddedTo, LoadForwardedTo, LoadForwarded, Put, Shaped, Fields, OrderKept, StatusKept, RegsKept,
                          StoresKept, LoadWayKept, StoreWayKept, SeenKept

(* ... or with an entry of the load queue.                                 *)
LoadQueuedTo(s, t, n, j, i, p) ==
  /\ Shaped(t) /\ OrderKept(s, t) /\ StatusKept(s, t) /\ RegsKept(s, t) /\ StoresKept(s, t)
  /\ StoreWayKept(s, t) /\ SeenKept(s, t)
  /\ t.srcAdded = Put(s.srcAdded, n, s.srcAdded[n] \cup {j})
  /\ t.lqIndex = Put(s.lqIndex, n, Put(s.lqIndex[n], j, i))
  /\ t.lq = LqWith(s, i, n, j, p)
  /\ t.dependents = DependentsTold(s, n, {p} \ {0})
  /\ t.memOps = s.memOps
  /\ t.rtl0 = (IF p = 0 THEN s.rtl0 \cup {i} ELSE s.rtl0)
  /\ t.dtlbL = s.dtlbL /\ t.rtl1 = s.rtl1 /\ t.l1d = s.l1d

(* add_load_queue without one.                                             *)
LEMMA LoadQueuedIs ==
  ASSUME NEW s, NEW t, NEW n, NEW j, NEW i, NEW p, Shaped(s),
         j \in DOMAIN trace[n].loads, j \notin s.srcAdded[n], FreeLq(s) # {},
         i = FirstFreeLq(s),
         p = Producer(s, n, trace[n].loads[j]), ~CanForward(s, p, trace[n].loads[j]),
         t = AddLoad(s, n, j)
  PROVE  LoadQueuedTo(s, t, n, j, i, p)
<1>1. PICK u : u = LoadAdded(s, n, j, i, {p} \ {0})
  OBVIOUS
<1>2. t = LoadQueued(u, n, j, i, p)
  BY <1>1, AddLoadIs
<1>3. LoadAddedTo(s, u, n, j, i, {p} \ {0})
  BY <1>1, LoadAddedIs
<1> QED BY <1>2, <1>3 DEF LoadAddedTo, LoadQueuedTo, LoadQueued, LqWith, Shaped, Fields, OrderKept, StatusKept, RegsKept,
                          StoresKept, LoadWayKept, StoreWayKept, SeenKept

(* A store destination is added. *)
StoreQueuedTo(s, t, n, d) ==
  /\ Shaped(t) /\ OrderKept(s, t) /\ StatusKept(s, t) /\ RegsKept(s, t) /\ LoadsKept(s, t)
  /\ LoadWayKept(s, t) /\ SeenKept(s, t)
  /\ t.dependents = s.dependents /\ t.memOps = s.memOps
  /\ t.dstAdded = Put(s.dstAdded, n, s.dstAdded[n] \cup {d})
  /\ t.sqIndex = Put(s.sqIndex, n, Put(s.sqIndex[n], d, s.sqTail))
  /\ t.sq = SqWith(s, s.sqTail, n, d)
  /\ t.sqTail = NextSq(s)
  /\ t.sta = Tail(s.sta)
  /\ t.rts0 = s.rts0 \cup {s.sqTail} /\ t.dtlbS = s.dtlbS /\ t.rts1 = s.rts1

(* add_store_queue.                                                        *)
LEMMA StoreQueuedIs ==
  ASSUME NEW s, NEW t, NEW n, NEW d, Shaped(s),
         d \in DOMAIN trace[n].stores, d \notin s.dstAdded[n], FreeSq(s) # {}, StaAllows(s, n),
         t = AddStore(s, n, d)
  PROVE  StoreQueuedTo(s, t, n, d)
BY DEF StoreQueuedTo, Put, SqWith, Shaped, Fields, AddStore, OrderKept, StatusKept, RegsKept, LoadsKept, LoadWayKept, SeenKept

(* An instruction reads its registers.                                     *)
RegsReadTo(s, t, n) ==
  /\ Shaped(t) /\ OrderKept(s, t) /\ StatusKept(s, t) /\ RegsKept(s, t) /\ LoadsKept(s, t)
  /\ StoresKept(s, t) /\ LoadWayKept(s, t) /\ StoreWayKept(s, t)
  /\ t.dependents = s.dependents /\ t.memOps = s.memOps /\ t.sawMem = s.sawMem
  /\ t.sawRegs = Put(s.sawRegs, n, RegsRead(s, n))

(* Nothing but the history is written.                                     *)
LEMMA ReadsRegsIs ==
  ASSUME NEW s, NEW t, NEW n, Shaped(s), t = ReadsRegs(s, n)
  PROVE  RegsReadTo(s, t, n)
BY DEF RegsReadTo, Put, RegsRead, Shaped, Fields, ReadsRegs, OrderKept, StatusKept, RegsKept, LoadsKept, StoresKept, LoadWayKept, StoreWayKept

(* An instruction starts to execute. *)
Begun(s, n) == [s EXCEPT !.scheduled[n] = "completed", !.executed[n] = "inflight"]

BegunTo(s, t, n) ==
  /\ Shaped(t) /\ OrderKept(s, t) /\ RegsKept(s, t) /\ LoadsKept(s, t) /\ StoresKept(s, t)
  /\ LoadWayKept(s, t) /\ StoreWayKept(s, t) /\ SeenKept(s, t)
  /\ t.dependents = s.dependents /\ t.memOps = s.memOps
  /\ t.scheduled = Put(s.scheduled, n, "completed")
  /\ t.executed = Put(s.executed, n, "inflight")

(* execute_instruction, and the end of do_memory_scheduling.               *)
LEMMA BegunIs ==
  ASSUME NEW s, NEW t, NEW n, Shaped(s), t = Begun(s, n)
  PROVE  BegunTo(s, t, n)
BY DEF BegunTo, Put, Shaped, Fields, Begun, OrderKept, RegsKept, LoadsKept, StoresKept, LoadWayKept, StoreWayKept, SeenKept

(* An instruction is scheduled. *)
ScheduledTo(s, t, n) ==
  /\ Shaped(t) /\ OrderKept(s, t) /\ LoadsKept(s, t) /\ StoresKept(s, t)
  /\ LoadWayKept(s, t) /\ StoreWayKept(s, t) /\ SeenKept(s, t)
  /\ t.dependents = s.dependents /\ t.memOps = s.memOps /\ t.executed = s.executed
  /\ t.scheduled = Put(s.scheduled, n, IF IsMemory(n) THEN "inflight" ELSE "completed")
  /\ t.regDeps = Put(s.regDeps, n, Cardinality(RegsAwaited(s, n)))
  /\ t.wakes = WakesScheduled(s, n)

(* do_scheduling, with reg_dependency.                                     *)
LEMMA ScheduledIs ==
  ASSUME NEW s, NEW t, NEW n, Shaped(s), t = Scheduled(s, n)
  PROVE  ScheduledTo(s, t, n)
BY ZenonT(60) DEF ScheduledTo, Put, WakesScheduled, RegsAwaited, Shaped, Fields, Scheduled, OrderKept, LoadsKept, StoresKept, LoadWayKept, StoreWayKept, SeenKept

(* An instruction completes. *)
CompletedTo(s, t, n) ==
  /\ Shaped(t) /\ OrderKept(s, t) /\ LoadsKept(s, t) /\ StoresKept(s, t)
  /\ LoadWayKept(s, t) /\ StoreWayKept(s, t) /\ SeenKept(s, t)
  /\ t.dependents = s.dependents /\ t.memOps = s.memOps
  /\ t.scheduled = s.scheduled /\ t.wakes = s.wakes
  /\ t.executed = Put(s.executed, n, "completed")
  /\ t.regDeps = RegDepsCompleted(s, n)

(* complete_execution, with reg_RAW_release.                               *)
LEMMA CompletedIs ==
  ASSUME NEW s, NEW t, NEW n, Shaped(s), t = Completed(s, n)
  PROVE  CompletedTo(s, t, n)
BY DEF CompletedTo, Put, RegDepsCompleted, Shaped, Fields, Completed, OrderKept, LoadsKept, StoresKept, LoadWayKept, StoreWayKept, SeenKept

(* Loads get their data. *)
LoadedTo(s, t, I, f) ==
  /\ Shaped(t) /\ OrderKept(s, t) /\ StatusKept(s, t) /\ RegsKept(s, t) /\ StoresKept(s, t)
  /\ LoadWayKept(s, t) /\ StoreWayKept(s, t)
  /\ t.dependents = s.dependents /\ t.sawRegs = s.sawRegs
  /\ t.srcAdded = s.srcAdded /\ t.lqIndex = s.lqIndex
  /\ t.lq = LqReleased(s, I)
  /\ t.memOps = MemOpsLoaded(s, I)
  /\ t.sawMem = SawMemLoaded(s, I, f)

(* The loads of I count down and leave the load queue.                     *)
LEMMA LoadedIs ==
  ASSUME NEW s, NEW t, NEW I, NEW f, Shaped(s), t = Loaded(s, I, f)
  PROVE  LoadedTo(s, t, I, f)
BY ZenonT(60) DEF LoadedTo, LqReleased, MemOpsLoaded, SawMemLoaded, Shaped, Fields, Loaded, OrderKept, StatusKept, RegsKept, StoresKept, LoadWayKept, StoreWayKept

(* A store executes: its entry is done ... *)
StoreDone(s, k) == [s EXCEPT !.sq[k].done = TRUE, !.memOps[s.sq[k].id] = @ - 1, !.rts1 = @ \ {k}]

StoreDoneTo(s, t, k) ==
  /\ Shaped(t) /\ OrderKept(s, t) /\ StatusKept(s, t) /\ RegsKept(s, t) /\ LoadsKept(s, t)
  /\ LoadWayKept(s, t) /\ SeenKept(s, t)
  /\ t.dependents = s.dependents
  /\ t.dstAdded = s.dstAdded /\ t.sqIndex = s.sqIndex /\ t.sqTail = s.sqTail /\ t.sta = s.sta
  /\ t.sq = SqDone(s, k)
  /\ t.memOps = Put(s.memOps, s.sq[k].id, s.memOps[s.sq[k].id] - 1)
  /\ t.rts0 = s.rts0 /\ t.dtlbS = s.dtlbS /\ t.rts1 = s.rts1 \ {k}

(* The first half of execute_store.                                        *)
LEMMA StoreDoneIs ==
  ASSUME NEW s, NEW t, NEW k, Shaped(s), t = StoreDone(s, k)
  PROVE  StoreDoneTo(s, t, k)
BY DEF StoreDoneTo, Put, SqDone, Shaped, Fields, StoreDone, OrderKept, StatusKept, RegsKept, LoadsKept, LoadWayKept, SeenKept

(* ... and its data goes to the loads that wait for it. *)
LEMMA StoreExecutedIs ==
  ASSUME NEW s, NEW k
  PROVE  StoreExecuted(s, k) = Loaded(StoreDone(s, k), Targets(s, k), [a \in Addr |-> s.sq[k].id])
BY DEF StoreExecuted, StoreDone

(* The oldest instruction retires. *)
RetiredTo(s, t, n) ==
  /\ Shaped(t) /\ StatusKept(s, t) /\ LoadWayKept(s, t) /\ StoreWayKept(s, t) /\ SeenKept(s, t)
  /\ t.head = n /\ t.tail = s.tail
  /\ t.memOps = s.memOps /\ t.regDeps = s.regDeps
  /\ t.lq = s.lq /\ t.sqTail = s.sqTail /\ t.sta = s.sta
  /\ t.sq = SqRetired(s, n)
  /\ t.wakes = Put(s.wakes, n, {})
  /\ t.dependents = Put(s.dependents, n, {})
  /\ t.srcAdded = Put(s.srcAdded, n, {})
  /\ t.dstAdded = Put(s.dstAdded, n, {})
  /\ t.lqIndex = Put(s.lqIndex, n, NoIndex)
  /\ t.sqIndex = Put(s.sqIndex, n, NoIndex)

(* retire_rob.                                                             *)
LEMMA RetiredIs ==
  ASSUME NEW s, NEW t, NEW n, Shaped(s), n = s.head + 1, t = Retired(s)
  PROVE  RetiredTo(s, t, n)
BY DEF RetiredTo, Put, SqRetired, NoIndex, Shaped, Fields, Retired, StatusKept, LoadWayKept, StoreWayKept, SeenKept
-----------------------------------------------------------------------------
(* Numbers, sets and programs. *)

(* A function stays one when one of its values changes.                    *)
LEMMA Updated ==
  ASSUME NEW A, NEW B, NEW f \in [A -> B], NEW a, NEW b \in B
  PROVE  [f EXCEPT ![a] = b] \in [A -> B]
OBVIOUS

(* A set of numbers with a bound has a greatest one.                       *)
LEMMA YoungestIs ==
  ASSUME NEW N \in Nat, NEW S \in SUBSET (0 .. N), S # {}
  PROVE  Youngest(S) \in S /\ \A k \in S : k <= Youngest(S)
<1> DEFINE T == {N - k : k \in S}
<1>1. T \subseteq Nat /\ T # {}
  <2>1. \A k \in S : N - k \in Nat
    OBVIOUS
  <2> QED BY <2>1
<1> HIDE DEF T
<1>2. PICK w \in T : \A v \in T : <<v, w>> \notin OpToRel(<, Nat)
  BY <1>1, NatLessThanWellFounded, WFMin, Zenon
<1>3. \A v \in T : ~(v < w)
  BY <1>1, <1>2, Zenon DEF OpToRel
<1>4. PICK m \in S : w = N - m
  BY DEF T
<1>5. ASSUME NEW k \in S  PROVE k <= m
  <2>1. N - k \in T
    BY DEF T
  <2> QED BY <1>1, <1>3, <1>4, <2>1
<1> QED BY <1>5 DEF Youngest

(* ... and the greatest one is the youngest. *)
LEMMA YoungestUnique ==
  ASSUME NEW N \in Nat, NEW S \in SUBSET (1 .. N)
  PROVE  /\ YoungestOrNone(S) \in 0 .. N
         /\ S = {} <=> YoungestOrNone(S) = 0
         /\ S # {} => YoungestOrNone(S) \in S /\ \A k \in S : k <= YoungestOrNone(S)
         /\ \A m \in S : (\A k \in S : k <= m) => YoungestOrNone(S) = m
<1>1. CASE S = {}
  BY <1>1 DEF YoungestOrNone
<1>2. CASE S # {}
  <2>0. S \in SUBSET (0 .. N)
    OBVIOUS
  <2>1. Youngest(S) \in S /\ \A k \in S : k <= Youngest(S)
    BY <1>2, <2>0, YoungestIs
  <2>2. YoungestOrNone(S) = Youngest(S)
    BY <1>2 DEF YoungestOrNone
  <2>3. \A m \in S : m \in Nat /\ 1 <= m /\ m <= N
    OBVIOUS
  <2>4. PICK y : y = Youngest(S)
    OBVIOUS
  <2>5. y \in S /\ \A k \in S : k <= y
    BY <2>1, <2>4
  <2>6. ASSUME NEW m \in S, \A k \in S : k <= m  PROVE y = m
    <3>1. m <= y /\ y <= m
      BY <2>5, <2>6
    <3> QED BY <2>3, <2>5, <3>1
  <2>7. y # 0 /\ y \in 0 .. N
    BY <2>3, <2>5
  <2> QED BY <1>2, <2>2, <2>4, <2>5, <2>6, <2>7
<1> QED BY <1>1, <1>2

(* What is taken away from a finite set, and what is left.                 *)
LEMMA CountRest ==
  ASSUME NEW A, NEW B, IsFiniteSet(A), B \subseteq A
  PROVE  /\ IsFiniteSet(B) /\ IsFiniteSet(A \ B)
         /\ Cardinality(A) \in Nat /\ Cardinality(B) \in Nat /\ Cardinality(A \ B) \in Nat
         /\ Cardinality(A \ B) = Cardinality(A) - Cardinality(B)
<1>1. B = A \cap B /\ B \in SUBSET A
  OBVIOUS
<1>2. IsFiniteSet(B)
  BY <1>1, FS_Subset
<1>3. IsFiniteSet(A \ B) /\ Cardinality(A \ B) = Cardinality(A) - Cardinality(A \cap B)
  BY FS_Difference
<1> QED BY <1>1, <1>2, <1>3, FS_CardinalityType

(* A function on the numbers up to its length is a sequence.               *)
LEMMA SequenceIs ==
  ASSUME NEW X, NEW k \in Nat, NEW q \in [1 .. k -> X]
  PROVE  q \in Seq(X) /\ Len(q) = k
<1>1. Seq(X) = UNION {[1 .. n -> X] : n \in Nat}
  OBVIOUS
<1>2. q \in Seq(X)
  BY <1>1, Zenon
<1>3. PICK l \in Nat : l = Len(q) /\ DOMAIN q = 1 .. l
  BY <1>2, LenProperties
<1>4. DOMAIN q = 1 .. k
  OBVIOUS
<1>5. \A i : i \in 1 .. l <=> i \in 1 .. k
  BY <1>3, <1>4
<1>6. l = k
  <2>1. (l \in 1 .. l <=> l \in 1 .. k) /\ (k \in 1 .. l <=> k \in 1 .. k)
    BY <1>5
  <2> QED BY <2>1
<1> QED BY <1>2, <1>3, <1>6

(* A sequence of at most two places. *)
LEMMA PlacesAre ==
  ASSUME NEW X, NEW q \in Places(X)
  PROVE  /\ DOMAIN q \subseteq Operands /\ q \in Seq(X) /\ IsFiniteSet(DOMAIN q)
         /\ Len(q) = Cardinality(DOMAIN q) /\ (q = <<>> <=> DOMAIN q = {})
         /\ \E k \in 0 .. 2 : DOMAIN q = 1 .. k
         /\ \A i \in DOMAIN q : q[i] \in X
         /\ \A i, j \in DOMAIN q : q[i] = q[j] => i = j
<1>1. PICK k \in 0 .. 2 : q \in [1 .. k -> X]
  BY DEF Places
<1>2. DOMAIN q = 1 .. k /\ \A i \in 1 .. k : q[i] \in X
  BY <1>1
<1>3. q \in Seq(X) /\ Len(q) = k
  BY <1>1, SequenceIs, k \in Nat
<1>4. IsFiniteSet(1 .. k) /\ Cardinality(1 .. k) = k
  <2>1. k \in Int /\ 1 \in Int /\ k >= 0
    OBVIOUS
  <2>2. IsFiniteSet(1 .. k) /\ Cardinality(1 .. k) = IF 1 > k THEN 0 ELSE k - 1 + 1
    BY <2>1, FS_Interval
  <2> QED BY <2>1, <2>2
<1>5. DOMAIN q \subseteq Operands
  BY <1>2 DEF Operands
<1>6. \A i, j \in DOMAIN q : q[i] = q[j] => i = j
  BY DEF Places
<1>7. q = <<>> <=> DOMAIN q = {}
  BY <1>2, <1>3
<1> QED BY <1>2, <1>3, <1>4, <1>5, <1>6, <1>7

(* Every number of the program names an instruction.                       *)
LEMMA InstructionIs ==
  ASSUME trace \in Traces
  PROVE  /\ Len(trace) \in Nat /\ Id = 1 .. Len(trace)
         /\ \A n \in Id : trace[n] \in Instruction
         /\ \A n \in Id : /\ trace[n].reads \subseteq Reg /\ trace[n].writes \subseteq Reg
                          /\ trace[n].loads \in Places(Addr) /\ trace[n].stores \in Places(Addr)
<1>1. trace \in Seq(Instruction)
  BY TracesAssumption
<1>2. Len(trace) \in Nat /\ \A n \in 1 .. Len(trace) : trace[n] \in Instruction
  BY <1>1, LenProperties, ElementOfSeq
<1> QED BY <1>2 DEF Id, Instruction

(* The slots of the queues. *)
LEMMA SlotsFinite ==
  /\ IsFiniteSet(LqSlot) /\ IsFiniteSet(SqSlot)
  /\ Cardinality(LqSlot) = LQ_SIZE /\ Cardinality(SqSlot) = SQ_SIZE
  /\ SQ_SIZE \in Nat \ {0} /\ LQ_SIZE \in Nat \ {0} /\ ROB_SIZE \in Nat \ {0}
  /\ LqSlot \subseteq Nat \ {0} /\ SqSlot \subseteq Nat \ {0}
BY SizesAssumption, FS_Interval DEF LqSlot, SqSlot
-----------------------------------------------------------------------------
(* The invariant, part by part. *)

Status == {"no", "inflight", "completed"}
LqEntry == [id : Id, src : Operands, producer : Id \cup {0}]
SqEntry == [id : Id, dst : Operands, done : BOOLEAN]

(* The ROB holds the instructions head + 1 .. tail: none later has been    *)
(* scheduled, all earlier ones have completed.                             *)
Rob(s) ==
  /\ s.head \in Nat /\ s.tail \in Nat
  /\ s.head <= s.tail /\ s.tail <= Len(trace) /\ s.tail - s.head <= ROB_SIZE
  /\ s.scheduled \in [Id -> Status] /\ s.executed \in [Id -> Status]
  /\ \A n \in Id : n > s.tail => s.scheduled[n] = "no"
  /\ \A n \in Id : n <= s.head => s.executed[n] = "completed"
  /\ \A n \in Id : s.executed[n] # "no" => s.scheduled[n] = "completed"
  /\ \A n \in Id : s.scheduled[n] = "inflight" => IsMemory(n)

(* Each register that an instruction waits for is going to be woken by     *)
(* exactly one older instruction, and num_reg_dependent counts them.       *)
Wakes(s, m, n, r) == <<n, r>> \in s.wakes[m]
AwaitedRegs(s, n) == {r \in Reg : \E m \in Id : Wakes(s, m, n, r) /\ s.executed[m] # "completed"}

Registers(s) ==
  /\ s.regDeps \in [Id -> Int] /\ s.wakes \in [Id -> SUBSET (Id \X Reg)]
  /\ \A m, n \in Id : \A r \in Reg : Wakes(s, m, n, r) => m < n /\ s.scheduled[n] # "no"
  /\ \A m, k, n \in Id : \A r \in Reg : Wakes(s, m, n, r) /\ Wakes(s, k, n, r) => m = k
  /\ \A n \in Id : s.regDeps[n] = Cardinality(AwaitedRegs(s, n))
  /\ \A n \in Id : s.executed[n] # "no" => s.regDeps[n] = 0

(* lq_index of the ROB and rob_index of the load queue agree.              *)
LoadQueue(s) ==
  /\ s.srcAdded \in [Id -> SUBSET Operands]
  /\ s.lqIndex \in [Id -> [Operands -> LqSlot \cup {0}]]
  /\ s.lq \in [LqSlot -> LqEntry \cup {NoLoad}]
  /\ \A n \in Id : s.srcAdded[n] \subseteq DOMAIN trace[n].loads /\ (s.srcAdded[n] # {} => n \in InRob(s))
  /\ \A n \in Id : \A j \in s.srcAdded[n] : s.lqIndex[n][j] \in LqSlot
  /\ \A i \in LqSlot : s.lq[i].id # 0 =>
       s.lq[i].src \in s.srcAdded[s.lq[i].id] /\ s.lqIndex[s.lq[i].id][s.lq[i].src] = i

(* sq_index of the ROB and rob_index of the store queue agree, in both     *)
(* directions: a store keeps its entry until it retires.                   *)
StoreQueue(s) ==
  /\ s.dstAdded \in [Id -> SUBSET Operands]
  /\ s.sqIndex \in [Id -> [Operands -> SqSlot \cup {0}]]
  /\ s.sq \in [SqSlot -> SqEntry \cup {NoStore}]
  /\ s.sqTail \in SqSlot
  /\ \A n \in Id : s.dstAdded[n] \subseteq DOMAIN trace[n].stores /\ (s.dstAdded[n] # {} => n \in InRob(s))
  /\ \A n \in Id : \A d \in s.dstAdded[n] :
       s.sqIndex[n][d] \in SqSlot /\ s.sq[s.sqIndex[n][d]].id = n /\ s.sq[s.sqIndex[n][d]].dst = d
  /\ \A k \in SqSlot : s.sq[k].id # 0 =>
       s.sq[k].dst \in s.dstAdded[s.sq[k].id] /\ s.sqIndex[s.sq[k].id][s.sq[k].dst] = k

(* The STA is in program order, and what is in the store queue is older.   *)
Sta(s) ==
  /\ s.sta \in Seq(Id)
  /\ \A i, j \in 1 .. Len(s.sta) : i <= j => s.sta[i] <= s.sta[j]
  /\ \A i \in 1 .. Len(s.sta) : s.sta[i] <= s.tail
  /\ \A k \in SqSlot : \A i \in 1 .. Len(s.sta) : s.sq[k].id <= s.sta[i]

(* The slot that was filled x stores ago; the slots filled after an        *)
(* occupied one are occupied, by younger stores.                           *)
Slot(s, x) == ((s.sqTail - 1 - x + SQ_SIZE) % SQ_SIZE) + 1
Ring(s) ==
  \A x, y \in SqSlot : x <= y /\ s.sq[Slot(s, y)].id # 0 =>
    s.sq[Slot(s, x)].id # 0 /\ s.sq[Slot(s, y)].id <= s.sq[Slot(s, x)].id

(* A store that has not executed is in exactly one stage.                  *)
Undone(s) == {k \in SqSlot : s.sq[k].id # 0 /\ ~s.sq[k].done}
StoreWay(s) ==
  /\ s.rts0 \cup s.dtlbS \cup s.rts1 = Undone(s)
  /\ s.rts0 \cap s.dtlbS = {} /\ s.rts0 \cap s.rts1 = {} /\ s.dtlbS \cap s.rts1 = {}
LoadWay(s) ==
  s.rtl0 \subseteq LqSlot /\ s.dtlbL \subseteq LqSlot /\ s.rtl1 \subseteq LqSlot /\ s.l1d \subseteq LqSlot

(* num_mem_ops counts the accesses still to be made.                       *)
LoadsOf(s, n) == {i \in LqSlot : s.lq[i].id = n}
StoresOf(s, n) == {k \in SqSlot : s.sq[k].id = n /\ ~s.sq[k].done}
Unadded(s, n) ==
  Cardinality(DOMAIN trace[n].loads \ s.srcAdded[n]) + Cardinality(DOMAIN trace[n].stores \ s.dstAdded[n])
Accounted(s, n) ==
  s.memOps[n] = Unadded(s, n) + Cardinality(LoadsOf(s, n)) + Cardinality(StoresOf(s, n))
Ops(s) ==
  /\ s.memOps \in [Id -> Int]
  /\ \A n \in Id : IF n \in InRob(s) THEN Accounted(s, n) ELSE s.memOps[n] = 0
  /\ \A n \in Id : s.executed[n] = "completed" => s.memOps[n] = 0
  /\ \A n \in Id : n \in InRob(s) /\ s.scheduled[n] = "completed" =>
       s.srcAdded[n] = DOMAIN trace[n].loads /\ s.dstAdded[n] = DOMAIN trace[n].stores

Queues(s) ==
  /\ Shaped(s) /\ Rob(s) /\ Registers(s) /\ LoadQueue(s) /\ StoreQueue(s)
  /\ Sta(s) /\ Ring(s) /\ StoreWay(s) /\ LoadWay(s) /\ Ops(s)
  /\ s.dependents \in [Id -> SUBSET Id]

-----------------------------------------------------------------------------
(* The order of the instructions. *)

(* A number between head and tail names an instruction.                    *)
LEMMA InRobIs ==
  ASSUME trace \in Traces, NEW s, Rob(s)
  PROVE  /\ InRob(s) \subseteq Id
         /\ \A n : n \in InRob(s) <=> n \in Id /\ s.head < n /\ n <= s.tail
BY SMTT(60), InstructionIs DEF Rob, InRob

(* The next instruction comes last.                                        *)
LEMMA RobFetched ==
  ASSUME trace \in Traces, NEW s, NEW t, Rob(s), StatusKept(s, t), t.head = s.head, t.tail = s.tail + 1,
         s.tail < Len(trace), s.tail - s.head < ROB_SIZE
  PROVE  Rob(t)
BY SMTT(60), InstructionIs, SizesAssumption DEF Rob, StatusKept

(* An instruction of the ROB is scheduled ...                              *)
LEMMA RobScheduled ==
  ASSUME trace \in Traces, NEW s, NEW t, Rob(s), NEW n \in InRob(s), OrderKept(s, t), t.executed = s.executed,
         s.scheduled[n] = "no",
         t.scheduled = Put(s.scheduled, n, IF IsMemory(n) THEN "inflight" ELSE "completed")
  PROVE  Rob(t)
<1> USE DEF Put
<1>1. n \in Id /\ n <= s.tail
  BY InRobIs
<1>2. t.scheduled \in [Id -> Status] /\ \A m \in Id : m # n => t.scheduled[m] = s.scheduled[m]
  BY <1>1 DEF Rob, Status
<1>3. t.scheduled[n] = IF IsMemory(n) THEN "inflight" ELSE "completed"
  BY <1>1 DEF Rob
<1>4. s.executed[n] = "no"
  BY <1>1 DEF Rob
<1>5. ASSUME NEW m \in Id
      PROVE  /\ m > s.tail => t.scheduled[m] = "no"
             /\ s.executed[m] # "no" => t.scheduled[m] = "completed"
             /\ t.scheduled[m] = "inflight" => IsMemory(m)
  <2>1. CASE m = n
    BY <1>1, <1>3, <1>4, <2>1, InstructionIs DEF Rob
  <2>2. CASE m # n
    BY <1>2, <2>2 DEF Rob
  <2> QED BY <2>1, <2>2
<1> QED BY <1>2, <1>5 DEF Rob, OrderKept

(* ... starts to execute ...                                               *)
LEMMA RobBegun ==
  ASSUME trace \in Traces, NEW s, NEW t, Rob(s), NEW n \in InRob(s), OrderKept(s, t),
         t.executed = Put(s.executed, n, "inflight"),
         t.scheduled \in [Id -> Status], t.scheduled[n] = "completed",
         \A m \in Id : m # n => t.scheduled[m] = s.scheduled[m]
  PROVE  Rob(t)
<1> USE DEF Put
<1>1. n \in Id /\ n <= s.tail /\ s.head < n /\ s.head \in Nat
  BY InRobIs DEF Rob
<1>2. /\ t.executed \in [Id -> Status] /\ t.executed[n] = "inflight"
      /\ \A m \in Id : m # n => t.executed[m] = s.executed[m]
  BY <1>1 DEF Rob, Status
<1>3. ASSUME NEW m \in Id
      PROVE  /\ m > s.tail => t.scheduled[m] = "no"
             /\ m <= s.head => t.executed[m] = "completed"
             /\ t.executed[m] # "no" => t.scheduled[m] = "completed"
             /\ t.scheduled[m] = "inflight" => IsMemory(m)
  <2>1. CASE m = n
    BY <1>1, <1>2, <2>1, InstructionIs DEF Rob
  <2>2. CASE m # n
    BY <1>2, <2>2 DEF Rob
  <2> QED BY <2>1, <2>2
<1> QED BY <1>2, <1>3 DEF Rob, OrderKept

(* ... and completes.                                                      *)
LEMMA RobCompleted ==
  ASSUME trace \in Traces, NEW s, NEW t, Rob(s), NEW n \in InRob(s), OrderKept(s, t),
         s.executed[n] = "inflight", t.scheduled = s.scheduled,
         t.executed = Put(s.executed, n, "completed")
  PROVE  Rob(t)
<1> USE DEF Put
<1>1. n \in Id
  BY InRobIs
<1>2. /\ t.executed \in [Id -> Status] /\ t.executed[n] = "completed"
      /\ \A m \in Id : m # n => t.executed[m] = s.executed[m]
  BY <1>1 DEF Rob, Status
<1> QED BY <1>1, <1>2 DEF Rob, OrderKept

(* The oldest one leaves the ROB, completed.                               *)
LEMMA RobRetired ==
  ASSUME trace \in Traces, NEW s, NEW t, Rob(s), StatusKept(s, t), t.head = s.head + 1, t.tail = s.tail,
         s.head < s.tail, s.executed[s.head + 1] = "completed"
  PROVE  Rob(t)
<1>1. \A n \in Id : n <= s.head + 1 => n <= s.head \/ n = s.head + 1
  BY InstructionIs DEF Rob
<1>2. s.head + 1 \in Nat /\ s.head + 1 <= s.tail /\ s.tail - (s.head + 1) <= ROB_SIZE
  BY SMTT(60), SizesAssumption DEF Rob
<1> QED BY <1>1, <1>2 DEF Rob, StatusKept
-----------------------------------------------------------------------------
(* Registers. *)

(* An instruction waits for finitely many registers.                       *)
LEMMA AwaitedFinite ==
  ASSUME NEW s, NEW n
  PROVE  AwaitedRegs(s, n) \subseteq Reg /\ IsFiniteSet(AwaitedRegs(s, n)) /\ Cardinality(AwaitedRegs(s, n)) \in Nat
<1>1. AwaitedRegs(s, n) \in SUBSET Reg
  BY DEF AwaitedRegs
<1>2. IsFiniteSet(AwaitedRegs(s, n))
  BY <1>1, TracesAssumption, FS_Subset
<1> QED BY <1>1, <1>2, FS_CardinalityType

(* Other handlers do not touch the registers that are awaited.             *)
LEMMA RegistersKept ==
  ASSUME NEW s, NEW t, Registers(s), RegsKept(s, t), StatusKept(s, t)
  PROVE  Registers(t)
<1>1. \A n \in Id : AwaitedRegs(t, n) = AwaitedRegs(s, n)
  BY DEF RegsKept, StatusKept, AwaitedRegs, Wakes
<1> QED BY <1>1 DEF Registers, RegsKept, StatusKept, Wakes

(* The youngest writer of a register that has not executed.                *)
LEMMA RegProducerIs ==
  ASSUME trace \in Traces, NEW s, Rob(s), NEW n \in InRob(s), NEW r
  PROVE  /\ RegProducer(s, n, r) \in 0 .. (n - 1)
         /\ RegProducer(s, n, r) # 0 => RegProducer(s, n, r) \in Writers(s, n, r)
         /\ \A m \in Writers(s, n, r) : RegProducer(s, n, r) # 0 /\ m <= RegProducer(s, n, r)
         /\ Writers(s, n, r) \subseteq Id
<1>1. n \in Nat /\ n - 1 \in Nat /\ n \in Id /\ s.head \in Nat
  BY InRobIs, InstructionIs DEF Rob
<1>2. Writers(s, n, r) \in SUBSET (1 .. (n - 1))
  BY <1>1 DEF Writers, Older
<1>3. Writers(s, n, r) \subseteq Id
  BY <1>1, <1>2, InstructionIs
<1>4. /\ RegProducer(s, n, r) \in 0 .. (n - 1)
      /\ Writers(s, n, r) = {} <=> RegProducer(s, n, r) = 0
      /\ Writers(s, n, r) # {} =>
           RegProducer(s, n, r) \in Writers(s, n, r) /\ \A k \in Writers(s, n, r) : k <= RegProducer(s, n, r)
  BY <1>1, <1>2, YoungestUnique DEF RegProducer
<1> QED BY <1>3, <1>4

(* The instruction that is scheduled waits for the youngest writer of each *)
(* of its registers that has not completed, once.                          *)
LEMMA RegistersScheduled ==
  ASSUME trace \in Traces, NEW s, NEW t, Rob(s), Registers(s), NEW n \in InRob(s), s.scheduled[n] = "no",
         t.executed = s.executed,
         t.scheduled = Put(s.scheduled, n, IF IsMemory(n) THEN "inflight" ELSE "completed"),
         t.regDeps = Put(s.regDeps, n, Cardinality(RegsAwaited(s, n))),
         t.wakes = WakesScheduled(s, n)
  PROVE  Registers(t)
<1> USE DEF Put, WakesScheduled, RegsAwaited
<1> DEFINE W == {r \in trace[n].reads : RegProducer(s, n, r) # 0}
<1>1. n \in Id /\ trace[n].reads \subseteq Reg /\ s.executed[n] = "no"
  BY InRobIs, InstructionIs DEF Rob
<1>2. W \in SUBSET Reg /\ IsFiniteSet(W) /\ Cardinality(W) \in Nat
  <2>1. W \in SUBSET Reg
    BY <1>1
  <2> HIDE DEF W
  <2> QED BY <2>1, TracesAssumption, FS_Subset, FS_CardinalityType
<1>3. \A m \in Id : t.wakes[m] = s.wakes[m] \cup {<<n, r>> : r \in {x \in W : RegProducer(s, n, x) = m}}
  OBVIOUS
<1>4. \A m, k \in Id : \A r \in Reg :
        Wakes(t, m, k, r) <=> Wakes(s, m, k, r) \/ (k = n /\ r \in W /\ RegProducer(s, n, r) = m)
  <2> HIDE DEF W
  <2> QED BY <1>3 DEF Wakes
<1>5. t.wakes \in [Id -> SUBSET (Id \X Reg)]
  <2>1. \A m \in Id : s.wakes[m] \in SUBSET (Id \X Reg)
    BY DEF Registers
  <2>2. \A m \in Id : s.wakes[m] \cup {<<n, r>> : r \in {x \in W : RegProducer(s, n, x) = m}} \in SUBSET (Id \X Reg)
    <3> HIDE DEF W
    <3> QED BY <1>1, <1>2, <2>1
  <2> QED BY <2>2
<1>6. \A r \in W : /\ RegProducer(s, n, r) \in Id /\ RegProducer(s, n, r) < n
                   /\ s.executed[RegProducer(s, n, r)] # "completed"
  BY <1>1, RegProducerIs, InstructionIs DEF Writers
<1> HIDE DEF W
<1>7. /\ \A m \in Id : m # n => t.scheduled[m] = s.scheduled[m]
      /\ t.scheduled[n] # "no"
  BY <1>1 DEF Rob
<1>8. \A m \in Id : \A r \in Reg : ~Wakes(s, m, n, r)
  BY <1>1 DEF Registers
<1>9. AwaitedRegs(t, n) = W
  <2>1. ASSUME NEW r \in W  PROVE r \in AwaitedRegs(t, n)
    <3>1. PICK m \in Id : m = RegProducer(s, n, r) /\ s.executed[m] # "completed"
      BY <1>6
    <3>2. r \in Reg /\ Wakes(t, m, n, r)
      BY <1>1, <1>2, <1>4, <3>1
    <3> QED BY <3>1, <3>2 DEF AwaitedRegs
  <2>2. ASSUME NEW r \in AwaitedRegs(t, n)  PROVE r \in W
    BY <1>1, <1>4, <1>8 DEF AwaitedRegs
  <2> QED BY <2>1, <2>2
<1>10. \A k \in Id : k # n => AwaitedRegs(t, k) = AwaitedRegs(s, k)
  BY <1>4 DEF AwaitedRegs
<1>11. /\ t.regDeps[n] = Cardinality(W) /\ t.regDeps \in [Id -> Int]
       /\ \A k \in Id : k # n => t.regDeps[k] = s.regDeps[k]
  <2>1. t.regDeps = [s.regDeps EXCEPT ![n] = Cardinality(W)]
    BY DEF W
  <2>2. PICK c \in Nat : c = Cardinality(W)
    BY <1>2
  <2>3. s.regDeps \in [Id -> Int] /\ t.regDeps = [s.regDeps EXCEPT ![n] = c]
    BY <2>1, <2>2 DEF Registers
  <2>4. t.regDeps[n] = c
    BY <1>1, <2>3
  <2>5. \A k \in Id : k # n => t.regDeps[k] = s.regDeps[k]
    BY <1>1, <2>3
  <2>6. t.regDeps \in [Id -> Int]
    BY <2>3, c \in Int, Updated
  <2> QED BY <2>2, <2>4, <2>5, <2>6
<1>12. \A k \in Id : t.regDeps[k] = Cardinality(AwaitedRegs(t, k))
  BY <1>9, <1>10, <1>11 DEF Registers
<1>13. \A m, k \in Id : \A r \in Reg : Wakes(t, m, k, r) => m < k /\ t.scheduled[k] # "no"
  BY <1>4, <1>6, <1>7 DEF Registers
<1>14. \A m, l, k \in Id : \A r \in Reg : Wakes(t, m, k, r) /\ Wakes(t, l, k, r) => m = l
  BY <1>4, <1>8 DEF Registers
<1>15. \A k \in Id : t.executed[k] # "no" => t.regDeps[k] = 0
  BY <1>1, <1>11 DEF Registers
<1> QED BY <1>5, <1>11, <1>12, <1>13, <1>14, <1>15 DEF Registers

(* What starts to execute waits for nothing.                               *)
LEMMA RegistersBegun ==
  ASSUME trace \in Traces, NEW s, NEW t, Rob(s), Registers(s), NEW n \in InRob(s), RegReady(s, n), s.executed[n] = "no",
         RegsKept(s, t), t.executed = Put(s.executed, n, "inflight"),
         t.scheduled[n] = "completed", \A m \in Id : m # n => t.scheduled[m] = s.scheduled[m]
  PROVE  Registers(t)
<1> USE DEF Put
<1>1. n \in Id
  BY InRobIs
<1>2. t.executed[n] = "inflight" /\ \A m \in Id : m # n => t.executed[m] = s.executed[m]
  BY <1>1 DEF Rob
<1>3. \A m \in Id : t.executed[m] # "completed" <=> s.executed[m] # "completed"
  BY <1>2
<1>4. \A m, k, r : Wakes(t, m, k, r) <=> Wakes(s, m, k, r)
  BY DEF RegsKept, Wakes
<1>5. \A k \in Id : AwaitedRegs(t, k) = AwaitedRegs(s, k)
  BY <1>3, <1>4 DEF AwaitedRegs
<1>6. \A k \in Id : t.executed[k] # "no" => t.regDeps[k] = 0
  BY <1>2 DEF Registers, RegReady, RegsKept
<1>7. \A k \in Id : s.scheduled[k] # "no" => t.scheduled[k] # "no"
  OBVIOUS
<1>8. t.regDeps = s.regDeps /\ t.wakes = s.wakes
  BY DEF RegsKept
<1> QED BY <1>4, <1>5, <1>6, <1>7, <1>8 DEF Registers

(* What completes wakes each instruction once for each register it is      *)
(* awaited for.                                                            *)
LEMMA RegistersCompleted ==
  ASSUME trace \in Traces, NEW s, NEW t, Rob(s), Registers(s), NEW n \in InRob(s), s.executed[n] = "inflight",
         t.scheduled = s.scheduled, t.wakes = s.wakes,
         t.executed = Put(s.executed, n, "completed"),
         t.regDeps = RegDepsCompleted(s, n)
  PROVE  Registers(t)
<1> USE DEF Put, RegDepsCompleted
<1>1. n \in Id
  BY InRobIs
<1>2. t.executed[n] = "completed" /\ \A m \in Id : m # n => t.executed[m] = s.executed[m]
  BY <1>1 DEF Rob
<1>3. \A m, k, r : Wakes(t, m, k, r) <=> Wakes(s, m, k, r)
  BY DEF Wakes
<1>4. ASSUME NEW k \in Id
      PROVE  /\ t.regDeps[k] = Cardinality(AwaitedRegs(t, k)) /\ t.regDeps[k] \in Int
             /\ t.executed[k] # "no" => t.regDeps[k] = 0
  <2> DEFINE B == {r \in Reg : <<k, r>> \in s.wakes[n]}
  <2>1. B \subseteq AwaitedRegs(s, k)
    BY <1>1 DEF AwaitedRegs, Wakes
  <2>2. AwaitedRegs(t, k) = AwaitedRegs(s, k) \ B
    <3>1. ASSUME NEW r \in AwaitedRegs(t, k)  PROVE r \in AwaitedRegs(s, k) \ B
      <4>1. PICK m \in Id : r \in Reg /\ Wakes(s, m, k, r) /\ t.executed[m] # "completed"
        BY <1>3, <3>1 DEF AwaitedRegs
      <4>2. m # n /\ s.executed[m] # "completed"
        BY <1>2, <4>1
      <4>3. r \notin B
        BY <1>1, <4>1, <4>2 DEF Registers, Wakes
      <4> QED BY <4>1, <4>2, <4>3 DEF AwaitedRegs
    <3>2. ASSUME NEW r \in AwaitedRegs(s, k), r \notin B  PROVE r \in AwaitedRegs(t, k)
      <4>1. PICK m \in Id : r \in Reg /\ Wakes(s, m, k, r) /\ s.executed[m] # "completed"
        BY <3>2 DEF AwaitedRegs
      <4>2. m # n
        BY <3>2, <4>1 DEF Wakes
      <4> QED BY <1>2, <1>3, <4>1, <4>2 DEF AwaitedRegs
    <3> QED BY <3>1, <3>2
  <2>3. t.regDeps[k] = s.regDeps[k] - Cardinality(B)
    OBVIOUS
  <2> HIDE DEF B
  <2>4. /\ Cardinality(AwaitedRegs(t, k)) = Cardinality(AwaitedRegs(s, k)) - Cardinality(B)
        /\ Cardinality(B) \in Nat /\ Cardinality(AwaitedRegs(t, k)) \in Nat
        /\ Cardinality(AwaitedRegs(s, k)) \in Nat
    <3>1. IsFiniteSet(AwaitedRegs(s, k))
      BY AwaitedFinite
    <3> QED BY <2>1, <2>2, <3>1, CountRest
  <2>5. s.regDeps[k] = Cardinality(AwaitedRegs(s, k))
    BY DEF Registers
  <2>6. t.regDeps[k] = Cardinality(AwaitedRegs(t, k))
    BY <2>3, <2>4, <2>5
  <2>7. t.executed[k] # "no" => s.regDeps[k] = 0
    BY <1>1, <1>2 DEF Registers
  <2> QED BY <2>3, <2>4, <2>5, <2>6, <2>7
<1>5. t.regDeps \in [Id -> Int]
  BY <1>4
<1> QED BY <1>3, <1>4, <1>5 DEF Registers

(* What retires has woken all who waited for it.                           *)
LEMMA RegistersRetired ==
  ASSUME trace \in Traces, NEW s, NEW t, Rob(s), Registers(s), s.head < s.tail, s.executed[s.head + 1] = "completed",
         StatusKept(s, t), t.regDeps = s.regDeps, t.wakes = Put(s.wakes, s.head + 1, {})
  PROVE  Registers(t)
<1> USE DEF Put
<1> DEFINE n == s.head + 1
<1>1. n \in Id
  BY InstructionIs DEF Rob
<1>2. /\ t.wakes \in [Id -> SUBSET (Id \X Reg)] /\ t.wakes[n] = {}
      /\ \A m \in Id : m # n => t.wakes[m] = s.wakes[m]
  BY <1>1 DEF Registers
<1> HIDE DEF n
<1>3. \A m \in Id : \A k, r : Wakes(t, m, k, r) <=> Wakes(s, m, k, r) /\ m # n
  BY <1>2 DEF Wakes
<1>4. \A k \in Id : AwaitedRegs(t, k) = AwaitedRegs(s, k)
  <2>1. s.executed[n] = "completed" /\ t.executed = s.executed
    BY DEF n, StatusKept
  <2> QED BY <1>3, <2>1 DEF AwaitedRegs
<1>5. t.scheduled = s.scheduled /\ t.executed = s.executed
  BY DEF StatusKept
<1> QED BY <1>2, <1>3, <1>4, <1>5 DEF Registers
-----------------------------------------------------------------------------
(* The load queue. *)

(* Other handlers do not touch the load queue.                             *)
LEMMA LoadQueueKept ==
  ASSUME trace \in Traces, NEW s, NEW t, Rob(s), LoadQueue(s), LoadsKept(s, t),
         t.head = s.head, t.tail \in {s.tail, s.tail + 1}
  PROVE  LoadQueue(t)
<1>1. InRob(s) \subseteq InRob(t)
  BY DEF Rob, InRob
<1> QED BY <1>1 DEF LoadQueue, LoadsKept

(* The load queue entry i of a source and of no other ...                  *)
LEMMA FreeLqIs ==
  ASSUME NEW s, LoadQueue(s), FreeLq(s) # {}, NEW i, i = FirstFreeLq(s)
  PROVE  i \in LqSlot /\ s.lq[i].id = 0
<1> USE DEF FirstFreeLq
<1>1. FreeLq(s) \subseteq LqSlot /\ FreeLq(s) \subseteq Nat
  BY SlotsFinite DEF FreeLq
<1>2. PICK w \in FreeLq(s) : \A v \in FreeLq(s) : <<v, w>> \notin OpToRel(<, Nat)
  BY <1>1, NatLessThanWellFounded, WFMin, Zenon
<1>3. \A v \in FreeLq(s) : ~(v < w)
  BY <1>1, <1>2, Zenon DEF OpToRel
<1>4. \A v \in FreeLq(s) : w <= v
  BY <1>1, <1>3
<1>5. i \in FreeLq(s)
  BY SMTT(60), <1>4
<1> QED BY <1>1, <1>5 DEF FreeLq

(* ... is taken, or stays free if the data is there. *)
LEMMA LoadQueueAdded ==
  ASSUME trace \in Traces, NEW s, NEW t, Rob(s), LoadQueue(s), NEW n \in InRob(s),
         NEW j \in DOMAIN trace[n].loads, j \notin s.srcAdded[n], NEW i \in LqSlot, s.lq[i].id = 0,
         OrderKept(s, t),
         t.srcAdded = Put(s.srcAdded, n, s.srcAdded[n] \cup {j}),
         t.lqIndex = Put(s.lqIndex, n, Put(s.lqIndex[n], j, i)),
         \/ t.lq = s.lq
         \/ \E p \in Id \cup {0} : t.lq = LqWith(s, i, n, j, p)
  PROVE  LoadQueue(t)
<1> USE DEF LqWith, Put
<1>1. n \in Id /\ j \in Operands /\ InRob(t) = InRob(s) /\ n # 0
  BY InRobIs, InstructionIs, PlacesAre DEF InRob, OrderKept
<1>2. /\ t.srcAdded \in [Id -> SUBSET Operands] /\ t.srcAdded[n] = s.srcAdded[n] \cup {j}
      /\ \A m \in Id : m # n => t.srcAdded[m] = s.srcAdded[m]
  <2>1. s.srcAdded \in [Id -> SUBSET Operands] /\ s.srcAdded[n] \cup {j} \in SUBSET Operands
    BY <1>1 DEF LoadQueue
  <2> QED BY <1>1, <2>1
<1>3. /\ t.lqIndex \in [Id -> [Operands -> LqSlot \cup {0}]] /\ t.lqIndex[n][j] = i
      /\ \A m \in Id : \A k \in Operands : m # n \/ k # j => t.lqIndex[m][k] = s.lqIndex[m][k]
  <2>1. PICK f : f = s.lqIndex[n]
    OBVIOUS
  <2>2. f \in [Operands -> LqSlot \cup {0}] /\ s.lqIndex \in [Id -> [Operands -> LqSlot \cup {0}]]
    BY <1>1, <2>1 DEF LoadQueue
  <2>3. PICK g : g = [f EXCEPT ![j] = i]
    OBVIOUS
  <2>4. g \in [Operands -> LqSlot \cup {0}] /\ t.lqIndex = [s.lqIndex EXCEPT ![n] = g]
    BY <2>1, <2>2, <2>3, Updated
  <2>5. t.lqIndex \in [Id -> [Operands -> LqSlot \cup {0}]]
    <3>1. [s.lqIndex EXCEPT ![n] = g] \in [Id -> [Operands -> LqSlot \cup {0}]]
      BY <2>2, <2>4, Updated
    <3> QED BY <2>4, <3>1
  <2>6. t.lqIndex[n] = g /\ \A m \in Id : m # n => t.lqIndex[m] = s.lqIndex[m]
    BY <1>1, <2>2, <2>4
  <2>7. t.lqIndex[n][j] = i /\ \A k \in Operands : k # j => t.lqIndex[n][k] = f[k]
    BY <1>1, <2>2, <2>3, <2>6
  <2> QED BY <2>1, <2>5, <2>6, <2>7
<1>4. ASSUME NEW m \in Id
      PROVE  /\ t.srcAdded[m] \subseteq DOMAIN trace[m].loads /\ (t.srcAdded[m] # {} => m \in InRob(t))
             /\ \A k \in t.srcAdded[m] : t.lqIndex[m][k] \in LqSlot
  <2>1. /\ s.srcAdded[m] \subseteq DOMAIN trace[m].loads /\ (s.srcAdded[m] # {} => m \in InRob(s))
        /\ \A k \in s.srcAdded[m] : s.lqIndex[m][k] \in LqSlot
        /\ s.srcAdded[m] \subseteq Operands
    BY DEF LoadQueue
  <2> QED BY <1>1, <1>2, <1>3, <2>1
<1>5. t.lq \in [LqSlot -> LqEntry \cup {NoLoad}] /\ \A k \in LqSlot : t.lq[k] = s.lq[k] \/ (k = i /\ t.lq[k].id = n /\ t.lq[k].src = j)
  <2>1. s.lq \in [LqSlot -> LqEntry \cup {NoLoad}]
    BY DEF LoadQueue
  <2>2. CASE t.lq = s.lq
    BY <2>1, <2>2
  <2>3. CASE \E p \in Id \cup {0} : t.lq = [s.lq EXCEPT ![i] = [id |-> n, src |-> j, producer |-> p]]
    <3>1. PICK p \in Id \cup {0} : t.lq = [s.lq EXCEPT ![i] = [id |-> n, src |-> j, producer |-> p]]
      BY <2>3
    <3>2. PICK e : e = [id |-> n, src |-> j, producer |-> p]
      OBVIOUS
    <3>3. e \in LqEntry /\ e.id = n /\ e.src = j
      BY <1>1, <3>2 DEF LqEntry
    <3>4. t.lq = [s.lq EXCEPT ![i] = e]
      BY <3>1, <3>2
    <3>5. t.lq \in [LqSlot -> LqEntry \cup {NoLoad}]
      BY <2>1, <3>3, <3>4, Updated
    <3> QED BY <2>1, <3>3, <3>4, <3>5
  <2> QED BY <2>2, <2>3
<1>6. ASSUME NEW k \in LqSlot, t.lq[k].id # 0
      PROVE  t.lq[k].src \in t.srcAdded[t.lq[k].id] /\ t.lqIndex[t.lq[k].id][t.lq[k].src] = k
  <2>1. CASE t.lq[k] = s.lq[k]
    <3>1. PICK m, l : m = s.lq[k].id /\ l = s.lq[k].src
      OBVIOUS
    <3>2. m \in Id /\ l \in Operands /\ l \in s.srcAdded[m] /\ s.lqIndex[m][l] = k
      <4>1. s.lq[k] \in LqEntry
        BY <1>6, <2>1 DEF LoadQueue, NoLoad
      <4> QED BY <1>6, <2>1, <3>1, <4>1 DEF LoadQueue, LqEntry
    <3>3. m # n \/ l # j
      BY <3>2
    <3> QED BY <1>2, <1>3, <2>1, <3>1, <3>2, <3>3
  <2>2. CASE k = i /\ t.lq[k].id = n /\ t.lq[k].src = j
    BY <1>2, <1>3, <2>2
  <2> QED BY <1>5, <2>1, <2>2
<1> QED BY <1>2, <1>3, <1>4, <1>5, <1>6 DEF LoadQueue

(* Entries are given back. *)
LEMMA LoadQueueReleased ==
  ASSUME NEW s, NEW t, NEW I, LoadQueue(s), OrderKept(s, t),
         t.srcAdded = s.srcAdded, t.lqIndex = s.lqIndex,
         t.lq = LqReleased(s, I)
  PROVE  LoadQueue(t)
<1> USE DEF LqReleased
<1>1. t.lq \in [LqSlot -> LqEntry \cup {NoLoad}]
  BY DEF LoadQueue
<1>2. \A i \in LqSlot : t.lq[i].id # 0 => t.lq[i] = s.lq[i]
  BY DEF NoLoad
<1>3. InRob(t) = InRob(s)
  BY SMTT(60) DEF InRob, OrderKept
<1> QED BY <1>1, <1>2, <1>3 DEF LoadQueue

(* The oldest instruction leaves, none of its loads being in the queue.    *)
LEMMA LoadQueueRetired ==
  ASSUME trace \in Traces, NEW s, NEW t, Rob(s), LoadQueue(s), NEW n, n = s.head + 1, s.head < s.tail,
         t.head = n, t.tail = s.tail, LoadsOf(s, n) = {}, t.lq = s.lq,
         t.srcAdded = Put(s.srcAdded, n, {}),
         t.lqIndex = Put(s.lqIndex, n, NoIndex)
  PROVE  LoadQueue(t)
<1> USE DEF Put, NoIndex
<1>1. n \in Id /\ \A m : m \in InRob(t) <=> m \in InRob(s) /\ m # n
  BY InstructionIs DEF Rob, InRob
<1>2. /\ t.srcAdded \in [Id -> SUBSET Operands] /\ t.srcAdded[n] = {}
      /\ \A m \in Id : m # n => t.srcAdded[m] = s.srcAdded[m]
  <2>1. s.srcAdded \in [Id -> SUBSET Operands]
    BY DEF LoadQueue
  <2> QED BY <1>1, <2>1
<1>3. /\ t.lqIndex \in [Id -> [Operands -> LqSlot \cup {0}]]
      /\ \A m \in Id : m # n => t.lqIndex[m] = s.lqIndex[m]
  <2>1. s.lqIndex \in [Id -> [Operands -> LqSlot \cup {0}]] /\ [j \in Operands |-> 0] \in [Operands -> LqSlot \cup {0}]
    BY DEF LoadQueue
  <2> QED BY <1>1, <2>1, Updated
<1>4. \A i \in LqSlot : s.lq[i].id # n
  BY DEF LoadsOf
<1>5. \A i \in LqSlot : s.lq[i].id # 0 => s.lq[i].id \in Id
  BY DEF LoadQueue, NoLoad, LqEntry
<1>6. \A m \in Id : /\ t.srcAdded[m] \subseteq DOMAIN trace[m].loads /\ (t.srcAdded[m] # {} => m \in InRob(t))
                    /\ \A k \in t.srcAdded[m] : t.lqIndex[m][k] \in LqSlot
  BY <1>1, <1>2, <1>3 DEF LoadQueue
<1>7. \A i \in LqSlot : t.lq[i].id # 0 =>
        t.lq[i].src \in t.srcAdded[t.lq[i].id] /\ t.lqIndex[t.lq[i].id][t.lq[i].src] = i
  BY SMTT(60), <1>2, <1>3, <1>4, <1>5 DEF LoadQueue
<1> QED BY <1>2, <1>3, <1>6, <1>7 DEF LoadQueue
-----------------------------------------------------------------------------
(* The store queue. *)

(* Other handlers do not touch the store queue.                            *)
LEMMA StoreQueueKept ==
  ASSUME trace \in Traces, NEW s, NEW t, Rob(s), StoreQueue(s),
         t.dstAdded = s.dstAdded, t.sqIndex = s.sqIndex, t.sq = s.sq, t.sqTail = s.sqTail,
         t.head = s.head, t.tail \in {s.tail, s.tail + 1}
  PROVE  StoreQueue(t)
<1>1. InRob(s) \subseteq InRob(t)
  BY DEF Rob, InRob
<1> QED BY <1>1 DEF StoreQueue

(* Every entry is free or belongs to a store of the ROB.                   *)
LEMMA SqEntryIs ==
  ASSUME trace \in Traces, NEW s, Rob(s), StoreQueue(s), NEW k \in SqSlot
  PROVE  /\ s.sq[k].id \in Nat
         /\ s.sq[k].id # 0 =>
              /\ s.sq[k] \in SqEntry /\ s.sq[k].id \in InRob(s) /\ s.sq[k].id \in Id
              /\ s.sq[k].dst \in Operands /\ s.sq[k].done \in BOOLEAN
<1>1. s.sq[k] \in SqEntry \cup {NoStore}
  BY DEF StoreQueue
<1>2. CASE s.sq[k] = NoStore
  BY <1>2 DEF NoStore
<1>3. CASE s.sq[k] \in SqEntry
  <2>1. s.sq[k].id \in Id /\ s.sq[k].dst \in Operands /\ s.sq[k].done \in BOOLEAN
    BY <1>3 DEF SqEntry
  <2>2. s.sq[k].id # 0 => s.sq[k].dst \in s.dstAdded[s.sq[k].id]
    BY DEF StoreQueue
  <2>3. s.sq[k].id # 0 => s.sq[k].id \in InRob(s)
    BY <2>1, <2>2 DEF StoreQueue
  <2> QED BY <1>3, <2>1, <2>3, InstructionIs
<1> QED BY <1>1, <1>2, <1>3

(* Destination d of store n takes the entry at the tail ...                *)
EntryAdded(s, t, n, d) ==
  /\ t.sq[s.sqTail].id = n /\ t.sq[s.sqTail].done = FALSE
  /\ \A k \in SqSlot : k # s.sqTail => t.sq[k] = s.sq[k]
  /\ t.dstAdded[n] = s.dstAdded[n] \cup {d}
  /\ \A m \in Id : m # n => t.dstAdded[m] = s.dstAdded[m]

(* ... and is found in it.                                                 *)
LEMMA StoreQueueAdded ==
  ASSUME trace \in Traces, NEW s, NEW t, Rob(s), StoreQueue(s), NEW n \in InRob(s),
         NEW d \in DOMAIN trace[n].stores, d \notin s.dstAdded[n], s.sq[s.sqTail].id = 0,
         t.sqTail \in SqSlot, StoreQueuedTo(s, t, n, d)
  PROVE  StoreQueue(t) /\ EntryAdded(s, t, n, d)
<1> USE DEF Put, SqWith
<1>a. /\ OrderKept(s, t)
      /\ t.dstAdded = Put(s.dstAdded, n, s.dstAdded[n] \cup {d})
      /\ t.sqIndex = Put(s.sqIndex, n, Put(s.sqIndex[n], d, s.sqTail))
      /\ t.sq = SqWith(s, s.sqTail, n, d)
  BY DEF StoreQueuedTo
<1>0. PICK i \in SqSlot : i = s.sqTail
  BY DEF StoreQueue
<1>1. n \in Id /\ d \in Operands /\ InRob(t) = InRob(s) /\ n # 0
  BY <1>a, InRobIs, InstructionIs, PlacesAre DEF InRob, OrderKept
<1>2. /\ t.dstAdded \in [Id -> SUBSET Operands] /\ t.dstAdded[n] = s.dstAdded[n] \cup {d}
      /\ \A m \in Id : m # n => t.dstAdded[m] = s.dstAdded[m]
  <2>1. s.dstAdded \in [Id -> SUBSET Operands] /\ s.dstAdded[n] \cup {d} \in SUBSET Operands
    BY <1>1 DEF StoreQueue
  <2> QED BY <1>a, <1>1, <2>1
<1>3. /\ t.sqIndex \in [Id -> [Operands -> SqSlot \cup {0}]] /\ t.sqIndex[n][d] = i
      /\ \A m \in Id : \A k \in Operands : m # n \/ k # d => t.sqIndex[m][k] = s.sqIndex[m][k]
  <2>1. PICK f : f = s.sqIndex[n]
    OBVIOUS
  <2>2. f \in [Operands -> SqSlot \cup {0}] /\ s.sqIndex \in [Id -> [Operands -> SqSlot \cup {0}]]
    BY <1>1, <2>1 DEF StoreQueue
  <2>3. PICK g : g = [f EXCEPT ![d] = i]
    OBVIOUS
  <2>4. g \in [Operands -> SqSlot \cup {0}] /\ t.sqIndex = [s.sqIndex EXCEPT ![n] = g]
    BY <1>a, <1>0, <2>1, <2>2, <2>3, Updated
  <2>5. t.sqIndex \in [Id -> [Operands -> SqSlot \cup {0}]]
    <3>1. [s.sqIndex EXCEPT ![n] = g] \in [Id -> [Operands -> SqSlot \cup {0}]]
      BY <2>2, <2>4, Updated
    <3> QED BY <2>4, <3>1
  <2>6. t.sqIndex[n] = g /\ \A m \in Id : m # n => t.sqIndex[m] = s.sqIndex[m]
    BY <1>1, <2>2, <2>4
  <2>7. t.sqIndex[n][d] = i /\ \A k \in Operands : k # d => t.sqIndex[n][k] = f[k]
    BY <1>1, <2>2, <2>3, <2>6
  <2> QED BY <2>1, <2>5, <2>6, <2>7
<1>4. /\ t.sq \in [SqSlot -> SqEntry \cup {NoStore}]
      /\ t.sq[i].id = n /\ t.sq[i].dst = d /\ t.sq[i].done = FALSE
      /\ \A k \in SqSlot : k # i => t.sq[k] = s.sq[k]
  <2>1. PICK e : e = [id |-> n, dst |-> d, done |-> FALSE]
    OBVIOUS
  <2>2. e \in SqEntry /\ e.id = n /\ e.dst = d /\ e.done = FALSE
    BY <1>1, <2>1 DEF SqEntry
  <2>3. s.sq \in [SqSlot -> SqEntry \cup {NoStore}] /\ t.sq = [s.sq EXCEPT ![i] = e]
    BY <1>a, <1>0, <2>1 DEF StoreQueue
  <2>4. t.sq \in [SqSlot -> SqEntry \cup {NoStore}]
    BY <2>2, <2>3, Updated
  <2> QED BY <2>2, <2>3, <2>4
<1>5. ASSUME NEW m \in Id
      PROVE  /\ t.dstAdded[m] \subseteq DOMAIN trace[m].stores /\ (t.dstAdded[m] # {} => m \in InRob(t))
             /\ \A k \in t.dstAdded[m] :
                  t.sqIndex[m][k] \in SqSlot /\ t.sq[t.sqIndex[m][k]].id = m /\ t.sq[t.sqIndex[m][k]].dst = k
  <2>1. s.dstAdded[m] \subseteq DOMAIN trace[m].stores /\ (s.dstAdded[m] # {} => m \in InRob(s))
    BY DEF StoreQueue
  <2>2. ASSUME NEW k \in t.dstAdded[m]
        PROVE  t.sqIndex[m][k] \in SqSlot /\ t.sq[t.sqIndex[m][k]].id = m /\ t.sq[t.sqIndex[m][k]].dst = k
    <3>1. k \in Operands
      BY <1>2
    <3>2. CASE m = n /\ k = d
      BY <1>3, <1>4, <3>2
    <3>3. CASE ~(m = n /\ k = d)
      <4>1. PICK l : l = s.sqIndex[m][k]
        OBVIOUS
      <4>2. k \in s.dstAdded[m] /\ t.sqIndex[m][k] = l
        BY SMTT(60), <1>2, <1>3, <3>1, <3>3, <4>1
      <4>3. l \in SqSlot /\ s.sq[l].id = m /\ s.sq[l].dst = k
        BY <4>1, <4>2 DEF StoreQueue
      <4>4. m # 0
        BY InstructionIs
      <4>5. l # i
        BY <1>0, <4>3, <4>4
      <4> QED BY <1>4, <4>2, <4>3, <4>5
    <3> QED BY <3>2, <3>3
  <2> QED BY <1>1, <1>2, <2>1, <2>2
<1>6. ASSUME NEW k \in SqSlot, t.sq[k].id # 0
      PROVE  t.sq[k].dst \in t.dstAdded[t.sq[k].id] /\ t.sqIndex[t.sq[k].id][t.sq[k].dst] = k
  <2>1. CASE k = i
    BY <1>2, <1>3, <1>4, <2>1
  <2>2. CASE k # i
    <3>1. PICK m, l : m = s.sq[k].id /\ l = s.sq[k].dst
      OBVIOUS
    <3>2. t.sq[k] = s.sq[k] /\ m # 0
      BY SMTT(60), <1>4, <1>6, <2>2, <3>1
    <3>3. m \in Id /\ l \in Operands /\ l \in s.dstAdded[m] /\ s.sqIndex[m][l] = k
      BY SMTT(60), <3>1, <3>2, SqEntryIs DEF StoreQueue
    <3>4. m # n \/ l # d
      BY <3>3
    <3> QED BY <1>2, <1>3, <3>1, <3>2, <3>3, <3>4
  <2> QED BY <2>1, <2>2
<1>7. StoreQueue(t)
  BY <1>0, <1>2, <1>3, <1>4, <1>5, <1>6 DEF StoreQueue
<1>8. EntryAdded(s, t, n, d)
  BY <1>0, <1>2, <1>4 DEF EntryAdded
<1> QED BY <1>7, <1>8

(* An entry gets its data: ...                                             *)
EntryDone(s, t, k) ==
  /\ \A l \in SqSlot : t.sq[l].id = s.sq[l].id /\ t.sq[l].dst = s.sq[l].dst
  /\ t.sq[k].done = TRUE /\ \A l \in SqSlot : l # k => t.sq[l] = s.sq[l]

(* ... nothing else changes.                                               *)
LEMMA StoreQueueDone ==
  ASSUME trace \in Traces, NEW s, NEW t, Rob(s), StoreQueue(s), NEW k \in SqSlot, s.sq[k].id # 0, StoreDoneTo(s, t, k)
  PROVE  StoreQueue(t) /\ EntryDone(s, t, k)
<1>a. OrderKept(s, t) /\ t.dstAdded = s.dstAdded /\ t.sqIndex = s.sqIndex /\ t.sqTail = s.sqTail /\ t.sq = SqDone(s, k)
  BY DEF StoreDoneTo
<1> USE <1>a DEF SqDone
<1>1. PICK e : e = [s.sq[k] EXCEPT !.done = TRUE]
  OBVIOUS
<1>2. s.sq[k] \in SqEntry
  BY SqEntryIs
<1>3. e \in SqEntry /\ e.id = s.sq[k].id /\ e.dst = s.sq[k].dst /\ e.done = TRUE
  BY <1>1, <1>2 DEF SqEntry
<1>4. s.sq \in [SqSlot -> SqEntry \cup {NoStore}] /\ t.sq = [s.sq EXCEPT ![k] = e]
  BY <1>1 DEF StoreQueue
<1>5. t.sq \in [SqSlot -> SqEntry \cup {NoStore}]
  BY ZenonT(60), <1>3, <1>4, Updated
<1>6. t.sq[k] = e /\ \A l \in SqSlot : l # k => t.sq[l] = s.sq[l]
  BY <1>4
<1>7. \A l \in SqSlot : t.sq[l].id = s.sq[l].id /\ t.sq[l].dst = s.sq[l].dst
  BY <1>3, <1>6
<1>8. InRob(t) = InRob(s)
  BY SMTT(60) DEF InRob, OrderKept
<1>9. StoreQueue(t)
  <2>1. \A n \in Id : \A d \in t.dstAdded[n] :
          t.sqIndex[n][d] \in SqSlot /\ t.sq[t.sqIndex[n][d]].id = n /\ t.sq[t.sqIndex[n][d]].dst = d
    BY SMTT(60), <1>7 DEF StoreQueue
  <2>2. \A l \in SqSlot : t.sq[l].id # 0 =>
          t.sq[l].dst \in t.dstAdded[t.sq[l].id] /\ t.sqIndex[t.sq[l].id][t.sq[l].dst] = l
    BY SMTT(60), <1>7 DEF StoreQueue
  <2> QED BY <1>5, <1>8, <2>1, <2>2 DEF StoreQueue
<1> QED BY <1>3, <1>6, <1>7, <1>9 DEF EntryDone

(* The oldest instruction's stores leave the queue. *)
LEMMA StoreQueueRetired ==
  ASSUME trace \in Traces, NEW s, NEW t, Rob(s), StoreQueue(s), NEW n, n = s.head + 1, s.head < s.tail,
         t.head = n, t.tail = s.tail, t.sqTail = s.sqTail,
         t.sq = SqRetired(s, n),
         t.dstAdded = Put(s.dstAdded, n, {}),
         t.sqIndex = Put(s.sqIndex, n, NoIndex)
  PROVE  /\ StoreQueue(t)
         /\ \A k \in SqSlot : t.sq[k] = IF s.sq[k].id = n THEN NoStore ELSE s.sq[k]
<1> USE DEF Put, SqRetired, NoIndex
<1>1. n \in Id /\ \A m : m \in InRob(t) <=> m \in InRob(s) /\ m # n
  BY SMTT(60), InstructionIs DEF Rob, InRob
<1>2. /\ t.dstAdded \in [Id -> SUBSET Operands] /\ t.dstAdded[n] = {}
      /\ \A m \in Id : m # n => t.dstAdded[m] = s.dstAdded[m]
  <2>1. s.dstAdded \in [Id -> SUBSET Operands]
    BY DEF StoreQueue
  <2> QED BY SMTT(60), <1>1, <2>1
<1>3. /\ t.sqIndex \in [Id -> [Operands -> SqSlot \cup {0}]]
      /\ \A m \in Id : m # n => t.sqIndex[m] = s.sqIndex[m]
  <2>1. s.sqIndex \in [Id -> [Operands -> SqSlot \cup {0}]] /\ [d \in Operands |-> 0] \in [Operands -> SqSlot \cup {0}]
    BY SMTT(60) DEF StoreQueue
  <2> QED BY SMTT(60), <1>1, <2>1, Updated
<1>4. \A k \in SqSlot : (\E d \in s.dstAdded[n] : s.sqIndex[n][d] = k) <=> s.sq[k].id = n
  <2>1. n # 0
    BY <1>1, InstructionIs
  <2> QED BY <1>1, <2>1 DEF StoreQueue
<1>5. \A k \in SqSlot : t.sq[k] = IF s.sq[k].id = n THEN NoStore ELSE s.sq[k]
  BY SMTT(60), <1>4
<1>6. t.sq \in [SqSlot -> SqEntry \cup {NoStore}]
  BY SMTT(60) DEF StoreQueue
<1>7. ASSUME NEW m \in Id
      PROVE  /\ t.dstAdded[m] \subseteq DOMAIN trace[m].stores /\ (t.dstAdded[m] # {} => m \in InRob(t))
             /\ \A k \in t.dstAdded[m] :
                  t.sqIndex[m][k] \in SqSlot /\ t.sq[t.sqIndex[m][k]].id = m /\ t.sq[t.sqIndex[m][k]].dst = k
  <2>1. CASE m = n
    BY SMTT(60), <1>2, <2>1
  <2>2. CASE m # n
    BY SMTT(60), <1>1, <1>2, <1>3, <1>5, <2>2 DEF StoreQueue
  <2> QED BY <2>1, <2>2
<1>8. ASSUME NEW k \in SqSlot, t.sq[k].id # 0
      PROVE  t.sq[k].dst \in t.dstAdded[t.sq[k].id] /\ t.sqIndex[t.sq[k].id][t.sq[k].dst] = k
  <2>1. t.sq[k] = s.sq[k] /\ s.sq[k].id # n
    BY <1>5, <1>8 DEF NoStore
  <2>2. s.sq[k].id \in Id
    BY SMTT(60), <1>8, <2>1, SqEntryIs
  <2>3. /\ s.sq[k].dst \in s.dstAdded[s.sq[k].id]
        /\ s.sqIndex[s.sq[k].id][s.sq[k].dst] = k
    BY SMTT(60), <1>8, <2>1 DEF StoreQueue
  <2>4. /\ t.dstAdded[s.sq[k].id] = s.dstAdded[s.sq[k].id]
        /\ t.sqIndex[s.sq[k].id] = s.sqIndex[s.sq[k].id]
    BY SMTT(60), <1>2, <1>3, <2>1, <2>2
  <2> QED BY <2>1, <2>3, <2>4
<1> QED BY <1>2, <1>3, <1>5, <1>6, <1>7, <1>8 DEF StoreQueue
-----------------------------------------------------------------------------
(* The STA and the order of the ring. *)

(* The stores of the instruction that is fetched come last. *)
LEMMA StaFetched ==
  ASSUME trace \in Traces, NEW s, NEW t, Rob(s), StoreQueue(s), Sta(s), s.tail < Len(trace),
         t.tail = s.tail + 1, t.sq = s.sq,
         t.sta = s.sta \o StaOf(s.tail + 1)
  PROVE  Sta(t)
<1> USE DEF StaOf
<1> DEFINE q == [d \in DOMAIN trace[s.tail + 1].stores |-> s.tail + 1]
<1>1. s.tail + 1 \in Id /\ s.tail \in Nat /\ s.sta \in Seq(Id) /\ Len(s.sta) \in Nat /\ Id \subseteq Nat
  <2>1. s.tail + 1 \in Id /\ s.tail \in Nat /\ Id \subseteq Nat
    BY InstructionIs DEF Rob
  <2>2. s.sta \in Seq(Id)
    BY DEF Sta
  <2>3. Len(s.sta) \in Nat
    BY <2>2
  <2> QED BY <2>1, <2>2, <2>3
<1>2. PICK k \in 0 .. 2 : DOMAIN trace[s.tail + 1].stores = 1 .. k
  <2>1. PICK p : p = trace[s.tail + 1].stores
    OBVIOUS
  <2>2. p \in Places(Addr)
    BY <1>1, <2>1, InstructionIs
  <2>3. \E k \in 0 .. 2 : DOMAIN p = 1 .. k
    BY <2>2, PlacesAre
  <2> QED BY <2>1, <2>3
<1>3. q = [d \in 1 .. k |-> s.tail + 1] /\ k \in Nat
  BY <1>2
<1>4. q \in Seq(Id) /\ Len(q) = k /\ \A i \in 1 .. k : q[i] = s.tail + 1
  <2>1. q \in [1 .. k -> Id] /\ \A i \in 1 .. k : q[i] = s.tail + 1
    BY <1>1, <1>3
  <2> QED BY <1>3, <2>1, SequenceIs
<1> HIDE DEF q
<1>5. /\ s.sta \o q \in Seq(Id) /\ Len(s.sta \o q) = Len(s.sta) + Len(q)
      /\ \A i \in 1 .. Len(s.sta) + Len(q) : (s.sta \o q)[i] = IF i <= Len(s.sta) THEN s.sta[i] ELSE q[i - Len(s.sta)]
  BY <1>1, <1>4, ConcatProperties
<1>6. t.sta = s.sta \o q
  BY DEF q
<1>7. /\ t.sta \in Seq(Id) /\ Len(t.sta) = Len(s.sta) + k
      /\ \A i \in 1 .. Len(t.sta) : IF i <= Len(s.sta) THEN t.sta[i] = s.sta[i] ELSE t.sta[i] = s.tail + 1
  <2>1. \A i \in 1 .. Len(s.sta) + k : i > Len(s.sta) => i - Len(s.sta) \in 1 .. k
    BY <1>1, <1>2
  <2>2. t.sta \in Seq(Id) /\ Len(t.sta) = Len(s.sta) + k
    BY <1>4, <1>5, <1>6
  <2>3. ASSUME NEW i \in 1 .. Len(t.sta)
        PROVE  IF i <= Len(s.sta) THEN t.sta[i] = s.sta[i] ELSE t.sta[i] = s.tail + 1
    <3>1. i \in 1 .. Len(s.sta) + k /\ i \in 1 .. Len(s.sta) + Len(q)
      BY <1>4, <2>2
    <3>2. t.sta[i] = IF i <= Len(s.sta) THEN s.sta[i] ELSE q[i - Len(s.sta)]
      BY <1>5, <1>6, <3>1
    <3>3. CASE i <= Len(s.sta)
      BY <3>2, <3>3
    <3>4. CASE ~(i <= Len(s.sta))
      <4>1. i - Len(s.sta) \in 1 .. k
        BY <1>1, <2>1, <3>1, <3>4
      <4> QED BY <1>4, <3>2, <3>4, <4>1
    <3> QED BY <3>3, <3>4
  <2> QED BY <2>2, <2>3
<1>8. \A i \in 1 .. Len(s.sta) : s.sta[i] \in Nat /\ s.sta[i] <= s.tail
  <2>1. \A i \in 1 .. Len(s.sta) : s.sta[i] \in Id
    BY <1>1, ElementOfSeq
  <2> QED BY <1>1, <2>1 DEF Sta
<1>9. \A l \in SqSlot : s.sq[l].id \in Nat /\ s.sq[l].id <= s.tail
  <2>1. \A l \in SqSlot : s.sq[l].id \in Nat /\ (s.sq[l].id # 0 => s.sq[l].id \in InRob(s))
    BY SqEntryIs
  <2> QED BY <2>1, <1>1, InRobIs
<1>10. \A i, j \in 1 .. Len(t.sta) : i <= j => t.sta[i] <= t.sta[j]
  <2> SUFFICES ASSUME NEW i \in 1 .. Len(t.sta), NEW j \in 1 .. Len(t.sta), i <= j  PROVE t.sta[i] <= t.sta[j]
    OBVIOUS
  <2>1. CASE j <= Len(s.sta)
    <3>1. i \in 1 .. Len(s.sta) /\ j \in 1 .. Len(s.sta)
      BY <1>1, <2>1
    <3> QED BY <1>1, <1>7, <2>1, <3>1 DEF Sta
  <2>2. CASE j > Len(s.sta)
    <3>1. t.sta[j] = s.tail + 1
      BY SMTT(60), <1>1, <1>7, <2>2
    <3>2. CASE i <= Len(s.sta)
      BY SMTT(60), <1>1, <1>7, <1>8, <3>1, <3>2
    <3>3. CASE i > Len(s.sta)
      BY SMTT(60), <1>1, <1>7, <3>1, <3>3
    <3> QED BY <1>1, <3>2, <3>3
  <2> QED BY <1>1, <2>1, <2>2
<1>11. ASSUME NEW i \in 1 .. Len(t.sta)
       PROVE  t.sta[i] <= s.tail + 1 /\ \A l \in SqSlot : s.sq[l].id <= t.sta[i]
  <2>1. CASE i <= Len(s.sta)
    BY SMTT(60), <1>1, <1>7, <1>8, <2>1 DEF Sta
  <2>2. CASE i > Len(s.sta)
    <3>1. t.sta[i] = s.tail + 1
      BY <1>1, <1>7, <2>2
    <3>2. \A l \in SqSlot : s.sq[l].id <= s.tail + 1
      BY <1>1, <1>9
    <3> QED BY SMTT(60), <1>1, <3>1, <3>2
  <2> QED BY SMTT(60), <1>1, <2>1, <2>2
<1> QED BY <1>7, <1>10, <1>11 DEF Sta

(* No entry of the store queue becomes younger. *)
LEMMA StaKept ==
  ASSUME trace \in Traces, NEW s, NEW t, Sta(s), t.tail = s.tail, t.sta = s.sta,
         \A k \in SqSlot : t.sq[k].id \in {s.sq[k].id, 0}
  PROVE  Sta(t)
<1>1. \A i \in 1 .. Len(s.sta) : s.sta[i] \in Nat
  BY SMTT(60), InstructionIs DEF Sta
<1> QED BY <1>1 DEF Sta

(* The oldest store that is not in the queue enters it.                    *)
LEMMA StaAdded ==
  ASSUME trace \in Traces, NEW s, NEW t, Sta(s), NEW n, StaAllows(s, n),
         t.tail = s.tail, t.sta = Tail(s.sta),
         \A k \in SqSlot : t.sq[k].id \in {s.sq[k].id, n}
  PROVE  Sta(t) /\ \A k \in SqSlot : s.sq[k].id <= n
<1>1. s.sta \in Seq(Id) /\ s.sta # <<>> /\ Len(s.sta) \in Nat /\ Id \subseteq Nat
  BY InstructionIs DEF Sta, StaAllows
<1>2. /\ Tail(s.sta) \in Seq(Id) /\ Len(Tail(s.sta)) = Len(s.sta) - 1
      /\ \A i \in 1 .. Len(Tail(s.sta)) : Tail(s.sta)[i] = s.sta[i + 1]
  BY <1>1, HeadTailProperties
<1>3. n = s.sta[1] /\ 1 \in 1 .. Len(s.sta)
  BY <1>1 DEF StaAllows
<1>4. \A i \in 1 .. Len(t.sta) : i + 1 \in 1 .. Len(s.sta) /\ 1 <= i + 1 /\ t.sta[i] = s.sta[i + 1]
  BY <1>1, <1>2
<1>5. \A i \in 1 .. Len(t.sta) : n <= t.sta[i]
  BY <1>3, <1>4 DEF Sta
<1>6. \A i, j \in 1 .. Len(t.sta) : i <= j => t.sta[i] <= t.sta[j]
  <2>1. \A i, j \in 1 .. Len(t.sta) : i <= j => i + 1 <= j + 1
    OBVIOUS
  <2> QED BY <1>4, <2>1 DEF Sta
<1>7. \A i \in 1 .. Len(t.sta) : t.sta[i] <= t.tail /\ \A k \in SqSlot : t.sq[k].id <= t.sta[i]
  BY <1>4, <1>5 DEF Sta
<1>8. \A k \in SqSlot : s.sq[k].id <= n
  BY <1>3 DEF Sta
<1> QED BY <1>2, <1>6, <1>7, <1>8 DEF Sta

(* Slots are counted backwards from the tail, around the ring.             *)
LEMMA SlotIs ==
  ASSUME NEW s, s.sqTail \in SqSlot, NEW x \in SqSlot
  PROVE  /\ Slot(s, x) = IF x < s.sqTail THEN s.sqTail - x ELSE s.sqTail - x + SQ_SIZE
         /\ Slot(s, x) \in SqSlot
<1>1. PICK N \in Nat \ {0}, h \in Nat : N = SQ_SIZE /\ h = s.sqTail /\ 1 <= h /\ h <= N
  BY SlotsFinite DEF SqSlot
<1>2. x \in Nat /\ 1 <= x /\ x <= N
  BY <1>1, SlotsFinite DEF SqSlot
<1>3. CASE x < h
  <2>1. h - 1 - x \in 0 .. N - 1
    BY <1>1, <1>2, <1>3
  <2>2. ((h - 1 - x) + N) % N = h - 1 - x
    BY <2>1
  <2>3. h - 1 - x + N = (h - 1 - x) + N
    BY <1>1, <1>2
  <2>4. Slot(s, x) = ((h - 1 - x + N) % N) + 1
    BY <1>1 DEF Slot
  <2>5. Slot(s, x) = h - x
    BY <1>1, <1>2, <2>2, <2>3, <2>4
  <2>6. h - x \in 1 .. N
    BY <1>1, <1>2, <1>3
  <2> QED BY <1>1, <1>3, <2>5, <2>6 DEF SqSlot
<1>4. CASE x >= h
  <2>1. h - 1 - x + N \in 0 .. N - 1
    BY <1>1, <1>2, <1>4
  <2>2. (h - 1 - x + N) % N = h - 1 - x + N
    BY <2>1
  <2>3. Slot(s, x) = ((h - 1 - x + N) % N) + 1
    BY <1>1 DEF Slot
  <2>4. Slot(s, x) = h - x + N
    BY <1>1, <1>2, <2>2, <2>3
  <2>5. h - x + N \in 1 .. N
    BY <1>1, <1>2, <1>4
  <2> QED BY <1>1, <1>2, <1>4, <2>4, <2>5 DEF SqSlot
<1> QED BY <1>1, <1>2, <1>3, <1>4

(* The tail moves on by one, around the ring.                              *)
LEMMA NextSqIs ==
  ASSUME NEW s, s.sqTail \in SqSlot
  PROVE  /\ NextSq(s) = IF s.sqTail < SQ_SIZE THEN s.sqTail + 1 ELSE 1
         /\ NextSq(s) \in SqSlot
<1>1. PICK N \in Nat \ {0}, h \in Nat : N = SQ_SIZE /\ h = s.sqTail /\ 1 <= h /\ h <= N
  BY SlotsFinite DEF SqSlot
<1>2. CASE h < N
  <2>1. h \in 0 .. N - 1
    BY <1>1, <1>2
  <2>2. h % N = h
    BY <2>1
  <2>3. NextSq(s) = (h % N) + 1
    BY <1>1 DEF NextSq
  <2>4. h + 1 \in 1 .. N
    BY <1>1, <1>2
  <2> QED BY <1>1, <1>2, <2>2, <2>3, <2>4 DEF SqSlot
<1>3. CASE h = N
  <2>1. NextSq(s) = (h % N) + 1
    BY <1>1 DEF NextSq
  <2>2. N % N = 0
    OBVIOUS
  <2> QED BY <1>1, <1>3, <2>1, <2>2 DEF SqSlot
<1> QED BY <1>1, <1>2, <1>3

(* Every slot is some distance behind the tail.                            *)
LEMMA SlotOnto ==
  ASSUME NEW s, s.sqTail \in SqSlot, NEW k \in SqSlot
  PROVE  \E x \in SqSlot : Slot(s, x) = k
<1>1. /\ SQ_SIZE \in Nat /\ s.sqTail \in Nat /\ 1 <= s.sqTail /\ s.sqTail <= SQ_SIZE
      /\ k \in Nat /\ 1 <= k /\ k <= SQ_SIZE
  BY SlotsFinite DEF SqSlot
<1>2. CASE k < s.sqTail
  <2>1. s.sqTail - k \in SqSlot /\ s.sqTail - k < s.sqTail
    BY <1>1, <1>2 DEF SqSlot
  <2>2. Slot(s, s.sqTail - k) = s.sqTail - (s.sqTail - k)
    BY <2>1, SlotIs
  <2>3. Slot(s, s.sqTail - k) = k
    BY <1>1, <2>2
  <2> QED BY <2>1, <2>3
<1>3. CASE k >= s.sqTail
  <2>1. s.sqTail - k + SQ_SIZE \in SqSlot /\ ~(s.sqTail - k + SQ_SIZE < s.sqTail)
    BY <1>1, <1>3 DEF SqSlot
  <2>2. Slot(s, s.sqTail - k + SQ_SIZE) = s.sqTail - (s.sqTail - k + SQ_SIZE) + SQ_SIZE
    BY <2>1, SlotIs
  <2>3. Slot(s, s.sqTail - k + SQ_SIZE) = k
    BY <1>1, <2>2
  <2> QED BY <2>1, <2>3
<1> QED BY <1>1, <1>2, <1>3

(* If any entry is free, the one at the tail is: the assertion of          *)
(* add_store_queue (src/src/ooo_cpu.cc:1237).                              *)
LEMMA TailIsFree ==
  ASSUME NEW s, StoreQueue(s), Ring(s), FreeSq(s) # {}
  PROVE  s.sq[s.sqTail].id = 0
<1>1. s.sqTail \in SqSlot /\ SQ_SIZE \in SqSlot /\ SQ_SIZE \in Nat /\ s.sqTail \in Nat
  BY SlotsFinite DEF StoreQueue, SqSlot
<1>2. Slot(s, SQ_SIZE) = s.sqTail
  <2>1. ~(SQ_SIZE < s.sqTail)
    BY <1>1 DEF SqSlot
  <2>2. Slot(s, SQ_SIZE) = s.sqTail - SQ_SIZE + SQ_SIZE
    BY <1>1, <2>1, SlotIs
  <2> QED BY <1>1, <2>2
<1>3. PICK k \in SqSlot : s.sq[k].id = 0
  BY DEF FreeSq
<1>4. PICK x \in SqSlot : Slot(s, x) = k
  BY <1>1, SlotOnto
<1>5. x <= SQ_SIZE
  BY <1>1 DEF SqSlot
<1>6. s.sq[s.sqTail].id # 0 => s.sq[k].id # 0
  BY <1>1, <1>2, <1>4, <1>5 DEF Ring
<1> QED BY <1>3, <1>6

(* A store that enters the queue becomes the first behind the tail.        *)
LEMMA SlotNext ==
  ASSUME NEW s, NEW t, s.sqTail \in SqSlot, t.sqTail = NextSq(s)
  PROVE  /\ t.sqTail \in SqSlot /\ Slot(t, 1) = s.sqTail /\ 1 \in SqSlot
         /\ \A x \in SqSlot : x # 1 =>
              x - 1 \in SqSlot /\ Slot(t, x) = Slot(s, x - 1) /\ Slot(t, x) # s.sqTail
<1>1. PICK N \in Nat \ {0}, h \in Nat : N = SQ_SIZE /\ h = s.sqTail /\ 1 <= h /\ h <= N
  BY SlotsFinite DEF SqSlot
<1>2. t.sqTail = (IF h < N THEN h + 1 ELSE 1) /\ t.sqTail \in SqSlot
  BY <1>1, NextSqIs
<1>3. 1 \in SqSlot
  BY <1>1 DEF SqSlot
<1>4. Slot(t, 1) = h
  <2>1. Slot(t, 1) = IF 1 < t.sqTail THEN t.sqTail - 1 ELSE t.sqTail - 1 + SQ_SIZE
    BY <1>2, <1>3, SlotIs
  <2>2. CASE h < N
    BY <1>1, <1>2, <2>1, <2>2
  <2>3. CASE h = N
    BY <1>1, <1>2, <2>1, <2>3
  <2> QED BY <1>1, <2>2, <2>3
<1>5. ASSUME NEW x \in SqSlot, x # 1
      PROVE  x - 1 \in SqSlot /\ Slot(t, x) = Slot(s, x - 1) /\ Slot(t, x) # h
  <2>1. x \in Nat /\ 2 <= x /\ x <= N /\ x - 1 \in SqSlot
    BY <1>1, <1>5 DEF SqSlot
  <2>2. Slot(t, x) = IF x < t.sqTail THEN t.sqTail - x ELSE t.sqTail - x + SQ_SIZE
    BY <1>2, SlotIs
  <2>3. Slot(s, x - 1) = IF x - 1 < s.sqTail THEN s.sqTail - (x - 1) ELSE s.sqTail - (x - 1) + SQ_SIZE
    BY <2>1, SlotIs
  <2>4. CASE h < N
    BY <1>1, <1>2, <2>1, <2>2, <2>3, <2>4
  <2>5. CASE h = N
    BY <1>1, <1>2, <2>1, <2>2, <2>3, <2>5
  <2> QED BY <1>1, <2>1, <2>4, <2>5
<1> QED BY <1>1, <1>2, <1>3, <1>4, <1>5

(* The youngest store comes first.                                         *)
LEMMA RingAdded ==
  ASSUME NEW s, NEW t, Ring(s), NEW n \in Nat \ {0}, s.sqTail \in SqSlot, t.sqTail = NextSq(s),
         NEW d, EntryAdded(s, t, n, d),
         \A k \in SqSlot : s.sq[k].id <= n
  PROVE  Ring(t)
<1>0. t.sq[s.sqTail].id = n /\ \A k \in SqSlot : k # s.sqTail => t.sq[k] = s.sq[k]
  BY DEF EntryAdded
<1> SUFFICES ASSUME NEW x \in SqSlot, NEW y \in SqSlot, x <= y, t.sq[Slot(t, y)].id # 0
             PROVE  t.sq[Slot(t, x)].id # 0 /\ t.sq[Slot(t, y)].id <= t.sq[Slot(t, x)].id
  BY DEF Ring
<1>1. /\ Slot(t, 1) = s.sqTail
      /\ \A z \in SqSlot : z # 1 => z - 1 \in SqSlot /\ Slot(t, z) = Slot(s, z - 1) /\ Slot(t, z) # s.sqTail
  BY SlotNext
<1>2. x \in Nat /\ y \in Nat /\ 1 <= x
  BY SlotsFinite DEF SqSlot
<1>3. \A z \in SqSlot : z # 1 => t.sq[Slot(t, z)] = s.sq[Slot(s, z - 1)] /\ Slot(s, z - 1) \in SqSlot
  BY <1>0, <1>1, SlotIs
<1>4. CASE x = 1
  <2>1. t.sq[Slot(t, x)].id = n
    BY <1>0, <1>1, <1>4
  <2>2. CASE y = 1
    BY <1>4, <2>1, <2>2
  <2>3. CASE y # 1
    BY <1>0, <1>3, <2>1, <2>3
  <2> QED BY <2>2, <2>3
<1>5. CASE x # 1
  <2>1. y # 1 /\ x - 1 <= y - 1
    BY <1>2, <1>5
  <2>2. x - 1 \in SqSlot /\ y - 1 \in SqSlot
    BY <1>1, <1>5, <2>1
  <2>3. s.sq[Slot(s, y - 1)].id # 0
    BY <1>3, <2>1
  <2>4. s.sq[Slot(s, x - 1)].id # 0 /\ s.sq[Slot(s, y - 1)].id <= s.sq[Slot(s, x - 1)].id
    BY <2>1, <2>2, <2>3 DEF Ring
  <2> QED BY <1>3, <1>5, <2>1, <2>4
<1> QED BY <1>4, <1>5

(* Who has which entry stays.                                              *)
LEMMA RingKept ==
  ASSUME NEW s, NEW t, Ring(s), s.sqTail \in SqSlot, t.sqTail = s.sqTail,
         \A k \in SqSlot : t.sq[k].id = s.sq[k].id
  PROVE  Ring(t)
<1>1. \A x \in SqSlot : Slot(t, x) = Slot(s, x) /\ Slot(s, x) \in SqSlot
  BY SlotIs DEF Slot
<1> QED BY <1>1 DEF Ring

(* The oldest instruction's stores are the farthest behind the tail.       *)
LEMMA RingRetired ==
  ASSUME trace \in Traces, NEW s, NEW t, Rob(s), StoreQueue(s), Ring(s), NEW n, n = s.head + 1,
         t.sqTail = s.sqTail,
         \A k \in SqSlot : t.sq[k] = IF s.sq[k].id = n THEN NoStore ELSE s.sq[k]
  PROVE  Ring(t)
<1>0. s.sqTail \in SqSlot
  BY DEF StoreQueue
<1>1. \A x \in SqSlot : Slot(t, x) = Slot(s, x) /\ Slot(s, x) \in SqSlot
  BY <1>0, SlotIs DEF Slot
<1>2. \A k \in SqSlot : s.sq[k].id \in Nat /\ (s.sq[k].id # 0 => n <= s.sq[k].id)
  <2>1. \A k \in SqSlot : s.sq[k].id \in Nat /\ (s.sq[k].id # 0 => s.sq[k].id \in InRob(s))
    BY SqEntryIs
  <2>2. s.head \in Nat /\ \A m \in InRob(s) : n <= m
    BY SMTT(60), InRobIs, InstructionIs DEF Rob
  <2> QED BY <2>1, <2>2
<1> SUFFICES ASSUME NEW x \in SqSlot, NEW y \in SqSlot, x <= y, t.sq[Slot(t, y)].id # 0
             PROVE  t.sq[Slot(t, x)].id # 0 /\ t.sq[Slot(t, y)].id <= t.sq[Slot(t, x)].id
  BY DEF Ring
<1>3. PICK k \in SqSlot, l \in SqSlot : k = Slot(s, x) /\ l = Slot(s, y) /\ k = Slot(t, x) /\ l = Slot(t, y)
  BY <1>1
<1>4. s.sq[l].id # n /\ t.sq[l] = s.sq[l] /\ s.sq[l].id # 0
  BY <1>3 DEF NoStore
<1>5. s.sq[k].id # 0 /\ s.sq[l].id <= s.sq[k].id
  BY <1>3, <1>4 DEF Ring
<1>6. s.sq[k].id # n
  <2>1. n \in Nat
    BY DEF Rob
  <2> QED BY <1>2, <1>4, <1>5, <2>1
<1> QED BY <1>3, <1>4, <1>5, <1>6
-----------------------------------------------------------------------------
(* The ways of the loads and of the stores.                                *)

(* The stages exchange stores, and no store changes.                       *)
LEMMA StoreWayMoved ==
  ASSUME NEW s, NEW t, StoreWay(s), t.sq = s.sq,
         t.rts0 \cup t.dtlbS \cup t.rts1 = s.rts0 \cup s.dtlbS \cup s.rts1,
         t.rts0 \cap t.dtlbS = {}, t.rts0 \cap t.rts1 = {}, t.dtlbS \cap t.rts1 = {}
  PROVE  StoreWay(t)
<1>1. Undone(t) = Undone(s)
  BY DEF Undone
<1> QED BY <1>1 DEF StoreWay

(* A store that enters the queue is ready to be translated.                *)
LEMMA StoreWayAdded ==
  ASSUME NEW s, NEW t, NEW n, NEW d, n # 0, StoreWay(s), s.sqTail \in SqSlot, s.sq[s.sqTail].id = 0,
         EntryAdded(s, t, n, d), StoreQueuedTo(s, t, n, d)
  PROVE  StoreWay(t)
<1>a. PICK k \in SqSlot : k = s.sqTail
  OBVIOUS
<1>b. /\ s.sq[k].id = 0 /\ t.sq[k].id = n /\ t.sq[k].done = FALSE /\ \A l \in SqSlot : l # k => t.sq[l] = s.sq[l]
      /\ t.rts0 = s.rts0 \cup {k} /\ t.dtlbS = s.dtlbS /\ t.rts1 = s.rts1
  BY <1>a DEF EntryAdded, StoreQueuedTo
<1>1. Undone(t) = Undone(s) \cup {k}
  BY <1>b DEF Undone
<1>2. k \notin Undone(s)
  BY <1>b DEF Undone
<1>3. k \notin s.rts0 /\ k \notin s.dtlbS /\ k \notin s.rts1
  BY <1>2 DEF StoreWay
<1> QED BY <1>b, <1>1, <1>3 DEF StoreWay

(* A store that executes leaves its last stage.                            *)
LEMMA StoreWayDone ==
  ASSUME NEW s, NEW t, NEW k \in s.rts1, StoreWay(s),
         t.sq[k].done = TRUE, \A l \in SqSlot : l # k => t.sq[l] = s.sq[l],
         t.rts0 = s.rts0, t.dtlbS = s.dtlbS, t.rts1 = s.rts1 \ {k}
  PROVE  StoreWay(t)
<1>1. Undone(t) = Undone(s) \ {k}
  BY DEF Undone
<1> QED BY <1>1 DEF StoreWay

(* A store that retires has executed. *)
LEMMA StoreWayRetired ==
  ASSUME NEW s, NEW t, NEW n, StoreWay(s), StoresOf(s, n) = {}, t.rts0 = s.rts0, t.dtlbS = s.dtlbS, t.rts1 = s.rts1,
         \A k \in SqSlot : t.sq[k] = IF s.sq[k].id = n THEN NoStore ELSE s.sq[k]
  PROVE  StoreWay(t)
<1>1. \A k \in SqSlot : s.sq[k].id = n => s.sq[k].done
  BY DEF StoresOf
<1>2. Undone(t) = Undone(s)
  BY <1>1 DEF Undone, NoStore
<1> QED BY <1>2 DEF StoreWay
-----------------------------------------------------------------------------
(* num_mem_ops. *)

(* The sets that it counts are finite.                                     *)
LEMMA CountsAre ==
  ASSUME trace \in Traces, NEW s, NEW n \in Id
  PROVE  /\ IsFiniteSet(DOMAIN trace[n].loads \ s.srcAdded[n]) /\ IsFiniteSet(DOMAIN trace[n].stores \ s.dstAdded[n])
         /\ IsFiniteSet(LoadsOf(s, n)) /\ IsFiniteSet(StoresOf(s, n))
         /\ Cardinality(DOMAIN trace[n].loads \ s.srcAdded[n]) \in Nat
         /\ Cardinality(DOMAIN trace[n].stores \ s.dstAdded[n]) \in Nat
         /\ Cardinality(LoadsOf(s, n)) \in Nat /\ Cardinality(StoresOf(s, n)) \in Nat
<1>1. PICK p, q : p = trace[n].loads /\ q = trace[n].stores
  OBVIOUS
<1>2. p \in Places(Addr) /\ q \in Places(Addr)
  BY <1>1, InstructionIs
<1>3. IsFiniteSet(DOMAIN p) /\ IsFiniteSet(DOMAIN q)
  BY <1>2, PlacesAre
<1>4. IsFiniteSet(DOMAIN p \ s.srcAdded[n]) /\ IsFiniteSet(DOMAIN q \ s.dstAdded[n])
  BY <1>3, FS_Subset
<1>5. LoadsOf(s, n) \in SUBSET LqSlot /\ StoresOf(s, n) \in SUBSET SqSlot
  BY DEF LoadsOf, StoresOf
<1>6. IsFiniteSet(LoadsOf(s, n)) /\ IsFiniteSet(StoresOf(s, n))
  BY SMTT(60), <1>5, SlotsFinite, FS_Subset
<1> QED BY <1>1, <1>4, <1>6, FS_CardinalityType

(* An instruction outside the ROB has nothing in the queues.               *)
LEMMA InQueuesInRob ==
  ASSUME trace \in Traces, NEW s, Rob(s), LoadQueue(s), StoreQueue(s), NEW n \in Id, n \notin InRob(s)
  PROVE  s.srcAdded[n] = {} /\ s.dstAdded[n] = {} /\ LoadsOf(s, n) = {} /\ StoresOf(s, n) = {}
<1>1. s.srcAdded[n] = {} /\ s.dstAdded[n] = {}
  BY DEF LoadQueue, StoreQueue
<1>2. n # 0
  BY InstructionIs
<1> QED BY SMTT(60), <1>1, <1>2 DEF LoadQueue, StoreQueue, LoadsOf, StoresOf

(* It depends on the entries of the instruction and on what is added.      *)
LEMMA AccountedKept ==
  ASSUME NEW s, NEW t, NEW n, Accounted(s, n), t.memOps[n] = s.memOps[n],
         t.srcAdded[n] = s.srcAdded[n], t.dstAdded[n] = s.dstAdded[n],
         LoadsOf(t, n) = LoadsOf(s, n), StoresOf(t, n) = StoresOf(s, n)
  PROVE  Accounted(t, n)
BY DEF Accounted, Unadded

(* Other handlers do not touch it.                                         *)
LEMMA OpsKept ==
  ASSUME NEW s, NEW t, Ops(s), OrderKept(s, t), StatusKept(s, t), t.memOps = s.memOps,
         t.srcAdded = s.srcAdded, t.dstAdded = s.dstAdded, t.lq = s.lq, t.sq = s.sq
  PROVE  Ops(t)
<1>1. \A n \in Id : Accounted(s, n) => Accounted(t, n)
  <2> SUFFICES ASSUME NEW n \in Id, Accounted(s, n)  PROVE Accounted(t, n)
    OBVIOUS
  <2>1. LoadsOf(t, n) = LoadsOf(s, n) /\ StoresOf(t, n) = StoresOf(s, n)
    BY DEF LoadsOf, StoresOf
  <2> QED BY <2>1, AccountedKept
<1>2. InRob(t) = InRob(s)
  BY DEF InRob, OrderKept
<1> QED BY <1>1, <1>2 DEF Ops, StatusKept

(* The instruction that is fetched has all its accesses before it.         *)
LEMMA OpsFetched ==
  ASSUME trace \in Traces, NEW s, NEW t, Rob(s), LoadQueue(s), StoreQueue(s), Ops(s), s.tail < Len(trace),
         StatusKept(s, t), t.head = s.head, t.tail = s.tail + 1,
         t.srcAdded = s.srcAdded, t.dstAdded = s.dstAdded, t.lq = s.lq, t.sq = s.sq,
         t.memOps = Put(s.memOps, s.tail + 1, NumMemOps(s.tail + 1))
  PROVE  Ops(t)
<1> USE DEF Put
<1>1. PICK n \in Id : n = s.tail + 1
  BY InstructionIs DEF Rob
<1>2. \A m : m \in InRob(t) <=> m \in InRob(s) \/ m = n
  BY <1>1 DEF Rob, InRob
<1>3. n \notin InRob(s) /\ n > s.tail
  BY <1>1 DEF Rob, InRob
<1>4. s.srcAdded[n] = {} /\ s.dstAdded[n] = {} /\ LoadsOf(s, n) = {} /\ StoresOf(s, n) = {}
  BY <1>3, InQueuesInRob
<1>5. \A m \in Id : LoadsOf(t, m) = LoadsOf(s, m) /\ StoresOf(t, m) = StoresOf(s, m)
  BY DEF LoadsOf, StoresOf
<1>6. NumMemOps(n) \in Nat /\ NumMemOps(n) = Cardinality(DOMAIN trace[n].loads) + Cardinality(DOMAIN trace[n].stores)
  <2>1. PICK p, q : p = trace[n].loads /\ q = trace[n].stores
    OBVIOUS
  <2>2. p \in Places(Addr) /\ q \in Places(Addr)
    BY <2>1, InstructionIs
  <2>3. Len(p) = Cardinality(DOMAIN p) /\ Len(q) = Cardinality(DOMAIN q) /\ IsFiniteSet(DOMAIN p) /\ IsFiniteSet(DOMAIN q)
    BY <2>2, PlacesAre
  <2>4. Cardinality(DOMAIN p) \in Nat /\ Cardinality(DOMAIN q) \in Nat
    BY <2>3, FS_CardinalityType
  <2> QED BY <2>1, <2>3, <2>4 DEF NumMemOps
<1>7. /\ t.memOps \in [Id -> Int] /\ t.memOps[n] = NumMemOps(n)
      /\ \A m \in Id : m # n => t.memOps[m] = s.memOps[m]
  <2>1. PICK c \in Nat : c = NumMemOps(n)
    BY <1>6
  <2>2. s.memOps \in [Id -> Int] /\ t.memOps = [s.memOps EXCEPT ![n] = c]
    BY <1>1, <2>1 DEF Ops
  <2>3. t.memOps \in [Id -> Int]
    BY <2>2, c \in Int, Updated
  <2> QED BY <2>1, <2>2, <2>3
<1>8. Accounted(t, n)
  <2>1. DOMAIN trace[n].loads \ t.srcAdded[n] = DOMAIN trace[n].loads /\ DOMAIN trace[n].stores \ t.dstAdded[n] = DOMAIN trace[n].stores
    BY <1>4
  <2>2. Cardinality(LoadsOf(t, n)) = 0 /\ Cardinality(StoresOf(t, n)) = 0
    BY <1>4, <1>5, FS_EmptySet
  <2>3. Unadded(t, n) = NumMemOps(n)
    BY <1>6, <2>1 DEF Unadded
  <2> QED BY <1>6, <1>7, <2>2, <2>3 DEF Accounted
<1>9. ASSUME NEW m \in Id, m # n  PROVE IF m \in InRob(t) THEN Accounted(t, m) ELSE t.memOps[m] = 0
  <2>1. Accounted(s, m) => Accounted(t, m)
    BY <1>5, <1>7, <1>9, AccountedKept
  <2> QED BY <1>2, <1>7, <1>9, <2>1 DEF Ops
<1>10. s.scheduled[n] = "no" /\ s.executed[n] = "no"
  BY <1>3 DEF Rob
<1>11. t.scheduled = s.scheduled /\ t.executed = s.executed
  BY DEF StatusKept
<1>12. \A m \in Id : t.executed[m] = "completed" => t.memOps[m] = 0
  BY <1>7, <1>10, <1>11 DEF Ops
<1>13. \A m \in Id : m \in InRob(t) /\ t.scheduled[m] = "completed" =>
         t.srcAdded[m] = DOMAIN trace[m].loads /\ t.dstAdded[m] = DOMAIN trace[m].stores
  BY <1>2, <1>10, <1>11 DEF Ops
<1> QED BY <1>2, <1>7, <1>8, <1>9, <1>12, <1>13 DEF Ops

(* An instruction without accesses has nothing in the queues.              *)
LEMMA NoAccesses ==
  ASSUME trace \in Traces, NEW s, LoadQueue(s), StoreQueue(s), NEW n \in Id, ~IsMemory(n)
  PROVE  /\ DOMAIN trace[n].loads = {} /\ DOMAIN trace[n].stores = {}
         /\ s.srcAdded[n] = {} /\ s.dstAdded[n] = {} /\ LoadsOf(s, n) = {} /\ StoresOf(s, n) = {}
<1>1. PICK p, q : p = trace[n].loads /\ q = trace[n].stores
  OBVIOUS
<1>2. p \in Places(Addr) /\ q \in Places(Addr) /\ p = <<>> /\ q = <<>>
  BY <1>1, InstructionIs DEF IsMemory
<1>3. DOMAIN p = {} /\ DOMAIN q = {}
  BY <1>2
<1>4. s.srcAdded[n] = {} /\ s.dstAdded[n] = {}
  BY <1>1, <1>3 DEF LoadQueue, StoreQueue
<1>5. n # 0
  BY InstructionIs
<1>6. LoadsOf(s, n) = {} /\ StoresOf(s, n) = {}
  BY <1>4, <1>5 DEF LoadQueue, StoreQueue, LoadsOf, StoresOf
<1> QED BY <1>1, <1>3, <1>4, <1>6

(* The state of an instruction changes, and nothing is counted.            *)
LEMMA OpsStatus ==
  ASSUME trace \in Traces, NEW s, NEW t, Ops(s), NEW n \in Id, OrderKept(s, t),
         t.memOps = s.memOps, t.srcAdded = s.srcAdded, t.dstAdded = s.dstAdded, t.lq = s.lq, t.sq = s.sq,
         \A m \in Id : m # n => t.scheduled[m] = s.scheduled[m] /\ t.executed[m] = s.executed[m],
         t.executed[n] = "completed" => s.memOps[n] = 0,
         t.scheduled[n] = "completed" =>
           s.srcAdded[n] = DOMAIN trace[n].loads /\ s.dstAdded[n] = DOMAIN trace[n].stores
  PROVE  Ops(t)
<1>1. \A m \in Id : Accounted(s, m) => Accounted(t, m)
  <2> SUFFICES ASSUME NEW m \in Id, Accounted(s, m)  PROVE Accounted(t, m)
    OBVIOUS
  <2>1. LoadsOf(t, m) = LoadsOf(s, m) /\ StoresOf(t, m) = StoresOf(s, m)
    BY DEF LoadsOf, StoresOf
  <2> QED BY <2>1, AccountedKept
<1>2. InRob(t) = InRob(s)
  BY DEF InRob, OrderKept
<1>3. ASSUME NEW m \in Id
      PROVE  /\ t.executed[m] = "completed" => t.memOps[m] = 0
             /\ m \in InRob(t) /\ t.scheduled[m] = "completed" =>
                  t.srcAdded[m] = DOMAIN trace[m].loads /\ t.dstAdded[m] = DOMAIN trace[m].stores
  <2>1. CASE m = n
    BY <2>1
  <2>2. CASE m # n
    BY <1>2, <2>2 DEF Ops
  <2> QED BY <2>1, <2>2
<1> QED BY <1>1, <1>2, <1>3 DEF Ops

(* Without accesses the counter is zero. *)
LEMMA OpsZero ==
  ASSUME trace \in Traces, NEW s, Rob(s), LoadQueue(s), StoreQueue(s), Ops(s), NEW n \in InRob(s), ~IsMemory(n)
  PROVE  s.memOps[n] = 0
<1>1. n \in Id
  BY InRobIs
<1>2. /\ DOMAIN trace[n].loads \ s.srcAdded[n] = {} /\ DOMAIN trace[n].stores \ s.dstAdded[n] = {}
      /\ LoadsOf(s, n) = {} /\ StoresOf(s, n) = {}
  BY <1>1, NoAccesses
<1>3. Accounted(s, n)
  BY <1>1 DEF Ops
<1> QED BY <1>2, <1>3, FS_EmptySet DEF Accounted, Unadded

(* When it is zero, nothing is left in the queues.                         *)
LEMMA OpsDone ==
  ASSUME trace \in Traces, NEW s, Rob(s), Ops(s), NEW n \in InRob(s), s.memOps[n] = 0
  PROVE  LoadsOf(s, n) = {} /\ StoresOf(s, n) = {}
<1>1. n \in Id
  BY InRobIs
<1>2. Accounted(s, n)
  BY <1>1 DEF Ops
<1>3. PICK a \in Nat, b \in Nat, c \in Nat, d \in Nat :
         /\ a = Cardinality(DOMAIN trace[n].loads \ s.srcAdded[n])
         /\ b = Cardinality(DOMAIN trace[n].stores \ s.dstAdded[n])
         /\ c = Cardinality(LoadsOf(s, n)) /\ d = Cardinality(StoresOf(s, n))
  BY <1>1, CountsAre
<1>4. a + b + c + d = 0
  BY <1>2, <1>3 DEF Accounted, Unadded
<1>5. c = 0 /\ d = 0
  BY <1>4
<1>6. IsFiniteSet(LoadsOf(s, n)) /\ IsFiniteSet(StoresOf(s, n))
  BY <1>1, CountsAre
<1> QED BY <1>3, <1>5, <1>6, FS_EmptySet

(* A handler counts for one instruction.                                   *)
LEMMA OpsOne ==
  ASSUME trace \in Traces, NEW s, NEW t, Ops(s), NEW n \in Id, n \in InRob(s), OrderKept(s, t), StatusKept(s, t),
         t.memOps \in [Id -> Int],
         \A m \in Id : m # n =>
           /\ t.memOps[m] = s.memOps[m] /\ t.srcAdded[m] = s.srcAdded[m] /\ t.dstAdded[m] = s.dstAdded[m]
           /\ LoadsOf(t, m) = LoadsOf(s, m) /\ StoresOf(t, m) = StoresOf(s, m),
         Accounted(t, n), s.executed[n] # "completed",
         \/ s.scheduled[n] # "completed"
         \/ t.srcAdded[n] = s.srcAdded[n] /\ t.dstAdded[n] = s.dstAdded[n]
  PROVE  Ops(t)
<1>1. InRob(t) = InRob(s) /\ t.scheduled = s.scheduled /\ t.executed = s.executed
  BY DEF InRob, OrderKept, StatusKept
<1>2. ASSUME NEW m \in Id
      PROVE  /\ IF m \in InRob(t) THEN Accounted(t, m) ELSE t.memOps[m] = 0
             /\ t.executed[m] = "completed" => t.memOps[m] = 0
             /\ m \in InRob(t) /\ t.scheduled[m] = "completed" =>
                  t.srcAdded[m] = DOMAIN trace[m].loads /\ t.dstAdded[m] = DOMAIN trace[m].stores
  <2>1. CASE m = n
    BY <1>1, <2>1 DEF Ops
  <2>2. CASE m # n
    <3>1. Accounted(s, m) => Accounted(t, m)
      BY <2>2, AccountedKept
    <3> QED BY <1>1, <2>2, <3>1 DEF Ops
  <2> QED BY <2>1, <2>2
<1> QED BY <1>2 DEF Ops

(* One more element, or one less. *)
LEMMA CountOne ==
  ASSUME NEW S, IsFiniteSet(S), NEW x
  PROVE  /\ x \notin S => Cardinality(S \cup {x}) = Cardinality(S) + 1
         /\ x \in S => Cardinality(S \ {x}) = Cardinality(S) - 1
         /\ Cardinality(S) \in Nat
BY FS_AddElement, FS_RemoveElement, FS_CardinalityType

(* A load whose data is in the store queue is made when it is added.       *)
LEMMA OpsLoadForwarded ==
  ASSUME trace \in Traces, NEW s, NEW t, Rob(s), LoadQueue(s), Ops(s), NEW n \in InRob(s),
         NEW j \in DOMAIN trace[n].loads, j \notin s.srcAdded[n], s.scheduled[n] = "inflight",
         OrderKept(s, t), StatusKept(s, t), t.dstAdded = s.dstAdded, t.lq = s.lq, t.sq = s.sq,
         t.srcAdded = Put(s.srcAdded, n, s.srcAdded[n] \cup {j}),
         t.memOps = Put(s.memOps, n, s.memOps[n] - 1)
  PROVE  Ops(t)
<1> USE DEF Put
<1>1. n \in Id
  BY InRobIs
<1>2. /\ t.srcAdded[n] = s.srcAdded[n] \cup {j} /\ \A m \in Id : m # n => t.srcAdded[m] = s.srcAdded[m]
  BY <1>1 DEF LoadQueue
<1>3. /\ t.memOps \in [Id -> Int] /\ t.memOps[n] = s.memOps[n] - 1 /\ s.memOps[n] \in Int
      /\ \A m \in Id : m # n => t.memOps[m] = s.memOps[m]
  <2>1. PICK c \in Int : c = s.memOps[n] - 1
    BY <1>1 DEF Ops
  <2>2. s.memOps \in [Id -> Int] /\ t.memOps = [s.memOps EXCEPT ![n] = c]
    BY <2>1 DEF Ops
  <2>3. t.memOps \in [Id -> Int]
    BY <2>2, Updated
  <2> QED BY <1>1, <2>1, <2>2, <2>3
<1>4. \A m \in Id : LoadsOf(t, m) = LoadsOf(s, m) /\ StoresOf(t, m) = StoresOf(s, m)
  BY DEF LoadsOf, StoresOf
<1>5. Accounted(t, n)
  <2>1. PICK A : A = DOMAIN trace[n].loads \ s.srcAdded[n]
    OBVIOUS
  <2>2. IsFiniteSet(A) /\ j \in A /\ DOMAIN trace[n].loads \ t.srcAdded[n] = A \ {j}
    BY <1>1, <1>2, <2>1, CountsAre
  <2>3. Cardinality(A \ {j}) = Cardinality(A) - 1 /\ Cardinality(A) \in Nat
    BY <2>2, CountOne
  <2>4. PICK b \in Nat, c \in Nat, d \in Nat :
          /\ b = Cardinality(DOMAIN trace[n].stores \ s.dstAdded[n])
          /\ c = Cardinality(LoadsOf(s, n)) /\ d = Cardinality(StoresOf(s, n))
    BY <1>1, CountsAre
  <2>5. s.memOps[n] = Cardinality(A) + b + c + d
    <3>1. Accounted(s, n)
      BY <1>1 DEF Ops
    <3> QED BY <2>1, <2>4, <3>1 DEF Accounted, Unadded
  <2>6. Unadded(t, n) = Cardinality(A) - 1 + b
    BY <2>2, <2>3, <2>4 DEF Unadded
  <2>7. LoadsOf(t, n) = LoadsOf(s, n) /\ StoresOf(t, n) = StoresOf(s, n)
    BY <1>1, <1>4
  <2> QED BY <1>3, <2>3, <2>4, <2>5, <2>6, <2>7 DEF Accounted
<1>6. s.executed[n] # "completed"
  BY <1>1 DEF Rob
<1>7. \A m \in Id : m # n =>
        /\ t.memOps[m] = s.memOps[m] /\ t.srcAdded[m] = s.srcAdded[m] /\ t.dstAdded[m] = s.dstAdded[m]
        /\ LoadsOf(t, m) = LoadsOf(s, m) /\ StoresOf(t, m) = StoresOf(s, m)
  BY <1>2, <1>3, <1>4
<1>8. s.scheduled[n] # "completed" /\ t.memOps \in [Id -> Int]
  BY <1>3
<1> QED BY ZenonT(60), <1>1, <1>5, <1>6, <1>7, <1>8, OpsOne

(* A load that gets an entry of the load queue is still to be made.        *)
LEMMA OpsLoadQueued ==
  ASSUME trace \in Traces, NEW s, NEW t, Rob(s), LoadQueue(s), Ops(s), NEW n \in InRob(s),
         NEW j \in DOMAIN trace[n].loads, j \notin s.srcAdded[n], s.scheduled[n] = "inflight",
         NEW i \in LqSlot, s.lq[i].id = 0, NEW p,
         OrderKept(s, t), StatusKept(s, t), t.dstAdded = s.dstAdded, t.sq = s.sq, t.memOps = s.memOps,
         t.srcAdded = Put(s.srcAdded, n, s.srcAdded[n] \cup {j}),
         t.lq = LqWith(s, i, n, j, p)
  PROVE  Ops(t)
<1> USE DEF LqWith, Put
<1>1. n \in Id /\ n # 0
  BY InRobIs, InstructionIs
<1>2. /\ t.srcAdded[n] = s.srcAdded[n] \cup {j} /\ \A m \in Id : m # n => t.srcAdded[m] = s.srcAdded[m]
  BY <1>1 DEF LoadQueue
<1>3. t.lq[i].id = n /\ \A k \in LqSlot : k # i => t.lq[k] = s.lq[k]
  BY DEF LoadQueue
<1>4. /\ LoadsOf(t, n) = LoadsOf(s, n) \cup {i} /\ i \notin LoadsOf(s, n)
      /\ \A m \in Id : m # n => LoadsOf(t, m) = LoadsOf(s, m)
  <2>1. \A m \in Id : m # 0
    BY InstructionIs
  <2>2. LoadsOf(t, n) = LoadsOf(s, n) \cup {i} /\ i \notin LoadsOf(s, n)
    BY <1>1, <1>3 DEF LoadsOf
  <2>3. \A m \in Id : m # n => LoadsOf(t, m) = LoadsOf(s, m)
    BY <1>3, <2>1 DEF LoadsOf
  <2> QED BY <2>2, <2>3
<1>5. \A m \in Id : StoresOf(t, m) = StoresOf(s, m)
  BY DEF StoresOf
<1>6. Accounted(t, n)
  <2>1. PICK A : A = DOMAIN trace[n].loads \ s.srcAdded[n]
    OBVIOUS
  <2>2. IsFiniteSet(A) /\ j \in A /\ DOMAIN trace[n].loads \ t.srcAdded[n] = A \ {j}
    BY <1>1, <1>2, <2>1, CountsAre
  <2>3. Cardinality(A \ {j}) = Cardinality(A) - 1 /\ Cardinality(A) \in Nat
    BY <2>2, CountOne
  <2>4. PICK b \in Nat, c \in Nat, d \in Nat :
          /\ b = Cardinality(DOMAIN trace[n].stores \ s.dstAdded[n])
          /\ c = Cardinality(LoadsOf(s, n)) /\ d = Cardinality(StoresOf(s, n))
    BY <1>1, CountsAre
  <2>5. s.memOps[n] = Cardinality(A) + b + c + d
    <3>1. Accounted(s, n)
      BY <1>1 DEF Ops
    <3> QED BY <2>1, <2>4, <3>1 DEF Accounted, Unadded
  <2>6. Unadded(t, n) = Cardinality(A) - 1 + b
    BY <2>2, <2>3, <2>4 DEF Unadded
  <2>7. Cardinality(LoadsOf(t, n)) = c + 1
    <3>1. IsFiniteSet(LoadsOf(s, n))
      BY <1>1, CountsAre
    <3> QED BY <1>4, <2>4, <3>1, CountOne
  <2>8. StoresOf(t, n) = StoresOf(s, n)
    BY <1>1, <1>5
  <2> QED BY <2>3, <2>4, <2>5, <2>6, <2>7, <2>8 DEF Accounted
<1>7. s.executed[n] # "completed"
  BY <1>1 DEF Rob
<1>8. \A m \in Id : m # n =>
        /\ t.memOps[m] = s.memOps[m] /\ t.srcAdded[m] = s.srcAdded[m] /\ t.dstAdded[m] = s.dstAdded[m]
        /\ LoadsOf(t, m) = LoadsOf(s, m) /\ StoresOf(t, m) = StoresOf(s, m)
  BY <1>2, <1>4, <1>5
<1>9. s.scheduled[n] # "completed" /\ t.memOps \in [Id -> Int]
  BY DEF Ops
<1> QED BY ZenonT(60), <1>1, <1>6, <1>7, <1>8, <1>9, OpsOne

(* A store that enters the queue is still to be made.                      *)
LEMMA OpsStoreQueued ==
  ASSUME trace \in Traces, NEW s, NEW t, Rob(s), StoreQueue(s), Ops(s), NEW n \in InRob(s),
         NEW d \in DOMAIN trace[n].stores, d \notin s.dstAdded[n], s.scheduled[n] = "inflight",
         s.sq[s.sqTail].id = 0, StoreQueuedTo(s, t, n, d), EntryAdded(s, t, n, d)
  PROVE  Ops(t)
<1>a. OrderKept(s, t) /\ StatusKept(s, t) /\ t.srcAdded = s.srcAdded /\ t.lq = s.lq /\ t.memOps = s.memOps
  BY DEF StoreQueuedTo, LoadsKept
<1>b. PICK k \in SqSlot : k = s.sqTail
  BY DEF StoreQueue
<1>c. /\ s.sq[k].id = 0 /\ t.sq[k].id = n /\ t.sq[k].done = FALSE /\ \A l \in SqSlot : l # k => t.sq[l] = s.sq[l]
      /\ t.dstAdded[n] = s.dstAdded[n] \cup {d} /\ \A m \in Id : m # n => t.dstAdded[m] = s.dstAdded[m]
  BY <1>b DEF EntryAdded
<1>1. n \in Id /\ n # 0
  BY InRobIs, InstructionIs
<1>2. /\ StoresOf(t, n) = StoresOf(s, n) \cup {k} /\ k \notin StoresOf(s, n)
      /\ \A m \in Id : m # n => StoresOf(t, m) = StoresOf(s, m)
  <2>1. \A m \in Id : m # 0
    BY InstructionIs
  <2>2. StoresOf(t, n) = StoresOf(s, n) \cup {k} /\ k \notin StoresOf(s, n)
    BY <1>1, <1>c DEF StoresOf
  <2>3. \A m \in Id : m # n => StoresOf(t, m) = StoresOf(s, m)
    BY <1>c, <2>1 DEF StoresOf
  <2> QED BY <2>2, <2>3
<1>3. \A m \in Id : LoadsOf(t, m) = LoadsOf(s, m)
  BY <1>a DEF LoadsOf
<1>4. Accounted(t, n)
  <2>1. PICK A : A = DOMAIN trace[n].stores \ s.dstAdded[n]
    OBVIOUS
  <2>2. IsFiniteSet(A) /\ d \in A /\ DOMAIN trace[n].stores \ t.dstAdded[n] = A \ {d}
    BY <1>1, <1>c, <2>1, CountsAre
  <2>3. Cardinality(A \ {d}) = Cardinality(A) - 1 /\ Cardinality(A) \in Nat
    BY <2>2, CountOne
  <2>4. PICK b \in Nat, c \in Nat, e \in Nat :
          /\ b = Cardinality(DOMAIN trace[n].loads \ s.srcAdded[n])
          /\ c = Cardinality(LoadsOf(s, n)) /\ e = Cardinality(StoresOf(s, n))
    BY <1>1, CountsAre
  <2>5. s.memOps[n] = b + Cardinality(A) + c + e
    <3>1. Accounted(s, n)
      BY <1>1 DEF Ops
    <3> QED BY <2>1, <2>4, <3>1 DEF Accounted, Unadded
  <2>6. Unadded(t, n) = b + (Cardinality(A) - 1)
    BY <1>a, <2>2, <2>3, <2>4 DEF Unadded
  <2>7. Cardinality(StoresOf(t, n)) = e + 1
    <3>1. IsFiniteSet(StoresOf(s, n))
      BY <1>1, CountsAre
    <3> QED BY <1>2, <2>4, <3>1, CountOne
  <2>8. LoadsOf(t, n) = LoadsOf(s, n)
    BY <1>1, <1>3
  <2> QED BY <2>3, <2>4, <2>5, <2>6, <2>7, <2>8, <1>a DEF Accounted
<1>5. s.executed[n] # "completed"
  BY <1>1 DEF Rob
<1>6. \A m \in Id : m # n =>
        /\ t.memOps[m] = s.memOps[m] /\ t.srcAdded[m] = s.srcAdded[m] /\ t.dstAdded[m] = s.dstAdded[m]
        /\ LoadsOf(t, m) = LoadsOf(s, m) /\ StoresOf(t, m) = StoresOf(s, m)
  BY <1>2, <1>3, <1>a, <1>c
<1>7. s.scheduled[n] # "completed" /\ t.memOps \in [Id -> Int]
  BY <1>a DEF Ops
<1> QED BY <1>1, <1>4, <1>5, <1>6, <1>7, <1>a, OpsOne

(* A store that executes is made. *)
LEMMA OpsStoreDone ==
  ASSUME trace \in Traces, NEW s, NEW t, Rob(s), StoreQueue(s), Ops(s), NEW k \in Undone(s),
         StoreDoneTo(s, t, k), EntryDone(s, t, k)
  PROVE  Ops(t)
<1>a. PICK n : n = s.sq[k].id
  OBVIOUS
<1>b. /\ OrderKept(s, t) /\ StatusKept(s, t) /\ t.srcAdded = s.srcAdded /\ t.dstAdded = s.dstAdded /\ t.lq = s.lq
      /\ t.memOps = Put(s.memOps, n, s.memOps[n] - 1)
  BY <1>a DEF StoreDoneTo, LoadsKept
<1>c. t.sq[k].done = TRUE /\ \A l \in SqSlot : t.sq[l].id = s.sq[l].id /\ (l # k => t.sq[l] = s.sq[l])
  BY DEF EntryDone
<1> USE <1>a, <1>b, <1>c DEF Put
<1>1. k \in SqSlot /\ n \in Id /\ n \in InRob(s) /\ k \in StoresOf(s, n)
  BY SqEntryIs DEF Undone, StoresOf
<1>2. StoresOf(t, n) = StoresOf(s, n) \ {k} /\ \A m \in Id : m # n => StoresOf(t, m) = StoresOf(s, m)
  BY <1>1 DEF StoresOf
<1>3. \A m \in Id : LoadsOf(t, m) = LoadsOf(s, m)
  BY DEF LoadsOf
<1>4. /\ t.memOps \in [Id -> Int] /\ t.memOps[n] = s.memOps[n] - 1 /\ s.memOps[n] \in Int
      /\ \A m \in Id : m # n => t.memOps[m] = s.memOps[m]
  <2>1. PICK c \in Int : c = s.memOps[n] - 1
    BY <1>1 DEF Ops
  <2>2. s.memOps \in [Id -> Int] /\ t.memOps = [s.memOps EXCEPT ![n] = c]
    BY <2>1 DEF Ops
  <2>3. t.memOps \in [Id -> Int]
    BY SMTT(60), <2>2, Updated
  <2> QED BY <1>1, <2>1, <2>2, <2>3
<1>5. PICK b \in Nat, c \in Nat, e \in Nat, g \in Nat :
         /\ b = Cardinality(DOMAIN trace[n].loads \ s.srcAdded[n])
         /\ g = Cardinality(DOMAIN trace[n].stores \ s.dstAdded[n])
         /\ c = Cardinality(LoadsOf(s, n)) /\ e = Cardinality(StoresOf(s, n))
  <2>1. /\ Cardinality(DOMAIN trace[n].loads \ s.srcAdded[n]) \in Nat
        /\ Cardinality(DOMAIN trace[n].stores \ s.dstAdded[n]) \in Nat
        /\ Cardinality(LoadsOf(s, n)) \in Nat /\ Cardinality(StoresOf(s, n)) \in Nat
    BY <1>1, CountsAre
  <2> QED BY SMTT(60), <2>1
<1>6. s.memOps[n] = b + g + c + e
  <2>1. Accounted(s, n)
    BY SMTT(60), <1>1 DEF Ops
  <2> QED BY <1>5, <2>1 DEF Accounted, Unadded
<1>7. Cardinality(StoresOf(t, n)) = e - 1 /\ e # 0
  <2>1. IsFiniteSet(StoresOf(s, n))
    BY <1>1, CountsAre
  <2>2. e # 0
    BY <1>1, <1>5, <2>1, FS_EmptySet
  <2> QED BY <1>1, <1>2, <1>5, <2>1, <2>2, CountOne
<1>8. Accounted(t, n)
  <2>1. LoadsOf(t, n) = LoadsOf(s, n) /\ Unadded(t, n) = b + g
    BY <1>1, <1>3, <1>5 DEF Unadded
  <2>2. t.memOps[n] = b + g + c + (e - 1)
    <3> HIDE <1>a, <1>b, <1>c DEF Put
    <3>1. PICK x \in Int, y \in Int : x = t.memOps[n] /\ y = s.memOps[n] /\ x = y - 1
      BY <1>4
    <3>2. y = b + g + c + e
      BY <1>6, <3>1
    <3>3. x = b + g + c + (e - 1)
      BY SMTT(60), <3>1, <3>2
    <3> QED BY <3>1, <3>3
  <2>3. Cardinality(LoadsOf(t, n)) = c /\ Cardinality(StoresOf(t, n)) = e - 1
    BY <1>5, <1>7, <2>1
  <2> HIDE <1>a, <1>b, <1>c DEF Put
  <2> QED BY ZenonT(60), <2>1, <2>2, <2>3 DEF Accounted
<1>9. s.executed[n] # "completed"
  <2>1. s.memOps[n] # 0
    BY <1>5, <1>6, <1>7
  <2> QED BY SMTT(60), <1>1, <2>1 DEF Ops
<1>10. \A m \in Id : m # n =>
         /\ t.memOps[m] = s.memOps[m] /\ t.srcAdded[m] = s.srcAdded[m] /\ t.dstAdded[m] = s.dstAdded[m]
         /\ LoadsOf(t, m) = LoadsOf(s, m) /\ StoresOf(t, m) = StoresOf(s, m)
  BY <1>2, <1>3, <1>4
<1>11. t.srcAdded[n] = s.srcAdded[n] /\ t.dstAdded[n] = s.dstAdded[n] /\ t.memOps \in [Id -> Int]
  BY <1>4
<1> QED BY <1>1, <1>8, <1>9, <1>10, <1>11, OpsOne

(* Loads that get their data are made, as many as there are.               *)
LEMMA OpsLoaded ==
  ASSUME trace \in Traces, NEW s, NEW t, NEW I, Rob(s), LoadQueue(s), Ops(s), I \subseteq LqSlot,
         OrderKept(s, t), StatusKept(s, t), t.srcAdded = s.srcAdded, t.dstAdded = s.dstAdded, t.sq = s.sq,
         t.lq = LqReleased(s, I),
         t.memOps = MemOpsLoaded(s, I)
  PROVE  Ops(t)
<1> USE DEF LqReleased, MemOpsLoaded
<1>1. InRob(t) = InRob(s) /\ t.scheduled = s.scheduled /\ t.executed = s.executed
  BY DEF InRob, OrderKept, StatusKept
<1>2. ASSUME NEW n \in Id
      PROVE  /\ t.memOps[n] \in Int
             /\ IF n \in InRob(t) THEN Accounted(t, n) ELSE t.memOps[n] = 0
             /\ t.executed[n] = "completed" => t.memOps[n] = 0
  <2>1. PICK B : B = {i \in I : s.lq[i].id = n}
    OBVIOUS
  <2>2. B \subseteq LoadsOf(s, n) /\ LoadsOf(t, n) = LoadsOf(s, n) \ B
    <3>1. n # 0
      BY InstructionIs
    <3> QED BY <2>1, <3>1 DEF LoadsOf, NoLoad
  <2>3. /\ IsFiniteSet(LoadsOf(s, n)) /\ Cardinality(LoadsOf(s, n)) \in Nat
        /\ Cardinality(DOMAIN trace[n].loads \ s.srcAdded[n]) \in Nat
        /\ Cardinality(DOMAIN trace[n].stores \ s.dstAdded[n]) \in Nat
        /\ Cardinality(StoresOf(s, n)) \in Nat
    BY CountsAre
  <2>4. PICK a \in Nat, b \in Nat, c \in Nat, d \in Nat, e \in Nat :
          /\ a = Cardinality(LoadsOf(s, n)) /\ b = Cardinality(B)
          /\ c = Cardinality(DOMAIN trace[n].loads \ s.srcAdded[n])
          /\ d = Cardinality(DOMAIN trace[n].stores \ s.dstAdded[n])
          /\ e = Cardinality(StoresOf(s, n)) /\ Cardinality(LoadsOf(t, n)) = a - b /\ b <= a
    <3>1. /\ Cardinality(B) \in Nat /\ Cardinality(LoadsOf(s, n) \ B) \in Nat
          /\ Cardinality(LoadsOf(s, n) \ B) = Cardinality(LoadsOf(s, n)) - Cardinality(B)
      BY <2>2, <2>3, CountRest
    <3>2. PICK C : C = LoadsOf(s, n) \ B
      OBVIOUS
    <3>3. LoadsOf(t, n) = C /\ Cardinality(C) \in Nat /\ Cardinality(C) = Cardinality(LoadsOf(s, n)) - Cardinality(B)
      BY <2>2, <3>1, <3>2
    <3>4. Cardinality(B) <= Cardinality(LoadsOf(s, n))
      BY <2>3, <3>1, <3>3
    <3> QED BY <2>3, <3>1, <3>3, <3>4
  <2>5. t.memOps[n] = s.memOps[n] - b /\ s.memOps[n] \in Int
    BY <2>1, <2>4 DEF Ops
  <2>6. n \in InRob(s) => s.memOps[n] = c + d + a + e
    <3>1. n \in InRob(s) => Accounted(s, n)
      BY DEF Ops
    <3> QED BY <2>4, <3>1 DEF Accounted, Unadded
  <2>7. n \notin InRob(s) => b = 0 /\ s.memOps[n] = 0
    <3>1. n \notin InRob(s) => LoadsOf(s, n) = {}
      <4>1. n # 0
        BY InstructionIs
      <4> QED BY <4>1 DEF LoadsOf, LoadQueue
    <3>2. n \notin InRob(s) => a = 0
      BY <2>4, <3>1, FS_EmptySet
    <3> QED BY <2>4, <3>2 DEF Ops
  <2>8. StoresOf(t, n) = StoresOf(s, n)
    BY DEF StoresOf
  <2>9. n \in InRob(t) => Accounted(t, n)
    <3>1. Unadded(t, n) = c + d
      BY <2>4 DEF Unadded
    <3>2. n \in InRob(t) => t.memOps[n] = c + d + (a - b) + e
      BY <1>1, <2>4, <2>5, <2>6
    <3>3. Cardinality(StoresOf(t, n)) = e /\ Cardinality(LoadsOf(t, n)) = a - b
      BY <2>4, <2>8
    <3> QED BY <3>1, <3>2, <3>3 DEF Accounted
  <2>10. t.executed[n] = "completed" => t.memOps[n] = 0
    <3>1. t.executed[n] = "completed" => s.memOps[n] = 0
      BY <1>1 DEF Ops
    <3>2. s.memOps[n] = 0 => b = 0
      <4>1. c + d + a + e = 0 => b = 0
        <5>1. b <= a
          BY <2>4
        <5>2. \A u, v, w, x, y \in Nat : w + x + u + y = 0 /\ v <= u => v = 0
          OBVIOUS
        <5> QED BY <5>1, <5>2
      <4>2. CASE n \in InRob(s)
        BY <2>6, <4>1, <4>2
      <4>3. CASE n \notin InRob(s)
        BY <2>7, <4>3
      <4> QED BY <4>2, <4>3
    <3> QED BY <2>5, <3>1, <3>2
  <2> QED BY <1>1, <2>5, <2>7, <2>9, <2>10
<1>3. t.memOps \in [Id -> Int]
  BY <1>2
<1>4. \A n \in Id : n \in InRob(t) /\ t.scheduled[n] = "completed" =>
        t.srcAdded[n] = DOMAIN trace[n].loads /\ t.dstAdded[n] = DOMAIN trace[n].stores
  BY <1>1 DEF Ops
<1> QED BY <1>2, <1>3, <1>4 DEF Ops

(* The oldest instruction leaves, with nothing in the queues.              *)
LEMMA OpsRetired ==
  ASSUME trace \in Traces, NEW s, NEW t, Rob(s), StoreQueue(s), Ops(s), NEW n, n = s.head + 1, s.head < s.tail,
         s.executed[n] = "completed", StatusKept(s, t), t.head = n, t.tail = s.tail, t.memOps = s.memOps, t.lq = s.lq,
         t.srcAdded = Put(s.srcAdded, n, {}), t.dstAdded = Put(s.dstAdded, n, {}),
         DOMAIN s.srcAdded = Id, DOMAIN s.dstAdded = Id,
         \A k \in SqSlot : t.sq[k] = IF s.sq[k].id = n THEN NoStore ELSE s.sq[k]
  PROVE  Ops(t)
<1> USE DEF Put
<1>1. n \in Id /\ \A m : m \in InRob(t) <=> m \in InRob(s) /\ m # n
  BY SMTT(60), InstructionIs DEF Rob, InRob
<1>2. \A m \in Id : m # n => t.srcAdded[m] = s.srcAdded[m] /\ t.dstAdded[m] = s.dstAdded[m]
  OBVIOUS
<1>3. \A m \in Id : m # n => LoadsOf(t, m) = LoadsOf(s, m) /\ StoresOf(t, m) = StoresOf(s, m)
  <2>1. \A m \in Id : m # 0
    BY InstructionIs
  <2> QED BY <2>1 DEF LoadsOf, StoresOf, NoStore
<1>4. t.scheduled = s.scheduled /\ t.executed = s.executed
  BY DEF StatusKept
<1>5. ASSUME NEW m \in Id
      PROVE  IF m \in InRob(t) THEN Accounted(t, m) ELSE t.memOps[m] = 0
  <2>1. CASE m = n
    BY <1>1, <2>1 DEF Ops
  <2>2. CASE m # n
    <3>1. Accounted(s, m) => Accounted(t, m)
      BY <1>2, <1>3, <2>2, AccountedKept
    <3> QED BY <1>1, <2>2, <3>1 DEF Ops
  <2> QED BY <2>1, <2>2
<1>6. \A m \in Id : t.executed[m] = "completed" => t.memOps[m] = 0
  BY <1>4 DEF Ops
<1>7. \A m \in Id : m \in InRob(t) /\ t.scheduled[m] = "completed" =>
        t.srcAdded[m] = DOMAIN trace[m].loads /\ t.dstAdded[m] = DOMAIN trace[m].stores
  BY <1>1, <1>2, <1>4 DEF Ops
<1>8. t.memOps \in [Id -> Int]
  BY DEF Ops
<1> QED BY <1>5, <1>6, <1>7, <1>8 DEF Ops
-----------------------------------------------------------------------------
(* The handlers keep the invariant. *)

(* A handler that leaves the order and the state of the instructions.      *)
LEMMA RobKept ==
  ASSUME trace \in Traces, NEW s, NEW t, Rob(s), OrderKept(s, t), StatusKept(s, t)
  PROVE  Rob(t) /\ InRob(t) = InRob(s)
BY DEF Rob, InRob, OrderKept, StatusKept

(* A handler that leaves the stores. *)
LEMMA StoresUntouched ==
  ASSUME trace \in Traces, NEW s, NEW t, Rob(s), StoreQueue(s), Sta(s), Ring(s), StoreWay(s),
         OrderKept(s, t), StoresKept(s, t), StoreWayKept(s, t)
  PROVE  StoreQueue(t) /\ Sta(t) /\ Ring(t) /\ StoreWay(t)
<1>1. /\ t.dstAdded = s.dstAdded /\ t.sqIndex = s.sqIndex /\ t.sq = s.sq /\ t.sqTail = s.sqTail /\ t.sta = s.sta
      /\ t.rts0 = s.rts0 /\ t.dtlbS = s.dtlbS /\ t.rts1 = s.rts1 /\ t.head = s.head /\ t.tail = s.tail
  BY DEF OrderKept, StoresKept, StoreWayKept
<1>2. StoreQueue(t)
  BY <1>1, StoreQueueKept
<1>3. Sta(t)
  BY <1>1, StaKept
<1>4. Ring(t)
  <2>1. s.sqTail \in SqSlot
    BY DEF StoreQueue
  <2> QED BY <1>1, <2>1, RingKept
<1>5. StoreWay(t)
  <2>1. s.rts0 \cap s.dtlbS = {} /\ s.rts0 \cap s.rts1 = {} /\ s.dtlbS \cap s.rts1 = {}
    BY DEF StoreWay
  <2> QED BY <1>1, <2>1, StoreWayMoved
<1> QED BY <1>2, <1>3, <1>4, <1>5

(* The youngest older store to an address.                                 *)
LEMMA ProducerIs ==
  ASSUME trace \in Traces, NEW s, Rob(s), NEW n \in InRob(s), NEW a
  PROVE  /\ Producer(s, n, a) \in 0 .. (n - 1) /\ Producer(s, n, a) \in Id \cup {0}
         /\ Producer(s, n, a) # 0 => Producer(s, n, a) \in {m \in Older(s, n) : a \in Elements(trace[m].stores)}
<1>1. n \in Nat /\ n - 1 \in Nat /\ n \in Id /\ s.head \in Nat
  BY InRobIs, InstructionIs DEF Rob
<1>2. PICK S : S = {m \in Older(s, n) : a \in Elements(trace[m].stores)}
  OBVIOUS
<1>3. S \in SUBSET (1 .. (n - 1))
  BY <1>1, <1>2 DEF Older
<1>4. YoungestOrNone(S) \in 0 .. (n - 1) /\ (YoungestOrNone(S) # 0 => YoungestOrNone(S) \in S)
  BY <1>1, <1>3, YoungestUnique
<1>5. 0 .. (n - 1) \subseteq Id \cup {0}
  BY <1>1, InstructionIs
<1> QED BY <1>2, <1>4, <1>5 DEF Producer

(* add_load_queue *)
LEMMA QueuesAddLoad ==
  ASSUME trace \in Traces, NEW s, NEW t, Queues(s), NEW n \in InRob(s), s.scheduled[n] = "inflight", NEW j,
         t = AddLoad(s, n, j)
  PROVE  Queues(t) /\ OrderKept(s, t) /\ StatusKept(s, t) /\ RegsKept(s, t)
<1>0. /\ Shaped(s) /\ Rob(s) /\ Registers(s) /\ LoadQueue(s) /\ StoreQueue(s)
      /\ Sta(s) /\ Ring(s) /\ StoreWay(s) /\ LoadWay(s) /\ Ops(s) /\ s.dependents \in [Id -> SUBSET Id]
  BY DEF Queues
<1>1. CASE j \notin DOMAIN trace[n].loads \/ j \in s.srcAdded[n] \/ FreeLq(s) = {}
  <2>1. t = s
    BY <1>1, AddLoadIs
  <2> QED BY <2>1 DEF OrderKept, StatusKept, RegsKept
<1>2. CASE ~(j \notin DOMAIN trace[n].loads \/ j \in s.srcAdded[n] \/ FreeLq(s) = {})
  <2>1. j \in DOMAIN trace[n].loads /\ j \notin s.srcAdded[n] /\ FreeLq(s) # {} /\ n \in Id
    BY <1>0, <1>2, InRobIs
  <2>2. PICK i : i = FirstFreeLq(s)
    OBVIOUS
  <2>3. i \in LqSlot /\ s.lq[i].id = 0
    BY <1>0, <2>1, <2>2, FreeLqIs
  <2>4. PICK p : p = Producer(s, n, trace[n].loads[j])
    OBVIOUS
  <2>5. p \in Id \cup {0}
    BY <1>0, <2>4, ProducerIs
  <2>6. /\ Shaped(t) /\ OrderKept(s, t) /\ StatusKept(s, t) /\ RegsKept(s, t) /\ StoresKept(s, t) /\ StoreWayKept(s, t)
        /\ t.srcAdded = Put(s.srcAdded, n, s.srcAdded[n] \cup {j})
        /\ t.lqIndex = Put(s.lqIndex, n, Put(s.lqIndex[n], j, i))
        /\ t.dependents = DependentsTold(s, n, {p} \ {0})
        /\ \/ /\ t.lq = s.lq /\ t.memOps = Put(s.memOps, n, s.memOps[n] - 1)
              /\ t.rtl0 = s.rtl0 /\ t.dtlbL = s.dtlbL /\ t.rtl1 = s.rtl1 /\ t.l1d = s.l1d
           \/ /\ t.lq = LqWith(s, i, n, j, p) /\ t.memOps = s.memOps
              /\ t.rtl0 = (IF p = 0 THEN s.rtl0 \cup {i} ELSE s.rtl0)
              /\ t.dtlbL = s.dtlbL /\ t.rtl1 = s.rtl1 /\ t.l1d = s.l1d
    <3>1. LoadForwardedTo(s, t, n, j, i, p) \/ LoadQueuedTo(s, t, n, j, i, p)
      BY <1>0, <2>1, <2>2, <2>4, LoadForwardedIs, LoadQueuedIs
    <3>2. CASE LoadForwardedTo(s, t, n, j, i, p)
      BY <3>2 DEF LoadForwardedTo, LoadWayKept
    <3>3. CASE LoadQueuedTo(s, t, n, j, i, p)
      BY <3>3 DEF LoadQueuedTo
    <3> QED BY <3>1, <3>2, <3>3
  <2>7. Rob(t) /\ Registers(t)
    BY <1>0, <2>6, RobKept, RegistersKept
  <2>8. LoadQueue(t)
    <3>1. t.lq = s.lq \/ \E q \in Id \cup {0} : t.lq = LqWith(s, i, n, j, q)
      BY <2>5, <2>6
    <3> QED BY <1>0, <2>1, <2>3, <2>6, <3>1, LoadQueueAdded
  <2>9. StoreQueue(t) /\ Sta(t) /\ Ring(t) /\ StoreWay(t)
    BY <1>0, <2>6, StoresUntouched
  <2>10. LoadWay(t)
    BY <1>0, <2>3, <2>6 DEF LoadWay
  <2>11. Ops(t)
    <3>1. t.dstAdded = s.dstAdded /\ t.sq = s.sq
      BY <2>6 DEF StoresKept
    <3>2. CASE t.lq = s.lq /\ t.memOps = Put(s.memOps, n, s.memOps[n] - 1)
      BY <1>0, <2>1, <2>6, <3>1, <3>2, OpsLoadForwarded
    <3>3. CASE t.lq = LqWith(s, i, n, j, p) /\ t.memOps = s.memOps
      BY <1>0, <2>1, <2>3, <2>6, <3>1, <3>3, OpsLoadQueued
    <3> QED BY <2>6, <3>2, <3>3
  <2>12. t.dependents \in [Id -> SUBSET Id]
    BY <1>0, <2>1, <2>6 DEF DependentsTold
  <2> QED BY <2>6, <2>7, <2>8, <2>9, <2>10, <2>11, <2>12 DEF Queues
<1> QED BY <1>1, <1>2

(* add_store_queue *)
LEMMA QueuesAddStore ==
  ASSUME trace \in Traces, NEW s, NEW t, Queues(s), NEW n \in InRob(s), s.scheduled[n] = "inflight", NEW d,
         t = AddStore(s, n, d)
  PROVE  Queues(t) /\ OrderKept(s, t) /\ StatusKept(s, t) /\ RegsKept(s, t)
<1>0. /\ Shaped(s) /\ Rob(s) /\ Registers(s) /\ LoadQueue(s) /\ StoreQueue(s)
      /\ Sta(s) /\ Ring(s) /\ StoreWay(s) /\ LoadWay(s) /\ Ops(s) /\ s.dependents \in [Id -> SUBSET Id]
  BY DEF Queues
<1>1. CASE d \notin DOMAIN trace[n].stores \/ d \in s.dstAdded[n] \/ FreeSq(s) = {} \/ ~StaAllows(s, n)
  <2>1. t = s
    BY <1>1 DEF AddStore
  <2> QED BY <2>1 DEF OrderKept, StatusKept, RegsKept
<1>2. CASE ~(d \notin DOMAIN trace[n].stores \/ d \in s.dstAdded[n] \/ FreeSq(s) = {} \/ ~StaAllows(s, n))
  <2>1. d \in DOMAIN trace[n].stores /\ d \notin s.dstAdded[n] /\ FreeSq(s) # {} /\ StaAllows(s, n)
    BY <1>2
  <2>2. n \in Id /\ n \in Nat \ {0}
    BY <1>0, InRobIs, InstructionIs
  <2>3. /\ StoreQueuedTo(s, t, n, d)
        /\ Shaped(t) /\ OrderKept(s, t) /\ StatusKept(s, t) /\ RegsKept(s, t) /\ LoadsKept(s, t) /\ LoadWayKept(s, t)
        /\ t.dependents = s.dependents /\ t.memOps = s.memOps
        /\ t.dstAdded = Put(s.dstAdded, n, s.dstAdded[n] \cup {d})
        /\ t.sqIndex = Put(s.sqIndex, n, Put(s.sqIndex[n], d, s.sqTail))
        /\ t.sq = SqWith(s, s.sqTail, n, d)
        /\ t.sqTail = NextSq(s) /\ t.sta = Tail(s.sta)
        /\ t.rts0 = s.rts0 \cup {s.sqTail} /\ t.dtlbS = s.dtlbS /\ t.rts1 = s.rts1
    <3>1. StoreQueuedTo(s, t, n, d)
      BY <1>0, <2>1, StoreQueuedIs
    <3> QED BY <3>1 DEF StoreQueuedTo
  <2>4. PICK k \in SqSlot : k = s.sqTail
    BY <1>0 DEF StoreQueue
  <2>5. s.sq[k].id = 0 /\ s.sq[s.sqTail].id = 0
    BY <1>0, <2>1, <2>4, TailIsFree
  <2>6. t.sqTail \in SqSlot
    BY <2>3, <2>4, NextSqIs
  <2>7. StoreQueue(t) /\ EntryAdded(s, t, n, d)
    BY <1>0, <2>1, <2>3, <2>5, <2>6, StoreQueueAdded
  <2>8. Sta(t) /\ \A l \in SqSlot : s.sq[l].id <= n
    <3>1. \A l \in SqSlot : t.sq[l].id \in {s.sq[l].id, n}
      BY <2>7 DEF EntryAdded
    <3>2. t.tail = s.tail
      BY <2>3 DEF OrderKept
    <3> QED BY <1>0, <2>1, <2>3, <3>1, <3>2, StaAdded
  <2>9. Ring(t)
    <3>1. Ring(s) /\ s.sqTail \in SqSlot /\ t.sqTail = NextSq(s)
      BY <1>0, <2>3, <2>4
    <3>2. EntryAdded(s, t, n, d) /\ n \in Nat \ {0} /\ \A l \in SqSlot : s.sq[l].id <= n
      BY <2>2, <2>7, <2>8
    <3> QED BY <3>1, <3>2, RingAdded
  <2>10. StoreWay(t)
    <3>1. n # 0 /\ StoreWay(s) /\ s.sqTail \in SqSlot
      BY <1>0, <2>2, <2>4
    <3> QED BY <2>3, <2>5, <2>7, <3>1, StoreWayAdded
  <2>11. Rob(t) /\ Registers(t)
    BY <1>0, <2>3, RobKept, RegistersKept
  <2>12. LoadQueue(t)
    BY <1>0, <2>3, LoadQueueKept DEF OrderKept
  <2>13. LoadWay(t)
    BY <1>0, <2>3 DEF LoadWay, LoadWayKept
  <2>14. Ops(t)
    BY <1>0, <2>1, <2>3, <2>5, <2>7, OpsStoreQueued
  <2> QED BY <1>0, <2>3, <2>7, <2>8, <2>9, <2>10, <2>11, <2>12, <2>13, <2>14 DEF Queues
<1> QED BY <1>1, <1>2

(* What reads the registers changes none of this. *)
LEMMA QueuesRegsRead ==
  ASSUME trace \in Traces, NEW s, NEW t, NEW n, Queues(s), RegsReadTo(s, t, n)
  PROVE  Queues(t)
<1>0. /\ Shaped(s) /\ Rob(s) /\ Registers(s) /\ LoadQueue(s) /\ StoreQueue(s)
      /\ Sta(s) /\ Ring(s) /\ StoreWay(s) /\ LoadWay(s) /\ Ops(s) /\ s.dependents \in [Id -> SUBSET Id]
  BY DEF Queues
<1>1. /\ Shaped(t) /\ OrderKept(s, t) /\ StatusKept(s, t) /\ RegsKept(s, t) /\ LoadsKept(s, t)
      /\ StoresKept(s, t) /\ LoadWayKept(s, t) /\ StoreWayKept(s, t)
      /\ t.dependents = s.dependents /\ t.memOps = s.memOps
  BY DEF RegsReadTo
<1>2. Rob(t) /\ Registers(t)
  BY <1>0, <1>1, RobKept, RegistersKept
<1>3. LoadQueue(t)
  BY <1>0, <1>1, LoadQueueKept DEF OrderKept
<1>4. StoreQueue(t) /\ Sta(t) /\ Ring(t) /\ StoreWay(t)
  BY <1>0, <1>1, StoresUntouched
<1>5. LoadWay(t)
  BY <1>0, <1>1 DEF LoadWay, LoadWayKept
<1>6. Ops(t)
  <2>1. t.srcAdded = s.srcAdded /\ t.dstAdded = s.dstAdded /\ t.lq = s.lq /\ t.sq = s.sq
    BY <1>1 DEF LoadsKept, StoresKept
  <2> QED BY <1>0, <1>1, <2>1, OpsKept
<1> QED BY <1>0, <1>1, <1>2, <1>3, <1>4, <1>5, <1>6 DEF Queues

(* An instruction starts to execute, with all its accesses added. *)
LEMMA QueuesBegun ==
  ASSUME trace \in Traces, NEW s, NEW t, Queues(s), NEW n \in InRob(s), RegReady(s, n), s.executed[n] = "no",
         s.srcAdded[n] = DOMAIN trace[n].loads, s.dstAdded[n] = DOMAIN trace[n].stores, BegunTo(s, t, n)
  PROVE  Queues(t)
<1>0. /\ Shaped(s) /\ Rob(s) /\ Registers(s) /\ LoadQueue(s) /\ StoreQueue(s)
      /\ Sta(s) /\ Ring(s) /\ StoreWay(s) /\ LoadWay(s) /\ Ops(s) /\ s.dependents \in [Id -> SUBSET Id]
  BY DEF Queues
<1>1. /\ Shaped(t) /\ OrderKept(s, t) /\ RegsKept(s, t) /\ LoadsKept(s, t)
      /\ StoresKept(s, t) /\ LoadWayKept(s, t) /\ StoreWayKept(s, t)
      /\ t.dependents = s.dependents /\ t.memOps = s.memOps
      /\ t.scheduled = Put(s.scheduled, n, "completed") /\ t.executed = Put(s.executed, n, "inflight")
  BY DEF BegunTo
<1>2. n \in Id
  BY <1>0, InRobIs
<1>3. /\ t.scheduled \in [Id -> Status] /\ t.scheduled[n] = "completed"
      /\ \A m \in Id : m # n => t.scheduled[m] = s.scheduled[m]
  <2>1. s.scheduled \in [Id -> Status]
    BY <1>0 DEF Rob
  <2> QED BY <1>1, <1>2, <2>1 DEF Put, Status
<1>4. t.executed[n] = "inflight" /\ \A m \in Id : m # n => t.executed[m] = s.executed[m]
  <2>1. s.executed \in [Id -> Status]
    BY <1>0 DEF Rob
  <2> QED BY <1>1, <1>2, <2>1 DEF Put
<1>5. Rob(t)
  BY <1>0, <1>1, <1>3, RobBegun
<1>6. Registers(t)
  BY <1>0, <1>1, <1>3, RegistersBegun
<1>7. LoadQueue(t)
  BY <1>0, <1>1, LoadQueueKept DEF OrderKept
<1>8. StoreQueue(t) /\ Sta(t) /\ Ring(t) /\ StoreWay(t)
  BY <1>0, <1>1, StoresUntouched
<1>9. LoadWay(t)
  BY <1>0, <1>1 DEF LoadWay, LoadWayKept
<1>10. Ops(t)
  <2>1. t.srcAdded = s.srcAdded /\ t.dstAdded = s.dstAdded /\ t.lq = s.lq /\ t.sq = s.sq
    BY <1>1 DEF LoadsKept, StoresKept
  <2> QED BY <1>0, <1>1, <1>2, <1>3, <1>4, <2>1, OpsStatus
<1> QED BY <1>0, <1>1, <1>5, <1>6, <1>7, <1>8, <1>9, <1>10 DEF Queues

(* do_memory_scheduling *)
LEMMA QueuesMemScheduled ==
  ASSUME trace \in Traces, NEW s, NEW t, Queues(s), NEW n \in InRob(s), RegReady(s, n), s.scheduled[n] = "inflight",
         t = MemScheduled(s, n)
  PROVE  Queues(t)
<1>1. PICK r : r = ReadsRegs(s, n)
  OBVIOUS
<1>2. PICK a : a = AddLoad(r, n, 1)
  OBVIOUS
<1>3. PICK b : b = AddLoad(a, n, 2)
  OBVIOUS
<1>4. PICK c : c = AddStore(b, n, 1)
  OBVIOUS
<1>5. PICK e : e = AddStore(c, n, 2)
  OBVIOUS
<1>6. t = IF e.srcAdded[n] = DOMAIN trace[n].loads /\ e.dstAdded[n] = DOMAIN trace[n].stores THEN Begun(e, n) ELSE e
  BY <1>1, <1>2, <1>3, <1>4, <1>5 DEF MemScheduled, Begun
<1>7. Shaped(s)
  BY DEF Queues
<1>8. RegsReadTo(s, r, n)
  BY <1>1, <1>7, ReadsRegsIs
<1>9. Queues(r) /\ InRob(r) = InRob(s) /\ r.scheduled = s.scheduled /\ r.regDeps = s.regDeps
  BY <1>8, QueuesRegsRead DEF RegsReadTo, OrderKept, StatusKept, RegsKept, InRob
<1>10. Queues(a) /\ InRob(a) = InRob(s) /\ a.scheduled = s.scheduled /\ a.regDeps = s.regDeps
  <2>1. Queues(r) /\ n \in InRob(r) /\ r.scheduled[n] = "inflight"
    BY <1>9
  <2>2. Queues(a) /\ OrderKept(r, a) /\ StatusKept(r, a) /\ RegsKept(r, a)
    BY <1>2, <2>1, QueuesAddLoad
  <2> QED BY <1>9, <2>2 DEF OrderKept, StatusKept, RegsKept, InRob
<1>11. Queues(b) /\ InRob(b) = InRob(s) /\ b.scheduled = s.scheduled /\ b.regDeps = s.regDeps
  <2>1. Queues(a) /\ n \in InRob(a) /\ a.scheduled[n] = "inflight"
    BY <1>10
  <2>2. Queues(b) /\ OrderKept(a, b) /\ StatusKept(a, b) /\ RegsKept(a, b)
    BY <1>3, <2>1, QueuesAddLoad
  <2> QED BY <1>10, <2>2 DEF OrderKept, StatusKept, RegsKept, InRob
<1>12. Queues(c) /\ InRob(c) = InRob(s) /\ c.scheduled = s.scheduled /\ c.regDeps = s.regDeps
  <2>1. Queues(b) /\ n \in InRob(b) /\ b.scheduled[n] = "inflight"
    BY <1>11
  <2>2. Queues(c) /\ OrderKept(b, c) /\ StatusKept(b, c) /\ RegsKept(b, c)
    BY <1>4, <2>1, QueuesAddStore
  <2> QED BY <1>11, <2>2 DEF OrderKept, StatusKept, RegsKept, InRob
<1>13. Queues(e) /\ InRob(e) = InRob(s) /\ e.scheduled = s.scheduled /\ e.regDeps = s.regDeps
  <2>1. Queues(c) /\ n \in InRob(c) /\ c.scheduled[n] = "inflight"
    BY <1>12
  <2>2. Queues(e) /\ OrderKept(c, e) /\ StatusKept(c, e) /\ RegsKept(c, e)
    BY <1>5, <2>1, QueuesAddStore
  <2> QED BY <1>12, <2>2 DEF OrderKept, StatusKept, RegsKept, InRob
<1>14. RegReady(e, n) /\ e.executed[n] = "no" /\ Shaped(e)
  <2>1. Shaped(e) /\ Rob(e)
    BY <1>13 DEF Queues
  <2>2. n \in Id
    BY <1>13, <2>1, InRobIs
  <2>3. e.executed[n] = "no"
    BY <1>13, <2>1, <2>2 DEF Rob, Status
  <2> QED BY <1>13, <2>1, <2>3 DEF RegReady
<1>15. CASE e.srcAdded[n] = DOMAIN trace[n].loads /\ e.dstAdded[n] = DOMAIN trace[n].stores
  <2>1. BegunTo(e, t, n)
    BY <1>6, <1>14, <1>15, BegunIs
  <2> QED BY <1>13, <1>14, <1>15, <2>1, QueuesBegun
<1>16. CASE ~(e.srcAdded[n] = DOMAIN trace[n].loads /\ e.dstAdded[n] = DOMAIN trace[n].stores)
  BY <1>6, <1>13, <1>16
<1> QED BY <1>15, <1>16

(* execute_instruction *)
LEMMA QueuesExecuted ==
  ASSUME trace \in Traces, NEW s, NEW t, Queues(s), NEW n \in InRob(s), ~IsMemory(n), RegReady(s, n), s.executed[n] = "no",
         t = [ReadsRegs(s, n) EXCEPT !.executed[n] = "inflight"]
  PROVE  Queues(t)
<1>1. PICK r : r = ReadsRegs(s, n)
  OBVIOUS
<1>2. Shaped(s) /\ Rob(s) /\ n \in Id
  BY InRobIs DEF Queues
<1>3. RegsReadTo(s, r, n)
  BY <1>1, <1>2, ReadsRegsIs
<1>4. Queues(r) /\ InRob(r) = InRob(s) /\ r.scheduled = s.scheduled /\ r.executed = s.executed /\ r.regDeps = s.regDeps
  BY <1>3, QueuesRegsRead DEF RegsReadTo, OrderKept, StatusKept, RegsKept, InRob
<1>5. Shaped(r) /\ Rob(r) /\ Ops(r)
  BY <1>4 DEF Queues
<1>6. r.scheduled[n] = "completed"
  BY <1>2, <1>4, <1>5 DEF Rob, RegReady, Status
<1>7. Put(r.scheduled, n, "completed") = r.scheduled
  <2>1. r.scheduled \in [Id -> Status]
    BY <1>5 DEF Rob
  <2> QED BY <1>6, <2>1 DEF Put
<1>8. BegunTo(r, t, n)
  <2>1. t = [r EXCEPT !.executed[n] = "inflight"]
    BY <1>1
  <2>2. t.executed = Put(r.executed, n, "inflight") /\ t.scheduled = r.scheduled
    BY <1>5, <2>1 DEF Put, Shaped, Fields
  <2> QED BY <1>5, <1>7, <2>1, <2>2 DEF BegunTo, Shaped, Fields, OrderKept, RegsKept, LoadsKept, StoresKept, LoadWayKept,
                                      StoreWayKept, SeenKept
<1>9. r.srcAdded[n] = DOMAIN trace[n].loads /\ r.dstAdded[n] = DOMAIN trace[n].stores
  BY <1>2, <1>4, <1>5, <1>6 DEF Ops
<1>10. RegReady(r, n)
  BY <1>4 DEF RegReady
<1> QED BY <1>4, <1>8, <1>9, <1>10, QueuesBegun

(* The next instruction enters the ROB. *)
LEMMA QueuesFetched ==
  ASSUME trace \in Traces, NEW s, NEW t, Queues(s), s.tail < Len(trace), s.tail - s.head < ROB_SIZE, FetchedTo(s, t)
  PROVE  Queues(t)
<1>0. /\ Shaped(s) /\ Rob(s) /\ Registers(s) /\ LoadQueue(s) /\ StoreQueue(s)
      /\ Sta(s) /\ Ring(s) /\ StoreWay(s) /\ LoadWay(s) /\ Ops(s) /\ s.dependents \in [Id -> SUBSET Id]
  BY DEF Queues
<1>1. /\ Shaped(t) /\ StatusKept(s, t) /\ RegsKept(s, t) /\ LoadsKept(s, t) /\ LoadWayKept(s, t) /\ StoreWayKept(s, t)
      /\ t.dstAdded = s.dstAdded /\ t.sqIndex = s.sqIndex /\ t.sq = s.sq /\ t.sqTail = s.sqTail
      /\ t.dependents = s.dependents /\ t.head = s.head /\ t.tail = s.tail + 1
      /\ t.memOps = Put(s.memOps, s.tail + 1, NumMemOps(s.tail + 1)) /\ t.sta = s.sta \o StaOf(s.tail + 1)
  BY DEF FetchedTo
<1>2. Rob(t)
  BY <1>0, <1>1, RobFetched
<1>3. Registers(t)
  BY <1>0, <1>1, RegistersKept
<1>4. LoadQueue(t)
  BY <1>0, <1>1, LoadQueueKept
<1>5. StoreQueue(t)
  BY <1>0, <1>1, StoreQueueKept
<1>6. Sta(t)
  BY <1>0, <1>1, StaFetched
<1>7. Ring(t)
  <2>1. s.sqTail \in SqSlot
    BY <1>0 DEF StoreQueue
  <2> QED BY <1>0, <1>1, <2>1, RingKept
<1>8. StoreWay(t)
  BY <1>0, <1>1 DEF StoreWay, StoreWayKept, Undone
<1>9. LoadWay(t)
  BY <1>0, <1>1 DEF LoadWay, LoadWayKept
<1>10. Ops(t)
  <2>1. t.srcAdded = s.srcAdded /\ t.lq = s.lq
    BY <1>1 DEF LoadsKept
  <2> QED BY <1>0, <1>1, <2>1, OpsFetched
<1> QED BY <1>0, <1>1, <1>2, <1>3, <1>4, <1>5, <1>6, <1>7, <1>8, <1>9, <1>10 DEF Queues

(* schedule_instruction *)
LEMMA QueuesScheduled ==
  ASSUME trace \in Traces, NEW s, NEW t, Queues(s), NEW n \in InRob(s), s.scheduled[n] = "no", ScheduledTo(s, t, n)
  PROVE  Queues(t)
<1>0. /\ Shaped(s) /\ Rob(s) /\ Registers(s) /\ LoadQueue(s) /\ StoreQueue(s)
      /\ Sta(s) /\ Ring(s) /\ StoreWay(s) /\ LoadWay(s) /\ Ops(s) /\ s.dependents \in [Id -> SUBSET Id]
  BY DEF Queues
<1>1. /\ Shaped(t) /\ OrderKept(s, t) /\ LoadsKept(s, t) /\ StoresKept(s, t) /\ LoadWayKept(s, t) /\ StoreWayKept(s, t)
      /\ t.dependents = s.dependents /\ t.memOps = s.memOps /\ t.executed = s.executed
      /\ t.scheduled = Put(s.scheduled, n, IF IsMemory(n) THEN "inflight" ELSE "completed")
      /\ t.regDeps = Put(s.regDeps, n, Cardinality(RegsAwaited(s, n)))
      /\ t.wakes = WakesScheduled(s, n)
  BY DEF ScheduledTo
<1>2. n \in Id
  BY <1>0, InRobIs
<1>3. Rob(t)
  BY <1>0, <1>1, RobScheduled
<1>4. Registers(t)
  BY <1>0, <1>1, RegistersScheduled
<1>5. LoadQueue(t)
  BY <1>0, <1>1, LoadQueueKept DEF OrderKept
<1>6. StoreQueue(t) /\ Sta(t) /\ Ring(t) /\ StoreWay(t)
  BY <1>0, <1>1, StoresUntouched
<1>7. LoadWay(t)
  BY <1>0, <1>1 DEF LoadWay, LoadWayKept
<1>8. Ops(t)
  <2>1. t.srcAdded = s.srcAdded /\ t.dstAdded = s.dstAdded /\ t.lq = s.lq /\ t.sq = s.sq
    BY <1>1 DEF LoadsKept, StoresKept
  <2>2. t.scheduled[n] = "completed" => ~IsMemory(n)
    <3>1. t.scheduled[n] = IF IsMemory(n) THEN "inflight" ELSE "completed"
      BY <1>0, <1>1, <1>2 DEF Put, Rob
    <3> QED BY <3>1
  <2>3. ~IsMemory(n) => s.srcAdded[n] = DOMAIN trace[n].loads /\ s.dstAdded[n] = DOMAIN trace[n].stores
    <3>1. s.srcAdded[n] \subseteq DOMAIN trace[n].loads /\ s.dstAdded[n] \subseteq DOMAIN trace[n].stores
      BY <1>0, <1>2 DEF LoadQueue, StoreQueue
    <3>2. PICK p, q : p = trace[n].loads /\ q = trace[n].stores
      OBVIOUS
    <3>3. p \in Places(Addr) /\ q \in Places(Addr)
      BY <1>2, <3>2, InstructionIs
    <3>4. (p = <<>> <=> DOMAIN p = {}) /\ (q = <<>> <=> DOMAIN q = {})
      BY <3>3, PlacesAre
    <3> QED BY <3>1, <3>2, <3>4 DEF IsMemory
  <2>4. s.executed[n] # "completed"
    BY <1>0, <1>2 DEF Rob
  <2>5. \A m \in Id : m # n => t.scheduled[m] = s.scheduled[m] /\ t.executed[m] = s.executed[m]
    BY <1>0, <1>1 DEF Put, Rob
  <2>6. t.executed[n] = "completed" => s.memOps[n] = 0
    BY <1>1, <2>4
  <2> QED BY <1>0, <1>1, <1>2, <2>1, <2>2, <2>3, <2>5, <2>6, OpsStatus
<1> QED BY <1>0, <1>1, <1>3, <1>4, <1>5, <1>6, <1>7, <1>8 DEF Queues

(* complete_execution *)
LEMMA QueuesCompleted ==
  ASSUME trace \in Traces, NEW s, NEW t, Queues(s), NEW n \in InRob(s), s.executed[n] = "inflight",
         IsMemory(n) => s.memOps[n] = 0, CompletedTo(s, t, n)
  PROVE  Queues(t)
<1>0. /\ Shaped(s) /\ Rob(s) /\ Registers(s) /\ LoadQueue(s) /\ StoreQueue(s)
      /\ Sta(s) /\ Ring(s) /\ StoreWay(s) /\ LoadWay(s) /\ Ops(s) /\ s.dependents \in [Id -> SUBSET Id]
  BY DEF Queues
<1>1. /\ Shaped(t) /\ OrderKept(s, t) /\ LoadsKept(s, t) /\ StoresKept(s, t) /\ LoadWayKept(s, t) /\ StoreWayKept(s, t)
      /\ t.dependents = s.dependents /\ t.memOps = s.memOps /\ t.scheduled = s.scheduled /\ t.wakes = s.wakes
      /\ t.executed = Put(s.executed, n, "completed") /\ t.regDeps = RegDepsCompleted(s, n)
  BY DEF CompletedTo
<1>2. n \in Id
  BY <1>0, InRobIs
<1>3. Rob(t)
  BY <1>0, <1>1, RobCompleted
<1>4. Registers(t)
  BY <1>0, <1>1, RegistersCompleted
<1>5. LoadQueue(t)
  BY <1>0, <1>1, LoadQueueKept DEF OrderKept
<1>6. StoreQueue(t) /\ Sta(t) /\ Ring(t) /\ StoreWay(t)
  BY <1>0, <1>1, StoresUntouched
<1>7. LoadWay(t)
  BY <1>0, <1>1 DEF LoadWay, LoadWayKept
<1>8. Ops(t)
  <2>1. t.srcAdded = s.srcAdded /\ t.dstAdded = s.dstAdded /\ t.lq = s.lq /\ t.sq = s.sq
    BY <1>1 DEF LoadsKept, StoresKept
  <2>2. s.memOps[n] = 0
    BY <1>0, OpsZero
  <2>3. t.scheduled[n] = "completed" => s.srcAdded[n] = DOMAIN trace[n].loads /\ s.dstAdded[n] = DOMAIN trace[n].stores
    BY <1>0, <1>1, <1>2 DEF Ops
  <2>4. \A m \in Id : m # n => t.scheduled[m] = s.scheduled[m] /\ t.executed[m] = s.executed[m]
    BY <1>0, <1>1 DEF Put, Rob
  <2> QED BY <1>0, <1>1, <1>2, <2>1, <2>2, <2>3, <2>4, OpsStatus
<1> QED BY <1>0, <1>1, <1>3, <1>4, <1>5, <1>6, <1>7, <1>8 DEF Queues

(* Loads get their data: their entries are freed. *)
LEMMA QueuesLoaded ==
  ASSUME trace \in Traces, NEW s, NEW t, NEW I, NEW f, Queues(s), I \subseteq LqSlot, LoadedTo(s, t, I, f)
  PROVE  Queues(t)
<1>0. /\ Shaped(s) /\ Rob(s) /\ Registers(s) /\ LoadQueue(s) /\ StoreQueue(s)
      /\ Sta(s) /\ Ring(s) /\ StoreWay(s) /\ LoadWay(s) /\ Ops(s) /\ s.dependents \in [Id -> SUBSET Id]
  BY DEF Queues
<1>1. /\ Shaped(t) /\ OrderKept(s, t) /\ StatusKept(s, t) /\ RegsKept(s, t) /\ StoresKept(s, t)
      /\ LoadWayKept(s, t) /\ StoreWayKept(s, t)
      /\ t.dependents = s.dependents /\ t.srcAdded = s.srcAdded /\ t.lqIndex = s.lqIndex
      /\ t.lq = LqReleased(s, I) /\ t.memOps = MemOpsLoaded(s, I)
  BY DEF LoadedTo
<1>2. Rob(t) /\ Registers(t)
  BY <1>0, <1>1, RobKept, RegistersKept
<1>3. LoadQueue(t)
  BY <1>0, <1>1, LoadQueueReleased
<1>4. StoreQueue(t) /\ Sta(t) /\ Ring(t) /\ StoreWay(t)
  BY <1>0, <1>1, StoresUntouched
<1>5. LoadWay(t)
  BY <1>0, <1>1 DEF LoadWay, LoadWayKept
<1>6. Ops(t)
  <2>1. t.dstAdded = s.dstAdded /\ t.sq = s.sq
    BY <1>1 DEF StoresKept
  <2> QED BY <1>0, <1>1, <2>1, OpsLoaded
<1> QED BY <1>0, <1>1, <1>2, <1>3, <1>4, <1>5, <1>6 DEF Queues

(* A store executes, before its data goes to the loads. *)
LEMMA QueuesStoreDone ==
  ASSUME trace \in Traces, NEW s, NEW t, NEW k \in s.rts1, Queues(s), StoreDoneTo(s, t, k)
  PROVE  Queues(t)
<1>0. /\ Shaped(s) /\ Rob(s) /\ Registers(s) /\ LoadQueue(s) /\ StoreQueue(s)
      /\ Sta(s) /\ Ring(s) /\ StoreWay(s) /\ LoadWay(s) /\ Ops(s) /\ s.dependents \in [Id -> SUBSET Id]
  BY DEF Queues
<1>1. /\ Shaped(t) /\ OrderKept(s, t) /\ StatusKept(s, t) /\ RegsKept(s, t) /\ LoadsKept(s, t) /\ LoadWayKept(s, t)
      /\ t.dependents = s.dependents
      /\ t.dstAdded = s.dstAdded /\ t.sqIndex = s.sqIndex /\ t.sqTail = s.sqTail /\ t.sta = s.sta
      /\ t.sq = SqDone(s, k)
      /\ t.memOps = Put(s.memOps, s.sq[k].id, s.memOps[s.sq[k].id] - 1)
      /\ t.rts0 = s.rts0 /\ t.dtlbS = s.dtlbS /\ t.rts1 = s.rts1 \ {k}
  BY DEF StoreDoneTo
<1>2. k \in Undone(s) /\ k \in SqSlot /\ s.sq[k].id # 0
  BY <1>0 DEF StoreWay, Undone
<1>3. Rob(t) /\ Registers(t)
  BY <1>0, <1>1, RobKept, RegistersKept
<1>4. LoadQueue(t)
  BY <1>0, <1>1, LoadQueueKept DEF OrderKept
<1>5. StoreQueue(t) /\ EntryDone(s, t, k)
  BY <1>0, <1>2, StoreQueueDone
<1>6. Sta(t)
  <2>1. t.tail = s.tail /\ \A l \in SqSlot : t.sq[l].id \in {s.sq[l].id, 0}
    BY <1>1, <1>5 DEF OrderKept, EntryDone
  <2> QED BY <1>0, <1>1, <2>1, StaKept
<1>7. Ring(t)
  <2>1. s.sqTail \in SqSlot
    BY <1>0 DEF StoreQueue
  <2>2. \A l \in SqSlot : t.sq[l].id = s.sq[l].id
    BY <1>5 DEF EntryDone
  <2> QED BY <1>0, <1>1, <2>1, <2>2, RingKept
<1>8. StoreWay(t)
  BY ZenonT(60), <1>0, <1>1, <1>5, StoreWayDone DEF EntryDone
<1>9. LoadWay(t)
  BY <1>0, <1>1 DEF LoadWay, LoadWayKept
<1>10. Ops(t)
  BY <1>0, <1>2, <1>5, OpsStoreDone
<1> QED BY <1>0, <1>1, <1>3, <1>4, <1>5, <1>6, <1>7, <1>8, <1>9, <1>10 DEF Queues

(* A store hands its data to entries of the load queue.                    *)
LEMMA TargetsAreSlots ==
  ASSUME trace \in Traces, NEW s, NEW k, Queues(s), k \in s.rts1
  PROVE  Targets(s, k) \subseteq LqSlot
<1>1. LoadQueue(s) /\ StoreQueue(s) /\ StoreWay(s) /\ Rob(s) /\ s.dependents \in [Id -> SUBSET Id]
  BY DEF Queues
<1>2. k \in SqSlot /\ s.sq[k].id # 0
  BY <1>1 DEF StoreWay, Undone
<1>3. s.sq[k].id \in Id
  BY <1>1, <1>2, SqEntryIs
<1>4. s.dependents[s.sq[k].id] \subseteq Id
  BY <1>1, <1>3
<1>5. \A m \in Id : \A j \in s.srcAdded[m] : s.lqIndex[m][j] \in LqSlot
  BY <1>1 DEF LoadQueue
<1> QED BY <1>4, <1>5 DEF Targets

(* execute_store *)
LEMMA QueuesStoreExecuted ==
  ASSUME trace \in Traces, NEW s, NEW t, NEW k \in s.rts1, Queues(s), t = StoreExecuted(s, k)
  PROVE  Queues(t)
<1>1. PICK u : u = StoreDone(s, k)
  OBVIOUS
<1>2. PICK I, f : I = Targets(s, k) /\ f = [a \in Addr |-> s.sq[k].id]
  OBVIOUS
<1>3. t = Loaded(u, I, f)
  BY <1>1, <1>2, StoreExecutedIs
<1>4. Shaped(s)
  BY DEF Queues
<1>5. StoreDoneTo(s, u, k)
  BY <1>1, <1>4, StoreDoneIs
<1>6. Queues(u)
  BY <1>5, QueuesStoreDone
<1>7. I \subseteq LqSlot
  BY <1>2, TargetsAreSlots
<1>8. LoadedTo(u, t, I, f)
  <2>1. Shaped(u)
    BY <1>6 DEF Queues
  <2> QED BY <1>3, <2>1, LoadedIs
<1> QED BY <1>6, <1>7, <1>8, QueuesLoaded

(* Loads and stores move on, and nothing else happens.                     *)
StagesOnly(s, t) ==
  /\ Shaped(t) /\ OrderKept(s, t) /\ StatusKept(s, t) /\ RegsKept(s, t) /\ LoadsKept(s, t) /\ StoresKept(s, t)
  /\ t.dependents = s.dependents /\ t.memOps = s.memOps

(* The rest of the invariant does not depend on the stages.                *)
LEMMA QueuesMoved ==
  ASSUME trace \in Traces, NEW s, NEW t, Queues(s), StagesOnly(s, t), LoadWay(t), StoreWay(t)
  PROVE  Queues(t)
<1>0. /\ Shaped(s) /\ Rob(s) /\ Registers(s) /\ LoadQueue(s) /\ StoreQueue(s)
      /\ Sta(s) /\ Ring(s) /\ Ops(s) /\ s.dependents \in [Id -> SUBSET Id]
  BY DEF Queues
<1>1. /\ Shaped(t) /\ OrderKept(s, t) /\ StatusKept(s, t) /\ RegsKept(s, t) /\ LoadsKept(s, t) /\ StoresKept(s, t)
      /\ t.dependents = s.dependents /\ t.memOps = s.memOps
  BY DEF StagesOnly
<1>2. /\ t.dstAdded = s.dstAdded /\ t.sqIndex = s.sqIndex /\ t.sq = s.sq /\ t.sqTail = s.sqTail /\ t.sta = s.sta
      /\ t.head = s.head /\ t.tail = s.tail
  BY <1>1 DEF OrderKept, StoresKept
<1>3. Rob(t) /\ Registers(t)
  BY <1>0, <1>1, RobKept, RegistersKept
<1>4. LoadQueue(t)
  BY <1>0, <1>1, LoadQueueKept DEF OrderKept
<1>5. StoreQueue(t)
  BY <1>0, <1>2, StoreQueueKept
<1>6. Sta(t)
  BY <1>0, <1>2, StaKept
<1>7. Ring(t)
  <2>1. s.sqTail \in SqSlot
    BY <1>0 DEF StoreQueue
  <2> QED BY <1>0, <1>2, <2>1, RingKept
<1>8. Ops(t)
  <2>1. t.srcAdded = s.srcAdded /\ t.lq = s.lq
    BY <1>1 DEF LoadsKept
  <2> QED BY <1>0, <1>1, <1>2, <2>1, OpsKept
<1> QED BY <1>0, <1>1, <1>3, <1>4, <1>5, <1>6, <1>7, <1>8 DEF Queues

(* retire_rob *)
LEMMA QueuesRetired ==
  ASSUME trace \in Traces, NEW s, NEW t, NEW n, Queues(s), n = s.head + 1, s.head < s.tail, s.executed[n] = "completed",
         RetiredTo(s, t, n)
  PROVE  Queues(t)
<1>0. /\ Shaped(s) /\ Rob(s) /\ Registers(s) /\ LoadQueue(s) /\ StoreQueue(s)
      /\ Sta(s) /\ Ring(s) /\ StoreWay(s) /\ LoadWay(s) /\ Ops(s) /\ s.dependents \in [Id -> SUBSET Id]
  BY DEF Queues
<1>1. /\ Shaped(t) /\ StatusKept(s, t) /\ LoadWayKept(s, t) /\ StoreWayKept(s, t)
      /\ t.head = n /\ t.tail = s.tail /\ t.memOps = s.memOps /\ t.regDeps = s.regDeps
      /\ t.lq = s.lq /\ t.sqTail = s.sqTail /\ t.sta = s.sta
      /\ t.sq = SqRetired(s, n) /\ t.wakes = Put(s.wakes, n, {}) /\ t.dependents = Put(s.dependents, n, {})
      /\ t.srcAdded = Put(s.srcAdded, n, {}) /\ t.dstAdded = Put(s.dstAdded, n, {})
      /\ t.lqIndex = Put(s.lqIndex, n, NoIndex) /\ t.sqIndex = Put(s.sqIndex, n, NoIndex)
  BY DEF RetiredTo
<1>2. n \in InRob(s) /\ n \in Id
  BY <1>0, InstructionIs DEF Rob, InRob
<1>3. LoadsOf(s, n) = {} /\ StoresOf(s, n) = {}
  <2>1. s.memOps[n] = 0
    BY <1>0, <1>2 DEF Ops
  <2> QED BY <1>0, <1>2, <2>1, OpsDone
<1>4. Rob(t)
  BY <1>0, <1>1, RobRetired
<1>5. Registers(t)
  BY <1>0, <1>1, RegistersRetired
<1>6. LoadQueue(t)
  BY <1>0, <1>1, <1>3, LoadQueueRetired
<1>7. StoreQueue(t) /\ \A k \in SqSlot : t.sq[k] = IF s.sq[k].id = n THEN NoStore ELSE s.sq[k]
  BY <1>0, <1>1, StoreQueueRetired
<1>8. Sta(t)
  <2>1. \A k \in SqSlot : t.sq[k].id \in {s.sq[k].id, 0}
    BY <1>7 DEF NoStore
  <2> QED BY <1>0, <1>1, <2>1, StaKept
<1>9. Ring(t)
  BY <1>0, <1>1, <1>7, RingRetired
<1>10. StoreWay(t)
  BY <1>0, <1>1, <1>3, <1>7, StoreWayRetired DEF StoreWayKept
<1>11. LoadWay(t)
  BY <1>0, <1>1 DEF LoadWay, LoadWayKept
<1>12. Ops(t)
  <2>1. DOMAIN s.srcAdded = Id /\ DOMAIN s.dstAdded = Id
    BY <1>0 DEF LoadQueue, StoreQueue
  <2> QED BY SMTT(60), <1>0, <1>1, <1>7, <2>1, OpsRetired
<1>13. t.dependents \in [Id -> SUBSET Id]
  BY <1>0, <1>1, <1>2 DEF Put
<1> QED BY <1>1, <1>4, <1>5, <1>6, <1>7, <1>8, <1>9, <1>10, <1>11, <1>12, <1>13 DEF Queues
-----------------------------------------------------------------------------
(* The steps. *)

(* What holds of a state t holds after the step to t.                      *)
LEMMA QueuesReached ==
  ASSUME NEW t, core' = t, trace' = trace, Queues(t)
  PROVE  Queues(core)'
<1>0. /\ Shaped(t) /\ Rob(t) /\ Registers(t) /\ LoadQueue(t) /\ StoreQueue(t)
      /\ Sta(t) /\ Ring(t) /\ StoreWay(t) /\ LoadWay(t) /\ Ops(t) /\ t.dependents \in [Id -> SUBSET Id]
  BY DEF Queues
<1>1. Shaped(core)'
  BY <1>0 DEF Shaped, Fields
<1>2. Rob(core)'
  BY <1>0 DEF Rob, Id, Status, IsMemory
<1>3. Registers(core)'
  BY SMTT(60), <1>0 DEF Registers, Id, Wakes, AwaitedRegs
<1>4. LoadQueue(core)'
  BY SMTT(60), <1>0 DEF LoadQueue, Id, Operands, LqSlot, LqEntry, NoLoad, InRob
<1>5. StoreQueue(core)'
  BY SMTT(60), <1>0 DEF StoreQueue, Id, Operands, SqSlot, SqEntry, NoStore, InRob
<1>6. Sta(core)'
  BY <1>0 DEF Sta, Id, SqSlot
<1>7. Ring(core)'
  BY <1>0 DEF Ring, Slot, SqSlot
<1>8. StoreWay(core)' /\ LoadWay(core)'
  BY <1>0 DEF StoreWay, LoadWay, Undone, SqSlot, LqSlot
<1>9. Ops(core)'
  BY ZenonT(60), <1>0 DEF Ops, Id, InRob, Accounted, Unadded, LoadsOf, StoresOf, LqSlot, SqSlot
<1> QED BY <1>0, <1>1, <1>2, <1>3, <1>4, <1>5, <1>6, <1>7, <1>8, <1>9 DEF Queues, Id

(* Before the first instruction nothing is in the queues.                  *)
LEMMA QueuesInit ==
  ASSUME Init
  PROVE  Queues(core)
<1>0. trace \in Traces
  BY DEF Init
<1>1. /\ core.head = 0 /\ core.tail = 0
      /\ core.scheduled = [n \in Id |-> "no"] /\ core.executed = [n \in Id |-> "no"]
      /\ core.regDeps = [n \in Id |-> 0] /\ core.wakes = [n \in Id |-> {}] /\ core.dependents = [n \in Id |-> {}]
      /\ core.memOps = [n \in Id |-> 0]
      /\ core.srcAdded = [n \in Id |-> {}] /\ core.dstAdded = [n \in Id |-> {}]
      /\ core.lqIndex = [n \in Id |-> NoIndex] /\ core.sqIndex = [n \in Id |-> NoIndex]
      /\ core.lq = [i \in LqSlot |-> NoLoad] /\ core.sq = [i \in SqSlot |-> NoStore]
      /\ core.sqTail = 1 /\ core.sta = <<>>
  BY DEF Init, Start, NoIndex
<1>2. core.rtl0 = {} /\ core.dtlbL = {} /\ core.rtl1 = {} /\ core.l1d = {} /\ core.rts0 = {} /\ core.dtlbS = {} /\ core.rts1 = {}
  BY DEF Init, Start
<1>3. Shaped(core)
  BY DEF Init, Start, Shaped, Fields
<1>4. Len(trace) \in Nat /\ Id = 1 .. Len(trace) /\ InRob(core) = {}
  BY <1>0, <1>1, InstructionIs DEF InRob
<1>5. Rob(core)
  BY <1>1, <1>4, SizesAssumption DEF Rob, Status
<1>6. Registers(core)
  <2>1. \A n \in Id : AwaitedRegs(core, n) = {}
    BY <1>1 DEF AwaitedRegs, Wakes
  <2>2. Cardinality({}) = 0
    BY FS_EmptySet
  <2>3. core.regDeps \in [Id -> Int] /\ core.wakes \in [Id -> SUBSET (Id \X Reg)]
    BY <1>1
  <2>4. \A m, n \in Id : \A r \in Reg : ~Wakes(core, m, n, r)
    BY <1>1 DEF Wakes
  <2>5. \A n \in Id : core.regDeps[n] = 0 /\ core.regDeps[n] = Cardinality(AwaitedRegs(core, n))
    BY ZenonT(60), <1>1, <2>1, <2>2
  <2> QED BY <2>3, <2>4, <2>5 DEF Registers
<1>7. LoadQueue(core)
  BY <1>1 DEF LoadQueue, NoIndex, NoLoad
<1>8. StoreQueue(core)
  <2>1. 1 \in SqSlot
    BY SlotsFinite DEF SqSlot
  <2> QED BY <1>1, <2>1 DEF StoreQueue, NoIndex, NoStore
<1>9. Sta(core)
  BY <1>1 DEF Sta
<1>10. Ring(core)
  <2>1. \A x \in SqSlot : Slot(core, x) \in SqSlot
    <3>1. core.sqTail \in SqSlot
      BY <1>8 DEF StoreQueue
    <3> QED BY <3>1, SlotIs
  <2> QED BY <1>1, <2>1 DEF Ring, NoStore
<1>11. StoreWay(core) /\ LoadWay(core)
  BY <1>1, <1>2 DEF StoreWay, LoadWay, Undone, NoStore
<1>12. Ops(core)
  BY <1>1, <1>4 DEF Ops
<1> QED BY <1>1, <1>3, <1>5, <1>6, <1>7, <1>8, <1>9, <1>10, <1>11, <1>12 DEF Queues

(* Every step keeps the queues.                                            *)
LEMMA QueuesNext ==
  ASSUME trace \in Traces, Queues(core), Next
  PROVE  trace' = trace /\ Queues(core)'
<1>0. /\ Shaped(core) /\ Rob(core) /\ Registers(core) /\ LoadQueue(core) /\ StoreQueue(core)
      /\ Sta(core) /\ Ring(core) /\ StoreWay(core) /\ LoadWay(core) /\ Ops(core)
  BY DEF Queues
<1> SUFFICES \E t : core' = t /\ trace' = trace /\ Queues(t)
  BY QueuesReached
<1>1. CASE Fetch
  <2>1. PICK t : t = Fetched(core)
    OBVIOUS
  <2>2. FetchedTo(core, t)
    BY <1>0, <2>1, FetchedIs
  <2>3. Queues(t)
    BY <1>1, <2>2, QueuesFetched DEF Fetch
  <2> QED BY <1>1, <2>1, <2>3 DEF Fetch
<1>2. ASSUME NEW n \in Id, Schedule(n)  PROVE \E t : core' = t /\ trace' = trace /\ Queues(t)
  <2>1. PICK t : t = Scheduled(core, n)
    OBVIOUS
  <2>2. ScheduledTo(core, t, n)
    BY <1>0, <2>1, ScheduledIs
  <2>3. Queues(t)
    BY <1>2, <2>2, QueuesScheduled DEF Schedule
  <2> QED BY <1>2, <2>1, <2>3 DEF Schedule
<1>3. ASSUME NEW n \in Id, Execute(n)  PROVE \E t : core' = t /\ trace' = trace /\ Queues(t)
  <2>1. PICK t : t = [ReadsRegs(core, n) EXCEPT !.executed[n] = "inflight"]
    OBVIOUS
  <2>2. Queues(t)
    BY <1>3, <2>1, QueuesExecuted DEF Execute
  <2> QED BY <1>3, <2>1, <2>2 DEF Execute
<1>4. ASSUME NEW n \in Id, Complete(n)  PROVE \E t : core' = t /\ trace' = trace /\ Queues(t)
  <2>1. PICK t : t = Completed(core, n)
    OBVIOUS
  <2>2. CompletedTo(core, t, n)
    BY <1>0, <2>1, CompletedIs
  <2>3. Queues(t)
    BY <1>4, <2>2, QueuesCompleted DEF Complete
  <2> QED BY <1>4, <2>1, <2>3 DEF Complete
<1>5. ASSUME NEW n \in Id, ScheduleMemory(n)  PROVE \E t : core' = t /\ trace' = trace /\ Queues(t)
  <2>1. PICK t : t = MemScheduled(core, n)
    OBVIOUS
  <2>2. Queues(t)
    BY <1>5, <2>1, QueuesMemScheduled DEF ScheduleMemory, Schedulable
  <2> QED BY <1>5, <2>1, <2>2 DEF ScheduleMemory
<1>6. ASSUME NEW k \in SqSlot, TranslateStore(k)  PROVE \E t : core' = t /\ trace' = trace /\ Queues(t)
  <2>1. PICK t : t = [core EXCEPT !.rts0 = @ \ {k}, !.dtlbS = @ \cup {k}]
    OBVIOUS
  <2>2. StagesOnly(core, t) /\ LoadWayKept(core, t)
    BY <1>0, <2>1 DEF StagesOnly, Shaped, Fields, OrderKept, StatusKept, RegsKept, LoadsKept, StoresKept, LoadWayKept
  <2>3. t.rts0 = core.rts0 \ {k} /\ t.dtlbS = core.dtlbS \cup {k} /\ t.rts1 = core.rts1 /\ t.sq = core.sq
    BY <1>0, <2>1 DEF Shaped, Fields
  <2>4. k \in core.rts0
    BY <1>6 DEF TranslateStore
  <2>5. StoreWay(t)
    BY <1>0, <2>3, <2>4 DEF StoreWay, Undone
  <2>6. LoadWay(t)
    BY <1>0, <2>2 DEF LoadWay, LoadWayKept
  <2>7. Queues(t)
    BY <2>2, <2>5, <2>6, QueuesMoved
  <2> QED BY <1>6, <2>1, <2>7 DEF TranslateStore
<1>7. ASSUME NEW k \in SqSlot, ExecuteStore(k)  PROVE \E t : core' = t /\ trace' = trace /\ Queues(t)
  <2>1. PICK t : t = StoreExecuted(core, k)
    OBVIOUS
  <2>2. Queues(t)
    BY <1>7, <2>1, QueuesStoreExecuted DEF ExecuteStore
  <2> QED BY <1>7, <2>1, <2>2 DEF ExecuteStore
<1>8. ASSUME NEW i \in LqSlot, TranslateLoad(i)  PROVE \E t : core' = t /\ trace' = trace /\ Queues(t)
  <2>1. PICK t : t = [core EXCEPT !.rtl0 = @ \ {i}, !.dtlbL = @ \cup {i}]
    OBVIOUS
  <2>2. StagesOnly(core, t) /\ StoreWayKept(core, t) /\ t.sq = core.sq
    BY <1>0, <2>1 DEF StagesOnly, Shaped, Fields, OrderKept, StatusKept, RegsKept, LoadsKept, StoresKept, StoreWayKept
  <2>3. t.rtl0 = core.rtl0 \ {i} /\ t.dtlbL = core.dtlbL \cup {i} /\ t.rtl1 = core.rtl1 /\ t.l1d = core.l1d
    BY <1>0, <2>1 DEF Shaped, Fields
  <2>4. StoreWay(t)
    BY <1>0, <2>2 DEF StoreWay, StoreWayKept, Undone
  <2>5. LoadWay(t)
    BY <1>0, <2>3 DEF LoadWay
  <2>6. Queues(t)
    BY <2>2, <2>4, <2>5, QueuesMoved
  <2> QED BY <1>8, <2>1, <2>6 DEF TranslateLoad
<1>9. ASSUME NEW i \in LqSlot, ExecuteLoad(i)  PROVE \E t : core' = t /\ trace' = trace /\ Queues(t)
  <2>1. PICK t : t = [core EXCEPT !.rtl1 = @ \ {i}, !.l1d = @ \cup {i}]
    OBVIOUS
  <2>2. StagesOnly(core, t) /\ StoreWayKept(core, t) /\ t.sq = core.sq
    BY <1>0, <2>1 DEF StagesOnly, Shaped, Fields, OrderKept, StatusKept, RegsKept, LoadsKept, StoresKept, StoreWayKept
  <2>3. t.rtl0 = core.rtl0 /\ t.dtlbL = core.dtlbL /\ t.rtl1 = core.rtl1 \ {i} /\ t.l1d = core.l1d \cup {i}
    BY <1>0, <2>1 DEF Shaped, Fields
  <2>4. StoreWay(t)
    BY <1>0, <2>2 DEF StoreWay, StoreWayKept, Undone
  <2>5. LoadWay(t)
    BY <1>0, <2>3 DEF LoadWay
  <2>6. Queues(t)
    BY <2>2, <2>4, <2>5, QueuesMoved
  <2> QED BY <1>9, <2>1, <2>6 DEF ExecuteLoad
<1>10. ASSUME NEW I, NEW K, Translated(I, K)  PROVE \E t : core' = t /\ trace' = trace /\ Queues(t)
  <2>1. PICK t : t = [core EXCEPT !.dtlbL = @ \ I, !.rtl1 = @ \cup I, !.dtlbS = @ \ K, !.rts1 = @ \cup K]
    OBVIOUS
  <2>2. StagesOnly(core, t) /\ t.sq = core.sq
    BY <1>0, <2>1 DEF StagesOnly, Shaped, Fields, OrderKept, StatusKept, RegsKept, LoadsKept, StoresKept
  <2>3. /\ t.rtl0 = core.rtl0 /\ t.dtlbL = core.dtlbL \ I /\ t.rtl1 = core.rtl1 \cup I /\ t.l1d = core.l1d
        /\ t.rts0 = core.rts0 /\ t.dtlbS = core.dtlbS \ K /\ t.rts1 = core.rts1 \cup K
    BY <1>0, <2>1 DEF Shaped, Fields
  <2>4. I \subseteq core.dtlbL /\ K \subseteq core.dtlbS
    BY <1>10 DEF Translated
  <2>5. StoreWay(t)
    BY <1>0, <2>2, <2>3, <2>4 DEF StoreWay, Undone
  <2>6. LoadWay(t)
    BY <1>0, <2>3, <2>4 DEF LoadWay
  <2>7. Queues(t)
    BY <2>2, <2>5, <2>6, QueuesMoved
  <2> QED BY <1>10, <2>1, <2>7 DEF Translated
<1>11. ASSUME NEW I, Answered(I)  PROVE \E t : core' = t /\ trace' = trace /\ Queues(t)
  <2>1. PICK f : f = memory
    OBVIOUS
  <2>2. PICK u : u = Loaded(core, I, f)
    OBVIOUS
  <2>3. PICK t : t = [u EXCEPT !.l1d = @ \ I]
    OBVIOUS
  <2>4. I \subseteq LqSlot
    BY <1>0, <1>11 DEF Answered, LoadWay
  <2>5. LoadedTo(core, u, I, f)
    BY <1>0, <2>2, LoadedIs
  <2>6. Queues(u)
    BY <2>4, <2>5, QueuesLoaded
  <2>7. Shaped(u) /\ LoadWay(u) /\ StoreWay(u)
    BY <2>6 DEF Queues
  <2>8. StagesOnly(u, t) /\ StoreWayKept(u, t) /\ t.sq = u.sq
    BY <2>3, <2>7 DEF StagesOnly, Shaped, Fields, OrderKept, StatusKept, RegsKept, LoadsKept, StoresKept, StoreWayKept
  <2>9. t.rtl0 = u.rtl0 /\ t.dtlbL = u.dtlbL /\ t.rtl1 = u.rtl1 /\ t.l1d = u.l1d \ I
    BY <2>3, <2>7 DEF Shaped, Fields
  <2>10. StoreWay(t)
    BY <2>7, <2>8 DEF StoreWay, StoreWayKept, Undone
  <2>11. LoadWay(t)
    BY <2>7, <2>9 DEF LoadWay
  <2>12. Queues(t)
    BY <2>6, <2>8, <2>10, <2>11, QueuesMoved
  <2> QED BY <1>11, <2>1, <2>2, <2>3, <2>12 DEF Answered
<1>12. CASE Retire
  <2>1. PICK t : t = Retired(core)
    OBVIOUS
  <2>2. PICK n : n = core.head + 1
    OBVIOUS
  <2>3. RetiredTo(core, t, n)
    BY <1>0, <2>1, <2>2, RetiredIs
  <2>4. core.head < core.tail /\ core.executed[n] = "completed"
    BY <1>12, <2>2 DEF Retire
  <2>5. Queues(t)
    BY <2>2, <2>3, <2>4, QueuesRetired
  <2> QED BY <1>12, <2>1, <2>5 DEF Retire
<1> QED BY <1>1, <1>2, <1>3, <1>4, <1>5, <1>6, <1>7, <1>8, <1>9, <1>10, <1>11, <1>12 DEF Next

(* A step that changes nothing keeps them. *)
LEMMA QueuesUnchanged ==
  ASSUME Queues(core), UNCHANGED vars
  PROVE  Queues(core)'
<1>1. PICK t : t = core
  OBVIOUS
<1>2. core' = t /\ trace' = trace
  BY <1>1 DEF vars
<1> QED BY <1>1, <1>2, QueuesReached

(* The retired stores that memory holds are in the program.                *)
MemoryOK == memory \in [Addr -> Id \cup {0}]
QueueInvariant == trace \in Traces /\ Queues(core) /\ MemoryOK

(* The invariant holds from the start and every handler keeps it.          *)
THEOREM QueuesHold == Spec => []QueueInvariant
<1>1. Init => QueueInvariant
  <2> SUFFICES ASSUME Init  PROVE QueueInvariant
    OBVIOUS
  <2>1. trace \in Traces /\ MemoryOK
    BY DEF Init, MemoryOK
  <2> QED BY <2>1, QueuesInit DEF QueueInvariant
<1>2. QueueInvariant /\ [Next]_vars => QueueInvariant'
  <2> SUFFICES ASSUME QueueInvariant, [Next]_vars  PROVE QueueInvariant'
    OBVIOUS
  <2>1. trace' = trace /\ Queues(core)'
    BY QueuesNext, QueuesUnchanged DEF QueueInvariant, vars
  <2>2. trace' \in Traces
    BY <2>1 DEF QueueInvariant
  <2>3. MemoryOK'
    <3>1. CASE Retire
      <4>1. core.head + 1 \in Id
        <5>1. Rob(core) /\ trace \in Traces
          BY DEF QueueInvariant, Queues
        <5>2. core.head < core.tail
          BY <3>1 DEF Retire
        <5> QED BY <5>1, <5>2, InstructionIs DEF Rob
      <4>2. memory' = [a \in Addr |->
                         IF a \in Elements(trace[core.head + 1].stores) THEN core.head + 1 ELSE memory[a]]
        BY <3>1 DEF Retire
      <4> QED BY <2>1, <4>1, <4>2 DEF MemoryOK, QueueInvariant, Id
    <3>2. CASE UNCHANGED memory
      BY SMTT(60), <2>1, <3>2 DEF MemoryOK, QueueInvariant, Id
    <3>3. Retire \/ UNCHANGED memory
      BY DEF Next, Fetch, Schedule, Execute, Complete, ScheduleMemory, TranslateStore, TranslateLoad, Translated,
             ExecuteStore, ExecuteLoad, Answered, vars
    <3> QED BY <3>1, <3>2, <3>3
  <2> QED BY <2>1, <2>2, <2>3 DEF QueueInvariant
<1> QED BY <1>1, <1>2, PTL DEF Spec

(* The shape of the state: no num_mem_ops and no num_reg_dependent goes    *)
(* below zero, whichever of the handlers counts it down.                   *)
THEOREM TypesHold == Spec => []TypeOK
<1>1. QueueInvariant => TypeOK
  <2> SUFFICES ASSUME QueueInvariant  PROVE TypeOK
    OBVIOUS
  <2>1. trace \in Traces /\ Rob(core) /\ Registers(core) /\ LoadQueue(core) /\ StoreQueue(core) /\ Sta(core)
        /\ StoreWay(core) /\ LoadWay(core) /\ Ops(core) /\ core.dependents \in [Id -> SUBSET Id] /\ MemoryOK
    BY DEF QueueInvariant, Queues
  <2>2. core.head \in 0 .. core.tail /\ core.tail \in 0 .. Len(trace) /\ core.tail - core.head <= ROB_SIZE
    BY <2>1 DEF Rob
  <2>3. core.scheduled \in [Id -> {"no", "inflight", "completed"}] /\ core.executed \in [Id -> {"no", "inflight", "completed"}]
    BY <2>1 DEF Rob, Status
  <2>4. core.regDeps \in [Id -> Nat] /\ core.wakes \in [Id -> SUBSET (Id \X Reg)]
    <3>1. \A n \in Id : core.regDeps[n] \in Nat
      <4> SUFFICES ASSUME NEW n \in Id  PROVE core.regDeps[n] \in Nat
        OBVIOUS
      <4>1. AwaitedRegs(core, n) \in SUBSET Reg /\ IsFiniteSet(Reg)
        BY TracesAssumption DEF AwaitedRegs
      <4>2. Cardinality(AwaitedRegs(core, n)) \in Nat
        BY <4>1, FS_Subset, FS_CardinalityType
      <4> QED BY <2>1, <4>2 DEF Registers
    <3> QED BY <2>1, <3>1 DEF Registers
  <2>5. core.memOps \in [Id -> Nat]
    <3>1. \A n \in Id : core.memOps[n] \in Nat
      <4> SUFFICES ASSUME NEW n \in Id  PROVE core.memOps[n] \in Nat
        OBVIOUS
      <4>1. CASE n \notin InRob(core)
        BY <2>1, <4>1 DEF Ops
      <4>2. CASE n \in InRob(core)
        <5>1. PICK b \in Nat, c \in Nat, e \in Nat, g \in Nat :
                 /\ b = Cardinality(DOMAIN trace[n].loads \ core.srcAdded[n])
                 /\ g = Cardinality(DOMAIN trace[n].stores \ core.dstAdded[n])
                 /\ c = Cardinality(LoadsOf(core, n)) /\ e = Cardinality(StoresOf(core, n))
          <6>1. /\ Cardinality(DOMAIN trace[n].loads \ core.srcAdded[n]) \in Nat
                /\ Cardinality(DOMAIN trace[n].stores \ core.dstAdded[n]) \in Nat
                /\ Cardinality(LoadsOf(core, n)) \in Nat /\ Cardinality(StoresOf(core, n)) \in Nat
            BY <2>1, CountsAre
          <6> QED BY <6>1
        <5>2. Accounted(core, n)
          BY <2>1, <4>2 DEF Ops
        <5> QED BY <5>1, <5>2 DEF Accounted, Unadded
      <4> QED BY <4>1, <4>2
    <3> QED BY <2>1, <3>1 DEF Ops
  <2>6. core.srcAdded \in [Id -> SUBSET Operands] /\ core.dstAdded \in [Id -> SUBSET Operands]
    BY <2>1 DEF LoadQueue, StoreQueue
  <2>7. core.lq \in [LqSlot -> [id : Id, src : Operands, producer : Id \cup {0}] \cup {NoLoad}]
    BY <2>1 DEF LoadQueue, LqEntry
  <2>8. core.sq \in [SqSlot -> [id : Id, dst : Operands, done : BOOLEAN] \cup {NoStore}]
    BY <2>1 DEF StoreQueue, SqEntry
  <2>9. core.sqTail \in SqSlot /\ core.sta \in Seq(Id)
    BY <2>1 DEF StoreQueue, Sta
  <2>10. UNION {core.rtl0, core.dtlbL, core.rtl1, core.l1d} \subseteq LqSlot
    BY <2>1 DEF LoadWay
  <2>11. UNION {core.rts0, core.dtlbS, core.rts1} \subseteq SqSlot
    BY <2>1 DEF StoreWay, Undone
  <2> QED BY <2>1, <2>2, <2>3, <2>4, <2>5, <2>6, <2>7, <2>8, <2>9, <2>10, <2>11 DEF TypeOK, MemoryOK
<1> QED BY <1>1, QueuesHold, PTL

(* num_mem_ops of an instruction of the ROB is the number of its accesses  *)
(* that are still to be made, although execute_store, handle_merged_load,  *)
(* complete_data_fetch and add_load_queue all count it down.               *)
THEOREM OpsAreAccounted == Spec => []OpsAccounted
<1>1. QueueInvariant => OpsAccounted
  <2> SUFFICES ASSUME QueueInvariant, NEW n \in InRob(core)
               PROVE  core.memOps[n] =
                        Cardinality(DOMAIN trace[n].loads \ core.srcAdded[n])
                        + Cardinality({i \in LqSlot : core.lq[i].id = n})
                        + Cardinality(DOMAIN trace[n].stores \ core.dstAdded[n])
                        + Cardinality({k \in SqSlot : core.sq[k].id = n /\ ~core.sq[k].done})
    BY DEF OpsAccounted
  <2>1. n \in Id /\ Ops(core) /\ trace \in Traces
    BY InRobIs DEF QueueInvariant, Queues
  <2>2. PICK b \in Nat, c \in Nat, e \in Nat, g \in Nat :
           /\ b = Cardinality(DOMAIN trace[n].loads \ core.srcAdded[n])
           /\ g = Cardinality(DOMAIN trace[n].stores \ core.dstAdded[n])
           /\ c = Cardinality(LoadsOf(core, n)) /\ e = Cardinality(StoresOf(core, n))
    <3>1. /\ Cardinality(DOMAIN trace[n].loads \ core.srcAdded[n]) \in Nat
          /\ Cardinality(DOMAIN trace[n].stores \ core.dstAdded[n]) \in Nat
          /\ Cardinality(LoadsOf(core, n)) \in Nat /\ Cardinality(StoresOf(core, n)) \in Nat
      BY <2>1, CountsAre
    <3> QED BY <3>1
  <2>3. core.memOps[n] = b + g + c + e
    <3>1. Accounted(core, n)
      BY <2>1 DEF Ops
    <3> QED BY <2>2, <3>1 DEF Accounted, Unadded
  <2>4. c = Cardinality({i \in LqSlot : core.lq[i].id = n})
        /\ e = Cardinality({k \in SqSlot : core.sq[k].id = n /\ ~core.sq[k].done})
    BY <2>2 DEF LoadsOf, StoresOf
  <2>5. core.memOps[n] = b + c + g + e
    BY <2>2, <2>3
  <2> QED BY <2>2, <2>4, <2>5
<1> QED BY <1>1, QueuesHold, PTL

(* The stores stand behind the tail in program order, the youngest first,  *)
(* with no hole: retirement frees the entries of one instruction in any    *)
(* order, but all of them and those of the oldest.                         *)
THEOREM StoresAreInOrder == Spec => []StoresInOrder
<1>1. QueueInvariant => StoresInOrder
  <2> SUFFICES ASSUME QueueInvariant  PROVE StoresInOrder
    OBVIOUS
  <2>1. StoreQueue(core) /\ Ring(core) /\ core.sqTail \in SqSlot
    BY DEF QueueInvariant, Queues, StoreQueue
  <2>2. FreeSq(core) \subseteq SqSlot
    BY DEF FreeSq
  <2>3. PICK F : F = SqSlot \ FreeSq(core)
    OBVIOUS
  <2>4. PICK used \in Nat : /\ used = SQ_SIZE - Cardinality(FreeSq(core))
                            /\ used = Cardinality(F) /\ used <= SQ_SIZE
    <3>1. IsFiniteSet(SqSlot) /\ Cardinality(SqSlot) = SQ_SIZE /\ SQ_SIZE \in Nat
      BY SlotsFinite
    <3>2. /\ Cardinality(F) = Cardinality(SqSlot) - Cardinality(FreeSq(core))
          /\ Cardinality(F) \in Nat /\ Cardinality(FreeSq(core)) \in Nat
      BY <2>2, <2>3, <3>1, CountRest
    <3> QED BY <3>1, <3>2
  <2>5. ASSUME NEW x \in 1 .. used  PROVE x \in SqSlot /\ core.sq[Slot(core, x)].id # 0
    <3>1. x \in SqSlot /\ x \in Nat /\ 1 <= x
      BY <2>4, SlotsFinite DEF SqSlot
    <3>2. ASSUME core.sq[Slot(core, x)].id = 0  PROVE FALSE
      <4>1. PICK T : T = {Slot(core, y) : y \in 1 .. (x - 1)}
        OBVIOUS
      <4>2. F \subseteq T
        <5> SUFFICES ASSUME NEW k \in F  PROVE k \in T
          OBVIOUS
        <5>1. k \in SqSlot /\ core.sq[k].id # 0
          BY <2>3 DEF FreeSq
        <5>2. PICK y \in SqSlot : Slot(core, y) = k
          BY <2>1, <5>1, SlotOnto
        <5>3. ~(x <= y)
          BY <2>1, <3>1, <3>2, <5>1, <5>2 DEF Ring
        <5>4. y \in 1 .. (x - 1)
          BY <3>1, <5>3, SlotsFinite DEF SqSlot
        <5> QED BY <4>1, <5>2, <5>4
      <4>3. IsFiniteSet(1 .. (x - 1)) /\ Cardinality(1 .. (x - 1)) = x - 1
        <5>1. 1 \in Int /\ x - 1 \in Int /\ x - 1 >= 0
          BY <3>1
        <5>2. IsFiniteSet(1 .. (x - 1)) /\ Cardinality(1 .. (x - 1)) = IF 1 > x - 1 THEN 0 ELSE x - 1 - 1 + 1
          BY <5>1, FS_Interval
        <5> QED BY <3>1, <5>2
      <4>4. IsFiniteSet(T) /\ Cardinality(T) <= x - 1
        <5>1. PICK f : f = [y \in 1 .. (x - 1) |-> Slot(core, y)]
          OBVIOUS
        <5>2. f \in Surjection(1 .. (x - 1), T)
          BY <4>1, <5>1 DEF Surjection
        <5>3. IsFiniteSet(T) /\ Cardinality(T) <= Cardinality(1 .. (x - 1))
          BY <4>3, <5>2, FS_Surjection
        <5> QED BY <4>3, <5>3
      <4>5. Cardinality(F) <= Cardinality(T) /\ Cardinality(T) \in Nat
        BY <4>2, <4>4, FS_Subset, FS_CardinalityType
      <4> QED BY <2>4, <3>1, <4>4, <4>5
    <3> QED BY <3>1, <3>2
  <2>6. \A x : Behind(x) = Slot(core, x)
    BY DEF Behind, Slot
  <2>7. \A x \in 1 .. used : Behind(x) \notin FreeSq(core)
    BY <2>5, <2>6 DEF FreeSq
  <2>8. \A x \in 1 .. used : \A y \in 1 .. (x - 1) : core.sq[Behind(x)].id <= core.sq[Behind(y)].id
    <3> SUFFICES ASSUME NEW x \in 1 .. used, NEW y \in 1 .. (x - 1)
                 PROVE  core.sq[Slot(core, x)].id <= core.sq[Slot(core, y)].id
      BY <2>6
    <3>1. y \in 1 .. used /\ y <= x
      BY <2>4
    <3>2. x \in SqSlot /\ y \in SqSlot /\ core.sq[Slot(core, x)].id # 0
      BY <2>5, <3>1
    <3> QED BY <2>1, <3>1, <3>2 DEF Ring
  <2> QED BY SMTT(60), <2>4, <2>7, <2>8 DEF StoresInOrder
<1> QED BY <1>1, QueuesHold, PTL
=============================================================================
