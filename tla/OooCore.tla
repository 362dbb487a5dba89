------------------------------ MODULE OooCore ------------------------------
(***************************************************************************)
(* The out-of-order core (src/ooo_cpu.cc): instructions of a trace enter   *)
(* the reorder buffer in order, wait for their source registers, take      *)
(* entries of the load and the store queue, access the DTLB and the L1D,   *)
(* forward from stores to loads, and retire in order.                      *)
(*                                                                         *)
(* The state of the core is one record, so that the steps of a handler     *)
(* compose as functions on it.  Cycles are left out: what waits for an     *)
(* event_cycle (the fetch of an instruction from the L1I included) may     *)
(* happen at any time from then on, and so may a fetch that a branch holds *)
(* up.  An instruction is named by its number in the trace instead of by   *)
(* its slot, and the DTLB and the L1D are the sets of the requests they    *)
(* have not answered yet (CacheHierarchy says that they answer each once). *)
(***************************************************************************)
EXTENDS Integers, Sequences, FiniteSets

CONSTANTS
  Addr, Reg,
  Traces,           \* the programs: sequences of instructions
  ROB_SIZE, LQ_SIZE, SQ_SIZE, SCHEDULER_SIZE

VARIABLES
  trace,    \* the program that runs
  core,     \* the state of the core
  memory    \* the last retired store to each address

vars == <<trace, core, memory>>

ASSUME SizesAssumption ==
  ROB_SIZE \in Nat \ {0} /\ LQ_SIZE \in Nat \ {0} /\ SQ_SIZE \in Nat \ {0} /\ SCHEDULER_SIZE \in Nat \ {0}

(* Two memory sources and two memory destinations stand for the four and   *)
(* two of the trace format, which does not repeat an address.              *)
Operands == {1, 2}
Places(X) == {q \in UNION {[1 .. k -> X] : k \in 0 .. 2} : \A i, j \in DOMAIN q : q[i] = q[j] => i = j}
Instruction == [reads : SUBSET Reg, writes : SUBSET Reg, loads : Places(Addr), stores : Places(Addr)]

ASSUME TracesAssumption == Traces \subseteq Seq(Instruction) /\ IsFiniteSet(Reg)

Id == 1 .. Len(trace)
LqSlot == 1 .. LQ_SIZE
SqSlot == 1 .. SQ_SIZE

Elements(q) == {q[i] : i \in DOMAIN q}
IsMemory(n) == trace[n].loads # <<>> \/ trace[n].stores # <<>>
NumMemOps(n) == Len(trace[n].loads) + Len(trace[n].stores)

NoLoad == [id |-> 0, src |-> 0, producer |-> 0]
NoStore == [id |-> 0, dst |-> 0, done |-> FALSE]

Start ==
  [head       |-> 0,                                  \* instructions retired
   tail       |-> 0,                                  \* instructions in the ROB or retired
   scheduled  |-> [n \in Id |-> "no"],
   executed   |-> [n \in Id |-> "no"],
   regDeps    |-> [n \in Id |-> 0],                   \* num_reg_dependent
   wakes      |-> [n \in Id |-> {}],                  \* registers_index_depend_on_me
   dependents |-> [n \in Id |-> {}],                  \* memory_instrs_depend_on_me
   memOps     |-> [n \in Id |-> 0],                   \* num_mem_ops
   srcAdded   |-> [n \in Id |-> {}],
   dstAdded   |-> [n \in Id |-> {}],
   lqIndex    |-> [n \in Id |-> [j \in Operands |-> 0]],
   sqIndex    |-> [n \in Id |-> [d \in Operands |-> 0]],
   lq         |-> [i \in LqSlot |-> NoLoad],
   sq         |-> [i \in SqSlot |-> NoStore],
   sqTail     |-> 1,
   sta        |-> <<>>,                               \* stores not yet in the store queue
   rtl0 |-> {}, dtlbL |-> {}, rtl1 |-> {}, l1d |-> {}, \* loads on their way
   rts0 |-> {}, dtlbS |-> {}, rts1 |-> {},            \* stores on their way
   sawRegs    |-> [n \in Id |-> [r \in trace[n].reads |-> 0]],              \* history
   sawMem     |-> [n \in Id |-> [j \in DOMAIN trace[n].loads |-> 0]]]       \* history

Init ==
  /\ trace \in Traces
  /\ core = Start
  /\ memory = [a \in Addr |-> 0]

-----------------------------------------------------------------------------
InRob(s) == (s.head + 1) .. s.tail
Older(s, n) == (s.head + 1) .. (n - 1)
Youngest(S) == CHOOSE m \in S : \A k \in S : k <= m
YoungestOrNone(S) == IF S = {} THEN 0 ELSE Youngest(S)

FreeLq(s) == {i \in LqSlot : s.lq[i].id = 0}
FreeSq(s) == {i \in SqSlot : s.sq[i].id = 0}
LoadAddr(s, i) == trace[s.lq[i].id].loads[s.lq[i].src]
StoreAddr(s, i) == trace[s.sq[i].id].stores[s.sq[i].dst]

(* What a register holds for instruction n when it starts to execute: the  *)
(* result of the youngest older instruction that has one.                  *)
RegValue(s, n, r) ==
  YoungestOrNone({m \in 1 .. (n - 1) : r \in trace[m].writes /\ (m <= s.head \/ s.executed[m] = "completed")})
ReadsRegs(s, n) ==
  [s EXCEPT !.sawRegs[n] = [r \in trace[n].reads |-> RegValue(s, n, r)]]

-----------------------------------------------------------------------------
(* handle_branch and add_to_rob: the next instruction of the trace enters  *)
(* the ROB, its stores the STA.                                            *)
Fetched(s) ==
  LET n == s.tail + 1
  IN  [s EXCEPT !.tail = n,
                !.memOps[n] = NumMemOps(n),
                !.sta = @ \o [d \in DOMAIN trace[n].stores |-> n]]

(* reg_dependency: for each source register the youngest older instruction *)
(* that writes it and has not executed.                                    *)
Writers(s, n, r) == {m \in Older(s, n) : s.executed[m] # "completed" /\ r \in trace[m].writes}
RegProducerOldest(s, n, r) ==   \* mutant: the search begins at the head
  LET W == Writers(s, n, r) IN IF W = {} THEN 0 ELSE CHOOSE m \in W : \A k \in W : m <= k
RegProducer(s, n, r) == YoungestOrNone(Writers(s, n, r))

Scheduled(s, n) ==
  LET waits == {r \in trace[n].reads : RegProducer(s, n, r) # 0}
  IN  [s EXCEPT
        !.regDeps[n] = Cardinality(waits),
        !.wakes = [m \in Id |-> @[m] \cup {<<n, r>> : r \in {x \in waits : RegProducer(s, n, x) = m}}],
        !.scheduled[n] = IF IsMemory(n) THEN "inflight" ELSE "completed"]

RegReady(s, n) == s.scheduled[n] # "no" /\ s.regDeps[n] = 0

(* complete_execution, with reg_RAW_release. *)
Completed(s, n) ==
  [s EXCEPT !.executed[n] = "completed",
            !.regDeps = [m \in Id |-> @[m] - Cardinality({r \in Reg : <<m, r>> \in s.wakes[n]})]]

-----------------------------------------------------------------------------
(* do_memory_scheduling *)

(* mem_RAW_dependency: the youngest older store to the address, executed   *)
(* or not.                                                                 *)
ProducerUnexecuted(s, n, a) ==   \* mutant: stores that have executed are passed over
  YoungestOrNone({m \in Older(s, n) : a \in Elements(trace[m].stores) /\ s.executed[m] # "completed"})
Producer(s, n, a) == YoungestOrNone({m \in Older(s, n) : a \in Elements(trace[m].stores)})

(* ... which is told about the load. *)
ToldAll(s, n, a) == {m \in Older(s, n) : a \in Elements(trace[m].stores)}   \* mutant: no break
Told(s, n, a) == {Producer(s, n, a)} \ {0}

(* The store has its data in the store queue already. *)
CanForward(s, p, a) == \E i \in SqSlot : s.sq[i].id = p /\ p # 0 /\ StoreAddr(s, i) = a /\ s.sq[i].done

(* The entry add_load_queue looks for, and what it does with a source: to note it added and to tell
   its producers, and to answer it at once or to leave it in the entry. *)
FirstFreeLq(s) == CHOOSE x \in FreeLq(s) : \A y \in FreeLq(s) : x <= y
DependentsTold(s, n, told) == [m \in Id |-> IF m \in told THEN s.dependents[m] \cup {n} ELSE s.dependents[m]]
LoadAdded(s, n, j, i, told) ==
  [s EXCEPT !.srcAdded[n] = @ \cup {j}, !.lqIndex[n][j] = i, !.dependents = DependentsTold(s, n, told)]
LoadForwarded(s, n, j, p) == [s EXCEPT !.memOps[n] = @ - 1, !.sawMem[n][j] = p]
LoadQueued(s, n, j, i, p) ==
  [s EXCEPT !.lq[i] = [id |-> n, src |-> j, producer |-> p], !.rtl0 = IF p = 0 THEN @ \cup {i} ELSE @]

(* add_load_queue, if there is a source j, not yet added, and room. *)
AddLoad(s, n, j) ==
  IF j \notin DOMAIN trace[n].loads \/ j \in s.srcAdded[n] \/ FreeLq(s) = {} THEN s
  ELSE
  LET i == FirstFreeLq(s)
      a == trace[n].loads[j]
      p == Producer(s, n, a)
      added == LoadAdded(s, n, j, i, Told(s, n, a))
  IN  IF CanForward(s, p, a) THEN LoadForwarded(added, n, j, p) ELSE LoadQueued(added, n, j, i, p)

NextSqNoWrap(s) == s.sqTail + 1   \* mutant: the ring does not wrap
NextSq(s) == (s.sqTail % SQ_SIZE) + 1

(* add_store_queue, if there is a destination d, not yet added, room, and  *)
(* no older store that still has to enter the queue.                       *)
StaAllowsAny(s, n) == TRUE   \* mutant: no STA
StaAllows(s, n) == s.sta # <<>> /\ Head(s.sta) = n

AddStore(s, n, d) ==
  IF d \notin DOMAIN trace[n].stores \/ d \in s.dstAdded[n] \/ FreeSq(s) = {} \/ ~StaAllows(s, n) THEN s
  ELSE [s EXCEPT !.dstAdded[n] = @ \cup {d}, !.sqIndex[n][d] = s.sqTail,
                 !.sq[s.sqTail] = [id |-> n, dst |-> d, done |-> FALSE],
                 !.sqTail = NextSq(s),
                 !.sta = Tail(@),
                 !.rts0 = @ \cup {s.sqTail}]

MemScheduled(s, n) ==
  LET t == AddStore(AddStore(AddLoad(AddLoad(ReadsRegs(s, n), n, 1), n, 2), n, 1), n, 2)
      all == t.srcAdded[n] = DOMAIN trace[n].loads /\ t.dstAdded[n] = DOMAIN trace[n].stores
  IN  IF all THEN [t EXCEPT !.scheduled[n] = "completed", !.executed[n] = "inflight"] ELSE t

-----------------------------------------------------------------------------
(* operate_lsq and the answers of the DTLB and the L1D *)

(* The load queue entries execute_store gives its data to: those of its    *)
(* dependents whose source has the address of the store.                   *)
TargetsFirst(s, k) ==   \* mutant: one source of a dependent only
  {s.lqIndex[m][1] : m \in {x \in s.dependents[s.sq[k].id] :
     1 \in s.srcAdded[x] /\ trace[x].loads[1] = StoreAddr(s, k)}}
Targets(s, k) ==
  UNION {{s.lqIndex[m][j] : j \in {x \in s.srcAdded[m] : trace[m].loads[x] = StoreAddr(s, k)}} :
           m \in s.dependents[s.sq[k].id]}

(* The loads in slots I have their data from f: num_mem_ops counts down    *)
(* and release_load_queue frees the slots.                                 *)
LoadedOnce(s, I, f) ==   \* mutant: counts an instruction once, not each of its loads
  [s EXCEPT
    !.memOps = [n \in Id |-> IF \E i \in I : s.lq[i].id = n THEN @[n] - 1 ELSE @[n]],
    !.lq = [i \in LqSlot |-> IF i \in I THEN NoLoad ELSE @[i]]]
Loaded(s, I, f) ==
  [s EXCEPT
    !.memOps = [n \in Id |-> @[n] - Cardinality({i \in I : s.lq[i].id = n})],
    !.sawMem = [n \in Id |-> [j \in DOMAIN @[n] |->
                  IF \E i \in I : s.lq[i].id = n /\ s.lq[i].src = j
                  THEN f[trace[n].loads[j]] ELSE @[n][j]]],
    !.lq = [i \in LqSlot |-> IF i \in I THEN NoLoad ELSE @[i]]]

(* execute_store *)
StoreExecuted(s, k) ==
  LET n == s.sq[k].id
      done == [s EXCEPT !.sq[k].done = TRUE, !.memOps[n] = @ - 1, !.rts1 = @ \ {k}]
  IN  Loaded(done, Targets(s, k), [a \in Addr |-> n])

(* retire_rob: the stores go to the write queue of the L1D and leave the   *)
(* store queue, and the ROB entry is cleared.                              *)
Retired(s) ==
  LET n == s.head + 1
  IN  [s EXCEPT
        !.head = n,
        !.sq = [i \in SqSlot |-> IF \E d \in s.dstAdded[n] : s.sqIndex[n][d] = i THEN NoStore ELSE @[i]],
        !.wakes[n] = {}, !.dependents[n] = {}, !.srcAdded[n] = {}, !.dstAdded[n] = {},
        !.lqIndex[n] = [j \in Operands |-> 0], !.sqIndex[n] = [d \in Operands |-> 0]]

-----------------------------------------------------------------------------
Fetch ==
  /\ core.tail < Len(trace) /\ core.tail - core.head < ROB_SIZE
  /\ core' = Fetched(core)
  /\ UNCHANGED <<trace, memory>>

(* schedule_instruction: in program order, and no further than the end of  *)
(* the ROB's array, because its limit next_fetch[1] is never advanced.     *)
SameLap(n) == (n - 1) \div ROB_SIZE = core.head \div ROB_SIZE

Schedule(n) ==
  /\ n \in InRob(core) /\ core.scheduled[n] = "no"
  /\ \A m \in Older(core, n) : core.scheduled[m] # "no"
  /\ n <= core.head + SCHEDULER_SIZE
  /\ SameLap(n)
  /\ core' = Scheduled(core, n)
  /\ UNCHANGED <<trace, memory>>

(* execute_instruction, for instructions without memory operands *)
Execute(n) ==
  /\ n \in InRob(core) /\ ~IsMemory(n)
  /\ RegReady(core, n) /\ core.executed[n] = "no"
  /\ core' = [ReadsRegs(core, n) EXCEPT !.executed[n] = "inflight"]
  /\ UNCHANGED <<trace, memory>>

(* update_rob reaches n. *)
Complete(n) ==
  /\ n \in InRob(core) /\ core.executed[n] = "inflight"
  /\ IsMemory(n) => core.memOps[n] = 0
  /\ core' = Completed(core, n)
  /\ UNCHANGED <<trace, memory>>

(* schedule_memory_instruction reaches n, having tried all older ones. *)
Schedulable(n) ==
  n \in InRob(core) /\ IsMemory(n) /\ RegReady(core, n) /\ core.scheduled[n] = "inflight"

ScheduleMemory(n) ==
  /\ Schedulable(n)
  /\ \A m \in Older(core, n) : Schedulable(m) => MemScheduled(core, m) = core
  /\ core' = MemScheduled(core, n)
  /\ UNCHANGED <<trace, memory>>

(* The DTLB accepts a store or a load. *)
TranslateStore(k) ==
  /\ k \in core.rts0
  /\ core' = [core EXCEPT !.rts0 = @ \ {k}, !.dtlbS = @ \cup {k}]
  /\ UNCHANGED <<trace, memory>>

TranslateLoad(i) ==
  /\ i \in core.rtl0
  /\ core' = [core EXCEPT !.rtl0 = @ \ {i}, !.dtlbL = @ \cup {i}]
  /\ UNCHANGED <<trace, memory>>

(* complete_data_fetch of the DTLB: the packet's request and all that were *)
(* merged with it (handle_merged_translation).                             *)
Translated(I, K) ==
  /\ I \cup K # {}
  /\ I \subseteq core.dtlbL /\ K \subseteq core.dtlbS
  /\ core' = [core EXCEPT !.dtlbL = @ \ I, !.rtl1 = @ \cup I, !.dtlbS = @ \ K, !.rts1 = @ \cup K]
  /\ UNCHANGED <<trace, memory>>

ExecuteStore(k) ==
  /\ k \in core.rts1
  /\ core' = StoreExecuted(core, k)
  /\ UNCHANGED <<trace, memory>>

(* execute_load: the L1D accepts the load. *)
ExecuteLoad(i) ==
  /\ i \in core.rtl1
  /\ core' = [core EXCEPT !.rtl1 = @ \ {i}, !.l1d = @ \cup {i}]
  /\ UNCHANGED <<trace, memory>>

(* complete_data_fetch of the L1D, with handle_merged_load. *)
Answered(I) ==
  /\ I # {} /\ I \subseteq core.l1d
  /\ core' = [Loaded(core, I, memory) EXCEPT !.l1d = @ \ I]
  /\ UNCHANGED <<trace, memory>>

Retire ==
  /\ core.head < core.tail
  /\ core.executed[core.head + 1] = "completed"
  /\ core' = Retired(core)
  /\ memory' = [a \in Addr |-> IF a \in Elements(trace[core.head + 1].stores) THEN core.head + 1 ELSE memory[a]]
  /\ UNCHANGED trace

Next ==
  \/ Fetch
  \/ \E n \in Id : Schedule(n) \/ Execute(n) \/ Complete(n) \/ ScheduleMemory(n)
  \/ \E k \in SqSlot : TranslateStore(k) \/ ExecuteStore(k)
  \/ \E i \in LqSlot : TranslateLoad(i) \/ ExecuteLoad(i)
  \/ \E I \in SUBSET core.dtlbL, K \in SUBSET core.dtlbS : Translated(I, K)
  \/ \E I \in SUBSET core.l1d : Answered(I)
  \/ Retire

Spec == Init /\ [][Next]_vars

(* Each handler runs in every cycle and goes over the whole ROB; the DTLB  *)
(* and the L1D answer each request (CacheHierarchy).  A scheduler that has *)
(* nothing to change about an instruction takes no step for it.            *)
InSlot(n, x) == n \in InRob(core) /\ n % ROB_SIZE = x

Fairness ==
  /\ WF_vars(Fetch) /\ WF_vars(Retire)
  /\ WF_vars(\E n \in Id : Schedule(n))
  /\ \A x \in 0 .. (ROB_SIZE - 1) :
       WF_vars(\E n \in Id : InSlot(n, x) /\ (Execute(n) \/ Complete(n) \/ ScheduleMemory(n)))
  /\ \A k \in SqSlot :
       /\ WF_vars(TranslateStore(k)) /\ WF_vars(ExecuteStore(k))
       /\ WF_vars(\E I \in SUBSET core.dtlbL, K \in SUBSET core.dtlbS : k \in K /\ Translated(I, K))
  /\ \A i \in LqSlot :
       /\ WF_vars(TranslateLoad(i)) /\ WF_vars(ExecuteLoad(i))
       /\ WF_vars(\E I \in SUBSET core.dtlbL, K \in SUBSET core.dtlbS : i \in I /\ Translated(I, K))
       /\ WF_vars(\E I \in SUBSET core.l1d : i \in I /\ Answered(I))

FairSpec == Spec /\ Fairness

-----------------------------------------------------------------------------
(* The shape of the state; in particular no num_mem_ops and no             *)
(* num_reg_dependent goes below zero.                                      *)
TypeOK ==
  /\ trace \in Traces
  /\ core.head \in 0 .. core.tail /\ core.tail \in 0 .. Len(trace)
  /\ core.tail - core.head <= ROB_SIZE
  /\ core.scheduled \in [Id -> {"no", "inflight", "completed"}]
  /\ core.executed \in [Id -> {"no", "inflight", "completed"}]
  /\ core.regDeps \in [Id -> Nat] /\ core.memOps \in [Id -> Nat]
  /\ core.wakes \in [Id -> SUBSET (Id \X Reg)] /\ core.dependents \in [Id -> SUBSET Id]
  /\ core.srcAdded \in [Id -> SUBSET Operands] /\ core.dstAdded \in [Id -> SUBSET Operands]
  /\ core.lq \in [LqSlot -> [id : Id, src : Operands, producer : Id \cup {0}] \cup {NoLoad}]
  /\ core.sq \in [SqSlot -> [id : Id, dst : Operands, done : BOOLEAN] \cup {NoStore}]
  /\ core.sqTail \in SqSlot /\ core.sta \in Seq(Id)
  /\ UNION {core.rtl0, core.dtlbL, core.rtl1, core.l1d} \subseteq LqSlot
  /\ UNION {core.rts0, core.dtlbS, core.rts1} \subseteq SqSlot
  /\ memory \in [Addr -> Id \cup {0}]

(* num_mem_ops of an instruction in the ROB is the number of its accesses  *)
(* that are still to be made: what is not added, what has a load queue     *)
(* entry, and what has a store queue entry that is not executed.  The      *)
(* counter is decremented in four handlers and reaching zero retires the   *)
(* instruction.                                                            *)
OpsAccounted ==
  \A n \in InRob(core) :
    core.memOps[n] =
      Cardinality(DOMAIN trace[n].loads \ core.srcAdded[n]) + Cardinality({i \in LqSlot : core.lq[i].id = n})
      + Cardinality(DOMAIN trace[n].stores \ core.dstAdded[n])
      + Cardinality({k \in SqSlot : core.sq[k].id = n /\ ~core.sq[k].done})

(* Nothing gets lost between the queues and the rings of ready entries,    *)
(* which have no occupancy of their own: a load in the load queue is in    *)
(* exactly one stage of its way through the DTLB and the L1D, or waits for *)
(* a store of the ROB that knows of it and has not executed; a store that  *)
(* has not executed is in exactly one stage; nothing else is on the way.   *)
LoadStages == <<core.rtl0, core.dtlbL, core.rtl1, core.l1d>>
StoreStages == <<core.rts0, core.dtlbS, core.rts1>>
StagesOf(stages, i) == Cardinality({x \in DOMAIN stages : i \in stages[x]})
AwaitsStore(i) ==
  LET p == core.lq[i].producer
  IN  /\ p \in Older(core, core.lq[i].id) /\ core.lq[i].id \in core.dependents[p]
      /\ ~CanForward(core, p, LoadAddr(core, i))
NothingLost ==
  /\ \A i \in LqSlot :
       /\ StagesOf(LoadStages, i) = IF core.lq[i].id # 0 /\ core.lq[i].producer = 0 THEN 1 ELSE 0
       /\ core.lq[i].producer # 0 => AwaitsStore(i)
  /\ \A k \in SqSlot :
       StagesOf(StoreStages, k) = IF core.sq[k].id # 0 /\ ~core.sq[k].done THEN 1 ELSE 0

(* The store queue is a ring in program order, although stores become      *)
(* ready in any order and retirement frees their entries one by one: the   *)
(* entries behind SQ.tail are the occupied ones, the youngest store first, *)
(* so that the entry at SQ.tail is empty whenever any is (the assertion of *)
(* add_store_queue).                                                       *)
Behind(x) == ((core.sqTail - 1 - x + SQ_SIZE) % SQ_SIZE) + 1
StoresInOrder ==
  LET used == SQ_SIZE - Cardinality(FreeSq(core))
  IN  /\ \A x \in 1 .. used : Behind(x) \notin FreeSq(core)
      /\ \A x \in 1 .. used : \A y \in 1 .. (x - 1) : core.sq[Behind(x)].id <= core.sq[Behind(y)].id

(* A store that is about to execute hands its data only to load queue      *)
(* entries that wait for this very store (the assertion of execute_store). *)
ForwardsOwnLoads ==
  \A k \in core.rts1 : \A i \in Targets(core, k) : i \in LqSlot /\ core.lq[i].producer = core.sq[k].id

(* That depends on the program: execute_store takes a dependent's sources  *)
(* by their addresses, and not by the store they wait for.  It is right    *)
(* where no instruction m loads from two places that instruction p, in the *)
(* ROB with it, stored to if one in between, q, has stored to just one of  *)
(* them again.                                                             *)
Whole(tr) ==
  \A p, q, m \in DOMAIN tr :
    /\ p < q /\ q < m /\ m < p + ROB_SIZE
    /\ Elements(tr[p].stores) \cap Elements(tr[q].stores) \cap Elements(tr[m].loads) # {}
    => Elements(tr[p].stores) \cap Elements(tr[m].loads) \subseteq Elements(tr[q].stores)

(* Whatever the order of execution, the retired instructions have read     *)
(* from registers and memory what they would have read one after the       *)
(* other: the core implements the sequential machine.                      *)
LastWriter(r) == YoungestOrNone({m \in 1 .. core.head : r \in trace[m].writes})
InOrder == INSTANCE InOrderMachine WITH
  pc <- core.head,
  regs <- [r \in Reg |-> LastWriter(r)],
  seen <- [n \in 1 .. core.head |-> [regs |-> core.sawRegs[n], loads |-> core.sawMem[n]]]
ImplementsInOrder == InOrder!Spec

(* Every instruction of the trace retires: no cycle of waiting among the   *)
(* ROB, the load queue, the store queue and the STA.                       *)
AllRetire == <>(core.head = Len(trace))
=============================================================================
