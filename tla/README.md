# NVGraph: TLA+ models, model checking and proofs

NVGraph is a trace-driven, cycle-by-cycle simulator of a multi-core memory
system, a descendant of ChampSim. It has no threads: what makes it hard is that
dozens of small state machines (cores, seven caches and TLBs per core, a shared
LLC, a DRAM controller) hand packets to each other through bounded queues, in
handlers that run in every cycle, in an order fixed by `main`, with latencies
that depend on everything else. Packets merge, overtake, are forwarded from
write queues, are refused by full queues, and are aborted and tried again. An
`assert(0)` deep in a handler is usually the only statement of what should hold,
and it speaks of state that some other component wrote many cycles before.

This directory holds the models of these state machines, the TLC runs that check
them on small instances, and TLAPS proofs of what matters most for all
instances. `PROJECT.json` lists the components, runs, theorems, hazards and, for
each definition, the source lines it stands for.

## 1. Inventory

| Component | Source | State | Operations |
|---|---|---|---|
| Packet queues | `src/block.cc`, `inc/block.h` | slots, `head`, `tail`, `occupancy` | `check_queue`, `add_queue`, `remove_queue`, and look-up-then-append in the caches' `add_rq/wq/pq` |
| Caches and TLBs | `src/cache.cc`, `inc/cache.h` | `block`, `RQ`, `WQ`, `PQ`, `PROCESSED`, `MSHR`, cached `next_fill_index` | `operate` = `handle_fill`, `handle_writeback`, `handle_read`, `handle_prefetch`; from above `add_rq`, `add_wq`, `add_pq`; from below `return_data`; `prefetch_line`; `invalidate_entry` |
| DRAM controller | `src/dram_controller.cc`, `inc/memory_class.h` | RQ and WQ of each channel, `bank_request`, `write_mode`, `dbus_cycle_available`, `scheduled_reads/writes`, `next_schedule/process_*` | `add_rq`, `add_wq`, `operate` = mode switch with `reset_remain_requests`, `schedule`, `process` |
| Out-of-order core | `src/ooo_cpu.cc`, `inc/ooo_cpu.h` | ROB, load and store queues, STA, rings RTE0/1, RTL0/1, RTS0/1 | fetch, schedule, register and memory dependencies, forwarding, execute, complete, retire |
| Page table | `va_to_pa` in `src/main.cc` | `page_table`, `inverse_table`, `page_queue`, `num_adjacent_page` | translate, allocate, swap a page and invalidate its lines |
| Simulation loop | `src/main.cc` | `current_core_cycle`, `stall_cycle` | the order of everything; deadlock check |
| Replacement | `replacement/` | LRU ages, RRPVs, SHiP tables, DRRIP's PSEL | `find_victim`, `update_replacement_state` |
| DRAM cache | `src/dram_cache.cc`, `inc/base_cache.h` | lines with tag, dirty, tick, counters | `do_cache_op` (not instantiated by `main`) |
| NVM, hybrid controllers | `src/nvm_controller.cc`, `src/hybrid_memory_controller.cc` | copies of the DRAM controller | not instantiated by `main` |
| Prefetchers | `prefetcher/` | trackers, histories, pattern and filter tables, scores, phases | `invoke_prefetcher`, `register_fill`, `eviction`; the only effect outside is `prefetch_line` |
| Branch predictors | `branch/` | counters, weights | predict, update |
| Hit predictors | `predictor/` | MAP-G, MAP-I, MissMap, Bloom filter, SA predictor | `predict`, `update`; used by no other file |
| Learning engines | `src/learning_engine_*.cc`, `src/feature_knowledge.cc` | floating-point Q tables | choose, learn |
| Data structures | `inc/set.h`, `src/bitmap.cc`, `inc/bakshalipour_framework.h`, `src/util.cc` | sets, bit maps, tables | pure functions |
| Knobs, ini, hashes, tracer | `src/knobs.cc`, `src/ini.cc`, `src/md5.cc`, ..., `tracer/` | none of interest | parsing, I/O, third party |

**How they interact.** The core calls `L1I/L1D/ITLB/DTLB.add_rq` and
`L1D.add_wq` and empties their `PROCESSED` queues. A cache that misses calls
`lower_level->add_rq` (or `add_pq`) and waits in an MSHR; the lower level calls
`upper_level_icache/dcache->return_data`, which marks the MSHR; `handle_fill`
then puts the line into a way and evicts the victim with `lower_level->add_wq`.
The LLC does the same with the DRAM controller. The STLB has nothing below it
and calls `va_to_pa`, which can swap a page and invalidate entries of any cache
at that instant.

**What is hard.** (1) Merging: two requests share an answer, at five places with
five different rules. (2) Back-pressure: a full queue stops the handler above,
which must not depend on the one it stops. (3) Silent drops: `add_rq` of a full
queue returns -2 and no cache looks; a full `PROCESSED` loses a completion.
(4) Cached choices (`next_fill_index`, `next_schedule_index`,
`next_process_index`) that many paths have to refresh. (5) The controller's mode
switches, which undo work in the banks. (6) Page swaps that hit lines in flight.
(7) In the core: in-order store allocation, forwarding and completion counters
that four functions decrement. Section `hazards` of `PROJECT.json` lists them
line by line, with the property that would catch each.

**What makes each component correct.**
Queues: bounded FIFO, no address twice. Caches: each miss is answered exactly
once, each request waits in exactly one place, no modified line is lost, every
load completes. Controller: banks, counters and cached indices agree with the
queues, the bus turns around, each request is served. Core: program order at
retirement, a load takes the youngest older store to its address, counters reach
zero exactly once. Page table: the two maps are inverse, and no cache or TLB
holds a translation that is gone. Replacement: a miss finds a victim, and the
right one. Prefetchers and predictors, which only guess, cannot be wrong in what
they guess, but in their bookkeeping: two tables that should hold each region
once, an action that must be rewarded and taught exactly once, a phase that must
end with what it measured.

## 2. The modules

| Module | What it is |
|---|---|
| `BoundedFifo` | what a queue promises: append, drop the head, at most Size packets |
| `PacketQueue` | the ring of `PACKET_QUEUE` and the callers' look-up-then-append |
| `PacketQueueProofs` | its invariant and the refinement of `BoundedFifo` |
| `CacheHierarchy` | all caches and TLBs of a core and their queues, above an abstract DRAM |
| `CacheHierarchyProofs` | who owes which line to whom, and what follows for answers, capacities, modified lines, duplicates and the core's requests |
| `MCHierarchy` | the wiring of `main.cc`, cut to the caches a run needs |
| `MemoryChannel` | what a channel promises to the LLC; the DRAM of `CacheHierarchy` behaves like it |
| `DramChannel` | one channel of the controller, cycle by cycle |
| `DramChannelProofs` | its inductive invariant, when the bus is reserved, and the refinement of `MemoryChannel`; the NVM and hybrid controllers |
| `InOrderMachine` | what a trace means: its instructions one after the other |
| `OooCore` | the out-of-order core: ROB, STA, load and store queues, forwarding, retirement |
| `OooCoreProofs` | the invariant of its queues, rings and counters |
| `OooOrderProofs` | what its loads and registers are given, and the refinement of `InOrderMachine` |
| `PageTable` | `va_to_pa` for several cores: page table, its inverse, frames, swaps, TLBs that fill late |
| `PageTableProofs` | the two maps are inverse, a swap finds its page, one core's swaps leave nothing behind |
| `Lru` | one set under LRU |
| `Rrip` | one LLC set under SRRIP, DRRIP or SHiP |
| `ReplacementProofs` | the victims, ages and counts of `Lru`, `Rrip` and `DramCache`, for any number of ways; the predictors of `HitPredictors`; the tables of `SetAssoc` and the generations of `Bingo` |
| `DramCache`, `HitPredictors`, `SaPredictor` | the DRAM cache; the predictors beside it; one entry of the SA predictor |
| `NvmController`, `HybridController` | the copies of the controller, on the steps of `DramChannel` |
| `FastSet`, `SetAssoc` | the core's sets of ROB indices; the table under Bingo |
| `PageHistory`, `Scooby`, `Cbp`, `Rlp` | the reinforcement-learning prefetchers and the page table they share |
| `PrefetcherProofs` | `Scooby` and `Cbp` learn from each action once; `Rlp` hands each over once, to an engine that keeps nothing and never acts; `Power7` exploits the fastest; `Sms` tracks each generation once |
| `Sms`, `Bingo` | the spatial-pattern prefetchers |
| `Bop`, `Sandbox`, `Power7` (with `Streams`) | the prefetchers that measure, then choose |
| `Ampm`, `NextLine` | the access-map and the next-line prefetcher |
| `MCPacketQueue`, `MCDramChannel`, `MCOooCore`, `MCPageSwap` | small instances; for the core, the programs it runs |
| `MCParts` | all the sequential parts, each on an instance of its own |

### PacketQueue

Slots `0 .. SIZE-1` with `head`, `tail`, `occupancy`; an address stands for the
packet and 0 for an empty slot (`remove_queue` stores an empty packet).
`AddMerging` is a caller that looks first (`add_rq`, `add_wq`, `add_pq`).
`Window` is the two-part search of `check_queue`. A `PROCESSED` queue is the same
ring used without the look-up; what is in it and what happens when it is full is
`processed` and `Finish` of `CacheHierarchy`.

### CacheHierarchy

Each handler of `CACHE::operate` is an action, split by the branch it takes
(hit, miss, merge, store miss). Choices of the abstraction:

- *Time is left out.* In the code a packet can be handled once its `event_cycle`
  has come. In the model, any time after it arrived: every assignment of
  latencies, and every order among caches within a cycle, is covered. The price
  is that the order in which ready fills are taken is free
  (`next_fill_index` picks the earliest `event_cycle`).
- *One set of each cache.* Sets share only queues and MSHRs, which are in the
  model, so one set with several competing lines has every interaction.
- *Replacement* is any policy that takes an invalid way first. The LRU of
  `base_replacement.cc`, which the repository builds in, is one (`Lru`). SRRIP,
  DRRIP and SHiP look at their own ages only (`Rrip`): SRRIP happens to take
  the ways that were never filled first, the others need not, and none prefers a
  way that a page swap has emptied.
- *MSHRs* are a function from lines to entries: `check_mshr` finds by line, and
  the number in use is bounded by `MSHR_SIZE`.
- *Requests* of the core are members of `Req`; a packet's `deps` are the
  `lq_index_depend_on_me` / `rob_index_depend_on_me` sets. Below the first level
  nobody looks at them.
- The write queue of the L1D compares *full* addresses, so a load, a prefetch or
  a second store to the line may or may not match a waiting store: both are
  possible in the model.
- `handle_fill` and `handle_writeback` test `dirty` without `valid`, and so does
  `MustWriteBack`; `invalidate_entry` clears `valid` only.
- The results of `lower_level->add_rq` are ignored except where the LLC asks the
  controller for room first (`Queued` drops at a full queue, as the code does).
- Stores: `retire_rob` looks for room in the write queue (`CpuStore`).
- `Prefetch` stands for any prefetcher: any line, any fill level at or below its
  cache, at any time. `Invalidate` stands for the invalidation by a page swap.
- DRAM: a set of reads that are answered and a set of writes that retire, in any
  order: the promise `MemoryChannel`, which `DramChannel` is proved to keep.

Left out: warm-up (`all_warmup_complete`), statistics, `kpc_prefetch_line`, the
accuracy feedback to prefetchers, LLC bypass (compiled out), other cores.

### DramChannel

The channel is one record `ch`, so that the steps of one call of `operate()`
compose as functions: `Switch` (with `Reset`), `MaybeSchedule`, `MaybeProcess`.
`now` is `current_core_cycle`. `working`, `is_read` and `is_write` of a bank are
one field `kind`; ranks are folded into banks. `add_rq` gives a read an
`event_cycle` of up to `MaxLate` cycles ago, because the packet brings the cycle
of the LLC with it, and `update_schedule_cycle` then orders by it. `burst` is
history: kind and end of the last transfer, which no step reads.

### OooCore

An instruction of a trace is what it reads and writes: registers, and up to two
memory sources and two destinations. The state of the core is one record. Each
handler that `main` calls in every cycle is an action on one instruction or
queue entry: `Fetch` (`handle_branch`, `add_to_rob`), `Schedule`, `Execute`,
`ScheduleMemory`, the DTLB and L1D steps of `operate_lsq`, the answers that
`complete_data_fetch` takes with everything merged into them, `Complete`
(`update_rob`), `Retire`. Choices of the abstraction:

- *Time is left out.* What waits for an `event_cycle`, for the L1I, or for a
  mispredicted branch happens at any later time. `schedule_memory_instruction`
  goes from the oldest instruction to the youngest, so `ScheduleMemory(n)` needs
  that every older ready instruction has been tried without effect.
- *Instructions are named by their number*, not by their ROB slot; `lq_index`
  and `sq_index` are kept as slots. Where the ROB's array matters it is modelled:
  `schedule_instruction` never looks beyond its end (`SameLap`), because
  `next_fetch[1]`, which should be the limit, stays 0.
- *Rings of ready entries* (RTE, RTL, RTS) are sets. They have no occupancy of
  their own in the code; `NothingLost` shows that a queue entry is at no time in
  two of RTL0, RTL1, RTS0, RTS1 and the caches.
- *The DTLB and the L1D* answer any part of what they have accepted, at any time.
  A load reads the memory as retired stores left it, at the moment of the answer.
- *History.* `sawRegs` and `sawMem` record what each instruction has read; no
  guard looks at them. The simulator carries no data: a value is the number of
  the instruction that wrote it, so the refinement of `InOrderMachine` says that
  the dependencies the core enforces are the ones of the program.

### PageTable

One page table for all cores, keyed by core and page. `PageHit`, `PageSwap` and
`PageAllocate` are the three ways through `va_to_pa`; `previous` and `adjacent`
are `previous_ppage` and `num_adjacent_page`, an unsigned number that is
decremented before it is tested. A translation is in flight from the answer
until `FillTlb`. `held` are the frames a core's private caches have lines of.
The random generator is a free choice (`MaxDraw`, `MaxRun` bound it).
`recent_page` is written nowhere, so the victim is the first page of the map.

### The replacement policies

`Lru` is `lru_victim` and `lru_update` with the calls `cache.cc` makes of them,
`invalidate_entry` included. `newer` records which way was used after which.
`Rrip` has the search of `llc_find_victim`, which changes the ages even when the
fill then has to wait (`FillStalls`), DRRIP's duel and SHiP's sampler. Misses in
other sets move the duel and the counters (`MissElsewhere`).

### DRAM cache, predictors, copies of the controller

`DramCache` has the three replacement algorithms and the ticks. A hit reads and
writes the first line of the set, as the code does; the properties say what
holds all the same. `HitPredictors` puts MissMap, Bloom filter, MAP-G and MAP-I
beside it; since no file calls `update`, both orders of update and operation are
modelled. `SaPredictor` lets the transition table be exchanged at any time.
`NvmController` and `HybridController` use the operators of `DramChannel`, whose
text they repeat, in the order of their own files, with NVM times.

### The prefetchers

In all of them the accesses are free and hashes are bijections or free; what is
modelled is the tables and what moves between them. Variables that only record
(`touched`, `taught`, `handed`, `seen`, `ended`, `ran`, `history`) are named as such in the
modules' heads; no guard reads them.

- `Scooby`, `Cbp`, `Rlp`: the engine's choice is free, and teaching it is
  recorded (`taught`; in `Rlp` the arguments of `ir_train`, `handed`, which teach
  no engine, finding 6). An action is rewarded on a demand for its line, on leaving the
  tracker, on a hit of another action or in `train`, whichever is first.
  `PageHistory` keeps the pages seen last. Its `insert_action_tracker` pushes
  back what an erased iterator points to; the model takes the slot the library's
  deque leaves there. With two actions per page, the default of every
  configuration here, this is the erased action; with three it may be a
  neighbour, so `TrackedOnce` holds for the default size and not beyond.
- `Sms`, `Bingo`: a region opens a generation in the filter table, moves to the
  accumulation table and leaves a pattern in the history table. `SetAssoc` keeps
  entries and the tag map apart as the code does.
- `Bop` ends a phase on the *index* of the best candidate, as the code does.
  `Sandbox` has its pseudo-prefetch filter answer yes at will. `Power7` writes
  degrees that all cores share; `DegreesFollowConfig` is checked for one core.
- `Ampm`, `NextLine`: page maps and line trackers.

## 3. The runs

| Run | Distinct states | What it shows |
|---|---|---|
| `packet_queue` | 615 | 4 addresses for 3 slots: ring consistent, no address twice, implements `BoundedFifo` |
| `hierarchy_demand` | 361 000 | two loads and two stores to three lines through L1D-L2C-LLC-DRAM, two ways in the L2C: answers and misses match, no read or modified line lost, no line twice |
| `hierarchy_disturbed` | 616 000 | the same path with a prefetch to any level and a page swap at any moment: each miss answered once, no request lost, no modified line lost |
| `hierarchy_whole` | 129 000 | all seven caches and TLBs at once with the shortest queues: L1I and L1D over the L2C, ITLB and DTLB over the STLB, and every request served |
| `hierarchy_shared_line` | violation | a line fetched as code and loaded as data |
| `hierarchy_store_dirty` | violation | a store that merges with a load in flight |
| `dram_channel` | 176 000 | two reads and two writes to three blocks on two banks, two rows: banks, counters, cached indices, the bus, the refinement of `MemoryChannel`, and every request served |
| `ooo_core` | 418 000 | every program of three out of six instructions and longer ones: counters, queues, forwarding, the refinement of `InOrderMachine`, and the whole program retires |
| `parts` | 1 909 000 | the nineteen sequential parts, each under every sequence of calls its bounds allow |
| `page_swap` | violation | a fault of one core that takes the frame of another's page |
| `ooo_circular_wait` | violation | a load queue full of loads that wait for a store |
| `ooo_two_stores` | violation | two addresses of one store instruction, one of them written again |

**Why these bounds.** The hazards need two or three packets: two for the same
line that merge, a third line that evicts. One entry more than each queue can
hold is enough for every full-queue stall, so queues have one or two entries;
three levels are enough for a miss whose lower level misses as well and whose
eviction goes to a level that is itself evicting. `PROCESSED_SIZE` must be at
least the number of completions that can be outstanding: with less, completions
are dropped, exactly as in the code, where 64 or more entries and one core make
that unreachable (`RequestsConserved` says so for the bound given). In
`dram_channel` a write queue of three gives `HIGH_WM = LOW_WM = 2` (56 and 48 of
64 in the code), so both thresholds are met by the traffic of the run. Two writes
and two reads are enough for a switch to write mode at the high mark, one back
with a write aborted, and a third when the reads are served. The fourth switch that
`BusDelayBounded` allows for takes a third write, which would make the run ten times as
large; the bound with it is proved (section 4). `Horizon` bounds
time; no behaviour of the run reaches it with a request still waiting (that is
what `EventuallyServed` shows, and a larger `Horizon` gives no further state).

For the core, a window of three or four instructions is enough for each hazard:
a chain store - load - store - load over one address, a rewritten register, a
store that is ready before an older one, a load that is late. The load and store
queues have two entries, so that instructions with two operands get them one at a
time. `EveryShort` of `MCOooCore` holds every program of three instructions, and
every one of four that have several operands; it leaves out only the patterns of
the two findings (a load instruction that reads both addresses of one store
instruction, one of them written again in between; and more waiting loads than
the load queue holds). `EveryShortIsWhole` says that these programs satisfy the
hypothesis of the theorems below.

**The parts.** The sequential parts share no state, so `MCParts` checks them in one
run: the variable `part` is chosen in `Init` and never changes, `s` is the state
of that part, and each property is a conjunction of the properties of the parts
it is about. The parts and their states:

| Part | States | What is bounded | Checked in |
|---|---|---|---|
| `page` | 171 000 | 2 cores with 2 pages each on 2 frames; random frames up to `MaxDraw`, runs up to 2^`MaxRun` | `PageTablesAgree` |
| `fastset` | 1 024 | two sets of 5 elements, the change at 4, words of 2 bits | `FastSetIsASet` |
| `ages`, `rrip` | 384, 151 000 | 4 ways; 2 ways, 3 tags, 2 ips | `WaysAndCountsAgree` |
| `dram_cache` | 313 000 | 4 blocks in 2 sets of 2 ways, `MaxTick` 5 | `WaysAndCountsAgree` |
| `hits`, `states` | 60 000, 34 000 | 4 blocks; all tables and histories of 4 outcomes | `PredictorsBelieve` |
| `nvm`, `hybrid` | 780 000, 4 000 | as `dram_channel`, with an access twice as long | `BanksAndQueuesAgree` |
| `scooby`, `cbp`, `rlp` | 236 000, 7 900, 5 000 | 6 lines of two pages, 3 of two, 3 of one; page tables of one, trackers of 2, `MaxActions` 5 | `LearnsFromEachActionOnce` (Scooby, CBP), `RlpEnginesUntaught`, `TrackedOnce` |
| `sms`, `bingo` | 37 200, 21 700 | 3 regions of 2 blocks, one filter and two accumulation entries, `MaxAccesses` | `GenerationsTracked` |
| `bop`, `sandbox`, `power7` | 42 000, 3 300, 27 000 | 3 candidates; 4 offsets; one core, epochs of one demand | `BestChosen` |
| `ampm`, `next_line` | 5 000, 8 000 | 3 pages in a table of 2, `MaxDemands` 6; `MaxSteps` 5 | `TrackedOnce` |

Most tables have fewer entries than there are keys for them, so that entries are
given up and come back, and the bounds on the number of calls (`MaxTick`,
`MaxActions`, `MaxAccesses`, `MaxDemands`, `MaxSteps`, `MaxCycle`) let an entry
pass through every table that follows. `num_adjacent_page` is taken modulo 16, enough to see it
wrap. POWER7 runs with one core because its degrees are process-wide.

**Fairness.** `main` calls every handler in every cycle in which the core is not
stalled, and latencies are finite, so a handler that stays able to act does
(`WF` per handler and cache). Of the DRAM only that is assumed which its write
mode guarantees, that a *full* write queue is drained. `HandleFill` is fair for
each line; `hierarchy_whole` has MSHR files of one, in which the free order of
fills makes no difference. In `OooCore` each instruction and each queue entry is treated fairly,
because the handlers go over the whole ROB or take the entries in turn; the DTLB
and the L1D answer (`AllServed` of `CacheHierarchy`), and the L1D's write queue
drains. In `DramChannel` the only fairness is that time goes
on, and `operate` is called in each cycle.

**Findings.**

1. `hierarchy_shared_line`. A packet or MSHR of the L2C has one `instruction`
   flag. If the L1I and L1D miss on one line, the second request merges and
   leaves the flag alone; `return_data` is called on one of them, the other waits
   until `print_deadlock`. A data-side prefetch of a code line does it as well.
   This needs a line that holds code and data, which is why ordinary traces run.
   The other runs keep code and data apart (`Private`).
2. `hierarchy_store_dirty`. The fill decides from the type of the MSHR whether
   the line becomes dirty; a store merging with a load's MSHR leaves type LOAD,
   the line stays clean and the write-back never happens.

3. `ooo_circular_wait`. A load takes a load queue entry as soon as its registers
   are ready, and keeps it while it waits for an older store. If such loads fill
   the queue before a load that the store itself needs, nothing moves any more.
   STA prevents this for the store queue only. One entry in the run, 72 in the code.
4. `ooo_two_stores`. `memory_instrs_depend_on_me` names the dependent
   instruction, not which of its sources; `execute_store` then takes each source
   with the address of the entry that executes. With two stores to that address,
   the source may belong to the younger one, and the check asserts.

5. `page_swap`. `va_to_pa` takes the frame of the first page of the map, whoever
   owns it, and invalidates the TLBs and private caches of the core that faulted.
   The TLB of the owner keeps a translation to a frame that is no longer its
   own, and its caches the lines; `// invalidate corresponding vpage and ppage
   from the cache hierarchy` (`src/main.cc:462`) promises otherwise.

6. RLP teaches neither of its engines. `rp_track` hands what it evicts to
   `ir_train` (`src/prefetcher/rlp.cc:894`), where `rp_train` would be expected; the
   irregular engine's `updateQ` (`src/src/learning_engine_basic_rlp.cc:205`) does
   nothing with an action it has not entered. `rp_train` (`rlp.cc:1281`), the only
   function that calls `rp_brain->learn`, has no caller. The irregular engine in turn
   never enters a line: `ir_track` returns before `track_in_hsq` when it is given no
   address, and an empty table offers none. No text of the repository promises
   otherwise, so no run is expected to be violated: `RlpEnginesUntaught` in `parts`
   states what the code does. Each action handed over is the regular engine's, was
   rewarded once and goes in order; the table and the history that could keep it
   stay empty.

Seen in components that `main` does not run: `MissMapEntry::check_bitmap_zero`
answers whether a bit is *left*, so an eviction deletes a segment's entry while it
has blocks and keeps it when it has none (`HitPredictors` models it so; the
MissMap therefore predicts misses for cached blocks, and only the Bloom filter
has no false negatives). `BloomFilter::reset` never clears a bit, which is why it
has none.

Also seen, and no claim of the repository is against it: with prefetches the same
line can get into two ways of a set (a write-back from above allocates the line
while a prefetch for it is in flight), so `NoDuplicateLine` is checked for demand
traffic only.

## 4. The proofs

All proofs hold for every value of the constants that satisfies the
assumptions named in the module (queue sizes at least one, column access and transfer
at least one cycle, finitely many banks and registers; nothing on the bounds but that they
are naturals) or in the theorem (at least one set and way, in `ReplacementProofs`).
`CacheHierarchy` names three assumptions: `LevelsAssumption` and `UpperAssumption`
are the wiring of `main` (`src/main.cc:831-886`), for any number of cores above one
LLC; `SizesAssumption` asks of each read queue that it has an entry for every MSHR
above it, as the sizes of `inc/cache.h` give (the MSHRs of the L1I and L1D, 8 and
16, over the 32 entries of the L2C).

**PacketQueueProofs.** `RingConsistent` is inductive in the form `Ring`: the
occupied slots are the `occupancy` slots from `head` on, cyclically, and `tail`
is the next. The refinement maps the ring to the sequence read from `head`.
`WaitsOnce` needs that `check_queue` searches exactly the occupied slots
(`WindowIsWaiting`), which is where the wrap-around cases are.

**DramChannelProofs.** The inductive invariant is `Consistent(ch)` and
`Spaced(ch)`:

- `Matched`: each scheduled slot owns its bank, each busy bank points to such a slot;
- `OneWay`: nothing of the direction that is not current is scheduled. Needed
  because `reset_remain_requests` resets the queue of one direction only;
- `Counted`: the counters equal the numbers of scheduled slots. Needs `Matched`:
  the code decrements by looking at the *bank*, not at the slot, and it is
  the one-to-one correspondence (`TakenBanks`) that makes the two agree;
- `Fresh`: the cached indices are what a search would give. `process` and `schedule`
  trust the cached index, so `Matched` needs it in turn;
- `Spaced`: the bus is free no earlier than the last transfer's end, plus the
  turn-around time if the mode has changed since.

Each conjunct is needed by the preservation of another, so they are proved
together: one lemma for each operator (`EnqueueKeeps`, `ScheduleKeeps`,
`ProcessKeeps`, `ResetKeeps`, `SwitchKeeps`), composed by `OperatedKeeps` as
`operate` composes them. `Oldest` is a CHOOSE of a least element; that it exists
comes from the well-foundedness of strict subsets (`Least`).

How far ahead the bus may be reserved (`BusDelayBounded`) is an invariant of its own,
`Reserved`. Each switch of the mode adds a turn-around time to `dbus_cycle_available`
whether or not anything is transferred, so the bound is the number of switches between
two transfers: `Ahead` gives each mode, and how full the queues are, the penalties that may
still come. There are four at most: to reads when the last write is done, to writes when one
comes and no read waits, back to reads when one comes and the writes are below the low mark,
and to writes again when they reach the high mark. The theorem supposes `WQ_SIZE > 1`: with one entry both water
marks are zero and the mode changes in every cycle. The first attempt at this proof was
with three penalties, all that two reads and two writes can need, and failed on the fourth;
TLC, given three writes, then found it.

`NvmIsADramChannel` is a refinement: the NVM controller is other text (`NvmController`) with one record for a state,
and each of its steps is shown to be the step of the channel, operator by operator. It looks for room in the queue
where the channel has the mode at hand and takes the mode before `schedule` where the channel takes it after;
that these come to the same needs the invariant of the channel (`SameOperated`, `SameEnqueue`). The hybrid controller repeats the NVM controller
under its own names, so each of its steps is a step of that (`HybridStep`) and `HybridBanksAndQueuesAgree` follows.

**ReplacementProofs.** *LRU.* The inductive invariant is `AgesArePermutation`: no two ways have one
age and every age has a way. `lru_update` keeps it (`UpdatedPermutes`): the ways
younger than the touched one move up by one into the gap it leaves. Both halves
are needed, the first for the order, the second so that some way has age
`NUM_WAY - 1`; that the first invalid way exists when there is any comes from
well-founded induction (`FirstWay`). With it, the ages order the ways as they were
used (`AgesOrderUse`), whatever was invalidated in between, and a miss finds a
victim (`VictimAlwaysFound`): the loop of `lru_victim` never falls through to
its assertion.

*SRRIP, DRRIP and SHiP.* `RripInvariant` says that the state has its form (`Shaped`), that
the sampler of SHiP ages as an LRU set does (`Sampled`), and `ColdAreOldest`: under SRRIP
a way that was never filled has the maximal value, and while there is one no filled way has
it. A search ages a set until its greatest value is the maximum, so a second search ages
nothing, and while a way is unfilled none ages: that keeps `ColdAreOldest`. The
hypothesis `RangesAssumed` is that there is a way and that the counters have ranges.

*The DRAM cache.* A hit, in whatever way, reads or writes the first line of the set and counts
as a read or write hit only if that line is valid. That it always is needs `InOrder`: the lines of
a set are filled in order, and none is given up but to the block that replaces it. `Counted` and `Paid` are the counters: a write makes at most one line dirty, and a
line becomes clean only by being written back, which `to_next_mem` counts. `BlocksAssumed`
asks for numbered blocks and at least one set and way.

*The hit predictors.* They look into a cache that is the same text on another variable
(`SameOperation`), so its invariant carries over. The Bloom filter holds every block of the cache
(`Cached`) because a block comes in only with the operation that `update` is told of, before it or
after it, and because no bit is ever cleared: `reset` refuses an index below the length, and
every hash is. `Mapped` is the MissMap: a segment is entered only while there is room, a position
of a segment is one block (`OneBlock`), and an entry loses bits or goes. `TablesAssumed` asks
for a segment and a filter of at least one place. What the MissMap says of blocks it was
told of is not more than that: it forgets a whole segment, so it can deny blocks that are cached.

*Bingo's tables.* Each set of a `SetAssoc` table has three maps: from tags to ways, from ways to entries, and
from ways to the times of their last use. `RowAgrees` is the invariant of a set: every tag leads to a valid entry
of that tag, and every valid entry belongs to the set and is what its tag leads to. It needs that a key's set and
tag determine the key (`PlaceIsKey`: they are its remainder and quotient), and that a full set has a victim and
the renumbering of times is defined (`VictimIsThere`, `TimesRenumbered`), which hold because the times are
finitely many naturals. The operations are then described by what `find` returns afterwards, without the ways:
`Comes`, `Leaves`, `Same`, and `Lost` for the entries an insertion may have evicted. Over that description
`RegionsTracked` says that no region is in both the filter and the accumulation table, and that the touched blocks
are the one block or the pattern found there. It is inductive because an access that inserts a region
in the accumulation table also erases its entry in the filter table, and an eviction only loses entries. That a history pattern
contains the trigger and a stream is never empty are the sets their tables hold, `Seen` and `Wanted`. The
hypothesis `BingoAssumed` is that every size is positive, regions are naturals and the pcs are numbered from 0.

**PageTableProofs.** The one hypothesis, `NumbersAssumed`, is that cores and pages are
numbers and that there is a frame. The inductive invariant is `MapsInverse` with the shape of
the record and `Counted`: the table has `allocated` pages, at most `DRAM_PAGES`, and
the queue as many elements. `Counted` makes the table non-empty when a swap comes, so the
loop finds a page: the order by core, then page, has a first element of every set
(`FirstPage`, by well-founded induction), and the three assertions of a swap hold
(`SwapsFindTheirPage`). `MapsInverse` is kept because the frame that moves is the frame
of no other page (`SwapKeeps`) and a new one is nobody's (`AllocateKeeps`). The third part of
`TablesAgree`, the length of a run of adjacent pages, is about powers of two and so
an induction; TLC checks it. `OneCoreSwapsInvalidate` is the other side of finding 5: with
one core, whose pages are exactly those the swap can find in the TLBs, the swap leaves
nothing behind.

**CacheHierarchyProofs.** The theorems about the hierarchy
have one hypothesis, `CodeAndDataApart`: the first-level caches above one cache ask
for different lines. Without it they are false, which is finding 1; every run
but that one satisfies it. The inductive invariant is `IInv`:

- `Traffic` says who owes which line to whom. `Owed(d, x)` are the sides
  (instruction or data) to which cache `d` owes line `x`: for a read in its queue,
  for a prefetch that an upper level waits for, or for a miss of its own.
  `Waiters(d, x)` are the caches above `d` with a miss for `x` in flight. `Answering`
  says that the two agree and that `d` owes the line for *one* reason only.
  `ReturnsMatch` alone is not inductive: whether a return finds its MSHR depends on
  what the level below has in its queues, in turn on what is below that. The
  bottom is `AnsweredFromOutside`: the LLC waits for exactly the lines DRAM is to read,
  and nothing waits below the STLB.
- `Lawful` (in `Traffic`) is what keeps `Answering` alive through merges: a demand is
  wanted everywhere up to the core, so a demand that merges with a prefetch makes
  the prefetch wanted; only prefetches of the data side stop at a lower level.
- `Sized` (in `Traffic`) needs `Answering`: a read queue holds only lines for which
  an upper MSHR waits (`DistinctLines` counts them), so that the MSHRs' sizes bound it
  and `NoLostRead` holds although nobody looks at the result of `add_rq`.
- `Writes`, `Blocks`, `Ends`: what the write queues, the ways and the two ends hold.
  Only the data side is ever modified, so an eviction always has a write queue to go to.

One lemma for each effect a handler has on a queue or an MSHR (a new miss, a merge, a
return, a fill that is passed on), one for each handler composed from them
(`handle_read`, `handle_prefetch`, `handle_fill`, `handle_writeback` and the page swap).
`LinesAreSingle` adds the hypothesis `DemandOnly` (no prefetch, no page swap: each can put a
line in two ways) and the inductive `Single`: a cache that has a miss for a line does
not hold it, and what is evicted into a cache is not on its way there.

The last part of `CacheHierarchyProofs` is about the core's requests. `Conserved`: those that wait for a line in a read queue, in
an MSHR and in `PROCESSED` are disjoint sets (`Apart`) and together those that wait
(`Placed`); nobody waits for a prefetch. The theorem supposes `ProcessedRoom`, that no
`PROCESSED` is full when a step is taken: a full one drops what it is given, in the
code as in the model. `hierarchy_disturbed` meets it in every state.

**OooCoreProofs.** Nothing is supposed of the programs but their form. The handlers are
functions on the record `core`, so each has a lemma of what it changes (`...Is`),
each part of the invariant a lemma for each handler that can disturb it, and
`MemScheduled`, five calls in a row, is composed from the lemmas of the calls. The
invariant is `QueueInvariant`; each part is needed by another:

- `Rob` and `Registers`: a register is awaited from exactly one older instruction that has
  not completed (`AwaitedRegs`), so `num_reg_dependent` counts to zero and never below;
- `LoadQueue` and `StoreQueue`: the indices in the ROB and the indices in the queues
  agree, in both directions for stores. `retire_rob` frees what `sq_index` names, and
  frees the right entries because of it;
- `Sta`: the stores that still have to enter the queue are in program order and
  younger than all that are in it;
- `Ring`: behind the tail come the stores, the youngest first, without a hole. A store that
  enters is the youngest because of `Sta`; one that retires is the oldest because of
  `StoreQueue`. Hence the entry at the tail is free when any is (`TailIsFree`, the
  assertion of `add_store_queue`);
- `StoreWay`: a store that has not executed is in exactly one stage, so no store
  executes twice;
- `Ops`: `num_mem_ops` is the number of accesses to be made (`Accounted`), and zero for what has
  completed: an instruction retires with nothing left in the load queue and all its
  stores executed (`OpsDone`), on which `LoadQueue` and `StoreWay` depend in turn.

**OooOrderProofs.** What the loads and registers of the core are given. The theorems
have one hypothesis, `WholeTraces`: every program is `Whole`, that is, no instruction
loads from two addresses that one older store instruction of the same ROB window stored
to, when a store in between has overwritten just one of them. Without it they are false
(finding 4, `ooo_two_stores`): `execute_store` takes the sources of a dependent by their
addresses and not by the store they wait for. The programs of `ooo_core` satisfy it,
those of `ooo_two_stores` do not. The invariant is `OrderInvariant`, that is
`QueueInvariant` and `OrderRight`:

- `Links`: a source that has been added is still in its load queue entry and waits for
  its `Producer`, which knows of it and has no data (`Waiting`), or it was given
  what the last older store wrote (`Given`);
- `Known`: what a store has in `memory_instrs_depend_on_me` waits for it. With `Links` and
  the hypothesis, `ProducesForAll` shows that the entries `execute_store` finds
  (`Targets`) are those that wait for this store (`Awaiting`): it forwards to all of them and
  to no other. A store that retires has executed, so nobody waits for it any more
  (`CompletedHasData`), and from then on its data is in memory;
- `LoadPaths`: the four stages of a load are disjoint, and together the loads that wait for
  no store;
- `RegsRight`: an instruction whose youngest older writer of a register has not completed
  is woken by it, so one whose `num_reg_dependent` is zero reads what that writer
  wrote (`RegsAreRead`);
- `MemRead` and `MemoryRight`: what retired instructions have loaded, and memory as the
  retired stores left it, by which the L1D answers loads without a producer.

`QueueInvariant` is needed throughout: a load's answer counts only because the indices
of the queues and of the ROB agree. With the invariant the history of the core is a
function of the head and the program (`SeenIs`), so the refinement reduces to one
fact: `retire_rob` appends what the sequential machine appends, and no other handler
moves the head.

**PrefetcherProofs.** The three reinforcement learners keep the actions they have taken in a
queue until something is known of them, and teach an action to the engine together with
the one taken after it; RLP hands it to its irregular engine's `ir_train`, which
keeps nothing (finding 6). What they share is stated once, for any kind of entry:

- `Tracking`: the queue holds the last of the actions taken, numbered without a gap
  (`Numbered`), and a line once (`Once`). A demand is looked for by its line, so `Once` is
  why it rewards the entry it is about and no other;
- `Evicted` and `Taught`: what was evicted last is the action before the oldest of the
  queue, and it is the successor in what was taught (in RLP, handed over) last. Hence no
  action is taught twice and none is skipped when the queue is full at each of two accesses in a row;
- the entries are open (`ScoobyOpen`, `RlpOpen`, `CbpOpen`): rewarded at most once, with what was seen of
  their line (`Truthful`), and called incorrect only on their way out.

Three lemmas are about the queue alone (`ActionTaken`, `OldestEvicted`, `ChangedInPlace`); each
handler is one of these steps or a few in a row. The hypotheses are those of
the code as it is configured: a queue has a place, and `enable_track_multiple` is off
(`src/src/knobs.cc:227`, `:338`, `:438`). With it on a line is tracked several times, a demand
rewards some of its entries, and the others are called incorrect although their line was
used: `Truthful` fails. For CBP the entries depend on `known`, the actions a state has learned,
which only grows (`KnownStaysKnown`). `IrregularEngineStaysSilent` needs no such hypothesis:
an engine that has learned nothing chooses no address, and `ir_track` returns at once when it is given none.

POWER7 (`FastestAlwaysExploited`) is proved for any number of cores, epochs of any length and any
cycles between two demands. The invariant says of each core that exactly the configurations before the current one
have been timed (`Measured`), a time being positive because the clock is later than the stamp
(`Timed`), and that the last winner took the fewest cycles (`Chosen`). That the winner exists is
the least element of a set of numbers (`FirstOfNumbers`, from the library's well-foundedness of
the naturals). The streams and strides are sequences with one entry per key (`KeptOnce`): an entry is entered, moved to
an end or changed in place. `OneCoreSetsTheDegrees` needs one core because the degrees
are two knobs of the process.

SMS (`GenerationsAlwaysTracked`, `PatternsAlwaysKeptOnce`) supposes of its knobs only that a table has
a place (`SmsAssumed`). Its tables are again sequences with one entry per key. The
invariant `SmsTracking` has four parts: the generations (`Generations`), no region being in both
the filter and the accumulation table, so that a region that moves is in neither when it is
appended; the ages (`InUseOrder`), in the order of last use because
`update_age` lets all but the entry used grow by one (`UsedAgain`, `FirstUsed`, `LeavesInUseOrder`);
the history (`PhtKept`), a pattern being appended to the set of its signature only
when the search of that set has not found it; and the buffer (`Buffered`). That there is a
victim, the last of the oldest, is `LastOfGreatest`.

| Theorem | Property |
|---|---|
| `QueueInvariant`, `QueueTyped`, `AddressesWaitOnce`, `RingImplementsFifo` | `RingConsistent`, `TypeOK`, `WaitsOnce`, `ImplementsFifo` |
| `CapacitiesRespected`, `NoReadIsLost`, `ReturnFindsItsMiss`, `NoMissIsOrphaned`, `EveryMissAnsweredOnce` | `TypeOK`, `NoLostRead`, `ReturnsMatch`, `NoOrphanMiss`, `MissesAnsweredOnce` |
| `ModifiedUntilWritten`, `LinesAreSingle`, `RequestsWaitOnce` | `DirtyUntilWritten`, `NoDuplicateLine`, `RequestsConserved` |
| `ChannelTypes`, `BanksAreMatched`, `CountersAreExact`, `IndicesAreFresh`, `QueuesHaveNoDuplicates` | `TypeOK`, `BanksMatchRequests`, `ScheduledCounted`, `NextIsFresh`, `NoDuplicates` |
| `BusTurns`, `BusDelayIsBounded` | `BusTurnsAround`, `BusDelayBounded` |
| `ChannelImplementsMemory` | `ImplementsMemory` |
| `TypesHold`, `OpsAreAccounted`, `StoresAreInOrder` | `TypeOK`, `OpsAccounted`, `StoresInOrder` |
| `NothingIsLost`, `StoresForwardOwn`, `CoreImplementsInOrder` | `NothingLost`, `ForwardsOwnLoads`, `ImplementsInOrder` |
| `TablesAreInverse`, `SwapsFindTheirPage` | two parts of `TablesAgree`; the assertions of the swap |
| `OneCoreSwapsInvalidate` | `SwapInvalidates`, which several cores violate |
| `AgesPermute`, `AgesOrderUse`, `VictimAlwaysFound` | the part of `WaysAndCountsAgree` about `Lru` |
| `RripSearchEnds`, `SamplerAlwaysFindsAWay` | its part about `Rrip` |
| `LinesAndCountsAlwaysAgree` | its part about `DramCache` |
| `PredictorsAlwaysBelieve` | the part of `PredictorsBelieve` about `HitPredictors` |
| `NvmIsADramChannel`, `NvmBanksAndQueuesAgree`, `HybridBanksAndQueuesAgree` | the two parts of `BanksAndQueuesAgree` |
| `ScoobyLearnsFromEachActionOnce`, `CbpLearnsFromEachActionOnce` | the two parts of `LearnsFromEachActionOnce` |
| `RlpHandsOverEachActionOnce`, `IrregularEngineStaysSilent` | the two parts of `RlpEnginesUntaught` |
| `GenerationsAlwaysTracked`, `PatternsAlwaysKeptOnce` | the part of `GenerationsTracked` about `Sms` |
| `BingoGenerationsAlwaysTracked` | its part about `Bingo` |
| `FastestAlwaysExploited`, `OneCoreSetsTheDegrees` | the part of `BestChosen` about `Power7`: `FastestExploited` and the degrees of `DegreesFollowConfig` |

**Model-checked only.** Of `MCParts`: `FastSet`, the SA predictor (TLC takes all of its states),
BOP, sandbox, AMPM and next-line, the number of lines POWER7 issues, the page tables the learners share (`PagesTrackedOnce`), and runs of
adjacent pages.
`PagesTrackedOnce` is a property of the configured size only: `insert_action_tracker`
(`src/prefetcher/scooby_helper.cc:176`) erases an entry and then appends what the iterator points to, which
is the right action for the two entries of `scooby_action_tracker_size`
(`src/src/knobs.cc:251`) and need not be for three, so no theorem could say it for every size.
And the liveness properties `AllServed`, `EventuallyServed` and `AllRetire`. Liveness under
fairness and ENABLED, induction over data and RECURSIVE operators are beyond the proof
system as installed.

## 5. The plan

Done: 1. `PacketQueue` (queues), 2. `CacheHierarchy`, 3. `DramChannel`,
4. `OooCore`, 5. `PageTable`, 6. the replacement policies, 7. `DramCache`,
`FastSet`, the predictors, the NVM and hybrid controllers, 8. the prefetchers
whose tables have an invariant.

`CacheHierarchy` composes with `DramChannel` through `MemoryChannel`, and with
`OooCore` through the requests it sends: what `OooCore` assumes of the L1D and
the DTLB is what `RequestsConserved` and `AllServed` say.

Theorems: the queues, the hierarchy, the channel and its two copies, the core and its refinement
of the sequential machine, the page table, the replacement policies, the DRAM cache, the
learners, POWER7, SMS, Bingo, the hit predictors. What remains to TLC is named at the end of section 4.

## 6. Not modelled, and why

The Q tables and feature tables of the learning engines are floating-point
numbers without a discrete invariant; the models leave their choices free. SPP,
PPF, IPCP, TPC, DSPatch, MLOP and GNNP are tables of saturating confidences; to
the caches they are the `Prefetch` of `CacheHierarchy`, like every prefetcher.
Branch predictors influence only how long fetch stalls, which `OooCore` leaves
free. The uncore is a record. `kpc_prefetch_line`, warm-up and statistics are left
out of the caches. Knobs, ini files, hashes and traces are parsing, I/O or
third-party code.

## 7. Running

    tlc -workers 2 -config MCDemand.cfg MCHierarchy.tla
    tlc -workers 2 -config MCParts.cfg MCParts.tla
    tlapm PacketQueueProofs.tla
    tlapm DramChannelProofs.tla
    tlapm CacheHierarchyProofs.tla
    tlapm OooCoreProofs.tla
    tlapm OooOrderProofs.tla
    tlapm PageTableProofs.tla
    tlapm ReplacementProofs.tla
    tlapm PrefetcherProofs.tla

The leaves that take the provers longest ask for more time (`SMTT(60)`, `ZenonT(60)`), so that a slower or
busier machine proves them too.
