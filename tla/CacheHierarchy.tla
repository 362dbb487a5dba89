--------------------------- MODULE CacheHierarchy ---------------------------
(***************************************************************************)
(* The caches and TLBs of one core and the levels below them (src/cache.cc)*)
(* as src/main.cc wires them: every cache has a read, a write, a prefetch  *)
(* and, at the first level, a PROCESSED queue, a file of MSHRs and its     *)
(* blocks; a miss goes down by lower_level->add_rq / add_pq, an eviction   *)
(* by add_wq, and data comes back up by return_data.                       *)
(*                                                                         *)
(* CACHE::operate calls handle_fill, handle_writeback, handle_read and     *)
(* handle_prefetch in every cycle; each acts when its packet's event_cycle *)
(* has come.  The model leaves the cycles out: a handler acts at any time  *)
(* after its packet has arrived, so it covers every set of latencies.      *)
(* One set of each cache is modelled (sets share only the queues), with    *)
(* any replacement policy that fills invalid ways first.  DRAM is the      *)
(* abstract one: reads and writes complete in any order.                   *)
(***************************************************************************)
EXTENDS Integers, Sequences, FiniteSets

CONSTANTS
  Cache,       \* the caches and TLBs
  Line,        \* block addresses (page numbers for TLBs)
  Req,         \* identities of the core's loads and instruction fetches
  NoLine,      \* address 0: no packet, no block
  NoCache,     \* a null upper or lower level pointer
  DRAM,        \* the lower level of the LLC
  kind,        \* cache_type of each cache
  lower,       \* lower_level
  icache,      \* upper_level_icache
  dcache,      \* upper_level_dcache
  Footprint,   \* the lines the core or a prefetcher asks each cache for
  NUM_WAY, MSHR_SIZE, RQ_SIZE, WQ_SIZE, PQ_SIZE, PROCESSED_SIZE,
  DRAM_RQ_SIZE, DRAM_WQ_SIZE,
  MaxStores, MaxPrefetches, MaxSwaps   \* bounds on what the environment does

VARIABLES
  block,       \* block[c][w]: the ways of the modelled set
  mshr,        \* mshr[c][x]: the miss in flight for line x
  rq, wq, pq,  \* the queues, oldest packet first
  processed,   \* finished requests waiting for the core
  dramRQ, dramWQ,
  status,      \* of each of the core's requests
  budget       \* stores, prefetches and page swaps still to come

vars == <<block, mshr, rq, wq, pq, processed, dramRQ, dramWQ, status, budget>>

Kinds == {"ITLB", "DTLB", "STLB", "L1I", "L1D", "L2C", "LLC"}
FirstLevel == {c \in Cache : kind[c] \in {"ITLB", "DTLB", "L1I", "L1D"}}

(* FILL_L1, FILL_L2, FILL_LLC *)
Fills == {1, 2, 4}
fill_level(c) == IF c \in FirstLevel THEN 1 ELSE IF kind[c] = "LLC" THEN 4 ELSE 2

(* How main() connects the caches of a core (src/main.cc:831-886).         *)
ASSUME LevelsAssumption ==
  /\ DRAM \notin Cache /\ NoCache \notin Cache /\ DRAM # NoCache
  /\ \A c \in Cache :
       /\ kind[c] \in Kinds
       /\ lower[c] \in Cache \cup {DRAM, NoCache}
       /\ lower[c] = DRAM <=> kind[c] = "LLC"
       /\ lower[c] = NoCache <=> kind[c] = "STLB"
       /\ kind[c] \in {"ITLB", "DTLB"} => kind[lower[c]] = "STLB"
       /\ kind[c] \in {"L1I", "L1D"} => kind[lower[c]] = "L2C"
       /\ kind[c] = "L2C" => kind[lower[c]] = "LLC"
  /\ \A c, e \in Cache : kind[c] = "LLC" /\ kind[e] = "LLC" => c = e

(* The pointers up are those down reversed; the L2C is above the LLC for   *)
(* instructions and for data.                                              *)
ASSUME UpperAssumption ==
  \A c \in Cache :
    /\ icache[c] \in Cache => lower[icache[c]] = c
    /\ dcache[c] \in Cache => lower[dcache[c]] = c
    /\ kind[c] \in {"ITLB", "L1I", "L2C"} => icache[lower[c]] = c
    /\ kind[c] \in {"DTLB", "L1D", "L2C"} => dcache[lower[c]] = c

(* The sizes of inc/cache.h:20-79.  A read queue has an entry for every    *)
(* MSHR of the caches above it: 8 + 16 of the first level for the 32 of    *)
(* the L2C, 8 + 8 for the 32 of the STLB, 32 for the 32 of the LLC.        *)
ASSUME SizesAssumption ==
  /\ IsFiniteSet(Line) /\ NoLine \notin Line
  /\ \A c \in Cache :
       /\ MSHR_SIZE[c] \in Nat /\ RQ_SIZE[c] \in Nat /\ WQ_SIZE[c] \in Nat
       /\ PQ_SIZE[c] \in Nat /\ NUM_WAY[c] \in Nat
       /\ lower[c] \in Cache => MSHR_SIZE[c] <= RQ_SIZE[lower[c]]
  /\ \A c, e \in Cache :
       c # e /\ lower[c] = lower[e] /\ lower[c] \in Cache =>
         MSHR_SIZE[c] + MSHR_SIZE[e] <= RQ_SIZE[lower[c]]
  /\ PROCESSED_SIZE \in Nat /\ MaxStores \in Nat /\ MaxPrefetches \in Nat /\ MaxSwaps \in Nat

Types == {"LOAD", "RFO", "PREFETCH", "WRITEBACK"}
Packet == [line : Line, type : Types, instr : BOOLEAN, fill : Fills, deps : SUBSET Req]
Ways(c) == 1 .. NUM_WAY[c]

(* An MSHR as remove_queue leaves it, and one holding packet p. *)
Free == [type |-> "NONE", instr |-> FALSE, fill |-> 0, deps |-> {}, returned |-> FALSE]
Entry(p, back) ==
  [type |-> p.type, instr |-> p.instr, fill |-> p.fill, deps |-> p.deps, returned |-> back]

Init ==
  /\ block = [c \in Cache |-> [w \in Ways(c) |-> [line |-> NoLine, valid |-> FALSE, dirty |-> FALSE]]]
  /\ mshr = [c \in Cache |-> [x \in Line |-> Free]]
  /\ rq = [c \in Cache |-> <<>>]
  /\ wq = [c \in Cache |-> <<>>]
  /\ pq = [c \in Cache |-> <<>>]
  /\ processed = [c \in FirstLevel |-> <<>>]
  /\ dramRQ = {} /\ dramWQ = {}
  /\ status = [r \in Req |-> "idle"]
  /\ budget = [stores |-> MaxStores, prefetches |-> MaxPrefetches, swaps |-> MaxSwaps]

-----------------------------------------------------------------------------
(* Look-ups and queue operations. *)

Lines(q) == {q[i].line : i \in DOMAIN q}
MshrOccupancy(c) == Cardinality({x \in Line : mshr[c][x] # Free})
MshrRoomOffByOne(c) == MshrOccupancy(c) <= MSHR_SIZE[c]   \* mutant
MshrRoom(c) == MshrOccupancy(c) < MSHR_SIZE[c]

(* check_hit: the ways that hold line x; the first of them answers. *)
HitsAllButLast(c, x) ==   \* mutant: the loop ends one way early
  {w \in 1 .. (NUM_WAY[c] - 1) : block[c][w].valid /\ block[c][w].line = x}
Hits(c, x) == {w \in Ways(c) : block[c][w].valid /\ block[c][w].line = x}
HitWay(c, x) == CHOOSE w \in Hits(c, x) : \A v \in Hits(c, x) : w <= v

(* find_victim: an invalid way if there is one, else the policy's choice. *)
Victims(c) ==
  LET invalid == {w \in Ways(c) : ~block[c][w].valid}
  IN  IF invalid # {} THEN invalid ELSE Ways(c)

(* return_data from cache c for packet p: marks the upper level's MSHR.    *)
UpperData(c, p) == dcache[c]   \* mutant: instruction is not looked at
Upper(c, p) == IF p.instr THEN icache[c] ELSE dcache[c]
ReturnedToNear(ms, c, p) ==   \* mutant: compares with the level above
  LET u == Upper(c, p)
  IN  IF p.fill < fill_level(c) \div 2 /\ ms[u][p.line] # Free
      THEN [ms EXCEPT ![u][p.line].returned = TRUE]
      ELSE ms
Returned(ms, c, p) ==
  LET u == Upper(c, p)
  IN  IF p.fill < fill_level(c) /\ ms[u][p.line] # Free
      THEN [ms EXCEPT ![u][p.line].returned = TRUE]
      ELSE ms

(* PROCESSED.add_queue: silently dropped when there is no room. *)
Finish(c, deps) ==
  IF Len(processed[c]) < PROCESSED_SIZE THEN [processed EXCEPT ![c] = Append(@, deps)]
  ELSE processed

(* add_rq of a lower level, whose result no cache looks at: a waiting      *)
(* packet for the line absorbs it, a full queue drops it.                  *)
Queued(q, p, size) ==
  IF p.line \in Lines(q) \/ Len(q) >= size THEN q
  ELSE Append(q, [p EXCEPT !.deps = {}])

(* The packet that waits for line x in q takes request r along. *)
Joined(q, x, r) ==
  [i \in DOMAIN q |-> IF q[i].line = x THEN [q[i] EXCEPT !.deps = @ \cup {r}] ELSE q[i]]

(* add_pq: a prefetch that waits for the line takes over the nearer of the *)
(* two fill levels.                                                        *)
PrefetchQueued(q, p) ==
  IF p.line \in Lines(q)
  THEN [i \in DOMAIN q |-> IF q[i].line = p.line /\ p.fill < q[i].fill
                           THEN [q[i] EXCEPT !.fill = p.fill] ELSE q[i]]
  ELSE Append(q, p)

(* The lower level has the line in its write queue and answers at once. *)
ForwardedBelow(c, x) ==
  IF lower[c] = DRAM THEN x \in dramWQ ELSE x \in Lines(wq[lower[c]])

(* A new miss of c for p, the head of its queue q (rq or wq): an MSHR and  *)
(* a read for the lower level.  Only the LLC looks for room below first.   *)
(* The STLB has no lower level: va_to_pa answers at once.                  *)
NewMiss(c, p, rqc) ==
  CASE lower[c] = NoCache ->
         /\ mshr' = [mshr EXCEPT ![c][p.line] = Entry(p, TRUE)]
         /\ rq' = [rq EXCEPT ![c] = rqc]
         /\ UNCHANGED dramRQ
    [] lower[c] = DRAM ->
         /\ Cardinality(dramRQ) < DRAM_RQ_SIZE
         /\ mshr' = [mshr EXCEPT ![c][p.line] = Entry(p, ForwardedBelow(c, p.line))]
         /\ rq' = [rq EXCEPT ![c] = rqc]
         /\ dramRQ' = IF ForwardedBelow(c, p.line) THEN dramRQ ELSE dramRQ \cup {p.line}
    [] OTHER ->
         /\ mshr' = [mshr EXCEPT ![c][p.line] = Entry(p, ForwardedBelow(c, p.line))]
         /\ rq' = [rq EXCEPT ![c] = rqc,
                             ![lower[c]] = IF ForwardedBelow(c, p.line) THEN @
                                           ELSE Queued(@, p, RQ_SIZE[lower[c]])]
         /\ UNCHANGED dramRQ

(* A miss that finds its line in flight: the waiting requests join, the    *)
(* fill level sinks, and a prefetch becomes the demand that caught it.     *)
MergedForgets(e, p) ==   \* mutant: the joining request is not recorded
  IF e.type = "PREFETCH" THEN Entry(p, e.returned)
  ELSE [e EXCEPT !.fill = IF p.fill < @ THEN p.fill ELSE @]
MergedKeepsFill(e, p) ==   \* mutant: the demand inherits the prefetch's fill level
  IF e.type = "PREFETCH" THEN [Entry(p, e.returned) EXCEPT !.fill = e.fill]
  ELSE [e EXCEPT !.deps = @ \cup p.deps, !.fill = IF p.fill < @ THEN p.fill ELSE @]
Merged(e, p) ==
  IF e.type = "PREFETCH" THEN Entry(p, e.returned)
  ELSE [e EXCEPT !.deps = @ \cup p.deps, !.fill = IF p.fill < @ THEN p.fill ELSE @]

(* Evicting way w of c: a dirty block goes to the lower write queue, which *)
(* must have room.  valid is not looked at: a block that was invalidated   *)
(* while dirty is written back too.                                        *)
WqRoomBelow(c) ==
  IF lower[c] = DRAM THEN Cardinality(dramWQ) < DRAM_WQ_SIZE
  ELSE Len(wq[lower[c]]) < WQ_SIZE[lower[c]]

Writeback(c, x) ==
  [line |-> x, type |-> "WRITEBACK", instr |-> FALSE, fill |-> 2 * fill_level(c), deps |-> {}]

MustWriteBackToCache(c, v) == v.dirty /\ lower[c] \in Cache   \* mutant: DRAM is forgotten
MustWriteBackIfValid(c, v) == v.dirty /\ lower[c] # NoCache /\ v.valid   \* mutant
MustWriteBack(c, v) == v.dirty /\ lower[c] # NoCache

Evict(c, w, wqc) ==
  LET v == block[c][w] IN
  IF ~MustWriteBack(c, v)
  THEN wq' = [wq EXCEPT ![c] = wqc] /\ UNCHANGED dramWQ
  ELSE /\ WqRoomBelow(c)
       /\ IF lower[c] = DRAM
          THEN wq' = [wq EXCEPT ![c] = wqc] /\ dramWQ' = dramWQ \cup {v.line}
          ELSE /\ wq' = [wq EXCEPT ![c] = wqc,
                                   ![lower[c]] = IF v.line \in Lines(@) THEN @
                                                 ELSE Append(@, Writeback(c, v.line))]
               /\ UNCHANGED dramWQ

-----------------------------------------------------------------------------
(* The core. *)

(* A load or fetch of line x reaches a first-level cache by add_rq.  The   *)
(* write queue of the L1D is searched by full address, so a waiting store  *)
(* to the line answers it only if it is to the same word: either may be.   *)
CpuRead(c, r, x) ==
  /\ status[r] = "idle"
  /\ x \in Footprint[c]
  /\ status' = [status EXCEPT ![r] = "waiting"]
  /\ \/ /\ kind[c] = "L1D" /\ x \in Lines(wq[c])
        /\ processed' = Finish(c, {r})
        /\ UNCHANGED rq
     \/ /\ x \in Lines(rq[c])
        /\ rq' = [rq EXCEPT ![c] = Joined(@, x, r)]
        /\ UNCHANGED processed
     \/ /\ x \notin Lines(rq[c])
        /\ Len(rq[c]) < RQ_SIZE[c]
        /\ rq' = [rq EXCEPT ![c] = Append(@,
                    [line |-> x, type |-> "LOAD", instr |-> kind[c] \in {"L1I", "ITLB"},
                     fill |-> 1, deps |-> {r}])]
        /\ UNCHANGED processed
  /\ UNCHANGED <<block, mshr, wq, pq, dramRQ, dramWQ, budget>>

(* A retiring store enters the write queue of the L1D (retire_rob looks    *)
(* for room); a store to a word already waiting there is absorbed.         *)
CpuStore(c, x) ==
  /\ kind[c] = "L1D" /\ x \in Footprint[c]
  /\ budget.stores > 0
  /\ budget' = [budget EXCEPT !.stores = @ - 1]
  /\ Len(wq[c]) < WQ_SIZE[c]
  /\ \/ wq' = [wq EXCEPT ![c] = Append(@,
                 [line |-> x, type |-> "RFO", instr |-> FALSE, fill |-> 1, deps |-> {}])]
     \/ x \in Lines(wq[c]) /\ UNCHANGED wq
  /\ UNCHANGED <<block, mshr, rq, pq, processed, dramRQ, dramWQ, status>>

(* complete_instr_fetch, complete_data_fetch: the head of PROCESSED. *)
CpuComplete(c) ==
  /\ processed[c] # <<>>
  /\ processed' = [processed EXCEPT ![c] = Tail(@)]
  /\ status' = [r \in Req |-> IF r \in Head(processed[c]) THEN "done" ELSE status[r]]
  /\ UNCHANGED <<block, mshr, rq, wq, pq, dramRQ, dramWQ, budget>>

(* A prefetcher asks cache c for x, to be filled into it or into a lower   *)
(* level (prefetch_line, which looks for room, and add_pq).  A store to    *)
(* the same word that waits in the write queue makes it superfluous.       *)
Prefetch(c, x, f) ==
  /\ kind[c] \in {"L1D", "L2C", "LLC"}
  /\ x \in Footprint[c] /\ f >= fill_level(c)
  /\ budget.prefetches > 0
  /\ Len(pq[c]) < PQ_SIZE[c]
  /\ budget' = [budget EXCEPT !.prefetches = @ - 1]
  /\ \/ /\ x \in Lines(wq[c])
        /\ UNCHANGED pq
     \/ /\ x \notin Lines(wq[c]) \/ kind[c] = "L1D"
        /\ pq' = [pq EXCEPT ![c] = PrefetchQueued(@,
             [line |-> x, type |-> "PREFETCH", instr |-> FALSE, fill |-> f, deps |-> {}])]
  /\ UNCHANGED <<block, mshr, rq, wq, processed, dramRQ, dramWQ, status>>

(* A page swap (va_to_pa) invalidates a line in every cache; the dirty bit *)
(* of the block stays as it was.                                           *)
Invalidate(x) ==
  /\ budget.swaps > 0
  /\ budget' = [budget EXCEPT !.swaps = @ - 1]
  /\ block' = [c \in Cache |->
       IF Hits(c, x) = {} THEN block[c]
       ELSE [block[c] EXCEPT ![HitWay(c, x)].valid = FALSE]]
  /\ UNCHANGED <<mshr, rq, wq, pq, processed, dramRQ, dramWQ, status>>

-----------------------------------------------------------------------------
(* update_fill_cycle: which misses handle_fill may take. *)
ReadyToFillEarly(e) == e # Free   \* mutant: ignores returned
ReadyToFill(e) == e # Free /\ e.returned

(* handle_fill: a returned miss takes a way, its victim leaves, the upper  *)
(* level and the core get their data and the MSHR is free again.           *)
HandleFill(c, x) ==
  LET e == mshr[c][x]
      p == [line |-> x, type |-> e.type, instr |-> e.instr, fill |-> e.fill, deps |-> e.deps]
  IN
  /\ ReadyToFill(e)
  /\ \E w \in Victims(c) :
       /\ Evict(c, w, wq[c])
       /\ block' = [block EXCEPT ![c][w] =
            [line |-> x, valid |-> TRUE, dirty |-> kind[c] = "L1D" /\ e.type = "RFO"]]
  /\ mshr' = Returned([mshr EXCEPT ![c][x] = Free], c, p)
  /\ processed' = IF c \in FirstLevel /\ ~(kind[c] = "L1D" /\ e.type = "PREFETCH")
                  THEN Finish(c, e.deps) ELSE processed
  /\ UNCHANGED <<rq, pq, dramRQ, status, budget>>

(* handle_writeback, hit: a store or an eviction from above dirties the block. *)
WritebackHit(c) ==
  /\ wq[c] # <<>>
  /\ LET x == Head(wq[c]).line IN
     /\ Hits(c, x) # {}
     /\ block' = [block EXCEPT ![c][HitWay(c, x)].dirty = TRUE]
  /\ wq' = [wq EXCEPT ![c] = Tail(@)]
  /\ mshr' = Returned(mshr, c, Head(wq[c]))
  /\ UNCHANGED <<rq, pq, processed, dramRQ, dramWQ, status, budget>>

(* handle_writeback, miss in the L1D: the store needs the line (RFO). *)
StoreMiss(c) ==
  /\ kind[c] = "L1D"
  /\ wq[c] # <<>>
  /\ LET p == Head(wq[c]) IN
     /\ Hits(c, p.line) = {}
     /\ \/ /\ mshr[c][p.line] = Free /\ MshrRoom(c)
           /\ NewMiss(c, p, rq[c])
        \/ /\ mshr[c][p.line] # Free
           /\ mshr' = [mshr EXCEPT ![c][p.line] = Merged(@, p)]
           /\ UNCHANGED <<rq, dramRQ>>
  /\ wq' = [wq EXCEPT ![c] = Tail(@)]
  /\ UNCHANGED <<block, pq, processed, dramWQ, status, budget>>

(* handle_writeback, miss below: the whole block came with the eviction,   *)
(* so it is allocated, dirty, without asking the lower level.              *)
WritebackMiss(c) ==
  /\ kind[c] # "L1D"
  /\ wq[c] # <<>>
  /\ LET p == Head(wq[c]) IN
     /\ Hits(c, p.line) = {}
     /\ \E w \in Victims(c) :
          /\ Evict(c, w, Tail(wq[c]))
          /\ block' = [block EXCEPT ![c][w] = [line |-> p.line, valid |-> TRUE, dirty |-> TRUE]]
     /\ mshr' = Returned(mshr, c, p)
  /\ UNCHANGED <<rq, pq, processed, dramRQ, status, budget>>

(* handle_read. *)
ReadHit(c) ==
  /\ rq[c] # <<>>
  /\ Hits(c, Head(rq[c]).line) # {}
  /\ rq' = [rq EXCEPT ![c] = Tail(@)]
  /\ mshr' = Returned(mshr, c, Head(rq[c]))
  /\ processed' = IF c \in FirstLevel THEN Finish(c, Head(rq[c]).deps) ELSE processed
  /\ UNCHANGED <<block, wq, pq, dramRQ, dramWQ, status, budget>>

ReadMiss(c) ==
  /\ rq[c] # <<>>
  /\ LET p == Head(rq[c]) IN
     /\ Hits(c, p.line) = {}
     /\ \/ /\ mshr[c][p.line] = Free /\ MshrRoom(c)
           /\ NewMiss(c, p, Tail(rq[c]))
        \/ /\ mshr[c][p.line] # Free
           /\ mshr' = [mshr EXCEPT ![c][p.line] = Merged(@, p)]
           /\ rq' = [rq EXCEPT ![c] = Tail(@)]
           /\ UNCHANGED dramRQ
  /\ UNCHANGED <<block, wq, pq, processed, dramWQ, status, budget>>

(* handle_prefetch. *)
PrefetchHit(c) ==
  /\ pq[c] # <<>>
  /\ Hits(c, Head(pq[c]).line) # {}
  /\ pq' = [pq EXCEPT ![c] = Tail(@)]
  /\ mshr' = Returned(mshr, c, Head(pq[c]))
  /\ UNCHANGED <<block, rq, wq, processed, dramRQ, dramWQ, status, budget>>

(* A new prefetch miss is sent down if there is room below, and gets an    *)
(* MSHR here only if this level, or one above, wants the line.             *)
PrefetchMiss(c) ==
  /\ pq[c] # <<>>
  /\ LET p == Head(pq[c])
         wanted == p.fill <= fill_level(c)
         tail == [pq EXCEPT ![c] = Tail(@)]
     IN
     /\ Hits(c, p.line) = {} /\ mshr[c][p.line] = Free /\ MshrRoom(c)
     /\ IF lower[c] = DRAM
        THEN /\ Cardinality(dramRQ) < DRAM_RQ_SIZE
             /\ dramRQ' = IF ForwardedBelow(c, p.line) THEN dramRQ ELSE dramRQ \cup {p.line}
             /\ mshr' = IF wanted THEN [mshr EXCEPT ![c][p.line] = Entry(p, ForwardedBelow(c, p.line))]
                        ELSE mshr
             /\ pq' = tail
        ELSE LET d == lower[c] IN
             /\ Len(pq[d]) < PQ_SIZE[d]
             /\ mshr' = IF wanted
                        THEN [mshr EXCEPT ![c][p.line] = Entry(p, ForwardedBelow(c, p.line))]
                        ELSE mshr
             /\ pq' = [tail EXCEPT ![d] = IF ForwardedBelow(c, p.line) THEN @ ELSE PrefetchQueued(@, p)]
             /\ UNCHANGED dramRQ
  /\ UNCHANGED <<block, rq, wq, processed, dramWQ, status, budget>>

PrefetchMerge(c) ==
  /\ pq[c] # <<>>
  /\ LET p == Head(pq[c]) IN
     /\ Hits(c, p.line) = {} /\ mshr[c][p.line] # Free
     /\ mshr' = [mshr EXCEPT ![c][p.line].fill = IF p.fill < @ THEN p.fill ELSE @]
  /\ pq' = [pq EXCEPT ![c] = Tail(@)]
  /\ UNCHANGED <<block, rq, wq, processed, dramRQ, dramWQ, status, budget>>

-----------------------------------------------------------------------------
(* DRAM: a read is answered to the LLC, a write retires. *)
DramReturn(c, x) ==
  /\ lower[c] = DRAM
  /\ x \in dramRQ
  /\ dramRQ' = dramRQ \ {x}
  /\ mshr' = IF mshr[c][x] = Free THEN mshr ELSE [mshr EXCEPT ![c][x].returned = TRUE]
  /\ UNCHANGED <<block, rq, wq, pq, processed, dramWQ, status, budget>>

DramWrite(x) ==
  /\ x \in dramWQ
  /\ dramWQ' = dramWQ \ {x}
  /\ UNCHANGED <<block, mshr, rq, wq, pq, processed, dramRQ, status, budget>>

-----------------------------------------------------------------------------
Operate(c) ==
  \/ \E x \in Line : HandleFill(c, x)
  \/ WritebackHit(c) \/ StoreMiss(c) \/ WritebackMiss(c)
  \/ ReadHit(c) \/ ReadMiss(c)
  \/ PrefetchHit(c) \/ PrefetchMiss(c) \/ PrefetchMerge(c)

Core ==
  \/ \E c \in FirstLevel : CpuComplete(c)
  \/ \E c \in FirstLevel, r \in Req, x \in Line : CpuRead(c, r, x)
  \/ \E c \in FirstLevel, x \in Line : CpuStore(c, x)
  \/ \E c \in Cache, x \in Line, f \in {1, 2, 4} : Prefetch(c, x, f)
  \/ \E x \in Line : Invalidate(x)

Next ==
  \/ Core
  \/ \E c \in Cache : Operate(c)
  \/ \E c \in Cache, x \in Line : DramReturn(c, x)
  \/ \E x \in Line : DramWrite(x)

Spec == Init /\ [][Next]_vars

(* The handlers run in every cycle and latencies are finite.  DRAM is only *)
(* known to drain its write queue when it is full (write mode).            *)
Fairness ==
  /\ \A c \in Cache :
       /\ \A x \in Line : WF_vars(HandleFill(c, x)) /\ WF_vars(DramReturn(c, x))
       /\ WF_vars(WritebackHit(c) \/ StoreMiss(c) \/ WritebackMiss(c))
       /\ WF_vars(ReadHit(c) \/ ReadMiss(c))
       /\ WF_vars(PrefetchHit(c) \/ PrefetchMiss(c) \/ PrefetchMerge(c))
  /\ \A c \in FirstLevel : WF_vars(CpuComplete(c))
  /\ WF_vars(Cardinality(dramWQ) = DRAM_WQ_SIZE /\ \E x \in Line : DramWrite(x))

FairSpec == Spec /\ Fairness

-----------------------------------------------------------------------------
(* Properties. *)

(* Types and capacities: add_wq asserts that it is never called with a     *)
(* full queue (src/cache.cc:1442), the other queues refuse or drop.        *)
MshrEntry == [type : Types, instr : BOOLEAN, fill : Fills, deps : SUBSET Req, returned : BOOLEAN]

TypeOK ==
  /\ \A c \in Cache :
       /\ block[c] \in [Ways(c) -> [line : Line \cup {NoLine}, valid : BOOLEAN, dirty : BOOLEAN]]
       /\ mshr[c] \in [Line -> MshrEntry \cup {Free}]
       /\ MshrOccupancy(c) <= MSHR_SIZE[c]
       /\ rq[c] \in Seq(Packet) /\ Len(rq[c]) <= RQ_SIZE[c]
       /\ wq[c] \in Seq(Packet) /\ Len(wq[c]) <= WQ_SIZE[c]
       /\ pq[c] \in Seq(Packet) /\ Len(pq[c]) <= PQ_SIZE[c]
  /\ \A c \in FirstLevel : processed[c] \in Seq(SUBSET Req) /\ Len(processed[c]) <= PROCESSED_SIZE
  /\ dramRQ \subseteq Line /\ dramWQ \subseteq Line
  /\ status \in [Req -> {"idle", "waiting", "done"}]
  /\ budget \in [stores : 0 .. MaxStores, prefetches : 0 .. MaxPrefetches, swaps : 0 .. MaxSwaps]

InFlight(u, x) == mshr[u][x] # Free /\ ~mshr[u][x].returned

(* What cache d has promised to send up for line x: a packet of its read   *)
(* queue, a prefetch a higher level wants, a miss of its own it will pass  *)
(* on; each with the upper level return_data will be called on.            *)
Promises(d, x) ==
  {<<"RQ", Upper(d, rq[d][i])>> : i \in {j \in DOMAIN rq[d] : rq[d][j].line = x /\ d \notin FirstLevel}}
  \cup {<<"PQ", Upper(d, pq[d][i])>> :
          i \in {j \in DOMAIN pq[d] : pq[d][j].line = x /\ pq[d][j].fill < fill_level(d)}}
  \cup (IF mshr[d][x] # Free /\ mshr[d][x].fill < fill_level(d)
        THEN {<<"MSHR", Upper(d, mshr[d][x])>>} ELSE {})

(* return_data asserts that it finds a matching MSHR ("cannot find a       *)
(* matching entry!", src/cache.cc:1663).  It does because every promise is *)
(* to an MSHR still in flight, and no MSHR is promised its data twice.     *)
ReturnsMatch ==
  /\ \A d \in Cache, x \in Line : \A p, q \in Promises(d, x) :
       /\ InFlight(p[2], x)
       /\ p[2] = q[2] => p = q
  /\ \A c \in Cache, x \in dramRQ : lower[c] = DRAM => InFlight(c, x)

(* The converse, a lost wake-up: a miss in flight that no lower level is   *)
(* going to answer.                                                        *)
NoOrphanMiss ==
  \A u \in Cache, x \in Line : InFlight(u, x) =>
    IF lower[u] = DRAM THEN x \in dramRQ
    ELSE \E p \in Promises(lower[u], x) : p[2] = u

(* Every miss in flight is answered exactly once. *)
MissesAnsweredOnce == ReturnsMatch /\ NoOrphanMiss

(* Caches above the LLC ignore what add_rq of the lower level returns: a   *)
(* request that met a full queue would be lost.  As long as a cache has a  *)
(* free MSHR the read queue below it has room.                             *)
NoLostRead ==
  \A c \in Cache :
    lower[c] \in Cache /\ MshrOccupancy(c) < MSHR_SIZE[c] => Len(rq[lower[c]]) < RQ_SIZE[lower[c]]

(* A request of the core waits in exactly one place of its first-level     *)
(* cache, through merging in the read queue, merging in an MSHR, and the   *)
(* replacement of a prefetch's MSHR; none is dropped at a full PROCESSED.  *)
Places(c, r) ==
  {<<"RQ", i>> : i \in {j \in DOMAIN rq[c] : r \in rq[c][j].deps}}
  \cup {<<"MSHR", x>> : x \in {y \in Line : r \in mshr[c][y].deps}}
  \cup {<<"PROCESSED", i>> : i \in {j \in DOMAIN processed[c] : r \in processed[c][j]}}

RequestsConserved ==
  \A r \in Req :
    LET places == UNION {{<<c, p>> : p \in Places(c, r)} : c \in FirstLevel}
    IN  Cardinality(places) = IF status[r] = "waiting" THEN 1 ELSE 0

(* No line is in two ways of a set. *)
NoDuplicateLine ==
  \A c \in Cache : \A v, w \in Ways(c) :
    block[c][v].valid /\ block[c][w].valid /\ block[c][v].line = block[c][w].line => v = w

(* The line is modified somewhere on its way to DRAM. *)
Dirty(x) ==
  \/ \E c \in Cache : \E w \in Ways(c) : block[c][w].line = x /\ block[c][w].dirty
  \/ \E c \in Cache : \E i \in DOMAIN wq[c] : wq[c][i].line = x /\ wq[c][i].type = "WRITEBACK"
  \/ x \in dramWQ

(* A modified line stays modified somewhere in the hierarchy until DRAM    *)
(* has written it: through evictions, merges in write queues and page      *)
(* swaps.                                                                  *)
DirtyUntilWritten == [][\A x \in Line : Dirty(x) /\ ~Dirty(x)' => DramWrite(x)]_vars

(* A store the L1D has accepted and not yet turned into a dirty block. *)
StorePending(x) ==
  \E c \in Cache : kind[c] = "L1D" /\
    \/ \E i \in DOMAIN wq[c] : wq[c][i].line = x
    \/ mshr[c][x].type = "RFO"

(* "RFO marks cache line dirty" (src/cache.cc:241): a store accepted by    *)
(* the L1D ends in a dirty line.                                           *)
StoreMakesDirty ==
  [][\A x \in Line : StorePending(x) /\ ~StorePending(x)' => Dirty(x)']_vars

(* Every load and fetch of the core completes. *)
AllServed == \A r \in Req : status[r] = "waiting" ~> status[r] = "done"
=============================================================================
