----------------------------- MODULE DramCache -----------------------------
(***************************************************************************)
(* DRAM_Cache (src/dram_cache.cc) on Cache_base (inc/base_cache.h): a      *)
(* set-associative cache with LRU, FIFO or random replacement by the tick  *)
(* of the last or the first use.  A tag is the whole block number; a hit   *)
(* reads or writes the first line of the set, whichever way it hit.        *)
(***************************************************************************)
EXTENDS Integers, FiniteSets

CONSTANTS
  Block,          \* block numbers, naturals: addr >> cache_line_shifts
  NoTag,          \* ULLONG_MAX
  Sets, Ways,     \* cache_set_num, cache_ways
  Algorithm,      \* "FIFO", "LRU" or "RAND"
  MaxTick         \* bound on the operations between two flushes

VARIABLE s

Way == 1 .. Ways
SetIndex == 0 .. Sets - 1
SetOf(b) == b % Sets
EmptyLine == [tag |-> 0, valid |-> FALSE, dirty |-> FALSE, count |-> 0]

(* The victim tag is not initialised before the first miss.                *)
EmptyCaches ==
  {[line |-> [i \in SetIndex |-> [w \in Way |-> EmptyLine]], victim |-> v,
    tick |-> 0, reads |-> 0, writes |-> 0, read_hits |-> 0, write_hits |-> 0,
    hits |-> 0, misses |-> 0, capacity |-> 0, conflict |-> 0, to_next_mem |-> 0] :
   v \in Block \cup {NoTag}}

check_cache_hit(c, b) ==
  \E w \in Way : c.line[SetOf(b)][w].valid /\ c.line[SetOf(b)][w].tag = b

FreeWays(c, b) == {w \in Way : ~c.line[SetOf(b)][w].valid}
FirstOf(W) == CHOOSE w \in W : \A v \in W : w <= v

(* The oldest way; the first one where the ticks are equal.                *)
Oldest(c, b) ==
  LET l == c.line[SetOf(b)]
  IN {FirstOf({w \in Way : \A v \in Way : l[w].count <= l[v].count})}

AnyWay(c, b) == Way   \* mutant: a valid line is taken while another is free
find_victim(c, b) ==
  IF FreeWays(c, b) # {} THEN {FirstOf(FreeWays(c, b))}
  ELSE IF Algorithm = "RAND" THEN Way
  ELSE Oldest(c, b)

(* What do_cache_op and find_victim count when way w is taken on a miss.   *)
Replaced(c, b, w, op) ==
  LET i == SetOf(b)  old == c.line[i][w] IN
  [c EXCEPT !.line[i][w] = [tag |-> b, valid |-> TRUE, dirty |-> op = "WRITE", count |-> c.tick],
            !.victim = IF old.valid THEN old.tag ELSE NoTag,
            !.misses = @ + 1,
            !.capacity = IF old.valid THEN @ ELSE @ + 1,
            !.conflict = IF old.valid THEN @ + 1 ELSE @,
            !.to_next_mem = IF old.valid /\ old.dirty THEN @ + 1 ELSE @]

Touched(l, c) == [l EXCEPT !.count = IF Algorithm = "FIFO" THEN @ ELSE c.tick]

(* read_cache and write_cache, called with the first line of the set.      *)
Used(c, b, op) ==
  LET i == SetOf(b)  l == c.line[i][1]  d == [c EXCEPT !.hits = @ + 1] IN
  IF ~l.valid THEN d
  ELSE IF op = "READ"
  THEN [d EXCEPT !.read_hits = @ + 1, !.line[i][1] = Touched(l, c)]
  ELSE [d EXCEPT !.write_hits = @ + 1, !.line[i][1] = [Touched(l, c) EXCEPT !.dirty = TRUE]]

do_cache_op(c, b, op) ==
  LET d == [c EXCEPT !.tick = @ + 1,
                     !.reads = IF op = "READ" THEN @ + 1 ELSE @,
                     !.writes = IF op = "WRITE" THEN @ + 1 ELSE @]
  IN IF check_cache_hit(c, b) THEN {Used(d, b, op)}
     ELSE {Replaced(d, b, w, op) : w \in find_victim(d, b)}

flush_cache(c) ==
  [line |-> [i \in SetIndex |-> [w \in Way |-> [c.line[i][w] EXCEPT !.valid = FALSE, !.dirty = FALSE]]],
   victim |-> 0, tick |-> 0, reads |-> 0, writes |-> 0, read_hits |-> 0, write_hits |-> 0,
   hits |-> 0, misses |-> 0, capacity |-> 0, conflict |-> 0, to_next_mem |-> 0]

Init == s \in EmptyCaches

Operation == \E b \in Block, op \in {"READ", "WRITE"} : s.tick < MaxTick /\ s' \in do_cache_op(s, b, op)
Flush == s.tick > 0 /\ s' = flush_cache(s)

Next == Operation \/ Flush
Spec == Init /\ [][Next]_s

(* The lines of a set are taken from the first on, no block is in two of   *)
(* them, and the counters agree although a hit only ever looks at the      *)
(* first line: each hit is a read or a write hit, each operation a hit or  *)
(* a miss, and a write pays for each line written back or still dirty.     *)
Dirty == {l \in SetIndex \X Way : s.line[l[1]][l[2]].dirty}
LinesAndCountsAgree ==
  /\ \A i \in SetIndex, w, v \in Way :
       s.line[i][w].valid => /\ v < w => s.line[i][v].valid
                             /\ v # w /\ s.line[i][v].valid => s.line[i][v].tag # s.line[i][w].tag
                             /\ SetOf(s.line[i][w].tag) = i
  /\ s.hits = s.read_hits + s.write_hits
  /\ s.hits + s.misses = s.tick /\ s.capacity + s.conflict = s.misses
  /\ s.read_hits <= s.reads /\ s.write_hits <= s.writes
  /\ s.to_next_mem + Cardinality(Dirty) <= s.writes
=============================================================================
