--------------------------- MODULE HitPredictors ---------------------------
(***************************************************************************)
(* The predictors of a hit in the DRAM cache (src/predictor): MissMap, the *)
(* Bloom filter, MAP-G and MAP-I, beside the cache they are told about.    *)
(* Nothing in src/ drives them.  update() looks into the cache itself: it  *)
(* sees a miss only when it is called before the operation, and then the   *)
(* victim it reads is that of the miss before; both orders are modelled.   *)
(***************************************************************************)
EXTENDS Integers, FiniteSets, Functions

CONSTANTS
  Block, NoTag, Sets, Ways, Algorithm, MaxTick,   \* of DramCache
  Segment,       \* blocks in a segment of the MissMap
  Maxlength,     \* entries of the MissMap
  Length,        \* size of the Bloom filter and of MAP-I
  CountMax       \* (1 << countbit) - 1, of MAP-G and MAP-I

VARIABLE s

Cache == INSTANCE DramCache WITH s <- s.cache

(* PredictorHashZoo::a1anda0 and fold_xor, masked to the table's size.     *)
HashOf(b) == b % Length

Init ==
  \E c \in Cache!EmptyCaches :
    s = [cache |-> c, missmap |-> <<>>, bloom |-> {}, global |-> 0,
         counter |-> [i \in 0 .. Length - 1 |-> 0], reported |-> {}]

incrment(n) == IF n < CountMax THEN n + 1 ELSE n
decrment(n) == IF n > 0 THEN n - 1 ELSE n
MSB(n) == n >= (CountMax + 1) \div 2

SegmentOf(b) == b \div Segment
PosOf(b) == b % Segment

(* The segment of b comes in, with this block.                             *)
Entered(m, b) ==
  [g \in DOMAIN m \cup {SegmentOf(b)} |-> IF g = SegmentOf(b) THEN {PosOf(b)} ELSE m[g]]

AddEntryAlways(m, b) == Entered(m, b)   \* mutant: Maxlength is not looked at
AddEntry(m, b) == IF Maxlength > Cardinality(DOMAIN m) THEN Entered(m, b) ELSE m

Marked(m, b) ==
  IF SegmentOf(b) \in DOMAIN m THEN [m EXCEPT ![SegmentOf(b)] = @ \cup {PosOf(b)}]
  ELSE AddEntry(m, b)

(* check_bitmap_zero answers whether a bit is left, and then the whole     *)
(* entry goes; an entry that is empty stays.                               *)
Unmarked(m, v) ==
  LET g == SegmentOf(v) IN
  IF v = NoTag \/ g \notin DOMAIN m THEN m
  ELSE LET left == m[g] \ {PosOf(v)} IN
       IF left # {} THEN Restrict(m, DOMAIN m \ {g}) ELSE [m EXCEPT ![g] = left]

MissMapUpdated(m, b, hit, v) == IF hit THEN Marked(m, b) ELSE Unmarked(Marked(m, b), v)

(* BloomFilter::reset does nothing to an index below the length.           *)
ResetClears(f, i) == f \ {i}   \* mutant
Reset(f, i) == IF i >= Length THEN f \ {i} ELSE f
BloomUpdated(f, b, hit, v) ==
  LET g == f \cup {HashOf(b)} IN IF hit \/ v = NoTag THEN g ELSE Reset(g, HashOf(v))

MapIUpdated(t, b, hit, v) ==
  IF hit THEN [t EXCEPT ![HashOf(b)] = decrment(@)]
  ELSE LET u == [t EXCEPT ![HashOf(b)] = incrment(@)] IN
       IF v = NoTag THEN u ELSE [u EXCEPT ![HashOf(v)] = incrment(@)]

(* update() of all four, with the cache in state c.                        *)
Updated(c, b) ==
  LET hit == Cache!check_cache_hit(c, b)  v == c.victim IN
  [cache |-> c,
   missmap |-> MissMapUpdated(s.missmap, b, hit, v),
   bloom |-> BloomUpdated(s.bloom, b, hit, v),
   global |-> IF hit THEN decrment(s.global) ELSE incrment(s.global),
   counter |-> MapIUpdated(s.counter, b, hit, v),
   reported |-> s.reported \cup {b}]

MissMapPredict(b) == SegmentOf(b) \in DOMAIN s.missmap /\ PosOf(b) \in s.missmap[SegmentOf(b)]
BloomPredict(b) == HashOf(b) \in s.bloom
MapGPredict == ~MSB(s.global)
MapIPredict(b) == ~MSB(s.counter[HashOf(b)])

OperateThenUpdate(b, op) ==
  \E c \in Cache!do_cache_op(s.cache, b, op) : s' = Updated(c, b)

UpdateThenOperate(b, op) ==
  LET t == Updated(s.cache, b) IN
  \E c \in Cache!do_cache_op(s.cache, b, op) : s' = [t EXCEPT !.cache = c]

Next ==
  \E b \in Block, op \in {"READ", "WRITE"} :
    /\ s.cache.tick < MaxTick
    /\ OperateThenUpdate(b, op) \/ UpdateThenOperate(b, op)

Spec == Init /\ [][Next]_s

(* A block that is in the cache is never predicted absent by the Bloom     *)
(* filter, whichever order update and operation have; the counters of the  *)
(* MAP predictors stay in their range, and the MissMap has at most         *)
(* Maxlength segments, each with a block that was used.                    *)
CachedIsPredicted == \A b \in Block : Cache!check_cache_hit(s.cache, b) => BloomPredict(b)
PredictorsBounded ==
  /\ s.global \in 0 .. CountMax /\ \A i \in DOMAIN s.counter : s.counter[i] \in 0 .. CountMax
  /\ Cardinality(DOMAIN s.missmap) <= Maxlength
  /\ \A b \in Block : MissMapPredict(b) => b \in s.reported
=============================================================================
