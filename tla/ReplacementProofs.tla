-------------------------- MODULE ReplacementProofs --------------------------
(***************************************************************************)
(* The replacement policies, for any number of ways, and the DRAM cache.   *)
(* Under LRU the ages of a set stay a permutation of 0 .. NUM_WAY - 1, so  *)
(* that a miss always finds a victim; so it does under SRRIP, DRRIP and    *)
(* SHiP; the lines and counters of the DRAM cache agree; the Bloom filter  *)
(* beside it denies no block it holds; and the set-associative tables with *)
(* LRU replacement under Bingo keep their maps in step, so that Bingo has  *)
(* one generation of a region with the blocks that were loaded of it.      *)
(* Each part is a specification of its own, on the variable s.             *)
(***************************************************************************)
EXTENDS Lru, FiniteSets, FiniteSetTheorems, TLAPS, WellFoundedInduction

CONSTANTS
  Tag, Ip, PSEL_MAX, BIP_MAX, SHCT_MAX,            \* as in Rrip
  Block, NoTag, Sets, Ways, Algorithm, MaxTick,    \* as in DramCache
  Segment, Maxlength, Length, CountMax,            \* as in HitPredictors
  Region, Pc, Len1, FtSets, FtWays, AtSets, AtWays, PhtSets, PhtWays, PfSets, PfWays,
  Percent, MaxRoom, MaxAccesses                    \* as in Bingo

Rrip == INSTANCE Rrip WITH LLC_WAY <- NUM_WAY
DramCache == INSTANCE DramCache
Hits == INSTANCE HitPredictors
Bingo == INSTANCE Bingo

(* The inductive invariant: every way has an age and every age a way.      *)
Typed ==
  s \in [valid : [Way -> BOOLEAN], lru : [Way -> Way], newer : SUBSET (Way \X Way)]
Distinct(lru) == \A x, y \in Way : lru[x] = lru[y] => x = y
Everywhere(lru) == \A a \in Way : \E x \in Way : lru[x] = a
AgesArePermutation == Typed /\ Distinct(s.lru) /\ Everywhere(s.lru)

-----------------------------------------------------------------------------
(* lru_update permutes the ages: the ways that age leave no gap and meet   *)
(* no other way.                                                           *)
LEMMA UpdatedPermutes ==
  ASSUME NUM_WAY \in Nat \ {0}, NEW lru \in [Way -> Way], NEW w \in Way,
         Distinct(lru), Everywhere(lru)
  PROVE  /\ Updated(lru, w) \in [Way -> Way]
         /\ Distinct(Updated(lru, w))
         /\ Everywhere(Updated(lru, w))
<1> DEFINE new == Updated(lru, w)
<1>0. \A x \in Way : new[x] = IF x = w THEN 0 ELSE IF lru[x] < lru[w] THEN lru[x] + 1 ELSE lru[x]
  BY DEF Updated
<1> HIDE DEF new
<1>1. \A x \in Way : new[x] \in Way
  <2> TAKE x \in Way
  <2>1. CASE x = w
    BY SMTT(60), <1>0, <2>1 DEF Way
  <2>2. CASE x # w /\ lru[x] < lru[w]
    <3>1. new[x] = lru[x] + 1
      BY <1>0, <2>2
    <3>2. lru[x] \in 0 .. NUM_WAY - 1 /\ lru[w] \in 0 .. NUM_WAY - 1
      BY DEF Way
    <3>3. lru[x] + 1 \in 0 .. NUM_WAY - 1
      BY <2>2, <3>2
    <3> QED BY <3>1, <3>3 DEF Way
  <2>3. CASE x # w /\ ~(lru[x] < lru[w])
    BY <1>0, <2>3
  <2> QED BY <2>1, <2>2, <2>3
<1>2. new \in [Way -> Way]
  BY <1>1 DEF new, Updated
<1>3. Distinct(new)
  <2> SUFFICES ASSUME NEW x \in Way, NEW y \in Way, new[x] = new[y]
               PROVE  x = y
    BY DEF Distinct
  <2>1. lru[x] \in 0 .. NUM_WAY - 1 /\ lru[y] \in 0 .. NUM_WAY - 1 /\ lru[w] \in 0 .. NUM_WAY - 1
    BY DEF Way
  <2>2. /\ lru[x] = lru[y] => x = y
        /\ lru[x] = lru[w] => x = w
        /\ lru[y] = lru[w] => y = w
    BY DEF Distinct
  <2>3. CASE x = w
    BY <1>0, <2>1, <2>2, <2>3
  <2>4. CASE y = w
    BY <1>0, <2>1, <2>2, <2>4
  <2>5. CASE x # w /\ y # w
    BY <1>0, <2>1, <2>2, <2>5
  <2> QED BY <2>3, <2>4, <2>5
<1>4. Everywhere(new)
  <2> SUFFICES ASSUME NEW a \in Way
               PROVE  \E x \in Way : new[x] = a
    BY DEF Everywhere
  <2>0. a \in 0 .. NUM_WAY - 1 /\ lru[w] \in 0 .. NUM_WAY - 1
    BY DEF Way
  <2>1. CASE a = 0
    BY <1>0, <2>1
  <2>2. CASE a # 0 /\ a <= lru[w]
    <3>1. a - 1 \in Way
      BY <2>0, <2>2 DEF Way
    <3>2. PICK x \in Way : lru[x] = a - 1
      BY <3>1 DEF Everywhere
    <3>3. x # w /\ lru[x] < lru[w]
      BY <2>0, <2>2, <3>2
    <3>4. new[x] = a
      BY <1>0, <2>0, <3>2, <3>3
    <3> QED BY <3>4
  <2>3. CASE a > lru[w]
    <3>1. PICK x \in Way : lru[x] = a
      BY DEF Everywhere
    <3>2. x # w /\ ~(lru[x] < lru[w])
      BY <2>0, <2>3, <3>1
    <3> QED BY <1>0, <3>1, <3>2
  <2> QED BY <2>0, <2>1, <2>2, <2>3
<1> QED BY <1>2, <1>3, <1>4 DEF new

(* A set of ways that is not empty has a first one.                        *)
LEMMA FirstWay ==
  ASSUME NUM_WAY \in Nat \ {0}, NEW T \in SUBSET Way, T # {}
  PROVE  \E w \in T : \A x \in 0 .. w - 1 : x \in Way /\ x \notin T
<1>1. T \subseteq Nat
  BY DEF Way
<1>2. PICK w \in T : \A x \in T : <<x, w>> \notin OpToRel(<, Nat)
  BY <1>1, NatLessThanWellFounded, WFMin, Zenon
<1>3. \A x \in T : ~(x < w)
  BY <1>1, <1>2, Zenon DEF OpToRel
<1>4. w \in 0 .. NUM_WAY - 1
  BY DEF Way
<1>5. ASSUME NEW x \in 0 .. w - 1
      PROVE  x \in Way /\ x \notin T
  <2>1. x \in Int /\ 0 <= x /\ x < w
    BY <1>4, <1>5
  <2> QED BY <1>3, <1>4, <2>1 DEF Way
<1> QED BY <1>5

(* Every action keeps the ages a permutation.                              *)
LEMMA PermutationStep ==
  ASSUME NUM_WAY \in Nat \ {0}, AgesArePermutation, [Next]_s
  PROVE  AgesArePermutation'
<1> USE DEF AgesArePermutation, Typed
<1>1. ASSUME NEW w \in Way, Fill(w)
      PROVE  AgesArePermutation'
  <2>1. s' = [s EXCEPT !.valid[w] = TRUE, !.lru = Updated(s.lru, w),
                       !.newer = Touched(s.newer, w)]
    BY <1>1 DEF Fill
  <2>2. Touched(s.newer, w) \subseteq Way \X Way
    BY DEF Touched
  <2>3. Updated(s.lru, w) \in [Way -> Way]
    BY UpdatedPermutes
  <2>4. Typed' /\ s'.lru = Updated(s.lru, w)
    BY <2>1, <2>2, <2>3
  <2> QED BY <2>4, UpdatedPermutes
<1>2. ASSUME NEW w \in Way, Hit(w)
      PROVE  AgesArePermutation'
  <2>1. s' = [s EXCEPT !.lru = Updated(s.lru, w), !.newer = Touched(s.newer, w)]
    BY <1>2 DEF Hit
  <2>2. Touched(s.newer, w) \subseteq Way \X Way
    BY DEF Touched
  <2>3. Updated(s.lru, w) \in [Way -> Way]
    BY UpdatedPermutes
  <2>4. Typed' /\ s'.lru = Updated(s.lru, w)
    BY <2>1, <2>2, <2>3
  <2> QED BY <2>4, UpdatedPermutes
<1>3. ASSUME NEW w \in Way, WritebackHit(w)
      PROVE  AgesArePermutation'
  BY <1>3 DEF WritebackHit
<1>4. ASSUME NEW w \in Way, invalidate_entry(w)
      PROVE  AgesArePermutation'
  <2>1. s' = [s EXCEPT !.valid[w] = FALSE]
    BY <1>4 DEF invalidate_entry
  <2> QED BY <2>1
<1>5. CASE UNCHANGED s
  BY <1>5
<1> QED BY <1>1, <1>2, <1>3, <1>4, <1>5 DEF Next

(* In every reachable state each age belongs to exactly one way.           *)
THEOREM AgesPermute ==
  ASSUME NUM_WAY \in Nat \ {0}
  PROVE  Spec => []AgesArePermutation
<1>1. Init => AgesArePermutation
  BY DEF Init, AgesArePermutation, Typed, Distinct, Everywhere, Way
<1> QED BY <1>1, PermutationStep, PTL DEF Spec

(* The ages order the ways by their last use, so that the way of age       *)
(* NUM_WAY - 1 is the one that was not touched for longest.                *)
THEOREM AgesOrderUse ==
  ASSUME NUM_WAY \in Nat \ {0}
  PROVE  Spec => []AgesAreRecency
<1>1. Init => AgesAreRecency
  BY DEF Init, AgesAreRecency
<1>2. ASSUME AgesArePermutation, AgesAreRecency, NEW w \in Way,
             s'.lru = Updated(s.lru, w), s'.newer = Touched(s.newer, w)
      PROVE  AgesAreRecency'
  <2> SUFFICES ASSUME NEW x \in Way, NEW y \in Way
               PROVE  <<x, y>> \in s'.newer <=> s'.lru[x] < s'.lru[y]
    BY DEF AgesAreRecency
  <2>1. <<x, y>> \in s'.newer <=> (x = w /\ y # w) \/ (<<x, y>> \in s.newer /\ y # w)
    BY <1>2 DEF Touched
  <2>2. <<x, y>> \in s.newer <=> s.lru[x] < s.lru[y]
    BY <1>2 DEF AgesAreRecency
  <2>3. /\ s.lru[x] \in 0 .. NUM_WAY - 1
        /\ s.lru[y] \in 0 .. NUM_WAY - 1
        /\ s.lru[w] \in 0 .. NUM_WAY - 1
    BY <1>2 DEF AgesArePermutation, Typed, Way
  <2>4. /\ s.lru[x] = s.lru[w] => x = w
        /\ s.lru[y] = s.lru[w] => y = w
    BY <1>2 DEF AgesArePermutation, Distinct
  <2>5. /\ s'.lru[x] = IF x = w THEN 0 ELSE IF s.lru[x] < s.lru[w] THEN s.lru[x] + 1 ELSE s.lru[x]
        /\ s'.lru[y] = IF y = w THEN 0 ELSE IF s.lru[y] < s.lru[w] THEN s.lru[y] + 1 ELSE s.lru[y]
    BY <1>2 DEF Updated
  <2>6. CASE x = w
    BY <2>1, <2>3, <2>4, <2>5, <2>6
  <2>7. CASE x # w /\ y = w
    BY <2>1, <2>3, <2>5, <2>7
  <2>8. CASE x # w /\ y # w
    <3>1. <<x, y>> \in s'.newer <=> s.lru[x] < s.lru[y]
      BY <2>1, <2>2, <2>8
    <3>2. s.lru[x] # s.lru[w] /\ s.lru[y] # s.lru[w]
      BY <2>4, <2>8
    <3> QED BY <2>3, <2>5, <2>8, <3>1, <3>2
  <2> QED BY <2>6, <2>7, <2>8
<1>3. AgesArePermutation /\ AgesAreRecency /\ [Next]_s => AgesAreRecency'
  <2> SUFFICES ASSUME AgesArePermutation, AgesAreRecency, [Next]_s
               PROVE  AgesAreRecency'
    OBVIOUS
  <2>1. ASSUME NEW w \in Way, Fill(w) \/ Hit(w)
        PROVE  AgesAreRecency'
    <3>1. s'.lru = Updated(s.lru, w) /\ s'.newer = Touched(s.newer, w)
      BY <2>1 DEF Fill, Hit, AgesArePermutation, Typed
    <3> QED BY <1>2, <3>1
  <2>2. ASSUME NEW w \in Way, WritebackHit(w) \/ invalidate_entry(w)
        PROVE  AgesAreRecency'
    <3>1. s'.lru = s.lru /\ s'.newer = s.newer
      BY <2>2 DEF WritebackHit, invalidate_entry, AgesArePermutation, Typed
    <3> QED BY <3>1 DEF AgesAreRecency
  <2>3. CASE UNCHANGED s
    BY <2>3 DEF AgesAreRecency
  <2> QED BY <2>1, <2>2, <2>3 DEF Next
<1> QED BY <1>1, <1>3, AgesPermute, PTL DEF Spec

(* lru_victim never stops the program: with an invalid way it takes the    *)
(* first one, else the one whose age is NUM_WAY - 1.                       *)
THEOREM VictimAlwaysFound ==
  ASSUME NUM_WAY \in Nat \ {0}
  PROVE  Spec => []VictimFound
<1>1. ASSUME AgesArePermutation
      PROVE  VictimFound
  <2> USE <1>1 DEF AgesArePermutation
  <2>1. CASE \E x \in Way : ~s.valid[x]
    <3> DEFINE T == {x \in Way : ~s.valid[x]}
    <3>1. PICK w \in T : \A x \in 0 .. w - 1 : x \in Way /\ x \notin T
      BY <2>1, FirstWay
    <3>2. w \in Way /\ lru_victim(w)
      BY <2>1, <3>1 DEF lru_victim
    <3> QED BY <3>2 DEF VictimFound
  <2>2. CASE ~ \E x \in Way : ~s.valid[x]
    <3> DEFINE T == {x \in Way : s.lru[x] = NUM_WAY - 1}
    <3>1. NUM_WAY - 1 \in Way
      BY DEF Way
    <3>2. T # {}
      BY <3>1 DEF Everywhere
    <3>3. PICK w \in T : \A x \in 0 .. w - 1 : x \in Way /\ x \notin T
      BY <3>2, FirstWay
    <3>4. w \in Way /\ lru_victim(w)
      BY <2>2, <3>3 DEF lru_victim
    <3> QED BY <3>4 DEF VictimFound
  <2> QED BY <2>1, <2>2
<1> QED BY <1>1, AgesPermute, PTL

-----------------------------------------------------------------------------
(* The other policies of the LLC.  The counters have a range each, and a   *)
(* line that is there has a tag unlike those of a way without one.         *)
RangesAssumed ==
  /\ NUM_WAY \in Nat \ {0} /\ PSEL_MAX \in Nat /\ BIP_MAX \in Nat \ {0} /\ SHCT_MAX \in Nat
  /\ Rrip!Cold \notin Tag

(* The record of a set. *)
Entry == [valid : BOOLEAN, tag : Tag \cup {Rrip!Cold}, ip : Ip \cup {Rrip!Cold}, used : BOOLEAN]
Shaped(t) ==
  t \in [policy : {"srrip", "drrip", "ship"}, leader : Rrip!Leader,
         line : [Way -> Tag \cup {Rrip!Cold, Rrip!Gone}], rrpv : [Way -> 0 .. 3],
         psel : 0 .. PSEL_MAX, bip : 0 .. BIP_MAX - 1, sampler : [Way -> Entry],
         lru : [Way -> Way], shct : [Ip -> 0 .. SHCT_MAX]]

(* The sampler: ages that are a permutation, each tag once. *)
Sampled(t) ==
  /\ Distinct(t.lru) /\ Everywhere(t.lru)
  /\ \A w \in Way : t.sampler[w].valid => t.sampler[w].tag \in Tag /\ t.sampler[w].ip \in Ip
  /\ \A w, v \in Way : t.sampler[w].valid /\ t.sampler[v].valid
                         /\ t.sampler[w].tag = t.sampler[v].tag => w = v

(* Under SRRIP the ways never filled have the maximum, and while there are *)
(* any, no other way has.                                                  *)
ColdAreOldest(t) ==
  t.policy = "srrip" =>
    /\ \A w \in Way : t.line[w] = Rrip!Cold => t.rrpv[w] = 3
    /\ (\E w \in Way : t.line[w] = Rrip!Cold) => \A w \in Way : t.line[w] # Rrip!Cold => t.rrpv[w] < 3
RripInvariant == Shaped(s) /\ Sampled(s) /\ ColdAreOldest(s)

(* A set of ways that is not empty has a first. *)
LEMMA FirstOfWays ==
  ASSUME NUM_WAY \in Nat \ {0}, NEW T \in SUBSET Way, T # {}
  PROVE  Rrip!First(T) \in T
<1>1. PICK w \in T : \A x \in 0 .. w - 1 : x \in Way /\ x \notin T
  BY FirstWay
<1>2. \A v \in T : w <= v
  <2> SUFFICES ASSUME NEW v \in T, v < w  PROVE FALSE
    BY DEF Way
  <2>1. v \in 0 .. w - 1
    BY DEF Way
  <2> QED BY <1>1, <2>1
<1> QED BY <1>2 DEF Rrip!First

(* Ageing ends with some way at the maximum and none above it, and leaves  *)
(* a set alone that has such a way.                                        *)
LEMMA AgedSet ==
  ASSUME NUM_WAY \in Nat \ {0}, NEW r \in [Way -> 0 .. 3]
  PROVE  /\ Rrip!Aged(r) \in [Way -> 0 .. 3]
         /\ \E w \in Way : Rrip!Aged(r)[w] = 3
         /\ (\E w \in Way : r[w] = 3) => Rrip!Aged(r) = r
<1>0. 0 \in Way /\ Rrip!Way = Way /\ Rrip!maxRRPV = 3
  BY DEF Way, Rrip!Way, Rrip!maxRRPV
<1>1. PICK A : A = Rrip!Ages(r)
  OBVIOUS
<1>2. A = {k \in 0 .. 3 : \E w \in Way : r[w] + k = 3}
  BY <1>0, <1>1 DEF Rrip!Ages
<1>3. \A w \in Way : 3 - r[w] \in A
  BY <1>2
<1>4. \E k \in A : \A j \in A : k <= j
  <2>1. CASE 0 \in A
    BY <1>2, <2>1
  <2>2. CASE 0 \notin A /\ 1 \in A
    BY <1>2, <2>2
  <2>3. CASE 0 \notin A /\ 1 \notin A /\ 2 \in A
    BY <1>2, <2>3
  <2>4. CASE 0 \notin A /\ 1 \notin A /\ 2 \notin A
    BY <1>0, <1>2, <1>3, <2>4
  <2> QED BY <2>1, <2>2, <2>3, <2>4
<1>5. PICK k \in A : (\A j \in A : k <= j) /\ Rrip!Aged(r) = [w \in Way |-> r[w] + k]
  <2>1. PICK m : m = CHOOSE x \in A : \A j \in A : x <= j
    OBVIOUS
  <2>2. m \in A /\ \A j \in A : m <= j
    BY <1>4, <2>1
  <2>3. Rrip!Aged(r) = [w \in Way |-> r[w] + m]
    BY <1>0, <1>1, <2>1 DEF Rrip!Aged
  <2> QED BY <2>2, <2>3
<1>6. \A w \in Way : r[w] + k \in 0 .. 3
  BY <1>2, <1>3, <1>5
<1>7. \E w \in Way : r[w] + k = 3
  BY <1>2
<1>8. (\E w \in Way : r[w] = 3) => k = 0
  BY <1>2, <1>3, <1>5
<1> QED BY <1>5, <1>6, <1>7, <1>8

(* The victim is the first way at the maximum. *)
LEMMA VictimIsOldest ==
  ASSUME NUM_WAY \in Nat \ {0}, NEW r \in [Way -> 0 .. 3], \E w \in Way : r[w] = 3
  PROVE  Rrip!Victim(r) \in Way /\ r[Rrip!Victim(r)] = 3
<1>1. PICK T : T = {w \in Way : r[w] = 3}
  OBVIOUS
<1>2. PICK w \in T : \A x \in 0 .. w - 1 : x \in Way /\ x \notin T
  BY <1>1, FirstWay
<1>3. \A v \in Way : r[v] = 3 => w <= v
  <2> SUFFICES ASSUME NEW v \in Way, r[v] = 3, v < w  PROVE FALSE
    BY <1>1 DEF Way
  <2>1. v \in 0 .. w - 1
    BY <1>1 DEF Way
  <2> QED BY <1>1, <1>2, <2>1
<1>4. Rrip!Victim(r) = CHOOSE x \in Way : r[x] = 3 /\ \A v \in Way : r[v] = 3 => x <= v
  BY DEF Rrip!Victim, Rrip!Way, Rrip!maxRRPV, Way
<1> QED BY <1>1, <1>3, <1>4

(* The ages of the sampler move as those of lru_update do. *)
LEMMA SamplerAges ==
  ASSUME NEW lru, NEW w
  PROVE  Rrip!LruMoved(lru, w) = Updated(lru, w)
BY DEF Rrip!LruMoved, Updated, Rrip!Way, Way

(* Nothing but the sampler changes. *)
SamplerIs(u, t, f, m, c) == u = [t EXCEPT !.sampler = f, !.lru = m, !.shct = c]
LEMMA SamplerChanged ==
  ASSUME NEW t, Shaped(t), NEW f \in [Way -> Entry], NEW m \in [Way -> Way], NEW c \in [Ip -> 0 .. SHCT_MAX],
         NEW u, SamplerIs(u, t, f, m, c)
  PROVE  /\ Shaped(u) /\ u.sampler = f /\ u.lru = m /\ u.shct = c
         /\ u.line = t.line /\ u.rrpv = t.rrpv /\ u.policy = t.policy
<1>1. /\ u.sampler = f /\ u.lru = m /\ u.shct = c /\ u.leader = t.leader /\ u.psel = t.psel /\ u.bip = t.bip
      /\ u.line = t.line /\ u.rrpv = t.rrpv /\ u.policy = t.policy
  BY DEF Shaped, SamplerIs
<1>2. u = [policy |-> u.policy, leader |-> u.leader, line |-> u.line, rrpv |-> u.rrpv, psel |-> u.psel,
           bip |-> u.bip, sampler |-> u.sampler, lru |-> u.lru, shct |-> u.shct]
  BY DEF Shaped, SamplerIs
<1>3. Shaped(u)
  BY <1>1, <1>2 DEF Shaped
<1> QED BY <1>1, <1>3

(* A sampled tag that is used again, and one that takes way w. *)
LEMMA SamplerPutKeeps ==
  ASSUME RangesAssumed, NEW t, Shaped(t), Sampled(t), NEW w \in Way, NEW tag \in Tag, NEW ip \in Ip,
         Rrip!Matches(t, tag) = {}
  PROVE  LET u == Rrip!SamplerPut(t, w, tag, ip) IN
         /\ Shaped(u) /\ Sampled(u)
         /\ u.line = t.line /\ u.rrpv = t.rrpv /\ u.policy = t.policy
<1>1. PICK m, e, u : m = Updated(t.lru, w) /\ u = Rrip!SamplerPut(t, w, tag, ip)
                     /\ e = [valid |-> TRUE, tag |-> tag, ip |-> ip, used |-> FALSE]
  OBVIOUS
<1>2. u = [t EXCEPT !.sampler[w] = e, !.lru = m]
  BY <1>1, SamplerAges DEF Rrip!SamplerPut
<1>3. m \in [Way -> Way] /\ Distinct(m) /\ Everywhere(m)
  BY <1>1, UpdatedPermutes DEF RangesAssumed, Shaped, Sampled
<1>4. e \in Entry
  BY <1>1 DEF Entry
<1>5. /\ Shaped(u) /\ u.lru = m /\ u.line = t.line /\ u.rrpv = t.rrpv /\ u.policy = t.policy
      /\ u.sampler = [t.sampler EXCEPT ![w] = e]
  BY <1>2, <1>3, <1>4 DEF Shaped
<1>6. \A v \in Way : ~(t.sampler[v].valid /\ t.sampler[v].tag = tag)
  BY DEF Rrip!Matches, Rrip!Way, Way
<1>7. u.sampler[w] = e /\ \A v \in Way : v # w => u.sampler[v] = t.sampler[v]
  BY <1>5 DEF Shaped
<1>8. Sampled(u)
  BY <1>1, <1>3, <1>5, <1>6, <1>7 DEF Sampled
<1> QED BY <1>1, <1>5, <1>8

LEMMA SamplerHitKeeps ==
  ASSUME RangesAssumed, NEW t, Shaped(t), Sampled(t), NEW tag \in Tag, Rrip!Matches(t, tag) # {}
  PROVE  LET u == Rrip!SamplerHit(t, tag) IN
         /\ Shaped(u) /\ Sampled(u)
         /\ u.line = t.line /\ u.rrpv = t.rrpv /\ u.policy = t.policy
<1>0. PICK w : w = Rrip!First(Rrip!Matches(t, tag))
  OBVIOUS
<1>1. w \in Way /\ t.sampler[w].valid /\ t.sampler[w].tag = tag
  <2>1. PICK T : T = Rrip!Matches(t, tag)
    OBVIOUS
  <2>2. T = {x \in Way : t.sampler[x].valid /\ t.sampler[x].tag = tag}
    BY <2>1 DEF Rrip!Matches, Rrip!Way, Way
  <2>3. w \in T
    BY <1>0, <2>1, <2>2, FirstOfWays DEF RangesAssumed
  <2> QED BY <2>2, <2>3
<1>2. PICK m, e, c, f, u :
        /\ m = Updated(t.lru, w) /\ e = [t.sampler[w] EXCEPT !.used = TRUE]
        /\ c = [t.shct EXCEPT ![t.sampler[w].ip] = IF @ > 0 THEN @ - 1 ELSE @]
        /\ f = [t.sampler EXCEPT ![w] = e]
        /\ u = Rrip!SamplerHit(t, tag)
  OBVIOUS
<1>3. SamplerIs(u, t, f, m, c)
  BY <1>0, <1>2, SamplerAges DEF Rrip!SamplerHit, Shaped, SamplerIs
<1>4. m \in [Way -> Way] /\ Distinct(m) /\ Everywhere(m)
  BY <1>1, <1>2, UpdatedPermutes DEF RangesAssumed, Shaped, Sampled
<1>5. e \in Entry /\ e.valid = t.sampler[w].valid /\ e.tag = t.sampler[w].tag /\ e.ip = t.sampler[w].ip
  BY ZenonT(60), <1>1, <1>2 DEF Entry, Shaped
<1>6. c \in [Ip -> 0 .. SHCT_MAX]
  <2>1. PICK i, n : i = t.sampler[w].ip /\ n = t.shct[i]
    OBVIOUS
  <2>2. i \in Ip /\ n \in 0 .. SHCT_MAX /\ t.shct \in [Ip -> 0 .. SHCT_MAX]
    BY <1>1, <2>1 DEF Shaped, Sampled
  <2>3. (IF n > 0 THEN n - 1 ELSE n) \in 0 .. SHCT_MAX
    BY <2>2 DEF RangesAssumed
  <2>4. c = [t.shct EXCEPT ![i] = IF n > 0 THEN n - 1 ELSE n]
    BY <1>2, <2>1
  <2> QED BY <2>2, <2>3, <2>4
<1>7. t.sampler \in [Way -> Entry] /\ f = [t.sampler EXCEPT ![w] = e]
  BY <1>2 DEF Shaped
<1>8. Shaped(u) /\ u.lru = m /\ u.line = t.line /\ u.rrpv = t.rrpv /\ u.policy = t.policy /\ u.sampler = f
  <2>1. f \in [Way -> Entry]
    BY <1>1, <1>5, <1>7
  <2> QED BY <1>3, <1>4, <1>6, <2>1, SamplerChanged
<1>9. u.sampler[w] = e /\ \A v \in Way : v # w => u.sampler[v] = t.sampler[v]
  BY <1>1, <1>8, <1>7
<1>10. Sampled(u)
  BY <1>4, <1>5, <1>8, <1>9 DEF Sampled
<1> QED BY <1>2, <1>8, <1>10

(* The ip that is blamed for a sampled line nobody used. *)
LEMMA BlamedKeeps ==
  ASSUME RangesAssumed, NEW t, Shaped(t), Sampled(t), NEW w \in Way, t.sampler[w].valid
  PROVE  LET u == Rrip!Blamed(t, t.sampler[w]) IN
         /\ Shaped(u) /\ Sampled(u) /\ u.sampler = t.sampler
         /\ u.line = t.line /\ u.rrpv = t.rrpv /\ u.policy = t.policy
<1>1. CASE t.sampler[w].used
  BY <1>1 DEF Rrip!Blamed
<1>2. CASE ~t.sampler[w].used
  <2>1. PICK c, u : c = [t.shct EXCEPT ![t.sampler[w].ip] = IF @ < SHCT_MAX THEN @ + 1 ELSE @]
                    /\ u = Rrip!Blamed(t, t.sampler[w])
    OBVIOUS
  <2>2. c \in [Ip -> 0 .. SHCT_MAX]
    BY <2>1 DEF Shaped, Sampled, RangesAssumed
  <2>3. u = [t EXCEPT !.shct = c]
    BY <1>2, <2>1 DEF Rrip!Blamed, Shaped
  <2>4. /\ Shaped(u) /\ u.sampler = t.sampler /\ u.lru = t.lru
        /\ u.line = t.line /\ u.rrpv = t.rrpv /\ u.policy = t.policy
    BY <2>2, <2>3 DEF Shaped
  <2> QED BY <2>1, <2>4 DEF Sampled
<1> QED BY <1>1, <1>2

(* update_sampler finds a way for each access. *)
LEMMA SamplerKeeps ==
  ASSUME RangesAssumed, NEW t, Shaped(t), Sampled(t), NEW tag \in Tag, NEW ip \in Ip
  PROVE  LET u == Rrip!update_sampler(t, tag, ip) IN
         /\ Shaped(u) /\ Sampled(u)
         /\ u.line = t.line /\ u.rrpv = t.rrpv /\ u.policy = t.policy
<1>1. CASE Rrip!Matches(t, tag) # {}
  BY <1>1, SamplerHitKeeps DEF Rrip!update_sampler
<1>2. CASE Rrip!Matches(t, tag) = {} /\ Rrip!Empty(t) # {}
  <2>1. PICK T : T = Rrip!Empty(t)
    OBVIOUS
  <2>2. T \in SUBSET Way
    BY <2>1 DEF Rrip!Empty, Rrip!Way, Way
  <2>3. Rrip!First(T) \in Way
    BY <1>2, <2>1, <2>2, FirstOfWays DEF RangesAssumed
  <2> QED BY <1>2, <2>1, <2>3, SamplerPutKeeps DEF Rrip!update_sampler
<1>3. CASE Rrip!Matches(t, tag) = {} /\ Rrip!Empty(t) = {}
  <2>1. PICK T, w : T = Rrip!Oldest(t) /\ w = Rrip!First(T)
    OBVIOUS
  <2>2. T = {x \in Way : t.lru[x] = NUM_WAY - 1}
    BY <2>1 DEF Rrip!Oldest, Rrip!Way, Way
  <2>3. NUM_WAY - 1 \in Way
    BY DEF RangesAssumed, Way
  <2>4. T # {}
    BY <2>2, <2>3 DEF Sampled, Everywhere
  <2>5. w \in Way
    BY <2>1, <2>2, <2>4, FirstOfWays DEF RangesAssumed
  <2>6. t.sampler[w].valid
    BY <1>3, <2>5 DEF Rrip!Empty, Rrip!Way, Way
  <2>7. PICK b : b = Rrip!Blamed(t, t.sampler[w])
    OBVIOUS
  <2>8. /\ Shaped(b) /\ Sampled(b) /\ b.sampler = t.sampler
        /\ b.line = t.line /\ b.rrpv = t.rrpv /\ b.policy = t.policy
    BY <2>5, <2>6, <2>7, BlamedKeeps
  <2>9. Rrip!Matches(b, tag) = {}
    BY <1>3, <2>8 DEF Rrip!Matches
  <2>10. Rrip!update_sampler(t, tag, ip) = Rrip!SamplerPut(b, w, tag, ip)
    BY <1>3, <2>1, <2>7 DEF Rrip!update_sampler
  <2> QED BY <2>5, <2>8, <2>9, <2>10, SamplerPutKeeps
<1> QED BY <1>1, <1>2, <1>3
-----------------------------------------------------------------------------
(* The update of a way's re-reference value, and of the duel. *)
AtIs(t, w, v, u) ==
  /\ Shaped(u) /\ Sampled(u)
  /\ u.line = t.line /\ u.rrpv = [t.rrpv EXCEPT ![w] = v] /\ u.policy = t.policy
LEMMA AtKeeps ==
  ASSUME NEW t, Shaped(t), Sampled(t), NEW w \in Way, NEW v \in 0 .. 3
  PROVE  AtIs(t, w, v, Rrip!At(t, w, v))
<1>1. PICK u, r : u = Rrip!At(t, w, v) /\ r = [t.rrpv EXCEPT ![w] = v]
  OBVIOUS
<1>2. r \in [Way -> 0 .. 3]
  BY <1>1 DEF Shaped
<1>3. u = [t EXCEPT !.rrpv = r]
  BY <1>1 DEF Rrip!At, Shaped
<1>4. Shaped(u) /\ u.lru = t.lru /\ u.sampler = t.sampler
      /\ u.line = t.line /\ u.rrpv = r /\ u.policy = t.policy
  BY <1>2, <1>3 DEF Shaped
<1> QED BY <1>1, <1>4 DEF Sampled, AtIs

LEMMA DuelKeeps ==
  ASSUME RangesAssumed, NEW t, Shaped(t), Sampled(t), NEW l \in Rrip!Leader
  PROVE  LET u == Rrip!Dueled(t, l) IN
         /\ Shaped(u) /\ Sampled(u)
         /\ u.line = t.line /\ u.rrpv = t.rrpv /\ u.policy = t.policy
<1>1. PICK p, b, u :
        /\ p = CASE l = "BIP" /\ t.psel > 0          -> t.psel - 1
                  [] l = "SRRIP" /\ t.psel < PSEL_MAX -> t.psel + 1
                  [] OTHER                            -> t.psel
        /\ b = IF Rrip!Follows(t, l) = "BIP" THEN Rrip!NextBip(t) ELSE t.bip
        /\ u = Rrip!Dueled(t, l)
  OBVIOUS
<1>2. t.psel \in 0 .. PSEL_MAX /\ t.bip \in 0 .. BIP_MAX - 1
  BY DEF Shaped
<1>3. p \in 0 .. PSEL_MAX
  <2>1. CASE l = "BIP" /\ t.psel > 0
    BY <1>1, <1>2, <2>1 DEF RangesAssumed
  <2>2. CASE l = "SRRIP" /\ t.psel < PSEL_MAX
    BY <1>1, <1>2, <2>2 DEF RangesAssumed
  <2>3. CASE ~(l = "BIP" /\ t.psel > 0) /\ ~(l = "SRRIP" /\ t.psel < PSEL_MAX)
    BY <1>1, <1>2, <2>3
  <2> QED BY <2>1, <2>2, <2>3
<1>4. b \in 0 .. BIP_MAX - 1
  <2>1. (t.bip + 1) % BIP_MAX \in 0 .. BIP_MAX - 1
    BY <1>2 DEF RangesAssumed
  <2> QED BY <1>1, <1>2, <2>1 DEF Rrip!NextBip
<1>5. u = [t EXCEPT !.psel = p, !.bip = b]
  BY <1>1 DEF Rrip!Dueled, Shaped
<1>6. /\ Shaped(u) /\ u.lru = t.lru /\ u.sampler = t.sampler
      /\ u.line = t.line /\ u.rrpv = t.rrpv /\ u.policy = t.policy
  BY <1>3, <1>4, <1>5 DEF Shaped
<1> QED BY <1>1, <1>6 DEF Sampled

(* llc_update_replacement_state keeps the record in shape whatever the     *)
(* policy, and under SRRIP sets the way to 0 or one below the maximum.     *)
Updates(t, w, hit, u) ==
  /\ Shaped(u) /\ Sampled(u) /\ u.line = t.line /\ u.policy = t.policy
  /\ t.policy = "srrip" => u.rrpv = [t.rrpv EXCEPT ![w] = IF hit THEN 0 ELSE 2]
LEMMA UpdateKeeps ==
  ASSUME RangesAssumed, NEW t, Shaped(t), Sampled(t), NEW w \in Way, NEW tag \in Tag,
         NEW type \in Rrip!Type, NEW ip \in Ip, NEW hit \in BOOLEAN
  PROVE  Updates(t, w, hit, Rrip!llc_update_replacement_state(t, w, tag, type, ip, hit))
<1>0. Rrip!maxRRPV = 3 /\ type \in {"LOAD", "WRITEBACK"} /\ 0 \in 0 .. 3 /\ 2 \in 0 .. 3 /\ 3 \in 0 .. 3 /\ 3 - 1 = 2
  BY DEF Rrip!maxRRPV, Rrip!Type
<1>1. CASE t.policy = "srrip"
  <2>1. Rrip!llc_update_replacement_state(t, w, tag, type, ip, hit) = Rrip!At(t, w, IF hit THEN 0 ELSE 2)
    BY <1>0, <1>1 DEF Rrip!llc_update_replacement_state, Rrip!srrip_update
  <2>2. (IF hit THEN 0 ELSE 2) \in 0 .. 3
    OBVIOUS
  <2>3. AtIs(t, w, IF hit THEN 0 ELSE 2, Rrip!At(t, w, IF hit THEN 0 ELSE 2))
    BY <2>2, AtKeeps
  <2> QED BY <2>1, <2>3 DEF Updates, AtIs
<1>2. CASE t.policy = "drrip"
  <2>1. PICK u : u = Rrip!drrip_update(t, w, type, hit)
    OBVIOUS
  <2>2. CASE type = "WRITEBACK" \/ hit
    <3>1. u = Rrip!At(t, w, 2) \/ u = Rrip!At(t, w, 0)
      BY <1>0, <2>1, <2>2 DEF Rrip!drrip_update
    <3>2. AtIs(t, w, 2, Rrip!At(t, w, 2)) /\ AtIs(t, w, 0, Rrip!At(t, w, 0))
      BY <1>0, AtKeeps
    <3> QED BY <1>2, <2>1, <3>1, <3>2 DEF Updates, AtIs, Rrip!llc_update_replacement_state
  <2>3. CASE type # "WRITEBACK" /\ ~hit
    <3>1. PICK v, a : v = Rrip!drrip_fill(t) /\ a = Rrip!At(t, w, v)
      OBVIOUS
    <3>2. v \in 0 .. 3
      BY <1>0, <3>1 DEF Rrip!drrip_fill
    <3>3. Shaped(a) /\ Sampled(a) /\ a.line = t.line /\ a.policy = t.policy
      BY ZenonT(60), <3>1, <3>2, AtKeeps DEF AtIs
    <3>4. u = Rrip!Dueled(a, t.leader) /\ t.leader \in Rrip!Leader
      BY <2>1, <2>3, <3>1 DEF Rrip!drrip_update, Shaped
    <3>5. Shaped(u) /\ Sampled(u) /\ u.line = t.line /\ u.policy = t.policy
      BY <3>3, <3>4, DuelKeeps
    <3> QED BY <1>2, <2>1, <3>5 DEF Updates, Rrip!llc_update_replacement_state
  <2> QED BY <2>2, <2>3
<1>3. CASE t.policy = "ship"
  <2>1. PICK r, u : r = Rrip!ship_update(t, w, tag, type, ip, hit) /\ u = Rrip!update_sampler(t, tag, ip)
    OBVIOUS
  <2>2. Shaped(u) /\ Sampled(u) /\ u.line = t.line /\ u.policy = t.policy
    BY <2>1, SamplerKeeps
  <2>3. r = t \/ r = Rrip!At(t, w, 2) \/ r = Rrip!At(u, w, 0) \/ r = Rrip!At(u, w, 2) \/ r = Rrip!At(u, w, 3)
    BY <1>0, <2>1 DEF Rrip!ship_update
  <2>4. /\ AtIs(t, w, 2, Rrip!At(t, w, 2)) /\ AtIs(u, w, 0, Rrip!At(u, w, 0))
        /\ AtIs(u, w, 2, Rrip!At(u, w, 2)) /\ AtIs(u, w, 3, Rrip!At(u, w, 3))
    BY <1>0, <2>2, AtKeeps
  <2>5. Shaped(r) /\ Sampled(r) /\ r.line = t.line /\ r.policy = t.policy
    BY <2>2, <2>3, <2>4 DEF AtIs
  <2> QED BY <1>3, <2>1, <2>5 DEF Updates, Rrip!llc_update_replacement_state
<1> QED BY <1>1, <1>2, <1>3 DEF Shaped
-----------------------------------------------------------------------------
(* The set aged for a fill. *)
AgedIs(t, a) == a = [t EXCEPT !.rrpv = Rrip!Aged(t.rrpv)]
LEMMA AgedKeeps ==
  ASSUME RangesAssumed, NEW t, Shaped(t), Sampled(t), ColdAreOldest(t), NEW a, AgedIs(t, a)
  PROVE  /\ Shaped(a) /\ Sampled(a) /\ ColdAreOldest(a)
         /\ a.line = t.line /\ a.policy = t.policy /\ a.rrpv = Rrip!Aged(t.rrpv)
<1>1. PICK r : r = Rrip!Aged(t.rrpv)
  OBVIOUS
<1>2. r \in [Way -> 0 .. 3] /\ ((\E w \in Way : t.rrpv[w] = 3) => r = t.rrpv)
  BY <1>1, AgedSet DEF Shaped, RangesAssumed
<1>3. a = [t EXCEPT !.rrpv = r]
  BY <1>1 DEF AgedIs
<1>4. /\ Shaped(a) /\ a.lru = t.lru /\ a.sampler = t.sampler
      /\ a.line = t.line /\ a.policy = t.policy /\ a.rrpv = r
  BY <1>2, <1>3 DEF Shaped
<1>5. ColdAreOldest(a)
  <2>1. CASE t.policy = "srrip" /\ \E w \in Way : t.line[w] = Rrip!Cold
    <3>1. r = t.rrpv
      BY <1>2, <2>1 DEF ColdAreOldest
    <3> QED BY <1>4, <3>1 DEF ColdAreOldest
  <2>2. CASE ~(t.policy = "srrip" /\ \E w \in Way : t.line[w] = Rrip!Cold)
    BY <1>4, <2>2 DEF ColdAreOldest
  <2> QED BY <2>1, <2>2
<1> QED BY <1>1, <1>4, <1>5 DEF Sampled

(* Another line in a way. *)
LineIs(t, w, x, u) == u = [t EXCEPT !.line[w] = x]
LEMMA LineKeeps ==
  ASSUME NEW t, Shaped(t), Sampled(t), NEW w \in Way, NEW x \in Tag \cup {Rrip!Cold, Rrip!Gone},
         NEW u, LineIs(t, w, x, u)
  PROVE  /\ Shaped(u) /\ Sampled(u)
         /\ u.line = [t.line EXCEPT ![w] = x] /\ u.rrpv = t.rrpv /\ u.policy = t.policy
<1>1. PICK n : n = [t.line EXCEPT ![w] = x]
  OBVIOUS
<1>2. n \in [Way -> Tag \cup {Rrip!Cold, Rrip!Gone}]
  BY <1>1 DEF Shaped
<1>3. u = [t EXCEPT !.line = n]
  BY <1>1 DEF LineIs, Shaped
<1>4. Shaped(u) /\ u.lru = t.lru /\ u.sampler = t.sampler /\ u.line = n /\ u.rrpv = t.rrpv /\ u.policy = t.policy
  BY <1>2, <1>3 DEF Shaped
<1> QED BY <1>1, <1>4 DEF Sampled

LEMMA FillKeeps ==
  ASSUME RangesAssumed, RripInvariant, NEW tag \in Tag, NEW type \in Rrip!Type, NEW ip \in Ip,
         Rrip!Fill(tag, type, ip)
  PROVE  RripInvariant'
<1>1. PICK a, w, b : AgedIs(s, a) /\ w = Rrip!Victim(a.rrpv) /\ b = [a EXCEPT !.line[w] = tag]
  BY DEF AgedIs
<1>2. s' = Rrip!llc_update_replacement_state(b, w, tag, type, ip, FALSE)
  BY <1>1 DEF Rrip!Fill, AgedIs, RripInvariant, Shaped
<1>3. /\ Shaped(a) /\ Sampled(a) /\ ColdAreOldest(a) /\ a.rrpv \in [Way -> 0 .. 3]
      /\ \E v \in Way : a.rrpv[v] = 3
  <2>1. /\ Shaped(a) /\ Sampled(a) /\ ColdAreOldest(a) /\ a.rrpv = Rrip!Aged(s.rrpv)
    BY <1>1, AgedKeeps DEF RripInvariant
  <2> QED BY <2>1, AgedSet DEF RripInvariant, Shaped, RangesAssumed
<1>4. w \in Way /\ a.rrpv[w] = 3
  BY <1>1, <1>3, VictimIsOldest DEF RangesAssumed
<1>5. LineIs(a, w, tag, b)
  BY <1>1 DEF LineIs
<1>6. Shaped(b) /\ Sampled(b) /\ b.line = [a.line EXCEPT ![w] = tag] /\ b.rrpv = a.rrpv /\ b.policy = a.policy
  BY <1>3, <1>4, <1>5, LineKeeps
<1>7. Updates(b, w, FALSE, s')
  BY <1>2, <1>4, <1>6, UpdateKeeps
<1>8. ColdAreOldest(s')
  <2> SUFFICES ASSUME a.policy = "srrip"
               PROVE  /\ \A v \in Way : s'.line[v] = Rrip!Cold => s'.rrpv[v] = 3
                      /\ (\E v \in Way : s'.line[v] = Rrip!Cold) =>
                           \A v \in Way : s'.line[v] # Rrip!Cold => s'.rrpv[v] < 3
    BY <1>6, <1>7 DEF ColdAreOldest, Updates
  <2>1. /\ \A v \in Way : s'.line[v] = IF v = w THEN tag ELSE a.line[v]
        /\ \A v \in Way : s'.rrpv[v] = IF v = w THEN 2 ELSE a.rrpv[v]
    BY <1>3, <1>4, <1>6, <1>7 DEF Updates, Shaped
  <2>2. tag # Rrip!Cold
    BY DEF RangesAssumed
  <2> QED BY <1>3, <2>1, <2>2 DEF ColdAreOldest
<1> QED BY <1>7, <1>8 DEF RripInvariant, Updates

LEMMA RripStep ==
  ASSUME RangesAssumed, RripInvariant, [Rrip!Next]_s
  PROVE  RripInvariant'
<1>0. Shaped(s) /\ Sampled(s) /\ ColdAreOldest(s) /\ Rrip!Way = Way
  BY DEF RripInvariant, Rrip!Way, Way
<1>1. ASSUME NEW w \in Way, NEW type \in Rrip!Type, NEW ip \in Ip, Rrip!Hit(w, type, ip)
      PROVE  RripInvariant'
  <2>1. s.line[w] \in Tag /\ s' = Rrip!llc_update_replacement_state(s, w, s.line[w], type, ip, TRUE)
    BY <1>1 DEF Rrip!Hit
  <2>2. Updates(s, w, TRUE, s')
    BY <1>0, <2>1, UpdateKeeps
  <2>3. ColdAreOldest(s')
    <3>1. s.policy = "srrip" => \A v \in Way : s'.rrpv[v] = IF v = w THEN 0 ELSE s.rrpv[v]
      BY <1>0, <2>2 DEF Updates, Shaped
    <3>2. s.line[w] # Rrip!Cold
      BY <2>1 DEF RangesAssumed
    <3> QED BY <1>0, <2>2, <3>1, <3>2 DEF ColdAreOldest, Updates
  <2> QED BY <2>2, <2>3 DEF RripInvariant, Updates
<1>2. ASSUME NEW w \in Way, Rrip!invalidate_entry(w)
      PROVE  RripInvariant'
  <2>1. s.line[w] \in Tag /\ LineIs(s, w, Rrip!Gone, s')
    BY <1>2 DEF Rrip!invalidate_entry, LineIs
  <2>2. /\ Shaped(s') /\ Sampled(s')
        /\ s'.line = [s.line EXCEPT ![w] = Rrip!Gone] /\ s'.rrpv = s.rrpv /\ s'.policy = s.policy
    BY <1>0, <2>1, LineKeeps
  <2>3. s.line[w] # Rrip!Cold /\ Rrip!Gone # Rrip!Cold
    BY <2>1 DEF RangesAssumed, Rrip!Gone, Rrip!Cold
  <2>4. \A v \in Way : s'.line[v] = Rrip!Cold <=> s.line[v] = Rrip!Cold
    BY <1>0, <2>2, <2>3 DEF Shaped
  <2> QED BY <1>0, <2>2, <2>4 DEF RripInvariant, ColdAreOldest
<1>3. CASE Rrip!FillStalls
  <2>1. AgedIs(s, s')
    BY <1>3 DEF Rrip!FillStalls, AgedIs, RripInvariant, Shaped
  <2> QED BY <1>0, <2>1, AgedKeeps DEF RripInvariant
<1>4. ASSUME NEW l \in Rrip!Leader, s' = Rrip!Dueled(s, l)
      PROVE  RripInvariant'
  BY <1>0, <1>4, DuelKeeps DEF RripInvariant, ColdAreOldest
<1>5. ASSUME NEW i \in Ip, NEW n \in 0 .. SHCT_MAX, s' = [s EXCEPT !.shct[i] = n]
      PROVE  RripInvariant'
  <2>1. PICK c : c = [s.shct EXCEPT ![i] = n]
    OBVIOUS
  <2>2. s' = [s EXCEPT !.shct = c] /\ c \in [Ip -> 0 .. SHCT_MAX]
    BY <1>0, <1>5, <2>1 DEF Shaped
  <2>3. /\ Shaped(s') /\ s'.lru = s.lru /\ s'.sampler = s.sampler
        /\ s'.line = s.line /\ s'.rrpv = s.rrpv /\ s'.policy = s.policy
    BY <1>0, <2>2 DEF Shaped
  <2> QED BY <1>0, <2>3 DEF RripInvariant, Sampled, ColdAreOldest
<1>6. CASE Rrip!MissElsewhere
  BY <1>4, <1>5, <1>6 DEF Rrip!MissElsewhere
<1>7. CASE UNCHANGED s
  BY <1>7 DEF RripInvariant
<1> QED BY <1>0, <1>1, <1>2, <1>3, <1>6, <1>7, FillKeeps DEF Rrip!Next

LEMMA RripStart ==
  ASSUME RangesAssumed, Rrip!Init
  PROVE  RripInvariant
<1>1. PICK p \in {"srrip", "drrip", "ship"}, l \in Rrip!Leader :
        s = [policy |-> p, leader |-> l, line |-> [w \in Way |-> Rrip!Cold],
             rrpv |-> [w \in Way |-> 3], psel |-> 0, bip |-> 0,
             sampler |-> [w \in Way |-> Rrip!Unsampled], lru |-> [w \in Way |-> w],
             shct |-> [i \in Ip |-> 0]]
  BY DEF Rrip!Init, Rrip!Way, Rrip!maxRRPV, Way
<1>2. Rrip!Unsampled \in Entry /\ ~Rrip!Unsampled.valid
  BY DEF Rrip!Unsampled, Entry
<1>3. Shaped(s)
  BY <1>1, <1>2 DEF Shaped, RangesAssumed
<1>4. Sampled(s)
  BY <1>1, <1>2 DEF Sampled, Distinct, Everywhere
<1> QED BY <1>1, <1>3, <1>4 DEF RripInvariant, ColdAreOldest

(* llc_find_victim of the three policies ends: no re-reference value ever  *)
(* passes the maximum; searching again finds the same way, and SRRIP fills *)
(* the empty ways first, which it does not look at.                        *)
THEOREM RripSearchEnds ==
  RangesAssumed => (Rrip!Spec => []Rrip!SearchEnds)
<1> SUFFICES ASSUME RangesAssumed  PROVE Rrip!Spec => []Rrip!SearchEnds
  OBVIOUS
<1>1. RripInvariant => Rrip!SearchEnds
  <2> SUFFICES ASSUME RripInvariant  PROVE Rrip!SearchEnds
    OBVIOUS
  <2>0. Shaped(s) /\ ColdAreOldest(s) /\ Rrip!Way = Way /\ Rrip!maxRRPV = 3 /\ s.rrpv \in [Way -> 0 .. 3]
    BY DEF RripInvariant, Rrip!Way, Way, Rrip!maxRRPV, Shaped
  <2>1. PICK r, v : r = Rrip!Aged(s.rrpv) /\ v = Rrip!Victim(r)
    OBVIOUS
  <2>2. /\ r \in [Way -> 0 .. 3] /\ (\E w \in Way : r[w] = 3)
        /\ (\E w \in Way : s.rrpv[w] = 3) => r = s.rrpv
    BY <2>0, <2>1, AgedSet DEF RangesAssumed
  <2>3. Rrip!Aged(r) = r
    BY <2>2, AgedSet DEF RangesAssumed
  <2>4. v \in Way /\ r[v] = 3
    BY <2>1, <2>2, VictimIsOldest DEF RangesAssumed
  <2>5. s.policy = "srrip" /\ (\E w \in Way : s.line[w] = Rrip!Cold) => s.line[v] = Rrip!Cold
    BY <2>0, <2>2, <2>4 DEF ColdAreOldest
  <2> QED BY <2>0, <2>1, <2>3, <2>5 DEF Rrip!SearchEnds
<1>2. Rrip!Init => RripInvariant
  BY RripStart
<1>3. RripInvariant /\ [Rrip!Next]_s => RripInvariant'
  BY RripStep
<1> QED BY <1>1, <1>2, <1>3, PTL DEF Rrip!Spec

(* SHiP's sampler finds a way for every miss, holds each tag once, and the *)
(* counters of the policies stay in their ranges.                          *)
THEOREM SamplerAlwaysFindsAWay ==
  RangesAssumed => (Rrip!Spec => []Rrip!SamplerFindsAWay)
<1> SUFFICES ASSUME RangesAssumed  PROVE Rrip!Spec => []Rrip!SamplerFindsAWay
  OBVIOUS
<1>1. RripInvariant => Rrip!SamplerFindsAWay
  <2>1. Rrip!Way = Way
    BY DEF Rrip!Way, Way
  <2> QED BY <2>1 DEF RripInvariant, Shaped, Sampled, Everywhere, Rrip!SamplerFindsAWay
<1>2. Rrip!Init => RripInvariant
  BY RripStart
<1>3. RripInvariant /\ [Rrip!Next]_s => RripInvariant'
  BY RripStep
<1> QED BY <1>1, <1>2, <1>3, PTL DEF Rrip!Spec

-----------------------------------------------------------------------------
(* A set of numbers that is not empty has a least one. *)
LEMMA LeastNumber ==
  ASSUME NEW T \in SUBSET Nat, T # {}
  PROVE  \E m \in T : \A x \in T : m <= x
<1>1. PICK m \in T : \A x \in T : <<x, m>> \notin OpToRel(<, Nat)
  BY NatLessThanWellFounded, WFMin, Zenon
<1>2. \A x \in T : ~(x < m)
  BY <1>1, Zenon DEF OpToRel
<1> QED BY <1>2

(* The DRAM cache: blocks are numbers, there is a set and a way. *)
BlocksAssumed == Block \subseteq Nat /\ Sets \in Nat \ {0} /\ Ways \in Nat \ {0}

LineType == [tag : Nat, valid : BOOLEAN, dirty : BOOLEAN, count : Nat]
Lines(c) == c.line \in [DramCache!SetIndex -> [DramCache!Way -> LineType]]
Fields(c) ==
  c = [line |-> c.line, victim |-> c.victim, tick |-> c.tick, reads |-> c.reads, writes |-> c.writes,
       read_hits |-> c.read_hits, write_hits |-> c.write_hits, hits |-> c.hits, misses |-> c.misses,
       capacity |-> c.capacity, conflict |-> c.conflict, to_next_mem |-> c.to_next_mem]
Numbers(c) ==
  /\ c.tick \in Nat /\ c.reads \in Nat /\ c.writes \in Nat /\ c.read_hits \in Nat /\ c.write_hits \in Nat
  /\ c.hits \in Nat /\ c.misses \in Nat /\ c.capacity \in Nat /\ c.conflict \in Nat /\ c.to_next_mem \in Nat

(* The lines of a set are taken from the first on, a block is in one of    *)
(* them and in its set.                                                    *)
InOrder(c) ==
  \A i \in DramCache!SetIndex, w, v \in DramCache!Way :
    c.line[i][w].valid => /\ v < w => c.line[i][v].valid
                          /\ v # w /\ c.line[i][v].valid => c.line[i][v].tag # c.line[i][w].tag
                          /\ DramCache!SetOf(c.line[i][w].tag) = i

(* The counters, and the lines that still have to be written back. *)
DirtyOf(c) == {l \in DramCache!SetIndex \X DramCache!Way : c.line[l[1]][l[2]].dirty}
Counted(c) ==
  /\ c.hits = c.read_hits + c.write_hits
  /\ c.hits + c.misses = c.tick /\ c.capacity + c.conflict = c.misses
  /\ c.read_hits <= c.reads /\ c.write_hits <= c.writes
Paid(c) == c.to_next_mem + Cardinality(DirtyOf(c)) <= c.writes
CacheInvariant(c) == Fields(c) /\ Lines(c) /\ Numbers(c) /\ InOrder(c) /\ Counted(c) /\ Paid(c)

(* One line of one set is another. *)
PutIs(c, i, w, new, d) == d.line = [c.line EXCEPT ![i] = [c.line[i] EXCEPT ![w] = new]]
LineOf(c, i, w, new, d) ==
  \A j \in DramCache!SetIndex, v \in DramCache!Way :
    d.line[j][v] = IF j = i /\ v = w THEN new ELSE c.line[j][v]
LEMMA PutLine ==
  ASSUME NEW c, NEW d, Lines(c), NEW i \in DramCache!SetIndex, NEW w \in DramCache!Way, NEW new \in LineType,
         PutIs(c, i, w, new, d)
  PROVE  Lines(d) /\ LineOf(c, i, w, new, d)
<1>1. PICK l, S, W : l = [c.line[i] EXCEPT ![w] = new] /\ S = DramCache!SetIndex /\ W = DramCache!Way
  OBVIOUS
<1>2. c.line \in [S -> [W -> LineType]] /\ d.line = [c.line EXCEPT ![i] = l] /\ i \in S /\ w \in W
  BY <1>1 DEF Lines, PutIs
<1>3. l \in [W -> LineType] /\ \A v \in W : l[v] = IF v = w THEN new ELSE c.line[i][v]
  BY <1>1, <1>2
<1>4. d.line \in [S -> [W -> LineType]] /\ \A j \in S : d.line[j] = IF j = i THEN l ELSE c.line[j]
  BY <1>2, <1>3
<1> QED BY <1>1, <1>3, <1>4 DEF Lines, LineOf

(* How many lines are modified then. *)
LEMMA PutDirty ==
  ASSUME BlocksAssumed,
         NEW c, NEW d, Lines(c), NEW i \in DramCache!SetIndex, NEW w \in DramCache!Way, NEW new \in LineType,
         PutIs(c, i, w, new, d)
  PROVE  /\ Cardinality(DirtyOf(c)) \in Nat /\ Cardinality(DirtyOf(d)) \in Nat
         /\ Cardinality(DirtyOf(d)) <= Cardinality(DirtyOf(c)) + (IF new.dirty THEN 1 ELSE 0)
         /\ c.line[i][w].dirty =>
              Cardinality(DirtyOf(d)) <= Cardinality(DirtyOf(c)) - 1 + (IF new.dirty THEN 1 ELSE 0)
         /\ c.line[i][w].dirty => Cardinality(DirtyOf(c)) > 0
<1>1. PICK A, B, x, U : A = DirtyOf(c) /\ B = DirtyOf(d) /\ x = <<i, w>>
                        /\ U = DramCache!SetIndex \X DramCache!Way
  OBVIOUS
<1>2. \A j \in DramCache!SetIndex, v \in DramCache!Way :
        d.line[j][v] = IF j = i /\ v = w THEN new ELSE c.line[j][v]
  <2>1. LineOf(c, i, w, new, d)
    BY PutLine
  <2> QED BY <2>1 DEF LineOf
<1>3. IsFiniteSet(U)
  <2>1. IsFiniteSet(DramCache!SetIndex) /\ IsFiniteSet(DramCache!Way)
    BY FS_Interval DEF DramCache!SetIndex, DramCache!Way, BlocksAssumed
  <2> QED BY <1>1, <2>1, FS_Product
<1>4. A \subseteq U /\ B \subseteq U /\ x \in U /\ (x \in A <=> c.line[i][w].dirty)
  BY <1>1 DEF DirtyOf
<1>5. \A y \in U : y # x => (y \in B <=> y \in A)
  <2> SUFFICES ASSUME NEW j \in DramCache!SetIndex, NEW v \in DramCache!Way, <<j, v>> # x
               PROVE  <<j, v>> \in B <=> <<j, v>> \in A
    BY <1>1
  <2> QED BY <1>1, <1>2 DEF DirtyOf
<1>6. x \in B <=> new.dirty
  BY <1>1, <1>2, <1>4 DEF DirtyOf
<1>7. PICK Z : Z = A \ {x}
  OBVIOUS
<1>8. /\ IsFiniteSet(A) /\ IsFiniteSet(B) /\ IsFiniteSet(Z)
      /\ Cardinality(A) \in Nat /\ Cardinality(B) \in Nat /\ Cardinality(Z) \in Nat
  <2>1. Z \subseteq U
    BY <1>4, <1>7
  <2> QED BY <1>3, <1>4, <2>1, FS_Subset, FS_CardinalityType
<1>9. B = IF new.dirty THEN Z \cup {x} ELSE Z
  BY <1>4, <1>5, <1>6, <1>7
<1>10. Cardinality(B) = Cardinality(Z) + (IF new.dirty THEN 1 ELSE 0)
  <2>1. x \notin Z
    BY <1>7
  <2>2. Cardinality(Z \cup {x}) = Cardinality(Z) + 1
    BY <1>8, <2>1, FS_AddElement
  <2> QED BY <1>8, <1>9, <2>2
<1>11. Cardinality(Z) = IF x \in A THEN Cardinality(A) - 1 ELSE Cardinality(A)
  <2>1. CASE x \in A
    BY <1>7, <1>8, <2>1, FS_RemoveElement
  <2>2. CASE x \notin A
    <3>1. Z = A
      BY <1>7, <2>2
    <3> QED BY <2>2, <3>1
  <2> QED BY <2>1, <2>2
<1>12. PICK a, b, z : a = Cardinality(A) /\ b = Cardinality(B) /\ z = Cardinality(Z)
  OBVIOUS
<1>13. PICK n \in {0, 1} : n = IF new.dirty THEN 1 ELSE 0
  OBVIOUS
<1>14. a \in Nat /\ b \in Nat /\ z \in Nat /\ b = z + n /\ (z = IF x \in A THEN a - 1 ELSE a)
  BY <1>8, <1>10, <1>11, <1>12, <1>13
<1>15. b <= a + n /\ (x \in A => b <= a - 1 + n /\ a > 0)
  BY <1>13, <1>14
<1> QED BY <1>1, <1>4, <1>12, <1>13, <1>14, <1>15
-----------------------------------------------------------------------------
(* What an operation makes of the cache: what every one counts, what a hit *)
(* does, which changes the first line of the set, and a miss, which takes  *)
(* way w.                                                                  *)
One(p) == IF p THEN 1 ELSE 0
Bumped(c, op, r) ==
  /\ r.tick = c.tick + 1
  /\ r.reads = c.reads + One(op = "READ") /\ r.writes = c.writes + One(op = "WRITE")
HitIs(c, b, op, r) ==
  /\ Fields(r) /\ Bumped(c, op, r)
  /\ \E new \in LineType :
       /\ PutIs(c, DramCache!SetOf(b), 1, new, r)
       /\ new.valid /\ new.tag = c.line[DramCache!SetOf(b)][1].tag
       /\ new.dirty <=> op = "WRITE" \/ c.line[DramCache!SetOf(b)][1].dirty
  /\ r.hits = c.hits + 1 /\ r.read_hits = c.read_hits + One(op = "READ")
  /\ r.write_hits = c.write_hits + One(op = "WRITE")
  /\ r.misses = c.misses /\ r.capacity = c.capacity /\ r.conflict = c.conflict /\ r.to_next_mem = c.to_next_mem
  /\ r.victim = c.victim
MissIs(c, b, w, op, r) ==
  /\ Fields(r) /\ Bumped(c, op, r)
  /\ \E new \in LineType :
       /\ PutIs(c, DramCache!SetOf(b), w, new, r)
       /\ new.valid /\ new.tag = b /\ (new.dirty <=> op = "WRITE")
  /\ r.hits = c.hits /\ r.read_hits = c.read_hits /\ r.write_hits = c.write_hits
  /\ r.misses = c.misses + 1
  /\ r.capacity = c.capacity + One(~c.line[DramCache!SetOf(b)][w].valid)
  /\ r.conflict = c.conflict + One(c.line[DramCache!SetOf(b)][w].valid)
  /\ r.to_next_mem = c.to_next_mem + One(c.line[DramCache!SetOf(b)][w].valid /\ c.line[DramCache!SetOf(b)][w].dirty)
  /\ LET old == c.line[DramCache!SetOf(b)][w] IN r.victim = IF old.valid THEN old.tag ELSE NoTag

LEMMA SetsOfBlocks ==
  ASSUME BlocksAssumed, NEW b \in Nat
  PROVE  DramCache!SetOf(b) \in DramCache!SetIndex /\ 1 \in DramCache!Way
BY DEF BlocksAssumed, DramCache!SetOf, DramCache!SetIndex, DramCache!Way

(* In a cache in order, a hit finds the first line of the set in use. *)
LEMMA FirstLineUsed ==
  ASSUME BlocksAssumed, NEW c, Lines(c), InOrder(c), NEW b \in Block, DramCache!check_cache_hit(c, b)
  PROVE  c.line[DramCache!SetOf(b)][1].valid
<1>1. DramCache!SetOf(b) \in DramCache!SetIndex /\ 1 \in DramCache!Way
  BY SetsOfBlocks DEF BlocksAssumed
<1>2. PICK w \in DramCache!Way : c.line[DramCache!SetOf(b)][w].valid
  BY DEF DramCache!check_cache_hit
<1>3. w = 1 \/ 1 < w
  BY DEF DramCache!Way
<1> QED BY <1>1, <1>2, <1>3 DEF InOrder

(* What is counted before the look-up. *)
StartIs(c, op, d) ==
  d = [c EXCEPT !.tick = c.tick + 1,
                !.reads = IF op = "READ" THEN c.reads + 1 ELSE c.reads,
                !.writes = IF op = "WRITE" THEN c.writes + 1 ELSE c.writes]
Started(c, op, d) ==
  /\ Fields(d) /\ Bumped(c, op, d) /\ d.line = c.line /\ d.victim = c.victim
  /\ d.read_hits = c.read_hits /\ d.write_hits = c.write_hits /\ d.hits = c.hits /\ d.misses = c.misses
  /\ d.capacity = c.capacity /\ d.conflict = c.conflict /\ d.to_next_mem = c.to_next_mem
LEMMA OperationStarts ==
  ASSUME NEW c, Fields(c), Numbers(c), NEW op, NEW d, StartIs(c, op, d)
  PROVE  Started(c, op, d)
<1>1. PICK n, m : n = (IF op = "READ" THEN c.reads + 1 ELSE c.reads)
                  /\ m = (IF op = "WRITE" THEN c.writes + 1 ELSE c.writes)
  OBVIOUS
<1>2. n = c.reads + One(op = "READ") /\ m = c.writes + One(op = "WRITE")
  BY <1>1 DEF One, Numbers
<1>3. d = [c EXCEPT !.tick = c.tick + 1, !.reads = n, !.writes = m]
  BY <1>1 DEF StartIs
<1>4. /\ d.tick = c.tick + 1 /\ d.reads = n /\ d.writes = m /\ d.line = c.line /\ d.victim = c.victim
      /\ d.read_hits = c.read_hits /\ d.write_hits = c.write_hits /\ d.hits = c.hits /\ d.misses = c.misses
      /\ d.capacity = c.capacity /\ d.conflict = c.conflict /\ d.to_next_mem = c.to_next_mem
  BY <1>3 DEF Fields
<1>5. Fields(d)
  BY <1>3 DEF Fields
<1> QED BY <1>2, <1>4, <1>5 DEF Started, Bumped

LEMMA HitFields ==
  ASSUME BlocksAssumed, NEW c, CacheInvariant(c), NEW b \in Block, NEW op \in {"READ", "WRITE"},
         DramCache!check_cache_hit(c, b), NEW r \in DramCache!do_cache_op(c, b, op)
  PROVE  HitIs(c, b, op, r)
<1>0. Fields(c) /\ Lines(c) /\ Numbers(c) /\ InOrder(c)
  BY DEF CacheInvariant
<1>1. PICK d : d = [c EXCEPT !.tick = c.tick + 1,
                             !.reads = IF op = "READ" THEN c.reads + 1 ELSE c.reads,
                             !.writes = IF op = "WRITE" THEN c.writes + 1 ELSE c.writes]
  OBVIOUS
<1>2. /\ Fields(d) /\ Bumped(c, op, d) /\ d.line = c.line /\ d.victim = c.victim
      /\ d.read_hits = c.read_hits /\ d.write_hits = c.write_hits /\ d.hits = c.hits /\ d.misses = c.misses
      /\ d.capacity = c.capacity /\ d.conflict = c.conflict /\ d.to_next_mem = c.to_next_mem
  <2>1. StartIs(c, op, d)
    BY <1>1 DEF StartIs
  <2> QED BY <1>0, <2>1, OperationStarts DEF Started
<1>3. r = DramCache!Used(d, b, op)
  BY <1>0, <1>1 DEF DramCache!do_cache_op, Fields
<1>4. PICK i, l, e : i = DramCache!SetOf(b) /\ l = c.line[i][1] /\ e = [d EXCEPT !.hits = d.hits + 1]
  OBVIOUS
<1>5. i \in DramCache!SetIndex /\ 1 \in DramCache!Way /\ l \in LineType /\ l.valid
  BY <1>0, <1>4, SetsOfBlocks, FirstLineUsed DEF BlocksAssumed, Lines
<1>6. /\ Fields(e) /\ Bumped(c, op, e) /\ e.line = c.line /\ e.victim = c.victim
      /\ e.read_hits = c.read_hits /\ e.write_hits = c.write_hits /\ e.hits = c.hits + 1 /\ e.misses = c.misses
      /\ e.capacity = c.capacity /\ e.conflict = c.conflict /\ e.to_next_mem = c.to_next_mem
  BY <1>2, <1>4 DEF Fields, Bumped
<1>7. PICK t : t = DramCache!Touched(l, d)
  OBVIOUS
<1>8. t \in LineType /\ t.valid = l.valid /\ t.tag = l.tag /\ t.dirty = l.dirty
  <2>1. d.tick \in Nat
    BY <1>0, <1>2 DEF Bumped, Numbers
  <2> QED BY <1>5, <1>7, <2>1 DEF DramCache!Touched, LineType
<1>9. CASE op = "READ"
  <2>1. PICK m : m = [c.line EXCEPT ![i] = [c.line[i] EXCEPT ![1] = t]]
    OBVIOUS
  <2>2. r = [e EXCEPT !.read_hits = e.read_hits + 1, !.line = m]
    BY <1>0, <1>2, <1>3, <1>4, <1>5, <1>6, <1>7, <1>9, <2>1 DEF DramCache!Used, Lines
  <2>3. /\ Fields(r) /\ r.line = m /\ r.read_hits = e.read_hits + 1 /\ r.write_hits = e.write_hits
        /\ r.tick = e.tick /\ r.reads = e.reads /\ r.writes = e.writes /\ r.hits = e.hits /\ r.misses = e.misses
        /\ r.capacity = e.capacity /\ r.conflict = e.conflict /\ r.to_next_mem = e.to_next_mem
        /\ r.victim = e.victim
    BY <1>6, <2>2 DEF Fields
  <2>4. PutIs(c, i, 1, t, r)
    BY <2>1, <2>3 DEF PutIs
  <2>5. /\ r.read_hits = c.read_hits + One(op = "READ") /\ r.write_hits = c.write_hits + One(op = "WRITE")
    BY <1>0, <1>6, <1>9, <2>3 DEF One, Numbers
  <2> QED BY ZenonT(60), <1>2, <1>4, <1>5, <1>6, <1>8, <1>9, <2>3, <2>4, <2>5 DEF HitIs, Bumped
<1>10. CASE op = "WRITE"
  <2>1. PICK n, m : n = [t EXCEPT !.dirty = TRUE] /\ m = [c.line EXCEPT ![i] = [c.line[i] EXCEPT ![1] = n]]
    OBVIOUS
  <2>2. n \in LineType /\ n.valid = l.valid /\ n.tag = l.tag /\ n.dirty
    BY <1>8, <2>1 DEF LineType
  <2>3. r = [e EXCEPT !.write_hits = e.write_hits + 1, !.line = m]
    BY <1>0, <1>2, <1>3, <1>4, <1>5, <1>6, <1>7, <1>10, <2>1 DEF DramCache!Used, Lines
  <2>4. /\ Fields(r) /\ r.line = m /\ r.read_hits = e.read_hits /\ r.write_hits = e.write_hits + 1
        /\ r.tick = e.tick /\ r.reads = e.reads /\ r.writes = e.writes /\ r.hits = e.hits /\ r.misses = e.misses
        /\ r.capacity = e.capacity /\ r.conflict = e.conflict /\ r.to_next_mem = e.to_next_mem
        /\ r.victim = e.victim
    BY <1>6, <2>3 DEF Fields
  <2>5. PutIs(c, i, 1, n, r)
    BY <2>1, <2>4 DEF PutIs
  <2>6. /\ r.read_hits = c.read_hits + One(op = "READ") /\ r.write_hits = c.write_hits + One(op = "WRITE")
    BY SMTT(60), <1>0, <1>6, <1>10, <2>4 DEF One, Numbers
  <2> QED BY ZenonT(60), <1>4, <1>5, <1>6, <1>10, <2>2, <2>4, <2>5, <2>6 DEF HitIs, Bumped
<1> QED BY <1>9, <1>10

LEMMA MissFields ==
  ASSUME BlocksAssumed, NEW c, CacheInvariant(c), NEW b \in Block, NEW op \in {"READ", "WRITE"},
         ~DramCache!check_cache_hit(c, b), NEW r \in DramCache!do_cache_op(c, b, op)
  PROVE  \E w \in DramCache!find_victim(c, b) : MissIs(c, b, w, op, r)
<1>0. Fields(c) /\ Lines(c) /\ Numbers(c)
  BY DEF CacheInvariant
<1>1. PICK d : d = [c EXCEPT !.tick = c.tick + 1,
                             !.reads = IF op = "READ" THEN c.reads + 1 ELSE c.reads,
                             !.writes = IF op = "WRITE" THEN c.writes + 1 ELSE c.writes]
  OBVIOUS
<1>2. /\ Fields(d) /\ Bumped(c, op, d) /\ d.line = c.line /\ d.victim = c.victim
      /\ d.read_hits = c.read_hits /\ d.write_hits = c.write_hits /\ d.hits = c.hits /\ d.misses = c.misses
      /\ d.capacity = c.capacity /\ d.conflict = c.conflict /\ d.to_next_mem = c.to_next_mem
  <2>1. StartIs(c, op, d)
    BY <1>1 DEF StartIs
  <2> QED BY <1>0, <2>1, OperationStarts DEF Started
<1>3. PICK w \in DramCache!find_victim(d, b) : r = DramCache!Replaced(d, b, w, op)
  BY <1>0, <1>1 DEF DramCache!do_cache_op, Fields
<1>4. w \in DramCache!find_victim(c, b)
  BY <1>2 DEF DramCache!find_victim, DramCache!FreeWays, DramCache!Oldest
<1>5. PICK i, old, new, m :
        /\ i = DramCache!SetOf(b) /\ old = c.line[i][w]
        /\ new = [tag |-> b, valid |-> TRUE, dirty |-> op = "WRITE", count |-> d.tick]
        /\ m = [c.line EXCEPT ![i] = [c.line[i] EXCEPT ![w] = new]]
  OBVIOUS
<1>6. i \in DramCache!SetIndex
  BY <1>5, SetsOfBlocks DEF BlocksAssumed
<1>7. new \in LineType
  <2>1. d.tick \in Nat
    BY <1>0, <1>2 DEF Bumped, Numbers
  <2> QED BY <1>5, <2>1 DEF LineType, BlocksAssumed
<1>8. PICK v : v = IF old.valid THEN old.tag ELSE NoTag
  OBVIOUS
<1>9. r = [d EXCEPT !.line = m, !.victim = v, !.misses = d.misses + 1,
                    !.capacity = IF old.valid THEN d.capacity ELSE d.capacity + 1,
                    !.conflict = IF old.valid THEN d.conflict + 1 ELSE d.conflict,
                    !.to_next_mem = IF old.valid /\ old.dirty THEN d.to_next_mem + 1 ELSE d.to_next_mem]
  BY <1>0, <1>2, <1>3, <1>5, <1>6, <1>8 DEF DramCache!Replaced, Fields, Lines
<1>10. /\ Fields(r) /\ r.line = m /\ r.tick = d.tick /\ r.reads = d.reads /\ r.writes = d.writes
       /\ r.hits = d.hits /\ r.read_hits = d.read_hits /\ r.write_hits = d.write_hits
       /\ r.misses = d.misses + 1 /\ r.victim = v
       /\ r.capacity = (IF old.valid THEN d.capacity ELSE d.capacity + 1)
       /\ r.conflict = (IF old.valid THEN d.conflict + 1 ELSE d.conflict)
       /\ r.to_next_mem = (IF old.valid /\ old.dirty THEN d.to_next_mem + 1 ELSE d.to_next_mem)
  BY <1>2, <1>9 DEF Fields
<1>11. PutIs(c, i, w, new, r) /\ new.valid /\ new.tag = b /\ (new.dirty <=> op = "WRITE")
  BY <1>5, <1>10 DEF PutIs
<1>12. /\ r.capacity = c.capacity + One(~old.valid) /\ r.conflict = c.conflict + One(old.valid)
       /\ r.to_next_mem = c.to_next_mem + One(old.valid /\ old.dirty)
  BY <1>0, <1>2, <1>10 DEF One, Numbers
<1> QED BY <1>2, <1>4, <1>5, <1>7, <1>8, <1>10, <1>11, <1>12 DEF MissIs, Bumped
-----------------------------------------------------------------------------
(* A way for the block: the first free one, or any when none is free. *)
LEMMA VictimIs ==
  ASSUME BlocksAssumed, NEW c, Lines(c), NEW b \in Block, NEW w \in DramCache!find_victim(c, b)
  PROVE  LET l == c.line[DramCache!SetOf(b)] IN
         /\ w \in DramCache!Way
         /\ \/ \A v \in DramCache!Way : l[v].valid
            \/ ~l[w].valid /\ \A v \in DramCache!Way : v < w => l[v].valid
<1>1. PICK l, W, F : l = c.line[DramCache!SetOf(b)] /\ W = DramCache!Way /\ F = DramCache!FreeWays(c, b)
  OBVIOUS
<1>2. W \subseteq Nat /\ 1 \in W /\ l \in [W -> LineType] /\ F = {v \in W : ~l[v].valid}
  BY <1>1, SetsOfBlocks DEF Lines, BlocksAssumed, DramCache!FreeWays, DramCache!Way
<1>3. ASSUME NEW T, T \in SUBSET W, T # {}
      PROVE  DramCache!FirstOf(T) \in T /\ \A v \in T : DramCache!FirstOf(T) <= v
  <2>1. \E m \in T : \A v \in T : m <= v
    BY <1>2, <1>3, LeastNumber
  <2> QED BY <2>1 DEF DramCache!FirstOf
<1>4. CASE F # {}
  <2>1. PICK f : f = DramCache!FirstOf(F)
    OBVIOUS
  <2>2. f \in F /\ \A v \in F : f <= v
    BY <1>2, <1>3, <1>4, <2>1
  <2>3. w = f
    BY <1>1, <1>4, <2>1 DEF DramCache!find_victim
  <2>4. ASSUME NEW v \in W, v < w  PROVE l[v].valid
    BY <1>2, <2>2, <2>3, <2>4
  <2> QED BY <1>1, <1>2, <2>2, <2>3, <2>4
<1>5. CASE F = {}
  <2>1. \A v \in W : l[v].valid
    BY <1>2, <1>5
  <2>2. CASE Algorithm = "RAND"
    BY <1>1, <1>5, <2>1, <2>2 DEF DramCache!find_victim
  <2>3. CASE Algorithm # "RAND"
    <3>1. PICK N, T : N = {l[v].count : v \in W} /\ T = {v \in W : \A u \in W : l[v].count <= l[u].count}
      OBVIOUS
    <3>2. N \in SUBSET Nat /\ N # {}
      BY <1>2, <3>1 DEF LineType
    <3>3. PICK n \in N : \A x \in N : n <= x
      BY <3>2, LeastNumber
    <3>4. T \in SUBSET W /\ T # {}
      BY <3>1, <3>3
    <3>5. DramCache!FirstOf(T) \in W
      BY <1>3, <3>4
    <3>6. w = DramCache!FirstOf(T)
      BY <1>1, <1>5, <2>3, <3>1 DEF DramCache!find_victim, DramCache!Oldest
    <3> QED BY <1>1, <2>1, <3>5, <3>6
  <2> QED BY <2>2, <2>3
<1> QED BY <1>4, <1>5

LEMMA HitKeeps ==
  ASSUME BlocksAssumed, NEW c, CacheInvariant(c), NEW b \in Block, NEW op \in {"READ", "WRITE"},
         DramCache!check_cache_hit(c, b), NEW r, HitIs(c, b, op, r)
  PROVE  CacheInvariant(r)
<1>0. Fields(c) /\ Lines(c) /\ Numbers(c) /\ InOrder(c) /\ Counted(c) /\ Paid(c)
  BY DEF CacheInvariant
<1>1. PICK i : i = DramCache!SetOf(b)
  OBVIOUS
<1>2. i \in DramCache!SetIndex /\ 1 \in DramCache!Way /\ c.line[i][1].valid
  BY <1>0, <1>1, SetsOfBlocks, FirstLineUsed DEF BlocksAssumed
<1>3. PICK new \in LineType :
        /\ PutIs(c, i, 1, new, r)
        /\ new.valid /\ new.tag = c.line[i][1].tag /\ (new.dirty <=> op = "WRITE" \/ c.line[i][1].dirty)
  BY <1>1 DEF HitIs
<1>4. Lines(r) /\ LineOf(c, i, 1, new, r)
  BY <1>0, <1>2, <1>3, PutLine
<1>5. InOrder(r)
  <2>1. ASSUME NEW j \in DramCache!SetIndex, NEW v \in DramCache!Way
        PROVE  (r.line[j][v].valid <=> c.line[j][v].valid) /\ r.line[j][v].tag = c.line[j][v].tag
    <3>1. c.line[i][1].valid \in BOOLEAN /\ c.line[j][v].valid \in BOOLEAN
      BY <1>0, <1>2 DEF Lines, LineType
    <3> QED BY <1>2, <1>3, <1>4, <3>1 DEF LineOf
  <2> QED BY <1>0, <2>1 DEF InOrder
<1>6. Numbers(r) /\ Counted(r)
  <2>1. /\ One(op = "READ") \in Nat /\ One(op = "WRITE") \in Nat
        /\ One(op = "READ") + One(op = "WRITE") = 1
    BY DEF One
  <2>2. /\ r.tick = c.tick + 1
        /\ r.reads = c.reads + One(op = "READ") /\ r.writes = c.writes + One(op = "WRITE")
        /\ r.hits = c.hits + 1 /\ r.read_hits = c.read_hits + One(op = "READ")
        /\ r.write_hits = c.write_hits + One(op = "WRITE")
        /\ r.misses = c.misses /\ r.capacity = c.capacity /\ r.conflict = c.conflict
        /\ r.to_next_mem = c.to_next_mem
    BY DEF HitIs, Bumped
  <2> QED BY <1>0, <2>1, <2>2 DEF Numbers, Counted
<1>7. Paid(r)
  <2>1. PICK a, d : a = Cardinality(DirtyOf(c)) /\ d = Cardinality(DirtyOf(r))
    OBVIOUS
  <2>2. /\ a \in Nat /\ d \in Nat /\ d <= a + One(new.dirty)
        /\ c.line[i][1].dirty => d <= a - 1 + One(new.dirty)
    BY <1>0, <1>2, <1>3, <2>1, PutDirty DEF One
  <2>3. d <= a + One(op = "WRITE")
    <3>1. CASE c.line[i][1].dirty
      BY <1>3, <2>2, <3>1 DEF One
    <3>2. CASE ~c.line[i][1].dirty
      BY <1>3, <2>2, <3>2 DEF One
    <3> QED BY <3>1, <3>2
  <2>4. One(op = "WRITE") \in Nat /\ r.writes = c.writes + One(op = "WRITE") /\ r.to_next_mem = c.to_next_mem
    BY DEF One, HitIs, Bumped
  <2> QED BY <1>0, <2>1, <2>2, <2>3, <2>4 DEF Paid, Numbers
<1> QED BY <1>4, <1>5, <1>6, <1>7 DEF CacheInvariant, HitIs

LEMMA MissKeeps ==
  ASSUME BlocksAssumed, NEW c, CacheInvariant(c), NEW b \in Block, NEW op \in {"READ", "WRITE"},
         ~DramCache!check_cache_hit(c, b), NEW w \in DramCache!find_victim(c, b), NEW r, MissIs(c, b, w, op, r)
  PROVE  CacheInvariant(r)
<1>0. Fields(c) /\ Lines(c) /\ Numbers(c) /\ InOrder(c) /\ Counted(c) /\ Paid(c)
  BY DEF CacheInvariant
<1>1. PICK i, old : i = DramCache!SetOf(b) /\ old = c.line[i][w]
  OBVIOUS
<1>2. /\ i \in DramCache!SetIndex /\ w \in DramCache!Way
      /\ \/ \A v \in DramCache!Way : c.line[i][v].valid
         \/ ~c.line[i][w].valid /\ \A v \in DramCache!Way : v < w => c.line[i][v].valid
  BY <1>0, <1>1, SetsOfBlocks, VictimIs DEF BlocksAssumed
<1>3. PICK new \in LineType :
        PutIs(c, i, w, new, r) /\ new.valid /\ new.tag = b /\ (new.dirty <=> op = "WRITE")
  BY <1>1 DEF MissIs
<1>4. Lines(r) /\ LineOf(c, i, w, new, r)
  BY <1>0, <1>2, <1>3, PutLine
<1>5. InOrder(r)
  <2>1. /\ \A v \in DramCache!Way : c.line[i][v].valid => c.line[i][v].tag # b
        /\ DramCache!Way \subseteq Nat
    BY <1>1 DEF DramCache!check_cache_hit, DramCache!Way, BlocksAssumed
  <2> SUFFICES ASSUME NEW j \in DramCache!SetIndex, NEW x \in DramCache!Way, NEW v \in DramCache!Way,
                      r.line[j][x].valid
               PROVE  /\ v < x => r.line[j][v].valid
                      /\ v # x /\ r.line[j][v].valid => r.line[j][v].tag # r.line[j][x].tag
                      /\ DramCache!SetOf(r.line[j][x].tag) = j
    BY DEF InOrder
  <2>2. /\ r.line[j][x] = IF j = i /\ x = w THEN new ELSE c.line[j][x]
        /\ r.line[j][v] = IF j = i /\ v = w THEN new ELSE c.line[j][v]
    BY <1>4 DEF LineOf
  <2>3. CASE j = i /\ x = w
    BY <1>0, <1>1, <1>2, <1>3, <2>1, <2>2, <2>3 DEF InOrder
  <2>4. CASE ~(j = i /\ x = w)
    <3>1. c.line[j][x].valid /\ r.line[j][x] = c.line[j][x]
      BY <2>2, <2>4
    <3>2. /\ v < x => c.line[j][v].valid
          /\ v # x /\ c.line[j][v].valid => c.line[j][v].tag # c.line[j][x].tag
          /\ DramCache!SetOf(c.line[j][x].tag) = j
      BY <1>0, <3>1 DEF InOrder
    <3>3. CASE j = i /\ v = w
      BY <1>3, <2>1, <2>2, <3>1, <3>2, <3>3
    <3>4. CASE ~(j = i /\ v = w)
      BY <2>2, <3>1, <3>2, <3>4
    <3> QED BY <3>3, <3>4
  <2> QED BY <2>3, <2>4
<1>6. Numbers(r) /\ Counted(r)
  <2>1. PICK p, q, y, z, u : /\ p = One(op = "READ") /\ q = One(op = "WRITE")
                             /\ y = One(~old.valid) /\ z = One(old.valid) /\ u = One(old.valid /\ old.dirty)
    OBVIOUS
  <2>2. p \in Nat /\ q \in Nat /\ y \in Nat /\ z \in Nat /\ u \in Nat /\ y + z = 1
    BY <2>1 DEF One
  <2>3. /\ r.tick = c.tick + 1 /\ r.reads = c.reads + p /\ r.writes = c.writes + q
        /\ r.hits = c.hits /\ r.read_hits = c.read_hits /\ r.write_hits = c.write_hits
        /\ r.misses = c.misses + 1 /\ r.capacity = c.capacity + y /\ r.conflict = c.conflict + z
        /\ r.to_next_mem = c.to_next_mem + u
    BY <1>1, <2>1 DEF MissIs, Bumped
  <2>4. Numbers(r)
    BY <1>0, <2>2, <2>3 DEF Numbers
  <2>5. Counted(r)
    <3>1. /\ c.hits \in Nat /\ c.misses \in Nat /\ c.tick \in Nat /\ c.capacity \in Nat /\ c.conflict \in Nat
          /\ c.read_hits \in Nat /\ c.write_hits \in Nat /\ c.reads \in Nat /\ c.writes \in Nat
      BY <1>0 DEF Numbers
    <3>2. /\ c.hits = c.read_hits + c.write_hits
          /\ c.hits + c.misses = c.tick /\ c.capacity + c.conflict = c.misses
          /\ c.read_hits <= c.reads /\ c.write_hits <= c.writes
      BY <1>0 DEF Counted
    <3>3. r.hits = r.read_hits + r.write_hits
      BY <2>3, <3>2
    <3>4. r.hits + r.misses = r.tick
      BY <2>3, <3>1, <3>2
    <3>5. r.capacity + r.conflict = r.misses
      <4>1. (c.capacity + y) + (c.conflict + z) = (c.capacity + c.conflict) + (y + z)
        BY <2>2, <3>1
      <4>2. (c.capacity + y) + (c.conflict + z) = c.misses + 1
        BY <2>2, <3>2, <4>1
      <4> QED BY <2>3, <4>2
    <3>6. r.read_hits <= r.reads /\ r.write_hits <= r.writes
      BY <2>2, <2>3, <3>1, <3>2
    <3> QED BY <3>3, <3>4, <3>5, <3>6 DEF Counted
  <2> QED BY <2>4, <2>5
<1>7. Paid(r)
  <2>1. PICK a, d, q, u : /\ a = Cardinality(DirtyOf(c)) /\ d = Cardinality(DirtyOf(r))
                          /\ q = One(op = "WRITE") /\ u = One(old.valid /\ old.dirty)
    OBVIOUS
  <2>2. a \in Nat /\ d \in Nat /\ d <= a + One(new.dirty) /\ (old.dirty => d <= a - 1 + One(new.dirty))
    BY <1>0, <1>1, <1>2, <1>3, <2>1, PutDirty DEF One
  <2>3. One(new.dirty) = q /\ q \in Nat
    BY <1>3, <2>1 DEF One
  <2>4. u \in Nat /\ d + u <= a + q
    <3>1. CASE old.valid /\ old.dirty
      BY <2>1, <2>2, <2>3, <3>1 DEF One
    <3>2. CASE ~(old.valid /\ old.dirty)
      BY <2>1, <2>2, <2>3, <3>2 DEF One
    <3> QED BY <3>1, <3>2
  <2>5. r.writes = c.writes + q /\ r.to_next_mem = c.to_next_mem + u
    BY <1>1, <2>1 DEF MissIs, Bumped
  <2> QED BY <1>0, <2>1, <2>2, <2>3, <2>4, <2>5 DEF Paid, Numbers
<1> QED BY <1>4, <1>5, <1>6, <1>7 DEF CacheInvariant, MissIs

(* An empty cache, at the start and after a flush. *)
LEMMA EmptyIsInOrder ==
  ASSUME BlocksAssumed, NEW c, Fields(c), Lines(c),
         \A i \in DramCache!SetIndex, w \in DramCache!Way : ~c.line[i][w].valid /\ ~c.line[i][w].dirty,
         c.tick = 0 /\ c.reads = 0 /\ c.writes = 0 /\ c.read_hits = 0 /\ c.write_hits = 0,
         c.hits = 0 /\ c.misses = 0 /\ c.capacity = 0 /\ c.conflict = 0 /\ c.to_next_mem = 0
  PROVE  CacheInvariant(c)
<1>1. DirtyOf(c) = {}
  BY DEF DirtyOf
<1>2. Cardinality(DirtyOf(c)) = 0
  BY <1>1, FS_EmptySet
<1>3. Paid(c)
  BY <1>2 DEF Paid
<1>4. InOrder(c)
  BY DEF InOrder
<1>5. Numbers(c) /\ Counted(c)
  BY DEF Numbers, Counted
<1> QED BY <1>3, <1>4, <1>5 DEF CacheInvariant

LEMMA FlushKeeps ==
  ASSUME BlocksAssumed, NEW c, Lines(c)
  PROVE  CacheInvariant(DramCache!flush_cache(c))
<1>1. PICK m, d : /\ d = DramCache!flush_cache(c)
                  /\ m = [i \in DramCache!SetIndex |-> [w \in DramCache!Way |->
                             [c.line[i][w] EXCEPT !.valid = FALSE, !.dirty = FALSE]]]
  OBVIOUS
<1>2. /\ Fields(d) /\ d.line = m
      /\ d.tick = 0 /\ d.reads = 0 /\ d.writes = 0 /\ d.read_hits = 0 /\ d.write_hits = 0
      /\ d.hits = 0 /\ d.misses = 0 /\ d.capacity = 0 /\ d.conflict = 0 /\ d.to_next_mem = 0
  BY <1>1 DEF DramCache!flush_cache, Fields
<1>3. ASSUME NEW i \in DramCache!SetIndex, NEW w \in DramCache!Way
      PROVE  m[i][w] \in LineType /\ ~m[i][w].valid /\ ~m[i][w].dirty
  <2>1. PICK l, n : l = c.line[i][w] /\ n = m[i][w]
    OBVIOUS
  <2>2. l \in LineType /\ n = [l EXCEPT !.valid = FALSE, !.dirty = FALSE]
    BY <1>1, <2>1 DEF Lines
  <2>3. n \in LineType /\ ~n.valid /\ ~n.dirty
    BY <2>2 DEF LineType
  <2> QED BY <2>1, <2>3
<1>4. Lines(d)
  <2>1. ASSUME NEW i \in DramCache!SetIndex  PROVE m[i] \in [DramCache!Way -> LineType]
    <3>1. PICK l : l = m[i]
      OBVIOUS
    <3>2. l = [w \in DramCache!Way |-> [c.line[i][w] EXCEPT !.valid = FALSE, !.dirty = FALSE]]
      BY <1>1, <3>1
    <3>3. \A w \in DramCache!Way : l[w] \in LineType
      BY <1>3, <3>1
    <3> QED BY <3>1, <3>2, <3>3
  <2>2. m \in [DramCache!SetIndex -> [DramCache!Way -> LineType]]
    BY <1>1, <2>1
  <2> QED BY <1>2, <2>2 DEF Lines
<1> QED BY <1>1, <1>2, <1>3, <1>4, EmptyIsInOrder

LEMMA EmptyCacheIs ==
  ASSUME BlocksAssumed, NEW c \in DramCache!EmptyCaches
  PROVE  CacheInvariant(c)
<1>1. /\ Fields(c) /\ c.line = [i \in DramCache!SetIndex |-> [w \in DramCache!Way |-> DramCache!EmptyLine]]
      /\ c.tick = 0 /\ c.reads = 0 /\ c.writes = 0 /\ c.read_hits = 0 /\ c.write_hits = 0
      /\ c.hits = 0 /\ c.misses = 0 /\ c.capacity = 0 /\ c.conflict = 0 /\ c.to_next_mem = 0
  BY DEF DramCache!EmptyCaches, Fields
<1>2. DramCache!EmptyLine \in LineType /\ ~DramCache!EmptyLine.valid /\ ~DramCache!EmptyLine.dirty
  BY DEF DramCache!EmptyLine, LineType
<1>3. Lines(c) /\ \A i \in DramCache!SetIndex, w \in DramCache!Way : ~c.line[i][w].valid /\ ~c.line[i][w].dirty
  BY <1>1, <1>2 DEF Lines
<1> QED BY <1>1, <1>3, EmptyIsInOrder

LEMMA OperationKeeps ==
  ASSUME BlocksAssumed, NEW c, CacheInvariant(c), NEW b \in Block, NEW op \in {"READ", "WRITE"},
         NEW r \in DramCache!do_cache_op(c, b, op)
  PROVE  CacheInvariant(r)
<1>1. CASE DramCache!check_cache_hit(c, b)
  <2>1. HitIs(c, b, op, r)
    BY <1>1, HitFields
  <2> QED BY <1>1, <2>1, HitKeeps
<1>2. CASE ~DramCache!check_cache_hit(c, b)
  <2>1. PICK w \in DramCache!find_victim(c, b) : MissIs(c, b, w, op, r)
    BY <1>2, MissFields
  <2> QED BY <1>2, <2>1, MissKeeps
<1> QED BY <1>1, <1>2

LEMMA CacheStep ==
  ASSUME BlocksAssumed, CacheInvariant(s), [DramCache!Next]_s
  PROVE  CacheInvariant(s')
<1>1. ASSUME NEW b \in Block, NEW op \in {"READ", "WRITE"}, s' \in DramCache!do_cache_op(s, b, op)
      PROVE  CacheInvariant(s')
  BY <1>1, OperationKeeps
<1>2. CASE DramCache!Flush
  BY <1>2, FlushKeeps DEF DramCache!Flush, CacheInvariant
<1>3. CASE UNCHANGED s
  BY <1>3
<1> QED BY <1>1, <1>2, <1>3 DEF DramCache!Next, DramCache!Operation

(* The DRAM cache fills the lines of a set in order, holds no block twice, *)
(* and its counters agree: hits and misses are all operations, and a write *)
(* pays for each line that is written back or still modified.              *)
THEOREM LinesAndCountsAlwaysAgree ==
  BlocksAssumed => (DramCache!Spec => []DramCache!LinesAndCountsAgree)
<1> SUFFICES ASSUME BlocksAssumed  PROVE DramCache!Spec => []DramCache!LinesAndCountsAgree
  OBVIOUS
<1>1. CacheInvariant(s) => DramCache!LinesAndCountsAgree
  <2> SUFFICES ASSUME CacheInvariant(s)  PROVE DramCache!LinesAndCountsAgree
    OBVIOUS
  <2>1. InOrder(s) /\ Counted(s) /\ s.to_next_mem + Cardinality(DirtyOf(s)) <= s.writes
    BY DEF CacheInvariant, Paid
  <2>2. DramCache!Dirty = DirtyOf(s)
    BY DEF DramCache!Dirty, DirtyOf
  <2>3. DramCache!Cardinality(DramCache!Dirty) = Cardinality(DirtyOf(s))
    BY <2>2 DEF DramCache!Cardinality, Cardinality
  <2> QED BY <2>1, <2>3 DEF DramCache!LinesAndCountsAgree, InOrder, Counted
<1>2. DramCache!Init => CacheInvariant(s)
  BY EmptyCacheIs DEF DramCache!Init
<1>3. CacheInvariant(s) /\ [DramCache!Next]_s => CacheInvariant(s)'
  BY CacheStep
<1> QED BY <1>1, <1>2, <1>3, PTL DEF DramCache!Spec

-----------------------------------------------------------------------------
(* The predictors beside the DRAM cache.  The cache they look into is the  *)
(* same text on another variable.                                          *)
LEMMA SamePlaces ==
  /\ Hits!Cache!Way = DramCache!Way /\ Hits!Cache!SetIndex = DramCache!SetIndex
  /\ \A b : Hits!Cache!SetOf(b) = DramCache!SetOf(b)
  /\ Hits!Cache!EmptyCaches = DramCache!EmptyCaches
<1>1. /\ Hits!Cache!Way = DramCache!Way /\ Hits!Cache!SetIndex = DramCache!SetIndex
      /\ Hits!Cache!EmptyLine = DramCache!EmptyLine
  BY DEF Hits!Cache!Way, DramCache!Way, Hits!Cache!SetIndex, DramCache!SetIndex,
         Hits!Cache!EmptyLine, DramCache!EmptyLine
<1>2. \A b : Hits!Cache!SetOf(b) = DramCache!SetOf(b)
  BY DEF Hits!Cache!SetOf, DramCache!SetOf
<1> QED BY <1>1, <1>2 DEF Hits!Cache!EmptyCaches, DramCache!EmptyCaches

LEMMA SameHit ==
  ASSUME NEW c, NEW b
  PROVE  Hits!Cache!check_cache_hit(c, b) <=> DramCache!check_cache_hit(c, b)
BY SamePlaces DEF Hits!Cache!check_cache_hit, DramCache!check_cache_hit

LEMMA SameVictim ==
  ASSUME NEW c, NEW b
  PROVE  Hits!Cache!find_victim(c, b) = DramCache!find_victim(c, b)
<1>1. Hits!Cache!FreeWays(c, b) = DramCache!FreeWays(c, b)
  BY SamePlaces DEF Hits!Cache!FreeWays, DramCache!FreeWays
<1>2. \A W : Hits!Cache!FirstOf(W) = DramCache!FirstOf(W)
  BY DEF Hits!Cache!FirstOf, DramCache!FirstOf
<1>3. Hits!Cache!Oldest(c, b) = DramCache!Oldest(c, b)
  BY <1>2, SamePlaces DEF Hits!Cache!Oldest, DramCache!Oldest
<1>4. Hits!Cache!FirstOf(Hits!Cache!FreeWays(c, b)) = DramCache!FirstOf(DramCache!FreeWays(c, b))
  BY <1>1, <1>2
<1>5. CASE DramCache!FreeWays(c, b) # {}
  BY <1>1, <1>4, <1>5 DEF Hits!Cache!find_victim, DramCache!find_victim
<1>6. CASE DramCache!FreeWays(c, b) = {} /\ Algorithm = "RAND"
  BY <1>1, <1>6, SamePlaces DEF Hits!Cache!find_victim, DramCache!find_victim
<1>7. CASE DramCache!FreeWays(c, b) = {} /\ Algorithm # "RAND"
  BY <1>1, <1>3, <1>7 DEF Hits!Cache!find_victim, DramCache!find_victim
<1> QED BY <1>5, <1>6, <1>7

LEMMA SameOperation ==
  ASSUME NEW c, NEW b, NEW op
  PROVE  Hits!Cache!do_cache_op(c, b, op) = DramCache!do_cache_op(c, b, op)
<1>1. Hits!Cache!SetOf(b) = DramCache!SetOf(b)
  BY SamePlaces
<1>2. ASSUME NEW d, NEW w  PROVE Hits!Cache!Replaced(d, b, w, op) = DramCache!Replaced(d, b, w, op)
  BY <1>1 DEF Hits!Cache!Replaced, DramCache!Replaced
<1>3. ASSUME NEW d  PROVE Hits!Cache!Used(d, b, op) = DramCache!Used(d, b, op)
  <2>1. PICK i, l : i = DramCache!SetOf(b) /\ l = d.line[i][1]
    OBVIOUS
  <2>2. PICK x : x = DramCache!Touched(l, d)
    OBVIOUS
  <2>3. Hits!Cache!Touched(l, d) = x
    BY <2>2 DEF Hits!Cache!Touched, DramCache!Touched
  <2>4. CASE ~l.valid
    BY <1>1, <2>1, <2>4 DEF Hits!Cache!Used, DramCache!Used
  <2>5. CASE l.valid /\ op = "READ"
    BY <1>1, <2>1, <2>2, <2>3, <2>5 DEF Hits!Cache!Used, DramCache!Used
  <2>6. CASE l.valid /\ op # "READ"
    BY <1>1, <2>1, <2>2, <2>3, <2>6 DEF Hits!Cache!Used, DramCache!Used
  <2> QED BY <2>4, <2>5, <2>6
<1>4. \A d : Hits!Cache!find_victim(d, b) = DramCache!find_victim(d, b)
  BY SameVictim
<1> QED BY <1>2, <1>3, <1>4, SameHit DEF Hits!Cache!do_cache_op, DramCache!do_cache_op

-----------------------------------------------------------------------------
(* The tables have a place, and the counters a range.                      *)
TablesAssumed ==
  /\ BlocksAssumed /\ Segment \in Nat \ {0} /\ Length \in Nat \ {0}
  /\ Maxlength \in Nat /\ CountMax \in Nat

(* Every block of the cache is in the Bloom filter f. *)
Cached(c, f) ==
  \A i \in DramCache!SetIndex, w \in DramCache!Way :
    c.line[i][w].valid => c.line[i][w].tag \in Block /\ Hits!HashOf(c.line[i][w].tag) \in f
VictimKnown(c) == c.victim \in Block \cup {NoTag}

(* The MissMap m has at most Maxlength segments, and only blocks of r. *)
Mapped(m, r) ==
  /\ IsFiniteSet(DOMAIN m) /\ Cardinality(DOMAIN m) <= Maxlength
  /\ \A b \in Block :
       Hits!SegmentOf(b) \in DOMAIN m /\ Hits!PosOf(b) \in m[Hits!SegmentOf(b)] => b \in r
Ranged(g, t) == g \in 0 .. CountMax /\ t \in [0 .. Length - 1 -> 0 .. CountMax]

PredictorInvariant(p) ==
  /\ CacheInvariant(p.cache) /\ Cached(p.cache, p.bloom) /\ VictimKnown(p.cache)
  /\ Mapped(p.missmap, p.reported) /\ Ranged(p.global, p.counter)

(* An operation leaves in the cache what was there, and the block.         *)
LEMMA OperationCaches ==
  ASSUME BlocksAssumed, NEW c, CacheInvariant(c), NEW f, Cached(c, f), VictimKnown(c),
         NEW b \in Block, NEW op \in {"READ", "WRITE"}, NEW r \in DramCache!do_cache_op(c, b, op)
  PROVE  Cached(r, f \cup {Hits!HashOf(b)}) /\ VictimKnown(r)
<1>0. Lines(c) /\ InOrder(c)
  BY DEF CacheInvariant
<1>1. PICK i, g : i = DramCache!SetOf(b) /\ g = f \cup {Hits!HashOf(b)}
  OBVIOUS
<1>2. i \in DramCache!SetIndex /\ 1 \in DramCache!Way
  BY <1>1, SetsOfBlocks DEF BlocksAssumed
<1>3. ASSUME NEW w \in DramCache!Way, NEW new \in LineType, PutIs(c, i, w, new, r),
             new.tag \in Block, Hits!HashOf(new.tag) \in g
      PROVE  Cached(r, g)
  <2>1. LineOf(c, i, w, new, r)
    BY <1>0, <1>2, <1>3, PutLine
  <2> SUFFICES ASSUME NEW j \in DramCache!SetIndex, NEW v \in DramCache!Way, r.line[j][v].valid
               PROVE  r.line[j][v].tag \in Block /\ Hits!HashOf(r.line[j][v].tag) \in g
    BY DEF Cached
  <2>2. r.line[j][v] = IF j = i /\ v = w THEN new ELSE c.line[j][v]
    BY <2>1 DEF LineOf
  <2> QED BY <1>1, <1>3, <2>2 DEF Cached
<1>4. CASE DramCache!check_cache_hit(c, b)
  <2>1. HitIs(c, b, op, r)
    BY <1>4, HitFields
  <2>2. PICK new \in LineType : PutIs(c, i, 1, new, r) /\ new.tag = c.line[i][1].tag
    BY <1>1, <2>1 DEF HitIs
  <2>3. c.line[i][1].valid
    BY <1>0, <1>1, <1>4, FirstLineUsed
  <2>4. new.tag \in Block /\ Hits!HashOf(new.tag) \in g
    BY <1>1, <1>2, <2>2, <2>3 DEF Cached
  <2>5. VictimKnown(r)
    BY <2>1 DEF HitIs, VictimKnown
  <2> QED BY <1>1, <1>2, <1>3, <2>2, <2>4, <2>5
<1>5. CASE ~DramCache!check_cache_hit(c, b)
  <2>1. PICK w \in DramCache!find_victim(c, b) : MissIs(c, b, w, op, r)
    BY <1>5, MissFields
  <2>2. w \in DramCache!Way
    BY <1>0, VictimIs
  <2>3. PICK new \in LineType : PutIs(c, i, w, new, r) /\ new.tag = b
    BY <1>1, <2>1 DEF MissIs
  <2>4. Cached(r, g)
    BY <1>1, <1>3, <2>2, <2>3
  <2>5. r.victim = IF c.line[i][w].valid THEN c.line[i][w].tag ELSE NoTag
    BY <1>1, <2>1 DEF MissIs
  <2> QED BY <1>1, <1>2, <2>2, <2>4, <2>5 DEF Cached, VictimKnown
<1> QED BY <1>4, <1>5

(* A position in a segment is one block. *)
LEMMA OneBlock ==
  ASSUME Segment \in Nat \ {0}, NEW a \in Nat, NEW b \in Nat,
         Hits!SegmentOf(a) = Hits!SegmentOf(b), Hits!PosOf(a) = Hits!PosOf(b)
  PROVE  a = b
<1>1. a = Segment * (a \div Segment) + (a % Segment) /\ b = Segment * (b \div Segment) + (b % Segment)
  OBVIOUS
<1> QED BY <1>1, Zenon DEF Hits!SegmentOf, Hits!PosOf

LEMMA MarkedMaps ==
  ASSUME TablesAssumed, NEW m, NEW r, Mapped(m, r), NEW b \in Block
  PROVE  Mapped(Hits!Marked(m, b), r \cup {b})
<1>1. PICK g, p, n : g = Hits!SegmentOf(b) /\ p = Hits!PosOf(b) /\ n = Hits!Marked(m, b)
  OBVIOUS
<1>2. ASSUME NEW a \in Block, Hits!SegmentOf(a) = g, Hits!PosOf(a) = p
      PROVE  a = b
  BY <1>1, <1>2, OneBlock DEF TablesAssumed, BlocksAssumed
<1>3. IsFiniteSet(DOMAIN m) /\ Cardinality(DOMAIN m) <= Maxlength /\ Cardinality(DOMAIN m) \in Nat
  BY FS_CardinalityType DEF Mapped
<1>4. CASE g \in DOMAIN m
  <2>1. n = [m EXCEPT ![g] = m[g] \cup {p}]
    BY <1>1, <1>4 DEF Hits!Marked
  <2>2. DOMAIN n = DOMAIN m /\ \A x \in DOMAIN m : n[x] = IF x = g THEN m[g] \cup {p} ELSE m[x]
    BY <2>1
  <2> QED BY <1>1, <1>2, <1>3, <1>4, <2>2 DEF Mapped
<1>5. CASE g \notin DOMAIN m
  <2>1. n = Hits!AddEntry(m, b)
    BY <1>1, <1>5 DEF Hits!Marked
  <2>2. Hits!Cardinality(DOMAIN m) = Cardinality(DOMAIN m)
    BY DEF Hits!Cardinality, Cardinality
  <2>3. CASE Maxlength > Cardinality(DOMAIN m)
    <3>1. n = Hits!Entered(m, b)
      BY <2>1, <2>2, <2>3 DEF Hits!AddEntry
    <3>2. DOMAIN n = DOMAIN m \cup {g} /\ \A x \in DOMAIN n : n[x] = IF x = g THEN {p} ELSE m[x]
      BY <1>1, <3>1 DEF Hits!Entered
    <3>3. IsFiniteSet(DOMAIN n) /\ Cardinality(DOMAIN n) = Cardinality(DOMAIN m) + 1
      BY <1>3, <1>5, <3>2, FS_AddElement
    <3>4. Cardinality(DOMAIN n) <= Maxlength
      BY <1>3, <2>3, <3>3 DEF TablesAssumed
    <3> QED BY <1>1, <1>2, <3>2, <3>3, <3>4 DEF Mapped
  <2>4. CASE ~(Maxlength > Cardinality(DOMAIN m))
    <3>1. n = m
      BY <2>1, <2>2, <2>4 DEF Hits!AddEntry
    <3> QED BY <1>1, <3>1 DEF Mapped
  <2> QED BY <2>3, <2>4
<1> QED BY <1>4, <1>5

LEMMA UnmarkedMaps ==
  ASSUME Maxlength \in Nat, NEW m, NEW r, Mapped(m, r), NEW v
  PROVE  Mapped(Hits!Unmarked(m, v), r)
<1>1. PICK g, n : g = Hits!SegmentOf(v) /\ n = Hits!Unmarked(m, v)
  OBVIOUS
<1>2. PICK left : left = m[g] \ {Hits!PosOf(v)}
  OBVIOUS
<1>3. CASE v = NoTag \/ g \notin DOMAIN m
  <2>1. n = m
    BY <1>1, <1>3 DEF Hits!Unmarked
  <2> QED BY <1>1, <2>1
<1>4. CASE ~(v = NoTag \/ g \notin DOMAIN m) /\ left # {}
  <2>1. n = [x \in DOMAIN m \ {g} |-> m[x]]
    BY <1>1, <1>2, <1>4 DEF Hits!Unmarked, Hits!Restrict
  <2>2. DOMAIN n = DOMAIN m \ {g} /\ \A x \in DOMAIN n : n[x] = m[x]
    BY <2>1
  <2>3. /\ IsFiniteSet(DOMAIN n) /\ Cardinality(DOMAIN n) <= Cardinality(DOMAIN m)
        /\ Cardinality(DOMAIN n) \in Nat /\ Cardinality(DOMAIN m) \in Nat
    <3>1. PICK D, E : D = DOMAIN m /\ E = DOMAIN n
      OBVIOUS
    <3>2. IsFiniteSet(D) /\ E \subseteq D
      BY <2>2, <3>1 DEF Mapped
    <3>3. IsFiniteSet(E) /\ Cardinality(E) <= Cardinality(D)
      BY <3>2, FS_Subset
    <3> QED BY <3>1, <3>2, <3>3, FS_CardinalityType
  <2>4. Cardinality(DOMAIN n) <= Maxlength
    BY <2>3 DEF Mapped
  <2> QED BY <1>1, <2>2, <2>3, <2>4 DEF Mapped
<1>5. CASE ~(v = NoTag \/ g \notin DOMAIN m) /\ left = {}
  <2>1. n = [m EXCEPT ![g] = left]
    BY <1>1, <1>2, <1>5 DEF Hits!Unmarked
  <2>2. DOMAIN n = DOMAIN m /\ \A x \in DOMAIN m : n[x] = IF x = g THEN {} ELSE m[x]
    BY <1>5, <2>1
  <2> QED BY <1>1, <2>2 DEF Mapped
<1> QED BY <1>3, <1>4, <1>5

(* The counters count in their range. *)
LEMMA CountersRange ==
  ASSUME TablesAssumed, NEW t \in [0 .. Length - 1 -> 0 .. CountMax], NEW b \in Block,
         NEW hit \in BOOLEAN, NEW v \in Block \cup {NoTag}
  PROVE  Hits!MapIUpdated(t, b, hit, v) \in [0 .. Length - 1 -> 0 .. CountMax]
<1>1. \A n \in 0 .. CountMax : Hits!incrment(n) \in 0 .. CountMax /\ Hits!decrment(n) \in 0 .. CountMax
  BY DEF Hits!incrment, Hits!decrment, TablesAssumed
<1>2. \A a \in Block : Hits!HashOf(a) \in 0 .. Length - 1
  BY DEF Hits!HashOf, TablesAssumed, BlocksAssumed
<1>3. CASE hit
  BY <1>1, <1>2, <1>3 DEF Hits!MapIUpdated
<1>4. CASE ~hit
  <2>1. PICK u : u = [t EXCEPT ![Hits!HashOf(b)] = Hits!incrment(t[Hits!HashOf(b)])]
    OBVIOUS
  <2>2. u \in [0 .. Length - 1 -> 0 .. CountMax]
    BY <1>1, <1>2, <2>1
  <2>3. CASE v = NoTag
    BY <1>4, <2>1, <2>2, <2>3 DEF Hits!MapIUpdated
  <2>4. CASE v # NoTag
    <3>1. Hits!HashOf(v) \in 0 .. Length - 1
      BY <1>2, <2>4
    <3>2. Hits!MapIUpdated(t, b, hit, v) = [u EXCEPT ![Hits!HashOf(v)] = Hits!incrment(u[Hits!HashOf(v)])]
      BY <1>4, <2>1, <2>4 DEF Hits!MapIUpdated
    <3> QED BY <1>1, <2>2, <3>1, <3>2
  <2> QED BY <2>3, <2>4
<1> QED BY <1>3, <1>4

(* What update() leaves in the tables; no bit of the filter is cleared, as *)
(* every index is below the length.                                        *)
TablesAre(p, c, b) ==
  /\ p = [cache |-> p.cache, missmap |-> p.missmap, bloom |-> p.bloom, global |-> p.global,
          counter |-> p.counter, reported |-> p.reported]
  /\ p.cache = c /\ p.bloom = s.bloom \cup {Hits!HashOf(b)}
  /\ Mapped(p.missmap, p.reported) /\ Ranged(p.global, p.counter)

LEMMA TablesKeep ==
  ASSUME TablesAssumed, Mapped(s.missmap, s.reported), Ranged(s.global, s.counter),
         NEW c, VictimKnown(c), NEW b \in Block
  PROVE  TablesAre(Hits!Updated(c, b), c, b)
<1>1. PICK p, hit, v : p = Hits!Updated(c, b) /\ hit = Hits!Cache!check_cache_hit(c, b) /\ v = c.victim
  OBVIOUS
<1>2. hit \in BOOLEAN /\ v \in Block \cup {NoTag}
  BY <1>1 DEF Hits!Cache!check_cache_hit, VictimKnown
<1>3. p = [cache |-> c, missmap |-> Hits!MissMapUpdated(s.missmap, b, hit, v),
           bloom |-> Hits!BloomUpdated(s.bloom, b, hit, v),
           global |-> IF hit THEN Hits!decrment(s.global) ELSE Hits!incrment(s.global),
           counter |-> Hits!MapIUpdated(s.counter, b, hit, v),
           reported |-> s.reported \cup {b}]
  BY <1>1 DEF Hits!Updated
<1>4. Mapped(p.missmap, p.reported)
  <2>1. PICK m, r : m = Hits!Marked(s.missmap, b) /\ r = s.reported \cup {b}
    OBVIOUS
  <2>2. Mapped(m, r)
    BY <2>1, MarkedMaps
  <2>3. Mapped(Hits!Unmarked(m, v), r)
    BY <2>2, UnmarkedMaps DEF TablesAssumed
  <2>4. p.missmap = (IF hit THEN m ELSE Hits!Unmarked(m, v)) /\ p.reported = r
    BY <1>3, <2>1 DEF Hits!MissMapUpdated
  <2> QED BY <2>2, <2>3, <2>4
<1>5. Ranged(p.global, p.counter)
  <2>1. p.counter \in [0 .. Length - 1 -> 0 .. CountMax]
    BY <1>2, <1>3, CountersRange DEF Ranged
  <2>2. s.global \in 0 .. CountMax
    BY DEF Ranged
  <2>3. p.global \in 0 .. CountMax
    BY <1>3, <2>2 DEF Hits!incrment, Hits!decrment, TablesAssumed
  <2> QED BY <2>1, <2>3 DEF Ranged
<1>6. p.bloom = s.bloom \cup {Hits!HashOf(b)}
  <2>1. v # NoTag => ~(Hits!HashOf(v) >= Length)
    BY <1>2 DEF Hits!HashOf, TablesAssumed, BlocksAssumed
  <2> QED BY <1>3, <2>1 DEF Hits!BloomUpdated, Hits!Reset
<1> QED BY <1>1, <1>3, <1>4, <1>5, <1>6 DEF TablesAre

LEMMA PredictorStart ==
  ASSUME TablesAssumed, Hits!Init
  PROVE  PredictorInvariant(s)
<1>1. PICK c \in DramCache!EmptyCaches :
        s = [cache |-> c, missmap |-> <<>>, bloom |-> {}, global |-> 0,
             counter |-> [i \in 0 .. Length - 1 |-> 0], reported |-> {}]
  BY SamePlaces DEF Hits!Init
<1>2. CacheInvariant(c)
  BY <1>1, EmptyCacheIs DEF TablesAssumed
<1>3. VictimKnown(c) /\ \A i \in DramCache!SetIndex, w \in DramCache!Way : ~c.line[i][w].valid
  BY <1>1 DEF DramCache!EmptyCaches, DramCache!EmptyLine, VictimKnown
<1>4. Mapped(s.missmap, s.reported)
  <2>1. s.missmap = <<>> /\ DOMAIN s.missmap = {}
    BY <1>1
  <2>2. IsFiniteSet(DOMAIN s.missmap) /\ Cardinality(DOMAIN s.missmap) = 0
    BY <2>1, FS_EmptySet
  <2> QED BY <2>1, <2>2 DEF Mapped, TablesAssumed
<1>5. Ranged(s.global, s.counter)
  BY <1>1 DEF Ranged, TablesAssumed
<1> QED BY <1>1, <1>2, <1>3, <1>4, <1>5 DEF PredictorInvariant, Cached, VictimKnown

LEMMA PredictorStep ==
  ASSUME TablesAssumed, PredictorInvariant(s), [Hits!Next]_s
  PROVE  PredictorInvariant(s')
<1>1. /\ CacheInvariant(s.cache) /\ Cached(s.cache, s.bloom) /\ VictimKnown(s.cache)
      /\ Mapped(s.missmap, s.reported) /\ Ranged(s.global, s.counter) /\ BlocksAssumed
  BY DEF PredictorInvariant, TablesAssumed
<1>2. ASSUME NEW b \in Block, NEW op \in {"READ", "WRITE"}, Hits!OperateThenUpdate(b, op)
      PROVE  PredictorInvariant(s')
  <2>1. PICK c \in DramCache!do_cache_op(s.cache, b, op) : s' = Hits!Updated(c, b)
    BY <1>2, SameOperation DEF Hits!OperateThenUpdate
  <2>2. CacheInvariant(c)
    BY <1>1, <2>1, OperationKeeps
  <2>3. Cached(c, s.bloom \cup {Hits!HashOf(b)}) /\ VictimKnown(c)
    BY <1>1, <2>1, OperationCaches
  <2>4. TablesAre(s', c, b)
    BY <1>1, <2>1, <2>3, TablesKeep
  <2> QED BY <2>2, <2>3, <2>4 DEF TablesAre, PredictorInvariant
<1>3. ASSUME NEW b \in Block, NEW op \in {"READ", "WRITE"}, Hits!UpdateThenOperate(b, op)
      PROVE  PredictorInvariant(s')
  <2>1. PICK t, c : /\ t = Hits!Updated(s.cache, b) /\ c \in DramCache!do_cache_op(s.cache, b, op)
                    /\ s' = [t EXCEPT !.cache = c]
    BY <1>3, SameOperation DEF Hits!UpdateThenOperate
  <2>2. CacheInvariant(c)
    BY <1>1, <2>1, OperationKeeps
  <2>3. Cached(c, s.bloom \cup {Hits!HashOf(b)}) /\ VictimKnown(c)
    BY <1>1, <2>1, OperationCaches
  <2>4. TablesAre(t, s.cache, b)
    BY <1>1, <2>1, TablesKeep
  <2>5. /\ s'.cache = c /\ s'.bloom = s.bloom \cup {Hits!HashOf(b)}
        /\ Mapped(s'.missmap, s'.reported) /\ Ranged(s'.global, s'.counter)
    BY <2>1, <2>4 DEF TablesAre
  <2> QED BY <2>2, <2>3, <2>5 DEF PredictorInvariant
<1>4. CASE UNCHANGED s
  BY <1>4
<1> QED BY <1>2, <1>3, <1>4 DEF Hits!Next

(* A block that is in the DRAM cache is never predicted absent by the      *)
(* Bloom filter, whether update() is called before the operation or after  *)
(* it; MAP-G and MAP-I count within their bits, and the MissMap holds no   *)
(* more segments than it has entries and only blocks it was told of.       *)
THEOREM PredictorsAlwaysBelieve ==
  TablesAssumed => (Hits!Spec => [](Hits!CachedIsPredicted /\ Hits!PredictorsBounded))
<1> SUFFICES ASSUME TablesAssumed
             PROVE  Hits!Spec => [](Hits!CachedIsPredicted /\ Hits!PredictorsBounded)
  OBVIOUS
<1>1. PredictorInvariant(s) => Hits!CachedIsPredicted /\ Hits!PredictorsBounded
  <2> SUFFICES ASSUME PredictorInvariant(s)  PROVE Hits!CachedIsPredicted /\ Hits!PredictorsBounded
    OBVIOUS
  <2>1. /\ Cached(s.cache, s.bloom) /\ Mapped(s.missmap, s.reported) /\ Ranged(s.global, s.counter)
    BY DEF PredictorInvariant
  <2>2. Hits!CachedIsPredicted
    <3> SUFFICES ASSUME NEW b \in Block, DramCache!check_cache_hit(s.cache, b)
                 PROVE  Hits!HashOf(b) \in s.bloom
      <4>1. \A b \in Block : Hits!Cache!check_cache_hit(s.cache, b) <=> DramCache!check_cache_hit(s.cache, b)
        BY SameHit
      <4> QED BY <4>1 DEF Hits!CachedIsPredicted, Hits!BloomPredict
    <3>1. DramCache!SetOf(b) \in DramCache!SetIndex
      BY SetsOfBlocks DEF TablesAssumed, BlocksAssumed
    <3>2. PICK w \in DramCache!Way : s.cache.line[DramCache!SetOf(b)][w].valid
                                     /\ s.cache.line[DramCache!SetOf(b)][w].tag = b
      BY DEF DramCache!check_cache_hit
    <3> QED BY <2>1, <3>1, <3>2 DEF Cached
  <2>3. Hits!Cardinality(DOMAIN s.missmap) = Cardinality(DOMAIN s.missmap)
    BY DEF Hits!Cardinality, Cardinality
  <2>4. Hits!PredictorsBounded
    BY <2>1, <2>3 DEF Hits!PredictorsBounded, Hits!MissMapPredict, Mapped, Ranged
  <2> QED BY <2>2, <2>4
<1>2. Hits!Init => PredictorInvariant(s)
  BY PredictorStart
<1>3. PredictorInvariant(s) /\ [Hits!Next]_s => PredictorInvariant(s)'
  BY PredictorStep
<1> QED BY <1>1, <1>2, <1>3, PTL DEF Hits!Spec

-----------------------------------------------------------------------------
(* The tables under Bingo.  A key is in one row of a table, under one tag.  *)
Row(key, sets) == key % sets
TagIn(key, sets) == key \div sets

(* The entries e and the cam c of row x: every tag leads to a valid entry   *)
(* of that tag, and every valid entry belongs there and is led to.          *)
Entries(K, D) == {Bingo!None} \cup [valid : {TRUE}, key : K, data : D]
Cams(ways) == UNION {[G -> 0 .. ways - 1] : G \in SUBSET Nat}
RowAgrees(K, D, sets, ways, x, e, c) ==
  /\ e \in [0 .. ways - 1 -> Entries(K, D)] /\ c \in Cams(ways)
  /\ \A g \in DOMAIN c : e[c[g]].valid /\ TagIn(e[c[g]].key, sets) = g
  /\ \A w \in 0 .. ways - 1 : e[w].valid =>
       /\ Row(e[w].key, sets) = x /\ TagIn(e[w].key, sets) \in DOMAIN c
       /\ c[TagIn(e[w].key, sets)] = w
RowFind(e, c, g) == IF g \in DOMAIN c THEN e[c[g]] ELSE Bingo!None

Sizes(K, sets, ways) == K \subseteq Nat /\ sets \in Nat \ {0} /\ ways \in Nat \ {0}
Table(K, D, sets, ways, table) ==
  /\ Sizes(K, sets, ways)
  /\ table \in [entries : [0 .. sets - 1 -> [0 .. ways - 1 -> Entries(K, D)]],
                cams : [0 .. sets - 1 -> Cams(ways)],
                lru : [0 .. sets - 1 -> [0 .. ways - 1 -> Nat]], t : Nat]
  /\ \A x \in 0 .. sets - 1 : RowAgrees(K, D, sets, ways, x, table.entries[x], table.cams[x])

LEMMA KeyIsPlace ==
  ASSUME NEW sets \in Nat \ {0}, NEW k \in Nat
  PROVE  Row(k, sets) \in 0 .. sets - 1 /\ TagIn(k, sets) \in Nat
         /\ k = sets * TagIn(k, sets) + Row(k, sets)
BY DEF Row, TagIn

LEMMA PlaceIsKey ==
  ASSUME NEW sets \in Nat \ {0}, NEW k \in Nat, NEW j \in Nat,
         Row(k, sets) = Row(j, sets), TagIn(k, sets) = TagIn(j, sets)
  PROVE  k = j
BY KeyIsPlace

(* An entry is no entry or one of a key and data. *)
LEMMA EntryIs ==
  ASSUME NEW K, NEW D
  PROVE  /\ ~Bingo!None.valid
         /\ \A e \in Entries(K, D) : e.valid \in BOOLEAN /\ (~e.valid => e = Bingo!None)
              /\ (e.valid => e.key \in K /\ e.data \in D /\ e = Bingo!Entry(e.key, e.data))
         /\ \A k \in K, d \in D : Bingo!Entry(k, d) \in Entries(K, D)
         /\ \A k, d : Bingo!Entry(k, d).valid /\ Bingo!Entry(k, d).key = k /\ Bingo!Entry(k, d).data = d
<1>1. ~Bingo!None.valid
  BY DEF Bingo!None
<1>2. ASSUME NEW e \in Entries(K, D)
      PROVE  /\ e.valid \in BOOLEAN /\ (~e.valid => e = Bingo!None)
             /\ (e.valid => e.key \in K /\ e.data \in D /\ e = Bingo!Entry(e.key, e.data))
  <2>1. CASE e = Bingo!None
    BY <1>1, <2>1 DEF Bingo!None
  <2>2. CASE e \in [valid : {TRUE}, key : K, data : D]
    <3>1. e.valid = TRUE /\ e.key \in K /\ e.data \in D /\ e = [valid |-> TRUE, key |-> e.key, data |-> e.data]
      BY <2>2
    <3> QED BY <3>1 DEF Bingo!Entry
  <2> QED BY <2>1, <2>2 DEF Entries
<1>3. \A k \in K, d \in D : Bingo!Entry(k, d) \in Entries(K, D)
  BY DEF Entries, Bingo!Entry
<1>4. \A k, d : Bingo!Entry(k, d).valid /\ Bingo!Entry(k, d).key = k /\ Bingo!Entry(k, d).data = d
  BY DEF Bingo!Entry
<1> QED BY <1>1, <1>2, <1>3, <1>4

LEMMA CamIs ==
  ASSUME NEW ways
  PROVE  /\ \A c \in Cams(ways) : DOMAIN c \subseteq Nat /\ \A g \in DOMAIN c : c[g] \in 0 .. ways - 1
         /\ \A G \in SUBSET Nat : \A c \in [G -> 0 .. ways - 1] : c \in Cams(ways)
         /\ \A c \in Cams(ways) : c = [g \in DOMAIN c |-> c[g]]
BY DEF Cams

(* A row in which an entry is written, under its tag: the victim's tag, if  *)
(* the tag was not there, leads nowhere.                                    *)
Written(sets, e, c, key, data, w, e2, c2) ==
  /\ e2 = [e EXCEPT ![w] = Bingo!Entry(key, data)]
  /\ \/ TagIn(key, sets) \in DOMAIN c /\ w = c[TagIn(key, sets)] /\ c2 = c
     \/ /\ TagIn(key, sets) \notin DOMAIN c
        /\ \E gone : gone = (IF e[w].valid THEN {TagIn(e[w].key, sets)} ELSE {})
             /\ c2 = [h \in (DOMAIN c \ gone) \cup {TagIn(key, sets)} |->
                        IF h = TagIn(key, sets) THEN w ELSE c[h]]
Cleared(sets, e, c, key, e2, c2) ==
  /\ TagIn(key, sets) \in DOMAIN c
  /\ e2 = [e EXCEPT ![c[TagIn(key, sets)]] = Bingo!None]
  /\ c2 = [h \in DOMAIN c \ {TagIn(key, sets)} |-> c[h]]

LEMMA RowWritten ==
  ASSUME NEW K, NEW D, NEW sets, NEW ways, Sizes(K, sets, ways), NEW x, NEW e, NEW c,
         RowAgrees(K, D, sets, ways, x, e, c),
         NEW key \in K, NEW data \in D, Row(key, sets) = x, NEW w \in 0 .. ways - 1, NEW e2, NEW c2,
         Written(sets, e, c, key, data, w, e2, c2)
  PROVE  /\ RowAgrees(K, D, sets, ways, x, e2, c2)
         /\ RowFind(e2, c2, TagIn(key, sets)) = Bingo!Entry(key, data)
         /\ \A h : h # TagIn(key, sets) => RowFind(e2, c2, h) \in {RowFind(e, c, h), Bingo!None}
<1>1. PICK g : g = TagIn(key, sets)
  OBVIOUS
<1>2. g \in Nat
  BY <1>1, KeyIsPlace DEF Sizes
<1>3. PICK new : new = Bingo!Entry(key, data)
  OBVIOUS
<1>4. new \in Entries(K, D) /\ new.valid /\ new.key = key
  BY <1>3, EntryIs
<1>5. e \in [0 .. ways - 1 -> Entries(K, D)] /\ c \in Cams(ways)
  BY DEF RowAgrees
<1>6. /\ e2 \in [0 .. ways - 1 -> Entries(K, D)] /\ e2[w] = new
      /\ \A v \in 0 .. ways - 1 : v # w => e2[v] = e[v]
  BY <1>3, <1>4, <1>5 DEF Written
<1>7. DOMAIN c \subseteq Nat /\ \A h \in DOMAIN c : c[h] \in 0 .. ways - 1
  BY <1>5, CamIs
<1>8. ASSUME NEW h \in DOMAIN c  PROVE e[c[h]].valid /\ TagIn(e[c[h]].key, sets) = h
  BY DEF RowAgrees
<1>9. ASSUME NEW v \in 0 .. ways - 1, e[v].valid
      PROVE  /\ Row(e[v].key, sets) = x /\ TagIn(e[v].key, sets) \in DOMAIN c
             /\ c[TagIn(e[v].key, sets)] = v
  BY <1>9 DEF RowAgrees
<1>10. CASE g \in DOMAIN c /\ w = c[g] /\ c2 = c
  <2>1. ASSUME NEW h \in DOMAIN c2  PROVE e2[c2[h]].valid /\ TagIn(e2[c2[h]].key, sets) = h
    <3>1. CASE c[h] = w
      <4>1. h = g
        BY <1>8, <1>10, <2>1, <3>1
      <4> QED BY <1>1, <1>4, <1>6, <1>10, <3>1, <4>1
    <3>2. CASE c[h] # w
      BY <1>6, <1>7, <1>8, <1>10, <2>1, <3>2
    <3> QED BY <3>1, <3>2
  <2>2. ASSUME NEW v \in 0 .. ways - 1, e2[v].valid
        PROVE  /\ Row(e2[v].key, sets) = x /\ TagIn(e2[v].key, sets) \in DOMAIN c2
               /\ c2[TagIn(e2[v].key, sets)] = v
    <3>1. CASE v = w
      BY <1>1, <1>4, <1>6, <1>10, <3>1
    <3>2. CASE v # w
      BY <1>6, <1>9, <1>10, <2>2, <3>2
    <3> QED BY <3>1, <3>2
  <2>3. RowFind(e2, c2, g) = new
    BY <1>6, <1>10 DEF RowFind
  <2>4. ASSUME NEW h, h # g  PROVE RowFind(e2, c2, h) = RowFind(e, c, h)
    <3>1. CASE h \in DOMAIN c
      <4>1. c[h] # w
        BY <1>8, <1>10, <2>4, <3>1
      <4> QED BY <1>6, <1>7, <1>10, <3>1, <4>1 DEF RowFind
    <3>2. CASE h \notin DOMAIN c
      BY <1>10, <3>2 DEF RowFind
    <3> QED BY <3>1, <3>2
  <2>5. RowAgrees(K, D, sets, ways, x, e2, c2)
    BY <1>5, <1>6, <1>10, <2>1, <2>2 DEF RowAgrees
  <2> QED BY <1>1, <1>3, <2>3, <2>4, <2>5
<1>11. CASE g \notin DOMAIN c
  <2>1. PICK gone : /\ gone = (IF e[w].valid THEN {TagIn(e[w].key, sets)} ELSE {})
                    /\ c2 = [h \in (DOMAIN c \ gone) \cup {g} |-> IF h = g THEN w ELSE c[h]]
    BY <1>1, <1>11 DEF Written
  <2>2. PICK G : G = (DOMAIN c \ gone) \cup {g}
    OBVIOUS
  <2>3. DOMAIN c2 = G /\ \A h \in G : c2[h] = IF h = g THEN w ELSE c[h]
    BY <2>1, <2>2
  <2>4. G \in SUBSET Nat /\ g \in G
    BY <1>2, <1>7, <2>2
  <2>5. c2 \in [G -> 0 .. ways - 1]
    <3>1. \A h \in G : (IF h = g THEN w ELSE c[h]) \in 0 .. ways - 1
      BY <1>7, <2>2
    <3> QED BY <2>1, <2>2, <3>1
  <2>6. c2 \in Cams(ways)
    BY <2>4, <2>5, CamIs
  <2>7. ASSUME NEW h \in G, h # g  PROVE h \in DOMAIN c /\ c2[h] = c[h] /\ c[h] \in 0 .. ways - 1 /\ c[h] # w
    <3>1. h \in DOMAIN c /\ h \notin gone /\ c2[h] = c[h]
      BY <2>2, <2>3, <2>7
    <3>2. ASSUME c[h] = w  PROVE FALSE
      <4>1. e[w].valid /\ TagIn(e[w].key, sets) = h
        BY <1>8, <3>1, <3>2
      <4> QED BY <2>1, <3>1, <4>1
    <3> QED BY <1>7, <3>1, <3>2
  <2>8. ASSUME NEW h \in DOMAIN c2  PROVE e2[c2[h]].valid /\ TagIn(e2[c2[h]].key, sets) = h
    <3>1. CASE h = g
      BY <1>1, <1>4, <1>6, <2>3, <2>4, <3>1
    <3>2. CASE h # g
      <4>1. h \in DOMAIN c /\ c2[h] = c[h] /\ e2[c2[h]] = e[c[h]]
        BY <1>6, <2>3, <2>7, <3>2
      <4> QED BY <1>8, <4>1
    <3> QED BY <3>1, <3>2
  <2>9. ASSUME NEW v \in 0 .. ways - 1, e2[v].valid
        PROVE  /\ Row(e2[v].key, sets) = x /\ TagIn(e2[v].key, sets) \in DOMAIN c2
               /\ c2[TagIn(e2[v].key, sets)] = v
    <3>1. CASE v = w
      BY <1>1, <1>4, <1>6, <2>3, <2>4, <3>1
    <3>2. CASE v # w
      <4>1. PICK h : h = TagIn(e[v].key, sets)
        OBVIOUS
      <4>2. e2[v] = e[v] /\ Row(e[v].key, sets) = x /\ h \in DOMAIN c /\ c[h] = v
        BY <1>6, <1>9, <2>9, <3>2, <4>1
      <4>3. h # g
        BY <1>11, <4>2
      <4>4. h \notin gone
        <5>1. ASSUME e[w].valid, h = TagIn(e[w].key, sets)  PROVE FALSE
          <6>1. c[h] = w
            BY <1>9, <5>1
          <6> QED BY <3>2, <4>2, <6>1
        <5> QED BY <2>1, <5>1
      <4>5. h \in G /\ c2[h] = v
        BY <2>2, <2>3, <4>2, <4>3, <4>4
      <4> QED BY <2>3, <4>1, <4>2, <4>5
    <3> QED BY <3>1, <3>2
  <2>10. RowFind(e2, c2, g) = new
    BY <1>6, <2>3, <2>4 DEF RowFind
  <2>11. ASSUME NEW h, h # g  PROVE RowFind(e2, c2, h) \in {RowFind(e, c, h), Bingo!None}
    <3>1. CASE h \in G
      <4>1. e2[c2[h]] = e[c[h]] /\ h \in DOMAIN c
        BY <1>6, <2>7, <2>11, <3>1
      <4> QED BY <2>3, <3>1, <4>1 DEF RowFind
    <3>2. CASE h \notin G
      BY <2>3, <3>2 DEF RowFind
    <3> QED BY <3>1, <3>2
  <2>12. RowAgrees(K, D, sets, ways, x, e2, c2)
    BY <1>6, <2>6, <2>8, <2>9 DEF RowAgrees
  <2> QED BY <1>1, <1>3, <2>10, <2>11, <2>12
<1> QED BY <1>1, <1>10, <1>11 DEF Written

LEMMA RowCleared ==
  ASSUME NEW K, NEW D, NEW sets, NEW ways, Sizes(K, sets, ways), NEW x, NEW e, NEW c,
         RowAgrees(K, D, sets, ways, x, e, c), NEW key \in K, NEW e2, NEW c2,
         Cleared(sets, e, c, key, e2, c2)
  PROVE  /\ RowAgrees(K, D, sets, ways, x, e2, c2)
         /\ RowFind(e2, c2, TagIn(key, sets)) = Bingo!None
         /\ \A h : h # TagIn(key, sets) => RowFind(e2, c2, h) = RowFind(e, c, h)
<1>1. PICK g : g = TagIn(key, sets)
  OBVIOUS
<1>2. e \in [0 .. ways - 1 -> Entries(K, D)] /\ c \in Cams(ways) /\ g \in DOMAIN c
  BY <1>1 DEF RowAgrees, Cleared
<1>3. DOMAIN c \subseteq Nat /\ \A h \in DOMAIN c : c[h] \in 0 .. ways - 1
  BY <1>2, CamIs
<1>4. Bingo!None \in Entries(K, D) /\ ~Bingo!None.valid
  BY EntryIs DEF Entries
<1>5. /\ e2 \in [0 .. ways - 1 -> Entries(K, D)] /\ e2[c[g]] = Bingo!None
      /\ \A v \in 0 .. ways - 1 : v # c[g] => e2[v] = e[v]
  BY <1>1, <1>2, <1>3, <1>4 DEF Cleared
<1>6. DOMAIN c2 = DOMAIN c \ {g} /\ \A h \in DOMAIN c2 : c2[h] = c[h]
  BY <1>1 DEF Cleared
<1>7. c2 \in Cams(ways)
  <2>1. c2 \in [DOMAIN c \ {g} -> 0 .. ways - 1]
    BY <1>1, <1>3 DEF Cleared
  <2>2. DOMAIN c \ {g} \in SUBSET Nat
    BY <1>3
  <2> QED BY <2>1, <2>2, CamIs
<1>8. ASSUME NEW h \in DOMAIN c  PROVE e[c[h]].valid /\ TagIn(e[c[h]].key, sets) = h
  BY DEF RowAgrees
<1>9. ASSUME NEW v \in 0 .. ways - 1, e[v].valid
      PROVE  /\ Row(e[v].key, sets) = x /\ TagIn(e[v].key, sets) \in DOMAIN c
             /\ c[TagIn(e[v].key, sets)] = v
  BY <1>9 DEF RowAgrees
<1>10. ASSUME NEW h \in DOMAIN c2  PROVE e2[c2[h]] = e[c[h]] /\ h \in DOMAIN c
  <2>1. h \in DOMAIN c /\ h # g /\ c2[h] = c[h]
    BY <1>6
  <2>2. c[h] # c[g]
    BY <1>2, <1>8, <2>1
  <2> QED BY <1>3, <1>5, <2>1, <2>2
<1>11. \A h \in DOMAIN c2 : e2[c2[h]].valid /\ TagIn(e2[c2[h]].key, sets) = h
  BY <1>8, <1>10
<1>12. ASSUME NEW v \in 0 .. ways - 1, e2[v].valid
       PROVE  /\ Row(e2[v].key, sets) = x /\ TagIn(e2[v].key, sets) \in DOMAIN c2
              /\ c2[TagIn(e2[v].key, sets)] = v
  <2>1. v # c[g] /\ e2[v] = e[v]
    BY <1>4, <1>5, <1>12
  <2>2. PICK h : h = TagIn(e[v].key, sets)
    OBVIOUS
  <2>3. Row(e[v].key, sets) = x /\ h \in DOMAIN c /\ c[h] = v
    BY <1>9, <1>12, <2>1, <2>2
  <2> QED BY <1>6, <2>1, <2>2, <2>3
<1>13. RowAgrees(K, D, sets, ways, x, e2, c2)
  BY <1>5, <1>7, <1>11, <1>12 DEF RowAgrees
<1>14. RowFind(e2, c2, g) = Bingo!None
  BY <1>6 DEF RowFind
<1>15. ASSUME NEW h, h # g  PROVE RowFind(e2, c2, h) = RowFind(e, c, h)
  <2>1. CASE h \in DOMAIN c
    <3>1. h \in DOMAIN c2
      BY <1>6, <1>15, <2>1
    <3> QED BY <1>10, <2>1, <3>1 DEF RowFind
  <2>2. CASE h \notin DOMAIN c
    BY <1>6, <2>2 DEF RowFind
  <2> QED BY <2>1, <2>2
<1> QED BY <1>1, <1>13, <1>14, <1>15

(* What the operators of a table do: its keys are in these rows, and what   *)
(* find returns for one.                                                    *)
InRows(K, D, sets, ways, table) ==
  /\ DOMAIN table.entries = 0 .. sets - 1 /\ DOMAIN table.cams = 0 .. sets - 1
  /\ DOMAIN table.lru = 0 .. sets - 1 /\ table.lru \in [0 .. sets - 1 -> [0 .. ways - 1 -> Nat]]
  /\ table.t \in Nat
  /\ \A x \in 0 .. sets - 1 :
       /\ DOMAIN table.entries[x] = 0 .. ways - 1 /\ DOMAIN table.lru[x] = 0 .. ways - 1
       /\ RowAgrees(K, D, sets, ways, x, table.entries[x], table.cams[x])
  /\ \A k \in Nat : /\ Bingo!Index(table, k) = Row(k, sets) /\ Bingo!Tag(table, k) = TagIn(k, sets)
                  /\ Row(k, sets) \in 0 .. sets - 1
  /\ \A k \in K : Bingo!find(table, k) =
       RowFind(table.entries[Row(k, sets)], table.cams[Row(k, sets)], TagIn(k, sets))
Found(K, D, sets, table, k) ==
  LET e == Bingo!find(table, k)
  IN  /\ e \in Entries(K, D) /\ e.valid \in BOOLEAN
      /\ ~e.valid => e = Bingo!None
      /\ e.valid => e.key = k /\ e.data \in D
      /\ e.valid <=> TagIn(k, sets) \in DOMAIN table.cams[Row(k, sets)]

LEMMA TableIs ==
  ASSUME NEW K, NEW D, NEW sets, NEW ways, NEW table, Table(K, D, sets, ways, table)
  PROVE  InRows(K, D, sets, ways, table)
<1>0. Sizes(K, sets, ways)
  BY DEF Table
<1>1. table \in [entries : [0 .. sets - 1 -> [0 .. ways - 1 -> Entries(K, D)]],
                 cams : [0 .. sets - 1 -> Cams(ways)],
                 lru : [0 .. sets - 1 -> [0 .. ways - 1 -> Nat]], t : Nat]
  BY DEF Table
<1>2. /\ table.entries \in [0 .. sets - 1 -> [0 .. ways - 1 -> Entries(K, D)]]
      /\ table.cams \in [0 .. sets - 1 -> Cams(ways)]
      /\ table.lru \in [0 .. sets - 1 -> [0 .. ways - 1 -> Nat]] /\ table.t \in Nat
  BY <1>1
<1>3. /\ DOMAIN table.entries = 0 .. sets - 1 /\ DOMAIN table.cams = 0 .. sets - 1
      /\ DOMAIN table.lru = 0 .. sets - 1
  BY <1>2
<1>4. ASSUME NEW x \in 0 .. sets - 1
      PROVE  /\ DOMAIN table.entries[x] = 0 .. ways - 1 /\ DOMAIN table.lru[x] = 0 .. ways - 1
             /\ RowAgrees(K, D, sets, ways, x, table.entries[x], table.cams[x])
  BY <1>2 DEF Table
<1>5. Bingo!NumSets(table) = sets
  <2>1. sets \in Nat /\ sets - 1 \in 0 .. sets - 1 /\ \A y \in 0 .. sets - 1 : y <= sets - 1
    BY <1>0 DEF Sizes
  <2>2. Bingo!Max(0 .. sets - 1) = sets - 1
    <3>1. Bingo!Max(0 .. sets - 1) = CHOOSE x \in 0 .. sets - 1 : \A y \in 0 .. sets - 1 : x >= y
      BY DEF Bingo!Max
    <3>2. \A x \in 0 .. sets - 1 : (\A y \in 0 .. sets - 1 : x >= y) => x = sets - 1
      BY <2>1
    <3>3. \A y \in 0 .. sets - 1 : sets - 1 >= y
      BY <2>1
    <3>4. \E x \in 0 .. sets - 1 : \A y \in 0 .. sets - 1 : x >= y
      BY <2>1, <3>3
    <3> QED BY <3>1, <3>2, <3>4
  <2> QED BY <1>3, <2>1, <2>2 DEF Bingo!NumSets
<1>6. ASSUME NEW k \in Nat
      PROVE  /\ Bingo!Index(table, k) = Row(k, sets) /\ Bingo!Tag(table, k) = TagIn(k, sets)
             /\ Row(k, sets) \in 0 .. sets - 1
  <2>1. sets \in Nat \ {0}
    BY <1>0 DEF Sizes
  <2>2. Row(k, sets) \in 0 .. sets - 1
    BY <2>1, KeyIsPlace
  <2> QED BY <1>5, <2>2 DEF Bingo!Index, Bingo!Tag, Row, TagIn
<1>7. ASSUME NEW k \in K
      PROVE  Bingo!find(table, k) =
               RowFind(table.entries[Row(k, sets)], table.cams[Row(k, sets)], TagIn(k, sets))
  <2>1. k \in Nat
    BY <1>0 DEF Sizes
  <2> QED BY <1>6, <2>1 DEF Bingo!find, RowFind
<1> QED BY <1>2, <1>3, <1>4, <1>6, <1>7 DEF InRows


LEMMA FoundIs ==
  ASSUME NEW K, NEW D, NEW sets, NEW ways, NEW table, Table(K, D, sets, ways, table), NEW k \in K
  PROVE  Found(K, D, sets, table, k)
<1>0. Sizes(K, sets, ways) /\ InRows(K, D, sets, ways, table)
  BY TableIs DEF Table
<1>1. PICK x, g : x = Row(k, sets) /\ g = TagIn(k, sets)
  OBVIOUS
<1>2. k \in Nat /\ sets \in Nat \ {0}
  BY <1>0 DEF Sizes
<1>3. /\ x \in 0 .. sets - 1 /\ RowAgrees(K, D, sets, ways, x, table.entries[x], table.cams[x])
      /\ Bingo!find(table, k) = RowFind(table.entries[x], table.cams[x], g)
  BY <1>0, <1>1, <1>2 DEF InRows
<1>4. PICK e, c : e = table.entries[x] /\ c = table.cams[x]
  OBVIOUS
<1>5. CASE g \in DOMAIN c
  <2>1. e[c[g]].valid /\ TagIn(e[c[g]].key, sets) = g /\ c[g] \in 0 .. ways - 1
        /\ e[c[g]] \in Entries(K, D)
    BY <1>3, <1>4, <1>5, CamIs DEF RowAgrees
  <2>2. Row(e[c[g]].key, sets) = x /\ e[c[g]].key \in K /\ e[c[g]].data \in D
    BY <1>3, <1>4, <2>1, EntryIs DEF RowAgrees
  <2>3. e[c[g]].key \in Nat
    BY <1>0, <2>2 DEF Sizes
  <2>4. e[c[g]].key = k
    BY <1>1, <1>2, <2>1, <2>2, <2>3, PlaceIsKey
  <2>5. Bingo!find(table, k) = e[c[g]]
    BY <1>3, <1>4, <1>5 DEF RowFind
  <2> QED BY ZenonT(60), <1>1, <1>4, <1>5, <2>1, <2>2, <2>4, <2>5, EntryIs DEF Found
<1>6. CASE g \notin DOMAIN c
  <2>1. Bingo!find(table, k) = Bingo!None
    BY <1>3, <1>4, <1>6 DEF RowFind
  <2> QED BY <1>1, <1>4, <1>6, <2>1, EntryIs DEF Entries, Found
<1> QED BY <1>5, <1>6

(* The valid entries of a table are the ones that find returns. *)
LEMMA EntryIsFound ==
  ASSUME NEW K, NEW D, NEW sets, NEW ways, NEW table, Table(K, D, sets, ways, table),
         NEW x \in 0 .. sets - 1, NEW w \in 0 .. ways - 1, table.entries[x][w].valid
  PROVE  /\ table.entries[x][w].key \in K
         /\ Bingo!find(table, table.entries[x][w].key) = table.entries[x][w]
<1>0. InRows(K, D, sets, ways, table)
  BY TableIs
<1>1. PICK e, c : e = table.entries[x] /\ c = table.cams[x]
  OBVIOUS
<1>2. RowAgrees(K, D, sets, ways, x, e, c)
  BY <1>0, <1>1 DEF InRows
<1>3. e[w] \in Entries(K, D) /\ e[w].valid
  BY <1>1, <1>2 DEF RowAgrees
<1>4. PICK k : k = e[w].key
  OBVIOUS
<1>5. k \in K
  BY <1>3, <1>4, EntryIs
<1>6. Row(k, sets) = x /\ TagIn(k, sets) \in DOMAIN c /\ c[TagIn(k, sets)] = w
  BY <1>2, <1>3, <1>4 DEF RowAgrees
<1>7. Bingo!find(table, k) = RowFind(e, c, TagIn(k, sets))
  BY <1>0, <1>1, <1>5, <1>6 DEF InRows
<1>8. RowFind(e, c, TagIn(k, sets)) = e[w]
  BY <1>6 DEF RowFind
<1> QED BY <1>1, <1>4, <1>5, <1>7, <1>8

LEMMA KeysAreFound ==
  ASSUME NEW K, NEW D, NEW sets, NEW ways, NEW table, Table(K, D, sets, ways, table)
  PROVE  /\ Bingo!Keys(table) = {k \in K : Bingo!find(table, k).valid}
         /\ Bingo!MapsAgree(table)
<1>0. Sizes(K, sets, ways) /\ InRows(K, D, sets, ways, table) /\ \A k \in K : Found(K, D, sets, table, k)
  BY TableIs, FoundIs DEF Table
<1>1. /\ DOMAIN table.entries = 0 .. sets - 1 /\ DOMAIN table.cams = 0 .. sets - 1
      /\ \A x \in 0 .. sets - 1 :
           /\ DOMAIN table.entries[x] = 0 .. ways - 1
           /\ RowAgrees(K, D, sets, ways, x, table.entries[x], table.cams[x])
  BY <1>0 DEF InRows
<1>2. ASSUME NEW k \in Bingo!Keys(table)  PROVE k \in K /\ Bingo!find(table, k).valid
  <2>1. PICK x \in 0 .. sets - 1, w \in 0 .. ways - 1 :
          table.entries[x][w].valid /\ k = table.entries[x][w].key
    <3>1. PICK f \in UNION {Bingo!Range(table.entries[x]) : x \in DOMAIN table.entries} :
            f.valid /\ k = f.key
      BY DEF Bingo!Keys
    <3>2. PICK x \in 0 .. sets - 1 : f \in Bingo!Range(table.entries[x])
      BY <1>1, <3>1
    <3>3. PICK w \in 0 .. ways - 1 : f = table.entries[x][w]
      BY <1>1, <3>2 DEF Bingo!Range
    <3> QED BY <3>1, <3>3
  <2> QED BY <2>1, EntryIsFound
<1>3. ASSUME NEW k \in K, Bingo!find(table, k).valid  PROVE k \in Bingo!Keys(table)
  <2>1. PICK x, g : x = Row(k, sets) /\ g = TagIn(k, sets)
    OBVIOUS
  <2>2. PICK e, c : e = table.entries[x] /\ c = table.cams[x]
    OBVIOUS
  <2>3. k \in Nat
    BY <1>0 DEF Sizes
  <2>4. /\ x \in 0 .. sets - 1 /\ RowAgrees(K, D, sets, ways, x, e, c)
        /\ Bingo!find(table, k) = RowFind(e, c, g) /\ g \in DOMAIN c
    BY <1>0, <1>3, <2>1, <2>2, <2>3 DEF InRows, Found
  <2>5. PICK w : w = c[g]
    OBVIOUS
  <2>6. w \in 0 .. ways - 1 /\ Bingo!find(table, k) = e[w]
    BY <2>4, <2>5, CamIs DEF RowAgrees, RowFind
  <2>7. e[w].valid /\ e[w].key = k
    BY <1>0, <1>3, <2>6 DEF Found
  <2>8. e[w] \in Bingo!Range(table.entries[x])
    BY <1>1, <2>2, <2>4, <2>6 DEF Bingo!Range
  <2>9. e[w] \in UNION {Bingo!Range(table.entries[y]) : y \in DOMAIN table.entries}
    BY <1>1, <2>4, <2>8
  <2> QED BY <2>7, <2>9 DEF Bingo!Keys
<1>4. ASSUME NEW x \in 0 .. sets - 1, NEW g \in DOMAIN table.cams[x]
      PROVE  LET e == table.entries[x][table.cams[x][g]]
             IN e.valid /\ Bingo!Tag(table, e.key) = g /\ Bingo!Index(table, e.key) = x
  <2>1. PICK e, c : e = table.entries[x] /\ c = table.cams[x]
    OBVIOUS
  <2>2. RowAgrees(K, D, sets, ways, x, e, c)
    BY SMTT(60), <1>1, <2>1
  <2>3. c[g] \in 0 .. ways - 1 /\ e[c[g]] \in Entries(K, D) /\ e[c[g]].valid /\ TagIn(e[c[g]].key, sets) = g
    BY <2>1, <2>2, CamIs DEF RowAgrees
  <2>4. Row(e[c[g]].key, sets) = x /\ e[c[g]].key \in Nat
    BY ZenonT(60), <1>0, <2>2, <2>3, EntryIs DEF RowAgrees, Sizes
  <2> QED BY <1>0, <2>1, <2>3, <2>4 DEF InRows
<1>5. ASSUME NEW x \in 0 .. sets - 1, NEW w \in 0 .. ways - 1, table.entries[x][w].valid
      PROVE  Bingo!Cardinality({g \in DOMAIN table.cams[x] : table.cams[x][g] = w}) = 1
  <2>1. PICK e, c : e = table.entries[x] /\ c = table.cams[x]
    OBVIOUS
  <2>2. RowAgrees(K, D, sets, ways, x, e, c)
    BY <1>1, <2>1
  <2>3. PICK h : h = TagIn(e[w].key, sets)
    BY SMTT(60)
  <2>4. h \in DOMAIN c /\ c[h] = w
    BY <1>5, <2>1, <2>2, <2>3 DEF RowAgrees
  <2>5. \A g \in DOMAIN c : c[g] = w => g = h
    BY <2>2, <2>3 DEF RowAgrees
  <2>6. {g \in DOMAIN c : c[g] = w} = {h}
    BY <2>4, <2>5
  <2>7. Cardinality({h}) = 1
    BY FS_Singleton
  <2>8. Bingo!Cardinality({h}) = Cardinality({h})
    BY DEF Bingo!Cardinality, Cardinality
  <2> QED BY <2>1, <2>6, <2>7, <2>8
<1>6. \A k \in Bingo!Keys(table) : Bingo!find(table, k).valid /\ Bingo!find(table, k).key = k
  BY SMTT(60), <1>0, <1>2 DEF Found
<1>7. ASSUME NEW x \in 0 .. sets - 1
      PROVE  /\ \A g \in DOMAIN table.cams[x] :
                  LET e == table.entries[x][table.cams[x][g]]
                  IN e.valid /\ Bingo!Tag(table, e.key) = g /\ Bingo!Index(table, e.key) = x
             /\ \A w \in DOMAIN table.entries[x] : table.entries[x][w].valid =>
                  Bingo!Cardinality({g \in DOMAIN table.cams[x] : table.cams[x][g] = w}) = 1
  <2>1. \A g \in DOMAIN table.cams[x] :
          LET e == table.entries[x][table.cams[x][g]]
          IN e.valid /\ Bingo!Tag(table, e.key) = g /\ Bingo!Index(table, e.key) = x
    BY <1>4
  <2>2. ASSUME NEW w \in DOMAIN table.entries[x], table.entries[x][w].valid
        PROVE  Bingo!Cardinality({g \in DOMAIN table.cams[x] : table.cams[x][g] = w}) = 1
    <3>1. w \in 0 .. ways - 1
      BY <1>1
    <3> QED BY <1>5, <2>2, <3>1
  <2> QED BY SMTT(60), <2>1, <2>2
<1>8. Bingo!MapsAgree(table)
  BY <1>1, <1>6, <1>7 DEF Bingo!MapsAgree
<1> QED BY <1>2, <1>3, <1>8

(* What the operations of a table do to what it finds. *)
Same(K, table, table2) == \A j \in K : Bingo!find(table2, j) = Bingo!find(table, j)
Comes(K, table, key, data, table2) ==
  /\ Bingo!find(table2, key) = Bingo!Entry(key, data)
  /\ \A j \in K \ {key} : Bingo!find(table2, j) \in {Bingo!find(table, j), Bingo!None}
Leaves(K, table, key, table2) ==
  /\ Bingo!find(table2, key) = Bingo!None
  /\ \A j \in K \ {key} : Bingo!find(table2, j) = Bingo!find(table, j)

(* A table after one of its rows, or the times of its ways, have changed.   *)
RowSet(table, x, e, c, table2) == table2 = [table EXCEPT !.entries[x] = e, !.cams[x] = c]
TimesSet(table, lru, t, table2) == table2 = [table EXCEPT !.lru = lru, !.t = t]

LEMMA RowReplaced ==
  ASSUME NEW K, NEW D, NEW sets, NEW ways, NEW table, Table(K, D, sets, ways, table),
         NEW x \in 0 .. sets - 1, NEW e, NEW c, RowAgrees(K, D, sets, ways, x, e, c),
         NEW table2, RowSet(table, x, e, c, table2)
  PROVE  /\ Table(K, D, sets, ways, table2)
         /\ \A k \in K : Bingo!find(table2, k) =
              IF Row(k, sets) = x THEN RowFind(e, c, TagIn(k, sets)) ELSE Bingo!find(table, k)
<1>1. PICK E, C : E = [table.entries EXCEPT ![x] = e] /\ C = [table.cams EXCEPT ![x] = c]
  OBVIOUS
<1>2. /\ Sizes(K, sets, ways) /\ InRows(K, D, sets, ways, table)
      /\ table.entries \in [0 .. sets - 1 -> [0 .. ways - 1 -> Entries(K, D)]]
      /\ table.cams \in [0 .. sets - 1 -> Cams(ways)]
      /\ table.lru \in [0 .. sets - 1 -> [0 .. ways - 1 -> Nat]] /\ table.t \in Nat
      /\ table = [entries |-> table.entries, cams |-> table.cams, lru |-> table.lru, t |-> table.t]
  BY TableIs DEF Table
<1>3. /\ e \in [0 .. ways - 1 -> Entries(K, D)] /\ c \in Cams(ways)
  BY DEF RowAgrees
<1>4. /\ E \in [0 .. sets - 1 -> [0 .. ways - 1 -> Entries(K, D)]] /\ C \in [0 .. sets - 1 -> Cams(ways)]
      /\ E[x] = e /\ C[x] = c
      /\ \A y \in 0 .. sets - 1 : y # x => E[y] = table.entries[y] /\ C[y] = table.cams[y]
  BY <1>1, <1>2, <1>3
<1>5. table2 = [entries |-> E, cams |-> C, lru |-> table.lru, t |-> table.t]
  <2>1. PICK r : r = [table EXCEPT !.entries = E]
    OBVIOUS
  <2>2. r = [entries |-> E, cams |-> table.cams, lru |-> table.lru, t |-> table.t]
    BY <1>2, <2>1
  <2>3. table2 = [r EXCEPT !.cams = C]
    BY <1>1, <2>1 DEF RowSet
  <2> QED BY <2>2, <2>3
<1>6. table2.entries = E /\ table2.cams = C /\ table2.lru = table.lru /\ table2.t = table.t
  BY <1>5
<1>7. ASSUME NEW y \in 0 .. sets - 1  PROVE RowAgrees(K, D, sets, ways, y, E[y], C[y])
  BY <1>2, <1>4 DEF InRows
<1>8. Table(K, D, sets, ways, table2)
  BY <1>2, <1>4, <1>5, <1>6, <1>7 DEF Table
<1>9. InRows(K, D, sets, ways, table2)
  BY <1>8, TableIs
<1>10. ASSUME NEW k \in K
       PROVE  Bingo!find(table2, k) =
                IF Row(k, sets) = x THEN RowFind(e, c, TagIn(k, sets)) ELSE Bingo!find(table, k)
  <2>1. Row(k, sets) \in 0 .. sets - 1
    BY <1>2 DEF InRows, Sizes
  <2>2. /\ Bingo!find(table2, k) = RowFind(E[Row(k, sets)], C[Row(k, sets)], TagIn(k, sets))
        /\ Bingo!find(table, k) =
             RowFind(table.entries[Row(k, sets)], table.cams[Row(k, sets)], TagIn(k, sets))
    BY <1>2, <1>6, <1>9 DEF InRows
  <2> QED BY <1>4, <2>1, <2>2
<1> QED BY <1>8, <1>10

LEMMA TimesReplaced ==
  ASSUME NEW K, NEW D, NEW sets, NEW ways, NEW table, Table(K, D, sets, ways, table),
         NEW lru \in [0 .. sets - 1 -> [0 .. ways - 1 -> Nat]], NEW t \in Nat,
         NEW table2, TimesSet(table, lru, t, table2)
  PROVE  /\ Table(K, D, sets, ways, table2)
         /\ Same(K, table, table2)
<1>1. /\ InRows(K, D, sets, ways, table)
      /\ table.entries \in [0 .. sets - 1 -> [0 .. ways - 1 -> Entries(K, D)]]
      /\ table.cams \in [0 .. sets - 1 -> Cams(ways)]
      /\ table = [entries |-> table.entries, cams |-> table.cams, lru |-> table.lru, t |-> table.t]
  BY TableIs DEF Table
<1>2. table2 = [entries |-> table.entries, cams |-> table.cams, lru |-> lru, t |-> t]
  BY <1>1 DEF TimesSet
<1>3. table2.entries = table.entries /\ table2.cams = table.cams
  BY <1>2
<1>4. Table(K, D, sets, ways, table2)
  BY <1>1, <1>2, <1>3 DEF Table
<1>5. InRows(K, D, sets, ways, table2)
  BY <1>4, TableIs
<1> QED BY <1>1, <1>3, <1>4, <1>5 DEF InRows, Same

(* The times are finitely many, so they have ranks. *)
LEMMA TimesRenumbered ==
  ASSUME NEW sets \in Nat \ {0}, NEW ways, NEW lru \in [0 .. sets - 1 -> [0 .. ways - 1 -> Nat]],
         ways \in Nat \ {0}, NEW t
  PROVE  /\ Bingo!Renumbered(lru, t).lru \in [0 .. sets - 1 -> [0 .. ways - 1 -> Nat]]
         /\ Bingo!Renumbered(lru, t).t \in Nat
<1>1. PICK X, W : X = 0 .. sets - 1 /\ W = 0 .. ways - 1
  OBVIOUS
<1>2. 0 \in X /\ lru \in [X -> [W -> Nat]]
  BY <1>1
<1>3. DOMAIN lru = X /\ \A x \in X : DOMAIN lru[x] = W
  BY <1>2
<1>4. PICK times : times = UNION {Bingo!Range(lru[x]) : x \in X}
  OBVIOUS
<1> DEFINE Rank(n) == Bingo!Cardinality({y \in times : y < n /\ y # 0})
<1>5. IsFiniteSet(X) /\ IsFiniteSet(W)
  BY <1>1, FS_Interval
<1>6. IsFiniteSet(X \X W)
  BY <1>5, FS_Product
<1>7. PICK f : f = [p \in X \X W |-> lru[p[1]][p[2]]]
  OBVIOUS
<1>8. f \in Surjection(X \X W, times)
  <2>1. ASSUME NEW p \in X \X W  PROVE f[p] \in times
    <3>1. p[1] \in X /\ p[2] \in W /\ f[p] = lru[p[1]][p[2]]
      BY <1>7
    <3>2. f[p] \in Bingo!Range(lru[p[1]])
      BY <1>3, <3>1 DEF Bingo!Range
    <3> QED BY <1>4, <3>1, <3>2
  <2>2. ASSUME NEW n \in times  PROVE \E p \in X \X W : f[p] = n
    <3>1. PICK x \in X, w \in W : n = lru[x][w]
      <4>1. PICK x \in X : n \in Bingo!Range(lru[x])
        BY <1>4
      <4>2. PICK w \in W : n = lru[x][w]
        BY <1>3, <4>1 DEF Bingo!Range
      <4> QED BY <4>2
    <3>2. <<x, w>> \in X \X W /\ f[<<x, w>>] = n
      BY <1>7, <3>1
    <3> QED BY <3>2
  <2> QED BY <1>7, <2>1, <2>2 DEF Surjection
<1>9. IsFiniteSet(times)
  BY <1>6, <1>8, FS_Surjection
<1>10. ASSUME NEW T \in SUBSET times  PROVE Bingo!Cardinality(T) \in Nat
  <2>1. Cardinality(T) \in Nat
    BY <1>9, FS_Subset, FS_CardinalityType
  <2>2. Bingo!Cardinality(T) = Cardinality(T)
    BY DEF Bingo!Cardinality, Cardinality
  <2> QED BY <2>1, <2>2
<1>11. ASSUME NEW n  PROVE Rank(n) \in Nat
  BY <1>10
<1>12. Bingo!Cardinality(times \ {0}) \in Nat
  BY <1>10
<1>13. PICK r : r = Bingo!Renumbered(lru, t)
  OBVIOUS
<1>14. r = [lru |-> [x \in DOMAIN lru |-> [w \in DOMAIN lru[x] |->
                       IF lru[x][w] = 0 THEN 0 ELSE 1 + Rank(lru[x][w])]],
            t |-> 1 + Bingo!Cardinality(times \ {0})]
  BY <1>3, <1>4, <1>13 DEF Bingo!Renumbered
<1> HIDE DEF Rank
<1>15. /\ r.lru = [x \in DOMAIN lru |-> [w \in DOMAIN lru[x] |->
                     IF lru[x][w] = 0 THEN 0 ELSE 1 + Rank(lru[x][w])]]
       /\ r.t = 1 + Bingo!Cardinality(times \ {0})
  BY <1>14
<1>16. ASSUME NEW x \in X, NEW w \in W
       PROVE  (IF lru[x][w] = 0 THEN 0 ELSE 1 + Rank(lru[x][w])) \in Nat
  BY <1>11
<1>17. r.lru \in [X -> [W -> Nat]]
  BY <1>3, <1>15, <1>16
<1> QED BY <1>1, <1>12, <1>13, <1>15, <1>17

LEMMA MostRecentSet ==
  ASSUME NEW K, NEW D, NEW sets, NEW ways, NEW table, Table(K, D, sets, ways, table), NEW key \in K
  PROVE  /\ Bingo!find(table, key).valid => Table(K, D, sets, ways, Bingo!set_mru(table, key))
         /\ Bingo!find(table, key).valid => Same(K, table, Bingo!set_mru(table, key))
<1> SUFFICES ASSUME Bingo!find(table, key).valid
             PROVE  /\ Table(K, D, sets, ways, Bingo!set_mru(table, key))
                    /\ Same(K, table, Bingo!set_mru(table, key))
  OBVIOUS
<1>1. /\ Sizes(K, sets, ways) /\ InRows(K, D, sets, ways, table) /\ Found(K, D, sets, table, key)
  BY TableIs, FoundIs DEF Table
<1>2. PICK x, way : x = Row(key, sets) /\ way = table.cams[x][TagIn(key, sets)]
  OBVIOUS
<1>3. /\ key \in Nat /\ x \in 0 .. sets - 1 /\ Bingo!Index(table, key) = x
      /\ Bingo!Tag(table, key) = TagIn(key, sets)
      /\ RowAgrees(K, D, sets, ways, x, table.entries[x], table.cams[x])
      /\ table.lru \in [0 .. sets - 1 -> [0 .. ways - 1 -> Nat]] /\ table.t \in Nat
  BY <1>1, <1>2 DEF InRows, Sizes
<1>4. way \in 0 .. ways - 1
  BY <1>1, <1>2, <1>3, CamIs DEF Found, RowAgrees
<1>5. PICK lru : lru = [table.lru EXCEPT ![x][way] = table.t]
  OBVIOUS
<1>6. lru \in [0 .. sets - 1 -> [0 .. ways - 1 -> Nat]]
  BY <1>3, <1>4, <1>5
<1>7. PICK r : r = Bingo!Renumbered(lru, table.t)
  OBVIOUS
<1>8. r.lru \in [0 .. sets - 1 -> [0 .. ways - 1 -> Nat]] /\ r.t \in Nat
  BY <1>1, <1>6, <1>7, TimesRenumbered DEF Sizes
<1>9. Bingo!set_mru(table, key) = [table EXCEPT !.lru = r.lru, !.t = r.t]
  BY <1>2, <1>3, <1>5, <1>7 DEF Bingo!set_mru
<1>10. PICK table2 : table2 = Bingo!set_mru(table, key)
  OBVIOUS
<1>11. TimesSet(table, r.lru, r.t, table2)
  BY <1>9, <1>10 DEF TimesSet
<1>12. Table(K, D, sets, ways, table2) /\ Same(K, table, table2)
  BY <1>8, <1>11, TimesReplaced
<1> QED BY <1>10, <1>12

LEMMA VictimIsThere ==
  ASSUME NEW K, NEW D, NEW sets, NEW ways, NEW table, Table(K, D, sets, ways, table),
         NEW x \in 0 .. sets - 1
  PROVE  Bingo!victim_way(table, x) \in 0 .. ways - 1
<1>1. Sizes(K, sets, ways) /\ InRows(K, D, sets, ways, table)
  BY TableIs DEF Table
<1>2. PICK W, lru : W = 0 .. ways - 1 /\ lru = table.lru[x]
  OBVIOUS
<1>3. lru \in [W -> Nat] /\ DOMAIN table.entries[x] = W /\ 0 \in W /\ W \in SUBSET Nat
  <2>1. table.lru[x] \in [0 .. ways - 1 -> Nat] /\ DOMAIN table.entries[x] = 0 .. ways - 1
    BY <1>1 DEF InRows
  <2>2. 0 \in 0 .. ways - 1 /\ (0 .. ways - 1) \in SUBSET Nat
    BY <1>1 DEF Sizes
  <2> QED BY <1>2, <2>1, <2>2
<1>4. PICK free, least : /\ free = {w \in W : ~table.entries[x][w].valid}
                         /\ least = {w \in W : \A v \in W : lru[w] <= lru[v]}
  OBVIOUS
<1>5. least # {}
  <2>1. PICK T : T = {lru[w] : w \in W}
    OBVIOUS
  <2>2. T \in SUBSET Nat /\ T # {}
    BY <1>3, <2>1
  <2>3. PICK n \in T : \A m \in T : n <= m
    BY <2>2, LeastNumber
  <2>4. PICK w \in W : lru[w] = n
    BY <2>1, <2>3
  <2>5. w \in least
    BY <1>4, <2>1, <2>3, <2>4
  <2> QED BY <2>5
<1>6. PICK S : S = IF free # {} THEN free ELSE least
  OBVIOUS
<1>7. S \in SUBSET Nat /\ S # {} /\ S \subseteq W
  BY <1>3, <1>4, <1>5, <1>6
<1>8. PICK n \in S : \A m \in S : n <= m
  BY <1>7, LeastNumber
<1>9. Bingo!Min(S) \in S
  BY <1>8 DEF Bingo!Min
<1>10. Bingo!victim_way(table, x) = Bingo!Min(S)
  BY <1>2, <1>3, <1>4, <1>6 DEF Bingo!victim_way
<1> QED BY <1>2, <1>7, <1>9, <1>10

LEMMA TableInserted ==
  ASSUME NEW K, NEW D, NEW sets, NEW ways, NEW table, Table(K, D, sets, ways, table),
         NEW key \in K, NEW data \in D
  PROVE  /\ Table(K, D, sets, ways, Bingo!insert(table, key, data))
         /\ Comes(K, table, key, data, Bingo!insert(table, key, data))
<1>1. Sizes(K, sets, ways) /\ InRows(K, D, sets, ways, table)
  BY TableIs DEF Table
<1>2. PICK x, g : x = Row(key, sets) /\ g = TagIn(key, sets)
  OBVIOUS
<1>3. PICK e, c : e = table.entries[x] /\ c = table.cams[x]
  OBVIOUS
<1>4. /\ key \in Nat /\ x \in 0 .. sets - 1 /\ Bingo!Index(table, key) = x
      /\ Bingo!Tag(table, key) = g /\ RowAgrees(K, D, sets, ways, x, e, c)
      /\ Bingo!find(table, key) = RowFind(e, c, g)
  BY <1>1, <1>2, <1>3 DEF InRows, Sizes
<1>5. PICK w : w = IF g \in DOMAIN c THEN c[g] ELSE Bingo!victim_way(table, x)
  OBVIOUS
<1>6. w \in 0 .. ways - 1
  <2>1. CASE g \in DOMAIN c
    BY <1>4, <1>5, <2>1, CamIs DEF RowAgrees
  <2>2. CASE g \notin DOMAIN c
    BY <1>4, <1>5, <2>2, VictimIsThere
  <2> QED BY <2>1, <2>2
<1>7. PICK gone : gone = (IF e[w].valid THEN {TagIn(e[w].key, sets)} ELSE {})
  OBVIOUS
<1>8. gone = (IF e[w].valid THEN {Bingo!Tag(table, e[w].key)} ELSE {})
  <2>1. CASE e[w].valid
    <3>1. e[w] \in Entries(K, D)
      BY <1>4, <1>6 DEF RowAgrees
    <3>2. e[w].key \in K
      BY <2>1, <3>1, EntryIs
    <3> QED BY <1>1, <1>7, <3>2 DEF InRows, Sizes
  <2>2. CASE ~e[w].valid
    BY <1>7, <2>2
  <2> QED BY <2>1, <2>2
<1>9. PICK e2, c2 : /\ e2 = [e EXCEPT ![w] = Bingo!Entry(key, data)]
                    /\ c2 = IF g \in DOMAIN c THEN c
                            ELSE [h \in (DOMAIN c \ gone) \cup {g} |-> IF h = g THEN w ELSE c[h]]
  OBVIOUS
<1>10. Written(sets, e, c, key, data, w, e2, c2)
  BY ZenonT(60), <1>2, <1>5, <1>7, <1>9 DEF Written
<1>11. /\ RowAgrees(K, D, sets, ways, x, e2, c2)
       /\ RowFind(e2, c2, g) = Bingo!Entry(key, data)
       /\ \A h : h # g => RowFind(e2, c2, h) \in {RowFind(e, c, h), Bingo!None}
  BY <1>1, <1>2, <1>4, <1>6, <1>10, RowWritten
<1>12. PICK table2 : table2 = Bingo!insert(table, key, data)
  OBVIOUS
<1>13. RowSet(table, x, e2, c2, table2)
  <2>1. c2 = IF g \in DOMAIN c THEN c ELSE Bingo!CamAfter(c, gone, g, w)
    BY SMTT(60), <1>9 DEF Bingo!CamAfter
  <2>2. table2 = [table EXCEPT !.entries[x][w] = Bingo!Entry(key, data),
                               !.cams[x] = IF g \in DOMAIN c THEN @ ELSE Bingo!CamAfter(@, gone, g, w)]
    BY <1>3, <1>4, <1>5, <1>8, <1>12 DEF Bingo!insert
  <2>3. table2 = [table EXCEPT !.entries[x] = e2, !.cams[x] = c2]
    BY <1>3, <1>9, <2>1, <2>2
  <2> QED BY <2>3 DEF RowSet
<1>14. /\ Table(K, D, sets, ways, table2)
       /\ \A k \in K : Bingo!find(table2, k) =
            IF Row(k, sets) = x THEN RowFind(e2, c2, TagIn(k, sets)) ELSE Bingo!find(table, k)
  BY <1>4, <1>11, <1>13, RowReplaced
<1>15. Bingo!find(table2, key) = Bingo!Entry(key, data)
  BY <1>2, <1>11, <1>14
<1>16. ASSUME NEW j \in K \ {key}
       PROVE  Bingo!find(table2, j) \in {Bingo!find(table, j), Bingo!None}
  <2>1. CASE Row(j, sets) = x
    <3>1. j \in Nat /\ sets \in Nat \ {0}
      BY <1>1 DEF Sizes
    <3>2. TagIn(j, sets) # g
      BY <1>2, <1>4, <2>1, <3>1, PlaceIsKey
    <3>3. Bingo!find(table, j) = RowFind(e, c, TagIn(j, sets))
      BY <1>1, <1>3, <2>1 DEF InRows
    <3> QED BY <1>11, <1>14, <2>1, <3>2, <3>3
  <2>2. CASE Row(j, sets) # x
    BY <1>14, <2>2
  <2> QED BY <2>1, <2>2
<1> QED BY <1>12, <1>14, <1>15, <1>16 DEF Comes

LEMMA PutIn ==
  ASSUME NEW K, NEW D, NEW sets, NEW ways, NEW table, Table(K, D, sets, ways, table),
         NEW key \in K, NEW data \in D
  PROVE  /\ Table(K, D, sets, ways, Bingo!Put(table, key, data))
         /\ Comes(K, table, key, data, Bingo!Put(table, key, data))
<1>1. PICK table2 : table2 = Bingo!insert(table, key, data)
  OBVIOUS
<1>2. Table(K, D, sets, ways, table2) /\ Comes(K, table, key, data, table2)
  BY <1>1, TableInserted
<1>3. Bingo!find(table2, key).valid
  BY <1>2, EntryIs DEF Comes
<1>4. PICK table3 : table3 = Bingo!set_mru(table2, key)
  OBVIOUS
<1>5. Table(K, D, sets, ways, table3) /\ Same(K, table2, table3)
  BY <1>2, <1>3, <1>4, MostRecentSet
<1>6. Comes(K, table, key, data, table3)
  BY <1>2, <1>5 DEF Comes, Same
<1>7. Bingo!Put(table, key, data) = table3
  BY <1>1, <1>4 DEF Bingo!Put
<1> QED BY <1>5, <1>6, <1>7

LEMMA TableErased ==
  ASSUME NEW K, NEW D, NEW sets, NEW ways, NEW table, Table(K, D, sets, ways, table), NEW key \in K
  PROVE  /\ Table(K, D, sets, ways, Bingo!erase(table, key))
         /\ Leaves(K, table, key, Bingo!erase(table, key))
<1>1. /\ Sizes(K, sets, ways) /\ InRows(K, D, sets, ways, table) /\ Found(K, D, sets, table, key)
  BY TableIs, FoundIs DEF Table
<1>2. PICK x, g : x = Row(key, sets) /\ g = TagIn(key, sets)
  OBVIOUS
<1>3. PICK e, c : e = table.entries[x] /\ c = table.cams[x]
  OBVIOUS
<1>4. /\ key \in Nat /\ x \in 0 .. sets - 1 /\ Bingo!Index(table, key) = x
      /\ Bingo!Tag(table, key) = g /\ RowAgrees(K, D, sets, ways, x, e, c)
      /\ Bingo!find(table, key) = RowFind(e, c, g)
  BY <1>1, <1>2, <1>3 DEF InRows, Sizes
<1>5. PICK table2 : table2 = Bingo!erase(table, key)
  OBVIOUS
<1>6. CASE g \notin DOMAIN c
  <2>1. table2 = table
    BY <1>3, <1>4, <1>5, <1>6 DEF Bingo!erase
  <2>2. Bingo!find(table, key) = Bingo!None
    BY <1>4, <1>6 DEF RowFind
  <2>3. Leaves(K, table, key, table2)
    BY <2>1, <2>2 DEF Leaves
  <2> QED BY <1>5, <2>1, <2>3
<1>7. CASE g \in DOMAIN c
  <2>1. PICK e2, c2 : e2 = [e EXCEPT ![c[g]] = Bingo!None] /\ c2 = [h \in DOMAIN c \ {g} |-> c[h]]
    OBVIOUS
  <2>2. Cleared(sets, e, c, key, e2, c2)
    BY <1>2, <1>7, <2>1 DEF Cleared
  <2>3. /\ RowAgrees(K, D, sets, ways, x, e2, c2)
        /\ RowFind(e2, c2, g) = Bingo!None
        /\ \A h : h # g => RowFind(e2, c2, h) = RowFind(e, c, h)
    <3>1. /\ RowAgrees(K, D, sets, ways, x, e2, c2)
          /\ RowFind(e2, c2, TagIn(key, sets)) = Bingo!None
          /\ \A h : h # TagIn(key, sets) => RowFind(e2, c2, h) = RowFind(e, c, h)
      BY <1>1, <1>4, <2>2, RowCleared
    <3> QED BY <1>2, <3>1
  <2>4. RowSet(table, x, e2, c2, table2)
    <3>1. table2 = [table EXCEPT !.entries[x][c[g]] = Bingo!None, !.cams[x] = c2]
      BY <1>3, <1>4, <1>5, <1>7, <2>1 DEF Bingo!erase
    <3>2. table2 = [table EXCEPT !.entries[x] = e2, !.cams[x] = c2]
      BY <1>3, <2>1, <3>1
    <3> QED BY <3>2 DEF RowSet
  <2>5. /\ Table(K, D, sets, ways, table2)
        /\ \A k \in K : Bingo!find(table2, k) =
             IF Row(k, sets) = x THEN RowFind(e2, c2, TagIn(k, sets)) ELSE Bingo!find(table, k)
    BY <1>4, <2>3, <2>4, RowReplaced
  <2>6. Bingo!find(table2, key) = Bingo!None
    BY <1>2, <2>3, <2>5
  <2>7. ASSUME NEW j \in K \ {key}  PROVE Bingo!find(table2, j) = Bingo!find(table, j)
    <3>1. CASE Row(j, sets) = x
      <4>1. j \in Nat /\ sets \in Nat \ {0}
        BY <1>1 DEF Sizes
      <4>2. TagIn(j, sets) # g
        BY <1>2, <1>4, <3>1, <4>1, PlaceIsKey
      <4>3. Bingo!find(table, j) = RowFind(e, c, TagIn(j, sets))
        BY <1>1, <1>3, <3>1 DEF InRows
      <4> QED BY <2>3, <2>5, <3>1, <4>2, <4>3
    <3>2. CASE Row(j, sets) # x
      BY <2>5, <3>2
    <3> QED BY <3>1, <3>2
  <2> QED BY <1>5, <2>5, <2>6, <2>7 DEF Leaves
<1> QED BY <1>6, <1>7

(* What an insertion overwrites was there. *)
LEMMA ReplacedIs ==
  ASSUME NEW K, NEW D, NEW sets, NEW ways, NEW table, Table(K, D, sets, ways, table), NEW key \in K
  PROVE  LET e == Bingo!replaced(table, key)
         IN e.valid => e.key \in K /\ Bingo!find(table, e.key) = e
<1>1. /\ Sizes(K, sets, ways) /\ InRows(K, D, sets, ways, table) /\ Found(K, D, sets, table, key)
  BY TableIs, FoundIs DEF Table
<1>2. CASE Bingo!find(table, key).valid
  BY <1>1, <1>2 DEF Found, Bingo!replaced
<1>3. CASE ~Bingo!find(table, key).valid
  <2>1. PICK x, w : x = Bingo!Index(table, key) /\ w = Bingo!victim_way(table, x)
    OBVIOUS
  <2>2. x \in 0 .. sets - 1
    BY <1>1, <2>1 DEF InRows, Sizes
  <2>3. w \in 0 .. ways - 1
    BY <2>1, <2>2, VictimIsThere
  <2>4. Bingo!replaced(table, key) = table.entries[x][w]
    BY <1>3, <2>1 DEF Bingo!replaced
  <2> QED BY <2>2, <2>3, <2>4, EntryIsFound
<1> QED BY <1>2, <1>3

LEMMA EmptyIsTable ==
  ASSUME NEW K, NEW D, NEW sets, NEW ways, Sizes(K, sets, ways)
  PROVE  /\ Table(K, D, sets, ways, Bingo!EmptyTable(sets, ways))
         /\ \A k \in K : Bingo!find(Bingo!EmptyTable(sets, ways), k) = Bingo!None
<1>1. PICK table : table = Bingo!EmptyTable(sets, ways)
  OBVIOUS
<1>2. PICK c : c = << >>
  OBVIOUS
<1>3. c = << >> /\ DOMAIN c = {} /\ c \in Cams(ways)
  <2>1. DOMAIN c = {}
    BY <1>2
  <2>2. c = [g \in {} |-> c[g]]
    BY <2>1
  <2>3. c \in [{} -> 0 .. ways - 1]
    BY <2>2
  <2>4. {} \in SUBSET Nat
    OBVIOUS
  <2> QED BY <1>2, <2>1, <2>3, <2>4, CamIs
<1>4. PICK e : e = [w \in 0 .. ways - 1 |-> Bingo!None]
  OBVIOUS
<1>5. e \in [0 .. ways - 1 -> Entries(K, D)] /\ \A w \in 0 .. ways - 1 : ~e[w].valid
  BY <1>4, EntryIs DEF Entries
<1>6. table = [entries |-> [x \in 0 .. sets - 1 |-> e], cams |-> [x \in 0 .. sets - 1 |-> c],
               lru |-> [x \in 0 .. sets - 1 |-> [w \in 0 .. ways - 1 |-> 0]], t |-> 1]
  BY <1>1, <1>3, <1>4 DEF Bingo!EmptyTable
<1>7. /\ table.entries = [x \in 0 .. sets - 1 |-> e] /\ table.cams = [x \in 0 .. sets - 1 |-> c]
      /\ table.lru \in [0 .. sets - 1 -> [0 .. ways - 1 -> Nat]] /\ table.t \in Nat
      /\ table = [entries |-> table.entries, cams |-> table.cams, lru |-> table.lru, t |-> table.t]
  BY <1>6
<1>8. \A x : RowAgrees(K, D, sets, ways, x, e, c)
  BY <1>3, <1>5 DEF RowAgrees
<1>9. /\ table.entries \in [0 .. sets - 1 -> [0 .. ways - 1 -> Entries(K, D)]]
      /\ table.cams \in [0 .. sets - 1 -> Cams(ways)]
  BY <1>3, <1>5, <1>7
<1>10. Table(K, D, sets, ways, table)
  BY <1>7, <1>8, <1>9 DEF Table
<1>11. InRows(K, D, sets, ways, table)
  BY <1>10, TableIs
<1>12. ASSUME NEW k \in K  PROVE Bingo!find(table, k) = Bingo!None
  <2>1. Row(k, sets) \in 0 .. sets - 1 /\ Bingo!find(table, k) =
          RowFind(table.entries[Row(k, sets)], table.cams[Row(k, sets)], TagIn(k, sets))
    BY <1>11 DEF InRows, Sizes
  <2> QED BY <1>3, <1>7, <2>1 DEF RowFind
<1> QED BY <1>1, <1>10, <1>12

-----------------------------------------------------------------------------
(* Bingo.  What its tables hold: the first block of a generation; one that  *)
(* grows; a pattern as the block that opened it saw it; one to prefetch.    *)
BingoAssumed ==
  /\ Len1 \in Nat \ {0} /\ Region \subseteq Nat /\ \E m \in Nat : Pc = 0 .. m
  /\ FtSets \in Nat \ {0} /\ FtWays \in Nat \ {0} /\ AtSets \in Nat \ {0} /\ AtWays \in Nat \ {0}
  /\ PhtSets \in Nat \ {0} /\ PhtWays \in Nat \ {0} /\ PfSets \in Nat \ {0} /\ PfWays \in Nat \ {0}

Waits == [pc : Pc, offset : Bingo!Block]
Grows == {d \in [pc : Pc, offset : Bingo!Block, pattern : SUBSET Bingo!Block] : d.offset \in d.pattern}
Seen == {p \in SUBSET Bingo!Block : 0 \in p}
Wanted == (SUBSET Bingo!Block) \ {{}}

FilterTable(table) == Table(Region, Waits, FtSets, FtWays, table)
GrowthTable(table) == Table(Region, Grows, AtSets, AtWays, table)
HistoryTable(table) == Table(Nat, Seen, PhtSets, PhtWays, table)
StreamTable(table) == Table(Region, Wanted, PfSets, PfWays, table)

LEMMA WantedIs == \A p : (p \in Wanted) <=> (p \in SUBSET Bingo!Block /\ p # {})
<1>1. ASSUME NEW p  PROVE (p \in {{}}) <=> (p = {})
  OBVIOUS
<1>2. ASSUME NEW p  PROVE (p \in Wanted) <=> (p \in SUBSET Bingo!Block /\ p \notin {{}})
  BY DEF Wanted
<1> QED BY <1>1, <1>2, Zenon

LEMMA BingoSizes ==
  ASSUME BingoAssumed
  PROVE  /\ Sizes(Region, FtSets, FtWays) /\ Sizes(Region, AtSets, AtWays)
         /\ Sizes(Nat, PhtSets, PhtWays) /\ Sizes(Region, PfSets, PfWays)
BY DEF BingoAssumed, Sizes

LEMMA Rotated ==
  ASSUME BingoAssumed, NEW p \in SUBSET Bingo!Block, NEW n \in Int
  PROVE  /\ Bingo!my_rotate(p, n) \in SUBSET Bingo!Block
         /\ p # {} => Bingo!my_rotate(p, n) # {}
         /\ -n \in p => 0 \in Bingo!my_rotate(p, n)
<1>1. Len1 \in Nat \ {0} /\ p \in SUBSET Int
  BY DEF BingoAssumed, Bingo!Block
<1>2. ASSUME NEW b \in p  PROVE (b + n + Len1) % Len1 \in Bingo!Block
  <2>1. b + n + Len1 \in Int
    BY <1>1
  <2>2. ASSUME NEW i \in Int  PROVE i % Len1 \in 0 .. Len1 - 1
    BY <1>1
  <2> QED BY <2>1, <2>2 DEF Bingo!Block
<1>3. ASSUME -n \in p  PROVE 0 \in Bingo!my_rotate(p, n)
  <2>1. (-n) + n + Len1 = Len1
    BY <1>1
  <2>2. Len1 % Len1 = 0
    BY <1>1
  <2>3. ((-n) + n + Len1) % Len1 = 0
    BY <2>1, <2>2
  <2> QED BY <1>3, <2>3 DEF Bingo!my_rotate
<1> QED BY <1>2, <1>3 DEF Bingo!my_rotate

LEMMA HistoryKey ==
  ASSUME BingoAssumed, NEW pc \in Pc, NEW region \in Region, NEW offset \in Bingo!Block
  PROVE  Bingo!build_key(pc, region, offset) \in Nat
<1>1. PICK m \in Nat : Pc = 0 .. m
  BY DEF BingoAssumed
<1>2. Bingo!Max(Pc) \in Pc
  <2>1. m \in Pc /\ \A y \in Pc : m >= y
    BY <1>1
  <2> QED BY <2>1 DEF Bingo!Max
<1>3. /\ Len1 \in Nat /\ region \in Nat /\ offset \in Nat /\ pc \in Nat
      /\ Bingo!Max(Pc) + 1 \in Nat
  BY <1>1, <1>2 DEF BingoAssumed, Bingo!Block
<1>4. \A a, b \in Nat : a * b \in Nat /\ a + b \in Nat
  OBVIOUS
<1>5. Bingo!Base \in Nat
  BY <1>3, <1>4 DEF Bingo!Base
<1>6. region * Bingo!Base \in Nat /\ pc * Len1 \in Nat
  BY <1>3, <1>4, <1>5
<1> QED BY <1>3, <1>6 DEF Bingo!build_key

LEMMA HistoryInserted ==
  ASSUME BingoAssumed, NEW pht, HistoryTable(pht), NEW e, e.key \in Region, e.data \in Grows
  PROVE  HistoryTable(Bingo!insert_in_pht(pht, e))
<1>1. PICK d : d = e.data
  OBVIOUS
<1>2. d.pc \in Pc /\ d.offset \in Bingo!Block /\ d.pattern \in SUBSET Bingo!Block /\ d.offset \in d.pattern
  BY <1>1 DEF Grows
<1>3. PICK key : key = Bingo!build_key(d.pc, e.key, d.offset)
  OBVIOUS
<1>4. key \in Nat
  BY <1>2, <1>3, HistoryKey
<1>5. d.offset \in Int /\ -d.offset \in Int /\ -(-d.offset) = d.offset
  BY <1>2 DEF Bingo!Block, BingoAssumed
<1>6. PICK p : p = Bingo!my_rotate(d.pattern, -d.offset)
  OBVIOUS
<1>7. p \in Seen
  BY <1>2, <1>5, <1>6, Rotated DEF Seen
<1>8. Bingo!insert_in_pht(pht, e) = Bingo!Put(pht, key, p)
  BY <1>1, <1>3, <1>6 DEF Bingo!insert_in_pht
<1> QED BY <1>4, <1>7, <1>8, PutIn DEF HistoryTable

LEMMA HistoryFound ==
  ASSUME BingoAssumed, NEW pht, HistoryTable(pht),
         NEW pc \in Pc, NEW region \in Region, NEW offset \in Bingo!Block
  PROVE  LET found == Bingo!find_in_pht(pht, pc, region, offset)
         IN HistoryTable(found.pht) /\ (found.hit => found.pattern \in Wanted)
<1>1. PICK key : key = Bingo!build_key(pc, region, offset)
  OBVIOUS
<1>2. key \in Nat /\ offset \in Int
  BY <1>1, HistoryKey DEF Bingo!Block, BingoAssumed
<1>3. Found(Nat, Seen, PhtSets, pht, key)
  BY <1>2, FoundIs DEF HistoryTable
<1>4. CASE Bingo!find(pht, key).valid
  <2>1. PICK p : p = Bingo!find(pht, key).data
    OBVIOUS
  <2>2. p \in SUBSET Bingo!Block /\ p # {}
    BY <1>3, <1>4, <2>1 DEF Found, Seen
  <2>3. Bingo!my_rotate(p, offset) \in Wanted
    BY <1>2, <2>2, Rotated, WantedIs
  <2>4. PICK table : table = Bingo!set_mru(pht, key)
    OBVIOUS
  <2>5. HistoryTable(table)
    BY <1>2, <1>4, <2>4, MostRecentSet DEF HistoryTable
  <2>6. Bingo!find_in_pht(pht, pc, region, offset) =
          [pht |-> table, hit |-> TRUE, pattern |-> Bingo!my_rotate(p, offset)]
    BY <1>1, <1>4, <2>1, <2>4 DEF Bingo!find_in_pht
  <2> QED BY <2>3, <2>5, <2>6
<1>5. CASE ~Bingo!find(pht, key).valid
  <2>1. PICK near : near = {w \in DOMAIN pht.entries[Bingo!Index(pht, key)] :
                              /\ pht.entries[Bingo!Index(pht, key)][w].valid
                              /\ pht.entries[Bingo!Index(pht, key)][w].key % Bingo!Base = key % Bingo!Base}
    OBVIOUS
  <2>2. PICK voted : voted =
          Bingo!vote([w \in near |->
            Bingo!my_rotate(pht.entries[Bingo!Index(pht, key)][w].data, offset)])
    OBVIOUS
  <2>3. voted \in SUBSET Bingo!Block
    BY <2>2 DEF Bingo!vote
  <2>4. PICK hit, pattern : /\ hit = (near # {} /\ voted # {})
                            /\ pattern = (IF near = {} THEN {} ELSE voted)
    OBVIOUS
  <2>5. Bingo!find_in_pht(pht, pc, region, offset) = [pht |-> pht, hit |-> hit, pattern |-> pattern]
    BY <1>1, <1>5, <2>1, <2>2, <2>4, Zenon DEF Bingo!find_in_pht
  <2>6. hit => near # {} /\ voted # {}
    BY <2>4, Zenon
  <2>7. hit => pattern \in Wanted
    BY <2>3, <2>4, <2>6, WantedIs
  <2> QED BY <2>5, <2>7
<1> QED BY <1>4, <1>5

LEMMA StreamIssued ==
  ASSUME BingoAssumed, NEW pf, StreamTable(pf), NEW region \in Region, NEW offset, NEW room
  PROVE  StreamTable(Bingo!prefetch(pf, region, offset, room))
<1>1. Found(Region, Wanted, PfSets, pf, region)
  BY FoundIs DEF StreamTable
<1>2. PICK left : left = Bingo!Left(Bingo!find(pf, region).data, offset, room)
  OBVIOUS
<1>3. CASE ~Bingo!find(pf, region).valid
  BY <1>3 DEF Bingo!prefetch
<1>4. CASE Bingo!find(pf, region).valid /\ left = {}
  <2>1. PICK table : table = Bingo!set_mru(pf, region)
    OBVIOUS
  <2>2. StreamTable(table)
    BY <1>4, <2>1, MostRecentSet DEF StreamTable
  <2>3. Bingo!prefetch(pf, region, offset, room) = Bingo!erase(table, region)
    BY <1>2, <1>4, <2>1 DEF Bingo!prefetch
  <2> QED BY <2>2, <2>3, TableErased DEF StreamTable
<1>5. CASE Bingo!find(pf, region).valid /\ left # {}
  <2>1. PICK p : p = Bingo!find(pf, region).data
    OBVIOUS
  <2>2. p \in SUBSET Bingo!Block
    BY <1>1, <1>5, <2>1, WantedIs DEF Found
  <2>3. left \in SUBSET p
    BY <1>2, <2>1 DEF Bingo!Left
  <2>4. left \in Wanted
    BY <1>5, <2>2, <2>3, WantedIs
  <2>5. Bingo!prefetch(pf, region, offset, room) = Bingo!Put(pf, region, left)
    BY <1>2, <1>5 DEF Bingo!prefetch
  <2> QED BY <2>4, <2>5, PutIn DEF StreamTable
<1> QED BY <1>3, <1>4, <1>5

(* The generation of a region: in one table, with what was loaded of it.    *)
RegionTracked(f, a, T) ==
  /\ ~(f.valid /\ a.valid)
  /\ f.valid => T = {f.data.offset}
  /\ a.valid => T = a.data.pattern
RegionsTracked(ft, at, touched) ==
  \A r \in Region : RegionTracked(Bingo!find(ft, r), Bingo!find(at, r), touched[r])

Holding(ft, at, pht, pf, touched) ==
  /\ FilterTable(ft) /\ GrowthTable(at) /\ HistoryTable(pht) /\ StreamTable(pf)
  /\ touched = [r \in Region |-> touched[r]]
  /\ RegionsTracked(ft, at, touched)
BingoState(ft, at, pht, pf, touched, accesses) ==
  [ft |-> ft, at |-> at, pht |-> pht, pf |-> pf, touched |-> touched, accesses |-> accesses]
BingoHolds(t) ==
  /\ t = BingoState(t.ft, t.at, t.pht, t.pf, t.touched, t.accesses)
  /\ Holding(t.ft, t.at, t.pht, t.pf, t.touched)

(* One region changes, of the others an entry may be lost. *)
Lost(table, table2, region) ==
  \A j \in Region \ {region} : Bingo!find(table2, j) \in {Bingo!find(table, j), Bingo!None}

LEMMA GenerationsChange ==
  ASSUME NEW ft, NEW at, NEW touched, RegionsTracked(ft, at, touched), NEW region \in Region,
         NEW ft2, NEW at2, NEW touched2, Lost(ft, ft2, region), Lost(at, at2, region),
         \A j \in Region \ {region} : touched2[j] = touched[j],
         RegionTracked(Bingo!find(ft2, region), Bingo!find(at2, region), touched2[region])
  PROVE  RegionsTracked(ft2, at2, touched2)
<1>1. ~Bingo!None.valid
  BY EntryIs
<1>2. ASSUME NEW j \in Region \ {region}
      PROVE  RegionTracked(Bingo!find(ft2, j), Bingo!find(at2, j), touched2[j])
  <2>1. RegionTracked(Bingo!find(ft, j), Bingo!find(at, j), touched[j])
    BY DEF RegionsTracked
  <2>2. /\ Bingo!find(ft2, j) \in {Bingo!find(ft, j), Bingo!None}
        /\ Bingo!find(at2, j) \in {Bingo!find(at, j), Bingo!None}
    BY DEF Lost
  <2> QED BY <1>1, <2>1, <2>2 DEF RegionTracked
<1> QED BY <1>2 DEF RegionsTracked

LEMMA EntriesLost ==
  ASSUME NEW table, NEW table2, NEW region \in Region
  PROVE  /\ Same(Region, table, table2) => Lost(table, table2, region)
         /\ Leaves(Region, table, region, table2) => Lost(table, table2, region)
         /\ \A data : Comes(Region, table, region, data, table2) => Lost(table, table2, region)
BY DEF Same, Leaves, Comes, Lost

LEMMA StillLost ==
  ASSUME NEW table, NEW table2, NEW table3, NEW region,
         Lost(table, table2, region), Lost(table2, table3, region)
  PROVE  Lost(table, table3, region)
BY DEF Lost

(* A second, or a later, block joins a growing pattern. *)
PatternGrown(at, region, offset, at2) ==
  /\ GrowthTable(at2) /\ Lost(at, at2, region) /\ Bingo!find(at2, region).valid
  /\ Bingo!find(at2, region).data.pattern = Bingo!find(at, region).data.pattern \cup {offset}

LEMMA PatternGrows ==
  ASSUME BingoAssumed, NEW at, GrowthTable(at), NEW region \in Region, NEW offset \in Bingo!Block,
         Bingo!find(at, region).valid
  PROVE  PatternGrown(at, region, offset, Bingo!set_pattern(at, region, offset))
<1>1. PICK d : d = Bingo!find(at, region).data
  OBVIOUS
<1>2. d \in Grows
  BY <1>1, FoundIs DEF GrowthTable, Found
<1>3. PICK d2 : d2 = [d EXCEPT !.pattern = d.pattern \cup {offset}]
  OBVIOUS
<1>4. d2 \in Grows /\ d2.pattern = d.pattern \cup {offset}
  BY <1>2, <1>3 DEF Grows
<1>5. PICK at2 : at2 = Bingo!set_pattern(at, region, offset)
  OBVIOUS
<1>6. at2 = Bingo!Put(at, region, d2)
  BY <1>1, <1>3, <1>5 DEF Bingo!set_pattern
<1>7. GrowthTable(at2) /\ Comes(Region, at, region, d2, at2)
  BY <1>4, <1>6, PutIn DEF GrowthTable
<1>8. Bingo!find(at2, region).valid /\ Bingo!find(at2, region).data = d2
  BY <1>7, EntryIs DEF Comes
<1>9. Lost(at, at2, region)
  BY <1>7, EntriesLost
<1> QED BY <1>1, <1>4, <1>5, <1>7, <1>8, <1>9 DEF PatternGrown

(* The three ways of a load: another block of a pattern that grows, the     *)
(* first of a region, and the second, or the first one again.               *)
LEMMA GenerationGrowsOn ==
  ASSUME BingoAssumed, NEW ft, NEW at, NEW pht, NEW pf, NEW touched,
         Holding(ft, at, pht, pf, touched), NEW region \in Region, NEW offset \in Bingo!Block,
         Bingo!find(at, region).valid
  PROVE  Holding(ft, Bingo!set_pattern(at, region, offset), pht, pf,
                 [touched EXCEPT ![region] = @ \cup {offset}])
<1>1. PICK at2, touched2 : /\ at2 = Bingo!set_pattern(at, region, offset)
                           /\ touched2 = [touched EXCEPT ![region] = @ \cup {offset}]
  OBVIOUS
<1>2. /\ GrowthTable(at2) /\ Lost(at, at2, region) /\ Bingo!find(at2, region).valid
      /\ Bingo!find(at2, region).data.pattern = Bingo!find(at, region).data.pattern \cup {offset}
  <2>1. GrowthTable(at)
    BY DEF Holding
  <2>2. PatternGrown(at, region, offset, at2)
    BY <1>1, <2>1, PatternGrows
  <2> QED BY <2>2 DEF PatternGrown
<1>3. /\ touched2 = [r \in Region |-> touched2[r]]
      /\ touched2[region] = touched[region] \cup {offset}
      /\ \A j \in Region \ {region} : touched2[j] = touched[j]
  BY <1>1 DEF Holding
<1>4. RegionTracked(Bingo!find(ft, region), Bingo!find(at, region), touched[region])
  BY DEF Holding, RegionsTracked
<1>5. RegionTracked(Bingo!find(ft, region), Bingo!find(at2, region), touched2[region])
  BY <1>2, <1>3, <1>4 DEF RegionTracked
<1>6. Lost(ft, ft, region)
  BY EntriesLost DEF Same
<1>7. RegionsTracked(ft, at2, touched2)
  BY <1>2, <1>3, <1>5, <1>6, GenerationsChange DEF Holding
<1> QED BY <1>1, <1>2, <1>3, <1>7 DEF Holding

LEMMA GenerationOpened ==
  ASSUME BingoAssumed, NEW ft, NEW at, NEW pht, NEW pf, NEW touched,
         Holding(ft, at, pht, pf, touched), NEW region \in Region, NEW offset \in Bingo!Block,
         NEW pc \in Pc, ~Bingo!find(at, region).valid
  PROVE  LET found == Bingo!find_in_pht(pht, pc, region, offset)
         IN Holding(Bingo!Put(ft, region, [pc |-> pc, offset |-> offset]), at, found.pht,
                    IF found.hit THEN Bingo!Put(pf, region, found.pattern) ELSE pf,
                    [touched EXCEPT ![region] = {offset}])
<1>1. PICK found : found = Bingo!find_in_pht(pht, pc, region, offset)
  OBVIOUS
<1>2. HistoryTable(found.pht) /\ (found.hit => found.pattern \in Wanted)
  BY <1>1, HistoryFound DEF Holding
<1>3. PICK pf2 : pf2 = IF found.hit THEN Bingo!Put(pf, region, found.pattern) ELSE pf
  OBVIOUS
<1>4. StreamTable(pf2)
  <2>1. CASE found.hit
    BY <1>2, <1>3, <2>1, PutIn DEF Holding, StreamTable
  <2>2. CASE ~found.hit
    BY <1>3, <2>2 DEF Holding
  <2> QED BY <2>1, <2>2
<1>5. PICK d, ft2, touched2 :
        /\ d = [pc |-> pc, offset |-> offset] /\ ft2 = Bingo!Put(ft, region, d)
        /\ touched2 = [touched EXCEPT ![region] = {offset}]
  OBVIOUS
<1>6. d \in Waits /\ d.offset = offset
  BY <1>5 DEF Waits
<1>7. FilterTable(ft2) /\ Comes(Region, ft, region, d, ft2)
  BY <1>5, <1>6, PutIn DEF Holding, FilterTable
<1>8. Lost(ft, ft2, region) /\ Bingo!find(ft2, region).data = d /\ Lost(at, at, region)
  BY <1>7, EntriesLost, EntryIs DEF Comes, Same
<1>9. /\ touched2 = [r \in Region |-> touched2[r]] /\ touched2[region] = {offset}
      /\ \A j \in Region \ {region} : touched2[j] = touched[j]
  BY <1>5 DEF Holding
<1>10. RegionTracked(Bingo!find(ft2, region), Bingo!find(at, region), touched2[region])
  BY <1>6, <1>8, <1>9 DEF RegionTracked
<1>11. RegionsTracked(ft2, at, touched2)
  BY <1>8, <1>9, <1>10, GenerationsChange DEF Holding
<1> QED BY <1>1, <1>2, <1>3, <1>4, <1>5, <1>7, <1>9, <1>11 DEF Holding

LEMMA FirstBlockAgain ==
  ASSUME BingoAssumed, NEW ft, NEW at, NEW pht, NEW pf, NEW touched,
         Holding(ft, at, pht, pf, touched), NEW region \in Region, NEW offset,
         Bingo!find(ft, region).valid, Bingo!find(ft, region).data.offset = offset
  PROVE  Holding(Bingo!set_mru(ft, region), at, pht, pf, [touched EXCEPT ![region] = @ \cup {offset}])
<1>1. PICK ft2, touched2 : /\ ft2 = Bingo!set_mru(ft, region)
                           /\ touched2 = [touched EXCEPT ![region] = @ \cup {offset}]
  OBVIOUS
<1>2. FilterTable(ft2) /\ Same(Region, ft, ft2)
  BY <1>1, MostRecentSet DEF Holding, FilterTable
<1>3. RegionTracked(Bingo!find(ft, region), Bingo!find(at, region), touched[region])
  BY DEF Holding, RegionsTracked
<1>4. touched[region] = {offset} /\ touched[region] \cup {offset} = touched[region]
  BY <1>3 DEF RegionTracked
<1>5. touched2 = touched
  BY <1>1, <1>4 DEF Holding
<1>6. RegionsTracked(ft2, at, touched2)
  BY <1>2, <1>5 DEF Holding, RegionsTracked, Same
<1> QED BY <1>1, <1>2, <1>5, <1>6 DEF Holding

LEMMA GenerationMovesOn ==
  ASSUME BingoAssumed, NEW ft, NEW at, NEW pht, NEW pf, NEW touched,
         Holding(ft, at, pht, pf, touched), NEW region \in Region, NEW offset \in Bingo!Block,
         Bingo!find(ft, region).valid,
         NEW ft1, ft1 = Bingo!set_mru(ft, region), NEW d, d = Bingo!find(ft1, region).data,
         NEW victim, victim = Bingo!replaced(at, region),
         NEW at1, at1 = Bingo!Put(at, region, [pc |-> d.pc, offset |-> d.offset, pattern |-> {d.offset}])
  PROVE  Holding(Bingo!erase(ft1, region), Bingo!set_pattern(at1, region, offset),
                 IF victim.valid THEN Bingo!insert_in_pht(pht, victim) ELSE pht, pf,
                 [touched EXCEPT ![region] = @ \cup {offset}])
<1>1. FilterTable(ft1) /\ Same(Region, ft, ft1)
  BY MostRecentSet DEF Holding, FilterTable
<1>2. d = Bingo!find(ft, region).data
  BY <1>1 DEF Same
<1>3. d \in Waits
  BY <1>2, FoundIs DEF Holding, FilterTable, Found
<1>4. RegionTracked(Bingo!find(ft, region), Bingo!find(at, region), touched[region])
  BY DEF Holding, RegionsTracked
<1>5. touched[region] = {d.offset} /\ ~Bingo!find(at, region).valid
  BY <1>2, <1>4 DEF RegionTracked
<1>6. PICK ft2 : ft2 = Bingo!erase(ft1, region)
  OBVIOUS
<1>7. FilterTable(ft2) /\ Leaves(Region, ft1, region, ft2)
  BY <1>1, <1>6, TableErased DEF FilterTable
<1>8. Lost(ft, ft2, region) /\ ~Bingo!find(ft2, region).valid
  <2>1. Lost(ft, ft1, region) /\ Lost(ft1, ft2, region)
    BY <1>1, <1>7, EntriesLost
  <2> QED BY <1>7, <2>1, StillLost, EntryIs DEF Leaves
<1>9. PICK g : g = [pc |-> d.pc, offset |-> d.offset, pattern |-> {d.offset}]
  OBVIOUS
<1>10. g \in Grows /\ g.pattern = {d.offset}
  BY <1>3, <1>9 DEF Grows, Waits
<1>11. at1 = Bingo!Put(at, region, g)
  BY <1>9
<1>12. GrowthTable(at1) /\ Comes(Region, at, region, g, at1)
  BY <1>10, <1>11, PutIn DEF Holding, GrowthTable
<1>13. Bingo!find(at1, region).valid /\ Bingo!find(at1, region).data = g /\ Lost(at, at1, region)
  <2>1. Bingo!find(at1, region) = Bingo!Entry(region, g)
    BY <1>12 DEF Comes
  <2>2. Lost(at, at1, region)
    BY <1>12, EntriesLost
  <2> QED BY <2>1, <2>2, EntryIs
<1>14. PICK at2 : at2 = Bingo!set_pattern(at1, region, offset)
  OBVIOUS
<1>15. /\ GrowthTable(at2) /\ Lost(at1, at2, region) /\ Bingo!find(at2, region).valid
       /\ Bingo!find(at2, region).data.pattern = {d.offset} \cup {offset}
  <2>1. GrowthTable(at1) /\ Bingo!find(at1, region).valid
    BY <1>12, <1>13
  <2>2. PatternGrown(at1, region, offset, at2)
    BY <1>14, <2>1, PatternGrows
  <2> QED BY <1>10, <1>13, <2>2 DEF PatternGrown
<1>16. Lost(at, at2, region)
  BY <1>13, <1>15, StillLost
<1>17. PICK pht2 : pht2 = IF victim.valid THEN Bingo!insert_in_pht(pht, victim) ELSE pht
  OBVIOUS
<1>18. HistoryTable(pht2)
  <2>1. CASE victim.valid
    <3>1. victim.key \in Region /\ Bingo!find(at, victim.key) = victim
      BY <2>1, ReplacedIs DEF Holding, GrowthTable
    <3>2. victim.data \in Grows
      BY <2>1, <3>1, FoundIs DEF Holding, GrowthTable, Found
    <3> QED BY <1>17, <2>1, <3>1, <3>2, HistoryInserted DEF Holding
  <2>2. CASE ~victim.valid
    BY <1>17, <2>2 DEF Holding
  <2> QED BY <2>1, <2>2
<1>19. PICK touched2 : touched2 = [touched EXCEPT ![region] = @ \cup {offset}]
  OBVIOUS
<1>20. /\ touched2 = [r \in Region |-> touched2[r]]
       /\ touched2[region] = {d.offset} \cup {offset}
       /\ \A j \in Region \ {region} : touched2[j] = touched[j]
  BY <1>5, <1>19 DEF Holding
<1>21. RegionTracked(Bingo!find(ft2, region), Bingo!find(at2, region), touched2[region])
  BY <1>8, <1>15, <1>20 DEF RegionTracked
<1>22. RegionsTracked(ft2, at2, touched2)
  BY <1>8, <1>16, <1>20, <1>21, GenerationsChange DEF Holding
<1> QED BY <1>6, <1>7, <1>14, <1>15, <1>17, <1>18, <1>19, <1>20, <1>22 DEF Holding

(* The eviction of a block closes the generation of its region. *)
LEMMA GenerationClosed ==
  ASSUME BingoAssumed, NEW ft, NEW at, NEW pht, NEW pf, NEW touched,
         Holding(ft, at, pht, pf, touched), NEW region \in Region
  PROVE  LET e == Bingo!find(at, region)
         IN Holding(Bingo!erase(ft, region), Bingo!erase(at, region),
                    IF e.valid THEN Bingo!insert_in_pht(pht, e) ELSE pht, pf, touched)
<1>1. PICK e : e = Bingo!find(at, region)
  OBVIOUS
<1>2. PICK pht2 : pht2 = IF e.valid THEN Bingo!insert_in_pht(pht, e) ELSE pht
  OBVIOUS
<1>3. HistoryTable(pht2)
  <2>1. CASE e.valid
    <3>1. e.key = region /\ e.data \in Grows
      BY <1>1, <2>1, FoundIs DEF Holding, GrowthTable, Found
    <3> QED BY <1>2, <2>1, <3>1, HistoryInserted DEF Holding
  <2>2. CASE ~e.valid
    BY <1>2, <2>2 DEF Holding
  <2> QED BY <2>1, <2>2
<1>4. PICK ft2, at2 : ft2 = Bingo!erase(ft, region) /\ at2 = Bingo!erase(at, region)
  OBVIOUS
<1>5. FilterTable(ft2) /\ Leaves(Region, ft, region, ft2)
  BY <1>4, TableErased DEF Holding, FilterTable
<1>6. GrowthTable(at2) /\ Leaves(Region, at, region, at2)
  BY <1>4, TableErased DEF Holding, GrowthTable
<1>7. Lost(ft, ft2, region) /\ Lost(at, at2, region)
  BY <1>5, <1>6, EntriesLost
<1>8. RegionTracked(Bingo!find(ft2, region), Bingo!find(at2, region), touched[region])
  BY <1>5, <1>6, EntryIs DEF Leaves, RegionTracked
<1>9. RegionsTracked(ft2, at2, touched)
  BY <1>7, <1>8, GenerationsChange DEF Holding
<1> QED BY <1>1, <1>2, <1>3, <1>4, <1>5, <1>6, <1>9 DEF Holding

LEMMA RegionLoaded ==
  ASSUME BingoAssumed, NEW t, BingoHolds(t), NEW pc \in Pc, NEW region \in Region,
         NEW offset \in Bingo!Block
  PROVE  LET u == Bingo!access(t, pc, region, offset)
         IN BingoHolds(u) /\ u.accesses = t.accesses
<1>1. PICK ft, at, pht, pf, touched, accesses : t = BingoState(ft, at, pht, pf, touched, accesses)
  BY DEF BingoHolds
<1>2. /\ t.ft = ft /\ t.at = at /\ t.pht = pht /\ t.pf = pf /\ t.touched = touched
      /\ t.accesses = accesses
  BY <1>1 DEF BingoState
<1>3. Holding(ft, at, pht, pf, touched)
  BY <1>2 DEF BingoHolds
<1>4. PICK touched2 : touched2 = [touched EXCEPT ![region] = @ \cup {offset}]
  OBVIOUS
<1>5. PICK t1 : t1 = [t EXCEPT !.touched[region] = @ \cup {offset}]
  OBVIOUS
<1>6. t1 = BingoState(ft, at, pht, pf, touched2, accesses)
  BY <1>1, <1>4, <1>5 DEF BingoState
<1>7. t1.ft = ft /\ t1.at = at
  BY <1>6 DEF BingoState
<1>8. PICK u : u = Bingo!access(t, pc, region, offset)
  OBVIOUS
<1>9. SUFFICES \E f2, a2, h2, p2, T2 :
        Holding(f2, a2, h2, p2, T2) /\ u = BingoState(f2, a2, h2, p2, T2, accesses)
  <2>1. PICK f2, a2, h2, p2, T2 : Holding(f2, a2, h2, p2, T2) /\ u = BingoState(f2, a2, h2, p2, T2, accesses)
    BY <1>9
  <2>2. /\ u.ft = f2 /\ u.at = a2 /\ u.pht = h2 /\ u.pf = p2 /\ u.touched = T2
        /\ u.accesses = accesses
    BY <2>1 DEF BingoState
  <2> QED BY <1>2, <1>8, <2>1, <2>2 DEF BingoHolds
<1>10. CASE Bingo!find(at, region).valid
  <2>1. PICK at2 : at2 = Bingo!set_pattern(at, region, offset)
    OBVIOUS
  <2>2. Holding(ft, at2, pht, pf, touched2)
    BY <1>3, <1>4, <1>10, <2>1, GenerationGrowsOn
  <2>3. u = [t1 EXCEPT !.at = at2]
    BY <1>2, <1>5, <1>7, <1>8, <1>10, <2>1 DEF Bingo!access
  <2>4. u = BingoState(ft, at2, pht, pf, touched2, accesses)
    BY <1>6, <2>3 DEF BingoState
  <2> QED BY <2>2, <2>4
<1>11. CASE ~Bingo!find(at, region).valid /\ ~Bingo!find(ft, region).valid
  <2>1. u = Bingo!Trigger(t, pc, region, offset)
    BY <1>2, <1>5, <1>7, <1>8, <1>11 DEF Bingo!access
  <2>2. PICK found : found = Bingo!find_in_pht(pht, pc, region, offset)
    OBVIOUS
  <2>3. PICK ft2, pf2, T2 :
          /\ ft2 = Bingo!Put(ft, region, [pc |-> pc, offset |-> offset])
          /\ pf2 = IF found.hit THEN Bingo!Put(pf, region, found.pattern) ELSE pf
          /\ T2 = [touched EXCEPT ![region] = {offset}]
    OBVIOUS
  <2>4. Holding(ft2, at, found.pht, pf2, T2)
    BY <1>3, <1>11, <2>2, <2>3, GenerationOpened
  <2>5. PICK r1 : r1 = [t EXCEPT !.ft = ft2]
    OBVIOUS
  <2>6. PICK r2 : r2 = [r1 EXCEPT !.pht = found.pht]
    OBVIOUS
  <2>7. PICK r3 : r3 = [r2 EXCEPT !.pf = pf2]
    OBVIOUS
  <2>8. r1 = BingoState(ft2, at, pht, pf, touched, accesses)
    BY <1>1, <2>5 DEF BingoState
  <2>9. r2 = BingoState(ft2, at, found.pht, pf, touched, accesses)
    BY <2>6, <2>8 DEF BingoState
  <2>10. r3 = BingoState(ft2, at, found.pht, pf2, touched, accesses)
    BY <2>7, <2>9 DEF BingoState
  <2>11. u = [r3 EXCEPT !.touched[region] = {offset}]
    BY <1>2, <2>1, <2>2, <2>3, <2>5, <2>6, <2>7 DEF Bingo!Trigger
  <2>12. u = BingoState(ft2, at, found.pht, pf2, T2, accesses)
    BY <2>3, <2>10, <2>11 DEF BingoState
  <2> QED BY <2>4, <2>12
<1>12. CASE ~Bingo!find(at, region).valid /\ Bingo!find(ft, region).valid
  <2>1. PICK ft1, t2 : ft1 = Bingo!set_mru(ft, region) /\ t2 = [t1 EXCEPT !.ft = ft1]
    OBVIOUS
  <2>2. t2 = BingoState(ft1, at, pht, pf, touched2, accesses)
    BY <1>6, <2>1 DEF BingoState
  <2>3. CASE Bingo!find(ft, region).data.offset = offset
    <3>1. u = t2
      BY <1>2, <1>5, <1>7, <1>8, <1>12, <2>1, <2>3 DEF Bingo!access
    <3>2. Holding(ft1, at, pht, pf, touched2)
      BY <1>3, <1>4, <1>12, <2>1, <2>3, FirstBlockAgain
    <3> QED BY <2>2, <3>1, <3>2
  <2>4. CASE Bingo!find(ft, region).data.offset # offset
    <3>1. u = Bingo!Accumulate(t2, region, offset)
      BY <1>2, <1>5, <1>7, <1>8, <1>12, <2>1, <2>4 DEF Bingo!access
    <3>2. PICK d, victim : d = Bingo!find(ft1, region).data /\ victim = Bingo!replaced(at, region)
      OBVIOUS
    <3>3. PICK at1 : at1 = Bingo!Put(at, region, [pc |-> d.pc, offset |-> d.offset, pattern |-> {d.offset}])
      OBVIOUS
    <3>4. PICK ft2, at2, pht2 :
            /\ ft2 = Bingo!erase(ft1, region) /\ at2 = Bingo!set_pattern(at1, region, offset)
            /\ pht2 = IF victim.valid THEN Bingo!insert_in_pht(pht, victim) ELSE pht
      OBVIOUS
    <3>5. Holding(ft2, at2, pht2, pf, touched2)
      BY ZenonT(60), <1>3, <1>4, <1>12, <2>1, <3>2, <3>3, <3>4, GenerationMovesOn
    <3>6. t2.ft = ft1 /\ t2.at = at /\ t2.pht = pht
      BY <2>2 DEF BingoState
    <3>7. PICK r1 : r1 = [t2 EXCEPT !.at = at2]
      OBVIOUS
    <3>8. PICK r2 : r2 = [r1 EXCEPT !.ft = ft2]
      OBVIOUS
    <3>9. r1 = BingoState(ft1, at2, pht, pf, touched2, accesses)
      BY <2>2, <3>7 DEF BingoState
    <3>10. r2 = BingoState(ft2, at2, pht, pf, touched2, accesses)
      BY <3>8, <3>9 DEF BingoState
    <3>11. u = [r2 EXCEPT !.pht = pht2]
      BY <3>1, <3>2, <3>3, <3>4, <3>6, <3>7, <3>8 DEF Bingo!Accumulate
    <3>12. u = BingoState(ft2, at2, pht2, pf, touched2, accesses)
      BY <3>10, <3>11 DEF BingoState
    <3> QED BY <3>5, <3>12
  <2> QED BY <2>3, <2>4
<1> QED BY <1>10, <1>11, <1>12

LEMMA BingoStarts == BingoAssumed /\ Bingo!Init => BingoHolds(s)
<1> SUFFICES ASSUME BingoAssumed, Bingo!Init  PROVE BingoHolds(s)
  OBVIOUS
<1>1. PICK ft, at, pht, pf, touched :
        /\ ft = Bingo!EmptyTable(FtSets, FtWays) /\ at = Bingo!EmptyTable(AtSets, AtWays)
        /\ pht = Bingo!EmptyTable(PhtSets, PhtWays) /\ pf = Bingo!EmptyTable(PfSets, PfWays)
        /\ touched = [r \in Region |-> {}]
  OBVIOUS
<1>2. s = BingoState(ft, at, pht, pf, touched, 0)
  BY <1>1 DEF Bingo!Init, BingoState
<1>3. FilterTable(ft) /\ \A k \in Region : Bingo!find(ft, k) = Bingo!None
  BY <1>1, BingoSizes, EmptyIsTable DEF FilterTable
<1>4. GrowthTable(at) /\ \A k \in Region : Bingo!find(at, k) = Bingo!None
  BY <1>1, BingoSizes, EmptyIsTable DEF GrowthTable
<1>5. HistoryTable(pht) /\ StreamTable(pf)
  BY <1>1, BingoSizes, EmptyIsTable DEF HistoryTable, StreamTable
<1>6. RegionsTracked(ft, at, touched)
  BY <1>3, <1>4, EntryIs DEF RegionsTracked, RegionTracked
<1>7. Holding(ft, at, pht, pf, touched)
  BY <1>1, <1>3, <1>4, <1>5, <1>6 DEF Holding
<1>8. s.ft = ft /\ s.at = at /\ s.pht = pht /\ s.pf = pf /\ s.touched = touched /\ s.accesses = 0
  BY <1>2 DEF BingoState
<1> QED BY <1>2, <1>7, <1>8 DEF BingoHolds

LEMMA BingoStep == BingoAssumed /\ BingoHolds(s) /\ [Bingo!Next]_s => BingoHolds(s)'
<1> SUFFICES ASSUME BingoAssumed, BingoHolds(s), [Bingo!Next]_s  PROVE BingoHolds(s')
  OBVIOUS
<1>1. ASSUME NEW pc \in Pc, NEW region \in Region, NEW offset \in Bingo!Block, NEW room,
             Bingo!invoke_prefetcher(pc, region, offset, room)
      PROVE  BingoHolds(s')
  <2>1. PICK t : t = Bingo!access(s, pc, region, offset)
    OBVIOUS
  <2>2. BingoHolds(t)
    BY <2>1, RegionLoaded
  <2>3. PICK ft, at, pht, pf, touched, accesses : t = BingoState(ft, at, pht, pf, touched, accesses)
    BY <2>2 DEF BingoHolds
  <2>4. /\ t.ft = ft /\ t.at = at /\ t.pht = pht /\ t.pf = pf /\ t.touched = touched
        /\ t.accesses = accesses
    BY <2>3 DEF BingoState
  <2>5. Holding(ft, at, pht, pf, touched)
    BY <2>2, <2>4 DEF BingoHolds
  <2>6. PICK pf2 : pf2 = Bingo!prefetch(pf, region, offset, room)
    OBVIOUS
  <2>7. StreamTable(pf2)
    BY <2>5, <2>6, StreamIssued DEF Holding
  <2>8. PICK r : r = [t EXCEPT !.pf = pf2]
    OBVIOUS
  <2>9. r = BingoState(ft, at, pht, pf2, touched, accesses)
    BY <2>3, <2>8 DEF BingoState
  <2>10. s' = [r EXCEPT !.accesses = accesses + 1]
    BY <1>1, <2>1, <2>4, <2>6, <2>8 DEF Bingo!invoke_prefetcher
  <2>11. s' = BingoState(ft, at, pht, pf2, touched, accesses + 1)
    BY <2>9, <2>10 DEF BingoState
  <2>12. /\ s'.ft = ft /\ s'.at = at /\ s'.pht = pht /\ s'.pf = pf2 /\ s'.touched = touched
         /\ s'.accesses = accesses + 1
    BY <2>11 DEF BingoState
  <2>13. Holding(ft, at, pht, pf2, touched)
    BY <2>5, <2>7 DEF Holding
  <2> QED BY <2>11, <2>12, <2>13 DEF BingoHolds
<1>2. ASSUME NEW region \in Region, Bingo!register_fill(region)  PROVE BingoHolds(s')
  <2>1. PICK ft, at, pht, pf, touched, accesses : s = BingoState(ft, at, pht, pf, touched, accesses)
    BY DEF BingoHolds
  <2>2. /\ s.ft = ft /\ s.at = at /\ s.pht = pht /\ s.pf = pf /\ s.touched = touched
        /\ s.accesses = accesses
    BY <2>1 DEF BingoState
  <2>3. Holding(ft, at, pht, pf, touched)
    BY <2>2 DEF BingoHolds
  <2>4. PICK e : e = Bingo!find(at, region)
    OBVIOUS
  <2>5. PICK ft2, at2, pht2 :
          /\ ft2 = Bingo!erase(ft, region) /\ at2 = Bingo!erase(at, region)
          /\ pht2 = IF e.valid THEN Bingo!insert_in_pht(pht, e) ELSE pht
    OBVIOUS
  <2>6. Holding(ft2, at2, pht2, pf, touched)
    BY <2>3, <2>4, <2>5, GenerationClosed
  <2>7. PICK r1 : r1 = [s EXCEPT !.ft = ft2]
    OBVIOUS
  <2>8. PICK r2 : r2 = [r1 EXCEPT !.at = at2]
    OBVIOUS
  <2>9. r1 = BingoState(ft2, at, pht, pf, touched, accesses)
    BY <2>1, <2>7 DEF BingoState
  <2>10. r2 = BingoState(ft2, at2, pht, pf, touched, accesses)
    BY <2>8, <2>9 DEF BingoState
  <2>11. s' = [r2 EXCEPT !.pht = pht2]
    BY <1>2, <2>2, <2>4, <2>5, <2>7, <2>8 DEF Bingo!register_fill
  <2>12. s' = BingoState(ft2, at2, pht2, pf, touched, accesses)
    BY <2>10, <2>11 DEF BingoState
  <2>13. /\ s'.ft = ft2 /\ s'.at = at2 /\ s'.pht = pht2 /\ s'.pf = pf /\ s'.touched = touched
         /\ s'.accesses = accesses
    BY <2>12 DEF BingoState
  <2> QED BY <2>6, <2>12, <2>13 DEF BingoHolds
<1>3. CASE UNCHANGED s
  BY <1>3
<1> QED BY <1>1, <1>2, <1>3 DEF Bingo!Next

(* In Bingo, for any sizes of its four tables and any loads, evictions and  *)
(* room in the cache: the maps of each table agree, a region has one        *)
(* generation, and the pattern it will leave is what was loaded of it.      *)
THEOREM BingoGenerationsAlwaysTracked ==
  BingoAssumed => (Bingo!Spec => []Bingo!GenerationsTracked)
<1> SUFFICES ASSUME BingoAssumed  PROVE Bingo!Spec => []Bingo!GenerationsTracked
  OBVIOUS
<1>1. Bingo!Init => BingoHolds(s)
  BY BingoStarts
<1>2. BingoHolds(s) /\ [Bingo!Next]_s => BingoHolds(s)'
  BY BingoStep
<1>3. ASSUME BingoHolds(s)  PROVE Bingo!GenerationsTracked
  <2>1. PICK ft, at, pht, pf, touched : /\ ft = s.ft /\ at = s.at /\ pht = s.pht /\ pf = s.pf
                                        /\ touched = s.touched
    OBVIOUS
  <2>2. /\ FilterTable(ft) /\ GrowthTable(at) /\ HistoryTable(pht) /\ StreamTable(pf)
        /\ RegionsTracked(ft, at, touched)
    BY <1>3, <2>1 DEF BingoHolds, Holding
  <2>3. Bingo!Keys(ft) = {k \in Region : Bingo!find(ft, k).valid} /\ Bingo!MapsAgree(ft)
    BY <2>2, KeysAreFound DEF FilterTable
  <2>4. Bingo!Keys(at) = {k \in Region : Bingo!find(at, k).valid} /\ Bingo!MapsAgree(at)
    BY <2>2, KeysAreFound DEF GrowthTable
  <2>5. Bingo!Keys(pht) = {k \in Nat : Bingo!find(pht, k).valid} /\ Bingo!MapsAgree(pht)
    BY <2>2, KeysAreFound DEF HistoryTable
  <2>6. Bingo!Keys(pf) = {k \in Region : Bingo!find(pf, k).valid} /\ Bingo!MapsAgree(pf)
    BY <2>2, KeysAreFound DEF StreamTable
  <2>7. ASSUME NEW r \in Region
        PROVE  RegionTracked(Bingo!find(ft, r), Bingo!find(at, r), touched[r])
    BY <2>2 DEF RegionsTracked
  <2>8. Bingo!Keys(ft) \cap Bingo!Keys(at) = {}
    BY <2>3, <2>4, <2>7 DEF RegionTracked
  <2>9. \A r \in Bingo!Keys(ft) : touched[r] = {Bingo!find(ft, r).data.offset}
    BY <2>3, <2>7 DEF RegionTracked
  <2>10. ASSUME NEW r \in Bingo!Keys(at)
         PROVE  /\ touched[r] = Bingo!find(at, r).data.pattern
                /\ Bingo!find(at, r).data.offset \in Bingo!find(at, r).data.pattern
    <3>1. r \in Region /\ Bingo!find(at, r).valid
      BY <2>4
    <3>2. Bingo!find(at, r).data \in Grows
      BY <2>2, <3>1, FoundIs DEF GrowthTable, Found
    <3> QED BY <2>7, <3>1, <3>2 DEF RegionTracked, Grows
  <2>11. ASSUME NEW k \in Bingo!Keys(pht)  PROVE 0 \in Bingo!find(pht, k).data
    <3>1. k \in Nat /\ Bingo!find(pht, k).valid
      BY <2>5
    <3>2. Bingo!find(pht, k).data \in Seen
      BY <2>2, <3>1, FoundIs DEF HistoryTable, Found
    <3> QED BY <3>2 DEF Seen
  <2>12. ASSUME NEW r \in Bingo!Keys(pf)  PROVE Bingo!find(pf, r).data # {}
    <3>1. r \in Region /\ Bingo!find(pf, r).valid
      BY <2>6
    <3>2. Bingo!find(pf, r).data \in Wanted
      BY <2>2, <3>1, FoundIs DEF StreamTable, Found
    <3> QED BY <3>2, WantedIs
  <2> QED BY <2>1, <2>3, <2>4, <2>5, <2>6, <2>8, <2>9, <2>10, <2>11, <2>12
           DEF Bingo!GenerationsTracked
<1> QED BY <1>1, <1>2, <1>3, PTL DEF Bingo!Spec

=============================================================================
