------------------------------- MODULE Bingo -------------------------------
(***************************************************************************)
(* The Bingo prefetcher (prefetcher/bingo.cc) over four tables of SetAssoc.*)
(* The first load of a region opens a generation in the filter table, the  *)
(* second block moves it to the accumulation table, and the eviction of a  *)
(* block of the region, or of its entry, closes it: its pattern goes to    *)
(* the history table, under the pc and the block that opened it.  A new    *)
(* generation looks there for the same pc and block, else for all patterns *)
(* of the same pc and offset, and leaves what it finds to the streamer,    *)
(* which prefetches as far as the cache has room.  `touched` records the   *)
(* blocks loaded since the generation of each region was opened.  The      *)
(* hash of a key into a set is a bijection and left out.                   *)
(***************************************************************************)
EXTENDS SetAssoc

CONSTANTS Region, Pc,             \* 0 .. n and 0 .. m
          Len1,                   \* pattern_len
          FtSets, FtWays, AtSets, AtWays, PhtSets, PhtWays, PfSets, PfWays,
          Percent,                \* a vote needs this share of the patterns
          MaxRoom,                \* bound: prefetches the cache takes at once
          MaxAccesses             \* bound on the length of a run

VARIABLE s

Block == 0 .. Len1 - 1

Init ==
  s = [ft |-> EmptyTable(FtSets, FtWays), at |-> EmptyTable(AtSets, AtWays),
       pht |-> EmptyTable(PhtSets, PhtWays), pf |-> EmptyTable(PfSets, PfWays),
       touched |-> [r \in Region |-> {}], accesses |-> 0]

Put(table, key, data) == set_mru(insert(table, key, data), key)

(* my_rotate: a pattern relative to the block that opened the generation.  *)
my_rotate(pattern, n) == {(b + n + Len1) % Len1 : b \in pattern}

(* build_key of the history table: pc and offset in the low part, so that  *)
(* all entries of the two are in one set, the region above.                *)
Base == (Max(Pc) + 1) * Len1
build_key(pc, region, offset) == region * Base + pc * Len1 + offset

insert_in_pht(pht, e) ==
  Put(pht, build_key(e.data.pc, e.key, e.data.offset),
      my_rotate(e.data.pattern, -e.data.offset))

(* vote: a block is wanted if enough of the patterns have it.              *)
vote(patterns) ==
  {b \in Block : 100 * Cardinality({i \in DOMAIN patterns : b \in patterns[i]})
                   >= Percent * Cardinality(DOMAIN patterns)}

(* find_in_pht and the find of the table, which touches an entry of the    *)
(* same pc and block but not those of the same pc and offset.              *)
find_in_pht(pht, pc, region, offset) ==
  LET key == build_key(pc, region, offset)
      set == pht.entries[Index(pht, key)]
      near == {w \in DOMAIN set : set[w].valid /\ set[w].key % Base = key % Base}
      voted == vote([w \in near |-> my_rotate(set[w].data, offset)])
  IN IF find(pht, key).valid
     THEN [pht |-> set_mru(pht, key), hit |-> TRUE,
           pattern |-> my_rotate(find(pht, key).data, offset)]
     ELSE [pht |-> pht, hit |-> near # {} /\ voted # {},
           pattern |-> IF near = {} THEN {} ELSE voted]

(* set_pattern, for a region that is accumulating.                         *)
set_pattern(at, region, offset) ==
  Put(at, region, [find(at, region).data EXCEPT !.pattern = @ \cup {offset}])

(* A second block: the generation moves from the filter table, and pushes  *)
(* another one out of the accumulation table into the history table.       *)
Accumulate(t, region, offset) ==
  LET e == find(t.ft, region).data
      victim == replaced(t.at, region)
      at == Put(t.at, region, [pc |-> e.pc, offset |-> e.offset, pattern |-> {e.offset}])
  IN [t EXCEPT !.at = set_pattern(at, region, offset),
               !.ft = erase(@, region),
               !.pht = IF victim.valid THEN insert_in_pht(@, victim) ELSE @]

(* The trigger access opens a generation.                                  *)
Trigger(t, pc, region, offset) ==
  LET found == find_in_pht(t.pht, pc, region, offset)
  IN [t EXCEPT !.ft = Put(@, region, [pc |-> pc, offset |-> offset]),
               !.pht = found.pht,
               !.pf = IF found.hit THEN Put(@, region, found.pattern) ELSE @,
               !.touched[region] = {offset}]

access(t, pc, region, offset) ==
  LET u == [t EXCEPT !.touched[region] = @ \cup {offset}]
      waits == find(t.ft, region)
      seen == [u EXCEPT !.ft = set_mru(@, region)]
  IN IF find(t.at, region).valid THEN [u EXCEPT !.at = set_pattern(@, region, offset)]
     ELSE IF ~waits.valid THEN Trigger(t, pc, region, offset)
     ELSE IF waits.data.offset = offset THEN seen
     ELSE Accumulate(seen, region, offset)

(* What is left of a pattern when the nearest blocks to the demand, above   *)
(* first, have taken the room.                                             *)
Left(pattern, offset, room) ==
  LET Place(b) == IF b > offset THEN 2 * (b - offset) ELSE 2 * (offset - b) + 1
      wanted == pattern \ {offset}
  IN {b \in wanted : Cardinality({c \in wanted : Place(c) < Place(b)}) >= room}

(* PrefetchStreamer::prefetch, when the cache has room for so many: what is *)
(* left waits for the next load of the region.                             *)
prefetch(pf, region, offset, room) ==
  LET left == Left(find(pf, region).data, offset, room)
  IN IF ~find(pf, region).valid THEN pf
     ELSE IF left = {} THEN erase(set_mru(pf, region), region)
     ELSE Put(pf, region, left)

(* A load; other accesses return at once.                                  *)
invoke_prefetcher(pc, region, offset, room) ==
  LET t == access(s, pc, region, offset)
  IN /\ s.accesses < MaxAccesses
     /\ s' = [t EXCEPT !.pf = prefetch(@, region, offset, room), !.accesses = @ + 1]

(* register_fill: a prefetched line pushed out a block of the region.  The *)
(* fills of demands are not reported.                                      *)
register_fill(region) ==
  LET e == find(s.at, region)
  IN s' = [s EXCEPT !.ft = erase(@, region), !.at = erase(@, region),
                    !.pht = IF e.valid THEN insert_in_pht(@, e) ELSE @]

Next ==
  \/ \E pc \in Pc, region \in Region, offset \in Block, room \in 0 .. MaxRoom :
       invoke_prefetcher(pc, region, offset, room)
  \/ \E region \in Region : register_fill(region)

Spec == Init /\ [][Next]_s

-----------------------------------------------------------------------------
(* Through moves, evictions and replacements every table's tags and ways    *)
(* agree; a region has one generation at a time; and the pattern it will    *)
(* leave is what was loaded since the generation was opened.               *)
GenerationsTracked ==
  /\ MapsAgree(s.ft) /\ MapsAgree(s.at) /\ MapsAgree(s.pht) /\ MapsAgree(s.pf)
  /\ Keys(s.ft) \cap Keys(s.at) = {}
  /\ \A r \in Keys(s.ft) : s.touched[r] = {find(s.ft, r).data.offset}
  /\ \A r \in Keys(s.at) :
       LET d == find(s.at, r).data
       IN s.touched[r] = d.pattern /\ d.offset \in d.pattern
  /\ \A k \in Keys(s.pht) : 0 \in find(s.pht, k).data
  /\ \A r \in Keys(s.pf) : find(s.pf, r).data # {}
=============================================================================
