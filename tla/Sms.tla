-------------------------------- MODULE Sms --------------------------------
(***************************************************************************)
(* The SMS prefetcher (spatial memory streaming).  The first access to a   *)
(* region opens a generation in the filter table, the second moves it to   *)
(* the accumulation table, which collects the blocks touched; a generation *)
(* pushed out of it leaves its pattern in the pattern history table, under *)
(* the pc and the offset that opened it.  A later generation with the same *)
(* opening prefetches the pattern through a buffer.  `touched` records the *)
(* blocks of each region touched since its generation was opened, `used`   *)
(* the access that touched a region of the accumulation table last.        *)
(***************************************************************************)
EXTENDS Integers, SequencesExt

CONSTANTS Region, Pc, Blocks,       \* regions, program counters, blocks
          FtSize, AtSize, PhtSets, PhtAssoc,
          Degree, BufferSize,       \* prefetches a demand injects, can wait
          MaxAccesses               \* bound on the length of a run

VARIABLE s

Init == s = [ft |-> <<>>, at |-> <<>>, pht |-> [x \in 0..(PhtSets - 1) |-> <<>>],
             buffer |-> <<>>, touched |-> [r \in Region |-> {}], used |-> [r \in Region |-> 0],
             accesses |-> 0]

search_table(table, region) == SelectInSeq(table, LAMBDA e : e.region = region)

search_pht(set, signature) == SelectInSeq(set, LAMBDA e : e.signature = signature)

(* create_signature: the pc beside the offset, and the set it falls in. *)
create_signature(pc, offset) == pc * Blocks + offset
SetOf(signature) == signature % PhtSets

(* The last of the oldest entries. *)
search_victim(table) ==
  CHOOSE i \in DOMAIN table :
    \A j \in DOMAIN table :
      \/ table[j].age < table[i].age
      \/ table[j].age = table[i].age /\ j <= i

(* update_age: everyone is a step older, the entry used starts again. *)
update_age(table, i) ==
  [j \in DOMAIN table |-> [table[j] EXCEPT !.age = IF j = i THEN 0 ELSE @ + 1]]

(* insert_pht_table: a pattern known by its signature is replaced; a new    *)
(* one pushes out a victim and sets the age of the whole set to zero.      *)
insert_pht_set(set, e) ==
  LET signature == create_signature(e.pc, e.trigger)
      i == search_pht(set, signature)
      kept == IF Len(set) >= PhtAssoc THEN RemoveAt(set, search_victim(set)) ELSE set
  IN IF i # 0 THEN update_age([set EXCEPT ![i].pattern = e.pattern], i)
     ELSE Append([j \in DOMAIN kept |-> [kept[j] EXCEPT !.age = 0]],
                 [signature |-> signature, pattern |-> e.pattern, age |-> 0])

insert_pht_table(pht, e) ==
  [pht EXCEPT ![SetOf(create_signature(e.pc, e.trigger))] = insert_pht_set(@, e)]

evict_acc_table(t) ==
  LET victim == t.at[search_victim(t.at)]
  IN [t EXCEPT !.pht = insert_pht_table(@, victim),
               !.at = RemoveAt(@, search_victim(@)),
               !.used[victim.region] = 0]

(* What insert_acc_table would be if it forgot the block that opened the    *)
(* generation.                                                             *)
AccumulateFromSecond(t, e, offset) ==
  LET u == IF Len(t.at) >= AtSize THEN evict_acc_table(t) ELSE t
      new == [region |-> e.region, pc |-> e.pc, trigger |-> e.trigger,
              pattern |-> {offset}, age |-> 0]
  IN [u EXCEPT !.at = Append(update_age(@, 0), new),
               !.used[e.region] = t.accesses]

insert_acc_table(t, e, offset) ==
  LET u == IF Len(t.at) >= AtSize THEN evict_acc_table(t) ELSE t
      new == [region |-> e.region, pc |-> e.pc, trigger |-> e.trigger,
              pattern |-> {e.trigger, offset}, age |-> 0]
  IN [u EXCEPT !.at = Append(update_age(@, 0), new),
               !.used[e.region] = t.accesses]

evict_filter_table(t, i) == [t EXCEPT !.ft = RemoveAt(@, i)]

(* insert_filter_table: a full table gives up the region that came first. *)
insert_filter_table(t, pc, region, offset) ==
  LET u == IF Len(t.ft) >= FtSize THEN evict_filter_table(t, 1) ELSE t
  IN [u EXCEPT !.ft = Append(@, [region |-> region, pc |-> pc, trigger |-> offset])]

(* buffer_prefetch: what finds no room in the buffer is dropped. *)
buffer_prefetch(buffer, addrs) ==
  buffer \o SubSeq(addrs, 1, Min({Len(addrs), BufferSize - Len(buffer)}))

(* The k-th block of a pattern in the order of the bitmap. *)
InOrder(pattern, k) == CHOOSE x \in pattern : Cardinality({y \in pattern : y =< x}) = k

(* generate_prefetch: the known pattern without the block demanded. *)
generate_prefetch(t, pc, region, offset) ==
  LET set == t.pht[SetOf(create_signature(pc, offset))]
      i == search_pht(set, create_signature(pc, offset))
      wanted == set[i].pattern \ {offset}
      addrs == [k \in 1 .. Cardinality(wanted) |-> <<region, InOrder(wanted, k)>>]
  IN IF i = 0 THEN t
     ELSE [t EXCEPT !.buffer = buffer_prefetch(@, addrs),
                    !.pht[SetOf(create_signature(pc, offset))] = update_age(@, i)]

(* issue_prefetch: every demand lets Degree prefetches out of the buffer. *)
issue_prefetch(buffer) ==
  SubSeq(buffer, Min({Len(buffer), Degree}) + 1, Len(buffer))

(* The table part of invoke_prefetcher. *)
Accessed(t, pc, region, offset) ==
  LET a == search_table(t.at, region)
      f == search_table(t.ft, region)
      hit == [t EXCEPT !.at = update_age([t.at EXCEPT ![a].pattern = @ \cup {offset}], a),
                       !.touched[region] = @ \cup {offset},
                       !.used[region] = t.accesses]
      again == [t EXCEPT !.touched[region] = @ \cup {offset}]
      opened == [t EXCEPT !.touched[region] = {offset}]
  IN IF a # 0 THEN hit
     ELSE IF f # 0
     THEN LET u == insert_acc_table(again, t.ft[f], offset)
          IN evict_filter_table(u, f)
     ELSE generate_prefetch(insert_filter_table(opened, pc, region, offset),
                            pc, region, offset)

invoke_prefetcher ==
  \E pc \in Pc, region \in Region, offset \in 0..(Blocks - 1) :
    LET t == Accessed(s, pc, region, offset)
    IN /\ s.accesses < MaxAccesses
       /\ s' = [t EXCEPT !.buffer = issue_prefetch(@), !.accesses = @ + 1]

Next == invoke_prefetcher

Spec == Init /\ [][Next]_s

-----------------------------------------------------------------------------
(* A region is in one place of one table; its pattern is exactly what was   *)
(* touched since its generation was opened, and the accumulation table ages *)
(* its regions in the order of their last access, so that the generation    *)
(* given up is the one that has been idle longest.                         *)
GenerationsTracked ==
  LET regions == [i \in DOMAIN s.ft |-> s.ft[i].region]
                   \o [i \in DOMAIN s.at |-> s.at[i].region]
  IN /\ \A i, j \in DOMAIN regions : regions[i] = regions[j] => i = j
     /\ Len(s.ft) <= FtSize /\ Len(s.at) <= AtSize /\ Len(s.buffer) <= BufferSize
     /\ \A i \in DOMAIN s.ft : s.touched[s.ft[i].region] = {s.ft[i].trigger}
     /\ \A i \in DOMAIN s.at : s.touched[s.at[i].region] = s.at[i].pattern
     /\ \A i, j \in DOMAIN s.at :
          s.at[i].age > s.at[j].age <=> s.used[s.at[i].region] < s.used[s.at[j].region]

(* A pattern is kept once, in the set of its signature, and holds the block *)
(* its generation was opened with.                                         *)
PatternsKeptOnce ==
  \A x \in DOMAIN s.pht :
    /\ Len(s.pht[x]) <= PhtAssoc
    /\ \A i, j \in DOMAIN s.pht[x] :
         s.pht[x][i].signature = s.pht[x][j].signature => i = j
    /\ \A i \in DOMAIN s.pht[x] :
         /\ SetOf(s.pht[x][i].signature) = x
         /\ s.pht[x][i].signature % Blocks \in s.pht[x][i].pattern
=============================================================================
