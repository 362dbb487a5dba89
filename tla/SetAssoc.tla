------------------------------ MODULE SetAssoc ------------------------------
(***************************************************************************)
(* LRUSetAssociativeCache of inc/bakshalipour_framework.h, the table under *)
(* Bingo and MLOP.  Every set has its entries by way, and a hash map, its  *)
(* cam, from tags to ways; `lru` holds the time of the last set_mru of a   *)
(* way and the victim is the first way with the smallest.  A table is a    *)
(* record of these maps; the operators are the methods, used by Bingo.     *)
(***************************************************************************)
EXTENDS Integers, Functions, FiniteSetsExt, SequencesExt

None == [valid |-> FALSE]
Entry(key, data) == [valid |-> TRUE, key |-> key, data |-> data]

EmptyTable(sets, ways) ==
  [entries |-> [x \in 0 .. sets - 1 |-> [w \in 0 .. ways - 1 |-> None]],
   cams |-> [x \in 0 .. sets - 1 |-> << >>],
   lru |-> [x \in 0 .. sets - 1 |-> [w \in 0 .. ways - 1 |-> 0]],
   t |-> 1]

NumSets(table) == 1 + Max(DOMAIN table.cams)
Index(table, key) == key % NumSets(table)
Tag(table, key) == key \div NumSets(table)

(* find, as the entry or None.                                             *)
find(table, key) ==
  LET x == Index(table, key)
      cam == table.cams[x]
  IN IF Tag(table, key) \in DOMAIN cam THEN table.entries[x][cam[Tag(table, key)]]
     ELSE None

(* The time is an order: it is kept small by renumbering the ways' times   *)
(* in the same order.                                                      *)
Renumbered(lru, t) ==
  LET times == UNION {Range(lru[x]) : x \in DOMAIN lru}
      Rank(v) == Cardinality({y \in times : y < v /\ y # 0})
  IN [lru |-> [x \in DOMAIN lru |-> [w \in DOMAIN lru[x] |->
                 IF lru[x][w] = 0 THEN 0 ELSE 1 + Rank(lru[x][w])]],
      t |-> 1 + Cardinality(times \ {0})]

(* set_mru of a key that is there.                                         *)
set_mru(table, key) ==
  LET x == Index(table, key)
      way == table.cams[x][Tag(table, key)]
      r == Renumbered([table.lru EXCEPT ![x][way] = table.t], table.t)
  IN [table EXCEPT !.lru = r.lru, !.t = r.t]

(* The first invalid way, else the first whose time is the smallest.       *)
victim_way(table, x) ==
  LET set == table.entries[x]
      free == {w \in DOMAIN set : ~set[w].valid}
      lru == table.lru[x]
      least == {w \in DOMAIN set : \A v \in DOMAIN set : lru[w] <= lru[v]}
  IN Min(IF free # {} THEN free ELSE least)

(* What the cam would be if the tag of the victim were left in it.         *)
CamKeepsVictim(cam, gone, tag, way) ==
  [k \in DOMAIN cam \cup {tag} |-> IF k = tag THEN way ELSE cam[k]]

(* The victim's tag leaves the cam, the new one points to its way.         *)
CamAfter(cam, gone, tag, way) ==
  [k \in (DOMAIN cam \ gone) \cup {tag} |-> IF k = tag THEN way ELSE cam[k]]

(* insert: the data of a key that is there is overwritten in place.        *)
insert(table, key, data) ==
  LET x == Index(table, key)
      tag == Tag(table, key)
      there == tag \in DOMAIN table.cams[x]
      way == IF there THEN table.cams[x][tag] ELSE victim_way(table, x)
      old == table.entries[x][way]
      gone == IF old.valid THEN {Tag(table, old.key)} ELSE {}
  IN [table EXCEPT !.entries[x][way] = Entry(key, data),
                   !.cams[x] = IF there THEN @ ELSE CamAfter(@, gone, tag, way)]

(* What insert returns: the entry it overwrote, or None.                   *)
replaced(table, key) ==
  LET x == Index(table, key)
  IN IF find(table, key).valid THEN find(table, key)
     ELSE table.entries[x][victim_way(table, x)]

erase(table, key) ==
  LET x == Index(table, key)
      cam == table.cams[x]
      tag == Tag(table, key)
  IN IF tag \notin DOMAIN cam THEN table
     ELSE [table EXCEPT !.entries[x][cam[tag]] = None,
                        !.cams[x] = [k \in DOMAIN cam \ {tag} |-> cam[k]]]

-----------------------------------------------------------------------------
(* The keys a table holds, and that its maps agree: every tag leads to the *)
(* valid entry of its key, and every valid entry is reached by one tag.    *)
Keys(table) ==
  LET all == UNION {Range(table.entries[x]) : x \in DOMAIN table.entries}
  IN {e.key : e \in {f \in all : f.valid}}

MapsAgree(table) ==
  /\ \A k \in Keys(table) : find(table, k).valid /\ find(table, k).key = k
  /\ \A x \in DOMAIN table.cams :
       /\ \A g \in DOMAIN table.cams[x] :
            LET e == table.entries[x][table.cams[x][g]]
            IN e.valid /\ Tag(table, e.key) = g /\ Index(table, e.key) = x
       /\ \A w \in DOMAIN table.entries[x] :
            table.entries[x][w].valid =>
              Cardinality({g \in DOMAIN table.cams[x] : table.cams[x][g] = w}) = 1
=============================================================================
