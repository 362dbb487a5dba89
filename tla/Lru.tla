-------------------------------- MODULE Lru --------------------------------
(***************************************************************************)
(* The baseline replacement policy, for one set of a cache: lru_victim and *)
(* lru_update of replacement/base_replacement.cc and the calls cache.cc    *)
(* makes of them.  lru_victim stops the program when no way has the age    *)
(* NUM_WAY - 1.  `newer` records the pairs of ways of which the first was  *)
(* filled, or hit by anything but a writeback, after the second.           *)
(***************************************************************************)
EXTENDS Integers

CONSTANT NUM_WAY   \* positive

VARIABLE s

Way == 0 .. NUM_WAY - 1

(* A way's age starts as its index.                                        *)
Init == s = [valid |-> [w \in Way |-> FALSE], lru |-> [w \in Way |-> w],
             newer |-> {p \in Way \X Way : p[1] < p[2]}]

(* The way lru_victim stops at: the first invalid one, else the first of   *)
(* the greatest age.                                                       *)
lru_victim(w) ==
  IF \E x \in Way : ~s.valid[x]
  THEN ~s.valid[w] /\ \A x \in 0 .. w - 1 : s.valid[x]
  ELSE s.lru[w] = NUM_WAY - 1 /\ \A x \in 0 .. w - 1 : s.lru[x] # NUM_WAY - 1

(* What lru_update would be if it aged every way but the touched one.      *)
UpdatedAll(lru, w) == [x \in Way |-> IF x = w THEN 0 ELSE lru[x] + 1]

(* lru_update: the ways younger than the touched one age.                  *)
Updated(lru, w) ==
  [x \in Way |-> IF x = w THEN 0 ELSE IF lru[x] < lru[w] THEN lru[x] + 1 ELSE lru[x]]

Touched(newer, w) ==
  {p \in Way \X Way : \/ p[1] = w /\ p[2] # w
                      \/ p \in newer /\ p[2] # w}

(* A miss, of any type, fills the victim.                                  *)
Fill(w) ==
  /\ lru_victim(w)
  /\ s' = [s EXCEPT !.valid[w] = TRUE, !.lru = Updated(@, w), !.newer = Touched(@, w)]

(* update_replacement_state on a hit that is no writeback.                 *)
Hit(w) ==
  /\ s.valid[w]
  /\ s' = [s EXCEPT !.lru = Updated(@, w), !.newer = Touched(@, w)]

(* A writeback that hits leaves the ages alone.                            *)
WritebackHit(w) == s.valid[w] /\ UNCHANGED s

(* invalidate_entry, for the page swap: the age stays.                     *)
invalidate_entry(w) ==
  /\ s.valid[w]
  /\ s' = [s EXCEPT !.valid[w] = FALSE]

Next ==
  \E w \in Way : Fill(w) \/ Hit(w) \/ WritebackHit(w) \/ invalidate_entry(w)

Spec == Init /\ [][Next]_s

-----------------------------------------------------------------------------
(* Ages order the ways by use, whatever fills, hits and invalidations came *)
(* before: a full set evicts its least recent way.                         *)
AgesAreRecency ==
  \A x, y \in Way : <<x, y>> \in s.newer <=> s.lru[x] < s.lru[y]

(* A miss always finds a victim: no run ends in "no victim!".              *)
VictimFound == \E w \in Way : lru_victim(w)
=============================================================================
