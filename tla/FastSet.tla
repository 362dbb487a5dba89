------------------------------ MODULE FastSet ------------------------------
(***************************************************************************)
(* fastset of inc/set.h, the sets of ROB indices of the core: a sorted     *)
(* array while it has fewer than SMALL_SIZE elements, a bit vector in the  *)
(* same memory after that, when card stays at SMALL_SIZE.  join works on   *)
(* whole words up to the limit it is given.  Two sets and what they should *)
(* contain.                                                                *)
(***************************************************************************)
EXTENDS Integers, Sequences, FiniteSets, SequencesExt

CONSTANTS SMALL_SIZE, SMALLER_SIZE,
          WordBits,   \* 64
          Top         \* elements are 0 .. Top - 1, the n of join and expand

VARIABLE s

Elem == 0 .. Top - 1
Name == {"a", "b"}
Clear == [card |-> 0, values |-> <<>>, bits |-> {}]

Init == s = [set |-> [n \in Name |-> Clear], wanted |-> [n \in Name |-> {}]]

(* The values move into a bit vector that is cleared first.                *)
smalltobit_early(f) == [f EXCEPT !.bits = Range(Front(f.values)), !.values = <<>>]   \* mutant: card is not yet counted up
smalltobit(f) == [f EXCEPT !.bits = Range(f.values), !.values = <<>>]

insert_small(f, x) ==
  IF x \in Range(f.values) THEN f
  ELSE LET i == 1 + Cardinality({j \in DOMAIN f.values : f.values[j] < x})
       IN [f EXCEPT !.values = InsertAt(@, i, x), !.card = @ + 1]

insert(f, x) ==
  IF f.card < SMALL_SIZE
  THEN LET g == insert_small(f, x) IN IF g.card = SMALL_SIZE THEN smalltobit(g) ELSE g
  ELSE [f EXCEPT !.bits = @ \cup {x}]

(* One probe of the binary search after the other.                         *)
search_binary(f, x) ==
  LET probe[b \in 0 .. Top, e \in -1 .. Top] ==
        IF e < b THEN FALSE
        ELSE LET m == (b + e) \div 2  y == f.values[m + 1] IN
             IF x < y THEN probe[b, m - 1] ELSE IF x > y THEN probe[m + 1, e] ELSE TRUE
  IN probe[0, f.card - 1]

search_small_linear(f, x) == \E i \in 1 .. f.card : f.values[i] = x

search_small(f, x) ==
  IF f.card < SMALLER_SIZE THEN search_small_linear(f, x) ELSE search_binary(f, x)

search(f, x) ==
  IF f.card = 0 THEN FALSE
  ELSE IF f.card < SMALL_SIZE THEN search_small(f, x)
  ELSE x \in f.bits

(* The bits of the words below n.                                          *)
Words(n) == 0 .. (((n \div WordBits) + 1) * WordBits) - 1

join(f, g, n) ==
  IF g.card < SMALL_SIZE
  THEN FoldLeft(insert, f, g.values)
  ELSE LET h == IF f.card < SMALL_SIZE THEN [smalltobit(f) EXCEPT !.card = SMALL_SIZE] ELSE f
       IN [h EXCEPT !.bits = @ \cup (g.bits \cap Words(n))]

expand(f, n) ==
  IF f.card < SMALL_SIZE THEN f.values
  ELSE SetToSortSeq({x \in f.bits : x < n}, <)

Insert(n, x) ==
  s' = [s EXCEPT !.set[n] = insert(@, x), !.wanted[n] = @ \cup {x}]

Join(n, m) ==
  /\ n # m
  /\ s' = [s EXCEPT !.set[n] = join(@, s.set[m], Top), !.wanted[n] = @ \cup s.wanted[m]]

Next ==
  \/ \E n \in Name, x \in Elem : Insert(n, x)
  \/ \E n, m \in Name : Join(n, m)

Spec == Init /\ [][Next]_s

(* Whatever the order of insertions and joins, and on both sides of the    *)
(* change of representation, search finds exactly the elements, and expand *)
(* lists each of them once in ascending order.                             *)
IsASet ==
  \A n \in Name :
    /\ \A x \in Elem : search(s.set[n], x) <=> x \in s.wanted[n]
    /\ expand(s.set[n], Top) = SetToSortSeq(s.wanted[n], <)
=============================================================================
