--------------------------- MODULE MemoryChannel ---------------------------
(***************************************************************************)
(* What a memory channel promises to the LLC, and all the caches rely on:  *)
(* a read of a block that waits to be written is answered at once, any     *)
(* other read stays pending until its one answer; writes stay pending      *)
(* until they retire; reads and writes finish in any order.                *)
(***************************************************************************)
EXTENDS Naturals, FiniteSets

CONSTANTS Addr, ReadLimit, WriteLimit

VARIABLES reads, writes    \* the blocks with a pending read, a pending write

vars == <<reads, writes>>

Init == reads = {} /\ writes = {}

Read(a) ==
  /\ Cardinality(reads) < ReadLimit
  /\ reads' = IF a \in writes THEN reads ELSE reads \cup {a}
  /\ UNCHANGED writes

Write(a) ==
  /\ Cardinality(writes) < WriteLimit
  /\ writes' = writes \cup {a}
  /\ UNCHANGED reads

Answer(a) == a \in reads /\ reads' = reads \ {a} /\ UNCHANGED writes

Retire(a) == a \in writes /\ writes' = writes \ {a} /\ UNCHANGED reads

Next == \E a \in Addr : Read(a) \/ Write(a) \/ Answer(a) \/ Retire(a)

Spec == Init /\ [][Next]_vars
=============================================================================
