----------------------------- MODULE MCOooCore -----------------------------
(* Programs for the out-of-order core. *)
EXTENDS OooCore

CONSTANTS addrA, addrB, regR, regQ

Alu(reads, writes) == [reads |-> reads, writes |-> writes, loads |-> <<>>, stores |-> <<>>]
Load(reads, writes, loads) == [reads |-> reads, writes |-> writes, loads |-> loads, stores |-> <<>>]
Store(reads, stores) == [reads |-> reads, writes |-> {}, loads |-> <<>>, stores |-> stores]

(* A store whose data comes from a load, the load that reads it back, and  *)
(* one instruction that reads what two stores have written.                *)
Forwarding ==
  <<Load({}, {regR}, <<addrA>>), Store({regR}, <<addrA>>), Load({}, {regQ}, <<addrA>>),
    Store({regQ}, <<addrB>>),
    Load({}, {regR}, <<addrA, addrB>>)>>

(* The register and the address of the first instructions are written      *)
(* again before they are read.                                             *)
Rewriting ==
  <<Load({}, {regR}, <<addrA>>), Alu({}, {regR}), Store({regR}, <<addrB>>),
    Store({}, <<addrB>>), Load({regR}, {regQ}, <<addrB>>), Alu({regR, regQ}, {regR})>>

(* More stores than the store queue has entries, the first one the slowest *)
(* to become ready, one of them with two addresses, and an instruction     *)
(* that reads and writes memory.                                           *)
Storing ==
  <<Load({}, {regR}, <<addrB>>), Store({regR}, <<addrA>>), Store({}, <<addrB, addrA>>),
    [Load({regR}, {}, <<addrB>>) EXCEPT !.stores = <<addrB>>], Store({}, <<addrA>>), Load({}, {regQ}, <<addrB>>)>>

(* The store to addrA waits for a load whose address is computed from a    *)
(* load before it; by then the load queue is full of loads that wait for   *)
(* the store.                                                              *)
Circular ==
  <<Load({}, {regR}, <<addrB>>), Alu({regR}, {regR}), Load({regR}, {regQ}, <<addrB>>),
    Store({regQ}, <<addrA>>), Load({}, {}, <<addrA>>)>>

(* The loads of one instruction depend on a store with two addresses and   *)
(* on a younger store to one of them.                                      *)
TwoStores == <<Store({}, <<addrA, addrB>>), Store({}, <<addrA>>), Load({}, {regR}, <<addrA, addrB>>)>>

(* Six instructions of which any three make a program, and the two of     *)
(* them with more than one operand, of which any four do.                  *)
ManyOperands ==
  {Load({regR}, {regQ}, <<addrA, addrB>>), [Load({}, {regQ}, <<addrB>>) EXCEPT !.stores = <<addrA>>]}
Instructions ==
  ManyOperands \cup
    {Alu({regR}, {regR}), Load({}, {regR}, <<addrA>>), Store({regQ}, <<addrA>>), Store({}, <<addrB>>)}

EveryShort ==
  [1 .. 3 -> Instructions] \cup [1 .. 4 -> ManyOperands] \cup {Forwarding, Rewriting, Storing}

(* These are the programs the proofs of the order of loads are about.      *)
ASSUME EveryShortIsWhole == \A tr \in EveryShort : Whole(tr)

OnlyCircular == {Circular}
OnlyTwoStores == {TwoStores}
=============================================================================
