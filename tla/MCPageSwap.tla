----------------------------- MODULE MCPageSwap -----------------------------
(***************************************************************************)
(* Two cores with a page each and one frame: every fault but the first one *)
(* swaps.                                                                  *)
(***************************************************************************)
EXTENDS PageTable

TwoCores == 0 .. 1
OnePage == {1}
=============================================================================
