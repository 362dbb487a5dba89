---------------------------- MODULE MCHierarchy ----------------------------
(* The wiring of src/main.cc for one core, cut to the caches a run needs. *)
EXTENDS CacheHierarchy, TLC

CONSTANTS
  L1I, L1D, L2C, LLC, ITLB, DTLB, STLB,
  d1, d2, d3,   \* data lines
  code,         \* an instruction line
  r1, r2, r3

AllKinds == L1I :> "L1I" @@ L1D :> "L1D" @@ L2C :> "L2C" @@ LLC :> "LLC"
            @@ ITLB :> "ITLB" @@ DTLB :> "DTLB" @@ STLB :> "STLB"
AllLower == L1I :> L2C @@ L1D :> L2C @@ L2C :> LLC @@ LLC :> DRAM
            @@ ITLB :> STLB @@ DTLB :> STLB @@ STLB :> NoCache
AllIcache == L2C :> L1I @@ LLC :> L2C @@ STLB :> ITLB
             @@ L1I :> NoCache @@ L1D :> NoCache @@ ITLB :> NoCache @@ DTLB :> NoCache
AllDcache == L2C :> L1D @@ LLC :> L2C @@ STLB :> DTLB
             @@ L1I :> NoCache @@ L1D :> NoCache @@ ITLB :> NoCache @@ DTLB :> NoCache

(* In a Private footprint no line is asked for by both the instruction     *)
(* side and the data side.                                                 *)
Private == L1I :> {code} @@ L1D :> {d1, d2, d3} @@ ITLB :> {code} @@ DTLB :> {d1, d2}
           @@ L2C :> {code, d1, d2, d3} @@ LLC :> {code, d1, d2, d3} @@ STLB :> {}
Shared == [c \in {L1I, L1D, L2C, LLC, ITLB, DTLB, STLB} |-> {d1}]

All(n) == [c \in {L1I, L1D, L2C, LLC, ITLB, DTLB, STLB} |-> n]
One == All(1)
Two == All(2)
TwoInL2 == (L2C :> 2) @@ One
=============================================================================
