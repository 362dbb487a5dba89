\* Code and data on one line.
CONSTANTS
  L1I = L1I  L1D = L1D  L2C = L2C  LLC = LLC  ITLB = ITLB  DTLB = DTLB  STLB = STLB
  d1 = d1  d2 = d2  d3 = d3  code = code  r1 = r1  r2 = r2  r3 = r3
  NoLine = NoLine  NoCache = NoCache  DRAM = DRAM
  kind <- AllKinds  lower <- AllLower  icache <- AllIcache  dcache <- AllDcache
  Cache = {L1I, L1D, L2C, LLC}
  Line = {d1}
  Req = {r1, r2}
  Footprint <- Shared
  NUM_WAY <- One  MSHR_SIZE <- One  RQ_SIZE <- Two  WQ_SIZE <- One  PQ_SIZE <- One
  PROCESSED_SIZE = 4  DRAM_RQ_SIZE = 1  DRAM_WQ_SIZE = 1
  MaxStores = 0  MaxPrefetches = 0  MaxSwaps = 0
SPECIFICATION FairSpec
PROPERTIES AllServed
\* The core has finitely many requests: with all of them served nothing is left to do.
CHECK_DEADLOCK FALSE
