\* The data path with a prefetch into any level and a page swap at any time.
CONSTANTS
  L1I = L1I  L1D = L1D  L2C = L2C  LLC = LLC  ITLB = ITLB  DTLB = DTLB  STLB = STLB
  d1 = d1  d2 = d2  d3 = d3  code = code  r1 = r1  r2 = r2  r3 = r3
  NoLine = NoLine  NoCache = NoCache  DRAM = DRAM
  kind <- AllKinds  lower <- AllLower  icache <- AllIcache  dcache <- AllDcache
  Cache = {L1D, L2C, LLC}
  Line = {d1, d2}
  Req = {r1, r2}
  Footprint <- Private
  NUM_WAY <- One  MSHR_SIZE <- Two  RQ_SIZE <- Two  WQ_SIZE <- Two  PQ_SIZE <- One
  PROCESSED_SIZE = 4  DRAM_RQ_SIZE = 1  DRAM_WQ_SIZE = 1
  MaxStores = 1  MaxPrefetches = 1  MaxSwaps = 1
SPECIFICATION Spec
INVARIANTS MissesAnsweredOnce RequestsConserved
PROPERTIES DirtyUntilWritten
\* The core has finitely many requests: with all of them served nothing is left to do.
CHECK_DEADLOCK FALSE
