\* One load queue entry, taken by a load that waits for a store.
CONSTANTS
  addrA = addrA  addrB = addrB  regR = regR  regQ = regQ
  Addr = {addrA, addrB}  Reg = {regR, regQ}
  Traces <- OnlyCircular
  ROB_SIZE = 5  LQ_SIZE = 1  SQ_SIZE = 2  SCHEDULER_SIZE = 5
SPECIFICATION FairSpec
PROPERTIES AllRetire
\* The program ends.
CHECK_DEADLOCK FALSE
