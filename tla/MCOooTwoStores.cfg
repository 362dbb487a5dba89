\* A store instruction with two addresses, one of them overwritten before it is read.
CONSTANTS
  addrA = addrA  addrB = addrB  regR = regR  regQ = regQ
  Addr = {addrA, addrB}  Reg = {regR, regQ}
  Traces <- OnlyTwoStores
  ROB_SIZE = 4  LQ_SIZE = 2  SQ_SIZE = 3  SCHEDULER_SIZE = 4
SPECIFICATION Spec
INVARIANTS ForwardsOwnLoads
\* The program ends.
CHECK_DEADLOCK FALSE
