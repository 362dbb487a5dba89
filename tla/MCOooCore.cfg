\* Every program of three instructions over six and some longer ones, with a ROB of four and queues of two.
CONSTANTS
  addrA = addrA  addrB = addrB  regR = regR  regQ = regQ
  Addr = {addrA, addrB}  Reg = {regR, regQ}
  Traces <- EveryShort
  ROB_SIZE = 4  LQ_SIZE = 2  SQ_SIZE = 2  SCHEDULER_SIZE = 3
SPECIFICATION FairSpec
INVARIANTS TypeOK OpsAccounted NothingLost StoresInOrder ForwardsOwnLoads
PROPERTIES ImplementsInOrder AllRetire
\* The program ends.
CHECK_DEADLOCK FALSE
