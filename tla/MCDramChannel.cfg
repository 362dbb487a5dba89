\* Two reads and two writes to three blocks, two of them on different rows of one bank.
CONSTANTS
  a1 = a1  a2 = a2  a3 = a3  a4 = a4  b1 = b1  b2 = b2
  Addr = {a1, a3, a4}  NoAddr = NoAddr  Bank = {b1, b2}
  bank_of <- BankOfAddr  row_of <- RowOfAddr  NoRow = 0
  RQ_SIZE = 2  WQ_SIZE = 3
  tRP = 1  tRCD = 1  tCAS = 1  RETURN_TIME = 1  TURN_AROUND_TIME = 2
  MaxReads = 2  MaxWrites = 2  MaxIdle = 1  MaxLate = 1  Horizon = 28
SPECIFICATION FairSpec
INVARIANTS TypeOK BanksMatchRequests ScheduledCounted NextIsFresh NoDuplicates BusDelayBounded
PROPERTIES EventuallyServed BusTurnsAround ImplementsMemory
\* The channel rests when nothing is pending and the run's idle cycles are used up.
CHECK_DEADLOCK FALSE
