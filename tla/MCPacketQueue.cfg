CONSTANTS
  Addr <- MCAddr
  SIZE = 3
SPECIFICATION Spec
INVARIANTS TypeOK RingConsistent WaitsOnce
PROPERTIES ImplementsFifo
