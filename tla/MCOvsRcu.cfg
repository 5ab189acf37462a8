CONSTANTS
  Threads = {main, t1}
  Main = main
  Urcu = urcu
  Callbacks = {c1}
  CbsetSize = 2
  MaxSeq = 3
SPECIFICATION Spec
CHECK_DEADLOCK FALSE
INVARIANTS TypeOK GracePeriod SynchronizeWaits
