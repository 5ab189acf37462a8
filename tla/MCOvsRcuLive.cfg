CONSTANTS
  Threads = {main}
  Main = main
  Urcu = urcu
  Callbacks = {c1, c2}
  CbsetSize = 2
  MaxSeq = 3
SPECIFICATION FairSpec
CHECK_DEADLOCK FALSE
INVARIANTS InOrder
PROPERTIES EventuallyCalled SynchronizeReturns
