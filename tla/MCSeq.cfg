CONSTANTS
  Threads = {t1, t2}
  Seqs = {x, y}
  NoSeq = NoSeq
  PipeBuf = 1
  MaxNext = 4
SPECIFICATION FairSpec
CHECK_DEADLOCK FALSE
INVARIANTS TypeOK WaitersCurrent NoLostWakeup
PROPERTY Implements
