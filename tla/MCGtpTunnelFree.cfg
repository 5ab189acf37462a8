CONSTANTS
  Threads = {t1, t2}
  Sessions = {"s1"}
  KeyMaps <- OnlyDistinct
  Copies = 1
SPECIFICATION Spec
CHECK_DEADLOCK FALSE
INVARIANT NoUseAfterFree
