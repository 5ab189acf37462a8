CONSTANTS
  Threads = {t1, t2}
  Sessions = {"s1"}
  KeyMaps <- OnlyDistinct
  Copies = 2
SPECIFICATION Spec
CHECK_DEADLOCK FALSE
INVARIANTS EntryRefsExact NullExplained
