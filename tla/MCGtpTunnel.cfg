CONSTANTS
  Threads = {t1}
  Sessions = {"s1", "s2", "s3"}
  KeyMaps <- AnyKeys
  Copies = 2
SPECIFICATION Spec
CHECK_DEADLOCK FALSE
INVARIANTS TypeOK RestAccounted NoUseAfterFree FaultsExplained SessionBalance
