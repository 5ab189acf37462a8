CONSTANTS
  Pgws = {p1}
  NoPgw = NoPgw
  MaxPgw = 3
  Threads = {t1, t2}
  Sessions = {}
  Fields = {"ip"}
SPECIFICATION FairSpec
CHECK_DEADLOCK FALSE
PROPERTY RoundRobin
