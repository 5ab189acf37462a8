CONSTANTS
  Pgws = {p1, p2}
  NoPgw = NoPgw
  MaxPgw = 2
  Threads = {t1}
  Sessions = {s1}
  Fields = {"ip", "eth", "sgi_port"}
SPECIFICATION Spec
CHECK_DEADLOCK FALSE
INVARIANT DeletedPgwDropped
