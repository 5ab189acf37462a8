SPECIFICATION Spec
CONSTANTS
  s1 = s1
  s2 = s2
  q1 = q1
  x1 = x1
  Switches <- MCSwitches
  Requests <- MCRequests
  SeqNum <- MCSeqNum
  Sessions <- MCSessions
  Eras <- MCEras
  Config <- MCConfig
  MaxRestart = 1
INVARIANTS TypeOK OneSwitchTakes SgwViewAgrees CrashesExplained
CHECK_DEADLOCK FALSE
