CONSTANTS
  f = f
  g = g
  Flows = {f, g}
  Acts = {drop, output}
  Drop = drop
  None = None
  NoUkey = NoUkey
  Garbage = Garbage
  Kinds <- MCKinds
  MaxChanges = 1
  MaxFaults = 1
SPECIFICATION FairSpec
CHECK_DEADLOCK FALSE
INVARIANTS TypeOK StaleMarked FlowsTracked UkeysBacked
PROPERTY EventuallyRight
