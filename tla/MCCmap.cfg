CONSTANTS
  na = na
  nb = nb
  nc = nc
  nd = nd
  ne = ne
  nf = nf
  Nodes = {na, nb, nc, nd, ne, nf}
  HashOf <- MCHashOf
  Null = Null
  Readers = {r1}
  K = 2
  HalfBits = 2
  Bases = {1, 2}
  HashFinish <- MCHashFinish
  MaxDepth = 4
  MaxLoad = 85
  MinLoad = 40
  Setups <- MCSetups
  MaxOps = 2
SPECIFICATION Spec
CHECK_DEADLOCK FALSE
INVARIANTS TypeOK OneChain RehashFits IterationOnce
PROPERTY Implements
