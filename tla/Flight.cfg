\* Half pixels: two players near c1, c3, q3a and q3c and in the corner, one object in the pool.
SPECIFICATION FlightSpec
SYMMETRY Symmetry
CONSTANTS
  None = None
  Grain = 2
  Users = {u1, u2}
  Ids = {i1, i2}
  Objects = {o1, o2}
  PoolSize = 1
  Spots <- MCSpots
  Moves <- MCMoves
  Aims <- MCAims
  Arms <- MCArms
  InputBound = 2
  TickBound = 3
INVARIANTS
  FlightTypeOK
  NoTunnelling
  BlastComplete
  PoolExact
  InsideOrClear
