SPECIFICATION Spec
CONSTANTS
  Sids = {s1}
  Users = {u1, u2}
  Streams = {g1, g2}
  Helpers = {h}
  Posts = {p1, p2}
  Uris = {e}
  Chains = {{e}}
  None = None
  MaxTouches = 1
  MaxBatches = 2
  MaxFailures = 1
SYMMETRY Symmetry
INVARIANTS TypeOK NoOrphanQueue OwnStream
PROPERTY NoRowLost
