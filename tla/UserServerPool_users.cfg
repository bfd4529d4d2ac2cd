SPECIFICATION Spec
CONSTANTS
  Users = {u1, u2}
  Servers = {s1}
  Tasks = {t1, t2}
  Wrappers = {w1, w2, w3}
  Locks = {l1, l2}
  Nothing = Nothing
  MaxPerUser = 1
  MaxTotal = 1
SYMMETRY Symmetry
INVARIANTS
  OwnServerOnly
  PooledIsOpen
