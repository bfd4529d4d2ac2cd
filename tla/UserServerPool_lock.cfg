SPECIFICATION Spec
CONSTANTS
  Users = {u1}
  Servers = {s1}
  Tasks = {t1, t2}
  Wrappers = {w1, w2}
  Locks = {l1, l2}
  Nothing = Nothing
  MaxPerUser = 1
  MaxTotal = 1
SYMMETRY Symmetry
INVARIANTS
  OneStartPerServer
