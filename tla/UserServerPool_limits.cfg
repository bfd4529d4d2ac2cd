SPECIFICATION Spec
CONSTANTS
  Users = {u1}
  Servers = {s1, s2, s3}
  Tasks = {t1, t2}
  Wrappers = {w1, w2, w3}
  Locks = {l1}
  Nothing = Nothing
  MaxPerUser = 1
  MaxTotal = 1
SYMMETRY Symmetry
INVARIANTS
  TypeOK
  LimitsWithSlack
