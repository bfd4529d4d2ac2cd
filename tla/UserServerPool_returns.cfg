SPECIFICATION FairSpec
CONSTANTS
  Users = {u1}
  Servers = {s1, s2}
  Tasks = {t1, t2}
  Wrappers = {w1, w2}
  Locks = {l1}
  Nothing = Nothing
  MaxPerUser = 1
  MaxTotal = 1
PROPERTIES
  CallsReturn
