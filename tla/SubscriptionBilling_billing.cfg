SPECIFICATION Spec
CONSTANTS
  Subs = {s1, s2}
  Users = {u1}
  Reported = {"active"}
  Trial = Trial
  None = None
  Tasks = {t1, t2}
  MaxEvents = 3
  MaxBroken = 1
SYMMETRY Symmetry
INVARIANTS TypeOK OneHandler AckedIsHandled PaidHasRow RowIsWhole InSync
PROPERTIES SeatsMatch
