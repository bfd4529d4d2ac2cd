SPECIFICATION Spec
CONSTANTS
  UserCreds = {c1, c2}
  OrgCreds = {o1}
  Keys = {k1, k2}
  FirstKey = k1
  LostKey = LostKey
  Orphans = {o1}
  Secrets = {x, y}
  Rotations = {m1, m2}
  BatchSize = 1
  MaxVersion = 2
SYMMETRY Symmetry
INVARIANTS TypeOK QuietRotationCompletes
PROPERTIES KeepsReadable KeepsSecrets
