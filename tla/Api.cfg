SPECIFICATION Spec
CONSTANTS
  Nil = Nil
  Clients = {c1, c2}
  Sites = {a, b}
  Values = {v}
  MaxFailures = 1
  MaxCrashes = 1
  MaxEdits = 1
  MaxReloads = 1
CONSTRAINT AtMostTwoTroubles
SYMMETRY ApiSymmetry
INVARIANTS TypeOK AcknowledgedIsDurable
PROPERTIES SaveWritesApplied
