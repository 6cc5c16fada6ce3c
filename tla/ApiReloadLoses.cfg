SPECIFICATION Spec
CONSTANTS
  Nil = Nil
  Clients = {c1, c2}
  Sites = {a, b}
  Values = {v}
  MaxFailures = 0
  MaxCrashes = 0
  MaxEdits = 0
  MaxReloads = 1
SYMMETRY ApiSymmetry
INVARIANT FileMatchesApplied
