SPECIFICATION Spec
CONSTANTS
  Nil = Nil
  Instances = {p1, p2, p3}
  Reloads = {}
  Inodes = {i1, i2, i3}
  MaxReleases = 1
  MaxCrashes = 0
  MaxUnwritten = 0
SYMMETRY ProcessSymmetry
CHECK_DEADLOCK FALSE
INVARIANT OneInstance
