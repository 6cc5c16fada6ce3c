SPECIFICATION Spec
CONSTANTS
  Nil = Nil
  Instances = {p1, p2, p3}
  Reloads = {r1, r2}
  Inodes = {i1, i2, i3}
  MaxReleases = 3
  MaxCrashes = 2
  MaxUnwritten = 1
SYMMETRY ProcessSymmetry
\* every process runs once and ends
CHECK_DEADLOCK FALSE
INVARIANTS TypeOK OneInstanceUntilUnlinked RunningIsNamed
