SPECIFICATION FairSpec
CONSTANTS
  Nil = Nil
  Managers = {m1, m2}
  Callers = {c1, c2}
  Tasks = {t1, t2}
  MaxFiles = 1
  MaxFailures = 1
INVARIANTS TypeOK OneIssuer IssuerFollowsSnapshot
PROPERTIES RefreshLosesNothing ShutdownLeavesNothing CallsReturn RenewalsAreNoticed
