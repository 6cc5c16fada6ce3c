SPECIFICATION Spec
CONSTANTS
  Nil = Nil
  web = web
  tls = tls
  a1 = a1
  a2 = a2
  l1 = l1
  l2 = l2
  Names = {web, tls}
  Addrs = {a1, a2}
  Limits = {l1, l2}
  Configs <- ApplyConfigs
  Closers = {}
  Socks = {s1, s2, s3}
  MaxFaults = 1
  MaxForeign = 1
  MaxBusy = 0
SYMMETRY SlotSymmetry
INVARIANTS TypeOK RunningMatchesConfig NoOrphanedSocket HealthyMeansBound OnlyFaultsAreFailures
PROPERTIES KeptListenersUntouched SwitchIsAtomic LostOnlyToOtherProcesses
