SPECIFICATION FairSpec
CONSTANTS
  Nil = Nil
  web = web
  tls = tls
  a1 = a1
  a2 = a2
  l1 = l1
  l2 = l2
  Names = {web, tls}
  Addrs = {a1, a2}
  Limits = {l1, l2}
  Configs <- OffConfigs
  Closers = {c1}
  Socks = {s1, s2}
  MaxFaults = 0
  MaxForeign = 0
  MaxBusy = 1
PROPERTIES ReplacedListenersFinish CallsReturn
