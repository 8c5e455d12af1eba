SPECIFICATION Spec
CONSTANTS
  p1 = p1
  p2 = p2
  t1 = t1
  t2 = t2
  t3 = t3
  Procs = {p1, p2}
  Threads = {t1, t2, t3}
  Scripts = {t3}
  Home <- MCHome
  Keys = {"matchup", "alias"}
  NoKey = NoKey
  Canonical = {"matchup"}
  Ttl = 2
  Lag = 1
  MaxNow = 7
  MaxVersion = 1
INVARIANTS
  EntriesAgeOut
  NothingOlderThanSettled
PROPERTY
  ImplementsStaleRegister
