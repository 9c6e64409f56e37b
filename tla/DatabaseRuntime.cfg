\* Any handlers: what holds whatever they do, and what one lapse costs.  All
\* requests may have ended, or wait for a lock that a lapse has orphaned.
SPECIFICATION Spec
CONSTANTS
  s1 = s1
  a1 = a1
  a2 = a2
  c1 = c1
  r1 = r1
  w1 = w1
  w2 = w2
  Sync = {}
  Async = {a1, a2}
  Cycles = {c1}
  Restores = {r1}
  Workers = {w1, w2}
  Loop = Loop
  Spare = Spare
  None = None
  MaxExchanges = 1
INVARIANTS
  TransactionsKeepTheirDatabase
  WritersQueue
  NoOrphanedLock
PROPERTIES
  ImplementsGate
CHECK_DEADLOCK FALSE
