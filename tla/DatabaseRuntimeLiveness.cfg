\* Disciplined handlers, and a pool that a synchronous request and a restore
\* exhaust while the upload of a coroutine needs a worker.  Behaviours stop when
\* all requests have ended, or in the jam.
SPECIFICATION DisciplinedSpec
CONSTANTS
  s1 = s1
  a1 = a1
  a2 = a2
  c1 = c1
  r1 = r1
  w1 = w1
  w2 = w2
  Sync = {s1}
  Async = {a1}
  Cycles = {}
  Restores = {r1}
  Workers = {w1, w2}
  Loop = Loop
  Spare = Spare
  None = None
  MaxExchanges = 1
PROPERTIES RequestsEndOrJam
CHECK_DEADLOCK FALSE
