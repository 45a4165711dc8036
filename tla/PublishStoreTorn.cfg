CONSTANTS
  i1 = i1  r1 = r1  x1 = x1
  Ids = {i1, i2}
  Records = {r1}
  Titles = {x1}
  Requests <- OnePhoto
  Threads = {t1, t2}
  Faults = {}
  MaxCrashes = 1
  None = None
  Torn = Torn
SPECIFICATION Spec
INVARIANTS IndexNeverTorn
