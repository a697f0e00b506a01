SPECIFICATION Spec
CONSTANTS
  n1 = n1
  Core = core
  Dicts = {core, d1, d2}
  Null = null
  Natives <- OneNative
  Threaded = {t1, t2}
  Foreigns = {f1}
  Bodies <- Compiled
  Plain = askforth
  Saved = {p1, p2}
  MaxProcs = 2
  MaxEffort = 5
SYMMETRY Exchange
INVARIANT LiteralsRelocated
CHECK_DEADLOCK FALSE
