SPECIFICATION RSpec
CONSTANTS
  t1 = t1  t2 = t2  t3 = t3  s1 = s1  m1 = m1  m2 = m2  x1 = x1  NULL = NULL
  TSK = {t1, t2, t3}  SEM = {s1}  MTX = {m1, m2}  WOBJ = {x1}  MPF = {x1}
  TNUM_TPRI = 2  MAXSEM = 2  MAXNEST = 1  MAXBLK = 2  MAX_MUTEX = 3  MAXDEPTH = 2
  CFG <- ResourceConfigs
INVARIANTS WaitsOK MutexesOK PoolsOK LocksOK
PROPERTIES MutexesPass SemaphoresCount
CHECK_DEADLOCK FALSE
