SPECIFICATION Spec
CONSTANTS
  t1 = t1  t2 = t2  t3 = t3  NULL = NULL
  TSK = {t1, t2, t3}  SEM = {}  MTX = {}  WOBJ = {}
  TNUM_TPRI = 2  MAXSEM = 2  MAXNEST = 2
  CFG <- TaskConfigs
INVARIANTS TypeOK SchedulerOK TerminationOK TasksOK
PROPERTIES PlacesKept
