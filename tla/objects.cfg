SPECIFICATION OSpec
CONSTANTS
  t1 = t1  t2 = t2  t3 = t3  f1 = f1  q1 = q1  p1 = p1  v1 = v1  v2 = v2  NULL = NULL
  TSK = {t1, t2, t3}  SEM = {}  MTX = {}  WOBJ <- Objects  FLG = {f1}  DTQ = {q1}  PDQ = {p1}
  BITS = {1, 2}  DATA = {v1, v2}  TMAX_DPRI = 2  MAXCNT = 2
  TNUM_TPRI = 2  MAXSEM = 1  MAXNEST = 1
  CFG <- ObjectConfigs
INVARIANTS ObjectsOK RingsOK
PROPERTIES ReleaseOK DataQueuesDeliver
CHECK_DEADLOCK FALSE
