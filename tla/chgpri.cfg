SPECIFICATION HSpec
CONSTANTS
  t1 = t1  t2 = t2  t3 = t3  NULL = NULL
  TSK = {t1, t2, t3}  SEM = {}  MTX = {}  WOBJ = {}
  TNUM_TPRI = 2  MAXSEM = 2  MAXNEST = 1
  CFG <- ChgPriConfigs
PROPERTIES InvalidFieldUnused
CHECK_DEADLOCK FALSE
