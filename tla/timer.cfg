SPECIFICATION Spec
CONSTANTS
  NULL = NULL  e1 = e1  e2 = e2  e3 = e3
  TMO = {e1}  ALM = {e2}  CYC = {e3}  TMEVTB = {e1, e2, e3}
  W = 13  BOUNDARY_MARGIN = 5  TCYC_HRTCNT = 4  TSTEP_HRTCNT = 1  HRTCNT_BOUND = 2  RATE = 2
  TMAX_ADJTIM = 1  RELTIM = {0, 3}  CYCTIM = 3  CYCPHS = 1  MAXLATE = 1  SYSTIMS = {20}
  CFG <- TimeConfigs
INVARIANTS EventsOK Timely
PROPERTIES ClocksOK
