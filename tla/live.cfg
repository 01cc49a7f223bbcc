SPECIFICATION LiveSpec
CONSTANTS
  Subjects = {"log", "serial", "select", "shell", "keepalive", "timer"}
  NOTICE = NOTICE  DEBUG = DEBUG  f1 = f1  shell = shell  log = log  SHELL = SHELL  CMD = CMD
  LogBufferSize = 2  Priorities = {NOTICE, DEBUG}  Masks <- UsedMasks  MaxLog = 4
  Flushers = {f1}  Counts = {0, 1}  SendBufferSize = 2
  Tasks = {shell, log}  sendBufferSize = 2  receiveBufferSize = 3  MaxWritten = 4  PORTS <- LinesOnly
  LASTFD = 1  MAXDATA = 2  TMO_FEVR = 3  TMAX_RELTIM = 1  Requests <- OneToRead  Timeouts = {0, 1, 3}
  FIRST = 3  LAST = 3  MAXINPUT = 1
  MESSAGE_COUNT = 1  MaxMessages = 1  Prompt = TRUE
  MS = 2  SEC = 2  keepAliveInterval = 3  MaxIdle = 3  MaxDown = 6  MaxSend = 2
  Jump = 8  MaySend = FALSE  LossWhilePinging = FALSE
  Base = 2  Packets = {}  PINGRESP = 3  MAX_SEND_SIZE = 9  MidPacket = FALSE  MaxPackets = 0
  NULL = NULL  e1 = e1  e3 = e3  TMO = {e1}  ALM = {}  CYC = {e3}  TMEVTB = {e1, e3}
  W = 12  BOUNDARY_MARGIN = 4  TCYC_HRTCNT = 4  TSTEP_HRTCNT = 1  HRTCNT_BOUND = 2  RATE = 2
  TMAX_ADJTIM = 0  RELTIM = {0, 3}  CYCTIM = 3  CYCPHS = 1  MAXLATE = 1  SYSTIMS = {}
  CFG <- WaitConfigs
PROPERTIES OutputLeaves DataEndsTheWait PromptReturns SilenceNoticed Fires
CHECK_DEADLOCK FALSE
