SPECIFICATION SSpec
CONSTANTS
  Subjects = {"shell"}
  NOTICE = NOTICE  DEBUG = DEBUG  f1 = f1  shell = shell  log = log  SHELL = SHELL  CMD = CMD
  LogBufferSize = 3  Priorities = {NOTICE, DEBUG}  Masks <- UsedMasks  MaxLog = 6
  Flushers = {f1}  Counts = {0, 1}  SendBufferSize = 3
  Tasks = {shell, log}  sendBufferSize = 2  receiveBufferSize = 3  MaxWritten = 4  PORTS <- AllPorts
  LASTFD = 1  MAXDATA = 2  TMO_FEVR = 3  TMAX_RELTIM = 1  Requests <- MixedRequests  Timeouts = {1, 3}
  FIRST = 3  LAST = 4  MAXINPUT = 2
  MESSAGE_COUNT = 2  MaxMessages = 5  Prompt = TRUE
  MS = 4  SEC = 2  keepAliveInterval = 3  MaxIdle = 7  MaxDown = 9  MaxSend = 2
  Jump = 0  MaySend = TRUE  LossWhilePinging = FALSE
  Base = 2  Packets <- UsedPackets  PINGRESP = 3  MAX_SEND_SIZE = 9  MidPacket = FALSE  MaxPackets = 3
PROPERTIES CtrlCEnds
CHECK_DEADLOCK FALSE
