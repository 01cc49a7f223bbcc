SPECIFICATION TransportSpec
CONSTANTS
  m1 = m1  m2 = m2  g1 = g1  r1 = r1  r2 = r2  AUTO = AUTO
  Msgs = {m1, m2}  Gets = {g1}  Reps = {r1, r2}  SCENES <- HubScenes
  USHRT_MAX = 65535  RETRIES = 2  RESEND = 1  TWINWAIT = 1  CONNWAIT = 1  MSGTIMEOUT = 2
INVARIANTS ConnectionOK OnceEach
PROPERTIES PromiseKept
CHECK_DEADLOCK FALSE
